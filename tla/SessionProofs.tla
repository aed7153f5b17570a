---------------------------- MODULE SessionProofs ----------------------------
(***************************************************************************)
(* Lemmas about the operations of SessionController and of                 *)
(* SessionPersistence, for every value of their constants: what each       *)
(* method leaves in the fields that properties talk about, that it keeps a *)
(* session Sound, and what it leaves of a session for the disk.  The       *)
(* proofs about the modules that drive a session rest on them:             *)
(* SessionProtocol, PersistedSession and Headless.                         *)
(***************************************************************************)
EXTENDS SessionPersistence, SequenceTheorems, TLAPS

----------------------------------------------------------------------------
(***************************************************************************)
(* Typing of the parts of the controller record.                           *)
(***************************************************************************)
LEMMA ControllerFields ==
    ASSUME NEW c \in Controller
    PROVE  /\ c.stage \in Stage
           /\ c.op \in Operation
           /\ c.limits \in Limits
           /\ c.lastId \in Nat
           /\ c.revision \in Nat
           /\ c.preview \in Seq(Nat)
           /\ c.incomplete \in BOOLEAN
BY DEF Controller

(* The parts of an operation.                                              *)
LEMMA OpFields ==
    ASSUME NEW c \in Controller
    PROVE  /\ Pending(c) => /\ c.op.key \in Key
                            /\ c.op.work \in Work
                            /\ c.op.cancelled \in BOOLEAN
           /\ c.op.phase = "Failed" => c.op.work \in Work
BY DEF Controller, Operation, Pending, PendingPhase

(* The parts of a stage.                                                   *)
LEMMA StageFields ==
    ASSUME NEW c \in Controller
    PROVE  /\ HasGame(c) => /\ GameOf(c) \in Game
                            /\ c.stage = Playing(GameOf(c))
           /\ c.stage.at \in {"OutlineReview", "CastSelection"} =>
                 c.stage.outline \in Outline
           /\ c.stage.at = "OutlineReview" => c.stage = Reviewing(c.stage.outline)
           /\ c.stage.at = "CastSelection" => c.stage = Casting(c.stage.outline)
BY DEF Controller, Stage, HasGame, GameOf, Playing, Reviewing, Casting

(* An idle operation is well-formed.                                       *)
LEMMA IdleOps ==
    ASSUME NEW phase \in {"Ready", "Faulted", "Closed"}
    PROVE  Idle(phase) \in Operation /\ Idle(phase).phase = phase
BY DEF Idle, Operation

(* A running operation is well-formed and pending.                         *)
LEMMA RunningOps ==
    ASSUME NEW key \in Key, NEW work \in Work
    PROVE  /\ Running(key, work) \in Operation
           /\ Running(key, work).phase = "Running"
           /\ Running(key, work).key = key
           /\ Running(key, work).work = work
           /\ Running(key, work).cancelled = FALSE
BY DEF Running, Operation, PendingPhase

(* A failed operation is well-formed.                                      *)
LEMMA FailedOps ==
    ASSUME NEW work \in Work, NEW failure \in {"Generation", "Cancelled", "Worker"}
    PROVE  /\ Failed(work, failure) \in Operation
           /\ Failed(work, failure).phase = "Failed"
           /\ Failed(work, failure).work = work
BY DEF Failed, Operation

(* A pending operation that is told to stop stays well-formed.             *)
LEMMA StoppingOps ==
    ASSUME NEW c \in Controller, Pending(c), NEW phase \in {"Cancelling", "Closing"}
    PROVE  /\ Stopping(c.op, phase) \in Operation
           /\ Stopping(c.op, phase).phase = phase
           /\ Stopping(c.op, phase).key = c.op.key
           /\ Stopping(c.op, phase).work = c.op.work
           /\ Stopping(c.op, phase).cancelled = TRUE
<1>1. c.op \in [phase: PendingPhase, key: Key, work: Work, cancelled: BOOLEAN]
  BY DEF Controller, Operation, Pending, PendingPhase
<1>. QED
  BY <1>1 DEF Stopping, Operation, PendingPhase

(* The stages a controller may enter are well-formed.                      *)
LEMMA StageTypes ==
    /\ \A g \in Game : Playing(g) \in Stage /\ Playing(g).at = "Playing"
    /\ \A o \in Outline : /\ Reviewing(o) \in Stage
                          /\ Casting(o) \in Stage
                          /\ Reviewing(o).at = "OutlineReview"
                          /\ Casting(o).at = "CastSelection"
BY DEF Stage, Playing, Reviewing, Casting

(* A new game is well-formed.                                              *)
LEMMA NewGameType ==
    ASSUME NEW o \in Outline, NEW l \in Limits
    PROVE  NewGame(o, l) \in Game
BY DEF NewGame, Game

(* A game that is rewound is well-formed.                                  *)
LEMMA DropTurnsType ==
    ASSUME NEW g \in Game, NEW n \in 1 .. Len(g.turns)
    PROVE  DropTurns(g, n) \in Game
<1>1. g.turns \in Seq(Nat)
  BY DEF Game
<1>2. SubSeq(g.turns, 1, Len(g.turns) - n) \in Seq(Nat)
  BY <1>1, LenProperties, SubSeqProperties
<1>. QED
  BY <1>2 DEF DropTurns, Game

(* What a generation produces is well-formed.                              *)
LEMMA ProducedType ==
    ASSUME NEW key \in Key, NEW work \in Work
    PROVE  Produced(key, work) \in Stage
<1>1. CASE work.kind = "Outline"
  <2>1. [by |-> "generator", n |-> key.id] \in Outline
    BY DEF Outline, Key
  <2>. QED
    BY <1>1, <2>1, StageTypes DEF Produced
<1>2. CASE work.kind = "Cast"
  <2>1. work.outline \in Outline
    BY <1>2 DEF Work
  <2>. QED
    BY <1>2, <2>1, StageTypes DEF Produced
<1>3. CASE work.kind = "Turn"
  <2>1. work.game \in Game
    BY <1>3 DEF Work
  <2>2. Append(work.game.turns, key.id) \in Seq(Nat)
    BY <2>1, AppendProperties DEF Game, Key
  <2>3. [work.game EXCEPT !.turns = Append(@, key.id)] \in Game
    BY <2>1, <2>2 DEF Game
  <2>. QED
    BY <1>3, <2>3, StageTypes DEF Produced
<1>. QED
  BY <1>1, <1>2, <1>3 DEF Work

----------------------------------------------------------------------------
(***************************************************************************)
(* What each method leaves in the fields the properties talk about.        *)
(***************************************************************************)
SameStory(c, d) ==
    /\ d.stage = c.stage
    /\ d.revision = c.revision
    /\ d.lastId = c.lastId

(* A generation is started under a new key.                                *)
LEMMA StartEffect ==
    ASSUME NEW c \in Controller, NEW work \in Work
    PROVE  LET d == Start(c, work)
           IN  /\ d \in Controller
               /\ d.stage = c.stage
               /\ d.revision = c.revision
               /\ d.lastId = c.lastId + 1
               /\ d.op = Running(NextKey(c), work)
               /\ d.preview = <<>>
               /\ NextKey(c) \in Key
<1>1. NextKey(c) \in Key /\ NextKey(c).id = c.lastId + 1
  BY ControllerFields DEF NextKey, Key
<1>2. Running(NextKey(c), work) \in Operation
  BY <1>1, RunningOps
<1>3. NextKey(c).id \in Nat
  BY <1>1 DEF Key
<1>4. <<>> \in Seq(Nat)
  OBVIOUS
<1>. QED
  BY <1>1, <1>2, <1>3, <1>4 DEF Start, Controller

(* A generation that no thread took has failed, for the worker's fault.    *)
LEMMA DispatchFailedEffect ==
    ASSUME NEW c \in Controller, NEW key
    PROVE  LET d == DispatchFailed(c, key)
           IN  /\ d \in Controller
               /\ SameStory(c, d)
               /\ d.preview = c.preview
               /\ Active(c, key) => d.op = Failed(c.op.work, "Worker")
               /\ ~Active(c, key) => d = c
<1>1. CASE Active(c, key)
  <2>1. Failed(c.op.work, "Worker") \in Operation
    BY <1>1, OpFields, FailedOps DEF Active
  <2>. QED
    BY <1>1, <2>1 DEF DispatchFailed, Controller, SameStory
<1>2. CASE ~Active(c, key)
  BY <1>2 DEF DispatchFailed, SameStory
<1>. QED
  BY <1>1, <1>2

(* The four methods that change the story on the spot.                     *)
EditedInto(c, d, stage) ==
    /\ d \in Controller
    /\ d.stage = stage
    /\ d.revision = c.revision + 1
    /\ d.lastId = c.lastId
    /\ d.op = Idle("Ready")
    /\ d.preview \in {<<>>, c.preview}

(* The player's outline takes the place of the generated one.              *)
LEMMA ReplaceOutlineEffect ==
    ASSUME NEW c \in Controller
    PROVE  EditedInto(c, ReplaceOutline(c),
                      Reviewing([by |-> "player", n |-> c.revision + 1]))
<1>. DEFINE stage == Reviewing([by |-> "player", n |-> c.revision + 1])
            revision == c.revision + 1
            op == Idle("Ready")
<1>1. [by |-> "player", n |-> c.revision + 1] \in Outline
  BY ControllerFields DEF Outline
<1>2. stage \in Stage /\ revision \in Nat /\ op \in Operation
  BY <1>1, ControllerFields, StageTypes, IdleOps
<1>3. ReplaceOutline(c) = [c EXCEPT !.stage = stage, !.revision = revision, !.op = op]
  BY DEF ReplaceOutline
<1>. HIDE DEF stage, revision, op
<1>4. /\ ReplaceOutline(c) \in Controller
      /\ ReplaceOutline(c).stage = stage
      /\ ReplaceOutline(c).revision = revision
      /\ ReplaceOutline(c).lastId = c.lastId
      /\ ReplaceOutline(c).op = op
      /\ ReplaceOutline(c).preview = c.preview
  BY <1>2, <1>3 DEF Controller
<1>. QED
  BY <1>4 DEF EditedInto, stage, revision, op

(* A selection begins a game without turns.                                *)
LEMMA SelectEffect ==
    ASSUME NEW c \in Controller, c.stage.at = "CastSelection"
    PROVE  EditedInto(c, Select(c), Playing(NewGame(c.stage.outline, c.limits)))
<1>. DEFINE stage == Playing(NewGame(c.stage.outline, c.limits))
            revision == c.revision + 1
            op == Idle("Ready")
<1>1. NewGame(c.stage.outline, c.limits) \in Game
  BY StageFields, ControllerFields, NewGameType
<1>2. stage \in Stage /\ revision \in Nat /\ op \in Operation
  BY <1>1, ControllerFields, StageTypes, IdleOps
<1>3. Select(c) = [c EXCEPT !.stage = stage, !.revision = revision, !.op = op]
  BY DEF Select
<1>. HIDE DEF stage, revision, op
<1>4. /\ Select(c) \in Controller
      /\ Select(c).stage = stage
      /\ Select(c).revision = revision
      /\ Select(c).lastId = c.lastId
      /\ Select(c).op = op
      /\ Select(c).preview = c.preview
  BY <1>2, <1>3 DEF Controller
<1>. QED
  BY <1>4 DEF EditedInto, stage, revision, op

(* A rewind shortens the game.                                             *)
LEMMA RewindEffect ==
    ASSUME NEW c \in Controller, NEW n, CanRewind(c, n)
    PROVE  EditedInto(c, Rewind(c, n), Playing(DropTurns(GameOf(c), n)))
<1>. DEFINE stage == Playing(DropTurns(GameOf(c), n))
            revision == c.revision + 1
            op == Idle("Ready")
            empty == <<>>
<1>1. DropTurns(GameOf(c), n) \in Game
  BY StageFields, DropTurnsType DEF CanRewind
<1>2. stage \in Stage /\ revision \in Nat /\ op \in Operation /\ empty \in Seq(Nat)
  BY <1>1, ControllerFields, StageTypes, IdleOps
<1>3. Rewind(c, n) = [c EXCEPT !.stage = stage, !.revision = revision, !.op = op,
                               !.preview = empty]
  BY DEF Rewind
<1>. HIDE DEF stage, revision, op, empty
<1>4. /\ Rewind(c, n) \in Controller
      /\ Rewind(c, n).stage = stage
      /\ Rewind(c, n).revision = revision
      /\ Rewind(c, n).lastId = c.lastId
      /\ Rewind(c, n).op = op
      /\ Rewind(c, n).preview = empty
  BY <1>2, <1>3 DEF Controller
<1>. QED
  BY <1>4 DEF EditedInto, stage, revision, op, empty

(* A loaded game takes the place of whatever was there.                    *)
LEMMA ReplaceGameEffect ==
    ASSUME NEW c \in Controller, NEW g \in Game
    PROVE  EditedInto(c, ReplaceGame(c, g), Playing(g))
<1>. DEFINE stage == Playing(g)
            limits == g.limits
            revision == c.revision + 1
            op == Idle("Ready")
            empty == <<>>
<1>1. /\ stage \in Stage /\ revision \in Nat /\ op \in Operation
      /\ empty \in Seq(Nat) /\ limits \in Limits
  BY ControllerFields, StageTypes, IdleOps DEF Game
<1>2. ReplaceGame(c, g) = [c EXCEPT !.limits = limits, !.stage = stage,
                                    !.revision = revision, !.op = op,
                                    !.preview = empty, !.incomplete = FALSE]
  BY DEF ReplaceGame
<1>. HIDE DEF stage, limits, revision, op, empty
<1>3. /\ ReplaceGame(c, g) \in Controller
      /\ ReplaceGame(c, g).stage = stage
      /\ ReplaceGame(c, g).revision = revision
      /\ ReplaceGame(c, g).lastId = c.lastId
      /\ ReplaceGame(c, g).op = op
      /\ ReplaceGame(c, g).preview = empty
  BY <1>1, <1>2 DEF Controller
<1>. QED
  BY <1>3 DEF EditedInto, stage, revision, op, empty

(* The methods that leave the story alone and only move the operation on.  *)
SettledWith(c, d, op) ==
    /\ d \in Controller
    /\ SameStory(c, d)
    /\ d.op = op
    /\ d.preview = <<>>

(* A generation that settles leaves the story alone.                       *)
LEMMA SettleEffect ==
    ASSUME NEW c \in Controller, NEW op \in Operation
    PROVE  SettledWith(c, Settle(c, op), op)
<1>1. <<>> \in Seq(Nat)
  OBVIOUS
<1>. QED
  BY <1>1 DEF Settle, SettledWith, SameStory, Controller

(* A cancellation leaves the story alone.                                  *)
LEMMA CancelEffect ==
    ASSUME NEW c \in Controller
    PROVE  IF c.op.phase = "Running"
           THEN SettledWith(c, Cancel(c), Stopping(c.op, "Cancelling"))
           ELSE Cancel(c) = c
<1>1. CASE c.op.phase = "Running"
  <2>1. Stopping(c.op, "Cancelling") \in Operation
    BY <1>1, StoppingOps DEF Pending, PendingPhase
  <2>2. Cancel(c) = Settle(c, Stopping(c.op, "Cancelling"))
    BY <1>1 DEF Cancel, Settle
  <2>. QED
    BY <1>1, <2>1, <2>2, SettleEffect
<1>. QED
  BY <1>1 DEF Cancel

(* So does quitting.                                                       *)
LEMMA QuitEffect ==
    ASSUME NEW c \in Controller
    PROVE  SettledWith(c, Quit(c), IF Pending(c) THEN Stopping(c.op, "Closing")
                                                 ELSE Idle("Closed"))
<1>. DEFINE op == IF Pending(c) THEN Stopping(c.op, "Closing") ELSE Idle("Closed")
<1>1. op \in Operation
  BY StoppingOps, IdleOps
<1>2. Quit(c) = Settle(c, op)
  BY DEF Quit, Settle
<1>. QED
  BY <1>1, <1>2, SettleEffect

(* A piece of a preview: bytes of one request.                             *)
Bytes(n, id) == [i \in 1 .. n |-> id]

(* So does progress.                                                       *)
LEMMA ProgressEffect ==
    ASSUME NEW c \in Controller, NEW key \in Key, NEW bytes \in Nat,
           NEW incomplete \in BOOLEAN
    PROVE  LET d == Progress(c, key, bytes, incomplete)
           IN  /\ d \in Controller
               /\ SameStory(c, d)
               /\ d.op = c.op
               /\ \/ d.preview = c.preview
                  \/ /\ c.op.phase = "Running"
                     /\ c.op.key = key
                     /\ d.preview = c.preview \o Bytes(bytes, key.id)
<1>. DEFINE d == Progress(c, key, bytes, incomplete)
            fits == Len(c.preview) + bytes <= MaxPreview
            chunk == Bytes(bytes, key.id)
            preview == IF fits THEN c.preview \o chunk ELSE c.preview
            marked == c.incomplete \/ ~fits \/ incomplete
<1>1. CASE c.op.phase = "Running" /\ c.op.key = key /\ key.revision = c.revision
  <2>1. chunk \in Seq(Nat)
    BY DEF Key, Bytes
  <2>2. preview \in Seq(Nat)
    BY <2>1, ControllerFields, ConcatProperties
  <2>3. marked \in BOOLEAN
    OBVIOUS
  <2>4. d = [c EXCEPT !.preview = preview, !.incomplete = marked]
    BY <1>1 DEF Progress, Bytes
  <2>5. preview = c.preview \/ preview = c.preview \o chunk
    OBVIOUS
  <2>. HIDE DEF d, preview, marked, chunk
  <2>6. d \in Controller /\ SameStory(c, d) /\ d.op = c.op /\ d.preview = preview
    BY <2>2, <2>3, <2>4 DEF Controller, SameStory
  <2>. QED
    BY <1>1, <2>5, <2>6 DEF d, chunk
<1>2. CASE ~(c.op.phase = "Running" /\ c.op.key = key /\ key.revision = c.revision)
  BY <1>2 DEF Progress, SameStory
<1>. QED
  BY <1>1, <1>2

(* An answer that is committed is the next revision.                       *)
LEMMA CommitEffect ==
    ASSUME NEW c \in Controller, NEW stage \in Stage
    PROVE  EditedInto(c, Commit(c, stage), stage) /\ Commit(c, stage).preview = <<>>
<1>. DEFINE revision == c.revision + 1
            op == Idle("Ready")
            empty == <<>>
<1>1. revision \in Nat /\ op \in Operation /\ empty \in Seq(Nat)
  BY ControllerFields, IdleOps
<1>2. Commit(c, stage) = [c EXCEPT !.stage = stage, !.revision = revision, !.op = op,
                                   !.preview = empty]
  BY DEF Commit
<1>. HIDE DEF revision, op, empty
<1>3. /\ Commit(c, stage) \in Controller
      /\ Commit(c, stage).stage = stage
      /\ Commit(c, stage).revision = revision
      /\ Commit(c, stage).lastId = c.lastId
      /\ Commit(c, stage).op = op
      /\ Commit(c, stage).preview = empty
  BY <1>1, <1>2 DEF Controller
<1>. QED
  BY <1>3 DEF EditedInto, revision, op, empty

(* What a request may end as when its answer is not committed.             *)
Endings(c) ==
    {Idle("Closed"), Idle("Faulted")}
      \cup {Failed(c.op.work, f) : f \in {"Generation", "Cancelled", "Worker"}}

(* A generation may end in any of these.                                   *)
LEMMA EndingsAreOperations ==
    ASSUME NEW c \in Controller, Pending(c)
    PROVE  Endings(c) \subseteq Operation
BY OpFields, IdleOps, FailedOps DEF Endings

(* An answer commits, or leaves the story alone.                           *)
LEMMA CompleteEffect ==
    ASSUME NEW c \in Controller, NEW key \in Key, NEW outcome,
           outcome.result = "success" => outcome.stage \in Stage
    PROVE  LET d == Complete(c, key, outcome)
           IN  /\ ~Accepts(c, key) => d = c
               /\ Commits(c, key, outcome) => /\ EditedInto(c, d, outcome.stage)
                                              /\ d.preview = <<>>
               /\ Accepts(c, key) /\ ~Commits(c, key, outcome) =>
                     \E op \in Endings(c) : SettledWith(c, d, op)
<1>. DEFINE d == Complete(c, key, outcome)
<1>1. CASE ~Accepts(c, key)
  BY <1>1 DEF Complete, Commits
<1>2. CASE Commits(c, key, outcome)
  <2>1. Accepts(c, key) /\ outcome.stage \in Stage
    BY <1>2 DEF Commits
  <2>2. d = Commit(c, outcome.stage)
    BY <1>2, <2>1 DEF Complete, Commits, Stopped
  <2>. QED
    BY <1>2, <2>1, <2>2, CommitEffect
<1>3. CASE Accepts(c, key) /\ ~Commits(c, key, outcome)
  <2>1. \E op \in Endings(c) : d = Settle(c, op)
    BY <1>3 DEF Complete, Commits, Stopped, Endings
  <2>2. Endings(c) \subseteq Operation
    BY <1>3, EndingsAreOperations DEF Accepts, Active
  <2>. QED
    BY <1>3, <2>1, <2>2, SettleEffect
<1>. QED
  BY <1>1, <1>2, <1>3 DEF Commits

(* So does a worker lost to a panic.                                       *)
LEMMA WorkerFailedEffect ==
    ASSUME NEW c \in Controller, NEW key \in Key
    PROVE  LET d == WorkerFailed(c, key)
           IN  /\ ~Active(c, key) => d = c
               /\ Active(c, key) =>
                     /\ d \in Controller
                     /\ SameStory(c, d)
                     /\ d.op \in {Idle("Closed"), Idle("Faulted")}
                     /\ d.preview = <<>> \/ (/\ c.op.phase = "Closing"
                                             /\ d.preview = c.preview)
<1>. DEFINE d == WorkerFailed(c, key)
<1>0. Idle("Closed") \in Operation /\ Idle("Faulted") \in Operation
  BY IdleOps
<1>1. CASE ~Active(c, key)
  BY <1>1 DEF WorkerFailed
<1>2. CASE Active(c, key) /\ c.op.phase = "Closing"
  <2>1. d = [c EXCEPT !.op = Idle("Closed")]
    BY <1>2 DEF WorkerFailed
  <2>2. d \in Controller /\ SameStory(c, d) /\ d.op = Idle("Closed")
        /\ d.preview = c.preview
    BY <1>0, <2>1 DEF Controller, SameStory
  <2>. QED
    BY <1>2, <2>2
<1>3. CASE Active(c, key) /\ c.op.phase # "Closing"
  <2>1. d = Settle(c, Idle("Faulted"))
    BY <1>3 DEF WorkerFailed
  <2>. QED
    BY <1>0, <1>3, <2>1, SettleEffect DEF SettledWith
<1>. QED
  BY <1>1, <1>2, <1>3

----------------------------------------------------------------------------
(***************************************************************************)
(* The inductive invariant, first the part that is about the session p     *)
(* alone.                                                                  *)
(***************************************************************************)
StorageRuns(p) == p.storage.at = "Running"

(* Each thread works for the request the session waits for, and a pending  *)
(* generation is the newest one, for the story as it stands.               *)
Threads(p) ==
    /\ IF StorageRuns(p) THEN CurrentStorage(p, p.storage.key) ELSE StorageIdle(p)
    /\ p.worker.at = "Running" <=> Pending(p.ctl)
    /\ Pending(p.ctl) =>
          /\ p.worker.key = p.ctl.op.key
          /\ p.worker.work = p.ctl.op.work
          /\ p.ctl.op.key = [id |-> p.ctl.lastId, revision |-> p.ctl.revision]
          /\ HasNextRevision(p.ctl)
    /\ p.worker.at = "Faulted" => p.ctl.op.phase \in {"Faulted", "Closed"}

(* Generation only on a saved story, and the opening turn is owed only as  *)
(* long as it can still be taken.                                          *)
WorkFollowsSave(p) ==
    /\ Pending(p.ctl) => p.durability = "Clean" /\ StorageIdle(p)
    /\ p.deferredOpening =>
          /\ p.shutdown = "Open"
          /\ p.durability # "Clean"
          /\ GameOf(p.ctl).turns = <<>>
          /\ CanTakeTurn(p.ctl, "Continue")

(* How far the shutdown has come.                                          *)
ShutdownInOrder(p) ==
    /\ p.shutdown = "Open" => p.ctl.op.phase \notin {"Closing", "Closed"}
    /\ p.shutdown = "StoppingGeneration" => p.ctl.op.phase \in {"Closing", "Closed"}
    /\ p.shutdown \in {"SavingFinal", "DrainingOutput", "Closed"} => p.ctl.op.phase = "Closed"
    /\ p.shutdown \in {"Open", "StoppingGeneration"} => ~p.finalAttempted
    /\ p.shutdown = "SavingFinal" => p.finalAttempted
    /\ p.closing <=> p.shutdown \in {"DrainingOutput", "Closed"}
    /\ p.closing <=> p.storage.at = "Closed"
    /\ p.closing /\ HasGame(p.ctl) => p.closingWriteSatisfied \/ p.finalAttempted
    /\ p.closingWriteSatisfied =>
          p.shutdown # "Open" /\ p.durability = "Clean" /\ p.running.effect # "Save"

(* What admission has reserved is still there when it is needed.           *)
Reserved(p) ==
    /\ ~p.panicked
    /\ p.lastStorageId <= MaxStorageId
    /\ ~p.finalAttempted => p.lastStorageId < MaxStorageId
    /\ Pending(p.ctl) => CapacityFor(p, 1)
    /\ p.running.effect = "Save" /\ p.deferredOpening => CapacityFor(p, 1)
    /\ p.running.effect = "Load" /\ p.shutdown = "Open" =>
          CanReplaceGame(p.ctl) /\ CapacityFor(p, 1)

(* A write in doubt, the bytes kept for it and the story.                  *)
DoubtIsKept(p) ==
    /\ p.durability = "Uncertain" <=> p.retryWrite # NoRetry
    /\ p.retryWrite # NoRetry =>
          /\ p.retryWrite.revision = p.ctl.revision
          /\ p.retryWrite.pending.doc.game = GameOf(p.ctl)
    /\ p.running # NotRunning => p.running.prior = p.durability

(* What the storage thread was asked for is what the session waits for.    *)
SaveOps == {"Create", "Replace", "Reconcile"}

RequestFits(p, effect, intent) ==
    /\ effect = "Save" => intent.op \in SaveOps /\ HasGame(p.ctl)
    /\ effect = "Load" => intent.op = "Load" /\ p.durability = "Clean"
    /\ effect = "List" => intent.op = "List"
    /\ intent.op \in {"Create", "Replace"} => intent.game = GameOf(p.ctl)
    /\ intent.op = "Replace" => p.retryWrite = NoRetry
    /\ intent.op = "Reconcile" =>
          p.retryWrite # NoRetry /\ intent.pending = p.retryWrite.pending

(* What it has published, done and returned since.                         *)
ReplyFits(s) ==
    /\ s.evidence # NoAttempt => s.intent.op \in SaveOps
    /\ s.evidence # NoAttempt /\ s.intent.op = "Reconcile" => s.evidence = s.intent.pending
    /\ s.evidence # NoAttempt /\ s.intent.op \in {"Create", "Replace"} =>
          s.evidence.doc.game = s.intent.game /\ s.evidence.doc.stamp = s.key.id
    /\ s.applied => s.evidence # NoAttempt
    /\ s.result.is = "Saved" => s.applied /\ s.result.attempt = s.evidence
    /\ s.result.is = "Failed" /\ s.result.visibility # "Unchanged" => s.evidence # NoAttempt
    /\ s.result.is = "Failed" /\ s.result.visibility = "Unchanged" => ~s.applied
    /\ s.result.is = "Loaded" => s.intent.op = "Load"
    /\ s.result.is = "Listed" => s.intent.op = "List"

RequestIsCurrent(p) ==
    StorageRuns(p) =>
        /\ p.storage.key.id = p.lastStorageId /\ p.lastStorageId # 0
        /\ RequestFits(p, p.running.effect, p.storage.intent)
        /\ ReplyFits(p.storage)
        /\ p.running.pending \in {NoAttempt, p.storage.evidence}

Sound(p) ==
    /\ p \in Session
    /\ Threads(p)
    /\ WorkFollowsSave(p)
    /\ ShutdownInOrder(p)
    /\ Reserved(p)
    /\ DoubtIsKept(p)
    /\ RequestIsCurrent(p)

(* Faults are accounted for, those the session has yet to hear of too.     *)
Faulty(p) == p.workerFault \/ (p.worker.at = "Running" /\ p.worker.result = "panic")

----------------------------------------------------------------------------
(***************************************************************************)
(* Typing of the parts of the session record.                              *)
(***************************************************************************)
(* The fields of a session.                                                *)
LEMMA SessionFields ==
    ASSUME NEW p \in Session
    PROVE  /\ p.ctl \in Controller /\ p.worker \in Worker /\ p.storage \in Storage
           /\ p.closing \in BOOLEAN /\ p.binding \in Binding /\ p.durability \in Durability
           /\ p.running \in RunningStorage /\ p.lastStorageId \in Nat
           /\ p.retryWrite \in RetryWrite /\ p.deferredOpening \in BOOLEAN
           /\ p.shutdown \in Shutdown /\ p.finalAttempted \in BOOLEAN
           /\ p.closingWriteSatisfied \in BOOLEAN /\ p.workerFault \in BOOLEAN
           /\ p.panicked \in BOOLEAN
BY DEF Session

(* No attempt is told apart from an attempt by its document.               *)
LEMMA Attempts ==
    /\ NoAttempt \notin Attempt
    /\ \A a \in Attempt : /\ a.slot \in Slots /\ a.prev \in Nat /\ a.doc \in Doc
                          /\ a.doc.stamp \in Nat /\ a.doc.stamp # 0 /\ a.doc.game \in Game
BY DEF NoAttempt, NoDoc, Attempt, Doc

(* The request the session waits for.                                      *)
LEMMA RunningFields ==
    ASSUME NEW p \in Session
    PROVE  /\ p.running # NotRunning =>
                 /\ p.running.effect \in Effect
                 /\ p.running.key \in Key
                 /\ p.running.pending \in {NoAttempt} \cup Attempt
                 /\ p.running.prior \in Durability
           /\ p.running = NotRunning => p.running.effect = "None"
<1>1. p.running \in RunningStorage
  BY SessionFields
<1>. QED  BY <1>1 DEF RunningStorage, NotRunning

(* A request in progress: its thread.                                      *)
LEMMA StorageFields ==
    ASSUME NEW p \in Session
    PROVE  /\ p.storage.at \in {"Ready", "Faulted", "Closed", "Running"}
           /\ ~StorageRuns(p) => p.storage = At(p.storage.at)
           /\ StorageRuns(p) =>
                 /\ p.storage \in [at: {"Running"}, key: Key, intent: StorageIntent,
                                   cancelled: BOOLEAN, evidence: {NoAttempt} \cup Attempt,
                                   applied: BOOLEAN, result: StorageResult]
                 /\ p.storage.key \in Key /\ p.storage.intent \in StorageIntent
                 /\ p.storage.cancelled \in BOOLEAN /\ p.storage.applied \in BOOLEAN
                 /\ p.storage.evidence \in {NoAttempt} \cup Attempt
                 /\ p.storage.result \in StorageResult
<1>1. p.storage \in Storage
  BY SessionFields
<1>. QED  BY <1>1 DEF Storage, StorageRuns, At

(* The generation thread.                                                  *)
LEMMA WorkerFields ==
    ASSUME NEW p \in Session
    PROVE  /\ p.worker.at \in {"Ready", "Faulted", "Running"}
           /\ p.worker.at = "Running" =>
                 /\ p.worker \in [at: {"Running"}, key: Key, work: Work,
                                  result: {"nothing", "success", "failure", "panic"}]
                 /\ p.worker.key \in Key /\ p.worker.work \in Work
                 /\ p.worker.result \in {"nothing", "success", "failure", "panic"}
<1>1. p.worker \in Worker
  BY SessionFields
<1>. QED  BY <1>1 DEF Worker

(* The bytes kept for another try.                                         *)
LEMMA RetryFields ==
    ASSUME NEW p \in Session
    PROVE  /\ p.retryWrite # NoRetry =>
                 /\ p.retryWrite \in [revision: Nat, pending: Attempt]
                 /\ p.retryWrite.revision \in Nat
                 /\ p.retryWrite.pending \in Attempt
                 /\ p.retryWrite.pending # NoAttempt
           /\ p.retryWrite = NoRetry => p.retryWrite.pending = NoAttempt
<1>1. p.retryWrite \in RetryWrite
  BY SessionFields
<1>. QED  BY <1>1, Attempts DEF RetryWrite, NoRetry

(* A binding names a slot and a stamp.                                     *)
LEMMA BindingFields ==
    ASSUME NEW p \in Session, p.binding # Unbound
    PROVE  p.binding.slot \in Slots /\ p.binding.stamp \in Nat
<1>1. p.binding \in Binding
  BY SessionFields
<1>. QED  BY <1>1 DEF Binding

(* Making a binding.                                                       *)
LEMMA Bindings ==
    ASSUME NEW slot \in Slots, NEW stamp \in Nat
    PROVE  /\ Bound(slot, stamp) \in Binding /\ Bound(slot, stamp) # Unbound
           /\ Bound(slot, stamp).slot = slot /\ Bound(slot, stamp).stamp = stamp
<1>1. Bound(slot, stamp).at = "Bound"
  BY DEF Bound
<1>2. Unbound.at = "Unbound"
  BY DEF Unbound
<1>. QED  BY <1>1, <1>2 DEF Bound, Binding

----------------------------------------------------------------------------
(***************************************************************************)
(* Starting a generation.                                                  *)
(***************************************************************************)
(* The storage side of the session, and how far it has shut down.          *)
SameStorage(p, q) ==
    /\ q.storage = p.storage /\ q.running = p.running /\ q.lastStorageId = p.lastStorageId
    /\ q.retryWrite = p.retryWrite /\ q.binding = p.binding
    /\ q.durability = p.durability

SameShutdown(p, q) ==
    /\ q.shutdown = p.shutdown /\ q.closing = p.closing
    /\ q.finalAttempted = p.finalAttempted
    /\ q.closingWriteSatisfied = p.closingWriteSatisfied
    /\ q.panicked = p.panicked

(* The generation side alone is exchanged.                                 *)
Generates(p, q) ==
    /\ q \in Session
    /\ SameStorage(p, q)
    /\ SameShutdown(p, q)
    /\ q.deferredOpening = p.deferredOpening

(* The request is handed to a thread, or refused to the controller.        *)
LEMMA RuntimeStartEffect ==
    ASSUME NEW p \in Session, NEW work \in Work, NEW spawned \in BOOLEAN,
           p.worker.at = "Ready"
    PROVE  LET c == Start(p.ctl, work)
               q == RuntimeStart(p, c, spawned)
           IN  /\ Generates(p, q)
               /\ q.ctl.stage = p.ctl.stage /\ q.ctl.revision = p.ctl.revision
               /\ q.ctl.lastId = p.ctl.lastId + 1
               /\ spawned => /\ q.ctl = c
                             /\ q.ctl.op = Running(NextKey(p.ctl), work)
                             /\ q.worker.at = "Running" /\ q.worker.result = "nothing"
                             /\ q.worker.key = NextKey(p.ctl) /\ q.worker.work = work
                             /\ q.workerFault = p.workerFault
               /\ ~spawned => /\ q.ctl.op = Failed(work, "Worker")
                              /\ q.worker = p.worker
<1>. DEFINE c == Start(p.ctl, work)
            d == DispatchFailed(c, c.op.key)
            w == [at |-> "Running", key |-> c.op.key, work |-> c.op.work,
                  result |-> "nothing"]
<1>1. /\ c \in Controller /\ c.stage = p.ctl.stage /\ c.revision = p.ctl.revision
      /\ c.lastId = p.ctl.lastId + 1 /\ c.op = Running(NextKey(p.ctl), work)
      /\ NextKey(p.ctl) \in Key
  BY SessionFields, StartEffect
<1>2. c.op.key = NextKey(p.ctl) /\ c.op.work = work /\ c.op.phase = "Running"
  BY <1>1 DEF Running
<1>3. w \in Worker
  BY <1>1, <1>2 DEF Worker
<1>4. d \in Controller /\ SameStory(c, d) /\ d.op = Failed(work, "Worker")
  BY <1>1, <1>2, DispatchFailedEffect DEF Active, Pending, PendingPhase
<1>. HIDE DEF c, d, w
<1>5. CASE spawned
  <2>1. RuntimeStart(p, c, spawned) = [p EXCEPT !.ctl = c, !.worker = w]
    BY <1>5 DEF RuntimeStart, w
  <2>2. RuntimeStart(p, c, spawned)
          = [p EXCEPT !.ctl = c, !.worker = w, !.workerFault = p.workerFault]
    BY <2>1 DEF Session
  <2>3. w.at = "Running" /\ w.key = c.op.key /\ w.work = c.op.work /\ w.result = "nothing"
    BY DEF w
  <2>4. p.workerFault \in BOOLEAN
    BY SessionFields
  <2>. DEFINE q == RuntimeStart(p, c, spawned)
  <2>. HIDE DEF q
  <2>6. q = [p EXCEPT !.ctl = c, !.worker = w, !.workerFault = p.workerFault]
    BY <2>2 DEF q
  <2>5. Generates(p, q) /\ q.ctl = c /\ q.worker = w /\ q.workerFault = p.workerFault
    BY <1>1, <1>3, <2>6, <2>4 DEF Session, Generates, SameStorage, SameShutdown
  <2>. QED  BY <1>1, <1>2, <1>5, <2>3, <2>5 DEF c, q
<1>6. CASE ~spawned
  <2>1. RuntimeStart(p, c, spawned) = [p EXCEPT !.ctl = d, !.workerFault = TRUE]
    BY <1>6 DEF RuntimeStart, d
  <2>2. RuntimeStart(p, c, spawned)
          = [p EXCEPT !.ctl = d, !.worker = p.worker, !.workerFault = TRUE]
    BY <2>1 DEF Session
  <2>3. p.worker \in Worker
    BY SessionFields
  <2>. DEFINE q == RuntimeStart(p, c, spawned)
  <2>. HIDE DEF q
  <2>6. q = [p EXCEPT !.ctl = d, !.worker = p.worker, !.workerFault = TRUE]
    BY <2>2 DEF q
  <2>4. Generates(p, q) /\ q.ctl = d /\ q.worker = p.worker
    BY <1>4, <2>6, <2>3 DEF Session, Generates, SameStorage, SameShutdown
  <2>. QED  BY <1>1, <1>4, <1>6, <2>4 DEF c, SameStory, q
<1>. QED  BY <1>5, <1>6

(* A generation may be started on a saved story, with room to save it.     *)
MayGenerate(p) ==
    /\ p.shutdown = "Open" /\ StorageIdle(p) /\ p.durability = "Clean"
    /\ CapacityFor(p, 1) /\ CanStart(p.ctl)

(* The story stays as it is, and so does what is known of faults unless    *)
(* the thread could not be started.                                        *)
LEMMA RuntimeStartSound ==
    ASSUME NEW p, Sound(p), NEW work \in Work, NEW spawned \in BOOLEAN, MayGenerate(p)
    PROVE  LET q == RuntimeStart(p, Start(p.ctl, work), spawned)
           IN  /\ Sound(q) /\ Generates(p, q) /\ q.ctl.stage = p.ctl.stage
               /\ spawned => (Faulty(q) => Faulty(p))
<1>. DEFINE q == RuntimeStart(p, Start(p.ctl, work), spawned)
<1>0. p \in Session /\ Ready(p.ctl) /\ ~Pending(p.ctl)
  BY DEF Sound, MayGenerate, CanStart, Ready, Pending, PendingPhase
<1>1. p.worker.at = "Ready"
  BY <1>0, WorkerFields DEF Sound, Threads, Ready
<1>2. /\ Generates(p, q)
      /\ q.ctl.stage = p.ctl.stage /\ q.ctl.revision = p.ctl.revision
      /\ q.ctl.lastId = p.ctl.lastId + 1
      /\ spawned => /\ q.ctl.op = Running(NextKey(p.ctl), work)
                    /\ q.worker.at = "Running" /\ q.worker.result = "nothing"
                    /\ q.worker.key = NextKey(p.ctl) /\ q.worker.work = work
                    /\ q.workerFault = p.workerFault
      /\ ~spawned => q.ctl.op = Failed(work, "Worker") /\ q.worker = p.worker
  BY <1>0, <1>1, RuntimeStartEffect
<1>3. NextKey(p.ctl) \in Key /\ p.ctl.lastId \in Nat
  BY <1>0, SessionFields, ControllerFields, StartEffect
<1>4. /\ spawned => q.ctl.op.phase = "Running" /\ q.ctl.op.key = NextKey(p.ctl)
                    /\ q.ctl.op.work = work
      /\ ~spawned => q.ctl.op.phase = "Failed"
  BY <1>2 DEF Running, Failed
<1>5. ~p.deferredOpening /\ p.retryWrite = NoRetry /\ ~StorageRuns(p)
  BY <1>0 DEF Sound, MayGenerate, WorkFollowsSave, DoubtIsKept, Threads, CurrentStorage,
              StorageIdle
<1>. HIDE DEF q
<1>6. Threads(q)
  BY <1>1, <1>2, <1>3, <1>4, <1>5
  DEF Sound, Threads, Generates, SameStorage, StorageRuns, StorageIdle, Pending, PendingPhase,
      MayGenerate, CanStart, HasNextRevision, NextKey
<1>7. WorkFollowsSave(q)
  BY <1>5, <1>2 DEF WorkFollowsSave, Generates, SameStorage, MayGenerate, StorageIdle
<1>8. ShutdownInOrder(q)
  BY <1>2, <1>4
  DEF Sound, ShutdownInOrder, Generates, SameStorage, SameShutdown, MayGenerate, HasGame
<1>9. Reserved(q)
  BY <1>2, <1>5
  DEF Sound, Reserved, Generates, SameStorage, SameShutdown, MayGenerate, CapacityFor,
      StorageIdle, NotRunning
<1>10. DoubtIsKept(q)
  BY <1>2, <1>5 DEF Sound, DoubtIsKept, Generates, SameStorage
<1>11. RequestIsCurrent(q)
  BY <1>2, <1>5 DEF RequestIsCurrent, StorageRuns, Generates, SameStorage
<1>12. spawned => (Faulty(q) => Faulty(p))
  BY <1>2 DEF Faulty
<1>. QED
  BY <1>2, <1>6, <1>7, <1>8, <1>9, <1>10, <1>11, <1>12 DEF Sound, Generates, q

----------------------------------------------------------------------------
(***************************************************************************)
(* Starting a save, a load or a listing.                                   *)
(***************************************************************************)
(* The storage request alone is exchanged.                                 *)
Stores(p, q) ==
    /\ q \in Session
    /\ q.ctl = p.ctl /\ q.worker = p.worker /\ q.workerFault = p.workerFault
    /\ q.binding = p.binding /\ q.retryWrite = p.retryWrite
    /\ q.deferredOpening = p.deferredOpening
    /\ SameShutdown(p, q)

(* A thread is started for the request, or none.                           *)
Requested(p, q, effect, intent) ==
    /\ q.durability = p.durability
    /\ q.running # NotRunning
    /\ q.running.effect = effect /\ q.running.prior = p.durability
    /\ q.running.pending = NoAttempt
    /\ q.running.key = [id |-> p.lastStorageId + 1, revision |-> p.ctl.revision]
    /\ StorageRuns(q)
    /\ q.storage.key = q.running.key /\ q.storage.intent = intent
    /\ q.storage.evidence = NoAttempt /\ ~q.storage.applied /\ q.storage.result = NoResult
    /\ ~q.storage.cancelled

Refused(p, q, effect) ==
    /\ q.durability = IF effect = "Save" THEN DurabilityAfter("Unchanged", p.durability)
                      ELSE p.durability
    /\ q.running = NotRunning
    /\ q.storage = At("Ready")

(* What a request leaves behind, made or refused.                          *)
LEMMA StartStorageEffect ==
    ASSUME NEW p \in Session, NEW effect \in Effect, NEW intent \in StorageIntent,
           NEW spawned \in BOOLEAN, p.storage.at \in {"Ready", "Faulted"}, ~p.closing
    PROVE  LET q == StartStorage(p, effect, intent, spawned)
           IN  /\ Stores(p, q)
               /\ q.lastStorageId = p.lastStorageId + 1
               /\ spawned => Requested(p, q, effect, intent)
               /\ ~spawned => Refused(p, q, effect)
<1>. DEFINE key == [id |-> p.lastStorageId + 1, revision |-> p.ctl.revision]
            run == [effect |-> effect, key |-> key, pending |-> NoAttempt,
                    prior |-> p.durability]
            ready == At("Ready")
            thread == [at |-> "Running", key |-> key, intent |-> intent,
                       cancelled |-> FALSE, evidence |-> NoAttempt,
                       applied |-> FALSE, result |-> NoResult]
            r == [p EXCEPT !.lastStorageId = key.id, !.running = run, !.storage = ready]
            q == StartStorage(p, effect, intent, spawned)
<1>1. /\ key \in Key /\ key.id = p.lastStorageId + 1 /\ key.revision = p.ctl.revision
      /\ key.id \in Nat
  BY SessionFields, ControllerFields DEF Key
<1>2. /\ run \in RunningStorage /\ run # NotRunning
      /\ run.effect = effect /\ run.key = key /\ run.pending = NoAttempt
      /\ run.prior = p.durability
  BY <1>1, SessionFields DEF RunningStorage, NotRunning, Effect
<1>3. /\ ready \in Storage
      /\ p.storage.at = "Ready" => p.storage = ready
  BY StorageFields DEF Storage, At, StorageRuns
<1>4. NoResult \in StorageResult
  BY DEF StorageResult
<1>5. /\ thread \in Storage /\ thread.at = "Running" /\ thread.key = key
      /\ thread.intent = intent /\ thread.evidence = NoAttempt /\ ~thread.applied
      /\ thread.result = NoResult /\ ~thread.cancelled
  BY <1>1, <1>4 DEF Storage
<1>6. q = IF spawned THEN [r EXCEPT !.storage = thread]
          ELSE AcceptFailure(r, key, "Unchanged", NoAttempt)
  <2>. DEFINE recovered == IF ~p.closing /\ p.storage.at = "Faulted" THEN At("Ready")
                           ELSE p.storage
  <2>1. recovered = ready
    BY <1>3, StorageFields DEF StorageRuns
  <2>2. ready.at = "Ready"
    BY DEF At
  <2>. HIDE DEF recovered, ready, thread, run, key
  <2>3. q = LET k == key
                s == [p EXCEPT !.lastStorageId = k.id, !.running = run, !.storage = recovered]
            IN  IF recovered.at = "Ready" /\ ~p.closing /\ spawned
                THEN [s EXCEPT !.storage = thread]
                ELSE AcceptFailure(s, k, "Unchanged", NoAttempt)
    BY DEF StartStorage, recovered, ready, thread, run, key
  <2>. QED  BY <2>1, <2>2, <2>3
<1>. HIDE DEF key, run, ready, thread
<1>7. /\ Stores(p, r) /\ r.durability = p.durability /\ r.lastStorageId = p.lastStorageId + 1
      /\ r.running = run /\ r.storage = ready
  <2>. DEFINE id == key.id
  <2>1. r = [p EXCEPT !.lastStorageId = id, !.running = run, !.storage = ready]
    OBVIOUS
  <2>2. id \in Nat /\ id = p.lastStorageId + 1
    BY <1>1
  <2>. HIDE DEF r, id
  <2>3. r \in Session
    BY <1>2, <1>3, <2>1, <2>2 DEF Session
  <2>. QED  BY <1>2, <1>3, <2>1, <2>2, <2>3 DEF Session, Stores, SameShutdown
<1>. HIDE DEF r, q
<1>8. CASE spawned
  <2>1. q = [r EXCEPT !.storage = thread]
    BY <1>6, <1>8
  <2>2. q \in Session
    BY <1>5, <1>7, <2>1 DEF Session, Stores
  <2>3. /\ Stores(p, q) /\ q.durability = p.durability
        /\ q.lastStorageId = p.lastStorageId + 1 /\ q.running = run /\ q.storage = thread
    BY <1>7, <2>1, <2>2 DEF Session, Stores, SameShutdown
  <2>. QED  BY <1>2, <1>5, <1>8, <2>3 DEF Requested, StorageRuns, key, q
<1>9. CASE ~spawned
  <2>. DEFINE u == [r EXCEPT !.running = NotRunning]
              after == DurabilityAfter("Unchanged", p.durability)
              v == [u EXCEPT !.durability = after, !.retryWrite = u.retryWrite]
  <2>1. NotRunning \in RunningStorage /\ after \in Durability
    BY DEF RunningStorage, DurabilityAfter, Durability
  <2>2. /\ Stores(p, u) /\ u.durability = p.durability
        /\ u.lastStorageId = p.lastStorageId + 1 /\ u.running = NotRunning
        /\ u.storage = ready
    BY <1>7, <2>1 DEF Session, Stores, SameShutdown
  <2>3. CurrentStorage(r, key)
    BY <1>1, <1>2, <1>7 DEF CurrentStorage, Stores
  <2>4. q = IF effect = "Save" THEN SaveFailed(u, run, "Unchanged", NoAttempt) ELSE u
    BY <1>2, <1>6, <1>7, <1>9, <2>3 DEF AcceptFailure
  <2>. HIDE DEF u, after
  <2>5. SaveFailed(u, run, "Unchanged", NoAttempt) = v
    BY <1>2 DEF SaveFailed, after
  <2>6. /\ Stores(p, v) /\ v.durability = after
        /\ v.lastStorageId = p.lastStorageId + 1 /\ v.running = NotRunning
        /\ v.storage = ready
    BY <2>1, <2>2 DEF Session, Stores, SameShutdown
  <2>. QED  BY <1>9, <2>2, <2>4, <2>5, <2>6 DEF Refused, ready, after, q
<1>. QED  BY <1>8, <1>9 DEF q

(* A request may be made if nothing else is under way, and with room for   *)
(* what will have to be saved behind it.                                   *)
MayStore(p, effect) ==
    /\ StorageIdle(p) /\ ~p.closing /\ ~Pending(p.ctl)
    /\ CapacityFor(p, 1) \/ (p.finalAttempted /\ p.lastStorageId < MaxStorageId)
    /\ effect = "Save" => ~p.closingWriteSatisfied
    /\ p.deferredOpening /\ effect = "Save" => CapacityFor(p, 2)
    /\ effect = "Load" => CanReplaceGame(p.ctl) /\ CapacityFor(p, 2)

(* No thread is left when the session waits for none.                      *)
LEMMA IdleStorage ==
    ASSUME NEW p, Sound(p), StorageIdle(p), ~p.closing
    PROVE  ~StorageRuns(p) /\ p.storage.at \in {"Ready", "Faulted"}
<1>1. p \in Session
  BY DEF Sound
<1>2. ~StorageRuns(p)
  BY DEF Sound, Threads, CurrentStorage, StorageIdle
<1>3. p.storage.at # "Closed"
  BY DEF Sound, ShutdownInOrder
<1>. QED  BY <1>1, <1>2, <1>3, StorageFields DEF StorageRuns

(* A request that is made or refused leaves a sound session.               *)
LEMMA StartStorageSound ==
    ASSUME NEW p, Sound(p), NEW effect \in Effect, NEW intent \in StorageIntent,
           NEW spawned \in BOOLEAN, MayStore(p, effect), RequestFits(p, effect, intent)
    PROVE  LET q == StartStorage(p, effect, intent, spawned)
           IN  /\ Sound(q)
               /\ Stores(p, q)
               /\ q.lastStorageId = p.lastStorageId + 1
               /\ spawned => Requested(p, q, effect, intent)
               /\ ~spawned => Refused(p, q, effect)
<1>. DEFINE q == StartStorage(p, effect, intent, spawned)
<1>0. p \in Session /\ ~StorageRuns(p) /\ p.storage.at \in {"Ready", "Faulted"}
      /\ ~p.closing /\ p.lastStorageId \in Nat /\ MaxStorageId \in Nat
      /\ p.durability \in Durability
  BY IdleStorage, SessionFields, PersistenceAssumption DEF MayStore, Sound
<1>1. /\ Stores(p, q)
      /\ q.lastStorageId = p.lastStorageId + 1
      /\ spawned => Requested(p, q, effect, intent)
      /\ ~spawned => Refused(p, q, effect)
  BY <1>0, StartStorageEffect
<1>. HIDE DEF q
<1>2. /\ q.durability = p.durability \/ (p.durability # "Uncertain" /\ q.durability = "Dirty")
      /\ StorageRuns(q) => spawned
  BY <1>0, <1>1 DEF Requested, Refused, DurabilityAfter, StorageRuns, At, Durability
<1>3. ~Pending(q.ctl)
  BY <1>1 DEF Stores, MayStore
<1>4. Threads(q)
  <2>1. IF StorageRuns(q) THEN CurrentStorage(q, q.storage.key) ELSE StorageIdle(q)
    BY <1>1, <1>2
    DEF Requested, Refused, Stores, CurrentStorage, StorageIdle, StorageRuns, At
  <2>. QED  BY <1>1, <1>3, <2>1 DEF Sound, Threads, Stores
<1>5. WorkFollowsSave(q)
  BY <1>1, <1>2, <1>3 DEF Sound, WorkFollowsSave, Stores, SameShutdown
<1>10. q.running.effect = effect \/ q.running.effect = "None"
  BY <1>1 DEF Requested, Refused, NotRunning
<1>6. ShutdownInOrder(q)
  <2>1. effect # "Save" => q.durability = p.durability
    BY <1>1 DEF Requested, Refused
  <2>. QED
    BY <1>0, <1>1, <1>2, <1>10, <2>1
    DEF Sound, ShutdownInOrder, Stores, SameShutdown, Requested, Refused, At, StorageRuns,
        MayStore
<1>7. Reserved(q)
    BY <1>0, <1>1, <1>3, <1>10
    DEF Sound, Reserved, Stores, SameShutdown, MayStore, CapacityFor, Effect
<1>8. DoubtIsKept(q)
  BY <1>1, <1>2 DEF Sound, DoubtIsKept, Stores, Requested, Refused
<1>9. RequestIsCurrent(q)
  <2>1. SUFFICES ASSUME spawned
                 PROVE  RequestIsCurrent(q)
    BY <1>2 DEF RequestIsCurrent
  <2>2. RequestFits(q, effect, intent)
    BY <1>1, <2>1 DEF RequestFits, Stores, Requested
  <2>3. ReplyFits(q.storage)
    BY <1>1, <2>1 DEF ReplyFits, Requested, NoResult
  <2>. QED  BY <1>0, <1>1, <2>1, <2>2, <2>3 DEF RequestIsCurrent, Requested
<1>. QED
  BY <1>1, <1>4, <1>5, <1>6, <1>7, <1>8, <1>9 DEF Sound, Stores, q

(* What is asked of the thread when the story is to be saved.              *)
LEMMA SaveIntentFits ==
    ASSUME NEW p, Sound(p), HasGame(p.ctl), NEW copy \in BOOLEAN
    PROVE  /\ SaveIntent(p, copy) \in StorageIntent
           /\ RequestFits(p, "Save", SaveIntent(p, copy))
<1>1. p \in Session /\ GameOf(p.ctl) \in Game
  BY SessionFields, StageFields DEF Sound
<1>2. CASE ~copy /\ RetriesWrite(p)
  <2>1. SaveIntent(p, copy) = [op |-> "Reconcile", pending |-> p.retryWrite.pending]
    BY <1>2 DEF SaveIntent
  <2>2. p.retryWrite.pending \in Attempt /\ p.retryWrite # NoRetry
    BY <1>1, <1>2, RetryFields DEF RetriesWrite
  <2>. QED  BY <2>1, <2>2 DEF StorageIntent, RequestFits, SaveOps
<1>3. CASE ~copy /\ ~RetriesWrite(p) /\ p.binding # Unbound
  <2>1. SaveIntent(p, copy) = [op |-> "Replace", slot |-> p.binding.slot,
                               expected |-> p.binding.stamp, game |-> GameOf(p.ctl)]
    BY <1>3 DEF SaveIntent
  <2>2. p.binding.slot \in Slots /\ p.binding.stamp \in Nat
    BY <1>1, <1>3, BindingFields
  <2>3. p.retryWrite = NoRetry
    BY <1>3 DEF Sound, DoubtIsKept, RetriesWrite
  <2>. QED  BY <1>1, <2>1, <2>2, <2>3 DEF StorageIntent, RequestFits, SaveOps
<1>4. CASE copy \/ (~RetriesWrite(p) /\ p.binding = Unbound)
  <2>1. SaveIntent(p, copy) = [op |-> "Create", game |-> GameOf(p.ctl)]
    BY <1>4 DEF SaveIntent
  <2>. QED  BY <1>1, <2>1 DEF StorageIntent, RequestFits, SaveOps
<1>. QED  BY <1>2, <1>3, <1>4

(* The story is handed to the storage thread, or its save is refused.      *)
LEMMA WriteSound ==
    ASSUME NEW p, Sound(p), HasGame(p.ctl), MayStore(p, "Save"),
           NEW copy \in BOOLEAN, NEW spawned \in BOOLEAN
    PROVE  LET q == Write(p, copy, spawned)
           IN  /\ Sound(q)
               /\ Stores(p, q)
               /\ q.lastStorageId = p.lastStorageId + 1
               /\ spawned => Requested(p, q, "Save", SaveIntent(p, copy))
               /\ ~spawned => Refused(p, q, "Save")
<1>1. "Save" \in Effect
  BY DEF Effect
<1>2. SaveIntent(p, copy) \in StorageIntent /\ RequestFits(p, "Save", SaveIntent(p, copy))
  BY SaveIntentFits
<1>. QED  BY <1>1, <1>2, StartStorageSound DEF Write

----------------------------------------------------------------------------
(***************************************************************************)
(* Polling the generation thread.                                          *)
(***************************************************************************)
(* For the disk a step is quiet if binding and bytes kept stay, no story   *)
(* becomes clean, no doubt is dropped, and at most a new request begins.   *)
Quiet(p, q) ==
    /\ q.binding = p.binding /\ q.retryWrite = p.retryWrite
    /\ HasGame(q.ctl) /\ q.durability = "Clean" =>
          HasGame(p.ctl) /\ p.durability = "Clean" /\ GameOf(q.ctl) = GameOf(p.ctl)
    /\ q.durability # "Uncertain" => p.durability # "Uncertain"
    /\ \/ q.storage = p.storage /\ q.lastStorageId = p.lastStorageId
       \/ /\ ~StorageRuns(p)
          /\ StorageRuns(q) => /\ q.storage.evidence = NoAttempt
                               /\ ~q.storage.applied
                               /\ q.storage.result = NoResult
                               /\ q.lastStorageId = p.lastStorageId + 1
                               /\ q.lastStorageId <= MaxStorageId
          /\ p.lastStorageId <= q.lastStorageId

(* A request that was just handed over: nothing published, no reply.       *)
Fresh(s) == s.evidence = NoAttempt /\ s.result = NoResult

(* The answer of a thread that did not panic.                              *)
LEMMA AnswerEffect ==
    ASSUME NEW p, Sound(p), p.worker.at = "Running", p.worker.result \in {"success", "failure"}
    PROVE  LET c == p.ctl
               o == Outcome(p.worker)
               d == Complete(c, p.worker.key, o)
           IN  /\ Commits(c, p.worker.key, o) =>
                     /\ EditedInto(c, d, Produced(c.op.key, c.op.work))
                     /\ c.op.phase = "Running"
                     /\ p.worker.result = "success"
               /\ ~Commits(c, p.worker.key, o) =>
                     /\ d \in Controller /\ SameStory(c, d)
                     /\ d.op = IF c.op.phase = "Closing" THEN Idle("Closed")
                               ELSE Failed(c.op.work, IF Stopped(c) THEN "Cancelled"
                                                      ELSE "Generation")
<1>. DEFINE c == p.ctl
            key == p.worker.key
            o == Outcome(p.worker)
            d == Complete(c, key, o)
<1>1. p \in Session /\ c \in Controller
  BY SessionFields DEF Sound
<1>2. /\ Pending(c) /\ key = c.op.key /\ p.worker.work = c.op.work
      /\ c.op.key.revision = c.revision
      /\ key \in Key /\ c.op.work \in Work
  BY <1>1, WorkerFields DEF Sound, Threads
<1>3. Accepts(c, key)
  BY <1>2 DEF Accepts, Active
<1>4. /\ p.worker.result = "success" => o.result = "success" /\ o.stage = Produced(key, c.op.work)
      /\ p.worker.result = "failure" => o.result = "failure"
  BY <1>2 DEF Outcome, Success, Failure
<1>5. o.result = "success" => o.stage \in Stage
  BY <1>2, <1>4, ProducedType
<1>6. CASE Commits(c, key, o)
  <2>1. EditedInto(c, d, o.stage)
    BY <1>1, <1>2, <1>5, <1>6, CompleteEffect
  <2>. QED  BY <1>2, <1>4, <1>6, <2>1 DEF Commits
<1>7. CASE ~Commits(c, key, o)
  <2>1. \E op \in Endings(c) : SettledWith(c, d, op)
    BY <1>1, <1>2, <1>3, <1>5, <1>7, CompleteEffect
  <2>2. d \in Controller /\ SameStory(c, d)
    BY <2>1 DEF SettledWith
  <2>3. d = IF c.op.phase = "Closing" THEN Settle(c, Idle("Closed"))
            ELSE IF Stopped(c) THEN Settle(c, Failed(c.op.work, "Cancelled"))
            ELSE Settle(c, IF o.result = "failure" THEN Failed(c.op.work, "Generation")
                           ELSE Idle("Faulted"))
    <3>. HIDE DEF o, key
    <3>. QED  BY <1>3, <1>7 DEF Complete, Stopped
  <2>4. c.op.phase # "Closing" /\ ~Stopped(c) => o.result = "failure"
    BY <1>2, <1>3, <1>4, <1>7 DEF Commits, Stopped, Pending, PendingPhase
  <2>5. \A op : Settle(c, op).op = op
    BY <1>1 DEF Settle, Controller
  <2>6. d.op = IF c.op.phase = "Closing" THEN Idle("Closed")
               ELSE Failed(c.op.work, IF Stopped(c) THEN "Cancelled" ELSE "Generation")
    BY <2>3, <2>4, <2>5
  <2>. QED  BY <1>7, <2>2, <2>6
<1>. QED  BY <1>6, <1>7

(* As long as the generation thread is at work, the session waits for it   *)
(* and does nothing else.                                                  *)
WaitsForWorker(p) ==
    LET c == p.ctl
    IN  /\ Pending(c) /\ StorageIdle(p) /\ p.durability = "Clean" /\ CapacityFor(p, 1)
        /\ ~p.deferredOpening /\ p.retryWrite = NoRetry
        /\ Active(c, p.worker.key) /\ p.worker.key \in Key /\ p.worker.work = c.op.work
        /\ c.op.phase \in {"Running", "Cancelling", "Closing"}
        /\ ~p.closing /\ ~StorageRuns(p) /\ p.storage.at \in {"Ready", "Faulted"}
        /\ c.op.phase # "Closing" => p.shutdown = "Open"
        /\ c.op.phase = "Closing" => p.shutdown = "StoppingGeneration"
        /\ p.shutdown \in {"Open", "StoppingGeneration"}

(* A generation waits for the worker that runs.                            *)
LEMMA WaitingForWorker ==
    ASSUME NEW p, Sound(p), p.worker.at = "Running"
    PROVE  WaitsForWorker(p)
<1>0. p \in Session
  BY DEF Sound
<1>1. /\ Pending(p.ctl) /\ StorageIdle(p) /\ p.durability = "Clean" /\ CapacityFor(p, 1)
      /\ ~p.deferredOpening /\ p.retryWrite = NoRetry
      /\ Active(p.ctl, p.worker.key) /\ p.worker.key \in Key
      /\ p.worker.work = p.ctl.op.work
  BY <1>0, WorkerFields DEF Sound, Threads, WorkFollowsSave, Reserved, DoubtIsKept, Active
<1>2. p.ctl.op.phase \in {"Running", "Cancelling", "Closing"}
  BY <1>1 DEF Pending, PendingPhase
<1>3. p.shutdown \in Shutdown
  BY <1>0, SessionFields
<1>4. /\ p.ctl.op.phase # "Closing" => p.shutdown = "Open"
      /\ p.ctl.op.phase = "Closing" => p.shutdown = "StoppingGeneration"
      /\ ~p.closing
  BY <1>2, <1>3 DEF Sound, ShutdownInOrder, Shutdown
<1>. QED  BY <1>1, <1>2, <1>4, IdleStorage DEF WaitsForWorker

(* The thread is gone and its request has come to an end.                  *)
LEMMA GenerationEnds ==
    ASSUME NEW p, Sound(p), WaitsForWorker(p), NEW r, Generates(p, r),
           r.worker = At("Ready") \/ r.worker = At("Faulted"),
           ~Pending(r.ctl),
           r.worker = At("Faulted") => r.ctl.op.phase \in {"Faulted", "Closed"},
           IF p.ctl.op.phase = "Closing" THEN r.ctl.op.phase = "Closed"
                                         ELSE r.ctl.op.phase \notin {"Closing", "Closed"}
    PROVE  Sound(r)
<1>1. Threads(r)
  BY DEF Threads, Generates, SameStorage, StorageRuns, StorageIdle, At, WaitsForWorker
<1>2. WorkFollowsSave(r)
  BY DEF WorkFollowsSave, Generates, WaitsForWorker
<1>3. ShutdownInOrder(r)
  BY DEF Sound, ShutdownInOrder, Generates, SameStorage, SameShutdown, WaitsForWorker
<1>4. Reserved(r)
  BY DEF Sound, Reserved, Generates, SameStorage, SameShutdown, StorageIdle, NotRunning,
         WaitsForWorker
<1>5. DoubtIsKept(r)
  BY DEF Sound, DoubtIsKept, Generates, SameStorage, StorageIdle, WaitsForWorker
<1>6. RequestIsCurrent(r)
  BY DEF RequestIsCurrent, Generates, SameStorage, StorageRuns, WaitsForWorker
<1>. QED  BY <1>1, <1>2, <1>3, <1>4, <1>5, <1>6 DEF Sound, Generates

(* A poll of the generation thread.                                        *)
LEMMA AcceptGenerationSound ==
    ASSUME NEW p, Sound(p), NEW spawned \in BOOLEAN
    PROVE  LET q == AcceptGeneration(p, spawned)
           IN  /\ Sound(q) /\ Quiet(p, q)
               /\ q.shutdown = p.shutdown
               /\ q # p => ~StorageRuns(p) /\ ~Pending(q.ctl)
               /\ StorageRuns(q) => q.storage = p.storage \/ q.storage.result = NoResult
               /\ Faulty(q) => Faulty(p)
<1>. DEFINE q == AcceptGeneration(p, spawned)
            w == p.worker
            c == p.ctl
            o == Outcome(w)
            d == Complete(c, w.key, o)
<1>0. p \in Session /\ c \in Controller /\ p.workerFault \in BOOLEAN
  BY SessionFields DEF Sound
<1>1. CASE q = p
  <2>1. Quiet(p, p)
    BY DEF Quiet
  <2>. QED  BY <1>1, <2>1
<1>2. w.at = "Running" => WaitsForWorker(p)
  BY WaitingForWorker
<1>9. At("Ready") \in Worker /\ At("Faulted") \in Worker
  BY DEF At, Worker
<1>4. CASE w.at = "Running" /\ w.result = "panic"
  <2>. DEFINE e == WorkerFailed(c, w.key)
  <2>1. e \in Controller /\ SameStory(c, e)
        /\ e.op = IF c.op.phase = "Closing" THEN Idle("Closed") ELSE Idle("Faulted")
    <3>1. e \in Controller /\ SameStory(c, e)
      BY <1>0, <1>2, <1>4, WorkerFailedEffect DEF WaitsForWorker
    <3>2. e.op = IF c.op.phase = "Closing" THEN Idle("Closed") ELSE Idle("Faulted")
      BY <1>0, <1>2, <1>4 DEF WorkerFailed, Settle, Controller, WaitsForWorker
    <3>. QED  BY <3>1, <3>2
  <2>2. /\ e.op.phase = IF c.op.phase = "Closing" THEN "Closed" ELSE "Faulted"
        /\ ~Pending(e) /\ e.revision \in Nat
    BY <1>0, <2>1, ControllerFields DEF Idle, Pending, PendingPhase
  <2>3. q = [p EXCEPT !.ctl = e, !.worker = At("Faulted"), !.workerFault = TRUE]
    BY <1>4 DEF AcceptGeneration
  <2>. HIDE DEF q, e
  <2>6. Generates(p, q) /\ q.ctl = e /\ q.worker = At("Faulted")
    BY <1>0, <1>9, <2>1, <2>3 DEF Session, Generates, SameStorage, SameShutdown
  <2>4. Sound(q) /\ SameStorage(p, q) /\ SameShutdown(p, q) /\ q.ctl = e
    BY <1>2, <1>4, <2>1, <2>2, <2>6, GenerationEnds DEF Generates, At
  <2>5. Quiet(p, q)
    BY <2>1, <2>4 DEF Quiet, SameStorage, SameStory, HasGame, GameOf
  <2>7. Faulty(p)
    BY <1>4 DEF Faulty
  <2>. QED
    BY <1>2, <1>4, <2>2, <2>4, <2>5, <2>7
    DEF SameStorage, SameShutdown, StorageRuns, WaitsForWorker, q
<1>5. CASE w.at = "Running" /\ w.result \in {"success", "failure"} /\ ~Commits(c, w.key, o)
  <2>1. /\ d \in Controller /\ SameStory(c, d)
        /\ d.op = IF c.op.phase = "Closing" THEN Idle("Closed")
                  ELSE Failed(c.op.work, IF Stopped(c) THEN "Cancelled" ELSE "Generation")
    BY <1>5, AnswerEffect
  <2>2. /\ d.op.phase = IF c.op.phase = "Closing" THEN "Closed" ELSE "Failed"
        /\ ~Pending(d) /\ d.revision \in Nat
    BY <1>0, <2>1, ControllerFields DEF Idle, Failed, Pending, PendingPhase
  <2>3. q = [p EXCEPT !.ctl = d, !.worker = At("Ready"), !.workerFault = p.workerFault]
    <3>1. p.workerFault \/ d.op.phase = "Faulted" <=> p.workerFault
      BY <2>2
    <3>2. q = [p EXCEPT !.ctl = d, !.worker = At("Ready"),
                        !.workerFault = @ \/ d.op.phase = "Faulted"]
      BY <1>5 DEF AcceptGeneration
    <3>. HIDE DEF q, d
    <3>. QED  BY <1>0, <2>2, <3>1, <3>2
  <2>. HIDE DEF q, d
  <2>6. Generates(p, q) /\ q.ctl = d /\ q.worker = At("Ready") /\ q.workerFault = p.workerFault
    BY <1>0, <1>9, <2>1, <2>3 DEF Session, Generates, SameStorage, SameShutdown
  <2>4. /\ Sound(q) /\ SameStorage(p, q) /\ SameShutdown(p, q) /\ q.ctl = d
        /\ q.workerFault = p.workerFault
    BY <1>2, <1>5, <2>1, <2>2, <2>6, GenerationEnds DEF Generates, At
  <2>5. Quiet(p, q)
    BY <2>1, <2>4 DEF Quiet, SameStorage, SameStory, HasGame, GameOf
  <2>7. Faulty(q) => Faulty(p)
    BY <2>6 DEF Faulty, At
  <2>. QED
    BY <1>2, <1>5, <2>2, <2>4, <2>5, <2>7
    DEF SameStorage, SameShutdown, StorageRuns, WaitsForWorker, q
<1>6. CASE w.at = "Running" /\ w.result \in {"success", "failure"} /\ Commits(c, w.key, o)
  <2>1. /\ EditedInto(c, d, Produced(c.op.key, c.op.work)) /\ c.op.phase = "Running"
        /\ d \in Controller /\ d.op = Idle("Ready")
    BY <1>6, AnswerEffect DEF EditedInto
  <2>2. d.op.phase = "Ready" /\ ~Pending(d) /\ d.revision \in Nat /\ p.shutdown = "Open"
    BY <1>0, <1>2, <1>6, <2>1, ControllerFields
    DEF Idle, Pending, PendingPhase, WaitsForWorker
  <2>. DEFINE r == [p EXCEPT !.ctl = d, !.worker = At("Ready"),
                             !.workerFault = @ \/ d.op.phase = "Faulted"]
              u == [r EXCEPT !.durability = "Dirty"]
  <2>3. q = IF w.work.kind = "Turn" THEN ReservedWrite(u, spawned) ELSE r
    BY <1>6 DEF AcceptGeneration
  <2>4. r = [p EXCEPT !.ctl = d, !.worker = At("Ready"), !.workerFault = p.workerFault]
    <3>1. p.workerFault \/ d.op.phase = "Faulted" <=> p.workerFault
      BY <2>2
    <3>. HIDE DEF d
    <3>. QED  BY <1>0, <2>2, <3>1
  <2>. HIDE DEF q, d, r
  <2>5. /\ Sound(r) /\ SameStorage(p, r) /\ SameShutdown(p, r) /\ r.ctl = d
        /\ r.workerFault = p.workerFault /\ r.worker.at = "Ready" /\ ~r.deferredOpening
    <3>1. Generates(p, r) /\ r.ctl = d /\ r.worker = At("Ready") /\ r.workerFault = p.workerFault
      BY <1>0, <1>9, <2>1, <2>4 DEF Session, Generates, SameStorage, SameShutdown
    <3>. QED
      BY <1>2, <1>6, <2>1, <2>2, <3>1, GenerationEnds DEF Generates, At, WaitsForWorker
  <2>6. c.op.work \in Work /\ w.work = c.op.work
    BY <1>0, <1>2, <1>6, OpFields DEF WaitsForWorker
  <2>7. CASE w.work.kind # "Turn"
    <3>1. ~HasGame(d)
      BY <2>1, <2>6, <2>7 DEF EditedInto, Produced, Work, HasGame, Reviewing, Casting
    <3>2. Quiet(p, q)
      BY <2>3, <2>5, <2>7, <3>1 DEF Quiet, SameStorage
    <3>3. Faulty(q) => Faulty(p)
      BY <2>3, <2>5, <2>7 DEF Faulty
    <3>. QED
      BY <1>2, <1>6, <2>2, <2>3, <2>5, <2>7, <3>2, <3>3
      DEF SameStorage, SameShutdown, StorageRuns, WaitsForWorker, q
  <2>8. CASE w.work.kind = "Turn"
    <3>1. HasGame(d)
      BY <2>1, <2>6, <2>8 DEF EditedInto, Produced, HasGame, Playing
    <3>2. r \in Session
      BY <2>5 DEF Sound
    <3>3. /\ u \in Session /\ u.durability = "Dirty" /\ u.ctl = d /\ u.worker = r.worker
          /\ u.storage = r.storage /\ u.running = r.running /\ u.binding = r.binding
          /\ u.retryWrite = r.retryWrite /\ u.lastStorageId = r.lastStorageId
          /\ u.deferredOpening = r.deferredOpening /\ u.workerFault = r.workerFault
          /\ SameShutdown(p, u)
      BY <2>5, <3>2 DEF Session, Durability, SameShutdown
    <3>. HIDE DEF u
    <3>4. Sound(u)
      <4>1. Threads(u)
        BY <2>5, <3>3 DEF Sound, Threads, StorageRuns, StorageIdle, CurrentStorage
      <4>2. WorkFollowsSave(u)
        BY <2>2, <2>5, <3>3 DEF WorkFollowsSave
      <4>3. ShutdownInOrder(u)
        BY <2>2, <2>5, <3>3 DEF Sound, ShutdownInOrder, SameShutdown
      <4>4. Reserved(u)
        BY <2>5, <3>3 DEF Sound, Reserved, SameShutdown, CapacityFor
      <4>5. DoubtIsKept(u)
        BY <1>2, <1>6, <2>5, <3>3 DEF DoubtIsKept, SameStorage, StorageIdle, WaitsForWorker
      <4>6. RequestIsCurrent(u)
        BY <1>2, <1>6, <2>5, <3>3 DEF RequestIsCurrent, SameStorage, StorageRuns, WaitsForWorker
      <4>. QED  BY <3>3, <4>1, <4>2, <4>3, <4>4, <4>5, <4>6 DEF Sound
    <3>5. MayStore(u, "Save") /\ CapacityFor(u, 1)
      BY <1>2, <1>6, <2>2, <2>5, <3>3 DEF MayStore, SameStorage, SameShutdown, StorageIdle,
         CapacityFor, WaitsForWorker, Sound, ShutdownInOrder
    <3>6. q = Write(u, FALSE, spawned)
      BY <2>3, <2>8, <3>5 DEF ReservedWrite
    <3>7. /\ Sound(q)
          /\ Stores(u, q)
          /\ q.lastStorageId = u.lastStorageId + 1
          /\ spawned => Requested(u, q, "Save", SaveIntent(u, FALSE))
          /\ ~spawned => Refused(u, q, "Save")
      BY <3>1, <3>3, <3>4, <3>5, <3>6, WriteSound
    <3>8. q.durability = "Dirty" /\ (StorageRuns(q) => spawned)
      <4>1. CASE spawned
        BY <3>3, <3>7, <4>1 DEF Requested
      <4>2. CASE ~spawned
        BY <3>3, <3>7, <4>2 DEF Refused, DurabilityAfter, StorageRuns, At
      <4>. QED  BY <4>1, <4>2
    <3>9. Quiet(p, q)
      <4>1. q.lastStorageId <= MaxStorageId /\ p.lastStorageId \in Nat
        BY <1>0, <3>7, SessionFields DEF Sound, Reserved
      <4>2. q.binding = p.binding /\ q.retryWrite = p.retryWrite
        BY <2>5, <3>3, <3>7 DEF SameStorage, Stores
      <4>3. q.durability = "Dirty" /\ p.durability = "Clean" /\ ~StorageRuns(p)
        BY <1>2, <1>6, <3>8 DEF WaitsForWorker
      <4>4. q.lastStorageId = p.lastStorageId + 1 /\ p.lastStorageId <= q.lastStorageId
        BY <2>5, <3>3, <3>7, <4>1 DEF SameStorage
      <4>5. StorageRuns(q) => /\ q.storage.evidence = NoAttempt
                              /\ ~q.storage.applied
                              /\ q.storage.result = NoResult
        BY <3>7, <3>8 DEF Requested
      <4>. QED
        BY <4>1, <4>2, <4>3, <4>4, <4>5
        DEF Quiet, SameStorage, Stores, Requested, WaitsForWorker
    <3>10. Faulty(q) => Faulty(p)
      BY <2>5, <3>3, <3>7 DEF Stores, Faulty
    <3>. QED
      BY <1>2, <1>6, <2>2, <2>5, <3>3, <3>7, <3>8, <3>9, <3>10
      DEF SameStorage, SameShutdown, Stores, Requested, WaitsForWorker, q
  <2>. QED  BY <2>7, <2>8
<1>7. w.at # "Running" \/ w.result = "nothing" => q = p
  BY DEF AcceptGeneration
<1>8. w.at = "Running" => w.result \in {"nothing", "success", "failure", "panic"}
  BY <1>0, WorkerFields
<1>. QED  BY <1>1, <1>4, <1>5, <1>6, <1>7, <1>8

----------------------------------------------------------------------------
(***************************************************************************)
(* Installing a story that was loaded.                                     *)
(***************************************************************************)
Loads(r) ==
    /\ r.slot \in Slots /\ r.copy \in {"primary", "backup"} /\ r.stamp \in Nat
    /\ r.game \in Game /\ r.changed \in BOOLEAN

(* The story, before it is saved if it has to be.                          *)
Installed(p, r) ==
    [p EXCEPT !.ctl = ReplaceGame(p.ctl, r.game),
              !.binding = IF r.copy = "backup" THEN Unbound ELSE Bound(r.slot, r.stamp),
              !.retryWrite = NoRetry,
              !.deferredOpening = FALSE,
              !.durability = IF IsAsSaved(r) THEN "Clean" ELSE "Dirty"]

MayInstall(p) ==
    /\ p.shutdown = "Open" /\ StorageIdle(p)
    /\ CanReplaceGame(p.ctl) /\ CapacityFor(p, 1)

(* The installed story may be saved at once.                               *)
LEMMA InstalledSound ==
    ASSUME NEW p, Sound(p), MayInstall(p), NEW r, Loads(r)
    PROVE  LET q == Installed(p, r)
           IN  /\ Sound(q)
               /\ q.ctl = ReplaceGame(p.ctl, r.game)
               /\ HasGame(q.ctl) /\ GameOf(q.ctl) = r.game
               /\ q.storage = p.storage /\ q.lastStorageId = p.lastStorageId
               /\ q.binding = IF r.copy = "backup" THEN Unbound ELSE Bound(r.slot, r.stamp)
               /\ q.retryWrite = NoRetry
               /\ q.workerFault = p.workerFault /\ q.worker = p.worker
               /\ q.durability = IF IsAsSaved(r) THEN "Clean" ELSE "Dirty"
               /\ SameShutdown(p, q) /\ ~q.deferredOpening
               /\ MayStore(q, "Save") /\ CapacityFor(q, 1)
<1>. DEFINE q == Installed(p, r)
            d == ReplaceGame(p.ctl, r.game)
            b == IF r.copy = "backup" THEN Unbound ELSE Bound(r.slot, r.stamp)
            u == IF IsAsSaved(r) THEN "Clean" ELSE "Dirty"
<1>0. p \in Session /\ p.ctl \in Controller /\ Ready(p.ctl) /\ ~p.closing /\ ~StorageRuns(p)
  BY SessionFields, IdleStorage DEF Sound, MayInstall, CanReplaceGame, ShutdownInOrder
<1>1. EditedInto(p.ctl, d, Playing(r.game))
  BY <1>0, ReplaceGameEffect DEF Loads
<1>2. /\ d \in Controller /\ d.op = Idle("Ready") /\ d.op.phase = "Ready" /\ ~Pending(d)
      /\ HasGame(d) /\ GameOf(d) = r.game
  BY <1>1 DEF EditedInto, Idle, Pending, PendingPhase, HasGame, GameOf, Playing
<1>3. b \in Binding /\ u \in Durability /\ NoRetry \in RetryWrite
  BY Bindings DEF Loads, Binding, Durability, RetryWrite
<1>4. q = [p EXCEPT !.ctl = d, !.binding = b, !.retryWrite = NoRetry,
                    !.deferredOpening = FALSE, !.durability = u]
  BY DEF Installed
<1>5. u \in {"Clean", "Dirty"}
  OBVIOUS
<1>. HIDE DEF q, d, b, u
<1>6. q \in Session
  BY <1>0, <1>2, <1>3, <1>4 DEF Session
<1>7. /\ q.ctl = d /\ q.binding = b /\ q.retryWrite = NoRetry /\ q.deferredOpening = FALSE
      /\ q.durability = u /\ q.storage = p.storage /\ q.running = p.running
      /\ q.lastStorageId = p.lastStorageId /\ q.worker = p.worker
      /\ q.workerFault = p.workerFault /\ SameShutdown(p, q)
  BY <1>0, <1>4, <1>6 DEF Session, SameShutdown
<1>8. p.worker.at = "Ready"
  BY <1>0, WorkerFields DEF Sound, Threads, Ready, Pending, PendingPhase
<1>9. Threads(q)
  BY <1>0, <1>2, <1>7, <1>8 DEF Threads, StorageRuns, StorageIdle, MayInstall
<1>10. WorkFollowsSave(q)
  BY <1>2, <1>7 DEF WorkFollowsSave
<1>11. ShutdownInOrder(q)
  BY <1>0, <1>2, <1>7 DEF Sound, ShutdownInOrder, SameShutdown, MayInstall
<1>12. Reserved(q)
  BY <1>2, <1>7
  DEF Sound, Reserved, SameShutdown, CapacityFor, MayInstall, StorageIdle, NotRunning
<1>13. DoubtIsKept(q)
  BY <1>5, <1>7 DEF DoubtIsKept, MayInstall, StorageIdle
<1>14. RequestIsCurrent(q)
  BY <1>0, <1>7 DEF RequestIsCurrent, StorageRuns
<1>15. MayStore(q, "Save") /\ CapacityFor(q, 1)
  BY <1>0, <1>2, <1>7 DEF MayStore, MayInstall, SameShutdown, StorageIdle, CapacityFor,
                             Sound, ShutdownInOrder
<1>. QED
  BY <1>2, <1>6, <1>7, <1>9, <1>10, <1>11, <1>12, <1>13, <1>14, <1>15
  DEF Sound, q, d, b, u

(* A request that is made or refused is quiet.                             *)
LEMMA StartIsQuiet ==
    ASSUME NEW p, Sound(p), NEW effect \in Effect, NEW intent \in StorageIntent,
           NEW spawned \in BOOLEAN, MayStore(p, effect), RequestFits(p, effect, intent)
    PROVE  LET q == StartStorage(p, effect, intent, spawned)
           IN  /\ Sound(q) /\ Quiet(p, q) /\ Stores(p, q)
               /\ StorageRuns(q) => q.storage.result = NoResult
               /\ StorageIdle(q) => ~spawned
<1>. DEFINE q == StartStorage(p, effect, intent, spawned)
<1>0. /\ p \in Session /\ p.lastStorageId \in Nat /\ ~StorageRuns(p)
      /\ p.durability \in Durability
  BY SessionFields, IdleStorage DEF Sound, MayStore
<1>1. /\ Sound(q)
      /\ Stores(p, q)
      /\ q.lastStorageId = p.lastStorageId + 1
      /\ spawned => Requested(p, q, effect, intent)
      /\ ~spawned => Refused(p, q, effect)
  BY StartStorageSound
<1>. HIDE DEF q
<1>2. /\ q.durability = p.durability \/ (p.durability # "Uncertain" /\ q.durability = "Dirty")
      /\ StorageRuns(q) => spawned
      /\ StorageIdle(q) => ~spawned
  <2>1. CASE spawned
    BY <1>1, <2>1 DEF Requested, StorageIdle
  <2>2. CASE ~spawned
    BY <1>0, <1>1, <2>2 DEF Refused, DurabilityAfter, Durability, StorageRuns, At
  <2>. QED  BY <2>1, <2>2
<1>3. StorageRuns(q) => /\ q.storage.evidence = NoAttempt
                        /\ ~q.storage.applied
                        /\ q.storage.result = NoResult
  BY <1>1, <1>2 DEF Requested
<1>4. q.lastStorageId <= MaxStorageId
  BY <1>1 DEF Sound, Reserved
<1>5. Quiet(p, q)
  BY <1>0, <1>1, <1>2, <1>3, <1>4 DEF Quiet, Stores
<1>. QED  BY <1>1, <1>2, <1>3, <1>5 DEF q

(* So is a save.                                                           *)
LEMMA WriteIsQuiet ==
    ASSUME NEW p, Sound(p), HasGame(p.ctl), MayStore(p, "Save"),
           NEW copy \in BOOLEAN, NEW spawned \in BOOLEAN
    PROVE  LET q == Write(p, copy, spawned)
           IN  /\ Sound(q) /\ Quiet(p, q) /\ Stores(p, q)
               /\ StorageRuns(q) => q.storage.result = NoResult
               /\ StorageIdle(q) => ~spawned
<1>1. "Save" \in Effect
  BY DEF Effect
<1>2. SaveIntent(p, copy) \in StorageIntent /\ RequestFits(p, "Save", SaveIntent(p, copy))
  BY SaveIntentFits
<1>. QED  BY <1>1, <1>2, StartIsQuiet DEF Write

(* The expect()s of a restore hold, and what it leaves is sound.           *)
LEMMA InstallLoadedSound ==
    ASSUME NEW p, Sound(p), MayInstall(p), NEW r, Loads(r), NEW spawned \in BOOLEAN
    PROVE  LET q == InstallLoaded(p, r, spawned)
               u == Installed(p, r)
           IN  /\ Sound(q)
               /\ q.ctl = u.ctl /\ q.worker = p.worker /\ (Faulty(q) => Faulty(p))
               /\ StorageRuns(q) => q.storage.result = NoResult
               /\ SameShutdown(p, q)
               /\ q = u \/ Quiet(u, q)
               /\ StorageRuns(q) => Fresh(q.storage)
<1>. DEFINE u == Installed(p, r)
            q == InstallLoaded(p, r, spawned)
<1>0. q = IF IsAsSaved(r) THEN u ELSE ReservedWrite(u, spawned)
  BY DEF InstallLoaded, Installed, MayInstall
<1>1. /\ Sound(u) /\ u.storage = p.storage /\ u.workerFault = p.workerFault
      /\ HasGame(u.ctl) /\ MayStore(u, "Save") /\ CapacityFor(u, 1)
      /\ u.worker = p.worker /\ SameShutdown(p, u)
      /\ u.durability = IF IsAsSaved(r) THEN "Clean" ELSE "Dirty"
  BY InstalledSound
<1>2. ~StorageRuns(p)
  BY IdleStorage DEF MayInstall, Sound, ShutdownInOrder
<1>. HIDE DEF u, q
<1>3. CASE IsAsSaved(r)
  BY <1>0, <1>1, <1>2, <1>3 DEF StorageRuns, Faulty, q, u
<1>4. CASE ~IsAsSaved(r)
  <2>1. q = Write(u, FALSE, spawned)
    BY <1>0, <1>1, <1>4 DEF ReservedWrite
  <2>2. /\ Sound(q) /\ Quiet(u, q) /\ Stores(u, q)
        /\ StorageRuns(q) => q.storage.result = NoResult
    BY <1>1, <2>1, WriteIsQuiet
  <2>3. StorageRuns(q) => Fresh(q.storage)
    BY <1>1, <1>2, <2>2 DEF Quiet, Fresh, StorageRuns
  <2>. QED  BY <1>1, <2>2, <2>3 DEF Stores, SameShutdown, Faulty, q, u
<1>. QED  BY <1>3, <1>4

----------------------------------------------------------------------------
(***************************************************************************)
(* Polling the storage thread.                                             *)
(***************************************************************************)
(* The request is over and the thread is gone.                             *)
Released(p, state) == [p EXCEPT !.running = NotRunning, !.storage = At(state)]

(* The session stays sound when its thread is joined.                      *)
LEMMA ReleasedSound ==
    ASSUME NEW p, Sound(p), StorageRuns(p), NEW state \in {"Ready", "Faulted"}
    PROVE  LET t == Released(p, state)
           IN  /\ Sound(t)
               /\ Stores(p, t)
               /\ t.durability = p.durability /\ t.lastStorageId = p.lastStorageId
               /\ t.running = NotRunning /\ ~StorageRuns(t)
               /\ t.storage = At(state)
               /\ StorageIdle(t) /\ ~t.closing /\ ~Pending(t.ctl)
<1>. DEFINE t == Released(p, state)
<1>0. p \in Session /\ ~StorageIdle(p) /\ ~Pending(p.ctl) /\ ~p.closing
  BY DEF Sound, Threads, CurrentStorage, StorageIdle, WorkFollowsSave, ShutdownInOrder,
         StorageRuns
<1>1. At(state) \in Storage /\ At(state).at = state /\ NotRunning \in RunningStorage
  BY DEF At, Storage, RunningStorage
<1>2. t = [p EXCEPT !.running = NotRunning, !.storage = At(state)]
  BY DEF Released
<1>. HIDE DEF t
<1>3. t \in Session
  BY <1>0, <1>1, <1>2 DEF Session
<1>4. /\ Stores(p, t)
      /\ t.durability = p.durability /\ t.lastStorageId = p.lastStorageId
      /\ t.running = NotRunning /\ t.storage = At(state)
  BY <1>0, <1>2, <1>3 DEF Session, Stores, SameShutdown
<1>5. ~StorageRuns(t) /\ StorageIdle(t) /\ ~t.closing /\ ~Pending(t.ctl)
  BY <1>0, <1>1, <1>4 DEF StorageRuns, StorageIdle, Stores, SameShutdown
<1>6. Threads(t)
  BY <1>4, <1>5 DEF Sound, Threads, Stores
<1>7. WorkFollowsSave(t)
  BY <1>4, <1>5 DEF Sound, WorkFollowsSave, Stores, SameShutdown
<1>8. ShutdownInOrder(t)
  BY <1>0, <1>1, <1>4 DEF Sound, ShutdownInOrder, Stores, SameShutdown, NotRunning
<1>9. Reserved(t)
  BY <1>4, <1>5 DEF Sound, Reserved, Stores, SameShutdown, CapacityFor, NotRunning
<1>10. DoubtIsKept(t)
  BY <1>4 DEF Sound, DoubtIsKept, Stores
<1>11. RequestIsCurrent(t)
  BY <1>5 DEF RequestIsCurrent
<1>. QED
  BY <1>3, <1>4, <1>5, <1>6, <1>7, <1>8, <1>9, <1>10, <1>11 DEF Sound, t

(* What the thread has published is about the story as it is.              *)
LEMMA EvidenceIsStory ==
    ASSUME NEW p, Sound(p), StorageRuns(p), p.storage.evidence # NoAttempt
    PROVE  /\ p.running.effect = "Save" /\ HasGame(p.ctl)
           /\ p.storage.evidence \in Attempt
           /\ p.storage.evidence.doc.game = GameOf(p.ctl)
           /\ p.storage.key.revision = p.ctl.revision
<1>1. p \in Session /\ p.running # NotRunning /\ p.storage.key.revision = p.ctl.revision
  BY DEF Sound, Threads, CurrentStorage
<1>2. p.running.effect \in Effect
  BY <1>1, RunningFields
<1>3. /\ p.storage.intent.op \in SaveOps
      /\ RequestFits(p, p.running.effect, p.storage.intent) /\ ReplyFits(p.storage)
  BY DEF Sound, RequestIsCurrent, ReplyFits
<1>4. p.running.effect = "Save"
  BY <1>2, <1>3 DEF RequestFits, SaveOps, Effect
<1>5. p.storage.evidence.doc.game = GameOf(p.ctl)
  BY <1>3 DEF RequestFits, ReplyFits, SaveOps, Sound, DoubtIsKept
<1>. QED  BY <1>1, <1>3, <1>4, <1>5, StorageFields DEF RequestFits

(* A save has failed: its bytes are kept if they may be on disk, and a     *)
(* doubt there was before is not dropped.                                  *)
Visibilities == {"Unchanged", "Replaced", "Unknown"}

(* A save that failed is in doubt or is known not to be there.             *)
LEMMA SaveFailedSound ==
    ASSUME NEW p, Sound(p), StorageRuns(p), p.running.effect = "Save",
           NEW state \in {"Ready", "Faulted"}, NEW visibility \in Visibilities,
           visibility # "Unchanged" => p.storage.evidence # NoAttempt,
           visibility = "Unchanged" => ~p.storage.applied,
           NEW run, run.prior = p.durability, run.key = p.storage.key
    PROVE  LET q == SaveFailed(Released(p, state), run, visibility, p.storage.evidence)
           IN  /\ Sound(q)
               /\ Stores(p, [q EXCEPT !.retryWrite = p.retryWrite])
               /\ ~StorageRuns(q)
               /\ q.ctl = p.ctl /\ q.binding = p.binding
               /\ q.lastStorageId = p.lastStorageId
               /\ q.durability = DurabilityAfter(visibility, p.durability)
               /\ \/ q.retryWrite = p.retryWrite
                  \/ /\ q.retryWrite.pending = p.storage.evidence
                     /\ p.storage.evidence # NoAttempt
<1>. DEFINE t == Released(p, state)
            evidence == p.storage.evidence
            q == SaveFailed(t, run, visibility, evidence)
            after == DurabilityAfter(visibility, p.durability)
            kept == [revision |-> run.key.revision, pending |-> evidence]
            retry == IF visibility = "Unchanged" THEN p.retryWrite ELSE kept
<1>0. p \in Session /\ p.durability \in Durability
  BY SessionFields DEF Sound
<1>1. /\ Sound(t) /\ Stores(p, t) /\ t.durability = p.durability
      /\ t.lastStorageId = p.lastStorageId /\ t.running = NotRunning /\ ~StorageRuns(t)
      /\ t.storage = At(state) /\ StorageIdle(t) /\ ~t.closing /\ ~Pending(t.ctl)
  BY ReleasedSound
<1>2. visibility # "Unchanged" => /\ evidence \in Attempt
                                  /\ evidence.doc.game = GameOf(p.ctl)
                                  /\ run.key.revision = p.ctl.revision
                                  /\ kept \in RetryWrite /\ kept # NoRetry
                                  /\ kept.revision = p.ctl.revision /\ kept.pending = evidence
  <2>1. SUFFICES ASSUME visibility # "Unchanged"
                 PROVE  /\ evidence \in Attempt
                        /\ evidence.doc.game = GameOf(p.ctl)
                        /\ run.key.revision = p.ctl.revision
                        /\ kept \in RetryWrite /\ kept # NoRetry
                        /\ kept.revision = p.ctl.revision /\ kept.pending = evidence
    OBVIOUS
  <2>2. /\ evidence \in Attempt /\ evidence.doc.game = GameOf(p.ctl)
        /\ run.key.revision = p.ctl.revision
    BY <2>1, EvidenceIsStory
  <2>3. p.ctl.revision \in Nat
    BY <1>0, SessionFields, ControllerFields
  <2>4. kept.pending # NoRetry.pending
    BY <2>2, Attempts DEF NoRetry
  <2>. QED  BY <2>2, <2>3, <2>4 DEF RetryWrite
<1>3. retry \in RetryWrite /\ after \in {"Dirty", "Uncertain"}
  BY <1>0, <1>2, SessionFields DEF DurabilityAfter
<1>4. q = [t EXCEPT !.durability = after, !.retryWrite = retry]
  <2>1. visibility # "Unchanged" => evidence # NoAttempt
    OBVIOUS
  <2>. HIDE DEF t, evidence
  <2>2. q = [t EXCEPT !.durability = DurabilityAfter(visibility, run.prior),
                      !.retryWrite = IF visibility = "Unchanged" THEN t.retryWrite
                                     ELSE IF evidence # NoAttempt
                                     THEN [revision |-> run.key.revision, pending |-> evidence]
                                     ELSE IF run.pending = NoAttempt THEN NoRetry
                                     ELSE [revision |-> run.key.revision,
                                           pending |-> run.pending]]
    BY DEF SaveFailed
  <2>3. t.retryWrite = p.retryWrite
    BY <1>1 DEF Stores
  <2>. QED  BY <2>1, <2>2, <2>3
<1>5. t \in Session
  BY <1>1 DEF Sound
<1>. DEFINE u == [q EXCEPT !.retryWrite = p.retryWrite]
<1>6. retry = IF visibility = "Unchanged" THEN p.retryWrite ELSE kept
  OBVIOUS
<1>7. after = DurabilityAfter(visibility, p.durability)
  OBVIOUS
<1>. HIDE DEF t, q, after, retry, kept, u
<1>8. q \in Session
  BY <1>3, <1>4, <1>5 DEF Session, Durability
<1>9. /\ q.durability = after /\ q.retryWrite = retry
      /\ q.ctl = p.ctl /\ q.worker = p.worker /\ q.workerFault = p.workerFault
      /\ q.binding = p.binding /\ q.deferredOpening = p.deferredOpening
      /\ SameShutdown(p, q) /\ q.lastStorageId = p.lastStorageId
      /\ q.running = NotRunning /\ q.storage = At(state)
  BY <1>1, <1>3, <1>4, <1>5 DEF Session, Stores, SameShutdown
<1>10. Stores(p, u)
  <2>1. p.retryWrite \in RetryWrite
    BY <1>0, SessionFields
  <2>. QED  BY <1>8, <1>9, <2>1 DEF Session, Stores, SameShutdown, u
<1>11. ~StorageRuns(q) /\ StorageIdle(q) /\ ~Pending(q.ctl)
  BY <1>1, <1>9 DEF StorageRuns, StorageIdle, Stores
<1>12. Threads(q)
  BY <1>1, <1>9, <1>11 DEF Sound, Threads, Stores
<1>13. WorkFollowsSave(q)
  BY <1>3, <1>9, <1>11 DEF Sound, WorkFollowsSave, SameShutdown
<1>14. ShutdownInOrder(q)
  BY <1>9 DEF Sound, ShutdownInOrder, SameShutdown, StorageRuns, At
<1>15. Reserved(q)
  BY <1>9, <1>11 DEF Sound, Reserved, SameShutdown, CapacityFor, NotRunning
<1>16. DoubtIsKept(q)
  BY <1>0, <1>2, <1>6, <1>7, <1>9 DEF Sound, DoubtIsKept, DurabilityAfter
<1>17. RequestIsCurrent(q)
  BY <1>11 DEF RequestIsCurrent
<1>18. \/ q.retryWrite = p.retryWrite
       \/ q.retryWrite.pending = evidence /\ evidence # NoAttempt
  BY <1>2, <1>6, <1>9
<1>. QED
  BY <1>7, <1>8, <1>9, <1>10, <1>11, <1>12, <1>13, <1>14, <1>15, <1>16, <1>17, <1>18
  DEF Sound, q, u, t

(* A save has arrived: the story is bound to it, and nothing is owed.      *)
SavedAs(p, attempt) == [Bind(p, attempt) EXCEPT !.deferredOpening = FALSE]

(* The story bound to the save that arrived.                               *)
LEMMA SavedAsSound ==
    ASSUME NEW p, Sound(p), StorageRuns(p), p.storage.applied
    PROVE  LET a == p.storage.evidence
               b == SavedAs(Released(p, "Ready"), a)
           IN  /\ Sound(b)
               /\ b.ctl = p.ctl /\ (Faulty(b) => Faulty(p))
               /\ b.durability = "Clean" /\ StorageIdle(b) /\ ~StorageRuns(b)
               /\ b.shutdown = p.shutdown /\ b.lastStorageId = p.lastStorageId
               /\ b.worker = p.worker /\ b.retryWrite = NoRetry
               /\ b.binding = Bound(a.slot, a.doc.stamp)
               /\ a \in Attempt /\ a.doc.game = GameOf(p.ctl)
<1>. DEFINE t == Released(p, "Ready")
            a == p.storage.evidence
            b == SavedAs(t, a)
            bound == Bound(a.slot, a.doc.stamp)
            closed == p.closingWriteSatisfied \/ p.shutdown # "Open"
<1>1. a # NoAttempt
  BY DEF Sound, RequestIsCurrent, ReplyFits
<1>2. /\ HasGame(p.ctl) /\ a \in Attempt /\ a.doc.game = GameOf(p.ctl)
      /\ p.running.effect = "Save"
  BY <1>1, EvidenceIsStory
<1>3. /\ Sound(t) /\ Stores(p, t) /\ t.durability = p.durability
      /\ t.lastStorageId = p.lastStorageId /\ t.running = NotRunning /\ ~StorageRuns(t)
      /\ t.storage = At("Ready") /\ StorageIdle(t) /\ ~t.closing /\ ~Pending(t.ctl)
  BY ReleasedSound
<1>4. /\ bound \in Binding /\ bound # Unbound /\ bound.slot = a.slot
      /\ bound.stamp = a.doc.stamp /\ closed \in BOOLEAN
  BY <1>2, Attempts, Bindings DEF Sound, Session
<1>5. b = [t EXCEPT !.binding = bound, !.durability = "Clean", !.retryWrite = NoRetry,
                    !.closingWriteSatisfied = closed, !.deferredOpening = FALSE]
  <2>1. t.closingWriteSatisfied = p.closingWriteSatisfied /\ t.shutdown = p.shutdown
    BY <1>3 DEF Stores, SameShutdown
  <2>. HIDE DEF t, a
  <2>. QED  BY <2>1 DEF SavedAs, Bind
<1>6. t \in Session /\ NoRetry \in RetryWrite
  BY <1>3 DEF Sound, RetryWrite
<1>. HIDE DEF t, b, bound, closed
<1>7. b \in Session
  BY <1>4, <1>5, <1>6 DEF Session, Durability
<1>8. /\ b.binding = bound /\ b.durability = "Clean" /\ b.retryWrite = NoRetry
      /\ b.deferredOpening = FALSE
      /\ b.ctl = p.ctl /\ b.worker = p.worker /\ b.workerFault = p.workerFault
      /\ b.running = NotRunning /\ b.storage = At("Ready")
      /\ b.lastStorageId = p.lastStorageId
      /\ b.shutdown = p.shutdown /\ b.closing = p.closing
      /\ b.finalAttempted = p.finalAttempted /\ b.panicked = p.panicked
      /\ b.closingWriteSatisfied = closed
  BY <1>3, <1>5, <1>6 DEF Session, Stores, SameShutdown
<1>9. ~StorageRuns(b) /\ StorageIdle(b) /\ ~Pending(b.ctl) /\ ~b.closing
  BY <1>3, <1>8 DEF StorageRuns, StorageIdle, Stores, SameShutdown
<1>10. Threads(b)
  BY <1>3, <1>8, <1>9 DEF Sound, Threads, Stores
<1>11. WorkFollowsSave(b)
  BY <1>8, <1>9 DEF WorkFollowsSave
<1>12. ShutdownInOrder(b)
  <2>1. closed => p.shutdown # "Open"
    BY DEF Sound, ShutdownInOrder, closed
  <2>. QED
    BY <1>3, <1>8, <1>9, <2>1
    DEF Sound, ShutdownInOrder, Stores, SameShutdown, NotRunning
<1>13. Reserved(b)
  BY <1>8, <1>9 DEF Sound, Reserved, CapacityFor, NotRunning
<1>14. DoubtIsKept(b)
  BY <1>8 DEF DoubtIsKept
<1>15. RequestIsCurrent(b)
  BY <1>9 DEF RequestIsCurrent
<1>. QED
  BY <1>2, <1>7, <1>8, <1>9, <1>10, <1>11, <1>12, <1>13, <1>14, <1>15
  DEF Sound, Faulty, b, t, bound

(* Handing a request to a thread leaves the disk alone.                    *)
LEMMA GeneratingIsQuiet ==
    ASSUME NEW p, NEW q, Generates(p, q), q.ctl.stage = p.ctl.stage
    PROVE  Quiet(p, q)
BY DEF Generates, SameStorage, Quiet, HasGame, GameOf

(* The opening turn that was owed is begun.                                *)
LEMMA AcceptSavedSound ==
    ASSUME NEW p, Sound(p), StorageRuns(p), p.storage.applied, NEW spawned \in BOOLEAN
    PROVE  LET b == SavedAs(Released(p, "Ready"), p.storage.evidence)
               q == AcceptSaved(Released(p, "Ready"), p.storage.evidence, spawned)
           IN  /\ Sound(q) /\ Quiet(b, q) /\ ~StorageRuns(q)
               /\ q.shutdown = p.shutdown
               /\ q.worker = p.worker \/ q.worker.result = "nothing"
               /\ \/ q = b
                  \/ /\ CanTakeTurn(p.ctl, "Continue") /\ ~Pending(p.ctl)
                     /\ q.ctl = RuntimeStart(b, TakeTurn(p.ctl, "Continue"), spawned).ctl
               /\ spawned => (Faulty(q) => Faulty(p))
<1>. DEFINE t == Released(p, "Ready")
            a == p.storage.evidence
            b == SavedAs(t, a)
            q == AcceptSaved(t, a, spawned)
<1>1. /\ Sound(b)
      /\ b.ctl = p.ctl /\ (Faulty(b) => Faulty(p))
      /\ b.durability = "Clean" /\ StorageIdle(b) /\ ~StorageRuns(b)
      /\ b.shutdown = p.shutdown /\ b.lastStorageId = p.lastStorageId
      /\ b.worker = p.worker
  BY SavedAsSound
<1>2. /\ t \in Session /\ t.ctl = p.ctl /\ t.deferredOpening = p.deferredOpening
      /\ t.shutdown = p.shutdown /\ ~Pending(p.ctl)
  BY ReleasedSound DEF Stores, SameShutdown
<1>3. p.deferredOpening \in BOOLEAN /\ p \in Session
  BY SessionFields DEF Sound
<1>. HIDE DEF t, a
<1>4. Bind(t, a).ctl = t.ctl
  BY <1>2 DEF Bind, Session
<1>5. CASE ~p.deferredOpening
  <2>1. q = Bind(t, a)
    BY <1>2, <1>5 DEF AcceptSaved
  <2>2. Bind(t, a).deferredOpening = FALSE
    BY <1>2, <1>3, <1>5 DEF Bind, Session
  <2>3. b = Bind(t, a)
    BY <1>2, <2>2 DEF SavedAs, Bind, Session
  <2>4. Quiet(b, b)
    BY DEF Quiet
  <2>. QED  BY <1>1, <2>1, <2>3, <2>4 DEF t, a
<1>6. CASE p.deferredOpening
  <2>1. p.shutdown = "Open" /\ CanTakeTurn(p.ctl, "Continue") /\ HasGame(p.ctl)
    BY <1>6 DEF Sound, WorkFollowsSave, CanTakeTurn
  <2>2. q = RuntimeStart(b, TakeTurn(p.ctl, "Continue"), spawned)
    BY <1>2, <1>4, <1>6, <2>1 DEF AcceptSaved, SavedAs
  <2>. DEFINE work == [kind |-> "Turn", game |-> GameOf(p.ctl), direction |-> "Continue"]
  <2>3. work \in Work
    BY <1>3, <2>1, SessionFields, StageFields DEF Work, Direction
  <2>4. TakeTurn(p.ctl, "Continue") = Start(b.ctl, work)
    BY <1>1 DEF TakeTurn
  <2>5. p.running.effect = "Save"
    BY EvidenceIsStory DEF Sound, RequestIsCurrent, ReplyFits
  <2>6. MayGenerate(b)
    BY <1>1, <1>6, <2>1, <2>5 DEF MayGenerate, Sound, Reserved, CapacityFor, CanTakeTurn
  <2>. HIDE DEF work, b, q
  <2>7. /\ Sound(q) /\ Generates(b, q) /\ q.ctl.stage = b.ctl.stage
        /\ spawned => (Faulty(q) => Faulty(b))
    BY <1>1, <2>2, <2>3, <2>4, <2>6, RuntimeStartSound
  <2>8. Quiet(b, q) /\ ~StorageRuns(q) /\ q.shutdown = p.shutdown
    BY <1>1, <2>7, GeneratingIsQuiet DEF Generates, SameStorage, SameShutdown, StorageRuns
  <2>9. b \in Session
    BY <1>1 DEF Sound
  <2>10. q.worker = b.worker \/ q.worker.result = "nothing"
    BY <2>2, <2>9 DEF RuntimeStart, Session
  <2>. QED  BY <1>1, <1>2, <2>1, <2>2, <2>7, <2>8, <2>10 DEF b, q, t, a
<1>. QED  BY <1>3, <1>5, <1>6

(* What can be told of a result from its kind.                             *)
LEMMA ResultFields ==
    ASSUME NEW r \in StorageResult
    PROVE  /\ r.is \in {"Nothing", "Listed", "Panicked", "Saved", "Failed", "Loaded"}
           /\ r.is = "Nothing" <=> r = NoResult
           /\ r.is = "Panicked" <=> r = Panicked
           /\ r.is = "Failed" => r.visibility \in Visibilities
           /\ r.is = "Loaded" => Loads(r)
BY DEF StorageResult, NoResult, Listed, Panicked, Visibilities, Loads

(* The story that was loaded is installed.                                 *)
LEMMA AcceptLoadedSound ==
    ASSUME NEW p, Sound(p), StorageRuns(p), p.storage.result.is = "Loaded",
           p.running.effect = "Load", p.shutdown = "Open", NEW spawned \in BOOLEAN
    PROVE  LET t == Released(p, "Ready")
               q == InstallLoaded(t, p.storage.result, spawned)
           IN  /\ Sound(q)
               /\ Loads(p.storage.result) /\ CanReplaceGame(p.ctl)
               /\ q.ctl = ReplaceGame(p.ctl, p.storage.result.game)
               /\ Faulty(q) => Faulty(p)
               /\ q.shutdown = p.shutdown /\ q.worker = p.worker
               /\ StorageRuns(q) => q.storage.result = NoResult
               /\ MayInstall(t) /\ ~p.storage.applied
               /\ StorageRuns(q) => Fresh(q.storage)
<1>. DEFINE t == Released(p, "Ready")
            r == p.storage.result
            u == Installed(t, r)
            q == InstallLoaded(t, r, spawned)
<1>0. p \in Session
  BY DEF Sound
<1>1. /\ Sound(t) /\ Stores(p, t) /\ t.durability = p.durability
      /\ t.lastStorageId = p.lastStorageId /\ ~StorageRuns(t) /\ StorageIdle(t)
  BY ReleasedSound
<1>2. Loads(r)
  BY <1>0, StorageFields, ResultFields
<1>3. CanReplaceGame(p.ctl) /\ CapacityFor(p, 1)
  BY DEF Sound, Reserved
<1>4. MayInstall(t)
  BY <1>1, <1>3 DEF MayInstall, Stores, SameShutdown, CapacityFor
<1>5. ~p.storage.applied
  BY EvidenceIsStory DEF Sound, RequestIsCurrent, ReplyFits
<1>. HIDE DEF t, r, u, q
<1>6. u.ctl = ReplaceGame(t.ctl, r.game)
  BY <1>1, <1>2, <1>4, InstalledSound DEF u
<1>7. /\ Sound(q)
      /\ q.ctl = u.ctl /\ q.worker = t.worker /\ (Faulty(q) => Faulty(t))
      /\ StorageRuns(q) => q.storage.result = NoResult
      /\ SameShutdown(t, q)
      /\ StorageRuns(q) => Fresh(q.storage)
  BY <1>1, <1>2, <1>4, InstallLoadedSound DEF u, q
<1>. QED
  BY <1>1, <1>2, <1>3, <1>4, <1>5, <1>6, <1>7 DEF Stores, SameShutdown, Faulty, t, r, q

(* What is done with the return of the storage thread.                     *)
LEMMA FinishedEffect ==
    ASSUME NEW p, Sound(p), StorageRuns(p), p.storage.result # NoResult,
           NEW spawned \in BOOLEAN
    PROVE  LET s == p.storage
               r == s.result
               t == Released(p, IF r = Panicked THEN "Faulted" ELSE "Ready")
               visibility == IF r.is = "Failed" THEN r.visibility
                             ELSE IF s.evidence = NoAttempt THEN "Unchanged" ELSE "Unknown"
           IN  \E run :
                  /\ run.prior = p.durability /\ run.key = s.key
                  /\ AcceptStorage(p, spawned) =
                        IF r.is \in {"Failed", "Panicked"}
                        THEN IF p.running.effect = "Save"
                             THEN SaveFailed(t, run, visibility, s.evidence) ELSE t
                        ELSE IF p.shutdown # "Open" /\ p.running.effect # "Save" THEN t
                        ELSE IF r.is = "Saved" /\ p.running.effect = "Save"
                        THEN AcceptSaved(t, r.attempt, spawned)
                        ELSE IF r.is = "Loaded" /\ p.running.effect = "Load"
                        THEN InstallLoaded(t, r, spawned)
                        ELSE t
<1>. DEFINE s == p.storage
            r == s.result
            run == p.running
            after == IF r = Panicked THEN "Faulted" ELSE "Ready"
            t == Released(p, after)
            visibility == IF r.is = "Failed" THEN r.visibility
                          ELSE IF s.evidence = NoAttempt THEN "Unchanged" ELSE "Unknown"
            x == IF s.evidence # NoAttempt THEN [p EXCEPT !.running.pending = s.evidence] ELSE p
            y == [x EXCEPT !.storage = At(after)]
<1>1. /\ p \in Session /\ run # NotRunning /\ run.key = s.key
      /\ s.key.revision = p.ctl.revision /\ run.prior = p.durability
      /\ CurrentStorage(p, s.key) /\ ~p.closing
  BY DEF Sound, Threads, CurrentStorage, DoubtIsKept, ShutdownInOrder, StorageRuns
<1>2. run \in [effect: Effect, key: Key, pending: {NoAttempt} \cup Attempt, prior: Durability]
  BY <1>1, SessionFields DEF RunningStorage
<1>3. AcceptStorage(p, spawned) = AcceptFinished(y, s.key, r, s.evidence, spawned)
  BY <1>1 DEF AcceptStorage, StorageRuns
<1>4. r.is \in {"Listed", "Panicked", "Saved", "Failed", "Loaded"}
  BY <1>1, StorageFields, ResultFields
<1>5. /\ y.running.effect = run.effect /\ y.running.key = run.key
      /\ y.running.prior = run.prior /\ y.running # NotRunning
      /\ y.ctl = p.ctl /\ y.shutdown = p.shutdown
  <2>1. CASE s.evidence = NoAttempt
    BY <1>1, <2>1 DEF Session
  <2>2. CASE s.evidence # NoAttempt
    <3>1. y.running = [run EXCEPT !.pending = s.evidence]
      BY <1>1, <2>2 DEF Session
    <3>. QED  BY <1>1, <1>2, <2>2, <3>1 DEF Session, NotRunning, Effect
  <2>. QED  BY <2>1, <2>2
<1>6. [y EXCEPT !.running = NotRunning] = t
  <2>1. [x EXCEPT !.storage = At(after), !.running = NotRunning]
          = [p EXCEPT !.running = NotRunning, !.storage = At(after)]
    BY <1>1 DEF Session
  <2>2. x = [p EXCEPT !.running = x.running]
    BY <1>1 DEF Session
  <2>. QED  BY <1>1, <2>1, <2>2 DEF Released, Session
<1>7. CurrentStorage(y, s.key)
  BY <1>1, <1>5 DEF CurrentStorage
<1>. DEFINE z == y.running
<1>8. z.prior = p.durability /\ z.key = s.key /\ z.effect = p.running.effect
  BY <1>1, <1>5
<1>. HIDE DEF x, y, z, t, after
<1>9. \A v : AcceptFailure(y, s.key, v, s.evidence)
               = IF p.running.effect = "Save" THEN SaveFailed(t, z, v, s.evidence) ELSE t
  BY <1>6, <1>7, <1>8 DEF AcceptFailure, z
<1>10. CASE r.is = "Failed"
  BY <1>3, <1>8, <1>9, <1>10 DEF AcceptFinished, t, after
<1>11. CASE r.is = "Panicked"
  BY <1>3, <1>8, <1>9, <1>11 DEF AcceptFinished, t, after
<1>12. CASE r.is \in {"Saved", "Loaded", "Listed"}
  <2>1. AcceptFinished(y, s.key, r, s.evidence, spawned)
          = IF p.shutdown # "Open" /\ p.running.effect # "Save" THEN t
            ELSE IF r.is = "Saved" /\ p.running.effect = "Save"
            THEN AcceptSaved(t, r.attempt, spawned)
            ELSE IF r.is = "Loaded" /\ p.running.effect = "Load"
            THEN InstallLoaded(t, r, spawned)
            ELSE t
    BY <1>5, <1>6, <1>7, <1>12 DEF AcceptFinished
  <2>. QED  BY <1>3, <1>8, <1>12, <2>1 DEF t, after
<1>. QED  BY <1>4, <1>10, <1>11, <1>12

(* What a poll of the storage thread may do to the story: begin the turn   *)
(* that was owed, or install the story that was loaded.                    *)
Carried(c, d) ==
    \/ d = c
    \/ /\ CanTakeTurn(c, "Continue")
       /\ LET e == TakeTurn(c, "Continue")
          IN d \in {e, DispatchFailed(e, e.op.key)}
    \/ /\ CanReplaceGame(c)
       /\ \E g \in Game : d = ReplaceGame(c, g)

(* The thread is still at work: what it has published is noted.            *)
LEMMA NotedSound ==
    ASSUME NEW p, Sound(p), StorageRuns(p), p.storage.result = NoResult,
           NEW spawned \in BOOLEAN
    PROVE  LET q == AcceptStorage(p, spawned)
           IN  /\ Sound(q) /\ Quiet(p, q)
               /\ q.ctl = p.ctl /\ q.worker = p.worker /\ (Faulty(q) => Faulty(p))
               /\ q.shutdown = p.shutdown /\ StorageRuns(q)
<1>. DEFINE e == p.storage.evidence
            run == p.running
            noted == [run EXCEPT !.pending = e]
            q == AcceptStorage(p, spawned)
<1>1. /\ p \in Session /\ run # NotRunning /\ CurrentStorage(p, p.storage.key)
  BY DEF Sound, Threads, CurrentStorage
<1>2. run \in [effect: Effect, key: Key, pending: {NoAttempt} \cup Attempt, prior: Durability]
  BY <1>1, SessionFields DEF RunningStorage
<1>3. CASE e = NoAttempt
  <2>1. q = p
    BY <1>1, <1>3 DEF AcceptStorage, StorageRuns
  <2>. QED  BY <2>1 DEF Quiet
<1>4. CASE e # NoAttempt
  <2>1. q = [p EXCEPT !.running = noted]
    BY <1>1, <1>4 DEF AcceptStorage, StorageRuns
  <2>2. e \in Attempt
    BY <1>1, <1>4, StorageFields
  <2>3. /\ noted \in RunningStorage /\ noted # NotRunning
        /\ noted.effect = run.effect /\ noted.key = run.key
        /\ noted.prior = run.prior /\ noted.pending = e
    BY <1>2, <2>2 DEF RunningStorage, NotRunning, Effect
  <2>. HIDE DEF noted, q
  <2>4. q \in Session
    BY <1>1, <2>1, <2>3 DEF Session
  <2>5. /\ q.running = noted /\ q.storage = p.storage /\ q.ctl = p.ctl
        /\ q.worker = p.worker /\ q.workerFault = p.workerFault
        /\ q.binding = p.binding /\ q.retryWrite = p.retryWrite
        /\ q.durability = p.durability /\ q.lastStorageId = p.lastStorageId
        /\ q.deferredOpening = p.deferredOpening /\ SameShutdown(p, q)
    BY <1>1, <2>1 DEF Session, SameShutdown
  <2>6. Threads(q)
    BY <1>1, <2>3, <2>5 DEF Sound, Threads, StorageRuns, CurrentStorage
  <2>7. WorkFollowsSave(q)
    BY <1>1, <2>3, <2>5 DEF Sound, WorkFollowsSave, StorageIdle, SameShutdown
  <2>8. ShutdownInOrder(q)
    BY <2>3, <2>5 DEF Sound, ShutdownInOrder, SameShutdown
  <2>9. Reserved(q)
    BY <2>3, <2>5 DEF Sound, Reserved, SameShutdown, CapacityFor
  <2>10. DoubtIsKept(q)
    BY <1>1, <2>3, <2>5 DEF Sound, DoubtIsKept
  <2>11. RequestIsCurrent(q)
    BY <2>3, <2>5 DEF Sound, RequestIsCurrent, RequestFits, StorageRuns
  <2>12. Quiet(p, q)
    BY <2>5 DEF Quiet
  <2>. QED
    BY <2>4, <2>5, <2>6, <2>7, <2>8, <2>9, <2>10, <2>11, <2>12
    DEF Sound, SameShutdown, StorageRuns, Faulty, q
<1>. QED  BY <1>3, <1>4

(* A poll of the storage thread.                                           *)
LEMMA AcceptStorageSound ==
    ASSUME NEW p, Sound(p), NEW spawned \in BOOLEAN
    PROVE  LET q == AcceptStorage(p, spawned)
           IN  /\ Sound(q)
               /\ q.worker = p.worker \/ q.worker.result = "nothing"
               /\ Carried(p.ctl, q.ctl)
               /\ q.shutdown = p.shutdown
               /\ StorageRuns(q) => q.storage.result = NoResult
               /\ spawned => (Faulty(q) => Faulty(p))
               /\ ~StorageRuns(p) => q = p
               /\ StorageRuns(q) => q.storage = p.storage \/ Fresh(q.storage)
<1>. DEFINE q == AcceptStorage(p, spawned)
            s == p.storage
            r == s.result
            after == IF r = Panicked THEN "Faulted" ELSE "Ready"
            t == Released(p, after)
            visibility == IF r.is = "Failed" THEN r.visibility
                          ELSE IF s.evidence = NoAttempt THEN "Unchanged" ELSE "Unknown"
<1>0. p \in Session /\ p.workerFault \in BOOLEAN
  BY SessionFields DEF Sound
<1>1. CASE ~StorageRuns(p)
  <2>1. q = p
    BY <1>1 DEF AcceptStorage, StorageRuns
  <2>. QED  BY <1>1, <2>1 DEF Carried
<1>2. CASE StorageRuns(p) /\ r = NoResult
  <2>1. /\ Sound(q) /\ Quiet(p, q)
        /\ q.ctl = p.ctl /\ q.worker = p.worker /\ (Faulty(q) => Faulty(p))
        /\ q.shutdown = p.shutdown /\ StorageRuns(q)
    BY <1>2, NotedSound
  <2>2. q.storage = p.storage
    BY <1>2, <2>1 DEF Quiet
  <2>. HIDE DEF q
  <2>. QED  BY <1>2, <2>1, <2>2 DEF Carried, q
<1>3. CASE StorageRuns(p) /\ r # NoResult
  <2>1. PICK run :
          /\ run.prior = p.durability /\ run.key = s.key
          /\ q = IF r.is \in {"Failed", "Panicked"}
                 THEN IF p.running.effect = "Save"
                      THEN SaveFailed(t, run, visibility, s.evidence) ELSE t
                 ELSE IF p.shutdown # "Open" /\ p.running.effect # "Save" THEN t
                 ELSE IF r.is = "Saved" /\ p.running.effect = "Save"
                 THEN AcceptSaved(t, r.attempt, spawned)
                 ELSE IF r.is = "Loaded" /\ p.running.effect = "Load"
                 THEN InstallLoaded(t, r, spawned)
                 ELSE t
    BY <1>3, FinishedEffect
  <2>2. /\ r.is \in {"Listed", "Panicked", "Saved", "Failed", "Loaded"}
        /\ r.is = "Panicked" <=> r = Panicked
        /\ r.is = "Failed" => r.visibility \in Visibilities
        /\ r.is = "Loaded" => Loads(r)
    BY <1>0, <1>3, StorageFields, ResultFields
  <2>3. /\ ReplyFits(s) /\ RequestFits(p, p.running.effect, s.intent)
        /\ p.running # NotRunning /\ p.running.effect \in Effect
    BY <1>0, <1>3, RunningFields DEF Sound, RequestIsCurrent, Threads, CurrentStorage
  <2>5. after \in {"Ready", "Faulted"}
    OBVIOUS
  <2>6. CASE q = t
    <3>1. /\ Sound(t) /\ Stores(p, t) /\ ~StorageRuns(t)
      BY <1>3, <2>5, ReleasedSound
    <3>. HIDE DEF q, t
    <3>. QED  BY <1>3, <2>6, <3>1 DEF Stores, SameShutdown, Carried, Faulty, q
  <2>7. CASE r.is \in {"Failed", "Panicked"} /\ p.running.effect = "Save"
    <3>1. visibility \in Visibilities
      BY <2>2 DEF Visibilities
    <3>2. /\ visibility # "Unchanged" => s.evidence # NoAttempt
          /\ visibility = "Unchanged" => ~s.applied
      BY <2>3, <2>7 DEF ReplyFits
    <3>3. q = SaveFailed(t, run, visibility, s.evidence)
      BY <2>1, <2>7
    <3>. HIDE DEF visibility, after
    <3>4. /\ Sound(q)
          /\ Stores(p, [q EXCEPT !.retryWrite = p.retryWrite])
          /\ ~StorageRuns(q)
      BY <1>3, <2>1, <2>5, <2>7, <3>1, <3>2, <3>3, SaveFailedSound
    <3>. HIDE DEF q
    <3>5. /\ q.ctl = p.ctl /\ q.workerFault = p.workerFault /\ q.worker = p.worker
          /\ q.shutdown = p.shutdown
      BY <3>4 DEF Stores, SameShutdown, Sound, Session
    <3>. QED  BY <1>3, <3>4, <3>5 DEF Carried, Faulty, q
  <2>8. CASE r.is = "Saved" /\ p.running.effect = "Save"
    <3>. DEFINE b == SavedAs(Released(p, "Ready"), s.evidence)
    <3>1. s.applied /\ r.attempt = s.evidence /\ after = "Ready"
      BY <2>2, <2>3, <2>8 DEF ReplyFits
    <3>2. q = AcceptSaved(Released(p, "Ready"), s.evidence, spawned)
      BY <2>1, <2>8, <3>1
    <3>3. /\ Sound(b) /\ b.shutdown = p.shutdown /\ b.ctl = p.ctl
      BY <1>3, <3>1, SavedAsSound
    <3>4. /\ Sound(q) /\ Quiet(b, q) /\ ~StorageRuns(q)
          /\ q.shutdown = p.shutdown
          /\ q.worker = p.worker \/ q.worker.result = "nothing"
          /\ \/ q = b
             \/ /\ CanTakeTurn(p.ctl, "Continue") /\ ~Pending(p.ctl)
                /\ q.ctl = RuntimeStart(b, TakeTurn(p.ctl, "Continue"), spawned).ctl
          /\ spawned => (Faulty(q) => Faulty(p))
      BY <1>3, <3>1, <3>2, AcceptSavedSound
    <3>. HIDE DEF q, b
    <3>6. Carried(p.ctl, q.ctl)
      <4>1. CASE q = b
        BY <3>3, <4>1 DEF Carried
      <4>2. CASE q # b
        <5>. DEFINE e == TakeTurn(p.ctl, "Continue")
        <5>1. b \in Session
          BY <3>3 DEF Sound
        <5>. HIDE DEF e
        <5>2. RuntimeStart(b, e, spawned).ctl \in {e, DispatchFailed(e, e.op.key)}
          BY <5>1 DEF RuntimeStart, Session
        <5>. QED  BY <3>4, <4>2, <5>2 DEF Carried, e
      <4>. QED  BY <4>1, <4>2
    <3>. QED  BY <1>3, <3>4, <3>6 DEF q
  <2>9. CASE r.is = "Loaded" /\ p.running.effect = "Load" /\ p.shutdown = "Open"
    <3>1. after = "Ready" /\ q = InstallLoaded(Released(p, "Ready"), r, spawned)
      BY <2>1, <2>2, <2>9
    <3>2. /\ Sound(q)
          /\ Loads(r) /\ CanReplaceGame(p.ctl)
          /\ q.ctl = ReplaceGame(p.ctl, r.game)
          /\ (Faulty(q) => Faulty(p)) /\ q.shutdown = p.shutdown /\ q.worker = p.worker
          /\ StorageRuns(q) => q.storage.result = NoResult
          /\ StorageRuns(q) => Fresh(q.storage)
      BY <1>3, <2>9, <3>1, AcceptLoadedSound
    <3>. HIDE DEF q
    <3>. QED  BY <1>3, <3>2 DEF Carried, Loads, q
  <2>. HIDE DEF t, q, visibility
  <2>. QED  BY <2>1, <2>2, <2>6, <2>7, <2>8, <2>9 DEF q
<1>. QED  BY <1>1, <1>2, <1>3

----------------------------------------------------------------------------
(***************************************************************************)
(* Shutting down.                                                          *)
(***************************************************************************)
(* Nothing is under way, and the story has been saved or that was tried.   *)
MayFinish(p) ==
    /\ p.shutdown \in {"StoppingGeneration", "SavingFinal"}
    /\ p.ctl.op.phase = "Closed" /\ StorageIdle(p)
    /\ HasGame(p.ctl) => p.closingWriteSatisfied \/ p.finalAttempted

(* The runners are closed, the output is to be drained.                    *)
LEMMA FinishSound ==
    ASSUME NEW p, Sound(p), MayFinish(p)
    PROVE  LET q == FinishStorage(p)
           IN  /\ Sound(q) /\ Quiet(p, q) /\ q.ctl = p.ctl /\ q.worker = p.worker
               /\ q.shutdown = "DrainingOutput"
               /\ Faulty(q) => Faulty(p)
<1>. DEFINE q == FinishStorage(p)
<1>0. /\ p \in Session /\ ~p.closing /\ ~StorageRuns(p)
      /\ p.storage.at \in {"Ready", "Faulted"} /\ ~Pending(p.ctl)
      /\ p.lastStorageId \in Nat
  BY IdleStorage, SessionFields
  DEF Sound, ShutdownInOrder, MayFinish, Pending, PendingPhase
<1>1. At("Closed") \in Storage /\ At("Closed").at = "Closed" /\ "DrainingOutput" \in Shutdown
  BY DEF At, Storage, Shutdown
<1>2. q = [p EXCEPT !.closing = TRUE, !.storage = At("Closed"), !.shutdown = "DrainingOutput"]
  BY <1>0 DEF FinishStorage, Session
<1>. HIDE DEF q
<1>3. q \in Session
  BY <1>0, <1>1, <1>2 DEF Session
<1>4. /\ q.closing /\ q.storage = At("Closed") /\ q.shutdown = "DrainingOutput"
      /\ q.ctl = p.ctl /\ q.worker = p.worker /\ q.workerFault = p.workerFault
      /\ q.binding = p.binding /\ q.retryWrite = p.retryWrite
      /\ q.durability = p.durability /\ q.lastStorageId = p.lastStorageId
      /\ q.running = p.running /\ q.deferredOpening = p.deferredOpening
      /\ q.finalAttempted = p.finalAttempted /\ q.panicked = p.panicked
      /\ q.closingWriteSatisfied = p.closingWriteSatisfied
  BY <1>0, <1>2 DEF Session
<1>5. ~StorageRuns(q) /\ q.storage.at = "Closed"
  BY <1>1, <1>4 DEF StorageRuns
<1>6. Threads(q)
  BY <1>0, <1>4, <1>5 DEF Sound, Threads, StorageIdle, MayFinish
<1>7. WorkFollowsSave(q)
  BY <1>0, <1>4 DEF Sound, WorkFollowsSave, MayFinish
<1>8. ShutdownInOrder(q)
  BY <1>4, <1>5 DEF Sound, ShutdownInOrder, MayFinish
<1>9. Reserved(q)
  BY <1>0, <1>4 DEF Sound, Reserved, CapacityFor, MayFinish, StorageIdle, NotRunning
<1>10. DoubtIsKept(q)
  BY <1>4 DEF Sound, DoubtIsKept
<1>11. RequestIsCurrent(q)
  BY <1>5 DEF RequestIsCurrent
<1>12. Quiet(p, q) /\ (Faulty(q) => Faulty(p))
  BY <1>0, <1>4, <1>5 DEF Quiet, Faulty
<1>. QED
  BY <1>3, <1>4, <1>6, <1>7, <1>8, <1>9, <1>10, <1>11, <1>12 DEF Sound, q

(* One last save is tried, and there is an id left for it.                 *)
LEMMA FinalSaveSound ==
    ASSUME NEW p, Sound(p), CanClose(p), HasGame(p.ctl), ~p.closingWriteSatisfied,
           NEW spawned \in BOOLEAN
    PROVE  LET q == FinalSave(p, spawned)
           IN  /\ Sound(q) /\ Quiet(p, q) /\ q.ctl = p.ctl /\ q.worker = p.worker
               /\ Faulty(q) => Faulty(p)
               /\ q.shutdown = "SavingFinal" /\ q.finalAttempted
<1>. DEFINE t == [p EXCEPT !.shutdown = "SavingFinal", !.finalAttempted = TRUE]
            q == FinalSave(p, spawned)
<1>0. /\ p \in Session /\ ~p.closing /\ ~StorageRuns(p) /\ ~Pending(p.ctl)
      /\ p.lastStorageId < MaxStorageId /\ ~p.deferredOpening
      /\ p.deferredOpening \in BOOLEAN
  BY IdleStorage, SessionFields
  DEF Sound, ShutdownInOrder, WorkFollowsSave, Reserved, CanClose, Pending, PendingPhase
<1>1. q = Write(t, FALSE, spawned)
  BY <1>0 DEF FinalSave
<1>. HIDE DEF q
<1>2. /\ t \in Session
      /\ t.shutdown = "SavingFinal" /\ t.finalAttempted
      /\ t.closing = p.closing /\ t.storage = p.storage
      /\ t.ctl = p.ctl /\ t.worker = p.worker /\ t.workerFault = p.workerFault
      /\ t.binding = p.binding /\ t.retryWrite = p.retryWrite
      /\ t.durability = p.durability /\ t.lastStorageId = p.lastStorageId
      /\ t.running = p.running /\ t.deferredOpening = p.deferredOpening
      /\ t.panicked = p.panicked
      /\ t.closingWriteSatisfied = p.closingWriteSatisfied
  BY <1>0 DEF Session, Shutdown
<1>. HIDE DEF t
<1>3. Threads(t)
  BY <1>0, <1>2 DEF Sound, Threads, StorageRuns, StorageIdle, CanClose
<1>4. WorkFollowsSave(t)
  BY <1>0, <1>2 DEF WorkFollowsSave
<1>5. ShutdownInOrder(t)
  BY <1>0, <1>2 DEF Sound, ShutdownInOrder, CanClose
<1>6. Reserved(t)
  BY <1>0, <1>2 DEF Sound, Reserved, CanClose, StorageIdle, NotRunning
<1>7. DoubtIsKept(t)
  BY <1>2 DEF Sound, DoubtIsKept
<1>8. RequestIsCurrent(t)
  BY <1>0, <1>2 DEF RequestIsCurrent, StorageRuns
<1>9. Sound(t)
  BY <1>2, <1>3, <1>4, <1>5, <1>6, <1>7, <1>8 DEF Sound
<1>10. MayStore(t, "Save")
  BY <1>0, <1>2 DEF MayStore, CanClose, StorageIdle
<1>11. Sound(q) /\ Quiet(t, q) /\ Stores(t, q)
  BY <1>1, <1>2, <1>9, <1>10, WriteIsQuiet
<1>12. Quiet(p, q)
  BY <1>2, <1>11 DEF Quiet, StorageRuns
<1>. QED
  BY <1>2, <1>11, <1>12 DEF Stores, SameShutdown, Faulty, q

(* A poll of the shutdown.                                                 *)
LEMMA AdvanceShutdownSound ==
    ASSUME NEW p, Sound(p), NEW spawned \in BOOLEAN
    PROVE  LET q == AdvanceShutdown(p, spawned)
           IN  /\ Sound(q)
               /\ \E r : Sound(r) /\ Quiet(p, r) /\ (q = r \/ Quiet(r, q))
               /\ q.ctl = p.ctl /\ q.worker = p.worker
               /\ q.shutdown \in {p.shutdown, "SavingFinal", "DrainingOutput"}
               /\ p.shutdown = "Open" => q = p
               /\ Faulty(q) => Faulty(p)
<1>. DEFINE r == IF ~CanClose(p) THEN p
                 ELSE IF ~HasGame(p.ctl) \/ p.closingWriteSatisfied THEN FinishStorage(p)
                 ELSE FinalSave(p, spawned)
            q == AdvanceShutdown(p, spawned)
<1>1. q = IF FinalSaveIsOver(r) THEN FinishStorage(r) ELSE r
  BY DEF AdvanceShutdown
<1>2. /\ Sound(r) /\ Quiet(p, r) /\ r.ctl = p.ctl /\ r.worker = p.worker
      /\ Faulty(r) => Faulty(p)
      /\ r.shutdown \in {p.shutdown, "SavingFinal", "DrainingOutput"}
      /\ p.shutdown = "Open" => r = p
  <2>1. CASE ~CanClose(p)
    BY <2>1 DEF Quiet
  <2>2. CASE CanClose(p) /\ (~HasGame(p.ctl) \/ p.closingWriteSatisfied)
    <3>1. MayFinish(p)
      BY <2>2 DEF MayFinish, CanClose
    <3>. QED  BY <2>2, <3>1, FinishSound DEF CanClose
  <2>3. CASE CanClose(p) /\ ~(~HasGame(p.ctl) \/ p.closingWriteSatisfied)
    BY <2>3, FinalSaveSound DEF CanClose
  <2>. QED  BY <2>1, <2>2, <2>3
<1>. HIDE DEF r, q
<1>3. CASE ~FinalSaveIsOver(r)
  <2>1. q = r
    BY <1>1, <1>3
  <2>. QED  BY <1>2, <2>1 DEF q
<1>4. CASE FinalSaveIsOver(r)
  <2>1. MayFinish(r)
    BY <1>2, <1>4 DEF MayFinish, FinalSaveIsOver, Sound, ShutdownInOrder
  <2>2. q = FinishStorage(r)
    BY <1>1, <1>4
  <2>3. /\ Sound(q) /\ Quiet(r, q) /\ q.ctl = r.ctl /\ q.worker = r.worker
        /\ q.shutdown = "DrainingOutput"
        /\ Faulty(q) => Faulty(r)
    BY <1>2, <2>1, <2>2, FinishSound
  <2>4. p.shutdown # "Open"
    BY <1>2, <1>4 DEF FinalSaveIsOver
  <2>. QED  BY <1>2, <2>3, <2>4 DEF q
<1>. QED  BY <1>3, <1>4

(* A whole poll: generation, storage, shutdown.                            *)
LEMMA PollAllSound ==
    ASSUME NEW p, Sound(p), NEW spawned \in BOOLEAN
    PROVE  LET q == PollAll(p, spawned)
           IN  /\ Sound(q)
               /\ spawned => (Faulty(q) => Faulty(p))
<1>. DEFINE g == AcceptGeneration(p, spawned)
            s == AcceptStorage(g, spawned)
            q == AdvanceShutdown(s, spawned)
<1>1. Sound(g) /\ (Faulty(g) => Faulty(p))
  BY AcceptGenerationSound
<1>. HIDE DEF g
<1>2. /\ Sound(s)
      /\ spawned => (Faulty(s) => Faulty(g))
  BY <1>1, AcceptStorageSound
<1>. HIDE DEF s
<1>3. /\ Sound(q)
      /\ Faulty(q) => Faulty(s)
  BY <1>2, AdvanceShutdownSound
<1>4. PollAll(p, spawned) = q
  BY DEF PollAll, g, s
<1>. HIDE DEF q
<1>. QED  BY <1>1, <1>2, <1>3, <1>4

(* A command that only uses the storage thread leaves the controller be.   *)
LEMMA StorageKeepsStory ==
    ASSUME NEW p \in Session, NEW effect, NEW intent, NEW spawned \in BOOLEAN
    PROVE  StartStorage(p, effect, intent, spawned).ctl = p.ctl
BY DEF StartStorage, AcceptFailure, SaveFailed, Session

----------------------------------------------------------------------------
(***************************************************************************)
(* A poll.                                                                 *)
(***************************************************************************)
(* What a poll of the generation thread makes of the controller, if that   *)
(* thread has come to an end.                                              *)
HasAnswer(w) == w.at = "Running" /\ w.result # "nothing"

Answered(p, d) ==
    LET w == p.worker
    IN  \/ w.result = "panic" /\ d = WorkerFailed(p.ctl, w.key)
        \/ w.result \in {"success", "failure"} /\ d = Complete(p.ctl, w.key, Outcome(w))

(* Polling the generation thread settles the request it was given, with    *)
(* its own outcome, and otherwise leaves the session be: the save that may *)
(* follow an accepted turn does not touch the controller.                  *)
LEMMA GenerationAnswers ==
    ASSUME NEW p, Sound(p), NEW spawned \in BOOLEAN
    PROVE  LET q == AcceptGeneration(p, spawned)
           IN  IF HasAnswer(p.worker) THEN Answered(p, q.ctl) ELSE q = p
<1>. DEFINE q == AcceptGeneration(p, spawned)
            w == p.worker
            o == Outcome(w)
            d == Complete(p.ctl, w.key, o)
<1>0. p \in Session /\ p.workerFault \in BOOLEAN
  BY SessionFields DEF Sound
<1>1. CASE w.at # "Running" \/ w.result = "nothing"
  BY <1>1 DEF AcceptGeneration, HasAnswer
<1>2. CASE w.at = "Running" /\ w.result = "panic"
  <2>. DEFINE e == WorkerFailed(p.ctl, w.key)
  <2>1. q = [p EXCEPT !.ctl = e, !.worker = At("Faulted"), !.workerFault = TRUE]
    BY <1>2 DEF AcceptGeneration
  <2>. HIDE DEF q, e
  <2>2. q.ctl = e
    BY <1>0, <2>1 DEF Session
  <2>. QED  BY <1>2, <2>2 DEF Answered, HasAnswer, e, q
<1>3. CASE w.at = "Running" /\ w.result \in {"success", "failure"}
  <2>. DEFINE r == [p EXCEPT !.ctl = d, !.worker = At("Ready"),
                             !.workerFault = @ \/ d.op.phase = "Faulted"]
              u == [r EXCEPT !.durability = "Dirty"]
  <2>1. q = IF Commits(p.ctl, w.key, o) /\ w.work.kind = "Turn" THEN ReservedWrite(u, spawned)
            ELSE r
    BY <1>3 DEF AcceptGeneration
  <2>2. d \in Controller
    BY <1>3, AnswerEffect DEF EditedInto
  <2>. HIDE DEF d, q
  <2>3. r \in Session /\ r.ctl = d
    BY <1>0, <2>2 DEF Session, Worker, At
  <2>. HIDE DEF r
  <2>4. u \in Session /\ u.ctl = d
    BY <2>3 DEF Session, Durability
  <2>. HIDE DEF u
  <2>5. ReservedWrite(u, spawned).ctl = d
    BY <2>4, StorageKeepsStory DEF ReservedWrite, Write, Panic, Session
  <2>6. q.ctl = d
    BY <2>1, <2>3, <2>5
  <2>. QED  BY <1>3, <2>6 DEF Answered, HasAnswer, d, q
<1>4. w.at = "Running" => w.result \in {"nothing", "success", "failure", "panic"}
  BY <1>0, WorkerFields
<1>. QED  BY <1>1, <1>2, <1>3, <1>4 DEF HasAnswer

(* A poll answers the pending request, or carries out what a storage reply *)
(* allows, but never both.                                                 *)
LEMMA PollTakesOneStep ==
    ASSUME NEW p, Sound(p), NEW spawned \in BOOLEAN
    PROVE  LET d == PollAll(p, spawned).ctl
           IN  IF HasAnswer(p.worker) THEN Answered(p, d) ELSE Carried(p.ctl, d)
<1>. DEFINE g == AcceptGeneration(p, spawned)
            s == AcceptStorage(g, spawned)
            q == AdvanceShutdown(s, spawned)
<1>1. /\ Sound(g)
      /\ StorageRuns(g) => g.storage = p.storage \/ g.storage.result = NoResult
  BY AcceptGenerationSound
<1>2. IF HasAnswer(p.worker) THEN Answered(p, g.ctl) ELSE g = p
  BY GenerationAnswers
<1>3. HasAnswer(p.worker) => ~StorageRuns(p)
  BY WaitingForWorker DEF HasAnswer, WaitsForWorker
<1>. HIDE DEF g
<1>4. Sound(s) /\ Carried(g.ctl, s.ctl) /\ (~StorageRuns(g) => s = g)
  BY <1>1, AcceptStorageSound
<1>5. HasAnswer(p.worker) => s.ctl = g.ctl
  <2>1. CASE ~StorageRuns(g)
    BY <1>4, <2>1
  <2>2. CASE StorageRuns(g) /\ HasAnswer(p.worker)
    <3>1. g.storage.result = NoResult
      BY <1>1, <1>3, <2>2 DEF StorageRuns
    <3>. QED  BY <1>1, <2>2, <3>1, NotedSound
  <2>. QED  BY <2>1, <2>2
<1>. HIDE DEF s
<1>6. q.ctl = s.ctl
  BY <1>4, AdvanceShutdownSound
<1>7. PollAll(p, spawned) = q
  BY DEF PollAll, g, s
<1>. QED  BY <1>2, <1>4, <1>5, <1>6, <1>7

(* A poll leaves of the storage thread what there was, or one that was     *)
(* just started.                                                           *)
Renews(p, q) == StorageRuns(q) => q.storage = p.storage \/ Fresh(q.storage)

(* A quiet step renews the storage thread at most, and so do two.          *)
LEMMA QuietRenews ==
    ASSUME NEW p, NEW q, Quiet(p, q)
    PROVE  Renews(p, q)
BY DEF Quiet, Renews, Fresh, StorageRuns

(* An answer ends the request.                                             *)
LEMMA AnswerSettles ==
    ASSUME NEW p, Sound(p), HasAnswer(p.worker), NEW d, Answered(p, d)
    PROVE  ~Pending(d)
<1>1. WaitsForWorker(p) /\ p \in Session /\ p.ctl \in Controller
  BY WaitingForWorker, SessionFields DEF HasAnswer, Sound
<1>2. CASE p.worker.result = "panic"
  <2>1. d = WorkerFailed(p.ctl, p.worker.key)
    BY <1>2 DEF Answered
  <2>2. d.op \in {Idle("Closed"), Idle("Faulted")}
    BY <1>1, <2>1, WorkerFailedEffect DEF WaitsForWorker
  <2>. QED  BY <2>2 DEF Idle, Pending, PendingPhase
<1>3. CASE p.worker.result \in {"success", "failure"}
  <2>1. d = Complete(p.ctl, p.worker.key, Outcome(p.worker))
    BY <1>3 DEF Answered
  <2>. DEFINE x == Complete(p.ctl, p.worker.key, Outcome(p.worker))
              o == Outcome(p.worker)
  <2>2. /\ Commits(p.ctl, p.worker.key, o) =>
              EditedInto(p.ctl, x, Produced(p.ctl.op.key, p.ctl.op.work))
        /\ ~Commits(p.ctl, p.worker.key, o) =>
              x.op = IF p.ctl.op.phase = "Closing" THEN Idle("Closed")
                     ELSE Failed(p.ctl.op.work, IF Stopped(p.ctl) THEN "Cancelled"
                                                ELSE "Generation")
    BY <1>3, AnswerEffect DEF HasAnswer
  <2>. HIDE DEF x, o
  <2>3. x.op.phase \in {"Ready", "Closed", "Failed"}
    BY <2>2 DEF EditedInto, Idle, Failed
  <2>. QED  BY <2>1, <2>3 DEF Pending, PendingPhase, x
<1>. QED  BY <1>2, <1>3 DEF Answered

(* A poll while the generation goes on does nothing.                       *)
LEMMA PollWaits ==
    ASSUME NEW p, Sound(p), p.worker.at = "Running", p.worker.result = "nothing",
           NEW spawned \in BOOLEAN
    PROVE  PollAll(p, spawned) = p
<1>1. WaitsForWorker(p)
  BY WaitingForWorker
<1>2. AcceptGeneration(p, spawned) = p
  BY GenerationAnswers DEF HasAnswer
<1>3. AcceptStorage(p, spawned) = p
  BY <1>1 DEF WaitsForWorker, AcceptStorage, StorageRuns
<1>4. ~CanClose(p) /\ ~FinalSaveIsOver(p)
  BY <1>1 DEF WaitsForWorker, CanClose, FinalSaveIsOver
<1>5. AdvanceShutdown(p, spawned) = p
  BY <1>4 DEF AdvanceShutdown
<1>. QED  BY <1>2, <1>3, <1>5 DEF PollAll

(* A poll as its callers see it.                                           *)
LEMMA PollAllEffect ==
    ASSUME NEW p, Sound(p), NEW spawned \in BOOLEAN
    PROVE  LET q == PollAll(p, spawned)
           IN  /\ Sound(q) /\ Renews(p, q)
               /\ IF HasAnswer(p.worker) THEN Answered(p, q.ctl) ELSE Carried(p.ctl, q.ctl)
               /\ HasAnswer(p.worker) => ~Pending(q.ctl)
               /\ q.worker = p.worker \/ q.worker.at # "Running" \/ q.worker.result = "nothing"
               /\ q.shutdown \in {p.shutdown, "SavingFinal", "DrainingOutput"}
               /\ p.shutdown = "Open" => q.shutdown = "Open"
<1>. DEFINE g == AcceptGeneration(p, spawned)
            s == AcceptStorage(g, spawned)
            q == AdvanceShutdown(s, spawned)
<1>1. /\ Sound(g) /\ Quiet(p, g)
      /\ g.shutdown = p.shutdown
      /\ g # p => ~StorageRuns(p) /\ ~Pending(g.ctl)
  BY AcceptGenerationSound
<1>. HIDE DEF g
<1>2. /\ Sound(s)
      /\ s.worker = g.worker \/ s.worker.result = "nothing"
      /\ s.shutdown = g.shutdown
      /\ StorageRuns(s) => s.storage = g.storage \/ Fresh(s.storage)
  BY <1>1, AcceptStorageSound
<1>. HIDE DEF s
<1>3. /\ Sound(q)
      /\ q.ctl = s.ctl /\ q.worker = s.worker
      /\ q.shutdown \in {s.shutdown, "SavingFinal", "DrainingOutput"}
      /\ s.shutdown = "Open" => q = s
  BY <1>2, AdvanceShutdownSound
<1>4. \E r : Quiet(s, r) /\ (q = r \/ Quiet(r, q))
  BY <1>2, AdvanceShutdownSound
<1>5. PollAll(p, spawned) = q
  BY DEF PollAll, g, s
<1>6. IF HasAnswer(p.worker) THEN Answered(p, q.ctl) ELSE Carried(p.ctl, q.ctl)
  BY <1>5, PollTakesOneStep
<1>7. HasAnswer(p.worker) => ~Pending(q.ctl)
  BY <1>6, AnswerSettles
<1>8. g.worker = p.worker \/ g.worker.at # "Running"
  BY <1>1 DEF Sound, Threads
<1>. HIDE DEF q
<1>9. Renews(p, q)
  <2>1. PICK r : Quiet(s, r) /\ (q = r \/ Quiet(r, q))
    BY <1>4
  <2>2. Renews(p, g) /\ Renews(g, s) /\ Renews(s, r) /\ (q = r \/ Renews(r, q))
    BY <1>1, <1>2, <2>1, QuietRenews DEF Renews
  <2>. QED  BY <2>2 DEF Renews, StorageRuns
<1>. QED  BY <1>1, <1>2, <1>3, <1>5, <1>6, <1>7, <1>8, <1>9

----------------------------------------------------------------------------
(***************************************************************************)
(* The player's commands.                                                  *)
(***************************************************************************)
(* Every intent that asks for a generation comes down to Start.            *)
LEMMA IntentsStartWork ==
    ASSUME NEW c \in Controller, NEW e,
           \/ CanSubmitBrief(c) /\ e = SubmitBrief(c)
           \/ CanAcceptOutline(c) /\ e = AcceptOutline(c)
           \/ \E d \in Direction : CanTakeTurn(c, d) /\ e = TakeTurn(c, d)
           \/ CanRetry(c) /\ e = Retry(c)
    PROVE  CanStart(c) /\ \E work \in Work : e = Start(c, work)
<1>1. CASE CanSubmitBrief(c) /\ e = SubmitBrief(c)
  <2>1. [kind |-> "Outline"] \in Work
    BY DEF Work
  <2>. QED  BY <1>1, <2>1 DEF CanSubmitBrief, SubmitBrief
<1>2. CASE CanAcceptOutline(c) /\ e = AcceptOutline(c)
  <2>1. [kind |-> "Cast", outline |-> c.stage.outline] \in Work
    BY <1>2, StageFields DEF Work, CanAcceptOutline
  <2>. QED  BY <1>2, <2>1 DEF CanAcceptOutline, AcceptOutline
<1>3. ASSUME NEW d \in Direction, CanTakeTurn(c, d), e = TakeTurn(c, d)
      PROVE  CanStart(c) /\ \E work \in Work : e = Start(c, work)
  <2>1. [kind |-> "Turn", game |-> GameOf(c), direction |-> d] \in Work
    BY <1>3, StageFields DEF Work, CanTakeTurn
  <2>. QED  BY <1>3, <2>1 DEF CanTakeTurn, TakeTurn
<1>4. CASE CanRetry(c) /\ e = Retry(c)
  <2>1. c.op.work \in Work
    BY <1>4, OpFields DEF CanRetry
  <2>. QED  BY <1>4, <2>1 DEF CanRetry, Retry
<1>. QED  BY <1>1, <1>2, <1>3, <1>4

(* Quietness adds up over a command that starts with an edit.              *)
LEMMA QuietAfterEdit ==
    ASSUME NEW p, NEW q, NEW r, Quiet(p, q), Quiet(q, r),
           q.storage = p.storage, q.lastStorageId = p.lastStorageId
    PROVE  Quiet(p, r)
BY DEF Quiet, StorageRuns

(* The story is edited on the spot.                                        *)
Edits(p, q) ==
    /\ q \in Session
    /\ q.storage = p.storage /\ q.running = p.running /\ q.lastStorageId = p.lastStorageId
    /\ q.worker = p.worker /\ q.workerFault = p.workerFault
    /\ q.binding = p.binding /\ q.retryWrite = p.retryWrite
    /\ SameShutdown(p, q)

(* An edit of a saved story, with the opening turn owed to it or not.      *)
LEMMA EditedSound ==
    ASSUME NEW p, Sound(p), SessionIdle(p), p.durability = "Clean",
           NEW q, Edits(p, q), NEW stage, EditedInto(p.ctl, q.ctl, stage),
           q.durability \in {"Clean", "Dirty"},
           q.durability = "Clean" => ~HasGame(q.ctl),
           q.deferredOpening => /\ q.durability = "Dirty"
                                /\ GameOf(q.ctl).turns = <<>>
                                /\ CanTakeTurn(q.ctl, "Continue")
    PROVE  /\ Sound(q) /\ Quiet(p, q) /\ (Faulty(q) => Faulty(p))
           /\ StorageIdle(q) /\ ~q.closing /\ ~Pending(q.ctl) /\ ~q.closingWriteSatisfied
<1>0. p \in Session /\ p.ctl \in Controller /\ Ready(p.ctl) /\ ~p.closing /\ ~StorageRuns(p)
      /\ p.shutdown = "Open" /\ StorageIdle(p)
  BY SessionFields, IdleStorage DEF Sound, SessionIdle, ShutdownInOrder
<1>1. q.ctl.op.phase = "Ready" /\ ~Pending(q.ctl)
  BY DEF EditedInto, Idle, Pending, PendingPhase
<1>5. p.worker.at = "Ready" /\ p.retryWrite = NoRetry
  BY <1>0, WorkerFields DEF Sound, Threads, DoubtIsKept, Ready, Pending, PendingPhase
<1>6. Threads(q)
  BY <1>0, <1>1, <1>5 DEF Edits, Threads, StorageRuns, StorageIdle
<1>7. WorkFollowsSave(q)
  BY <1>0, <1>1 DEF Edits, WorkFollowsSave, SameShutdown
<1>8. ShutdownInOrder(q)
  BY <1>0, <1>1 DEF Edits, Sound, ShutdownInOrder, SameShutdown
<1>9. Reserved(q)
  BY <1>0, <1>1 DEF Edits, Sound, Reserved, SameShutdown, StorageIdle, NotRunning
<1>10. DoubtIsKept(q)
  BY <1>0, <1>5 DEF Edits, DoubtIsKept, StorageIdle
<1>11. RequestIsCurrent(q)
  BY <1>0 DEF Edits, RequestIsCurrent, StorageRuns
<1>12. Quiet(p, q) /\ (Faulty(q) => Faulty(p))
  BY DEF Edits, Quiet, Faulty
<1>. QED
  BY <1>0, <1>1, <1>6, <1>7, <1>8, <1>9, <1>10, <1>11, <1>12
  DEF Edits, Sound, SameShutdown, StorageIdle, ShutdownInOrder

(* Such a command leaves a sound session, in which nothing is generated.   *)
Rests(p, q) ==
    /\ Sound(q) /\ Quiet(p, q) /\ (Faulty(q) => Faulty(p))
    /\ q.worker = p.worker /\ ~Pending(q.ctl)
    /\ SameShutdown(p, q)

(* An edited outline is no story yet, so nothing has to be saved.          *)
LEMMA ReplaceOutlineSound ==
    ASSUME NEW p, Sound(p), SessionIdle(p), p.durability = "Clean"
    PROVE  Rests(p, [p EXCEPT !.ctl = ReplaceOutline(p.ctl)])
<1>. DEFINE d == ReplaceOutline(p.ctl)
            stage == Reviewing([by |-> "player", n |-> p.ctl.revision + 1])
            q == [p EXCEPT !.ctl = d]
<1>0. p \in Session /\ p.ctl \in Controller
  BY SessionFields DEF Sound
<1>1. EditedInto(p.ctl, d, stage)
  BY <1>0, ReplaceOutlineEffect
<1>2. ~HasGame(d)
  BY <1>1 DEF EditedInto, Reviewing, HasGame
<1>3. ~p.deferredOpening
  BY DEF Sound, WorkFollowsSave
<1>. HIDE DEF d, stage
<1>4. /\ Edits(p, q) /\ q.ctl = d /\ q.durability = "Clean"
      /\ q.deferredOpening = p.deferredOpening
  BY <1>0, <1>1 DEF Edits, EditedInto, Session, SameShutdown
<1>. HIDE DEF q
<1>5. /\ Sound(q) /\ Quiet(p, q) /\ (Faulty(q) => Faulty(p))
      /\ ~Pending(q.ctl)
  BY <1>1, <1>2, <1>3, <1>4, EditedSound
<1>. QED  BY <1>4, <1>5 DEF Rests, Edits, q, d

(* Selecting and rewinding: the edit and its save.                         *)
LEMMA SaveChangedSound ==
    ASSUME NEW p, Sound(p), Admits(p, 1), NEW t, Edits(p, t),
           NEW stage, EditedInto(p.ctl, t.ctl, stage), HasGame(t.ctl),
           t.durability = "Dirty",
           t.deferredOpening => /\ CapacityFor(p, 2)
                                /\ GameOf(t.ctl).turns = <<>>
                                /\ CanTakeTurn(t.ctl, "Continue"),
           NEW spawned \in BOOLEAN
    PROVE  Rests(p, Write(t, FALSE, spawned))
<1>. DEFINE q == Write(t, FALSE, spawned)
<1>0. SessionIdle(p) /\ p.durability = "Clean" /\ CapacityFor(p, 1)
  BY DEF Admits
<1>1. /\ Sound(t) /\ Quiet(p, t) /\ (Faulty(t) => Faulty(p))
      /\ StorageIdle(t) /\ ~t.closing /\ ~Pending(t.ctl) /\ ~t.closingWriteSatisfied
  BY <1>0, EditedSound
<1>2. MayStore(t, "Save")
  BY <1>0, <1>1 DEF MayStore, CapacityFor, Edits
<1>3. Sound(q) /\ Quiet(t, q) /\ Stores(t, q)
  BY <1>1, <1>2, WriteIsQuiet
<1>. HIDE DEF q
<1>4. Quiet(p, q)
  BY <1>1, <1>3, QuietAfterEdit DEF Edits
<1>5. q.worker = p.worker /\ SameShutdown(p, q) /\ (Faulty(q) => Faulty(p))
  BY <1>1, <1>3 DEF Edits, Stores, SameShutdown, Faulty
<1>. QED  BY <1>1, <1>3, <1>4, <1>5 DEF Rests, Stores, q

(* Selecting the protagonist begins the story.                             *)
LEMMA SelectSound ==
    ASSUME NEW p, Sound(p), CanDispatchSelect(p), NEW spawned \in BOOLEAN
    PROVE  Rests(p, DispatchSelect(p, spawned))
<1>. DEFINE d == Select(p.ctl)
            game == NewGame(p.ctl.stage.outline, p.ctl.limits)
<1>0. p \in Session /\ p.ctl \in Controller /\ MaxCounter \in Nat
      /\ p.ctl.revision \in Nat /\ p.ctl.lastId \in Nat
      /\ p.lastStorageId \in Nat /\ MaxStorageId \in Nat
  BY SessionFields, ControllerFields, ControllerAssumption, PersistenceAssumption
  DEF Sound
<1>1. EditedInto(p.ctl, d, Playing(game))
  BY <1>0, SelectEffect DEF CanDispatchSelect, CanSelect
<1>2. HasGame(d) /\ GameOf(d).turns = <<>>
  BY <1>1 DEF EditedInto, Playing, HasGame, GameOf, NewGame
<1>3. CanTakeTurn(d, "Continue")
  BY <1>0, <1>1, <1>2
  DEF CanTakeTurn, CanStart, EditedInto, Idle, Ready, HasNextRevision, CanDispatchSelect,
      CanReserveSelectionOpening
<1>4. Admits(p, 1) /\ CapacityFor(p, 2)
  BY <1>0 DEF CanDispatchSelect, Admits, CapacityFor
<1>. DEFINE t == [p EXCEPT !.ctl = d, !.durability = "Dirty", !.deferredOpening = TRUE]
<1>5. DispatchSelect(p, spawned) = Write(t, FALSE, spawned)
  BY DEF DispatchSelect, SaveChanged
<1>. HIDE DEF d, game
<1>6. Edits(p, t) /\ t.ctl = d /\ t.durability = "Dirty"
  BY <1>0, <1>1 DEF Edits, EditedInto, Session, SameShutdown, Durability
<1>. HIDE DEF t
<1>. QED  BY <1>1, <1>2, <1>3, <1>4, <1>5, <1>6, SaveChangedSound

(* Rewinding drops turns.                                                  *)
LEMMA RewindSound ==
    ASSUME NEW p, Sound(p), NEW n, CanDispatchRewind(p, n), NEW spawned \in BOOLEAN
    PROVE  Rests(p, DispatchRewind(p, n, spawned))
<1>. DEFINE d == Rewind(p.ctl, n)
            stage == Playing(DropTurns(GameOf(p.ctl), n))
<1>1. p \in Session /\ p.ctl \in Controller
  BY SessionFields DEF Sound
<1>2. EditedInto(p.ctl, d, stage)
  BY <1>1, RewindEffect DEF CanDispatchRewind
<1>3. HasGame(d)
  BY <1>2 DEF EditedInto, Playing, HasGame
<1>. DEFINE t == [p EXCEPT !.ctl = d, !.durability = "Dirty", !.deferredOpening = FALSE]
<1>4. Admits(p, 1) /\ DispatchRewind(p, n, spawned) = Write(t, FALSE, spawned)
  BY DEF CanDispatchRewind, DispatchRewind, SaveChanged
<1>. HIDE DEF d, stage
<1>5. Edits(p, t) /\ t.ctl = d /\ t.durability = "Dirty" /\ ~t.deferredOpening
  BY <1>1, <1>2 DEF Edits, EditedInto, Session, SameShutdown, Durability
<1>. HIDE DEF t
<1>. QED  BY <1>2, <1>3, <1>4, <1>5, SaveChangedSound

(* A request for the storage thread, whatever it is.                       *)
LEMMA StartRests ==
    ASSUME NEW p, Sound(p), NEW effect \in Effect, NEW intent \in StorageIntent,
           NEW spawned \in BOOLEAN, MayStore(p, effect), RequestFits(p, effect, intent)
    PROVE  Rests(p, StartStorage(p, effect, intent, spawned))
<1>. DEFINE q == StartStorage(p, effect, intent, spawned)
<1>1. Sound(q) /\ Quiet(p, q) /\ Stores(p, q)
  BY StartIsQuiet
<1>. HIDE DEF q
<1>. QED  BY <1>1 DEF Rests, Stores, MayStore, Faulty, q

(* An idle session may use the storage thread.                             *)
LEMMA IdleMayStore ==
    ASSUME NEW p, Sound(p), SessionIdleOrFaulted(p)
    PROVE  /\ StorageIdle(p) /\ ~p.closing /\ ~Pending(p.ctl)
           /\ ~p.closingWriteSatisfied
BY DEF Sound, SessionIdleOrFaulted, Ready, Pending, PendingPhase, ShutdownInOrder

(* The player saves.                                                       *)
LEMMA SaveSound ==
    ASSUME NEW p, Sound(p), CanSave(p), NEW copy \in BOOLEAN, NEW spawned \in BOOLEAN
    PROVE  Rests(p, Save(p, copy, spawned))
<1>1. "Save" \in Effect /\ p.deferredOpening \in BOOLEAN /\ p.lastStorageId \in Nat
      /\ MaxStorageId \in Nat
  BY SessionFields, PersistenceAssumption DEF Effect, Sound
<1>2. SaveIntent(p, copy) \in StorageIntent /\ RequestFits(p, "Save", SaveIntent(p, copy))
  BY SaveIntentFits DEF CanSave
<1>3. MayStore(p, "Save")
  BY <1>1, IdleMayStore DEF MayStore, CanSave, CapacityFor
<1>. QED  BY <1>1, <1>2, <1>3, StartRests DEF Save, Write

(* The player lists the saves.                                             *)
LEMMA ListSound ==
    ASSUME NEW p, Sound(p), CanList(p), NEW spawned \in BOOLEAN
    PROVE  Rests(p, List(p, spawned))
<1>. DEFINE intent == [op |-> "List"]
<1>1. "List" \in Effect /\ intent \in StorageIntent /\ RequestFits(p, "List", intent)
  BY DEF Effect, StorageIntent, RequestFits
<1>2. MayStore(p, "List")
  BY IdleMayStore DEF MayStore, CanList
<1>3. List(p, spawned) = StartStorage(p, "List", intent, spawned)
  BY DEF List
<1>. HIDE DEF intent
<1>. QED  BY <1>1, <1>2, <1>3, StartRests

(* The player loads a save.                                                *)
LEMMA LoadSound ==
    ASSUME NEW p, Sound(p), CanLoad(p), NEW s \in Slots, NEW copy \in {"primary", "backup"},
           NEW limits \in Limits, NEW spawned \in BOOLEAN
    PROVE  Rests(p, Load(p, s, copy, limits, spawned))
<1>. DEFINE intent == [op |-> "Load", slot |-> s, copy |-> copy, limits |-> limits]
<1>1. "Load" \in Effect /\ intent \in StorageIntent
  BY DEF Effect, StorageIntent
<1>2. RequestFits(p, "Load", intent)
  BY DEF RequestFits, CanLoad, Admits
<1>3. p.lastStorageId \in Nat /\ MaxStorageId \in Nat
  BY SessionFields, PersistenceAssumption DEF Sound
<1>4. MayStore(p, "Load")
  BY <1>3, IdleMayStore
  DEF MayStore, CanLoad, Admits, SessionIdle, SessionIdleOrFaulted, CapacityFor
<1>5. Load(p, s, copy, limits, spawned) = StartStorage(p, "Load", intent, spawned)
  BY DEF Load
<1>. HIDE DEF intent
<1>. QED  BY <1>1, <1>2, <1>4, <1>5, StartRests

(* A cancellation is passed on and waited for.                             *)
LEMMA CancelSound ==
    ASSUME NEW p, Sound(p)
    PROVE  LET q == DispatchCancel(p)
           IN  /\ Sound(q) /\ Quiet(p, q)
               /\ q.worker = p.worker /\ q.workerFault = p.workerFault
               /\ SameShutdown(p, q)
               /\ \/ q = p
                  \/ /\ p.ctl.op.phase = "Running" /\ q.ctl.op.phase = "Cancelling"
                     /\ q.ctl.op.key = p.ctl.op.key /\ q.ctl.op.work = p.ctl.op.work
<1>. DEFINE c == p.ctl
            d == Cancel(c)
            q == DispatchCancel(p)
<1>0. p \in Session /\ c \in Controller
  BY SessionFields DEF Sound
<1>2. CASE q = p
  BY <1>2 DEF Quiet, SameShutdown
<1>3. CASE p.shutdown = "Open" /\ c.op.phase = "Running"
  <2>1. SettledWith(c, d, Stopping(c.op, "Cancelling"))
    BY <1>0, <1>3, CancelEffect
  <2>2. Pending(c)
    BY <1>3 DEF Pending, PendingPhase
  <2>3. /\ d \in Controller /\ SameStory(c, d) /\ d.op.phase = "Cancelling"
        /\ d.op.key = c.op.key /\ d.op.work = c.op.work /\ Pending(d)
    BY <1>0, <2>1, <2>2, StoppingOps DEF SettledWith, Pending, PendingPhase
  <2>4. q = [p EXCEPT !.ctl = d]
    BY <1>3 DEF DispatchCancel
  <2>. HIDE DEF q, d
  <2>5. /\ Generates(p, q) /\ q.ctl = d /\ q.worker = p.worker
        /\ q.workerFault = p.workerFault
    BY <1>0, <2>3, <2>4 DEF Session, Generates, SameStorage, SameShutdown
  <2>6. Threads(q)
    BY <2>2, <2>3, <2>5
    DEF Sound, Threads, Generates, SameStorage, StorageRuns, StorageIdle, CurrentStorage,
        SameStory, HasNextRevision
  <2>7. WorkFollowsSave(q)
    BY <2>2, <2>5
    DEF Sound, WorkFollowsSave, Generates, SameStorage, SameShutdown, StorageIdle
  <2>8. ShutdownInOrder(q)
    BY <1>3, <2>3, <2>5
    DEF Sound, ShutdownInOrder, Generates, SameStorage, SameShutdown, SameStory, HasGame
  <2>9. Reserved(q)
    BY <2>2, <2>5
    DEF Sound, Reserved, WorkFollowsSave, StorageIdle, NotRunning, Generates, SameStorage,
        SameShutdown, CapacityFor
  <2>10. DoubtIsKept(q)
    BY <2>3, <2>5 DEF Sound, DoubtIsKept, Generates, SameStorage, SameStory, GameOf
  <2>11. RequestIsCurrent(q)
    BY <2>2, <2>5
    DEF Sound, Threads, WorkFollowsSave, CurrentStorage, StorageIdle, RequestIsCurrent,
        StorageRuns, Generates, SameStorage
  <2>12. Sound(q)
    BY <2>5, <2>6, <2>7, <2>8, <2>9, <2>10, <2>11 DEF Sound, Generates
  <2>13. Quiet(p, q)
    BY <2>3, <2>5, GeneratingIsQuiet DEF SameStory
  <2>. QED  BY <1>3, <2>3, <2>5, <2>12, <2>13 DEF Generates, q
<1>4. CASE p.shutdown = "Open" /\ c.op.phase # "Running"
  <2>1. d = c
    BY <1>4 DEF Cancel
  <2>2. q = p
    BY <1>0, <1>4, <2>1 DEF DispatchCancel, Session
  <2>. QED  BY <1>2, <2>2
<1>5. CASE p.shutdown # "Open"
  BY <1>2, <1>5 DEF DispatchCancel
<1>. QED  BY <1>3, <1>4, <1>5

(* A thread that is told of a cancellation has still done what it has.     *)
Tells(s, t) ==
    \/ t = s
    \/ /\ s.at = "Running" /\ t.at = "Running"
       /\ t.key = s.key /\ t.intent = s.intent /\ t.evidence = s.evidence
       /\ t.applied = s.applied /\ t.result = s.result

(* The session forgets the opening turn and stops what is under way.       *)
LEMMA QuitSound ==
    ASSUME NEW p, Sound(p)
    PROVE  LET q == DispatchQuit(p)
           IN  /\ Sound(q)
               /\ q.shutdown = IF p.shutdown = "Open" THEN "StoppingGeneration"
                               ELSE p.shutdown
               /\ Tells(p.storage, q.storage) /\ SameStory(p.ctl, q.ctl)
               /\ q.worker = p.worker /\ q.workerFault = p.workerFault
               /\ q.binding = p.binding /\ q.durability = p.durability
               /\ q.lastStorageId = p.lastStorageId /\ q.retryWrite = p.retryWrite
               /\ q.finalAttempted = p.finalAttempted
<1>. DEFINE c == p.ctl
            d == Quit(c)
            s == p.storage
            t == IF p.running # NotRunning /\ p.running.effect # "Save"
                 THEN CancelStorage(s) ELSE s
            q == DispatchQuit(p)
<1>0. p \in Session /\ c \in Controller /\ s \in Storage
  BY SessionFields DEF Sound
<1>2. CASE p.shutdown # "Open"
  BY <1>2 DEF DispatchQuit, SameStory, Tells
<1>3. CASE p.shutdown = "Open"
  <2>1. SettledWith(c, d, IF Pending(c) THEN Stopping(c.op, "Closing") ELSE Idle("Closed"))
    BY <1>0, QuitEffect
  <2>2. /\ d \in Controller /\ SameStory(c, d)
        /\ Pending(c) => /\ d.op.phase = "Closing" /\ d.op.key = c.op.key
                         /\ d.op.work = c.op.work /\ Pending(d)
        /\ ~Pending(c) => d.op.phase = "Closed" /\ ~Pending(d)
    BY <1>0, <2>1, StoppingOps, IdleOps DEF SettledWith, Pending, PendingPhase
  <2>3. t \in Storage /\ Tells(s, t)
    <3>1. CASE s.at # "Running"
      BY <1>0, <3>1 DEF CancelStorage, Tells
    <3>2. CASE s.at = "Running"
      <4>1. s \in [at: {"Running"}, key: Key, intent: StorageIntent, cancelled: BOOLEAN,
                   evidence: {NoAttempt} \cup Attempt, applied: BOOLEAN,
                   result: StorageResult]
        BY <1>0, <3>2, StorageFields DEF StorageRuns
      <4>2. [s EXCEPT !.cancelled = TRUE] \in Storage /\ Tells(s, [s EXCEPT !.cancelled = TRUE])
        BY <4>1 DEF Storage, Tells
      <4>. QED  BY <1>0, <3>2, <4>2 DEF CancelStorage, Tells
    <3>. QED  BY <3>1, <3>2
  <2>4. q = [p EXCEPT !.deferredOpening = FALSE, !.shutdown = "StoppingGeneration",
                      !.ctl = d, !.storage = t]
    BY <1>0, <1>3 DEF DispatchQuit, Session
  <2>. HIDE DEF q, d, t
  <2>5. q \in Session
    BY <1>0, <2>2, <2>3, <2>4 DEF Session, Shutdown
  <2>6. /\ q.ctl = d /\ q.storage = t /\ q.shutdown = "StoppingGeneration"
        /\ ~q.deferredOpening /\ q.worker = p.worker /\ q.workerFault = p.workerFault
        /\ q.closing = p.closing /\ q.binding = p.binding
        /\ q.durability = p.durability /\ q.running = p.running
        /\ q.lastStorageId = p.lastStorageId /\ q.retryWrite = p.retryWrite
        /\ q.finalAttempted = p.finalAttempted /\ q.panicked = p.panicked
        /\ q.closingWriteSatisfied = p.closingWriteSatisfied
    BY <1>0, <2>4 DEF Session
  <2>7. StorageRuns(q) <=> StorageRuns(p)
    BY <2>3, <2>6 DEF Tells, StorageRuns
  <2>8. Threads(q)
    BY <1>0, <2>2, <2>3, <2>6, <2>7
    DEF Sound, Threads, Tells, StorageRuns, StorageIdle, CurrentStorage, SameStory,
        HasNextRevision, Pending, PendingPhase
  <2>9. WorkFollowsSave(q)
    BY <2>2, <2>6 DEF Sound, WorkFollowsSave, StorageIdle
  <2>10. ShutdownInOrder(q)
    BY <1>3, <2>2, <2>3, <2>6 DEF Sound, ShutdownInOrder, Tells
  <2>11. Reserved(q)
    BY <2>2, <2>6 DEF Sound, Reserved, CapacityFor
  <2>12. DoubtIsKept(q)
    BY <2>2, <2>6 DEF Sound, DoubtIsKept, SameStory, GameOf
  <2>13. RequestIsCurrent(q)
    BY <2>2, <2>3, <2>6, <2>7
    DEF Sound, RequestIsCurrent, RequestFits, ReplyFits, Tells, StorageRuns, SameStory,
        GameOf, HasGame
  <2>14. Sound(q)
    BY <2>5, <2>8, <2>9, <2>10, <2>11, <2>12, <2>13 DEF Sound
  <2>. QED  BY <1>3, <2>2, <2>3, <2>6, <2>14 DEF q
<1>. QED  BY <1>2, <1>3

(* The driver has drained the output.                                      *)
LEMMA ClosedSound ==
    ASSUME NEW p, Sound(p), p.shutdown = "DrainingOutput"
    PROVE  LET q == [p EXCEPT !.shutdown = "Closed"]
           IN  /\ Sound(q) /\ Quiet(p, q)
               /\ q.ctl = p.ctl /\ q.worker = p.worker /\ q.workerFault = p.workerFault
               /\ q.shutdown = "Closed"
<1>. DEFINE q == [p EXCEPT !.shutdown = "Closed"]
<1>2. p \in Session
  BY DEF Sound
<1>3. /\ q \in Session /\ q.shutdown = "Closed"
      /\ q.ctl = p.ctl /\ q.storage = p.storage
      /\ q.deferredOpening = p.deferredOpening
      /\ q.worker = p.worker /\ q.workerFault = p.workerFault
      /\ q.closing = p.closing /\ q.binding = p.binding
      /\ q.durability = p.durability /\ q.running = p.running
      /\ q.lastStorageId = p.lastStorageId /\ q.retryWrite = p.retryWrite
      /\ q.finalAttempted = p.finalAttempted /\ q.panicked = p.panicked
      /\ q.closingWriteSatisfied = p.closingWriteSatisfied
  BY <1>2 DEF Session, Shutdown
<1>. HIDE DEF q
<1>4. Threads(q)
  BY <1>3 DEF Sound, Threads, StorageRuns, StorageIdle, CurrentStorage
<1>5. WorkFollowsSave(q)
  BY <1>3 DEF Sound, WorkFollowsSave, StorageIdle
<1>6. ShutdownInOrder(q)
  BY <1>3 DEF Sound, ShutdownInOrder
<1>7. Reserved(q)
  BY <1>3 DEF Sound, Reserved, CapacityFor
<1>8. DoubtIsKept(q) /\ RequestIsCurrent(q)
  BY <1>3 DEF Sound, DoubtIsKept, RequestIsCurrent, RequestFits, StorageRuns
<1>9. Sound(q) /\ Quiet(p, q)
  BY <1>3, <1>4, <1>5, <1>6, <1>7, <1>8 DEF Sound, Quiet
<1>. QED  BY <1>3, <1>9 DEF q

----------------------------------------------------------------------------
(***************************************************************************)
(* The threads.                                                            *)
(***************************************************************************)
(* The generation thread stops, with some answer.                          *)
LEMMA WorkerReturnsSound ==
    ASSUME NEW p, Sound(p), p.worker.at = "Running",
           NEW result \in {"success", "failure", "panic"}
    PROVE  LET q == [p EXCEPT !.worker.result = result]
           IN  /\ Sound(q) /\ Quiet(p, q) /\ Generates(p, q)
               /\ q.ctl = p.ctl /\ q.workerFault = p.workerFault
               /\ q.worker.at = "Running" /\ q.worker.result = result
               /\ q.worker.key = p.worker.key /\ q.worker.work = p.worker.work
<1>. DEFINE w == [p.worker EXCEPT !.result = result]
            q == [p EXCEPT !.worker = w]
<1>1. p \in Session
  BY DEF Sound
<1>2. p.worker \in [at: {"Running"}, key: Key, work: Work,
                    result: {"nothing", "success", "failure", "panic"}]
  BY <1>1, WorkerFields
<1>3. /\ w \in Worker /\ w.at = "Running" /\ w.key = p.worker.key
      /\ w.work = p.worker.work /\ w.result = result
  BY <1>2 DEF Worker
<1>. HIDE DEF w, q
<1>4. /\ Generates(p, q) /\ q.ctl = p.ctl /\ q.worker = w
      /\ q.workerFault = p.workerFault
  BY <1>1, <1>3 DEF Session, Generates, SameStorage, SameShutdown, q
<1>5. Threads(q)
  BY <1>3, <1>4
  DEF Sound, Threads, Generates, SameStorage, StorageRuns, StorageIdle, CurrentStorage
<1>6. WorkFollowsSave(q)
  BY <1>4 DEF Sound, WorkFollowsSave, Generates, SameStorage, SameShutdown, StorageIdle
<1>7. ShutdownInOrder(q)
  BY <1>4 DEF Sound, ShutdownInOrder, Generates, SameStorage, SameShutdown
<1>8. Reserved(q)
  BY <1>4 DEF Sound, Reserved, Generates, SameStorage, SameShutdown, CapacityFor
<1>9. DoubtIsKept(q)
  BY <1>4 DEF Sound, DoubtIsKept, Generates, SameStorage
<1>10. RequestIsCurrent(q)
  BY <1>4 DEF Sound, RequestIsCurrent, RequestFits, StorageRuns, Generates, SameStorage
<1>11. Sound(q)
  BY <1>4, <1>5, <1>6, <1>7, <1>8, <1>9, <1>10 DEF Sound, Generates
<1>12. Quiet(p, q)
  BY <1>4, GeneratingIsQuiet
<1>. QED  BY <1>3, <1>4, <1>11, <1>12 DEF q, w

(* The generation thread has published text: the preview may grow by it,   *)
(* and nothing else happens.                                               *)
LEMMA ProgressSound ==
    ASSUME NEW p, Sound(p), p.worker.at = "Running",
           NEW bytes \in Nat, NEW incomplete \in BOOLEAN
    PROVE  LET d == Progress(p.ctl, p.worker.key, bytes, incomplete)
               q == [p EXCEPT !.ctl = d]
           IN  /\ Sound(q) /\ Quiet(p, q) /\ Generates(p, q)
               /\ q.ctl = d /\ SameStory(p.ctl, d) /\ d.op = p.ctl.op
               /\ \/ d.preview = p.ctl.preview
                  \/ d.preview = p.ctl.preview \o Bytes(bytes, p.worker.key.id)
               /\ q.worker = p.worker /\ q.workerFault = p.workerFault
<1>. DEFINE d == Progress(p.ctl, p.worker.key, bytes, incomplete)
            q == [p EXCEPT !.ctl = d]
<1>1. p \in Session /\ p.ctl \in Controller /\ p.worker.key \in Key
  BY SessionFields, WorkerFields DEF Sound
<1>2. /\ d \in Controller /\ SameStory(p.ctl, d) /\ d.op = p.ctl.op
      /\ \/ d.preview = p.ctl.preview
         \/ d.preview = p.ctl.preview \o Bytes(bytes, p.worker.key.id)
  <2>1. d \in Controller
    BY <1>1, ProgressEffect
  <2>2. SameStory(p.ctl, d)
    BY <1>1, ProgressEffect
  <2>3. d.op = p.ctl.op
    BY <1>1 DEF Progress, Controller
  <2>4. \/ d.preview = p.ctl.preview
        \/ d.preview = p.ctl.preview \o Bytes(bytes, p.worker.key.id)
    BY <1>1, ProgressEffect, Zenon
  <2>. QED  BY <2>1, <2>2, <2>3, <2>4
<1>. HIDE DEF d
<1>3. /\ Generates(p, q) /\ q.ctl = d /\ q.worker = p.worker
      /\ q.workerFault = p.workerFault
  BY <1>1, <1>2 DEF Session, Generates, SameStorage, SameShutdown
<1>. HIDE DEF q
<1>4. Threads(q)
  BY <1>2, <1>3
  DEF Sound, Threads, Generates, SameStorage, StorageRuns, StorageIdle, CurrentStorage,
      SameStory, Pending, HasNextRevision
<1>5. WorkFollowsSave(q)
  BY <1>2, <1>3
  DEF Sound, WorkFollowsSave, Generates, SameStorage, SameShutdown, StorageIdle, SameStory,
      Pending, GameOf, CanTakeTurn, CanStart, Ready, HasNextRevision, HasGame
<1>6. ShutdownInOrder(q)
  BY <1>2, <1>3
  DEF Sound, ShutdownInOrder, Generates, SameStorage, SameShutdown, SameStory, HasGame
<1>7. Reserved(q)
  BY <1>2, <1>3
  DEF Sound, Reserved, Generates, SameStorage, SameShutdown, CapacityFor, SameStory,
      Pending, CanReplaceGame, Ready, HasNextRevision
<1>8. DoubtIsKept(q)
  BY <1>2, <1>3 DEF Sound, DoubtIsKept, Generates, SameStorage, SameStory, GameOf
<1>9. RequestIsCurrent(q)
  BY <1>2, <1>3
  DEF Sound, RequestIsCurrent, RequestFits, StorageRuns, Generates, SameStorage, SameStory,
      HasGame, GameOf
<1>10. Sound(q)
  BY <1>3, <1>4, <1>5, <1>6, <1>7, <1>8, <1>9 DEF Sound, Generates
<1>11. Quiet(p, q)
  BY <1>2, <1>3, GeneratingIsQuiet DEF SameStory
<1>. QED  BY <1>2, <1>3, <1>10, <1>11 DEF q, d

----------------------------------------------------------------------------
(***************************************************************************)
(* The steps of the storage thread and of its helper.                      *)
(***************************************************************************)
(* Only what the thread has done so far moves on.                          *)
ThreadMoves(p, q) ==
    /\ q \in Session
    /\ q.ctl = p.ctl /\ q.worker = p.worker /\ q.workerFault = p.workerFault
    /\ q.binding = p.binding /\ q.retryWrite = p.retryWrite
    /\ q.durability = p.durability /\ q.lastStorageId = p.lastStorageId
    /\ q.running = p.running /\ q.deferredOpening = p.deferredOpening
    /\ SameShutdown(p, q)
    /\ StorageRuns(p) /\ StorageRuns(q)
    /\ q.storage.key = p.storage.key /\ q.storage.intent = p.storage.intent

(* What the thread does is nothing to the rest of the session.             *)
LEMMA ThreadSound ==
    ASSUME NEW p, Sound(p), NEW q, ThreadMoves(p, q), ReplyFits(q.storage),
           p.running.pending \in {NoAttempt, q.storage.evidence}
    PROVE  Sound(q) /\ (Faulty(q) <=> Faulty(p))
<1>1. Threads(q)
  BY DEF ThreadMoves, Sound, Threads, StorageIdle, CurrentStorage
<1>2. WorkFollowsSave(q)
  BY DEF ThreadMoves, Sound, WorkFollowsSave, StorageIdle, SameShutdown
<1>3. ShutdownInOrder(q)
  BY DEF ThreadMoves, Sound, ShutdownInOrder, SameShutdown, StorageRuns
<1>4. Reserved(q)
  BY DEF ThreadMoves, Sound, Reserved, CapacityFor, SameShutdown
<1>5. DoubtIsKept(q)
  BY DEF ThreadMoves, Sound, DoubtIsKept
<1>6. RequestIsCurrent(q)
  BY DEF ThreadMoves, Sound, RequestIsCurrent, RequestFits
<1>. QED  BY <1>1, <1>2, <1>3, <1>4, <1>5, <1>6 DEF ThreadMoves, Sound, Faulty

(* The storage thread is now as t says.                                    *)
LEMMA ThreadFields ==
    ASSUME NEW p \in Session, StorageRuns(p), NEW t,
           t \in [at: {"Running"}, key: Key, intent: StorageIntent,
                  cancelled: BOOLEAN, evidence: {NoAttempt} \cup Attempt,
                  applied: BOOLEAN, result: StorageResult],
           t.key = p.storage.key, t.intent = p.storage.intent
    PROVE  LET q == [p EXCEPT !.storage = t]
           IN  ThreadMoves(p, q) /\ q.storage = t
<1>. DEFINE q == [p EXCEPT !.storage = t]
<1>1. t \in Storage /\ t.at = "Running"
  BY DEF Storage
<1>2. /\ q \in Session /\ q.storage = t
      /\ q.ctl = p.ctl /\ q.worker = p.worker /\ q.workerFault = p.workerFault
      /\ q.binding = p.binding /\ q.retryWrite = p.retryWrite
      /\ q.durability = p.durability /\ q.lastStorageId = p.lastStorageId
      /\ q.running = p.running /\ q.deferredOpening = p.deferredOpening
      /\ SameShutdown(p, q)
  BY <1>1 DEF Session, SameShutdown
<1>. HIDE DEF q
<1>3. ThreadMoves(p, q) /\ q.storage = t
  BY <1>1, <1>2 DEF ThreadMoves, StorageRuns
<1>. QED  BY <1>3 DEF q

----------------------------------------------------------------------------
(***************************************************************************)
(* Starting up.                                                            *)
(***************************************************************************)
(* The session of a first run, into which a story may be installed.        *)
LEMMA NewSessionSound ==
    ASSUME MaxCounter >= 1, MaxStorageId >= 2
    PROVE  /\ Sound(NewSession) /\ MayInstall(NewSession)
           /\ ~Faulty(NewSession) /\ ~StorageRuns(NewSession)
           /\ NewSession.retryWrite = NoRetry /\ NewSession.binding = Unbound
           /\ ~HasGame(NewSession.ctl)
<1>. DEFINE p == NewSession
<1>1. /\ NewController \in Controller /\ NewController.op.phase = "Ready"
      /\ NewController.stage.at = "Brief"
      /\ NewController.revision = 0 /\ NewController.lastId = 0
  BY ControllerAssumption DEF NewController, Controller, Stage, Operation, Idle
<1>2. /\ p.ctl = NewController /\ p.worker.at = "Ready" /\ p.storage.at = "Ready"
      /\ p.closing = FALSE /\ p.binding = Unbound /\ p.durability = "Clean"
      /\ p.running = NotRunning /\ p.lastStorageId = 0 /\ p.retryWrite = NoRetry
      /\ p.deferredOpening = FALSE /\ p.shutdown = "Open" /\ p.finalAttempted = FALSE
      /\ p.closingWriteSatisfied = FALSE /\ p.workerFault = FALSE /\ p.panicked = FALSE
  BY DEF NewSession, At
<1>3. p \in Session
  <2>1. At("Ready") \in Worker /\ At("Ready") \in Storage
    BY DEF At, Worker, Storage
  <2>. QED
    BY <1>1, <2>1
    DEF NewSession, Session, Binding, Durability, RunningStorage, RetryWrite, Shutdown
<1>. HIDE DEF p
<1>4. ~Pending(p.ctl) /\ ~HasGame(p.ctl) /\ ~StorageRuns(p)
  BY <1>1, <1>2 DEF Pending, PendingPhase, HasGame, StorageRuns
<1>5. Threads(p) /\ WorkFollowsSave(p) /\ ShutdownInOrder(p)
  BY <1>1, <1>2, <1>4 DEF Threads, StorageIdle, WorkFollowsSave, ShutdownInOrder
<1>6. Reserved(p)
  BY <1>2, <1>4, PersistenceAssumption DEF Reserved, NotRunning
<1>7. DoubtIsKept(p) /\ RequestIsCurrent(p)
  BY <1>2, <1>4 DEF DoubtIsKept, RequestIsCurrent
<1>8. MayInstall(p)
  BY <1>1, <1>2, ControllerAssumption, PersistenceAssumption
  DEF MayInstall, StorageIdle, CanReplaceGame, Ready, HasNextRevision, CapacityFor
<1>. QED
  BY <1>2, <1>3, <1>4, <1>5, <1>6, <1>7, <1>8 DEF Sound, Faulty, p
=============================================================================
