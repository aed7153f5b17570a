------------------------- MODULE SessionController -------------------------
(***************************************************************************)
(* The operations of SessionController (cyoa-presentation/src/session.rs), *)
(* the only owner of the canonical story.                                  *)
(*                                                                         *)
(* The controller is a passive object: every public method runs to         *)
(* completion on the UI thread and either changes the object or refuses    *)
(* and leaves it alone.  A method is therefore a pair of operators on the  *)
(* controller record c: CanM(c, ..) is the method's checks, M(c, ..) the   *)
(* record it leaves.  SessionProtocol turns them into a state machine of   *)
(* their own; PersistedSession calls them from its coordinator.            *)
(*                                                                         *)
(* Story text is abstracted to what can be told apart: an outline is who   *)
(* wrote it and when, a turn is the id of the request that produced it.    *)
(***************************************************************************)
EXTENDS Naturals, Sequences

CONSTANTS MaxCounter,    (* u64::MAX of the request and revision counters   *)
          MaxPreview,    (* bytes the live preview may hold (1 MiB)         *)
          Limits,        (* possible values of the game limits              *)
          DefaultLimits  (* the limits a new session is created with        *)

ASSUME ControllerAssumption ==
    /\ MaxCounter \in Nat
    /\ MaxPreview \in Nat
    /\ DefaultLimits \in Limits

(***************************************************************************)
(* Canonical content, work, and the operation in progress.                 *)
(***************************************************************************)
Outline == [by: {"generator", "player"}, n: Nat]

Game == [outline: Outline, limits: Limits, turns: Seq(Nat)]

Stage == [at: {"Brief"}]
           \cup [at: {"OutlineReview", "CastSelection"}, outline: Outline]
           \cup [at: {"Playing"}, game: Game]

Direction == {"Continue", "Player"}

Work == [kind: {"Outline"}]
          \cup [kind: {"Cast"}, outline: Outline]
          \cup [kind: {"Turn"}, game: Game, direction: Direction]

Key == [id: Nat, revision: Nat]

PendingPhase == {"Running", "Cancelling", "Closing"}

Operation == [phase: {"Ready", "Faulted", "Closed"}]
               \cup [phase: PendingPhase, key: Key, work: Work, cancelled: BOOLEAN]
               \cup [phase: {"Failed"}, work: Work,
                     failure: {"Generation", "Cancelled", "Worker"}]

(* A preview is the ids of the requests its bytes came from, in order.     *)
Controller == [stage: Stage, op: Operation, limits: Limits, lastId: Nat,
               revision: Nat, preview: Seq(Nat), incomplete: BOOLEAN]

Idle(phase) == [phase |-> phase]
Running(key, work) ==
    [phase |-> "Running", key |-> key, work |-> work, cancelled |-> FALSE]
Stopping(op, phase) == [op EXCEPT !.phase = phase, !.cancelled = TRUE]
Failed(work, failure) == [phase |-> "Failed", work |-> work, failure |-> failure]

Playing(game) == [at |-> "Playing", game |-> game]
Reviewing(outline) == [at |-> "OutlineReview", outline |-> outline]
Casting(outline) == [at |-> "CastSelection", outline |-> outline]

NewGame(outline, limits) == [outline |-> outline, limits |-> limits, turns |-> <<>>]

NewController ==
    [stage |-> [at |-> "Brief"], op |-> Idle("Ready"), limits |-> DefaultLimits,
     lastId |-> 0, revision |-> 0, preview |-> <<>>, incomplete |-> FALSE]

FromGame(game) ==
    [NewController EXCEPT !.stage = Playing(game),
                          !.limits = game.limits]

----------------------------------------------------------------------------
(***************************************************************************)
(* Queries and admission checks shared by the methods.                     *)
(***************************************************************************)
HasGame(c) == c.stage.at = "Playing"
GameOf(c) == c.stage.game

Pending(c) == c.op.phase \in PendingPhase
Ready(c) == c.op.phase \in {"Ready", "Failed"}
HasNextRevision(c) == c.revision < MaxCounter

(* Mutant: no revision is kept back for the answer.                        *)
CanStartUnreserved(c) == Ready(c) /\ c.lastId < MaxCounter

CanStart(c) == Ready(c) /\ HasNextRevision(c) /\ c.lastId < MaxCounter

NextKey(c) == [id |-> c.lastId + 1, revision |-> c.revision]

Start(c, work) ==
    [c EXCEPT !.lastId = NextKey(c).id,
              !.preview = <<>>,
              !.incomplete = FALSE,
              !.op = Running(NextKey(c), work)]

CanReplaceGame(c) == Ready(c) /\ HasNextRevision(c)

(* Selecting and the opening turn that follows it are admitted together.   *)
CanReserveSelectionOpening(c) ==
    Ready(c) /\ c.revision + 2 <= MaxCounter /\ c.lastId + 1 <= MaxCounter

(* Mutant: the restored game gets a new controller.                        *)
ReplaceGameAnew(c, game) == FromGame(game)

(* In-session restore: the counters go on, they are never reset.           *)
ReplaceGame(c, game) ==
    [c EXCEPT !.limits = game.limits,
              !.stage = Playing(game),
              !.revision = @ + 1,
              !.op = Idle("Ready"),
              !.preview = <<>>,
              !.incomplete = FALSE]

----------------------------------------------------------------------------
(***************************************************************************)
(* The player's intents.                                                   *)
(***************************************************************************)
CanSubmitBrief(c) == c.stage.at = "Brief" /\ CanStart(c)
SubmitBrief(c) == Start(c, [kind |-> "Outline"])

CanReplaceOutline(c) == c.stage.at = "OutlineReview" /\ Ready(c) /\ HasNextRevision(c)
ReplaceOutline(c) ==
    [c EXCEPT !.stage = Reviewing([by |-> "player", n |-> c.revision + 1]),
              !.revision = @ + 1,
              !.op = Idle("Ready")]

CanAcceptOutline(c) == c.stage.at = "OutlineReview" /\ CanStart(c)
AcceptOutline(c) == Start(c, [kind |-> "Cast", outline |-> c.stage.outline])

CanSelect(c) == c.stage.at = "CastSelection" /\ Ready(c) /\ HasNextRevision(c)
Select(c) ==
    [c EXCEPT !.stage = Playing(NewGame(c.stage.outline, c.limits)),
              !.revision = @ + 1,
              !.op = Idle("Ready")]

CanTakeTurn(c, direction) ==
    /\ HasGame(c)
    /\ GameOf(c).turns = <<>> => direction = "Continue"
    /\ CanStart(c)
TakeTurn(c, direction) ==
    Start(c, [kind |-> "Turn", game |-> GameOf(c), direction |-> direction])

(* retry runs the very work that failed, under a new key.                  *)
CanRetry(c) == c.op.phase = "Failed" /\ CanStart(c)
Retry(c) == Start(c, c.op.work)

CanRewind(c, count) ==
    /\ HasGame(c)
    /\ count \in 1 .. Len(GameOf(c).turns)
    /\ Ready(c)
    /\ HasNextRevision(c)
DropTurns(game, count) ==
    [game EXCEPT !.turns = SubSeq(@, 1, Len(@) - count)]
(* Mutant: the work that failed survives.                                  *)
RewindKeepsFailure(c, count) ==
    [c EXCEPT !.stage = Playing(DropTurns(GameOf(c), count)), !.revision = @ + 1]

Rewind(c, count) ==
    [c EXCEPT !.stage = Playing(DropTurns(GameOf(c), count)),
              !.revision = @ + 1,
              !.op = Idle("Ready"),
              !.preview = <<>>]

(* Mutant: the preview of the cancelled request stays on the screen.       *)
CancelKeepsPreview(c) ==
    IF c.op.phase = "Running" THEN [c EXCEPT !.op = Stopping(c.op, "Cancelling")] ELSE c

(* cancel acts on a running request only; anything else is left alone.     *)
Cancel(c) ==
    IF c.op.phase = "Running"
    THEN [c EXCEPT !.op = Stopping(c.op, "Cancelling"),
                   !.preview = <<>>]
    ELSE c

(* Mutant: quitting waits for a request even if there is none.             *)
QuitAlwaysWaits(c) == [c EXCEPT !.op = Stopping(c.op, "Closing"), !.preview = <<>>]

Quit(c) ==
    [c EXCEPT !.op = IF Pending(c)
                     THEN Stopping(c.op, "Closing")
                     ELSE Idle("Closed"),
              !.preview = <<>>]

----------------------------------------------------------------------------
(***************************************************************************)
(* What the runner reports back.                                           *)
(***************************************************************************)
Active(c, key) == Pending(c) /\ c.op.key = key

Progress(c, key, bytes, incomplete) ==
    IF c.op.phase = "Running" /\ c.op.key = key /\ key.revision = c.revision
    THEN LET fits == Len(c.preview) + bytes <= MaxPreview
         IN [c EXCEPT !.preview = IF fits THEN @ \o [i \in 1 .. bytes |-> key.id] ELSE @,
                      !.incomplete = @ \/ ~fits \/ incomplete]
    ELSE c

(* What a generation of this work yields: the stage a success installs.    *)
(* A turn is committed to the clone of the game the request carried.       *)
Produced(key, work) ==
    CASE work.kind = "Outline" -> Reviewing([by |-> "generator", n |-> key.id])
      [] work.kind = "Cast" -> Casting(work.outline)
      [] work.kind = "Turn" -> Playing([work.game EXCEPT !.turns = Append(@, key.id)])

(* A completion's outcome: a failure, a result of the kind that was asked  *)
(* for (with the stage it installs), or a result of another kind.          *)
Failure == [result |-> "failure"]
WrongKind == [result |-> "wrong kind"]
Success(key, work) == [result |-> "success", stage |-> Produced(key, work)]

(* Mutants: any answer will do; only a running request is answered.        *)
AcceptsAny(c, key) == Pending(c)
AcceptsRunning(c, key) == Active(c, key) /\ c.op.phase = "Running"

Accepts(c, key) == Active(c, key) /\ key.revision = c.revision

(* Mutant: a success counts even after a cancellation.                     *)
CommitsWhenCancelled(c, key, outcome) == Accepts(c, key) /\ outcome.result = "success"

(* The one branch of complete that changes the story.                      *)
Commits(c, key, outcome) ==
    /\ Accepts(c, key)
    /\ c.op.phase = "Running"
    /\ ~c.op.cancelled
    /\ outcome.result = "success"

Commit(c, stage) ==
    [c EXCEPT !.stage = stage, !.revision = @ + 1, !.op = Idle("Ready"), !.preview = <<>>]

(* Cancelled by the player, or by whoever else holds the request's source. *)
Stopped(c) == c.op.phase = "Cancelling" \/ (c.op.phase = "Running" /\ c.op.cancelled)

Settle(c, op) == [c EXCEPT !.op = op, !.preview = <<>>]

Complete(c, key, outcome) ==
    CASE ~Accepts(c, key) -> c
      [] Commits(c, key, outcome) -> Commit(c, outcome.stage)
      [] Accepts(c, key) /\ c.op.phase = "Closing" -> Settle(c, Idle("Closed"))
      [] Accepts(c, key) /\ Stopped(c) ->
            Settle(c, Failed(c.op.work, "Cancelled"))
      [] OTHER ->
            Settle(c, IF outcome.result = "failure"
                      THEN Failed(c.op.work, "Generation")
                      ELSE Idle("Faulted"))

(* The worker thread panicked: its generator is lost with it.              *)
WorkerFailed(c, key) ==
    CASE ~Active(c, key) -> c
      [] Active(c, key) /\ c.op.phase = "Closing" -> [c EXCEPT !.op = Idle("Closed")]
      [] OTHER -> Settle(c, Idle("Faulted"))

(* The worker thread could not be started for the request just admitted.   *)
DispatchFailed(c, key) ==
    IF Active(c, key)
    THEN [c EXCEPT !.op = Failed(c.op.work, "Worker")]
    ELSE c
=============================================================================
