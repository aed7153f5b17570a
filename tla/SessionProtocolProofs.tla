----------------------- MODULE SessionProtocolProofs -----------------------
(***************************************************************************)
(* Theorems about SessionProtocol for every value of its constants: type   *)
(* correctness and the safety properties, from one inductive invariant.    *)
(***************************************************************************)
EXTENDS SessionProtocol, SessionProofs

----------------------------------------------------------------------------
(***************************************************************************)
(* The inductive invariant.  The properties are not inductive by           *)
(* themselves: they also need that everything recorded so far carries an   *)
(* id the controller has already issued, that a pending request is the     *)
(* only one of its key, and that it is not yet committed or stopped.       *)
(***************************************************************************)
RequestsKnown ==
    \A r \in requests : /\ r.key.id \in 1 .. ctl.lastId
                        /\ Pending(ctl) /\ r.key = ctl.op.key => r.work = ctl.op.work

CommitsPast ==
    \A i \in 1 .. Len(commits) : /\ commits[i] <= ctl.lastId
                                 /\ Pending(ctl) => commits[i] < ctl.lastId

StoppedPast ==
    /\ \A id \in stopped : id <= ctl.lastId
    /\ Pending(ctl) => (ctl.op.cancelled <=> ctl.lastId \in stopped)

StoppingIsCancelled ==
    ctl.op.phase \in {"Cancelling", "Closing"} => ctl.op.cancelled

IInv ==
    /\ TypeOK
    /\ PendingIsCurrent
    /\ WorkIsCurrent
    /\ PreviewIsLive
    /\ CommitsInOrder
    /\ NoCommitAfterStop
    /\ RequestsKnown
    /\ CommitsPast
    /\ StoppedPast
    /\ StoppingIsCancelled

THEOREM InitEstablishes == Init => IInv
<1>. SUFFICES ASSUME Init PROVE IInv
  OBVIOUS
<1>1. ctl \in Controller /\ ctl.op = Idle("Ready") /\ ctl.preview = <<>>
  <2>1. Idle("Ready") \in Operation /\ <<>> \in Seq(Nat)
    BY IdleOps
  <2>2. [at |-> "Brief"] \in Stage
    BY DEF Stage
  <2>3. NewController \in Controller
    BY <2>1, <2>2, ControllerAssumption DEF NewController, Controller
  <2>4. ASSUME NEW g \in RestorableGames PROVE g \in Game
    BY ProtocolAssumption
  <2>5. ASSUME NEW g \in RestorableGames
        PROVE  /\ FromGame(g) \in Controller
               /\ FromGame(g).op = Idle("Ready")
               /\ FromGame(g).preview = <<>>
    <3>. DEFINE stage == Playing(g)
                limits == g.limits
    <3>1. stage \in Stage /\ limits \in Limits
      BY <2>4, StageTypes DEF Game
    <3>2. FromGame(g) = [NewController EXCEPT !.stage = stage, !.limits = limits]
      BY DEF FromGame
    <3>. HIDE DEF stage, limits
    <3>3. NewController.op = Idle("Ready") /\ NewController.preview = <<>>
      BY DEF NewController
    <3>. QED
      BY <2>3, <3>1, <3>2, <3>3 DEF Controller
  <2>6. NewController.op = Idle("Ready") /\ NewController.preview = <<>>
    BY DEF NewController
  <2>7. ASSUME NEW g \in RestorableGames
        PROVE  EditedInto(NewController, ReplaceGame(NewController, g), Playing(g))
    BY <2>3, <2>4, ReplaceGameEffect
  <2>8. \/ ctl = NewController
        \/ \E g \in RestorableGames :
              ctl = FromGame(g) \/ ctl = ReplaceGame(NewController, g)
    BY DEF Init
  <2>. QED
    BY <2>3, <2>5, <2>6, <2>7, <2>8 DEF EditedInto
<1>2. ~Pending(ctl) /\ ctl.op.phase = "Ready"
  BY <1>1, IdleOps DEF Pending, PendingPhase
<1>3. requests = {} /\ commits = <<>> /\ stopped = {}
  BY DEF Init
<1>. QED
  BY <1>1, <1>2, <1>3 DEF IInv, TypeOK, PendingIsCurrent, WorkIsCurrent, PreviewIsLive,
     CommitsInOrder, NoCommitAfterStop, RequestsKnown, CommitsPast, StoppedPast,
     StoppingIsCancelled

----------------------------------------------------------------------------
(* A step that changes nothing.                                            *)
LEMMA StillStep ==
    ASSUME IInv, UNCHANGED <<ctl, requests, commits, stopped>>
    PROVE  IInv'
BY DEF IInv, TypeOK, PendingIsCurrent, WorkIsCurrent, PreviewIsLive, CommitsInOrder,
   NoCommitAfterStop, RequestsKnown, CommitsPast, StoppedPast, StoppingIsCancelled

(* A step that ends with no request pending and issues none.               *)
LEMMA RestingStep ==
    ASSUME IInv,
           UNCHANGED <<requests, commits, stopped>>,
           ctl' \in Controller,
           ctl'.lastId = ctl.lastId,
           ~Pending(ctl)',
           ctl'.preview = <<>>,
           ctl'.op.phase = "Failed" => WorkFits(ctl'.stage, ctl'.op.work)
    PROVE  IInv'
<1>1. ctl'.op.phase \notin {"Cancelling", "Closing"}
  BY DEF Pending, PendingPhase
<1>. QED
  BY <1>1 DEF IInv, TypeOK, PendingIsCurrent, WorkIsCurrent, PreviewIsLive,
     CommitsInOrder, NoCommitAfterStop, RequestsKnown, CommitsPast, StoppedPast,
     StoppingIsCancelled

(* Between requests there is no preview.                                   *)
LEMMA ReadyHasNoPreview ==
    ASSUME IInv, Ready(ctl)
    PROVE  ctl.preview = <<>>
BY DEF IInv, PreviewIsLive, Ready

LEMMA EditStep ==
    ASSUME IInv, NEW new, NEW stage, Edit(new), EditedInto(ctl, new, stage), Ready(ctl)
    PROVE  IInv'
<1>1. ctl' = new /\ UNCHANGED <<requests, commits, stopped>>
  BY DEF Edit
<1>2. ctl'.op.phase = "Ready"
  BY <1>1, IdleOps DEF EditedInto
<1>3. ctl'.preview = <<>>
  BY <1>1, ReadyHasNoPreview DEF EditedInto
<1>. QED
  BY <1>1, <1>2, <1>3, RestingStep DEF EditedInto, Pending, PendingPhase

(* A step that issues a request for work made from the current stage.      *)
LEMMA IssueStep ==
    ASSUME IInv, CanStart(ctl), NEW work \in Work, WorkFits(ctl.stage, work),
           Issue(Start(ctl, work))
    PROVE  IInv'
<1>. DEFINE new == Start(ctl, work)
            key == NextKey(ctl)
<1>0. ctl \in Controller /\ ctl.lastId \in Nat /\ ctl.revision \in Nat
  BY ControllerFields DEF IInv, TypeOK
<1>1. /\ new \in Controller
      /\ new.stage = ctl.stage
      /\ new.revision = ctl.revision
      /\ new.lastId = ctl.lastId + 1
      /\ new.op = Running(key, work)
      /\ new.preview = <<>>
      /\ key \in Key
  BY <1>0, StartEffect
<1>2. key = [id |-> new.lastId, revision |-> new.revision] /\ key.id = ctl.lastId + 1
  BY <1>1 DEF NextKey
<1>. HIDE DEF new, key
<1>3. /\ new.op.phase = "Running"
      /\ new.op.key = key
      /\ new.op.work = work
      /\ new.op.cancelled = FALSE
  <2>1. /\ Running(key, work).phase = "Running"
        /\ Running(key, work).key = key
        /\ Running(key, work).work = work
        /\ Running(key, work).cancelled = FALSE
    BY <1>1, RunningOps
  <2>. QED
    BY <1>1, <2>1
<1>4. ctl' \in {new, DispatchFailed(new, key)}
  BY <1>3 DEF Issue, new
<1>5. /\ requests' = requests \cup {[key |-> key, work |-> work]}
      /\ commits' = commits /\ stopped' = stopped
  BY <1>3 DEF Issue, new
<1>6. /\ ctl' \in Controller
      /\ ctl'.stage = ctl.stage
      /\ ctl'.revision = ctl.revision
      /\ ctl'.lastId = ctl.lastId + 1
      /\ ctl'.preview = <<>>
      /\ \/ ctl' = new
         \/ ctl'.op.phase = "Failed" /\ ctl'.op.work = work
  <2>1. Active(new, key)
    BY <1>3 DEF Active, Pending, PendingPhase
  <2>2. DispatchFailed(new, key).op = Failed(work, "Worker")
    BY <1>1, <1>3, <2>1, DispatchFailedEffect
  <2>3. Failed(work, "Worker").phase = "Failed" /\ Failed(work, "Worker").work = work
    BY FailedOps
  <2>. QED
    BY <1>1, <1>4, <2>2, <2>3, DispatchFailedEffect DEF SameStory
<1>7. TypeOK'
  <2>1. [key |-> key, work |-> work] \in Request
    BY <1>1 DEF Request
  <2>. QED
    BY <1>5, <1>6, <2>1 DEF IInv, TypeOK
<1>8. PendingIsCurrent' /\ WorkIsCurrent' /\ PreviewIsLive' /\ StoppingIsCancelled'
  BY <1>3, <1>2, <1>6 DEF PendingIsCurrent, WorkIsCurrent, PreviewIsLive, CanStart,
     HasNextRevision, Pending, PendingPhase, StoppingIsCancelled
<1>9. CommitsInOrder' /\ NoCommitAfterStop'
  BY <1>5 DEF IInv, CommitsInOrder, NoCommitAfterStop
<1>10. RequestsKnown'
  <2>1. ASSUME NEW r \in requests
        PROVE  r.key.id \in 1 .. ctl.lastId
    BY DEF IInv, RequestsKnown
  <2>2. ASSUME NEW r \in requests PROVE r.key.id \in 1 .. ctl'.lastId /\ r.key # key
    BY <1>0, <1>2, <1>6, <2>1
  <2>3. key.id \in 1 .. ctl'.lastId
    BY <1>0, <1>2, <1>6
  <2>4. Pending(ctl') => ctl'.op.key = key /\ ctl'.op.work = work
    BY <1>3, <1>6 DEF Pending, PendingPhase
  <2>. QED
    BY <1>5, <2>2, <2>3, <2>4 DEF RequestsKnown
<1>11. CommitsPast'
  <2>1. \A i \in 1 .. Len(commits) : commits[i] <= ctl.lastId /\ commits[i] \in Nat
    BY DEF IInv, CommitsPast, TypeOK
  <2>. QED
    BY <1>0, <1>5, <1>6, <2>1 DEF CommitsPast
<1>12. StoppedPast'
  <2>1. \A id \in stopped : id <= ctl.lastId /\ id \in Nat
    BY DEF IInv, StoppedPast, TypeOK
  <2>. QED
    BY <1>0, <1>3, <1>5, <1>6, <2>1 DEF StoppedPast, Pending, PendingPhase
<1>. QED
  BY <1>7, <1>8, <1>9, <1>10, <1>11, <1>12 DEF IInv

(* Cancelling or quitting a pending request.                               *)
LEMMA StopStep ==
    ASSUME IInv, Pending(ctl), NEW phase \in {"Cancelling", "Closing"}, NEW new,
           SettledWith(ctl, new, Stopping(ctl.op, phase)), Stop(new)
    PROVE  IInv'
<1>0. ctl \in Controller /\ ctl.lastId \in Nat
  BY ControllerFields DEF IInv, TypeOK
<1>1. /\ new.op.phase = phase
      /\ new.op.key = ctl.op.key
      /\ new.op.work = ctl.op.work
      /\ new.op.cancelled = TRUE
  BY <1>0, StoppingOps DEF SettledWith
<1>2. /\ ctl' = new
      /\ stopped' = stopped \cup {ctl.op.key.id}
      /\ requests' = requests /\ commits' = commits
  BY <1>1 DEF Stop
<1>3. ctl.op.key = [id |-> ctl.lastId, revision |-> ctl.revision] /\ HasNextRevision(ctl)
  BY DEF IInv, PendingIsCurrent
<1>4. /\ ctl' \in Controller
      /\ ctl'.stage = ctl.stage
      /\ ctl'.revision = ctl.revision
      /\ ctl'.lastId = ctl.lastId
      /\ ctl'.preview = <<>>
      /\ ctl'.op.phase = phase
      /\ ctl'.op.key = ctl.op.key
      /\ ctl'.op.work = ctl.op.work
      /\ ctl'.op.cancelled = TRUE
  BY <1>1, <1>2 DEF SettledWith, SameStory
<1>5. stopped' = stopped \cup {ctl.lastId}
  BY <1>2, <1>3
<1>6. TypeOK'
  BY <1>0, <1>2, <1>4, <1>5 DEF IInv, TypeOK
<1>7. PendingIsCurrent' /\ WorkIsCurrent' /\ PreviewIsLive' /\ StoppingIsCancelled'
  BY <1>3, <1>4 DEF IInv, PendingIsCurrent, WorkIsCurrent, PreviewIsLive,
     StoppingIsCancelled, HasNextRevision
<1>8. RequestsKnown'
  BY <1>2, <1>4 DEF IInv, RequestsKnown
<1>9. \A i \in 1 .. Len(commits) : commits[i] \in Nat /\ commits[i] < ctl.lastId
  BY DEF IInv, CommitsPast, TypeOK
<1>10. CommitsPast' /\ CommitsInOrder' /\ NoCommitAfterStop'
  BY <1>0, <1>2, <1>4, <1>5, <1>9
     DEF IInv, CommitsPast, CommitsInOrder, NoCommitAfterStop
<1>11. StoppedPast'
  BY <1>0, <1>4, <1>5 DEF IInv, StoppedPast
<1>. QED
  BY <1>6, <1>7, <1>8, <1>10, <1>11 DEF IInv

LEMMA ProgressStep ==
    ASSUME IInv, NEW r \in requests, NEW n \in 0 .. MaxChunk, NEW incomplete \in BOOLEAN,
           Edit(Progress(ctl, r.key, n, incomplete))
    PROVE  IInv'
<1>0. ctl \in Controller /\ r.key \in Key /\ n \in Nat /\ ctl.preview \in Seq(Nat)
  BY ControllerFields, ProtocolAssumption DEF IInv, TypeOK, Request
<1>1. /\ ctl' = Progress(ctl, r.key, n, incomplete)
      /\ UNCHANGED <<requests, commits, stopped>>
  BY DEF Edit
<1>2. /\ ctl' \in Controller
      /\ SameStory(ctl, ctl')
      /\ ctl'.op = ctl.op
      /\ \/ ctl'.preview = ctl.preview
         \/ /\ ctl.op.phase = "Running"
            /\ ctl.op.key = r.key
            /\ ctl'.preview = ctl.preview \o [i \in 1 .. n |-> r.key.id]
  BY <1>0, <1>1, ProgressEffect DEF Bytes
<1>3. PreviewIsLive'
  <2>1. CASE ctl'.preview = ctl.preview
    BY <1>2, <2>1 DEF IInv, PreviewIsLive
  <2>2. CASE /\ ctl.op.phase = "Running"
             /\ ctl.op.key = r.key
             /\ ctl'.preview = ctl.preview \o [i \in 1 .. n |-> r.key.id]
    <3>. DEFINE chunk == [i \in 1 .. n |-> r.key.id]
    <3>1. chunk \in Seq(Nat) /\ Len(chunk) = n
      BY <1>0 DEF Key
    <3>2. \A i \in 1 .. Len(ctl.preview) : ctl.preview[i] = r.key.id
      BY <1>0, <2>2, LenProperties DEF IInv, PreviewIsLive
    <3>3. \A i \in 1 .. Len(chunk) : chunk[i] = r.key.id
      BY <1>0
    <3>. HIDE DEF chunk
    <3>4. \A i \in 1 .. Len(ctl.preview \o chunk) : (ctl.preview \o chunk)[i] = r.key.id
      BY <1>0, <3>1, <3>2, <3>3, ConcatProperties, LenProperties
    <3>. QED
      BY <1>2, <2>2, <3>4 DEF PreviewIsLive, chunk
  <2>. QED
    BY <1>2, <2>1, <2>2
<1>. QED
  BY <1>1, <1>2, <1>3 DEF IInv, TypeOK, PendingIsCurrent, WorkIsCurrent, SameStory,
     CommitsInOrder, NoCommitAfterStop, RequestsKnown, CommitsPast, StoppedPast,
     StoppingIsCancelled, Pending, HasNextRevision

(* What the answer to a request installs fits the story it answers.        *)
LEMMA AnswerFits ==
    ASSUME IInv, NEW r \in requests, NEW outcome \in Outcomes(r)
    PROVE  /\ outcome.result = "success" =>
                 outcome.stage = Produced(r.key, r.work) /\ outcome.stage \in Stage
           /\ Accepts(ctl, r.key) => r.work = ctl.op.work /\ r.key.id = ctl.lastId
<1>1. r.key \in Key /\ r.work \in Work
  BY DEF IInv, TypeOK, Request
<1>2. Produced(r.key, r.work) \in Stage
  BY <1>1, ProducedType
<1>3. outcome.result = "success" => outcome.stage = Produced(r.key, r.work)
  <2>1. Failure.result # "success" /\ WrongKind.result # "success"
    BY DEF Failure, WrongKind
  <2>2. Success(r.key, r.work).stage = Produced(r.key, r.work)
    BY DEF Success
  <2>. QED
    BY <2>1, <2>2 DEF Outcomes
<1>4. Accepts(ctl, r.key) => r.work = ctl.op.work /\ r.key.id = ctl.lastId
  BY DEF IInv, RequestsKnown, PendingIsCurrent, Accepts, Active
<1>. QED
  BY <1>2, <1>3, <1>4

LEMMA CompleteStep ==
    ASSUME IInv, NEW r \in requests, NEW outcome \in Outcomes(r),
           ctl' = Complete(ctl, r.key, outcome),
           commits' = IF Commits(ctl, r.key, outcome)
                      THEN Append(commits, r.key.id) ELSE commits,
           UNCHANGED <<requests, stopped>>
    PROVE  IInv'
<1>0. /\ ctl \in Controller /\ r.key \in Key /\ ctl.lastId \in Nat
      /\ commits \in Seq(Nat)
  BY ControllerFields DEF IInv, TypeOK, Request
<1>1. outcome.result = "success" => outcome.stage \in Stage
  BY AnswerFits
<1>2. CASE ~Accepts(ctl, r.key)
  <2>1. UNCHANGED vars
    BY <1>0, <1>1, <1>2, CompleteEffect DEF Commits, vars
  <2>. QED
    BY <2>1, StillStep DEF vars
<1>3. CASE Accepts(ctl, r.key) /\ ~Commits(ctl, r.key, outcome)
  <2>1. Pending(ctl) /\ ctl.op.work \in Work
    BY <1>0, <1>3, OpFields DEF Accepts, Active
  <2>2. PICK op \in Endings(ctl) : SettledWith(ctl, ctl', op)
    BY <1>0, <1>1, <1>3, CompleteEffect
  <2>3. /\ op.phase \in {"Closed", "Faulted", "Failed"}
        /\ op.phase = "Failed" => op.work = ctl.op.work
    BY <2>1, IdleOps, FailedOps DEF Endings
  <2>4. commits' = commits
    BY <1>3
  <2>5. WorkFits(ctl.stage, ctl.op.work)
    BY <2>1 DEF IInv, WorkIsCurrent
  <2>6. ~Pending(ctl')
    BY <2>2, <2>3 DEF SettledWith, Pending, PendingPhase
  <2>. QED
    BY <2>2, <2>3, <2>4, <2>5, <2>6, RestingStep DEF SettledWith, SameStory
<1>4. CASE Commits(ctl, r.key, outcome)
  <2>1. EditedInto(ctl, ctl', outcome.stage) /\ ctl'.preview = <<>>
    BY <1>0, <1>1, <1>4, CompleteEffect
  <2>2. ctl'.op.phase = "Ready" /\ ~Pending(ctl')
    BY <2>1, IdleOps DEF EditedInto, Pending, PendingPhase
  <2>3. /\ Pending(ctl) /\ ~ctl.op.cancelled
        /\ r.key.id = ctl.lastId
    BY <1>4, AnswerFits DEF Commits, Accepts, Active
  <2>4. /\ commits' \in Seq(Nat)
        /\ Len(commits') = Len(commits) + 1
        /\ commits'[Len(commits) + 1] = ctl.lastId
        /\ \A i \in 1 .. Len(commits) : commits'[i] = commits[i]
    BY <1>0, <1>4, <2>3, AppendProperties
  <2>5. \A i \in 1 .. Len(commits) : commits[i] \in Nat /\ commits[i] < ctl.lastId
    BY <1>0, <2>3, ElementOfSeq DEF IInv, CommitsPast
  <2>6. ctl.lastId \notin stopped /\ ctl'.lastId = ctl.lastId
    BY <2>1, <2>3 DEF IInv, StoppedPast, EditedInto
  <2>7. Len(commits) \in Nat
    BY <1>0, LenProperties
  <2>8. CommitsInOrder'
    BY <1>0, <2>4, <2>5, <2>7 DEF IInv, CommitsInOrder
  <2>9. NoCommitAfterStop'
    BY <2>4, <2>6, <2>7 DEF IInv, NoCommitAfterStop
  <2>10. CommitsPast'
    BY <1>0, <2>2, <2>4, <2>5, <2>6, <2>7 DEF CommitsPast
  <2>11. TypeOK' /\ RequestsKnown' /\ StoppedPast'
    BY <2>1, <2>2, <2>4, <2>6
       DEF IInv, TypeOK, EditedInto, RequestsKnown, StoppedPast
  <2>12. PendingIsCurrent' /\ WorkIsCurrent' /\ PreviewIsLive' /\ StoppingIsCancelled'
    BY <2>1, <2>2 DEF PendingIsCurrent, WorkIsCurrent, PreviewIsLive, StoppingIsCancelled
  <2>. QED
    BY <2>8, <2>9, <2>10, <2>11, <2>12 DEF IInv
<1>. QED
  BY <1>2, <1>3, <1>4

LEMMA PanicStep ==
    ASSUME IInv, NEW r \in requests, Edit(WorkerFailed(ctl, r.key))
    PROVE  IInv'
<1>0. ctl \in Controller /\ r.key \in Key
  BY DEF IInv, TypeOK, Request
<1>1. ctl' = WorkerFailed(ctl, r.key) /\ UNCHANGED <<requests, commits, stopped>>
  BY DEF Edit
<1>2. CASE ~Active(ctl, r.key)
  <2>1. UNCHANGED vars
    BY <1>0, <1>1, <1>2, WorkerFailedEffect DEF vars
  <2>. QED
    BY <2>1, StillStep DEF vars
<1>3. CASE Active(ctl, r.key)
  <2>1. /\ ctl' \in Controller
        /\ SameStory(ctl, ctl')
        /\ ctl'.op \in {Idle("Closed"), Idle("Faulted")}
        /\ ctl'.preview = <<>> \/ (/\ ctl.op.phase = "Closing"
                                  /\ ctl'.preview = ctl.preview)
    BY <1>0, <1>1, <1>3, WorkerFailedEffect
  <2>2. ctl'.preview = <<>>
    BY <2>1 DEF IInv, PreviewIsLive
  <2>3. ctl'.op.phase \in {"Closed", "Faulted"} /\ ~Pending(ctl')
    BY <2>1, IdleOps DEF Pending, PendingPhase
  <2>. QED
    BY <1>1, <2>1, <2>2, <2>3, RestingStep DEF SameStory
<1>. QED
  BY <1>2, <1>3

----------------------------------------------------------------------------
THEOREM StepPreserves == IInv /\ [Next]_vars => IInv'
<1>. SUFFICES ASSUME IInv, [Next]_vars PROVE IInv'
  OBVIOUS
<1>. USE DEF IInv, TypeOK
<1>0. ctl \in Controller
  OBVIOUS
<1>1. CASE PlayerSubmitsBrief
  <2>1. [kind |-> "Outline"] \in Work
    BY DEF Work
  <2>2. ctl.stage.at = "Brief" /\ CanStart(ctl)
    BY <1>1 DEF PlayerSubmitsBrief, CanSubmitBrief
  <2>3. WorkFits(ctl.stage, [kind |-> "Outline"])
    BY <2>2 DEF WorkFits
  <2>4. Issue(Start(ctl, [kind |-> "Outline"]))
    BY <1>1 DEF PlayerSubmitsBrief, SubmitBrief
  <2>. QED
    BY <2>1, <2>2, <2>3, <2>4, IssueStep
<1>2. CASE PlayerReplacesOutline
  BY <1>0, <1>2, ReplaceOutlineEffect, EditStep
     DEF PlayerReplacesOutline, CanReplaceOutline
<1>3. CASE PlayerAcceptsOutline
  <2>. DEFINE work == [kind |-> "Cast", outline |-> ctl.stage.outline]
  <2>1. ctl.stage.at = "OutlineReview" /\ CanStart(ctl)
    BY <1>3 DEF PlayerAcceptsOutline, CanAcceptOutline
  <2>2. ctl.stage.outline \in Outline /\ ctl.stage = Reviewing(ctl.stage.outline)
    BY <1>0, <2>1, StageFields
  <2>3. work \in Work
    BY <2>2 DEF Work
  <2>4. WorkFits(ctl.stage, work)
    BY <2>2 DEF WorkFits
  <2>5. Issue(Start(ctl, work))
    BY <1>3 DEF PlayerAcceptsOutline, AcceptOutline
  <2>. QED
    BY <2>1, <2>3, <2>4, <2>5, IssueStep
<1>4. CASE PlayerSelects
  BY <1>0, <1>4, SelectEffect, EditStep DEF PlayerSelects, CanSelect
<1>5. CASE PlayerTakesTurn
  <2>1. PICK d \in Direction : CanTakeTurn(ctl, d) /\ Issue(TakeTurn(ctl, d))
    BY <1>5 DEF PlayerTakesTurn
  <2>. DEFINE work == [kind |-> "Turn", game |-> GameOf(ctl), direction |-> d]
  <2>2. HasGame(ctl) /\ CanStart(ctl)
    BY <2>1 DEF CanTakeTurn
  <2>3. GameOf(ctl) \in Game /\ ctl.stage = Playing(GameOf(ctl))
    BY <1>0, <2>2, StageFields
  <2>4. work \in Work
    BY <2>3 DEF Work
  <2>5. WorkFits(ctl.stage, work)
    BY <2>3 DEF WorkFits
  <2>6. Issue(Start(ctl, work))
    BY <2>1 DEF TakeTurn
  <2>. QED
    BY <2>2, <2>4, <2>5, <2>6, IssueStep
<1>6. CASE PlayerRetries
  <2>1. ctl.op.phase = "Failed" /\ CanStart(ctl)
    BY <1>6 DEF PlayerRetries, CanRetry
  <2>2. ctl.op.work \in Work
    BY <1>0, <2>1, OpFields
  <2>3. WorkFits(ctl.stage, ctl.op.work)
    BY <2>1 DEF WorkIsCurrent
  <2>4. Issue(Start(ctl, ctl.op.work))
    BY <1>6 DEF PlayerRetries, Retry
  <2>. QED
    BY <2>1, <2>2, <2>3, <2>4, IssueStep
<1>7. CASE PlayerRewinds
  <2>1. PICK n \in 1 .. MaxCounter + 1 : CanRewind(ctl, n) /\ Edit(Rewind(ctl, n))
    BY <1>7 DEF PlayerRewinds
  <2>2. EditedInto(ctl, Rewind(ctl, n), Playing(DropTurns(GameOf(ctl), n)))
    BY <1>0, <2>1, RewindEffect
  <2>. QED
    BY <2>1, <2>2, EditStep DEF CanRewind
<1>8. CASE RestoreReplacesGame
  <2>1. PICK g \in RestorableGames : CanReplaceGame(ctl) /\ Edit(ReplaceGame(ctl, g))
    BY <1>8 DEF RestoreReplacesGame
  <2>2. g \in Game
    BY ProtocolAssumption
  <2>3. EditedInto(ctl, ReplaceGame(ctl, g), Playing(g))
    BY <1>0, <2>2, ReplaceGameEffect
  <2>. QED
    BY <2>1, <2>3, EditStep DEF CanReplaceGame
<1>9. CASE PlayerCancels
  <2>1. CASE ctl.op.phase = "Running"
    <3>1. SettledWith(ctl, Cancel(ctl), Stopping(ctl.op, "Cancelling"))
      BY <1>0, <2>1, CancelEffect
    <3>. QED
      BY <1>9, <2>1, <3>1, StopStep DEF PlayerCancels, Pending, PendingPhase
  <2>2. CASE ctl.op.phase # "Running"
    <3>1. Cancel(ctl) = ctl
      BY <1>0, <2>2, CancelEffect
    <3>. QED
      BY <1>9, <3>1, StillStep DEF PlayerCancels, Stop, StoppedPast, PendingIsCurrent
  <2>. QED
    BY <2>1, <2>2
<1>10. CASE PlayerQuits
  <2>1. CASE Pending(ctl)
    <3>1. SettledWith(ctl, Quit(ctl), Stopping(ctl.op, "Closing"))
      BY <1>0, <2>1, QuitEffect
    <3>. QED
      BY <1>10, <2>1, <3>1, StopStep DEF PlayerQuits
  <2>2. CASE ~Pending(ctl)
    <3>1. SettledWith(ctl, Quit(ctl), Idle("Closed"))
      BY <1>0, <2>2, QuitEffect
    <3>2. ctl' = Quit(ctl) /\ UNCHANGED <<requests, commits, stopped>>
      BY <1>10, <2>2 DEF PlayerQuits, Stop
    <3>3. ctl'.op.phase = "Closed"
      BY <3>1, <3>2, IdleOps DEF SettledWith
    <3>. QED
      BY <3>1, <3>2, <3>3, RestingStep DEF SettledWith, SameStory, Pending, PendingPhase
  <2>. QED
    BY <2>1, <2>2
<1>11. CASE CallerReportsProgress
  BY <1>11, ProgressStep DEF CallerReportsProgress
<1>12. CASE CallerCompletes
  BY <1>12, CompleteStep DEF CallerCompletes
<1>13. CASE CallerReportsPanic
  BY <1>13, PanicStep DEF CallerReportsPanic
<1>14. CASE UNCHANGED vars
  BY <1>14, StillStep DEF vars
<1>. QED
  BY <1>1, <1>2, <1>3, <1>4, <1>5, <1>6, <1>7, <1>8, <1>9, <1>10, <1>11, <1>12, <1>13,
     <1>14 DEF Next

THEOREM Invariance == Spec => []IInv
<1>. QED
  BY InitEstablishes, StepPreserves, PTL DEF Spec

----------------------------------------------------------------------------
(***************************************************************************)
(* The theorems                                                            *)
(***************************************************************************)

(* The controller and what it hands out are always well formed.            *)
THEOREM Typing == Spec => []TypeOK
<1>1. IInv => TypeOK
  BY DEF IInv
<1>. QED
  BY <1>1, Invariance, PTL

(* The pending request is the newest one, made for the story as it is, and *)
(* the revision its commit takes is reserved: complete cannot panic.       *)
THEOREM PendingStaysCurrent == Spec => []PendingIsCurrent
<1>1. IInv => PendingIsCurrent
  BY DEF IInv
<1>. QED
  BY <1>1, Invariance, PTL

(* Pending or failed work was made from the stage on display: what retry   *)
(* runs again is never out of date.                                        *)
THEOREM WorkStaysCurrent == Spec => []WorkIsCurrent
<1>1. IInv => WorkIsCurrent
  BY DEF IInv
<1>. QED
  BY <1>1, Invariance, PTL

(* The preview only ever shows text of the running request.                *)
THEOREM PreviewStaysLive == Spec => []PreviewIsLive
<1>1. IInv => PreviewIsLive
  BY DEF IInv
<1>. QED
  BY <1>1, Invariance, PTL

(* However often and late answers are delivered, each takes effect at most *)
(* once, in the order the requests were made.                              *)
THEOREM CommitsStayInOrder == Spec => []CommitsInOrder
<1>1. IInv => CommitsInOrder
  BY DEF IInv
<1>. QED
  BY <1>1, Invariance, PTL

(* No answer to a cancelled request ever changes the story.                *)
THEOREM StoppedStaysStopped == Spec => []NoCommitAfterStop
<1>1. IInv => NoCommitAfterStop
  BY DEF IInv
<1>. QED
  BY <1>1, Invariance, PTL

----------------------------------------------------------------------------
(* A step either changes the revision by one or leaves the story alone.    *)
StoryMoves ==
    \/ ctl'.revision = ctl.revision + 1
    \/ ctl'.revision = ctl.revision /\ ctl'.stage = ctl.stage

LEMMA IssueKeepsStory ==
    ASSUME IInv, NEW work \in Work, Issue(Start(ctl, work))
    PROVE  ctl'.revision = ctl.revision /\ ctl'.stage = ctl.stage
<1>. DEFINE new == Start(ctl, work)
<1>1. ctl \in Controller
  BY DEF IInv, TypeOK
<1>2. new \in Controller /\ new.stage = ctl.stage /\ new.revision = ctl.revision
  BY <1>1, StartEffect
<1>3. ctl' \in {new, DispatchFailed(new, new.op.key)}
  BY DEF Issue
<1>. HIDE DEF new
<1>. QED
  BY <1>2, <1>3, DispatchFailedEffect DEF SameStory

LEMMA CompleteMovesStory ==
    ASSUME IInv, NEW r \in requests, NEW outcome \in Outcomes(r),
           ctl' = Complete(ctl, r.key, outcome)
    PROVE  /\ StoryMoves
           /\ Commits(ctl, r.key, outcome) => BuildsOn(ctl.stage, ctl'.stage)
<1>0. /\ ctl \in Controller /\ r.key \in Key
      /\ outcome.result = "success" =>
            outcome.stage = Produced(r.key, r.work) /\ outcome.stage \in Stage
  BY AnswerFits DEF IInv, TypeOK, Request
<1>1. CASE ~Accepts(ctl, r.key)
  BY <1>0, <1>1, CompleteEffect DEF StoryMoves, Commits
<1>2. CASE Accepts(ctl, r.key) /\ ~Commits(ctl, r.key, outcome)
  BY <1>0, <1>2, CompleteEffect DEF StoryMoves, SettledWith, SameStory
<1>3. CASE Commits(ctl, r.key, outcome)
  <2>1. ctl'.stage = outcome.stage /\ ctl'.revision = ctl.revision + 1
    BY <1>0, <1>3, CompleteEffect DEF EditedInto, Commits
  <2>2. /\ Pending(ctl) /\ r.work = ctl.op.work /\ r.work \in Work
        /\ ctl'.stage = Produced(r.key, ctl.op.work)
    BY <1>0, <1>3, <2>1, AnswerFits DEF Commits, Accepts, Active, IInv, TypeOK, Request
  <2>3. WorkFits(ctl.stage, ctl.op.work) /\ r.key.id \in 1 .. ctl.lastId
    BY <2>2 DEF IInv, WorkIsCurrent, RequestsKnown
  <2>4. CASE ctl.op.work.kind = "Outline"
    <3>1. ctl'.stage = Reviewing([by |-> "generator", n |-> r.key.id])
      BY <2>2, <2>4 DEF Produced
    <3>2. ctl'.stage.at = "OutlineReview"
      BY <3>1 DEF Reviewing
    <3>3. ctl.stage.at = "Brief"
      BY <2>3, <2>4 DEF WorkFits
    <3>. QED
      BY <2>1, <3>2, <3>3 DEF BuildsOn, StoryMoves
  <2>5. CASE ctl.op.work.kind = "Cast"
    <3>1. ctl'.stage = Casting(ctl.op.work.outline)
      BY <2>2, <2>5 DEF Produced
    <3>2. ctl.stage = Reviewing(ctl.op.work.outline)
      BY <2>3, <2>5 DEF WorkFits
    <3>3. ctl'.stage.at = "CastSelection" /\ ctl'.stage.outline = ctl.op.work.outline
      BY <3>1 DEF Casting
    <3>. QED
      BY <2>1, <3>2, <3>3 DEF BuildsOn, StoryMoves
  <2>6. CASE ctl.op.work.kind = "Turn"
    <3>. DEFINE game == [ctl.op.work.game EXCEPT !.turns = Append(@, r.key.id)]
    <3>1. ctl'.stage = Playing(game)
      BY <2>2, <2>6 DEF Produced
    <3>2. ctl.stage = Playing(ctl.op.work.game)
      BY <2>3, <2>6 DEF WorkFits
    <3>3. /\ ctl'.stage.at = "Playing" /\ ctl.stage.at = "Playing"
          /\ ctl'.stage.game = game /\ ctl.stage.game = ctl.op.work.game
      BY <3>1, <3>2 DEF Playing
    <3>4. \E id \in 1 .. ctl.lastId :
             ctl'.stage.game = [ctl.stage.game EXCEPT !.turns = Append(@, id)]
      BY <2>3, <3>3
    <3>. QED
      BY <2>1, <3>3, <3>4 DEF BuildsOn, StoryMoves
  <2>. QED
    BY <2>2, <2>4, <2>5, <2>6 DEF Work
<1>. QED
  BY <1>1, <1>2, <1>3 DEF Commits

LEMMA StepMovesStory ==
    ASSUME IInv, [Next]_vars
    PROVE  /\ StoryMoves
           /\ commits' # commits => BuildsOn(ctl.stage, ctl'.stage)
<1>0. ctl \in Controller
  BY DEF IInv, TypeOK
<1>1. CASE PlayerSubmitsBrief
  <2>1. [kind |-> "Outline"] \in Work
    BY DEF Work
  <2>. QED
    BY <1>1, <2>1, IssueKeepsStory DEF PlayerSubmitsBrief, SubmitBrief, StoryMoves, Issue
<1>2. CASE PlayerReplacesOutline
  BY <1>0, <1>2, ReplaceOutlineEffect DEF PlayerReplacesOutline, Edit, EditedInto, StoryMoves
<1>3. CASE PlayerAcceptsOutline
  <2>1. ctl.stage.outline \in Outline
    BY <1>0, <1>3, StageFields DEF PlayerAcceptsOutline, CanAcceptOutline
  <2>2. [kind |-> "Cast", outline |-> ctl.stage.outline] \in Work
    BY <2>1 DEF Work
  <2>. QED
    BY <1>3, <2>2, IssueKeepsStory DEF PlayerAcceptsOutline, AcceptOutline, StoryMoves, Issue
<1>4. CASE PlayerSelects
  BY <1>0, <1>4, SelectEffect DEF PlayerSelects, CanSelect, Edit, EditedInto, StoryMoves
<1>5. CASE PlayerTakesTurn
  <2>1. PICK d \in Direction : CanTakeTurn(ctl, d) /\ Issue(TakeTurn(ctl, d))
    BY <1>5 DEF PlayerTakesTurn
  <2>2. GameOf(ctl) \in Game
    BY <1>0, <2>1, StageFields DEF CanTakeTurn
  <2>3. [kind |-> "Turn", game |-> GameOf(ctl), direction |-> d] \in Work
    BY <2>2 DEF Work
  <2>. QED
    BY <2>1, <2>3, IssueKeepsStory DEF TakeTurn, StoryMoves, Issue
<1>6. CASE PlayerRetries
  BY <1>0, <1>6, OpFields, IssueKeepsStory DEF PlayerRetries, CanRetry, Retry, StoryMoves, Issue
<1>7. CASE PlayerRewinds
  BY <1>0, <1>7, RewindEffect DEF PlayerRewinds, Edit, EditedInto, StoryMoves
<1>8. CASE RestoreReplacesGame
  BY <1>0, <1>8, ProtocolAssumption, ReplaceGameEffect
     DEF RestoreReplacesGame, Edit, EditedInto, StoryMoves
<1>9. CASE PlayerCancels
  BY <1>0, <1>9, CancelEffect DEF PlayerCancels, Stop, SettledWith, SameStory, StoryMoves
<1>10. CASE PlayerQuits
  BY <1>0, <1>10, QuitEffect DEF PlayerQuits, Stop, SettledWith, SameStory, StoryMoves
<1>11. CASE CallerReportsProgress
  <2>1. PICK r \in requests, n \in 0 .. MaxChunk, incomplete \in BOOLEAN :
           Edit(Progress(ctl, r.key, n, incomplete))
    BY <1>11 DEF CallerReportsProgress
  <2>2. r.key \in Key /\ n \in Nat
    BY ProtocolAssumption DEF IInv, TypeOK, Request
  <2>. QED
    BY <1>0, <2>1, <2>2, ProgressEffect DEF Edit, SameStory, StoryMoves
<1>12. CASE CallerCompletes
  BY <1>12, CompleteMovesStory DEF CallerCompletes
<1>13. CASE CallerReportsPanic
  <2>1. PICK r \in requests : Edit(WorkerFailed(ctl, r.key))
    BY <1>13 DEF CallerReportsPanic
  <2>2. r.key \in Key
    BY DEF IInv, TypeOK, Request
  <2>. QED
    BY <1>0, <2>1, <2>2, WorkerFailedEffect DEF Edit, SameStory, StoryMoves
<1>14. CASE UNCHANGED vars
  BY <1>14 DEF vars, StoryMoves
<1>. QED
  BY <1>1, <1>2, <1>3, <1>4, <1>5, <1>6, <1>7, <1>8, <1>9, <1>10, <1>11, <1>12, <1>13,
     <1>14 DEF Next

(* A revision number names one story, for ever: what saves, retries and    *)
(* answers are matched by.                                                 *)
THEOREM RevisionsNameStories == Spec => RevisionNamesStory
<1>1. IInv /\ [Next]_vars =>
        [ctl'.revision = ctl.revision + 1 \/ (ctl'.revision = ctl.revision
                                             /\ ctl'.stage = ctl.stage)]_ctl
  BY StepMovesStory DEF StoryMoves
<1>. QED
  BY <1>1, Invariance, PTL DEF Spec, RevisionNamesStory

(* An accepted answer extends the story as it is, and nothing else of it.  *)
THEOREM CommitsBuildOnStory == Spec => CommitBuildsOnStory
<1>1. IInv /\ [Next]_vars =>
        [commits' # commits => BuildsOn(ctl.stage, ctl'.stage)]_vars
  BY StepMovesStory
<1>. QED
  BY <1>1, Invariance, PTL DEF Spec, CommitBuildsOnStory
=============================================================================
