-------------------------- MODULE SessionProtocol --------------------------
(***************************************************************************)
(* The SessionController as a state machine of its own, under a caller it  *)
(* must not have to trust: any intent may arrive in any state, and any     *)
(* request ever issued may be answered at any time, repeatedly, late, with *)
(* a failure, a success, a result of the wrong kind or a panic.  The real  *)
(* caller (SessionRuntime, modelled in PersistedSession) is tamer.         *)
(***************************************************************************)
EXTENDS SessionController

CONSTANTS MaxChunk,         (* longest progress text one call delivers     *)
          RestorableGames   (* games a save may hold                       *)

ASSUME ProtocolAssumption == MaxChunk \in Nat /\ RestorableGames \subseteq Game

VARIABLES ctl,       (* the controller                                     *)
          requests,  (* every WorkRequest ever handed to the caller        *)
          commits,   (* ids of the requests that changed the story, in the *)
                     (* order they did (observability only)                *)
          stopped    (* ids whose cancellation source was cancelled while  *)
                     (* they were pending (observability only)             *)

vars == <<ctl, requests, commits, stopped>>

Request == [key: Key, work: Work]

TypeOK ==
    /\ ctl \in Controller
    /\ requests \in SUBSET Request
    /\ commits \in Seq(Nat)
    /\ stopped \in SUBSET Nat

(* The session starts at the brief, seeded with a game, or (the program    *)
(* started on a save) with a game restored into a new controller.          *)
Init ==
    /\ \/ ctl = NewController
       \/ \E g \in RestorableGames :
             ctl = FromGame(g) \/ ctl = ReplaceGame(NewController, g)
    /\ requests = {}
    /\ commits = <<>>
    /\ stopped = {}

----------------------------------------------------------------------------
(* A method that starts work hands the request out.  A caller that cannot  *)
(* start a thread for it says so before doing anything else: that method   *)
(* is private to the crate and SessionRuntime::dispatch is its only user.  *)
Issue(new) ==
    /\ ctl' \in {new, DispatchFailed(new, new.op.key)}
    /\ requests' = requests \cup {[key |-> new.op.key, work |-> new.op.work]}
    /\ UNCHANGED <<commits, stopped>>

(* A method that changes the story on the spot.                            *)
Edit(new) == ctl' = new /\ UNCHANGED <<requests, commits, stopped>>

PlayerSubmitsBrief == CanSubmitBrief(ctl) /\ Issue(SubmitBrief(ctl))

PlayerReplacesOutline == CanReplaceOutline(ctl) /\ Edit(ReplaceOutline(ctl))

PlayerAcceptsOutline == CanAcceptOutline(ctl) /\ Issue(AcceptOutline(ctl))

PlayerSelects == CanSelect(ctl) /\ Edit(Select(ctl))

PlayerTakesTurn ==
    \E d \in Direction : CanTakeTurn(ctl, d) /\ Issue(TakeTurn(ctl, d))

PlayerRetries == CanRetry(ctl) /\ Issue(Retry(ctl))

PlayerRewinds ==
    \E n \in 1 .. MaxCounter + 1 : CanRewind(ctl, n) /\ Edit(Rewind(ctl, n))

RestoreReplacesGame ==
    \E g \in RestorableGames : CanReplaceGame(ctl) /\ Edit(ReplaceGame(ctl, g))

(* Cancelling or quitting cancels the source of the pending request.       *)
Stop(new) ==
    /\ ctl' = new
    /\ stopped' = IF Pending(ctl) /\ new.op.cancelled
                  THEN stopped \cup {ctl.op.key.id}
                  ELSE stopped
    /\ UNCHANGED <<requests, commits>>

PlayerCancels == Stop(Cancel(ctl))

PlayerQuits == Stop(Quit(ctl))

----------------------------------------------------------------------------
CallerReportsProgress ==
    \E r \in requests, n \in 0 .. MaxChunk, incomplete \in BOOLEAN :
        Edit(Progress(ctl, r.key, n, incomplete))

Outcomes(r) == {Failure, WrongKind, Success(r.key, r.work)}

CallerCompletes ==
    \E r \in requests : \E outcome \in Outcomes(r) :
        /\ ctl' = Complete(ctl, r.key, outcome)
        /\ commits' = IF Commits(ctl, r.key, outcome)
                      THEN Append(commits, r.key.id)
                      ELSE commits
        /\ UNCHANGED <<requests, stopped>>

CallerReportsPanic == \E r \in requests : Edit(WorkerFailed(ctl, r.key))

Next ==
    \/ PlayerSubmitsBrief
    \/ PlayerReplacesOutline
    \/ PlayerAcceptsOutline
    \/ PlayerSelects
    \/ PlayerTakesTurn
    \/ PlayerRetries
    \/ PlayerRewinds
    \/ RestoreReplacesGame
    \/ PlayerCancels
    \/ PlayerQuits
    \/ CallerReportsProgress
    \/ CallerCompletes
    \/ CallerReportsPanic

Spec == Init /\ [][Next]_vars

----------------------------------------------------------------------------
(***************************************************************************)
(* Properties                                                              *)
(***************************************************************************)

(* The pending request is the newest one, it was made for the story as it  *)
(* stands, and there is room for the revision its commit will take: the    *)
(* expect("revision capacity reserved at admission") in complete cannot    *)
(* fail, whatever happened since the request was admitted.                 *)
PendingIsCurrent ==
    Pending(ctl) => /\ ctl.op.key = [id |-> ctl.lastId, revision |-> ctl.revision]
                    /\ HasNextRevision(ctl)

(* Work is never out of date with the story it will be merged into: a      *)
(* pending request, and the work kept for retry after a failure, was made  *)
(* from the outline or the game the player is looking at now.  Rewinding,  *)
(* editing or restoring must therefore drop the failed work.               *)
WorkFits(stage, work) ==
    CASE work.kind = "Outline" -> stage.at = "Brief"
      [] work.kind = "Cast" -> stage = Reviewing(work.outline)
      [] work.kind = "Turn" -> stage = Playing(work.game)

WorkIsCurrent ==
    Pending(ctl) \/ ctl.op.phase = "Failed" => WorkFits(ctl.stage, ctl.op.work)

(* The live preview shows text of the running request only, and nothing    *)
(* once the request is cancelled, answered or replaced.                    *)
PreviewIsLive ==
    ctl.preview # <<>> =>
        /\ ctl.op.phase = "Running"
        /\ \A i \in 1 .. Len(ctl.preview) : ctl.preview[i] = ctl.op.key.id

(* Answers take effect at most once each and in the order the requests     *)
(* were made, however often and however late they are delivered.           *)
CommitsInOrder ==
    \A i, j \in 1 .. Len(commits) : i < j => commits[i] < commits[j]

(* An answer that arrives after its request was cancelled, or after the    *)
(* player quit, never changes the story.                                   *)
NoCommitAfterStop == \A i \in 1 .. Len(commits) : commits[i] \notin stopped

(* A revision names one story: the number moves whenever the story does,   *)
(* and only forward.  Saves, retries and completions are matched by it.    *)
RevisionNamesStory ==
    [][ctl'.revision = ctl.revision + 1 \/ (ctl'.revision = ctl.revision
                                            /\ ctl'.stage = ctl.stage)]_ctl

(* An accepted answer builds on the story as it is at that moment: a turn  *)
(* is added to the end of the current game and nothing else of it changes, *)
(* a cast belongs to the outline under review.                             *)
BuildsOn(old, new) ==
    /\ new.at # "Brief"
    /\ new.at = "OutlineReview" => old.at = "Brief"
    /\ new.at = "CastSelection" => old = Reviewing(new.outline)
    /\ new.at = "Playing" =>
          /\ old.at = "Playing"
          /\ \E id \in 1 .. ctl.lastId :
                new.game = [old.game EXCEPT !.turns = Append(@, id)]

CommitBuildsOnStory ==
    [][commits' # commits => BuildsOn(ctl.stage, ctl'.stage)]_vars
=============================================================================
