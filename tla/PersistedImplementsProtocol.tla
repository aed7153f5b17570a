-------------------- MODULE PersistedImplementsProtocol --------------------
(***************************************************************************)
(* The playing process (PersistedSession) is one of the callers            *)
(* SessionProtocol allows: however saves, loads, failures and threads      *)
(* interleave, the controller inside it only ever takes steps of the       *)
(* protocol, and no step of the process takes two.  What is proved of the  *)
(* protocol for an arbitrary caller therefore holds of the program.        *)
(*                                                                         *)
(* The refinement mapping reads the controller off the session.  The       *)
(* protocol's history is kept in three variables that no step reads.       *)
(***************************************************************************)
EXTENDS PersistedSession

CONSTANT RestorableGames

VARIABLES requests, commits, stopped

history == <<requests, commits, stopped>>

InitWithHistory ==
    /\ Init
    /\ requests = {}
    /\ commits = <<>>
    /\ stopped = {}

(* The generation result a poll may deliver in this state.                 *)
Delivers(p) ==
    /\ p.worker.at = "Running"
    /\ p.worker.result = "success"
    /\ Commits(p.ctl, p.worker.key, Outcome(p.worker))

RecordHistory ==
    LET old == app.ctl
        new == app'.ctl
        issued == [key |-> [id |-> new.lastId, revision |-> new.revision],
                   work |-> new.op.work]
    IN /\ requests' = IF new.lastId # old.lastId THEN requests \cup {issued} ELSE requests
       /\ commits' = IF new.stage # old.stage /\ Delivers(app)
                     THEN Append(commits, app.worker.key.id) ELSE commits
       /\ stopped' = IF Pending(old) /\ Pending(new) /\ new.op.cancelled
                     THEN stopped \cup {old.op.key.id} ELSE stopped

SpecWithHistory == InitWithHistory /\ [][Next /\ RecordHistory]_<<vars, history>>

(* Every behaviour of the playing process is, seen from its controller, a  *)
(* behaviour of the protocol.  MaxChunk is 0: progress goes through the    *)
(* preview, which PersistedSession leaves out.                             *)
Protocol == INSTANCE SessionProtocol WITH ctl <- app.ctl, MaxChunk <- 0

ImplementsProtocol == Protocol!Spec
=============================================================================
