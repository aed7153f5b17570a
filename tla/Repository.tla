----------------------------- MODULE Repository -----------------------------
(***************************************************************************)
(* One save on disk: LocalRepository::apply (infrastructure, persistence/  *)
(* repository.rs), file system operation by file system operation, in      *)
(* helper processes that may be killed, may outlive their request and may  *)
(* lose the machine under them; and the sessions that launch them          *)
(* (SupervisedRepository, helper.rs).                                      *)
(*                                                                         *)
(* Saves do not share files or locks, so one save id is enough.  Sessions  *)
(* whose random ids collide are sessions that create this same save.       *)
(*                                                                         *)
(* A document is the sequence of the content stamps of the documents it    *)
(* continues, its own last; its revision is its length; the empty one is   *)
(* no file.  Stamps are hashes of distinct bytes (game, time and revision) *)
(* and never repeat.                                                       *)
(***************************************************************************)
EXTENDS Naturals, SequencesExt

CONSTANTS Sessions,     (* processes that play and save                    *)
          MaxStamp,     (* documents ever prepared (bound)                 *)
          MaxHelper,    (* helpers ever launched (bound)                   *)
          MaxCrashes,   (* times the machine goes down (bound)             *)
          MaxEdits      (* changes made by hand (bound)                    *)

ASSUME RepositoryAssumption ==
    /\ MaxStamp \in Nat
    /\ MaxHelper \in Nat
    /\ MaxCrashes \in Nat
    /\ MaxEdits \in Nat

VARIABLES dir,        (* the directory: a file, or none, under each name   *)
          mayFind,    (* per name, what may be there after the machine     *)
                      (* went down: all since the last directory sync      *)
          lock,       (* the helper that holds the slot's lock, 0: nobody  *)
          helpers,    (* every helper ever launched                        *)
          sessions,
          stamps,     (* stamps given out                                  *)
          crashes, edits,
          acked,      (* documents a session holds a receipt for           *)
                      (* (observability only)                              *)
          dropped,    (* documents a session was told are not saved        *)
                      (* (observability only)                              *)
          exposed     (* helpers that had looked at the primary for the    *)
                      (* last time when it was edited by hand              *)
                      (* (observability only)                              *)

history == <<acked, dropped, exposed>>
vars == <<dir, mayFind, lock, helpers, sessions, stamps, crashes, edits, history>>

Doc == Seq(Nat)
NoDoc == <<>>
Previous(doc) == Front(doc)

Entry == {"primary", "backup"}

(* The step of apply a helper is at, and what it would report if it failed *)
(* there.                                                                  *)
Step == {"Begin", "Confirm", "KeepBackup", "SyncBackup", "Recheck", "Replace",
         "SyncPrimary", "Receipt", "Failure", "Gone"}
Visibility == {"Unchanged", "Replaced"}
Helper == [at: Step, attempt: Doc, visibility: Visibility]
NewHelper(doc) == [at |-> "Begin", attempt |-> doc, visibility |-> "Unchanged"]
DeadHelper == [at |-> "Gone", attempt |-> NoDoc, visibility |-> "Unchanged"]

(* base: the document the session is bound to; attempt: the PendingWrite   *)
(* under way or in doubt; helper: the one it waits for, 0: none.           *)
Session == [base: Doc, attempt: Doc, doubt: BOOLEAN, helper: Nat]
NewSession == [base |-> NoDoc, attempt |-> NoDoc, doubt |-> FALSE, helper |-> 0]

AtRest(s) == sessions[s].helper = 0 /\ ~sessions[s].doubt

TypeOK ==
    /\ dir \in [Entry -> Doc]
    /\ mayFind \in [Entry -> SUBSET Doc]
    /\ helpers \in Seq(Helper)
    /\ lock \in 0 .. Len(helpers)
    /\ sessions \in [Sessions -> Session]
    /\ \A s \in Sessions : sessions[s].attempt = NoDoc <=> AtRest(s)
    /\ stamps \in 0 .. MaxStamp
    /\ crashes \in 0 .. MaxCrashes
    /\ edits \in 0 .. MaxEdits
    /\ acked \in SUBSET Doc
    /\ dropped \in SUBSET Doc
    /\ exposed \in SUBSET (1 .. Len(helpers))

Init ==
    /\ dir = [e \in Entry |-> NoDoc]
    /\ mayFind = [e \in Entry |-> {NoDoc}]
    /\ lock = 0
    /\ helpers = <<>>
    /\ sessions = [s \in Sessions |-> NewSession]
    /\ stamps = 0
    /\ crashes = 0
    /\ edits = 0
    /\ acked = {}
    /\ dropped = {}
    /\ exposed = {}

----------------------------------------------------------------------------
(***************************************************************************)
(* The file system.                                                        *)
(***************************************************************************)
Primary == dir["primary"]
Backup == dir["backup"]

(* A rename takes effect at once and survives the machine only perhaps.    *)
(* The contents of what is renamed were synced before (temp()).            *)
Rename(entry, doc) ==
    /\ dir' = [dir EXCEPT ![entry] = doc]
    /\ mayFind' = [mayFind EXCEPT ![entry] = @ \cup {doc}]

SyncDirectory ==
    /\ mayFind' = [e \in Entry |-> {dir[e]}]
    /\ UNCHANGED dir

Occupied == Primary # NoDoc \/ Backup # NoDoc

----------------------------------------------------------------------------
(***************************************************************************)
(* A helper.  Every step may fail instead (StepFails), and the helper may  *)
(* be killed between any two (LoseReply, PowerLoss).  The lock is held     *)
(* from Begin to the reply and goes with the process.                      *)
(***************************************************************************)
World == <<sessions, stamps, crashes, edits, history>>

GoTo(h, step) == helpers' = [helpers EXCEPT ![h].at = step]
GoToReplaced(h, step) ==
    helpers' = [helpers EXCEPT ![h].at = step, ![h].visibility = "Replaced"]
Unlock(h) == lock' = IF lock = h THEN 0 ELSE lock
Reply(h, step) == GoTo(h, step) /\ Unlock(h)

(* Mutant: the primary is there, and that is all.                          *)
ExpectedAny(doc) == (Previous(doc) = NoDoc) = ~Occupied

(* The primary is the one this document is to follow, or it is the first   *)
(* and nothing is there.                                                   *)
Expected(doc) ==
    IF Previous(doc) = NoDoc THEN ~Occupied ELSE Primary = Previous(doc)

(* Mutant: the lock is shared.                                             *)
LockShared == TRUE

LockFree == lock = 0

HelperIsBusy(h) ==
    /\ helpers[h].at = "Begin"
    /\ ~LockFree
    /\ Reply(h, "Failure")
    /\ UNCHANGED <<dir, mayFind, World>>

(* The lock is taken, the primary read and compared.                       *)
HelperBegins(h) ==
    /\ helpers[h].at = "Begin"
    /\ LockFree
    /\ \/ /\ Primary = helpers[h].attempt
          /\ GoToReplaced(h, "Confirm")
          /\ lock' = h
       \/ /\ Primary # helpers[h].attempt
          /\ Expected(helpers[h].attempt)
          /\ GoTo(h, IF Previous(helpers[h].attempt) = NoDoc THEN "Recheck" ELSE "KeepBackup")
          /\ lock' = h
       \/ /\ Primary # helpers[h].attempt
          /\ ~Expected(helpers[h].attempt)
          /\ Reply(h, "Failure")
    /\ UNCHANGED <<dir, mayFind, World>>

(* The document is there already: it is synced once more, not rotated.     *)
HelperConfirms(h) ==
    /\ helpers[h].at = "Confirm"
    /\ SyncDirectory
    /\ Reply(h, "Receipt")
    /\ UNCHANGED World

HelperKeepsBackup(h) ==
    /\ helpers[h].at = "KeepBackup"
    /\ Rename("backup", Previous(helpers[h].attempt))
    /\ GoTo(h, "SyncBackup")
    /\ UNCHANGED <<lock, World>>

(* Mutant: the backup's directory entry is not synced.                     *)
BackupUnsynced(h) == UNCHANGED <<dir, mayFind>>

BackupSynced(h) == SyncDirectory

HelperSyncsBackup(h) ==
    /\ helpers[h].at = "SyncBackup"
    /\ BackupSynced(h)
    /\ GoTo(h, "Recheck")
    /\ UNCHANGED <<lock, World>>

HelperRechecks(h) ==
    /\ helpers[h].at = "Recheck"
    /\ \/ Expected(helpers[h].attempt) /\ GoTo(h, "Replace") /\ UNCHANGED lock
       \/ ~Expected(helpers[h].attempt) /\ Reply(h, "Failure")
    /\ UNCHANGED <<dir, mayFind, World>>

(* Mutant: the replacement is reported only once it is synced.             *)
GoToUnreported(h, step) == GoTo(h, step)
ReportReplaced(h, step) == GoToReplaced(h, step)

(* A first document never replaces a file (persist_noclobber).             *)
Clobbers(doc) == Previous(doc) = NoDoc /\ Primary # NoDoc

HelperReplaces(h) ==
    /\ helpers[h].at = "Replace"
    /\ \/ /\ Clobbers(helpers[h].attempt)
          /\ Reply(h, "Failure")
          /\ UNCHANGED <<dir, mayFind>>
       \/ /\ ~Clobbers(helpers[h].attempt)
          /\ Rename("primary", helpers[h].attempt)
          /\ ReportReplaced(h, "SyncPrimary")
          /\ UNCHANGED lock
    /\ UNCHANGED World

(* Mutant: the receipt is given without a sync.                            *)
PrimaryUnsynced(h) == UNCHANGED <<dir, mayFind>>

PrimarySynced(h) == SyncDirectory

HelperSyncsPrimary(h) ==
    /\ helpers[h].at = "SyncPrimary"
    /\ PrimarySynced(h)
    /\ Reply(h, "Receipt")
    /\ UNCHANGED World

(* An I/O error, or a temporary file that could not be removed.            *)
StepFails(h) ==
    /\ helpers[h].at \in Step \ {"Receipt", "Failure", "Gone"}
    /\ Reply(h, "Failure")
    /\ UNCHANGED <<dir, mayFind, World>>

----------------------------------------------------------------------------
(***************************************************************************)
(* A session: one storage request at a time.                               *)
(***************************************************************************)
Launch(s, attempt) ==
    /\ Len(helpers) < MaxHelper
    /\ helpers' = Append(helpers, NewHelper(attempt))
    /\ sessions' = [sessions EXCEPT ![s].attempt = attempt, ![s].helper = Len(helpers) + 1]
    /\ UNCHANGED <<dir, mayFind, lock, crashes, edits, history>>

(* Reading is done in a helper of its own, under the lock.                 *)
SessionLoads(s) ==
    /\ AtRest(s)
    /\ LockFree
    /\ Primary # NoDoc
    /\ sessions' = [sessions EXCEPT ![s].base = Primary]
    /\ UNCHANGED <<dir, mayFind, lock, helpers, stamps, crashes, edits, history>>

(* A new save, or the next one of a save that is still the one expected.   *)
SessionSaves(s) ==
    /\ AtRest(s)
    /\ stamps < MaxStamp
    /\ sessions[s].base # NoDoc => LockFree /\ Primary = sessions[s].base
    /\ Launch(s, Append(sessions[s].base, stamps + 1))
    /\ stamps' = stamps + 1

(* A write in doubt is tried again with the same bytes.                    *)
SessionRetries(s) ==
    /\ sessions[s].helper = 0
    /\ sessions[s].doubt
    /\ Launch(s, sessions[s].attempt)
    /\ UNCHANGED stamps

Saved(session) ==
    [base |-> session.attempt, attempt |-> NoDoc, doubt |-> FALSE, helper |-> 0]
InDoubt(session) == [session EXCEPT !.doubt = TRUE, !.helper = 0]

NotSaved(session) == [session EXCEPT !.attempt = NoDoc, !.helper = 0]

(* The reply arrives.  A write that was in doubt stays so until it is      *)
(* known to have been made.                                                *)
SessionHears(s) ==
    LET h == sessions[s].helper
        unsaved == helpers[h].visibility = "Unchanged" /\ ~sessions[s].doubt
    IN /\ h # 0
       /\ \/ /\ helpers[h].at = "Receipt"
             /\ sessions' = [sessions EXCEPT ![s] = Saved(@)]
             /\ acked' = acked \cup {sessions[s].attempt}
             /\ UNCHANGED dropped
          \/ /\ helpers[h].at = "Failure"
             /\ sessions' = [sessions EXCEPT ![s] = IF unsaved THEN NotSaved(@) ELSE InDoubt(@)]
             /\ dropped' = IF unsaved THEN dropped \cup {sessions[s].attempt} ELSE dropped
             /\ UNCHANGED acked
       /\ helpers' = [helpers EXCEPT ![h] = DeadHelper]
       /\ UNCHANGED <<dir, mayFind, lock, stamps, crashes, edits, exposed>>

(* Deadline, cancellation or a broken pipe: the helper is killed, or could *)
(* not be.                                                                 *)
LoseReply(s) ==
    LET h == sessions[s].helper
    IN /\ h # 0
       /\ sessions' = [sessions EXCEPT ![s] = InDoubt(@)]
       /\ \/ helpers' = [helpers EXCEPT ![h] = DeadHelper] /\ Unlock(h)
          \/ UNCHANGED <<helpers, lock>>
       /\ UNCHANGED <<dir, mayFind, stamps, crashes, edits, history>>

(* The playing process dies or exits; its helper, if any, does not.        *)
SessionEnds(s) ==
    /\ sessions[s] # NewSession
    /\ sessions' = [sessions EXCEPT ![s] = NewSession]
    /\ UNCHANGED <<dir, mayFind, lock, helpers, stamps, crashes, edits, history>>

----------------------------------------------------------------------------
(***************************************************************************)
(* The environment.                                                        *)
(***************************************************************************)
(* Everything that runs is lost; each name shows what it showed at the     *)
(* last sync or at some rename since.                                      *)
PowerLoss ==
    /\ crashes < MaxCrashes
    /\ crashes' = crashes + 1
    /\ dir' \in {d \in [Entry -> UNION {mayFind[e] : e \in Entry}] :
                    \A e \in Entry : d[e] \in mayFind[e]}
    /\ mayFind' = [e \in Entry |-> {dir'[e]}]
    /\ lock' = 0
    /\ helpers' = [h \in DOMAIN helpers |-> DeadHelper]
    /\ sessions' = [s \in Sessions |-> NewSession]
    /\ UNCHANGED <<stamps, edits, history>>

(* Somebody puts another document in place of the primary, removes it, or  *)
(* puts the backup there, without taking the lock.                         *)
EditByHand ==
    /\ edits < MaxEdits
    /\ edits' = edits + 1
    /\ \/ /\ stamps < MaxStamp
          /\ stamps' = stamps + 1
          /\ Rename("primary", Append(Primary, stamps + 1))
       \/ /\ Primary # NoDoc
          /\ Rename("primary", NoDoc)
          /\ UNCHANGED stamps
       \/ /\ Backup # NoDoc
          /\ Rename("primary", Backup)
          /\ UNCHANGED stamps
    /\ exposed' = exposed \cup {h \in DOMAIN helpers :
                                    /\ helpers[h].at = "Replace"
                                    /\ Previous(helpers[h].attempt) # NoDoc}
    /\ UNCHANGED <<lock, helpers, sessions, crashes, acked, dropped>>

----------------------------------------------------------------------------
HelperNext(h) ==
    \/ HelperIsBusy(h)
    \/ HelperBegins(h)
    \/ HelperConfirms(h)
    \/ HelperKeepsBackup(h)
    \/ HelperSyncsBackup(h)
    \/ HelperRechecks(h)
    \/ HelperReplaces(h)
    \/ HelperSyncsPrimary(h)
    \/ StepFails(h)

SessionNext(s) ==
    \/ SessionLoads(s)
    \/ SessionSaves(s)
    \/ SessionRetries(s)
    \/ SessionHears(s)
    \/ LoseReply(s)
    \/ SessionEnds(s)

Next ==
    \/ \E h \in DOMAIN helpers : HelperNext(h)
    \/ \E s \in Sessions : SessionNext(s)
    \/ PowerLoss
    \/ EditByHand

Spec == Init /\ [][Next]_vars

----------------------------------------------------------------------------
(***************************************************************************)
(* Properties                                                              *)
(***************************************************************************)

(* A receipt is for good: whatever is killed, retried, or lost with the    *)
(* machine later, the primary is that document or one that continues it.   *)
ReceiptIsForGood ==
    edits = 0 =>
        \A doc \in acked : \A p \in mayFind["primary"] : IsPrefix(doc, p)

(* The two files are never more than one save apart, in any combination of *)
(* old and new names the machine may come back with.                       *)
Adjacent(p, b) ==
    b = p \/ (p # NoDoc /\ b = Previous(p)) \/ (b # NoDoc /\ p = Previous(b))

BackupAdjacent ==
    edits = 0 =>
        \A p \in mayFind["primary"], b \in mayFind["backup"] : Adjacent(p, b)

(* A save that was reported as not made is not made later either: a        *)
(* session may build on what it had before.                                *)
DroppedIsGone ==
    \A doc \in dropped : \A p \in mayFind["primary"] : ~IsPrefix(doc, p)

(* No update is lost: a helper only ever replaces the document that its    *)
(* own one continues, though it looked at it several steps earlier.  The   *)
(* one exception is an edit by hand in the moment between its recheck and  *)
(* its rename, and not even that if the save is new.                       *)
Replaces(h) == helpers[h].at = "Replace" /\ helpers'[h].at = "SyncPrimary"

NothingOverwritten ==
    [][\A h \in DOMAIN helpers \ exposed :
           Replaces(h) => Previous(dir'["primary"]) = Primary]_vars
=============================================================================
