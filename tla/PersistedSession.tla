-------------------------- MODULE PersistedSession --------------------------
(***************************************************************************)
(* A whole playing process: the player, the UI thread with the session     *)
(* (SessionPersistence), its generation thread, its storage thread with    *)
(* the helper process that writes the disk, helpers left behind by earlier *)
(* requests, and other processes saving into the same directory.           *)
(*                                                                         *)
(* The disk is taken at the level the repository promises: a helper first  *)
(* keeps the old primary as the backup and then puts its document in place *)
(* if the primary is still the one it was prepared against, each in one    *)
(* step.                                                                   *)
(***************************************************************************)
EXTENDS SessionPersistence, FiniteSets

CONSTANTS MaxForeign,     (* saves other processes make (bound)            *)
          Starts          (* how the process is started: see Init          *)

(* The counters are u64s: they have room to restore a story and save it.   *)
ASSUME SessionAssumption ==
    /\ MaxCounter >= 1 /\ MaxStorageId >= 2
    /\ Slots # {}
    /\ MaxForeign \in Nat
    /\ Starts \subseteq {"fresh", "resumed", "recovered"}

VARIABLES app,       (* the session: UI thread state and its two threads   *)
          disk,      (* per slot the primary document and its backup       *)
          orphans,   (* attempts whose helper outlived its request         *)
          landed,    (* every <<slot, document>> that was ever a primary   *)
                     (* (observability only)                               *)
          outside,   (* slots written by somebody other than the session   *)
                     (* that saves there (observability only)              *)
          faults     (* a thread panicked or could not be started          *)
                     (* (observability only)                               *)

vars == <<app, disk, orphans, landed, outside, faults>>

File == {NoDoc} \cup Doc

TypeOK ==
    /\ app \in Session
    /\ disk \in [Slots -> [primary: File, backup: File]]
    /\ orphans \in SUBSET Attempt
    /\ landed \in SUBSET (Slots \X Doc)
    /\ outside \in SUBSET Slots
    /\ faults \in BOOLEAN

----------------------------------------------------------------------------
(***************************************************************************)
(* Starting up.                                                            *)
(***************************************************************************)
(* A story an earlier session left behind, and its last backup.            *)
OldGame(turns) ==
    [outline |-> [by |-> "generator", n |-> 0], limits |-> DefaultLimits, turns |-> turns]
OldDoc == [stamp |-> MaxStorageId + 2, game |-> OldGame(<<0>>)]
OldBackup == [stamp |-> MaxStorageId + 1, game |-> OldGame(<<>>)]
OldSlot == CHOOSE s \in Slots : TRUE

EmptyFile == [primary |-> NoDoc, backup |-> NoDoc]
EmptyDisk == [s \in Slots |-> EmptyFile]
OldDisk == [EmptyDisk EXCEPT ![OldSlot] = [primary |-> OldDoc, backup |-> OldBackup]]

Restored(slot, copy, limits) ==
    LET doc == disk[slot][copy]
    IN Loaded(slot, copy, doc.stamp, [doc.game EXCEPT !.limits = limits],
              limits # doc.game.limits)

(* A first run, or a run with --load of the primary or of the backup.      *)
StartWith(copy, limits) ==
    \E spawned \in BOOLEAN :
        LET with(sp) == AdmitLoaded(NewSession, Restored(OldSlot, copy, limits), sp)
        IN app = with(spawned) /\ faults = (with(spawned) # with(TRUE))

Init ==
    /\ \/ "fresh" \in Starts /\ disk = EmptyDisk /\ app = NewSession /\ faults = FALSE
       \/ /\ "resumed" \in Starts
          /\ disk = OldDisk
          /\ \E limits \in Limits : StartWith("primary", limits)
       \/ "recovered" \in Starts /\ disk = OldDisk /\ StartWith("backup", DefaultLimits)
    /\ orphans = {}
    /\ landed = {<<s, disk[s].primary>> : s \in {t \in Slots : disk[t].primary # NoDoc}}
    /\ outside = {}

----------------------------------------------------------------------------
(***************************************************************************)
(* The UI thread: the player's commands and the poll between them.         *)
(***************************************************************************)
World == <<disk, orphans, landed, outside>>

(* A step of the UI thread that starts a thread, or fails to.              *)
Starting(spawned, new) ==
    /\ app' = new
    /\ faults' = (faults \/ ~spawned)
    /\ UNCHANGED World

(* The intents that start a generation.                                    *)
PlayerStartsWork ==
    /\ Admits(app, 1)
    /\ \E spawned \in BOOLEAN :
          \/ /\ CanSubmitBrief(app.ctl)
             /\ Starting(spawned, RuntimeStart(app, SubmitBrief(app.ctl), spawned))
          \/ /\ CanAcceptOutline(app.ctl)
             /\ Starting(spawned, RuntimeStart(app, AcceptOutline(app.ctl), spawned))
          \/ \E d \in Direction :
                /\ CanTakeTurn(app.ctl, d)
                /\ Starting(spawned, RuntimeStart(app, TakeTurn(app.ctl, d), spawned))
          \/ /\ CanRetry(app.ctl)
             /\ Starting(spawned, RuntimeStart(app, Retry(app.ctl), spawned))

PlayerReplacesOutline ==
    /\ Admits(app, 1)
    /\ CanReplaceOutline(app.ctl)
    /\ app' = [app EXCEPT !.ctl = ReplaceOutline(app.ctl)]
    /\ UNCHANGED <<World, faults>>

PlayerSelects ==
    /\ CanDispatchSelect(app)
    /\ \E spawned \in BOOLEAN : Starting(spawned, DispatchSelect(app, spawned))

PlayerRewinds ==
    \E n \in 1 .. MaxCounter, spawned \in BOOLEAN :
        CanDispatchRewind(app, n) /\ Starting(spawned, DispatchRewind(app, n, spawned))

PlayerSaves ==
    \E copy, spawned \in BOOLEAN :
        CanSave(app) /\ Starting(spawned, Save(app, copy, spawned))

PlayerLists ==
    \E spawned \in BOOLEAN : CanList(app) /\ Starting(spawned, List(app, spawned))

PlayerLoads ==
    \E s \in Slots, copy \in {"primary", "backup"}, limits \in Limits, spawned \in BOOLEAN :
        CanLoad(app) /\ Starting(spawned, Load(app, s, copy, limits, spawned))

PlayerCancels == app' = DispatchCancel(app) /\ UNCHANGED <<World, faults>>

PlayerQuits == app' = DispatchQuit(app) /\ UNCHANGED <<World, faults>>

(* The driver polls until the session is drained.                          *)
Poll ==
    /\ app.shutdown \in {"Open", "StoppingGeneration", "SavingFinal"}
    /\ \E spawned \in BOOLEAN :
          /\ app' = PollAll(app, spawned)
          /\ faults' = (faults \/ app' # PollAll(app, TRUE))
    /\ UNCHANGED World

OutputDrained ==
    /\ app.shutdown = "DrainingOutput"
    /\ app' = [app EXCEPT !.shutdown = "Closed"]
    /\ UNCHANGED <<World, faults>>

----------------------------------------------------------------------------
(***************************************************************************)
(* The generation thread.  It stops, with some answer, after its deadline  *)
(* at the latest; an answer of the wrong kind cannot be expressed.         *)
(***************************************************************************)
GenerationFinishes ==
    /\ app.worker.at = "Running"
    /\ app.worker.result = "nothing"
    /\ \E result \in {"success", "failure", "panic"} :
          /\ app' = [app EXCEPT !.worker.result = result]
          /\ faults' = (faults \/ result = "panic")
    /\ UNCHANGED World

----------------------------------------------------------------------------
(***************************************************************************)
(* The storage thread and its helper.                                      *)
(***************************************************************************)
StorageWorks == app.storage.at = "Running" /\ app.storage.result = NoResult
Intent == app.storage.intent
Evidence == app.storage.evidence

Return(result) ==
    /\ app' = [app EXCEPT !.storage.result = result]
    /\ faults' = (faults \/ result = Panicked)

(* Before any evidence is published the disk has not been touched: the     *)
(* directory cannot be read, the slot is locked, the save is not the one   *)
(* expected, the request was cancelled or ran out of time, or the thread   *)
(* panicked.                                                               *)
StorageGivesUp ==
    /\ StorageWorks
    /\ Evidence = NoAttempt
    /\ \E result \in {FailedWith("Unchanged"), Panicked} : Return(result)
    /\ UNCHANGED World

(* A load and a listing look once more for a cancellation before returning. *)
StorageReads ==
    /\ StorageWorks
    /\ Intent.op = "Load"
    /\ ~app.storage.cancelled
    /\ disk[Intent.slot][Intent.copy] # NoDoc
    /\ Return(Restored(Intent.slot, Intent.copy, Intent.limits))
    /\ UNCHANGED World

StorageLists ==
    /\ StorageWorks
    /\ Intent.op = "List"
    /\ ~app.storage.cancelled
    /\ Return(Listed)
    /\ UNCHANGED World

(* Save ids are random: a new one is not in use anywhere.                  *)
FreeSlots ==
    {s \in Slots : /\ disk[s] = EmptyFile
                   /\ \A a \in orphans : a.slot # s
                   /\ app.retryWrite # NoRetry => app.retryWrite.pending.slot # s}

(* The evidence is published before the helper that may change the disk.   *)
Publish(attempt) == app' = [app EXCEPT !.storage.evidence = attempt]

Prepared(slot, prev) ==
    [slot |-> slot, prev |-> prev,
     doc |-> [stamp |-> app.storage.key.id, game |-> Intent.game]]

StoragePublishes ==
    /\ StorageWorks
    /\ Evidence = NoAttempt
    /\ \/ /\ Intent.op = "Create"
          /\ FreeSlots # {}
          /\ Publish(Prepared(CHOOSE s \in FreeSlots : TRUE, 0))
       \/ /\ Intent.op = "Replace"
          /\ disk[Intent.slot].primary.stamp = Intent.expected
          /\ Publish(Prepared(Intent.slot, Intent.expected))
       \/ /\ Intent.op = "Reconcile"
          /\ Publish(Intent.pending)
    /\ UNCHANGED <<World, faults>>

HelperWorks == StorageWorks /\ Evidence # NoAttempt /\ ~app.storage.applied

(* Mutant: the old primary is not compared.                                *)
ExpectedBlindly(a) == a.prev = 0 => disk[a.slot] = EmptyFile

(* The primary is the one the attempt was prepared against.                *)
Expected(a) ==
    /\ disk[a.slot].primary.stamp = a.prev
    /\ a.prev = 0 => disk[a.slot] = EmptyFile

(* The document is there already: an earlier try did arrive.               *)
HelperFindsDone ==
    /\ HelperWorks
    /\ disk[Evidence.slot].primary = Evidence.doc
    /\ app' = [app EXCEPT !.storage.applied = TRUE]
    /\ UNCHANGED <<World, faults>>

HelperKeepsBackup ==
    /\ HelperWorks
    /\ Expected(Evidence)
    /\ Evidence.prev # 0
    /\ disk' = [disk EXCEPT ![Evidence.slot].backup = disk[Evidence.slot].primary]
    /\ UNCHANGED <<app, orphans, landed, outside, faults>>

HelperReplaces ==
    /\ HelperWorks
    /\ Expected(Evidence)
    /\ disk[Evidence.slot].backup = disk[Evidence.slot].primary
    /\ disk' = [disk EXCEPT ![Evidence.slot].primary = Evidence.doc]
    /\ landed' = landed \cup {<<Evidence.slot, Evidence.doc>>}
    /\ app' = [app EXCEPT !.storage.applied = TRUE]
    /\ UNCHANGED <<orphans, outside, faults>>

(* The reply may be lost whether or not the helper did its work, and the   *)
(* helper that could not be stopped may still be at work.                  *)
StorageReplies ==
    /\ StorageWorks
    /\ Evidence # NoAttempt
    /\ \/ /\ app.storage.applied
          /\ \E result \in {Saved(Evidence), FailedWith("Replaced"), FailedWith("Unknown"),
                            Panicked} : Return(result)
          /\ UNCHANGED orphans
       \/ /\ ~app.storage.applied
          /\ Return(FailedWith("Unchanged"))
          /\ UNCHANGED orphans
       \/ /\ ~app.storage.applied
          /\ \E result \in {FailedWith("Unknown"), Panicked} : Return(result)
          /\ orphans' \in {orphans, orphans \cup {Evidence}}
    /\ UNCHANGED <<disk, landed, outside>>

----------------------------------------------------------------------------
(***************************************************************************)
(* Everybody else who writes to the directory.                             *)
(***************************************************************************)
Overwrite(slot, doc) ==
    /\ disk' = [disk EXCEPT ![slot] = [primary |-> doc, backup |-> disk[slot].primary]]
    /\ landed' = landed \cup {<<slot, doc>>}

(* A helper of an earlier request gets through at last.                    *)
OrphanWrites ==
    \E a \in orphans :
        /\ Expected(a)
        /\ Overwrite(a.slot, a.doc)
        /\ orphans' = orphans \ {a}
        /\ outside' = IF app.retryWrite.pending = a THEN outside ELSE outside \cup {a.slot}
        /\ UNCHANGED <<app, faults>>

(* Another process continues the same save.                                *)
ForeignDocs == {e \in landed : e[2].stamp > OldDoc.stamp}

ForeignSaves ==
    /\ Cardinality(ForeignDocs) < MaxForeign
    /\ \E s \in Slots :
          /\ disk[s].primary # NoDoc
          /\ Overwrite(s, [stamp |-> OldDoc.stamp + 1 + Cardinality(ForeignDocs),
                           game |-> [disk[s].primary.game EXCEPT !.turns = Append(@, 0)]])
          /\ outside' = outside \cup {s}
    /\ UNCHANGED <<app, orphans, faults>>

----------------------------------------------------------------------------
Storage_Next ==
    \/ StorageGivesUp
    \/ StorageReads
    \/ StorageLists
    \/ StoragePublishes
    \/ HelperFindsDone
    \/ HelperKeepsBackup
    \/ HelperReplaces
    \/ StorageReplies

Next ==
    \/ PlayerStartsWork
    \/ PlayerReplacesOutline
    \/ PlayerSelects
    \/ PlayerRewinds
    \/ PlayerSaves
    \/ PlayerLists
    \/ PlayerLoads
    \/ PlayerCancels
    \/ PlayerQuits
    \/ Poll
    \/ OutputDrained
    \/ GenerationFinishes
    \/ Storage_Next
    \/ OrphanWrites
    \/ ForeignSaves

Spec == Init /\ [][Next]_vars

(* The driver keeps polling, and each thread stops by itself: generation   *)
(* and helpers run under deadlines.  Nobody has to play, drain the output, *)
(* or let an orphan through.                                               *)
Fairness ==
    /\ WF_vars(Poll)
    /\ WF_vars(GenerationFinishes)
    /\ WF_vars(StorageGivesUp)
    /\ WF_vars(StorageReplies)

FairSpec == Spec /\ Fairness
----------------------------------------------------------------------------
(***************************************************************************)
(* Safety                                                                  *)
(***************************************************************************)

(* "Clean" is never a guess: the story on the screen is, to the letter, a  *)
(* document that was put in place in the bound slot under the bound stamp, *)
(* whatever failed, was retried, restored or rewound on the way.           *)
SavedGame == <<app.binding.slot, [stamp |-> app.binding.stamp, game |-> GameOf(app.ctl)]>>

CleanMeansSaved ==
    HasGame(app.ctl) /\ app.durability = "Clean" =>
        app.binding # Unbound /\ SavedGame \in landed

(* The story cannot move on before it is saved: nothing is generated while *)
(* a save, a load or a listing is under way or the last save is in doubt,  *)
(* and the opening turn stays owed to a new story until its zero-turn save *)
(* succeeds; it is never owed to a story with turns, nor after quit.       *)
WorkOnSavedStory ==
    /\ Pending(app.ctl) => app.durability = "Clean" /\ StorageIdle(app)
    /\ app.deferredOpening =>
          /\ app.shutdown = "Open"
          /\ HasGame(app.ctl)
          /\ GameOf(app.ctl).turns = <<>>
          /\ app.durability # "Clean"

(* Every thread is awaited, under the key it was started for, and nobody   *)
(* waits for a thread that does not exist: no receipt is disowned ("stale  *)
(* storage receipt ignored"), no request is forgotten, and a worker lost   *)
(* to a panic can be asked for nothing more.                               *)
ThreadsAreAwaited ==
    /\ IF app.storage.at = "Running"
       THEN CurrentStorage(app, app.storage.key)
       ELSE StorageIdle(app)
    /\ app.worker.at = "Running" <=> Pending(app.ctl)
    /\ Pending(app.ctl) =>
          app.worker.key = app.ctl.op.key /\ app.worker.work = app.ctl.op.work
    /\ app.worker.at = "Faulted" => app.ctl.op.phase \in {"Faulted", "Closed"}

(* The bytes kept for another try hold the story as it is now, never an    *)
(* earlier one, and whenever a write is in doubt such bytes are at hand.   *)
RetryHoldsStory ==
    /\ app.retryWrite # NoRetry =>
          /\ app.retryWrite.revision = app.ctl.revision
          /\ app.retryWrite.pending.doc.game = GameOf(app.ctl)
          /\ app.durability # "Clean"
    /\ app.durability = "Uncertain" => app.retryWrite # NoRetry

(* The session does not conflict with itself: as long as nobody else       *)
(* writes the bound slot and no write is in doubt, its primary carries the *)
(* stamp the next save expects.                                            *)
BoundSaveIsOnDisk ==
    /\ app.binding # Unbound
    /\ app.durability # "Uncertain"
    /\ StorageIdle(app)
    /\ app.binding.slot \notin outside
    => disk[app.binding.slot].primary.stamp = app.binding.stamp

(* The reservations made at admission are enough: the expect()s on the     *)
(* autosave and on the load transition hold, an id is left for the final   *)
(* save, and the session reports a worker fault only when a thread         *)
(* panicked or could not be started.                                       *)
ReservationsHold ==
    /\ ~app.panicked
    /\ ~app.finalAttempted => app.lastStorageId < MaxStorageId
    /\ app.workerFault => faults

(* The exit is honest and orderly: output is drained only when no thread   *)
(* is left, a last save was made or tried, and a zero exit code means that *)
(* the story, if there is one, is on disk.                                 *)
ExitIsHonest ==
    app.shutdown \in {"DrainingOutput", "Closed"} =>
        /\ app.ctl.op.phase = "Closed"
        /\ app.worker.at # "Running"
        /\ app.storage.at = "Closed"
        /\ HasGame(app.ctl) => app.closingWriteSatisfied \/ app.finalAttempted
        /\ ~ExitFailed(app) /\ HasGame(app.ctl) => SavedGame \in landed

(* A document is put in place at most once, however often its write is     *)
(* retried, reconciled, or finished late by an orphaned helper: a save     *)
(* never goes back to what it was before.                                  *)
LandsOnce ==
    [][\A s \in Slots : disk'[s].primary # disk[s].primary =>
          <<s, disk'[s].primary>> \notin landed]_vars

----------------------------------------------------------------------------
(***************************************************************************)
(* Liveness                                                                *)
(***************************************************************************)

(* After quit the session always gets as far as draining its output,       *)
(* whatever was running and whatever fails.                                *)
QuitDrains == app.shutdown # "Open" ~> app.shutdown \in {"DrainingOutput", "Closed"}

(* Every generation comes to an end, committed, failed or faulted, and so  *)
(* does every save, load and listing: a new one can be asked for.          *)
EverythingSettles ==
    /\ Pending(app.ctl) ~> ~Pending(app.ctl)
    /\ ~StorageIdle(app) ~> StorageIdle(app)
=============================================================================
