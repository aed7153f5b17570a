------------------------- MODULE SessionPersistence -------------------------
(***************************************************************************)
(* PersistedSession (cyoa-presentation/src/persistence.rs) with the two    *)
(* runners it owns: SessionRuntime and WorkerRunner for generation         *)
(* (runtime.rs, worker.rs) and StorageRunner for saves and loads           *)
(* (storage.rs).                                                           *)
(*                                                                         *)
(* All of it lives on the UI thread and is driven by method calls, so it   *)
(* is one record p and every method an operator that yields the record it  *)
(* leaves.  The threads themselves, the disk and the player are in module  *)
(* PersistedSession.  A call that starts a thread takes a BOOLEAN, whether *)
(* the operating system provides it.                                       *)
(*                                                                         *)
(* Notifications, messages and the last failure shown are left out.        *)
(***************************************************************************)
EXTENDS SessionController

CONSTANTS MaxStorageId,   (* u64::MAX of the storage request counter       *)
          Slots           (* save ids                                      *)

ASSUME PersistenceAssumption == MaxStorageId \in Nat

(***************************************************************************)
(* What is written.  A document is one encoded save.  Its content stamp is *)
(* the hash of its bytes, which hold the time and the revision as well as  *)
(* the game: it is taken to be the id of the request that prepared it.     *)
(***************************************************************************)
NoDoc == [stamp |-> 0]
Doc == [stamp: Nat \ {0}, game: Game]

(* A PendingWrite: the document, and the one it is to replace (0: none).   *)
NoAttempt == [doc |-> NoDoc]
Attempt == [slot: Slots, prev: Nat, doc: Doc]

Unbound == [at |-> "Unbound"]
Bound(slot, stamp) == [at |-> "Bound", slot |-> slot, stamp |-> stamp]
Binding == {Unbound} \cup [at: {"Bound"}, slot: Slots, stamp: Nat]

Effect == {"Save", "Load", "List"}
Durability == {"Clean", "Dirty", "Uncertain"}
NotRunning == [effect |-> "None"]
RunningStorage ==
    {NotRunning} \cup
    [effect: Effect, key: Key, pending: {NoAttempt} \cup Attempt, prior: Durability]

NoRetry == [pending |-> NoAttempt]
RetryWrite == {NoRetry} \cup [revision: Nat, pending: Attempt]

StorageIntent ==
    [op: {"Create"}, game: Game]
      \cup [op: {"Replace"}, slot: Slots, expected: Nat, game: Game]
      \cup [op: {"Reconcile"}, pending: Attempt]
      \cup [op: {"Load"}, slot: Slots, copy: {"primary", "backup"}, limits: Limits]
      \cup [op: {"List"}]

(* What a storage thread returns.                                          *)
NoResult == [is |-> "Nothing"]
Listed == [is |-> "Listed"]
Panicked == [is |-> "Panicked"]
Saved(attempt) == [is |-> "Saved", attempt |-> attempt]
FailedWith(visibility) == [is |-> "Failed", visibility |-> visibility]
Loaded(slot, copy, stamp, game, changed) ==
    [is |-> "Loaded", slot |-> slot, copy |-> copy, stamp |-> stamp, game |-> game,
     changed |-> changed]
StorageResult ==
    {NoResult, Listed, Panicked}
      \cup [is: {"Saved"}, attempt: Attempt]
      \cup [is: {"Failed"}, visibility: {"Unchanged", "Replaced", "Unknown"}]
      \cup [is: {"Loaded"}, slot: Slots, copy: {"primary", "backup"}, stamp: Nat,
            game: Game, changed: BOOLEAN]

(* The runners.  A running one is paired with its thread: result is what   *)
(* the thread has returned, evidence the attempt it has published, applied *)
(* whether its helper has seen the document in place.                      *)
At(state) == [at |-> state]
Worker ==
    [at: {"Ready", "Faulted"}] \cup
    [at: {"Running"}, key: Key, work: Work,
     result: {"nothing", "success", "failure", "panic"}]
Storage ==
    [at: {"Ready", "Faulted", "Closed"}] \cup
    [at: {"Running"}, key: Key, intent: StorageIntent, cancelled: BOOLEAN,
     evidence: {NoAttempt} \cup Attempt, applied: BOOLEAN, result: StorageResult]

Shutdown == {"Open", "StoppingGeneration", "SavingFinal", "DrainingOutput", "Closed"}

(* panicked stands for a failed expect() in the coordinator.               *)
Session ==
    [ctl: Controller, worker: Worker, storage: Storage, closing: BOOLEAN,
     binding: Binding, durability: Durability, running: RunningStorage,
     lastStorageId: Nat, retryWrite: RetryWrite, deferredOpening: BOOLEAN,
     shutdown: Shutdown, finalAttempted: BOOLEAN, closingWriteSatisfied: BOOLEAN,
     workerFault: BOOLEAN, panicked: BOOLEAN]

(* main.rs always starts with a new controller, which has no game.         *)
NewSession ==
    [ctl |-> NewController, worker |-> At("Ready"), storage |-> At("Ready"),
     closing |-> FALSE, binding |-> Unbound, durability |-> "Clean",
     running |-> NotRunning, lastStorageId |-> 0, retryWrite |-> NoRetry,
     deferredOpening |-> FALSE, shutdown |-> "Open", finalAttempted |-> FALSE,
     closingWriteSatisfied |-> FALSE, workerFault |-> FALSE, panicked |-> FALSE]

----------------------------------------------------------------------------
(***************************************************************************)
(* Admission.                                                              *)
(***************************************************************************)
StorageIdle(p) == p.running = NotRunning

(* Mutant: a storage request under way does not count.                     *)
SessionIdleDuringStorage(p) == p.shutdown = "Open" /\ Ready(p.ctl)

SessionIdle(p) == p.shutdown = "Open" /\ StorageIdle(p) /\ Ready(p.ctl)
SessionIdleOrFaulted(p) ==
    p.shutdown = "Open" /\ StorageIdle(p) /\ (Ready(p.ctl) \/ p.ctl.op.phase = "Faulted")

(* Mutant: no id is kept back for the final save.                          *)
CapacityForAll(p, count) == p.lastStorageId + count <= MaxStorageId

(* One id is kept back for the final save.                                 *)
CapacityFor(p, count) == p.lastStorageId + 1 + count <= MaxStorageId

ExitFailed(p) == p.workerFault \/ (HasGame(p.ctl) /\ p.durability # "Clean")

Panic(p) == [p EXCEPT !.panicked = TRUE]

----------------------------------------------------------------------------
(***************************************************************************)
(* Generation: SessionRuntime::dispatch hands the request the controller   *)
(* admitted to the worker, or tells the controller that it could not.      *)
(***************************************************************************)
RuntimeStart(p, ctl, spawned) ==
    IF p.worker.at = "Ready" /\ spawned
    THEN [p EXCEPT !.ctl = ctl,
                   !.worker = [at |-> "Running", key |-> ctl.op.key,
                               work |-> ctl.op.work, result |-> "nothing"]]
    ELSE [p EXCEPT !.ctl = DispatchFailed(ctl, ctl.op.key),
                   !.workerFault = TRUE]

----------------------------------------------------------------------------
(***************************************************************************)
(* Starting storage.                                                       *)
(***************************************************************************)
CurrentStorage(p, key) ==
    p.running # NotRunning /\ p.running.key = key /\ key.revision = p.ctl.revision

(* Mutant: a retry that changes nothing clears the doubt.                  *)
DurabilityAfterLast(visibility, prior) ==
    IF visibility = "Unchanged" THEN "Dirty" ELSE "Uncertain"

(* A save in doubt stays in doubt until it is known to have succeeded.     *)
DurabilityAfter(visibility, prior) ==
    IF visibility = "Unchanged" /\ prior # "Uncertain" THEN "Dirty" ELSE "Uncertain"

(* A save that failed: what is known about the disk decides durability and *)
(* whether the very same bytes must be tried again.                        *)
SaveFailed(p, run, visibility, pending) ==
    LET evidence == IF pending # NoAttempt THEN pending ELSE run.pending
    IN [p EXCEPT
          !.durability = DurabilityAfter(visibility, run.prior),
          !.retryWrite = IF visibility = "Unchanged" THEN @
                         ELSE IF evidence = NoAttempt THEN NoRetry
                         ELSE [revision |-> run.key.revision, pending |-> evidence]]

AcceptFailure(p, key, visibility, pending) ==
    LET q == [p EXCEPT !.running = NotRunning]
    IN IF ~CurrentStorage(p, key) THEN p
       ELSE IF p.running.effect = "Save" THEN SaveFailed(q, p.running, visibility, pending)
       ELSE q

(* PersistedSession::start, after its capacity check.  A runner that lost  *)
(* its last thread to a panic is recovered first.                          *)
StartStorage(p, effect, intent, spawned) ==
    LET key == [id |-> p.lastStorageId + 1, revision |-> p.ctl.revision]
        recovered == IF ~p.closing /\ p.storage.at = "Faulted" THEN At("Ready") ELSE p.storage
        q == [p EXCEPT !.lastStorageId = key.id,
                       !.running = [effect |-> effect, key |-> key, pending |-> NoAttempt,
                                    prior |-> p.durability],
                       !.storage = recovered]
    IN IF recovered.at = "Ready" /\ ~p.closing /\ spawned
       THEN [q EXCEPT !.storage = [at |-> "Running", key |-> key, intent |-> intent,
                                   cancelled |-> FALSE, evidence |-> NoAttempt,
                                   applied |-> FALSE, result |-> NoResult]]
       ELSE AcceptFailure(q, key, "Unchanged", NoAttempt)

(* An uncertain write of this very revision is tried again byte for byte;  *)
(* a bound save is replaced; anything else becomes a new save.             *)
RetriesWrite(p) == p.retryWrite # NoRetry /\ p.retryWrite.revision = p.ctl.revision

SaveIntent(p, copy) ==
    IF ~copy /\ RetriesWrite(p)
    THEN [op |-> "Reconcile", pending |-> p.retryWrite.pending]
    ELSE IF ~copy /\ p.binding # Unbound
    THEN [op |-> "Replace", slot |-> p.binding.slot, expected |-> p.binding.stamp,
          game |-> GameOf(p.ctl)]
    ELSE [op |-> "Create", game |-> GameOf(p.ctl)]

Write(p, copy, spawned) == StartStorage(p, "Save", SaveIntent(p, copy), spawned)

(* A write whose capacity was reserved earlier: the expect() on its result.*)
ReservedWrite(p, spawned) ==
    IF CapacityFor(p, 1) THEN Write(p, FALSE, spawned) ELSE Panic(p)

----------------------------------------------------------------------------
(***************************************************************************)
(* Polling.                                                                *)
(***************************************************************************)
(* The generation worker first: a committed turn is saved at once.         *)
Outcome(w) ==
    IF w.result = "success" THEN Success(w.key, w.work) ELSE Failure

AcceptGeneration(p, spawned) ==
    LET w == p.worker
        done == Complete(p.ctl, w.key, Outcome(w))
        q == [p EXCEPT !.ctl = done, !.worker = At("Ready"),
                       !.workerFault = @ \/ done.op.phase = "Faulted"]
    IN CASE w.at # "Running" -> p
         [] w.at = "Running" /\ w.result = "nothing" -> p
         [] w.at = "Running" /\ w.result = "panic" ->
               [p EXCEPT !.ctl = WorkerFailed(p.ctl, w.key), !.worker = At("Faulted"),
                         !.workerFault = TRUE]
         [] OTHER ->
               IF Commits(p.ctl, w.key, Outcome(w)) /\ w.work.kind = "Turn"
               THEN ReservedWrite([q EXCEPT !.durability = "Dirty"], spawned)
               ELSE q

(* Mutant: the new limits given to a restore are forgotten.                *)
IsAsSavedUnlessBackup(r) == r.copy = "primary"

IsAsSaved(r) == r.copy = "primary" /\ ~r.changed

(* A restore that changed the game, or came from the backup, is a new      *)
(* revision that has yet to be saved.                                      *)
InstallLoaded(p, r, spawned) ==
    LET q == [p EXCEPT !.ctl = ReplaceGame(p.ctl, r.game),
                       !.binding = IF r.copy = "backup" THEN Unbound
                                   ELSE Bound(r.slot, r.stamp),
                       !.retryWrite = NoRetry,
                       !.deferredOpening = FALSE,
                       !.durability = IF IsAsSaved(r) THEN "Clean" ELSE "Dirty"]
    IN IF ~CanReplaceGame(p.ctl) THEN Panic(p)
       ELSE IF IsAsSaved(r) THEN q
       ELSE ReservedWrite(q, spawned)

(* Mutant: the bytes of an earlier try are kept.                           *)
BindKeepingRetry(p, attempt) ==
    [p EXCEPT !.binding = Bound(attempt.slot, attempt.doc.stamp), !.durability = "Clean"]

Bind(p, attempt) ==
    [p EXCEPT !.binding = Bound(attempt.slot, attempt.doc.stamp),
              !.durability = "Clean",
              !.retryWrite = NoRetry,
              !.closingWriteSatisfied = @ \/ p.shutdown # "Open"]

(* The opening turn waits for the zero-turn save.                          *)
AcceptSaved(p, attempt, spawned) ==
    LET q == Bind(p, attempt)
        opened == [q EXCEPT !.deferredOpening = FALSE]
    IN IF ~p.deferredOpening \/ p.shutdown # "Open" THEN q
       ELSE IF CanTakeTurn(q.ctl, "Continue")
            THEN RuntimeStart(opened, TakeTurn(q.ctl, "Continue"), spawned)
            ELSE [opened EXCEPT !.workerFault = TRUE]

AcceptFinished(p, key, result, evidence, spawned) ==
    LET q == [p EXCEPT !.running = NotRunning]
        effect == p.running.effect
    IN CASE result.is = "Failed" -> AcceptFailure(p, key, result.visibility, evidence)
         [] result.is = "Panicked" ->
               AcceptFailure(p, key, IF evidence = NoAttempt THEN "Unchanged" ELSE "Unknown",
                             evidence)
         [] result.is \in {"Saved", "Loaded", "Listed"} ->
               IF ~CurrentStorage(p, key) THEN p
               ELSE IF p.shutdown # "Open" /\ effect # "Save" THEN q
               ELSE IF result.is = "Saved" /\ effect = "Save"
                    THEN AcceptSaved(q, result.attempt, spawned)
               ELSE IF result.is = "Loaded" /\ effect = "Load"
                    THEN InstallLoaded(q, result, spawned)
               ELSE q

(* Published evidence is delivered before the completion it belongs to.    *)
AcceptStorage(p, spawned) ==
    LET s == p.storage
        q == IF s.evidence # NoAttempt /\ CurrentStorage(p, s.key)
             THEN [p EXCEPT !.running.pending = s.evidence] ELSE p
        after == IF p.closing THEN "Closed"
                 ELSE IF s.result = Panicked THEN "Faulted" ELSE "Ready"
    IN IF s.at # "Running" THEN p
       ELSE IF s.result = NoResult THEN q
       ELSE AcceptFinished([q EXCEPT !.storage = At(after)], s.key, s.result, s.evidence,
                           spawned)

CancelStorage(s) == IF s.at = "Running" THEN [s EXCEPT !.cancelled = TRUE] ELSE s

FinishStorage(p) ==
    [p EXCEPT !.closing = TRUE,
              !.storage = IF @.at = "Running" THEN CancelStorage(@) ELSE At("Closed"),
              !.shutdown = "DrainingOutput"]

FinalSave(p, spawned) ==
    LET q == [p EXCEPT !.shutdown = "SavingFinal", !.finalAttempted = TRUE]
    IN IF p.lastStorageId < MaxStorageId THEN Write(q, FALSE, spawned) ELSE FinishStorage(q)

(* Mutants: a save under way is not waited for; the last save must succeed. *)
CanCloseDuringStorage(p) ==
    p.shutdown = "StoppingGeneration" /\ p.ctl.op.phase = "Closed"
IsSavedForGood(p) ==
    p.shutdown = "SavingFinal" /\ p.closingWriteSatisfied /\ StorageIdle(p)

CanClose(p) ==
    p.shutdown = "StoppingGeneration" /\ p.ctl.op.phase = "Closed" /\ StorageIdle(p)
FinalSaveIsOver(p) ==
    p.shutdown = "SavingFinal" /\ p.finalAttempted /\ StorageIdle(p)

AdvanceShutdown(p, spawned) ==
    LET q == IF ~CanClose(p) THEN p
             ELSE IF ~HasGame(p.ctl) \/ p.closingWriteSatisfied THEN FinishStorage(p)
             ELSE FinalSave(p, spawned)
    IN IF FinalSaveIsOver(q) THEN FinishStorage(q) ELSE q

(* One poll starts at most one thread.                                     *)
PollAll(p, spawned) ==
    AdvanceShutdown(AcceptStorage(AcceptGeneration(p, spawned), spawned), spawned)

----------------------------------------------------------------------------
(***************************************************************************)
(* The player's commands.  dispatch admits an intent only on a saved story *)
(* and with room for the saves it will cause.                              *)
(***************************************************************************)
(* Mutant: an unsaved story will do.                                       *)
AdmitsUnsaved(p, saves) == SessionIdle(p) /\ CapacityFor(p, saves)

Admits(p, saves) == SessionIdle(p) /\ p.durability = "Clean" /\ CapacityFor(p, saves)

(* Selecting and rewinding change the story and save it on the spot.       *)
SaveChanged(p, ctl, opening, spawned) ==
    Write([p EXCEPT !.ctl = ctl, !.durability = "Dirty", !.deferredOpening = opening],
          FALSE, spawned)

CanDispatchSelect(p) == Admits(p, 2) /\ CanReserveSelectionOpening(p.ctl) /\ CanSelect(p.ctl)
DispatchSelect(p, spawned) == SaveChanged(p, Select(p.ctl), TRUE, spawned)

CanDispatchRewind(p, count) == Admits(p, 1) /\ CanRewind(p.ctl, count)
DispatchRewind(p, count, spawned) == SaveChanged(p, Rewind(p.ctl, count), FALSE, spawned)

CanSave(p) ==
    /\ SessionIdleOrFaulted(p)
    /\ CapacityFor(p, IF p.deferredOpening THEN 2 ELSE 1)
    /\ HasGame(p.ctl)
Save(p, copy, spawned) == Write(p, copy, spawned)

CanList(p) == SessionIdleOrFaulted(p) /\ CapacityFor(p, 1)
List(p, spawned) == StartStorage(p, "List", [op |-> "List"], spawned)

CanLoad(p) == Admits(p, 2) /\ CanReplaceGame(p.ctl)
Load(p, slot, copy, limits, spawned) ==
    StartStorage(p, "Load", [op |-> "Load", slot |-> slot, copy |-> copy, limits |-> limits],
                 spawned)

(* Startup restore: the save was read before the session existed.          *)
AdmitLoaded(p, r, spawned) == InstallLoaded(p, r, spawned)

(* A save in progress is waited for, a load or a listing is cancelled.     *)
DispatchQuit(p) ==
    IF p.shutdown # "Open" THEN p
    ELSE [p EXCEPT !.deferredOpening = FALSE,
                   !.shutdown = "StoppingGeneration",
                   !.ctl = Quit(p.ctl),
                   !.storage = IF p.running # NotRunning /\ p.running.effect # "Save"
                               THEN CancelStorage(@) ELSE @]

(* Mutant: the request is given up without waiting for its thread.         *)
DispatchCancelAtOnce(p) ==
    IF p.shutdown = "Open" /\ Pending(p.ctl)
    THEN [p EXCEPT !.ctl = Settle(p.ctl, Failed(p.ctl.op.work, "Cancelled"))] ELSE p

DispatchCancel(p) == IF p.shutdown = "Open" THEN [p EXCEPT !.ctl = Cancel(p.ctl)] ELSE p
=============================================================================
