------------------------ MODULE PersistedSessionProofs ------------------------
(***************************************************************************)
(* Theorems about PersistedSession for every value of its constants: the   *)
(* safety properties of a playing process, from one inductive invariant,   *)
(* and that it implements SessionProtocol for any slots, other processes,  *)
(* faults and leftover helpers.                                            *)
(***************************************************************************)
EXTENDS PersistedImplementsProtocol, SessionProofs, FiniteSetTheorems

----------------------------------------------------------------------------
(***************************************************************************)
(* The session and the disk.                                               *)
(***************************************************************************)
Entry(a) == <<a.slot, a.doc>>

(* The story of a clean session was put in place under its binding.        *)
CleanIsLanded(p) ==
    HasGame(p.ctl) /\ p.durability = "Clean" =>
        /\ p.binding # Unbound
        /\ <<p.binding.slot, [stamp |-> p.binding.stamp, game |-> GameOf(p.ctl)]>> \in landed

(* The helper has put its document into the slot the session saves in.     *)
MovedOn(p, slot) == StorageRuns(p) /\ p.storage.applied /\ p.storage.evidence.slot = slot

BoundIsPrimary(p) ==
    /\ p.binding # Unbound
    /\ p.durability # "Uncertain"
    /\ p.binding.slot \notin outside
    /\ ~MovedOn(p, p.binding.slot)
    => disk[p.binding.slot].primary.stamp = p.binding.stamp

(* What the thread says it has seen was so, and still is unless somebody   *)
(* else wrote there.                                                       *)
ReplyIsTrue(p) ==
    StorageRuns(p) =>
        LET s == p.storage
            r == s.result
        IN  /\ s.applied =>
                  /\ Entry(s.evidence) \in landed
                  /\ s.evidence.slot \notin outside =>
                        disk[s.evidence.slot].primary = s.evidence.doc
            /\ s.evidence # NoAttempt /\ s.intent.op = "Create" =>
                  /\ \A a \in orphans : a = s.evidence \/ a.slot # s.evidence.slot
                  /\ p.retryWrite # NoRetry => p.retryWrite.pending.slot # s.evidence.slot
            /\ r.is = "Loaded" /\ r.copy = "primary" =>
                  /\ r.slot \notin outside => disk[r.slot].primary.stamp = r.stamp
                  /\ ~r.changed => <<r.slot, [stamp |-> r.stamp, game |-> r.game]>> \in landed

(* The attempts that may still be put in place.                            *)
InPlay(p) ==
    orphans
      \cup (IF p.retryWrite # NoRetry THEN {p.retryWrite.pending} ELSE {})
      \cup (IF StorageRuns(p) /\ p.storage.evidence # NoAttempt
            THEN {p.storage.evidence} ELSE {})

Entries(p) == landed \cup {Entry(a) : a \in InPlay(p)}

(* A stamp names one document in one slot, and the next one is new.        *)
StampsAreUnique(p) ==
    /\ \A e, f \in Entries(p) : e[2].stamp = f[2].stamp => e = f
    /\ \A e \in Entries(p) : e[2].stamp <= p.lastStorageId \/ e[2].stamp > MaxStorageId
    /\ \A a \in InPlay(p) : a.doc.stamp <= p.lastStorageId
    /\ StorageRuns(p) /\ p.storage.evidence = NoAttempt =>
          \A e \in Entries(p) : e[2].stamp # p.lastStorageId

(* What an attempt is to replace was in place, and is so no more once the  *)
(* attempt's own document was.                                             *)
NeverAgain(p) ==
    \A a \in InPlay(p) :
        /\ a.prev # 0 => \E e \in landed : e[1] = a.slot /\ e[2].stamp = a.prev
        /\ Entry(a) \in landed => disk[a.slot].primary.stamp # a.prev

OnDisk(p) ==
    /\ CleanIsLanded(p)
    /\ BoundIsPrimary(p)
    /\ ReplyIsTrue(p)
    /\ StampsAreUnique(p)
    /\ NeverAgain(p)

(* The disk itself and everybody else's saves.                             *)
DiskIsKnown ==
    /\ \A s \in Slots : disk[s].primary # NoDoc => <<s, disk[s].primary>> \in landed
    /\ IsFiniteSet(ForeignDocs)
    /\ \A e \in ForeignDocs : e[2].stamp <= OldDoc.stamp + Cardinality(ForeignDocs)

WorldTypeOK ==
    /\ disk \in [Slots -> [primary: File, backup: File]]
    /\ orphans \in SUBSET Attempt
    /\ landed \in SUBSET (Slots \X Doc)
    /\ outside \in SUBSET Slots
    /\ faults \in BOOLEAN

FaultsAreKnown == Faulty(app) => faults

IInv ==
    /\ WorldTypeOK
    /\ Sound(app)
    /\ OnDisk(app)
    /\ DiskIsKnown
    /\ FaultsAreKnown

(* The entry an attempt makes when it is put in place.                     *)
LEMMA AttemptEntries ==
    \A a \in Attempt : /\ Entry(a) \in Slots \X Doc
                       /\ Entry(a)[1] = a.slot /\ Entry(a)[2] = a.doc
BY DEF Attempt, Entry

----------------------------------------------------------------------------
(***************************************************************************)
(* The session forgets attempts, and the disk does not notice.             *)
(***************************************************************************)
(* What may still be put in place is well-formed.                          *)
LEMMA InPlayTypes ==
    ASSUME WorldTypeOK, NEW p \in Session
    PROVE  /\ InPlay(p) \subseteq Attempt
           /\ Entries(p) \subseteq Slots \X Doc
           /\ \A e \in Entries(p) : e[2].stamp \in Nat /\ e[2].stamp # 0
<1>1. InPlay(p) \subseteq Attempt
  BY RetryFields, StorageFields DEF InPlay, WorldTypeOK
<1>2. Entries(p) \subseteq Slots \X Doc
  BY <1>1, AttemptEntries DEF Entries, WorldTypeOK
<1>. QED  BY <1>1, <1>2 DEF Doc

(* Attempts are only forgotten, and the next request is new.               *)
Forgets(p, q) ==
    /\ InPlay(q) \subseteq InPlay(p)
    /\ p.lastStorageId <= q.lastStorageId
    /\ StorageRuns(q) /\ q.storage.evidence = NoAttempt =>
          \/ /\ StorageRuns(p) /\ p.storage.evidence = NoAttempt
             /\ q.lastStorageId = p.lastStorageId
          \/ q.lastStorageId = p.lastStorageId + 1 /\ q.lastStorageId <= MaxStorageId

(* Forgetting attempts makes no stamp less unique.                         *)
LEMMA ForgettingKeepsStamps ==
    ASSUME WorldTypeOK, NEW p \in Session, NEW q \in Session,
           Forgets(p, q), StampsAreUnique(p), NeverAgain(p)
    PROVE  StampsAreUnique(q) /\ NeverAgain(q)
<1>1. /\ Entries(q) \subseteq Entries(p)
      /\ InPlay(p) \subseteq Attempt
      /\ \A e \in Entries(p) : e[2].stamp \in Nat
      /\ p.lastStorageId \in Nat /\ q.lastStorageId \in Nat /\ MaxStorageId \in Nat
  BY InPlayTypes, SessionFields, PersistenceAssumption DEF Forgets, Entries
<1>2. NeverAgain(q)
  BY DEF NeverAgain, Forgets
<1>3. \A e, f \in Entries(q) : e[2].stamp = f[2].stamp => e = f
  BY <1>1 DEF StampsAreUnique
<1>4. \A e \in Entries(q) : e[2].stamp <= q.lastStorageId \/ e[2].stamp > MaxStorageId
  BY <1>1 DEF StampsAreUnique, Forgets
<1>5. \A a \in InPlay(q) : a.doc.stamp <= q.lastStorageId
  BY <1>1, Attempts DEF StampsAreUnique, Forgets
<1>6. ASSUME StorageRuns(q), q.storage.evidence = NoAttempt, NEW e \in Entries(q)
      PROVE  e[2].stamp # q.lastStorageId
  <2>1. e \in Entries(p) /\ e[2].stamp \in Nat
    BY <1>1, <1>6
  <2>2. CASE /\ StorageRuns(p) /\ p.storage.evidence = NoAttempt
             /\ q.lastStorageId = p.lastStorageId
    BY <2>1, <2>2 DEF StampsAreUnique
  <2>3. CASE q.lastStorageId = p.lastStorageId + 1 /\ q.lastStorageId <= MaxStorageId
    BY <1>1, <2>1, <2>3 DEF StampsAreUnique
  <2>. QED  BY <1>6, <2>2, <2>3 DEF Forgets
<1>. QED  BY <1>2, <1>3, <1>4, <1>5, <1>6 DEF StampsAreUnique

(* A quiet step leaves everything as true of the disk as it was.           *)
LEMMA QuietKeepsDisk ==
    ASSUME WorldTypeOK, NEW p \in Session, NEW q \in Session, Quiet(p, q), OnDisk(p)
    PROVE  OnDisk(q)
<1>1. CleanIsLanded(q)
  BY DEF Quiet, OnDisk, CleanIsLanded
<1>2. BoundIsPrimary(q)
  BY DEF Quiet, OnDisk, BoundIsPrimary, MovedOn, StorageRuns
<1>3. ReplyIsTrue(q)
  <2>1. SUFFICES ASSUME StorageRuns(q)
                 PROVE  ReplyIsTrue(q)
    BY DEF ReplyIsTrue
  <2>2. CASE q.storage = p.storage
    BY <2>2 DEF Quiet, OnDisk, ReplyIsTrue, StorageRuns
  <2>3. CASE q.storage # p.storage
    BY <2>1, <2>3 DEF Quiet, ReplyIsTrue, NoResult
  <2>. QED  BY <2>2, <2>3
<1>4. Forgets(p, q)
  <2>1. InPlay(q) \subseteq InPlay(p)
    BY DEF Quiet, InPlay, StorageRuns
  <2>2. p.lastStorageId \in Nat
    BY SessionFields
  <2>. QED  BY <2>1, <2>2 DEF Quiet, Forgets, StorageRuns
<1>. QED  BY <1>1, <1>2, <1>3, <1>4, ForgettingKeepsStamps DEF OnDisk

(* The storage thread has returned: what it had published is kept for      *)
(* another try or not at all.                                              *)
LEMMA ReturnKeepsDisk ==
    ASSUME WorldTypeOK, NEW p \in Session, NEW q \in Session, OnDisk(p),
           StorageRuns(p), ~StorageRuns(q), q.lastStorageId = p.lastStorageId,
           \/ q.retryWrite \in {NoRetry, p.retryWrite}
           \/ q.retryWrite.pending = p.storage.evidence /\ p.storage.evidence # NoAttempt,
           CleanIsLanded(q), BoundIsPrimary(q)
    PROVE  OnDisk(q)
<1>1. ReplyIsTrue(q)
  BY DEF ReplyIsTrue
<1>2. Forgets(p, q)
  <2>1. InPlay(q) \subseteq InPlay(p)
    BY DEF InPlay
  <2>2. p.lastStorageId \in Nat
    BY SessionFields
  <2>. QED  BY <2>1, <2>2 DEF Forgets
<1>. QED  BY <1>1, <1>2, ForgettingKeepsStamps DEF OnDisk

(* A request that never touched the disk is given up without a trace.      *)
LEMMA ReleasedOnDisk ==
    ASSUME NEW p, Sound(p), StorageRuns(p), ~p.storage.applied, WorldTypeOK, OnDisk(p),
           NEW state \in {"Ready", "Faulted"}
    PROVE  OnDisk(Released(p, state))
<1>. DEFINE t == Released(p, state)
<1>1. /\ t \in Session /\ p \in Session /\ Stores(p, t) /\ t.durability = p.durability
      /\ t.lastStorageId = p.lastStorageId /\ ~StorageRuns(t)
  BY ReleasedSound DEF Sound
<1>. HIDE DEF t
<1>2. CleanIsLanded(t)
  BY <1>1 DEF OnDisk, CleanIsLanded, Stores
<1>3. BoundIsPrimary(t)
  BY <1>1 DEF OnDisk, BoundIsPrimary, MovedOn, Stores
<1>4. OnDisk(t)
  BY <1>1, <1>2, <1>3, ReturnKeepsDisk DEF Stores
<1>. QED  BY <1>4 DEF t

(* A save that failed, and the bytes kept for it.                          *)
LEMMA SaveFailedOnDisk ==
    ASSUME NEW p, Sound(p), StorageRuns(p), p.running.effect = "Save",
           NEW state \in {"Ready", "Faulted"}, NEW visibility \in Visibilities,
           visibility # "Unchanged" => p.storage.evidence # NoAttempt,
           visibility = "Unchanged" => ~p.storage.applied,
           NEW run, run.prior = p.durability, run.key = p.storage.key,
           WorldTypeOK, OnDisk(p)
    PROVE  OnDisk(SaveFailed(Released(p, state), run, visibility, p.storage.evidence))
<1>. DEFINE evidence == p.storage.evidence
            q == SaveFailed(Released(p, state), run, visibility, evidence)
<1>1. /\ Sound(q)
      /\ Stores(p, [q EXCEPT !.retryWrite = p.retryWrite])
      /\ ~StorageRuns(q)
      /\ q.ctl = p.ctl /\ q.binding = p.binding
      /\ q.lastStorageId = p.lastStorageId
      /\ q.durability = DurabilityAfter(visibility, p.durability)
      /\ \/ q.retryWrite = p.retryWrite
         \/ q.retryWrite.pending = evidence /\ evidence # NoAttempt
  BY SaveFailedSound
<1>. HIDE DEF q
<1>2. CleanIsLanded(q)
  BY <1>1 DEF CleanIsLanded, DurabilityAfter
<1>3. BoundIsPrimary(q)
  BY <1>1 DEF OnDisk, BoundIsPrimary, MovedOn, DurabilityAfter
<1>4. OnDisk(q)
  BY <1>1, <1>2, <1>3, ReturnKeepsDisk DEF Sound
<1>. QED  BY <1>4 DEF q

(* The story bound to the save that arrived.                               *)
LEMMA SavedAsOnDisk ==
    ASSUME NEW p, Sound(p), StorageRuns(p), p.storage.applied, WorldTypeOK, OnDisk(p)
    PROVE  OnDisk(SavedAs(Released(p, "Ready"), p.storage.evidence))
<1>. DEFINE a == p.storage.evidence
            b == SavedAs(Released(p, "Ready"), a)
<1>1. /\ Sound(b) /\ ~StorageRuns(b)
      /\ b.ctl = p.ctl /\ b.lastStorageId = p.lastStorageId /\ b.retryWrite = NoRetry
      /\ b.binding = Bound(a.slot, a.doc.stamp)
      /\ a \in Attempt /\ a.doc.game = GameOf(p.ctl)
  BY SavedAsSound
<1>. HIDE DEF b
<1>2. b.binding # Unbound /\ b.binding.slot = a.slot /\ b.binding.stamp = a.doc.stamp
  BY <1>1, Attempts, Bindings
<1>3. /\ Entry(a) \in landed
      /\ a.slot \notin outside => disk[a.slot].primary = a.doc
  BY DEF OnDisk, ReplyIsTrue
<1>4. a.doc = [stamp |-> a.doc.stamp, game |-> a.doc.game]
  BY <1>1 DEF Attempt, Doc
<1>5. CleanIsLanded(b)
  BY <1>1, <1>2, <1>3, <1>4 DEF CleanIsLanded, Entry
<1>6. BoundIsPrimary(b)
  BY <1>2, <1>3 DEF BoundIsPrimary
<1>7. OnDisk(b)
  BY <1>1, <1>5, <1>6, ReturnKeepsDisk DEF Sound
<1>. QED  BY <1>7 DEF b

(* The story that was loaded is installed.                                 *)
LEMMA AcceptLoadedOnDisk ==
    ASSUME NEW p, Sound(p), StorageRuns(p), p.storage.result.is = "Loaded",
           p.running.effect = "Load", p.shutdown = "Open", NEW spawned \in BOOLEAN,
           WorldTypeOK, OnDisk(p)
    PROVE  OnDisk(InstallLoaded(Released(p, "Ready"), p.storage.result, spawned))
<1>. DEFINE t == Released(p, "Ready")
            r == p.storage.result
            u == Installed(t, r)
            q == InstallLoaded(t, r, spawned)
<1>1. Sound(t) /\ t.lastStorageId = p.lastStorageId /\ ~StorageRuns(t)
  BY ReleasedSound
<1>2. Loads(r) /\ MayInstall(t)
  BY AcceptLoadedSound
<1>. HIDE DEF t, r, u, q
<1>3. /\ Sound(u) /\ HasGame(u.ctl) /\ GameOf(u.ctl) = r.game
      /\ u.storage = t.storage /\ u.lastStorageId = t.lastStorageId
      /\ u.binding = IF r.copy = "backup" THEN Unbound ELSE Bound(r.slot, r.stamp)
      /\ u.retryWrite = NoRetry
      /\ u.durability = IF IsAsSaved(r) THEN "Clean" ELSE "Dirty"
  BY <1>1, <1>2, InstalledSound DEF u
<1>4. Sound(q) /\ (q = u \/ Quiet(u, q))
  BY <1>1, <1>2, InstallLoadedSound DEF u, q
<1>5. r.copy = "primary" =>
        /\ r.slot \notin outside => disk[r.slot].primary.stamp = r.stamp
        /\ ~r.changed => <<r.slot, [stamp |-> r.stamp, game |-> r.game]>> \in landed
  BY DEF OnDisk, ReplyIsTrue, r
<1>6. /\ Bound(r.slot, r.stamp).slot = r.slot /\ Bound(r.slot, r.stamp).stamp = r.stamp
      /\ Bound(r.slot, r.stamp) # Unbound
  BY <1>2, Bindings DEF Loads
<1>7. CleanIsLanded(u)
  BY <1>3, <1>5, <1>6 DEF CleanIsLanded, IsAsSaved
<1>8. BoundIsPrimary(u)
  BY <1>2, <1>3, <1>5, <1>6 DEF BoundIsPrimary, Loads
<1>9. ~StorageRuns(u)
  BY <1>1, <1>3 DEF StorageRuns
<1>10. OnDisk(u)
  BY <1>1, <1>3, <1>7, <1>8, <1>9, ReturnKeepsDisk DEF Sound
<1>11. OnDisk(q)
  BY <1>3, <1>4, <1>10, QuietKeepsDisk DEF Sound
<1>. QED  BY <1>11 DEF t, r, q

(* A poll of the storage thread.                                           *)
LEMMA AcceptStorageOnDisk ==
    ASSUME NEW p, Sound(p), NEW spawned \in BOOLEAN, WorldTypeOK, OnDisk(p)
    PROVE  OnDisk(AcceptStorage(p, spawned))
<1>. DEFINE q == AcceptStorage(p, spawned)
            s == p.storage
            r == s.result
            after == IF r = Panicked THEN "Faulted" ELSE "Ready"
            t == Released(p, after)
            visibility == IF r.is = "Failed" THEN r.visibility
                          ELSE IF s.evidence = NoAttempt THEN "Unchanged" ELSE "Unknown"
<1>0. p \in Session
  BY DEF Sound
<1>1. CASE ~StorageRuns(p)
  BY <1>1 DEF AcceptStorage, StorageRuns
<1>2. CASE StorageRuns(p) /\ r = NoResult
  <2>1. Sound(q) /\ Quiet(p, q)
    BY <1>2, NotedSound
  <2>. HIDE DEF q
  <2>2. OnDisk(q)
    BY <2>1, QuietKeepsDisk DEF Sound
  <2>. QED  BY <2>2 DEF q
<1>3. CASE StorageRuns(p) /\ r # NoResult
  <2>1. PICK run :
          /\ run.prior = p.durability /\ run.key = s.key
          /\ q = IF r.is \in {"Failed", "Panicked"}
                 THEN IF p.running.effect = "Save"
                      THEN SaveFailed(t, run, visibility, s.evidence) ELSE t
                 ELSE IF p.shutdown # "Open" /\ p.running.effect # "Save" THEN t
                 ELSE IF r.is = "Saved" /\ p.running.effect = "Save"
                 THEN AcceptSaved(t, r.attempt, spawned)
                 ELSE IF r.is = "Loaded" /\ p.running.effect = "Load"
                 THEN InstallLoaded(t, r, spawned)
                 ELSE t
    BY <1>3, FinishedEffect
  <2>2. /\ r.is \in {"Listed", "Panicked", "Saved", "Failed", "Loaded"}
        /\ r.is = "Panicked" <=> r = Panicked
        /\ r.is = "Failed" => r.visibility \in Visibilities
    BY <1>0, <1>3, StorageFields, ResultFields
  <2>3. ReplyFits(s) /\ RequestFits(p, p.running.effect, s.intent)
    BY <1>3 DEF Sound, RequestIsCurrent
  <2>4. s.evidence # NoAttempt => p.running.effect = "Save"
    BY <1>3, EvidenceIsStory
  <2>5. after \in {"Ready", "Faulted"}
    OBVIOUS
  <2>6. CASE q = t /\ ~s.applied
    <3>1. OnDisk(t)
      BY <1>3, <2>5, <2>6, ReleasedOnDisk
    <3>. HIDE DEF q, t
    <3>. QED  BY <2>6, <3>1 DEF q
  <2>7. CASE r.is \in {"Failed", "Panicked"} /\ p.running.effect = "Save"
    <3>1. visibility \in Visibilities
      BY <2>2 DEF Visibilities
    <3>2. /\ visibility # "Unchanged" => s.evidence # NoAttempt
          /\ visibility = "Unchanged" => ~s.applied
      BY <2>3, <2>7 DEF ReplyFits
    <3>3. q = SaveFailed(t, run, visibility, s.evidence)
      BY <2>1, <2>7
    <3>. HIDE DEF visibility, after, q
    <3>4. OnDisk(q)
      BY <1>3, <2>1, <2>5, <2>7, <3>1, <3>2, <3>3, SaveFailedOnDisk
    <3>. QED  BY <3>4 DEF q
  <2>8. CASE r.is = "Saved" /\ p.running.effect = "Save"
    <3>. DEFINE b == SavedAs(Released(p, "Ready"), s.evidence)
    <3>1. s.applied /\ r.attempt = s.evidence /\ after = "Ready"
      BY <2>2, <2>3, <2>8 DEF ReplyFits
    <3>2. q = AcceptSaved(Released(p, "Ready"), s.evidence, spawned)
      BY <2>1, <2>8, <3>1
    <3>. HIDE DEF q
    <3>3. Sound(b) /\ OnDisk(b)
      BY <1>3, <3>1, SavedAsSound, SavedAsOnDisk
    <3>4. Sound(q) /\ Quiet(b, q)
      BY <1>3, <3>1, <3>2, AcceptSavedSound
    <3>. HIDE DEF b
    <3>5. OnDisk(q)
      BY <3>3, <3>4, QuietKeepsDisk DEF Sound
    <3>. QED  BY <3>5 DEF q
  <2>9. CASE r.is = "Loaded" /\ p.running.effect = "Load" /\ p.shutdown = "Open"
    <3>1. after = "Ready" /\ q = InstallLoaded(Released(p, "Ready"), r, spawned)
      BY <2>1, <2>2, <2>9
    <3>. HIDE DEF q
    <3>2. OnDisk(q)
      BY <1>3, <2>9, <3>1, AcceptLoadedOnDisk
    <3>. QED  BY <3>2 DEF q
  <2>10. ~s.applied \/ p.running.effect = "Save"
    BY <2>3, <2>4 DEF ReplyFits
  <2>11. p.running.effect = "Save" => r.is \notin {"Loaded", "Listed"}
    BY <2>3 DEF ReplyFits, RequestFits, SaveOps
  <2>. HIDE DEF t, q, visibility
  <2>. QED  BY <2>1, <2>2, <2>6, <2>7, <2>8, <2>9, <2>10, <2>11 DEF q
<1>. QED  BY <1>1, <1>2, <1>3

(* A whole poll: generation, storage, shutdown.                            *)
LEMMA PollAllOnDisk ==
    ASSUME NEW p, Sound(p), NEW spawned \in BOOLEAN, WorldTypeOK, OnDisk(p)
    PROVE  OnDisk(PollAll(p, spawned))
<1>. DEFINE g == AcceptGeneration(p, spawned)
            s == AcceptStorage(g, spawned)
            q == AdvanceShutdown(s, spawned)
<1>1. PollAll(p, spawned) = q
  BY DEF PollAll
<1>2. Sound(g) /\ Quiet(p, g)
  BY AcceptGenerationSound
<1>. HIDE DEF g
<1>3. OnDisk(g)
  BY <1>2, QuietKeepsDisk DEF Sound
<1>4. Sound(s) /\ OnDisk(s)
  BY <1>2, <1>3, AcceptStorageSound, AcceptStorageOnDisk
<1>. HIDE DEF s
<1>5. /\ Sound(q)
      /\ \E r : Sound(r) /\ Quiet(s, r) /\ (q = r \/ Quiet(r, q))
  BY <1>4, AdvanceShutdownSound
<1>. HIDE DEF q
<1>6. PICK r : Sound(r) /\ Quiet(s, r) /\ (q = r \/ Quiet(r, q))
  BY <1>5
<1>7. OnDisk(r)
  BY <1>4, <1>6, QuietKeepsDisk DEF Sound
<1>8. OnDisk(q)
  BY <1>5, <1>6, <1>7, QuietKeepsDisk DEF Sound
<1>. QED  BY <1>1, <1>8

----------------------------------------------------------------------------
(***************************************************************************)
(* The steps of the UI thread.                                             *)
(***************************************************************************)
(* What has to be shown of a step that leaves the disk alone.              *)
LEMMA SessionSteps ==
    ASSUME IInv, NEW q, app' = q, UNCHANGED World, Sound(q), OnDisk(q),
           faults' \in BOOLEAN, Faulty(q) => faults'
    PROVE  IInv'
<1>1. WorldTypeOK' /\ DiskIsKnown'
  BY DEF IInv, World, WorldTypeOK, DiskIsKnown, ForeignDocs
<1>2. Sound(app)' /\ FaultsAreKnown'
  BY DEF FaultsAreKnown
<1>3. OnDisk(app)'
  BY DEF World, OnDisk, CleanIsLanded, BoundIsPrimary, MovedOn, ReplyIsTrue, StampsAreUnique,
         NeverAgain, Entries, InPlay
<1>. QED  BY <1>1, <1>2, <1>3 DEF IInv

(* So much of it is the same for every step that is quiet.                 *)
LEMMA QuietSteps ==
    ASSUME IInv, NEW q, app' = q, UNCHANGED World, Sound(q), Quiet(app, q),
           faults' \in BOOLEAN, Faulty(q) => faults'
    PROVE  IInv'
<1>1. OnDisk(q)
  BY QuietKeepsDisk DEF IInv, Sound
<1>. QED  BY <1>1, SessionSteps

(* A generation is begun.                                                  *)
LEMMA WorkSteps ==
    ASSUME IInv, Admits(app, 1), CanStart(app.ctl), NEW work \in Work,
           NEW spawned \in BOOLEAN,
           Starting(spawned, RuntimeStart(app, Start(app.ctl, work), spawned))
    PROVE  IInv'
<1>. DEFINE q == RuntimeStart(app, Start(app.ctl, work), spawned)
<1>1. Sound(app) /\ MayGenerate(app)
  BY DEF IInv, Admits, SessionIdle, MayGenerate
<1>2. /\ Sound(q) /\ Generates(app, q) /\ q.ctl.stage = app.ctl.stage
      /\ spawned => (Faulty(q) => Faulty(app))
  BY <1>1, RuntimeStartSound
<1>3. app' = q /\ UNCHANGED World /\ faults' = (faults \/ ~spawned)
  BY DEF Starting
<1>. HIDE DEF q
<1>4. Quiet(app, q)
  BY <1>2, GeneratingIsQuiet
<1>5. faults' \in BOOLEAN /\ (Faulty(q) => faults')
  BY <1>2, <1>3 DEF IInv, FaultsAreKnown
<1>. QED  BY <1>2, <1>3, <1>4, <1>5, QuietSteps

(* Every intent that starts work comes down to it.                         *)
LEMMA PlayerStartsWorkSteps ==
    ASSUME IInv, PlayerStartsWork
    PROVE  IInv'
<1>. DEFINE c == app.ctl
<1>1. c \in Controller /\ Admits(app, 1)
  BY SessionFields DEF IInv, Sound, PlayerStartsWork
<1>2. PICK spawned \in BOOLEAN, e \in {SubmitBrief(c), AcceptOutline(c), Retry(c)}
                                        \cup {TakeTurn(c, d) : d \in Direction} :
        /\ \/ CanSubmitBrief(c) /\ e = SubmitBrief(c)
           \/ CanAcceptOutline(c) /\ e = AcceptOutline(c)
           \/ \E d \in Direction : CanTakeTurn(c, d) /\ e = TakeTurn(c, d)
           \/ CanRetry(c) /\ e = Retry(c)
        /\ Starting(spawned, RuntimeStart(app, e, spawned))
  BY DEF PlayerStartsWork
<1>3. CanStart(c) /\ \E work \in Work : e = Start(c, work)
  BY <1>1, <1>2, IntentsStartWork
<1>. QED  BY <1>1, <1>2, <1>3, WorkSteps

(* A command after which nothing is generated.                             *)
LEMMA RestSteps ==
    ASSUME IInv, NEW q, Rests(app, q), app' = q, UNCHANGED World,
           faults' \in BOOLEAN, faults => faults'
    PROVE  IInv'
BY QuietSteps DEF IInv, FaultsAreKnown, Rests

(* Editing the outline, selecting the protagonist and rewinding.           *)
LEMMA PlayerEditsSteps ==
    ASSUME IInv, PlayerReplacesOutline \/ PlayerSelects \/ PlayerRewinds
    PROVE  IInv'
<1>1. Sound(app) /\ faults \in BOOLEAN
  BY DEF IInv, WorldTypeOK
<1>2. CASE PlayerReplacesOutline
  <2>1. Rests(app, [app EXCEPT !.ctl = ReplaceOutline(app.ctl)])
    BY <1>1, <1>2, ReplaceOutlineSound DEF PlayerReplacesOutline, Admits
  <2>. QED  BY <1>1, <1>2, <2>1, RestSteps DEF PlayerReplacesOutline
<1>3. CASE PlayerSelects
  <2>1. PICK spawned \in BOOLEAN : Starting(spawned, DispatchSelect(app, spawned))
    BY <1>3 DEF PlayerSelects
  <2>2. Rests(app, DispatchSelect(app, spawned))
    BY <1>1, <1>3, SelectSound DEF PlayerSelects
  <2>. QED  BY <1>1, <2>1, <2>2, RestSteps DEF Starting
<1>4. CASE PlayerRewinds
  <2>1. PICK n \in 1 .. MaxCounter, spawned \in BOOLEAN :
          CanDispatchRewind(app, n) /\ Starting(spawned, DispatchRewind(app, n, spawned))
    BY <1>4 DEF PlayerRewinds
  <2>2. Rests(app, DispatchRewind(app, n, spawned))
    BY <1>1, <2>1, RewindSound
  <2>. QED  BY <1>1, <2>1, <2>2, RestSteps DEF Starting
<1>. QED  BY <1>2, <1>3, <1>4

(* The player saves, lists and loads.                                      *)
LEMMA PlayerStoresSteps ==
    ASSUME IInv, PlayerSaves \/ PlayerLists \/ PlayerLoads
    PROVE  IInv'
<1>1. Sound(app) /\ faults \in BOOLEAN
  BY DEF IInv, WorldTypeOK
<1>2. CASE PlayerSaves
  <2>1. PICK copy \in BOOLEAN, spawned \in BOOLEAN :
          CanSave(app) /\ Starting(spawned, Save(app, copy, spawned))
    BY <1>2 DEF PlayerSaves
  <2>2. Rests(app, Save(app, copy, spawned))
    BY <1>1, <2>1, SaveSound
  <2>. QED  BY <1>1, <2>1, <2>2, RestSteps DEF Starting
<1>3. CASE PlayerLists
  <2>1. PICK spawned \in BOOLEAN : CanList(app) /\ Starting(spawned, List(app, spawned))
    BY <1>3 DEF PlayerLists
  <2>2. Rests(app, List(app, spawned))
    BY <1>1, <2>1, ListSound
  <2>. QED  BY <1>1, <2>1, <2>2, RestSteps DEF Starting
<1>4. CASE PlayerLoads
  <2>1. PICK s \in Slots, copy \in {"primary", "backup"}, limits \in Limits,
             spawned \in BOOLEAN :
          CanLoad(app) /\ Starting(spawned, Load(app, s, copy, limits, spawned))
    BY <1>4 DEF PlayerLoads
  <2>2. Rests(app, Load(app, s, copy, limits, spawned))
    BY <1>1, <2>1, LoadSound
  <2>. QED  BY <1>1, <2>1, <2>2, RestSteps DEF Starting
<1>. QED  BY <1>2, <1>3, <1>4

(* A cancellation is passed on and waited for.                             *)
LEMMA PlayerCancelsSteps ==
    ASSUME IInv, PlayerCancels
    PROVE  IInv'
<1>. DEFINE q == DispatchCancel(app)
<1>1. app' = q /\ UNCHANGED World /\ UNCHANGED faults
  BY DEF PlayerCancels
<1>2. Sound(q) /\ Quiet(app, q) /\ q.worker = app.worker /\ q.workerFault = app.workerFault
  BY CancelSound DEF IInv
<1>. HIDE DEF q
<1>. QED
  BY <1>1, <1>2, QuietSteps DEF IInv, WorldTypeOK, FaultsAreKnown, Faulty

(* The session forgets the opening turn and stops what is under way.       *)
LEMMA PlayerQuitsSteps ==
    ASSUME IInv, PlayerQuits
    PROVE  IInv'
<1>. DEFINE q == DispatchQuit(app)
<1>0. app \in Session /\ Sound(app) /\ OnDisk(app) /\ WorldTypeOK
  BY DEF IInv, Sound
<1>1. app' = q /\ UNCHANGED World /\ UNCHANGED faults
  BY DEF PlayerQuits
<1>2. /\ Sound(q)
      /\ Tells(app.storage, q.storage) /\ SameStory(app.ctl, q.ctl)
      /\ q.worker = app.worker /\ q.workerFault = app.workerFault
      /\ q.binding = app.binding /\ q.durability = app.durability
      /\ q.lastStorageId = app.lastStorageId /\ q.retryWrite = app.retryWrite
  BY <1>0, QuitSound
<1>. HIDE DEF q
<1>3. StorageRuns(q) <=> StorageRuns(app)
  BY <1>2 DEF Tells, StorageRuns
<1>4. CleanIsLanded(q)
  BY <1>0, <1>2 DEF OnDisk, CleanIsLanded, SameStory, HasGame, GameOf
<1>5. BoundIsPrimary(q)
  BY <1>0, <1>2, <1>3 DEF OnDisk, BoundIsPrimary, MovedOn, Tells, StorageRuns
<1>6. ReplyIsTrue(q)
  BY <1>0, <1>2, <1>3 DEF OnDisk, ReplyIsTrue, Tells, StorageRuns
<1>7. Forgets(app, q)
  <2>1. app.lastStorageId \in Nat
    BY <1>0, SessionFields
  <2>. QED  BY <1>2, <1>3, <2>1 DEF Forgets, InPlay, Tells, StorageRuns
<1>8. OnDisk(q)
  BY <1>0, <1>2, <1>4, <1>5, <1>6, <1>7, ForgettingKeepsStamps DEF OnDisk, Sound
<1>. QED
  BY <1>1, <1>2, <1>8, SessionSteps DEF IInv, WorldTypeOK, FaultsAreKnown, Faulty

(* A poll.                                                                 *)
LEMMA PollSteps ==
    ASSUME IInv, Poll
    PROVE  IInv'
<1>1. PICK spawned \in BOOLEAN :
        /\ app' = PollAll(app, spawned)
        /\ faults' = (faults \/ app' # PollAll(app, TRUE))
  BY DEF Poll
<1>. DEFINE q == PollAll(app, spawned)
<1>2. Sound(q) /\ OnDisk(q)
  BY PollAllSound, PollAllOnDisk DEF IInv
<1>3. Faulty(PollAll(app, TRUE)) => Faulty(app)
  BY PollAllSound DEF IInv
<1>. HIDE DEF q
<1>4. Faulty(q) => faults'
  BY <1>1, <1>3 DEF IInv, FaultsAreKnown, q
<1>5. faults' \in BOOLEAN /\ UNCHANGED World /\ app' = q
  BY <1>1 DEF IInv, WorldTypeOK, Poll, q
<1>. QED  BY <1>2, <1>4, <1>5, SessionSteps

(* The driver has drained the output.                                      *)
LEMMA OutputDrainedSteps ==
    ASSUME IInv, OutputDrained
    PROVE  IInv'
<1>. DEFINE q == [app EXCEPT !.shutdown = "Closed"]
<1>1. /\ app' = q /\ UNCHANGED World /\ UNCHANGED faults
      /\ app.shutdown = "DrainingOutput"
  BY DEF OutputDrained
<1>2. Sound(q) /\ Quiet(app, q) /\ q.worker = app.worker /\ q.workerFault = app.workerFault
  BY <1>1, ClosedSound DEF IInv
<1>. HIDE DEF q
<1>. QED
  BY <1>1, <1>2, QuietSteps DEF IInv, WorldTypeOK, FaultsAreKnown, Faulty

(* The generation thread stops, with some answer.                          *)
LEMMA GenerationFinishesSteps ==
    ASSUME IInv, GenerationFinishes
    PROVE  IInv'
<1>1. PICK result \in {"success", "failure", "panic"} :
        /\ app' = [app EXCEPT !.worker.result = result]
        /\ faults' = (faults \/ result = "panic")
  BY DEF GenerationFinishes
<1>. DEFINE q == [app EXCEPT !.worker.result = result]
<1>2. /\ Sound(q) /\ Quiet(app, q) /\ q.workerFault = app.workerFault
      /\ q.worker.result = result
  BY WorkerReturnsSound DEF IInv, GenerationFinishes
<1>3. app' = q /\ UNCHANGED World
  BY <1>1 DEF GenerationFinishes
<1>. HIDE DEF q
<1>4. faults' \in BOOLEAN /\ (Faulty(q) => faults')
  BY <1>1, <1>2 DEF IInv, WorldTypeOK, FaultsAreKnown, Faulty
<1>. QED  BY <1>2, <1>3, <1>4, QuietSteps

(* The thread at work.                                                     *)
LEMMA ThreadAtWork ==
    ASSUME IInv, StorageWorks
    PROVE  /\ app \in Session /\ Sound(app) /\ StorageRuns(app)
           /\ app.storage \in [at: {"Running"}, key: Key, intent: StorageIntent,
                               cancelled: BOOLEAN, evidence: {NoAttempt} \cup Attempt,
                               applied: BOOLEAN, result: StorageResult]
           /\ Intent \in StorageIntent /\ Evidence \in {NoAttempt} \cup Attempt
           /\ app.storage.result = NoResult /\ app.storage.applied \in BOOLEAN
           /\ app.storage.key.id = app.lastStorageId /\ app.lastStorageId \in Nat \ {0}
           /\ MaxStorageId \in Nat /\ app.lastStorageId <= MaxStorageId
           /\ ReplyFits(app.storage)
           /\ RequestFits(app, app.running.effect, Intent)
           /\ app.running.effect \in Effect
           /\ app.running.pending \in {NoAttempt, Evidence}
<1>1. app \in Session /\ Sound(app) /\ StorageRuns(app)
  BY DEF IInv, Sound, StorageWorks, StorageRuns
<1>2. app.running # NotRunning
  BY <1>1 DEF Sound, Threads, CurrentStorage
<1>. QED
  BY <1>1, <1>2, StorageFields, SessionFields, RunningFields, PersistenceAssumption
  DEF StorageWorks, Intent, Evidence, Sound, RequestIsCurrent, Reserved

(* It has returned something.                                              *)
LEMMA ThreadReturns ==
    ASSUME IInv, StorageWorks, NEW r \in StorageResult, Return(r)
    PROVE  /\ ThreadMoves(app, app')
           /\ app'.storage.evidence = Evidence /\ app'.storage.result = r
           /\ app'.storage.applied = app.storage.applied
<1>. DEFINE t == [app.storage EXCEPT !.result = r]
<1>1. app' = [app EXCEPT !.storage = t]
  BY DEF Return
<1>2. /\ t \in [at: {"Running"}, key: Key, intent: StorageIntent,
                cancelled: BOOLEAN, evidence: {NoAttempt} \cup Attempt,
                applied: BOOLEAN, result: StorageResult]
      /\ t.key = app.storage.key /\ t.intent = app.storage.intent
      /\ t.evidence = Evidence /\ t.result = r /\ t.applied = app.storage.applied
  BY ThreadAtWork DEF Evidence
<1>. HIDE DEF t
<1>3. app \in Session /\ StorageRuns(app)
  BY ThreadAtWork
<1>4. ThreadMoves(app, app') /\ app'.storage = t
  BY <1>1, <1>2, <1>3, ThreadFields
<1>. QED  BY <1>2, <1>4

(* It has published an attempt.                                            *)
LEMMA ThreadPublishes ==
    ASSUME IInv, StorageWorks, NEW a \in Attempt, Publish(a)
    PROVE  /\ ThreadMoves(app, app')
           /\ app'.storage.evidence = a /\ app'.storage.result = NoResult
           /\ app'.storage.applied = app.storage.applied
<1>. DEFINE t == [app.storage EXCEPT !.evidence = a]
<1>1. app' = [app EXCEPT !.storage = t]
  BY DEF Publish
<1>2. /\ t \in [at: {"Running"}, key: Key, intent: StorageIntent,
                cancelled: BOOLEAN, evidence: {NoAttempt} \cup Attempt,
                applied: BOOLEAN, result: StorageResult]
      /\ t.key = app.storage.key /\ t.intent = app.storage.intent
      /\ t.evidence = a /\ t.result = NoResult /\ t.applied = app.storage.applied
  BY ThreadAtWork
<1>. HIDE DEF t
<1>3. app \in Session /\ StorageRuns(app)
  BY ThreadAtWork
<1>4. ThreadMoves(app, app') /\ app'.storage = t
  BY <1>1, <1>2, <1>3, ThreadFields
<1>. QED  BY <1>2, <1>4

(* Its helper has seen the document in place.                              *)
LEMMA ThreadApplies ==
    ASSUME IInv, StorageWorks, app' = [app EXCEPT !.storage.applied = TRUE]
    PROVE  /\ ThreadMoves(app, app')
           /\ app'.storage.evidence = Evidence /\ app'.storage.result = NoResult
           /\ app'.storage.applied
<1>. DEFINE t == [app.storage EXCEPT !.applied = TRUE]
<1>1. app' = [app EXCEPT !.storage = t]
  OBVIOUS
<1>2. /\ t \in [at: {"Running"}, key: Key, intent: StorageIntent,
                cancelled: BOOLEAN, evidence: {NoAttempt} \cup Attempt,
                applied: BOOLEAN, result: StorageResult]
      /\ t.key = app.storage.key /\ t.intent = app.storage.intent
      /\ t.evidence = Evidence /\ t.result = NoResult /\ t.applied
  BY ThreadAtWork DEF Evidence
<1>. HIDE DEF t
<1>3. app \in Session /\ StorageRuns(app)
  BY ThreadAtWork
<1>. DEFINE q == [app EXCEPT !.storage = t]
<1>4. ThreadMoves(app, q) /\ q.storage = t
  BY <1>2, <1>3, ThreadFields
<1>. HIDE DEF q
<1>5. app' = q
  BY <1>1 DEF q
<1>. QED  BY <1>2, <1>4, <1>5

(* What may be returned: what was asked for, and nothing but the truth.    *)
MayReturn(s, r) ==
    /\ r.is = "Saved" => s.applied /\ r.attempt = s.evidence
    /\ r.is = "Failed" /\ r.visibility # "Unchanged" => s.evidence # NoAttempt
    /\ r.is = "Failed" /\ r.visibility = "Unchanged" => ~s.applied
    /\ r.is = "Loaded" => s.intent.op = "Load"
    /\ r.is = "Listed" => s.intent.op = "List"
    /\ r.is = "Loaded" /\ r.copy = "primary" =>
          /\ r.slot \notin outside => disk[r.slot].primary.stamp = r.stamp
          /\ ~r.changed => <<r.slot, [stamp |-> r.stamp, game |-> r.game]>> \in landed

(* The thread returns; its helper may be left behind with its attempt.     *)
LEMMA ReturnSteps ==
    ASSUME IInv, StorageWorks, NEW r \in StorageResult, Return(r), MayReturn(app.storage, r),
           UNCHANGED <<disk, landed, outside>>,
           orphans' = orphans \/ (Evidence # NoAttempt /\ orphans' = orphans \cup {Evidence})
    PROVE  IInv'
<1>. DEFINE q == app'
<1>1. /\ ThreadMoves(app, q)
      /\ q.storage.evidence = Evidence /\ q.storage.result = r
      /\ q.storage.applied = app.storage.applied
  BY ThreadReturns
<1>2. /\ app \in Session /\ Sound(app) /\ StorageRuns(app)
      /\ Evidence \in {NoAttempt} \cup Attempt
      /\ ReplyFits(app.storage) /\ app.running.pending \in {NoAttempt, Evidence}
      /\ Evidence = app.storage.evidence
  BY ThreadAtWork DEF Evidence
<1>3. ReplyFits(q.storage)
  BY <1>1, <1>2 DEF ReplyFits, MayReturn, ThreadMoves
<1>4. Sound(q) /\ (Faulty(q) <=> Faulty(app))
  BY <1>1, <1>2, <1>3, ThreadSound
<1>5. WorldTypeOK' /\ DiskIsKnown' /\ FaultsAreKnown'
  BY <1>2, <1>4 DEF IInv, WorldTypeOK, DiskIsKnown, ForeignDocs, FaultsAreKnown, Return
<1>6. InPlay(app)' = InPlay(app)
  BY <1>1, <1>2 DEF InPlay, ThreadMoves
<1>7. Entries(app)' = Entries(app)
  BY <1>6 DEF Entries
<1>8. CleanIsLanded(app)'
  BY <1>1 DEF IInv, OnDisk, CleanIsLanded, ThreadMoves
<1>9. BoundIsPrimary(app)'
  BY <1>1, <1>2 DEF IInv, OnDisk, BoundIsPrimary, MovedOn, ThreadMoves
<1>10. ReplyIsTrue(app)'
  BY <1>1, <1>2 DEF IInv, OnDisk, ReplyIsTrue, ThreadMoves, MayReturn
<1>11. StampsAreUnique(app)'
  BY <1>1, <1>2, <1>6, <1>7 DEF IInv, OnDisk, StampsAreUnique, ThreadMoves
<1>12. NeverAgain(app)'
  BY <1>6 DEF IInv, OnDisk, NeverAgain
<1>. QED
  BY <1>4, <1>5, <1>8, <1>9, <1>10, <1>11, <1>12 DEF IInv, OnDisk

(* The request is given up before the disk has been touched.               *)
LEMMA StorageGivesUpSteps ==
    ASSUME IInv, StorageGivesUp
    PROVE  IInv'
<1>1. StorageWorks /\ Evidence = NoAttempt /\ UNCHANGED World
  BY DEF StorageGivesUp
<1>2. PICK r \in {FailedWith("Unchanged"), Panicked} : Return(r)
  BY DEF StorageGivesUp
<1>3. r \in StorageResult /\ MayReturn(app.storage, r)
  BY <1>1, ThreadAtWork
  DEF StorageResult, FailedWith, Panicked, MayReturn, ReplyFits, Evidence
<1>. QED  BY <1>1, <1>2, <1>3, ReturnSteps DEF World

(* A listing is returned.                                                  *)
LEMMA StorageListsSteps ==
    ASSUME IInv, StorageLists
    PROVE  IInv'
<1>1. StorageWorks /\ Intent.op = "List" /\ UNCHANGED World /\ Return(Listed)
  BY DEF StorageLists
<1>2. Listed \in StorageResult /\ MayReturn(app.storage, Listed)
  BY <1>1 DEF StorageResult, Listed, MayReturn, Intent
<1>. QED  BY <1>1, <1>2, ReturnSteps DEF World

(* A document is no missing one.                                           *)
LEMMA Documents ==
    ASSUME WorldTypeOK, NEW s \in Slots, NEW copy \in {"primary", "backup"},
           disk[s][copy] # NoDoc
    PROVE  /\ disk[s][copy] \in Doc
           /\ disk[s][copy].stamp \in Nat \ {0} /\ disk[s][copy].game \in Game
           /\ disk[s][copy] = [stamp |-> disk[s][copy].stamp, game |-> disk[s][copy].game]
<1>1. disk[s] \in [primary: File, backup: File]
  BY DEF WorldTypeOK
<1>2. disk[s][copy] \in File
  BY <1>1
<1>. QED  BY <1>2 DEF File, Doc

(* A game is loaded with the limits that were asked for.                   *)
LEMMA RestoredFits ==
    ASSUME WorldTypeOK, DiskIsKnown, NEW s \in Slots, NEW copy \in {"primary", "backup"},
           NEW limits \in Limits, disk[s][copy] # NoDoc
    PROVE  LET r == Restored(s, copy, limits)
           IN  /\ r \in StorageResult /\ Loads(r) /\ r.is = "Loaded"
               /\ r.slot = s /\ r.copy = copy
               /\ copy = "primary" =>
                     /\ disk[s].primary.stamp = r.stamp
                     /\ ~r.changed => <<s, [stamp |-> r.stamp, game |-> r.game]>> \in landed
<1>. DEFINE doc == disk[s][copy]
            game == [doc.game EXCEPT !.limits = limits]
            changed == limits # doc.game.limits
            r == Loaded(s, copy, doc.stamp, game, changed)
<1>1. /\ doc \in Doc /\ doc.stamp \in Nat /\ doc.game \in Game
      /\ doc = [stamp |-> doc.stamp, game |-> doc.game]
  BY Documents
<1>2. game \in Game /\ changed \in BOOLEAN /\ (~changed => game = doc.game)
  BY <1>1 DEF Game
<1>3. Restored(s, copy, limits) = r
  BY DEF Restored
<1>4. copy = "primary" => doc = disk[s].primary /\ <<s, disk[s].primary>> \in landed
  BY DEF DiskIsKnown
<1>. HIDE DEF doc, game, changed
<1>5. /\ r \in [is: {"Loaded"}, slot: Slots, copy: {"primary", "backup"}, stamp: Nat,
                game: Game, changed: BOOLEAN]
      /\ r.is = "Loaded" /\ r.slot = s /\ r.copy = copy /\ r.stamp = doc.stamp
      /\ r.game = game /\ r.changed = changed
  BY <1>1, <1>2 DEF Loaded
<1>. HIDE DEF r
<1>6. r \in StorageResult /\ Loads(r)
  BY <1>5 DEF StorageResult, Loads
<1>7. copy = "primary" =>
         /\ disk[s].primary.stamp = r.stamp
         /\ ~r.changed => <<s, [stamp |-> r.stamp, game |-> r.game]>> \in landed
  BY <1>1, <1>2, <1>4, <1>5
<1>. QED  BY <1>3, <1>5, <1>6, <1>7

(* A save is read.                                                         *)
LEMMA StorageReadsSteps ==
    ASSUME IInv, StorageReads
    PROVE  IInv'
<1>. DEFINE r == Restored(Intent.slot, Intent.copy, Intent.limits)
<1>1. /\ StorageWorks /\ Intent.op = "Load" /\ UNCHANGED World /\ Return(r)
      /\ disk[Intent.slot][Intent.copy] # NoDoc
  BY DEF StorageReads
<1>2. Intent.slot \in Slots /\ Intent.copy \in {"primary", "backup"} /\ Intent.limits \in Limits
  BY <1>1, ThreadAtWork DEF StorageIntent
<1>3. /\ r \in StorageResult /\ r.is = "Loaded"
      /\ r.slot = Intent.slot /\ r.copy = Intent.copy
      /\ Intent.copy = "primary" =>
            /\ disk[Intent.slot].primary.stamp = r.stamp
            /\ ~r.changed => <<Intent.slot, [stamp |-> r.stamp, game |-> r.game]>> \in landed
  BY <1>1, <1>2, RestoredFits DEF IInv
<1>. HIDE DEF r
<1>4. MayReturn(app.storage, r)
  BY <1>1, <1>3 DEF MayReturn, Intent
<1>. QED  BY <1>1, <1>3, <1>4, ReturnSteps DEF World

(* A save is answered, or its answer is lost.                              *)
LEMMA StorageRepliesSteps ==
    ASSUME IInv, StorageReplies
    PROVE  IInv'
<1>1. /\ StorageWorks /\ Evidence # NoAttempt /\ Evidence \in Attempt
      /\ UNCHANGED <<disk, landed, outside>> /\ Evidence = app.storage.evidence
  BY ThreadAtWork DEF StorageReplies, Evidence
<1>2. CASE /\ app.storage.applied
           /\ \E result \in {Saved(Evidence), FailedWith("Replaced"), FailedWith("Unknown"),
                             Panicked} : Return(result)
           /\ UNCHANGED orphans
  <2>1. PICK r \in {Saved(Evidence), FailedWith("Replaced"), FailedWith("Unknown"), Panicked} :
          Return(r)
    BY <1>2
  <2>2. r \in StorageResult /\ MayReturn(app.storage, r)
    BY <1>1, <1>2 DEF StorageResult, Saved, FailedWith, Panicked, MayReturn
  <2>. QED  BY <1>1, <1>2, <2>1, <2>2, ReturnSteps
<1>3. CASE /\ ~app.storage.applied
           /\ Return(FailedWith("Unchanged"))
           /\ UNCHANGED orphans
  <2>1. FailedWith("Unchanged") \in StorageResult /\ MayReturn(app.storage, FailedWith("Unchanged"))
    BY <1>3 DEF StorageResult, FailedWith, MayReturn
  <2>. QED  BY <1>1, <1>3, <2>1, ReturnSteps
<1>4. CASE /\ ~app.storage.applied
           /\ \E result \in {FailedWith("Unknown"), Panicked} : Return(result)
           /\ orphans' \in {orphans, orphans \cup {Evidence}}
  <2>1. PICK r \in {FailedWith("Unknown"), Panicked} : Return(r)
    BY <1>4
  <2>2. r \in StorageResult /\ MayReturn(app.storage, r)
    BY <1>1, <1>4 DEF StorageResult, FailedWith, Panicked, MayReturn
  <2>. QED  BY <1>1, <1>4, <2>1, <2>2, ReturnSteps
<1>. QED  BY <1>2, <1>3, <1>4 DEF StorageReplies

(* What is in place has landed, with a stamp other than 0.                 *)
LEMMA PrimariesLanded ==
    ASSUME WorldTypeOK, DiskIsKnown, NEW s \in Slots, disk[s].primary.stamp # 0
    PROVE  /\ disk[s].primary \in Doc
           /\ <<s, disk[s].primary>> \in landed
<1>1. disk[s].primary # NoDoc /\ disk[s].primary \in File
  BY DEF WorldTypeOK, NoDoc
<1>. QED  BY <1>1 DEF DiskIsKnown, File

(* A new attempt is published under a stamp that is in use nowhere, or an  *)
(* earlier one is published once more.                                     *)
MayPublish(a) ==
    /\ a \in Attempt
    /\ \/ a \in InPlay(app)
       \/ /\ a.doc.stamp = app.lastStorageId
          /\ a.prev # 0 => disk[a.slot].primary.stamp = a.prev
    /\ Intent.op \in SaveOps
    /\ Intent.op = "Reconcile" => a = Intent.pending
    /\ Intent.op \in {"Create", "Replace"} =>
          a.doc.game = Intent.game /\ a.doc.stamp = app.lastStorageId
    /\ Intent.op = "Create" =>
          /\ \A o \in orphans : o.slot # a.slot
          /\ app.retryWrite # NoRetry => app.retryWrite.pending.slot # a.slot

(* The disk is not touched before the evidence is out.                     *)
LEMMA PublishSteps ==
    ASSUME IInv, StorageWorks, Evidence = NoAttempt, UNCHANGED <<World, faults>>,
           NEW a, Publish(a), MayPublish(a)
    PROVE  IInv'
<1>. DEFINE q == app'
<1>0. a \in Attempt
  BY DEF MayPublish
<1>1. /\ ThreadMoves(app, q)
      /\ q.storage.evidence = a /\ q.storage.result = NoResult
      /\ q.storage.applied = app.storage.applied
  BY <1>0, ThreadPublishes
<1>2. /\ app \in Session /\ Sound(app) /\ StorageRuns(app) /\ q \in Session
      /\ ReplyFits(app.storage) /\ app.running.pending \in {NoAttempt, Evidence}
      /\ app.storage.evidence = NoAttempt /\ ~app.storage.applied
      /\ app.storage.result = NoResult /\ app.storage.intent = Intent
      /\ app.storage.key.id = app.lastStorageId
  BY <1>1, ThreadAtWork DEF Evidence, Intent, ReplyFits, ThreadMoves
<1>3. ReplyFits(q.storage)
  BY <1>1, <1>2 DEF ReplyFits, MayPublish, ThreadMoves, NoResult
<1>4. Sound(q) /\ (Faulty(q) <=> Faulty(app))
  BY <1>1, <1>2, <1>3, ThreadSound
<1>5. a # NoAttempt /\ a.slot \in Slots /\ a.doc.stamp \in Nat
  BY <1>0, Attempts
<1>6. InPlay(q) = InPlay(app) \cup {a}
  BY <1>1, <1>2, <1>5 DEF InPlay, ThreadMoves
<1>7. Entries(q) = Entries(app) \cup {Entry(a)}
  BY <1>6 DEF Entries
<1>8. Entry(a)[1] = a.slot /\ Entry(a)[2] = a.doc /\ Entry(a) = <<a.slot, a.doc>>
  BY DEF Entry
<1>9. a \notin InPlay(app) =>
        /\ \A e \in Entries(app) : e[2].stamp # a.doc.stamp
        /\ Entry(a) \notin landed
  <2>1. ASSUME a \notin InPlay(app)
        PROVE  \A e \in Entries(app) : e[2].stamp # a.doc.stamp
    BY <1>2, <2>1 DEF IInv, OnDisk, StampsAreUnique, MayPublish
  <2>. QED  BY <1>8, <2>1 DEF Entries
<1>10. a \in InPlay(app) => Entry(a) \in Entries(app)
  BY DEF Entries
<1>11. CleanIsLanded(q)
  BY <1>1 DEF IInv, OnDisk, CleanIsLanded, ThreadMoves
<1>12. BoundIsPrimary(q)
  BY <1>1, <1>2 DEF IInv, OnDisk, BoundIsPrimary, MovedOn, ThreadMoves
<1>13. ReplyIsTrue(q)
  BY <1>1, <1>2, <1>5 DEF ReplyIsTrue, MayPublish, ThreadMoves, NoResult
<1>14. StampsAreUnique(q)
  <2>1. a.doc.stamp <= app.lastStorageId
    BY <1>5, SessionFields, <1>2 DEF MayPublish, IInv, OnDisk, StampsAreUnique
  <2>2. \A e, f \in Entries(q) : e[2].stamp = f[2].stamp => e = f
    BY <1>7, <1>8, <1>9, <1>10 DEF IInv, OnDisk, StampsAreUnique
  <2>3. \A e \in Entries(q) : e[2].stamp <= q.lastStorageId \/ e[2].stamp > MaxStorageId
    BY <1>1, <1>7, <1>8, <2>1 DEF IInv, OnDisk, StampsAreUnique, ThreadMoves
  <2>4. \A b \in InPlay(q) : b.doc.stamp <= q.lastStorageId
    BY <1>1, <1>6, <2>1 DEF IInv, OnDisk, StampsAreUnique, ThreadMoves
  <2>. QED  BY <1>1, <1>5, <2>2, <2>3, <2>4 DEF StampsAreUnique
<1>15. NeverAgain(q)
  <2>1. SUFFICES ASSUME a \notin InPlay(app)
                 PROVE  /\ a.prev # 0 =>
                              \E e \in landed : e[1] = a.slot /\ e[2].stamp = a.prev
                        /\ Entry(a) \in landed => disk[a.slot].primary.stamp # a.prev
    BY <1>6 DEF IInv, OnDisk, NeverAgain
  <2>2. ASSUME a.prev # 0
        PROVE  \E e \in landed : e[1] = a.slot /\ e[2].stamp = a.prev
    <3>1. disk[a.slot].primary.stamp = a.prev
      BY <2>1, <2>2 DEF MayPublish
    <3>2. <<a.slot, disk[a.slot].primary>> \in landed
      BY <1>5, <2>2, <3>1, PrimariesLanded DEF IInv
    <3>. QED  BY <3>1, <3>2
  <2>. QED  BY <1>9, <2>1, <2>2
<1>16. OnDisk(q)
  BY <1>11, <1>12, <1>13, <1>14, <1>15 DEF OnDisk
<1>. HIDE DEF q
<1>. QED  BY <1>4, <1>16, SessionSteps DEF IInv, WorldTypeOK, FaultsAreKnown, q

(* A new save, the next one of a bound save, or an earlier one again.      *)
LEMMA StoragePublishesSteps ==
    ASSUME IInv, StoragePublishes
    PROVE  IInv'
<1>0. /\ StorageWorks /\ Evidence = NoAttempt /\ UNCHANGED <<World, faults>>
      /\ Intent \in StorageIntent /\ app.storage.key.id = app.lastStorageId
      /\ app.lastStorageId \in Nat \ {0}
      /\ RequestFits(app, app.running.effect, Intent)
      /\ app.running.effect \in Effect /\ app \in Session
  BY ThreadAtWork DEF StoragePublishes
<1>1. ASSUME NEW slot \in Slots, NEW prev \in Nat, Intent.op \in {"Create", "Replace"}
      PROVE  LET a == Prepared(slot, prev)
             IN  /\ a \in Attempt /\ a.slot = slot /\ a.prev = prev
                 /\ a.doc.game = Intent.game /\ a.doc.stamp = app.lastStorageId
  <2>1. Intent.game \in Game
    BY <1>0, <1>1 DEF StorageIntent
  <2>. QED  BY <1>0, <2>1 DEF Prepared, Attempt, Doc
<1>2. CASE /\ Intent.op = "Create" /\ FreeSlots # {}
           /\ Publish(Prepared(CHOOSE s \in FreeSlots : TRUE, 0))
  <2>. DEFINE slot == CHOOSE s \in FreeSlots : TRUE
              a == Prepared(slot, 0)
  <2>1. slot \in FreeSlots
    BY <1>2
  <2>2. slot \in Slots
    BY <2>1 DEF FreeSlots
  <2>. HIDE DEF slot
  <2>3. /\ a \in Attempt /\ a.slot = slot /\ a.prev = 0
        /\ a.doc.game = Intent.game /\ a.doc.stamp = app.lastStorageId
    BY <1>1, <1>2, <2>2
  <2>4. Publish(a)
    BY <1>2 DEF slot
  <2>. HIDE DEF a
  <2>5. MayPublish(a)
    BY <1>2, <2>1, <2>3 DEF MayPublish, FreeSlots, SaveOps
  <2>. QED  BY <1>0, <2>4, <2>5, PublishSteps
<1>3. CASE /\ Intent.op = "Replace"
           /\ disk[Intent.slot].primary.stamp = Intent.expected
           /\ Publish(Prepared(Intent.slot, Intent.expected))
  <2>. DEFINE a == Prepared(Intent.slot, Intent.expected)
  <2>1. Intent.slot \in Slots /\ Intent.expected \in Nat
    BY <1>0, <1>3 DEF StorageIntent
  <2>2. /\ a \in Attempt /\ a.slot = Intent.slot /\ a.prev = Intent.expected
        /\ a.doc.game = Intent.game /\ a.doc.stamp = app.lastStorageId
    BY <1>1, <1>3, <2>1
  <2>. HIDE DEF a
  <2>3. MayPublish(a)
    BY <1>3, <2>2 DEF MayPublish, SaveOps
  <2>. QED  BY <1>0, <1>3, <2>3, PublishSteps DEF a
<1>4. CASE Intent.op = "Reconcile" /\ Publish(Intent.pending)
  <2>1. app.retryWrite # NoRetry /\ Intent.pending = app.retryWrite.pending
    BY <1>0, <1>4 DEF RequestFits
  <2>2. Intent.pending \in Attempt /\ Intent.pending \in InPlay(app)
    BY <1>0, <2>1, RetryFields DEF InPlay
  <2>3. MayPublish(Intent.pending)
    BY <1>4, <2>2 DEF MayPublish, SaveOps
  <2>. QED  BY <1>0, <1>4, <2>3, PublishSteps
<1>. QED  BY <1>2, <1>3, <1>4 DEF StoragePublishes

(* The helper finds its document in place.                                 *)
LEMMA HelperFindsDoneSteps ==
    ASSUME IInv, HelperFindsDone
    PROVE  IInv'
<1>. DEFINE q == app'
<1>0. /\ StorageWorks /\ Evidence # NoAttempt /\ disk[Evidence.slot].primary = Evidence.doc
      /\ UNCHANGED <<World, faults>> /\ Evidence = app.storage.evidence
  BY DEF HelperFindsDone, HelperWorks, Evidence
<1>1. /\ ThreadMoves(app, q)
      /\ q.storage.evidence = Evidence /\ q.storage.result = NoResult
      /\ q.storage.applied
  BY <1>0, ThreadApplies DEF HelperFindsDone
<1>2. /\ app \in Session /\ Sound(app) /\ StorageRuns(app) /\ q \in Session
      /\ ReplyFits(app.storage) /\ app.running.pending \in {NoAttempt, Evidence}
      /\ Evidence \in Attempt
  BY <1>0, <1>1, ThreadAtWork DEF ThreadMoves
<1>3. ReplyFits(q.storage)
  BY <1>0, <1>1, <1>2 DEF ReplyFits, ThreadMoves, NoResult
<1>4. Sound(q) /\ (Faulty(q) <=> Faulty(app))
  BY <1>1, <1>2, <1>3, ThreadSound
<1>5. Entry(Evidence) \in landed
  <2>1. Evidence.slot \in Slots /\ Evidence.doc.stamp # 0
    BY <1>2, Attempts
  <2>. QED  BY <1>0, <2>1, PrimariesLanded DEF IInv, Entry
<1>6. CleanIsLanded(q)
  BY <1>1 DEF IInv, OnDisk, CleanIsLanded, ThreadMoves
<1>7. BoundIsPrimary(q)
  BY <1>0, <1>1 DEF IInv, OnDisk, BoundIsPrimary, MovedOn, ThreadMoves, HelperFindsDone,
                    HelperWorks
<1>8. ReplyIsTrue(q)
  BY <1>0, <1>1, <1>2, <1>5 DEF IInv, OnDisk, ReplyIsTrue, ThreadMoves, NoResult
<1>9. Forgets(app, q)
  BY <1>0, <1>1, <1>2, SessionFields DEF Forgets, InPlay, ThreadMoves
<1>10. OnDisk(q)
  BY <1>2, <1>6, <1>7, <1>8, <1>9, ForgettingKeepsStamps DEF IInv, OnDisk
<1>. HIDE DEF q
<1>. QED  BY <1>0, <1>4, <1>10, SessionSteps DEF IInv, WorldTypeOK, FaultsAreKnown, q

(* The old primary is kept as the backup.                                  *)
LEMMA HelperKeepsBackupSteps ==
    ASSUME IInv, HelperKeepsBackup
    PROVE  IInv'
<1>. DEFINE slot == Evidence.slot
<1>0. /\ StorageWorks /\ Evidence # NoAttempt
      /\ disk' = [disk EXCEPT ![slot].backup = disk[slot].primary]
      /\ UNCHANGED <<app, orphans, landed, outside, faults>>
  BY DEF HelperKeepsBackup, HelperWorks
<1>1. slot \in Slots
  BY <1>0, ThreadAtWork, Attempts
<1>. HIDE DEF slot
<1>2. \A s \in Slots : disk'[s].primary = disk[s].primary
  BY <1>0, <1>1 DEF IInv, WorldTypeOK
<1>3. WorldTypeOK'
  BY <1>0, <1>1 DEF IInv, WorldTypeOK
<1>4. DiskIsKnown' /\ FaultsAreKnown' /\ Sound(app)'
  BY <1>0, <1>2 DEF IInv, DiskIsKnown, ForeignDocs, FaultsAreKnown
<1>5. app \in Session /\ InPlay(app) \subseteq Attempt
  BY InPlayTypes DEF IInv, Sound
<1>6. CleanIsLanded(app)' /\ StampsAreUnique(app)'
  BY <1>0 DEF IInv, OnDisk, CleanIsLanded, StampsAreUnique, Entries, InPlay
<1>7. BoundIsPrimary(app)'
  <2>1. app.binding # Unbound => app.binding.slot \in Slots
    BY <1>5, BindingFields
  <2>. QED  BY <1>0, <1>2, <2>1 DEF IInv, OnDisk, BoundIsPrimary, MovedOn
<1>8. ReplyIsTrue(app)'
  <2>1. ~app.storage.applied /\ app.storage.result.is # "Loaded"
    BY <1>0 DEF HelperKeepsBackup, HelperWorks, StorageWorks, NoResult
  <2>. QED  BY <1>0, <2>1 DEF IInv, OnDisk, ReplyIsTrue
<1>9. NeverAgain(app)'
  <2>1. InPlay(app)' = InPlay(app)
    BY <1>0 DEF InPlay
  <2>. QED  BY <1>0, <1>2, <1>5, <2>1, Attempts DEF IInv, OnDisk, NeverAgain
<1>. QED  BY <1>3, <1>4, <1>6, <1>7, <1>8, <1>9 DEF IInv, OnDisk

----------------------------------------------------------------------------
(***************************************************************************)
(* A document is put in place.                                             *)
(***************************************************************************)
(* It was never there before, and nobody else waits to replace it.         *)
LEMMA LandingIsNew ==
    ASSUME WorldTypeOK, app \in Session, StampsAreUnique(app), NeverAgain(app),
           NEW a \in InPlay(app), disk[a.slot].primary.stamp = a.prev
    PROVE  /\ Entry(a) \notin landed
           /\ \A b \in InPlay(app) : b.slot = a.slot => b.prev # a.doc.stamp
<1>1. InPlay(app) \subseteq Attempt
  BY InPlayTypes
<1>2. Entry(a) \notin landed
  BY DEF NeverAgain
<1>3. ASSUME NEW b \in InPlay(app), b.slot = a.slot, b.prev = a.doc.stamp
      PROVE  FALSE
  <2>1. b.prev # 0
    BY <1>1, <1>3, Attempts
  <2>2. PICK e \in landed : e[1] = b.slot /\ e[2].stamp = b.prev
    BY <2>1 DEF NeverAgain
  <2>3. e \in Entries(app) /\ Entry(a) \in Entries(app) /\ Entry(a)[2] = a.doc
    BY <1>1, <2>2, AttemptEntries DEF Entries
  <2>4. e = Entry(a)
    BY <1>3, <2>2, <2>3 DEF StampsAreUnique
  <2>. QED  BY <1>2, <2>2, <2>4
<1>. QED  BY <1>2, <1>3

(* An attempt a gets through.                                              *)
Lands(a) ==
    /\ disk[a.slot].primary.stamp = a.prev
    /\ \A s \in Slots : disk'[s].primary = IF s = a.slot THEN a.doc ELSE disk[s].primary
    /\ landed' = landed \cup {Entry(a)}
    /\ InPlay(app)' \subseteq InPlay(app)
    /\ app' \in Session
    /\ app'.lastStorageId = app.lastStorageId
    /\ StorageRuns(app') /\ app'.storage.evidence = NoAttempt =>
          StorageRuns(app) /\ app.storage.evidence = NoAttempt

(* Stamps stay unique, nothing lands twice, and the disk stays known.      *)
LEMMA LandingKeeps ==
    ASSUME IInv, NEW a \in InPlay(app), Lands(a)
    PROVE  StampsAreUnique(app)' /\ NeverAgain(app)' /\ DiskIsKnown'
<1>1. /\ app \in Session /\ app.lastStorageId \in Nat /\ MaxStorageId \in Nat
      /\ app.lastStorageId <= MaxStorageId
      /\ WorldTypeOK /\ StampsAreUnique(app) /\ NeverAgain(app)
  BY SessionFields, PersistenceAssumption DEF IInv, Sound, OnDisk, Reserved
<1>2. InPlay(app) \subseteq Attempt /\ a \in Attempt
  BY <1>1, InPlayTypes
<1>3. /\ Entry(a) \notin landed /\ Entry(a) \in Entries(app)
      /\ \A b \in InPlay(app) : b.slot = a.slot => b.prev # a.doc.stamp
  BY <1>1, LandingIsNew DEF Lands, Entries
<1>4. /\ a.slot \in Slots /\ a.doc \in Doc /\ a.doc.stamp \in Nat /\ Entry(a) = <<a.slot, a.doc>>
      /\ Entry(a)[1] = a.slot /\ Entry(a)[2] = a.doc /\ a.doc.stamp <= app.lastStorageId
  BY <1>1, <1>2, Attempts DEF Entry, StampsAreUnique
<1>5. Entries(app)' \subseteq Entries(app)
  BY <1>3 DEF Lands, Entries
<1>6. StampsAreUnique(app)'
  BY <1>1, <1>5 DEF StampsAreUnique, Lands
<1>7. NeverAgain(app)'
  <2>1. SUFFICES ASSUME NEW b \in InPlay(app)'
                 PROVE  /\ b.prev # 0 => \E e \in landed' : e[1] = b.slot /\ e[2].stamp = b.prev
                        /\ Entry(b) \in landed' => disk'[b.slot].primary.stamp # b.prev
    BY DEF NeverAgain
  <2>2. b \in InPlay(app) /\ b \in Attempt /\ b.slot \in Slots /\ Entry(b)[1] = b.slot
    BY <1>2, <2>1, Attempts, AttemptEntries DEF Lands
  <2>3. b.prev # 0 => \E e \in landed' : e[1] = b.slot /\ e[2].stamp = b.prev
    BY <1>1, <2>2 DEF NeverAgain, Lands
  <2>4. CASE b.slot = a.slot
    BY <1>3, <2>2, <2>3, <2>4 DEF Lands
  <2>5. CASE b.slot # a.slot
    <3>1. Entry(b) # Entry(a)
      BY <1>4, <2>2, <2>5
    <3>. QED  BY <1>1, <2>2, <2>3, <2>5, <3>1 DEF NeverAgain, Lands
  <2>. QED  BY <2>4, <2>5
<1>8. \A s \in Slots : disk'[s].primary # NoDoc => <<s, disk'[s].primary>> \in landed'
  BY <1>4 DEF Lands, IInv, DiskIsKnown
<1>9. ForeignDocs' = ForeignDocs
  <2>1. OldDoc.stamp = MaxStorageId + 2 /\ ~(a.doc.stamp > MaxStorageId + 2)
    BY <1>1, <1>4 DEF OldDoc
  <2>. QED  BY <1>4, <2>1 DEF ForeignDocs, Lands
<1>10. DiskIsKnown'
  BY <1>8, <1>9 DEF IInv, DiskIsKnown
<1>. QED  BY <1>6, <1>7, <1>10

(* The helper puts its document in place.                                  *)
LEMMA HelperReplacesSteps ==
    ASSUME IInv, HelperReplaces
    PROVE  IInv' /\ Lands(Evidence) /\ Evidence \in InPlay(app)
<1>. DEFINE q == app'
            a == Evidence
<1>0. /\ StorageWorks /\ a # NoAttempt /\ a = app.storage.evidence
      /\ disk[a.slot].primary.stamp = a.prev
      /\ disk' = [disk EXCEPT ![a.slot].primary = a.doc]
      /\ landed' = landed \cup {<<a.slot, a.doc>>}
      /\ UNCHANGED <<orphans, outside, faults>>
  BY DEF HelperReplaces, HelperWorks, Evidence, Expected
<1>1. /\ ThreadMoves(app, q)
      /\ q.storage.evidence = a /\ q.storage.result = NoResult
      /\ q.storage.applied
  BY <1>0, ThreadApplies DEF HelperReplaces
<1>2. /\ app \in Session /\ Sound(app) /\ StorageRuns(app) /\ q \in Session
      /\ ReplyFits(app.storage) /\ app.running.pending \in {NoAttempt, a}
      /\ a \in Attempt /\ a.slot \in Slots /\ a.doc \in Doc
  BY <1>0, <1>1, ThreadAtWork, Attempts DEF ThreadMoves
<1>. HIDE DEF a
<1>3. ReplyFits(q.storage)
  BY <1>0, <1>1, <1>2 DEF ReplyFits, ThreadMoves, NoResult
<1>4. Sound(q) /\ (Faulty(q) <=> Faulty(app))
  BY <1>1, <1>2, <1>3, ThreadSound
<1>5. WorldTypeOK'
  BY <1>0, <1>2 DEF IInv, WorldTypeOK, File
<1>6. a \in InPlay(app) /\ InPlay(app)' = InPlay(app)
  BY <1>0, <1>1, <1>2 DEF InPlay, ThreadMoves
<1>7. \A s \in Slots : disk'[s].primary = IF s = a.slot THEN a.doc ELSE disk[s].primary
  BY <1>0, <1>2 DEF IInv, WorldTypeOK
<1>8. Lands(a)
  BY <1>0, <1>1, <1>2, <1>6, <1>7 DEF Lands, Entry, ThreadMoves
<1>9. StampsAreUnique(app)' /\ NeverAgain(app)' /\ DiskIsKnown'
  BY <1>6, <1>8, LandingKeeps
<1>10. CleanIsLanded(app)'
  BY <1>0, <1>1 DEF IInv, OnDisk, CleanIsLanded, ThreadMoves
<1>11. BoundIsPrimary(app)'
  <2>1. app.binding # Unbound => app.binding.slot \in Slots
    BY <1>2, BindingFields
  <2>2. ~app.storage.applied
    BY DEF HelperReplaces, HelperWorks
  <2>. QED
    BY <1>0, <1>1, <1>7, <2>1, <2>2 DEF IInv, OnDisk, BoundIsPrimary, MovedOn, ThreadMoves
<1>12. ReplyIsTrue(app)'
  BY <1>0, <1>1, <1>2, <1>7 DEF IInv, OnDisk, ReplyIsTrue, ThreadMoves, NoResult, Entry
<1>13. FaultsAreKnown'
  BY <1>0, <1>4 DEF IInv, FaultsAreKnown
<1>. QED
  BY <1>4, <1>5, <1>6, <1>8, <1>9, <1>10, <1>11, <1>12, <1>13 DEF IInv, OnDisk, a

(* A helper of an earlier request gets through: an earlier try of the      *)
(* write in doubt, or a save of a slot that is now somebody else's.        *)
LEMMA OrphanWritesSteps ==
    ASSUME IInv, NEW a \in orphans, Expected(a), Overwrite(a.slot, a.doc),
           orphans' = orphans \ {a}, UNCHANGED <<app, faults>>,
           outside' = IF app.retryWrite.pending = a THEN outside ELSE outside \cup {a.slot}
    PROVE  IInv' /\ Lands(a) /\ a \in InPlay(app)
<1>1. /\ app \in Session /\ a \in Attempt /\ a \in InPlay(app)
      /\ a.slot \in Slots /\ a.doc \in Doc /\ a # NoAttempt
  BY Attempts DEF IInv, WorldTypeOK, Sound, InPlay
<1>2. /\ disk' = [disk EXCEPT ![a.slot] = [primary |-> a.doc, backup |-> disk[a.slot].primary]]
      /\ landed' = landed \cup {Entry(a)}
      /\ disk[a.slot].primary.stamp = a.prev
  BY DEF Overwrite, Expected, Entry
<1>3. WorldTypeOK'
  BY <1>1, <1>2, Attempts, AttemptEntries DEF IInv, WorldTypeOK, File
<1>4. \A s \in Slots : disk'[s].primary = IF s = a.slot THEN a.doc ELSE disk[s].primary
  BY <1>1, <1>2 DEF IInv, WorldTypeOK
<1>5. InPlay(app)' \subseteq InPlay(app)
  BY DEF InPlay
<1>6. Lands(a)
  BY <1>1, <1>2, <1>4, <1>5 DEF Lands
<1>7. StampsAreUnique(app)' /\ NeverAgain(app)' /\ DiskIsKnown'
  BY <1>1, <1>6, LandingKeeps
<1>8. outside \subseteq outside' /\ (a.slot \notin outside' => app.retryWrite.pending = a)
  OBVIOUS
<1>9. app.retryWrite.pending = a => app.retryWrite # NoRetry /\ app.durability = "Uncertain"
  BY <1>1 DEF IInv, Sound, DoubtIsKept, NoRetry
<1>10. CleanIsLanded(app)'
  BY <1>2 DEF IInv, OnDisk, CleanIsLanded
<1>11. BoundIsPrimary(app)'
  <2>1. app.binding # Unbound => app.binding.slot \in Slots
    BY <1>1, BindingFields
  <2>. QED  BY <1>4, <1>8, <1>9, <2>1 DEF IInv, OnDisk, BoundIsPrimary, MovedOn
<1>12. ReplyIsTrue(app)'
  <2>. DEFINE s == app.storage
  <2>1. SUFFICES ASSUME StorageRuns(app)
                 PROVE  ReplyIsTrue(app)'
    BY DEF ReplyIsTrue
  <2>2. /\ ReplyFits(s) /\ RequestFits(app, app.running.effect, s.intent)
        /\ app.running.effect \in Effect
        /\ s.evidence \in {NoAttempt} \cup Attempt /\ s.result \in StorageResult
    BY <1>1, <2>1, RunningFields, StorageFields
    DEF IInv, Sound, RequestIsCurrent, Threads, CurrentStorage
  <2>3. s.applied => s.evidence \in Attempt /\ s.evidence.slot \in Slots /\ s.intent.op \in SaveOps
    BY <2>2, Attempts DEF ReplyFits
  <2>4. s.applied /\ s.evidence.slot \notin outside' =>
           disk'[s.evidence.slot].primary = s.evidence.doc
    <3>1. SUFFICES ASSUME s.applied, s.evidence.slot \notin outside', s.evidence.slot = a.slot
                   PROVE  s.evidence = a
      BY <1>1, <1>4, <1>8, <2>1, <2>3 DEF IInv, OnDisk, ReplyIsTrue
    <3>2. app.retryWrite.pending = a /\ app.retryWrite # NoRetry
      BY <1>8, <1>9, <3>1
    <3>3. s.intent.op # "Replace"
      BY <2>2, <3>2 DEF RequestFits
    <3>4. s.intent.op # "Create"
      BY <2>1, <2>3, <3>1, <3>2 DEF IInv, OnDisk, ReplyIsTrue, ReplyFits, NoAttempt, Attempt
    <3>. QED  BY <2>2, <2>3, <3>1, <3>2, <3>3, <3>4 DEF RequestFits, ReplyFits, SaveOps
  <2>5. s.result.is = "Loaded" => app.retryWrite.pending # a /\ s.result.slot \in Slots
    <3>1. SUFFICES ASSUME s.result.is = "Loaded"
                   PROVE  app.retryWrite.pending # a /\ s.result.slot \in Slots
      OBVIOUS
    <3>2. s.intent.op = "Load"
      BY <2>2, <3>1 DEF ReplyFits
    <3>3. app.running.effect = "Load" /\ app.durability = "Clean"
      BY <2>2, <3>2 DEF RequestFits, Effect, SaveOps
    <3>. QED  BY <1>1, <1>9, <2>1, <2>2, <3>1, <3>3, ResultFields DEF Loads
  <2>. QED
    BY <1>2, <1>4, <1>8, <2>1, <2>4, <2>5 DEF IInv, OnDisk, ReplyIsTrue
<1>13. Sound(app)' /\ FaultsAreKnown'
  BY DEF IInv, FaultsAreKnown
<1>. QED
  BY <1>1, <1>3, <1>6, <1>7, <1>10, <1>11, <1>12, <1>13 DEF IInv, OnDisk

(* Another process saves: its document is new, and so is its stamp.        *)
LEMMA ForeignSavesSteps ==
    ASSUME IInv, ForeignSaves
    PROVE  /\ IInv'
           /\ \A s \in Slots : disk'[s].primary # disk[s].primary =>
                 <<s, disk'[s].primary>> \notin landed
<1>1. PICK slot \in Slots :
        /\ disk[slot].primary # NoDoc
        /\ Overwrite(slot, [stamp |-> OldDoc.stamp + 1 + Cardinality(ForeignDocs),
                            game |-> [disk[slot].primary.game EXCEPT !.turns = Append(@, 0)]])
        /\ outside' = outside \cup {slot}
  BY DEF ForeignSaves
<1>. DEFINE n == OldDoc.stamp + 1 + Cardinality(ForeignDocs)
            game == [disk[slot].primary.game EXCEPT !.turns = Append(@, 0)]
            doc == [stamp |-> n, game |-> game]
            e == <<slot, doc>>
<1>2. UNCHANGED <<app, orphans, faults>>
  BY DEF ForeignSaves
<1>3. /\ OldDoc.stamp = MaxStorageId + 2 /\ MaxStorageId \in Nat
      /\ IsFiniteSet(ForeignDocs) /\ Cardinality(ForeignDocs) \in Nat
  BY PersistenceAssumption, FS_CardinalityType DEF OldDoc, IInv, DiskIsKnown
<1>4. n \in Nat /\ n # 0 /\ n > MaxStorageId + 2
      /\ n = OldDoc.stamp + Cardinality(ForeignDocs) + 1
  BY <1>3
<1>5. game \in Game
  <2>1. disk[slot].primary.game \in Game
    BY <1>1 DEF IInv, WorldTypeOK, File, Doc
  <2>2. disk[slot].primary.game.turns \in Seq(Nat)
    BY <2>1 DEF Game
  <2>3. Append(disk[slot].primary.game.turns, 0) \in Seq(Nat)
    BY <2>2
  <2>. QED  BY <2>1, <2>3 DEF Game
<1>6. doc \in Doc /\ e \in Slots \X Doc /\ e[1] = slot /\ e[2] = doc /\ doc.stamp = n
  BY <1>4, <1>5 DEF Doc
<1>7. /\ disk' = [disk EXCEPT ![slot] = [primary |-> doc, backup |-> disk[slot].primary]]
      /\ landed' = landed \cup {e}
  BY <1>1 DEF Overwrite
<1>. HIDE DEF doc, game
<1>8. WorldTypeOK'
  BY <1>1, <1>2, <1>6, <1>7 DEF IInv, WorldTypeOK, File
<1>9. \A s \in Slots : disk'[s].primary = IF s = slot THEN doc ELSE disk[s].primary
  BY <1>1, <1>7 DEF IInv, WorldTypeOK
<1>10. /\ app \in Session /\ app.lastStorageId \in Nat /\ app.lastStorageId <= MaxStorageId
       /\ InPlay(app) \subseteq Attempt /\ InPlay(app)' = InPlay(app)
       /\ Entries(app)' = Entries(app) \cup {e}
       /\ \A f \in Entries(app) : f[2].stamp \in Nat
  <2>1. app \in Session /\ app.lastStorageId \in Nat /\ app.lastStorageId <= MaxStorageId
    BY SessionFields DEF IInv, Sound, Reserved
  <2>2. InPlay(app) \subseteq Attempt /\ \A f \in Entries(app) : f[2].stamp \in Nat
    BY <2>1, InPlayTypes DEF IInv
  <2>3. InPlay(app)' = InPlay(app)
    BY <1>2 DEF InPlay
  <2>4. Entries(app)' = Entries(app) \cup {e}
    BY <1>7, <2>3 DEF Entries
  <2>. QED  BY <2>1, <2>2, <2>3, <2>4
<1>11. \A b \in InPlay(app) : Entry(b) # e /\ b.doc.stamp # n /\ b.slot \in Slots
  <2>1. SUFFICES ASSUME NEW b \in InPlay(app)
                 PROVE  Entry(b) # e /\ b.doc.stamp # n /\ b.slot \in Slots
    OBVIOUS
  <2>2. b.slot \in Slots /\ Entry(b)[2] = b.doc /\ b.doc.stamp \in Nat
    BY <1>10, Attempts, AttemptEntries
  <2>3. b.doc.stamp <= app.lastStorageId
    BY <2>1 DEF IInv, OnDisk, StampsAreUnique
  <2>4. b.doc.stamp # n
    BY <1>3, <1>4, <1>10, <2>2, <2>3
  <2>. QED  BY <1>6, <2>2, <2>4
<1>12. \A f \in landed : f[2].stamp # n
  <2>1. SUFFICES ASSUME NEW f \in landed, f[2].stamp = n
                 PROVE  FALSE
    OBVIOUS
  <2>2. f \in ForeignDocs
    BY <1>3, <1>4, <2>1 DEF ForeignDocs
  <2>. QED  BY <1>3, <1>4, <2>1, <2>2 DEF IInv, DiskIsKnown
<1>13. \A f \in Entries(app) : f[2].stamp # n
  BY <1>10, <1>11, <1>12, AttemptEntries DEF Entries
<1>14. StampsAreUnique(app)'
  <2>1. \A f, g \in Entries(app)' : f[2].stamp = g[2].stamp => f = g
    BY <1>6, <1>10, <1>13 DEF IInv, OnDisk, StampsAreUnique
  <2>2. \A f \in Entries(app)' : f[2].stamp <= app.lastStorageId \/ f[2].stamp > MaxStorageId
    BY <1>3, <1>4, <1>6, <1>10 DEF IInv, OnDisk, StampsAreUnique
  <2>3. StorageRuns(app) /\ app.storage.evidence = NoAttempt =>
          \A f \in Entries(app)' : f[2].stamp # app.lastStorageId
    BY <1>3, <1>4, <1>6, <1>10 DEF IInv, OnDisk, StampsAreUnique
  <2>4. \A a \in InPlay(app)' : a.doc.stamp <= app.lastStorageId
    BY <1>10 DEF IInv, OnDisk, StampsAreUnique
  <2>. QED  BY <1>2, <2>1, <2>2, <2>3, <2>4 DEF StampsAreUnique
<1>15. NeverAgain(app)'
  <2>1. SUFFICES ASSUME NEW b \in InPlay(app)
                 PROVE  /\ b.prev # 0 => \E f \in landed' : f[1] = b.slot /\ f[2].stamp = b.prev
                        /\ Entry(b) \in landed' => disk'[b.slot].primary.stamp # b.prev
    BY <1>10 DEF NeverAgain
  <2>2. b.prev # 0 => \E f \in landed : f[1] = b.slot /\ f[2].stamp = b.prev
    BY DEF IInv, OnDisk, NeverAgain
  <2>3. b.prev # n
    BY <1>4, <1>12, <2>2
  <2>4. Entry(b) \in landed' => Entry(b) \in landed
    BY <1>7, <1>11
  <2>. QED  BY <1>6, <1>7, <1>9, <1>11, <2>2, <2>3, <2>4 DEF IInv, OnDisk, NeverAgain
<1>16. CleanIsLanded(app)'
  BY <1>2, <1>7 DEF IInv, OnDisk, CleanIsLanded
<1>17. BoundIsPrimary(app)'
  <2>1. app.binding # Unbound => app.binding.slot \in Slots
    BY <1>10, BindingFields
  <2>. QED  BY <1>1, <1>2, <1>9, <2>1 DEF IInv, OnDisk, BoundIsPrimary, MovedOn
<1>18. ReplyIsTrue(app)'
  <2>1. SUFFICES ASSUME StorageRuns(app)
                 PROVE  ReplyIsTrue(app)'
    BY <1>2 DEF ReplyIsTrue, StorageRuns
  <2>2. /\ app.storage.applied => app.storage.evidence.slot \in Slots
        /\ app.storage.result.is = "Loaded" => app.storage.result.slot \in Slots
    BY <1>10, <2>1, StorageFields, ResultFields, Attempts
    DEF IInv, Sound, RequestIsCurrent, ReplyFits, Loads
  <2>. QED  BY <1>1, <1>2, <1>7, <1>9, <2>1, <2>2 DEF IInv, OnDisk, ReplyIsTrue
<1>19. DiskIsKnown'
  <2>1. \A s \in Slots : disk'[s].primary # NoDoc => <<s, disk'[s].primary>> \in landed'
    BY <1>7, <1>9 DEF IInv, DiskIsKnown
  <2>2. ForeignDocs' = ForeignDocs \cup {e}
    BY <1>3, <1>4, <1>6, <1>7 DEF ForeignDocs
  <2>3. e \notin ForeignDocs
    BY <1>6, <1>12 DEF ForeignDocs
  <2>4. /\ IsFiniteSet(ForeignDocs')
        /\ Cardinality(ForeignDocs') = Cardinality(ForeignDocs) + 1
    BY <1>3, <2>2, <2>3, FS_AddElement
  <2>5. \A f \in ForeignDocs : f[2].stamp \in Nat
    BY <1>10 DEF ForeignDocs, Entries
  <2>6. \A f \in ForeignDocs' : f[2].stamp <= OldDoc.stamp + Cardinality(ForeignDocs')
    BY <1>3, <1>4, <1>6, <2>2, <2>4, <2>5 DEF IInv, DiskIsKnown
  <2>. QED  BY <2>1, <2>4, <2>6 DEF DiskIsKnown, OldDoc, OldGame
<1>20. Sound(app)' /\ FaultsAreKnown'
  BY <1>2 DEF IInv, FaultsAreKnown
<1>21. ASSUME NEW s \in Slots, disk'[s].primary # disk[s].primary
       PROVE  <<s, disk'[s].primary>> \notin landed
  <2>1. disk'[s].primary = doc
    BY <1>9, <1>21
  <2>. QED  BY <1>6, <1>12, <2>1
<1>. QED
  BY <1>8, <1>14, <1>15, <1>16, <1>17, <1>18, <1>19, <1>20, <1>21 DEF IInv, OnDisk

(* The save an earlier session left behind.                                *)
LEMMA OldDiskIsKnown ==
    ASSUME disk \in {EmptyDisk, OldDisk},
           landed = {<<s, disk[s].primary>> : s \in {t \in Slots : disk[t].primary # NoDoc}}
    PROVE  /\ disk \in [Slots -> [primary: File, backup: File]]
           /\ landed \in SUBSET (Slots \X Doc)
           /\ \A e \in landed : e = <<OldSlot, OldDoc>>
           /\ ForeignDocs = {} /\ DiskIsKnown
           /\ disk = OldDisk =>
                 /\ OldSlot \in Slots
                 /\ disk[OldSlot].primary # NoDoc /\ disk[OldSlot].backup # NoDoc
<1>1. OldSlot \in Slots /\ MaxStorageId \in Nat /\ DefaultLimits \in Limits
  BY SessionAssumption, PersistenceAssumption, ControllerAssumption DEF OldSlot
<1>. HIDE DEF OldSlot
<1>2. OldDoc \in Doc /\ OldBackup \in Doc
  <2>1. <<0>> \in Seq(Nat) /\ <<>> \in Seq(Nat)
    OBVIOUS
  <2>. QED  BY <1>1, <2>1 DEF OldDoc, OldBackup, OldGame, Doc, Game, Outline
<1>3. OldDoc # NoDoc /\ OldBackup # NoDoc /\ OldDoc.stamp = MaxStorageId + 2
  BY <1>1 DEF OldDoc, OldBackup, NoDoc
<1>. HIDE DEF OldDoc, OldBackup
<1>4. disk \in [Slots -> [primary: File, backup: File]]
  BY <1>1, <1>2 DEF EmptyDisk, OldDisk, EmptyFile, File
<1>5. \A s \in Slots : disk[s].primary # NoDoc => s = OldSlot /\ disk[s].primary = OldDoc
  BY <1>1 DEF EmptyDisk, OldDisk, EmptyFile
<1>6. /\ landed \in SUBSET (Slots \X Doc)
      /\ \A e \in landed : e = <<OldSlot, OldDoc>>
  BY <1>1, <1>2, <1>5
<1>7. ForeignDocs = {}
  BY <1>1, <1>3, <1>6 DEF ForeignDocs
<1>8. DiskIsKnown
  BY <1>7, FS_EmptySet DEF DiskIsKnown
<1>9. disk = OldDisk =>
         disk[OldSlot].primary # NoDoc /\ disk[OldSlot].backup # NoDoc
  BY <1>1, <1>3 DEF OldDisk, EmptyDisk, EmptyFile
<1>. QED  BY <1>1, <1>4, <1>6, <1>7, <1>8, <1>9

(* Nothing is in play, and only the old save has landed.                   *)
LEMMA FirstStamps ==
    ASSUME orphans = {}, \A e \in landed : e = <<OldSlot, OldDoc>>,
           NEW p, ~StorageRuns(p), p.retryWrite = NoRetry
    PROVE  StampsAreUnique(p) /\ NeverAgain(p) /\ ReplyIsTrue(p)
<1>1. InPlay(p) = {} /\ Entries(p) = landed
  BY DEF InPlay, Entries
<1>2. OldDoc.stamp > MaxStorageId
  BY PersistenceAssumption DEF OldDoc
<1>. QED  BY <1>1, <1>2 DEF StampsAreUnique, NeverAgain, ReplyIsTrue

(* A story is restored before the first turn.                              *)
LEMMA StartWithSteps ==
    ASSUME disk = OldDisk, orphans = {}, outside = {},
           landed = {<<s, disk[s].primary>> : s \in {t \in Slots : disk[t].primary # NoDoc}},
           NEW copy \in {"primary", "backup"}, NEW limits \in Limits, StartWith(copy, limits)
    PROVE  IInv
<1>. DEFINE r == Restored(OldSlot, copy, limits)
            u == Installed(NewSession, r)
<1>1. PICK spawned \in BOOLEAN :
        /\ app = InstallLoaded(NewSession, r, spawned)
        /\ faults = (InstallLoaded(NewSession, r, spawned) # InstallLoaded(NewSession, r, TRUE))
  BY DEF StartWith, AdmitLoaded
<1>2. /\ WorldTypeOK /\ DiskIsKnown /\ OldSlot \in Slots
      /\ \A e \in landed : e = <<OldSlot, OldDoc>>
      /\ disk[OldSlot][copy] # NoDoc
  BY <1>1, OldDiskIsKnown DEF WorldTypeOK
<1>3. /\ Loads(r) /\ r.slot = OldSlot /\ r.copy = copy
      /\ copy = "primary" =>
            /\ disk[OldSlot].primary.stamp = r.stamp
            /\ ~r.changed => <<OldSlot, [stamp |-> r.stamp, game |-> r.game]>> \in landed
  BY <1>2, RestoredFits
<1>. HIDE DEF r
<1>9. /\ Sound(NewSession) /\ MayInstall(NewSession)
      /\ ~Faulty(NewSession) /\ ~StorageRuns(NewSession)
  BY NewSessionSound, SessionAssumption
<1>4. /\ Sound(u) /\ GameOf(u.ctl) = r.game
      /\ u.storage = NewSession.storage
      /\ u.binding = IF r.copy = "backup" THEN Unbound ELSE Bound(r.slot, r.stamp)
      /\ u.retryWrite = NoRetry
      /\ u.durability = IF IsAsSaved(r) THEN "Clean" ELSE "Dirty"
  BY <1>3, <1>9, InstalledSound
<1>5. /\ Sound(app)
      /\ Faulty(app) => Faulty(NewSession)
      /\ app = u \/ Quiet(u, app)
  BY <1>1, <1>3, <1>9, InstallLoadedSound
<1>. HIDE DEF u
<1>6. ~StorageRuns(u)
  BY <1>4, <1>9 DEF StorageRuns
<1>7. OnDisk(u)
  <2>1. StampsAreUnique(u) /\ NeverAgain(u) /\ ReplyIsTrue(u)
    BY <1>2, <1>4, <1>6, FirstStamps
  <2>2. /\ Bound(r.slot, r.stamp) # Unbound
        /\ Bound(r.slot, r.stamp).slot = r.slot /\ Bound(r.slot, r.stamp).stamp = r.stamp
    BY <1>3, Bindings DEF Loads
  <2>3. CleanIsLanded(u)
    BY <1>3, <1>4, <2>2 DEF CleanIsLanded, IsAsSaved
  <2>4. BoundIsPrimary(u)
    BY <1>3, <1>4, <2>2 DEF BoundIsPrimary
  <2>. QED  BY <2>1, <2>3, <2>4 DEF OnDisk
<1>8. OnDisk(app)
  BY <1>2, <1>4, <1>5, <1>7, QuietKeepsDisk DEF Sound
<1>. QED  BY <1>2, <1>5, <1>8, <1>9 DEF IInv, FaultsAreKnown

(* Every way to start up.                                                  *)
LEMMA InitSteps == Init => IInv
<1>. SUFFICES ASSUME Init PROVE IInv
  OBVIOUS
<1>0. /\ orphans = {} /\ outside = {}
      /\ landed = {<<s, disk[s].primary>> : s \in {t \in Slots : disk[t].primary # NoDoc}}
  BY DEF Init
<1>4. MaxCounter >= 1 /\ MaxStorageId >= 2
  BY SessionAssumption
<1>1. CASE disk = EmptyDisk /\ app = NewSession /\ faults = FALSE
  <2>1. /\ WorldTypeOK /\ DiskIsKnown
        /\ \A e \in landed : e = <<OldSlot, OldDoc>>
    BY <1>0, <1>1, OldDiskIsKnown DEF WorldTypeOK
  <2>2. StampsAreUnique(app) /\ NeverAgain(app) /\ ReplyIsTrue(app)
    BY <1>0, <1>1, <1>4, <2>1, NewSessionSound, FirstStamps
  <2>3. CleanIsLanded(app) /\ BoundIsPrimary(app)
    BY <1>1, <1>4, NewSessionSound DEF CleanIsLanded, BoundIsPrimary
  <2>. QED  BY <1>1, <1>4, <2>1, <2>2, <2>3, NewSessionSound DEF IInv, OnDisk, FaultsAreKnown
<1>2. CASE disk = OldDisk /\ \E limits \in Limits : StartWith("primary", limits)
  BY <1>0, <1>2, StartWithSteps
<1>3. CASE disk = OldDisk /\ StartWith("backup", DefaultLimits)
  BY <1>0, <1>3, StartWithSteps, ControllerAssumption
<1>. QED  BY <1>1, <1>2, <1>3 DEF Init

----------------------------------------------------------------------------
(***************************************************************************)
(* The theorems.                                                           *)
(***************************************************************************)
(* The steps of the storage thread and its helper.                         *)
LEMMA StorageNextSteps ==
    ASSUME IInv, Storage_Next
    PROVE  IInv'
BY StorageGivesUpSteps, StorageReadsSteps, StorageListsSteps, StoragePublishesSteps,
   HelperFindsDoneSteps, HelperKeepsBackupSteps, HelperReplacesSteps, StorageRepliesSteps
DEF Storage_Next

(* Nothing moves.                                                          *)
LEMMA StutterSteps ==
    ASSUME IInv, UNCHANGED vars
    PROVE  IInv'
<1>1. WorldTypeOK' /\ DiskIsKnown' /\ FaultsAreKnown' /\ Sound(app)'
  BY DEF vars, IInv, WorldTypeOK, DiskIsKnown, ForeignDocs, FaultsAreKnown
<1>2. OnDisk(app)'
  BY DEF vars, IInv, OnDisk, CleanIsLanded, BoundIsPrimary, ReplyIsTrue, StampsAreUnique,
         NeverAgain, Entries, InPlay
<1>. QED  BY <1>1, <1>2 DEF IInv

(* Whatever the player, the threads, their helpers and other processes do. *)
LEMMA NextSteps ==
    ASSUME IInv, [Next]_vars
    PROVE  IInv'
<1>1. CASE PlayerStartsWork
  BY <1>1, PlayerStartsWorkSteps
<1>2. CASE PlayerReplacesOutline \/ PlayerSelects \/ PlayerRewinds
  BY <1>2, PlayerEditsSteps
<1>3. CASE PlayerSaves \/ PlayerLists \/ PlayerLoads
  BY <1>3, PlayerStoresSteps
<1>4. CASE PlayerCancels
  BY <1>4, PlayerCancelsSteps
<1>5. CASE PlayerQuits
  BY <1>5, PlayerQuitsSteps
<1>6. CASE Poll
  BY <1>6, PollSteps
<1>7. CASE OutputDrained
  BY <1>7, OutputDrainedSteps
<1>8. CASE GenerationFinishes
  BY <1>8, GenerationFinishesSteps
<1>9. CASE Storage_Next
  BY <1>9, StorageNextSteps
<1>10. CASE OrphanWrites
  BY <1>10, OrphanWritesSteps DEF OrphanWrites
<1>11. CASE ForeignSaves
  BY <1>11, ForeignSavesSteps
<1>12. CASE UNCHANGED vars
  BY <1>12, StutterSteps
<1>. QED
  BY <1>1, <1>2, <1>3, <1>4, <1>5, <1>6, <1>7, <1>8, <1>9, <1>10, <1>11, <1>12
  DEF Next

(* The inductive invariant, for every number of slots, every bound of the  *)
(* counters and every way to start.                                        *)
THEOREM Invariance == Spec => []IInv
<1>1. IInv /\ [Next]_vars => IInv'
  BY NextSteps
<1>. QED  BY <1>1, InitSteps, PTL DEF Spec

(* Every state is well-formed.                                             *)
THEOREM Typing == Spec => []TypeOK
<1>1. IInv => TypeOK
  BY DEF IInv, WorldTypeOK, Sound, TypeOK
<1>. QED  BY <1>1, Invariance, PTL

(* The story does not move on before it is saved, and the opening turn     *)
(* stays owed until it can be taken.                                       *)
THEOREM StoryWaitsForItsSave == Spec => []WorkOnSavedStory
<1>1. IInv => WorkOnSavedStory
  BY SessionFields DEF IInv, Sound, WorkFollowsSave, WorkOnSavedStory, CanTakeTurn, HasGame
<1>. QED  BY <1>1, Invariance, PTL

(* No thread is disowned and nobody waits for one that does not exist.     *)
THEOREM NoThreadIsDisowned == Spec => []ThreadsAreAwaited
<1>1. IInv => ThreadsAreAwaited
  BY DEF IInv, Sound, Threads, StorageRuns, ThreadsAreAwaited
<1>. QED  BY <1>1, Invariance, PTL

(* No expect() on a reservation fails, an id is left for the final save,   *)
(* and a fault is never made up.                                           *)
THEOREM ReservationsSuffice == Spec => []ReservationsHold
<1>1. IInv => ReservationsHold
  BY DEF IInv, Sound, Reserved, FaultsAreKnown, Faulty, ReservationsHold
<1>. QED  BY <1>1, Invariance, PTL

(* The bytes kept for another try are those of the story as it is.         *)
THEOREM RetriesWriteTheStory == Spec => []RetryHoldsStory
<1>1. IInv => RetryHoldsStory
  BY DEF IInv, Sound, DoubtIsKept, RetryHoldsStory
<1>. QED  BY <1>1, Invariance, PTL

(* A story called clean was put in place, to the letter.                   *)
THEOREM CleanIsNeverAGuess == Spec => []CleanMeansSaved
<1>1. IInv => CleanMeansSaved
  BY DEF IInv, OnDisk, CleanIsLanded, CleanMeansSaved, SavedGame
<1>. QED  BY <1>1, Invariance, PTL

(* The next save finds the stamp it expects, unless somebody else saved.   *)
THEOREM NoConflictWithItself == Spec => []BoundSaveIsOnDisk
<1>1. IInv => BoundSaveIsOnDisk
  BY DEF IInv, Sound, Threads, CurrentStorage, StorageIdle, OnDisk, BoundIsPrimary, MovedOn,
         BoundSaveIsOnDisk
<1>. QED  BY <1>1, Invariance, PTL

(* A zero exit code means that the story is on disk, and no thread is left *)
(* behind when the output is drained.                                      *)
THEOREM ExitTellsTheTruth == Spec => []ExitIsHonest
<1>1. IInv => ExitIsHonest
  <2>1. SUFFICES ASSUME IInv, app.shutdown \in {"DrainingOutput", "Closed"}
                 PROVE  ExitIsHonest
    BY DEF ExitIsHonest
  <2>2. app.closing /\ app.ctl.op.phase = "Closed" /\ app.storage.at = "Closed"
    BY <2>1 DEF IInv, Sound, ShutdownInOrder
  <2>3. app.worker.at # "Running"
    BY <2>1, <2>2 DEF IInv, Sound, Threads, Pending, PendingPhase
  <2>4. HasGame(app.ctl) => app.closingWriteSatisfied \/ app.finalAttempted
    BY <2>1, <2>2 DEF IInv, Sound, ShutdownInOrder
  <2>5. ~ExitFailed(app) /\ HasGame(app.ctl) => SavedGame \in landed
    BY <2>1 DEF IInv, OnDisk, CleanIsLanded, ExitFailed, SavedGame
  <2>. QED  BY <2>2, <2>3, <2>4, <2>5 DEF ExitIsHonest
<1>. QED  BY <1>1, Invariance, PTL

(* What is put in place was never there before.                            *)
LEMMA LandingChangesOne ==
    ASSUME IInv, NEW a \in InPlay(app), Lands(a), NEW s \in Slots,
           disk'[s].primary # disk[s].primary
    PROVE  <<s, disk'[s].primary>> \notin landed
<1>1. s = a.slot /\ disk'[s].primary = a.doc
  BY DEF Lands
<1>2. Entry(a) \notin landed
  BY LandingIsNew DEF Lands, IInv, OnDisk, Sound
<1>. QED  BY <1>1, <1>2 DEF Entry

(* A document is put in place at most once, however often it is retried    *)
(* and however late its helper is: a save never goes back.                 *)
THEOREM NoSaveGoesBack == Spec => LandsOnce
<1>1. ASSUME IInv, [Next]_vars, NEW s \in Slots, disk'[s].primary # disk[s].primary
      PROVE  <<s, disk'[s].primary>> \notin landed
  <2>1. CASE HelperReplaces
    BY <1>1, <2>1, HelperReplacesSteps, LandingChangesOne
  <2>2. CASE OrphanWrites
    <3>1. PICK a \in orphans : Lands(a) /\ a \in InPlay(app)
      BY <1>1, <2>2, OrphanWritesSteps DEF OrphanWrites
    <3>. QED  BY <1>1, <3>1, LandingChangesOne
  <2>3. CASE ForeignSaves
    BY <1>1, <2>3, ForeignSavesSteps
  <2>4. CASE HelperKeepsBackup
    <3>1. Evidence.slot \in Slots
      BY <1>1, <2>4, ThreadAtWork, Attempts DEF HelperKeepsBackup, HelperWorks
    <3>2. disk'[s].primary = disk[s].primary
      BY <1>1, <2>4, <3>1 DEF HelperKeepsBackup, IInv, WorldTypeOK
    <3>. QED  BY <1>1, <3>2
  <2>5. disk' = disk \/ HelperReplaces \/ OrphanWrites \/ ForeignSaves \/ HelperKeepsBackup
    BY <1>1
    DEF Next, Storage_Next, vars, World, Starting, PlayerStartsWork, PlayerReplacesOutline,
        PlayerSelects, PlayerRewinds, PlayerSaves, PlayerLists, PlayerLoads, PlayerCancels,
        PlayerQuits, Poll, OutputDrained, GenerationFinishes, StorageGivesUp, StorageReads,
        StorageLists, StoragePublishes, HelperFindsDone, StorageReplies
  <2>. QED  BY <1>1, <2>1, <2>2, <2>3, <2>4, <2>5
<1>2. IInv /\ [Next]_vars =>
        [\A s \in Slots : disk'[s].primary # disk[s].primary =>
              <<s, disk'[s].primary>> \notin landed]_vars
  BY <1>1
<1>. QED  BY <1>2, Invariance, PTL DEF Spec, LandsOnce

----------------------------------------------------------------------------
(***************************************************************************)
(* The two modules speak of the same controller.                           *)
(***************************************************************************)
(* What the protocol asks of a controller.                                 *)
LEMMA SameChecks ==
    ASSUME NEW c
    PROVE  /\ Protocol!Pending(c) = Pending(c)
           /\ Protocol!CanSubmitBrief(c) = CanSubmitBrief(c)
           /\ Protocol!CanReplaceOutline(c) = CanReplaceOutline(c)
           /\ Protocol!CanAcceptOutline(c) = CanAcceptOutline(c)
           /\ Protocol!CanSelect(c) = CanSelect(c)
           /\ Protocol!CanRetry(c) = CanRetry(c)
           /\ Protocol!CanReplaceGame(c) = CanReplaceGame(c)
           /\ \A d : Protocol!CanTakeTurn(c, d) = CanTakeTurn(c, d)
           /\ \A n : Protocol!CanRewind(c, n) = CanRewind(c, n)
BY DEF Protocol!Pending, Protocol!PendingPhase, Protocol!CanSubmitBrief,
       Protocol!CanReplaceOutline, Protocol!CanAcceptOutline, Protocol!CanSelect,
       Protocol!CanRetry, Protocol!CanReplaceGame, Protocol!CanTakeTurn, Protocol!CanRewind,
       Protocol!CanStart, Protocol!Ready, Protocol!HasNextRevision, Protocol!HasGame,
       Protocol!GameOf,
       Pending, PendingPhase, CanSubmitBrief, CanReplaceOutline, CanAcceptOutline, CanSelect,
       CanRetry, CanReplaceGame, CanTakeTurn, CanRewind, CanStart, Ready, HasNextRevision,
       HasGame, GameOf

(* What it does to one.                                                    *)
LEMMA SameIntents ==
    ASSUME NEW c
    PROVE  /\ Protocol!SubmitBrief(c) = SubmitBrief(c)
           /\ Protocol!ReplaceOutline(c) = ReplaceOutline(c)
           /\ Protocol!AcceptOutline(c) = AcceptOutline(c)
           /\ Protocol!Select(c) = Select(c)
           /\ Protocol!Retry(c) = Retry(c)
           /\ Protocol!Cancel(c) = Cancel(c)
           /\ Protocol!Quit(c) = Quit(c)
           /\ \A d : Protocol!TakeTurn(c, d) = TakeTurn(c, d)
           /\ \A n : Protocol!Rewind(c, n) = Rewind(c, n)
           /\ \A g : Protocol!ReplaceGame(c, g) = ReplaceGame(c, g)
           /\ \A k : Protocol!DispatchFailed(c, k) = DispatchFailed(c, k)
BY DEF Protocol!SubmitBrief, Protocol!ReplaceOutline, Protocol!AcceptOutline, Protocol!Select,
       Protocol!Retry, Protocol!Cancel, Protocol!Quit, Protocol!TakeTurn, Protocol!Rewind,
       Protocol!ReplaceGame, Protocol!DispatchFailed, Protocol!Start, Protocol!NextKey,
       Protocol!Running, Protocol!Stopping, Protocol!Failed, Protocol!Idle, Protocol!Playing,
       Protocol!Reviewing, Protocol!NewGame, Protocol!GameOf, Protocol!DropTurns,
       Protocol!Active, Protocol!Pending, Protocol!PendingPhase,
       SubmitBrief, ReplaceOutline, AcceptOutline, Select, Retry, Cancel, Quit, TakeTurn,
       Rewind, ReplaceGame, DispatchFailed, Start, NextKey, Running, Stopping, Failed, Idle,
       Playing, Reviewing, NewGame, GameOf, DropTurns, Active, Pending, PendingPhase

(* What it makes of an answer.                                             *)
LEMMA SameAnswers ==
    ASSUME NEW c, NEW key
    PROVE  /\ Protocol!WorkerFailed(c, key) = WorkerFailed(c, key)
           /\ \A o : Protocol!Complete(c, key, o) = Complete(c, key, o)
           /\ \A o : Protocol!Commits(c, key, o) = Commits(c, key, o)
           /\ Protocol!Failure = Failure
           /\ \A work : Protocol!Success(key, work) = Success(key, work)
BY DEF Protocol!WorkerFailed, Protocol!Complete, Protocol!Commits, Protocol!Failure,
       Protocol!Success, Protocol!Produced, Protocol!Accepts, Protocol!Active,
       Protocol!Pending, Protocol!PendingPhase, Protocol!Commit, Protocol!Stopped,
       Protocol!Settle, Protocol!Idle, Protocol!Failed, Protocol!Reviewing, Protocol!Casting,
       Protocol!Playing,
       WorkerFailed, Complete, Commits, Failure, Success, Produced, Accepts, Active, Pending,
       PendingPhase, Commit, Stopped, Settle, Idle, Failed, Reviewing, Casting, Playing

----------------------------------------------------------------------------
(***************************************************************************)
(* What has to be known of the past: the request the session waits for is  *)
(* on record, it is on record as stopped when it was cancelled, and work   *)
(* under way or kept for a retry is work on the story as it is now, so     *)
(* that an answer that is accepted does change the story.                  *)
(***************************************************************************)
RequestOf(c) == [key |-> c.op.key, work |-> c.op.work]

HistoryIsTrue ==
    Pending(app.ctl) =>
        /\ RequestOf(app.ctl) \in requests
        /\ app.ctl.op.cancelled => app.ctl.op.key.id \in stopped

Fits(stage, work) ==
    /\ work.kind = "Outline" => stage.at = "Brief"
    /\ work.kind = "Cast" => stage = Reviewing(work.outline)
    /\ work.kind = "Turn" => stage = Playing(work.game)

WorkFitsStory ==
    Pending(app.ctl) \/ app.ctl.op.phase = "Failed" => Fits(app.ctl.stage, app.ctl.op.work)

HInv == IInv /\ HistoryIsTrue /\ WorkFitsStory

(* The part of it that a step has to preserve.                             *)
Remembers == HistoryIsTrue /\ WorkFitsStory

----------------------------------------------------------------------------
(***************************************************************************)
(* The shapes of a step, seen from the controller.                         *)
(***************************************************************************)
(* Only a pending request is answered.                                     *)
LEMMA DeliveryIsAwaited ==
    ASSUME NEW p, Delivers(p)
    PROVE  Pending(p.ctl)
BY DEF Delivers, Commits, Accepts, Active

(* Nothing happens to the controller.                                      *)
LEMMA StoryRests ==
    ASSUME Remembers, RecordHistory, app'.ctl = app.ctl
    PROVE  UNCHANGED <<app.ctl, requests, commits, stopped>> /\ Remembers'
<1>1. UNCHANGED <<requests, commits, stopped>>
  BY DEF RecordHistory, Remembers, HistoryIsTrue
<1>. QED  BY <1>1 DEF Remembers, HistoryIsTrue, WorkFitsStory

(* Work is issued, whether or not a thread takes it.                       *)
LEMMA WorkIsIssued ==
    ASSUME Remembers, RecordHistory, app.ctl \in Controller, Ready(app.ctl),
           NEW work \in Work, Fits(app.ctl.stage, work),
           app'.ctl \in {Start(app.ctl, work),
                         DispatchFailed(Start(app.ctl, work), Start(app.ctl, work).op.key)}
    PROVE  Protocol!Issue(Start(app.ctl, work)) /\ Remembers'
<1>. DEFINE c == app.ctl
            e == Start(c, work)
            f == DispatchFailed(e, e.op.key)
            d == app'.ctl
<1>1. /\ e \in Controller /\ e.stage = c.stage /\ e.revision = c.revision
      /\ e.lastId = c.lastId + 1 /\ e.op = Running(NextKey(c), work)
      /\ NextKey(c) = [id |-> e.lastId, revision |-> e.revision]
      /\ NextKey(c) \in Key
  BY StartEffect, ControllerFields DEF NextKey, Key
<1>. HIDE DEF e
<1>2. e.op.phase = "Running" /\ e.op.key = NextKey(c) /\ e.op.work = work /\ ~e.op.cancelled
  BY <1>1 DEF Running
<1>3. Pending(e) /\ Active(e, e.op.key)
  BY <1>2 DEF Pending, PendingPhase, Active
<1>4. Protocol!DispatchFailed(e, e.op.key) = f
  BY SameIntents
<1>5. f \in Controller /\ SameStory(e, f) /\ f.op = Failed(work, "Worker")
  BY <1>1, <1>2, <1>3, DispatchFailedEffect
<1>6. f.op.phase = "Failed" /\ f.op.work = work /\ ~Pending(f)
  BY <1>5, FailedOps DEF Pending, PendingPhase
<1>. HIDE DEF f
<1>7. d \in {e, f}
  BY DEF e, f
<1>8. /\ d.stage = c.stage /\ d.lastId = e.lastId /\ d.revision = e.revision
      /\ d.op.work = work /\ d.lastId # c.lastId
  BY <1>1, <1>2, <1>5, <1>6, <1>7, ControllerFields DEF SameStory
<1>9. requests' = requests \cup {RequestOf(e)}
  BY <1>1, <1>2, <1>8 DEF RecordHistory, RequestOf
<1>10. UNCHANGED <<commits, stopped>>
  BY <1>8 DEF RecordHistory, Ready, Pending, PendingPhase
<1>11. Protocol!Issue(e)
  BY <1>4, <1>7, <1>9, <1>10 DEF Protocol!Issue, RequestOf
<1>12. HistoryIsTrue'
  BY <1>2, <1>6, <1>7, <1>9 DEF HistoryIsTrue, RequestOf
<1>13. WorkFitsStory'
  BY <1>8 DEF WorkFitsStory
<1>. QED  BY <1>11, <1>12, <1>13 DEF Remembers, e

(* The story is edited while nothing is under way.                         *)
LEMMA StoryIsEdited ==
    ASSUME RecordHistory, ~Pending(app.ctl), NEW stage, EditedInto(app.ctl, app'.ctl, stage)
    PROVE  UNCHANGED <<requests, commits, stopped>> /\ Remembers'
<1>1. ~Delivers(app)
  BY DeliveryIsAwaited
<1>2. app'.ctl.lastId = app.ctl.lastId /\ app'.ctl.op.phase = "Ready"
  BY DEF EditedInto, Idle
<1>3. UNCHANGED <<requests, commits, stopped>>
  BY <1>1, <1>2 DEF RecordHistory
<1>. QED
  BY <1>2, <1>3 DEF Remembers, HistoryIsTrue, WorkFitsStory, Pending, PendingPhase

(* What is under way is told to stop.                                      *)
LEMMA WorkIsStopped ==
    ASSUME Remembers, RecordHistory, app.ctl \in Controller,
           NEW d \in {Cancel(app.ctl), Quit(app.ctl)}, app'.ctl = d
    PROVE  Protocol!Stop(d) /\ Remembers'
<1>. DEFINE c == app.ctl
<1>1. CASE d = c
  <2>1. UNCHANGED <<app.ctl, requests, commits, stopped>> /\ Remembers'
    BY <1>1, StoryRests
  <2>2. Pending(c) /\ d.op.cancelled => c.op.key.id \in stopped
    BY <1>1 DEF Remembers, HistoryIsTrue
  <2>. QED  BY <1>1, <2>1, <2>2, SameChecks DEF Protocol!Stop
<1>2. CASE d # c
  <2>1. /\ SameStory(c, d)
        /\ Pending(c) => /\ Pending(d) /\ d.op.key = c.op.key /\ d.op.work = c.op.work
                         /\ d.op.cancelled
        /\ ~Pending(c) => d.op.phase = "Closed"
    <3>1. CASE d = Cancel(c)
      <4>1. c.op.phase = "Running" /\ Pending(c)
        BY <1>2, <3>1 DEF Cancel, Pending, PendingPhase
      <4>2. SettledWith(c, d, Stopping(c.op, "Cancelling"))
        BY <3>1, <4>1, CancelEffect
      <4>. QED  BY <4>1, <4>2, StoppingOps DEF SettledWith, Pending, PendingPhase
    <3>2. CASE d = Quit(c)
      <4>1. SettledWith(c, d, IF Pending(c) THEN Stopping(c.op, "Closing") ELSE Idle("Closed"))
        BY <3>2, QuitEffect
      <4>. QED  BY <4>1, StoppingOps, IdleOps DEF SettledWith, Pending, PendingPhase
    <3>. QED  BY <3>1, <3>2
  <2>2. UNCHANGED <<requests, commits>>
    BY <2>1 DEF RecordHistory, SameStory
  <2>3. stopped' = IF Pending(c) THEN stopped \cup {c.op.key.id} ELSE stopped
    BY <2>1 DEF RecordHistory, Pending, PendingPhase
  <2>4. Protocol!Stop(d)
    BY <2>1, <2>2, <2>3, SameChecks DEF Protocol!Stop
  <2>5. HistoryIsTrue'
    BY <2>1, <2>2, <2>3 DEF Remembers, HistoryIsTrue, RequestOf, Pending, PendingPhase
  <2>6. WorkFitsStory'
    BY <2>1 DEF Remembers, WorkFitsStory, SameStory, Pending, PendingPhase
  <2>. QED  BY <2>4, <2>5, <2>6 DEF Remembers
<1>. QED  BY <1>1, <1>2

----------------------------------------------------------------------------
(***************************************************************************)
(* The player's commands.                                                  *)
(***************************************************************************)
(* An intent that starts work is issued, whatever the thread does.         *)
LEMMA WorkSimulated ==
    ASSUME HInv, RecordHistory, NEW work \in Work, NEW spawned \in BOOLEAN,
           CanStart(app.ctl), Fits(app.ctl.stage, work),
           Starting(spawned, RuntimeStart(app, Start(app.ctl, work), spawned))
    PROVE  Protocol!Issue(Start(app.ctl, work)) /\ Remembers'
<1>. DEFINE e == Start(app.ctl, work)
            f == DispatchFailed(e, e.op.key)
<1>1. app \in Session /\ app.ctl \in Controller /\ Ready(app.ctl)
  BY SessionFields DEF HInv, IInv, Sound, CanStart
<1>. HIDE DEF e, f
<1>2. RuntimeStart(app, e, spawned).ctl \in {e, f}
  BY <1>1 DEF RuntimeStart, Session, f
<1>. USE DEF e, f
<1>3. app'.ctl \in {e, f}
  BY <1>2 DEF Starting
<1>. QED  BY <1>1, <1>3, WorkIsIssued DEF HInv, Remembers

(* Whatever the player may start is work that fits the stage, so each such *)
(* command is an issue of that work, or nothing where a check refuses it.  *)
LEMMA PlayerStartsWorkSimulated ==
    ASSUME HInv, RecordHistory, PlayerStartsWork
    PROVE  Protocol!Next /\ Remembers'
<1>. DEFINE c == app.ctl
<1>0. c \in Controller
  BY SessionFields DEF HInv, IInv, Sound
<1>1. PICK spawned \in BOOLEAN :
        \/ /\ CanSubmitBrief(c)
           /\ Starting(spawned, RuntimeStart(app, SubmitBrief(c), spawned))
        \/ /\ CanAcceptOutline(c)
           /\ Starting(spawned, RuntimeStart(app, AcceptOutline(c), spawned))
        \/ \E d \in Direction :
              /\ CanTakeTurn(c, d)
              /\ Starting(spawned, RuntimeStart(app, TakeTurn(c, d), spawned))
        \/ /\ CanRetry(c)
           /\ Starting(spawned, RuntimeStart(app, Retry(c), spawned))
  BY DEF PlayerStartsWork
<1>2. CASE /\ CanSubmitBrief(c)
           /\ Starting(spawned, RuntimeStart(app, SubmitBrief(c), spawned))
  <2>. DEFINE work == [kind |-> "Outline"]
  <2>1. work \in Work /\ Fits(c.stage, work) /\ CanStart(c) /\ SubmitBrief(c) = Start(c, work)
    BY <1>2 DEF Work, Fits, CanSubmitBrief, SubmitBrief
  <2>2. Protocol!Issue(SubmitBrief(c)) /\ Remembers'
    BY <1>2, <2>1, WorkSimulated
  <2>. QED
    BY <1>2, <2>2, SameChecks, SameIntents DEF Protocol!Next, Protocol!PlayerSubmitsBrief
<1>3. CASE /\ CanAcceptOutline(c)
           /\ Starting(spawned, RuntimeStart(app, AcceptOutline(c), spawned))
  <2>. DEFINE work == [kind |-> "Cast", outline |-> c.stage.outline]
  <2>1. c.stage.outline \in Outline /\ c.stage = Reviewing(c.stage.outline)
    BY <1>0, <1>3, StageFields DEF CanAcceptOutline
  <2>2. work \in Work /\ Fits(c.stage, work) /\ CanStart(c) /\ AcceptOutline(c) = Start(c, work)
    BY <1>3, <2>1 DEF Work, Fits, CanAcceptOutline, AcceptOutline
  <2>3. Protocol!Issue(AcceptOutline(c)) /\ Remembers'
    BY <1>3, <2>2, WorkSimulated
  <2>. QED
    BY <1>3, <2>3, SameChecks, SameIntents DEF Protocol!Next, Protocol!PlayerAcceptsOutline
<1>4. ASSUME NEW d \in Direction, CanTakeTurn(c, d),
             Starting(spawned, RuntimeStart(app, TakeTurn(c, d), spawned))
      PROVE  Protocol!Next /\ Remembers'
  <2>. DEFINE work == [kind |-> "Turn", game |-> GameOf(c), direction |-> d]
  <2>1. GameOf(c) \in Game /\ c.stage = Playing(GameOf(c))
    BY <1>0, <1>4, StageFields DEF CanTakeTurn
  <2>2. work \in Work /\ Fits(c.stage, work) /\ CanStart(c) /\ TakeTurn(c, d) = Start(c, work)
    BY <1>4, <2>1 DEF Work, Fits, CanTakeTurn, TakeTurn
  <2>3. Protocol!Issue(TakeTurn(c, d)) /\ Remembers'
    BY <1>4, <2>2, WorkSimulated
  <2>. QED
    BY <1>4, <2>3, SameChecks, SameIntents
    DEF Protocol!Next, Protocol!PlayerTakesTurn, Protocol!Direction, Direction
<1>5. CASE /\ CanRetry(c)
           /\ Starting(spawned, RuntimeStart(app, Retry(c), spawned))
  <2>1. c.op.work \in Work /\ Fits(c.stage, c.op.work) /\ CanStart(c)
    BY <1>0, <1>5, OpFields DEF CanRetry, HInv, WorkFitsStory
  <2>2. Protocol!Issue(Retry(c)) /\ Remembers'
    BY <1>5, <2>1, WorkSimulated DEF Retry
  <2>. QED
    BY <1>5, <2>2, SameChecks, SameIntents DEF Protocol!Next, Protocol!PlayerRetries
<1>. QED  BY <1>1, <1>2, <1>3, <1>4, <1>5

(* An edit and, where there is a story, its save.                          *)
LEMMA PlayerEditsSimulated ==
    ASSUME HInv, RecordHistory, PlayerReplacesOutline \/ PlayerSelects \/ PlayerRewinds
    PROVE  Protocol!Next /\ Remembers'
<1>. DEFINE c == app.ctl
<1>0. app \in Session /\ c \in Controller
  BY SessionFields DEF HInv, IInv, Sound
<1>1. ASSUME NEW d \in Controller, NEW opening \in BOOLEAN, NEW spawned \in BOOLEAN,
             Starting(spawned, SaveChanged(app, d, opening, spawned))
      PROVE  app'.ctl = d
  <2>. DEFINE t == [app EXCEPT !.ctl = d, !.durability = "Dirty", !.deferredOpening = opening]
  <2>1. t \in Session /\ t.ctl = d
    BY <1>0 DEF Session, Durability
  <2>2. app' = StartStorage(t, "Save", SaveIntent(t, FALSE), spawned)
    BY <1>1 DEF Starting, SaveChanged, Write
  <2>. HIDE DEF t
  <2>. QED  BY <2>1, <2>2, StorageKeepsStory
<1>2. CASE PlayerReplacesOutline
  <2>. DEFINE d == ReplaceOutline(c)
              stage == Reviewing([by |-> "player", n |-> c.revision + 1])
  <2>1. CanReplaceOutline(c) /\ ~Pending(c)
    BY <1>2 DEF PlayerReplacesOutline, CanReplaceOutline, Ready, Pending, PendingPhase
  <2>2. EditedInto(c, d, stage)
    BY <1>0, ReplaceOutlineEffect
  <2>3. app' = [app EXCEPT !.ctl = d]
    BY <1>2 DEF PlayerReplacesOutline
  <2>. HIDE DEF d
  <2>4. app'.ctl = d
    BY <1>0, <2>3 DEF Session
  <2>5. UNCHANGED <<requests, commits, stopped>> /\ Remembers'
    BY <2>1, <2>2, <2>4, StoryIsEdited
  <2>. QED
    BY <2>1, <2>4, <2>5, SameChecks, SameIntents
    DEF Protocol!Next, Protocol!PlayerReplacesOutline, Protocol!Edit, d
<1>3. CASE PlayerSelects
  <2>. DEFINE d == Select(c)
  <2>1. CanSelect(c) /\ ~Pending(c)
    BY <1>3 DEF PlayerSelects, CanDispatchSelect, CanSelect, Ready, Pending, PendingPhase
  <2>2. EditedInto(c, d, Playing(NewGame(c.stage.outline, c.limits)))
    BY <1>0, <2>1, SelectEffect DEF CanSelect
  <2>3. PICK spawned \in BOOLEAN : Starting(spawned, SaveChanged(app, d, TRUE, spawned))
    BY <1>3 DEF PlayerSelects, DispatchSelect
  <2>. HIDE DEF d
  <2>4. app'.ctl = d
    BY <1>1, <2>2, <2>3 DEF EditedInto
  <2>5. UNCHANGED <<requests, commits, stopped>> /\ Remembers'
    BY <2>1, <2>2, <2>4, StoryIsEdited
  <2>. QED
    BY <2>1, <2>4, <2>5, SameChecks, SameIntents
    DEF Protocol!Next, Protocol!PlayerSelects, Protocol!Edit, d
<1>4. CASE PlayerRewinds
  <2>1. PICK n \in 1 .. MaxCounter, spawned \in BOOLEAN :
          CanDispatchRewind(app, n) /\ Starting(spawned, DispatchRewind(app, n, spawned))
    BY <1>4 DEF PlayerRewinds
  <2>. DEFINE d == Rewind(c, n)
  <2>2. CanRewind(c, n) /\ ~Pending(c)
    BY <2>1 DEF CanDispatchRewind, CanRewind, Ready, Pending, PendingPhase
  <2>3. EditedInto(c, d, Playing(DropTurns(GameOf(c), n)))
    BY <1>0, <2>2, RewindEffect
  <2>4. Starting(spawned, SaveChanged(app, d, FALSE, spawned))
    BY <2>1 DEF DispatchRewind
  <2>. HIDE DEF d
  <2>5. app'.ctl = d
    BY <1>1, <2>3, <2>4 DEF EditedInto
  <2>6. UNCHANGED <<requests, commits, stopped>> /\ Remembers'
    BY <2>2, <2>3, <2>5, StoryIsEdited
  <2>7. n \in 1 .. MaxCounter + 1
    BY ControllerAssumption
  <2>. QED
    BY <2>2, <2>5, <2>6, <2>7, SameChecks, SameIntents
    DEF Protocol!Next, Protocol!PlayerRewinds, Protocol!Edit, d
<1>. QED  BY <1>2, <1>3, <1>4

(* Cancelling and quitting.                                                *)
LEMMA PlayerStopsSimulated ==
    ASSUME HInv, RecordHistory, PlayerCancels \/ PlayerQuits
    PROVE  /\ Protocol!Next \/ UNCHANGED <<app.ctl, requests, commits, stopped>>
           /\ Remembers'
<1>. DEFINE c == app.ctl
<1>0. app \in Session /\ c \in Controller /\ Remembers
  BY SessionFields DEF HInv, IInv, Sound, Remembers
<1>1. CASE app.shutdown # "Open"
  <2>1. app' = app
    BY <1>1 DEF PlayerCancels, PlayerQuits, DispatchCancel, DispatchQuit
  <2>. QED  BY <1>0, <2>1, StoryRests
<1>2. CASE app.shutdown = "Open" /\ PlayerCancels
  <2>1. app'.ctl = Cancel(c)
    BY <1>0, <1>2 DEF PlayerCancels, DispatchCancel, Session
  <2>2. Protocol!Stop(Cancel(c)) /\ Remembers'
    BY <1>0, <2>1, WorkIsStopped
  <2>. QED  BY <2>2, SameIntents DEF Protocol!Next, Protocol!PlayerCancels
<1>3. CASE app.shutdown = "Open" /\ PlayerQuits
  <2>1. app'.ctl = Quit(c)
    BY <1>0, <1>3 DEF PlayerQuits, DispatchQuit, Session
  <2>2. Protocol!Stop(Quit(c)) /\ Remembers'
    BY <1>0, <2>1, WorkIsStopped
  <2>. QED  BY <2>2, SameIntents DEF Protocol!Next, Protocol!PlayerQuits
<1>. QED  BY <1>1, <1>2, <1>3

(* An answer that is accepted changes the story.                           *)
LEMMA ProducedIsNew ==
    ASSUME NEW key \in Key, NEW work \in Work, NEW stage, Fits(stage, work)
    PROVE  Produced(key, work) # stage
<1>1. CASE work.kind = "Outline"
  BY <1>1 DEF Fits, Produced, Reviewing
<1>2. CASE work.kind = "Cast"
  BY <1>2 DEF Fits, Produced, Reviewing, Casting
<1>3. CASE work.kind = "Turn"
  <2>. DEFINE longer == Append(work.game.turns, key.id)
              next == [work.game EXCEPT !.turns = longer]
  <2>1. work.game \in Game
    BY <1>3 DEF Work
  <2>2. longer # work.game.turns
    <3>1. Len(longer) = Len(work.game.turns) + 1 /\ Len(work.game.turns) \in Nat
      BY <2>1 DEF Game, Key
    <3>. QED  BY <3>1
  <2>. HIDE DEF longer
  <2>3. next # work.game
    BY <2>1, <2>2 DEF Game
  <2>4. Produced(key, work) = Playing(next)
    BY <1>3 DEF Produced, longer
  <2>. HIDE DEF next
  <2>. QED  BY <1>3, <2>3, <2>4 DEF Fits, Playing
<1>. QED  BY <1>1, <1>2, <1>3 DEF Work

(* The answer of the thread is the caller's answer to that request.        *)
LEMMA AnswerSimulated ==
    ASSUME HInv, RecordHistory, HasAnswer(app.worker), Answered(app, app'.ctl)
    PROVE  Protocol!Next /\ Remembers'
<1>. DEFINE c == app.ctl
            w == app.worker
            o == Outcome(w)
            d == app'.ctl
            r == RequestOf(c)
<1>0. /\ app \in Session /\ c \in Controller /\ Sound(app)
      /\ Pending(c) /\ w.key = c.op.key /\ w.work = c.op.work
      /\ c.op.key \in Key /\ c.op.work \in Work
  BY SessionFields, WaitingForWorker, OpFields
  DEF HInv, IInv, Sound, HasAnswer, WaitsForWorker, Active
<1>1. r \in requests /\ r.key = w.key /\ r.work = w.work /\ Fits(c.stage, c.op.work)
  BY <1>0 DEF HInv, HistoryIsTrue, WorkFitsStory, RequestOf
<1>2. CASE w.result = "panic"
  <2>1. d = WorkerFailed(c, w.key) /\ SameStory(c, d)
        /\ d.op = IF c.op.phase = "Closing" THEN Idle("Closed") ELSE Idle("Faulted")
    <3>1. d = WorkerFailed(c, w.key)
      BY <1>2 DEF Answered
    <3>2. SameStory(c, d)
      BY <1>0, <3>1, WorkerFailedEffect DEF Active
    <3>3. d.op = IF c.op.phase = "Closing" THEN Idle("Closed") ELSE Idle("Faulted")
      BY <1>0, <3>1 DEF WorkerFailed, Settle, Controller, Active
    <3>. QED  BY <3>1, <3>2, <3>3
  <2>2. d.op.phase \in {"Closed", "Faulted"} /\ ~Pending(d)
    BY <2>1 DEF Idle, Pending, PendingPhase
  <2>3. UNCHANGED <<requests, commits, stopped>>
    BY <2>1, <2>2 DEF RecordHistory, SameStory
  <2>4. Remembers'
    BY <2>2 DEF Remembers, HistoryIsTrue, WorkFitsStory
  <2>5. Protocol!CallerReportsPanic
    BY <1>1, <2>1, <2>3, SameAnswers DEF Protocol!CallerReportsPanic, Protocol!Edit
  <2>. QED  BY <2>4, <2>5 DEF Protocol!Next
<1>3. CASE w.result \in {"success", "failure"}
  <2>1. d = Complete(c, w.key, o)
    BY <1>3 DEF Answered
  <2>2. /\ d.lastId = c.lastId /\ ~Pending(d)
        /\ d.op.phase = "Failed" => d.stage = c.stage /\ d.op.work = c.op.work
        /\ Commits(c, w.key, o) => d.stage = Produced(c.op.key, c.op.work)
        /\ ~Commits(c, w.key, o) => d.stage = c.stage
    <3>1. w.at = "Running"
      BY DEF HasAnswer
    <3>2. CASE Commits(c, w.key, o)
      <4>1. EditedInto(c, d, Produced(c.op.key, c.op.work))
        BY <1>0, <1>3, <2>1, <3>1, <3>2, AnswerEffect
      <4>. QED  BY <3>2, <4>1 DEF EditedInto, Idle, Pending, PendingPhase
    <3>3. CASE ~Commits(c, w.key, o)
      <4>1. /\ SameStory(c, d)
            /\ d.op = IF c.op.phase = "Closing" THEN Idle("Closed")
                      ELSE Failed(c.op.work, IF Stopped(c) THEN "Cancelled" ELSE "Generation")
        BY <1>0, <1>3, <2>1, <3>1, <3>3, AnswerEffect
      <4>. QED  BY <3>3, <4>1 DEF SameStory, Idle, Failed, Pending, PendingPhase
    <3>. QED  BY <3>2, <3>3
  <2>3. Produced(c.op.key, c.op.work) # c.stage
    BY <1>0, <1>1, ProducedIsNew
  <2>4. Delivers(app) <=> Commits(c, w.key, o)
    BY <1>3 DEF Delivers, HasAnswer, Commits, Outcome, Failure
  <2>5. /\ UNCHANGED <<requests, stopped>>
        /\ commits' = IF Commits(c, w.key, o) THEN Append(commits, w.key.id) ELSE commits
    BY <2>2, <2>3, <2>4 DEF RecordHistory
  <2>6. Remembers'
    BY <1>1, <2>2 DEF Remembers, HistoryIsTrue, WorkFitsStory
  <2>7. o \in Protocol!Outcomes(r)
    BY <1>1, <1>3, SameAnswers DEF Outcome, Protocol!Outcomes
  <2>. HIDE DEF o, r
  <2>8. Protocol!CallerCompletes
    BY <1>1, <2>1, <2>5, <2>7, SameAnswers DEF Protocol!CallerCompletes
  <2>. QED  BY <2>6, <2>8 DEF Protocol!Next
<1>. QED  BY <1>2, <1>3 DEF Answered

(* What a storage reply carries out is a turn taken or a game restored.    *)
LEMMA CarriedSimulated ==
    ASSUME RestorableGames = Game, HInv, RecordHistory, Carried(app.ctl, app'.ctl)
    PROVE  /\ Protocol!Next \/ UNCHANGED <<app.ctl, requests, commits, stopped>>
           /\ Remembers'
<1>. DEFINE c == app.ctl
<1>0. c \in Controller /\ Remembers
  BY SessionFields DEF HInv, IInv, Sound, Remembers
<1>1. CASE app'.ctl = c
  BY <1>0, <1>1, StoryRests
<1>2. CASE /\ CanTakeTurn(c, "Continue")
           /\ LET e == TakeTurn(c, "Continue")
              IN app'.ctl \in {e, DispatchFailed(e, e.op.key)}
  <2>. DEFINE work == [kind |-> "Turn", game |-> GameOf(c), direction |-> "Continue"]
  <2>1. GameOf(c) \in Game /\ c.stage = Playing(GameOf(c))
    BY <1>0, <1>2, StageFields DEF CanTakeTurn
  <2>2. /\ work \in Work /\ Fits(c.stage, work) /\ Ready(c)
        /\ TakeTurn(c, "Continue") = Start(c, work)
    BY <1>2, <2>1 DEF Work, Direction, Fits, CanTakeTurn, CanStart, TakeTurn
  <2>3. Protocol!Issue(TakeTurn(c, "Continue")) /\ Remembers'
    BY <1>0, <1>2, <2>2, WorkIsIssued
  <2>. QED
    BY <1>2, <2>3, SameChecks, SameIntents
    DEF Protocol!Next, Protocol!PlayerTakesTurn, Protocol!Direction
<1>3. CASE CanReplaceGame(c) /\ \E g \in Game : app'.ctl = ReplaceGame(c, g)
  <2>1. PICK g \in Game : app'.ctl = ReplaceGame(c, g)
    BY <1>3
  <2>2. EditedInto(c, app'.ctl, Playing(g)) /\ ~Pending(c)
    BY <1>0, <1>3, <2>1, ReplaceGameEffect DEF CanReplaceGame, Ready, Pending, PendingPhase
  <2>3. UNCHANGED <<requests, commits, stopped>> /\ Remembers'
    BY <2>2, StoryIsEdited
  <2>. QED
    BY <1>3, <2>1, <2>3, SameChecks, SameIntents
    DEF Protocol!Next, Protocol!RestoreReplacesGame, Protocol!Edit
<1>. QED  BY <1>1, <1>2, <1>3 DEF Carried

----------------------------------------------------------------------------
(***************************************************************************)
(* Every step, and the theorem.                                            *)
(***************************************************************************)
(* Every way to start up.                                                  *)
LEMMA InitSimulated ==
    ASSUME RestorableGames = Game, InitWithHistory
    PROVE  Protocol!Init /\ Remembers
<1>1. app.ctl = NewController \/ \E g \in Game : app.ctl = ReplaceGame(NewController, g)
  <2>1. CASE app = NewSession
    BY <2>1 DEF NewSession
  <2>2. ASSUME NEW copy \in {"primary", "backup"}, NEW limits \in Limits,
               disk = OldDisk, StartWith(copy, limits)
        PROVE  \E g \in Game : app.ctl = ReplaceGame(NewController, g)
    <3>. DEFINE r == Restored(OldSlot, copy, limits)
    <3>1. PICK spawned \in BOOLEAN : app = InstallLoaded(NewSession, r, spawned)
      BY <2>2 DEF StartWith, AdmitLoaded
    <3>2. WorldTypeOK /\ DiskIsKnown
      BY InitSteps DEF IInv, InitWithHistory
    <3>3. OldSlot \in Slots /\ disk[OldSlot][copy] # NoDoc
      BY <2>2, OldDiskIsKnown DEF InitWithHistory, Init
    <3>4. Loads(r)
      BY <3>2, <3>3, RestoredFits
    <3>. HIDE DEF r
    <3>7. Sound(NewSession) /\ MayInstall(NewSession)
      BY NewSessionSound, SessionAssumption
    <3>5. app.ctl = Installed(NewSession, r).ctl
      BY <3>1, <3>4, <3>7, InstallLoadedSound
    <3>6. app.ctl = ReplaceGame(NewController, r.game)
      BY <3>4, <3>5, <3>7, InstalledSound DEF NewSession
    <3>. QED  BY <3>4, <3>6 DEF Loads
  <2>. QED
    BY <2>1, <2>2, ControllerAssumption DEF InitWithHistory, Init
<1>2. ~Pending(app.ctl) /\ app.ctl.op.phase = "Ready"
  <2>1. NewController \in Controller /\ NewController.op.phase = "Ready"
    BY ControllerAssumption DEF NewController, Controller, Stage, Operation, Idle
  <2>2. \A g \in Game : ReplaceGame(NewController, g).op.phase = "Ready"
    BY <2>1, ReplaceGameEffect DEF EditedInto, Idle
  <2>. QED  BY <1>1, <2>1, <2>2 DEF Pending, PendingPhase
<1>3. Protocol!NewController = NewController
  BY DEF Protocol!NewController, Protocol!Idle, NewController, Idle
<1>4. Protocol!Init
  BY <1>1, <1>3, SameIntents DEF Protocol!Init, InitWithHistory
<1>. QED  BY <1>2, <1>4 DEF Remembers, HistoryIsTrue, WorkFitsStory

(* A step of the process is a step of the protocol, or none.               *)
LEMMA StepSimulated ==
    ASSUME RestorableGames = Game, HInv, [Next /\ RecordHistory]_<<vars, history>>
    PROVE  /\ [Protocol!Next]_<<app.ctl, requests, commits, stopped>>
           /\ HInv'
<1>1. IInv'
  BY NextSteps, StutterSteps DEF HInv
<1>2. CASE UNCHANGED <<vars, history>>
  <2>1. Remembers'
    BY <1>2 DEF vars, history, HInv, Remembers, HistoryIsTrue, WorkFitsStory
  <2>. QED  BY <1>1, <1>2, <2>1 DEF vars, history, HInv, Remembers
<1>3. CASE Next /\ RecordHistory
  <2>0. Remembers /\ Sound(app) /\ app \in Session
    BY DEF HInv, IInv, Sound, Remembers
  <2>. DEFINE Simulated ==
                /\ Protocol!Next \/ UNCHANGED <<app.ctl, requests, commits, stopped>>
                /\ Remembers'
  <2>. SUFFICES Simulated
    BY <1>1 DEF HInv, Remembers
  <2>1. CASE PlayerStartsWork
    BY <1>3, <2>1, PlayerStartsWorkSimulated
  <2>2. CASE PlayerReplacesOutline \/ PlayerSelects \/ PlayerRewinds
    BY <1>3, <2>2, PlayerEditsSimulated
  <2>3. CASE PlayerSaves \/ PlayerLists \/ PlayerLoads
    <3>1. ASSUME NEW effect, NEW intent, NEW spawned \in BOOLEAN,
                 Starting(spawned, StartStorage(app, effect, intent, spawned))
          PROVE  app'.ctl = app.ctl
      BY <2>0, <3>1, StorageKeepsStory DEF Starting
    <3>2. app'.ctl = app.ctl
      <4>1. CASE PlayerSaves
        BY <3>1, <4>1 DEF PlayerSaves, Save, Write
      <4>2. CASE PlayerLists
        BY <3>1, <4>2 DEF PlayerLists, List
      <4>3. CASE PlayerLoads
        BY <3>1, <4>3 DEF PlayerLoads, Load
      <4>. QED  BY <2>3, <4>1, <4>2, <4>3
    <3>. QED  BY <1>3, <2>0, <3>2, StoryRests
  <2>4. CASE PlayerCancels \/ PlayerQuits
    BY <1>3, <2>4, PlayerStopsSimulated
  <2>5. CASE Poll
    <3>1. PICK spawned \in BOOLEAN : app' = PollAll(app, spawned)
      BY <2>5 DEF Poll
    <3>2. IF HasAnswer(app.worker) THEN Answered(app, app'.ctl) ELSE Carried(app.ctl, app'.ctl)
      BY <2>0, <3>1, PollTakesOneStep
    <3>. QED  BY <1>3, <3>2, AnswerSimulated, CarriedSimulated
  <2>6. CASE OutputDrained \/ GenerationFinishes \/ Storage_Next \/ OrphanWrites \/ ForeignSaves
    <3>1. app'.ctl = app.ctl
      BY <2>0, <2>6
      DEF OutputDrained, GenerationFinishes, Storage_Next, OrphanWrites, ForeignSaves,
          StorageGivesUp, StorageReads, StorageLists, StoragePublishes, HelperFindsDone,
          HelperKeepsBackup, HelperReplaces, StorageReplies, Return, Publish, Session
    <3>. QED  BY <1>3, <2>0, <3>1, StoryRests
  <2>. QED  BY <1>3, <2>1, <2>2, <2>3, <2>4, <2>5, <2>6 DEF Next
<1>. QED  BY <1>2, <1>3

(* What the controller does inside the playing process it does as a step   *)
(* of SessionProtocol: for any slots, counters, reservations, faults,      *)
(* other processes and helpers left behind, where saves may hold any game. *)
THEOREM Refinement ==
    ASSUME RestorableGames = Game
    PROVE  SpecWithHistory => ImplementsProtocol
<1>1. InitWithHistory => HInv /\ Protocol!Init
  BY InitSteps, InitSimulated DEF InitWithHistory, HInv, Remembers
<1>2. HInv /\ [Next /\ RecordHistory]_<<vars, history>>
        => HInv' /\ [Protocol!Next]_Protocol!vars
  BY StepSimulated DEF Protocol!vars
<1>. QED  BY <1>1, <1>2, PTL DEF SpecWithHistory, ImplementsProtocol, Protocol!Spec
=============================================================================
