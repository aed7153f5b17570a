# cyoa-rs in TLA+

cyoa-rs plays choose-your-own-adventure stories that a language model writes. The player
gives a brief, reviews an outline, picks a character, and then takes turns; every
generation is an external command (Claude or Codex) that takes minutes, may fail, and may be
cancelled, while the story itself is kept in save files that other processes may write
too. This directory models the program from the terminal down to the files and the child
processes: who owns the story, what is running, what is on disk, what an answer is worth,
and what the player gets to see of all this.

## 1. Inventory

Crates: `cyoa-core` (the story), `cyoa-application` (use cases and ports),
`cyoa-infrastructure` (save files, helper processes, backends), `cyoa-presentation`
(the session and the headless driver), `cyoa-cli` (the entry point).

| component | state | operations | talks to |
|---|---|---|---|
| Session controller, `presentation/session.rs` | stage of the story, one operation (ready, running, cancelling, failed, faulted, closing, closed), request and revision counters, preview | the player's intents, `progress`, `complete`, `worker_failed`, `dispatch_failed`, `replace_game` | passive; called by the runtime |
| Session runtime and worker, `runtime.rs`, `worker.rs` | the generator (at home or lent to a thread), progress mailbox | `dispatch`, `poll_events`, `start`, `poll` | one generation thread; the controller |
| Persisted session, `presentation/persistence.rs` | binding to a save, durability, request under way, bytes kept for a retry, deferred opening turn, shutdown stage | `dispatch`, `save`, `load`, `list`, `admit_loaded`, `quit`, `poll`, `output_drained` | owns the runtime and the storage runner |
| Storage runner, `storage.rs` | ready, running, faulted, closed; published evidence | `start`, `cancel`, `close`, `recover_fault`, `poll` | one storage thread |
| Persistence use cases, `application/persistence.rs` | none | save, load, inspect, list, with cancellation checks | repository port |
| Supervised repository and helper, `infrastructure/persistence/helper.rs` | evidence of the prepared write | `create`, `replace`, `reconcile`, `load`, `list` | one helper process per call |
| Local repository, `repository.rs`, `filesystem.rs` | the save directory: primary, backup, lock and temporary file per save | `prepare_create`, `prepare_replace`, `execute_pending`, `load`, `list` | the file system, other processes |
| Save codec and migrations, `codec.rs`, `dto.rs`, `migrations.rs` | none | encode, decode, stamp, migrate | repository |
| Cancellation, `application/cancellation.rs` | flag, list of callbacks | `cancel`, `subscribe`, drop of a subscription | generation, process supervisor |
| Process supervisor, `backends/process*` | child process, pipes, byte counts, deadline | `supervise`, `finish` | backends and storage helper |
| Generation backends, `claude_cli/`, `codex_cli/`, `backend.rs` | the protocol of one run: phase, text and documents seen so far | confirm the login, run one generation, reconcile protocol and process | process supervisor |
| Generation engine and use cases, `generation/engine.rs`, `stream.rs`, `application/generation.rs` | scanner of the streamed narrative | outline, cast, turn; merges an answer into a clone of the game | backends, core |
| Core story, `game.rs`, `summary.rs`, `character.rs`, `ids.rs` | turns, summaries, casts, limits | `commit_turn`, `rewind`, `prose_context`, `chapters`, `updated` | - |
| Headless driver and output, `headless.rs`, `headless/output.rs`, `commands.rs` | unsent output, stall clock | `drive`, `pump` | persisted session |
| Entry point, `cyoa-cli/src/main.rs` | - | argument parsing, startup restore, exit code | everything |

What is hard, and what makes each part correct:

* **Controller.** An answer comes minutes after its request, from a thread the player may have
  cancelled, retried or replaced meanwhile. Correct: an answer takes effect at most once, in
  order, only if not cancelled, and only on the story it was made for; retry never reruns
  work of another story; revisions name stories.
* **Persisted session.** Generation, autosave, manual save, load, listing, retry of a write in
  doubt and shutdown share one story and one counter. Correct: "clean" is never a guess; nothing is built on an
  unsaved story; everything a later step `expect`s was reserved; the exit code is honest.
* **Storage runner, helper, repository.** A write may be done and its reply lost; a helper
  may outlive its request; another process may own the save by now. Correct: a save never
  goes back to an earlier document and no reply claims more than the disk holds.
* **Cancellation, supervisor, output.** Callbacks registered while cancelling; deadline,
  cancellation, overflow and exit at once; output that nobody reads. Correct: exactly one
  verdict, nothing left behind, a bounded wait.
* **Generation.** A child's stream may be cut, repeated or spoilt anywhere, its exit code may
  disagree with what it said, and a cancellation may come between any two checks. Correct: an answer
  is returned exactly when every party agrees on it, the evidence of a failure is kept, and the
  preview is the answer's own text.
* **Driver.** Text is shown before it is final, over two queues that may be full or broken.
  Correct: every committed turn is told once, and success is only reported when it was one.
* **Core and codec.** What the generator writes is merged into a memory with limits, which can be undone,
  saved and restored under other limits; the reader of saves is stricter than the merge looks.
  Correct: whatever was played can be saved and comes back the same, and nothing that
  should last is lost.

The hazards, each with its line and the properties that cover it, are in `PROJECT.json`.

## 2. Modules

```
SessionController            methods of session.rs as operators on a record
  +- SessionProtocol         state machine: the controller under an arbitrary caller
  |    +- SessionProtocolProofs
  |    +- MCSessionProtocol
  +- SessionPersistence      persistence.rs + runtime.rs + worker.rs + storage.rs, likewise
       +- SessionProofs      lemmas: what each method of both does to the record
       +- PersistedSession   state machine: UI thread, two threads, helper, disk, others
       |    +- MCPersistedSession
       |    +- PersistedImplementsProtocol   refinement: it is one of those callers
       |         +- PersistedSessionProofs
       |         +- MCPersistedImplementsProtocol
       +- Headless           headless.rs, output.rs: the loop of the driver over SessionPersistence
            +- HeadlessProofs

SaveSlot                     what one save promises (abstract)
Repository                   repository.rs: apply in helpers, sessions, power loss
  +- RepositoryImplementsSlot     refinement: Repository implements SaveSlot
       +- RepositoryProofs
       +- MCRepository

StreamingStringField         stream.rs: the scanner, character by character
ClaudeProtocol, CodexProtocol    protocol.rs of the two adapters, as operators
  +- Generation              state machine: use case, engine and adapter of one answer
       +- GenerationProofs   of a generation and of the cancellation that stops it
       +- MCGeneration

Supervisor                   process.rs, unix_impl.rs: one supervised child
  +- SupervisorProofs
Cancellation                 cancellation.rs: cancel, subscribe, drop
  +- MCCancellation         (proved about in GenerationProofs)

Story                        game.rs, summary.rs, character.rs, ...: turns merged into a memory
  +- SaveCodec               codec.rs, dto.rs: to a document and back
       +- StoryProofs
       +- MCStory
```

**SessionController.** The controller is passive and each method runs to completion, so a
method `m` is a pair of operators: `CanM(c)`, its early returns in one conjunction, and
`M(c)`, the record it leaves. `stage`, `op`, `lastId`, `revision`, `preview`, `incomplete` are
the struct's fields of those names. Content is who made it: an outline carries its author and
the request or revision it came from, a turn is the id of the request that produced it. The
cancellation source is the flag `cancelled` of the operation.

**SessionProtocol.** One action per method, with a caller it must not have to trust: every request ever
issued can be answered at any time, repeatedly, with a failure, a success, the wrong kind of result, progress or a
panic. It is both a specification to check the controller against and the abstract
specification the program implements.

**SessionPersistence.** `PersistedSession` and the two runners it owns live on one thread;
they are one record, and a call that starts a thread takes a Boolean: whether the operating system
provided it. `PollAll` is the whole of `poll`, generation first, then storage, then shutdown.
`SaveIntent`, `SaveFailed`, `InstallLoaded`, `AdvanceShutdown` are the decisions of `write`,
`accept_storage`, `install_loaded`, `advance_shutdown`.

**PersistedSession.** The processes around it: the player (dispatch, save, load, list, cancel, quit in any state), the
driver (`Poll`), the generation thread, the storage thread (publishes evidence, reads,
replies or panics), the helper (keeps the backup, then replaces the primary), helpers
that outlived their request, other processes saving to the same slots.

**PersistedImplementsProtocol.** Adds the protocol's three history variables, which no step
reads, and maps `ctl` to the controller inside the session.

**Repository.** One save on disk, seen closer than in PersistedSession. A helper process is a program counter over the
steps of `apply`: `Begin` (lock, read, compare), `Confirm` (the bytes are there already: sync
only), `KeepBackup`, `SyncBackup`, `Recheck`, `Replace`, `SyncPrimary`, then `Receipt` or
`Failure`. Every step may fail; a helper may be killed between any two, or live on
after its session gave it up or died. The slot's lock is held from `Begin` to the reply and goes with the process.
`dir` is what the two names show now; `mayFind` is what they may show after the machine
went down: everything since the last directory sync, each name on its own. Sessions load, save, retry with the same bytes, and
lose replies. `EditByHand` is somebody who changes the file and ignores the lock.

**SaveSlot, RepositoryImplementsSlot.** The promise: the primary is only replaced by a document that continues
it, after the backup was brought up to date; a receipt (`pledge`) survives a power loss; what had no receipt may
be lost, and the two files never end up more than one save apart. Once the file was changed by hand (`edits`)
the slot promises nothing more. `RepositoryImplementsSlot` maps the
files to it and the newest receipt held by a session to the pledge. It is also why `PersistedSession` may
treat a write as a compare-and-swap in two steps.

**Cancellation.** Threads that cancel and threads that subscribe, drop their registration, or forget
the source. A critical section under the mutex is a step, and so is each callback, which `cancel` runs with the
mutex released and which may panic: `BeginCancel` takes all callbacks out, `CallNext` calls one, `EndCancel`
returns. `notifiers` is the vector of slots with its free ones, so that a slot can be
used again by somebody else.

**Supervisor.** One thread, so a step is one system call or one call of the consumer with what the code does
before the next: spawn, the turn of the loop (poll, write, read and frame, consume, observe the
child), then stopping the group, reaping, draining, the last records, and the verdict. The child, a descendant
that escaped the group and keeps the pipes open, the token and the clock move between the steps. Any
call may fail, up to `MaxFaults` times. Two checks of the token with no effect between them are one.

**Headless.** A turn of the loop is three steps: `Pump` the two queues, `ReadInput`, then `Poll` the session and show
what happened; then `Drain`, `Leave`, `Close`, `Exit`. Below it is the session of SessionPersistence, with
the worker's mailbox: `GeneratorStreams` appends to it, and the answer may begin with what was streamed,
or not. Output is characters marked with the turn they belong to, so the reader's view can be
compared with the story. The threads move where the driver looks at them, before a poll.

**StreamingStringField.** The scanner that picks one string field out of JSON that arrives in pieces:
escapes, surrogate pairs, nesting, and keys are read character by character, as the code does, over
code points.

**ClaudeProtocol, CodexProtocol.** One operator per transition of the two protocols, from a protocol value and a
record to the next value, and `Finish` for the end of the stream. A record is what
parsing makes of a line: its type, what is wrong with it if anything, its block's index, text and document.

**Generation.** The worker's thread from the use case to the child and back: `Connect`, `Prepare`,
`TakeRecord`, `TransportEnds`, `Reconcile`, `ForwardWhole`, `Decode`, `HandOver`. The other thread only
cancels, between any two of them. What the child would say is chosen at the start; it may
stop at any point, with any exit code. `GenerationAssumption` says what parsing can make of a line: a record
of which no field is read (Claude's `message` and `rate_limit_event`) has no flawed field, and a Codex
message without a flaw has a document.

**Story.** A world, its casts, and the log of turns with the memory after each: major events
under a limit, the situation, the casts with aliases and new characters. A turn arrives as wire
text in which anything may be blank, repeated, differently spelled or about nobody; it is
normalised (`TurnOf`) and merged (`Updated`, `UpdatedCast`). `Chapters`
and `ProseContext` are what is shown of the log. Text is a member of a set `Raw` with tables for
trimming, lower case and slugs; an id is a word with the suffixes it needed to be free, so there are always more.
The wire types (`WorldWire`, `PersonWire`, `TurnWire`, ...) and `Limits` are whatever the code would accept as input. A loop over
a list whose result depends on what went before is a recursive function, which is how the proofs can speak of it.

**SaveCodec.** `Encode`, which refuses a game that would not come back, `Decode`, and the check of
every part of a stored document (`IsGame` and below). Extends Story, so that a story is played,
undone, saved and loaded in any order. Reading repairs nothing, with one exception: `ReadAction` reads a kind of
action that nobody knows, or that is omitted, as "other", and so it is saved again (`dto.rs:367-384`; the fixture
`v1-full-story.json:71` and `save_compatibility.rs:105-112` fix it, `docs/plans/phase2-persistence.md:375` records it).
`Canonical` is a document with its kinds as this program writes them. The generator's kinds are read the same way (`KindOf`, `wire.rs`).

Some definitions are preceded by a *mutant*: the same definition with a bug somebody could
have written there. They are used by nothing; substituting one for its original makes the
property named in `PROJECT.json` fail, which is how we know that the property watches that code.

### What is abstracted

* In the session: text, prompts, messages, notifications, the failure that is shown, limits other than
  "as saved or not". What text does is in Story, Generation and Headless.
* A document's content stamp, a hash of bytes that hold the time and the save revision, is
  the id of the storage request that prepared it. So stamps differ between preparations and
  a reconciled write keeps its stamp, as in the code. The revision in the document (old
  one plus 1) follows from the stamp and is left out.
* Random save ids are fresh: `Create` takes a slot that no file, orphan or retry uses. The loop over eight
  collisions is left out.
* A helper's apply is two atomic steps (backup, primary). In the code a file lock is held
  over both, so that helpers do not interleave with each other; Repository models the
  lock, the syncs and the steps between.
* In Repository a document is the sequence of stamps it continues, so that its revision is its length and
  "continues" is "is a prefix of". Only complete, synced temporary files are renamed
  (`temp` syncs before it returns, and an error removes the file), so writing them is part of the rename. A save that
  conflicts is dropped: `create` would go on with another id, that is another save.
* A helper outlives its request only when the supervisor failed to clean up
  (`SupervisorError::Cleanup`), and never when it reported a definite result.
* Evidence is published once per attempt; the `published` flag that suppresses repetition
  is dropped because delivering evidence twice changes nothing.
* `main.rs` always starts from a controller without a game, so `new` never finds one; a
  startup restore is `StartWith`. Sources that do not match are load failures like any
  other.
* The progress mailbox is a variable in Headless, and a free choice of text in SessionProtocol; in
  PersistedSession nothing depends on it and it is left out.
* Storage in Headless replies with anything the disk could answer; what can be on the disk is PersistedSession's part.
* JSON: a record or document carries the verdict of parsing as a field (`type`, `flaw`, `json`,
  `unique`, `usable`). Token counts, cost, provenance, session ids and sizes of records are left out.
* Saves: sizes, unrecognised fields, times and ids. An optional field is always there; one that is omitted is read as its
  default ("", none, an empty list), and only for the kind of an action does the model tell omitted from given.
* In Supervisor the environment policy and the wording of diagnostics; polls and reads that are
  interrupted are turns without effect.
* The protocol's requests can be answered by nobody else: `WorkRequest` is not clonable, so
  a mutated key is not considered.

## 3. Runs

| run | question | bounds |
|---|---|---|
| `protocol` | Does the controller keep one consistent story under any caller? | counters to 4: enough for outline, cast, selection and a turn, or a restored game with a turn failed, retried, cancelled and rewound, with the counters running out in every stage; preview of 1 byte, so that it overflows |
| `playing_fresh` | From an empty disk: are threads and owners in step, is nothing built on an unsaved story, are reservations enough? | revisions to 4 (selection and the opening turn take 2, on top of outline and cast), storage ids to 5: save, copy, retry and a final save after the ordinary ones ran out; 2 slots: a save and its copy |
| `playing_resumed` | From a restored save or its backup, with another process and orphans: do retries, conflicts and the exit code tell the truth? | revisions to 2, storage ids to 4, one foreign save, two limits, so that a restore changes the game |
| `playing_live` | Does everything that was started come to an end, and does quit get to the exit? | as `playing_fresh`, storage ids to 3 |
| `playing_implements_protocol` | Is the program one of the protocol's callers? | counters to 2, storage ids to 3, fresh and resumed |
| `repository` | Do kills, lost replies, retries, power losses and an edit by hand between any two steps ever cost a document somebody was promised, or bring back one that was refused? Does the code implement SaveSlot? | two sessions (symmetric), 3 documents, 3 helpers: two saves and a retry, or two racing creations and a save on top; 2 power losses, the second on what the first left; 1 edit |
| `cancellation` | Can a callback be lost, or run twice, when cancelling, subscribing and dropping race? | 2 cancellers, so that one finds the flag set while the other calls; 3 subscribers, so that a slot is used again beside others |
| `supervisor` | When everything goes wrong at once, is exactly the first cause reported, and always reported? | 1 byte of input, 2 of stdout captured and 3 written (records, an open record, an overflow), 1 of stderr and 2 written, reads of 2, one failing call |
| `headless` | Does the reader see each turn once, and is success only reported when it was one? | queues of 1 step, previews and answers of 2 characters (agree, diverge, overflow), counters to 4, storage ids to 3, fresh and resumed |
| `headless_edit` | Is a line typed at the selection the selection? *No: see findings.* | as `headless`, fresh |
| `generation` | Is an answer returned exactly when it was earned, and is the preview its own? | the text of the richest document cut at every character; a streamed, an abandoned and an interleaved conversation of Claude and one of Codex, each with one fault at any place (a record lost, repeated, swapped, inserted, spoilt); two records too many of those that move blocks; documents with escapes, nesting, a surrogate pair, blank edges, a duplicate key, not an object, broken |
| `story` | Can every story that is played be saved and restored without loss? | 3 turns, so that there is a bridge, a current chapter and an event that falls out of the limit; two sets of limits; wires that vary one part at a time |

`MaxCounter` and `MaxStorageId` stand for `u64::MAX`: the models exercise the exhaustion
branches that the real numbers make unreachable in practice. The other bounds: `MaxPreview`
(1 MiB), `MaxChunk` (longest progress text in one call), `MaxForeign` (saves by other
processes), `Slots`; in Repository `MaxStamp`, `MaxHelper`, `MaxCrashes`, `MaxEdits`; in Supervisor
`MaxWritten`, `MaxFaults`; in Headless `MaxText`, `Capacity` (the bound of a queue). Runs of things that end
(a session, a request, an answer) say `CHECK_DEADLOCK FALSE`; the protocol keeps accepting calls (which it ignores),
the story can always go on, and both are checked for deadlock.

The properties, in the order one might break them:

* *Controller:* `PendingIsCurrent`, `WorkIsCurrent`, `PreviewIsLive`, `CommitsInOrder`,
  `NoCommitAfterStop`, `RevisionNamesStory`, `CommitBuildsOnStory`.
* *Coordination:* `WorkOnSavedStory`, `ThreadsAreAwaited`, `ReservationsHold`.
* *Disk:* `CleanMeansSaved`, `RetryHoldsStory`, `BoundSaveIsOnDisk`, `LandsOnce`,
  `ExitIsHonest`.
* *Save files:* `ReceiptIsForGood`, `BackupAdjacent`, `DroppedIsGone`, `NothingOverwritten`,
  `ImplementsSlot`.
* *Cancellation:* `CalledAtMostOnce`, `NoLostWakeup`, `EverybodyIsWoken`.
* *Child processes:* `RecordsInOrder`, `SuccessIsWhole`, `FirstCauseIsReported`, `NoChildLeftUnsaid`.
* *Answers:* `AnswerIsEarned`, `PreviewIsOfTheAnswer`.
* *Terminal:* `StoryIsToldOnce`, `ExitIsEarned`, `SelectionTakesANumber`.
* *Story and saves:* `StoryCanBeSaved`, `LoadLosesNothing`, `ContextIsTheStory`, `MemoryGrows`. `LoadLosesNothing` says two things of
  a document, spoilt or not: if it can be read, it is saved again as the same document with its kinds of actions made canonical; and a kind that
  nobody knows is no reason to refuse it. `MemoryGrows` says of everybody in the cast that just one change that can be for them took effect, or that
  there was none, or that its name or its new id had gone to somebody else earlier in the turn; of newcomers that one change named them and nobody had that name;
  and of the events that they are the last so many, as the limit allows, of what was told before (or what it was consolidated to) and then the news, in this order.
* *Progress:* `QuitDrains`, `EverythingSettles`, `Settles`.

Two things the `repository` run made precise. After a final sync failed, another session may load the
visible document and replace it; if the machine then goes down after the backup rename, the old primary may be back *behind*
the backup, so the backup is adjacent to the primary rather than always the one before it. And between the recheck
and the rename nothing protects an existing save from somebody who ignores the lock: `NothingOverwritten`
says that this is the only window.

**Findings.**

* `headless_edit` is a disagreement between the driver and its own prompt. `/retry` is handled before an
  edit in progress is looked at (`headless.rs:333`) and leaves the edit in place. So after a failed cast, `/edit` followed by
  a `/retry` that succeeds, the driver asks for a one-based number and takes the line as a title.
* A preview whose narrative begins with a blank and that was cut before its end is not completed:
  the remainder is computed by `strip_prefix` on the trimmed narrative (`engine.rs`), which does not begin with what was
  shown. The final text is not affected; `PreviewIsOfTheAnswer` names the exception.
* The evidence of a failure is the last candidate document, also when that record was rejected for a
  duplicate key: it displaces the document seen before.
* `game.rs:260` and `limits.rs:57` say that the bridge comes from "the previous chapter"; with chapters shorter than the
  bridge it spans several. `ContextIsTheStory` says what the code does: the turns right before the current chapter.

**Fairness.** `WF(Poll)`: the driver's loop polls on every turn until the session is
drained. `WF(GenerationFinishes)`, `WF(StorageReplies)`, `WF(StorageGivesUp)`: each thread runs its child under a
deadline and returns. No fairness for the player, the drain of the output, orphans, or other processes: nobody
has to play, and the liveness properties do not need it. In Cancellation, `WF(CallNext)` and `WF(CallAtOnce)`: a thread
that is calling callbacks goes on. In Supervisor, `WF` of its own steps and of the grace periods while it only waits;
`SF` of the deadline and of the drain's grace, because a loop that reads the clock on every turn cannot go round
forever without passing its limit, whatever else is ready on each turn. Nothing is assumed of
the child: it may write, linger or exit when it likes. Headless has no liveness of its own: that the session reaches
draining is `QuitDrains`, and the drain itself is left by a stall limit, which is a choice there.

## 4. Proofs

TLC looks at small instances; the theorems hold for every value of the constants, from the
assumptions the modules declare of them and no others. Each rests on an inductive invariant, which joins the properties and
what the argument needs besides: it is called `IInv`, in StoryProofs `IsStory` and for the cancellation `Placed`. TLC checked
each as an invariant of the run of its module first.

**SessionProofs** holds no theorem about a run: its lemmas say what each method of the controller does to its
record (`StartEffect`, `CompleteEffect`, `QuitEffect`, ...), and that each method of the persisted session keeps the record `Sound`,
whatever the world around it does. The three sets of proofs below that call the methods share them.

**SessionProtocolProofs** proves, with no assumption beyond `ControllerAssumption` and `ProtocolAssumption`:

* `Typing`, `PendingStaysCurrent`, `WorkStaysCurrent`, `PreviewStaysLive`, `CommitsStayInOrder`,
  `StoppedStaysStopped`: the invariants of run `protocol`;
* `RevisionsNameStories`, `CommitsBuildOnStory`: its two action properties.

None of the invariants is inductive alone. `IInv` joins them and adds what the argument
needs of the past: `RequestsKnown` (a request ever issued has an id up to `lastId`, and the one
with the pending key carries the pending work, so an accepted answer is an answer to *that* work), `CommitsPast` (a commit's id lies before
that of a pending request, so the next commit is later than all of them), `StoppedPast` and `StoppingIsCancelled`
(a stopped id is past or belongs to an operation that is marked cancelled, so it cannot commit). The proof of
`StepPreserves` reduces the methods to a few shapes: an edit at rest (`EditStep`), work issued (`IssueStep`), a stop (`StopStep`),
progress, an answer, a panic; each method has an effect lemma that says which
shape it is. `Invariance` is the temporal conclusion, and the action properties follow
from `IInv` and `StepMovesStory`.

**PersistedSessionProofs** proves every safety property of the runs `playing_fresh` and `playing_resumed`, for any
slots, counters, reservations and number of foreign saves:

* `StoryWaitsForItsSave`, `NoThreadIsDisowned`, `ReservationsSuffice` (no `expect` of the coordinator can fail, and the last save has an id);
* `RetriesWriteTheStory`, `CleanIsNeverAGuess`, `NoConflictWithItself`, `ExitTellsTheTruth`;
* `NoSaveGoesBack`, the action property `LandsOnce`, and `Typing`.

`SessionAssumption` asks for what `u64` grants: room to restore a save and write it. The invariant has two layers.
`Sound(p)` is about the session alone: `Threads` (each thread works for the request the session waits for),
`WorkFollowsSave`, `ShutdownInOrder`, `Reserved` (the ids kept back cover everything that is already owed a save),
`DoubtIsKept` (a write is in doubt exactly as long as its bytes are kept, and they are of this revision and this story) and
`RequestIsCurrent` (the running storage request, its intent and what its thread has returned fit the session as it stands).
`OnDisk(p)` relates it to the slots: `CleanIsLanded`, `BoundIsPrimary`, `ReplyIsTrue` (what a thread has returned or published is true
of the disk), `StampsAreUnique` (over everything that landed, is tried, or is left to an orphan) and `NeverAgain` (an
attempt that landed cannot land again: what it was to replace is gone). The methods have one lemma per layer; the steps
of the world (the helper's two writes, an orphan, another process) only have `OnDisk` to keep.

The same module proves `Refinement`: the controller inside the program takes only steps of
`SessionProtocol`. The hypothesis `RestorableGames = Game` lets the protocol's caller hand in any game, because a restored
file may hold any. The proof adds two parts to `IInv`: `HistoryIsTrue` (the pending request is on record, and if it was
cancelled it is among the stopped) and `WorkFitsStory` (pending or failed work fits the stage, so that an accepted answer
changes the stage and is one the protocol knows). There is a simulation lemma for each group of steps:
what the player starts, edits and stops, a poll that delivers an answer, a poll that carries a storage reply. At most one of the
controller's methods runs in a step (`PollTakesOneStep`), although `poll` calls three of its clients. So what is proved of the protocol holds
of the controller inside the program.

**HeadlessProofs** proves `ToldOnce` and `EarnedExit` (the properties `StoryIsToldOnce` and `ExitIsEarned`) and `Typing`, for any texts,
queues, previews and counters; `HeadlessAssumption` asks for a slot and for room to restore a save and write it. The
invariant has two layers. `Base`: the session below is `Sound`, a storage thread publishes nothing before it replies (`Silent`), and the
outcome fits the queues, the place in the loop and the session (`Delivery`). `Telling`, as long as nothing was given up: the preview, the mailbox, the answer of the generator and
what was printed since the last turn are texts of *one* request (`PreviewOf`, `MailboxIsCurrent`, `AnswerIsCurrent`, `PrintedIsOfATurn`).
The heart is `LongerText`: of two texts of one request the longer continues the shorter, so that
what was printed of a preview is a beginning of whatever is shown next, or the answer
diverges and the driver starts over. A poll is followed through the driver's comparison of before and after: what it meets
(`PollMeets`), that it is shown (`PollIsShown`), and that nothing told is lost (`PollKeeps`).

**RepositoryProofs** proves, for any number of sessions, helpers, power losses and edits by hand:

* `ReceiptsAreForGood`, `BackupsAreAdjacent`, `DroppedIsGoneForGood`, `NothingIsOverwritten` and `Typing`;
* `Refinement`: the files implement SaveSlot.

The invariant has three parts, proved in this order. `Shape`: whoever is between lock and reply holds the lock, and who owns
which helper. `Secrecy`: every stamp in play was given out, and an attempt that is reported as not made, or whose only
helper has not put it there, has left no trace anywhere (`DroppedLeftNoTrace`, `AttemptsAreHidden`) - not even in what a
power loss might bring back. `Certainty`: what the program counter of a helper has established of the directory
(`StepsAreEstablished`), that at most the last replacement is in doubt (`OneInDoubt`), and that one of the documents with a receipt is the
newest (`AckedHasNewest`), which the refinement maps to the pledge. What is said of the
content of the files holds while `edits = 0`, as the two properties about it do; `DroppedIsGone` and `NothingOverwritten` need no such
condition.

**SupervisorProofs** proves all four safety properties of run `supervisor`, and `Typing`, for any limits, any output and any number of failing calls:

* `CauseReachesTheCaller` and `NoChildIsForgotten` (`FirstCauseIsReported` and `NoChildLeftUnsaid`). A step of supervision goes on
  or decides (`Supervises`), and a step of the cleanup may replace what was decided only in the ways of `CauseIsKept`;
  `UnreapedIsAFailure` carries a failed kill or reap to the answer.
* `LinesReachTheConsumer` and `SuccessIsTrue` (`RecordsInOrder` and `SuccessIsWhole`), from a second invariant, `Whole`, over the first.
  `StreamsAreTrue`: what was captured and what is in the pipe is what the child wrote, until a stream was cut off or failed,
  which is then no success any more. `LinesAreHandedOver`: the records accepted and those on their way are the lines of the
  captured bytes up to the framer's `start`, and there is no newline between there and `scanned`, where it goes on.
  `RestIsWhole`: only a child that exited by itself, with both streams read to their ends and nothing failing, gets to its last records.

`AreLines(parts, bytes, to)` says when parts are the lines of bytes, by the places where they end, and neither it nor the framer is
recursive. So the lemmas on lines hold for every sequence of bytes: more bytes do not change the lines before
(`LinesDependOnTheirBytes`), the first of some lines are lines (`FirstLines`), the pieces between the next newlines
are the lines that follow (`MoreLines`), and framing, with a rest or without, adds exactly these (`FramingAddsLines`, `FramingEndsLines`).
That a set of places can be listed in order (`PlacesCanBeListed`) is the one induction, and is argued by the smallest counterexample
from the well-foundedness of the naturals.

**GenerationProofs** proves `AnswersAreEarned`: for any conversation of either vendor, an answer is returned exactly when the records delivered are one.
The adapters judge record by record and forget; the property looks at the whole sequence. `ProtocolKnows` says what each state of a protocol
tells of all records so far: a preamble, an opened conversation whose blocks are in order (with the open blocks as the state has them),
an answer, not an answer any more; and `KeepsEvidence` that the candidate is the last document seen.
The lemmas on sequences (`Grown`, `FlawlessAfter`, ...) say how each notion changes with one record.

The second part of the module is about what stops a generation, and extends Cancellation too (whose specification therefore has
names of its own, `CancellationSpec` and so on, and a `flag` for `cancelled`). For any number of cancellers and subscribers and
with only `NoCallbackAssumption`:

* `CallsAreUnique`: no callback is called twice, and none whose registration was dropped in time;
* `NoWakeupIsLost`: once the flag is set, whoever is registered has been called or is ahead in the batch.

Neither is inductive. `Placed` (`EveryCallbackIsPlaced`) says where each callback is: in the slot it was given (`SlotsAreOwned`,
`SlotsAreKept`), or in the same place of the one batch that was taken (`OneBatch`, `BatchIsOwned`, with
exactly those behind `next` called), or nowhere. `FreeSlotIsFree` is the lemma about `register`'s search
for a slot: what it returns is empty or new, so nobody's callback is replaced. That there is a *first* empty slot
is the well-foundedness of the naturals. There is one lemma per action.

**StoryProofs** proves every property of run `story`, for any texts and spellings (any tables that trim, lower and slug as
`StoryAssumption` and `CodecAssumption` say), any worlds and turns a generator may send, any limits and a log of any length:

* `WellFormed`: the game `IsStory`;
* `SavedAsItIs` (`StoryCanBeSaved`): it can be saved, and the document read back is the game;
* `ReadAsItIs` (`LoadLosesNothing`): a document, spoilt or not, is refused or saved again as it is, but for kinds of actions that nobody knows;
* `NobodyIsLost` (`MemoryGrows`): a turn changes who it says, introduces who it says, and forgets what is oldest;
* `ShownAsItIs` (`ContextIsTheStory`): the chapters are the log, and the prose shown is its end.

`IsStory` says of every part of the game that it is what normalisation makes of its input: lists of distinct events, at most three
quick actions and so on, casts whose members have ids of their own with the protagonist first, a memory after each
turn within the limits. The argument has four steps.

1. *Normalisation makes such parts:* `EventListIs`, `OfferedIs`, `InitialCastIs`, `UpdatedCastIs` for a merge, and for the step itself `Begun`,
   `Continued`, `Undone`, `Restored`. That a newcomer always finds an id (`UniqueIsFree`) is the pigeonhole: there are more
   suffixes than people.
2. *Normalisation leaves such parts alone:* `EventListFixes`, `DistinctFixes`, `QuickActionsFixes`, `NewCastFixes`. The reader is strict because it
   normalises and compares, so this is why it accepts what was written. One lemma for each part of a document writes it
   (`WorldsSaved`, ..., `GamesSaved`) and one reads it back (`WorldsRead`, ..., `GamesRead`).
3. *Spoilt documents:* spoiling a document rearranges or replaces one part (`Rearranged`, `SpoiltMemory`, `SpoiltWorld`, ...); each way is refused, or it
   is a document again and the second step applies.
4. *Merging keeps:* `Merging` is what is known after some of a turn's changes: the cast `Continues` the one before, who was reached `IsChanged` by a change for
   them, who was not is still as before and every change that could be for them `IsTaken`, every name known is of somebody reached or of who had it last, and newcomers
   are known. `Resolving` says from this whom the next change is for; `Ignoring`, `Changing` and `Introducing` are its cases. Of the
   events, `Retelling` says that what was there stays in place and news follow, and `LatestIs` which of them are kept. For what is shown, `ChaptersAre` and `ProseIs` follow the two loops over the log.

The loops are recursive functions. A `...Steps` lemma unfolds each by one entry (`DistinctSteps`, `UpdatedCastSteps`, `ChaptersSteps`), and `Counting`
concludes from one entry to the next, by the smallest counterexample. So no induction theorem over an operator is needed.

**Only model-checked:**

* Liveness (`QuitDrains`, `EverythingSettles`, `Settles`, `EverybodyIsWoken`): fairness and ENABLED are beyond the prover.
* `PreviewIsOfTheAnswer`: it concatenates the pieces shown and runs the scanner over them. What a scanner of characters computes of every
  input is an induction over data: a fold with an operator as its parameter, which the prover cannot instantiate.
* `SelectionTakesANumber` is violated (see findings), and nothing is to be proved of it.

## 5. Not modelled, and why

* Prompts, templates, wire schemas and the scripted and demo generators: text, and stand-ins for a backend.
* Of the backends: how an executable is found, arguments and environment, token counts, provenance, cost.
* Argument parsing, choice of backend, terminal styling, `image.rs`.
* The wire protocol between the supervised repository and its helper: a request and a reply of one
  process; what can be lost of it is in PersistedSession.
* Migrations: there is one version, and `Upgrade` refuses all others.
* `Drop` of the controller and the runners: it cancels and joins on the way out of the process.
* `Inspect`: no session asks for it.
* Of the repository: listing, creation of the save directory and its sync, entry types and
  owners, and restoring from the backup (it only reads; the next save goes to a new id).

## 6. Status

The code's state machines are modelled, and all their safety properties and both refinements are proved, except for the ones listed
above. What could be added: the retries of `create` on a name that is taken, the frames between the repository and its
helper, and listing.
