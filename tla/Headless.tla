------------------------------ MODULE Headless ------------------------------
(***************************************************************************)
(* The headless driver: one loop that writes two terminal streams through  *)
(* bounded queues, reads the player's input, polls the session, shows the  *)
(* text of a turn while it is being generated, and in the end drains the   *)
(* queues.  The session is the one of SessionPersistence; its generation   *)
(* thread here also streams text through the worker's mailbox, and its     *)
(* storage thread answers with anything the disk might answer.             *)
(*                                                                         *)
(* A turn of the loop is three steps: pump the queues, act on the input,   *)
(* poll the session and show what happened.  The threads move where the    *)
(* driver looks at them, before a poll.                                    *)
(***************************************************************************)
EXTENDS SessionPersistence, SequencesExt

CONSTANTS
    Capacity,    \* steps whose text a queue holds (1 MiB)
    MaxText,     \* bound: bytes of a final text
    Starts       \* how the process is started: see Init

ASSUME HeadlessAssumption ==
    /\ Capacity \in Nat \ {0}
    /\ MaxText \in Nat \ {0}
    /\ Starts \subseteq {"fresh", "resumed"}
    /\ Slots # {}
    /\ MaxCounter >= 1
    /\ MaxStorageId >= 2

VARIABLES
    pc,          \* where the driver is
    session,     \* PersistedSession with its runners and threads
    mailbox,     \* text the generation thread has published
    answer,      \* final text of the turn that thread returns
    screen,      \* what the driver remembers and what it has written
    atEof,       \* the input has ended
    outcome,     \* how drive ended, then how run did
    committed    \* history: ids of the turns committed, in order

vars == <<pc, session, mailbox, answer, screen, atEof, outcome, committed>>

(* Mailbox.  Once something did not fit, nothing more is taken.            *)
EmptyMailbox == [text |-> 0, total |-> 0, incomplete |-> FALSE]

(* The view remembers how much of the preview is on the screen, and the    *)
(* input it is about to ask for.  paragraph and told are what the story    *)
(* stream shows: the text since its last line break, and the ids of the    *)
(* turns shown as one paragraph, whole and with nothing else in it.  Text  *)
(* is named by the request it came from, byte by byte.                     *)
Sink == [queued : 0..Capacity, faulted : BOOLEAN]
Edit == {"None", "Title", "Description"}
Screen ==
    [printed : Seq(Nat), edit : Edit, paragraph : Seq(Nat), told : Seq(Nat),
     story : Sink, control : Sink]

NewSink == [queued |-> 0, faulted |-> FALSE]
NewScreen ==
    [printed |-> <<>>, edit |-> "None", paragraph |-> <<>>, told |-> <<>>,
     story |-> NewSink, control |-> [NewSink EXCEPT !.queued = 1]]

SavedGame == [outline |-> [by |-> "generator", n |-> 0], limits |-> DefaultLimits,
              turns |-> <<0>>]
TheSlot == CHOOSE s \in Slots : TRUE
LoadedFrom(copy) == Loaded(TheSlot, copy, 0, SavedGame, FALSE)

Init ==
    /\ pc = "pump"
    /\ session \in {IF start = "fresh" THEN NewSession
                    ELSE AdmitLoaded(NewSession, LoadedFrom("primary"), TRUE) : start \in Starts}
    /\ mailbox = EmptyMailbox
    /\ answer = <<>>
    /\ screen = NewScreen
    /\ atEof = FALSE
    /\ outcome = "running"
    /\ committed = <<>>

ctl == session.ctl
Goto(step) == pc' = step
-----------------------------------------------------------------------------
(* QueuedOutput: a write is queued whole or refused.                       *)

Put(sink) == [sink EXCEPT !.queued = @ + 1]
Overflows(sink) == sink.queued > Capacity
Capped(sink) ==
    IF Overflows(sink) THEN [queued |-> Capacity, faulted |-> TRUE] ELSE sink

(* All that one step of the driver writes to a sink counts as one write.   *)
Say(s) == [s EXCEPT !.control = Put(screen.control)]
Show(s, bytes) == [s EXCEPT !.paragraph = @ \o bytes, !.story = Put(screen.story)]
LineBreak(s) == [s EXCEPT !.paragraph = <<>>, !.story = Put(screen.story)]

(* A handler leaves s behind; what it wrote too much ends the loop.        *)
Writes(s, step) ==
    /\ screen' = [s EXCEPT !.story = Capped(@), !.control = Capped(@)]
    /\ IF Overflows(s.story) \/ Overflows(s.control)
       THEN Goto("leave") /\ outcome' = "failed"
       ELSE Goto(step) /\ UNCHANGED outcome

(* pump: a sink takes some of what is queued, breaks, or has stalled for   *)
(* too long; an empty queue cannot fail.                                   *)
Delivered(sink) == {[sink EXCEPT !.queued = n] : n \in 0..sink.queued}
Faulted(sink) == IF sink.queued = 0 THEN {} ELSE {[sink EXCEPT !.faulted = TRUE]}

PumpBoth ==
    \E story \in Delivered(screen.story), control \in Delivered(screen.control) :
        screen' = [screen EXCEPT !.story = story, !.control = control]

PumpFails ==
    \/ \E story \in Faulted(screen.story) : screen' = [screen EXCEPT !.story = story]
    \/ \E story \in Delivered(screen.story), control \in Faulted(screen.control) :
           screen' = [screen EXCEPT !.story = story, !.control = control]

Pump ==
    /\ pc = "pump"
    /\ \/ PumpBoth /\ Goto("input") /\ UNCHANGED outcome
       \/ PumpFails /\ Goto("leave") /\ outcome' = "failed"
    /\ UNCHANGED <<session, mailbox, answer, atEof, committed>>
-----------------------------------------------------------------------------
(* The input.  Everything a line may be is one of the actions below; each  *)
(* acts on the session and tells the player.  After the end there is       *)
(* nothing but interrupts.                                                 *)

Input == pc = "input" /\ UNCHANGED <<mailbox, answer, committed>>
Line == Input /\ ~atEof /\ UNCHANGED atEof

Acts(p, s) == session' = p /\ Writes(s, "poll")

(* View::dispatch for an intent that starts a generation: the view starts  *)
(* anew with it.                                                           *)
StartsWork(c) ==
    /\ Admits(session, 1)
    /\ \E spawned \in BOOLEAN :
           LET p == RuntimeStart(session, c, spawned) IN
           Acts(p, Say(IF p.ctl.op.phase = "Running" THEN [screen EXCEPT !.printed = <<>>]
                       ELSE screen))

NoInput == Line /\ Acts(session, screen)

InputFails ==
    /\ Line
    /\ Goto("leave")
    /\ outcome' = "failed"
    /\ UNCHANGED <<session, screen>>

InputEnds ==
    /\ Input
    /\ atEof' = TRUE
    /\ Acts(DispatchQuit(session), screen)

(* An interrupt stops the generation, or else the program.                 *)
Interrupt ==
    /\ Input
    /\ IF ctl.op.phase \in {"Running", "Cancelling"}
       THEN Acts(DispatchCancel(session), Say(screen))
       ELSE Acts(DispatchQuit(session), screen)
    /\ UNCHANGED atEof

LineQuits == Line /\ Acts(DispatchQuit(session), screen)
LineCancels == Line /\ Acts(DispatchCancel(session), Say(screen))

(* /help, /inspect, /diagnostics, and whatever is malformed, unknown or    *)
(* refused.                                                                *)
LineReports == Line /\ Acts(session, Say(screen))

(* The persistence commands are admitted by the session, not by the view.  *)
LineStores ==
    /\ Line
    /\ \E spawned \in BOOLEAN :
           \/ \E copy \in BOOLEAN :
                  CanSave(session) /\ Acts(Save(session, copy, spawned), Say(screen))
           \/ CanList(session) /\ Acts(List(session, spawned), Say(screen))
           \/ \E copy \in {"primary", "backup"} :
                  /\ CanLoad(session)
                  /\ Acts(Load(session, TheSlot, copy, DefaultLimits, spawned), Say(screen))
           \/ \E count \in 1..MaxCounter :
                  /\ CanDispatchRewind(session, count)
                  /\ Acts(DispatchRewind(session, count, spawned), Say(screen))

(* Every other line waits for the storage and the generation.              *)
LineAtRest == Line /\ StorageIdle(session) /\ session.shutdown = "Open" /\ Ready(ctl)

LineRetries == LineAtRest /\ CanRetry(ctl) /\ StartsWork(Retry(ctl))

(* /edit asks for a title, then for a description, and gives the outline   *)
(* to the session.  A blank one is asked for again.                        *)
AsksFor(edit) == Acts(session, Say([screen EXCEPT !.edit = edit]))

LineEdits ==
    /\ LineAtRest
    /\ \/ screen.edit = "None" /\ ctl.stage.at = "OutlineReview" /\ AsksFor("Title")
       \/ screen.edit = "Title" /\ \E edit \in {"Title", "Description"} : AsksFor(edit)
       \/ screen.edit = "Description" /\ AsksFor("Description")
       \/ /\ screen.edit = "Description"
          /\ LET admitted == Admits(session, 1) /\ CanReplaceOutline(ctl) IN
             Acts(IF admitted THEN [session EXCEPT !.ctl = ReplaceOutline(ctl)] ELSE session,
                  Say([screen EXCEPT !.edit = "None"]))

(* Any other line answers what the stage asks for.                         *)
LineAnswers ==
    /\ LineAtRest
    /\ screen.edit = "None"
    /\ \/ CanSubmitBrief(ctl) /\ StartsWork(SubmitBrief(ctl))
       \/ CanAcceptOutline(ctl) /\ StartsWork(AcceptOutline(ctl))
       \/ /\ CanDispatchSelect(session)
          /\ \E spawned \in BOOLEAN : Acts(DispatchSelect(session, spawned), screen)
       \/ \E d \in Direction : CanTakeTurn(ctl, d) /\ StartsWork(TakeTurn(ctl, d))

ReadInput ==
    \/ NoInput \/ InputFails \/ InputEnds \/ Interrupt
    \/ LineQuits \/ LineCancels \/ LineReports \/ LineStores
    \/ LineRetries \/ LineEdits \/ LineAnswers
-----------------------------------------------------------------------------
(* The threads.                                                            *)

GeneratorWorks == session.worker.at = "Running" /\ session.worker.result = "nothing"
Id == session.worker.key.id

(* Mailbox::publish: what fits is taken, and never a part of a character.  *)
Publish(bytes) ==
    \E taken \in 0..bytes :
        /\ mailbox.total + taken <= MaxPreview
        /\ taken < bytes => mailbox.total + bytes > MaxPreview
        /\ mailbox' = [text |-> mailbox.text + taken, total |-> mailbox.total + taken,
                       incomplete |-> taken < bytes]

GeneratorStreams ==
    /\ pc = "poll"
    /\ GeneratorWorks
    /\ session.worker.work.kind = "Turn"
    /\ ~mailbox.incomplete
    /\ \E bytes \in 1..MaxText : Publish(bytes)
    /\ UNCHANGED <<pc, session, answer, screen, atEof, outcome, committed>>

(* The final text need not be what was streamed: a shorter one stands for  *)
(* any that does not begin with it.                                        *)
GeneratorEnds ==
    /\ pc \in {"poll", "closing"}
    /\ GeneratorWorks
    /\ \E result \in {"success", "failure", "panic"} :
           /\ session' = [session EXCEPT !.worker.result = result]
           /\ IF result = "success" /\ session.worker.work.kind = "Turn"
              THEN \E n \in 1..MaxText : answer' = [i \in 1..n |-> Id]
              ELSE UNCHANGED answer
    /\ UNCHANGED <<pc, mailbox, screen, atEof, outcome, committed>>

StorageWorks == session.storage.at = "Running" /\ session.storage.result = NoResult
Intent == session.storage.intent

Attempted ==
    IF Intent.op = "Reconcile" THEN Intent.pending
    ELSE [slot |-> TheSlot, prev |-> IF Intent.op = "Replace" THEN Intent.expected ELSE 0,
          doc |-> [stamp |-> session.storage.key.id, game |-> Intent.game]]

StorageAnswers ==
    CASE Intent.op = "List" -> {Listed, FailedWith("Unchanged")}
      [] Intent.op = "Load" -> {LoadedFrom(Intent.copy), FailedWith("Unchanged")}
      [] OTHER -> {Saved(Attempted)} \cup {FailedWith(v) : v \in {"Unchanged", "Unknown"}}

(* What was or may have been put in place was published before.            *)
EvidenceOf(result) ==
    IF result.is = "Saved" \/ (result.is = "Failed" /\ result.visibility = "Unknown")
    THEN Attempted ELSE NoAttempt

StorageEnds ==
    /\ pc \in {"poll", "closing"}
    /\ StorageWorks
    /\ \E result \in StorageAnswers :
           session' = [session EXCEPT !.storage.result = result,
                                      !.storage.evidence = EvidenceOf(result),
                                      !.storage.applied = result.is = "Saved"]
    /\ UNCHANGED <<pc, mailbox, answer, screen, atEof, outcome, committed>>
-----------------------------------------------------------------------------
(* Polling the session, and showing what happened.                         *)

(* WorkerRunner::poll reports the text before the end of the generation.   *)
Fed ==
    IF session.worker.at = "Running" /\ (mailbox.text > 0 \/ mailbox.incomplete)
    THEN [session EXCEPT !.ctl = Progress(@, session.worker.key, mailbox.text,
                                          mailbox.incomplete)]
    ELSE session

MailboxAfter ==
    IF session.worker.at = "Running" /\ session.worker.result = "nothing"
    THEN [mailbox EXCEPT !.text = 0] ELSE EmptyMailbox

Ended == session.worker.at = "Running" /\ session.worker.result # "nothing"

(* What complete and worker_failed tell the view.                          *)
Committed == Ended /\ session.worker.result = "success"
                  /\ Commits(ctl, session.worker.key, Outcome(session.worker))
Rejected == Ended /\ ~Committed /\ ctl.op.phase \in {"Running", "Cancelling"}
CommittedTurn == Committed /\ session.worker.work.kind = "Turn"

(* Mutants: the suffix is shown whatever was printed; the preview of what  *)
(* failed stays in the line.                                               *)
ShowSuffix(s, incomplete) ==
    LineBreak(Show(s, SubSeq(answer, Len(s.printed) + 1, Len(answer))))
KeepRejected(s) == [s EXCEPT !.printed = <<>>]

(* View::committed.  Only the rest of a text that begins with the preview  *)
(* is shown; any other text replaces it, in a line of its own.  (It begins *)
(* with it if it is long enough: both are text of one request.)            *)
ShowFinal(s, incomplete) ==
    IF Len(s.printed) <= Len(answer) /\ ~incomplete
    THEN Show(s, SubSeq(answer, Len(s.printed) + 1, Len(answer)))
    ELSE Show(LineBreak(s), answer)

ShowCommitted(s, incomplete) ==
    LET shown == ShowFinal(s, incomplete)
        told == IF shown.paragraph = answer THEN Append(s.told, Id) ELSE s.told
    IN [Say(LineBreak(shown)) EXCEPT !.printed = <<>>, !.told = told]

ShowRejected(s) ==
    [(IF s.printed = <<>> THEN s ELSE LineBreak(s)) EXCEPT !.printed = <<>>]

ShowGeneration(s, p) ==
    IF CommittedTurn THEN ShowCommitted(s, p.ctl.incomplete)
    ELSE IF Committed THEN Say(s)
    ELSE IF Rejected THEN Say(ShowRejected(s))
    ELSE s

StorageEnded == session.storage.at = "Running" /\ session.storage.result # NoResult

(* A loaded game has a view of its own.                                    *)
ShowStorage(s) ==
    IF ~StorageEnded THEN s
    ELSE IF session.storage.result.is = "Loaded" /\ session.shutdown = "Open"
    THEN Say([s EXCEPT !.edit = "None", !.printed = <<>>])
    ELSE Say(s)

ShowPreview(s, p) ==
    LET preview == p.ctl.preview IN
    IF p.ctl.op.phase = "Running" /\ Len(preview) > Len(s.printed)
    THEN [Say(Show(s, SubSeq(preview, Len(s.printed) + 1, Len(preview)))) EXCEPT
              !.printed = preview]
    ELSE s

ShowClosing(s) == Say(IF s.printed = <<>> THEN s ELSE LineBreak(s))

Poll ==
    /\ pc = "poll"
    /\ \E spawned \in BOOLEAN :
           LET p == PollAll(Fed, spawned)
               shown == ShowPreview(ShowStorage(ShowGeneration(screen, p)), p)
           IN  /\ session' = p
               /\ IF p.shutdown = "DrainingOutput" THEN Writes(ShowClosing(shown), "drain")
                  ELSE Writes(shown, "pump")
    /\ mailbox' = MailboxAfter
    /\ committed' = IF CommittedTurn THEN Append(committed, Id) ELSE committed
    /\ answer' = IF Ended THEN <<>> ELSE answer
    /\ UNCHANGED atEof
-----------------------------------------------------------------------------
(* Leaving.  The queues are drained against one deadline; an interrupt     *)
(* gives up on it.                                                         *)

Drained == screen'.story.queued = 0 /\ screen'.control.queued = 0

Drain ==
    /\ pc = "drain"
    /\ PumpBoth
    /\ IF Drained
       THEN /\ session' = [session EXCEPT !.shutdown = "Closed"]
            /\ outcome' = "ok"
            /\ Goto("leave")
       ELSE UNCHANGED <<session, outcome, pc>>
    /\ UNCHANGED <<mailbox, answer, atEof, committed>>

DrainFails ==
    /\ pc = "drain"
    /\ PumpFails \/ UNCHANGED screen
    /\ outcome' = "failed"
    /\ Goto("leave")
    /\ UNCHANGED <<session, mailbox, answer, atEof, committed>>

(* run: however the loop ended, the session is asked to quit, and polled   *)
(* until it has saved and joined its threads.                              *)
Leave ==
    /\ pc = "leave"
    /\ session' = DispatchQuit(session)
    /\ Goto("closing")
    /\ UNCHANGED <<mailbox, answer, screen, atEof, outcome, committed>>

(* Mutant: a broken terminal ends the loop at once.                        *)
IsClosedOrMute ==
    session.shutdown \in {"DrainingOutput", "Closed"} \/ screen.control.faulted

IsClosed == session.shutdown \in {"DrainingOutput", "Closed"}

(* A faulted sink gets nothing more.                                       *)
PumpHealthy ==
    \E story \in IF screen.story.faulted THEN {screen.story}
                  ELSE Delivered(screen.story) \cup Faulted(screen.story),
       control \in IF screen.control.faulted THEN {screen.control}
                    ELSE Delivered(screen.control) \cup Faulted(screen.control) :
        screen' = [screen EXCEPT !.story = story, !.control = control]

Close ==
    /\ pc = "closing"
    /\ ~IsClosed
    /\ \E spawned \in BOOLEAN : session' = PollAll(Fed, spawned)
    /\ mailbox' = MailboxAfter
    /\ answer' = IF Ended THEN <<>> ELSE answer
    /\ PumpHealthy
    /\ UNCHANGED <<pc, atEof, outcome, committed>>

Exit ==
    /\ pc = "closing"
    /\ IsClosed
    /\ outcome' = IF outcome = "ok" /\ ExitFailed(session) THEN "failed" ELSE outcome
    /\ Goto("done")
    /\ UNCHANGED <<session, mailbox, answer, screen, atEof, committed>>
-----------------------------------------------------------------------------
Driver == Pump \/ ReadInput \/ Poll \/ Drain \/ DrainFails \/ Leave \/ Close \/ Exit

Next == Driver \/ GeneratorStreams \/ GeneratorEnds \/ StorageEnds

Spec == Init /\ [][Next]_vars
-----------------------------------------------------------------------------
TypeOK ==
    /\ pc \in {"pump", "input", "poll", "drain", "leave", "closing", "done"}
    /\ session \in Session
    /\ mailbox \in [text : 0..MaxPreview, total : 0..MaxPreview, incomplete : BOOLEAN]
    /\ answer \in Seq(Nat)
    /\ screen \in Screen
    /\ atEof \in BOOLEAN
    /\ outcome \in {"running", "ok", "failed"}
    /\ committed \in Seq(Nat)

(* What the reader of the story stream sees.  Every committed turn appears *)
(* exactly once, in order, as one paragraph that is its final text and     *)
(* nothing else, however much of it was shown before it was final; and the *)
(* paragraph that is still open is what the view remembers: the beginning  *)
(* of the preview of the one request under way.                            *)
StoryIsToldOnce ==
    pc \in {"pump", "input", "poll", "drain"} =>
        /\ screen.told = committed
        /\ pc # "drain" => screen.paragraph = screen.printed
        /\ screen.printed # <<>> /\ session.shutdown = "Open" =>
               /\ Pending(ctl)
               /\ \A i \in DOMAIN screen.printed : screen.printed[i] = ctl.op.key.id
               /\ ctl.op.phase = "Running" => IsPrefix(screen.printed, ctl.preview)

(* Exit with success: the story is saved, no thread failed, everything was *)
(* delivered.  Exit without it: the last save was tried all the same, also *)
(* if the terminal is what failed (headless.rs, "A terminal fault cannot   *)
(* bypass the obligatory canonical save").                                 *)
ExitIsEarned ==
    pc = "done" =>
        /\ outcome = "ok" =>
               /\ HasGame(ctl) => session.durability = "Clean"
               /\ ~session.workerFault
               /\ \A sink \in {screen.story, screen.control} :
                      sink.queued = 0 /\ ~sink.faulted
        /\ HasGame(ctl) /\ session.durability # "Clean" =>
               session.finalAttempted \/ session.lastStorageId = MaxStorageId

(* The prompt of the selection, "enter a one-based number" (headless.rs):  *)
(* a line typed there is the choice, not half of an outline that was being *)
(* edited before.                                                          *)
SelectionTakesANumber ==
    ctl.stage.at = "CastSelection" /\ Ready(ctl) => screen.edit = "None"
=============================================================================
