----------------------------- MODULE Supervisor -----------------------------
(***************************************************************************)
(* The process supervisor: one request launches a child in a group of its  *)
(* own, writes its stdin, captures stdout and stderr within bounds, hands  *)
(* the records of stdout to a consumer, and stops and reaps the child      *)
(* before it answers.                                                      *)
(*                                                                         *)
(* The supervisor is one thread; a step is one system call or one call of  *)
(* the consumer with the bookkeeping behind it.  Between two steps the     *)
(* child writes, exits or leaves a descendant behind, the token is         *)
(* cancelled, and time passes.  A poll or read that is interrupted is a    *)
(* turn without effect and is left out; the wake pipe only shortens        *)
(* the wait, so what a turn does depends on the flag alone.                *)
(***************************************************************************)
EXTENDS Naturals, SequencesExt

CONSTANTS
    Input,         \* bytes of the request, all for stdin
    MaxStdout,     \* bound on captured stdout
    MaxStderr,     \* bound on captured stderr
    MaxWritten,    \* bound: bytes the child writes to stdout (MaxStderr + 1 to stderr)
    ReadChunk,     \* bytes read at once
    MaxFaults      \* bound: system calls that fail

ASSUME BoundsAssumption ==
    /\ {MaxStdout, MaxStderr, ReadChunk} \subseteq Nat \ {0}
    /\ {Input, MaxWritten, MaxFaults} \subseteq Nat

Streams == {"stdout", "stderr"}
Bound == [stdout |-> MaxStdout, stderr |-> MaxStderr]

Byte == {"text", "newline"}

VARIABLES
    pc,          \* where the supervisor is
    written,     \* bytes of the request that reached the pipe
    capture,     \* per stream: bytes kept, state, set to nonblocking
    framer,      \* offsets of the record framer into the captured stdout
    records,     \* records framed and not yet handed over
    ending,      \* why supervision ended
    failures,    \* cleanup steps that failed
    lifecycle,   \* of the child guard
    result,      \* the answer, then the errors it wraps, outermost first
    process,     \* the child itself
    escapee,     \* a descendant outside the group holds the pipes
    pipe,        \* per stream: bytes written and not yet read
    cancelled,   \* the token's flag
    faults,      \* system calls that failed so far
    produced,    \* history: all the child wrote, per stream
    consumed,    \* history: records the consumer accepted
    decided      \* history: the ending supervision decided on

supervisor == <<written, capture, framer, records, ending, failures, lifecycle, result>>
world == <<process, escapee, pipe, cancelled>>
history == <<produced, consumed, decided>>
vars == <<pc, supervisor, world, faults, history>>

None == "None"

LoopSteps == {"poll", "write", "readStdout", "consume", "accepted", "readStderr", "observe"}
CleanupSteps == {"stop", "reap", "drainStdout", "drainStderr", "drained", "consumeRest",
                 "settle", "settleRest", "drop", "dropReap"}
Steps == {"start", "configure", "close", "done"} \cup LoopSteps \cup CleanupSteps

EarlyEndings == {"IncompleteInput", "Io", "Cancelled", "Timeout", "OutputBound", "ConsumerRejected"}
Endings == EarlyEndings \cup {"Exited"}
Outcomes == EarlyEndings \cup {"Ok", "NonzeroExit", "Spawn", "Cleanup"}

Init ==
    /\ pc = "start"
    /\ written = 0
    /\ capture = [s \in Streams |-> [bytes |-> <<>>, state |-> "Open", nonblocking |-> FALSE]]
    /\ framer = [start |-> 0, scanned |-> 0]
    /\ records = <<>>
    /\ ending = None
    /\ failures = {}
    /\ lifecycle = None
    /\ result = <<>>
    /\ process = None
    /\ escapee = FALSE
    /\ pipe = [s \in Streams |-> <<>>]
    /\ cancelled = FALSE
    /\ faults = 0
    /\ produced = [s \in Streams |-> <<>>]
    /\ consumed = <<>>
    /\ decided = None
-----------------------------------------------------------------------------
(* The world around the supervisor.                                        *)

IsUp == process \in {"running", "dying"}
HasWriter == IsUp \/ escapee
Limit == [stdout |-> MaxWritten, stderr |-> MaxStderr + 1]

(* A step of the world is taken where the supervisor looks next: taken     *)
(* before, it would find and leave everything the same.                    *)
LooksAt(s) ==
    {"observe", "stop"} \cup (IF s = "stdout" THEN {"readStdout", "drainStdout"}
                                             ELSE {"readStderr", "drainStderr"})
LooksAtChild == {"reap", "dropReap"} \cup UNION {LooksAt(s) : s \in Streams}
LooksAtToken == {"start", "poll", "consume", "accepted", "consumeRest", "settleRest"}

(* Newlines count on stdout only, and never in a byte beyond the bound.    *)
Written(s) == IF s = "stdout" /\ Len(produced[s]) < MaxStdout THEN Byte ELSE {"text"}

ChildWrites(s) ==
    /\ pc \in LooksAt(s)
    /\ process = "running"
    /\ Len(produced[s]) < Limit[s]
    /\ \E b \in Written(s) :
           /\ pipe' = [pipe EXCEPT ![s] = Append(@, b)]
           /\ produced' = [produced EXCEPT ![s] = Append(@, b)]
    /\ UNCHANGED <<pc, supervisor, process, escapee, cancelled,
                   faults, consumed, decided>>

(* It exits, with zero or not, and may leave a descendant behind that      *)
(* holds the pipes open; or the killed child is finally gone, or the       *)
(* descendant is.                                                          *)
ChildEnds ==
    /\ pc \in LooksAtChild
    /\ \/ /\ process = "running"
          /\ process' \in {"exitedZero", "exitedNonzero"}
          /\ escapee' \in BOOLEAN
       \/ /\ process = "dying"
          /\ process' = "killed"
          /\ UNCHANGED escapee
       \/ /\ escapee
          /\ escapee' = FALSE
          /\ UNCHANGED process
    /\ UNCHANGED <<pc, supervisor, pipe, cancelled, faults, history>>

Cancel ==
    /\ pc \in LooksAtToken
    /\ ~cancelled
    /\ cancelled' = TRUE
    /\ UNCHANGED <<pc, supervisor, process, escapee, pipe, faults, history>>

Fails ==
    /\ faults < MaxFaults
    /\ faults' = faults + 1

Succeeds == UNCHANGED faults
-----------------------------------------------------------------------------
(* run_with: nothing is launched for a request that is cancelled already.  *)

Goto(step) == pc' = step

Answer(chain) ==
    /\ result' = chain
    /\ Goto("close")

Launch ==
    /\ pc = "start"
    /\ \/ /\ cancelled
          /\ Succeeds
          /\ Answer(<<"Cancelled">>)
          /\ UNCHANGED <<lifecycle, process>>
       \/ /\ ~cancelled
          /\ Fails
          /\ Answer(<<"Spawn">>)
          /\ UNCHANGED <<lifecycle, process>>
       \/ /\ ~cancelled
          /\ Succeeds
          /\ process' = "running"
          /\ lifecycle' = "Spawned"
          /\ Goto("configure")
          /\ UNCHANGED result
    /\ UNCHANGED <<written, capture, framer, records, ending, failures, escapee, pipe,
                   cancelled, history>>

(* supervise returns an ending; finish, which closes stdin, starts.        *)
End(e) ==
    /\ ending' = e
    /\ decided' = e
    /\ Goto("stop")

Continue(step) ==
    /\ Goto(step)
    /\ UNCHANGED <<ending, decided>>

SetNonblocking(streams) ==
    capture' = [s \in Streams |-> [capture[s] EXCEPT !.nonblocking = s \in streams]]

(* stdout, then stderr, then stdin: what comes behind a failure is not     *)
(* configured.                                                             *)
Configure ==
    /\ pc = "configure"
    /\ \/ /\ Succeeds
          /\ SetNonblocking(Streams)
          /\ Continue("poll")
       \/ /\ Fails
          /\ \E configured \in {{}, {"stdout"}} \cup (IF Input > 0 THEN {Streams} ELSE {}) :
                 SetNonblocking(configured)
          /\ End("Io")
    /\ UNCHANGED <<written, framer, records, failures, lifecycle, result, process,
                   escapee, pipe, cancelled, produced, consumed>>

(* The head of a turn: cancellation before the deadline, both before the   *)
(* poll, and cancellation again behind it.                                 *)
Poll ==
    /\ pc = "poll"
    /\ \/ /\ cancelled
          /\ Succeeds
          /\ End("Cancelled")
       \/ /\ ~cancelled
          /\ Fails
          /\ End("Io")
       \/ /\ ~cancelled
          /\ Succeeds
          /\ Continue("write")
    /\ UNCHANGED <<written, capture, framer, records, failures, lifecycle, result, process,
                   escapee, pipe, cancelled, produced, consumed>>

TimeOut ==
    /\ pc = "poll"
    /\ ~cancelled
    /\ End("Timeout")
    /\ UNCHANGED <<written, capture, framer, records, failures, lifecycle, result, world, faults,
                   produced, consumed>>

(* write_once.  stdin is closed once the request is delivered.  A full     *)
(* pipe takes nothing; without a reader the delivery is incomplete.        *)
WriteInput ==
    /\ pc = "write"
    /\ \/ /\ Succeeds
          /\ \E n \in IF HasWriter THEN 0..(Input - written) ELSE {0} :
                 written' = written + n
          /\ Continue("readStdout")
       \/ /\ written < Input
          /\ Succeeds
          /\ End("IncompleteInput")
          /\ UNCHANGED written
       \/ /\ written < Input
          /\ Fails
          /\ End("Io")
          /\ UNCHANGED written
    /\ UNCHANGED <<capture, framer, records, failures, lifecycle, result, process,
                   escapee, pipe, cancelled, produced, consumed>>
-----------------------------------------------------------------------------
(* read_once: at most one chunk.  One byte beyond the bound shows that     *)
(* there is more; only the bytes within it are kept.                       *)

Remaining(s) == Bound[s] - Len(capture[s].bytes)

Readable(s) == capture[s].nonblocking /\ capture[s].state = "Open"

Chunk(s) == SubSeq(pipe[s], 1, Min({Len(pipe[s]), Remaining(s) + 1, ReadChunk}))

Keep(s, chunk, state) ==
    /\ capture' = [capture EXCEPT
           ![s].bytes = @ \o SubSeq(chunk, 1, Min({Len(chunk), Remaining(s)})),
           ![s].state = state]
    /\ pipe' = [pipe EXCEPT ![s] = SubSeq(@, Len(chunk) + 1, Len(@))]

(* Nothing to read yet, or nothing to be read any more.                    *)
ReadNothing(s) ==
    /\ Readable(s) => pipe[s] = <<>> /\ HasWriter
    /\ UNCHANGED <<capture, pipe, faults>>

ReadEof(s) ==
    /\ Readable(s)
    /\ Succeeds
    /\ pipe[s] = <<>>
    /\ ~HasWriter
    /\ Keep(s, <<>>, "Eof")

ReadSome(s) ==
    /\ Readable(s)
    /\ Succeeds
    /\ pipe[s] # <<>>
    /\ Len(Chunk(s)) <= Remaining(s)
    /\ Keep(s, Chunk(s), "Open")

ReadExcess(s) ==
    /\ Readable(s)
    /\ Succeeds
    /\ Len(Chunk(s)) > Remaining(s)
    /\ Keep(s, Chunk(s), "Truncated")

ReadFails(s) ==
    /\ Readable(s)
    /\ Fails
    /\ Keep(s, <<>>, "Failed")
-----------------------------------------------------------------------------
(* RecordFramer: the records whose newline was not seen before, and at the *)
(* end the rest behind the last newline.                                   *)

IsIncreasing(s) == \A i, j \in DOMAIN s : i < j => s[i] < s[j]

(* A set of places in bytes, in order.                                     *)
InOrder(places, bytes) ==
    CHOOSE s \in SeqOf(places, Len(bytes)) : IsIncreasing(s) /\ Range(s) = places

(* Mutant: what was scanned before is scanned again.                       *)
NewlinesAnywhere(bytes, from) ==
    InOrder({i \in 1..Len(bytes) : bytes[i] = "newline"}, bytes)

NewlinesFrom(bytes, from) ==
    InOrder({i \in from..Len(bytes) : bytes[i] = "newline"}, bytes)

Records(bytes, final) ==
    LET ends == NewlinesFrom(bytes, framer.scanned + 1)
        starts == <<framer.start>> \o ends
        rest == SubSeq(bytes, Last(starts) + 1, Len(bytes))
        whole == [i \in 1..Len(ends) |-> SubSeq(bytes, starts[i] + 1, ends[i] - 1)]
    IN  [records |-> IF final /\ rest # <<>> THEN Append(whole, rest) ELSE whole,
         start |-> IF final THEN Len(bytes) ELSE Last(starts)]

Frame(final) ==
    LET framed == Records(capture'["stdout"].bytes, final) IN
    /\ records' = framed.records
    /\ framer' = [start |-> framed.start, scanned |-> Len(capture'["stdout"].bytes)]

(* A truncated or failed read ends supervision; anything else is followed  *)
(* by the records it completed.                                            *)
ReadStdout ==
    /\ pc = "readStdout"
    /\ \/ /\ ReadNothing("stdout") \/ ReadEof("stdout") \/ ReadSome("stdout")
          /\ Frame(FALSE)
          /\ Continue("consume")
       \/ /\ ReadExcess("stdout")
          /\ End("OutputBound")
          /\ UNCHANGED <<records, framer>>
       \/ /\ ReadFails("stdout")
          /\ End("Io")
          /\ UNCHANGED <<records, framer>>
    /\ UNCHANGED <<written, failures, lifecycle, result, process, escapee, cancelled,
                   produced, consumed>>

(* dispatch during supervision: the flag is read before and behind every   *)
(* call of the consumer, which may reject the record.                      *)
HandOver ==
    /\ consumed' = Append(consumed, Head(records))
    /\ records' = Tail(records)

Consume ==
    /\ pc = "consume"
    /\ \/ /\ records = <<>>
          /\ Continue("readStderr")
          /\ UNCHANGED <<records, consumed>>
       \/ /\ records # <<>> /\ cancelled
          /\ End("Cancelled")
          /\ records' = <<>>
          /\ UNCHANGED consumed
       \/ /\ records # <<>> /\ ~cancelled
          /\ HandOver
          /\ Continue("accepted")
       \/ /\ records # <<>> /\ ~cancelled
          /\ End("ConsumerRejected")
          /\ records' = <<>>
          /\ UNCHANGED consumed
    /\ UNCHANGED <<written, capture, framer, failures, lifecycle, result, process,
                   escapee, pipe, cancelled, faults, produced>>

Accepted ==
    /\ pc = "accepted"
    /\ IF cancelled THEN End("Cancelled") /\ records' = <<>>
                    ELSE Continue("consume") /\ UNCHANGED records
    /\ UNCHANGED <<written, capture, framer, failures, lifecycle, result, process,
                   escapee, pipe, cancelled, faults, produced, consumed>>

ReadStderr ==
    /\ pc = "readStderr"
    /\ \/ /\ ReadNothing("stderr") \/ ReadEof("stderr") \/ ReadSome("stderr")
          /\ Continue("observe")
       \/ /\ ReadExcess("stderr")
          /\ End("OutputBound")
       \/ /\ ReadFails("stderr")
          /\ End("Io")
    /\ UNCHANGED <<written, framer, records, failures, lifecycle, result, process,
                   escapee, cancelled, produced, consumed>>

(* Observed without reaping: the pid stays reserved until the group is     *)
(* signalled.                                                              *)
ObserveExit ==
    /\ pc = "observe"
    /\ \/ /\ Succeeds
          /\ IF IsUp THEN Continue("poll") ELSE End("Exited")
       \/ /\ Fails
          /\ End("Io")
    /\ UNCHANGED <<written, capture, framer, records, failures, lifecycle, result,
                   process, escapee, pipe, cancelled, produced, consumed>>
-----------------------------------------------------------------------------
(* finish: ChildGuard::stop kills the group and reaps within a grace.  A   *)
(* descendant that left the group survives the signal.                     *)

KillGroup ==
    /\ process' = IF process = "running" THEN "dying" ELSE process
    /\ escapee' \in {FALSE, escapee}

Stop ==
    /\ pc = "stop"
    /\ lifecycle' = "Stopping"
    /\ \/ /\ Succeeds
          /\ KillGroup
          /\ Goto("reap")
          /\ UNCHANGED failures
       \/ /\ Fails
          /\ failures' = failures \cup {"KillGroup"}
          /\ Goto("drainStdout")
          /\ UNCHANGED <<process, escapee>>
    /\ UNCHANGED <<written, capture, framer, records, ending, result, pipe, cancelled, history>>

(* Mutant: a child that is not reaped is nobody's concern.                 *)
AfterReapUnsaid(outcome, failed) ==
    /\ pc = "reap"
    /\ lifecycle' = outcome
    /\ Goto("drainStdout")
    /\ UNCHANGED <<written, capture, framer, records, ending, failures, result, world, history>>

AfterReap(outcome, failed) ==
    /\ pc = "reap"
    /\ lifecycle' = outcome
    /\ failures' = failures \cup failed
    /\ Goto("drainStdout")
    /\ UNCHANGED <<written, capture, framer, records, ending, result, world, history>>

Reap == ~IsUp /\ AfterReap("Reaped", {}) /\ Succeeds
ReapFails == AfterReap("Stopping", {"Reap"}) /\ Fails
ReapTimesOut == AfterReap("Stopping", {"Reap"}) /\ Succeeds

(* What the pipes still hold is read within the bounds.  Excess output     *)
(* counts only if nothing else went wrong before.                          *)
Drain(s, next) ==
    /\ \/ /\ ReadNothing(s) \/ ReadEof(s) \/ ReadSome(s)
          /\ UNCHANGED <<ending, failures>>
       \/ /\ ReadExcess(s)
          /\ ending' = IF ending = "Exited" THEN "OutputBound" ELSE ending
          /\ UNCHANGED failures
       \/ /\ ReadFails(s)
          /\ failures' = failures \cup {"Read"}
          /\ UNCHANGED ending
    /\ Goto(next)
    /\ UNCHANGED <<written, framer, records, lifecycle, result, process, escapee,
                   cancelled, history>>

DrainStdout == pc = "drainStdout" /\ Drain("stdout", "drainStderr")
DrainStderr == pc = "drainStderr" /\ Drain("stderr", "drained")

(* Mutant: only stdout is read to its end.                                 *)
PendingStdout == Readable("stdout")

Pending == \E s \in Streams : Readable(s)

StillDraining ==
    /\ pc = "drained"
    /\ Pending
    /\ Goto("drainStdout")
    /\ UNCHANGED <<supervisor, world, faults, history>>

(* Only a child that exited by itself, with nothing failing since, has its *)
(* last records handed over.                                               *)
AfterDraining(failed) ==
    /\ pc = "drained"
    /\ failures' = failures \cup failed
    /\ UNCHANGED capture
    /\ IF ending = "Exited" /\ failures' = {}
       THEN Frame(TRUE) /\ Goto("consumeRest")
       ELSE Goto("settle") /\ UNCHANGED <<framer, records>>
    /\ UNCHANGED <<written, ending, lifecycle, result, world, faults, history>>

(* Mutant: the grace counts only once nobody holds the pipe.               *)
DrainTimesOutAlone == Pending /\ ~HasWriter /\ AfterDraining({"Read"})

Drained == ~Pending /\ AfterDraining({})
DrainTimesOut == Pending /\ AfterDraining({"Read"})

(* dispatch once more: what stops it is settled below.                     *)
ConsumeRest ==
    /\ pc = "consumeRest"
    /\ \/ /\ records = <<>> \/ cancelled
          /\ records' = <<>>
          /\ Goto("settleRest")
          /\ UNCHANGED <<ending, consumed>>
       \/ /\ records # <<>> /\ ~cancelled
          /\ HandOver
          /\ UNCHANGED <<pc, ending>>
       \/ /\ records # <<>> /\ ~cancelled
          /\ ending' = "ConsumerRejected"
          /\ records' = <<>>
          /\ Goto("settleRest")
          /\ UNCHANGED consumed
    /\ UNCHANGED <<written, capture, framer, failures, lifecycle, result, world, faults,
                   produced, decided>>

(* Mutant: a cancellation during the cleanup is what the caller is told.   *)
FinalEndingCancelled == IF cancelled THEN "Cancelled" ELSE ending

(* Behind the last records, cancellation comes before a rejected one, and  *)
(* that before a request the child did not wait for.                       *)
FinalEnding ==
    IF pc = "settle" THEN ending
    ELSE IF cancelled THEN "Cancelled"
    ELSE IF ending = "Exited" /\ process = "exitedZero" /\ written < Input THEN "IncompleteInput"
    ELSE ending

(* Ending::outcome.  A child killed by a signal has no code and did not    *)
(* exit with zero.  The pipes are closed, whatever they still hold.        *)
Outcome(e) ==
    IF e # "Exited" THEN e
    ELSE IF lifecycle = "Reaped" /\ process = "exitedZero" THEN "Ok" ELSE "NonzeroExit"

Settle ==
    /\ pc \in {"settle", "settleRest"}
    /\ ending' = FinalEnding
    /\ result' = IF failures = {} THEN <<Outcome(ending')>>
                 ELSE IF ending' = "Exited" THEN <<"Cleanup">>
                 ELSE <<"Cleanup", Outcome(ending')>>
    /\ pipe' = [s \in Streams |-> <<>>]
    /\ Goto(IF lifecycle = "Reaped" THEN "close" ELSE "drop")
    /\ UNCHANGED <<written, capture, framer, records, failures, lifecycle, process,
                   escapee, cancelled,
                   faults, history>>

(* The guard that is dropped unreaped tries once more; nobody hears how it *)
(* went.                                                                   *)
DropGuard ==
    /\ pc = "drop"
    /\ \/ /\ Succeeds
          /\ KillGroup
          /\ Goto("dropReap")
       \/ /\ Fails
          /\ Goto("close")
          /\ UNCHANGED <<process, escapee>>
    /\ UNCHANGED <<supervisor, pipe, cancelled, history>>

DropReap(outcome) ==
    /\ pc = "dropReap"
    /\ lifecycle' = outcome
    /\ Goto("close")
    /\ UNCHANGED <<written, capture, framer, records, ending, failures, result, world, faults,
                   history>>

DropReaps == ~IsUp /\ DropReap("Reaped")
DropTimesOut == DropReap("Stopping")

(* run: the workspace of the request is removed, whatever the answer.      *)
CloseWorkspace ==
    /\ pc = "close"
    /\ \/ /\ Succeeds
          /\ UNCHANGED result
       \/ /\ Fails
          /\ result' = IF result = <<"Ok">> THEN <<"Cleanup">> ELSE <<"Cleanup">> \o result
    /\ Goto("done")
    /\ UNCHANGED <<written, capture, framer, records, ending, failures, lifecycle, process,
                   escapee, pipe, cancelled, history>>
-----------------------------------------------------------------------------
Supervise ==
    \/ Launch \/ Configure \/ Poll \/ WriteInput \/ ReadStdout \/ Consume \/ Accepted
    \/ ReadStderr \/ ObserveExit

Finish ==
    \/ Stop \/ Reap \/ DrainStdout \/ DrainStderr \/ StillDraining \/ Drained
    \/ ConsumeRest \/ Settle \/ DropGuard \/ DropReaps \/ CloseWorkspace

Clock == TimeOut \/ ReapTimesOut \/ DrainTimesOut \/ DropTimesOut

Next ==
    \/ Supervise \/ Finish \/ ReapFails \/ Clock
    \/ \E s \in Streams : ChildWrites(s)
    \/ ChildEnds \/ Cancel

Spec == Init /\ [][Next]_vars

(* The supervisor's thread runs on and the consumer returns.  A loop that  *)
(* reads the clock against a limit cannot go round for ever without        *)
(* passing it.  Nothing is asked of the child, of its descendants or of    *)
(* whoever might cancel.                                                   *)
FairSpec ==
    /\ Spec
    /\ WF_vars(Supervise)
    /\ WF_vars(Finish)
    /\ SF_vars(TimeOut)
    /\ WF_vars(ReapTimesOut)
    /\ SF_vars(DrainTimesOut)
    /\ WF_vars(DropTimesOut)
-----------------------------------------------------------------------------
TypeOK ==
    /\ pc \in Steps
    /\ written \in 0..Input
    /\ capture \in [Streams -> [bytes : Seq(Byte), nonblocking : BOOLEAN,
                                state : {"Open", "Eof", "Truncated", "Failed"}]]
    /\ \A s \in Streams : Len(capture[s].bytes) <= Bound[s]
    /\ framer \in [start : Nat, scanned : 0..Len(capture["stdout"].bytes)]
    /\ framer.start <= framer.scanned
    /\ {records, consumed} \subseteq Seq(Seq(Byte))
    /\ {pipe, produced} \subseteq [Streams -> Seq(Byte)]
    /\ {ending, decided} \subseteq Endings \cup {None}
    /\ failures \subseteq {"KillGroup", "Reap", "Read"}
    /\ lifecycle \in {None, "Spawned", "Stopping", "Reaped"}
    /\ result \in Seq(Outcomes)
    /\ process \in {None, "running", "dying", "killed", "exitedZero", "exitedNonzero"}
    /\ {escapee, cancelled} \subseteq BOOLEAN
    /\ faults \in 0..MaxFaults

(* The parts are the lines of the bytes up to some place: each of them is  *)
(* what lies before a newline and behind the one before it.                *)
AreLines(parts, bytes, to) ==
    \E ends \in [0..Len(parts) -> 0..Len(bytes)] :
        /\ ends[0] = 0
        /\ ends[Len(parts)] = to
        /\ IsIncreasing(ends)
        /\ \A i \in DOMAIN parts :
               /\ parts[i] = SubSeq(bytes, ends[i - 1] + 1, ends[i] - 1)
               /\ \A j \in ends[i - 1] + 1..ends[i] : bytes[j] = "newline" <=> j = ends[i]

(* The last record needs no newline.                                       *)
Terminated(bytes) ==
    IF bytes = <<>> \/ Last(bytes) = "newline" THEN bytes ELSE Append(bytes, "newline")

AreAllLines(parts, bytes) == AreLines(parts, Terminated(bytes), Len(Terminated(bytes)))

(* The consumer sees each record once, in the order and with the bytes the *)
(* child wrote; a record without its newline only after the child exited   *)
(* (RecordFramer, "offsets into the owned stdout capture").                *)
RecordsInOrder ==
    LET bytes == capture["stdout"].bytes IN
    \/ \E to \in 0..Len(bytes) : AreLines(consumed, bytes, to)
    \/ decided = "Exited" /\ AreAllLines(consumed, bytes)

(* Success is what its type promises (process.rs, ProcessOutcome and       *)
(* ProcessSpec): the child exited with zero and is reaped, the whole       *)
(* request was delivered, everything it wrote was captured, and every      *)
(* record of that was accepted.                                            *)
SuccessIsWhole ==
    result = <<"Ok">> =>
        /\ process = "exitedZero"
        /\ lifecycle = "Reaped"
        /\ written = Input
        /\ \A s \in Streams : capture[s].state = "Eof" /\ capture[s].bytes = produced[s]
        /\ AreAllLines(consumed, capture["stdout"].bytes)

(* Whatever ends supervision first is what the caller is told in the end,  *)
(* be it below a failed cleanup: killing, reaping, draining and the events *)
(* that happen meanwhile never turn one cause into another                 *)
(* (unix_impl.rs, "preserve any actual initiating failure").               *)
FirstCauseIsReported ==
    pc = "done" =>
        /\ decided \in EarlyEndings => Last(result) = decided
        /\ decided = "Exited" => Last(result) \notin {"Timeout", "Io"}

(* The request does not end with a child left behind unless it says so:    *)
(* the answer is a cleanup error that names the signal or the reaping.     *)
NoChildLeftUnsaid ==
    pc = "done" /\ process # None /\ lifecycle # "Reaped" =>
        /\ Head(result) = "Cleanup"
        /\ failures \cap {"KillGroup", "Reap"} # {}

(* Every request is answered, be the child silent, endless or unkillable   *)
(* and its pipes held by somebody else: deadline and grace see to it.      *)
Settles == <>(pc = "done")
=============================================================================
