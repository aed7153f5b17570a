-------------------------- MODULE SupervisorProofs --------------------------
(***************************************************************************)
(* Theorems about Supervisor for any request, any bounds and any number of *)
(* faults: the first cause of an ending is what the caller is told, no     *)
(* child is left behind unsaid, the consumer gets the lines of stdout in   *)
(* order, and a success is whole.                                          *)
(***************************************************************************)
EXTENDS Supervisor, SequenceTheorems, WellFoundedInduction, NaturalsInduction, TLAPS

----------------------------------------------------------------------------
(***************************************************************************)
(* The inductive invariant: what is settled in each phase of a request.    *)
(***************************************************************************)
Supervising == LoopSteps \cup {"configure"}
Answered == {"drop", "dropReap", "close", "done"}

(* The type of what the cleanup is about.                                  *)
CleanupTypeOK ==
    /\ pc \in Steps
    /\ decided \in Endings \cup {None}
    /\ ending \in Endings \cup {None}
    /\ result \in Seq(Outcomes)

(* No child before the launch, a child and no ending as long as it is      *)
(* supervised, and a child and a decision in the cleanup.                  *)
PhasesInOrder ==
    /\ pc = "start" => process = None
    /\ pc \in Supervising => process # None
    /\ pc \in {"start"} \cup Supervising => failures = {}
    /\ pc \in {"start"} \cup Supervising => decided = None
    /\ pc \in CleanupSteps => process # None
    /\ pc \in {"drop", "dropReap"} => lifecycle # "Reaped"
    /\ process = None <=> lifecycle = None
    /\ process # None /\ pc \notin Supervising => decided # None
    /\ process = None => decided = None

(* The cleanup replaces an ending only if the child exited by itself, and  *)
(* then not by one that belongs to the time before.                        *)
MayReplaceExit == {"Exited", "OutputBound", "ConsumerRejected", "Cancelled", "IncompleteInput"}

CauseIsKept ==
    /\ decided \in EarlyEndings => ending = decided
    /\ decided = "Exited" => ending \in MayReplaceExit
    /\ pc \in {"consumeRest", "settleRest"} => decided = "Exited"

(* Behind the stop, a child that is not reaped has left a failure behind.  *)
UnreapedIsAFailure ==
    process # None /\ pc \in {"close", "done"} \cup (CleanupSteps \ {"stop", "reap"})
            /\ lifecycle # "Reaped"
        => failures \cap {"KillGroup", "Reap"} # {}

(* The answer names the cleanup first if that failed, and the cause last.  *)
AnswerIsTrue ==
    process # None /\ pc \in Answered =>
        /\ result # <<>>
        /\ failures # {} => Head(result) = "Cleanup"
        /\ decided \in EarlyEndings => Last(result) = decided
        /\ decided = "Exited" => Last(result) \notin {"Timeout", "Io"}

IInv ==
    /\ CleanupTypeOK
    /\ PhasesInOrder
    /\ CauseIsKept
    /\ UnreapedIsAFailure
    /\ AnswerIsTrue

----------------------------------------------------------------------------
(***************************************************************************)
(* The steps keep it.                                                      *)
(***************************************************************************)
(* A step of supervision goes on, or it decides on an ending.              *)
Supervises ==
    /\ pc \in Supervising
    /\ \/ \E step \in Supervising : Continue(step)
       \/ \E e \in Endings : End(e)
    /\ UNCHANGED <<failures, lifecycle, result, process>>

(* The supervisor's steps keep the invariant.                              *)
LEMMA SupervisesSteps ==
    ASSUME IInv, Supervises
    PROVE  IInv'
<1>. USE DEF Supervising, LoopSteps, CleanupSteps, Answered, None
<1>1. /\ ending' \in Endings \cup {None} /\ decided' \in Endings \cup {None}
      /\ \/ decided' = None /\ pc' \in Supervising
         \/ decided' = ending' /\ decided' # None /\ pc' = "stop"
  BY DEF IInv, PhasesInOrder, Supervises, Continue, End, Goto, CleanupTypeOK, Endings, EarlyEndings
<1>2. CleanupTypeOK'
  BY <1>1 DEF IInv, CleanupTypeOK, Supervises, Steps
<1>3. PhasesInOrder'
  BY <1>1 DEF IInv, PhasesInOrder, Supervises
<1>4. CauseIsKept'
  BY <1>1 DEF CauseIsKept, EarlyEndings, MayReplaceExit
<1>5. UnreapedIsAFailure' /\ AnswerIsTrue'
  BY <1>1 DEF UnreapedIsAFailure, AnswerIsTrue
<1>. QED  BY <1>2, <1>3, <1>4, <1>5 DEF IInv

(* Every step of supervise is of this kind.                                *)
LEMMA SuperviseStep ==
    ASSUME IInv, Supervise \/ TimeOut, pc # "start"
    PROVE  IInv'
<1>. USE DEF Supervises, Supervising, LoopSteps, Continue, End, Endings, EarlyEndings
<1>1. CASE Configure
  BY <1>1, SupervisesSteps DEF Configure
<1>2. CASE Poll \/ TimeOut
  BY <1>2, SupervisesSteps DEF Poll, TimeOut, world
<1>3. CASE WriteInput
  BY <1>3, SupervisesSteps DEF WriteInput
<1>4. CASE ReadStdout
  <2>. HIDE DEF Continue, End
  <2>1. pc = "readStdout" /\ (Continue("consume") \/ End("OutputBound") \/ End("Io"))
        /\ UNCHANGED <<failures, lifecycle, result, process>>
    BY <1>4 DEF ReadStdout
  <2>. QED  BY <2>1, SupervisesSteps
<1>5. CASE Consume \/ Accepted
  BY <1>5, SupervisesSteps DEF Consume, Accepted
<1>6. CASE ReadStderr
  BY <1>6, SupervisesSteps DEF ReadStderr
<1>7. CASE ObserveExit
  BY <1>7, SupervisesSteps DEF ObserveExit
<1>. QED
  BY <1>1, <1>2, <1>3, <1>4, <1>5, <1>6, <1>7 DEF Supervise, Launch

(* A request without a child has no cause, whatever it is answered.        *)
LEMMA LaunchStep ==
    ASSUME IInv, Launch
    PROVE  IInv'
<1>. USE DEF Supervising, LoopSteps, CleanupSteps, Answered, None
<1>1. /\ pc = "start" /\ process = None /\ lifecycle = None /\ decided = None
      /\ ending' = ending /\ decided' = decided /\ failures' = failures
  BY DEF Launch, IInv, PhasesInOrder, history
<1>2. CASE \E cause \in {"Cancelled", "Spawn"} :
              Answer(<<cause>>) /\ UNCHANGED <<lifecycle, process>>
  <2>1. result' \in Seq(Outcomes) /\ pc' = "close"
    BY <1>2 DEF Answer, Goto, Outcomes, EarlyEndings
  <2>. QED
    BY <1>1, <1>2, <2>1
    DEF IInv, CleanupTypeOK, PhasesInOrder, CauseIsKept, UnreapedIsAFailure, AnswerIsTrue,
        Steps, EarlyEndings, Endings
<1>3. CASE /\ process' = "running" /\ lifecycle' = "Spawned"
           /\ Goto("configure") /\ UNCHANGED result
  <2>1. failures = {}
    BY <1>1 DEF IInv, PhasesInOrder
  <2>. QED
    BY <1>1, <1>3, <2>1
    DEF IInv, CleanupTypeOK, PhasesInOrder, CauseIsKept, UnreapedIsAFailure, AnswerIsTrue,
        Goto, Steps, EarlyEndings, Endings
<1>. QED  BY <1>2, <1>3 DEF Launch

(* A step of finish, before the answer, keeps the decision.  It may replace *)
(* an exit, and if it leaves the child unreaped it says so.                *)
Finishes ==
    /\ pc \in CleanupSteps
    /\ pc' \in CleanupSteps \ {"stop", "drop", "dropReap"}
    /\ \/ ending' = ending
       \/ ending = "Exited" /\ ending' \in MayReplaceExit
       \/ decided = "Exited" /\ ending' \in MayReplaceExit
    /\ pc' \in {"consumeRest", "settleRest"} => ending = "Exited" \/ decided = "Exited"
    /\ \/ failures \cap {"KillGroup", "Reap"} \subseteq failures' /\ lifecycle' = lifecycle
             /\ pc \notin {"stop", "reap"}
       \/ pc' = "reap"
       \/ failures' \cap {"KillGroup", "Reap"} # {}
       \/ lifecycle' = "Reaped"
    /\ process' # None /\ lifecycle' # None
    /\ UNCHANGED <<result, decided>>

(* The steps that end a call keep it.                                      *)
LEMMA FinishesSteps ==
    ASSUME IInv, Finishes
    PROVE  IInv'
<1>1. /\ process # None /\ decided # None /\ decided' = decided
      /\ decided \in EarlyEndings => ending = decided
      /\ decided = "Exited" => ending \in MayReplaceExit
      /\ decided \in Endings
  BY DEF Finishes, IInv, PhasesInOrder, CauseIsKept, CleanupTypeOK, CleanupSteps,
         Supervising, LoopSteps, None
<1>2. CleanupTypeOK'
  BY <1>1 DEF Finishes, IInv, CleanupTypeOK, Steps, MayReplaceExit, Endings, EarlyEndings
<1>3. PhasesInOrder'
  BY <1>1 DEF Finishes, PhasesInOrder, CleanupSteps, Supervising, LoopSteps
<1>4. CauseIsKept'
  BY <1>1 DEF Finishes, CauseIsKept, EarlyEndings, MayReplaceExit, Endings
<1>5. UnreapedIsAFailure'
  BY <1>1 DEF Finishes, IInv, UnreapedIsAFailure, CleanupSteps
<1>6. AnswerIsTrue'
  BY DEF Finishes, AnswerIsTrue, Answered, CleanupSteps
<1>. QED  BY <1>2, <1>3, <1>4, <1>5, <1>6 DEF IInv

(* The end of a call keeps it.                                             *)
LEMMA FinishStep ==
    ASSUME IInv, pc \in CleanupSteps \ {"settle", "settleRest", "drop", "dropReap"},
           Finish \/ ReapFails \/ ReapTimesOut \/ DrainTimesOut
    PROVE  IInv'
<1>. USE DEF Finishes, CleanupSteps, Goto
<1>1. /\ process # None /\ lifecycle # None
      /\ pc \in {"consumeRest", "settleRest"} => decided = "Exited"
      /\ ending \in Endings \cup {None}
  BY DEF IInv, PhasesInOrder, CauseIsKept, CleanupTypeOK
<1>2. CASE Stop
  BY <1>1, <1>2, FinishesSteps DEF Stop, KillGroup, None, history
<1>3. CASE Reap \/ ReapFails \/ ReapTimesOut
  BY <1>1, <1>3, FinishesSteps DEF Reap, ReapFails, ReapTimesOut, AfterReap, None, world, history
<1>4. CASE DrainStdout \/ DrainStderr
  <2>1. /\ pc \in {"drainStdout", "drainStderr"} /\ pc' \in {"drainStderr", "drained"}
        /\ UNCHANGED <<lifecycle, result, process, decided>>
        /\ ending' = ending \/ (ending = "Exited" /\ ending' = "OutputBound")
        /\ failures \subseteq failures'
    BY <1>4 DEF DrainStdout, DrainStderr, Drain, history
  <2>. QED  BY <1>1, <2>1, FinishesSteps DEF MayReplaceExit
<1>5. CASE StillDraining
  BY <1>1, <1>5, FinishesSteps DEF StillDraining, supervisor, world, history
<1>6. CASE Drained \/ DrainTimesOut
  <2>1. /\ pc = "drained" /\ failures \subseteq failures'
        /\ ending' = ending
        /\ (ending = "Exited" /\ pc' = "consumeRest") \/ pc' = "settle"
        /\ UNCHANGED <<lifecycle, result, process, decided>>
    BY <1>6 DEF Drained, DrainTimesOut, AfterDraining, world, history
  <2>. QED  BY <1>1, <2>1, FinishesSteps
<1>7. CASE ConsumeRest
  <2>1. /\ pc = "consumeRest" /\ pc' \in {"consumeRest", "settleRest"}
        /\ ending' \in {ending, "ConsumerRejected"}
        /\ UNCHANGED <<failures, lifecycle, result, process, decided>>
    BY <1>7 DEF ConsumeRest, world
  <2>. QED  BY <1>1, <2>1, FinishesSteps DEF MayReplaceExit
<1>. QED
  BY <1>2, <1>3, <1>4, <1>5, <1>6, <1>7
  DEF Finish, Settle, DropGuard, DropReaps, DropReap, CloseWorkspace

(* The answer: the cause last, below a cleanup that failed.                *)
LEMMA SettleStep ==
    ASSUME IInv, Settle
    PROVE  IInv'
<1>1. /\ pc \in {"settle", "settleRest"} /\ process # None /\ lifecycle # None
      /\ decided # None /\ decided \in Endings
      /\ decided \in EarlyEndings => ending = decided
      /\ decided = "Exited" => ending \in MayReplaceExit
      /\ pc = "settleRest" => decided = "Exited"
      /\ lifecycle # "Reaped" => failures \cap {"KillGroup", "Reap"} # {}
  BY DEF Settle, IInv, PhasesInOrder, CauseIsKept, UnreapedIsAFailure, CleanupTypeOK,
         CleanupSteps, Supervising, LoopSteps, None
<1>2. /\ decided' = decided /\ failures' = failures /\ lifecycle' = lifecycle
      /\ process' = process
      /\ pc' = IF lifecycle = "Reaped" THEN "close" ELSE "drop"
      /\ ending' = FinalEnding
  BY DEF Settle, Goto, history
<1>3. /\ decided \in EarlyEndings => ending' = decided
      /\ decided = "Exited" => ending' \in MayReplaceExit
  BY <1>1, <1>2 DEF FinalEnding, EarlyEndings, MayReplaceExit
<1>4. ending' \in Endings
  BY <1>1, <1>3 DEF Endings, EarlyEndings, MayReplaceExit
<1>. DEFINE outcome == Outcome(ending')
<1>5. /\ outcome \in Outcomes
      /\ ending' # "Exited" => outcome = ending'
      /\ ending' = "Exited" => outcome \in {"Ok", "NonzeroExit"}
  BY <1>2, <1>4 DEF Outcome, Outcomes, Endings
<1>. HIDE DEF outcome
<1>6. result' = IF failures = {} THEN <<outcome>>
                ELSE IF ending' = "Exited" THEN <<"Cleanup">>
                ELSE <<"Cleanup", outcome>>
  BY DEF Settle, outcome
<1>7. /\ result' \in Seq(Outcomes) /\ result' # <<>>
      /\ failures # {} => Head(result') = "Cleanup"
      /\ Last(result') = outcome \/ (ending' = "Exited" /\ Last(result') = "Cleanup")
  <2>1. "Cleanup" \in Outcomes
    BY DEF Outcomes
  <2>. QED  BY <1>5, <1>6, <2>1 DEF Last
<1>8. CleanupTypeOK'
  BY <1>1, <1>2, <1>4, <1>7 DEF CleanupTypeOK, Steps, CleanupSteps
<1>9. PhasesInOrder'
  BY <1>1, <1>2 DEF IInv, PhasesInOrder, Supervising, LoopSteps
<1>10. CauseIsKept'
  BY <1>2, <1>3 DEF CauseIsKept
<1>11. UnreapedIsAFailure'
  BY <1>1, <1>2 DEF UnreapedIsAFailure
<1>12. AnswerIsTrue'
  BY <1>2, <1>3, <1>5, <1>7 DEF AnswerIsTrue, EarlyEndings, MayReplaceExit
<1>. QED  BY <1>8, <1>9, <1>10, <1>11, <1>12 DEF IInv

(* What follows the answer changes neither cause nor failures.             *)
LEMMA DropStep ==
    ASSUME IInv, DropGuard \/ DropReaps \/ DropTimesOut
    PROVE  IInv'
<1>1. /\ pc \in {"drop", "dropReap"} /\ pc' \in {"dropReap", "close"}
      /\ UNCHANGED <<ending, failures, result, decided>>
      /\ process # None /\ process' # None /\ lifecycle # None /\ decided # None
      /\ lifecycle' \in {lifecycle, "Reaped", "Stopping"}
      /\ failures \cap {"KillGroup", "Reap"} # {} /\ lifecycle # "Reaped"
      /\ pc' = "dropReap" => lifecycle' = lifecycle
  BY DEF DropGuard, DropReaps, DropTimesOut, DropReap, KillGroup, Goto, supervisor, world, history,
         IInv, PhasesInOrder, UnreapedIsAFailure, CleanupSteps, Supervising, LoopSteps, None
<1>2. CleanupTypeOK'
  BY <1>1 DEF IInv, CleanupTypeOK, Steps, CleanupSteps
<1>3. PhasesInOrder'
  BY <1>1 DEF IInv, PhasesInOrder, Supervising, LoopSteps, CleanupSteps, None
<1>4. CauseIsKept'
  BY <1>1 DEF IInv, CauseIsKept
<1>5. UnreapedIsAFailure'
  BY <1>1 DEF UnreapedIsAFailure
<1>6. AnswerIsTrue'
  BY <1>1 DEF IInv, AnswerIsTrue, Answered
<1>. QED  BY <1>2, <1>3, <1>4, <1>5, <1>6 DEF IInv

(* A cleanup error of the workspace goes around the answer, or replaces a  *)
(* success: the cause below stays the last one.                            *)
LEMMA CloseWorkspaceStep ==
    ASSUME IInv, CloseWorkspace
    PROVE  IInv'
<1>1. /\ pc = "close" /\ pc' = "done"
      /\ UNCHANGED <<ending, failures, lifecycle, process, decided>>
      /\ result \in Seq(Outcomes)
  BY DEF CloseWorkspace, Goto, history, IInv, CleanupTypeOK
<1>2. CASE UNCHANGED result
  BY <1>1, <1>2
  DEF IInv, CleanupTypeOK, PhasesInOrder, CauseIsKept, UnreapedIsAFailure, AnswerIsTrue,
      Steps, Supervising, LoopSteps, CleanupSteps, Answered
<1>3. CASE result = <<"Ok">> /\ result' = <<"Cleanup">>
  <2>1. result' \in Seq(Outcomes) /\ result' # <<>> /\ Head(result') = "Cleanup"
        /\ Last(result') = "Cleanup" /\ Last(result) = "Ok"
    BY <1>3 DEF Outcomes, Last
  <2>2. AnswerIsTrue'
    BY <1>1, <2>1 DEF IInv, AnswerIsTrue, Answered, EarlyEndings
  <2>. QED
    BY <1>1, <2>1, <2>2
    DEF IInv, CleanupTypeOK, PhasesInOrder, CauseIsKept, UnreapedIsAFailure,
        Steps, Supervising, LoopSteps, CleanupSteps
<1>4. CASE result' = <<"Cleanup">> \o result
  <2>1. result' \in Seq(Outcomes) /\ result' # <<>> /\ Head(result') = "Cleanup"
    BY <1>1, <1>4 DEF Outcomes
  <2>2. result # <<>> => Last(result') = Last(result)
    BY <1>1, <1>4 DEF Last
  <2>3. AnswerIsTrue'
    BY <1>1, <2>1, <2>2 DEF IInv, AnswerIsTrue, Answered
  <2>. QED
    BY <1>1, <2>1, <2>3
    DEF IInv, CleanupTypeOK, PhasesInOrder, CauseIsKept, UnreapedIsAFailure,
        Steps, Supervising, LoopSteps, CleanupSteps
<1>. QED  BY <1>2, <1>3, <1>4 DEF CloseWorkspace

(* The world moves a child that is there, and nothing of the supervisor.   *)
LEMMA WorldStep ==
    ASSUME IInv, \/ \E s \in Streams : ChildWrites(s)
                 \/ ChildEnds
                 \/ Cancel
                 \/ UNCHANGED vars
    PROVE  IInv'
<1>1. /\ UNCHANGED <<pc, ending, failures, lifecycle, result, decided>>
      /\ process' = None <=> process = None
  <2>1. CASE ChildEnds
    <3>1. UNCHANGED <<pc, ending, failures, lifecycle, result, decided>>
      BY <2>1 DEF ChildEnds, supervisor, history
    <3>2. CASE process = "running" /\ process' \in {"exitedZero", "exitedNonzero"}
      BY <3>1, <3>2 DEF None
    <3>3. CASE process = "dying" /\ process' = "killed"
      BY <3>1, <3>3 DEF None
    <3>4. CASE process' = process
      BY <3>1, <3>4
    <3>. QED  BY <2>1, <3>2, <3>3, <3>4 DEF ChildEnds
  <2>2. CASE (\E s \in Streams : ChildWrites(s)) \/ Cancel \/ UNCHANGED vars
    BY <2>2 DEF ChildWrites, Cancel, vars, supervisor, world, history
  <2>. QED  BY <2>1, <2>2
<1>. QED
  BY <1>1
  DEF IInv, CleanupTypeOK, PhasesInOrder, CauseIsKept, UnreapedIsAFailure, AnswerIsTrue,
      Supervising, LoopSteps, CleanupSteps

(* Every step of a request keeps the invariant.                            *)
LEMMA Inductive ==
    ASSUME IInv, [Next]_vars
    PROVE  IInv'
<1>1. CASE Launch
  BY <1>1, LaunchStep
<1>2. CASE (Supervise \/ TimeOut) /\ ~Launch
  <2>1. pc # "start"
    BY <1>2
    DEF Supervise, Configure, Poll, TimeOut, WriteInput, ReadStdout, Consume, Accepted,
        ReadStderr, ObserveExit
  <2>. QED  BY <1>2, <2>1, SuperviseStep
<1>3. CASE Settle
  BY <1>3, SettleStep
<1>4. CASE DropGuard \/ DropReaps \/ DropTimesOut
  BY <1>4, DropStep
<1>5. CASE CloseWorkspace
  BY <1>5, CloseWorkspaceStep
<1>6. CASE Stop \/ Reap \/ DrainStdout \/ DrainStderr \/ StillDraining \/ Drained \/ ConsumeRest
           \/ ReapFails \/ ReapTimesOut \/ DrainTimesOut
  <2>1. pc \in CleanupSteps \ {"settle", "settleRest", "drop", "dropReap"}
    BY <1>6
    DEF Stop, Reap, ReapFails, ReapTimesOut, AfterReap, DrainStdout, DrainStderr, StillDraining,
        Drained, DrainTimesOut, AfterDraining, ConsumeRest, CleanupSteps
  <2>2. Finish \/ ReapFails \/ ReapTimesOut \/ DrainTimesOut
    BY <1>6 DEF Finish
  <2>. QED  BY <2>1, <2>2, FinishStep
<1>7. CASE \/ \E s \in Streams : ChildWrites(s)
           \/ ChildEnds
           \/ Cancel
           \/ UNCHANGED vars
  BY <1>7, WorldStep
<1>. QED
  BY <1>1, <1>2, <1>3, <1>4, <1>5, <1>6, <1>7 DEF Next, Supervise, Finish, Clock

----------------------------------------------------------------------------
(***************************************************************************)
(* Bytes, places and lines.                                                *)
(***************************************************************************)
(* The same bytes at the same places are the same slice.                   *)
LEMMA SameSlice ==
    ASSUME NEW S, NEW a \in Seq(S), NEW b \in Seq(S), NEW m \in Nat \ {0}, NEW n \in Nat,
           n <= Len(a), n <= Len(b), \A i \in m..n : a[i] = b[i]
    PROVE  SubSeq(a, m, n) = SubSeq(b, m, n)
<1>. DEFINE x == SubSeq(a, m, n)
            y == SubSeq(b, m, n)
<1>1. /\ x \in Seq(S) /\ Len(x) = (IF m <= n THEN n - m + 1 ELSE 0)
      /\ \A i \in 1..n - m + 1 : x[i] = a[m + i - 1]
  <2>1. \A i \in m..n : a[i] \in S
    OBVIOUS
  <2>. QED  BY <2>1, SubSeqProperties
<1>2. /\ y \in Seq(S) /\ Len(y) = (IF m <= n THEN n - m + 1 ELSE 0)
      /\ \A i \in 1..n - m + 1 : y[i] = b[m + i - 1]
  <2>1. \A i \in m..n : b[i] \in S
    OBVIOUS
  <2>. QED  BY <2>1, SubSeqProperties
<1>3. \A i \in 1..Len(x) : x[i] = y[i]
  <2>. SUFFICES ASSUME NEW i \in 1..Len(x) PROVE x[i] = y[i]
    OBVIOUS
  <2>1. m <= n /\ i \in 1..n - m + 1 /\ m + i - 1 \in m..n
    BY <1>1
  <2>. QED  BY <1>1, <1>2, <2>1
<1>. HIDE DEF x, y
<1>4. x = y
  BY <1>1, <1>2, <1>3, SeqEqual
<1>. QED  BY <1>4 DEF x, y

(* The smallest number of some.                                            *)
LEMMA Least ==
    ASSUME NEW T \in SUBSET Nat, T # {}
    PROVE  \E x \in T : \A y \in T : x <= y
<1>1. PICK x \in T : \A y \in T : ~ (<<y, x>> \in OpToRel(<, Nat))
  BY NatLessThanWellFounded, WFMin
<1>2. \A y \in T : y \in Nat /\ x \in Nat /\ ~(y < x)
  BY <1>1, Zenon DEF OpToRel
<1>. QED  BY <1>2

(* Bytes that agree with others up to a place.                             *)
Agree(bytes, more, to) ==
    /\ to <= Len(bytes)
    /\ to <= Len(more)
    /\ \A i \in 1..to : bytes[i] = more[i]

(* Where the lines end: what AreLines asks for.                            *)
AreEnds(ends, parts, bytes, to) ==
    /\ ends \in [0..Len(parts) -> 0..Len(bytes)]
    /\ ends[0] = 0
    /\ ends[Len(parts)] = to
    /\ IsIncreasing(ends)
    /\ \A i \in DOMAIN parts :
           /\ parts[i] = SubSeq(bytes, ends[i - 1] + 1, ends[i] - 1)
           /\ \A j \in ends[i - 1] + 1..ends[i] : bytes[j] = "newline" <=> j = ends[i]

(* The ends of lines are in order and not behind the last one.             *)
LEMMA EndsAreInOrder ==
    ASSUME NEW parts \in Seq(Seq(Byte)), NEW bytes \in Seq(Byte), NEW to, NEW ends,
           AreEnds(ends, parts, bytes, to)
    PROVE  /\ to \in 0..Len(bytes)
           /\ \A i \in 0..Len(parts) : ends[i] \in 0..to
           /\ \A i \in 1..Len(parts) : ends[i - 1] < ends[i]
<1>. DEFINE last == Len(parts)
<1>1. last \in Nat /\ Len(bytes) \in Nat /\ DOMAIN ends = 0..last
  BY LenProperties DEF AreEnds
<1>. HIDE DEF last
<1>2. /\ \A i \in 0..last : ends[i] \in 0..Len(bytes)
      /\ \A i, j \in 0..last : i < j => ends[i] < ends[j]
      /\ ends[last] = to
  BY <1>1 DEF AreEnds, IsIncreasing, last
<1>3. /\ to \in 0..Len(bytes)
      /\ \A i \in 0..last : ends[i] \in 0..to
      /\ \A i \in 1..last : ends[i - 1] < ends[i]
  <2>1. last \in 0..last
    BY <1>1
  <2>2. \A i \in 0..last : i = last \/ i < last
    BY <1>1
  <2>3. to \in 0..Len(bytes) /\ \A i \in 0..last : ends[i] \in 0..to
    BY <1>1, <1>2, <2>1, <2>2
  <2>4. \A i \in 1..last : i - 1 \in 0..last /\ i \in 0..last /\ i - 1 < i
    BY <1>1
  <2>. QED  BY <1>2, <2>3, <2>4
<1>. QED  BY <1>3 DEF last

(* Lines are lines whatever follows them.                                  *)
LEMMA LinesDependOnTheirBytes ==
    ASSUME NEW parts \in Seq(Seq(Byte)), NEW bytes \in Seq(Byte), NEW more \in Seq(Byte),
           NEW to, AreLines(parts, bytes, to), Agree(bytes, more, to)
    PROVE  AreLines(parts, more, to)
<1>. DEFINE last == Len(parts)
<1>1. PICK ends : AreEnds(ends, parts, bytes, to)
  BY DEF AreLines, AreEnds
<1>2. /\ to \in 0..Len(bytes)
      /\ \A i \in 0..last : ends[i] \in 0..to
      /\ \A i \in 1..last : ends[i - 1] < ends[i]
  BY <1>1, EndsAreInOrder
<1>3. last \in Nat /\ Len(bytes) \in Nat /\ Len(more) \in Nat /\ DOMAIN parts = 1..last
  BY LenProperties
<1>. HIDE DEF last
<1>4. ends \in [0..last -> 0..Len(more)]
  <2>1. \A i \in 0..last : ends[i] \in 0..Len(more)
    BY <1>2, <1>3 DEF Agree
  <2>. QED  BY <1>1, <2>1 DEF AreEnds, last
<1>5. ASSUME NEW i \in 1..last
      PROVE  /\ parts[i] = SubSeq(more, ends[i - 1] + 1, ends[i] - 1)
             /\ \A j \in ends[i - 1] + 1..ends[i] : more[j] = "newline" <=> j = ends[i]
  <2>. DEFINE m == ends[i - 1] + 1
              n == ends[i] - 1
  <2>1. /\ ends[i - 1] \in 0..to /\ ends[i] \in 0..to /\ ends[i - 1] < ends[i]
    <3>1. i - 1 \in 0..last /\ i \in 0..last
      BY <1>3
    <3>. QED  BY <1>2, <3>1
  <2>2. m \in Nat \ {0} /\ n \in Nat /\ n <= to
    BY <1>2, <2>1
  <2>3. n <= Len(bytes) /\ n <= Len(more) /\ \A k \in m..n : bytes[k] = more[k]
    <3>. HIDE DEF m, n
    <3>1. \A k \in m..n : k \in 1..to
      BY <1>2, <2>2
    <3>. QED  BY <1>2, <1>3, <2>2, <3>1 DEF Agree
  <2>4. /\ parts[i] = SubSeq(bytes, m, n)
        /\ \A j \in m..ends[i] : bytes[j] = "newline" <=> j = ends[i]
    BY <1>1, <1>3 DEF AreEnds
  <2>5. \A j \in m..ends[i] : bytes[j] = more[j]
    BY <1>2, <2>1 DEF Agree
  <2>. HIDE DEF m, n
  <2>6. SubSeq(bytes, m, n) = SubSeq(more, m, n)
    BY <2>2, <2>3, SameSlice
  <2>7. parts[i] = SubSeq(more, m, n) /\ \A j \in m..ends[i] : more[j] = "newline" <=> j = ends[i]
    BY <2>4, <2>5, <2>6
  <2>. QED  BY <2>7 DEF m, n
<1>6. AreEnds(ends, parts, more, to)
  BY <1>1, <1>3, <1>4, <1>5 DEF AreEnds, last
<1>. QED  BY <1>6 DEF AreLines, AreEnds

(* The first of some lines are lines themselves, up to their own end.      *)
LEMMA FirstLines ==
    ASSUME NEW parts \in Seq(Seq(Byte)), NEW rest \in Seq(Seq(Byte)), NEW bytes \in Seq(Byte),
           NEW to, AreLines(parts \o rest, bytes, to)
    PROVE  \E end \in 0..to :
               /\ AreLines(parts, bytes, end)
               /\ end = to <=> rest = <<>>
<1>. DEFINE all == parts \o rest
            last == Len(parts)
            total == Len(all)
<1>1. PICK ends : AreEnds(ends, all, bytes, to)
  BY DEF AreLines, AreEnds
<1>2. /\ last \in Nat /\ Len(bytes) \in Nat /\ DOMAIN parts = 1..last /\ DOMAIN all = 1..total
      /\ all \in Seq(Seq(Byte)) /\ total = last + Len(rest) /\ Len(rest) \in Nat
      /\ \A i \in 1..last : all[i] = parts[i]
  BY LenProperties, ConcatProperties
<1>3. /\ to \in 0..Len(bytes)
      /\ \A i \in 0..total : ends[i] \in 0..to
      /\ \A i \in 1..total : ends[i - 1] < ends[i]
  BY <1>1, <1>2, EndsAreInOrder
<1>4. ends[total] = to /\ ends[0] = 0 /\ \A i, j \in 0..total : i < j => ends[i] < ends[j]
  <2>1. DOMAIN ends = 0..total
    BY <1>1 DEF AreEnds
  <2>. QED  BY <1>1, <2>1 DEF AreEnds, IsIncreasing
<1>5. rest = <<>> <=> last = total
  <2>1. rest = <<>> <=> Len(rest) = 0
    OBVIOUS
  <2>. HIDE DEF all, last, total
  <2>. QED  BY <1>2, <2>1
<1>. DEFINE first == [i \in 0..last |-> ends[i]]
<1>6. ASSUME NEW i \in 1..last
      PROVE  /\ parts[i] = SubSeq(bytes, ends[i - 1] + 1, ends[i] - 1)
             /\ \A j \in ends[i - 1] + 1..ends[i] : bytes[j] = "newline" <=> j = ends[i]
  <2>1. i \in DOMAIN all
    BY <1>2
  <2>. HIDE DEF all
  <2>. QED  BY <1>1, <1>2, <2>1 DEF AreEnds
<1>. HIDE DEF all, last, total
<1>7. first \in [0..last -> 0..Len(bytes)] /\ first[0] = 0 /\ first[last] = ends[last]
  BY <1>2, <1>3, <1>4
<1>8. IsIncreasing(first)
  <2>1. DOMAIN first = 0..last /\ \A i \in 0..last : i \in 0..total
    BY <1>2
  <2>. QED  BY <1>4, <2>1 DEF IsIncreasing
<1>9. \A i \in 1..last : first[i - 1] = ends[i - 1] /\ first[i] = ends[i]
  BY <1>2
<1>. HIDE DEF first
<1>10. AreEnds(first, parts, bytes, ends[last])
  <2>1. ASSUME NEW i \in DOMAIN parts
        PROVE  /\ parts[i] = SubSeq(bytes, first[i - 1] + 1, first[i] - 1)
               /\ \A j \in first[i - 1] + 1..first[i] : bytes[j] = "newline" <=> j = first[i]
    <3>1. i \in 1..last
      BY <1>2
    <3>2. first[i - 1] = ends[i - 1] /\ first[i] = ends[i]
      BY <1>9, <3>1
    <3>. QED  BY <1>6, <3>1, <3>2
  <2>. QED  BY <1>7, <1>8, <2>1 DEF AreEnds, last
<1>11. ends[last] \in 0..to /\ (ends[last] = to <=> last = total)
  <2>1. last \in 0..total /\ total \in 0..total /\ (last = total \/ last < total)
    BY <1>2
  <2>. QED  BY <1>3, <1>4, <2>1
<1>12. AreLines(parts, bytes, ends[last])
  BY <1>10 DEF AreLines, AreEnds
<1>. QED  BY <1>5, <1>11, <1>12

(* The pieces between a place and the newlines behind it.                  *)
ArePieces(more, bytes, from, marks) ==
    /\ marks \in Seq(Nat)
    /\ IsIncreasing(marks)
    /\ Range(marks) \subseteq from + 1..Len(bytes)
    /\ \A i \in from + 1..Len(bytes) : bytes[i] = "newline" <=> i \in Range(marks)
    /\ more \in Seq(Seq(Byte))
    /\ Len(more) = Len(marks)
    /\ \A i \in 1..Len(marks) :
           more[i] = SubSeq(bytes, (<<from>> \o marks)[i] + 1, marks[i] - 1)

(* They are the lines that follow.                                         *)
LEMMA MoreLines ==
    ASSUME NEW parts \in Seq(Seq(Byte)), NEW bytes \in Seq(Byte), NEW from,
           AreLines(parts, bytes, from),
           NEW marks, NEW more, ArePieces(more, bytes, from, marks)
    PROVE  /\ AreLines(parts \o more, bytes, Last(<<from>> \o marks))
           /\ Last(<<from>> \o marks) \in from..Len(bytes)
           /\ \A i \in Last(<<from>> \o marks) + 1..Len(bytes) : bytes[i] # "newline"
<1>. DEFINE last == Len(parts)
            new == Len(marks)
            total == last + new
            starts == <<from>> \o marks
            all == parts \o more
<1>. USE DEF ArePieces
<1>1. PICK ends : AreEnds(ends, parts, bytes, from)
  BY DEF AreLines, AreEnds
<1>2. /\ last \in Nat /\ new \in Nat /\ Len(bytes) \in Nat /\ total \in Nat
      /\ DOMAIN marks = 1..new
      /\ all \in Seq(Seq(Byte)) /\ Len(all) = total /\ DOMAIN all = 1..total
      /\ \A i \in 1..last : all[i] = parts[i]
      /\ \A i \in 1..new : all[last + i] = more[i]
  <2>1. all \in Seq(Seq(Byte)) /\ Len(all) = total
        /\ \A i \in 1..total : all[i] = IF i <= last THEN parts[i] ELSE more[i - last]
    <3>1. /\ all \in Seq(Seq(Byte)) /\ Len(all) = Len(parts) + Len(more)
          /\ \A i \in 1..Len(parts) + Len(more) :
                 all[i] = IF i <= Len(parts) THEN parts[i] ELSE more[i - Len(parts)]
      BY ConcatProperties
    <3>. QED  BY <3>1
  <2>2. last \in Nat /\ new \in Nat /\ Len(bytes) \in Nat /\ DOMAIN marks = 1..new
    BY LenProperties
  <2>. HIDE DEF last, new, all
  <2>3. DOMAIN all = 1..total
    BY <2>1, <2>2, LenProperties
  <2>4. \A i \in 1..new : last + i \in 1..total /\ ~(last + i <= last) /\ (last + i) - last = i
    BY <2>2
  <2>5. \A i \in 1..last : i \in 1..total /\ i <= last
    BY <2>2
  <2>6. \A i \in 1..last : all[i] = parts[i]
    BY <2>1, <2>5
  <2>7. \A i \in 1..new : all[last + i] = more[i]
    BY <2>1, <2>4
  <2>8. total \in Nat
    BY <2>2
  <2>. QED  BY <2>1, <2>2, <2>3, <2>6, <2>7, <2>8
<1>3. /\ from \in 0..Len(bytes)
      /\ \A i \in 0..last : ends[i] \in 0..from
      /\ ends[0] = 0 /\ ends[last] = from
      /\ \A i, j \in 0..last : i < j => ends[i] < ends[j]
  <2>1. DOMAIN ends = 0..last
    BY <1>1 DEF AreEnds
  <2>2. from \in 0..Len(bytes) /\ \A i \in 0..last : ends[i] \in 0..from
    BY <1>1, EndsAreInOrder
  <2>. QED  BY <1>1, <2>1, <2>2 DEF AreEnds, IsIncreasing
<1>4. /\ \A i \in 1..new : marks[i] \in from + 1..Len(bytes)
      /\ \A i, j \in 1..new : i < j => marks[i] < marks[j]
      /\ \A i \in from + 1..Len(bytes) : bytes[i] = "newline" <=> \E k \in 1..new : marks[k] = i
  BY <1>2 DEF Range, IsIncreasing
<1>5. /\ starts \in Seq(Nat) /\ Len(starts) = new + 1
      /\ starts[1] = from /\ \A i \in 1..new : starts[i + 1] = marks[i]
      /\ Last(starts) = starts[new + 1]
  <2>1. <<from>> \in Seq(Nat) /\ Len(<<from>>) = 1 /\ <<from>>[1] = from
    BY <1>2, <1>3
  <2>2. /\ starts \in Seq(Nat) /\ Len(starts) = 1 + new
        /\ \A i \in 1..1 + new : starts[i] = IF i <= 1 THEN <<from>>[i] ELSE marks[i - 1]
    BY <2>1, ConcatProperties
  <2>. HIDE DEF starts, new
  <2>3. \A i \in 1..new : i + 1 \in 1..1 + new /\ ~(i + 1 <= 1) /\ (i + 1) - 1 = i
    BY <1>2
  <2>4. 1 \in 1..1 + new /\ 1 + new = new + 1
    BY <1>2
  <2>5. starts[1] = from
    BY <2>1, <2>2, <2>4
  <2>6. \A i \in 1..new : starts[i + 1] = marks[i]
    BY <2>2, <2>3
  <2>. QED  BY <2>2, <2>4, <2>5, <2>6 DEF Last
<1>. HIDE DEF last, new, starts, all, ArePieces
<1>. DEFINE size == Len(bytes)
<1>. HIDE DEF size
<1>6. /\ last \in Nat /\ new \in Nat /\ size \in Nat /\ from \in Nat /\ from <= size
       /\ size = Len(bytes)
  BY <1>2, <1>3 DEF size
<1>7. \A k \in 1..new : marks[k] \in Nat /\ from < marks[k] /\ marks[k] <= size
  <2>. SUFFICES ASSUME NEW k \in 1..new
                PROVE  marks[k] \in Nat /\ from < marks[k] /\ marks[k] <= size
    OBVIOUS
  <2>1. marks[k] \in from + 1..size
    BY <1>4, <1>6
  <2>. QED  BY <1>6, <2>1
<1>8. \A i \in 0..last : ends[i] \in Nat /\ ends[i] <= from
  BY <1>3, <1>6
<1>. DEFINE both == [i \in 0..total |-> IF i <= last THEN ends[i] ELSE marks[i - last]]
<1>9. \A i \in 0..last : both[i] = ends[i]
  BY <1>2
<1>10. \A i \in 1..new : both[last + i] = marks[i]
  <2>1. \A i \in 1..new : last + i \in 0..total /\ ~(last + i <= last) /\ (last + i) - last = i
    BY <1>2
  <2>. QED  BY <2>1
<1>11. DOMAIN both = 0..total
  OBVIOUS
<1>12. \A i \in 0..total : i \in 0..last \/ \E k \in 1..new : i = last + k
  <2>. SUFFICES ASSUME NEW i \in 0..total, i \notin 0..last
                PROVE  \E k \in 1..new : i = last + k
    OBVIOUS
  <2>1. i - last \in 1..new /\ i = last + (i - last)
    BY <1>2
  <2>. QED  BY <2>1
<1>. HIDE DEF both
<1>13. \A i \in 0..total : both[i] \in 0..Len(bytes)
  <2>1. \A i \in 0..last : ends[i] \in 0..Len(bytes)
    BY <1>2, <1>3
  <2>2. \A i \in 1..new : marks[i] \in 0..Len(bytes)
    BY <1>2, <1>3, <1>4
  <2>. QED  BY <1>9, <1>10, <1>12, <2>1, <2>2
<1>14. IsIncreasing(both)
  <2>. SUFFICES ASSUME NEW i \in 0..total, NEW j \in 0..total, i < j
                PROVE  both[i] < both[j]
    BY <1>11 DEF IsIncreasing
  <2>1. CASE j \in 0..last
    <3>1. i \in 0..last
      BY <1>2, <2>1
    <3>. QED  BY <1>3, <1>9, <2>1, <3>1
  <2>2. CASE i \in 0..last /\ j \notin 0..last
    <3>1. PICK k \in 1..new : j = last + k
      BY <1>12, <2>2
    <3>2. both[i] = ends[i] /\ both[j] = marks[k]
      BY <1>9, <1>10, <2>2, <3>1
    <3>. QED  BY <1>6, <1>7, <1>8, <2>2, <3>2
  <2>3. CASE i \notin 0..last
    <3>1. PICK k \in 1..new : i = last + k
      BY <1>12, <2>3
    <3>2. j \notin 0..last
      BY <1>2, <3>1
    <3>3. PICK l \in 1..new : j = last + l
      BY <1>12, <3>2
    <3>4. k < l
      BY <1>2, <3>1, <3>3
    <3>. QED  BY <1>4, <1>10, <3>1, <3>3, <3>4
  <2>. QED  BY <2>1, <2>2, <2>3
<1>15. ASSUME NEW i \in 1..total
       PROVE  /\ all[i] = SubSeq(bytes, both[i - 1] + 1, both[i] - 1)
              /\ \A j \in both[i - 1] + 1..both[i] : bytes[j] = "newline" <=> j = both[i]
  <2>1. CASE i \in 1..last
    <3>1. i \in 0..last /\ i - 1 \in 0..last
      BY <1>2, <2>1
    <3>2. both[i] = ends[i] /\ both[i - 1] = ends[i - 1]
      BY <1>9, <3>1
    <3>3. i \in DOMAIN parts
      BY <2>1, LenProperties DEF last
    <3>4. /\ parts[i] = SubSeq(bytes, ends[i - 1] + 1, ends[i] - 1)
          /\ \A j \in ends[i - 1] + 1..ends[i] : bytes[j] = "newline" <=> j = ends[i]
      BY <1>1, <3>3 DEF AreEnds
    <3>5. all[i] = parts[i]
      BY <1>2, <2>1
    <3>. QED  BY <3>2, <3>4, <3>5
  <2>2. CASE i \notin 1..last
    <3>1. PICK k \in 1..new : i = last + k
      <4>1. i \in 0..total /\ i \notin 0..last
        BY <1>2, <2>2
      <4>. QED  BY <1>12, <4>1
    <3>2. both[i] = marks[k]
      BY <1>10, <3>1
    <3>3. both[i - 1] = starts[k]
      <4>1. CASE k = 1
        <5>1. i - 1 = last /\ last \in 0..last
          BY <1>2, <3>1, <4>1
        <5>. QED  BY <1>3, <1>5, <1>9, <4>1, <5>1
      <4>2. CASE k # 1
        <5>1. k - 1 \in 1..new /\ i - 1 = last + (k - 1) /\ (k - 1) + 1 = k
          BY <1>2, <3>1, <4>2
        <5>2. both[i - 1] = marks[k - 1] /\ starts[(k - 1) + 1] = marks[k - 1]
          BY <1>5, <1>10, <5>1
        <5>. QED  BY <5>1, <5>2
      <4>. QED  BY <4>1, <4>2
    <3>4. all[i] = SubSeq(bytes, starts[k] + 1, marks[k] - 1)
      <4>1. all[i] = more[k]
        BY <1>2, <3>1
      <4>. QED  BY <4>1 DEF new, starts, ArePieces
    <3>5. /\ starts[k] \in Nat /\ from <= starts[k] /\ starts[k] < marks[k]
          /\ \A l \in 1..new : l < k => marks[l] <= starts[k]
      <4>1. CASE k = 1
        <5>1. \A l \in 1..new : ~(l < k)
          BY <1>6, <4>1
        <5>. QED  BY <1>5, <1>6, <1>7, <4>1, <5>1
      <4>2. CASE k # 1
        <5>1. k - 1 \in 1..new /\ k - 1 < k /\ (k - 1) + 1 = k
          BY <1>6, <4>2
        <5>2. starts[k] = marks[k - 1] /\ marks[k - 1] < marks[k]
          BY <1>4, <1>5, <5>1
        <5>3. \A l \in 1..new : l < k => l = k - 1 \/ l < k - 1
          BY <1>6
        <5>4. \A l \in 1..new : l < k - 1 => marks[l] < marks[k - 1]
          BY <1>4, <5>1
        <5>5. marks[k - 1] \in Nat /\ from < marks[k - 1]
          BY <1>7, <5>1
        <5>6. \A l \in 1..new : l < k => marks[l] <= marks[k - 1]
          <6>. SUFFICES ASSUME NEW l \in 1..new, l < k PROVE marks[l] <= marks[k - 1]
            OBVIOUS
          <6>1. marks[l] \in Nat /\ (l = k - 1 \/ marks[l] < marks[k - 1])
            BY <1>7, <5>3, <5>4
          <6>2. CASE l = k - 1
            BY <5>5, <6>2
          <6>3. CASE marks[l] < marks[k - 1]
            BY <5>5, <6>1, <6>3
          <6>. QED  BY <6>1, <6>2, <6>3
        <5>. QED  BY <1>6, <5>2, <5>5, <5>6
      <4>. QED  BY <4>1, <4>2
    <3>6. ASSUME NEW j \in starts[k] + 1..marks[k]
          PROVE  bytes[j] = "newline" <=> j = marks[k]
      <4>1. marks[k] \in from + 1..Len(bytes)
        BY <1>4
      <4>2. j \in from + 1..Len(bytes)
        <5>1. marks[k] \in Nat /\ marks[k] <= size
          BY <1>7
        <5>2. starts[k] \in Nat /\ from <= starts[k]
          BY <3>5
        <5>3. j \in Nat /\ starts[k] + 1 <= j /\ j <= marks[k]
          BY <5>1, <5>2
        <5>. QED  BY <1>6, <5>1, <5>2, <5>3
      <4>3. ASSUME NEW l \in 1..new, marks[l] = j
            PROVE  j = marks[k]
        <5>1. ~(l < k)
          <6>1. l < k => marks[l] <= starts[k]
            BY <3>5
          <6>. QED  BY <1>6, <1>7, <3>5, <4>3, <6>1
        <5>2. ~(k < l)
          <6>1. k < l => marks[k] < marks[l]
            BY <1>4
          <6>. QED  BY <1>6, <1>7, <3>5, <4>3, <6>1
        <5>. QED  BY <1>6, <4>3, <5>1, <5>2
      <4>. QED  BY <1>4, <4>2, <4>3
    <3>. QED  BY <3>2, <3>3, <3>4, <3>6
  <2>. QED  BY <2>1, <2>2
<1>16. both[total] = Last(starts) /\ both[0] = 0
  <2>1. CASE new = 0
    <3>1. total = last /\ last \in 0..last /\ new + 1 = 1
      BY <1>2, <2>1
    <3>. QED  BY <1>2, <1>3, <1>5, <1>9, <3>1
  <2>2. CASE new # 0
    <3>1. new \in 1..new /\ 0 \in 0..last
      BY <1>2, <2>2
    <3>. QED  BY <1>3, <1>5, <1>9, <1>10, <3>1
  <2>. QED  BY <2>1, <2>2
<1>17. AreEnds(both, all, bytes, Last(starts))
  <2>1. both \in [0..Len(all) -> 0..Len(bytes)]
    BY <1>2, <1>11, <1>13 DEF both
  <2>2. \A i \in DOMAIN all :
            /\ all[i] = SubSeq(bytes, both[i - 1] + 1, both[i] - 1)
            /\ \A j \in both[i - 1] + 1..both[i] : bytes[j] = "newline" <=> j = both[i]
    BY <1>2, <1>15
  <2>. QED  BY <1>2, <1>14, <1>16, <2>1, <2>2 DEF AreEnds
<1>18. AreLines(all, bytes, Last(starts))
  BY <1>17 DEF AreLines, AreEnds
<1>19. Last(starts) \in from..Len(bytes) /\ \A k \in 1..new : marks[k] <= Last(starts)
  <2>1. CASE new = 0
    BY <1>2, <1>3, <1>5, <2>1
  <2>2. CASE new # 0
    <3>1. new \in 1..new
      BY <1>2, <2>2
    <3>2. Last(starts) = marks[new]
      BY <1>5, <3>1
    <3>3. \A k \in 1..new : k = new \/ k < new
      BY <1>6
    <3>4. \A k \in 1..new : k < new => marks[k] < marks[new]
      BY <1>4, <3>1
    <3>5. marks[new] \in Nat /\ from < marks[new] /\ marks[new] <= size
      BY <1>7, <3>1
    <3>6. \A k \in 1..new : marks[k] <= marks[new]
      <4>. SUFFICES ASSUME NEW k \in 1..new PROVE marks[k] <= marks[new]
        OBVIOUS
      <4>1. marks[k] \in Nat /\ (k = new \/ marks[k] < marks[new])
        BY <1>7, <3>3, <3>4
      <4>. QED  BY <3>5, <4>1
    <3>. QED  BY <1>6, <3>2, <3>5, <3>6
  <2>. QED  BY <2>1, <2>2
<1>20. \A i \in Last(starts) + 1..Len(bytes) : bytes[i] # "newline"
  <2>. SUFFICES ASSUME NEW i \in Last(starts) + 1..Len(bytes), bytes[i] = "newline"
                PROVE  FALSE
    OBVIOUS
  <2>1. i \in from + 1..Len(bytes)
    BY <1>2, <1>3, <1>19
  <2>2. PICK k \in 1..new : marks[k] = i
    BY <1>4, <2>1
  <2>. QED  BY <1>19, <1>6, <1>7, <2>2
<1>. QED  BY <1>18, <1>19, <1>20 DEF all, starts

(* Places among the first numbers that can be listed in order.             *)
Listed(places, n) ==
    \E m \in 0..n : \E s \in [1..m -> places] : IsIncreasing(s) /\ Range(s) = places

(* Any places can: the last of them is put behind the others.              *)
LEMMA PlacesCanBeListed ==
    ASSUME NEW n \in Nat, NEW places \in SUBSET (1..n)
    PROVE  Listed(places, n)
<1>. DEFINE bad == {k \in Nat : \E p \in SUBSET (1..k) : ~Listed(p, k)}
<1>1. bad = {}
  <2>. SUFFICES ASSUME bad # {} PROVE FALSE
    OBVIOUS
  <2>1. PICK k \in bad : \A l \in bad : k <= l
    BY Least
  <2>2. PICK p \in SUBSET (1..k) : ~Listed(p, k)
    BY <2>1
  <2>3. k \in Nat
    BY <2>1
  <2>4. CASE k = 0
    <3>1. p = {}
      BY <2>4
    <3>2. <<>> \in [1..0 -> p] /\ IsIncreasing(<<>>) /\ Range(<<>>) = p
      BY <3>1 DEF IsIncreasing, Range
    <3>3. 0 \in 0..k
      BY <2>4
    <3>4. Listed(p, k)
      BY <3>2, <3>3 DEF Listed
    <3>. QED  BY <2>2, <3>4
  <2>5. CASE k # 0
    <3>. DEFINE q == p \ {k}
    <3>1. k - 1 \in Nat /\ k - 1 < k /\ q \in SUBSET (1..k - 1)
      BY <2>3, <2>5
    <3>2. k - 1 \notin bad
      BY <2>1, <2>3, <3>1
    <3>3. Listed(q, k - 1)
      BY <3>1, <3>2
    <3>4. PICK m \in 0..k - 1 : \E s \in [1..m -> q] : IsIncreasing(s) /\ Range(s) = q
      BY <3>3 DEF Listed
    <3>5. PICK s \in [1..m -> q] : IsIncreasing(s) /\ Range(s) = q
      BY <3>4
    <3>6. CASE k \notin p
      <4>1. q = p /\ m \in 0..k
        BY <2>3, <3>6
      <4>2. Listed(p, k)
        BY <3>5, <4>1 DEF Listed
      <4>. QED  BY <2>2, <4>2
    <3>7. CASE k \in p
      <4>. DEFINE t == [i \in 1..m + 1 |-> IF i = m + 1 THEN k ELSE s[i]]
      <4>1. m \in Nat /\ m + 1 \in 0..k
        BY <2>3
      <4>2. \A i \in 1..m : i \in 1..m + 1 /\ i # m + 1 /\ s[i] \in q
        BY <4>1
      <4>3. \A i \in 1..m : t[i] = s[i]
        BY <4>2
      <4>4. m + 1 \in 1..m + 1 /\ t[m + 1] = k
        BY <4>1
      <4>5. \A i \in 1..m + 1 : i = m + 1 \/ i \in 1..m
        BY <4>1
      <4>6. DOMAIN t = 1..m + 1
        OBVIOUS
      <4>. HIDE DEF t
      <4>7. \A i \in 1..m + 1 : t[i] \in p
        BY <3>7, <4>2, <4>3, <4>4, <4>5
      <4>8. t \in [1..m + 1 -> p]
        BY <4>7 DEF t
      <4>9. IsIncreasing(t)
        <5>. SUFFICES ASSUME NEW i \in 1..m + 1, NEW j \in 1..m + 1, i < j
                      PROVE  t[i] < t[j]
          BY <4>6 DEF IsIncreasing
        <5>1. i \in 1..m
          BY <4>1
        <5>2. CASE j = m + 1
          <6>1. t[i] \in 1..k - 1
            BY <3>1, <4>2, <4>3, <5>1
          <6>. QED  BY <2>3, <4>4, <5>2, <6>1
        <5>3. CASE j \in 1..m
          <6>1. DOMAIN s = 1..m
            OBVIOUS
          <6>2. s[i] < s[j]
            BY <3>5, <5>1, <5>3, <6>1 DEF IsIncreasing
          <6>. QED  BY <4>3, <5>1, <5>3, <6>2
        <5>. QED  BY <4>5, <5>2, <5>3
      <4>10. Range(t) = p
        <5>1. Range(s) = {s[i] : i \in 1..m} /\ Range(t) = {t[i] : i \in 1..m + 1}
          BY <4>6 DEF Range
        <5>2. Range(t) \subseteq p
          BY <4>7, <5>1
        <5>3. ASSUME NEW x \in p PROVE x \in Range(t)
          <6>1. CASE x = k
            BY <4>4, <5>1, <6>1
          <6>2. CASE x # k
            <7>1. PICK i \in 1..m : s[i] = x
              BY <3>5, <5>1, <6>2
            <7>. QED  BY <4>2, <4>3, <5>1, <7>1
          <6>. QED  BY <6>1, <6>2
        <5>. QED  BY <5>2, <5>3
      <4>11. Listed(p, k)
        BY <4>1, <4>8, <4>9, <4>10 DEF Listed
      <4>. QED  BY <2>2, <4>11
    <3>. QED  BY <3>6, <3>7
  <2>. QED  BY <2>4, <2>5
<1>. QED  BY <1>1

(* InOrder lists the places it is given.                                   *)
LEMMA InOrderLists ==
    ASSUME NEW bytes \in Seq(Byte), NEW places \in SUBSET (1..Len(bytes))
    PROVE  /\ InOrder(places, bytes) \in Seq(Nat)
           /\ IsIncreasing(InOrder(places, bytes))
           /\ Range(InOrder(places, bytes)) = places
<1>1. Len(bytes) \in Nat
  BY LenProperties
<1>2. \E s \in SeqOf(places, Len(bytes)) : IsIncreasing(s) /\ Range(s) = places
  <2>1. Listed(places, Len(bytes))
    BY <1>1, PlacesCanBeListed
  <2>. QED  BY <2>1 DEF Listed, SeqOf
<1>3. /\ InOrder(places, bytes) \in SeqOf(places, Len(bytes))
      /\ IsIncreasing(InOrder(places, bytes))
      /\ Range(InOrder(places, bytes)) = places
  BY <1>2 DEF InOrder
<1>4. InOrder(places, bytes) \in Seq(Nat)
  <2>1. PICK m \in 0..Len(bytes) : InOrder(places, bytes) \in [1..m -> places]
    BY <1>3 DEF SeqOf
  <2>2. m \in Nat /\ places \subseteq Nat
    BY <1>1
  <2>3. InOrder(places, bytes) \in [1..m -> Nat]
    BY <2>1, <2>2
  <2>. QED  BY <2>2, <2>3, SeqDef
<1>. QED  BY <1>3, <1>4

(* Lines end with a newline.                                               *)
LEMMA LinesEndWithNewline ==
    ASSUME NEW parts \in Seq(Seq(Byte)), NEW bytes \in Seq(Byte), NEW to,
           AreLines(parts, bytes, to)
    PROVE  to = 0 \/ bytes[to] = "newline"
<1>. DEFINE last == Len(parts)
<1>1. PICK ends : AreEnds(ends, parts, bytes, to)
  BY DEF AreLines, AreEnds
<1>2. last \in Nat /\ DOMAIN parts = 1..last
  BY LenProperties
<1>3. /\ to \in 0..Len(bytes)
      /\ \A i \in 0..last : ends[i] \in 0..to
      /\ \A i \in 1..last : ends[i - 1] < ends[i]
  BY <1>1, EndsAreInOrder
<1>4. CASE last = 0
  BY <1>1, <1>4 DEF AreEnds
<1>5. CASE last # 0
  <2>1. last \in DOMAIN parts /\ last \in 1..last /\ last - 1 \in 0..last /\ last \in 0..last
    BY <1>2, <1>5
  <2>2. /\ ends[last] = to /\ ends[last - 1] \in 0..to /\ ends[last - 1] < ends[last]
    BY <1>1, <1>3, <2>1 DEF AreEnds
  <2>3. ends[last] \in ends[last - 1] + 1..ends[last]
    BY <1>3, <2>2
  <2>4. \A j \in ends[last - 1] + 1..ends[last] : bytes[j] = "newline" <=> j = ends[last]
    BY <1>1, <2>1 DEF AreEnds
  <2>. QED  BY <2>2, <2>3, <2>4
<1>. QED  BY <1>4, <1>5

(* What framing asks for: the lines so far end where the framer starts,    *)
(* and between there and where it scans on is no newline.                  *)
IsFramed(parts, bytes) ==
    /\ AreLines(parts, bytes, framer.start)
    /\ framer.scanned \in framer.start..Len(bytes)
    /\ \A i \in framer.start + 1..framer.scanned : bytes[i] # "newline"

(* The places of the newlines not seen before.                             *)
LEMMA NewlinesAreFound ==
    ASSUME NEW bytes \in Seq(Byte), NEW from \in Nat \ {0},
           NEW marks, marks = NewlinesFrom(bytes, from)
    PROVE  /\ marks \in Seq(Nat)
           /\ IsIncreasing(marks)
           /\ Range(marks) \subseteq from..Len(bytes)
           /\ \A i \in from..Len(bytes) : bytes[i] = "newline" <=> i \in Range(marks)
<1>. DEFINE places == {i \in from..Len(bytes) : bytes[i] = "newline"}
<1>1. places \in SUBSET (1..Len(bytes))
  BY LenProperties
<1>2. marks = InOrder(places, bytes)
  BY DEF NewlinesFrom
<1>. HIDE DEF places
<1>3. marks \in Seq(Nat) /\ IsIncreasing(marks) /\ Range(marks) = places
  BY <1>1, <1>2, InOrderLists
<1>. QED  BY <1>3 DEF places

(* Framing continues the lines, up to a place with no newline behind it.   *)
LEMMA FramingAddsLines ==
    ASSUME NEW parts \in Seq(Seq(Byte)), NEW bytes \in Seq(Byte), IsFramed(parts, bytes),
           NEW framed, framed = Records(bytes, FALSE)
    PROVE  /\ framed.records \in Seq(Seq(Byte))
           /\ AreLines(parts \o framed.records, bytes, framed.start)
           /\ framed.start \in 0..Len(bytes)
           /\ \A i \in framed.start + 1..Len(bytes) : bytes[i] # "newline"
<1>. DEFINE from == framer.start
            marks == NewlinesFrom(bytes, framer.scanned + 1)
            starts == <<from>> \o marks
            whole == [i \in 1..Len(marks) |-> SubSeq(bytes, starts[i] + 1, marks[i] - 1)]
<1>1. framed.records = whole /\ framed.start = Last(starts)
  BY DEF Records
<1>2. /\ Len(bytes) \in Nat /\ from \in Nat /\ from <= framer.scanned
      /\ framer.scanned \in Nat /\ framer.scanned <= Len(bytes)
  <2>1. PICK ends : AreEnds(ends, parts, bytes, from)
    BY DEF IsFramed, AreLines, AreEnds
  <2>2. from \in 0..Len(bytes) /\ Len(bytes) \in Nat
    BY <2>1, EndsAreInOrder, LenProperties
  <2>. QED  BY <2>2 DEF IsFramed
<1>. HIDE DEF from
<1>3. /\ marks \in Seq(Nat) /\ IsIncreasing(marks)
      /\ Range(marks) \subseteq framer.scanned + 1..Len(bytes)
      /\ \A i \in framer.scanned + 1..Len(bytes) : bytes[i] = "newline" <=> i \in Range(marks)
  <2>1. framer.scanned + 1 \in Nat \ {0}
    BY <1>2
  <2>. QED  BY <2>1, NewlinesAreFound
<1>. HIDE DEF marks
<1>4. Range(marks) \subseteq from + 1..Len(bytes)
  BY <1>2, <1>3
<1>5. \A i \in from + 1..Len(bytes) : bytes[i] = "newline" <=> i \in Range(marks)
  <2>. SUFFICES ASSUME NEW i \in from + 1..Len(bytes)
                PROVE  bytes[i] = "newline" <=> i \in Range(marks)
    OBVIOUS
  <2>1. CASE i \in from + 1..framer.scanned
    <3>1. bytes[i] # "newline"
      BY <2>1 DEF IsFramed, from
    <3>2. i \notin Range(marks)
      BY <1>2, <1>3, <2>1
    <3>. QED  BY <3>1, <3>2
  <2>2. CASE i \in framer.scanned + 1..Len(bytes)
    BY <1>3, <2>2
  <2>. QED  BY <1>2, <2>1, <2>2
<1>6. Len(marks) \in Nat /\ DOMAIN marks = 1..Len(marks)
  BY <1>3, LenProperties
<1>7. \A i \in 1..Len(marks) : starts[i] \in Nat /\ marks[i] \in Nat
  <2>1. <<from>> \in Seq(Nat) /\ Len(<<from>>) = 1
    BY <1>2
  <2>2. starts \in Seq(Nat) /\ Len(starts) = 1 + Len(marks)
    BY <1>3, <2>1, ConcatProperties
  <2>. HIDE DEF starts
  <2>3. \A i \in 1..Len(marks) : i \in 1..Len(starts)
    BY <1>6, <2>2
  <2>. QED  BY <1>3, <2>2, <2>3, ElementOfSeq
<1>8. whole \in Seq(Seq(Byte)) /\ Len(whole) = Len(marks)
  <2>1. ASSUME NEW i \in 1..Len(marks)
        PROVE  SubSeq(bytes, starts[i] + 1, marks[i] - 1) \in Seq(Byte)
    <3>. DEFINE m == starts[i] + 1
                n == marks[i] - 1
    <3>1. m \in Int /\ n \in Int /\ m > 0
      BY <1>7
    <3>2. n < Len(bytes)
      <4>1. marks[i] \in Range(marks)
        BY <1>6 DEF Range
      <4>. QED  BY <1>2, <1>3, <1>7, <4>1
    <3>. HIDE DEF m, n
    <3>3. \A k \in m..n : bytes[k] \in Byte
      BY <1>2, <3>1, <3>2, ElementOfSeq
    <3>4. SubSeq(bytes, m, n) \in Seq(Byte)
      BY <3>1, <3>3, SubSeqProperties
    <3>. QED  BY <3>4 DEF m, n
  <2>. HIDE DEF starts
  <2>2. whole \in [1..Len(marks) -> Seq(Byte)]
    BY <2>1
  <2>3. whole \in Seq(Seq(Byte))
    BY <1>6, <2>2, SeqDef
  <2>. QED  BY <1>6, <2>3, LenProperties
<1>9. AreLines(parts, bytes, from)
  BY DEF IsFramed, from
<1>. HIDE DEF whole
<1>10. /\ AreLines(parts \o whole, bytes, Last(starts))
       /\ Last(starts) \in from..Len(bytes)
       /\ \A i \in Last(starts) + 1..Len(bytes) : bytes[i] # "newline"
  <2>. HIDE DEF starts, IsFramed
  <2>1. \A i \in 1..Len(marks) :
            whole[i] = SubSeq(bytes, (<<from>> \o marks)[i] + 1, marks[i] - 1)
    BY DEF whole, starts
  <2>2. /\ marks \in Seq(Nat) /\ IsIncreasing(marks)
        /\ Range(marks) \subseteq from + 1..Len(bytes)
        /\ \A i \in from + 1..Len(bytes) : bytes[i] = "newline" <=> i \in Range(marks)
        /\ whole \in Seq(Seq(Byte)) /\ Len(whole) = Len(marks)
    BY <1>3, <1>4, <1>5, <1>8
  <2>3. /\ AreLines(parts \o whole, bytes, Last(<<from>> \o marks))
        /\ Last(<<from>> \o marks) \in from..Len(bytes)
        /\ \A i \in Last(<<from>> \o marks) + 1..Len(bytes) : bytes[i] # "newline"
    <3>1. ArePieces(whole, bytes, from, marks)
      BY <2>1, <2>2 DEF ArePieces
    <3>. QED  BY <1>9, <3>1, MoreLines
  <2>. QED  BY <2>3 DEF starts
<1>. HIDE DEF starts
<1>11. Last(starts) \in 0..Len(bytes)
  BY <1>2, <1>10
<1>. QED  BY <1>1, <1>8, <1>10, <1>11

(* At the end, what is behind the last newline is a line of its own.       *)
LEMMA FramingEndsLines ==
    ASSUME NEW parts \in Seq(Seq(Byte)), NEW bytes \in Seq(Byte), IsFramed(parts, bytes),
           NEW framed, framed = Records(bytes, TRUE)
    PROVE  /\ framed.records \in Seq(Seq(Byte))
           /\ AreAllLines(parts \o framed.records, bytes)
           /\ framed.start = Len(bytes)
<1>. DEFINE before == Records(bytes, FALSE)
            whole == before.records
            to == before.start
            rest == SubSeq(bytes, to + 1, Len(bytes))
<1>1. /\ whole \in Seq(Seq(Byte))
      /\ AreLines(parts \o whole, bytes, to)
      /\ to \in 0..Len(bytes)
      /\ \A i \in to + 1..Len(bytes) : bytes[i] # "newline"
  BY FramingAddsLines
<1>2. /\ framed.records = IF rest # <<>> THEN Append(whole, rest) ELSE whole
      /\ framed.start = Len(bytes)
  BY DEF Records
<1>3. Len(bytes) \in Nat /\ parts \o whole \in Seq(Seq(Byte))
  BY <1>1, LenProperties, ConcatProperties
<1>. HIDE DEF before, whole, to
<1>4. rest \in Seq(Byte) /\ Len(rest) = Len(bytes) - to
  <2>1. to + 1 \in Int /\ Len(bytes) \in Int /\ \A i \in to + 1..Len(bytes) : bytes[i] \in Byte
    BY <1>1, <1>3, ElementOfSeq
  <2>2. /\ rest \in Seq(Byte)
        /\ Len(rest) = IF to + 1 <= Len(bytes) THEN Len(bytes) - (to + 1) + 1 ELSE 0
    BY <2>1, SubSeqProperties
  <2>. QED  BY <1>1, <1>3, <2>2
<1>. HIDE DEF rest
<1>5. CASE to = Len(bytes)
  <2>1. rest = <<>>
    BY <1>3, <1>4, <1>5
  <2>2. bytes = <<>> \/ Last(bytes) = "newline"
    <3>1. to = 0 \/ bytes[to] = "newline"
      BY <1>1, <1>3, LinesEndWithNewline
    <3>2. Len(bytes) = 0 => bytes = <<>>
      OBVIOUS
    <3>. QED  BY <1>5, <3>1, <3>2 DEF Last
  <2>3. Terminated(bytes) = bytes
    BY <2>2 DEF Terminated
  <2>. QED  BY <1>1, <1>2, <1>5, <2>1, <2>3 DEF AreAllLines
<1>6. CASE to # Len(bytes)
  <2>. DEFINE all == Append(bytes, "newline")
              end == Len(bytes) + 1
              mark == <<end>>
  <2>1. rest # <<>> /\ to \in Nat /\ to < Len(bytes)
    <3>1. to \in Nat /\ to < Len(bytes)
      BY <1>1, <1>3, <1>6
    <3>2. Len(rest) # 0
      BY <1>3, <1>4, <3>1
    <3>. QED  BY <3>1, <3>2
  <2>2. bytes # <<>> /\ Last(bytes) # "newline"
    <3>1. Len(bytes) \in to + 1..Len(bytes)
      BY <1>3, <2>1
    <3>2. bytes # <<>>
      BY <2>1
    <3>. QED  BY <1>1, <3>1, <3>2 DEF Last
  <2>3. /\ all \in Seq(Byte) /\ Len(all) = end /\ all[end] = "newline"
        /\ \A i \in 1..Len(bytes) : all[i] = bytes[i]
    BY <1>3 DEF Byte
  <2>. HIDE DEF all
  <2>4. Terminated(bytes) = all
    BY <2>2 DEF Terminated, all
  <2>5. Agree(bytes, all, to)
    BY <1>3, <2>1, <2>3 DEF Agree
  <2>6. AreLines(parts \o whole, all, to)
    BY <1>1, <1>3, <2>3, <2>5, LinesDependOnTheirBytes
  <2>7. /\ mark \in Seq(Nat) /\ Len(mark) = 1 /\ DOMAIN mark = 1..1 /\ mark[1] = end
        /\ <<rest>> \in Seq(Seq(Byte)) /\ Len(<<rest>>) = 1 /\ <<rest>>[1] = rest
        /\ (<<to>> \o mark)[1] = to /\ Len(<<to>> \o mark) = 2 /\ (<<to>> \o mark)[2] = end
    BY <1>3, <1>4, <2>1
  <2>8. ArePieces(<<rest>>, all, to, mark)
    <3>1. IsIncreasing(mark) /\ Range(mark) = {end}
      BY <2>7 DEF IsIncreasing, Range
    <3>2. \A i \in to + 1..end : all[i] = "newline" <=> i \in {end}
      <4>. SUFFICES ASSUME NEW i \in to + 1..end PROVE all[i] = "newline" <=> i = end
        OBVIOUS
      <4>1. CASE i = end
        BY <2>3, <4>1
      <4>2. CASE i # end
        <5>1. i \in to + 1..Len(bytes) /\ i \in 1..Len(bytes)
          <6>. HIDE DEF rest
          <6>1. i \in Nat /\ to + 1 <= i /\ i <= Len(bytes) + 1 /\ i # Len(bytes) + 1
            BY <1>3, <2>1, <4>2
          <6>2. to \in Nat /\ Len(bytes) \in Nat
            BY <1>3, <2>1
          <6>3. i <= Len(bytes) /\ 1 <= i
            BY <6>1, <6>2
          <6>. QED  BY <6>1, <6>2, <6>3
        <5>. QED  BY <1>1, <2>3, <4>2, <5>1
      <4>. QED  BY <4>1, <4>2
    <3>3. rest = SubSeq(all, to + 1, end - 1)
      <4>1. \A i \in to + 1..Len(bytes) : bytes[i] = all[i]
        BY <1>3, <2>1, <2>3
      <4>2. to + 1 \in Nat \ {0} /\ end - 1 = Len(bytes) /\ Len(bytes) <= Len(all)
        BY <1>3, <2>1, <2>3
      <4>3. SubSeq(bytes, to + 1, Len(bytes)) = SubSeq(all, to + 1, Len(bytes))
        <5>. DEFINE m == to + 1
                    n == Len(bytes)
        <5>1. m \in Nat \ {0} /\ n \in Nat /\ n <= Len(all) /\ \A i \in m..n : bytes[i] = all[i]
          BY <1>3, <4>1, <4>2
        <5>. HIDE DEF m
        <5>2. SubSeq(bytes, m, n) = SubSeq(all, m, n)
          BY <2>3, <5>1, SameSlice
        <5>. QED  BY <5>2 DEF m
      <4>. QED  BY <4>2, <4>3 DEF rest
    <3>4. \A i \in 1..Len(mark) : <<rest>>[i] = SubSeq(all, (<<to>> \o mark)[i] + 1, mark[i] - 1)
      <4>1. /\ <<rest>>[1] = rest /\ (<<to>> \o mark)[1] = to /\ mark[1] = end
            /\ \A i \in 1..Len(mark) : i = 1
        BY <2>7
      <4>. QED  BY <3>3, <4>1
    <3>5. {end} \subseteq to + 1..Len(all)
      BY <1>3, <2>1, <2>3
    <3>. QED  BY <2>3, <2>7, <3>1, <3>2, <3>4, <3>5 DEF ArePieces
  <2>. DEFINE starts == <<to>> \o mark
  <2>9. AreLines((parts \o whole) \o <<rest>>, all, Last(starts))
    BY <1>3, <2>3, <2>6, <2>7, <2>8, MoreLines
  <2>10. Last(starts) = end
    BY <2>7 DEF Last
  <2>11. /\ Append(whole, rest) \in Seq(Seq(Byte))
         /\ (parts \o whole) \o <<rest>> = parts \o Append(whole, rest)
    <3>1. Append(whole, rest) = whole \o <<rest>> /\ Append(whole, rest) \in Seq(Seq(Byte))
      <4>1. whole \in Seq(Seq(Byte)) /\ rest \in Seq(Byte)
        BY <1>1, <1>4
      <4>. QED  BY <4>1
    <3>2. (parts \o whole) \o <<rest>> = parts \o (whole \o <<rest>>)
      <4>1. whole \in Seq(Seq(Byte)) /\ <<rest>> \in Seq(Seq(Byte))
        BY <1>1, <2>7
      <4>. QED  BY <4>1, ConcatAssociative
    <3>. QED  BY <3>1, <3>2
  <2>12. AreLines(parts \o Append(whole, rest), all, Len(all))
    BY <2>3, <2>9, <2>10, <2>11
  <2>. QED  BY <1>2, <2>1, <2>4, <2>11, <2>12 DEF AreAllLines
<1>. QED  BY <1>5, <1>6

(***************************************************************************)
(* The invariant of what is read and handed over.                          *)
(***************************************************************************)
Undecided == {"start", "configure"} \cup LoopSteps

(* A child that exited by itself, and what it wrote is still read.         *)
Exiting == decided = "Exited" /\ pc \in {"stop", "reap", "drainStdout", "drainStderr", "drained"}

RestSteps == {"consumeRest", "settleRest"}

(* No stream was cut off or failed.                                        *)
NothingWrong ==
    pc \in Undecided \/ (decided = "Exited" /\ ending = "Exited" /\ "Read" \notin failures)

(* What was captured and what is in the pipe is what was written, and the  *)
(* end of a stream is only found behind the end of the child.              *)
StreamsAreTrue ==
    \A s \in Streams :
        /\ capture[s].state = "Open" /\ pc \notin Answered =>
               capture[s].bytes \o pipe[s] = produced[s]
        /\ capture[s].state = "Eof" =>
               capture[s].bytes = produced[s] /\ process # None /\ ~IsUp
        /\ pc \in LoopSteps \/ decided = "Exited" => capture[s].nonblocking
        /\ NothingWrong => capture[s].state \in {"Open", "Eof"}

(* As long as nothing went wrong, every line up to the framer is with the  *)
(* consumer or on the way to it.                                           *)
LinesAreHandedOver ==
    LET bytes == capture["stdout"].bytes IN
    /\ pc \notin {"consume", "accepted", "consumeRest"} => records = <<>>
    /\ pc \in Undecided \/ Exiting => IsFramed(consumed \o records, bytes)
    /\ pc = "consumeRest" => AreAllLines(consumed \o records, bytes)
    /\ pc = "settleRest" /\ ~cancelled /\ ending = "Exited" => AreAllLines(consumed, bytes)

(* The last records are handed over behind a cleanup without failures.     *)
RestIsWhole ==
    /\ pc = "settle" => failures # {} \/ ending # "Exited"
    /\ pc = "consumeRest" => ending = "Exited"
    /\ pc \in RestSteps => failures = {} /\ \A s \in Streams : capture[s].state = "Eof"
    /\ result = <<"Ok">> => pc \in {"close", "done"}

Whole ==
    /\ TypeOK
    /\ StreamsAreTrue
    /\ LinesAreHandedOver
    /\ RecordsInOrder
    /\ RestIsWhole
    /\ SuccessIsWhole

(***************************************************************************)
(* Reading a stream.                                                       *)
(***************************************************************************)
Captures == [bytes : Seq(Byte), nonblocking : BOOLEAN,
             state : {"Open", "Eof", "Truncated", "Failed"}]

(* What a read of a stream does: it keeps what was captured, and what it   *)
(* adds comes from the pipe.                                               *)
Reads(s) ==
    /\ capture' \in [Streams -> Captures]
    /\ pipe' \in [Streams -> Seq(Byte)]
    /\ \A t \in Streams \ {s} : capture'[t] = capture[t] /\ pipe'[t] = pipe[t]
    /\ Len(capture'[s].bytes) <= Bound[s]
    /\ capture'[s].nonblocking = capture[s].nonblocking
    /\ Agree(capture[s].bytes, capture'[s].bytes, Len(capture[s].bytes))
    /\ capture'[s].state = "Open" =>
           /\ capture[s].state = "Open"
           /\ capture'[s].bytes \o pipe'[s] = capture[s].bytes \o pipe[s]
    /\ capture'[s].state = "Eof" =>
           /\ capture'[s].bytes = capture[s].bytes
           /\ capture[s].state = "Open" => pipe[s] = <<>> /\ ~HasWriter
           /\ capture[s].state \in {"Open", "Eof"}

(* The smallest of some naturals is one of them.                           *)
LEMMA SmallestIsOne ==
    ASSUME NEW T \in SUBSET Nat, T # {}
    PROVE  Min(T) \in T /\ \A y \in T : Min(T) <= y
<1>1. \E x \in T : \A y \in T : x <= y
  BY Least
<1>. QED  BY <1>1 DEF Min

(* A sequence is its first elements and the rest.                          *)
LEMMA CutInTwo ==
    ASSUME NEW S, NEW seq \in Seq(S), NEW n \in 0..Len(seq)
    PROVE  /\ SubSeq(seq, 1, n) \in Seq(S)
           /\ Len(SubSeq(seq, 1, n)) = n
           /\ SubSeq(seq, n + 1, Len(seq)) \in Seq(S)
           /\ SubSeq(seq, 1, n) \o SubSeq(seq, n + 1, Len(seq)) = seq
<1>1. Len(seq) \in Nat
  BY LenProperties
<1>2. SubSeq(seq, 1, n) \in Seq(S) /\ Len(SubSeq(seq, 1, n)) = n
  <2>1. \A i \in 1..n : seq[i] \in S
    BY <1>1, ElementOfSeq
  <2>2. /\ SubSeq(seq, 1, n) \in Seq(S)
        /\ Len(SubSeq(seq, 1, n)) = IF 1 <= n THEN n - 1 + 1 ELSE 0
    BY <1>1, <2>1, SubSeqProperties
  <2>. QED  BY <1>1, <2>2
<1>3. SubSeq(seq, n + 1, Len(seq)) \in Seq(S)
  <2>1. \A i \in n + 1..Len(seq) : seq[i] \in S
    BY <1>1, ElementOfSeq
  <2>2. n + 1 \in Int /\ Len(seq) \in Int
    BY <1>1
  <2>. QED  BY <2>1, <2>2, SubSeqProperties
<1>4. SubSeq(seq, 1, n) \o SubSeq(seq, n + 1, Len(seq)) = SubSeq(seq, 1, Len(seq))
  <2>1. 1 \in 1..Len(seq) + 1 /\ n \in 1 - 1..Len(seq) /\ Len(seq) \in n..Len(seq)
    BY <1>1
  <2>. QED  BY <2>1, ConcatAdjacentSubSeq
<1>5. SubSeq(seq, 1, Len(seq)) = seq
  BY SubSeqFull
<1>. QED  BY <1>2, <1>3, <1>4, <1>5

(* What was captured stays within its bound.                               *)
LEMMA RoomIsLeft ==
    ASSUME TypeOK, NEW s \in Streams
    PROVE  /\ capture[s] \in Captures
           /\ pipe[s] \in Seq(Byte)
           /\ Remaining(s) \in Nat
           /\ Bound[s] \in Nat
           /\ Len(capture[s].bytes) \in Nat
           /\ Len(capture[s].bytes) + Remaining(s) = Bound[s]
<1>1. capture[s] \in Captures /\ pipe[s] \in Seq(Byte) /\ Len(capture[s].bytes) <= Bound[s]
  BY DEF TypeOK, Captures
<1>2. Bound[s] \in Nat
  BY BoundsAssumption DEF Bound, Streams
<1>3. Len(capture[s].bytes) \in Nat
  BY <1>1, LenProperties DEF Captures
<1>. QED  BY <1>1, <1>2, <1>3 DEF Remaining

(* Bytes may be joined in any order.                                       *)
LEMMA BytesAreJoined == \A a, b, c \in Seq(Byte) : (a \o b) \o c = a \o (b \o c)
BY ConcatAssociative

(* What is kept of a chunk at the head of the pipe.                        *)
LEMMA KeepReads ==
    ASSUME TypeOK, NEW s \in Streams, capture[s].state = "Open",
           NEW n \in 0..Len(pipe[s]), NEW chunk, chunk = SubSeq(pipe[s], 1, n),
           NEW state \in {"Open", "Eof", "Truncated", "Failed"}, Keep(s, chunk, state),
           state = "Open" => n <= Remaining(s),
           state = "Eof" => chunk = <<>> /\ pipe[s] = <<>> /\ ~HasWriter
    PROVE  Reads(s) /\ capture'[s].state = state
<1>. DEFINE bytes == capture[s].bytes
            room == Remaining(s)
            k == Min({Len(chunk), room})
            kept == SubSeq(chunk, 1, k)
            rest == SubSeq(pipe[s], Len(chunk) + 1, Len(pipe[s]))
<1>1. /\ capture[s] \in Captures /\ pipe[s] \in Seq(Byte) /\ room \in Nat /\ Bound[s] \in Nat
      /\ Len(bytes) \in Nat /\ Len(bytes) + room = Bound[s] /\ bytes \in Seq(Byte)
  BY RoomIsLeft DEF Captures
<1>2. /\ chunk \in Seq(Byte) /\ Len(chunk) = n /\ n \in Nat /\ Len(pipe[s]) \in Nat
      /\ rest \in Seq(Byte) /\ chunk \o rest = pipe[s]
  <2>1. /\ chunk \in Seq(Byte) /\ Len(chunk) = n
        /\ SubSeq(pipe[s], n + 1, Len(pipe[s])) \in Seq(Byte)
        /\ chunk \o SubSeq(pipe[s], n + 1, Len(pipe[s])) = pipe[s]
    BY <1>1, CutInTwo
  <2>2. rest = SubSeq(pipe[s], n + 1, Len(pipe[s]))
    BY <2>1
  <2>3. n \in Nat /\ Len(pipe[s]) \in Nat
    BY <1>1, LenProperties
  <2>. QED  BY <2>1, <2>2, <2>3
<1>. HIDE DEF room
<1>3. k \in 0..n /\ k <= room /\ (k = n \/ k = room)
  <2>1. {Len(chunk), room} \in SUBSET Nat /\ {Len(chunk), room} # {}
    BY <1>1, <1>2
  <2>2. k \in {Len(chunk), room} /\ \A y \in {Len(chunk), room} : k <= y
    BY <2>1, SmallestIsOne
  <2>. QED  BY <1>1, <1>2, <2>2
<1>. HIDE DEF k, rest
<1>4. kept \in Seq(Byte) /\ Len(kept) = k
  BY <1>2, <1>3, CutInTwo
<1>5. k = n => kept = chunk
  BY <1>2, SubSeqFull
<1>. HIDE DEF kept
<1>6. /\ capture' = [capture EXCEPT ![s].bytes = bytes \o kept, ![s].state = state]
      /\ pipe' = [pipe EXCEPT ![s] = rest]
  BY DEF Keep, kept, k, rest, room
<1>7. /\ bytes \o kept \in Seq(Byte) /\ Len(bytes \o kept) = Len(bytes) + k
      /\ \A i \in 1..Len(bytes) : (bytes \o kept)[i] = bytes[i]
  <2>1. /\ bytes \o kept \in Seq(Byte) /\ Len(bytes \o kept) = Len(bytes) + Len(kept)
        /\ \A i \in 1..Len(bytes) + Len(kept) :
               (bytes \o kept)[i] = IF i <= Len(bytes) THEN bytes[i] ELSE kept[i - Len(bytes)]
    BY <1>1, <1>4, ConcatProperties
  <2>2. \A i \in 1..Len(bytes) : i \in 1..Len(bytes) + Len(kept) /\ i <= Len(bytes)
    BY <1>1, <1>3, <1>4
  <2>. QED  BY <1>4, <2>1, <2>2
<1>8. /\ capture \in [Streams -> Captures] /\ pipe \in [Streams -> Seq(Byte)]
  BY DEF TypeOK, Captures
<1>9. /\ capture'[s].bytes = bytes \o kept /\ capture'[s].state = state
      /\ capture'[s].nonblocking = capture[s].nonblocking
      /\ pipe'[s] = rest
      /\ \A t \in Streams \ {s} : capture'[t] = capture[t] /\ pipe'[t] = pipe[t]
      /\ capture'[s] \in Captures
  BY <1>1, <1>6, <1>7, <1>8 DEF Captures
<1>10. capture' \in [Streams -> Captures] /\ pipe' \in [Streams -> Seq(Byte)]
  <2>1. \A t \in Streams : capture'[t] \in Captures /\ pipe'[t] \in Seq(Byte)
    BY <1>2, <1>8, <1>9
  <2>. QED  BY <1>6, <1>8, <2>1
<1>11. Len(capture'[s].bytes) <= Bound[s]
  BY <1>1, <1>3, <1>7, <1>9
<1>12. Agree(bytes, capture'[s].bytes, Len(bytes))
  BY <1>1, <1>3, <1>7, <1>9 DEF Agree
<1>13. state = "Open" => capture'[s].bytes \o pipe'[s] = bytes \o pipe[s]
  <2>. SUFFICES ASSUME state = "Open" PROVE capture'[s].bytes \o pipe'[s] = bytes \o pipe[s]
    OBVIOUS
  <2>1. k = n
    BY <1>1, <1>2, <1>3 DEF room
  <2>2. (bytes \o chunk) \o rest = bytes \o (chunk \o rest)
    <3>1. bytes \in Seq(Byte) /\ chunk \in Seq(Byte) /\ rest \in Seq(Byte)
      BY <1>1, <1>2
    <3>. HIDE DEF bytes
    <3>. QED  BY <3>1, BytesAreJoined, Zenon
  <2>3. kept = chunk /\ chunk \o rest = pipe[s]
    BY <1>2, <1>5, <2>1, Zenon
  <2>4. capture'[s].bytes = bytes \o kept /\ pipe'[s] = rest
    BY <1>9, Zenon
  <2>. QED  BY <2>2, <2>3, <2>4, Zenon
<1>14. state = "Eof" => capture'[s].bytes = bytes
  <2>. SUFFICES ASSUME state = "Eof" PROVE capture'[s].bytes = bytes
    OBVIOUS
  <2>1. n = 0 /\ k = 0
    BY <1>2, <1>3
  <2>2. kept = <<>>
    BY <1>2, <1>5, <2>1
  <2>. QED  BY <1>1, <1>9, <2>2, ConcatEmptySeq
<1>. QED  BY <1>9, <1>10, <1>11, <1>12, <1>13, <1>14 DEF Reads

(* A chunk is the head of the pipe.                                        *)
LEMMA ChunkIsHead ==
    ASSUME TypeOK, NEW s \in Streams
    PROVE  \E n \in 0..Len(pipe[s]) : Chunk(s) = SubSeq(pipe[s], 1, n) /\ Len(Chunk(s)) = n
<1>. DEFINE sizes == {Len(pipe[s]), Remaining(s) + 1, ReadChunk}
            n == Min(sizes)
<1>1. pipe[s] \in Seq(Byte) /\ Remaining(s) \in Nat
  BY RoomIsLeft
<1>2. Len(pipe[s]) \in Nat /\ ReadChunk \in Nat
  BY <1>1, LenProperties, BoundsAssumption
<1>3. sizes \in SUBSET Nat /\ sizes # {}
  BY <1>1, <1>2
<1>4. n \in sizes /\ \A y \in sizes : n <= y
  BY <1>3, SmallestIsOne
<1>. HIDE DEF n
<1>5. n \in 0..Len(pipe[s])
  BY <1>2, <1>3, <1>4
<1>6. Len(SubSeq(pipe[s], 1, n)) = n
  BY <1>1, <1>5, CutInTwo
<1>. QED  BY <1>5, <1>6 DEF Chunk, n

(* A read that finds nothing, the end or some bytes.                       *)
LEMMA OrdinaryRead ==
    ASSUME TypeOK, NEW s \in Streams, ReadNothing(s) \/ ReadEof(s) \/ ReadSome(s)
    PROVE  Reads(s) /\ capture'[s].state \in {capture[s].state, "Eof"}
<1>1. /\ capture \in [Streams -> Captures] /\ pipe \in [Streams -> Seq(Byte)]
      /\ Len(capture[s].bytes) <= Bound[s] /\ Len(capture[s].bytes) \in Nat
  BY RoomIsLeft DEF TypeOK, Captures
<1>2. CASE ReadNothing(s)
  <2>1. capture' = capture /\ pipe' = pipe
    BY <1>2 DEF ReadNothing
  <2>2. capture[s].state = "Eof" => capture[s].state # "Open"
    OBVIOUS
  <2>3. Agree(capture[s].bytes, capture'[s].bytes, Len(capture[s].bytes))
    BY <1>1, <2>1 DEF Agree
  <2>. QED  BY <1>1, <2>1, <2>3 DEF Reads
<1>3. CASE ReadEof(s)
  <2>1. /\ capture[s].state = "Open" /\ pipe[s] = <<>> /\ ~HasWriter
        /\ Keep(s, <<>>, "Eof")
    BY <1>3 DEF ReadEof, Readable
  <2>2. 0 \in 0..Len(pipe[s]) /\ <<>> = SubSeq(pipe[s], 1, 0)
    BY <2>1
  <2>. QED  BY <2>1, <2>2, KeepReads
<1>4. CASE ReadSome(s)
  <2>1. capture[s].state = "Open" /\ Len(Chunk(s)) <= Remaining(s) /\ Keep(s, Chunk(s), "Open")
    BY <1>4 DEF ReadSome, Readable
  <2>2. PICK n \in 0..Len(pipe[s]) : Chunk(s) = SubSeq(pipe[s], 1, n) /\ Len(Chunk(s)) = n
    BY ChunkIsHead
  <2>3. Reads(s) /\ capture'[s].state = "Open"
    BY <2>1, <2>2, KeepReads
  <2>. QED  BY <2>1, <2>3
<1>. QED  BY <1>2, <1>3, <1>4

(* A read that finds too much, or fails.                                   *)
LEMMA LastRead ==
    ASSUME TypeOK, NEW s \in Streams, ReadExcess(s) \/ ReadFails(s)
    PROVE  Reads(s) /\ capture'[s].state \in {"Truncated", "Failed"}
<1>1. capture[s].state = "Open"
  BY DEF ReadExcess, ReadFails, Readable
<1>2. CASE ReadExcess(s)
  <2>1. Keep(s, Chunk(s), "Truncated")
    BY <1>2 DEF ReadExcess
  <2>2. PICK n \in 0..Len(pipe[s]) : Chunk(s) = SubSeq(pipe[s], 1, n)
    BY ChunkIsHead
  <2>3. Reads(s) /\ capture'[s].state = "Truncated"
    BY <1>1, <2>1, <2>2, KeepReads
  <2>. QED  BY <2>3
<1>3. CASE ReadFails(s)
  <2>1. Keep(s, <<>>, "Failed")
    BY <1>3 DEF ReadFails
  <2>2. pipe[s] \in Seq(Byte)
    BY RoomIsLeft
  <2>3. 0 \in 0..Len(pipe[s]) /\ <<>> = SubSeq(pipe[s], 1, 0)
    BY <2>2, LenProperties, CutInTwo
  <2>4. Reads(s) /\ capture'[s].state = "Failed"
    BY <1>1, <2>1, <2>3, KeepReads
  <2>. QED  BY <2>4
<1>. QED  BY <1>2, <1>3

(* Reading a stream leaves both true.                                      *)
LEMMA StreamsAfterRead ==
    ASSUME TypeOK, StreamsAreTrue, NEW s \in Streams, Reads(s),
           UNCHANGED <<produced, process>>, process # None, pc \notin Answered,
           (pc \in LoopSteps \/ decided = "Exited")' => pc \in LoopSteps \/ decided = "Exited",
           NothingWrong' => NothingWrong /\ capture'[s].state \in {"Open", "Eof"}
    PROVE  StreamsAreTrue'
<1>. SUFFICES ASSUME NEW t \in Streams
     PROVE  /\ capture'[t].state = "Open" /\ pc' \notin Answered =>
                   capture'[t].bytes \o pipe'[t] = produced[t]
            /\ capture'[t].state = "Eof" =>
                   capture'[t].bytes = produced[t] /\ process # None /\ ~IsUp
            /\ (pc \in LoopSteps \/ decided = "Exited")' => capture'[t].nonblocking
            /\ NothingWrong' => capture'[t].state \in {"Open", "Eof"}
  BY DEF StreamsAreTrue, NothingWrong, IsUp
<1>1. /\ capture[t].state = "Open" => capture[t].bytes \o pipe[t] = produced[t]
      /\ capture[t].state = "Eof" => capture[t].bytes = produced[t] /\ ~IsUp
      /\ pc \in LoopSteps \/ decided = "Exited" => capture[t].nonblocking
      /\ NothingWrong => capture[t].state \in {"Open", "Eof"}
  BY DEF StreamsAreTrue, NothingWrong
<1>2. CASE t # s
  BY <1>1, <1>2 DEF Reads
<1>3. CASE t = s
  <2>1. capture[s].bytes \in Seq(Byte)
    BY RoomIsLeft DEF Captures
  <2>2. ASSUME capture'[s].state = "Eof"
        PROVE  capture'[s].bytes = produced[s] /\ ~IsUp
    <3>1. CASE capture[s].state = "Open"
      <4>1. capture[s].bytes \o <<>> = produced[s] /\ ~IsUp /\ capture'[s].bytes = capture[s].bytes
        BY <1>1, <1>3, <2>2, <3>1 DEF Reads, HasWriter
      <4>. QED  BY <2>1, <4>1, ConcatEmptySeq
    <3>2. CASE capture[s].state = "Eof"
      BY <1>1, <1>3, <2>2, <3>2 DEF Reads
    <3>. QED  BY <2>2, <3>1, <3>2 DEF Reads
  <2>. QED  BY <1>1, <1>3, <2>2 DEF Reads
<1>. QED  BY <1>2, <1>3

(* Other steps leave them true that do not touch them.                     *)
LEMMA StreamsStay ==
    ASSUME StreamsAreTrue, UNCHANGED <<capture, pipe, produced>>,
           process # None /\ ~IsUp => (process # None /\ ~IsUp)',
           pc \in Answered => pc' \in Answered,
           (pc \in LoopSteps \/ decided = "Exited")' => pc \in LoopSteps \/ decided = "Exited",
           NothingWrong' => NothingWrong
    PROVE  StreamsAreTrue'
BY DEF StreamsAreTrue, NothingWrong

(***************************************************************************)
(* Types.                                                                  *)
(***************************************************************************)
(* Everything but the phases, which the first invariant types, and the     *)
(* data.                                                                   *)
ControlTypeOK ==
    /\ written \in 0..Input
    /\ failures \subseteq {"KillGroup", "Reap", "Read"}
    /\ lifecycle \in {None, "Spawned", "Stopping", "Reaped"}
    /\ process \in {None, "running", "dying", "killed", "exitedZero", "exitedNonzero"}
    /\ escapee \in BOOLEAN
    /\ cancelled \in BOOLEAN
    /\ faults \in 0..MaxFaults

DataTypeOK ==
    /\ capture \in [Streams -> Captures]
    /\ \A s \in Streams : Len(capture[s].bytes) <= Bound[s]
    /\ framer \in [start : Nat, scanned : 0..Len(capture["stdout"].bytes)]
    /\ framer.start <= framer.scanned
    /\ records \in Seq(Seq(Byte))
    /\ consumed \in Seq(Seq(Byte))
    /\ pipe \in [Streams -> Seq(Byte)]
    /\ produced \in [Streams -> Seq(Byte)]

(* The three together are the type.                                        *)
LEMMA TypeInParts == TypeOK <=> CleanupTypeOK /\ ControlTypeOK /\ DataTypeOK
BY DEF TypeOK, CleanupTypeOK, ControlTypeOK, DataTypeOK, Captures

(* A call succeeds, or fails once more within the bound.                   *)
LEMMA FaultsAreCounted ==
    ASSUME faults \in 0..MaxFaults, Succeeds \/ Fails
    PROVE  faults' \in 0..MaxFaults
BY BoundsAssumption DEF Succeeds, Fails

(* Every step keeps these types.                                           *)
LEMMA ControlStaysTyped ==
    ASSUME ControlTypeOK, [Next]_vars
    PROVE  ControlTypeOK'
<1>. USE DEF ControlTypeOK
<1>1. CASE Launch
  <2>1. Succeeds \/ Fails
    BY <1>1 DEF Launch
  <2>2. UNCHANGED <<written, failures, escapee, cancelled>>
    BY <1>1 DEF Launch
  <2>3. lifecycle' \in {lifecycle, "Spawned"} /\ process' \in {process, "running"}
    BY <1>1 DEF Launch
  <2>. QED  BY <2>1, <2>2, <2>3, FaultsAreCounted
<1>2. CASE Configure \/ Poll \/ TimeOut \/ Consume \/ Accepted \/ ObserveExit
  <2>1. /\ Succeeds \/ Fails
        /\ UNCHANGED <<written, failures, lifecycle, process, escapee, cancelled>>
    BY <1>2 DEF Configure, Poll, TimeOut, Consume, Accepted, ObserveExit, world, Succeeds
  <2>. QED  BY <2>1, FaultsAreCounted
<1>3. CASE WriteInput
  <2>1. /\ Succeeds \/ Fails
        /\ UNCHANGED <<failures, lifecycle, process, escapee, cancelled>>
    BY <1>3 DEF WriteInput
  <2>2. written' = written \/ \E n \in 0..Input - written : written' = written + n
    BY <1>3 DEF WriteInput
  <2>3. written' \in 0..Input
    BY <2>2, BoundsAssumption
  <2>. QED  BY <2>1, <2>3, FaultsAreCounted
<1>4. CASE ReadStdout \/ ReadStderr
  <2>1. /\ \A s \in Streams :
               ReadNothing(s) \/ ReadEof(s) \/ ReadSome(s) \/ ReadExcess(s) \/ ReadFails(s)
                   => Succeeds \/ Fails
        /\ UNCHANGED <<written, failures, lifecycle, process, escapee, cancelled>>
    BY <1>4
    DEF ReadStdout, ReadStderr, ReadNothing, ReadEof, ReadSome, ReadExcess, ReadFails, Succeeds
  <2>2. Succeeds \/ Fails
    BY <1>4, <2>1 DEF ReadStdout, ReadStderr, Streams
  <2>. QED  BY <2>1, <2>2, FaultsAreCounted
<1>5. CASE Stop \/ DropGuard
  <2>1. Succeeds \/ Fails
    BY <1>5 DEF Stop, DropGuard
  <2>2. UNCHANGED <<written, cancelled>> /\ lifecycle' \in {lifecycle, "Stopping"}
        /\ failures' \in {failures, failures \cup {"KillGroup"}}
    BY <1>5 DEF Stop, DropGuard, supervisor
  <2>3. process' \in {process, "dying"} /\ escapee' \in {FALSE, escapee}
    BY <1>5 DEF Stop, DropGuard, KillGroup
  <2>. QED  BY <2>1, <2>2, <2>3, FaultsAreCounted
<1>6. CASE Reap \/ ReapFails \/ ReapTimesOut
  <2>1. Succeeds \/ Fails
    BY <1>6 DEF Reap, ReapFails, ReapTimesOut
  <2>2. /\ UNCHANGED <<written, process, escapee, cancelled>>
        /\ lifecycle' \in {"Reaped", "Stopping"}
        /\ failures' \in {failures, failures \cup {"Reap"}}
    BY <1>6 DEF Reap, ReapFails, ReapTimesOut, AfterReap, world
  <2>. QED  BY <2>1, <2>2, FaultsAreCounted
<1>7. CASE DrainStdout \/ DrainStderr
  <2>1. PICK s \in Streams, next \in {"drainStderr", "drained"} : Drain(s, next)
    BY <1>7 DEF DrainStdout, DrainStderr, Streams
  <2>2. /\ Succeeds \/ Fails
        /\ UNCHANGED <<written, lifecycle, process, escapee, cancelled>>
        /\ failures' \in {failures, failures \cup {"Read"}}
    BY <2>1 DEF Drain, ReadNothing, ReadEof, ReadSome, ReadExcess, ReadFails, Succeeds
  <2>. QED  BY <2>2, FaultsAreCounted
<1>8. CASE Drained \/ DrainTimesOut
  <2>1. /\ UNCHANGED <<written, lifecycle, process, escapee, cancelled, faults>>
        /\ failures' \in {failures, failures \cup {"Read"}}
    BY <1>8 DEF Drained, DrainTimesOut, AfterDraining, world
  <2>. QED  BY <2>1
<1>9. CASE StillDraining \/ ConsumeRest \/ Settle
  BY <1>9 DEF StillDraining, ConsumeRest, Settle, supervisor, world
<1>10. CASE DropReaps \/ DropTimesOut
  BY <1>10 DEF DropReaps, DropTimesOut, DropReap, world
<1>11. CASE CloseWorkspace
  <2>1. /\ Succeeds \/ Fails
        /\ UNCHANGED <<written, failures, lifecycle, process, escapee, cancelled>>
    BY <1>11 DEF CloseWorkspace
  <2>. QED  BY <2>1, FaultsAreCounted
<1>12. CASE (\E s \in Streams : ChildWrites(s)) \/ Cancel \/ UNCHANGED vars
  <2>1. /\ UNCHANGED <<written, failures, lifecycle, process, escapee, faults>>
        /\ cancelled' \in {cancelled, TRUE}
    BY <1>12 DEF ChildWrites, Cancel, vars, supervisor, world
  <2>. QED  BY <2>1
<1>13. CASE ChildEnds
  <2>1. /\ UNCHANGED <<written, failures, lifecycle, cancelled, faults>>
        /\ process' \in {process, "exitedZero", "exitedNonzero", "killed"}
        /\ escapee' \in BOOLEAN
    BY <1>13 DEF ChildEnds, supervisor
  <2>. QED  BY <2>1
<1>. QED
  BY <1>1, <1>2, <1>3, <1>4, <1>5, <1>6, <1>7, <1>8, <1>9, <1>10, <1>11, <1>12, <1>13
  DEF Next, Supervise, Finish, Clock

(***************************************************************************)
(* The lines the consumer gets.                                            *)
(***************************************************************************)
(* The lines are handed over in order, with those still to come.           *)
InOrderSoFar ==
    \E to \in 0..Len(capture["stdout"].bytes) : AreLines(consumed, capture["stdout"].bytes, to)

(* What the framer and the consumer have is typed.                         *)
LEMMA LinesAreTyped ==
    ASSUME DataTypeOK
    PROVE  /\ consumed \in Seq(Seq(Byte)) /\ records \in Seq(Seq(Byte))
           /\ consumed \o records \in Seq(Seq(Byte))
           /\ consumed \o <<>> = consumed
           /\ capture["stdout"].bytes \in Seq(Byte)
           /\ Len(capture["stdout"].bytes) \in Nat
<1>1. consumed \in Seq(Seq(Byte)) /\ records \in Seq(Seq(Byte))
  BY DEF DataTypeOK
<1>2. capture["stdout"].bytes \in Seq(Byte)
  BY DEF DataTypeOK, Captures, Streams
<1>. QED  BY <1>1, <1>2, ConcatProperties, ConcatEmptySeq, LenProperties

(* So may lines.                                                           *)
LEMMA LinesAreJoined == \A a, b, c \in Seq(Seq(Byte)) : (a \o b) \o c = a \o (b \o c)
BY ConcatAssociative

(* Handing over moves the first record from one side to the other.         *)
LEMMA HandOverMovesOne ==
    ASSUME DataTypeOK, records # <<>>, HandOver
    PROVE  /\ consumed' \in Seq(Seq(Byte)) /\ records' \in Seq(Seq(Byte))
           /\ consumed' \o records' = consumed \o records
<1>. DEFINE one == <<Head(records)>>
<1>1. consumed \in Seq(Seq(Byte)) /\ records \in Seq(Seq(Byte))
  BY LinesAreTyped
<1>2. Head(records) \in Seq(Byte) /\ Tail(records) \in Seq(Seq(Byte))
  BY <1>1, HeadTailProperties
<1>3. one \in Seq(Seq(Byte)) /\ consumed' = consumed \o one /\ records' = Tail(records)
  <2>1. one \in Seq(Seq(Byte))
    BY <1>2
  <2>2. Append(consumed, Head(records)) = consumed \o one
    BY <1>1, <1>2, AppendIsConcat
  <2>. QED  BY <2>1, <2>2 DEF HandOver
<1>4. one \o Tail(records) = records
  BY <1>1
<1>. HIDE DEF one
<1>5. (consumed \o one) \o Tail(records) = consumed \o (one \o Tail(records))
  BY <1>1, <1>2, <1>3, LinesAreJoined, Zenon
<1>6. consumed \o one \in Seq(Seq(Byte))
  BY <1>1, <1>3, ConcatProperties
<1>. QED  BY <1>2, <1>3, <1>4, <1>5, <1>6

(* What is framed is in order, whatever of it was handed over.             *)
LEMMA FramedIsInOrder ==
    ASSUME DataTypeOK, IsFramed(consumed \o records, capture["stdout"].bytes)
    PROVE  InOrderSoFar
<1>. DEFINE bytes == capture["stdout"].bytes
<1>1. AreLines(consumed \o records, bytes, framer.start)
  BY DEF IsFramed
<1>2. /\ consumed \in Seq(Seq(Byte)) /\ records \in Seq(Seq(Byte)) /\ bytes \in Seq(Byte)
      /\ consumed \o records \in Seq(Seq(Byte)) /\ Len(bytes) \in Nat
  BY LinesAreTyped
<1>. HIDE DEF bytes
<1>3. PICK end \in 0..framer.start : AreLines(consumed, bytes, end)
  BY <1>1, <1>2, FirstLines
<1>4. PICK ends : AreEnds(ends, consumed, bytes, end)
  BY <1>3 DEF AreLines, AreEnds
<1>5. end \in 0..Len(bytes)
  BY <1>2, <1>4, EndsAreInOrder
<1>. QED  BY <1>3, <1>5 DEF InOrderSoFar, bytes

(* Order survives that more is read.                                       *)
LEMMA OrderSurvivesReading ==
    ASSUME DataTypeOK, InOrderSoFar, Reads("stdout"), UNCHANGED consumed
    PROVE  InOrderSoFar'
<1>. DEFINE bytes == capture["stdout"].bytes
            more == capture'["stdout"].bytes
<1>1. consumed \in Seq(Seq(Byte)) /\ bytes \in Seq(Byte) /\ Len(bytes) \in Nat
  BY LinesAreTyped
<1>2. more \in Seq(Byte) /\ Agree(bytes, more, Len(bytes))
  BY DEF Reads, Captures, Streams
<1>3. PICK to \in 0..Len(bytes) : AreLines(consumed, bytes, to)
  BY DEF InOrderSoFar
<1>. HIDE DEF bytes, more
<1>4. Len(more) \in Nat /\ Len(bytes) <= Len(more)
  BY <1>2, LenProperties DEF Agree
<1>5. Agree(bytes, more, to) /\ to \in 0..Len(more)
  BY <1>1, <1>2, <1>3, <1>4 DEF Agree
<1>6. AreLines(consumed, more, to)
  BY <1>1, <1>2, <1>3, <1>5, LinesDependOnTheirBytes
<1>. QED  BY <1>5, <1>6 DEF InOrderSoFar, more

(* So does framing.                                                        *)
LEMMA FramingSurvivesReading ==
    ASSUME DataTypeOK, records = <<>>, IsFramed(consumed \o records, capture["stdout"].bytes),
           Reads("stdout")
    PROVE  IsFramed(consumed, capture'["stdout"].bytes)
<1>. DEFINE bytes == capture["stdout"].bytes
            more == capture'["stdout"].bytes
<1>1. consumed \in Seq(Seq(Byte)) /\ bytes \in Seq(Byte) /\ Len(bytes) \in Nat
      /\ consumed \o records = consumed
  BY LinesAreTyped
<1>2. more \in Seq(Byte) /\ Agree(bytes, more, Len(bytes))
  BY DEF Reads, Captures, Streams
<1>3. framer.start \in Nat /\ framer.scanned \in Nat /\ framer.start <= framer.scanned
  BY DEF DataTypeOK
<1>4. /\ AreLines(consumed, bytes, framer.start)
      /\ framer.scanned \in framer.start..Len(bytes)
      /\ \A i \in framer.start + 1..framer.scanned : bytes[i] # "newline"
  BY <1>1 DEF IsFramed
<1>. HIDE DEF bytes, more
<1>5. Len(more) \in Nat /\ Len(bytes) <= Len(more)
  BY <1>2, LenProperties DEF Agree
<1>6. Agree(bytes, more, framer.start) /\ framer.scanned \in framer.start..Len(more)
  BY <1>1, <1>2, <1>3, <1>4, <1>5 DEF Agree
<1>7. AreLines(consumed, more, framer.start)
  BY <1>1, <1>2, <1>4, <1>6, LinesDependOnTheirBytes
<1>8. \A i \in framer.start + 1..framer.scanned : more[i] # "newline"
  <2>1. \A i \in framer.start + 1..framer.scanned : i \in 1..Len(bytes)
    BY <1>1, <1>3, <1>4
  <2>. QED  BY <1>2, <1>4, <2>1 DEF Agree
<1>. QED  BY <1>6, <1>7, <1>8 DEF IsFramed, more

(* Before a read, all there is was framed or the order is kept for good.   *)
LEMMA OrderBeforeReading ==
    ASSUME DataTypeOK, LinesAreHandedOver, RecordsInOrder,
           pc \in Undecided \/ pc \in {"stop", "reap", "drainStdout", "drainStderr", "drained"}
    PROVE  InOrderSoFar
<1>1. CASE pc \in Undecided \/ Exiting
  BY <1>1, FramedIsInOrder DEF LinesAreHandedOver
<1>2. CASE decided # "Exited"
  BY <1>2 DEF RecordsInOrder, InOrderSoFar
<1>. QED  BY <1>1, <1>2 DEF Exiting

(* Steps that leave stdout and the records alone.                          *)
LEMMA LinesStay ==
    ASSUME LinesAreHandedOver, RecordsInOrder,
           capture'["stdout"].bytes = capture["stdout"].bytes,
           UNCHANGED <<framer, records, consumed>>,
           decided = "Exited" => decided' = "Exited",
           pc \in {"consume", "accepted", "consumeRest"}
               => pc' \in {"consume", "accepted", "consumeRest"},
           (pc \in Undecided \/ Exiting)' => pc \in Undecided \/ Exiting,
           pc' = "consumeRest" => pc = "consumeRest",
           (pc = "settleRest" /\ ~cancelled /\ ending = "Exited")'
               => pc = "settleRest" /\ ~cancelled /\ ending = "Exited"
    PROVE  LinesAreHandedOver' /\ RecordsInOrder'
<1>. DEFINE bytes == capture["stdout"].bytes
<1>1. capture'["stdout"].bytes = bytes
  OBVIOUS
<1>. HIDE DEF bytes
<1>2. LinesAreHandedOver'
  BY <1>1 DEF LinesAreHandedOver, IsFramed, bytes
<1>3. RecordsInOrder'
  BY <1>1 DEF RecordsInOrder, bytes
<1>. QED  BY <1>2, <1>3

(***************************************************************************)
(* The steps that touch neither stdout nor the records.                    *)
(***************************************************************************)
Kept ==
    /\ DataTypeOK
    /\ StreamsAreTrue
    /\ LinesAreHandedOver
    /\ RecordsInOrder

Draining == {"stop", "reap", "drainStdout", "drainStderr", "drained"}

(* Where such a step may lead: on or to an ending, along the cleanup,      *)
(* behind the answer, or nowhere.                                          *)
MovesOn ==
    /\ pc \in Undecided \ {"consume", "accepted"}
    /\ \/ pc' \in Undecided /\ (pc' \in LoopSteps => pc \in LoopSteps) /\ decided' = decided
       \/ pc' = "stop" /\ (decided' = "Exited" => pc \in LoopSteps)
       \/ pc' = "close" /\ decided' = decided

CleansUp ==
    /\ \/ pc \in Draining /\ pc' \in Draining \cup {"settle"}
       \/ pc \in Answered /\ pc' \in Answered
    /\ UNCHANGED <<decided, ending>>
    /\ failures \subseteq failures'

Moves ==
    \/ MovesOn
    \/ CleansUp
    \/ pc' = pc /\ UNCHANGED <<decided, ending, failures>>

GoneIsGone == process # None /\ ~IsUp => (process # None /\ ~IsUp)'

(* As long as supervision goes on nothing is decided.                      *)
LEMMA UndecidedIsNone ==
    ASSUME IInv, pc \in Undecided
    PROVE  decided = None
BY DEF IInv, PhasesInOrder, Undecided, Supervising

(* No place is in two of the phases.                                       *)
LEMMA MovesAreInPhase ==
    ASSUME IInv, Moves
    PROVE  /\ pc \in Answered => pc' \in Answered
           /\ (pc \in LoopSteps \/ decided = "Exited")' => pc \in LoopSteps \/ decided = "Exited"
           /\ NothingWrong' => NothingWrong
           /\ decided = "Exited" => decided' = "Exited"
           /\ pc \in {"consume", "accepted", "consumeRest"}
                  => pc' \in {"consume", "accepted", "consumeRest"}
           /\ (pc \in Undecided \/ Exiting)' => pc \in Undecided \/ Exiting
           /\ pc' = "consumeRest" => pc = "consumeRest"
           /\ (pc = "settleRest" /\ ending = "Exited")' => pc = "settleRest" /\ ending = "Exited"
<1>. USE DEF NothingWrong, Exiting, Undecided, LoopSteps, Answered
<1>1. CASE MovesOn
  <2>1. decided = None
    BY <1>1, UndecidedIsNone DEF MovesOn
  <2>. QED  BY <1>1, <2>1 DEF MovesOn, None
<1>2. CASE CleansUp
  BY <1>2 DEF CleansUp, Draining
<1>3. CASE pc' = pc /\ UNCHANGED <<decided, ending, failures>>
  BY <1>3
<1>. QED  BY <1>1, <1>2, <1>3 DEF Moves

(* Such steps keep what was read and handed over.                          *)
LEMMA MovesKeep ==
    ASSUME IInv, Kept, Moves, GoneIsGone, cancelled => cancelled',
           UNCHANGED <<capture, framer, records, consumed, produced, pipe>>
    PROVE  Kept'
<1>1. DataTypeOK'
  BY DEF Kept, DataTypeOK
<1>2. StreamsAreTrue'
  BY MovesAreInPhase, StreamsStay DEF Kept, GoneIsGone
<1>3. LinesAreHandedOver' /\ RecordsInOrder'
  BY MovesAreInPhase, LinesStay DEF Kept
<1>. QED  BY <1>1, <1>2, <1>3 DEF Kept

(* The steps of supervision between the reads.                             *)
LEMMA SupervisionMoves ==
    ASSUME IInv, Kept, Launch \/ Poll \/ TimeOut \/ WriteInput \/ ObserveExit
    PROVE  Kept'
<1>. USE DEF MovesOn, Moves, GoneIsGone, Undecided, LoopSteps, Continue, End, Goto
<1>1. CASE Launch
  <2>1. /\ UNCHANGED <<capture, framer, records, consumed, produced, pipe, cancelled, decided>>
        /\ pc = "start" /\ pc' \in {"configure", "close"}
    BY <1>1 DEF Launch, history, Answer
  <2>2. process = None
    BY <2>1 DEF IInv, PhasesInOrder
  <2>. QED  BY <2>1, <2>2, MovesKeep
<1>2. CASE Poll \/ TimeOut
  <2>1. /\ UNCHANGED <<capture, framer, records, consumed, produced, pipe, cancelled, process>>
        /\ pc = "poll"
        /\ \/ pc' = "write" /\ decided' = decided
           \/ pc' = "stop" /\ decided' \in {"Cancelled", "Io", "Timeout"}
    BY <1>2 DEF Poll, TimeOut, world
  <2>. QED  BY <2>1, MovesKeep DEF IsUp
<1>3. CASE WriteInput
  <2>1. /\ UNCHANGED <<capture, framer, records, consumed, produced, pipe, cancelled, process>>
        /\ pc = "write"
        /\ \/ pc' = "readStdout" /\ decided' = decided
           \/ pc' = "stop" /\ decided' \in {"IncompleteInput", "Io"}
    BY <1>3 DEF WriteInput
  <2>. QED  BY <2>1, MovesKeep DEF IsUp
<1>4. CASE ObserveExit
  <2>1. /\ UNCHANGED <<capture, framer, records, consumed, produced, pipe, cancelled, process>>
        /\ pc = "observe"
        /\ \/ pc' = "poll" /\ decided' = decided
           \/ pc' = "stop" /\ decided' \in {"Exited", "Io"}
    BY <1>4 DEF ObserveExit
  <2>. QED  BY <2>1, MovesKeep DEF IsUp
<1>. QED  BY <1>1, <1>2, <1>3, <1>4

(* The steps of the cleanup between the reads, and those behind the        *)
(* answer.                                                                 *)
LEMMA CleanupMoves ==
    ASSUME IInv, Kept,
           \/ Stop \/ Reap \/ ReapFails \/ ReapTimesOut \/ StillDraining
           \/ DropGuard \/ DropReaps \/ DropTimesOut \/ CloseWorkspace
    PROVE  Kept'
<1>1. CASE Stop \/ DropGuard
  <2>1. /\ UNCHANGED <<capture, framer, records, consumed, produced, pipe, cancelled,
                       decided, ending>>
        /\ \/ pc = "stop" /\ pc' \in {"reap", "drainStdout"}
           \/ pc = "drop" /\ pc' \in {"dropReap", "close"}
        /\ failures \subseteq failures'
    BY <1>1 DEF Stop, DropGuard, Goto, supervisor, history
  <2>2. process # None /\ ~IsUp => process' = process
    BY <1>1 DEF Stop, DropGuard, KillGroup, IsUp
  <2>3. GoneIsGone
    BY <2>2 DEF GoneIsGone, IsUp
  <2>4. CleansUp
    BY <2>1 DEF CleansUp, Draining, Answered
  <2>. QED  BY <2>1, <2>3, <2>4, MovesKeep DEF Moves
<1>2. CASE Reap \/ ReapFails \/ ReapTimesOut \/ StillDraining
  <2>1. /\ UNCHANGED <<capture, framer, records, consumed, produced, pipe, cancelled,
                       process, decided, ending>>
        /\ pc \in {"reap", "drained"} /\ pc' = "drainStdout"
        /\ failures \subseteq failures'
    BY <1>2
    DEF Reap, ReapFails, ReapTimesOut, AfterReap, StillDraining, Goto, supervisor, world, history
  <2>2. CleansUp
    BY <2>1 DEF CleansUp, Draining
  <2>3. GoneIsGone
    BY <2>1 DEF GoneIsGone, IsUp
  <2>. QED  BY <2>1, <2>2, <2>3, MovesKeep DEF Moves
<1>3. CASE DropReaps \/ DropTimesOut \/ CloseWorkspace
  <2>1. /\ UNCHANGED <<capture, framer, records, consumed, produced, pipe, cancelled,
                       process, decided, ending, failures>>
        /\ pc \in {"dropReap", "close"} /\ pc' \in {"close", "done"}
    BY <1>3 DEF DropReaps, DropTimesOut, DropReap, CloseWorkspace, Goto, world, history
  <2>2. CleansUp
    BY <2>1 DEF CleansUp, Answered
  <2>3. GoneIsGone
    BY <2>1 DEF GoneIsGone, IsUp
  <2>. QED  BY <2>1, <2>2, <2>3, MovesKeep DEF Moves
<1>. QED  BY <1>1, <1>2, <1>3

(* The world, as long as the child does not write.                         *)
LEMMA WorldMoves ==
    ASSUME IInv, Kept, ChildEnds \/ Cancel \/ UNCHANGED vars
    PROVE  Kept'
<1>1. /\ UNCHANGED <<capture, framer, records, consumed, produced, pipe, decided, ending, failures>>
      /\ pc' = pc /\ (cancelled => cancelled')
  BY DEF ChildEnds, Cancel, vars, supervisor, world, history
<1>2. process # None /\ ~IsUp => process' = process
  BY DEF ChildEnds, Cancel, vars, world, IsUp
<1>3. GoneIsGone
  BY <1>2 DEF GoneIsGone, IsUp
<1>. QED  BY <1>1, <1>3, MovesKeep DEF Moves

(* A child that writes has not reached the end of its streams.             *)
LEMMA ChildWritesKeeps ==
    ASSUME IInv, Kept, NEW s \in Streams, ChildWrites(s)
    PROVE  Kept'
<1>1. PICK b \in Byte : /\ pipe' = [pipe EXCEPT ![s] = Append(@, b)]
                        /\ produced' = [produced EXCEPT ![s] = Append(@, b)]
  BY DEF ChildWrites, Written, Byte
<1>2. /\ UNCHANGED <<pc, capture, framer, records, consumed, decided, ending, failures,
                     process, cancelled>>
      /\ process = "running" /\ pc \notin Answered
  BY DEF ChildWrites, supervisor, LooksAt, Answered, Streams
<1>3. pipe \in [Streams -> Seq(Byte)] /\ produced \in [Streams -> Seq(Byte)]
      /\ capture \in [Streams -> Captures]
  BY DEF Kept, DataTypeOK
<1>4. DataTypeOK'
  BY <1>1, <1>2, <1>3 DEF Kept, DataTypeOK
<1>5. StreamsAreTrue'
  <2>. SUFFICES ASSUME NEW t \in Streams
       PROVE  /\ capture[t].state = "Open" => capture[t].bytes \o pipe'[t] = produced'[t]
              /\ capture[t].state # "Eof"
    BY <1>2 DEF Kept, StreamsAreTrue, NothingWrong, IsUp
  <2>1. /\ capture[t].state = "Open" => capture[t].bytes \o pipe[t] = produced[t]
        /\ capture[t].state # "Eof"
    BY <1>2 DEF Kept, StreamsAreTrue, IsUp
  <2>2. CASE t # s
    BY <1>1, <1>3, <2>1, <2>2
  <2>3. CASE t = s
    <3>. DEFINE bytes == capture[s].bytes
                in == pipe[s]
    <3>1. bytes \in Seq(Byte) /\ in \in Seq(Byte) /\ <<b>> \in Seq(Byte)
      BY <1>3 DEF Captures
    <3>2. pipe'[s] = Append(in, b) /\ produced'[s] = Append(produced[s], b)
      BY <1>1, <1>3
    <3>. HIDE DEF bytes, in
    <3>3. bytes \o in \in Seq(Byte)
      BY <3>1, ConcatProperties
    <3>4. Append(bytes \o in, b) = (bytes \o in) \o <<b>> /\ Append(in, b) = in \o <<b>>
      BY <3>1, <3>3, AppendIsConcat
    <3>5. (bytes \o in) \o <<b>> = bytes \o (in \o <<b>>)
      BY <3>1, BytesAreJoined, Zenon
    <3>6. bytes \o Append(in, b) = Append(bytes \o in, b)
      BY <3>4, <3>5, Zenon
    <3>. QED  BY <2>1, <2>3, <3>2, <3>6 DEF bytes, in
  <2>. QED  BY <2>2, <2>3
<1>6. LinesAreHandedOver' /\ RecordsInOrder'
  BY <1>2, LinesStay DEF Kept, Exiting
<1>. QED  BY <1>4, <1>5, <1>6 DEF Kept

(* Configuring the streams touches none of their bytes.                    *)
LEMMA ConfigureKeeps ==
    ASSUME IInv, Kept, Configure
    PROVE  Kept'
<1>1. /\ UNCHANGED <<framer, records, consumed, produced, pipe, process, failures, cancelled>>
      /\ pc = "configure"
      /\ \/ pc' = "poll" /\ decided' = decided /\ SetNonblocking(Streams)
         \/ pc' = "stop" /\ decided' = "Io"
  BY DEF Configure, Continue, End, Goto
<1>2. PICK streams \in SUBSET Streams : SetNonblocking(streams)
  BY DEF Configure, Streams
<1>3. /\ decided = None
      /\ capture \in [Streams -> Captures]
  BY <1>1, UndecidedIsNone DEF Undecided, Kept, DataTypeOK
<1>4. /\ capture' \in [Streams -> Captures]
      /\ \A s \in Streams :
             capture'[s].bytes = capture[s].bytes /\ capture'[s].state = capture[s].state
      /\ pc' = "poll" => \A s \in Streams : capture'[s].nonblocking
  <2>1. ASSUME NEW to \in SUBSET Streams, SetNonblocking(to), NEW s \in Streams
        PROVE  /\ capture'[s] \in Captures
               /\ capture'[s].bytes = capture[s].bytes /\ capture'[s].state = capture[s].state
               /\ capture'[s].nonblocking = (s \in to)
    <3>1. capture'[s] = [capture[s] EXCEPT !.nonblocking = s \in to]
      BY <2>1 DEF SetNonblocking
    <3>2. capture[s] \in Captures /\ (s \in to) \in BOOLEAN
      BY <1>3
    <3>. DEFINE b == s \in to
    <3>3. b \in BOOLEAN /\ capture'[s] = [capture[s] EXCEPT !.nonblocking = b]
      BY <3>1, <3>2
    <3>. HIDE DEF b
    <3>4. /\ capture'[s] \in Captures
          /\ capture'[s].bytes = capture[s].bytes /\ capture'[s].state = capture[s].state
          /\ capture'[s].nonblocking = b
      BY <3>2, <3>3 DEF Captures
    <3>. QED  BY <3>4 DEF b
  <2>2. capture' = [s \in Streams |-> [capture[s] EXCEPT !.nonblocking = s \in streams]]
    BY <1>2 DEF SetNonblocking
  <2>3. \A s \in Streams : capture'[s] \in Captures
    BY <1>2, <2>1
  <2>4. capture' \in [Streams -> Captures]
    BY <2>2, <2>3
  <2>5. pc' = "poll" => SetNonblocking(Streams)
    BY <1>1
  <2>. QED  BY <1>2, <2>1, <2>4, <2>5
<1>5. DataTypeOK'
  BY <1>1, <1>4 DEF Kept, DataTypeOK, Streams
<1>6. StreamsAreTrue'
  <2>. SUFFICES ASSUME NEW s \in Streams
       PROVE  /\ capture'[s].state = "Open" => capture'[s].bytes \o pipe[s] = produced[s]
              /\ capture'[s].state = "Eof" =>
                     capture'[s].bytes = produced[s] /\ process # None /\ ~IsUp
              /\ pc' \in LoopSteps \/ decided' = "Exited" => capture'[s].nonblocking
              /\ capture'[s].state \in {"Open", "Eof"}
    BY <1>1 DEF StreamsAreTrue, IsUp
  <2>1. /\ capture[s].state = "Open" => capture[s].bytes \o pipe[s] = produced[s]
        /\ capture[s].state = "Eof" => capture[s].bytes = produced[s] /\ process # None /\ ~IsUp
        /\ capture[s].state \in {"Open", "Eof"}
    BY <1>1 DEF Kept, StreamsAreTrue, NothingWrong, Undecided, Answered
  <2>2. pc' \in LoopSteps \/ decided' = "Exited" => capture'[s].nonblocking
    BY <1>1, <1>3, <1>4 DEF LoopSteps, None
  <2>. QED  BY <1>4, <2>1, <2>2
<1>7. capture'["stdout"].bytes = capture["stdout"].bytes
  BY <1>4 DEF Streams
<1>8. LinesAreHandedOver' /\ RecordsInOrder'
  <2>1. pc \in Undecided /\ ~Exiting' /\ decided # "Exited"
    BY <1>1, <1>3 DEF Undecided, Exiting, None
  <2>. QED  BY <1>1, <1>7, <2>1, LinesStay DEF Kept
<1>. QED  BY <1>5, <1>6, <1>8 DEF Kept

(* A read of stdout that goes on frames what it completes.                 *)
LEMMA FramedAfterRead ==
    ASSUME DataTypeOK, records = <<>>, IsFramed(consumed \o records, capture["stdout"].bytes),
           Reads("stdout"), Frame(FALSE), UNCHANGED <<produced, consumed>>
    PROVE  DataTypeOK' /\ IsFramed(consumed \o records, capture["stdout"].bytes)'
<1>. DEFINE more == capture'["stdout"].bytes
            framed == Records(more, FALSE)
<1>1. /\ capture' \in [Streams -> Captures] /\ pipe' \in [Streams -> Seq(Byte)]
      /\ \A s \in Streams : Len(capture'[s].bytes) <= Bound[s]
      /\ more \in Seq(Byte)
  BY DEF Reads, DataTypeOK, Captures, Streams
<1>2. Len(more) \in Nat
  BY <1>1, LenProperties
<1>3. consumed \in Seq(Seq(Byte))
  BY DEF DataTypeOK
<1>4. IsFramed(consumed, more)
  BY FramingSurvivesReading
<1>. HIDE DEF more
<1>5. /\ framed.records \in Seq(Seq(Byte))
      /\ AreLines(consumed \o framed.records, more, framed.start)
      /\ framed.start \in 0..Len(more)
      /\ \A i \in framed.start + 1..Len(more) : more[i] # "newline"
  BY <1>1, <1>3, <1>4, FramingAddsLines
<1>6. /\ records' = framed.records
      /\ framer' = [start |-> framed.start, scanned |-> Len(more)]
  BY DEF Frame, more
<1>. HIDE DEF framed
<1>7. /\ framer' \in [start : Nat, scanned : 0..Len(more)] /\ framer'.start <= framer'.scanned
      /\ framer'.start = framed.start /\ framer'.scanned = Len(more)
      /\ framer'.scanned \in framer'.start..Len(more)
  BY <1>2, <1>5, <1>6
<1>8. DataTypeOK'
  BY <1>1, <1>3, <1>5, <1>6, <1>7 DEF DataTypeOK, more
<1>9. /\ AreLines(consumed' \o records', more, framer'.start)
      /\ \A i \in framer'.start + 1..framer'.scanned : more[i] # "newline"
  BY <1>5, <1>6, <1>7
<1>. QED  BY <1>7, <1>8, <1>9 DEF IsFramed, more

(* A read that leaves the framer alone leaves everything typed.            *)
LEMMA TypedAfterRead ==
    ASSUME DataTypeOK, NEW s \in Streams, Reads(s),
           UNCHANGED <<framer, records, produced, consumed>>
    PROVE  DataTypeOK'
<1>1. /\ capture' \in [Streams -> Captures] /\ pipe' \in [Streams -> Seq(Byte)]
      /\ \A t \in Streams : Len(capture'[t].bytes) <= Bound[t]
  BY DEF Reads, DataTypeOK
<1>2. /\ framer \in [start : Nat, scanned : 0..Len(capture["stdout"].bytes)]
      /\ Len(capture["stdout"].bytes) \in Nat
      /\ capture'["stdout"].bytes \in Seq(Byte)
  BY <1>1, LinesAreTyped DEF DataTypeOK, Captures, Streams
<1>3. Len(capture["stdout"].bytes) <= Len(capture'["stdout"].bytes)
  <2>1. CASE s = "stdout"
    BY <2>1 DEF Reads, Agree
  <2>2. CASE s # "stdout"
    <3>1. "stdout" \in Streams \ {s}
      BY <2>2 DEF Streams
    <3>2. capture'["stdout"] = capture["stdout"]
      BY <3>1 DEF Reads
    <3>. QED  BY <1>2, <3>2
  <2>. QED  BY <2>1, <2>2
<1>4. Len(capture'["stdout"].bytes) \in Nat
  BY <1>2, LenProperties
<1>5. framer \in [start : Nat, scanned : 0..Len(capture'["stdout"].bytes)]
  <2>. DEFINE n == Len(capture["stdout"].bytes)
              m == Len(capture'["stdout"].bytes)
  <2>1. framer \in [start : Nat, scanned : 0..n] /\ n \in Nat /\ m \in Nat /\ n <= m
    BY <1>2, <1>3, <1>4
  <2>. HIDE DEF n, m
  <2>2. framer \in [start : Nat, scanned : 0..m]
    BY <2>1
  <2>. QED  BY <2>2 DEF m
<1>. QED  BY <1>1, <1>5 DEF DataTypeOK

(* A read during supervision.                                              *)
LEMMA StreamsAfterSupervisedRead ==
    ASSUME IInv, Kept, TypeOK, NEW s \in Streams, pc \in {"readStdout", "readStderr"},
           UNCHANGED <<produced, process>>,
           \/ /\ ReadNothing(s) \/ ReadEof(s) \/ ReadSome(s)
              /\ pc' \in {"consume", "observe"} /\ decided' = decided
           \/ /\ ReadExcess(s) \/ ReadFails(s)
              /\ pc' = "stop" /\ decided' \in {"OutputBound", "Io"}
    PROVE  Reads(s) /\ StreamsAreTrue'
<1>1. decided = None /\ process # None
  BY UndecidedIsNone DEF IInv, PhasesInOrder, Undecided, LoopSteps, Supervising
<1>2. capture[s].state \in {"Open", "Eof"} /\ NothingWrong /\ pc \in LoopSteps /\ pc \notin Answered
  BY DEF Kept, StreamsAreTrue, NothingWrong, Undecided, LoopSteps, Answered
<1>3. CASE ReadNothing(s) \/ ReadEof(s) \/ ReadSome(s)
  <2>1. Reads(s) /\ capture'[s].state \in {"Open", "Eof"}
    BY <1>2, <1>3, OrdinaryRead
  <2>. QED  BY <1>1, <1>2, <2>1, StreamsAfterRead DEF Kept
<1>4. CASE /\ ReadExcess(s) \/ ReadFails(s)
           /\ pc' = "stop" /\ decided' \in {"OutputBound", "Io"}
  <2>1. Reads(s)
    BY <1>4, LastRead
  <2>2. ~NothingWrong'
    BY <1>4 DEF NothingWrong, Undecided, LoopSteps
  <2>. QED  BY <1>1, <1>2, <2>1, <2>2, StreamsAfterRead DEF Kept
<1>. QED  BY <1>3, <1>4

(* Reading stdout, with what is framed of it.                              *)
LEMMA ReadStdoutKeeps ==
    ASSUME IInv, Kept, TypeOK, ReadStdout
    PROVE  Kept'
<1>1. /\ pc = "readStdout" /\ UNCHANGED <<produced, consumed, process>>
      /\ \/ /\ ReadNothing("stdout") \/ ReadEof("stdout") \/ ReadSome("stdout")
            /\ pc' = "consume" /\ decided' = decided
            /\ Frame(FALSE)
         \/ /\ ReadExcess("stdout") \/ ReadFails("stdout")
            /\ pc' = "stop" /\ decided' \in {"OutputBound", "Io"}
            /\ UNCHANGED <<records, framer>>
  BY DEF ReadStdout, Continue, End, Goto
<1>2. Reads("stdout") /\ StreamsAreTrue'
  BY <1>1, StreamsAfterSupervisedRead DEF Streams
<1>3. records = <<>> /\ IsFramed(consumed \o records, capture["stdout"].bytes) /\ DataTypeOK
  BY <1>1 DEF Kept, LinesAreHandedOver, Undecided, LoopSteps
<1>4. InOrderSoFar'
  BY <1>1, <1>2, <1>3, FramedIsInOrder, OrderSurvivesReading
<1>5. RecordsInOrder'
  BY <1>4 DEF InOrderSoFar, RecordsInOrder
<1>6. CASE pc' = "consume" /\ Frame(FALSE)
  <2>1. DataTypeOK' /\ IsFramed(consumed \o records, capture["stdout"].bytes)'
    BY <1>1, <1>2, <1>3, <1>6, FramedAfterRead
  <2>2. LinesAreHandedOver'
    BY <1>6, <2>1 DEF LinesAreHandedOver
  <2>. QED  BY <1>2, <1>5, <2>1, <2>2 DEF Kept
<1>7. CASE pc' = "stop" /\ decided' \in {"OutputBound", "Io"} /\ UNCHANGED <<records, framer>>
  <2>1. DataTypeOK'
    BY <1>1, <1>2, <1>3, <1>7, TypedAfterRead DEF Streams
  <2>2. LinesAreHandedOver'
    BY <1>3, <1>7 DEF LinesAreHandedOver, Undecided, LoopSteps, Exiting
  <2>. QED  BY <1>2, <1>5, <2>1, <2>2 DEF Kept
<1>. QED  BY <1>1, <1>6, <1>7

(* Reading stderr.                                                         *)
LEMMA ReadStderrKeeps ==
    ASSUME IInv, Kept, TypeOK, ReadStderr
    PROVE  Kept'
<1>1. /\ pc = "readStderr" /\ UNCHANGED <<produced, consumed, process, framer, records, cancelled>>
      /\ \/ /\ ReadNothing("stderr") \/ ReadEof("stderr") \/ ReadSome("stderr")
            /\ pc' = "observe" /\ decided' = decided
         \/ /\ ReadExcess("stderr") \/ ReadFails("stderr")
            /\ pc' = "stop" /\ decided' \in {"OutputBound", "Io"}
  BY DEF ReadStderr, Continue, End, Goto
<1>2. Reads("stderr") /\ StreamsAreTrue'
  BY <1>1, StreamsAfterSupervisedRead DEF Streams
<1>3. DataTypeOK'
  BY <1>1, <1>2, TypedAfterRead DEF Kept, Streams
<1>4. capture'["stdout"].bytes = capture["stdout"].bytes
  BY <1>2 DEF Reads, Streams
<1>5. LinesAreHandedOver' /\ RecordsInOrder'
  <2>1. decided = None /\ pc \in Undecided
    BY <1>1, UndecidedIsNone DEF Undecided, LoopSteps
  <2>. QED  BY <1>1, <1>4, <2>1, LinesStay DEF Kept, None
<1>. QED  BY <1>2, <1>3, <1>5 DEF Kept

(* The consumer's turn during supervision.                                 *)
LEMMA ConsumeKeeps ==
    ASSUME IInv, Kept, Consume \/ Accepted
    PROVE  Kept'
<1>1. /\ UNCHANGED <<capture, framer, pipe, produced, process>>
      /\ pc \in {"consume", "accepted"}
      /\ \/ pc' \in {"consume", "accepted", "readStderr"} /\ decided' = decided
         \/ /\ pc' = "stop" /\ decided' \in {"Cancelled", "ConsumerRejected"}
            /\ records' = <<>> /\ consumed' = consumed
      /\ \/ records # <<>> /\ HandOver /\ pc' = "accepted"
         \/ /\ UNCHANGED <<records, consumed>> /\ pc' # "stop"
            /\ pc' = "readStderr" => records = <<>>
         \/ pc' = "stop"
  BY DEF Consume, Accepted, Continue, End, Goto
<1>2. /\ IsFramed(consumed \o records, capture["stdout"].bytes) /\ DataTypeOK
      /\ decided = None
      /\ pc \in Undecided /\ pc \in LoopSteps
  BY <1>1, UndecidedIsNone DEF Kept, LinesAreHandedOver, Undecided, LoopSteps
<1>3. StreamsAreTrue'
  <2>1. /\ pc \in Answered => pc' \in Answered
        /\ NothingWrong
        /\ process # None /\ ~IsUp => (process # None /\ ~IsUp)'
    BY <1>1, <1>2 DEF Answered, NothingWrong, IsUp
  <2>. QED  BY <1>1, <1>2, <2>1, StreamsStay DEF Kept
<1>4. /\ consumed \in Seq(Seq(Byte)) /\ records \in Seq(Seq(Byte))
      /\ consumed' \in Seq(Seq(Byte)) /\ records' \in Seq(Seq(Byte))
      /\ pc' # "stop" => consumed' \o records' = consumed \o records
  <2>1. consumed \in Seq(Seq(Byte)) /\ records \in Seq(Seq(Byte)) /\ <<>> \in Seq(Seq(Byte))
    BY <1>2, LinesAreTyped
  <2>2. CASE pc' = "stop"
    BY <1>1, <2>1, <2>2
  <2>3. CASE records # <<>> /\ HandOver /\ pc' = "accepted"
    BY <1>2, <2>1, <2>3, HandOverMovesOne
  <2>4. CASE UNCHANGED <<records, consumed>>
    BY <2>1, <2>4
  <2>. QED  BY <1>1, <2>2, <2>3, <2>4
<1>5. DataTypeOK'
  BY <1>1, <1>2, <1>4 DEF DataTypeOK
<1>6. CASE pc' = "stop"
  <2>1. InOrderSoFar
    BY <1>2, FramedIsInOrder
  <2>2. RecordsInOrder'
    BY <1>1, <1>6, <2>1 DEF RecordsInOrder, InOrderSoFar
  <2>3. LinesAreHandedOver'
    BY <1>1, <1>6 DEF LinesAreHandedOver, Undecided, LoopSteps, Exiting
  <2>. QED  BY <1>3, <1>5, <2>2, <2>3 DEF Kept
<1>7. CASE pc' # "stop"
  <2>1. IsFramed(consumed \o records, capture["stdout"].bytes)'
    BY <1>1, <1>2, <1>4, <1>7 DEF IsFramed
  <2>2. InOrderSoFar'
    <3>1. consumed' \o records' = consumed \o records
      BY <1>4, <1>7
    <3>. DEFINE bytes == capture["stdout"].bytes
    <3>2. bytes \in Seq(Byte) /\ bytes = capture'["stdout"].bytes
      BY <1>1, <1>2, LinesAreTyped
    <3>3. AreLines(consumed' \o records', bytes, framer.start)
      BY <1>2, <3>1 DEF IsFramed
    <3>4. framer.start \in 0..Len(bytes)
      <4>1. framer.start \in Nat /\ framer.scanned \in framer.start..Len(bytes) /\ Len(bytes) \in Nat
        BY <1>2, LinesAreTyped DEF IsFramed, DataTypeOK
      <4>. QED  BY <4>1
    <3>. HIDE DEF bytes
    <3>5. PICK end \in 0..framer.start : AreLines(consumed', bytes, end)
      BY <1>4, <3>2, <3>3, FirstLines
    <3>6. end \in 0..Len(bytes)
      BY <3>2, <3>4, <3>5, LenProperties
    <3>. QED  BY <3>2, <3>5, <3>6 DEF InOrderSoFar
  <2>3. RecordsInOrder'
    BY <2>2 DEF RecordsInOrder, InOrderSoFar
  <2>4. pc' \notin {"consume", "accepted", "consumeRest"} => records' = <<>>
    BY <1>1, <1>7
  <2>5. LinesAreHandedOver'
    BY <1>1, <1>7, <2>1, <2>4 DEF LinesAreHandedOver
  <2>. QED  BY <1>3, <1>5, <2>3, <2>5 DEF Kept
<1>. QED  BY <1>6, <1>7

(* Reading what the pipes still hold once the child is gone.               *)
LEMMA DrainKeeps ==
    ASSUME IInv, Kept, TypeOK, DrainStdout \/ DrainStderr
    PROVE  Kept'
<1>1. PICK s \in Streams :
          /\ UNCHANGED <<framer, records, process, produced, consumed, decided, cancelled>>
          /\ pc \in {"drainStdout", "drainStderr"} /\ pc' \in {"drainStderr", "drained"}
          /\ \/ /\ ReadNothing(s) \/ ReadEof(s) \/ ReadSome(s)
                /\ UNCHANGED <<ending, failures>>
             \/ /\ ReadExcess(s)
                /\ ending' # "Exited"
             \/ /\ ReadFails(s)
                /\ "Read" \in failures'
  <2>1. PICK s \in Streams, next \in {"drainStderr", "drained"} :
            Drain(s, next) /\ pc \in {"drainStdout", "drainStderr"}
    BY DEF DrainStdout, DrainStderr, Streams
  <2>2. /\ \/ ReadNothing(s) \/ ReadEof(s) \/ ReadSome(s)
           \/ ReadExcess(s) /\ ending' # "Exited"
           \/ ReadFails(s) /\ "Read" \in failures'
        /\ pc' = next
        /\ UNCHANGED <<framer, records, process, produced, consumed, decided, cancelled>>
    BY <2>1 DEF Drain, Goto, history
  <2>3. \/ UNCHANGED <<ending, failures>> /\ (ReadNothing(s) \/ ReadEof(s) \/ ReadSome(s))
        \/ ReadExcess(s) /\ ending' # "Exited"
        \/ ReadFails(s) /\ "Read" \in failures'
    BY <2>1 DEF Drain
  <2>. QED  BY <2>1, <2>2, <2>3
<1>2. /\ Reads(s)
      /\ NothingWrong' => NothingWrong /\ capture'[s].state \in {capture[s].state, "Eof"}
  <2>1. CASE UNCHANGED <<ending, failures>> /\ (ReadNothing(s) \/ ReadEof(s) \/ ReadSome(s))
    <3>1. NothingWrong' => NothingWrong
      BY <1>1, <2>1 DEF NothingWrong, Undecided, LoopSteps
    <3>. QED  BY <2>1, <3>1, OrdinaryRead
  <2>2. CASE (ReadExcess(s) /\ ending' # "Exited") \/ (ReadFails(s) /\ "Read" \in failures')
    <3>1. ~NothingWrong'
      BY <1>1, <2>2 DEF NothingWrong, Undecided, LoopSteps
    <3>. QED  BY <2>2, <3>1, LastRead
  <2>. QED  BY <1>1, <2>1, <2>2
<1>3. process # None /\ pc \notin Answered
  BY <1>1 DEF IInv, PhasesInOrder, CleanupSteps, Answered
<1>4. NothingWrong => capture[s].state \in {"Open", "Eof"}
  BY DEF Kept, StreamsAreTrue, NothingWrong
<1>5. StreamsAreTrue'
  <2>1. (pc \in LoopSteps \/ decided = "Exited")' => pc \in LoopSteps \/ decided = "Exited"
    BY <1>1 DEF LoopSteps
  <2>2. NothingWrong' => NothingWrong /\ capture'[s].state \in {"Open", "Eof"}
    BY <1>2, <1>4
  <2>. QED  BY <1>1, <1>2, <1>3, <2>1, <2>2, StreamsAfterRead DEF Kept
<1>6. DataTypeOK'
  BY <1>1, <1>2, TypedAfterRead DEF Kept
<1>7. records = <<>> /\ records' = <<>> /\ DataTypeOK
  BY <1>1 DEF Kept, LinesAreHandedOver
<1>8. CASE s = "stdout"
  <2>1. InOrderSoFar'
    BY <1>1, <1>2, <1>7, <1>8, OrderBeforeReading, OrderSurvivesReading DEF Kept
  <2>2. RecordsInOrder'
    BY <2>1 DEF RecordsInOrder, InOrderSoFar
  <2>3. Exiting' => IsFramed(consumed \o records, capture["stdout"].bytes)'
    <3>. SUFFICES ASSUME Exiting' PROVE IsFramed(consumed \o records, capture["stdout"].bytes)'
      OBVIOUS
    <3>1. Exiting
      BY <1>1 DEF Exiting
    <3>2. IsFramed(consumed \o records, capture["stdout"].bytes)
      BY <3>1 DEF Kept, LinesAreHandedOver
    <3>3. IsFramed(consumed, capture'["stdout"].bytes)
      BY <1>2, <1>7, <1>8, <3>2, FramingSurvivesReading
    <3>4. consumed' \o records' = consumed
      BY <1>1, <1>7, LinesAreTyped
    <3>. QED  BY <1>1, <3>3, <3>4 DEF IsFramed
  <2>4. LinesAreHandedOver'
    BY <1>1, <1>7, <2>3 DEF LinesAreHandedOver, Undecided, LoopSteps
  <2>. QED  BY <1>5, <1>6, <2>2, <2>4 DEF Kept
<1>9. CASE s = "stderr"
  <2>1. capture'["stdout"].bytes = capture["stdout"].bytes
    BY <1>2, <1>9 DEF Reads, Streams
  <2>2. LinesAreHandedOver' /\ RecordsInOrder'
    <3>1. /\ (pc \in Undecided \/ Exiting)' => pc \in Undecided \/ Exiting
          /\ pc' \notin {"consumeRest", "settleRest"}
          /\ pc \notin {"consume", "accepted", "consumeRest"}
      BY <1>1 DEF Undecided, LoopSteps, Exiting
    <3>. QED  BY <1>1, <2>1, <3>1, LinesStay DEF Kept
  <2>. QED  BY <1>5, <1>6, <2>2 DEF Kept
<1>. QED  BY <1>8, <1>9 DEF Streams

(* Behind the pipes: the rest is framed, or the call settles.              *)
LEMMA DrainedKeeps ==
    ASSUME IInv, Kept, Drained \/ DrainTimesOut
    PROVE  Kept'
<1>1. /\ pc = "drained" /\ UNCHANGED <<capture, pipe, produced, consumed, decided, ending, process>>
      /\ failures \subseteq failures'
      /\ \/ ending = "Exited" /\ Frame(TRUE) /\ pc' = "consumeRest"
         \/ pc' = "settle" /\ UNCHANGED <<framer, records, cancelled>>
  BY DEF Drained, DrainTimesOut, AfterDraining, Goto, world, history
<1>2. CASE ending = "Exited" /\ Frame(TRUE) /\ pc' = "consumeRest"
  <2>. DEFINE bytes == capture["stdout"].bytes
              framed == Records(bytes, TRUE)
  <2>1. decided = "Exited"
    BY <1>1, <1>2
    DEF IInv, PhasesInOrder, CauseIsKept, CleanupTypeOK, CleanupSteps, Supervising, LoopSteps,
        Endings, EarlyEndings
  <2>2. /\ IsFramed(consumed \o records, bytes) /\ DataTypeOK /\ records = <<>>
    BY <1>1, <2>1 DEF Kept, LinesAreHandedOver, Exiting
  <2>3. /\ consumed \in Seq(Seq(Byte)) /\ bytes \in Seq(Byte) /\ Len(bytes) \in Nat
        /\ consumed \o records = consumed
    BY <2>2, LinesAreTyped
  <2>4. /\ bytes = capture'["stdout"].bytes
        /\ framer' = [start |-> framed.start, scanned |-> Len(bytes)]
        /\ records' = framed.records
    BY <1>1, <1>2 DEF Frame
  <2>. HIDE DEF bytes
  <2>5. /\ framed.records \in Seq(Seq(Byte))
        /\ AreAllLines(consumed \o framed.records, bytes)
        /\ framed.start = Len(bytes)
    BY <2>2, <2>3, FramingEndsLines
  <2>. HIDE DEF framed
  <2>6. /\ framer' \in [start : Nat, scanned : 0..Len(bytes)]
        /\ framer'.start <= framer'.scanned
    BY <2>3, <2>4, <2>5
  <2>7. DataTypeOK'
    BY <1>1, <2>2, <2>4, <2>5, <2>6 DEF DataTypeOK
  <2>8. StreamsAreTrue'
    <3>1. /\ NothingWrong' => NothingWrong
          /\ pc' \notin LoopSteps /\ pc \notin Answered
          /\ process # None /\ ~IsUp => (process # None /\ ~IsUp)'
      BY <1>1, <1>2 DEF NothingWrong, Undecided, LoopSteps, Answered, IsUp
    <3>. QED  BY <1>1, <3>1, StreamsStay DEF Kept
  <2>9. LinesAreHandedOver'
    <3>1. AreAllLines(consumed' \o records', capture'["stdout"].bytes)
      BY <1>1, <2>4, <2>5
    <3>. QED  BY <1>2, <3>1 DEF LinesAreHandedOver, Undecided, LoopSteps, Exiting
  <2>10. RecordsInOrder'
    <3>1. RecordsInOrder /\ UNCHANGED <<capture, consumed, decided>>
      BY <1>1 DEF Kept
    <3>. QED  BY <3>1 DEF RecordsInOrder
  <2>. QED  BY <2>7, <2>8, <2>9, <2>10 DEF Kept
<1>3. CASE pc' = "settle" /\ UNCHANGED <<framer, records, cancelled>>
  <2>1. CleansUp
    BY <1>1, <1>3 DEF CleansUp, Draining
  <2>2. GoneIsGone
    BY <1>1 DEF GoneIsGone, IsUp
  <2>. QED  BY <1>1, <1>3, <2>1, <2>2, MovesKeep DEF Moves
<1>. QED  BY <1>1, <1>2, <1>3

(* Of all lines, the first ones are in order too, or they are all.         *)
LEMMA FirstOfAllLines ==
    ASSUME NEW parts \in Seq(Seq(Byte)), NEW rest \in Seq(Seq(Byte)), NEW bytes \in Seq(Byte),
           AreAllLines(parts \o rest, bytes)
    PROVE  \/ \E to \in 0..Len(bytes) : AreLines(parts, bytes, to)
           \/ AreAllLines(parts, bytes)
<1>. DEFINE all == Terminated(bytes)
<1>1. /\ all \in Seq(Byte) /\ Len(bytes) \in Nat
      /\ Len(all) = Len(bytes) \/ Len(all) = Len(bytes) + 1
      /\ \A i \in 1..Len(bytes) : all[i] = bytes[i]
  <2>1. "newline" \in Byte
    BY DEF Byte
  <2>2. CASE bytes = <<>> \/ Last(bytes) = "newline"
    <3>1. all = bytes
      BY <2>2 DEF Terminated
    <3>. QED  BY <3>1, LenProperties
  <2>3. CASE ~(bytes = <<>> \/ Last(bytes) = "newline")
    <3>1. all = Append(bytes, "newline")
      BY <2>3 DEF Terminated
    <3>2. /\ Append(bytes, "newline") \in Seq(Byte) /\ Len(Append(bytes, "newline")) = Len(bytes) + 1
          /\ \A i \in 1..Len(bytes) : Append(bytes, "newline")[i] = bytes[i]
      BY <2>1, AppendProperties
    <3>. QED  BY <3>1, <3>2, LenProperties
  <2>. QED  BY <2>2, <2>3
<1>2. AreLines(parts \o rest, all, Len(all))
  BY DEF AreAllLines
<1>. HIDE DEF all
<1>3. PICK end \in 0..Len(all) : AreLines(parts, all, end)
  BY <1>1, <1>2, FirstLines
<1>4. CASE end = Len(all)
  BY <1>3, <1>4 DEF AreAllLines, all
<1>5. CASE end # Len(all)
  <2>1. end \in 0..Len(bytes)
    BY <1>1, <1>3, <1>5
  <2>2. Agree(all, bytes, end)
    BY <1>1, <2>1 DEF Agree
  <2>3. AreLines(parts, bytes, end)
    BY <1>1, <1>3, <2>2, LinesDependOnTheirBytes
  <2>. QED  BY <2>1, <2>3
<1>. QED  BY <1>4, <1>5

(* Handing over the rest.                                                  *)
LEMMA ConsumeRestKeeps ==
    ASSUME IInv, Kept, ConsumeRest
    PROVE  Kept'
<1>. DEFINE bytes == capture["stdout"].bytes
<1>1. /\ pc = "consumeRest" /\ pc' \in {"consumeRest", "settleRest"}
      /\ UNCHANGED <<capture, framer, pipe, produced, process, decided, failures, cancelled>>
      /\ \/ records = <<>> \/ cancelled
         \/ pc' = "consumeRest" /\ HandOver /\ records # <<>> /\ ending' = ending
         \/ ending' = "ConsumerRejected"
      /\ \/ pc' = "settleRest" /\ records' = <<>> /\ consumed' = consumed
         \/ pc' = "consumeRest" /\ HandOver /\ records # <<>> /\ ending' = ending
      /\ ending' \in {ending, "ConsumerRejected"}
  BY DEF ConsumeRest, Goto, world
<1>2. /\ decided = "Exited" /\ DataTypeOK
      /\ AreAllLines(consumed \o records, bytes)
  BY <1>1 DEF IInv, CauseIsKept, Kept, LinesAreHandedOver
<1>3. /\ consumed \in Seq(Seq(Byte)) /\ records \in Seq(Seq(Byte)) /\ <<>> \in Seq(Seq(Byte))
      /\ consumed \o <<>> = consumed /\ bytes \in Seq(Byte)
  BY <1>2, LinesAreTyped
<1>4. /\ consumed' \in Seq(Seq(Byte)) /\ records' \in Seq(Seq(Byte))
      /\ pc' = "consumeRest" => consumed' \o records' = consumed \o records
      /\ pc' = "settleRest" => consumed' = consumed /\ records' = <<>>
  <2>1. CASE pc' = "settleRest" /\ records' = <<>> /\ consumed' = consumed
    BY <1>3, <2>1
  <2>2. CASE pc' = "consumeRest" /\ HandOver /\ records # <<>>
    BY <1>2, <2>2, HandOverMovesOne
  <2>. QED  BY <1>1, <2>1, <2>2
<1>. HIDE DEF bytes
<1>5. DataTypeOK'
  BY <1>1, <1>2, <1>4 DEF DataTypeOK
<1>6. StreamsAreTrue'
  <2>1. /\ NothingWrong' => NothingWrong
        /\ pc' \notin LoopSteps /\ pc \notin Answered
        /\ process # None /\ ~IsUp => (process # None /\ ~IsUp)'
    BY <1>1 DEF NothingWrong, Undecided, LoopSteps, Answered, IsUp
  <2>. QED  BY <1>1, <2>1, StreamsStay DEF Kept
<1>7. \E rest \in Seq(Seq(Byte)) : AreAllLines(consumed' \o rest, bytes)
  <2>1. CASE pc' = "consumeRest"
    BY <1>2, <1>4, <2>1
  <2>2. CASE pc' = "settleRest"
    BY <1>2, <1>3, <1>4, <2>2
  <2>. QED  BY <1>1, <2>1, <2>2
<1>8. RecordsInOrder'
  <2>1. \/ \E to \in 0..Len(bytes) : AreLines(consumed', bytes, to)
        \/ AreAllLines(consumed', bytes)
    BY <1>3, <1>4, <1>7, FirstOfAllLines
  <2>. QED  BY <1>1, <1>2, <2>1 DEF RecordsInOrder, bytes
<1>9. LinesAreHandedOver'
  <2>1. pc' \notin Undecided /\ ~Exiting'
    BY <1>1 DEF Undecided, LoopSteps, Exiting
  <2>2. pc' = "consumeRest" => AreAllLines(consumed' \o records', bytes)
    BY <1>2, <1>4
  <2>3. (pc = "settleRest" /\ ~cancelled /\ ending = "Exited")' => AreAllLines(consumed', bytes)
    <3>. SUFFICES ASSUME pc' = "settleRest", ~cancelled', ending' = "Exited"
         PROVE  AreAllLines(consumed', bytes)
      OBVIOUS
    <3>1. records = <<>>
      BY <1>1
    <3>. QED  BY <1>2, <1>3, <1>4, <3>1
  <2>4. pc' \notin {"consume", "accepted", "consumeRest"} => records' = <<>>
    BY <1>1, <1>4
  <2>. QED  BY <1>1, <2>1, <2>2, <2>3, <2>4 DEF LinesAreHandedOver, bytes
<1>. QED  BY <1>5, <1>6, <1>8, <1>9 DEF Kept

(* The answer: the pipes are closed.                                       *)
LEMMA SettleKeeps ==
    ASSUME IInv, Kept, Settle
    PROVE  Kept'
<1>1. /\ pc \in {"settle", "settleRest"} /\ pc' \in {"close", "drop"}
      /\ UNCHANGED <<capture, framer, records, produced, consumed, process, decided, failures>>
      /\ ending' = FinalEnding /\ pipe' = [s \in Streams |-> <<>>]
  BY DEF Settle, Goto, history
<1>2. ending' = "Exited" => ending = "Exited"
  BY <1>1 DEF FinalEnding
<1>3. pipe' \in [Streams -> Seq(Byte)]
  <2>1. <<>> \in Seq(Byte)
    OBVIOUS
  <2>. QED  BY <1>1, <2>1
<1>4. DataTypeOK'
  BY <1>1, <1>3 DEF Kept, DataTypeOK
<1>5. StreamsAreTrue'
  <2>1. pc' \in Answered /\ pc' \notin LoopSteps /\ (NothingWrong' => NothingWrong)
    BY <1>1, <1>2 DEF Answered, LoopSteps, NothingWrong, Undecided
  <2>. QED  BY <1>1, <2>1 DEF Kept, StreamsAreTrue, NothingWrong, IsUp
<1>6. LinesAreHandedOver'
  BY <1>1 DEF Kept, LinesAreHandedOver, Undecided, LoopSteps, Exiting
<1>7. RecordsInOrder'
  <2>1. RecordsInOrder /\ UNCHANGED <<capture, consumed, decided>>
    BY <1>1 DEF Kept
  <2>. QED  BY <2>1 DEF RecordsInOrder
<1>. QED  BY <1>4, <1>5, <1>6, <1>7 DEF Kept

(* So every step keeps what was read and handed over.                      *)
LEMMA EveryStepKeeps ==
    ASSUME IInv, Kept, TypeOK, [Next]_vars
    PROVE  Kept'
BY SupervisionMoves, CleanupMoves, WorldMoves, ChildWritesKeeps, ConfigureKeeps, ReadStdoutKeeps,
   ReadStderrKeeps, ConsumeKeeps, DrainKeeps, DrainedKeeps, ConsumeRestKeeps, SettleKeeps
DEF Next, Supervise, Finish, Clock

(***************************************************************************)
(* The success is whole.                                                   *)
(***************************************************************************)
(* Only a child that exited gets to the end of the draining, and then      *)
(* both streams were read to their ends.                                   *)
LEMMA DrainedIsWhole ==
    ASSUME IInv, Kept, Drained \/ DrainTimesOut
    PROVE  /\ pc' = "settle" => failures' # {} \/ ending' # "Exited"
           /\ pc' = "consumeRest" =>
                  /\ ending' = "Exited" /\ failures' = {}
                  /\ \A s \in Streams : capture'[s].state = "Eof"
           /\ pc' \in {"settle", "consumeRest"} /\ result' = result
<1>1. /\ UNCHANGED <<capture, ending, result>> /\ pc = "drained"
      /\ \/ ending = "Exited" /\ failures' = {} /\ pc' = "consumeRest"
         \/ ~(ending = "Exited" /\ failures' = {}) /\ pc' = "settle"
  BY DEF Drained, DrainTimesOut, AfterDraining, Goto
<1>2. CASE ending = "Exited" /\ failures' = {} /\ pc' = "consumeRest"
  <2>1. ~Pending /\ failures = {}
    BY <1>2 DEF Drained, DrainTimesOut, AfterDraining
  <2>2. decided = "Exited"
    BY <1>1, <1>2
    DEF IInv, PhasesInOrder, CauseIsKept, CleanupTypeOK, CleanupSteps, Supervising, LoopSteps,
        Endings, EarlyEndings
  <2>3. \A s \in Streams : capture[s].state = "Eof"
    <3>. SUFFICES ASSUME NEW s \in Streams PROVE capture[s].state = "Eof"
      OBVIOUS
    <3>1. capture[s].nonblocking /\ capture[s].state \in {"Open", "Eof"}
      BY <1>2, <2>1, <2>2 DEF Kept, StreamsAreTrue, NothingWrong
    <3>2. ~Readable(s)
      BY <2>1 DEF Pending
    <3>. QED  BY <3>1, <3>2 DEF Readable
  <2>. QED  BY <1>1, <1>2, <2>3
<1>3. CASE ~(ending = "Exited" /\ failures' = {}) /\ pc' = "settle"
  BY <1>1, <1>3
<1>. QED  BY <1>1, <1>2, <1>3

(* What is left to be settled is settled once.                             *)
LEMMA SettleIsWhole ==
    ASSUME IInv, Kept, TypeOK, RestIsWhole, Settle
    PROVE  RestIsWhole' /\ SuccessIsWhole'
<1>1. /\ pc \in {"settle", "settleRest"} /\ pc' = IF lifecycle = "Reaped" THEN "close" ELSE "drop"
      /\ UNCHANGED <<capture, produced, consumed, process, lifecycle, failures, written>>
      /\ ending' = FinalEnding
      /\ result' = IF failures = {} THEN <<Outcome(ending')>>
                   ELSE IF ending' = "Exited" THEN <<"Cleanup">>
                   ELSE <<"Cleanup", Outcome(ending')>>
  BY DEF Settle, Goto, history
<1>2. result' = <<"Ok">> => failures = {} /\ Outcome(ending') = "Ok"
  BY <1>1
<1>3. ending' # "Ok"
  BY <1>1 DEF FinalEnding, TypeOK, Endings, EarlyEndings, None
<1>4. result' = <<"Ok">> =>
          /\ failures = {} /\ ending' = "Exited" /\ lifecycle = "Reaped" /\ process = "exitedZero"
  BY <1>1, <1>2, <1>3 DEF Outcome
<1>5. RestIsWhole'
  BY <1>1, <1>4 DEF RestIsWhole, RestSteps
<1>6. SuccessIsWhole'
  <2>. SUFFICES ASSUME result' = <<"Ok">>
       PROVE  /\ process' = "exitedZero" /\ lifecycle' = "Reaped" /\ written' = Input
              /\ \A s \in Streams : capture'[s].state = "Eof" /\ capture'[s].bytes = produced'[s]
              /\ AreAllLines(consumed', capture'["stdout"].bytes)
    BY DEF SuccessIsWhole
  <2>1. pc = "settleRest"
    BY <1>1, <1>4 DEF FinalEnding, RestIsWhole
  <2>2. ~cancelled /\ ending = "Exited" /\ ~(written < Input)
    BY <1>1, <1>4, <2>1 DEF FinalEnding
  <2>3. written = Input
    BY <2>2, BoundsAssumption DEF TypeOK
  <2>4. \A s \in Streams : capture[s].state = "Eof" /\ capture[s].bytes = produced[s]
    BY <2>1 DEF RestIsWhole, RestSteps, Kept, StreamsAreTrue
  <2>5. AreAllLines(consumed, capture["stdout"].bytes)
    BY <2>1, <2>2 DEF Kept, LinesAreHandedOver
  <2>. QED  BY <1>1, <1>4, <2>3, <2>4, <2>5
<1>. QED  BY <1>5, <1>6

(* Behind the answer only the workspace is left.                           *)
LEMMA BehindTheAnswer ==
    ASSUME [Next]_vars, pc \in {"close", "done"}
    PROVE  CloseWorkspace \/ UNCHANGED vars
<1>1. /\ ~Launch /\ ~Configure /\ ~Poll /\ ~TimeOut /\ ~WriteInput /\ ~ReadStdout /\ ~Consume
      /\ ~Accepted /\ ~ReadStderr /\ ~ObserveExit
  BY DEF Launch, Configure, Poll, TimeOut, WriteInput, ReadStdout, Consume, Accepted, ReadStderr,
         ObserveExit
<1>2. /\ ~Stop /\ ~Reap /\ ~ReapFails /\ ~ReapTimesOut /\ ~DrainStdout /\ ~DrainStderr
      /\ ~StillDraining /\ ~Drained /\ ~DrainTimesOut /\ ~ConsumeRest /\ ~Settle
      /\ ~DropGuard /\ ~DropReaps /\ ~DropTimesOut
  BY DEF Stop, Reap, ReapFails, ReapTimesOut, AfterReap, DrainStdout, DrainStderr, StillDraining,
         Drained, DrainTimesOut, AfterDraining, ConsumeRest, Settle, DropGuard, DropReaps,
         DropTimesOut, DropReap
<1>3. (\A s \in Streams : ~ChildWrites(s)) /\ ~ChildEnds /\ ~Cancel
  BY DEF ChildWrites, ChildEnds, Cancel, LooksAt, LooksAtChild, LooksAtToken, Streams
<1>. QED  BY <1>1, <1>2, <1>3 DEF Next, Supervise, Finish, Clock

(* A workspace that cannot be removed turns no failure into a success.     *)
LEMMA CloseIsWhole ==
    ASSUME RestIsWhole, SuccessIsWhole, TypeOK, CloseWorkspace
    PROVE  RestIsWhole' /\ SuccessIsWhole'
<1>1. /\ pc = "close" /\ pc' = "done"
      /\ UNCHANGED <<written, capture, consumed, produced, process, lifecycle>>
      /\ \/ result' = result
         \/ result' = <<"Cleanup">>
         \/ result' = <<"Cleanup">> \o result
  BY DEF CloseWorkspace, Goto, history
<1>2. result' = <<"Ok">> => result' = result
  <2>1. result \in Seq(Outcomes)
    BY DEF TypeOK
  <2>2. (<<"Cleanup">> \o result)[1] = "Cleanup" /\ <<"Cleanup">>[1] = "Cleanup" /\ <<"Ok">>[1] = "Ok"
    BY <2>1 DEF Outcomes
  <2>. QED  BY <1>1, <2>2
<1>3. RestIsWhole'
  BY <1>1 DEF RestIsWhole, RestSteps
<1>4. SuccessIsWhole'
  <2>1. SuccessIsWhole /\ UNCHANGED <<written, capture, consumed, produced, process, lifecycle>>
    BY <1>1
  <2>. QED  BY <1>2, <2>1 DEF SuccessIsWhole
<1>. QED  BY <1>3, <1>4

(* No other step answers.                                                  *)
LEMMA OtherStepsAnswerNothing ==
    ASSUME IInv, [Next]_vars, ~Launch, ~Settle, ~CloseWorkspace
    PROVE  result' = result
<1>1. CASE Supervise \/ TimeOut
  BY <1>1 DEF Supervise, Configure, Poll, TimeOut, WriteInput, ReadStdout, Consume, Accepted,
              ReadStderr, ObserveExit
<1>2. CASE Stop \/ Reap \/ ReapFails \/ ReapTimesOut \/ StillDraining
  BY <1>2 DEF Stop, Reap, ReapFails, ReapTimesOut, AfterReap, StillDraining, supervisor
<1>3. CASE DrainStdout \/ DrainStderr \/ Drained \/ DrainTimesOut \/ ConsumeRest
  BY <1>3 DEF DrainStdout, DrainStderr, Drain, Drained, DrainTimesOut, AfterDraining, ConsumeRest
<1>4. CASE DropGuard \/ DropReaps \/ DropTimesOut
  BY <1>4 DEF DropGuard, DropReaps, DropTimesOut, DropReap, supervisor
<1>5. CASE (\E s \in Streams : ChildWrites(s)) \/ ChildEnds \/ Cancel \/ UNCHANGED vars
  BY <1>5 DEF ChildWrites, ChildEnds, Cancel, vars, supervisor
<1>. QED  BY <1>1, <1>2, <1>3, <1>4, <1>5 DEF Next, Supervise, Finish, Clock

(* The last records are the rest of a clean exit, and nothing but their    *)
(* end is a success.                                                       *)
LEMMA WholeStays ==
    ASSUME IInv, Kept, TypeOK, RestIsWhole, SuccessIsWhole, [Next]_vars
    PROVE  RestIsWhole' /\ SuccessIsWhole'
<1>1. CASE Settle
  BY <1>1, SettleIsWhole
<1>2. CASE CloseWorkspace
  BY <1>2, CloseIsWhole
<1>3. CASE Launch
  <2>1. /\ pc = "start" /\ pc' \in {"close", "configure"}
        /\ result' \in {result, <<"Cancelled">>, <<"Spawn">>}
    BY <1>3 DEF Launch, Answer, Goto
  <2>2. result # <<"Ok">> /\ <<"Cancelled">> # <<"Ok">> /\ <<"Spawn">> # <<"Ok">>
    BY <2>1 DEF RestIsWhole
  <2>. QED  BY <2>1, <2>2 DEF RestIsWhole, RestSteps, SuccessIsWhole
<1>4. CASE ~Settle /\ ~CloseWorkspace /\ ~Launch
  <2>1. result' = result
    BY <1>4, OtherStepsAnswerNothing
  <2>2. CASE pc \in {"close", "done"}
    <3>1. UNCHANGED vars
      BY <1>4, <2>2, BehindTheAnswer
    <3>. QED  BY <3>1
         DEF vars, supervisor, world, history, RestIsWhole, SuccessIsWhole
  <2>3. CASE pc \notin {"close", "done"}
    <3>1. result' # <<"Ok">>
      BY <2>1, <2>3 DEF RestIsWhole
    <3>2. CASE Drained \/ DrainTimesOut
      BY <3>1, <3>2, DrainedIsWhole DEF RestIsWhole, RestSteps, SuccessIsWhole
    <3>3. CASE ConsumeRest
      <4>1. /\ pc = "consumeRest" /\ pc' \in {"consumeRest", "settleRest"}
            /\ UNCHANGED <<capture, failures>> /\ (pc' = "consumeRest" => ending' = ending)
        BY <3>3 DEF ConsumeRest, Goto
      <4>. QED  BY <3>1, <4>1 DEF RestIsWhole, RestSteps, SuccessIsWhole
    <3>4. CASE pc' \notin {"settle", "consumeRest", "settleRest"}
      BY <3>1, <3>4 DEF RestIsWhole, RestSteps, SuccessIsWhole
    <3>5. CASE (\E s \in Streams : ChildWrites(s)) \/ ChildEnds \/ Cancel \/ UNCHANGED vars
      <4>1. UNCHANGED <<pc, capture, failures, ending>>
        BY <3>5 DEF ChildWrites, ChildEnds, Cancel, vars, supervisor
      <4>. QED  BY <3>1, <4>1 DEF RestIsWhole, RestSteps, SuccessIsWhole
    <3>6. CASE Supervise \/ TimeOut
      <4>1. pc' \in LoopSteps \cup {"stop", "close", "configure"}
        BY <3>6
        DEF Supervise, Launch, Configure, Poll, TimeOut, WriteInput, ReadStdout, Consume, Accepted,
            ReadStderr, ObserveExit, Continue, End, Answer, Goto, LoopSteps
      <4>. QED  BY <3>4, <4>1 DEF LoopSteps
    <3>7. CASE \/ Stop \/ Reap \/ ReapFails \/ ReapTimesOut \/ StillDraining \/ DrainStdout
               \/ DrainStderr \/ DropGuard \/ DropReaps \/ DropTimesOut
      <4>1. pc' \in {"reap", "drainStdout", "drainStderr", "drained", "dropReap", "close"}
        BY <3>7
        DEF Stop, Reap, ReapFails, ReapTimesOut, AfterReap, StillDraining, DrainStdout, DrainStderr,
            Drain, DropGuard, DropReaps, DropTimesOut, DropReap, Goto
      <4>. QED  BY <3>4, <4>1
    <3>. QED
      BY <1>4, <3>2, <3>3, <3>5, <3>6, <3>7 DEF Next, Finish, Clock
  <2>. QED  BY <2>2, <2>3
<1>. QED  BY <1>1, <1>2, <1>3, <1>4

(* Whatever was read and handed over holds at the start.                   *)
LEMMA WholeAtStart ==
    ASSUME Init
    PROVE  Whole
<1>. DEFINE none == [i \in 0..0 |-> 0]
<1>1. AreLines(<<>>, <<>>, 0)
  <2>1. none \in [0..Len(<<>>) -> 0..Len(<<>>)] /\ none[0] = 0 /\ none[Len(<<>>)] = 0
    OBVIOUS
  <2>2. IsIncreasing(none)
    BY DEF IsIncreasing
  <2>. HIDE DEF none
  <2>. QED  BY <2>1, <2>2 DEF AreLines
<1>2. /\ capture["stdout"].bytes = <<>> /\ consumed = <<>> /\ consumed \o records = <<>>
      /\ framer.start = 0 /\ framer.scanned = 0 /\ pc = "start"
  BY DEF Init, Streams
<1>3. ControlTypeOK /\ CleanupTypeOK
  <2>1. Input \in Nat /\ MaxFaults \in Nat
    BY BoundsAssumption
  <2>2. ControlTypeOK
    <3>1. /\ written = 0 /\ failures = {} /\ lifecycle = None /\ process = None /\ faults = 0
          /\ escapee \in BOOLEAN /\ cancelled \in BOOLEAN
      BY DEF Init
    <3>2. written \in 0..Input /\ faults \in 0..MaxFaults
      BY <2>1, <3>1
    <3>. QED  BY <3>1, <3>2 DEF ControlTypeOK
  <2>3. <<>> \in Seq(Outcomes)
    OBVIOUS
  <2>4. CleanupTypeOK
    BY <2>3 DEF Init, CleanupTypeOK, Steps
  <2>. QED  BY <2>2, <2>4
<1>4. DataTypeOK
  <2>1. <<>> \in Seq(Byte) /\ <<>> \in Seq(Seq(Byte)) /\ Len(<<>>) = 0
    OBVIOUS
  <2>2. \A s \in Streams : Bound[s] \in Nat
    BY BoundsAssumption DEF Bound, Streams
  <2>3. framer = [start |-> 0, scanned |-> 0]
    BY DEF Init
  <2>. QED  BY <1>2, <2>1, <2>2, <2>3 DEF Init, DataTypeOK, Captures
<1>5. TypeOK
  BY <1>3, <1>4, TypeInParts
<1>6. StreamsAreTrue
  <2>1. <<>> \o <<>> = <<>>
    OBVIOUS
  <2>. QED  BY <2>1 DEF Init, StreamsAreTrue, LoopSteps, Undecided, None
<1>7. IsFramed(<<>>, <<>>)
  BY <1>1, <1>2 DEF IsFramed
<1>8. LinesAreHandedOver
  <2>1. records = <<>>
    BY DEF Init
  <2>. QED  BY <1>2, <1>7, <2>1 DEF LinesAreHandedOver
<1>9. RecordsInOrder
  BY <1>1, <1>2 DEF RecordsInOrder
<1>10. RestIsWhole /\ SuccessIsWhole
  <2>1. result = <<>> /\ pc = "start"
    BY DEF Init
  <2>2. result # <<"Ok">>
    BY <2>1
  <2>. QED  BY <2>1, <2>2 DEF RestIsWhole, RestSteps, SuccessIsWhole
<1>. QED  BY <1>5, <1>6, <1>8, <1>9, <1>10 DEF Whole

----------------------------------------------------------------------------
(***************************************************************************)
(* The results.                                                            *)
(***************************************************************************)
(* The inductive invariant holds in every request.                         *)
THEOREM Invariance == Spec => []IInv
<1>1. Init => IInv
  BY DEF Init, IInv, CleanupTypeOK, PhasesInOrder, CauseIsKept, UnreapedIsAFailure,
         AnswerIsTrue, Steps, Supervising, LoopSteps, CleanupSteps, Answered,
         EarlyEndings, Endings, Outcomes, None
<1>2. IInv /\ [Next]_vars => IInv'
  BY Inductive
<1>. QED  BY <1>1, <1>2, PTL DEF Spec

(* Whatever ended supervision first is the innermost cause of the answer,  *)
(* whatever fails, times out or is cancelled during the cleanup            *)
(* (unix_impl.rs, finish and settle).                                      *)
THEOREM CauseReachesTheCaller == Spec => []FirstCauseIsReported
<1>1. IInv => FirstCauseIsReported
  BY DEF IInv, PhasesInOrder, AnswerIsTrue, Answered, FirstCauseIsReported, EarlyEndings, None
<1>. QED  BY <1>1, Invariance, PTL

(* A request that was launched ends with its child reaped, or with an      *)
(* answer that names the signal or the reaping that failed (ChildGuard).   *)
THEOREM NoChildIsForgotten == Spec => []NoChildLeftUnsaid
<1>1. IInv => NoChildLeftUnsaid
  <2>. SUFFICES ASSUME IInv, pc = "done", process # None, lifecycle # "Reaped"
                PROVE  Head(result) = "Cleanup" /\ failures \cap {"KillGroup", "Reap"} # {}
    BY DEF NoChildLeftUnsaid
  <2>1. failures \cap {"KillGroup", "Reap"} # {}
    BY DEF IInv, UnreapedIsAFailure
  <2>. QED  BY <2>1 DEF IInv, AnswerIsTrue, Answered
<1>. QED  BY <1>1, Invariance, PTL

(* What is read and handed over is whole in every request: the type, the   *)
(* streams, the lines, the rest behind an exit, and the success.           *)
THEOREM Wholeness == Spec => []Whole
<1>1. Init => Whole
  BY WholeAtStart
<1>2. IInv /\ IInv' /\ Whole /\ [Next]_vars => Whole'
  <2>. SUFFICES ASSUME IInv, IInv', Whole, [Next]_vars PROVE Whole'
    OBVIOUS
  <2>1. Kept /\ TypeOK
    BY TypeInParts DEF Whole, Kept
  <2>2. Kept'
    BY <2>1, EveryStepKeeps
  <2>3. RestIsWhole' /\ SuccessIsWhole'
    BY <2>1, WholeStays DEF Whole
  <2>4. TypeOK'
    <3>1. ControlTypeOK'
      BY <2>1, ControlStaysTyped, TypeInParts
    <3>2. CleanupTypeOK' /\ DataTypeOK'
      BY <2>2 DEF IInv, Kept
    <3>. QED  BY <3>1, <3>2
         DEF TypeOK, CleanupTypeOK, ControlTypeOK, DataTypeOK, Captures
  <2>. QED  BY <2>2, <2>3, <2>4 DEF Whole, Kept
<1>. QED  BY <1>1, <1>2, Invariance, PTL DEF Spec

(* The type invariant, with the bounds of what is captured.                *)
THEOREM Typing == Spec => []TypeOK
<1>1. Whole => TypeOK
  BY DEF Whole
<1>. QED  BY <1>1, Wholeness, PTL

(* Whatever arrives in which chunks, the consumer is handed the lines of   *)
(* stdout, each once and in order, and the rest without a newline only     *)
(* after the child exited (process.rs, RecordFramer and dispatch).         *)
THEOREM LinesReachTheConsumer == Spec => []RecordsInOrder
<1>1. Whole => RecordsInOrder
  BY DEF Whole
<1>. QED  BY <1>1, Wholeness, PTL

(* A request that is answered with success delivered all of its input to   *)
(* a child that exited with zero and is reaped, captured all it wrote and  *)
(* had every line of it accepted (process.rs, ProcessOutcome).             *)
THEOREM SuccessIsTrue == Spec => []SuccessIsWhole
<1>1. Whole => SuccessIsWhole
  BY DEF Whole
<1>. QED  BY <1>1, Wholeness, PTL

=============================================================================
