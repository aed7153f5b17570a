---------------------------- MODULE Cancellation ----------------------------
(***************************************************************************)
(* The cancellation shared by use cases and adapters: a flag and the wake  *)
(* callbacks under one lock.  Cancelling takes every callback with the     *)
(* lock held and calls them with the lock released, one after the other,   *)
(* while subscribers register and drop their registrations.                *)
(*                                                                         *)
(* Every critical section is a step, and so is every call of a callback.   *)
(* The names are those of one token: Generation has a variable and         *)
(* formulas of the usual names, and GenerationProofs extends both.         *)
(***************************************************************************)
EXTENDS Naturals, Sequences

CONSTANTS
    Cancellers,   \* threads that call cancel on the source
    Subscribers,  \* threads that register one callback each
    NoCallback    \* an empty slot

ASSUME NoCallbackAssumption == NoCallback \notin Subscribers

VARIABLES
    flag,         \* Inner::cancelled
    notifiers,    \* the slots, each a subscriber's callback or empty
    alive,        \* the source or a token still keeps the two above
    canceller,    \* what each call of cancel is doing
    subscriber,   \* what each subscriber is doing
    calls         \* history: how often each callback was called

shared == <<flag, notifiers, alive>>
cancellationVars == <<shared, canceller, subscriber, calls>>

NoSlot == 0

Registered == {"held", "kept"}

CancellerState ==
    [step : {"idle", "calling", "returned", "unwound"},
     batch : Seq(Subscribers \cup {NoCallback}), next : Nat \ {0},
     panicked : BOOLEAN]

SubscriberState ==
    [step : {"new", "calling", "removed", "late", "unwound"} \cup Registered,
     scoped : BOOLEAN, slot : Nat]

TypeOK ==
    /\ flag \in BOOLEAN
    /\ notifiers \in Seq(Subscribers \cup {NoCallback})
    /\ alive \in BOOLEAN
    /\ canceller \in [Cancellers -> CancellerState]
    /\ subscriber \in [Subscribers -> SubscriberState]
    /\ calls \in [Subscribers -> Nat]

CancellationInit ==
    /\ flag = FALSE
    /\ notifiers = <<>>
    /\ alive = TRUE
    /\ canceller = [c \in Cancellers |->
           [step |-> "idle", batch |-> <<>>, next |-> 1, panicked |-> FALSE]]
    /\ subscriber \in [Subscribers ->
           [step : {"new"}, scoped : BOOLEAN, slot : {NoSlot}]]
    /\ calls = [s \in Subscribers |-> 0]
-----------------------------------------------------------------------------
(* cancel.  The flag and the callbacks change hands in one critical        *)
(* section; a second call finds the flag set and returns.                  *)

(* Mutant: the callbacks are copied, not taken.                            *)
CopyNotifiers(c) ==
    /\ flag' = TRUE
    /\ UNCHANGED notifiers
    /\ canceller' = [canceller EXCEPT ![c].step = "calling", ![c].batch = notifiers]

TakeNotifiers(c) ==
    /\ flag' = TRUE
    /\ notifiers' = <<>>
    /\ canceller' = [canceller EXCEPT ![c].step = "calling", ![c].batch = notifiers]

BeginCancel(c) ==
    /\ alive
    /\ canceller[c].step = "idle"
    /\ IF flag
       THEN /\ canceller' = [canceller EXCEPT ![c].step = "returned"]
            /\ UNCHANGED <<flag, notifiers>>
       ELSE TakeNotifiers(c)
    /\ UNCHANGED <<alive, subscriber, calls>>

(* Mutant: a panic ends the calls.                                         *)
HasMoreAndCalm(c) ==
    canceller[c].next <= Len(canceller[c].batch) /\ ~canceller[c].panicked

HasMore(c) == canceller[c].next <= Len(canceller[c].batch)

Called(s) == calls' = [calls EXCEPT ![s] = @ + 1]

(* Empty slots are skipped.  A panic is caught and remembered: the rest of *)
(* the batch is called all the same.                                       *)
CallNext(c) ==
    /\ canceller[c].step = "calling"
    /\ HasMore(c)
    /\ LET s == canceller[c].batch[canceller[c].next] IN
       IF s = NoCallback
       THEN /\ canceller' = [canceller EXCEPT ![c].next = @ + 1]
            /\ UNCHANGED calls
       ELSE /\ Called(s)
            /\ \E panics \in BOOLEAN :
                   canceller' = [canceller EXCEPT ![c].next = @ + 1,
                                                  ![c].panicked = @ \/ panics]
    /\ UNCHANGED <<shared, subscriber>>

EndCancel(c) ==
    /\ canceller[c].step = "calling"
    /\ ~HasMore(c)
    /\ canceller' = [canceller EXCEPT ![c].step =
                        IF canceller[c].panicked THEN "unwound" ELSE "returned"]
    /\ UNCHANGED <<shared, subscriber, calls>>
-----------------------------------------------------------------------------
(* register, for subscribe (scoped) and for on_cancel.                     *)

FreeSlots == {i \in 1..Len(notifiers) : notifiers[i] = NoCallback}

(* Mutant: without an empty slot, the last one is taken.                   *)
LastSlot ==
    IF FreeSlots = {} THEN (IF notifiers = <<>> THEN 1 ELSE Len(notifiers))
    ELSE CHOOSE i \in FreeSlots : \A j \in FreeSlots : i <= j

(* The first empty slot, or a new one behind the last.                     *)
FreeSlot ==
    IF FreeSlots = {} THEN Len(notifiers) + 1
    ELSE CHOOSE i \in FreeSlots : \A j \in FreeSlots : i <= j

AfterRegistering(s) == IF subscriber[s].scoped THEN "held" ELSE "kept"

PutNotifier(s, slot) ==
    /\ notifiers' = [i \in 1..(IF slot > Len(notifiers) THEN slot ELSE Len(notifiers)) |->
                        IF i = slot THEN s ELSE notifiers[i]]
    /\ subscriber' = [subscriber EXCEPT ![s].step = AfterRegistering(s),
                                        ![s].slot = slot]

Register(s) ==
    /\ alive
    /\ subscriber[s].step = "new"
    /\ IF flag
       THEN /\ subscriber' = [subscriber EXCEPT ![s].step = "calling"]
            /\ UNCHANGED notifiers
       ELSE PutNotifier(s, FreeSlot)
    /\ UNCHANGED <<flag, alive, canceller, calls>>

(* Cancellation came first: the callback is called at once, without the    *)
(* lock, and never gets a slot.  Its panic is the subscriber's own.        *)
CallAtOnce(s) ==
    /\ subscriber[s].step = "calling"
    /\ Called(s)
    /\ \E step \in {AfterRegistering(s), "unwound"} :
           subscriber' = [subscriber EXCEPT ![s].step = step]
    /\ UNCHANGED <<shared, canceller>>

(* Dropping a scoped registration takes the callback out of its slot, if   *)
(* it is still there.                                                      *)
StillThere(s) ==
    alive /\ subscriber[s].slot \in 1..Len(notifiers)

DropRegistration(s) ==
    /\ subscriber[s].step = "held"
    /\ IF StillThere(s)
       THEN /\ notifiers' = [notifiers EXCEPT ![subscriber[s].slot] = NoCallback]
            /\ subscriber' = [subscriber EXCEPT ![s].step = "removed"]
       ELSE /\ subscriber' = [subscriber EXCEPT ![s].step = "late"]
            /\ UNCHANGED notifiers
    /\ UNCHANGED <<flag, alive, canceller, calls>>

(* The source and the last token are dropped, which cancels nothing.  Both *)
(* calls borrow one of them, so none is in progress.                       *)
Forget ==
    /\ alive
    /\ \A c \in Cancellers : canceller[c].step # "calling"
    /\ \A s \in Subscribers : subscriber[s].step # "calling"
    /\ alive' = FALSE
    /\ notifiers' = <<>>
    /\ UNCHANGED <<flag, canceller, subscriber, calls>>
-----------------------------------------------------------------------------
CancellationNext ==
    \/ \E c \in Cancellers : BeginCancel(c) \/ CallNext(c) \/ EndCancel(c)
    \/ \E s \in Subscribers : Register(s) \/ CallAtOnce(s) \/ DropRegistration(s)
    \/ Forget

CancellationSpec == CancellationInit /\ [][CancellationNext]_cancellationVars

(* A thread inside cancel or register keeps running.  Nobody has to        *)
(* cancel, to register or to drop.                                         *)
FairSpec ==
    /\ CancellationSpec
    /\ \A c \in Cancellers : WF_cancellationVars(CallNext(c))
    /\ \A s \in Subscribers : WF_cancellationVars(CallAtOnce(s))
-----------------------------------------------------------------------------
(* A callback is called at most once, whoever calls it, and never once its *)
(* registration was dropped in time (cancellation.rs, "invoked at most     *)
(* once", "removes the callback unless cancellation already took it").     *)
CalledAtMostOnce ==
    \A s \in Subscribers :
        calls[s] <= IF subscriber[s].step = "removed" THEN 0 ELSE 1

(* The lost wakeup: once the flag is set, a callback that was registered   *)
(* has been called or is still ahead in the batch somebody is calling.  A  *)
(* slot used again, or a registration dropped meanwhile, takes nobody      *)
(* else's callback away.                                                   *)
Ahead(c, s) ==
    /\ canceller[c].step = "calling"
    /\ \E i \in canceller[c].next..Len(canceller[c].batch) : canceller[c].batch[i] = s

NoLostWakeup ==
    \A s \in Subscribers :
        flag /\ subscriber[s].step \in Registered
            => calls[s] = 1 \/ \E c \in Cancellers : Ahead(c, s)

(* Every subscriber that waits for the cancellation is woken by it, also   *)
(* when the callback of another one panics.                                *)
EverybodyIsWoken ==
    \A s \in Subscribers :
        flag /\ subscriber[s].step \in {"calling"} \cup Registered ~> calls[s] = 1
=============================================================================
