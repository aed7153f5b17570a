---------------------------- MODULE HeadlessProofs ----------------------------
(***************************************************************************)
(* Proofs about the headless driver, for every value of its constants.     *)
(*                                                                         *)
(* The inductive invariant has two layers.  Base holds throughout: the     *)
(* session is Sound, its storage thread publishes nothing before it        *)
(* replies, and the queues are healthy as long as the driver talks.        *)
(* Telling holds while it talks, and is what ties the texts together: the  *)
(* mailbox, the preview, the screen and the answer hold text of the one    *)
(* request under way, so that the longer of two of them continues the      *)
(* shorter.  Once the loop has ended nobody reads the mailbox for the      *)
(* screen any more, so Telling need not survive it.                        *)
(*                                                                         *)
(* What the session does is told by the lemmas of SessionProofs; each      *)
(* action of the driver then has a lemma of its own.                       *)
(***************************************************************************)
EXTENDS Headless, SessionProofs

-----------------------------------------------------------------------------
(***************************************************************************)
(* Sequences that are all of one request.                                  *)
(***************************************************************************)
Named(text, id) == \A i \in DOMAIN text : text[i] = id

(* The beginning of a text.                                                *)
LEMMA FirstOfText ==
    ASSUME NEW t \in Seq(Nat), NEW n \in Nat, n <= Len(t)
    PROVE  /\ SubSeq(t, 1, n) \in Seq(Nat) /\ Len(SubSeq(t, 1, n)) = n
           /\ \A i \in 1 .. n : SubSeq(t, 1, n)[i] = t[i]
<1>1. \A i \in 1 .. n : t[i] \in Nat
  <2>1. Len(t) \in Nat
    BY LenProperties
  <2>2. \A i \in 1 .. n : i \in 1 .. Len(t)
    BY <2>1
  <2>. QED  BY <2>2, ElementOfSeq
<1>2. 1 \in Int /\ n \in Int
  OBVIOUS
<1>3. /\ SubSeq(t, 1, n) \in Seq(Nat)
      /\ Len(SubSeq(t, 1, n)) = IF 1 <= n THEN n - 1 + 1 ELSE 0
      /\ \A i \in 1 .. n - 1 + 1 : SubSeq(t, 1, n)[i] = t[1 + i - 1]
  BY <1>1, <1>2, SubSeqProperties
<1>4. /\ (IF 1 <= n THEN n - 1 + 1 ELSE 0) = n
      /\ n - 1 + 1 = n
      /\ \A i \in Nat : 1 + i - 1 = i
  OBVIOUS
<1>5. \A i \in 1 .. n : SubSeq(t, 1, n)[i] = t[i]
  BY <1>3, <1>4
<1>. QED  BY <1>3, <1>4, <1>5

(* Two such texts of one request differ in length alone.                   *)
LEMMA LongerText ==
    ASSUME NEW s \in Seq(Nat), NEW t \in Seq(Nat), NEW id, Named(s, id), Named(t, id),
           Len(s) <= Len(t)
    PROVE  /\ SubSeq(t, Len(s) + 1, Len(t)) \in Seq(Nat)
           /\ s \o SubSeq(t, Len(s) + 1, Len(t)) = t
           /\ IsPrefix(s, t)
<1>. DEFINE rest == SubSeq(t, Len(s) + 1, Len(t))
            whole == s \o rest
<1>1. /\ Len(s) \in Nat /\ DOMAIN s = 1 .. Len(s)
      /\ Len(t) \in Nat /\ DOMAIN t = 1 .. Len(t)
  BY LenProperties
<1>2. /\ rest \in Seq(Nat) /\ Len(rest) = Len(t) - Len(s)
      /\ \A i \in 1 .. Len(t) - Len(s) : rest[i] = t[Len(s) + i]
  <2>. DEFINE m == Len(s) + 1
              n == Len(t)
  <2>1. /\ m \in Int /\ n \in Int
        /\ \A i \in m .. n : t[i] \in Nat
    BY <1>1, ElementOfSeq
  <2>2. /\ SubSeq(t, m, n) \in Seq(Nat)
        /\ Len(SubSeq(t, m, n)) = IF m <= n THEN n - m + 1 ELSE 0
        /\ \A i \in 1 .. n - m + 1 : SubSeq(t, m, n)[i] = t[m + i - 1]
    BY <2>1, SubSeqProperties
  <2>3. /\ (IF m <= n THEN n - m + 1 ELSE 0) = n - Len(s)
        /\ n - m + 1 = n - Len(s)
        /\ \A i \in Nat : m + i - 1 = Len(s) + i
    <3>1. \A a, b \in Nat : a <= b =>
             /\ (IF a + 1 <= b THEN b - (a + 1) + 1 ELSE 0) = b - a
             /\ b - (a + 1) + 1 = b - a
             /\ \A i \in Nat : (a + 1) + i - 1 = a + i
      OBVIOUS
    <3>. QED  BY <1>1, <3>1
  <2>. HIDE DEF m, n
  <2>4. \A i \in 1 .. n - Len(s) : SubSeq(t, m, n)[i] = t[Len(s) + i]
    BY <2>2, <2>3
  <2>. QED  BY <2>2, <2>3, <2>4 DEF m, n
<1>. HIDE DEF rest
<1>3. /\ whole \in Seq(Nat) /\ Len(whole) = Len(t)
      /\ \A i \in 1 .. Len(t) :
            whole[i] = IF i <= Len(s) THEN s[i] ELSE rest[i - Len(s)]
  <2>1. Len(s) + Len(rest) = Len(t)
    <3>1. \A a, b \in Nat : a + (b - a) = b
      OBVIOUS
    <3>. QED  BY <1>1, <1>2, <3>1
  <2>2. /\ whole \in Seq(Nat) /\ Len(whole) = Len(s) + Len(rest)
        /\ \A i \in 1 .. Len(s) + Len(rest) :
              whole[i] = IF i <= Len(s) THEN s[i] ELSE rest[i - Len(s)]
    BY <1>2, ConcatProperties
  <2>. QED  BY <2>1, <2>2
<1>. HIDE DEF whole
<1>4. \A i \in 1 .. Len(t) : whole[i] = t[i]
  <2>. TAKE i \in 1 .. Len(t)
  <2>1. CASE i <= Len(s)
    <3>1. whole[i] = s[i] /\ i \in DOMAIN s /\ i \in DOMAIN t
      BY <1>1, <1>3, <2>1
    <3>. QED  BY <3>1 DEF Named
  <2>2. CASE i > Len(s)
    <3>1. i - Len(s) \in 1 .. Len(t) - Len(s)
      BY <1>1, <2>2
    <3>2. rest[i - Len(s)] = t[Len(s) + (i - Len(s))]
      BY <1>2, <3>1
    <3>3. Len(s) + (i - Len(s)) = i
      BY <1>1
    <3>. QED  BY <1>1, <1>3, <2>2, <3>2, <3>3
  <2>. QED  BY <1>1, <2>1, <2>2
<1>5. whole = t
  BY <1>3, <1>4, SeqEqual
<1>6. IsPrefix(s, t)
  <2>1. /\ SubSeq(s, 1, Len(s)) \in Seq(Nat) /\ Len(SubSeq(s, 1, Len(s))) = Len(s)
        /\ SubSeq(t, 1, Len(s)) \in Seq(Nat) /\ Len(SubSeq(t, 1, Len(s))) = Len(s)
        /\ \A i \in 1 .. Len(s) : /\ SubSeq(s, 1, Len(s))[i] = s[i]
                                  /\ SubSeq(t, 1, Len(s))[i] = t[i]
    BY <1>1, FirstOfText
  <2>2. \A i \in 1 .. Len(s) : s[i] = t[i]
    <3>1. \A i \in 1 .. Len(s) : i \in 1 .. Len(t)
      BY <1>1
    <3>2. \A i \in 1 .. Len(s) : i \in DOMAIN s /\ i \in DOMAIN t
      BY <1>1, <3>1
    <3>. QED  BY <3>2 DEF Named
  <2>3. SubSeq(s, 1, Len(s)) = SubSeq(t, 1, Len(s))
    BY <1>1, <2>1, <2>2, SeqEqual
  <2>. QED  BY <2>3 DEF IsPrefix
<1>. QED  BY <1>2, <1>5, <1>6 DEF whole, rest

(* A text that grows by bytes of its request stays one of that request.    *)
LEMMA GrownText ==
    ASSUME NEW s \in Seq(Nat), NEW id \in Nat, NEW n \in Nat, Named(s, id)
    PROVE  /\ s \o Bytes(n, id) \in Seq(Nat)
           /\ Named(s \o Bytes(n, id), id)
           /\ Len(s) <= Len(s \o Bytes(n, id))
<1>. DEFINE more == Bytes(n, id)
            whole == s \o more
<1>1. more \in Seq(Nat) /\ Len(more) = n /\ \A i \in 1 .. n : more[i] = id
  BY IsASeq DEF Bytes
<1>. HIDE DEF more
<1>2. /\ Len(s) \in Nat /\ DOMAIN s = 1 .. Len(s)
  BY LenProperties
<1>3. /\ whole \in Seq(Nat) /\ Len(whole) = Len(s) + n
      /\ \A i \in 1 .. Len(s) + n :
            whole[i] = IF i <= Len(s) THEN s[i] ELSE more[i - Len(s)]
  BY <1>1, ConcatProperties
<1>4. DOMAIN whole = 1 .. Len(s) + n
  BY <1>3, LenProperties
<1>. HIDE DEF whole
<1>5. \A i \in 1 .. Len(s) + n : whole[i] = id
  <2>. TAKE i \in 1 .. Len(s) + n
  <2>1. CASE i <= Len(s)
    <3>1. whole[i] = s[i] /\ i \in DOMAIN s
      BY <1>2, <1>3, <2>1
    <3>. QED  BY <3>1 DEF Named
  <2>2. CASE i > Len(s)
    <3>1. i - Len(s) \in 1 .. n
      BY <1>2, <2>2
    <3>. QED  BY <1>1, <1>2, <1>3, <2>2, <3>1
  <2>. QED  BY <1>2, <2>1, <2>2
<1>6. Named(whole, id) /\ Len(s) <= Len(whole)
  BY <1>2, <1>3, <1>4, <1>5 DEF Named
<1>. QED  BY <1>3, <1>6 DEF whole, more

-----------------------------------------------------------------------------
(***************************************************************************)
(* What a handler writes.                                                  *)
(***************************************************************************)
(* The fields of a screen.                                                 *)
LEMMA ScreenFields ==
    ASSUME NEW s \in Screen
    PROVE  /\ s.printed \in Seq(Nat) /\ s.edit \in Edit /\ s.paragraph \in Seq(Nat)
           /\ s.told \in Seq(Nat) /\ s.story \in Sink /\ s.control \in Sink
           /\ \A sink \in {s.story, s.control} :
                 sink.queued \in 0 .. Capacity /\ sink.faulted \in BOOLEAN
BY DEF Screen, Sink

(* A screen while a handler is at work on it: what it has written to a     *)
(* sink, if anything, is one more write behind those that were queued.     *)
Draft ==
    [printed : Seq(Nat), edit : Edit, paragraph : Seq(Nat), told : Seq(Nat),
     story : {screen.story, Put(screen.story)},
     control : {screen.control, Put(screen.control)}]

(* What is on the screen for the reader, and what the view remembers.      *)
Reads(s, printed, paragraph, told) ==
    s \in Draft /\ s.printed = printed /\ s.paragraph = paragraph /\ s.told = told

(* The screen as it is may be worked on.                                   *)
LEMMA ScreenIsDraft ==
    ASSUME screen \in Screen
    PROVE  Reads(screen, screen.printed, screen.paragraph, screen.told)
BY DEF Screen, Draft, Reads

(* A word to the player leaves the story's text alone.                     *)
LEMMA SayReads ==
    ASSUME NEW s \in Draft
    PROVE  Reads(Say(s), s.printed, s.paragraph, s.told)
BY DEF Draft, Say, Reads

(* Text of the story goes behind what is in the paragraph.                 *)
LEMMA ShowReads ==
    ASSUME NEW s \in Draft, NEW bytes \in Seq(Nat)
    PROVE  Reads(Show(s, bytes), s.printed, s.paragraph \o bytes, s.told)
<1>1. s.paragraph \o bytes \in Seq(Nat)
  BY ConcatProperties DEF Draft
<1>. QED  BY <1>1 DEF Draft, Show, Reads

(* A line break begins a new one.                                          *)
LEMMA LineBreakReads ==
    ASSUME NEW s \in Draft
    PROVE  Reads(LineBreak(s), s.printed, <<>>, s.told)
BY EmptySeq DEF Draft, LineBreak, Reads

(* The view remembers something else, or asks for something else.          *)
LEMMA RemembersReads ==
    ASSUME NEW s \in Draft, NEW text \in Seq(Nat), NEW told \in Seq(Nat), NEW edit \in Edit
    PROVE  /\ Reads([s EXCEPT !.printed = text], text, s.paragraph, s.told)
           /\ Reads([s EXCEPT !.edit = edit], s.printed, s.paragraph, s.told)
           /\ Reads([s EXCEPT !.printed = text, !.told = told], text, s.paragraph, told)
           /\ Reads([s EXCEPT !.edit = edit, !.printed = text], text, s.paragraph, s.told)
BY DEF Draft, Reads

(* A write that does not overflow the queue is queued, and any other ends  *)
(* the sink.                                                               *)
LEMMA CappedFits ==
    ASSUME NEW sink \in Sink, NEW t \in {sink, Put(sink)}
    PROVE  Capped(t) \in Sink /\ (~Overflows(t) => Capped(t).faulted = sink.faulted)
<1>1. /\ Capacity \in Nat /\ sink.queued \in 0 .. Capacity /\ sink.faulted \in BOOLEAN
  BY HeadlessAssumption DEF Sink
<1>2. /\ t.queued \in {sink.queued, sink.queued + 1} /\ t.faulted = sink.faulted
      /\ t = [queued |-> t.queued, faulted |-> t.faulted]
  BY DEF Sink, Put
<1>3. CASE Overflows(t)
  BY <1>1, <1>3 DEF Capped, Sink
<1>4. CASE ~Overflows(t)
  <2>1. Capped(t) = t
    BY <1>4 DEF Capped
  <2>2. t.queued \in 0 .. Capacity
    BY <1>1, <1>2, <1>4 DEF Overflows
  <2>. QED  BY <1>1, <1>2, <2>1, <2>2 DEF Sink
<1>. QED  BY <1>3, <1>4

(* What a handler leaves behind, whether all of it fits or not.            *)
LEMMA WritesEffect ==
    ASSUME screen \in Screen, NEW s \in Draft, NEW step, Writes(s, step)
    PROVE  /\ screen' \in Screen
           /\ screen'.printed = s.printed /\ screen'.paragraph = s.paragraph
           /\ screen'.told = s.told
           /\ \/ /\ pc' = step /\ outcome' = outcome
                 /\ screen'.story.faulted = screen.story.faulted
                 /\ screen'.control.faulted = screen.control.faulted
              \/ pc' = "leave" /\ outcome' = "failed"
<1>1. screen.story \in Sink /\ screen.control \in Sink
  BY ScreenFields
<1>2. \A sink \in Sink : \A t \in {sink, Put(sink)} :
            Capped(t) \in Sink /\ (~Overflows(t) => Capped(t).faulted = sink.faulted)
  BY CappedFits
<1>3. s.story \in {screen.story, Put(screen.story)}
      /\ s.control \in {screen.control, Put(screen.control)}
  BY DEF Draft
<1>4. screen' = [s EXCEPT !.story = Capped(s.story), !.control = Capped(s.control)]
  BY DEF Writes, Draft
<1>5. /\ Capped(s.story) \in Sink /\ Capped(s.control) \in Sink
      /\ ~Overflows(s.story) => Capped(s.story).faulted = screen.story.faulted
      /\ ~Overflows(s.control) => Capped(s.control).faulted = screen.control.faulted
  BY <1>1, <1>2, <1>3
<1>6. /\ screen' \in Screen
      /\ screen'.printed = s.printed /\ screen'.paragraph = s.paragraph
      /\ screen'.told = s.told
      /\ screen'.story = Capped(s.story) /\ screen'.control = Capped(s.control)
  BY <1>4, <1>5 DEF Draft, Screen
<1>. QED  BY <1>5, <1>6 DEF Writes, Goto

-----------------------------------------------------------------------------
(***************************************************************************)
(* The first layer of the inductive invariant: the session, and what       *)
(* became of what was written.                                             *)
(***************************************************************************)
Talking == pc \in {"pump", "input", "poll", "drain"}

(* The storage thread publishes nothing before it replies.                 *)
Silent(p) ==
    StorageRuns(p) /\ p.storage.result = NoResult => p.storage.evidence = NoAttempt

HealthySink(sink) == ~sink.faulted
EmptySink(sink) == sink.queued = 0 /\ ~sink.faulted

(* The driver talks as long as both sinks are healthy, it leaves in order  *)
(* when all is delivered, and it exits when the session is closed.         *)
Delivery ==
    /\ Talking => /\ outcome = "running"
                  /\ HealthySink(screen.story) /\ HealthySink(screen.control)
    /\ outcome = "ok" => EmptySink(screen.story) /\ EmptySink(screen.control)
    /\ pc \in {"pump", "input", "poll"} => ~IsClosed
    /\ pc = "drain" => session.shutdown = "DrainingOutput"
    /\ pc = "done" => IsClosed
    /\ pc = "done" /\ outcome = "ok" => ~ExitFailed(session)

Base ==
    /\ TypeOK
    /\ mailbox.text <= mailbox.total
    /\ Sound(session)
    /\ Silent(session)
    /\ Delivery

(* Silence outlasts the end of a request and the start of the next.        *)
LEMMA SilenceStays ==
    /\ \A p, q : Silent(p) /\ Renews(p, q) => Silent(q)
    /\ \A p, q : Silent(p) /\ Tells(p.storage, q.storage) => Silent(q)
    /\ \A p, q : Silent(p) /\ Quiet(p, q) => Silent(q)
<1>1. \A p, q : Silent(p) /\ Renews(p, q) => Silent(q)
  BY DEF Silent, Renews, Fresh, StorageRuns
<1>2. \A p, q : Silent(p) /\ Tells(p.storage, q.storage) => Silent(q)
  BY DEF Silent, Tells, StorageRuns
<1>. QED  BY <1>1, <1>2, QuietRenews

(* The type of the mailbox.                                                *)
Mailbox == [text : 0..MaxPreview, total : 0..MaxPreview, incomplete : BOOLEAN]

(* A handler that leaves a sound session, and writes.                      *)
LEMMA HandlerKeepsBase ==
    ASSUME Base, pc \in {"input", "poll"}, NEW p, session' = p, Sound(p), Silent(p),
           NEW s \in Draft, NEW step \in {"poll", "pump", "drain"}, Writes(s, step),
           IF step = "drain" THEN p.shutdown = "DrainingOutput"
                             ELSE p.shutdown \notin {"DrainingOutput", "Closed"},
           mailbox' \in Mailbox, mailbox'.text <= mailbox'.total, answer' \in Seq(Nat),
           atEof' \in BOOLEAN, committed' \in Seq(Nat)
    PROVE  Base'
<1>1. /\ screen \in Screen /\ outcome = "running"
      /\ HealthySink(screen.story) /\ HealthySink(screen.control)
  BY DEF Base, TypeOK, Delivery, Talking
<1>2. /\ screen' \in Screen
      /\ \/ /\ pc' = step /\ outcome' = outcome
            /\ screen'.story.faulted = screen.story.faulted
            /\ screen'.control.faulted = screen.control.faulted
         \/ pc' = "leave" /\ outcome' = "failed"
  BY <1>1, WritesEffect
<1>3. TypeOK'
  BY <1>1, <1>2 DEF TypeOK, Mailbox, Sound
<1>4. Delivery'
  BY <1>1, <1>2 DEF Delivery, Talking, HealthySink, IsClosed
<1>5. Sound(session)' /\ Silent(session)'
  BY DEF Silent, StorageRuns
<1>. QED  BY <1>3, <1>4, <1>5 DEF Base

-----------------------------------------------------------------------------
(***************************************************************************)
(* What the input does to the session.                                     *)
(***************************************************************************)
(* What the view may rely on: the generation under way goes on, or the     *)
(* session is no longer open; a new one starts with an empty preview.      *)
Follows(p, q) ==
    /\ Sound(q) /\ Silent(q)
    /\ q.shutdown \notin {"DrainingOutput", "Closed"}
    /\ q.shutdown = "Open" => p.shutdown = "Open"
    /\ \/ q.worker = p.worker
       \/ p.worker.at # "Running" /\ q.worker.result = "nothing"
    /\ q.ctl.op.phase = "Running" => q.ctl.preview = <<>> \/ q.ctl = p.ctl
    /\ q.shutdown = "Open" /\ Pending(p.ctl) =>
          /\ Pending(q.ctl) /\ q.ctl.op.key = p.ctl.op.key /\ q.ctl.op.work = p.ctl.op.work
          /\ q.ctl.op.phase = "Running" => q.ctl = p.ctl

(* Nothing happens to it.                                                  *)
LEMMA NothingFollows ==
    ASSUME NEW p, Sound(p), Silent(p), p.shutdown \notin {"DrainingOutput", "Closed"}
    PROVE  Follows(p, p)
BY DEF Follows

(* A command that uses the storage thread, or edits the story.             *)
LEMMA RestsFollows ==
    ASSUME NEW p, NEW q, Sound(p), Silent(p),
           p.shutdown \notin {"DrainingOutput", "Closed"}, Rests(p, q)
    PROVE  Follows(p, q)
<1>1. /\ Sound(q) /\ Quiet(p, q) /\ q.worker = p.worker /\ ~Pending(q.ctl)
      /\ q.shutdown = p.shutdown
  BY DEF Rests, SameShutdown
<1>2. ~Pending(p.ctl)
  BY <1>1 DEF Sound, Threads
<1>3. q.ctl.op.phase # "Running"
  BY <1>1 DEF Pending, PendingPhase
<1>. QED  BY <1>1, <1>2, <1>3, SilenceStays DEF Follows

(* A cancellation.                                                         *)
LEMMA CancelFollows ==
    ASSUME NEW p, Sound(p), Silent(p), p.shutdown \notin {"DrainingOutput", "Closed"}
    PROVE  Follows(p, DispatchCancel(p))
<1>. DEFINE q == DispatchCancel(p)
<1>1. /\ Sound(q) /\ Quiet(p, q)
      /\ q.worker = p.worker /\ q.workerFault = p.workerFault
      /\ SameShutdown(p, q)
      /\ \/ q = p
         \/ /\ p.ctl.op.phase = "Running" /\ q.ctl.op.phase = "Cancelling"
            /\ q.ctl.op.key = p.ctl.op.key /\ q.ctl.op.work = p.ctl.op.work
  BY CancelSound
<1>. HIDE DEF q
<1>2. Silent(q)
  BY <1>1, SilenceStays
<1>3. CASE q = p
  BY <1>3, NothingFollows DEF q
<1>4. CASE q # p
  BY <1>1, <1>2, <1>4 DEF Follows, SameShutdown, Pending, PendingPhase, q
<1>. QED  BY <1>3, <1>4

(* The end of the input, or of the player's patience.                      *)
LEMMA QuitFollows ==
    ASSUME NEW p, Sound(p), Silent(p), p.shutdown \notin {"DrainingOutput", "Closed"}
    PROVE  Follows(p, DispatchQuit(p))
<1>. DEFINE q == DispatchQuit(p)
<1>1. /\ Sound(q)
      /\ q.shutdown = IF p.shutdown = "Open" THEN "StoppingGeneration" ELSE p.shutdown
      /\ Tells(p.storage, q.storage)
      /\ q.worker = p.worker
  BY QuitSound
<1>. HIDE DEF q
<1>2. Silent(q)
  BY <1>1, SilenceStays
<1>3. /\ q.shutdown # "Open"
      /\ q.shutdown \notin {"DrainingOutput", "Closed"}
  BY <1>1
<1>4. q.ctl.op.phase # "Running"
  <2>1. q.shutdown \in Shutdown
    BY <1>1, SessionFields DEF Sound
  <2>. QED  BY <1>1, <1>3, <2>1 DEF Sound, ShutdownInOrder, Shutdown
<1>. QED  BY <1>1, <1>2, <1>3, <1>4 DEF Follows, q

(* A generation is started, or could not be.                               *)
LEMMA StartFollows ==
    ASSUME NEW p, Sound(p), Silent(p), Admits(p, 1), CanStart(p.ctl), NEW work \in Work,
           NEW spawned \in BOOLEAN
    PROVE  Follows(p, RuntimeStart(p, Start(p.ctl, work), spawned)) /\ ~Pending(p.ctl)
<1>. DEFINE c == Start(p.ctl, work)
            q == RuntimeStart(p, c, spawned)
<1>1. MayGenerate(p)
  BY DEF MayGenerate, Admits, SessionIdle
<1>2. Sound(q) /\ Generates(p, q)
  BY <1>1, RuntimeStartSound
<1>3. /\ p.shutdown = "Open" /\ p.ctl.op.phase \in {"Ready", "Failed"} /\ ~Pending(p.ctl)
  BY <1>1 DEF MayGenerate, CanStart, Ready, Pending, PendingPhase
<1>4. p.worker.at = "Ready" /\ p \in Session /\ p.ctl \in Controller
  BY <1>3, WorkerFields, SessionFields DEF Sound, Threads
<1>5. /\ spawned => /\ q.ctl = c
                    /\ q.ctl.op = Running(NextKey(p.ctl), work)
                    /\ q.worker.at = "Running" /\ q.worker.result = "nothing"
                    /\ q.worker.key = NextKey(p.ctl) /\ q.worker.work = work
                    /\ q.workerFault = p.workerFault
      /\ ~spawned => /\ q.ctl.op = Failed(work, "Worker")
                     /\ q.worker = p.worker
  BY <1>4, RuntimeStartEffect
<1>6. c.preview = <<>>
  BY <1>4, StartEffect
<1>. HIDE DEF q, c
<1>7. Silent(q) /\ q.shutdown = "Open"
  BY <1>2, <1>3 DEF Generates, SameStorage, SameShutdown, Silent, StorageRuns
<1>8. CASE spawned
  BY <1>2, <1>3, <1>4, <1>5, <1>6, <1>7, <1>8 DEF Follows, q, c
<1>9. CASE ~spawned
  BY <1>2, <1>3, <1>5, <1>7, <1>9 DEF Follows, Failed, q, c
<1>. QED  BY <1>8, <1>9

-----------------------------------------------------------------------------
(***************************************************************************)
(* The second layer: the text of the generation under way, in the mailbox, *)
(* in the preview, on the screen and in the answer.                        *)
(***************************************************************************)
(* A preview is of the request under way, and only turns have one.         *)
PreviewOf(c) ==
    c.op.phase = "Running" =>
        /\ Named(c.preview, c.op.key.id)
        /\ c.op.work.kind # "Turn" => c.preview = <<>>

MailboxIsCurrent ==
    mailbox.text > 0 \/ mailbox.incomplete =>
        session.worker.at = "Running" /\ session.worker.work.kind = "Turn"

AnswerIsCurrent ==
    /\ session.worker.at = "Running" /\ session.worker.result = "success"
    /\ session.worker.work.kind = "Turn"
    => Named(answer, Id)

PrintedIsOfATurn ==
    screen.printed # <<>> /\ session.shutdown = "Open" => ctl.op.work.kind = "Turn"

Telling ==
    /\ PreviewOf(ctl)
    /\ MailboxIsCurrent
    /\ AnswerIsCurrent
    /\ PrintedIsOfATurn
    /\ StoryIsToldOnce

IInv == Base /\ (Talking => Telling)

(* A handler of the input leaves the text on the screen alone, unless it   *)
(* starts a generation.                                                    *)
LEMMA ActsKeep ==
    ASSUME Base, Telling, Input, atEof' \in BOOLEAN, NEW p, Follows(session, p), NEW s,
           \/ Reads(s, screen.printed, screen.paragraph, screen.told)
           \/ /\ ~Pending(ctl) /\ session.shutdown = "Open"
              /\ Reads(s, <<>>, screen.paragraph, screen.told),
           Acts(p, s)
    PROVE  IInv'
<1>1. /\ pc = "input" /\ mailbox' = mailbox /\ answer' = answer /\ committed' = committed
      /\ session' = p /\ Writes(s, "poll") /\ s \in Draft /\ screen \in Screen
  BY DEF Input, Acts, Reads, Base, TypeOK
<1>2. Base'
  <2>1. /\ mailbox' \in Mailbox /\ mailbox'.text <= mailbox'.total /\ answer' \in Seq(Nat)
        /\ committed' \in Seq(Nat)
    BY <1>1 DEF Base, TypeOK, Mailbox
  <2>. QED  BY <1>1, <2>1, HandlerKeepsBase DEF Follows
<1>3. /\ screen'.printed = s.printed /\ screen'.paragraph = s.paragraph
      /\ screen'.told = s.told
  BY <1>1, WritesEffect
<1>4. /\ s.paragraph = screen.paragraph /\ s.told = screen.told
      /\ \/ s.printed = screen.printed
         \/ s.printed = <<>> /\ ~Pending(ctl) /\ session.shutdown = "Open"
  BY DEF Reads
<1>5. /\ screen.told = committed /\ screen.paragraph = screen.printed
      /\ screen.printed # <<>> /\ session.shutdown = "Open" =>
            /\ Pending(ctl)
            /\ \A i \in DOMAIN screen.printed : screen.printed[i] = ctl.op.key.id
            /\ ctl.op.phase = "Running" => IsPrefix(screen.printed, ctl.preview)
  BY <1>1 DEF Telling, StoryIsToldOnce
<1>6. /\ Sound(session) /\ Sound(p)
      /\ p.shutdown = "Open" => session.shutdown = "Open"
      /\ \/ p.worker = session.worker
         \/ session.worker.at # "Running" /\ p.worker.result = "nothing"
      /\ p.ctl.op.phase = "Running" => p.ctl.preview = <<>> \/ p.ctl = session.ctl
      /\ p.shutdown = "Open" /\ Pending(session.ctl) =>
            /\ Pending(p.ctl) /\ p.ctl.op.key = session.ctl.op.key
            /\ p.ctl.op.work = session.ctl.op.work
            /\ p.ctl.op.phase = "Running" => p.ctl = session.ctl
  BY DEF Follows, Base
<1>7. CASE pc' = "poll"
  <2>1. PreviewOf(ctl)'
    <3>1. CASE p.ctl = session.ctl
      BY <1>1, <3>1 DEF Telling, PreviewOf, ctl
    <3>2. CASE p.ctl.op.phase = "Running" /\ p.ctl.preview = <<>>
      BY <1>1, <3>2 DEF PreviewOf, Named, ctl
    <3>. QED  BY <1>1, <1>6, <3>1, <3>2 DEF PreviewOf, ctl
  <2>2. MailboxIsCurrent'
    BY <1>1, <1>6 DEF Telling, MailboxIsCurrent
  <2>3. AnswerIsCurrent'
    BY <1>1, <1>6 DEF Telling, AnswerIsCurrent, Id
  <2>4. screen'.paragraph = screen'.printed /\ screen'.told = committed'
    BY <1>1, <1>3, <1>4, <1>5
  <2>5. ASSUME screen'.printed # <<>>, p.shutdown = "Open"
        PROVE  /\ screen'.printed = screen.printed /\ session.shutdown = "Open"
               /\ Pending(ctl) /\ Pending(p.ctl) /\ p.ctl.op.key = ctl.op.key
               /\ p.ctl.op.work = ctl.op.work
               /\ p.ctl.op.phase = "Running" => p.ctl = ctl
    BY <1>3, <1>4, <1>5, <1>6, <2>5 DEF ctl
  <2>6. PrintedIsOfATurn'
    BY <1>1, <2>5 DEF Telling, PrintedIsOfATurn, ctl
  <2>7. StoryIsToldOnce'
    <3>1. ASSUME screen'.printed # <<>>, p.shutdown = "Open"
          PROVE  /\ Pending(p.ctl)
                 /\ \A i \in DOMAIN screen'.printed : screen'.printed[i] = p.ctl.op.key.id
                 /\ p.ctl.op.phase = "Running" => IsPrefix(screen'.printed, p.ctl.preview)
      BY <1>5, <2>5, <3>1
    <3>. QED  BY <1>1, <2>4, <3>1 DEF StoryIsToldOnce, ctl
  <2>8. Telling'
    BY <2>1, <2>2, <2>3, <2>6, <2>7 DEF Telling
  <2>. QED  BY <1>2, <2>8 DEF IInv
<1>8. CASE pc' = "leave"
  BY <1>2, <1>8 DEF IInv, Talking
<1>9. pc' \in {"poll", "leave"}
  BY <1>1 DEF Writes, Goto
<1>. QED  BY <1>7, <1>8, <1>9

(* What every handler of the input may rely on.                            *)
LEMMA AtInput ==
    ASSUME IInv, pc = "input"
    PROVE  /\ Base /\ Telling
           /\ Sound(session) /\ Silent(session)
           /\ session.shutdown \notin {"DrainingOutput", "Closed"}
           /\ Follows(session, session)
           /\ screen \in Draft
           /\ Reads(screen, screen.printed, screen.paragraph, screen.told)
           /\ Reads(Say(screen), screen.printed, screen.paragraph, screen.told)
           /\ atEof \in BOOLEAN
<1>1. /\ Base /\ Telling /\ Sound(session) /\ Silent(session) /\ screen \in Screen
      /\ atEof \in BOOLEAN
  BY DEF IInv, Base, Talking, TypeOK
<1>2. session.shutdown \notin {"DrainingOutput", "Closed"}
  BY <1>1 DEF Base, Delivery, IsClosed
<1>3. Follows(session, session)
  BY <1>1, <1>2, NothingFollows
<1>4. /\ screen \in Draft
      /\ Reads(screen, screen.printed, screen.paragraph, screen.told)
  BY <1>1, ScreenIsDraft DEF Reads
<1>5. Reads(Say(screen), screen.printed, screen.paragraph, screen.told)
  BY <1>4, SayReads
<1>. QED  BY <1>1, <1>2, <1>3, <1>4, <1>5

(* A generation begins, and the view with it.                              *)
LEMMA StartsWorkKeeps ==
    ASSUME IInv, Line, NEW c, StartsWork(c),
           \/ CanSubmitBrief(ctl) /\ c = SubmitBrief(ctl)
           \/ CanAcceptOutline(ctl) /\ c = AcceptOutline(ctl)
           \/ \E d \in Direction : CanTakeTurn(ctl, d) /\ c = TakeTurn(ctl, d)
           \/ CanRetry(ctl) /\ c = Retry(ctl)
    PROVE  IInv'
<1>1. pc = "input" /\ Input /\ atEof' = atEof /\ Admits(session, 1)
  BY DEF Line, Input, StartsWork
<1>2. /\ Base /\ Telling
      /\ Sound(session) /\ Silent(session)
      /\ screen \in Draft
      /\ Reads(screen, screen.printed, screen.paragraph, screen.told)
      /\ Reads(Say(screen), screen.printed, screen.paragraph, screen.told)
      /\ atEof \in BOOLEAN
  BY <1>1, AtInput
<1>3. ctl \in Controller
  BY <1>2, SessionFields DEF Sound, ctl
<1>4. CanStart(ctl) /\ \E work \in Work : c = Start(ctl, work)
  BY <1>3, IntentsStartWork
<1>5. PICK work \in Work : c = Start(ctl, work)
  BY <1>4
<1>6. PICK spawned \in BOOLEAN :
          LET p == RuntimeStart(session, c, spawned) IN
          Acts(p, Say(IF p.ctl.op.phase = "Running" THEN [screen EXCEPT !.printed = <<>>]
                      ELSE screen))
  BY DEF StartsWork
<1>. DEFINE p == RuntimeStart(session, c, spawned)
            s == IF p.ctl.op.phase = "Running" THEN [screen EXCEPT !.printed = <<>>]
                 ELSE screen
<1>7. Follows(session, p) /\ ~Pending(ctl)
  BY <1>1, <1>2, <1>4, <1>5, StartFollows DEF ctl
<1>8. Acts(p, Say(s))
  BY <1>6
<1>9. session.shutdown = "Open"
  BY <1>1 DEF Admits, SessionIdle
<1>. HIDE DEF p
<1>10. CASE p.ctl.op.phase = "Running"
  <2>. DEFINE t == [screen EXCEPT !.printed = <<>>]
  <2>1. Reads(t, <<>>, screen.paragraph, screen.told)
    BY <1>2, EmptySeq, RemembersReads DEF Draft, Edit
  <2>. HIDE DEF t
  <2>2. Reads(Say(t), <<>>, screen.paragraph, screen.told)
    BY <2>1, SayReads DEF Reads
  <2>3. Acts(p, Say(t))
    BY <1>8, <1>10 DEF t
  <2>. QED  BY <1>1, <1>2, <1>7, <1>9, <2>2, <2>3, ActsKeep
<1>11. CASE p.ctl.op.phase # "Running"
  <2>1. Acts(p, Say(screen))
    BY <1>8, <1>11
  <2>. QED  BY <1>1, <1>2, <1>7, <2>1, ActsKeep
<1>. QED  BY <1>10, <1>11

(* The view asks for a part of an outline.                                 *)
LEMMA AsksKeeps ==
    ASSUME IInv, Line, NEW p, Follows(session, p), NEW edit \in Edit,
           Acts(p, Say([screen EXCEPT !.edit = edit]))
    PROVE  IInv'
<1>1. pc = "input" /\ Input /\ atEof' = atEof
  BY DEF Line, Input
<1>2. /\ Base /\ Telling /\ screen \in Draft /\ atEof \in BOOLEAN
  BY <1>1, AtInput
<1>. DEFINE t == [screen EXCEPT !.edit = edit]
<1>3. Reads(t, screen.printed, screen.paragraph, screen.told)
  BY <1>2, EmptySeq, RemembersReads DEF Draft
<1>. HIDE DEF t
<1>4. Reads(Say(t), screen.printed, screen.paragraph, screen.told)
  BY <1>3, SayReads DEF Reads
<1>. QED  BY <1>1, <1>2, <1>4, ActsKeep DEF t

(* The persistence commands.                                               *)
LEMMA LineStoresKeeps ==
    ASSUME IInv, LineStores
    PROVE  IInv'
<1>1. pc = "input" /\ Input /\ atEof' = atEof
  BY DEF LineStores, Line, Input
<1>2. /\ Base /\ Telling
      /\ Sound(session) /\ Silent(session)
      /\ session.shutdown \notin {"DrainingOutput", "Closed"}
      /\ Reads(Say(screen), screen.printed, screen.paragraph, screen.told)
      /\ atEof \in BOOLEAN
  BY <1>1, AtInput
<1>3. TheSlot \in Slots /\ DefaultLimits \in Limits
  BY HeadlessAssumption, ControllerAssumption DEF TheSlot
<1>4. \A p : Rests(session, p) /\ Acts(p, Say(screen)) => IInv'
  BY <1>1, <1>2, RestsFollows, ActsKeep
<1>5. PICK spawned \in BOOLEAN :
           \/ \E copy \in BOOLEAN :
                  CanSave(session) /\ Acts(Save(session, copy, spawned), Say(screen))
           \/ CanList(session) /\ Acts(List(session, spawned), Say(screen))
           \/ \E copy \in {"primary", "backup"} :
                  /\ CanLoad(session)
                  /\ Acts(Load(session, TheSlot, copy, DefaultLimits, spawned), Say(screen))
           \/ \E count \in 1..MaxCounter :
                  /\ CanDispatchRewind(session, count)
                  /\ Acts(DispatchRewind(session, count, spawned), Say(screen))
  BY DEF LineStores
<1>6. ASSUME NEW copy \in BOOLEAN, CanSave(session),
             Acts(Save(session, copy, spawned), Say(screen))
      PROVE  IInv'
  <2>1. Rests(session, Save(session, copy, spawned))
    BY <1>2, <1>6, SaveSound
  <2>. QED  BY <1>4, <1>6, <2>1
<1>7. CASE CanList(session) /\ Acts(List(session, spawned), Say(screen))
  <2>1. Rests(session, List(session, spawned))
    BY <1>2, <1>7, ListSound
  <2>. QED  BY <1>4, <1>7, <2>1
<1>8. ASSUME NEW copy \in {"primary", "backup"}, CanLoad(session),
             Acts(Load(session, TheSlot, copy, DefaultLimits, spawned), Say(screen))
      PROVE  IInv'
  <2>1. Rests(session, Load(session, TheSlot, copy, DefaultLimits, spawned))
    BY <1>2, <1>3, <1>8, LoadSound
  <2>. QED  BY <1>4, <1>8, <2>1
<1>9. ASSUME NEW count \in 1..MaxCounter, CanDispatchRewind(session, count),
             Acts(DispatchRewind(session, count, spawned), Say(screen))
      PROVE  IInv'
  <2>1. Rests(session, DispatchRewind(session, count, spawned))
    BY <1>2, <1>9, RewindSound
  <2>. QED  BY <1>4, <1>9, <2>1
<1>. QED  BY <1>5, <1>6, <1>7, <1>8, <1>9

(* An outline is edited.                                                   *)
LEMMA LineEditsKeeps ==
    ASSUME IInv, LineEdits
    PROVE  IInv'
<1>1. Line /\ pc = "input" /\ StorageIdle(session) /\ session.shutdown = "Open"
  BY DEF LineEdits, LineAtRest, Line, Input
<1>2. /\ Sound(session) /\ Silent(session) /\ Follows(session, session)
  BY <1>1, AtInput
<1>3. \A edit \in Edit : AsksFor(edit) => IInv'
  BY <1>1, <1>2, AsksKeeps DEF AsksFor
<1>4. \A p : Follows(session, p) /\ Acts(p, Say([screen EXCEPT !.edit = "None"])) => IInv'
  BY <1>1, AsksKeeps DEF Edit
<1>. DEFINE admitted == Admits(session, 1) /\ CanReplaceOutline(ctl)
            p == IF admitted THEN [session EXCEPT !.ctl = ReplaceOutline(ctl)] ELSE session
<1>5. Follows(session, p)
  <2>1. CASE admitted
    <3>1. Rests(session, [session EXCEPT !.ctl = ReplaceOutline(session.ctl)])
      BY <1>2, <2>1, ReplaceOutlineSound DEF Admits
    <3>. QED  BY <1>1, <1>2, <2>1, <3>1, RestsFollows DEF ctl
  <2>2. CASE ~admitted
    BY <1>2, <2>2
  <2>. QED  BY <2>1, <2>2
<1>6. \/ \E edit \in Edit : AsksFor(edit)
      \/ Acts(p, Say([screen EXCEPT !.edit = "None"]))
  BY DEF LineEdits, Edit
<1>. HIDE DEF p
<1>. QED  BY <1>3, <1>4, <1>5, <1>6

(* The player answers what the stage asks for.                             *)
LEMMA LineAnswersKeeps ==
    ASSUME IInv, LineAnswers
    PROVE  IInv'
<1>1. Line /\ pc = "input" /\ Input /\ atEof' = atEof
  BY DEF LineAnswers, LineAtRest, Line, Input
<1>2. CASE CanSubmitBrief(ctl) /\ StartsWork(SubmitBrief(ctl))
  BY <1>1, <1>2, StartsWorkKeeps
<1>3. CASE CanAcceptOutline(ctl) /\ StartsWork(AcceptOutline(ctl))
  BY <1>1, <1>3, StartsWorkKeeps
<1>4. CASE \E d \in Direction : CanTakeTurn(ctl, d) /\ StartsWork(TakeTurn(ctl, d))
  <2>1. PICK d \in Direction : CanTakeTurn(ctl, d) /\ StartsWork(TakeTurn(ctl, d))
    BY <1>4
  <2>. DEFINE c == TakeTurn(ctl, d)
  <2>2. \E e \in Direction : CanTakeTurn(ctl, e) /\ c = TakeTurn(ctl, e)
    BY <2>1
  <2>. HIDE DEF c
  <2>3. StartsWork(c)
    BY <2>1 DEF c
  <2>. QED  BY <1>1, <2>2, <2>3, StartsWorkKeeps
<1>5. CASE /\ CanDispatchSelect(session)
           /\ \E spawned \in BOOLEAN : Acts(DispatchSelect(session, spawned), screen)
  <2>1. PICK spawned \in BOOLEAN : Acts(DispatchSelect(session, spawned), screen)
    BY <1>5
  <2>2. /\ Base /\ Telling
        /\ Sound(session) /\ Silent(session)
        /\ session.shutdown \notin {"DrainingOutput", "Closed"}
        /\ Reads(screen, screen.printed, screen.paragraph, screen.told)
        /\ atEof \in BOOLEAN
    BY <1>1, AtInput
  <2>3. Follows(session, DispatchSelect(session, spawned))
    BY <1>5, <2>2, SelectSound, RestsFollows
  <2>. QED  BY <1>1, <2>1, <2>2, <2>3, ActsKeep
<1>. QED  BY <1>2, <1>3, <1>4, <1>5 DEF LineAnswers

(* Everything the input may be.                                            *)
LEMMA ReadInputKeeps ==
    ASSUME IInv, ReadInput
    PROVE  IInv'
<1>1. pc = "input"
  BY DEF ReadInput, NoInput, InputFails, InputEnds, Interrupt, LineQuits, LineCancels,
         LineReports, LineStores, LineRetries, LineEdits, LineAnswers, LineAtRest, Line, Input
<1>2. /\ Base /\ Telling
      /\ Sound(session) /\ Silent(session)
      /\ session.shutdown \notin {"DrainingOutput", "Closed"}
      /\ Follows(session, session)
      /\ Reads(screen, screen.printed, screen.paragraph, screen.told)
      /\ Reads(Say(screen), screen.printed, screen.paragraph, screen.told)
      /\ atEof \in BOOLEAN
  BY <1>1, AtInput
<1>3. Follows(session, DispatchQuit(session)) /\ Follows(session, DispatchCancel(session))
  BY <1>2, QuitFollows, CancelFollows
<1>4. \A p : Input /\ atEof' \in BOOLEAN /\ Follows(session, p)
             /\ (Acts(p, screen) \/ Acts(p, Say(screen))) => IInv'
  BY <1>2, ActsKeep
<1>5. CASE NoInput
  BY <1>2, <1>4, <1>5 DEF NoInput, Line
<1>6. CASE InputFails
  BY <1>1, <1>2, <1>6
  DEF InputFails, Line, Input, Goto, IInv, Base, TypeOK, Delivery, Talking, Silent, StorageRuns
<1>7. CASE InputEnds
  BY <1>3, <1>4, <1>7 DEF InputEnds
<1>8. CASE Interrupt
  BY <1>2, <1>3, <1>4, <1>8 DEF Interrupt
<1>9. CASE LineQuits
  BY <1>2, <1>3, <1>4, <1>9 DEF LineQuits, Line
<1>10. CASE LineCancels
  BY <1>2, <1>3, <1>4, <1>10 DEF LineCancels, Line
<1>11. CASE LineReports
  BY <1>2, <1>4, <1>11 DEF LineReports, Line
<1>12. CASE LineStores
  BY <1>12, LineStoresKeeps
<1>13. CASE LineRetries
  BY <1>13, StartsWorkKeeps DEF LineRetries, LineAtRest
<1>14. CASE LineEdits
  BY <1>14, LineEditsKeeps
<1>15. CASE LineAnswers
  BY <1>15, LineAnswersKeeps
<1>. QED
  BY <1>5, <1>6, <1>7, <1>8, <1>9, <1>10, <1>11, <1>12, <1>13, <1>14, <1>15 DEF ReadInput

-----------------------------------------------------------------------------
(***************************************************************************)
(* The queues and the threads.                                             *)
(***************************************************************************)
(* A sink takes some of what is queued, or breaks.                         *)
LEMMA Sinks ==
    ASSUME NEW sink \in Sink
    PROVE  /\ \A t \in Delivered(sink) :
                 t \in Sink /\ t.faulted = sink.faulted /\ (EmptySink(sink) => EmptySink(t))
           /\ \A t \in Faulted(sink) : t \in Sink /\ ~EmptySink(sink)
<1>1. Capacity \in Nat /\ sink.queued \in 0 .. Capacity /\ sink.faulted \in BOOLEAN
  BY HeadlessAssumption DEF Sink
<1>2. ASSUME NEW t \in Delivered(sink)
      PROVE  t \in Sink /\ t.faulted = sink.faulted /\ (EmptySink(sink) => EmptySink(t))
  <2>1. PICK n \in 0 .. sink.queued : t = [sink EXCEPT !.queued = n]
    BY <1>2 DEF Delivered
  <2>2. n \in 0 .. Capacity /\ (sink.queued = 0 => n = 0)
    BY <1>1
  <2>. QED  BY <1>1, <2>1, <2>2 DEF Sink, EmptySink
<1>3. ASSUME NEW t \in Faulted(sink)
      PROVE  t \in Sink /\ ~EmptySink(sink)
  BY <1>3 DEF Faulted, Sink, EmptySink
<1>. QED  BY <1>2, <1>3

(* The reader's text is not touched by the queues.                         *)
SameText(s, t) ==
    t.printed = s.printed /\ t.paragraph = s.paragraph /\ t.told = s.told

(* Two new sinks.                                                          *)
LEMMA PutSinks ==
    ASSUME screen \in Screen, NEW story \in Sink, NEW control \in Sink
    PROVE  LET t == [screen EXCEPT !.story = story, !.control = control]
               u == [screen EXCEPT !.story = story]
           IN  /\ t \in Screen /\ SameText(screen, t)
               /\ t.story = story /\ t.control = control
               /\ u \in Screen /\ SameText(screen, u)
BY DEF Screen, SameText

(* Delivery loses nothing, and mends nothing.                              *)
LEMMA PumpBothEffect ==
    ASSUME screen \in Screen, PumpBoth
    PROVE  /\ screen' \in Screen /\ SameText(screen, screen')
           /\ screen'.story.faulted = screen.story.faulted
           /\ screen'.control.faulted = screen.control.faulted
<1>1. PICK story \in Delivered(screen.story), control \in Delivered(screen.control) :
          screen' = [screen EXCEPT !.story = story, !.control = control]
  BY DEF PumpBoth
<1>2. screen.story \in Sink /\ screen.control \in Sink
  BY ScreenFields
<1>3. /\ story \in Sink /\ control \in Sink
      /\ story.faulted = screen.story.faulted /\ control.faulted = screen.control.faulted
  BY <1>2, Sinks
<1>. QED  BY <1>1, <1>3, PutSinks

(* A sink that breaks is still a sink.                                     *)
LEMMA PumpFailsEffect ==
    ASSUME screen \in Screen, PumpFails
    PROVE  screen' \in Screen
<1>1. screen.story \in Sink /\ screen.control \in Sink
  BY ScreenFields
<1>2. /\ \A t \in Faulted(screen.story) : t \in Sink
      /\ \A t \in Delivered(screen.story) : t \in Sink
      /\ \A t \in Faulted(screen.control) : t \in Sink
  BY <1>1, Sinks
<1>3. \A story \in Sink, control \in Sink :
         /\ [screen EXCEPT !.story = story, !.control = control] \in Screen
         /\ [screen EXCEPT !.story = story] \in Screen
  BY PutSinks
<1>4. CASE \E story \in Faulted(screen.story) : screen' = [screen EXCEPT !.story = story]
  BY <1>1, <1>2, <1>3, <1>4
<1>5. CASE \E story \in Delivered(screen.story), control \in Faulted(screen.control) :
               screen' = [screen EXCEPT !.story = story, !.control = control]
  BY <1>2, <1>3, <1>5
<1>. QED  BY <1>4, <1>5 DEF PumpFails

(* While the session closes, what is delivered stays delivered.            *)
LEMMA PumpHealthyEffect ==
    ASSUME screen \in Screen, PumpHealthy
    PROVE  /\ screen' \in Screen
           /\ EmptySink(screen.story) /\ EmptySink(screen.control) =>
                 EmptySink(screen'.story) /\ EmptySink(screen'.control)
<1>. DEFINE AfterPump(sink) == IF sink.faulted THEN {sink}
                           ELSE Delivered(sink) \cup Faulted(sink)
<1>1. PICK story \in AfterPump(screen.story), control \in AfterPump(screen.control) :
          screen' = [screen EXCEPT !.story = story, !.control = control]
  BY DEF PumpHealthy
<1>2. screen.story \in Sink /\ screen.control \in Sink
  BY ScreenFields
<1>3. \A sink \in Sink : \A t \in AfterPump(sink) : t \in Sink /\ (EmptySink(sink) => EmptySink(t))
  BY Sinks
<1>4. /\ story \in Sink /\ control \in Sink
      /\ EmptySink(screen.story) => EmptySink(story)
      /\ EmptySink(screen.control) => EmptySink(control)
  BY <1>2, <1>3
<1>. HIDE DEF AfterPump
<1>. QED  BY <1>1, <1>4, PutSinks

(* The queues are pumped.                                                  *)
LEMMA PumpKeeps ==
    ASSUME IInv, Pump
    PROVE  IInv'
<1>1. /\ pc = "pump" /\ session' = session /\ mailbox' = mailbox /\ answer' = answer
      /\ atEof' = atEof /\ committed' = committed /\ screen \in Screen
      /\ Base /\ Telling
  BY DEF Pump, IInv, Base, TypeOK, Talking
<1>2. CASE PumpBoth /\ pc' = "input" /\ outcome' = outcome
  <2>1. /\ screen' \in Screen /\ SameText(screen, screen')
        /\ screen'.story.faulted = screen.story.faulted
        /\ screen'.control.faulted = screen.control.faulted
    BY <1>1, <1>2, PumpBothEffect
  <2>2. Base'
    <3>1. TypeOK'
      BY <1>1, <1>2, <2>1 DEF Base, TypeOK
    <3>2. Delivery'
      BY <1>1, <1>2, <2>1 DEF Base, Delivery, Talking, HealthySink, IsClosed
    <3>. QED  BY <1>1, <3>1, <3>2 DEF Base, Silent, StorageRuns
  <2>3. Telling'
    <3>1. PreviewOf(ctl)' /\ MailboxIsCurrent' /\ AnswerIsCurrent'
      BY <1>1 DEF Telling, PreviewOf, MailboxIsCurrent, AnswerIsCurrent, ctl, Id
    <3>2. PrintedIsOfATurn'
      BY <1>1, <2>1 DEF Telling, PrintedIsOfATurn, SameText, ctl
    <3>3. StoryIsToldOnce'
      BY <1>1, <1>2, <2>1 DEF Telling, StoryIsToldOnce, SameText, ctl
    <3>. QED  BY <3>1, <3>2, <3>3 DEF Telling
  <2>. QED  BY <2>2, <2>3 DEF IInv
<1>3. CASE PumpFails /\ pc' = "leave" /\ outcome' = "failed"
  <2>1. screen' \in Screen
    BY <1>1, <1>3, PumpFailsEffect
  <2>. QED
    BY <1>1, <1>3, <2>1 DEF IInv, Base, TypeOK, Delivery, Talking, Silent, StorageRuns
<1>. QED  BY <1>2, <1>3 DEF Pump, Goto

(* The generation thread publishes text.                                   *)
LEMMA GeneratorStreamsKeeps ==
    ASSUME IInv, GeneratorStreams
    PROVE  IInv'
<1>1. /\ pc = "poll" /\ pc' = pc /\ session' = session /\ answer' = answer
      /\ screen' = screen /\ atEof' = atEof /\ outcome' = outcome /\ committed' = committed
      /\ Base /\ Telling
      /\ session.worker.at = "Running" /\ session.worker.work.kind = "Turn"
  BY DEF GeneratorStreams, GeneratorWorks, IInv, Talking
<1>2. PICK bytes \in 1 .. MaxText : Publish(bytes)
  BY DEF GeneratorStreams
<1>3. PICK taken \in 0 .. bytes :
        /\ mailbox.total + taken <= MaxPreview
        /\ mailbox' = [text |-> mailbox.text + taken, total |-> mailbox.total + taken,
                       incomplete |-> taken < bytes]
  BY <1>2 DEF Publish
<1>4. /\ MaxPreview \in Nat /\ MaxText \in Nat /\ taken \in Nat
      /\ mailbox.text \in 0 .. MaxPreview /\ mailbox.total \in 0 .. MaxPreview
      /\ mailbox.text <= mailbox.total
  BY <1>1, ControllerAssumption, HeadlessAssumption DEF Base, TypeOK
<1>5. /\ mailbox.text + taken \in 0 .. MaxPreview /\ mailbox.total + taken \in 0 .. MaxPreview
      /\ mailbox.text + taken <= mailbox.total + taken
  BY <1>3, <1>4
<1>6. mailbox' \in Mailbox /\ mailbox'.text <= mailbox'.total
  BY <1>3, <1>5 DEF Mailbox
<1>7. Base'
  BY <1>1, <1>6
  DEF Base, TypeOK, Mailbox, Delivery, Talking, IsClosed, Silent, StorageRuns
<1>8. Telling'
  BY <1>1
  DEF Telling, PreviewOf, MailboxIsCurrent, AnswerIsCurrent, PrintedIsOfATurn, StoryIsToldOnce,
      ctl, Id
<1>. QED  BY <1>7, <1>8 DEF IInv

(* The generation thread comes to an end.                                  *)
LEMMA GeneratorEndsKeeps ==
    ASSUME IInv, GeneratorEnds
    PROVE  IInv'
<1>1. /\ pc \in {"poll", "closing"} /\ pc' = pc /\ mailbox' = mailbox
      /\ screen' = screen /\ atEof' = atEof /\ outcome' = outcome /\ committed' = committed
      /\ Base /\ (pc = "poll" => Telling)
      /\ session.worker.at = "Running" /\ session.worker.result = "nothing"
      /\ session \in Session
  BY DEF GeneratorEnds, GeneratorWorks, IInv, Base, TypeOK, Talking
<1>2. PICK result \in {"success", "failure", "panic"} :
           /\ session' = [session EXCEPT !.worker.result = result]
           /\ IF result = "success" /\ session.worker.work.kind = "Turn"
              THEN \E n \in 1..MaxText : answer' = [i \in 1..n |-> Id]
              ELSE UNCHANGED answer
  BY DEF GeneratorEnds
<1>. DEFINE q == [session EXCEPT !.worker.result = result]
<1>3. /\ Sound(q) /\ Quiet(session, q) /\ Generates(session, q)
      /\ q.ctl = session.ctl /\ q.worker.result = result
      /\ q.worker.key = session.worker.key /\ q.worker.work = session.worker.work
      /\ q.worker.at = "Running"
  <2>1. Sound(session) /\ session.worker.at = "Running"
    BY <1>1 DEF Base
  <2>2. Sound(q) /\ Quiet(session, q) /\ Generates(session, q)
    BY <2>1, WorkerReturnsSound, Zenon
  <2>3. q.ctl = session.ctl /\ q.worker.at = "Running" /\ q.worker.result = result
    BY <2>1, WorkerReturnsSound, Zenon
  <2>4. q.worker.key = session.worker.key /\ q.worker.work = session.worker.work
    BY <2>1, WorkerReturnsSound, Zenon
  <2>. QED  BY <2>2, <2>3, <2>4, Zenon
<1>. HIDE DEF q
<1>4. session' = q
  BY <1>2 DEF q
<1>5. session.worker.key \in Key /\ Id \in Nat
  BY <1>1, WorkerFields DEF Id, Key
<1>6. answer' \in Seq(Nat)
  <2>1. CASE answer' = answer
    BY <1>1, <2>1 DEF Base, TypeOK
  <2>2. CASE \E n \in 1..MaxText : answer' = [i \in 1..n |-> Id]
    BY <1>5, <2>2, HeadlessAssumption, IsASeq
  <2>. QED  BY <1>2, <2>1, <2>2
<1>7. result = "success" /\ session.worker.work.kind = "Turn" =>
          Named(answer', session.worker.key.id)
  BY <1>2 DEF Named, Id
<1>8. Base'
  <2>1. Sound(session)' /\ Silent(session)' /\ session' \in Session
    BY <1>1, <1>3, <1>4, SilenceStays DEF Base, Sound
  <2>2. TypeOK'
    BY <1>1, <1>6, <2>1 DEF Base, TypeOK
  <2>3. Delivery'
    BY <1>1, <1>3, <1>4
    DEF Base, Delivery, Talking, IsClosed, Generates, SameShutdown
  <2>. QED  BY <1>1, <2>1, <2>2, <2>3 DEF Base
<1>9. Telling => Telling'
  <2>. SUFFICES ASSUME Telling PROVE Telling'
    OBVIOUS
  <2>1. PreviewOf(ctl)' /\ MailboxIsCurrent'
    BY <1>1, <1>3, <1>4 DEF Telling, PreviewOf, MailboxIsCurrent, ctl
  <2>2. AnswerIsCurrent'
    BY <1>3, <1>4, <1>7 DEF AnswerIsCurrent, Id
  <2>3. session'.shutdown = session.shutdown
    BY <1>3, <1>4 DEF Generates, SameShutdown
  <2>4. PrintedIsOfATurn'
    BY <1>1, <1>3, <1>4, <2>3 DEF Telling, PrintedIsOfATurn, ctl
  <2>5. StoryIsToldOnce'
    BY <1>1, <1>3, <1>4, <2>3 DEF Telling, StoryIsToldOnce, ctl
  <2>. QED  BY <2>1, <2>2, <2>4, <2>5 DEF Telling
<1>. QED  BY <1>1, <1>8, <1>9 DEF IInv, Talking

(* What the disk may answer fits what it was asked.                        *)
LEMMA AnswersFit ==
    ASSUME Base, StorageWorks, NEW result \in StorageAnswers
    PROVE  /\ EvidenceOf(result) \in {NoAttempt} \cup Attempt
           /\ result \in StorageResult /\ result # NoResult
           /\ ReplyFits([session.storage EXCEPT !.result = result,
                                                !.evidence = EvidenceOf(result),
                                                !.applied = result.is = "Saved"])
<1>1. /\ session \in Session /\ StorageRuns(session)
      /\ Intent \in StorageIntent /\ session.storage.key \in Key
      /\ session.storage.key.id = session.lastStorageId /\ session.lastStorageId # 0
      /\ session.lastStorageId \in Nat
  BY StorageFields, SessionFields
  DEF Base, TypeOK, StorageWorks, StorageRuns, Intent, Sound, RequestIsCurrent
<1>2. TheSlot \in Slots /\ DefaultLimits \in Limits
  BY HeadlessAssumption, ControllerAssumption DEF TheSlot
<1>3. Intent.op \in SaveOps => Attempted \in Attempt
  <2>1. CASE Intent.op = "Reconcile"
    BY <1>1, <2>1 DEF Attempted, StorageIntent
  <2>2. CASE Intent.op \in {"Create", "Replace"}
    <3>1. Intent.game \in Game /\ (Intent.op = "Replace" => Intent.expected \in Nat)
      BY <1>1, <2>2 DEF StorageIntent
    <3>2. [stamp |-> session.storage.key.id, game |-> Intent.game] \in Doc
      BY <1>1, <3>1 DEF Doc
    <3>. QED  BY <1>2, <2>2, <3>1, <3>2 DEF Attempted, Attempt
  <2>. QED  BY <2>1, <2>2 DEF SaveOps
<1>4. /\ Intent.op = "Reconcile" => Attempted = Intent.pending
      /\ Intent.op \in {"Create", "Replace"} =>
            Attempted.doc.game = Intent.game /\ Attempted.doc.stamp = session.storage.key.id
  BY DEF Attempted
<1>5. SavedGame \in Game
  <2>1. <<0>> \in Seq(Nat)
    OBVIOUS
  <2>. QED  BY <1>2, <2>1 DEF SavedGame, Game, Outline
<1>6. Intent.op = "Load" => LoadedFrom(Intent.copy) \in StorageResult
  <2>1. Intent.op = "Load" => Intent.copy \in {"primary", "backup"}
    BY <1>1 DEF StorageIntent
  <2>. QED  BY <1>2, <1>5, <2>1 DEF LoadedFrom, Loaded, StorageResult
<1>7. Attempted \in Attempt => Saved(Attempted) \in StorageResult
  BY DEF Saved, StorageResult
<1>8. \/ Intent.op = "List" /\ result \in {Listed, FailedWith("Unchanged")}
      \/ Intent.op = "Load" /\ result \in {LoadedFrom(Intent.copy), FailedWith("Unchanged")}
      \/ /\ Intent.op \in SaveOps
         /\ result \in {Saved(Attempted)} \cup {FailedWith(v) : v \in {"Unchanged", "Unknown"}}
  <2>1. Intent.op \in {"List", "Load"} \cup SaveOps
    BY <1>1 DEF StorageIntent, SaveOps
  <2>. QED  BY <2>1 DEF StorageAnswers, SaveOps
<1>9. result \in StorageResult /\ result # NoResult
  <2>1. \A v \in {"Unchanged", "Unknown"} :
           FailedWith(v) \in StorageResult /\ FailedWith(v).is = "Failed"
    BY DEF FailedWith, StorageResult
  <2>2. Listed \in StorageResult /\ Listed.is = "Listed"
    BY DEF Listed, StorageResult
  <2>3. LoadedFrom(Intent.copy).is = "Loaded" /\ Saved(Attempted).is = "Saved"
    BY DEF LoadedFrom, Loaded, Saved
  <2>4. result \in StorageResult /\ result.is \in {"Failed", "Listed", "Loaded", "Saved"}
    BY <1>3, <1>6, <1>7, <1>8, <2>1, <2>2, <2>3
  <2>. QED  BY <2>4 DEF NoResult
<1>. DEFINE e == EvidenceOf(result)
            t == [session.storage EXCEPT !.result = result, !.evidence = e,
                                         !.applied = result.is = "Saved"]
<1>10. /\ e \in {NoAttempt, Attempted}
       /\ e # NoAttempt => Intent.op \in SaveOps
       /\ result.is = "Saved" =>
             e = Attempted /\ result.attempt = Attempted /\ Intent.op \in SaveOps
       /\ result.is = "Failed" => (e # NoAttempt <=> result.visibility # "Unchanged")
       /\ result.is = "Loaded" => Intent.op = "Load"
       /\ result.is = "Listed" => Intent.op = "List"
  <2>1. Intent.op \in SaveOps => Attempted # NoAttempt
    BY <1>3, Attempts
  <2>2. CASE Intent.op = "List" /\ result \in {Listed, FailedWith("Unchanged")}
    BY <2>2 DEF EvidenceOf, Listed, FailedWith
  <2>3. CASE Intent.op = "Load" /\ result \in {LoadedFrom(Intent.copy), FailedWith("Unchanged")}
    BY <2>3 DEF EvidenceOf, LoadedFrom, Loaded, FailedWith
  <2>4. CASE /\ Intent.op \in SaveOps
             /\ result \in {Saved(Attempted)}
                           \cup {FailedWith(v) : v \in {"Unchanged", "Unknown"}}
    BY <2>1, <2>4 DEF EvidenceOf, Saved, FailedWith
  <2>. QED  BY <1>8, <2>2, <2>3, <2>4
<1>. HIDE DEF e
<1>11. /\ t.result = result /\ t.evidence = e /\ t.applied = (result.is = "Saved")
       /\ t.intent = Intent /\ t.key = session.storage.key
  BY <1>1, StorageFields DEF Intent
<1>. HIDE DEF t
<1>12. Intent.op \in SaveOps => Attempted # NoAttempt
  BY <1>3, Attempts
<1>13. ReplyFits(t)
  BY <1>4, <1>10, <1>11, <1>12 DEF ReplyFits
<1>14. e \in {NoAttempt} \cup Attempt
  BY <1>3, <1>10
<1>. QED  BY <1>9, <1>13, <1>14 DEF t, e

(* The storage thread comes to an end.                                     *)
LEMMA StorageEndsKeeps ==
    ASSUME IInv, StorageEnds
    PROVE  IInv'
<1>1. /\ pc \in {"poll", "closing"} /\ pc' = pc /\ mailbox' = mailbox /\ answer' = answer
      /\ screen' = screen /\ atEof' = atEof /\ outcome' = outcome /\ committed' = committed
      /\ Base /\ (pc = "poll" => Telling)
      /\ StorageWorks /\ StorageRuns(session) /\ Sound(session) /\ session \in Session
  BY DEF StorageEnds, StorageWorks, StorageRuns, IInv, Base, TypeOK, Talking
<1>2. PICK result \in StorageAnswers :
           session' = [session EXCEPT !.storage.result = result,
                                      !.storage.evidence = EvidenceOf(result),
                                      !.storage.applied = result.is = "Saved"]
  BY DEF StorageEnds
<1>. DEFINE e == EvidenceOf(result)
            saved == result.is = "Saved"
            t == [session.storage EXCEPT !.result = result, !.evidence = e, !.applied = saved]
            q == [session EXCEPT !.storage = t]
<1>3. /\ e \in {NoAttempt} \cup Attempt
      /\ result \in StorageResult /\ result # NoResult
      /\ ReplyFits(t)
  BY <1>1, AnswersFit
<1>4. session' = q
  <2>. HIDE DEF e
  <2>1. session.storage \in [at: {"Running"}, key: Key, intent: StorageIntent,
                             cancelled: BOOLEAN, evidence: {NoAttempt} \cup Attempt,
                             applied: BOOLEAN, result: StorageResult]
    BY <1>1, StorageFields
  <2>2. session' = [session EXCEPT !.storage.result = result,
                                   !.storage.evidence = e,
                                   !.storage.applied = saved]
    BY <1>2 DEF e
  <2>. QED  BY <1>1, <2>1, <2>2 DEF Session
<1>5. /\ t \in [at: {"Running"}, key: Key, intent: StorageIntent,
                cancelled: BOOLEAN, evidence: {NoAttempt} \cup Attempt,
                applied: BOOLEAN, result: StorageResult]
      /\ t.key = session.storage.key /\ t.intent = session.storage.intent
      /\ t.result = result /\ t.evidence = e
  <2>. HIDE DEF e
  <2>1. session.storage \in [at: {"Running"}, key: Key, intent: StorageIntent,
                             cancelled: BOOLEAN, evidence: {NoAttempt} \cup Attempt,
                             applied: BOOLEAN, result: StorageResult]
    BY <1>1, StorageFields
  <2>2. saved \in BOOLEAN
    OBVIOUS
  <2>. HIDE DEF saved
  <2>. QED  BY <1>3, <2>1, <2>2
<1>. HIDE DEF e, saved, t
<1>6. ThreadMoves(session, q) /\ q.storage = t
  BY <1>1, <1>5, ThreadFields
<1>. HIDE DEF q
<1>7. session.running.pending = NoAttempt
  BY <1>1 DEF Base, Silent, StorageWorks, Sound, RequestIsCurrent
<1>8. Sound(q)
  BY <1>1, <1>3, <1>6, <1>7, ThreadSound
<1>9. /\ q.ctl = session.ctl /\ q.worker = session.worker /\ q.shutdown = session.shutdown
  BY <1>6 DEF ThreadMoves, SameShutdown
<1>10. Base'
  <2>1. Silent(q)
    BY <1>3, <1>5, <1>6 DEF Silent
  <2>2. TypeOK'
    BY <1>1, <1>4, <1>8 DEF Base, TypeOK, Sound
  <2>3. Delivery'
    BY <1>1, <1>4, <1>9 DEF Base, Delivery, Talking, IsClosed
  <2>. QED  BY <1>1, <1>4, <1>8, <2>1, <2>2, <2>3 DEF Base
<1>11. Telling => Telling'
  BY <1>1, <1>4, <1>9
  DEF Telling, PreviewOf, MailboxIsCurrent, AnswerIsCurrent, PrintedIsOfATurn, StoryIsToldOnce,
      ctl, Id
<1>. QED  BY <1>1, <1>10, <1>11 DEF IInv, Talking

-----------------------------------------------------------------------------
(***************************************************************************)
(* What the poll hears of the generation before it looks at its end.       *)
(***************************************************************************)
HasText == session.worker.at = "Running" /\ (mailbox.text > 0 \/ mailbox.incomplete)

(* Only the preview may grow.                                              *)
LEMMA FedSound ==
    ASSUME Base
    PROVE  /\ Sound(Fed) /\ Silent(Fed)
           /\ Fed.worker = session.worker /\ Fed.storage = session.storage
           /\ Fed.shutdown = session.shutdown
           /\ Fed.ctl.op = ctl.op
           /\ \/ Fed = session
              \/ /\ HasText
                 /\ \/ Fed.ctl.preview = ctl.preview
                    \/ Fed.ctl.preview = ctl.preview \o Bytes(mailbox.text, Id)
           /\ Fed = session \/ HasText
<1>1. Sound(session) /\ Silent(session)
  BY DEF Base
<1>2. CASE HasText
  <2>. DEFINE bytes == mailbox.text
              incomplete == mailbox.incomplete
              d == Progress(session.ctl, session.worker.key, bytes, incomplete)
              q == [session EXCEPT !.ctl = d]
  <2>1. bytes \in Nat /\ incomplete \in BOOLEAN /\ session.worker.at = "Running"
    BY <1>2, ControllerAssumption DEF Base, TypeOK, HasText
  <2>2. Fed = q
    BY <1>2 DEF Fed, HasText
  <2>. HIDE DEF bytes, incomplete
  <2>3. Sound(q) /\ Quiet(session, q) /\ Generates(session, q)
    BY <1>1, <2>1, ProgressSound
  <2>4. q.ctl = d /\ d.op = session.ctl.op
    BY <1>1, <2>1, ProgressSound
  <2>5. \/ d.preview = session.ctl.preview
        \/ d.preview = session.ctl.preview \o Bytes(bytes, session.worker.key.id)
    BY <1>1, <2>1, ProgressSound, Zenon
  <2>6. q.worker = session.worker
    BY <1>1, <2>1, ProgressSound
  <2>. HIDE DEF q, d
  <2>7. Silent(q)
    BY <1>1, <2>3, SilenceStays
  <2>8. q.storage = session.storage /\ q.shutdown = session.shutdown
    BY <2>3 DEF Generates, SameStorage, SameShutdown
  <2>. QED
    BY <1>2, <2>2, <2>3, <2>4, <2>5, <2>6, <2>7, <2>8 DEF ctl, Id, bytes
<1>3. CASE ~HasText
  <2>1. Fed = session
    BY <1>3 DEF Fed, HasText
  <2>. QED  BY <1>1, <2>1 DEF ctl
<1>. QED  BY <1>2, <1>3

(* A poll keeps the session sound, and nothing is published by the thread  *)
(* it starts.                                                              *)
LEMMA PollSound ==
    ASSUME Base, NEW spawned \in BOOLEAN
    PROVE  LET p == PollAll(Fed, spawned)
           IN  /\ Sound(p) /\ Silent(p)
               /\ p.shutdown \in {session.shutdown, "SavingFinal", "DrainingOutput"}
               /\ session.shutdown = "Open" => p.shutdown = "Open"
               /\ mailbox.text <= mailbox.total => MailboxAfter.text <= MailboxAfter.total
               /\ mailbox \in Mailbox => MailboxAfter \in Mailbox
<1>. DEFINE p == PollAll(Fed, spawned)
<1>1. Sound(Fed) /\ Silent(Fed) /\ Fed.shutdown = session.shutdown
  BY FedSound
<1>2. /\ Sound(p) /\ Renews(Fed, p)
      /\ p.shutdown \in {Fed.shutdown, "SavingFinal", "DrainingOutput"}
      /\ Fed.shutdown = "Open" => p.shutdown = "Open"
  BY <1>1, PollAllEffect
<1>. HIDE DEF p
<1>3. Silent(p)
  BY <1>1, <1>2, SilenceStays
<1>4. /\ mailbox.text <= mailbox.total => MailboxAfter.text <= MailboxAfter.total
      /\ mailbox \in Mailbox => MailboxAfter \in Mailbox
  <2>1. 0 \in 0 .. MaxPreview /\ (mailbox \in Mailbox => mailbox.total >= 0)
    BY ControllerAssumption DEF Mailbox
  <2>2. mailbox \in Mailbox
    BY DEF Base, TypeOK, Mailbox
  <2>. QED  BY <2>1, <2>2 DEF MailboxAfter, EmptyMailbox, Mailbox
<1>. QED  BY <1>1, <1>2, <1>3, <1>4 DEF p

-----------------------------------------------------------------------------
(***************************************************************************)
(* Leaving.                                                                *)
(***************************************************************************)
(* The output is drained.                                                  *)
LEMMA DrainKeeps ==
    ASSUME IInv, Drain
    PROVE  IInv'
<1>1. /\ pc = "drain" /\ PumpBoth /\ mailbox' = mailbox /\ answer' = answer
      /\ atEof' = atEof /\ committed' = committed /\ screen \in Screen
      /\ Base /\ Telling /\ Sound(session) /\ session.shutdown = "DrainingOutput"
  BY DEF Drain, IInv, Base, TypeOK, Talking, Delivery
<1>2. /\ screen' \in Screen /\ SameText(screen, screen')
      /\ screen'.story.faulted = screen.story.faulted
      /\ screen'.control.faulted = screen.control.faulted
  BY <1>1, PumpBothEffect
<1>3. CASE /\ Drained
           /\ session' = [session EXCEPT !.shutdown = "Closed"]
           /\ outcome' = "ok" /\ pc' = "leave"
  <2>. DEFINE q == [session EXCEPT !.shutdown = "Closed"]
  <2>1. Sound(q) /\ Quiet(session, q) /\ q.shutdown = "Closed"
    BY <1>1, ClosedSound
  <2>. HIDE DEF q
  <2>2. session' = q /\ Silent(q)
    BY <1>1, <1>3, <2>1, SilenceStays DEF Base, q
  <2>3. TypeOK'
    BY <1>1, <1>2, <1>3, <2>1, <2>2 DEF Base, TypeOK, Sound
  <2>4. Delivery'
    BY <1>1, <1>2, <1>3, <2>1, <2>2
    DEF Base, Delivery, Talking, HealthySink, EmptySink, Drained
  <2>. QED  BY <1>1, <1>3, <2>1, <2>2, <2>3, <2>4 DEF Base, IInv, Talking
<1>4. CASE session' = session /\ outcome' = outcome /\ pc' = pc
  <2>1. TypeOK'
    BY <1>1, <1>2, <1>4 DEF Base, TypeOK
  <2>2. Delivery'
    BY <1>1, <1>2, <1>4 DEF Base, Delivery, Talking, HealthySink, IsClosed
  <2>3. Base'
    BY <1>1, <1>4, <2>1, <2>2 DEF Base, Silent, StorageRuns
  <2>4. PreviewOf(ctl)' /\ MailboxIsCurrent' /\ AnswerIsCurrent'
    BY <1>1, <1>4 DEF Telling, PreviewOf, MailboxIsCurrent, AnswerIsCurrent, ctl, Id
  <2>5. PrintedIsOfATurn'
    BY <1>1, <1>2, <1>4 DEF Telling, PrintedIsOfATurn, SameText, ctl
  <2>6. StoryIsToldOnce'
    BY <1>1, <1>2, <1>4 DEF Telling, StoryIsToldOnce, SameText, ctl
  <2>. QED  BY <2>3, <2>4, <2>5, <2>6 DEF IInv, Telling
<1>. QED  BY <1>3, <1>4 DEF Drain, Goto

(* Draining is given up, or too late.                                      *)
LEMMA DrainFailsKeeps ==
    ASSUME IInv, DrainFails
    PROVE  IInv'
<1>1. /\ pc = "drain" /\ pc' = "leave" /\ outcome' = "failed" /\ session' = session
      /\ mailbox' = mailbox /\ answer' = answer /\ atEof' = atEof /\ committed' = committed
      /\ screen \in Screen /\ Base
  BY DEF DrainFails, Goto, IInv, Base, TypeOK
<1>2. screen' \in Screen
  BY <1>1, PumpFailsEffect DEF DrainFails
<1>. QED
  BY <1>1, <1>2 DEF IInv, Base, TypeOK, Delivery, Talking, Silent, StorageRuns

(* The session is asked to quit.                                           *)
LEMMA LeaveKeeps ==
    ASSUME IInv, Leave
    PROVE  IInv'
<1>1. /\ pc = "leave" /\ pc' = "closing" /\ outcome' = outcome /\ screen' = screen
      /\ mailbox' = mailbox /\ answer' = answer /\ atEof' = atEof /\ committed' = committed
      /\ session' = DispatchQuit(session) /\ Base /\ Sound(session) /\ Silent(session)
  BY DEF Leave, Goto, IInv, Base
<1>. DEFINE q == DispatchQuit(session)
<1>2. Sound(q) /\ Tells(session.storage, q.storage)
  BY <1>1, QuitSound
<1>. HIDE DEF q
<1>3. Silent(q)
  BY <1>1, <1>2, SilenceStays
<1>4. TypeOK'
  BY <1>1, <1>2 DEF Base, TypeOK, Sound, q
<1>5. Delivery'
  BY <1>1 DEF Base, Delivery, Talking
<1>. QED  BY <1>1, <1>2, <1>3, <1>4, <1>5 DEF Base, IInv, Talking, q

(* It is polled until it has closed.                                       *)
LEMMA CloseKeeps ==
    ASSUME IInv, Close
    PROVE  IInv'
<1>1. /\ pc = "closing" /\ pc' = pc /\ outcome' = outcome /\ atEof' = atEof
      /\ committed' = committed /\ mailbox' = MailboxAfter
      /\ answer' = IF Ended THEN <<>> ELSE answer
      /\ Base /\ PumpHealthy /\ screen \in Screen /\ mailbox \in Mailbox
      /\ mailbox.text <= mailbox.total /\ answer \in Seq(Nat)
  BY DEF Close, IInv, Base, TypeOK, Mailbox
<1>2. PICK spawned \in BOOLEAN : session' = PollAll(Fed, spawned)
  BY DEF Close
<1>. DEFINE p == PollAll(Fed, spawned)
<1>3. /\ Sound(p) /\ Silent(p)
      /\ MailboxAfter.text <= MailboxAfter.total /\ MailboxAfter \in Mailbox
  BY <1>1, PollSound
<1>. HIDE DEF p
<1>4. session' = p
  BY <1>2 DEF p
<1>5. /\ screen' \in Screen
      /\ EmptySink(screen.story) /\ EmptySink(screen.control) =>
            EmptySink(screen'.story) /\ EmptySink(screen'.control)
  BY <1>1, PumpHealthyEffect
<1>6. answer' \in Seq(Nat)
  BY <1>1, EmptySeq
<1>7. TypeOK'
  BY <1>1, <1>3, <1>4, <1>5, <1>6 DEF Base, TypeOK, Sound, Mailbox
<1>8. Delivery'
  BY <1>1, <1>5 DEF Base, Delivery, Talking
<1>. QED  BY <1>1, <1>3, <1>4, <1>7, <1>8 DEF Base, IInv, Talking

(* The process exits.                                                      *)
LEMMA ExitKeeps ==
    ASSUME IInv, Exit
    PROVE  IInv'
<1>1. /\ pc = "closing" /\ pc' = "done" /\ session' = session /\ screen' = screen
      /\ mailbox' = mailbox /\ answer' = answer /\ atEof' = atEof /\ committed' = committed
      /\ outcome' = IF outcome = "ok" /\ ExitFailed(session) THEN "failed" ELSE outcome
      /\ IsClosed /\ Base
  BY DEF Exit, Goto, IInv
<1>2. TypeOK'
  BY <1>1 DEF Base, TypeOK
<1>3. Delivery'
  BY <1>1 DEF Base, Delivery, Talking, IsClosed, ExitFailed, HasGame
<1>. QED  BY <1>1, <1>2, <1>3 DEF Base, IInv, Talking, Silent, StorageRuns

-----------------------------------------------------------------------------
(***************************************************************************)
(* The start.                                                              *)
(***************************************************************************)
(* A fresh session, or one with a story of an earlier run.                 *)
LEMMA InitSound ==
    ASSUME Init
    PROVE  /\ Sound(session) /\ Silent(session) /\ ~Pending(ctl)
           /\ session.shutdown = "Open" /\ session.worker.at # "Running"
<1>1. /\ Sound(NewSession) /\ MayInstall(NewSession) /\ ~StorageRuns(NewSession)
  BY HeadlessAssumption, NewSessionSound
<1>2. NewSession.shutdown = "Open" /\ NewSession.worker.at = "Ready"
  BY DEF NewSession, At
<1>3. ASSUME NEW p, Sound(p), p.shutdown = "Open", p.worker.at = "Ready",
             StorageRuns(p) => Fresh(p.storage), session = p
      PROVE  /\ Sound(session) /\ Silent(session) /\ ~Pending(ctl)
             /\ session.shutdown = "Open" /\ session.worker.at # "Running"
  BY <1>3 DEF Silent, Fresh, Sound, Threads, ctl
<1>. DEFINE r == LoadedFrom("primary")
            q == AdmitLoaded(NewSession, r, TRUE)
<1>4. Loads(r)
  <2>1. TheSlot \in Slots /\ DefaultLimits \in Limits
    BY HeadlessAssumption, ControllerAssumption DEF TheSlot
  <2>2. SavedGame \in Game
    <3>1. <<0>> \in Seq(Nat)
      OBVIOUS
    <3>. QED  BY <2>1, <3>1 DEF SavedGame, Game, Outline
  <2>. QED  BY <2>1, <2>2 DEF LoadedFrom, Loaded, Loads
<1>. HIDE DEF r
<1>5. /\ Sound(q) /\ q.worker = NewSession.worker /\ SameShutdown(NewSession, q)
      /\ StorageRuns(q) => Fresh(q.storage)
  BY <1>1, <1>4, InstallLoadedSound DEF AdmitLoaded
<1>. HIDE DEF q
<1>6. q.shutdown = "Open"
  BY <1>2, <1>5 DEF SameShutdown
<1>7. session \in {NewSession, q}
  BY DEF Init, q, r
<1>. QED  BY <1>1, <1>2, <1>3, <1>5, <1>6, <1>7

(* Nothing is on the screen yet.                                           *)
LEMMA InitKeeps ==
    ASSUME Init
    PROVE  IInv
<1>1. /\ Sound(session) /\ Silent(session) /\ ~Pending(ctl)
      /\ session.shutdown = "Open" /\ session.worker.at # "Running"
  BY InitSound
<1>2. /\ pc = "pump" /\ mailbox = EmptyMailbox /\ answer = <<>> /\ screen = NewScreen
      /\ atEof = FALSE /\ outcome = "running" /\ committed = <<>>
  BY DEF Init
<1>3. <<>> \in Seq(Nat)
  OBVIOUS
<1>4. screen \in Screen
  <2>1. 0 \in 0 .. Capacity /\ 1 \in 0 .. Capacity
    BY HeadlessAssumption
  <2>2. NewSink \in Sink /\ [NewSink EXCEPT !.queued = 1] \in Sink
    BY <2>1 DEF NewSink, Sink
  <2>. QED  BY <1>2, <1>3, <2>2 DEF NewScreen, Screen, Edit
<1>5. mailbox \in Mailbox /\ mailbox.text <= mailbox.total
  BY <1>2, ControllerAssumption DEF EmptyMailbox, Mailbox
<1>6. Base
  <2>1. TypeOK
    BY <1>1, <1>2, <1>3, <1>4, <1>5 DEF TypeOK, Mailbox, Sound
  <2>2. Delivery
    BY <1>1, <1>2 DEF Delivery, Talking, HealthySink, NewScreen, NewSink, IsClosed
  <2>. QED  BY <1>1, <1>5, <2>1, <2>2 DEF Base
<1>7. Telling
  <2>1. screen.printed = <<>> /\ screen.told = committed /\ screen.paragraph = screen.printed
    BY <1>2 DEF NewScreen
  <2>2. PreviewOf(ctl)
    BY <1>1 DEF PreviewOf, Pending, PendingPhase
  <2>3. MailboxIsCurrent /\ AnswerIsCurrent
    BY <1>1, <1>2 DEF MailboxIsCurrent, EmptyMailbox, AnswerIsCurrent
  <2>. QED  BY <2>1, <2>2, <2>3 DEF Telling, PrintedIsOfATurn, StoryIsToldOnce
<1>. QED  BY <1>6, <1>7 DEF IInv

(* The exit code is earned.                                                *)
LEMMA BaseEarns ==
    ASSUME Base
    PROVE  ExitIsEarned
<1>. SUFFICES ASSUME pc = "done" PROVE ExitIsEarned
  BY DEF ExitIsEarned
<1>1. IsClosed /\ Sound(session) /\ session \in Session
  BY DEF Base, TypeOK, Delivery
<1>2. outcome = "ok" => /\ EmptySink(screen.story) /\ EmptySink(screen.control)
                        /\ ~ExitFailed(session)
  BY DEF Base, Delivery
<1>3. outcome = "ok" =>
        /\ HasGame(ctl) => session.durability = "Clean"
        /\ ~session.workerFault
        /\ \A sink \in {screen.story, screen.control} : sink.queued = 0 /\ ~sink.faulted
  BY <1>2 DEF EmptySink, ExitFailed, ctl
<1>4. HasGame(ctl) /\ session.durability # "Clean" => session.finalAttempted
  BY <1>1 DEF IsClosed, Sound, ShutdownInOrder, ctl
<1>. QED  BY <1>3, <1>4 DEF ExitIsEarned

-----------------------------------------------------------------------------
(***************************************************************************)
(* The poll, and what is shown of it.                                      *)
(***************************************************************************)
(* What the poll may rely on.                                              *)
LEMMA AtPoll ==
    ASSUME Base, Telling, pc = "poll"
    PROVE  /\ Sound(session) /\ session \in Session /\ ctl \in Controller
           /\ screen \in Draft
           /\ screen.printed \in Seq(Nat) /\ screen.told \in Seq(Nat)
           /\ answer \in Seq(Nat) /\ committed \in Seq(Nat)
           /\ screen.told = committed /\ screen.paragraph = screen.printed
           /\ ctl.preview \in Seq(Nat)
           /\ screen.printed # <<>> /\ session.shutdown = "Open" =>
                 /\ Pending(ctl) /\ ctl.op.work.kind = "Turn"
                 /\ Named(screen.printed, ctl.op.key.id)
                 /\ ctl.op.phase = "Running" => IsPrefix(screen.printed, ctl.preview)
<1>1. /\ Sound(session) /\ session \in Session /\ screen \in Screen
      /\ answer \in Seq(Nat) /\ committed \in Seq(Nat)
  BY DEF Base, TypeOK
<1>2. ctl \in Controller /\ ctl.preview \in Seq(Nat)
  BY <1>1, SessionFields, ControllerFields DEF ctl
<1>3. screen \in Draft /\ screen.printed \in Seq(Nat) /\ screen.told \in Seq(Nat)
  BY <1>1, ScreenIsDraft, ScreenFields DEF Reads
<1>4. /\ screen.told = committed /\ screen.paragraph = screen.printed
      /\ screen.printed # <<>> /\ session.shutdown = "Open" =>
            /\ Pending(ctl)
            /\ \A i \in DOMAIN screen.printed : screen.printed[i] = ctl.op.key.id
            /\ ctl.op.phase = "Running" => IsPrefix(screen.printed, ctl.preview)
  BY DEF Telling, StoryIsToldOnce
<1>5. screen.printed # <<>> /\ session.shutdown = "Open" => ctl.op.work.kind = "Turn"
  BY DEF Telling, PrintedIsOfATurn
<1>. QED  BY <1>1, <1>2, <1>3, <1>4, <1>5 DEF Named

(* The request under way is the one the generation thread works for.       *)
LEMMA WorkerIsCurrent ==
    ASSUME Sound(session), session.worker.at = "Running"
    PROVE  /\ Pending(ctl) /\ StorageIdle(session) /\ ~StorageRuns(session)
           /\ Id = ctl.op.key.id /\ Id \in Nat
           /\ session.worker.work = ctl.op.work
           /\ ctl.op.phase \in {"Running", "Cancelling", "Closing"}
           /\ ctl.op.phase # "Closing" => session.shutdown = "Open"
           /\ ctl.op.phase = "Closing" => session.shutdown # "Open"
<1>1. WaitsForWorker(session)
  BY WaitingForWorker
<1>2. session.worker.key = ctl.op.key /\ session.worker.key \in Key
  BY WorkerFields DEF Sound, Threads, ctl
<1>. QED  BY <1>1, <1>2 DEF WaitsForWorker, Id, Key, ctl

(* The line of a committed turn ends as its final text, whatever of it was *)
(* there before.                                                           *)
LEMMA FinalIsShown ==
    ASSUME NEW s \in Draft, s.paragraph = s.printed, NEW id, Named(s.printed, id),
           answer \in Seq(Nat), Named(answer, id), NEW incomplete \in BOOLEAN
    PROVE  Reads(ShowFinal(s, incomplete), s.printed, answer, s.told)
<1>1. s.printed \in Seq(Nat) /\ s.paragraph \in Seq(Nat) /\ s.told \in Seq(Nat)
  BY DEF Draft
<1>2. CASE Len(s.printed) <= Len(answer) /\ ~incomplete
  <2>. DEFINE rest == SubSeq(answer, Len(s.printed) + 1, Len(answer))
  <2>1. rest \in Seq(Nat) /\ s.printed \o rest = answer
    BY <1>1, <1>2, LongerText
  <2>. HIDE DEF rest
  <2>2. Reads(Show(s, rest), s.printed, s.paragraph \o rest, s.told)
    BY <2>1, ShowReads
  <2>3. ShowFinal(s, incomplete) = Show(s, rest)
    BY <1>2 DEF ShowFinal, rest
  <2>. QED  BY <2>1, <2>2, <2>3
<1>3. CASE ~(Len(s.printed) <= Len(answer) /\ ~incomplete)
  <2>. DEFINE u == LineBreak(s)
  <2>1. Reads(u, s.printed, <<>>, s.told)
    BY LineBreakReads
  <2>2. ShowFinal(s, incomplete) = Show(u, answer)
    BY <1>3 DEF ShowFinal
  <2>. HIDE DEF u
  <2>3. u \in Draft /\ u.printed = s.printed /\ u.paragraph = <<>> /\ u.told = s.told
    BY <2>1 DEF Reads
  <2>4. Reads(Show(u, answer), u.printed, u.paragraph \o answer, u.told)
    BY <2>3, ShowReads
  <2>5. u.paragraph \o answer = answer
    BY <2>3, ConcatEmptySeq
  <2>. QED  BY <2>2, <2>3, <2>4, <2>5
<1>. QED  BY <1>2, <1>3

(* The final text of a turn is told, as a paragraph of its own.            *)
LEMMA CommittedIsShown ==
    ASSUME NEW s \in Draft, s.paragraph = s.printed, Id \in Nat, Named(s.printed, Id),
           answer \in Seq(Nat), Named(answer, Id), NEW incomplete \in BOOLEAN
    PROVE  Reads(ShowCommitted(s, incomplete), <<>>, <<>>, Append(s.told, Id))
<1>. DEFINE shown == ShowFinal(s, incomplete)
            u == LineBreak(shown)
            v == Say(u)
            told == Append(s.told, Id)
<1>1. Reads(shown, s.printed, answer, s.told)
  BY FinalIsShown
<1>2. ShowCommitted(s, incomplete) =
          [v EXCEPT !.printed = <<>>,
                    !.told = IF shown.paragraph = answer THEN told ELSE s.told]
  BY DEF ShowCommitted
<1>. HIDE DEF shown
<1>3. Reads(u, s.printed, <<>>, s.told)
  BY <1>1, LineBreakReads DEF Reads
<1>. HIDE DEF u
<1>4. Reads(v, s.printed, <<>>, s.told)
  BY <1>3, SayReads DEF Reads
<1>. HIDE DEF v
<1>. DEFINE empty == <<>>
<1>5. told \in Seq(Nat) /\ empty \in Seq(Nat) /\ "None" \in Edit
  BY AppendProperties DEF Draft, Edit
<1>6. ShowCommitted(s, incomplete) = [v EXCEPT !.printed = <<>>, !.told = told]
  BY <1>1, <1>2 DEF Reads
<1>7. v \in Draft /\ v.paragraph = <<>>
  BY <1>4 DEF Reads
<1>. HIDE DEF told, empty
<1>8. Reads([v EXCEPT !.printed = empty, !.told = told], empty, v.paragraph, told)
  BY <1>5, <1>7, RemembersReads
<1>. QED  BY <1>6, <1>7, <1>8 DEF told, empty

(* What was shown of a rejected generation ends with a line break.         *)
LEMMA RejectedIsShown ==
    ASSUME NEW s \in Draft, s.paragraph = s.printed
    PROVE  Reads(Say(ShowRejected(s)), <<>>, <<>>, s.told)
<1>. DEFINE u == IF s.printed = <<>> THEN s ELSE LineBreak(s)
            v == [u EXCEPT !.printed = <<>>]
<1>1. u \in Draft /\ u.paragraph = <<>> /\ u.told = s.told
  <2>1. CASE s.printed = <<>>
    BY <2>1
  <2>2. CASE s.printed # <<>>
    <3>1. Reads(LineBreak(s), s.printed, <<>>, s.told)
      BY LineBreakReads
    <3>. QED  BY <2>2, <3>1 DEF Reads
  <2>. QED  BY <2>1, <2>2
<1>2. ShowRejected(s) = v
  BY DEF ShowRejected
<1>. HIDE DEF u
<1>3. <<>> \in Seq(Nat) /\ u.told \in Seq(Nat) /\ "None" \in Edit
  BY <1>1 DEF Draft, Edit
<1>4. Reads(v, <<>>, u.paragraph, u.told)
  BY <1>1, <1>3, RemembersReads
<1>. HIDE DEF v
<1>5. Reads(Say(v), <<>>, <<>>, s.told)
  BY <1>1, <1>4, SayReads DEF Reads
<1>. QED  BY <1>2, <1>5

(* The turns that have been told after a poll.                             *)
Told == IF CommittedTurn THEN Append(committed, Id) ELSE committed

(* The end of a generation leaves nothing of it in the open paragraph.     *)
LEMMA GenerationIsShown ==
    ASSUME Base, Telling, pc = "poll", NEW p, p.ctl.incomplete \in BOOLEAN
    PROVE  LET s == ShowGeneration(screen, p)
           IN  /\ s \in Draft /\ s.told = Told /\ s.paragraph = s.printed
               /\ Ended => s.printed = <<>> \/ session.shutdown # "Open"
               /\ ~Ended => s = screen
               /\ Told \in Seq(Nat)
<1>. DEFINE s == ShowGeneration(screen, p)
<1>1. /\ Sound(session) /\ screen \in Draft /\ screen.told = committed
      /\ screen.paragraph = screen.printed /\ answer \in Seq(Nat) /\ committed \in Seq(Nat)
      /\ screen.printed # <<>> /\ session.shutdown = "Open" =>
            /\ Pending(ctl) /\ ctl.op.work.kind = "Turn"
            /\ Named(screen.printed, ctl.op.key.id)
  BY AtPoll
<1>2. CASE ~Ended
  <2>1. ~Committed /\ ~Rejected /\ ~CommittedTurn
    BY <1>2 DEF Committed, Rejected, CommittedTurn
  <2>. QED  BY <1>1, <1>2, <2>1 DEF ShowGeneration, Told
<1>3. CASE Ended
  <2>1. /\ session.worker.at = "Running" /\ session.worker.result # "nothing"
        /\ Id = ctl.op.key.id /\ Id \in Nat
        /\ session.worker.work = ctl.op.work
        /\ ctl.op.phase \in {"Running", "Cancelling", "Closing"}
        /\ ctl.op.phase # "Closing" => session.shutdown = "Open"
        /\ ctl.op.phase = "Closing" => session.shutdown # "Open"
    BY <1>1, <1>3, WorkerIsCurrent DEF Ended
  <2>2. Committed => session.worker.result = "success" /\ ctl.op.phase = "Running"
    BY DEF Committed, Commits
  <2>3. CASE CommittedTurn
    <3>1. Committed /\ session.worker.work.kind = "Turn"
      BY <2>3 DEF CommittedTurn
    <3>2. Named(answer, Id)
      BY <2>1, <2>2, <3>1 DEF Telling, AnswerIsCurrent
    <3>3. Named(screen.printed, Id)
      <4>1. CASE screen.printed = <<>>
        BY <4>1 DEF Named
      <4>2. CASE screen.printed # <<>>
        BY <1>1, <2>1, <2>2, <3>1, <4>2
      <4>. QED  BY <4>1, <4>2
    <3>4. s = ShowCommitted(screen, p.ctl.incomplete)
      BY <2>3 DEF ShowGeneration
    <3>. HIDE DEF s
    <3>5. Reads(s, <<>>, <<>>, Append(screen.told, Id))
      BY <1>1, <2>1, <3>2, <3>3, <3>4, CommittedIsShown
    <3>6. Told = Append(committed, Id) /\ Told \in Seq(Nat)
      BY <1>1, <2>1, <2>3, AppendProperties DEF Told
    <3>. QED  BY <1>1, <1>3, <3>5, <3>6 DEF Reads, s
  <2>4. CASE Committed /\ ~CommittedTurn
    <3>1. session.worker.work.kind # "Turn"
      BY <2>4 DEF CommittedTurn
    <3>2. screen.printed = <<>>
      BY <1>1, <2>1, <2>2, <2>4, <3>1
    <3>3. s = Say(screen)
      BY <2>4 DEF ShowGeneration
    <3>. HIDE DEF s
    <3>4. Reads(s, <<>>, <<>>, committed)
      BY <1>1, <3>2, <3>3, SayReads
    <3>. QED  BY <1>1, <1>3, <2>4, <3>4 DEF Reads, Told, s
  <2>5. CASE Rejected
    <3>1. ~Committed /\ ~CommittedTurn
      BY <2>5 DEF Rejected, CommittedTurn
    <3>2. s = Say(ShowRejected(screen))
      BY <2>5, <3>1 DEF ShowGeneration
    <3>. HIDE DEF s
    <3>3. Reads(s, <<>>, <<>>, committed)
      BY <1>1, <3>2, RejectedIsShown
    <3>. QED  BY <1>1, <1>3, <3>1, <3>3 DEF Reads, Told, s
  <2>6. CASE ~Committed /\ ~Rejected
    <3>1. ctl.op.phase = "Closing"
      BY <1>3, <2>1, <2>6 DEF Rejected
    <3>2. s = screen /\ ~CommittedTurn
      BY <2>6 DEF ShowGeneration, CommittedTurn
    <3>. HIDE DEF s
    <3>. QED  BY <1>1, <1>3, <2>1, <3>1, <3>2 DEF Told, s
  <2>7. CommittedTurn => Committed
    BY DEF CommittedTurn
  <2>. QED  BY <2>3, <2>4, <2>5, <2>6, <2>7
<1>. QED  BY <1>2, <1>3

(* The end of a storage request changes nothing of the story: a game that  *)
(* was loaded finds no open paragraph.                                     *)
LEMMA StorageIsShown ==
    ASSUME Base, Telling, pc = "poll", NEW s \in Draft, s = screen \/ ~StorageEnded
    PROVE  Reads(ShowStorage(s), s.printed, s.paragraph, s.told)
<1>1. /\ Sound(session) /\ screen \in Draft
      /\ screen.printed # <<>> /\ session.shutdown = "Open" => Pending(ctl)
  BY AtPoll
<1>2. CASE ~StorageEnded
  BY <1>2 DEF ShowStorage, Reads
<1>3. CASE StorageEnded /\ session.storage.result.is = "Loaded" /\ session.shutdown = "Open"
  <2>1. ~Pending(ctl)
    BY <1>1, <1>3 DEF StorageEnded, Sound, Threads, StorageRuns, WorkFollowsSave, ctl,
                      CurrentStorage, StorageIdle
  <2>2. s.printed = <<>>
    BY <1>1, <1>3, <2>1
  <2>. DEFINE u == [s EXCEPT !.edit = "None", !.printed = <<>>]
  <2>3. <<>> \in Seq(Nat) /\ s.told \in Seq(Nat) /\ "None" \in Edit
    BY DEF Draft, Edit
  <2>4. Reads(u, <<>>, s.paragraph, s.told)
    BY <2>3, RemembersReads
  <2>5. ShowStorage(s) = Say(u)
    BY <1>3 DEF ShowStorage
  <2>. HIDE DEF u
  <2>6. Reads(Say(u), <<>>, s.paragraph, s.told)
    BY <2>4, SayReads DEF Reads
  <2>. QED  BY <2>2, <2>5, <2>6
<1>4. CASE StorageEnded /\ ~(session.storage.result.is = "Loaded" /\ session.shutdown = "Open")
  <2>1. ShowStorage(s) = Say(s)
    BY <1>4 DEF ShowStorage
  <2>. QED  BY <2>1, SayReads
<1>. QED  BY <1>2, <1>3, <1>4

(* The preview is shown as far as it is not on the screen yet.             *)
LEMMA PreviewIsShown ==
    ASSUME NEW p, p.ctl.preview \in Seq(Nat), NEW s \in Draft, s.paragraph = s.printed,
           p.ctl.op.phase = "Running" /\ p.ctl.preview # <<>> =>
               Named(s.printed, p.ctl.op.key.id) /\ Named(p.ctl.preview, p.ctl.op.key.id)
    PROVE  LET t == ShowPreview(s, p)
           IN  /\ t \in Draft /\ t.told = s.told /\ t.paragraph = t.printed
               /\ IF p.ctl.op.phase = "Running" /\ Len(p.ctl.preview) > Len(s.printed)
                  THEN t.printed = p.ctl.preview ELSE t.printed = s.printed
<1>. DEFINE preview == p.ctl.preview
            t == ShowPreview(s, p)
<1>1. s.printed \in Seq(Nat) /\ s.paragraph \in Seq(Nat) /\ s.told \in Seq(Nat)
  BY DEF Draft
<1>2. Len(s.printed) \in Nat /\ Len(preview) \in Nat
  BY <1>1, LenProperties
<1>3. CASE p.ctl.op.phase = "Running" /\ Len(preview) > Len(s.printed)
  <2>. DEFINE rest == SubSeq(preview, Len(s.printed) + 1, Len(preview))
              u == Show(s, rest)
              v == Say(u)
  <2>0. preview # <<>>
    BY <1>2, <1>3, EmptySeq
  <2>1. rest \in Seq(Nat) /\ s.printed \o rest = preview
    <3>. DEFINE id == p.ctl.op.key.id
                printed == s.printed
    <3>1. Named(printed, id) /\ Named(preview, id) /\ preview \in Seq(Nat)
      BY <1>3, <2>0
    <3>2. printed \in Seq(Nat) /\ Len(printed) <= Len(preview)
      BY <1>1, <1>2, <1>3
    <3>. HIDE DEF id, printed, preview
    <3>3. /\ SubSeq(preview, Len(printed) + 1, Len(preview)) \in Seq(Nat)
          /\ printed \o SubSeq(preview, Len(printed) + 1, Len(preview)) = preview
      BY <3>1, <3>2, LongerText
    <3>. QED  BY <3>3 DEF printed
  <2>2. t = [v EXCEPT !.printed = preview]
    BY <1>3 DEF ShowPreview
  <2>. HIDE DEF rest, t
  <2>3. Reads(u, s.printed, preview, s.told)
    BY <2>1, ShowReads
  <2>. HIDE DEF u
  <2>4. Reads(v, s.printed, preview, s.told)
    BY <2>3, SayReads DEF Reads
  <2>. HIDE DEF v
  <2>5. "None" \in Edit
    BY DEF Edit
  <2>6. Reads([v EXCEPT !.printed = preview], preview, v.paragraph, v.told)
    BY <1>1, <2>4, <2>5, RemembersReads DEF Reads
  <2>. QED  BY <1>3, <2>2, <2>4, <2>6 DEF Reads, t
<1>4. CASE ~(p.ctl.op.phase = "Running" /\ Len(preview) > Len(s.printed))
  <2>1. t = s
    BY <1>4 DEF ShowPreview
  <2>. HIDE DEF t
  <2>. QED  BY <1>4, <2>1 DEF t
<1>. QED  BY <1>3, <1>4

(* While the generation goes on its preview only grows, by its own text.   *)
LEMMA FedPreview ==
    ASSUME Base, Telling, pc = "poll", session.worker.at = "Running"
    PROVE  /\ Fed.ctl.preview \in Seq(Nat) /\ Fed.ctl.op = ctl.op
           /\ PreviewOf(Fed.ctl)
           /\ ctl.op.phase = "Running" => Len(ctl.preview) <= Len(Fed.ctl.preview)
<1>1. /\ Sound(session) /\ ctl.preview \in Seq(Nat)
  BY AtPoll
<1>2. /\ Id = ctl.op.key.id /\ Id \in Nat /\ session.worker.work = ctl.op.work
  BY <1>1, WorkerIsCurrent
<1>3. /\ Fed.ctl.op = ctl.op
      /\ \/ Fed = session
         \/ /\ HasText
            /\ \/ Fed.ctl.preview = ctl.preview
               \/ Fed.ctl.preview = ctl.preview \o Bytes(mailbox.text, Id)
  BY FedSound
<1>4. PreviewOf(ctl)
  BY DEF Telling
<1>5. CASE Fed.ctl.preview = ctl.preview
  <2>1. Len(ctl.preview) \in Nat
    BY <1>1, LenProperties
  <2>. QED  BY <1>1, <1>3, <1>4, <1>5, <2>1 DEF PreviewOf
<1>6. CASE HasText /\ Fed.ctl.preview = ctl.preview \o Bytes(mailbox.text, Id)
  <2>. DEFINE n == mailbox.text
              more == Bytes(n, Id)
  <2>1. n \in Nat
    BY ControllerAssumption DEF Base, TypeOK
  <2>2. ctl.op.work.kind = "Turn"
    BY <1>2, <1>6 DEF HasText, Telling, MailboxIsCurrent
  <2>3. more \in Seq(Nat)
    BY <1>2, <2>1, IsASeq DEF Bytes
  <2>4. Named(ctl.preview, Id) =>
          /\ Named(ctl.preview \o more, Id)
          /\ Len(ctl.preview) <= Len(ctl.preview \o more)
    BY <1>1, <1>2, <2>1, GrownText
  <2>. HIDE DEF more, n
  <2>5. ctl.preview \o more \in Seq(Nat)
    BY <1>1, <2>3, ConcatProperties
  <2>6. Fed.ctl.preview = ctl.preview \o more
    BY <1>6 DEF more, n
  <2>7. ctl.op.phase = "Running" => Named(ctl.preview, Id)
    BY <1>2, <1>4 DEF PreviewOf
  <2>. QED  BY <1>2, <1>3, <2>2, <2>4, <2>5, <2>6, <2>7 DEF PreviewOf
<1>7. Fed = session => Fed.ctl.preview = ctl.preview
  BY DEF ctl
<1>. QED  BY <1>3, <1>5, <1>6, <1>7

(* A request that starts or a story that is replaced has no preview yet.   *)
LEMMA CarriedIsBlank ==
    ASSUME NEW c \in Controller, c.op.phase # "Running", NEW d, Carried(c, d)
    PROVE  d.op.phase = "Running" => d.preview = <<>>
<1>1. CASE d = c
  BY <1>1
<1>2. CASE /\ CanTakeTurn(c, "Continue")
           /\ LET e == TakeTurn(c, "Continue")
              IN d \in {e, DispatchFailed(e, e.op.key)}
  <2>. DEFINE e == TakeTurn(c, "Continue")
              work == [kind |-> "Turn", game |-> GameOf(c), direction |-> "Continue"]
  <2>1. work \in Work
    BY <1>2, StageFields DEF Work, CanTakeTurn, Direction
  <2>2. e = Start(c, work)
    BY DEF TakeTurn
  <2>. HIDE DEF work
  <2>3. e \in Controller /\ e.preview = <<>>
    BY <2>1, <2>2, StartEffect
  <2>4. d \in {e, DispatchFailed(e, e.op.key)}
    BY <1>2
  <2>. HIDE DEF e
  <2>. QED  BY <2>3, <2>4, DispatchFailedEffect
<1>3. CASE CanReplaceGame(c) /\ \E g \in Game : d = ReplaceGame(c, g)
  <2>1. PICK g \in Game : d = ReplaceGame(c, g)
    BY <1>3
  <2>2. d.op = Idle("Ready")
    BY <2>1, ReplaceGameEffect DEF EditedInto
  <2>. QED  BY <2>2 DEF Idle
<1>. QED  BY <1>1, <1>2, <1>3 DEF Carried

(* What a poll may meet: an answer, a generation that goes on, or none.    *)
LEMMA PollMeets ==
    ASSUME Base, Telling, pc = "poll", NEW spawned \in BOOLEAN
    PROVE  LET p == PollAll(Fed, spawned)
           IN  /\ p.ctl.preview \in Seq(Nat) /\ p.ctl.incomplete \in BOOLEAN
               /\ Ended => ~Pending(p.ctl)
               /\ session.worker.at = "Running" /\ ~Ended => p = Fed
               /\ session.worker.at # "Running" =>
                      /\ ~Pending(ctl)
                      /\ p.ctl.op.phase = "Running" => p.ctl.preview = <<>>
               /\ p.worker.at = "Running" => p.worker.result # "success"
               /\ PreviewOf(p.ctl)
<1>. DEFINE p == PollAll(Fed, spawned)
<1>1. /\ Sound(session) /\ ctl \in Controller
  BY AtPoll
<1>2. /\ Sound(Fed) /\ Fed.worker = session.worker /\ (Fed = session \/ HasText)
  BY FedSound
<1>3. /\ Sound(p)
      /\ IF HasAnswer(Fed.worker) THEN Answered(Fed, p.ctl) ELSE Carried(Fed.ctl, p.ctl)
      /\ HasAnswer(Fed.worker) => ~Pending(p.ctl)
      /\ p.worker = Fed.worker \/ p.worker.at # "Running" \/ p.worker.result = "nothing"
  BY <1>2, PollAllEffect
<1>4. session.worker.at = "Running" /\ ~Ended => p = Fed
  BY <1>2, PollWaits DEF Ended
<1>5. Ended <=> HasAnswer(Fed.worker)
  BY <1>2 DEF Ended, HasAnswer
<1>. HIDE DEF p
<1>6. p.ctl.preview \in Seq(Nat) /\ p.ctl.incomplete \in BOOLEAN
  BY <1>3, SessionFields, ControllerFields DEF Sound
<1>7. session.worker.at # "Running" =>
          /\ ~Pending(ctl)
          /\ p.ctl.op.phase = "Running" => p.ctl.preview = <<>>
  <2>. SUFFICES ASSUME session.worker.at # "Running"
                PROVE  /\ ~Pending(ctl)
                       /\ p.ctl.op.phase = "Running" => p.ctl.preview = <<>>
    OBVIOUS
  <2>1. ~Pending(ctl)
    BY <1>1 DEF Sound, Threads, ctl
  <2>2. Fed = session /\ Carried(ctl, p.ctl)
    BY <1>2, <1>3 DEF HasText, HasAnswer, ctl
  <2>3. ctl.op.phase # "Running"
    BY <2>1 DEF Pending, PendingPhase
  <2>. QED  BY <1>1, <2>1, <2>2, <2>3, CarriedIsBlank
<1>8. p.worker.at = "Running" => p.worker.result # "success"
  <2>. SUFFICES ASSUME p.worker.at = "Running", p.worker.result = "success" PROVE FALSE
    OBVIOUS
  <2>1. p.worker = Fed.worker
    BY <1>3
  <2>2. Ended
    BY <1>2, <2>1 DEF Ended
  <2>3. ~Pending(p.ctl)
    BY <1>3, <1>5, <2>2
  <2>. QED  BY <1>3, <2>3 DEF Sound, Threads
<1>9. PreviewOf(p.ctl)
  <2>1. CASE Ended
    BY <1>3, <1>5, <2>1 DEF PreviewOf, Pending, PendingPhase
  <2>2. CASE session.worker.at = "Running" /\ ~Ended
    BY <1>4, <2>2, FedPreview
  <2>3. CASE session.worker.at # "Running"
    BY <1>7, <2>3 DEF PreviewOf, Named
  <2>. QED  BY <2>1, <2>2, <2>3
<1>. QED  BY <1>3, <1>4, <1>5, <1>6, <1>7, <1>8, <1>9 DEF p

(* What is on the screen after a poll, before the farewell.                *)
LEMMA PollIsShown ==
    ASSUME Base, Telling, pc = "poll", NEW spawned \in BOOLEAN
    PROVE  LET p == PollAll(Fed, spawned)
               s == ShowPreview(ShowStorage(ShowGeneration(screen, p)), p)
           IN  /\ s \in Draft /\ s.told = Told /\ s.paragraph = s.printed
               /\ s.printed # <<>> /\ p.shutdown = "Open" =>
                     /\ Pending(p.ctl) /\ p.ctl.op.work.kind = "Turn"
                     /\ Named(s.printed, p.ctl.op.key.id)
                     /\ p.ctl.op.phase = "Running" => IsPrefix(s.printed, p.ctl.preview)
<1>. DEFINE p == PollAll(Fed, spawned)
            g == ShowGeneration(screen, p)
            t == ShowStorage(g)
            s == ShowPreview(t, p)
            preview == p.ctl.preview
<1>1. /\ Sound(session) /\ screen \in Draft
      /\ screen.told = committed /\ screen.paragraph = screen.printed
      /\ screen.printed \in Seq(Nat) /\ ctl.preview \in Seq(Nat)
      /\ screen.printed # <<>> /\ session.shutdown = "Open" =>
            /\ Pending(ctl) /\ ctl.op.work.kind = "Turn"
            /\ Named(screen.printed, ctl.op.key.id)
            /\ ctl.op.phase = "Running" => IsPrefix(screen.printed, ctl.preview)
  BY AtPoll
<1>2. /\ p.shutdown \in {session.shutdown, "SavingFinal", "DrainingOutput"}
  BY PollSound
<1>3. /\ preview \in Seq(Nat) /\ p.ctl.incomplete \in BOOLEAN
      /\ Ended => ~Pending(p.ctl)
      /\ session.worker.at = "Running" /\ ~Ended => p = Fed
      /\ session.worker.at # "Running" =>
             /\ ~Pending(ctl)
             /\ p.ctl.op.phase = "Running" => preview = <<>>
      /\ PreviewOf(p.ctl)
  BY PollMeets
<1>. HIDE DEF p
<1>4. /\ g \in Draft /\ g.told = Told /\ g.paragraph = g.printed
      /\ Ended => g.printed = <<>> \/ session.shutdown # "Open"
      /\ ~Ended => g = screen
  BY <1>3, GenerationIsShown
<1>. HIDE DEF g
<1>5. Ended => ~StorageEnded
  BY <1>1, WorkerIsCurrent DEF Ended, StorageEnded, StorageRuns
<1>6. Reads(t, g.printed, g.paragraph, g.told)
  BY <1>4, <1>5, StorageIsShown
<1>. HIDE DEF t
<1>7. /\ t \in Draft /\ t.told = Told /\ t.paragraph = t.printed /\ t.printed = g.printed
  BY <1>4, <1>6 DEF Reads
<1>8. session.shutdown # "Open" => p.shutdown # "Open"
  BY <1>2
<1>9. CASE session.worker.at = "Running" /\ ~Ended
  <2>1. /\ p = Fed /\ p.ctl.op = ctl.op /\ t.printed = screen.printed
        /\ ctl.op.phase = "Running" => Len(ctl.preview) <= Len(preview)
    BY <1>3, <1>4, <1>7, <1>9, FedPreview
  <2>2. /\ Pending(ctl)
        /\ ctl.op.phase = "Running" => session.shutdown = "Open"
    BY <1>1, <1>9, WorkerIsCurrent
  <2>3. p.ctl.op.phase = "Running" =>
            Named(t.printed, p.ctl.op.key.id) /\ Named(preview, p.ctl.op.key.id)
    <3>1. t.printed = <<>> => Named(t.printed, p.ctl.op.key.id)
      BY DEF Named
    <3>. QED  BY <1>1, <1>3, <2>1, <2>2, <3>1 DEF PreviewOf
  <2>4. /\ s \in Draft /\ s.told = t.told /\ s.paragraph = s.printed
        /\ IF p.ctl.op.phase = "Running" /\ Len(preview) > Len(t.printed)
           THEN s.printed = preview ELSE s.printed = t.printed
    BY <1>3, <1>7, <2>3, PreviewIsShown
  <2>. HIDE DEF s
  <2>5. ASSUME s.printed # <<>>, p.shutdown = "Open"
        PROVE  /\ Pending(p.ctl) /\ p.ctl.op.work.kind = "Turn"
               /\ Named(s.printed, p.ctl.op.key.id)
               /\ p.ctl.op.phase = "Running" => IsPrefix(s.printed, preview)
    <3>0. Len(screen.printed) \in Nat /\ Len(ctl.preview) \in Nat /\ Len(preview) \in Nat
      BY <1>1, <1>3, LenProperties
    <3>1. CASE s.printed = preview /\ p.ctl.op.phase = "Running"
      <4>1. IsPrefix(preview, preview)
        BY <3>0 DEF IsPrefix
      <4>2. p.ctl.op.work.kind = "Turn"
        BY <1>3, <2>5, <3>1 DEF PreviewOf
      <4>. QED  BY <2>1, <2>2, <2>3, <3>1, <4>1, <4>2 DEF Pending
    <3>2. CASE s.printed = screen.printed
      <4>1. session.shutdown = "Open"
        BY <1>8, <2>5
      <4>2. /\ Pending(ctl) /\ ctl.op.work.kind = "Turn"
            /\ Named(screen.printed, ctl.op.key.id)
            /\ ctl.op.phase = "Running" => IsPrefix(screen.printed, ctl.preview)
        BY <1>1, <2>5, <3>2, <4>1
      <4>3. p.ctl.op.phase = "Running" => IsPrefix(screen.printed, preview)
        <5>1. SUFFICES ASSUME p.ctl.op.phase = "Running" PROVE IsPrefix(screen.printed, preview)
          OBVIOUS
        <5>2. Len(screen.printed) <= Len(ctl.preview) /\ Len(ctl.preview) <= Len(preview)
          BY <2>1, <4>2, <5>1 DEF IsPrefix
        <5>3. Len(screen.printed) <= Len(preview)
          BY <3>0, <5>2
        <5>. DEFINE id == p.ctl.op.key.id
        <5>4. Named(screen.printed, id) /\ Named(preview, id)
          BY <2>1, <2>3, <5>1
        <5>. HIDE DEF id, preview
        <5>. QED  BY <1>1, <1>3, <5>3, <5>4, LongerText
      <4>. QED  BY <2>1, <3>2, <4>2, <4>3 DEF Pending
    <3>. QED  BY <2>1, <2>4, <3>1, <3>2
  <2>. QED  BY <1>7, <2>4, <2>5 DEF s, t, g, p
<1>10. CASE Ended \/ session.worker.at # "Running"
  <2>1. p.ctl.op.phase = "Running" => preview = <<>>
    BY <1>3, <1>10 DEF Pending, PendingPhase
  <2>2. /\ s \in Draft /\ s.told = t.told /\ s.paragraph = s.printed
        /\ IF p.ctl.op.phase = "Running" /\ Len(preview) > Len(t.printed)
           THEN s.printed = preview ELSE s.printed = t.printed
    BY <1>3, <1>7, <2>1, PreviewIsShown
  <2>. HIDE DEF s
  <2>3. s.printed # <<>> => s.printed = t.printed
    BY <2>1, <2>2
  <2>4. s.printed # <<>> => p.shutdown # "Open"
    <3>1. CASE Ended
      BY <1>4, <1>7, <1>8, <2>3, <3>1
    <3>2. CASE session.worker.at # "Running"
      <4>1. ~Ended /\ t.printed = screen.printed
        BY <1>4, <1>7, <3>2 DEF Ended
      <4>. QED  BY <1>1, <1>3, <1>8, <2>3, <3>2, <4>1
    <3>. QED  BY <1>10, <3>1, <3>2
  <2>. QED  BY <1>7, <2>2, <2>4 DEF s, t, g, p
<1>. QED  BY <1>9, <1>10

(* The player's session is polled.                                         *)
LEMMA PollKeeps ==
    ASSUME IInv, Poll
    PROVE  IInv'
<1>1. /\ pc = "poll" /\ atEof' = atEof /\ mailbox' = MailboxAfter
      /\ committed' = Told
      /\ answer' = IF Ended THEN <<>> ELSE answer
      /\ Base /\ Telling /\ Sound(session)
      /\ mailbox \in Mailbox /\ mailbox.text <= mailbox.total
      /\ answer \in Seq(Nat) /\ atEof \in BOOLEAN /\ screen \in Screen
      /\ session.shutdown \notin {"DrainingOutput", "Closed"}
  BY DEF Poll, Told, IInv, Base, TypeOK, Talking, Mailbox, Delivery, IsClosed
<1>2. PICK spawned \in BOOLEAN :
          LET p == PollAll(Fed, spawned)
              shown == ShowPreview(ShowStorage(ShowGeneration(screen, p)), p)
          IN  /\ session' = p
              /\ IF p.shutdown = "DrainingOutput" THEN Writes(ShowClosing(shown), "drain")
                 ELSE Writes(shown, "pump")
  BY DEF Poll
<1>. DEFINE p == PollAll(Fed, spawned)
            s == ShowPreview(ShowStorage(ShowGeneration(screen, p)), p)
            step == IF p.shutdown = "DrainingOutput" THEN "drain" ELSE "pump"
            d == IF p.shutdown = "DrainingOutput" THEN ShowClosing(s) ELSE s
<1>3. session' = p /\ Writes(d, step)
  BY <1>2
<1>4. /\ Sound(p) /\ Silent(p)
      /\ p.shutdown \in {session.shutdown, "SavingFinal", "DrainingOutput"}
      /\ MailboxAfter.text <= MailboxAfter.total /\ MailboxAfter \in Mailbox
  BY <1>1, PollSound
<1>5. /\ Ended => ~Pending(p.ctl)
      /\ session.worker.at = "Running" /\ ~Ended => p = Fed
      /\ p.worker.at = "Running" => p.worker.result # "success"
      /\ PreviewOf(p.ctl) /\ p.ctl.incomplete \in BOOLEAN
  BY <1>1, PollMeets
<1>6. /\ s \in Draft /\ s.told = Told /\ s.paragraph = s.printed
      /\ s.printed # <<>> /\ p.shutdown = "Open" =>
            /\ Pending(p.ctl) /\ p.ctl.op.work.kind = "Turn"
            /\ Named(s.printed, p.ctl.op.key.id)
            /\ p.ctl.op.phase = "Running" => IsPrefix(s.printed, p.ctl.preview)
  BY <1>1, PollIsShown
<1>7. Told \in Seq(Nat)
  BY <1>1, <1>5, GenerationIsShown
<1>. HIDE DEF s, p
<1>8. /\ d \in Draft /\ d.told = Told /\ d.printed = s.printed
      /\ p.shutdown # "DrainingOutput" => d = s
  <2>1. CASE p.shutdown # "DrainingOutput"
    BY <1>6, <2>1
  <2>2. CASE p.shutdown = "DrainingOutput"
    <3>. DEFINE u == IF s.printed = <<>> THEN s ELSE LineBreak(s)
    <3>1. u \in Draft /\ u.printed = s.printed /\ u.told = s.told
      BY <1>6, LineBreakReads DEF Reads
    <3>2. d = Say(u)
      BY <2>2 DEF ShowClosing
    <3>. HIDE DEF u, d
    <3>3. Reads(d, u.printed, u.paragraph, u.told)
      BY <3>1, <3>2, SayReads
    <3>. QED  BY <1>6, <2>2, <3>1, <3>3 DEF Reads
  <2>. QED  BY <2>1, <2>2
<1>. HIDE DEF d
<1>9. step \in {"pump", "drain"} /\ (step = "drain" <=> p.shutdown = "DrainingOutput")
  OBVIOUS
<1>. HIDE DEF step
<1>10. p.shutdown # "Closed"
  BY <1>1, <1>4
<1>11. answer' \in Seq(Nat)
  BY <1>1, EmptySeq
<1>12. Base'
  <2>1. /\ mailbox' \in Mailbox /\ mailbox'.text <= mailbox'.total
        /\ atEof' \in BOOLEAN /\ committed' \in Seq(Nat)
    BY <1>1, <1>4, <1>7
  <2>2. IF step = "drain" THEN p.shutdown = "DrainingOutput"
                          ELSE p.shutdown \notin {"DrainingOutput", "Closed"}
    BY <1>9, <1>10
  <2>3. step \in {"poll", "pump", "drain"}
    BY <1>9
  <2>. QED  BY <1>1, <1>3, <1>4, <1>8, <1>11, <2>1, <2>2, <2>3, HandlerKeepsBase
<1>13. /\ screen'.printed = d.printed /\ screen'.paragraph = d.paragraph
       /\ screen'.told = d.told
       /\ pc' = step \/ pc' = "leave"
  BY <1>1, <1>3, <1>8, WritesEffect
<1>14. MailboxIsCurrent' /\ AnswerIsCurrent' /\ PreviewOf(ctl)'
  <2>1. MailboxIsCurrent'
    <3>1. CASE session.worker.at = "Running" /\ ~Ended
      <4>1. /\ p.worker = session.worker
            /\ mailbox' = [mailbox EXCEPT !.text = 0]
        BY <1>1, <1>5, <3>1, FedSound DEF MailboxAfter, Ended
      <4>2. mailbox'.text = 0 /\ mailbox'.incomplete = mailbox.incomplete
        BY <1>1, <4>1 DEF Mailbox
      <4>. QED  BY <1>1, <1>3, <4>1, <4>2 DEF Telling, MailboxIsCurrent
    <3>2. CASE ~(session.worker.at = "Running" /\ ~Ended)
      BY <1>1, <3>2 DEF MailboxAfter, EmptyMailbox, Ended, MailboxIsCurrent
    <3>. QED  BY <3>1, <3>2
  <2>2. AnswerIsCurrent'
    BY <1>3, <1>5 DEF AnswerIsCurrent
  <2>3. PreviewOf(ctl)'
    BY <1>3, <1>5 DEF PreviewOf, ctl
  <2>. QED  BY <2>1, <2>2, <2>3
<1>15. CASE pc' = "leave"
  BY <1>12, <1>15 DEF IInv, Talking
<1>16. CASE pc' = step
  <2>1. screen'.told = committed'
    BY <1>1, <1>8, <1>13
  <2>2. pc' # "drain" => screen'.paragraph = screen'.printed
    BY <1>6, <1>8, <1>9, <1>13, <1>16
  <2>3. ASSUME screen'.printed # <<>>, p.shutdown = "Open"
        PROVE  /\ Pending(p.ctl) /\ p.ctl.op.work.kind = "Turn"
               /\ \A i \in DOMAIN screen'.printed : screen'.printed[i] = p.ctl.op.key.id
               /\ p.ctl.op.phase = "Running" => IsPrefix(screen'.printed, p.ctl.preview)
    BY <1>6, <1>8, <1>13, <2>3 DEF Named
  <2>4. PrintedIsOfATurn'
    BY <1>3, <2>3 DEF PrintedIsOfATurn, ctl
  <2>5. StoryIsToldOnce'
    BY <1>3, <2>1, <2>2, <2>3 DEF StoryIsToldOnce, ctl
  <2>. QED  BY <1>12, <1>14, <2>4, <2>5 DEF IInv, Telling
<1>. QED  BY <1>13, <1>15, <1>16

-----------------------------------------------------------------------------
(***************************************************************************)
(* The theorems.                                                           *)
(***************************************************************************)
(* The invariant is inductive: one lemma for each action.                  *)
LEMMA NextKeeps ==
    ASSUME IInv, [Next]_vars
    PROVE  IInv'
<1>1. CASE Pump
  BY <1>1, PumpKeeps
<1>2. CASE ReadInput
  BY <1>2, ReadInputKeeps
<1>3. CASE Poll
  BY <1>3, PollKeeps
<1>4. CASE Drain
  BY <1>4, DrainKeeps
<1>5. CASE DrainFails
  BY <1>5, DrainFailsKeeps
<1>6. CASE Leave
  BY <1>6, LeaveKeeps
<1>7. CASE Close
  BY <1>7, CloseKeeps
<1>8. CASE Exit
  BY <1>8, ExitKeeps
<1>9. CASE GeneratorStreams
  BY <1>9, GeneratorStreamsKeeps
<1>10. CASE GeneratorEnds
  BY <1>10, GeneratorEndsKeeps
<1>11. CASE StorageEnds
  BY <1>11, StorageEndsKeeps
<1>12. CASE UNCHANGED vars
  <2>1. Base'
    BY <1>12
    DEF vars, IInv, Base, TypeOK, Silent, StorageRuns, Delivery, Talking, IsClosed
  <2>2. Telling => Telling'
    BY <1>12
    DEF vars, Telling, PreviewOf, MailboxIsCurrent, AnswerIsCurrent, PrintedIsOfATurn,
        StoryIsToldOnce, ctl, Id
  <2>. QED  BY <1>12, <2>1, <2>2 DEF IInv, Talking, vars
<1>. QED
  BY <1>1, <1>2, <1>3, <1>4, <1>5, <1>6, <1>7, <1>8, <1>9, <1>10, <1>11, <1>12
  DEF Next, Driver

(* The invariant holds throughout.                                         *)
THEOREM Inductive == Spec => []IInv
<1>1. Init => IInv
  BY InitKeeps
<1>2. IInv /\ [Next]_vars => IInv'
  BY NextKeeps
<1>. QED  BY <1>1, <1>2, PTL DEF Spec

(* The driver, its queues and its session are always well-formed.          *)
THEOREM Typing == Spec => []TypeOK
<1>1. IInv => TypeOK
  BY DEF IInv, Base
<1>. QED  BY <1>1, Inductive, PTL

(* The reader of the story stream sees every committed turn exactly once,  *)
(* in order and whole, whatever of it was streamed before, and whenever    *)
(* the generation is cancelled, fails, or is overtaken by a restore.       *)
THEOREM ToldOnce == Spec => []StoryIsToldOnce
<1>1. IInv => StoryIsToldOnce
  BY DEF IInv, Talking, Telling, StoryIsToldOnce
<1>. QED  BY <1>1, Inductive, PTL

(* The process reports success only when the story is saved, no thread has *)
(* failed and everything was delivered; if it does not, the last save was  *)
(* tried all the same.                                                     *)
THEOREM EarnedExit == Spec => []ExitIsEarned
<1>1. IInv => ExitIsEarned
  BY BaseEarns DEF IInv
<1>. QED  BY <1>1, Inductive, PTL
=============================================================================
