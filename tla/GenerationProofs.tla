--------------------------- MODULE GenerationProofs ---------------------------
(***************************************************************************)
(* An answer is given for exactly the conversations that are one, whatever *)
(* the child says, however it ends and whenever it is cancelled.           *)
(*                                                                         *)
(* The adapters decide record by record and never look back; the property  *)
(* speaks of the whole conversation.  The invariant says what a protocol   *)
(* in each of its states knows of the records it was given.                *)
(*                                                                         *)
(* The second part is about Cancellation, the token a generation is        *)
(* cancelled with: no callback is called twice, and none is lost.          *)
(***************************************************************************)
EXTENDS Generation, Cancellation, SequenceTheorems, WellFoundedInduction, TLAPS

----------------------------------------------------------------------------
(***************************************************************************)
(* What a protocol knows.                                                  *)
(***************************************************************************)
Flawless(s) == \A k \in DOMAIN s : s[k].flaw = "None"

(* Nothing but metadata yet.                                               *)
IsPreamble(s) == Flawless(s) /\ \A k \in DOMAIN s : s[k].type \in Metadata

(* An init, and messages whose blocks are in order.                        *)
Between ==
    Metadata \cup {"message"} \cup (Claude!StreamEvents \ {"error", "unknown_event"})
IsOpened(s) ==
    \E init \in DOMAIN s :
        /\ s[init].type = "init"
        /\ \A k \in 1..init - 1 : s[k].type \in Metadata
        /\ \A k \in init + 1..Len(s) : s[k].type \in Between
IsConversation(s) == Flawless(s) /\ IsOpened(s) /\ BlocksInOrder(s)

IsResult(r) ==
    /\ r.flaw = "None" /\ r.type = "result"
    /\ r.doc # NoDoc /\ r.doc.object /\ r.doc.unique

(* The blocks started in the message under way.                            *)
BlocksOf(s, types) ==
    {s[k].index : k \in {i \in DOMAIN s : s[i].type \in types /\ SameMessage(s, i, Len(s))}}

Preview == [at : {"Unstarted", "Open", "Closed"}, message : Nat, index : Nat]
ClaudeState ==
    [at : {"AwaitingInit", "Streaming", "Finished", "Failed"}, message : Nat,
     payloads : SUBSET Nat, others : SUBSET Nat, preview : Preview,
     candidate : Document \cup {NoDoc}]

ClaudeKnows(p, s) ==
    /\ p \in ClaudeState
    /\ p.at = "AwaitingInit" => IsPreamble(s)
    /\ p.at = "Streaming" => IsConversation(s)
    /\ p.at \in {"AwaitingInit", "Streaming"} =>
          /\ p.payloads = BlocksOf(s, {"payload_start"})
          /\ p.others = BlocksOf(s, {"other_start"})
    /\ p.at = "Finished" <=> IsClaudeAnswer(s)

CodexState ==
    [at : {"AwaitingThread", "AwaitingTurn", "AwaitingCandidate", "Candidate", "Completed",
           "Failed"},
     candidate : Document \cup {NoDoc}]

(* How many records have been taken in each state, and which.              *)
CodexOrder == <<"thread", "turn", "agent_message", "completed">>
CodexPlace ==
    [AwaitingThread |-> 0, AwaitingTurn |-> 1, AwaitingCandidate |-> 2, Candidate |-> 3,
     Completed |-> 4]
CodexInOrder(s) == Flawless(s) /\ \A k \in DOMAIN s : s[k].type = CodexOrder[k]

CodexKnows(p, s) ==
    /\ p \in CodexState
    /\ p.at # "Failed" => Len(s) = CodexPlace[p.at] /\ CodexInOrder(s)
    /\ p.at = "Failed" => ~IsCodexAnswer(s)

(* The document that is kept is the evidence there is; after an answer it  *)
(* is the answer.                                                          *)
KeepsEvidence(p, s) ==
    IF Cuts(s) = {} THEN p.candidate = NoDoc
    ELSE p.candidate = EvidenceOf(s) /\ p.candidate # NoDoc

ProtocolKnows ==
    /\ IF cli.vendor = "claude" THEN ClaudeKnows(protocol, Delivered)
                                ELSE CodexKnows(protocol, Delivered)
    /\ KeepsEvidence(protocol, Delivered)

----------------------------------------------------------------------------
(***************************************************************************)
(* What the worker knows.                                                  *)
(***************************************************************************)
Stages ==
    {"connecting", "connected", "running", "ended", "unsaid", "answered", "told", "done"}

GenerationTypeOK ==
    /\ cli \in Conversations
    /\ pc \in Stages
    /\ cancelled \in BOOLEAN
    /\ taken \in 0..Len(cli.records)
    /\ transport \in Outcomes \cup {"None"}

(* There is a child only after the login was confirmed, and an outcome     *)
(* only after the child.                                                   *)
StagesInOrder ==
    /\ pc \in {"connecting", "connected"} => taken = 0
    /\ pc \in {"connecting", "connected", "running"} => transport = "None"
    /\ pc \notin {"connecting", "done"} => SubscriptionAuth(cli)
    /\ transport = "Spawn" => taken = 0
    /\ pc = "ended" => transport # "None"

(* From here on only the cancellation and the document itself can prevent  *)
(* an answer.                                                              *)
AnswerIsAhead ==
    /\ pc \in {"unsaid", "answered", "told"} => transport = "Success" /\ Finished.ok
    /\ pc = "told" => Candidate.usable

IInv == GenerationTypeOK /\ StagesInOrder /\ ProtocolKnows /\ AnswerIsAhead /\ AnswerIsEarned

----------------------------------------------------------------------------
(***************************************************************************)
(* One record more.                                                        *)
(***************************************************************************)
LEMMA Grown ==
    ASSUME NEW s \in Seq(Line), NEW r \in Line
    PROVE  LET t == Append(s, r)
           IN  /\ t \in Seq(Line)
               /\ Len(t) = Len(s) + 1
               /\ DOMAIN s = 1..Len(s)
               /\ DOMAIN t = 1..Len(s) + 1
               /\ \A k \in 1..Len(s) : t[k] = s[k] /\ s[k] \in Line
               /\ t[Len(s) + 1] = r
               /\ Last(t) = r
               /\ Len(s) \in Nat
  BY DEF Last

(* A sequence is flawless if it was and the new record is.                 *)
LEMMA FlawlessAfter ==
    ASSUME NEW s \in Seq(Line), NEW r \in Line
    PROVE  Flawless(Append(s, r)) <=> Flawless(s) /\ r.flaw = "None"
<1>. DEFINE t == Append(s, r)
<1>1. /\ DOMAIN s = 1..Len(s) /\ DOMAIN t = 1..Len(s) + 1 /\ Len(s) \in Nat
      /\ \A k \in 1..Len(s) : t[k] = s[k]
      /\ t[Len(s) + 1] = r
  BY Grown
<1>. HIDE DEF t
<1>2. Flawless(t) <=> Flawless(s) /\ r.flaw = "None"
  BY <1>1 DEF Flawless
<1>. QED  BY <1>2 DEF t

(* An open block stays open until the next message starts.                 *)
LEMMA SameMessageAfter ==
    ASSUME NEW s \in Seq(Line), NEW r \in Line, NEW i \in 1..Len(s)
    PROVE  /\ \A k \in 1..Len(s) : SameMessage(Append(s, r), i, k) <=> SameMessage(s, i, k)
           /\ SameMessage(Append(s, r), i, Len(s) + 1)
                 <=> SameMessage(s, i, Len(s)) /\ r.type # "message_start"
           /\ SameMessage(Append(s, r), Len(s) + 1, Len(s) + 1)
<1>. DEFINE t == Append(s, r)
<1>1. /\ Len(s) \in Nat
      /\ \A k \in 1..Len(s) : t[k] = s[k]
      /\ t[Len(s) + 1] = r
  BY Grown
<1>. HIDE DEF t
<1>2. \A k \in 1..Len(s) : SameMessage(t, i, k) <=> SameMessage(s, i, k)
  BY <1>1 DEF SameMessage
<1>3. SameMessage(t, i, Len(s) + 1) <=> SameMessage(s, i, Len(s)) /\ r.type # "message_start"
  <2>1. i + 1..Len(s) + 1 = (i + 1..Len(s)) \cup {Len(s) + 1}
    BY <1>1
  <2>. QED  BY <1>1, <2>1 DEF SameMessage
<1>4. SameMessage(t, Len(s) + 1, Len(s) + 1)
  BY <1>1 DEF SameMessage
<1>. QED  BY <1>2, <1>3, <1>4 DEF t

(* A message starts with no blocks; a start adds one.                      *)
LEMMA BlocksAfter ==
    ASSUME NEW s \in Seq(Line), NEW r \in Line, NEW types,
           "message_start" \notin types
    PROVE  BlocksOf(Append(s, r), types) =
               IF r.type = "message_start" THEN {}
               ELSE BlocksOf(s, types) \cup IF r.type \in types THEN {r.index} ELSE {}
<1>. DEFINE t == Append(s, r)
            open == {i \in DOMAIN s : s[i].type \in types /\ SameMessage(s, i, Len(s))}
            here == {i \in DOMAIN t : t[i].type \in types /\ SameMessage(t, i, Len(t))}
<1>1. /\ DOMAIN s = 1..Len(s) /\ DOMAIN t = 1..Len(s) + 1 /\ Len(s) \in Nat
      /\ Len(t) = Len(s) + 1
      /\ \A k \in 1..Len(s) : t[k] = s[k]
      /\ t[Len(s) + 1] = r
  BY Grown
<1>2. \A i \in 1..Len(s) :
          SameMessage(t, i, Len(t)) <=> SameMessage(s, i, Len(s)) /\ r.type # "message_start"
  BY <1>1, SameMessageAfter
<1>3. SameMessage(t, Len(s) + 1, Len(t))
  BY <1>1 DEF SameMessage
<1>. HIDE DEF t
<1>4. here = IF r.type = "message_start" THEN {}
             ELSE open \cup IF r.type \in types THEN {Len(s) + 1} ELSE {}
  BY <1>1, <1>2, <1>3
<1>5. \A i \in open : t[i] = s[i]
  BY <1>1
<1>6. /\ BlocksOf(t, types) = {t[k].index : k \in here}
      /\ BlocksOf(s, types) = {s[k].index : k \in open}
  BY DEF BlocksOf
<1>. HIDE DEF open, here
<1>7. BlocksOf(t, types) =
               IF r.type = "message_start" THEN {}
               ELSE BlocksOf(s, types) \cup IF r.type \in types THEN {r.index} ELSE {}
  BY <1>1, <1>4, <1>5, <1>6
<1>. QED  BY <1>7 DEF t

(* A record is in order with the blocks before it exactly if the protocol  *)
(* would find it so.                                                       *)
BlockFits(s, r) ==
    /\ r.type \in Claude!Starts => r.index \notin BlocksOf(s, Claude!Starts)
    /\ r.type = "payload_start" => BlocksOf(s, {"payload_start"}) = {}
    /\ r.type \in Claude!InBlock => r.index \in BlocksOf(s, Claude!Starts)

(* The blocks stay in order exactly if the new record fits those before    *)
(* it.                                                                     *)
LEMMA BlocksInOrderAfter ==
    ASSUME NEW s \in Seq(Line), NEW r \in Line
    PROVE  BlocksInOrder(Append(s, r)) <=> BlocksInOrder(s) /\ BlockFits(s, r)
<1>. DEFINE t == Append(s, r)
            n == Len(s) + 1
            Before(u, k, types) ==
                {i \in 1..k - 1 : u[i].type \in types /\ SameMessage(u, i, k)}
            Good(u, k) ==
                /\ u[k].type \in Claude!Starts =>
                       \A i \in Before(u, k, Claude!Starts) : u[i].index # u[k].index
                /\ u[k].type = "payload_start" => Before(u, k, {"payload_start"}) = {}
                /\ u[k].type \in Claude!InBlock =>
                       \E i \in Before(u, k, Claude!Starts) : u[i].index = u[k].index
<1>0. \A u : BlocksInOrder(u) <=> \A k \in DOMAIN u : Good(u, k)
  BY DEF BlocksInOrder
<1>1. /\ DOMAIN s = 1..Len(s) /\ DOMAIN t = 1..n /\ Len(s) \in Nat
      /\ \A k \in 1..Len(s) : t[k] = s[k]
      /\ t[n] = r
  BY Grown
<1>2. \A i, k \in 1..Len(s) : SameMessage(t, i, k) <=> SameMessage(s, i, k)
  BY SameMessageAfter
<1>3. \A i \in 1..Len(s) :
          SameMessage(t, i, n) <=> SameMessage(s, i, Len(s)) /\ r.type # "message_start"
  BY SameMessageAfter
<1>. HIDE DEF t
<1>4. ASSUME NEW k \in 1..Len(s)
      PROVE  Good(t, k) <=> Good(s, k)
  <2>1. \A types : Before(t, k, types) = Before(s, k, types)
    BY <1>1, <1>2
  <2>2. t[k] = s[k] /\ \A types : \A i \in Before(s, k, types) : t[i] = s[i]
    BY <1>1
  <2>. HIDE DEF Before
  <2>. QED  BY <2>1, <2>2
<1>5. Good(t, n) <=> BlockFits(s, r)
  <2>. DEFINE open(types) == {i \in DOMAIN s : s[i].type \in types /\ SameMessage(s, i, Len(s))}
  <2>1. ASSUME r.type # "message_start", NEW types
        PROVE  /\ Before(t, n, types) = open(types)
               /\ \A i \in open(types) : t[i] = s[i]
    BY <1>1, <1>3, <2>1
  <2>2. \A types : BlocksOf(s, types) = {s[k].index : k \in open(types)}
    BY DEF BlocksOf
  <2>. HIDE DEF Before, open
  <2>3. CASE r.type = "message_start"
    BY <1>1, <2>3 DEF BlockFits, Claude!Starts, Claude!InBlock, Claude!Deltas
  <2>4. CASE r.type # "message_start"
    <3>1. \A types : Before(t, n, types) = open(types) /\ \A i \in open(types) : t[i] = s[i]
      BY <2>1, <2>4
    <3>2. (\A i \in Before(t, n, Claude!Starts) : t[i].index # t[n].index)
             <=> r.index \notin BlocksOf(s, Claude!Starts)
      BY <1>1, <2>2, <3>1
    <3>3. Before(t, n, {"payload_start"}) = {} <=> BlocksOf(s, {"payload_start"}) = {}
      <4>1. Before(t, n, {"payload_start"}) = open({"payload_start"})
        BY <3>1
      <4>2. BlocksOf(s, {"payload_start"}) = {s[k].index : k \in open({"payload_start"})}
        BY <2>2
      <4>. QED  BY <4>1, <4>2
    <3>4. (\E i \in Before(t, n, Claude!Starts) : t[i].index = t[n].index)
             <=> r.index \in BlocksOf(s, Claude!Starts)
      BY <3>2
    <3>. QED  BY <1>1, <3>2, <3>3, <3>4 DEF BlockFits
  <2>. QED  BY <2>3, <2>4
<1>. HIDE DEF Good
<1>6. BlocksInOrder(t) <=> BlocksInOrder(s) /\ BlockFits(s, r)
  BY <1>0, <1>1, <1>4, <1>5
<1>. QED  BY <1>6 DEF t

----------------------------------------------------------------------------
(***************************************************************************)
(* A conversation and its answer, one record at a time.                    *)
(***************************************************************************)
LEMMA OpenedAfter ==
    ASSUME NEW s \in Seq(Line), NEW r \in Line
    PROVE  IsOpened(Append(s, r))
               <=> \/ IsOpened(s) /\ r.type \in Between
                   \/ r.type = "init" /\ \A k \in DOMAIN s : s[k].type \in Metadata
<1>. DEFINE t == Append(s, r)
            n == Len(s) + 1
<1>1. /\ DOMAIN s = 1..Len(s) /\ DOMAIN t = 1..n /\ Len(s) \in Nat /\ Len(t) = n
      /\ \A k \in 1..Len(s) : t[k] = s[k]
      /\ t[n] = r
  BY Grown
<1>. HIDE DEF t
<1>2. ASSUME IsOpened(t)
      PROVE  \/ IsOpened(s) /\ r.type \in Between
             \/ r.type = "init" /\ \A k \in DOMAIN s : s[k].type \in Metadata
  <2>1. PICK i \in DOMAIN t : /\ t[i].type = "init"
                              /\ \A k \in 1..i - 1 : t[k].type \in Metadata
                              /\ \A k \in i + 1..Len(t) : t[k].type \in Between
    BY <1>2 DEF IsOpened
  <2>2. CASE i = n
    BY <1>1, <2>1, <2>2
  <2>3. CASE i # n
    <3>1. i \in 1..Len(s) /\ n \in i + 1..Len(t)
      BY <1>1, <2>3
    <3>2. /\ s[i].type = "init" /\ r.type \in Between
          /\ \A k \in 1..i - 1 : s[k].type \in Metadata
          /\ \A k \in i + 1..Len(s) : s[k].type \in Between
      BY <1>1, <2>1, <3>1
    <3>. QED  BY <1>1, <3>1, <3>2 DEF IsOpened
  <2>. QED  BY <2>2, <2>3
<1>3. ASSUME IsOpened(s), r.type \in Between
      PROVE  IsOpened(t)
  <2>1. PICK i \in DOMAIN s : /\ s[i].type = "init"
                              /\ \A k \in 1..i - 1 : s[k].type \in Metadata
                              /\ \A k \in i + 1..Len(s) : s[k].type \in Between
    BY <1>3 DEF IsOpened
  <2>2. \A k \in i + 1..n : t[k].type \in Between
    <3>1. \A k \in i + 1..n : k \in i + 1..Len(s) \/ k = n
      BY <1>1
    <3>. QED  BY <1>1, <1>3, <2>1, <3>1
  <2>3. i \in DOMAIN t /\ t[i].type = "init" /\ \A k \in 1..i - 1 : t[k].type \in Metadata
    BY <1>1, <2>1
  <2>. QED  BY <1>1, <2>2, <2>3 DEF IsOpened
<1>4. ASSUME r.type = "init", \A k \in DOMAIN s : s[k].type \in Metadata
      PROVE  IsOpened(t)
  <2>1. \A k \in 1..n - 1 : t[k].type \in Metadata
    BY <1>1, <1>4
  <2>. QED  BY <1>1, <1>4, <2>1 DEF IsOpened
<1>5. IsOpened(t) <=> \/ IsOpened(s) /\ r.type \in Between
                      \/ r.type = "init" /\ \A k \in DOMAIN s : s[k].type \in Metadata
  BY <1>2, <1>3, <1>4
<1>. QED  BY <1>5 DEF t

(* An answer is a conversation and a result.                               *)
LEMMA AnswerIsResultOfConversation ==
    ASSUME NEW s \in Seq(Line), NEW r \in Line
    PROVE  IsClaudeAnswer(Append(s, r)) <=> IsConversation(s) /\ IsResult(r)
<1>. DEFINE t == Append(s, r)
            n == Len(s) + 1
<1>1. /\ DOMAIN s = 1..Len(s) /\ DOMAIN t = 1..n /\ Len(s) \in Nat /\ Len(t) = n
      /\ \A k \in 1..Len(s) : t[k] = s[k]
      /\ t[n] = r /\ Last(t) = r
  BY Grown
<1>2. (\A k \in DOMAIN t : t[k].flaw = "None") <=> Flawless(s) /\ r.flaw = "None"
  BY FlawlessAfter DEF Flawless
<1>3. BlocksInOrder(t) <=> BlocksInOrder(s) /\ BlockFits(s, r)
  BY BlocksInOrderAfter
<1>4. r.type = "result" => BlockFits(s, r)
  BY DEF BlockFits, Claude!Starts, Claude!InBlock, Claude!Deltas
<1>. HIDE DEF t
<1>5. ASSUME IsClaudeAnswer(t)
      PROVE  IsConversation(s) /\ IsResult(r)
  <2>1. PICK i \in DOMAIN t :
            /\ \A k \in DOMAIN t : t[k].flaw = "None"
            /\ t[i].type = "init"
            /\ \A k \in 1..i - 1 : t[k].type \in Metadata
            /\ \A k \in i + 1..Len(t) - 1 : t[k].type \in Between
            /\ i < Len(t)
            /\ Last(t).type = "result"
            /\ Last(t).doc # NoDoc /\ Last(t).doc.object /\ Last(t).doc.unique
            /\ BlocksInOrder(t)
    BY <1>5 DEF IsClaudeAnswer, Between
  <2>2. IsResult(r) /\ Flawless(s) /\ BlocksInOrder(s)
    BY <1>1, <1>2, <1>3, <2>1 DEF IsResult
  <2>3. /\ i \in DOMAIN s /\ s[i].type = "init"
        /\ \A k \in 1..i - 1 : s[k].type \in Metadata
        /\ \A k \in i + 1..Len(s) : s[k].type \in Between
    BY <1>1, <2>1
  <2>. QED  BY <2>2, <2>3 DEF IsConversation, IsOpened
<1>6. ASSUME IsConversation(s), IsResult(r)
      PROVE  IsClaudeAnswer(t)
  <2>1. PICK i \in DOMAIN s : /\ s[i].type = "init"
                              /\ \A k \in 1..i - 1 : s[k].type \in Metadata
                              /\ \A k \in i + 1..Len(s) : s[k].type \in Between
    BY <1>6 DEF IsConversation, IsOpened
  <2>2. /\ \A k \in DOMAIN t : t[k].flaw = "None"
        /\ BlocksInOrder(t)
        /\ Last(t).type = "result"
        /\ Last(t).doc # NoDoc /\ Last(t).doc.object /\ Last(t).doc.unique
    BY <1>1, <1>2, <1>3, <1>4, <1>6 DEF IsConversation, IsResult
  <2>3. /\ i \in DOMAIN t /\ t[i].type = "init" /\ i < Len(t)
        /\ \A k \in 1..i - 1 : t[k].type \in Metadata
        /\ \A k \in i + 1..Len(t) - 1 : t[k].type \in Between
    BY <1>1, <2>1
  <2>. QED  BY <2>2, <2>3 DEF IsClaudeAnswer, Between
<1>7. IsClaudeAnswer(t) <=> IsConversation(s) /\ IsResult(r)
  BY <1>5, <1>6
<1>. QED  BY <1>7 DEF t

(* What came before the end is none of it.                                 *)
LEMMA OpenedHasNoResult ==
    ASSUME NEW s \in Seq(Line), IsOpened(s), NEW k \in DOMAIN s
    PROVE  s[k].type \notin Claude!Results
<1>1. PICK i \in DOMAIN s : /\ s[i].type = "init"
                            /\ \A j \in 1..i - 1 : s[j].type \in Metadata
                            /\ \A j \in i + 1..Len(s) : s[j].type \in Between
  BY DEF IsOpened
<1>2. k = i \/ k \in 1..i - 1 \/ k \in i + 1..Len(s)
  OBVIOUS
<1>. QED  BY <1>1, <1>2 DEF Between, Metadata, Claude!Results, Claude!StreamEvents

(* An answer ends with its only result, so it cannot go on.                *)
LEMMA AnswerIsOver ==
    ASSUME NEW s \in Seq(Line), IsClaudeAnswer(s)
    PROVE  /\ ~IsOpened(s)
           /\ Len(s) \in DOMAIN s
           /\ Last(s) = s[Len(s)] /\ Last(s).flaw = "None" /\ Last(s).type = "result"
           /\ Last(s).doc # NoDoc /\ Last(s).doc.object /\ Last(s).doc.unique
           /\ \A k \in DOMAIN s :
                 s[k].flaw = "None" /\ (k # Len(s) => s[k].type \notin Claude!Results)
<1>1. PICK i \in DOMAIN s :
            /\ \A k \in DOMAIN s : s[k].flaw = "None"
            /\ s[i].type = "init"
            /\ \A k \in 1..i - 1 : s[k].type \in Metadata
            /\ \A k \in i + 1..Len(s) - 1 : s[k].type \in Between
            /\ i < Len(s)
            /\ Last(s).type = "result"
            /\ Last(s).doc # NoDoc /\ Last(s).doc.object /\ Last(s).doc.unique
  BY DEF IsClaudeAnswer, Between
<1>2. Len(s) \in DOMAIN s /\ Last(s) = s[Len(s)]
  BY <1>1 DEF Last
<1>3. ~IsOpened(s)
  BY <1>1, <1>2, OpenedHasNoResult DEF Claude!Results
<1>4. ASSUME NEW k \in DOMAIN s, k # Len(s)
      PROVE  s[k].type \notin Claude!Results
  <2>1. k = i \/ k \in 1..i - 1 \/ k \in i + 1..Len(s) - 1
    BY <1>4
  <2>. QED  BY <1>1, <2>1 DEF Between, Metadata, Claude!Results, Claude!StreamEvents
<1>. QED  BY <1>1, <1>2, <1>3, <1>4

(* Metadata alone open nothing and hold no result.                         *)
LEMMA PreambleIsNotOpened ==
    ASSUME NEW s \in Seq(Line), IsPreamble(s)
    PROVE  ~IsOpened(s) /\ \A k \in DOMAIN s : s[k].type \notin Claude!Results
  BY DEF IsPreamble, IsOpened, Metadata, Claude!Results

----------------------------------------------------------------------------
(***************************************************************************)
(* Evidence.                                                               *)
(***************************************************************************)
LEMMA LeastOfOne ==
    ASSUME NEW n \in Nat
    PROVE  Min({n}) = n /\ Min({n, n + 1}) = n
<1>1. \A x \in {n} : (\A y \in {n} : x <= y) <=> x = n
  OBVIOUS
<1>2. \A x \in {n, n + 1} : (\A y \in {n, n + 1} : x <= y) <=> x = n
  OBVIOUS
<1>3. Min({n}) = n
  BY <1>1 DEF Min
<1>4. Min({n, n + 1}) = n
  BY <1>2 DEF Min
<1>. QED  BY <1>3, <1>4

(* What is cut out of a conversation that has not failed is the answer.    *)
LEMMA OnlyAnswersAreCut ==
    ASSUME NEW s \in Seq(Line), cli.vendor = "claude",
           IsPreamble(s) \/ IsConversation(s) \/ IsClaudeAnswer(s)
    PROVE  /\ Cuts(s) = IF IsClaudeAnswer(s) THEN {Len(s)} ELSE {}
           /\ IsClaudeAnswer(s) => EvidenceOf(s) = Last(s).doc
<1>1. CASE IsClaudeAnswer(s)
  <2>1. IsCut(s[Len(s)]) /\ \A k \in DOMAIN s : k # Len(s) => ~IsCut(s[k])
    BY <1>1, AnswerIsOver DEF IsCut, Claude!Results
  <2>2. Cuts(s) = {Len(s)}
    BY <2>1, <1>1, AnswerIsOver DEF Cuts
  <2>3. Len(s) \in Nat
    OBVIOUS
  <2>4. Min({Len(s)}) = Len(s)
    BY <2>3, LeastOfOne
  <2>. QED  BY <1>1, <2>2, <2>4, AnswerIsOver DEF EvidenceOf
<1>2. CASE ~IsClaudeAnswer(s)
  <2>1. \A k \in DOMAIN s : s[k].flaw = "None" /\ s[k].type \notin Claude!Results
    BY <1>2, PreambleIsNotOpened, OpenedHasNoResult DEF IsPreamble, IsConversation, Flawless
  <2>. QED  BY <1>2, <2>1 DEF Cuts, IsCut
<1>. QED  BY <1>1, <1>2

(* One record more is at most one document more.                           *)
LEMMA CutsAfter ==
    ASSUME NEW s \in Seq(Line), NEW r \in Line, cli.vendor = "claude"
    PROVE  Cuts(Append(s, r)) = Cuts(s) \cup IF IsCut(r) THEN {Len(s) + 1} ELSE {}
<1>. DEFINE t == Append(s, r)
<1>1. /\ DOMAIN s = 1..Len(s) /\ DOMAIN t = 1..Len(s) + 1 /\ Len(s) \in Nat
      /\ \A k \in 1..Len(s) : t[k] = s[k]
      /\ t[Len(s) + 1] = r
  BY Grown
<1>. HIDE DEF t
<1>2. Cuts(t) = Cuts(s) \cup IF IsCut(r) THEN {Len(s) + 1} ELSE {}
  <2>1. Cuts(t) = {k \in 1..Len(s) + 1 : IsCut(t[k])} /\ Cuts(s) = {k \in 1..Len(s) : IsCut(s[k])}
    BY <1>1 DEF Cuts
  <2>. QED  BY <1>1, <2>1
<1>. QED  BY <1>2 DEF t

(* An ambiguous record's own document, or else the first.                  *)
LEMMA EvidenceAfter ==
    ASSUME NEW s \in Seq(Line), NEW r \in Line, cli.vendor = "claude",
           IsPreamble(s) \/ IsConversation(s) \/ IsClaudeAnswer(s)
    PROVE  LET t == Append(s, r)
           IN  /\ Cuts(t) = {} <=> ~IsCut(r) /\ ~IsClaudeAnswer(s)
               /\ Cuts(t) # {} =>
                     EvidenceOf(t) = IF IsCut(r) /\ (r.flaw = "Ambiguous" \/ ~IsClaudeAnswer(s))
                                     THEN r.doc ELSE Last(s).doc
<1>. DEFINE t == Append(s, r)
            n == Len(s)
<1>1. /\ n \in Nat /\ Last(t) = r /\ t[n + 1] = r
      /\ \A k \in 1..n : t[k] = s[k]
  BY Grown
<1>2. Cuts(t) = (IF IsClaudeAnswer(s) THEN {n} ELSE {}) \cup (IF IsCut(r) THEN {n + 1} ELSE {})
  BY CutsAfter, OnlyAnswersAreCut
<1>3. IsClaudeAnswer(s) => n \in 1..n /\ Last(s) = s[n]
  BY AnswerIsOver
<1>. HIDE DEF t
<1>. DEFINE m == n + 1
            Goal == /\ Cuts(t) = {} <=> ~IsCut(r) /\ ~IsClaudeAnswer(s)
                    /\ Cuts(t) # {} =>
                          EvidenceOf(t) =
                              IF IsCut(r) /\ (r.flaw = "Ambiguous" \/ ~IsClaudeAnswer(s))
                              THEN r.doc ELSE Last(s).doc
<1>4. Min({n}) = n /\ Min({n, m}) = n /\ Min({m}) = m
  <2>1. m \in Nat
    BY <1>1
  <2>. QED  BY <1>1, <2>1, LeastOfOne
<1>. HIDE DEF m, n
<1>5. ASSUME IsClaudeAnswer(s)
      PROVE  Goal
  <2>1. Cuts(t) = {n} \/ Cuts(t) = {n, m}
    BY <1>2, <1>5 DEF m
  <2>2. Min(Cuts(t)) = n /\ Cuts(t) # {}
    BY <1>4, <2>1
  <2>3. t[n].doc = Last(s).doc
    BY <1>1, <1>3, <1>5
  <2>4. EvidenceOf(t) = IF IsCut(r) /\ r.flaw = "Ambiguous" THEN r.doc ELSE Last(s).doc
    BY <1>1, <2>2, <2>3 DEF EvidenceOf
  <2>. QED  BY <1>5, <2>2, <2>4
<1>6. ASSUME ~IsClaudeAnswer(s) /\ IsCut(r)
      PROVE  Goal
  <2>1. Cuts(t) = {m}
    BY <1>2, <1>6 DEF m
  <2>2. Min(Cuts(t)) = m /\ Cuts(t) # {} /\ t[m] = r
    BY <1>1, <1>4, <2>1 DEF m
  <2>3. EvidenceOf(t) = r.doc
    BY <1>1, <2>2 DEF EvidenceOf
  <2>. QED  BY <1>6, <2>2, <2>3
<1>7. ASSUME ~IsClaudeAnswer(s) /\ ~IsCut(r)
      PROVE  Goal
  <2>1. Cuts(t) = {}
    BY <1>2, <1>7
  <2>. QED  BY <1>7, <2>1
<1>8. Goal
  BY <1>5, <1>6, <1>7
<1>. QED  BY <1>8 DEF t

----------------------------------------------------------------------------
(***************************************************************************)
(* One record of Claude.                                                   *)
(***************************************************************************)
(* What a record in order is.                                              *)
LEMMA WithoutObjection ==
    ASSUME NEW r \in Line, r.type \in {"message", "rate_limit_event"} => r.flaw # "Field",
           NEW p \in ClaudeState, p.at # "Failed",
           Claude!Objection(p, r) = "None"
    PROVE  /\ r.flaw = "None"
           /\ p.at \in {"AwaitingInit", "Streaming"}
           /\ p.at = "AwaitingInit" => r.type \in {"init"} \cup Metadata
           /\ p.at = "Streaming" => r.type \in Between \/ IsResult(r)
           /\ p.at = "Streaming" /\ r.type \in Claude!Starts => r.index \notin Claude!Blocks(p)
           /\ p.at = "Streaming" /\ r.type = "payload_start" => p.payloads = {}
           /\ p.at = "Streaming" /\ r.type \in Claude!InBlock => r.index \in Claude!Blocks(p)
<1>1. r.flaw \in Flaw /\ p.at \in {"AwaitingInit", "Streaming", "Finished"}
  BY DEF Line, ClaudeState
<1>2. r.flaw \in {"None", "Field"} /\ p.at # "Finished"
  BY <1>1 DEF Flaw, Claude!AfterTheResult, Claude!Objection
<1>3. /\ r.type \in {"init", "metered_init", "system"} => Claude!SystemObjection(p, r) = "None"
      /\ r.type \in Claude!StreamEvents => Claude!EventObjection(p, r) = "None"
      /\ r.type = "message" => p.at = "Streaming"
      /\ r.type \in Claude!Results => Claude!ResultObjection(p, r) = "None"
      /\ r.type \in {"init", "metered_init", "system", "message", "rate_limit_event"}
            \cup Claude!StreamEvents \cup Claude!Results
  <2>. DEFINE rest == CASE r.type \in {"init", "metered_init", "system"} ->
                              Claude!SystemObjection(p, r)
                        [] r.type \in Claude!StreamEvents -> Claude!EventObjection(p, r)
                        [] r.type = "message" -> IF p.at = "Streaming" THEN "None" ELSE "Order"
                        [] r.type = "rate_limit_event" -> "None"
                        [] r.type \in Claude!Results -> Claude!ResultObjection(p, r)
                        [] OTHER -> "Unsupported"
  <2>1. rest = "None"
    BY <1>2 DEF Claude!Objection
  <2>. QED  BY <2>1 DEF Claude!StreamEvents, Claude!Results
<1>4. CASE r.type \in {"init", "metered_init", "system"}
  <2>1. r.flaw # "Field" /\ r.type # "metered_init" /\ (r.type = "init" => p.at = "AwaitingInit")
    BY <1>3, <1>4 DEF Claude!SystemObjection
  <2>. QED  BY <1>1, <1>2, <1>4, <2>1
            DEF Metadata, Between, Claude!Starts, Claude!InBlock, Claude!Deltas
<1>5. CASE r.type \in Claude!StreamEvents
  <2>1. /\ p.at = "Streaming" /\ r.flaw # "Field" /\ r.type \notin {"error", "unknown_event"}
        /\ r.type \in Claude!Starts => r.index \notin Claude!Blocks(p)
        /\ r.type = "payload_start" => p.payloads = {}
        /\ r.type \in Claude!InBlock => r.index \in Claude!Blocks(p)
    BY <1>3, <1>5
       DEF Claude!EventObjection, Claude!StreamEvents, Claude!Starts, Claude!InBlock, Claude!Deltas
  <2>. QED  BY <1>2, <1>5, <2>1 DEF Between
<1>6. CASE r.type \in {"message", "rate_limit_event"}
  <2>1. r.flaw = "None" /\ (r.type = "message" => p.at = "Streaming")
    BY <1>2, <1>3, <1>6
  <2>. QED  BY <1>1, <1>2, <1>6, <2>1
            DEF Metadata, Between, Claude!Starts, Claude!InBlock, Claude!Deltas
<1>7. CASE r.type \in Claude!Results
  <2>1. r.type = "result" /\ r.flaw # "Field" /\ p.at = "Streaming"
    BY <1>3, <1>7 DEF Claude!Results, Claude!ResultObjection
  <2>2. Claude!CandidateOf(r) # NoDoc /\ Claude!CandidateOf(r).unique
    BY <1>3, <1>7, <2>1 DEF Claude!ResultObjection
  <2>3. IsResult(r)
    BY <1>2, <2>1, <2>2 DEF IsResult, Claude!CandidateOf
  <2>. QED  BY <1>2, <2>1, <2>3 DEF Claude!Starts, Claude!InBlock, Claude!Deltas
<1>. QED  BY <1>3, <1>4, <1>5, <1>6, <1>7

(* The result of a conversation in order is never refused.                 *)
LEMMA ResultIsInOrder ==
    ASSUME NEW r \in Line, IsResult(r), NEW p, p.at = "Streaming"
    PROVE  Claude!Objection(p, r) = "None"
<1>1. r.type = "result" /\ r.flaw = "None" /\ Claude!CandidateOf(r) = r.doc
  BY DEF IsResult, Claude!CandidateOf
<1>2. Claude!ResultObjection(p, r) = "None"
  BY <1>1 DEF Claude!ResultObjection, IsResult
<1>. QED  BY <1>1, <1>2 DEF Claude!Objection, Claude!StreamEvents, Claude!Results

(* What a state says of the records is all there is to say.                *)
LEMMA KnownStates ==
    ASSUME NEW s \in Seq(Line), NEW p, ClaudeKnows(p, s), p.at # "Failed"
    PROVE  /\ p.at = "AwaitingInit" <=> IsPreamble(s)
           /\ p.at = "Streaming" <=> IsConversation(s)
           /\ IsPreamble(s) \/ IsConversation(s) \/ IsClaudeAnswer(s)
<1>1. p.at \in {"AwaitingInit", "Streaming", "Finished"}
  BY DEF ClaudeKnows, ClaudeState
<1>2. IsPreamble(s) => ~IsConversation(s) /\ ~IsClaudeAnswer(s)
  <2>1. IsPreamble(s) => ~IsOpened(s)
    BY PreambleIsNotOpened
  <2>2. IsPreamble(s) => ~IsClaudeAnswer(s)
    BY AnswerIsOver, PreambleIsNotOpened DEF Claude!Results
  <2>. QED  BY <2>1, <2>2 DEF IsConversation
<1>3. IsConversation(s) => ~IsClaudeAnswer(s)
  BY AnswerIsOver DEF IsConversation
<1>. QED  BY <1>1, <1>2, <1>3 DEF ClaudeKnows

(* A new protocol is well typed.                                           *)
LEMMA NewIsClaudeState == Claude!NewClaude \in ClaudeState
<1>1. Claude!Unstarted \in Preview
  BY DEF Preview, Claude!Unstarted, Claude!Closed
<1>. QED  BY <1>1 DEF ClaudeState, Claude!NewClaude

(* A refused record ends it without an answer.                             *)
LEMMA RefusedByClaude ==
    ASSUME cli.vendor = "claude", NEW s \in Seq(Line), NEW r \in Line,
           NEW p, ClaudeKnows(p, s), KeepsEvidence(p, s), p.at # "Failed",
           Claude!Objection(p, r) # "None"
    PROVE  LET q == Claude!Record(p, r)
               t == Append(s, r)
           IN  ClaudeKnows(q, t) /\ KeepsEvidence(q, t)
<1>. DEFINE q == Claude!Record(p, r)
            t == Append(s, r)
            e == Claude!Evidence(p, r)
<1>1. q = [Claude!NewClaude EXCEPT !.at = "Failed", !.candidate = e]
  BY DEF Claude!Record
<1>2. e \in Document \cup {NoDoc} /\ p \in ClaudeState
  BY DEF ClaudeKnows, ClaudeState, Line, Claude!Evidence, Claude!CandidateOf
<1>. HIDE DEF e, q
<1>3. q \in ClaudeState /\ q.at = "Failed" /\ q.candidate = e
  <2>1. Claude!NewClaude \in ClaudeState
    BY NewIsClaudeState
  <2>. QED  BY <1>1, <1>2, <2>1 DEF ClaudeState
<1>4. ~IsClaudeAnswer(t)
  BY AnswerIsResultOfConversation, KnownStates, ResultIsInOrder
<1>5. p.candidate = IF IsClaudeAnswer(s) THEN Last(s).doc ELSE NoDoc
  BY KnownStates, OnlyAnswersAreCut DEF KeepsEvidence
<1>6. IsClaudeAnswer(s) <=> p.at = "Finished"
  BY DEF ClaudeKnows
<1>7. /\ IsClaudeAnswer(s) => Last(s).doc # NoDoc
      /\ IsCut(r) => r.doc # NoDoc
  BY AnswerIsOver DEF IsCut
<1>8. e = IF IsCut(r) /\ (r.flaw = "Ambiguous" \/ ~IsClaudeAnswer(s)) THEN r.doc
          ELSE p.candidate
  BY <1>6 DEF e, Claude!Evidence, Claude!CandidateOf, IsCut
<1>9. /\ Cuts(t) = {} <=> ~IsCut(r) /\ ~IsClaudeAnswer(s)
      /\ Cuts(t) # {} =>
            EvidenceOf(t) = IF IsCut(r) /\ (r.flaw = "Ambiguous" \/ ~IsClaudeAnswer(s))
                            THEN r.doc ELSE Last(s).doc
  BY KnownStates, EvidenceAfter
<1>. HIDE DEF t
<1>10. KeepsEvidence(q, t)
  BY <1>3, <1>5, <1>7, <1>8, <1>9 DEF KeepsEvidence
<1>11. ClaudeKnows(q, t)
  BY <1>3, <1>4 DEF ClaudeKnows
<1>. QED  BY <1>10, <1>11 DEF q, t

(* What a record in order does to the protocol.                            *)
LEMMA AdvanceEffect ==
    ASSUME NEW p \in ClaudeState, NEW r \in Line
    PROVE  LET q == Claude!Advance(p, r)
           IN  /\ q \in ClaudeState
               /\ q.at = IF r.type = "init" THEN "Streaming"
                         ELSE IF r.type = "result" THEN "Finished" ELSE p.at
               /\ q.payloads =
                      IF r.type = "message_start" THEN {}
                      ELSE p.payloads \cup IF r.type \in {"payload_start"} THEN {r.index} ELSE {}
               /\ q.others =
                      IF r.type = "message_start" THEN {}
                      ELSE p.others \cup IF r.type \in {"other_start"} THEN {r.index} ELSE {}
               /\ q.candidate = IF r.type = "result" THEN Claude!CandidateOf(r) ELSE p.candidate
<1>. DEFINE q == Claude!Advance(p, r)
<1>. USE DEF ClaudeState
<1>1. r.index \in Nat /\ Claude!CandidateOf(r) \in Document \cup {NoDoc}
  BY DEF Line, Claude!CandidateOf
<1>2. Claude!Closed \in Preview /\ Claude!Open(p.message, r.index) \in Preview
  BY <1>1 DEF Preview, Claude!Closed, Claude!Open
<1>3. CASE r.type = "init"
  <2>1. q = [p EXCEPT !.at = "Streaming"]
    BY <1>3 DEF Claude!Advance, Claude!Starts
  <2>. QED  BY <1>3, <2>1
<1>4. CASE r.type = "message_start"
  <2>1. q = Claude!MessageStarts(p)
    BY <1>4 DEF Claude!Advance, Claude!Starts
  <2>. DEFINE v == IF p.preview.at = "Open" THEN Claude!Closed ELSE p.preview
              k == p.message + 1
  <2>2. q = [p EXCEPT !.message = k, !.payloads = {}, !.others = {}, !.preview = v]
    BY <2>1 DEF Claude!MessageStarts
  <2>3. v \in Preview /\ k \in Nat
    BY <1>2
  <2>. HIDE DEF v, k, q
  <2>4. /\ q \in ClaudeState /\ q.at = p.at /\ q.candidate = p.candidate
        /\ q.payloads = {} /\ q.others = {}
    BY <2>2, <2>3
  <2>. QED  BY <1>4, <2>4 DEF q
<1>5. CASE r.type \in Claude!Starts
  <2>1. q = Claude!BlockStarts(p, r)
    BY <1>5 DEF Claude!Advance, Claude!Starts
  <2>2. CASE r.type = "other_start"
    <3>1. q = [p EXCEPT !.others = p.others \cup {r.index}]
      BY <2>1, <2>2 DEF Claude!BlockStarts
    <3>. QED  BY <1>1, <2>2, <3>1
  <2>3. CASE r.type = "payload_start"
    <3>. DEFINE v == IF p.preview = Claude!Unstarted THEN Claude!Open(p.message, r.index)
                     ELSE p.preview
                b == p.payloads \cup {r.index}
    <3>1. q = [p EXCEPT !.payloads = b, !.preview = v]
      BY <2>1, <2>3 DEF Claude!BlockStarts
    <3>2. v \in Preview /\ b \in SUBSET Nat
      BY <1>1, <1>2
    <3>. HIDE DEF v, q
    <3>3. /\ q \in ClaudeState /\ q.at = p.at /\ q.candidate = p.candidate
          /\ q.payloads = b /\ q.others = p.others
      BY <3>1, <3>2
    <3>. QED  BY <2>3, <3>3 DEF q
  <2>. QED  BY <1>5, <2>2, <2>3 DEF Claude!Starts
<1>6. CASE r.type = "content_block_stop"
  <2>1. q = Claude!BlockStops(p, r)
    BY <1>6 DEF Claude!Advance, Claude!Starts
  <2>2. q = [p EXCEPT !.preview = IF p.preview = Claude!Open(p.message, r.index)
                                  THEN Claude!Closed ELSE p.preview]
    BY <2>1 DEF Claude!BlockStops
  <2>. QED  BY <1>2, <1>6, <2>2
<1>7. CASE r.type = "result"
  <2>1. q = [p EXCEPT !.at = "Finished", !.candidate = Claude!CandidateOf(r)]
    BY <1>7 DEF Claude!Advance, Claude!Starts
  <2>. QED  BY <1>1, <1>7, <2>1
<1>8. CASE r.type \notin {"init", "message_start", "payload_start", "other_start",
                          "content_block_stop", "result"}
  <2>1. q = p
    BY <1>8 DEF Claude!Advance, Claude!Starts
  <2>. QED  BY <1>8, <2>1
<1>. QED  BY <1>3, <1>4, <1>5, <1>6, <1>7, <1>8 DEF Claude!Starts

(* The protocol finds a record in order exactly if the conversation does.  *)
LEMMA PreambleHasNoBlocks ==
    ASSUME NEW s \in Seq(Line), IsPreamble(s)
    PROVE  BlocksInOrder(s)
  BY DEF IsPreamble, BlocksInOrder, Metadata, Claude!Starts, Claude!InBlock, Claude!Deltas

(* A block is of one of the two kinds.                                     *)
LEMMA BlocksAreStarted ==
    ASSUME NEW s \in Seq(Line)
    PROVE  BlocksOf(s, Claude!Starts)
               = BlocksOf(s, {"payload_start"}) \cup BlocksOf(s, {"other_start"})
  BY DEF BlocksOf, Claude!Starts

(* A record in order leaves the protocol knowing what the longer           *)
(* conversation is: still a preamble, opened, going on, or an answer.      *)
LEMMA AcceptedByClaude ==
    ASSUME cli.vendor = "claude", NEW s \in Seq(Line), NEW r \in Line,
           r.type \in {"message", "rate_limit_event"} => r.flaw # "Field",
           NEW p, ClaudeKnows(p, s), KeepsEvidence(p, s), p.at # "Failed",
           Claude!Objection(p, r) = "None"
    PROVE  LET q == Claude!Record(p, r)
               t == Append(s, r)
           IN  ClaudeKnows(q, t) /\ KeepsEvidence(q, t)
<1>. DEFINE q == Claude!Record(p, r)
            t == Append(s, r)
<1>0. p \in ClaudeState
  BY DEF ClaudeKnows
<1>1. /\ r.flaw = "None"
      /\ p.at \in {"AwaitingInit", "Streaming"}
      /\ p.at = "AwaitingInit" => r.type \in {"init"} \cup Metadata
      /\ p.at = "Streaming" => r.type \in Between \/ IsResult(r)
      /\ p.at = "Streaming" /\ r.type \in Claude!Starts => r.index \notin Claude!Blocks(p)
      /\ p.at = "Streaming" /\ r.type = "payload_start" => p.payloads = {}
      /\ p.at = "Streaming" /\ r.type \in Claude!InBlock => r.index \in Claude!Blocks(p)
  BY <1>0, WithoutObjection
<1>2. q = Claude!Advance(p, r)
  BY DEF Claude!Record
<1>3. /\ p.at = "AwaitingInit" <=> IsPreamble(s)
      /\ p.at = "Streaming" <=> IsConversation(s)
      /\ ~IsClaudeAnswer(s)
  BY <1>1, KnownStates DEF ClaudeKnows
<1>4. p.candidate = NoDoc
  BY <1>3, <1>1, OnlyAnswersAreCut DEF KeepsEvidence
<1>5. /\ p.payloads = BlocksOf(s, {"payload_start"})
      /\ p.others = BlocksOf(s, {"other_start"})
      /\ Claude!Blocks(p) = BlocksOf(s, Claude!Starts)
  BY <1>1, BlocksAreStarted DEF ClaudeKnows, Claude!Blocks
<1>6. BlocksInOrder(t) /\ Flawless(t)
  <2>1. BlocksInOrder(s) /\ Flawless(s)
    BY <1>1, <1>3, PreambleHasNoBlocks DEF IsConversation, IsPreamble
  <2>2. BlockFits(s, r)
    BY <1>1, <1>5
       DEF BlockFits, Metadata, Claude!Starts, Claude!InBlock, Claude!Deltas
  <2>. QED  BY <1>1, <2>1, <2>2, BlocksInOrderAfter, FlawlessAfter
<1>7. IsOpened(t) <=> \/ IsOpened(s) /\ r.type \in Between
                      \/ r.type = "init" /\ \A k \in DOMAIN s : s[k].type \in Metadata
  BY OpenedAfter
<1>8. IsClaudeAnswer(t) <=> IsConversation(s) /\ IsResult(r)
  BY AnswerIsResultOfConversation
<1>9. /\ BlocksOf(t, {"payload_start"}) = IF r.type = "message_start" THEN {}
             ELSE p.payloads \cup IF r.type \in {"payload_start"} THEN {r.index} ELSE {}
      /\ BlocksOf(t, {"other_start"}) = IF r.type = "message_start" THEN {}
             ELSE p.others \cup IF r.type \in {"other_start"} THEN {r.index} ELSE {}
  <2>1. BlocksOf(t, {"payload_start"}) = IF r.type = "message_start" THEN {}
             ELSE BlocksOf(s, {"payload_start"})
                      \cup IF r.type \in {"payload_start"} THEN {r.index} ELSE {}
    BY BlocksAfter
  <2>2. BlocksOf(t, {"other_start"}) = IF r.type = "message_start" THEN {}
             ELSE BlocksOf(s, {"other_start"})
                      \cup IF r.type \in {"other_start"} THEN {r.index} ELSE {}
    BY BlocksAfter
  <2>. QED  BY <1>5, <2>1, <2>2
<1>10. /\ Cuts(t) = {} <=> ~IsCut(r)
       /\ Cuts(t) # {} => EvidenceOf(t) = r.doc
  BY <1>1, <1>3, EvidenceAfter
<1>11. /\ DOMAIN s = 1..Len(s) /\ DOMAIN t = 1..Len(s) + 1 /\ Len(s) \in Nat
       /\ \A k \in 1..Len(s) : t[k] = s[k]
       /\ t[Len(s) + 1] = r
  BY Grown
<1>. HIDE DEF t
<1>12. IsResult(r) => /\ r.type = "result" /\ r.doc # NoDoc
                      /\ Claude!CandidateOf(r) = r.doc /\ IsCut(r)
  BY DEF IsResult, Claude!CandidateOf, IsCut, Claude!Results
<1>13. CASE p.at = "Streaming" /\ IsResult(r)
  <2>1. q \in ClaudeState /\ q.at = "Finished" /\ q.candidate = r.doc
    BY <1>0, <1>2, <1>12, <1>13, AdvanceEffect
  <2>2. IsClaudeAnswer(t)
    BY <1>3, <1>8, <1>13
  <2>. HIDE DEF q
  <2>3. ClaudeKnows(q, t)
    BY <2>1, <2>2 DEF ClaudeKnows
  <2>4. KeepsEvidence(q, t)
    BY <2>1, <1>10, <1>12, <1>13 DEF KeepsEvidence
  <2>. QED  BY <2>3, <2>4 DEF q, t
<1>14. CASE p.at = "Streaming" /\ r.type \in Between
  <2>1. r.type \notin {"init", "result", "failed_result"}
    BY <1>14 DEF Between, Metadata, Claude!StreamEvents
  <2>2. /\ q \in ClaudeState /\ q.at = "Streaming" /\ q.candidate = NoDoc
        /\ q.payloads = BlocksOf(t, {"payload_start"})
        /\ q.others = BlocksOf(t, {"other_start"})
    BY <1>0, <1>2, <1>4, <1>9, <1>14, <2>1, AdvanceEffect
  <2>3. IsConversation(t) /\ ~IsClaudeAnswer(t)
    BY <1>3, <1>6, <1>7, <1>8, <1>12, <1>14, <2>1 DEF IsConversation
  <2>4. ~IsCut(r)
    BY <1>1, <2>1 DEF IsCut, Claude!Results
  <2>. HIDE DEF q
  <2>5. ClaudeKnows(q, t)
    BY <2>2, <2>3 DEF ClaudeKnows
  <2>6. KeepsEvidence(q, t)
    BY <2>2, <2>4, <1>10 DEF KeepsEvidence
  <2>. QED  BY <2>5, <2>6 DEF q, t
<1>15. CASE p.at = "AwaitingInit"
  <2>1. r.type \notin {"result", "failed_result", "message_start", "payload_start", "other_start"}
    BY <1>1, <1>15 DEF Metadata
  <2>2. /\ q \in ClaudeState /\ q.candidate = NoDoc
        /\ q.at = IF r.type = "init" THEN "Streaming" ELSE "AwaitingInit"
        /\ q.payloads = BlocksOf(t, {"payload_start"})
        /\ q.others = BlocksOf(t, {"other_start"})
    BY <1>0, <1>2, <1>4, <1>9, <1>15, <2>1, AdvanceEffect
  <2>3. ~IsClaudeAnswer(t)
    BY <1>8, <1>12, <2>1
  <2>4. r.type = "init" => IsConversation(t)
    BY <1>3, <1>6, <1>7, <1>15 DEF IsConversation, IsPreamble
  <2>5. r.type # "init" => IsPreamble(t)
    BY <1>1, <1>3, <1>6, <1>11, <1>15 DEF IsPreamble
  <2>6. ~IsCut(r)
    BY <1>1, <2>1 DEF IsCut, Claude!Results
  <2>. HIDE DEF q
  <2>7. ClaudeKnows(q, t)
    BY <2>2, <2>3, <2>4, <2>5 DEF ClaudeKnows
  <2>8. KeepsEvidence(q, t)
    BY <2>2, <2>6, <1>10 DEF KeepsEvidence
  <2>. QED  BY <2>7, <2>8 DEF q, t
<1>. QED  BY <1>1, <1>13, <1>14, <1>15

(* Either way the protocol knows the longer conversation.                  *)
LEMMA ClaudeTakesRecord ==
    ASSUME cli.vendor = "claude", NEW s \in Seq(Line), NEW r \in Line,
           r.type \in {"message", "rate_limit_event"} => r.flaw # "Field",
           NEW p, ClaudeKnows(p, s), KeepsEvidence(p, s), p.at # "Failed"
    PROVE  LET q == Claude!Record(p, r)
               t == Append(s, r)
           IN  ClaudeKnows(q, t) /\ KeepsEvidence(q, t)
  BY AcceptedByClaude, RefusedByClaude

----------------------------------------------------------------------------
(***************************************************************************)
(* One record of Codex.                                                    *)
(***************************************************************************)
(* What is in order, and what it leads to.                                 *)
CodexStep(at, type, next) ==
    \/ at = "AwaitingThread" /\ type = "thread" /\ next = "AwaitingTurn"
    \/ at = "AwaitingTurn" /\ type = "turn" /\ next = "AwaitingCandidate"
    \/ at = "AwaitingCandidate" /\ type = "agent_message" /\ next = "Candidate"
    \/ at = "Candidate" /\ type = "completed" /\ next = "Completed"

(* Codex takes the one record that is next and refuses all others, keeping *)
(* what it has.                                                            *)
LEMMA CodexTakesInOrder ==
    ASSUME NEW r \in Line, NEW p \in CodexState, p.at # "Failed"
    PROVE  LET q == Codex!Record(p, r)
           IN  \/ /\ r.flaw = "None" /\ CodexStep(p.at, r.type, q.at)
                  /\ q \in CodexState
                  /\ q.candidate = IF r.type = "agent_message" THEN r.doc ELSE p.candidate
               \/ /\ \A next : r.flaw = "None" => ~CodexStep(p.at, r.type, next)
                  /\ q \in CodexState /\ q.at = "Failed" /\ q.candidate = p.candidate
<1>. DEFINE q == Codex!Record(p, r)
            types == {"thread", "turn", "agent_message", "completed"}
<1>1. DOMAIN Codex!InOrder = types
  BY DEF Codex!InOrder
<1>2. /\ Codex!InOrder["thread"] = "AwaitingThread" /\ Codex!InOrder["turn"] = "AwaitingTurn"
      /\ Codex!InOrder["agent_message"] = "AwaitingCandidate"
      /\ Codex!InOrder["completed"] = "Candidate"
  BY DEF Codex!InOrder
<1>3. /\ Codex!After["thread"] = "AwaitingTurn" /\ Codex!After["turn"] = "AwaitingCandidate"
      /\ Codex!After["agent_message"] = "Candidate" /\ Codex!After["completed"] = "Completed"
  BY DEF Codex!After
<1>4. Codex!Objection(p, r) = "None"
          <=> r.flaw = "None" /\ r.type \in types /\ p.at = Codex!InOrder[r.type]
  <2>1. r.flaw # "None" => Codex!Objection(p, r) # "None"
    BY DEF Codex!Objection
  <2>2. r.flaw = "None" /\ r.type \notin types => Codex!Objection(p, r) # "None"
    BY <1>1 DEF Codex!Objection
  <2>3. ASSUME r.flaw = "None", r.type \in types
        PROVE  Codex!Objection(p, r) = "None" <=> p.at = Codex!InOrder[r.type]
    <3>1. CASE r.type \in {"thread", "turn"}
      BY <1>1, <2>3, <3>1 DEF Codex!Objection
    <3>2. CASE r.type = "agent_message"
      BY <1>1, <1>2, <2>3, <3>2 DEF Codex!Objection
    <3>3. CASE r.type = "completed"
      BY <1>1, <1>2, <2>3, <3>3 DEF Codex!Objection
    <3>. QED  BY <2>3, <3>1, <3>2, <3>3
  <2>. QED  BY <2>1, <2>2, <2>3
<1>5. r.doc \in Document \cup {NoDoc}
  BY DEF Line
<1>6. CASE Codex!Objection(p, r) = "None"
  <2>. DEFINE d == IF r.type = "agent_message" THEN r.doc ELSE p.candidate
              a == Codex!After[r.type]
  <2>1. q = [p EXCEPT !.at = a, !.candidate = d]
    BY <1>6 DEF Codex!Record, Codex!Advance
  <2>2. CodexStep(p.at, r.type, a) /\ r.flaw = "None"
    BY <1>2, <1>3, <1>4, <1>6 DEF CodexStep
  <2>3. a \in {"AwaitingTurn", "AwaitingCandidate", "Candidate", "Completed"}
    BY <2>2 DEF CodexStep
  <2>4. d \in Document \cup {NoDoc}
    BY <1>5 DEF CodexState
  <2>. HIDE DEF q, a, d
  <2>5. q \in CodexState /\ q.at = a /\ q.candidate = d
    BY <2>1, <2>3, <2>4 DEF CodexState
  <2>. QED  BY <2>2, <2>5 DEF q, d
<1>7. CASE Codex!Objection(p, r) # "None"
  <2>1. q = [p EXCEPT !.at = "Failed"]
    BY <1>7 DEF Codex!Record
  <2>. HIDE DEF q
  <2>2. q \in CodexState /\ q.at = "Failed" /\ q.candidate = p.candidate
    BY <2>1 DEF CodexState
  <2>3. \A next : r.flaw = "None" => ~CodexStep(p.at, r.type, next)
    BY <1>2, <1>4, <1>7 DEF CodexStep
  <2>. QED  BY <2>2, <2>3 DEF q
<1>. QED  BY <1>6, <1>7

(* An answer of Codex is its four records in their order, with a document  *)
(* that is JSON.                                                           *)
LEMMA CodexAnswer ==
    ASSUME NEW s \in Seq(Line)
    PROVE  IsCodexAnswer(s) <=> Len(s) = 4 /\ CodexInOrder(s) /\ s[3].doc.json
<1>1. DOMAIN s = 1..Len(s)
  OBVIOUS
<1>2. CodexOrder[1] = "thread" /\ CodexOrder[2] = "turn" /\ CodexOrder[3] = "agent_message"
      /\ CodexOrder[4] = "completed" /\ DOMAIN CodexOrder = 1..4
  BY DEF CodexOrder
<1>3. ASSUME Len(s) = 4
      PROVE  [k \in DOMAIN s |-> s[k].type] = <<"thread", "turn", "agent_message", "completed">>
                 <=> \A k \in DOMAIN s : s[k].type = CodexOrder[k]
  <2>1. DOMAIN s = 1..4
    BY <1>1, <1>3
  <2>2. CodexOrder = [k \in 1..4 |-> CodexOrder[k]]
    BY <1>2 DEF CodexOrder
  <2>3. [k \in 1..4 |-> s[k].type] = [k \in 1..4 |-> CodexOrder[k]]
            <=> \A k \in 1..4 : s[k].type = CodexOrder[k]
    OBVIOUS
  <2>. QED  BY <2>1, <2>2, <2>3 DEF CodexOrder
<1>. QED  BY <1>3 DEF IsCodexAnswer, CodexInOrder, Flawless

(* The document is the text of the third record, if that is the message.   *)
LEMMA CodexEvidence ==
    ASSUME cli.vendor # "claude", NEW s \in Seq(Line)
    PROVE  /\ Cuts(s) = IF /\ Len(s) > 2 /\ s[3].type = "agent_message" /\ s[3].flaw = "None"
                           /\ s[1].type = "thread" /\ s[2].type = "turn"
                        THEN {3} ELSE {}
           /\ Cuts(s) # {} => EvidenceOf(s) = s[3].doc
<1>1. Len(s) \in Nat /\ DOMAIN s = 1..Len(s)
  OBVIOUS
<1>2. Cuts(s) = IF /\ Len(s) > 2 /\ s[3].type = "agent_message" /\ s[3].flaw = "None"
                   /\ s[1].type = "thread" /\ s[2].type = "turn"
                THEN {3} ELSE {}
  BY <1>1 DEF Cuts
<1>3. Min({3}) = 3
  BY LeastOfOne
<1>. QED  BY <1>2, <1>3 DEF EvidenceOf

(* One record more, and the protocol of Codex knows the longer             *)
(* conversation.                                                           *)
LEMMA CodexTakesRecord ==
    ASSUME cli.vendor # "claude", NEW s \in Seq(Line), NEW r \in Line,
           r.type = "agent_message" /\ r.flaw = "None" => r.doc # NoDoc,
           NEW p, CodexKnows(p, s), KeepsEvidence(p, s), p.at # "Failed"
    PROVE  LET q == Codex!Record(p, r)
               t == Append(s, r)
           IN  CodexKnows(q, t) /\ KeepsEvidence(q, t)
<1>. DEFINE q == Codex!Record(p, r)
            t == Append(s, r)
            n == Len(s)
<1>1. /\ p \in CodexState /\ n = CodexPlace[p.at] /\ CodexInOrder(s)
  BY DEF CodexKnows
<1>2. /\ t \in Seq(Line) /\ n \in Nat /\ Len(t) = n + 1
      /\ DOMAIN s = 1..n /\ DOMAIN t = 1..n + 1
      /\ \A k \in 1..n : t[k] = s[k]
      /\ t[n + 1] = r
  BY Grown
<1>3. /\ CodexOrder[1] = "thread" /\ CodexOrder[2] = "turn"
      /\ CodexOrder[3] = "agent_message" /\ CodexOrder[4] = "completed"
  BY DEF CodexOrder
<1>4. \/ p.at = "AwaitingThread" /\ n = 0
      \/ p.at = "AwaitingTurn" /\ n = 1
      \/ p.at = "AwaitingCandidate" /\ n = 2
      \/ p.at = "Candidate" /\ n = 3
      \/ p.at = "Completed" /\ n = 4
  <2>1. p.at \in {"AwaitingThread", "AwaitingTurn", "AwaitingCandidate", "Candidate", "Completed"}
    BY <1>1 DEF CodexState
  <2>2. /\ CodexPlace["AwaitingThread"] = 0 /\ CodexPlace["AwaitingTurn"] = 1
        /\ CodexPlace["AwaitingCandidate"] = 2 /\ CodexPlace["Candidate"] = 3
        /\ CodexPlace["Completed"] = 4
    BY DEF CodexPlace
  <2>3. n = CodexPlace[p.at]
    BY <1>1
  <2>. HIDE DEF n
  <2>. QED  BY <2>1, <2>2, <2>3
<1>5. CodexInOrder(t) <=> r.flaw = "None" /\ r.type = CodexOrder[n + 1]
  BY <1>1, <1>2 DEF CodexInOrder, Flawless
<1>6. /\ Cuts(s) = IF n > 2 THEN {3} ELSE {}
      /\ n > 2 => EvidenceOf(s) = s[3].doc
  <2>1. n > 2 => s[1].type = "thread" /\ s[2].type = "turn" /\ s[3].type = "agent_message"
                 /\ s[3].flaw = "None"
    BY <1>1, <1>2, <1>3 DEF CodexInOrder, Flawless
  <2>. QED  BY <2>1, CodexEvidence
<1>7. /\ Cuts(t) = IF n > 2 \/ (n = 2 /\ r.type = "agent_message" /\ r.flaw = "None")
                   THEN {3} ELSE {}
      /\ n > 2 => EvidenceOf(t) = s[3].doc
      /\ n = 2 /\ r.type = "agent_message" /\ r.flaw = "None" => EvidenceOf(t) = r.doc
  <2>1. n > 1 => t[1].type = "thread" /\ t[2].type = "turn"
    BY <1>1, <1>2, <1>3 DEF CodexInOrder
  <2>2. n > 2 => t[3] = s[3] /\ s[3].type = "agent_message" /\ s[3].flaw = "None"
    BY <1>1, <1>2, <1>3 DEF CodexInOrder, Flawless
  <2>3. n = 2 => t[3] = r
    BY <1>2
  <2>4. /\ Cuts(t) = IF /\ n + 1 > 2 /\ t[3].type = "agent_message" /\ t[3].flaw = "None"
                        /\ t[1].type = "thread" /\ t[2].type = "turn"
                     THEN {3} ELSE {}
        /\ Cuts(t) # {} => EvidenceOf(t) = t[3].doc
    BY <1>2, CodexEvidence
  <2>. QED  BY <1>2, <2>1, <2>2, <2>3, <2>4
<1>8. IF n > 2 THEN p.candidate = s[3].doc /\ p.candidate # NoDoc ELSE p.candidate = NoDoc
  BY <1>6, <1>2 DEF KeepsEvidence
<1>9. \/ /\ r.flaw = "None" /\ CodexStep(p.at, r.type, q.at)
         /\ q \in CodexState
         /\ q.candidate = IF r.type = "agent_message" THEN r.doc ELSE p.candidate
      \/ /\ \A next : r.flaw = "None" => ~CodexStep(p.at, r.type, next)
         /\ q \in CodexState /\ q.at = "Failed" /\ q.candidate = p.candidate
  BY <1>1, CodexTakesInOrder
<1>. HIDE DEF q, t
<1>10. CASE /\ r.flaw = "None" /\ CodexStep(p.at, r.type, q.at)
            /\ q \in CodexState
            /\ q.candidate = IF r.type = "agent_message" THEN r.doc ELSE p.candidate
  <2>0. \/ n = 0 /\ r.type = "thread" /\ q.at = "AwaitingTurn"
        \/ n = 1 /\ r.type = "turn" /\ q.at = "AwaitingCandidate"
        \/ n = 2 /\ r.type = "agent_message" /\ q.at = "Candidate"
        \/ n = 3 /\ r.type = "completed" /\ q.at = "Completed"
    <3>1. CodexStep(p.at, r.type, q.at)
      BY <1>10
    <3>. HIDE DEF n
    <3>. QED  BY <1>4, <3>1 DEF CodexStep
  <2>1. q.at # "Failed" /\ Len(t) = CodexPlace[q.at] /\ r.type = CodexOrder[n + 1]
    <3>1. /\ CodexPlace["AwaitingTurn"] = 1 /\ CodexPlace["AwaitingCandidate"] = 2
          /\ CodexPlace["Candidate"] = 3 /\ CodexPlace["Completed"] = 4
      BY DEF CodexPlace
    <3>2. Len(t) = n + 1
      BY <1>2
    <3>. HIDE DEF n
    <3>. QED  BY <1>3, <2>0, <3>1, <3>2
  <2>2. CodexKnows(q, t)
    BY <1>5, <1>10, <2>1 DEF CodexKnows
  <2>3. r.type = "agent_message" <=> n = 2
    <3>. HIDE DEF n
    <3>. QED  BY <2>0
  <2>4. KeepsEvidence(q, t)
    BY <1>2, <1>7, <1>8, <1>10, <2>3 DEF KeepsEvidence
  <2>. QED  BY <2>2, <2>4 DEF q, t
<1>11. CASE /\ \A next : r.flaw = "None" => ~CodexStep(p.at, r.type, next)
            /\ q \in CodexState /\ q.at = "Failed" /\ q.candidate = p.candidate
  <2>1. ~(r.flaw = "None" /\ n < 4 /\ r.type = CodexOrder[n + 1])
    <3>1. r.flaw = "None" => /\ ~CodexStep(p.at, r.type, "AwaitingTurn")
                             /\ ~CodexStep(p.at, r.type, "AwaitingCandidate")
                             /\ ~CodexStep(p.at, r.type, "Candidate")
                             /\ ~CodexStep(p.at, r.type, "Completed")
      BY <1>11
    <3>. HIDE DEF n
    <3>2. ASSUME r.flaw = "None", n < 4, r.type = CodexOrder[n + 1]
          PROVE  FALSE
      BY <1>3, <1>4, <3>1, <3>2 DEF CodexStep
    <3>. QED  BY <3>2
  <2>2. ~IsCodexAnswer(t)
    BY <1>2, <1>5, <2>1, CodexAnswer
  <2>3. CodexKnows(q, t)
    BY <1>11, <2>2 DEF CodexKnows
  <2>4. ~(n = 2 /\ r.type = "agent_message" /\ r.flaw = "None")
    <3>1. n = 2 => n < 4 /\ n + 1 = 3
      OBVIOUS
    <3>. QED  BY <1>3, <2>1, <3>1
  <2>5. KeepsEvidence(q, t)
    BY <1>2, <1>7, <1>8, <1>11, <2>4 DEF KeepsEvidence
  <2>. QED  BY <2>3, <2>5 DEF q, t
<1>. QED  BY <1>9, <1>10, <1>11

----------------------------------------------------------------------------
(***************************************************************************)
(* The records delivered.                                                  *)
(***************************************************************************)
LEMMA Records ==
    ASSUME GenerationTypeOK
    PROVE  /\ cli.vendor \in {"claude", "codex"}
           /\ cli.records \in Seq(Line)
           /\ Delivered \in Seq(Line) /\ Len(Delivered) = taken
           /\ taken \in Nat
  BY GenerationAssumption DEF GenerationTypeOK, Delivered

(* The record that is next is well formed, and is appended to what was     *)
(* delivered.                                                              *)
LEMMA NextRecord ==
    ASSUME GenerationTypeOK, taken < Len(cli.records), taken' = taken + 1, UNCHANGED cli
    PROVE  LET r == cli.records[taken + 1]
           IN  /\ r \in Line
               /\ r.type \in {"message", "rate_limit_event"} => r.flaw # "Field"
               /\ r.type = "agent_message" /\ r.flaw = "None" => r.doc # NoDoc
               /\ Delivered' = Append(Delivered, r)
               /\ taken' \in 0..Len(cli.records)
<1>1. taken \in Nat /\ cli \in Conversations /\ cli.records \in Seq(Line)
  BY Records DEF GenerationTypeOK
<1>2. taken + 1 \in DOMAIN cli.records
  BY <1>1
<1>3. cli.records[taken + 1] \in Line
  BY <1>1, <1>2
<1>4. Delivered' = Append(Delivered, cli.records[taken + 1])
  <2>1. Delivered' = SubSeq(cli.records, 1, taken + 1)
    BY DEF Delivered
  <2>2. SubSeq(cli.records, 1, taken + 1)
            = Append(SubSeq(cli.records, 1, taken), cli.records[taken + 1])
    BY <1>1, <1>2, SubSeqRecursiveSecond
  <2>. QED  BY <2>1, <2>2 DEF Delivered
<1>. QED  BY <1>1, <1>2, <1>3, <1>4, GenerationAssumption

(* Nothing the others do changes what the protocol knows.                  *)
LEMMA ProtocolRests ==
    ASSUME ProtocolKnows, UNCHANGED <<cli, taken, protocol>>
    PROVE  ProtocolKnows'
<1>1. Delivered' = Delivered
  BY DEF Delivered
<1>. QED  BY <1>1 DEF ProtocolKnows, KeepsEvidence, Cuts, EvidenceOf

(* The worker feeds each record to the protocol once, in order.            *)
LEMMA ProtocolTakesRecord ==
    ASSUME IInv, TakeRecord
    PROVE  ProtocolKnows' /\ GenerationTypeOK'
<1>. DEFINE r == cli.records[taken + 1]
            q == IF cli.vendor = "claude" THEN Claude!Record(protocol, r)
                 ELSE Codex!Record(protocol, r)
            t == Append(Delivered, r)
<1>1. /\ taken < Len(cli.records) /\ taken' = taken + 1
      /\ protocol.at # "Failed" /\ protocol' = q
      /\ UNCHANGED <<cli, pc, cancelled, transport>>
  BY DEF TakeRecord
<1>2. /\ r \in Line
      /\ r.type \in {"message", "rate_limit_event"} => r.flaw # "Field"
      /\ r.type = "agent_message" /\ r.flaw = "None" => r.doc # NoDoc
      /\ Delivered' = t
      /\ taken' \in 0..Len(cli.records)
  BY <1>1, NextRecord DEF IInv
<1>3. Delivered \in Seq(Line)
  BY Records DEF IInv
<1>. HIDE DEF r
<1>0. GenerationTypeOK'
  BY <1>1, <1>2 DEF IInv, GenerationTypeOK
<1>6. KeepsEvidence(q, t) => KeepsEvidence(protocol, Delivered)'
  <2>. HIDE DEF q, t
  <2>. QED  BY <1>1, <1>2 DEF KeepsEvidence, Cuts, EvidenceOf
<1>4. CASE cli.vendor = "claude"
  <2>1. ClaudeKnows(protocol, Delivered) /\ KeepsEvidence(protocol, Delivered)
    BY <1>4 DEF IInv, ProtocolKnows
  <2>2. ClaudeKnows(Claude!Record(protocol, r), t) /\ KeepsEvidence(Claude!Record(protocol, r), t)
    BY <1>1, <1>2, <1>3, <1>4, <2>1, ClaudeTakesRecord
  <2>3. ClaudeKnows(q, t) /\ KeepsEvidence(q, t)
    BY <1>4, <2>2
  <2>. HIDE DEF q, t
  <2>. QED  BY <1>0, <1>1, <1>2, <1>4, <1>6, <2>3 DEF ProtocolKnows
<1>5. CASE cli.vendor # "claude"
  <2>1. CodexKnows(protocol, Delivered) /\ KeepsEvidence(protocol, Delivered)
    BY <1>5 DEF IInv, ProtocolKnows
  <2>2. CodexKnows(Codex!Record(protocol, r), t) /\ KeepsEvidence(Codex!Record(protocol, r), t)
    BY <1>1, <1>2, <1>3, <1>5, <2>1, CodexTakesRecord
  <2>3. CodexKnows(q, t) /\ KeepsEvidence(q, t)
    BY <1>5, <2>2
  <2>. HIDE DEF q, t
  <2>. QED  BY <1>0, <1>1, <1>2, <1>5, <1>6, <2>3 DEF ProtocolKnows
<1>. QED  BY <1>4, <1>5

----------------------------------------------------------------------------
(***************************************************************************)
(* The worker.                                                             *)
(***************************************************************************)
(* At the end of the records the protocol is right about them.             *)
LEMMA ProtocolIsRight ==
    ASSUME GenerationTypeOK, ProtocolKnows
    PROVE  /\ Finished.ok <=> IsAnswer(Delivered)
           /\ Finished.ok => Candidate = AnswerOf(Delivered) /\ Candidate # NoDoc
           /\ Candidate = NoDoc <=> Cuts(Delivered) = {}
           /\ Candidate # NoDoc => Candidate = EvidenceOf(Delivered)
           /\ Candidate # NoDoc => Candidate \in Document
           /\ taken = 0 => Cuts(Delivered) = {}
<1>. DEFINE s == Delivered
<1>1. /\ s \in Seq(Line) /\ Len(s) = taken /\ DOMAIN s = 1..taken
      /\ cli.vendor \in {"claude", "codex"}
  BY Records
<1>2. /\ Candidate = NoDoc <=> Cuts(s) = {}
      /\ Candidate # NoDoc => Candidate = EvidenceOf(s)
  BY DEF ProtocolKnows, KeepsEvidence, Candidate
<1>3. taken = 0 => Cuts(s) = {}
  <2>1. Cuts(s) \subseteq DOMAIN s
    BY DEF Cuts
  <2>. QED  BY <1>1, <2>1
<1>. HIDE DEF s
<1>4. CASE cli.vendor = "claude"
  <2>1. ClaudeKnows(protocol, s) /\ protocol \in ClaudeState
    BY <1>4 DEF ProtocolKnows, ClaudeKnows, s
  <2>2. Finished.ok <=> IsClaudeAnswer(s)
    BY <1>4, <2>1 DEF Finished, Claude!Finish, ClaudeKnows
  <2>3. IsClaudeAnswer(s) => /\ Cuts(s) # {} /\ EvidenceOf(s) = Last(s).doc
    BY <1>1, <1>4, OnlyAnswersAreCut
  <2>. QED  BY <1>2, <1>3, <1>4, <2>1, <2>2, <2>3 DEF IsAnswer, AnswerOf, Candidate, ClaudeState, s
<1>5. CASE cli.vendor = "codex"
  <2>1. /\ CodexKnows(protocol, s) /\ protocol \in CodexState
        /\ cli.vendor # "claude"
    BY <1>5 DEF ProtocolKnows, CodexKnows, s
  <2>2. Finished.ok <=> protocol.at = "Completed" /\ Candidate.json
    BY <2>1 DEF Finished, Codex!Finish, Candidate
  <2>3. Len(s) = 4 /\ CodexInOrder(s) => Cuts(s) = {3} /\ EvidenceOf(s) = s[3].doc
    <3>1. /\ CodexOrder[1] = "thread" /\ CodexOrder[2] = "turn"
          /\ CodexOrder[3] = "agent_message"
      BY DEF CodexOrder
    <3>2. Len(s) = 4 /\ CodexInOrder(s) =>
              /\ s[1].type = "thread" /\ s[2].type = "turn"
              /\ s[3].type = "agent_message" /\ s[3].flaw = "None"
      BY <1>1, <3>1 DEF CodexInOrder, Flawless
    <3>. QED  BY <1>1, <2>1, <3>2, CodexEvidence
  <2>4. protocol.at = "Completed" <=> Len(s) = 4 /\ CodexInOrder(s) /\ protocol.at # "Failed"
    <3>1. /\ CodexPlace["AwaitingThread"] = 0 /\ CodexPlace["AwaitingTurn"] = 1
          /\ CodexPlace["AwaitingCandidate"] = 2 /\ CodexPlace["Candidate"] = 3
          /\ CodexPlace["Completed"] = 4
      BY DEF CodexPlace
    <3>2. protocol.at \in {"AwaitingThread", "AwaitingTurn", "AwaitingCandidate", "Candidate",
                            "Completed", "Failed"}
      BY <2>1 DEF CodexState
    <3>3. protocol.at # "Failed" => Len(s) = CodexPlace[protocol.at] /\ CodexInOrder(s)
      BY <2>1 DEF CodexKnows
    <3>4. ASSUME protocol.at # "Failed", Len(s) = 4
          PROVE  protocol.at = "Completed"
      BY <3>1, <3>2, <3>3, <3>4
    <3>5. protocol.at = "Completed" => Len(s) = 4 /\ CodexInOrder(s)
      BY <3>1, <3>3
    <3>. QED  BY <3>4, <3>5
  <2>5. IsCodexAnswer(s) => protocol.at # "Failed"
    BY <2>1 DEF CodexKnows
  <2>6. IsCodexAnswer(s) <=> Len(s) = 4 /\ CodexInOrder(s) /\ s[3].doc.json
    BY <1>1, CodexAnswer
  <2>7. Len(s) = 4 /\ CodexInOrder(s) => Candidate = s[3].doc /\ Candidate # NoDoc
    BY <1>2, <2>3
  <2>8. Finished.ok <=> IsCodexAnswer(s)
    BY <2>2, <2>4, <2>5, <2>6, <2>7
  <2>. QED  BY <1>2, <1>3, <2>1, <2>6, <2>7, <2>8 DEF IsAnswer, AnswerOf, Candidate, CodexState, s
<1>. QED  BY <1>1, <1>4, <1>5

(* A new protocol knows the empty conversation.                            *)
LEMMA InitEstablishes == Init => IInv
<1>. SUFFICES ASSUME Init PROVE IInv
  OBVIOUS
<1>1. cli \in Conversations /\ cli.vendor \in {"claude", "codex"} /\ cli.records \in Seq(Line)
      /\ taken = 0
  BY GenerationAssumption DEF Init
<1>2. GenerationTypeOK
  <2>1. taken \in 0..Len(cli.records)
    BY <1>1
  <2>. QED  BY <1>1, <2>1 DEF Init, GenerationTypeOK, Stages
<1>3. Delivered = <<>> /\ DOMAIN Delivered = {} /\ Delivered \in Seq(Line) /\ Len(Delivered) = 0
  BY <1>1 DEF Delivered
<1>4. Cuts(Delivered) = {}
  BY <1>3 DEF Cuts
<1>5. CASE cli.vendor = "claude"
  <2>1. protocol = Claude!NewClaude
    BY <1>5 DEF Init
  <2>2. /\ protocol \in ClaudeState /\ protocol.at = "AwaitingInit"
        /\ protocol.payloads = {} /\ protocol.others = {} /\ protocol.candidate = NoDoc
    BY <2>1, NewIsClaudeState DEF Claude!NewClaude
  <2>3. /\ IsPreamble(Delivered) /\ ~IsClaudeAnswer(Delivered)
        /\ BlocksOf(Delivered, {"payload_start"}) = {} /\ BlocksOf(Delivered, {"other_start"}) = {}
    BY <1>3 DEF IsPreamble, Flawless, IsClaudeAnswer, BlocksOf
  <2>4. ProtocolKnows
    BY <1>4, <1>5, <2>2, <2>3 DEF ProtocolKnows, ClaudeKnows, KeepsEvidence
  <2>. QED  BY <1>1, <1>2, <2>4 DEF IInv, Init, StagesInOrder, AnswerIsAhead, AnswerIsEarned
<1>6. CASE cli.vendor = "codex"
  <2>1. protocol = Codex!NewCodex
    BY <1>6 DEF Init
  <2>2. protocol \in CodexState /\ protocol.at = "AwaitingThread" /\ protocol.candidate = NoDoc
    BY <2>1 DEF CodexState, Codex!NewCodex
  <2>3. CodexInOrder(Delivered) /\ CodexPlace["AwaitingThread"] = 0
    BY <1>3 DEF CodexInOrder, Flawless, CodexPlace
  <2>4. ProtocolKnows
    BY <1>3, <1>4, <1>6, <2>2, <2>3 DEF ProtocolKnows, CodexKnows, KeepsEvidence
  <2>. QED  BY <1>1, <1>2, <2>4 DEF IInv, Init, StagesInOrder, AnswerIsAhead, AnswerIsEarned
<1>. QED  BY <1>1, <1>5, <1>6

----------------------------------------------------------------------------
(***************************************************************************)
(* What a return must look like.                                           *)
(***************************************************************************)
Earned ==
    /\ transport = "Success" /\ SubscriptionAuth(cli)
    /\ IsAnswer(Delivered) /\ AnswerOf(Delivered).usable

Fair(kind, raw) ==
    /\ kind = "Ok" => Earned /\ raw = AnswerOf(Delivered).text
    /\ Earned /\ ~cancelled => kind = "Ok"
    /\ kind # "Ok" => IF Cuts(Delivered) # {} THEN raw = EvidenceOf(Delivered).text
                      ELSE raw \in {<<>>, fragments}

(* A return that is fair ends the run in order.                            *)
LEMMA FairReturn ==
    ASSUME IInv, NEW kind, NEW raw, Return(kind, raw), Fair(kind, raw),
           UNCHANGED <<cli, cancelled, taken, protocol, transport, fragments>>
    PROVE  IInv'
<1>1. Delivered' = Delivered
  BY DEF Delivered
<1>2. GenerationTypeOK' /\ StagesInOrder' /\ AnswerIsAhead'
  BY DEF IInv, Return, GenerationTypeOK, StagesInOrder, AnswerIsAhead, Stages
<1>3. ProtocolKnows'
  BY ProtocolRests DEF IInv
<1>4. AnswerIsEarned'
  <2>1. answer'.kind = kind /\ answer'.raw = raw
    BY DEF Return
  <2>2. /\ SubscriptionAuth(cli)' <=> SubscriptionAuth(cli)
        /\ IsAnswer(Delivered)' <=> IsAnswer(Delivered)
        /\ AnswerOf(Delivered)' = AnswerOf(Delivered)
        /\ Cuts(Delivered)' = Cuts(Delivered)
        /\ EvidenceOf(Delivered)' = EvidenceOf(Delivered)
    BY <1>1 DEF IsAnswer, AnswerOf, Cuts, EvidenceOf
  <2>. QED  BY <2>1, <2>2 DEF AnswerIsEarned, Fair, Earned
<1>. QED  BY <1>2, <1>3, <1>4 DEF IInv

(* What is kept when there is no answer.                                   *)
LEMMA EvidenceIsKept ==
    ASSUME GenerationTypeOK, ProtocolKnows, NEW default \in {<<>>, fragments}
    PROVE  IF Cuts(Delivered) # {} THEN Raw(default) = EvidenceOf(Delivered).text
           ELSE Raw(default) \in {<<>>, fragments}
  BY ProtocolIsRight DEF Raw

(* A step between.                                                         *)
LEMMA StepOn ==
    ASSUME IInv, pc' \in Stages \ {"done"}, cancelled' \in BOOLEAN,
           UNCHANGED <<cli, taken, protocol>>, transport' \in Outcomes \cup {"None"},
           StagesInOrder', AnswerIsAhead'
    PROVE  IInv'
<1>1. GenerationTypeOK'
  BY DEF IInv, GenerationTypeOK
<1>2. ProtocolKnows'
  BY ProtocolRests DEF IInv
<1>3. AnswerIsEarned'
  BY DEF AnswerIsEarned
<1>. QED  BY <1>1, <1>2, <1>3 DEF IInv

----------------------------------------------------------------------------
(***************************************************************************)
(* Every step.                                                             *)
(***************************************************************************)
LEMMA CancelPreserves == IInv /\ Cancel => IInv'
<1>. SUFFICES ASSUME IInv, Cancel PROVE IInv'
  OBVIOUS
<1>1. /\ ~cancelled /\ pc # "done" /\ cancelled' = TRUE
      /\ UNCHANGED <<cli, pc, taken, protocol, transport>>
  BY DEF Cancel
<1>2. StagesInOrder' /\ AnswerIsAhead'
  BY <1>1 DEF IInv, StagesInOrder, AnswerIsAhead, Finished, Candidate
<1>. QED  BY <1>1, <1>2, StepOn DEF IInv, GenerationTypeOK

(* Nothing was heard yet, and nothing was earned.                          *)
LEMMA EarlyReturn ==
    ASSUME IInv, transport = "None", taken = 0, NEW kind, kind # "Ok"
    PROVE  Fair(kind, <<>>)
<1>1. Cuts(Delivered) = {}
  BY ProtocolIsRight DEF IInv
<1>. QED  BY <1>1 DEF Fair, Earned

(* No failure is an answer; without a child, or a word from it, the        *)
(* backend is unavailable.                                                 *)
LEMMA FailureIsNoAnswer ==
    ASSUME NEW outcome, NEW silent \in BOOLEAN
    PROVE  /\ FailureKind(outcome, silent) # "Ok"
           /\ FailureKind(outcome, silent) = "Unavailable" =>
                  outcome = "Spawn" \/ (outcome = "NonzeroExit" /\ silent)
<1>1. CASE outcome \in {"Cancelled", "Timeout"}
  <2>1. FailureKind(outcome, silent) = outcome
    BY <1>1 DEF FailureKind
  <2>. QED  BY <1>1, <2>1
<1>2. CASE outcome = "Spawn"
  BY <1>2 DEF FailureKind
<1>3. CASE outcome = "NonzeroExit" /\ silent
  BY <1>3 DEF FailureKind
<1>4. CASE outcome \notin {"Cancelled", "Timeout", "Spawn"} /\ ~(outcome = "NonzeroExit" /\ silent)
  BY <1>4 DEF FailureKind
<1>. QED  BY <1>1, <1>2, <1>3, <1>4

(* The login is confirmed, or nothing was earned.                          *)
LEMMA ConnectPreserves == IInv /\ Connect => IInv'
<1>. SUFFICES ASSUME IInv, Connect PROVE IInv'
  OBVIOUS
<1>1. /\ pc = "connecting" /\ transport = "None" /\ taken = 0
      /\ UNCHANGED <<cli, cancelled, taken, protocol, hearing, transport>>
  BY DEF Connect, IInv, StagesInOrder
<1>2. \A kind : kind # "Ok" => Fair(kind, <<>>)
  BY <1>1, EarlyReturn
<1>3. ASSUME NEW kind, kind # "Ok", Return(kind, <<>>)
      PROVE  IInv'
  BY <1>1, <1>2, <1>3, FairReturn DEF hearing
<1>4. CASE Return("Cancelled", <<>>) \/ Return("Unavailable", <<>>)
  BY <1>3, <1>4
<1>5. ASSUME NEW outcome, Return(FailureKind(outcome, TRUE), <<>>)
      PROVE  IInv'
  BY <1>3, <1>5, FailureIsNoAnswer
<1>6. CASE SubscriptionAuth(cli) /\ pc' = "connected"
  <2>1. StagesInOrder' /\ AnswerIsAhead'
    BY <1>1, <1>6 DEF StagesInOrder, AnswerIsAhead
  <2>. QED  BY <1>1, <1>6, <2>1, StepOn DEF IInv, GenerationTypeOK, Stages
<1>. QED  BY <1>4, <1>5, <1>6 DEF Connect

(* The request is prepared, or nothing was earned.                         *)
LEMMA PreparePreserves == IInv /\ Prepare => IInv'
<1>. SUFFICES ASSUME IInv, Prepare PROVE IInv'
  OBVIOUS
<1>1. /\ pc = "connected" /\ transport = "None" /\ taken = 0 /\ SubscriptionAuth(cli)
      /\ UNCHANGED <<cli, cancelled, taken, protocol, hearing, transport>>
  BY DEF Prepare, IInv, StagesInOrder
<1>2. ASSUME NEW kind, kind # "Ok", Return(kind, <<>>)
      PROVE  IInv'
  BY <1>1, <1>2, EarlyReturn, FairReturn DEF hearing
<1>3. CASE Return("Cancelled", <<>>) \/ Return("Unavailable", <<>>)
  BY <1>2, <1>3
<1>4. CASE pc' = "running"
  <2>1. StagesInOrder' /\ AnswerIsAhead'
    BY <1>1, <1>4 DEF StagesInOrder, AnswerIsAhead
  <2>. QED  BY <1>1, <1>4, <2>1, StepOn DEF IInv, GenerationTypeOK, Stages
<1>. QED  BY <1>3, <1>4 DEF Prepare

(* While the child runs, only the protocol learns something.               *)
LEMMA TakeRecordPreserves == IInv /\ TakeRecord => IInv'
<1>. SUFFICES ASSUME IInv, TakeRecord PROVE IInv'
  OBVIOUS
<1>1. pc = "running" /\ UNCHANGED <<cli, pc, cancelled, transport>>
  BY DEF TakeRecord
<1>2. StagesInOrder' /\ AnswerIsAhead' /\ AnswerIsEarned'
  BY <1>1 DEF IInv, StagesInOrder, AnswerIsAhead, AnswerIsEarned
<1>. QED  BY <1>2, ProtocolTakesRecord DEF IInv

(* The end of the child decides nothing yet.                               *)
LEMMA TransportEndsPreserves == IInv /\ TransportEnds => IInv'
<1>. SUFFICES ASSUME IInv, TransportEnds PROVE IInv'
  OBVIOUS
<1>1. /\ pc = "running" /\ pc' = "ended"
      /\ transport' \in Outcomes
      /\ transport' = "Spawn" => taken = 0
      /\ UNCHANGED <<cli, cancelled, taken, protocol>>
  BY DEF TransportEnds, Outcomes
<1>2. StagesInOrder' /\ AnswerIsAhead'
  BY <1>1 DEF IInv, StagesInOrder, AnswerIsAhead, Outcomes
<1>. QED  BY <1>1, <1>2, StepOn DEF IInv, GenerationTypeOK, Stages

(* A failed transport, a cancellation and an incomplete conversation keep  *)
(* the evidence there is; only a complete one goes on.                     *)
LEMMA ReconcilePreserves == IInv /\ Reconcile => IInv'
<1>. SUFFICES ASSUME IInv, Reconcile PROVE IInv'
  OBVIOUS
<1>. DEFINE kind == FailureKind(transport, taken = 0)
            kept == IF kind = "Unavailable" THEN fragments
                    ELSE Raw(IF kind = "Transport" THEN <<>> ELSE fragments)
<1>1. /\ pc = "ended" /\ SubscriptionAuth(cli)
      /\ UNCHANGED <<cli, cancelled, taken, protocol, hearing, transport>>
  BY DEF Reconcile, IInv, StagesInOrder
<1>2. \/ TransportFailed /\ Return(kind, kept)
      \/ ~TransportFailed /\ cancelled /\ Return("Cancelled", Raw(fragments))
      \/ ~TransportFailed /\ ~Finished.ok /\ Return("Transport", Raw(<<>>))
      \/ ~TransportFailed /\ Finished.ok /\ pc' \in {"answered", "unsaid"}
  BY DEF Reconcile
<1>3. GenerationTypeOK /\ ProtocolKnows
  BY DEF IInv
<1>4. CASE TransportFailed /\ Return(kind, kept)
  <2>1. kind # "Ok" /\ (kind = "Unavailable" => taken = 0)
    <3>1. kind = "Unavailable" => transport = "Spawn" \/ taken = 0
      BY FailureIsNoAnswer
    <3>. QED  BY <3>1, FailureIsNoAnswer DEF IInv, StagesInOrder
  <2>2. IF Cuts(Delivered) # {} THEN kept = EvidenceOf(Delivered).text
        ELSE kept \in {<<>>, fragments}
    <3>1. CASE kind = "Unavailable"
      BY <1>3, <2>1, <3>1, ProtocolIsRight
    <3>2. CASE kind # "Unavailable"
      BY <1>3, <3>2, EvidenceIsKept
    <3>. QED  BY <3>1, <3>2
  <2>. HIDE DEF kind, kept
  <2>3. Fair(kind, kept)
    BY <1>4, <2>1, <2>2 DEF Fair, Earned, TransportFailed
  <2>. QED  BY <1>1, <1>4, <2>3, FairReturn DEF hearing
<1>5. CASE ~TransportFailed /\ cancelled /\ Return("Cancelled", Raw(fragments))
  <2>1. Fair("Cancelled", Raw(fragments))
    BY <1>3, <1>5, EvidenceIsKept DEF Fair
  <2>. QED  BY <1>1, <1>5, <2>1, FairReturn DEF hearing
<1>6. CASE ~TransportFailed /\ ~Finished.ok /\ Return("Transport", Raw(<<>>))
  <2>1. Fair("Transport", Raw(<<>>))
    BY <1>3, <1>6, EvidenceIsKept, ProtocolIsRight DEF Fair, Earned
  <2>. QED  BY <1>1, <1>6, <2>1, FairReturn DEF hearing
<1>7. CASE ~TransportFailed /\ Finished.ok /\ pc' \in {"answered", "unsaid"}
  <2>1. StagesInOrder' /\ AnswerIsAhead'
    BY <1>1, <1>7
       DEF IInv, StagesInOrder, AnswerIsAhead, TransportFailed, Finished, Candidate
  <2>. QED  BY <1>1, <1>7, <2>1, StepOn DEF IInv, GenerationTypeOK, Stages
<1>. QED  BY <1>2, <1>4, <1>5, <1>6, <1>7

(* A complete answer that is not taken is evidence.                        *)
LEMMA AnswerAhead ==
    ASSUME IInv, pc \in {"unsaid", "answered", "told"}
    PROVE  /\ transport = "Success" /\ SubscriptionAuth(cli) /\ IsAnswer(Delivered)
           /\ Candidate = AnswerOf(Delivered)
           /\ Candidate.usable => Earned
           /\ Cuts(Delivered) # {} /\ Candidate = EvidenceOf(Delivered)
<1>1. /\ transport = "Success" /\ Finished.ok /\ SubscriptionAuth(cli)
      /\ GenerationTypeOK /\ ProtocolKnows
  BY DEF IInv, StagesInOrder, AnswerIsAhead
<1>. QED  BY <1>1, ProtocolIsRight DEF Earned

(* A cancellation that comes after the answer was complete keeps it as     *)
(* evidence.                                                               *)
LEMMA LateCancellation ==
    ASSUME IInv, pc \in {"unsaid", "answered", "told"}, cancelled
    PROVE  Fair("Cancelled", Candidate.text)
  BY AnswerAhead DEF Fair

(* Forwarding the answer does not change it.                               *)
LEMMA ForwardWholePreserves == IInv /\ ForwardWhole => IInv'
<1>. SUFFICES ASSUME IInv, ForwardWhole PROVE IInv'
  OBVIOUS
<1>1. /\ pc = "unsaid"
      /\ UNCHANGED <<cli, cancelled, taken, protocol, transport>>
  BY DEF ForwardWhole
<1>2. CASE cancelled
  <2>1. Return("Cancelled", Candidate.text) /\ fragments' = fragments
    BY <1>2 DEF ForwardWhole, hearing
  <2>. QED  BY <1>1, <1>2, <2>1, LateCancellation, FairReturn
<1>3. CASE ~cancelled
  <2>1. pc' = "answered"
    BY <1>3 DEF ForwardWhole
  <2>2. StagesInOrder' /\ AnswerIsAhead'
    BY <1>1, <2>1 DEF IInv, StagesInOrder, AnswerIsAhead, Finished, Candidate
  <2>. QED  BY <1>1, <2>1, <2>2, StepOn DEF IInv, GenerationTypeOK, Stages
<1>4. cancelled \in BOOLEAN
  BY DEF IInv, GenerationTypeOK
<1>. QED  BY <1>2, <1>3, <1>4

(* Only a document of the right shape goes on.                             *)
LEMMA DecodePreserves == IInv /\ Decode => IInv'
<1>. SUFFICES ASSUME IInv, Decode PROVE IInv'
  OBVIOUS
<1>1. /\ pc = "answered"
      /\ UNCHANGED <<cli, cancelled, taken, protocol, fragments, transport>>
  BY DEF Decode
<1>2. \/ cancelled /\ Return("Cancelled", Candidate.text)
      \/ ~cancelled /\ ~Candidate.usable /\ Return("InvalidResponse", Candidate.text)
      \/ ~cancelled /\ Candidate.usable /\ pc' = "told"
  BY DEF Decode
<1>3. CASE cancelled /\ Return("Cancelled", Candidate.text)
  BY <1>1, <1>3, LateCancellation, FairReturn
<1>4. CASE ~cancelled /\ ~Candidate.usable /\ Return("InvalidResponse", Candidate.text)
  <2>1. Fair("InvalidResponse", Candidate.text)
    BY <1>1, <1>4, AnswerAhead DEF Fair, Earned
  <2>. QED  BY <1>1, <1>4, <2>1, FairReturn
<1>5. CASE ~cancelled /\ Candidate.usable /\ pc' = "told"
  <2>1. StagesInOrder' /\ AnswerIsAhead'
    BY <1>1, <1>5 DEF IInv, StagesInOrder, AnswerIsAhead, Finished, Candidate
  <2>. QED  BY <1>1, <1>5, <2>1, StepOn DEF IInv, GenerationTypeOK, Stages
<1>. QED  BY <1>2, <1>3, <1>4, <1>5

(* The last look at the token decides.                                     *)
LEMMA HandOverPreserves == IInv /\ HandOver => IInv'
<1>. SUFFICES ASSUME IInv, HandOver PROVE IInv'
  OBVIOUS
<1>1. /\ pc = "told" /\ Candidate.usable
      /\ UNCHANGED <<cli, cancelled, taken, protocol, fragments, transport>>
  BY DEF HandOver, hearing, IInv, AnswerIsAhead
<1>2. cancelled \in BOOLEAN
  BY DEF IInv, GenerationTypeOK
<1>3. CASE cancelled
  <2>1. Return("Cancelled", Candidate.text)
    BY <1>3 DEF HandOver
  <2>. QED  BY <1>1, <1>3, <2>1, LateCancellation, FairReturn
<1>4. CASE ~cancelled
  <2>1. Return("Ok", Candidate.text)
    BY <1>4 DEF HandOver
  <2>2. Fair("Ok", Candidate.text)
    BY <1>1, AnswerAhead DEF Fair
  <2>. QED  BY <1>1, <2>1, <2>2, FairReturn
<1>. QED  BY <1>2, <1>3, <1>4

(* Every step of the worker and of the canceller preserves the invariant.  *)
LEMMA NextPreserves == IInv /\ [Next]_vars => IInv'
<1>. SUFFICES ASSUME IInv, [Next]_vars PROVE IInv'
  OBVIOUS
<1>1. CASE UNCHANGED vars
  <2>1. UNCHANGED <<cli, pc, cancelled, taken, protocol, transport, answer>>
        /\ UNCHANGED fragments
    BY <1>1 DEF vars, hearing
  <2>2. ProtocolKnows' /\ Delivered' = Delivered
    BY <2>1, ProtocolRests DEF IInv, Delivered
  <2>3. GenerationTypeOK' /\ StagesInOrder' /\ AnswerIsAhead'
    BY <2>1 DEF IInv, GenerationTypeOK, StagesInOrder, AnswerIsAhead, Finished, Candidate
  <2>4. AnswerIsEarned'
    BY <2>1, <2>2 DEF IInv, AnswerIsEarned, IsAnswer, AnswerOf, Cuts, EvidenceOf
  <2>. QED  BY <2>2, <2>3, <2>4 DEF IInv
<1>. QED  BY <1>1, CancelPreserves, ConnectPreserves, PreparePreserves, TakeRecordPreserves,
             TransportEndsPreserves, ReconcilePreserves, ForwardWholePreserves, DecodePreserves,
             HandOverPreserves DEF Next

(* What the protocols know of the records and the worker of the answer is  *)
(* an invariant of every conversation, with any cancellation and any end   *)
(* of the child.                                                           *)
THEOREM Invariance == Spec => []IInv
  BY InitEstablishes, NextPreserves, PTL DEF Spec

(* An answer is returned for exactly the conversations that are one, and   *)
(* it is that of the result; what is returned instead keeps the document   *)
(* that was received (claude_cli/adapter.rs reconcile, codex_cli's, and    *)
(* engine.rs generate).                                                    *)
THEOREM AnswersAreEarned == Spec => []AnswerIsEarned
<1>1. IInv => AnswerIsEarned
  BY DEF IInv
<1>. QED  BY <1>1, Invariance, PTL

----------------------------------------------------------------------------
(***************************************************************************)
(* Cancellation, for any number of cancellers and subscribers.             *)
(***************************************************************************)

----------------------------------------------------------------------------
(***************************************************************************)
(* The inductive invariant.  A callback is in one place: its own slot, its *)
(* own place in the one batch that was taken, or nowhere any more.         *)
(***************************************************************************)
(* There are no slots any more once they were taken or forgotten.          *)
SlotsAreOpen == flag \/ ~alive => notifiers = <<>>

(* A slot holds the callback that was given this slot, not yet called.     *)
SlotsAreOwned ==
    \A i \in DOMAIN notifiers : \A s \in Subscribers :
        notifiers[i] = s =>
            subscriber[s].slot = i /\ subscriber[s].step \in Registered /\ calls[s] = 0

(* Until the cancellation, whoever is registered has its slot.             *)
SlotsAreKept ==
    ~flag /\ alive =>
        \A s \in Subscribers :
            subscriber[s].step \in Registered =>
                /\ subscriber[s].slot \in DOMAIN notifiers
                /\ notifiers[subscriber[s].slot] = s

(* Nobody calls before the cancellation.                                   *)
IdleAtFirst ==
    \A c \in Cancellers :
        /\ ~flag => canceller[c].step = "idle"
        /\ canceller[c].step = "idle" => canceller[c].batch = <<>> /\ canceller[c].next = 1

(* Only the first cancellation takes callbacks.                            *)
OneBatch ==
    \A c, d \in Cancellers :
        canceller[c].batch # <<>> /\ canceller[d].batch # <<>> => c = d

(* A batch holds each callback in the place of its slot: called if it is   *)
(* behind, and not yet called if it is ahead.                              *)
BatchIsOwned ==
    \A c \in Cancellers : \A i \in DOMAIN canceller[c].batch : \A s \in Subscribers :
        canceller[c].batch[i] = s =>
            /\ subscriber[s].slot = i
            /\ subscriber[s].step \in Registered \cup {"late"}
            /\ calls[s] = IF i < canceller[c].next THEN 1 ELSE 0

(* Those without a slot yet or any more were not called.                   *)
CallsAreCounted ==
    \A s \in Subscribers :
        /\ subscriber[s].step \in {"new", "calling", "removed"} => calls[s] = 0
        /\ calls[s] <= 1

(* Who calls its own callback found the flag set.                          *)
LateFoundTheFlag ==
    \A s \in Subscribers : subscriber[s].step = "calling" => flag

Placed ==
    /\ TypeOK
    /\ LateFoundTheFlag
    /\ SlotsAreOpen
    /\ SlotsAreOwned
    /\ SlotsAreKept
    /\ IdleAtFirst
    /\ OneBatch
    /\ BatchIsOwned
    /\ CallsAreCounted
    /\ NoLostWakeup

----------------------------------------------------------------------------
(***************************************************************************)
(* What the typing says of the parts.                                      *)
(***************************************************************************)
(* The parts of what a call of cancel is doing.                            *)
LEMMA CancellerFields ==
    ASSUME TypeOK, NEW c \in Cancellers
    PROVE  /\ canceller[c] \in CancellerState
           /\ canceller[c].step \in {"idle", "calling", "returned", "unwound"}
           /\ canceller[c].batch \in Seq(Subscribers \cup {NoCallback})
           /\ canceller[c].next \in Nat \ {0}
           /\ canceller[c].panicked \in BOOLEAN
<1>1. canceller[c] \in CancellerState
  BY DEF TypeOK
<1>2. QED
  BY <1>1 DEF CancellerState

(* The same for subscribers.                                               *)
LEMMA SubscriberFields ==
    ASSUME TypeOK, NEW s \in Subscribers
    PROVE  /\ subscriber[s] \in SubscriberState
           /\ subscriber[s].step \in {"new", "calling", "removed", "late", "unwound", "held", "kept"}
           /\ subscriber[s].scoped \in BOOLEAN
           /\ subscriber[s].slot \in Nat
           /\ calls[s] \in Nat
<1>1. subscriber[s] \in SubscriberState /\ calls[s] \in Nat
  BY DEF TypeOK
<1>2. QED
  BY <1>1 DEF SubscriberState, Registered

(* The slot found for a new callback is empty or behind the last one.      *)
LEMMA FreeSlotIsFree ==
    ASSUME TypeOK
    PROVE  \/ FreeSlot = Len(notifiers) + 1
           \/ FreeSlot \in DOMAIN notifiers /\ notifiers[FreeSlot] = NoCallback
<1>1. notifiers \in Seq(Subscribers \cup {NoCallback})
  BY DEF TypeOK
<1>2. CASE FreeSlots = {}
  BY <1>2 DEF FreeSlot
<1>3. CASE FreeSlots # {}
  <2>1. FreeSlots \subseteq Nat
    BY <1>1 DEF FreeSlots
  <2>2. PICK x \in FreeSlots : \A y \in FreeSlots : ~ (<<y, x>> \in OpToRel(<, Nat))
    BY <1>3, <2>1, NatLessThanWellFounded, WFMin
  <2>3. \A y \in FreeSlots : x <= y
    <3>1. \A y \in FreeSlots : y \in Nat /\ x \in Nat /\ ~(y < x)
      BY <2>1, <2>2, Zenon DEF OpToRel
    <3>2. QED
      BY <3>1
  <2>4. FreeSlot \in FreeSlots
    BY <1>3, <2>3 DEF FreeSlot
  <2>5. QED
    BY <1>1, <2>4 DEF FreeSlots
<1>4. QED
  BY <1>2, <1>3

----------------------------------------------------------------------------
(***************************************************************************)
(* The steps.                                                              *)
(***************************************************************************)
(* At first nobody is registered and nothing was taken.                    *)
LEMMA Initially == CancellationInit => Placed
<1>1. SUFFICES ASSUME CancellationInit PROVE Placed
  OBVIOUS
<1>2. \A s \in Subscribers :
          /\ subscriber[s] \in SubscriberState
          /\ subscriber[s].step = "new" /\ calls[s] = 0
  BY <1>1 DEF CancellationInit, SubscriberState, NoSlot
<1>3. \A c \in Cancellers :
          /\ canceller[c] \in CancellerState
          /\ canceller[c].step = "idle" /\ canceller[c].batch = <<>> /\ canceller[c].next = 1
  <2>1. <<>> \in Seq(Subscribers \cup {NoCallback}) /\ 1 \in Nat \ {0}
    OBVIOUS
  <2>2. [step |-> "idle", batch |-> <<>>, next |-> 1, panicked |-> FALSE] \in CancellerState
    BY <2>1, Zenon DEF CancellerState
  <2>3. QED
    BY <1>1, <2>2 DEF CancellationInit
<1>4. TypeOK
  <2>1. notifiers \in Seq(Subscribers \cup {NoCallback})
    BY <1>1 DEF CancellationInit
  <2>2. subscriber \in [Subscribers -> SubscriberState]
    BY <1>1, <1>2 DEF CancellationInit
  <2>3. canceller \in [Cancellers -> CancellerState]
    BY <1>1, <1>3 DEF CancellationInit
  <2>4. calls \in [Subscribers -> Nat]
    BY <1>1 DEF CancellationInit
  <2>5. QED
    BY <1>1, <2>1, <2>2, <2>3, <2>4 DEF CancellationInit, TypeOK
<1>5. SlotsAreOpen /\ SlotsAreOwned /\ LateFoundTheFlag
  BY <1>1, <1>2 DEF CancellationInit, SlotsAreOpen, SlotsAreOwned, LateFoundTheFlag
<1>6. SlotsAreKept /\ CallsAreCounted /\ NoLostWakeup
  BY <1>1, <1>2 DEF CancellationInit, SlotsAreKept, CallsAreCounted, NoLostWakeup, Registered
<1>7. IdleAtFirst /\ OneBatch /\ BatchIsOwned
  BY <1>3 DEF IdleAtFirst, OneBatch, BatchIsOwned
<1>8. QED
  BY <1>4, <1>5, <1>6, <1>7 DEF Placed

(* Cancelling moves the slots into a batch as they are.                    *)
LEMMA BeginCancelStep ==
    ASSUME Placed, NEW c \in Cancellers, BeginCancel(c)
    PROVE  Placed'
<1> USE DEF Placed
<1>1. /\ alive /\ canceller[c].step = "idle"
      /\ canceller[c].batch = <<>> /\ canceller[c].next = 1
      /\ UNCHANGED <<alive, subscriber, calls>>
  BY DEF BeginCancel, IdleAtFirst
<1>2. CASE flag
  <2>1. /\ canceller' = [canceller EXCEPT ![c].step = "returned"]
        /\ UNCHANGED <<flag, notifiers>>
    BY <1>2 DEF BeginCancel
  <2>2. \A d \in Cancellers :
           /\ canceller'[d].batch = canceller[d].batch
           /\ canceller'[d].next = canceller[d].next
           /\ canceller'[d].step = IF d = c THEN "returned" ELSE canceller[d].step
           /\ canceller'[d] \in CancellerState
    BY <2>1, CancellerFields DEF CancellerState, TypeOK
  <2>3. TypeOK'
    BY <1>1, <2>1, <2>2 DEF TypeOK
  <2>4. NoLostWakeup'
    <3>1. \A d \in Cancellers, s \in Subscribers : Ahead(d, s) => Ahead(d, s)'
      BY <1>1, <2>2 DEF Ahead
    <3>2. QED
      BY <1>1, <2>1, <3>1 DEF NoLostWakeup
  <2>5. IdleAtFirst' /\ OneBatch' /\ BatchIsOwned'
    BY <1>1, <1>2, <2>1, <2>2 DEF IdleAtFirst, OneBatch, BatchIsOwned
  <2>6. SlotsAreOpen' /\ SlotsAreOwned' /\ SlotsAreKept' /\ CallsAreCounted' /\ LateFoundTheFlag'
    BY <1>1, <1>2, <2>1 DEF SlotsAreOpen, SlotsAreOwned, SlotsAreKept, CallsAreCounted, LateFoundTheFlag
  <2>7. QED
    BY <2>3, <2>4, <2>5, <2>6
<1>3. CASE ~flag
  <2>1. /\ flag' = TRUE /\ notifiers' = <<>>
        /\ canceller' = [canceller EXCEPT ![c].step = "calling", ![c].batch = notifiers]
    BY <1>3 DEF BeginCancel, TakeNotifiers
  <2>2. notifiers \in Seq(Subscribers \cup {NoCallback})
    BY DEF TypeOK
  <2>3. /\ canceller'[c].step = "calling" /\ canceller'[c].batch = notifiers
        /\ canceller'[c].next = 1
        /\ canceller'[c] \in CancellerState
    BY <1>1, <2>1, <2>2, CancellerFields DEF CancellerState, TypeOK
  <2>4. \A d \in Cancellers \ {c} :
           canceller'[d] = canceller[d] /\ canceller[d].batch = <<>>
    BY <1>3, <2>1 DEF IdleAtFirst, TypeOK
  <2>5. TypeOK'
    <3>1. canceller' \in [Cancellers -> CancellerState]
      BY <2>1, <2>3, <2>4 DEF TypeOK
    <3>2. notifiers' \in Seq(Subscribers \cup {NoCallback})
      BY <2>1
    <3>3. QED
      BY <1>1, <2>1, <3>1, <3>2 DEF TypeOK
  <2>6. NoLostWakeup'
    <3>1. SUFFICES ASSUME NEW s \in Subscribers, subscriber[s].step \in Registered
                   PROVE  Ahead(c, s)'
      BY <1>1 DEF NoLostWakeup
    <3>2. subscriber[s].slot \in 1..Len(notifiers) /\ notifiers[subscriber[s].slot] = s
      BY <1>1, <1>3, <2>2, <3>1 DEF SlotsAreKept
    <3>3. QED
      BY <2>3, <3>2 DEF Ahead
  <2>7. BatchIsOwned'
    <3>1. SUFFICES ASSUME NEW d \in Cancellers, NEW i \in DOMAIN canceller'[d].batch,
                          NEW s \in Subscribers, canceller'[d].batch[i] = s
                   PROVE  /\ subscriber[s].slot = i
                          /\ subscriber[s].step \in Registered
                          /\ calls[s] = 0 /\ ~(i < canceller'[d].next)
      BY <1>1 DEF BatchIsOwned
    <3>2. d = c /\ i \in DOMAIN notifiers /\ notifiers[i] = s
      BY <2>3, <2>4, <3>1
    <3>3. QED
      BY <2>2, <2>3, <3>2 DEF SlotsAreOwned
  <2>8. IdleAtFirst' /\ OneBatch'
    <3>1. IdleAtFirst'
      BY <2>1, <2>3, <2>4 DEF IdleAtFirst
    <3>2. \A d \in Cancellers : canceller'[d].batch # <<>> => d = c
      BY <2>4
    <3>3. QED
      BY <3>1, <3>2 DEF OneBatch
  <2>9. SlotsAreOpen' /\ SlotsAreOwned' /\ SlotsAreKept' /\ CallsAreCounted' /\ LateFoundTheFlag'
    BY <1>1, <2>1 DEF SlotsAreOpen, SlotsAreOwned, SlotsAreKept, CallsAreCounted, LateFoundTheFlag
  <2>10. QED
    BY <2>5, <2>6, <2>7, <2>8, <2>9
<1>4. QED
  BY <1>2, <1>3

(* A call is the first and only one of its callback, because that stands   *)
(* in one place of one batch.                                              *)
LEMMA CallNextStep ==
    ASSUME Placed, NEW c \in Cancellers, CallNext(c)
    PROVE  Placed'
<1> DEFINE k == canceller[c].next
           b == canceller[c].batch
<1>1. /\ canceller[c].step = "calling" /\ k <= Len(b)
      /\ UNCHANGED <<flag, notifiers, alive, subscriber>>
  BY DEF CallNext, HasMore, shared
<1>2. b \in Seq(Subscribers \cup {NoCallback}) /\ k \in Nat \ {0} /\ TypeOK
  BY CancellerFields DEF Placed
<1>3. k \in DOMAIN b /\ b[k] \in Subscribers \cup {NoCallback}
  BY <1>1, <1>2
<1>4. /\ canceller'[c].step = "calling" /\ canceller'[c].batch = b
      /\ canceller'[c].next = k + 1
      /\ canceller' \in [Cancellers -> CancellerState]
      /\ \A d \in Cancellers \ {c} : canceller'[d] = canceller[d]
  <2>1. CASE b[k] = NoCallback
    <3>1. canceller' = [canceller EXCEPT ![c].next = k + 1]
      BY <1>2, <2>1 DEF CallNext, TypeOK
    <3>2. k + 1 \in Nat \ {0}
      BY <1>2
    <3>3. QED
      BY <1>1, <1>2, <3>1, <3>2, CancellerFields DEF TypeOK, CancellerState
  <2>2. CASE b[k] # NoCallback
    <3>1. PICK panics \in BOOLEAN :
              canceller' = [canceller EXCEPT ![c].next = @ + 1,
                                             ![c].panicked = @ \/ panics]
      BY <2>2 DEF CallNext
    <3> DEFINE p == canceller[c].panicked \/ panics
    <3>2. canceller' = [canceller EXCEPT ![c].next = k + 1, ![c].panicked = p]
      BY <1>2, <3>1 DEF TypeOK
    <3>3. p \in BOOLEAN /\ k + 1 \in Nat \ {0}
      BY <1>2, CancellerFields
    <3> HIDE DEF p
    <3>4. QED
      BY <1>1, <1>2, <3>2, <3>3, CancellerFields DEF TypeOK, CancellerState
  <2>3. QED
    BY <2>1, <2>2
<1>5. /\ calls' \in [Subscribers -> Nat]
      /\ \A s \in Subscribers : calls'[s] = IF s = b[k] THEN calls[s] + 1 ELSE calls[s]
  <2>1. CASE b[k] = NoCallback
    BY <1>2, <2>1, NoCallbackAssumption DEF CallNext, TypeOK
  <2>2. CASE b[k] # NoCallback
    <3>1. calls' = [calls EXCEPT ![b[k]] = @ + 1]
      BY <2>2 DEF CallNext, Called
    <3>2. QED
      BY <1>2, <1>3, <2>2, <3>1 DEF TypeOK
  <2>3. QED
    BY <2>1, <2>2
<1>6. ASSUME NEW s \in Subscribers, b[k] = s
      PROVE  /\ subscriber[s].slot = k /\ calls[s] = 0
             /\ subscriber[s].step \in Registered \cup {"late"}
  BY <1>2, <1>3, <1>6 DEF Placed, BatchIsOwned
<1>7. \A d \in Cancellers \ {c} : canceller[d].batch = <<>>
  BY <1>2, <1>3 DEF Placed, OneBatch
<1>8. flag /\ notifiers = <<>>
  BY <1>1 DEF Placed, IdleAtFirst, SlotsAreOpen
<1>9. TypeOK'
  BY <1>1, <1>4, <1>5 DEF Placed, TypeOK
<1>10. BatchIsOwned'
  <2>1. SUFFICES ASSUME NEW d \in Cancellers, NEW i \in DOMAIN canceller'[d].batch,
                        NEW s \in Subscribers, canceller'[d].batch[i] = s
                 PROVE  /\ subscriber[s].slot = i
                        /\ subscriber[s].step \in Registered \cup {"late"}
                        /\ calls'[s] = IF i < canceller'[d].next THEN 1 ELSE 0
    BY <1>1 DEF BatchIsOwned
  <2>2. d = c /\ i \in DOMAIN b /\ b[i] = s
    BY <1>4, <1>7, <2>1
  <2>3. /\ subscriber[s].slot = i
        /\ subscriber[s].step \in Registered \cup {"late"}
        /\ calls[s] = IF i < k THEN 1 ELSE 0
    BY <2>2 DEF Placed, BatchIsOwned
  <2>4. s = b[k] <=> i = k
    BY <1>6, <2>2, <2>3
  <2>5. i \in Nat
    BY <1>2, <2>2
  <2>6. QED
    BY <1>2, <1>4, <1>5, <2>2, <2>3, <2>4, <2>5
<1>11. CallsAreCounted'
  <2>1. SUFFICES ASSUME NEW s \in Subscribers
                 PROVE  /\ subscriber[s].step \in {"new", "calling", "removed"} => calls'[s] = 0
                        /\ calls'[s] <= 1
    BY <1>1 DEF CallsAreCounted
  <2>2. CASE b[k] = s
    BY <1>5, <1>6, <2>2 DEF Registered
  <2>3. CASE b[k] # s
    BY <1>5, <2>3 DEF Placed, CallsAreCounted
  <2>4. QED
    BY <2>2, <2>3
<1>12. NoLostWakeup'
  <2>1. SUFFICES ASSUME NEW s \in Subscribers, subscriber[s].step \in Registered
                 PROVE  calls'[s] = 1 \/ \E d \in Cancellers : Ahead(d, s)'
    BY <1>1 DEF NoLostWakeup
  <2>2. CASE b[k] = s
    BY <1>5, <1>6, <2>2
  <2>3. CASE b[k] # s
    <3>1. CASE calls[s] = 1
      BY <1>5, <2>3, <3>1
    <3>2. CASE calls[s] # 1
      <4>1. PICK d \in Cancellers : Ahead(d, s)
        BY <1>8, <2>1, <3>2 DEF Placed, NoLostWakeup
      <4>2. d = c
        BY <1>7, <4>1, CancellerFields, <1>2 DEF Ahead
      <4>3. PICK i \in k..Len(b) : b[i] = s
        BY <4>1, <4>2 DEF Ahead
      <4>4. i \in (k + 1)..Len(b)
        BY <1>2, <2>3, <4>3
      <4>5. QED
        BY <1>4, <4>3, <4>4 DEF Ahead
    <3>3. QED
      BY <3>1, <3>2
  <2>4. QED
    BY <2>2, <2>3
<1>13. SlotsAreOpen' /\ SlotsAreOwned' /\ SlotsAreKept' /\ LateFoundTheFlag'
  BY <1>1, <1>8 DEF SlotsAreOpen, SlotsAreOwned, SlotsAreKept, LateFoundTheFlag
<1>14. IdleAtFirst' /\ OneBatch'
  BY <1>1, <1>4, <1>7, <1>8 DEF Placed, IdleAtFirst, OneBatch
<1>15. QED
  BY <1>9, <1>10, <1>11, <1>12, <1>13, <1>14 DEF Placed

(* Whoever has come to the end of the batch has nobody ahead.              *)
LEMMA EndCancelStep ==
    ASSUME Placed, NEW c \in Cancellers, EndCancel(c)
    PROVE  Placed'
<1>1. /\ canceller[c].step = "calling" /\ ~HasMore(c)
      /\ UNCHANGED <<flag, notifiers, alive, subscriber, calls>>
  BY DEF EndCancel, shared
<1>2. PICK step \in {"unwound", "returned"} :
          canceller' = [canceller EXCEPT ![c].step = step]
  BY DEF EndCancel
<1>3. /\ canceller' \in [Cancellers -> CancellerState]
      /\ \A d \in Cancellers :
             /\ canceller'[d].batch = canceller[d].batch
             /\ canceller'[d].next = canceller[d].next
             /\ canceller'[d].step = IF d = c THEN step ELSE canceller[d].step
  BY <1>2, CancellerFields DEF Placed, TypeOK, CancellerState
<1>4. TypeOK'
  BY <1>1, <1>3 DEF Placed, TypeOK
<1>5. NoLostWakeup'
  <2>1. \A d \in Cancellers, s \in Subscribers : Ahead(d, s) => Ahead(d, s)'
    <3>1. SUFFICES ASSUME NEW d \in Cancellers, NEW s \in Subscribers, Ahead(d, s)
                   PROVE  Ahead(d, s)'
      OBVIOUS
    <3>2. d # c
      BY <1>1, <3>1, CancellerFields DEF Ahead, HasMore, Placed
    <3>3. QED
      BY <1>3, <3>1, <3>2 DEF Ahead
  <2>2. QED
    BY <1>1, <2>1 DEF Placed, NoLostWakeup
<1>6. IdleAtFirst' /\ OneBatch' /\ BatchIsOwned'
  BY <1>1, <1>2, <1>3 DEF Placed, IdleAtFirst, OneBatch, BatchIsOwned
<1>7. SlotsAreOpen' /\ SlotsAreOwned' /\ SlotsAreKept' /\ CallsAreCounted' /\ LateFoundTheFlag'
  BY <1>1 DEF Placed, SlotsAreOpen, SlotsAreOwned, SlotsAreKept, CallsAreCounted, LateFoundTheFlag
<1>8. QED
  BY <1>4, <1>5, <1>6, <1>7 DEF Placed

(* A callback gets a slot that is nobody else's, or no slot at all.        *)
LEMMA RegisterStep ==
    ASSUME Placed, NEW s \in Subscribers, Register(s)
    PROVE  Placed'
<1>1. /\ alive /\ subscriber[s].step = "new" /\ calls[s] = 0
      /\ UNCHANGED <<flag, alive, canceller, calls>>
  BY DEF Register, Placed, CallsAreCounted
<1>2. TypeOK /\ notifiers \in Seq(Subscribers \cup {NoCallback})
  BY DEF Placed, TypeOK
<1>3. CASE flag
  <2>1. subscriber' = [subscriber EXCEPT ![s].step = "calling"] /\ notifiers' = notifiers
    BY <1>3 DEF Register
  <2>2. /\ subscriber' \in [Subscribers -> SubscriberState]
        /\ \A r \in Subscribers :
               /\ subscriber'[r].slot = subscriber[r].slot
               /\ subscriber'[r].step = IF r = s THEN "calling" ELSE subscriber[r].step
    BY <1>2, <2>1, SubscriberFields DEF TypeOK, SubscriberState
  <2>3. TypeOK'
    BY <1>1, <2>1, <2>2 DEF Placed, TypeOK
  <2>4. SlotsAreOpen' /\ SlotsAreOwned' /\ SlotsAreKept' /\ LateFoundTheFlag'
    BY <1>1, <1>2, <1>3, <2>1, <2>2
       DEF Placed, SlotsAreOpen, SlotsAreOwned, SlotsAreKept, LateFoundTheFlag
  <2>5. IdleAtFirst' /\ OneBatch'
    BY <1>1 DEF Placed, IdleAtFirst, OneBatch
  <2>6. BatchIsOwned'
    BY <1>1, <2>2 DEF Placed, BatchIsOwned, Registered
  <2>7. CallsAreCounted'
    BY <1>1, <2>2 DEF Placed, CallsAreCounted
  <2>8. NoLostWakeup'
    <3>1. \A d \in Cancellers, r \in Subscribers : Ahead(d, r)' = Ahead(d, r)
      BY <1>1 DEF Ahead
    <3>2. QED
      BY <1>1, <2>2, <3>1 DEF Placed, NoLostWakeup, Registered
  <2>9. QED
    BY <2>3, <2>4, <2>5, <2>6, <2>7, <2>8 DEF Placed
<1>4. CASE ~flag
  <2>1. PICK slot : slot = FreeSlot
    OBVIOUS
  <2>2. PICK step \in Registered : step = AfterRegistering(s)
    BY DEF AfterRegistering, Registered
  <2>3. /\ notifiers' = [i \in 1..(IF slot > Len(notifiers) THEN slot ELSE Len(notifiers)) |->
                            IF i = slot THEN s ELSE notifiers[i]]
        /\ subscriber' = [subscriber EXCEPT ![s].step = step, ![s].slot = slot]
    BY <1>4, <2>1, <2>2 DEF Register, PutNotifier
  <2>4. \/ slot = Len(notifiers) + 1
        \/ slot \in 1..Len(notifiers) /\ notifiers[slot] = NoCallback
    BY <1>2, <2>1, FreeSlotIsFree
  <2>5. /\ notifiers' \in Seq(Subscribers \cup {NoCallback})
        /\ slot \in DOMAIN notifiers' /\ notifiers'[slot] = s
        /\ \A i \in DOMAIN notifiers : i # slot =>
               i \in DOMAIN notifiers' /\ notifiers'[i] = notifiers[i]
        /\ \A i \in DOMAIN notifiers' : i # slot => i \in DOMAIN notifiers
        /\ slot \in Nat
    <3>1. CASE slot = Len(notifiers) + 1
      BY <1>2, <2>3, <3>1
    <3>2. CASE slot \in 1..Len(notifiers)
      <4>1. notifiers' = [i \in 1..Len(notifiers) |-> IF i = slot THEN s ELSE notifiers[i]]
        BY <1>2, <2>3, <3>2
      <4>2. \A i \in 1..Len(notifiers) : notifiers[i] \in Subscribers \cup {NoCallback}
        BY <1>2
      <4>3. notifiers' \in Seq(Subscribers \cup {NoCallback})
        BY <1>2, <4>1, <4>2
      <4>4. QED
        BY <1>2, <3>2, <4>1, <4>3
    <3>3. QED
      BY <2>4, <3>1, <3>2
  <2>6. /\ subscriber' \in [Subscribers -> SubscriberState]
        /\ \A r \in Subscribers :
               /\ subscriber'[r].slot = IF r = s THEN slot ELSE subscriber[r].slot
               /\ subscriber'[r].step = IF r = s THEN step ELSE subscriber[r].step
    <3>1. subscriber \in [Subscribers -> SubscriberState]
      BY <1>2 DEF TypeOK
    <3>2. step \in {"held", "kept"} /\ slot \in Nat
      BY <2>3, <2>5 DEF Registered
    <3>3. QED
      BY <2>3, <3>1, <3>2 DEF SubscriberState, Registered
  <2>7. TypeOK'
    BY <1>1, <2>5, <2>6 DEF Placed, TypeOK
  <2>8. SlotsAreOpen' /\ IdleAtFirst' /\ OneBatch'
    BY <1>1, <1>4 DEF Placed, SlotsAreOpen, IdleAtFirst, OneBatch
  <2>9. SlotsAreOwned'
    <3>1. SUFFICES ASSUME NEW i \in DOMAIN notifiers', NEW r \in Subscribers, notifiers'[i] = r
                   PROVE  /\ subscriber'[r].slot = i
                          /\ subscriber'[r].step \in Registered /\ calls[r] = 0
      BY <1>1 DEF SlotsAreOwned
    <3>2. CASE i = slot
      BY <1>1, <2>2, <2>5, <2>6, <3>1, <3>2
    <3>3. CASE i # slot
      <4>1. /\ subscriber[r].slot = i
            /\ subscriber[r].step \in Registered /\ calls[r] = 0
        BY <2>5, <3>1, <3>3 DEF Placed, SlotsAreOwned
      <4>2. r # s
        BY <1>1, <4>1 DEF Registered
      <4>3. QED
        BY <2>6, <4>1, <4>2
    <3>4. QED
      BY <3>2, <3>3
  <2>10. SlotsAreKept'
    <3>1. SUFFICES ASSUME NEW r \in Subscribers, subscriber'[r].step \in Registered
                   PROVE  /\ subscriber'[r].slot \in DOMAIN notifiers'
                          /\ notifiers'[subscriber'[r].slot] = r
      BY DEF SlotsAreKept
    <3>2. CASE r = s
      BY <2>5, <2>6, <3>2
    <3>3. CASE r # s
      <4>1. /\ subscriber[r].slot \in DOMAIN notifiers
            /\ notifiers[subscriber[r].slot] = r
        BY <1>1, <1>4, <2>6, <3>1, <3>3 DEF Placed, SlotsAreKept
      <4>2. subscriber[r].slot # slot
        BY <1>2, <2>4, <4>1, NoCallbackAssumption
      <4>3. QED
        BY <2>5, <2>6, <3>3, <4>1, <4>2
    <3>4. QED
      BY <3>2, <3>3
  <2>11. BatchIsOwned'
    BY <1>1, <1>4 DEF Placed, IdleAtFirst, BatchIsOwned
  <2>12. CallsAreCounted' /\ LateFoundTheFlag'
    BY <1>1, <1>4, <2>2, <2>6 DEF Placed, CallsAreCounted, LateFoundTheFlag, Registered
  <2>13. NoLostWakeup'
    BY <1>1, <1>4 DEF NoLostWakeup
  <2>14. QED
    BY <2>7, <2>8, <2>9, <2>10, <2>11, <2>12, <2>13 DEF Placed
<1>5. QED
  BY <1>3, <1>4

(* Who comes late is in no batch and no slot.                              *)
LEMMA CallAtOnceStep ==
    ASSUME Placed, NEW s \in Subscribers, CallAtOnce(s)
    PROVE  Placed'
<1>1. /\ subscriber[s].step = "calling" /\ calls[s] = 0
      /\ UNCHANGED <<flag, notifiers, alive, canceller>>
      /\ calls' = [calls EXCEPT ![s] = @ + 1]
  BY DEF CallAtOnce, Called, shared, Placed, CallsAreCounted
<1>2. PICK step \in Registered \cup {"unwound"} :
          subscriber' = [subscriber EXCEPT ![s].step = step]
  BY DEF CallAtOnce, AfterRegistering, Registered
<1>3. /\ subscriber' \in [Subscribers -> SubscriberState]
      /\ \A r \in Subscribers :
             /\ subscriber'[r].slot = subscriber[r].slot
             /\ subscriber'[r].step = IF r = s THEN step ELSE subscriber[r].step
  BY <1>2, SubscriberFields DEF Placed, TypeOK, SubscriberState
<1>4. /\ calls' \in [Subscribers -> Nat]
      /\ \A r \in Subscribers : calls'[r] = IF r = s THEN 1 ELSE calls[r]
  BY <1>1 DEF Placed, TypeOK
<1>5. TypeOK'
  BY <1>1, <1>3, <1>4 DEF Placed, TypeOK
<1>6. SlotsAreOpen' /\ IdleAtFirst' /\ OneBatch'
  BY <1>1 DEF Placed, SlotsAreOpen, IdleAtFirst, OneBatch
<1>7. SlotsAreOwned'
  BY <1>1, <1>3, <1>4 DEF Placed, SlotsAreOwned, Registered
<1>8. BatchIsOwned'
  BY <1>1, <1>3, <1>4 DEF Placed, BatchIsOwned, Registered
<1>9. CallsAreCounted'
  BY <1>2, <1>3, <1>4 DEF Placed, CallsAreCounted, Registered
<1>10. SlotsAreKept' /\ LateFoundTheFlag'
  BY <1>1 DEF Placed, SlotsAreKept, LateFoundTheFlag
<1>11. NoLostWakeup'
  <2>1. \A d \in Cancellers, r \in Subscribers : Ahead(d, r)' = Ahead(d, r)
    BY <1>1 DEF Ahead
  <2>2. QED
    BY <1>1, <1>3, <1>4, <2>1 DEF Placed, NoLostWakeup
<1>12. QED
  BY <1>5, <1>6, <1>7, <1>8, <1>9, <1>10, <1>11 DEF Placed

(* A registration dropped in time takes its own callback along, and one    *)
(* dropped late nobody's.                                                  *)
LEMMA DropRegistrationStep ==
    ASSUME Placed, NEW s \in Subscribers, DropRegistration(s)
    PROVE  Placed'
<1>1. /\ subscriber[s].step = "held"
      /\ UNCHANGED <<flag, alive, canceller, calls>>
  BY DEF DropRegistration
<1>2. TypeOK /\ notifiers \in Seq(Subscribers \cup {NoCallback})
  BY DEF Placed, TypeOK
<1>3. ASSUME NEW step \in {"removed", "late"},
             subscriber' = [subscriber EXCEPT ![s].step = step]
      PROVE  /\ subscriber' \in [Subscribers -> SubscriberState]
             /\ \A r \in Subscribers :
                    /\ subscriber'[r].slot = subscriber[r].slot
                    /\ subscriber'[r].step = IF r = s THEN step ELSE subscriber[r].step
  BY <1>2, <1>3, SubscriberFields DEF TypeOK, SubscriberState
<1>4. \A d \in Cancellers, r \in Subscribers : Ahead(d, r)' = Ahead(d, r)
  BY <1>1 DEF Ahead
<1>5. IdleAtFirst' /\ OneBatch'
  BY <1>1 DEF Placed, IdleAtFirst, OneBatch
<1>6. CASE StillThere(s)
  <2> DEFINE k == subscriber[s].slot
  <2>1. /\ notifiers' = [notifiers EXCEPT ![k] = NoCallback]
        /\ subscriber' = [subscriber EXCEPT ![s].step = "removed"]
    BY <1>6 DEF DropRegistration
  <2>2. /\ subscriber' \in [Subscribers -> SubscriberState]
        /\ \A r \in Subscribers :
               /\ subscriber'[r].slot = subscriber[r].slot
               /\ subscriber'[r].step = IF r = s THEN "removed" ELSE subscriber[r].step
    BY <1>3, <2>1
  <2>3. alive /\ k \in 1..Len(notifiers) /\ ~flag
    BY <1>2, <1>6 DEF StillThere, Placed, SlotsAreOpen
  <2>4. notifiers[k] = s /\ calls[s] = 0
    BY <1>1, <1>2, <2>3 DEF Placed, SlotsAreKept, SlotsAreOwned, Registered
  <2>5. /\ notifiers' \in Seq(Subscribers \cup {NoCallback})
        /\ DOMAIN notifiers' = DOMAIN notifiers
        /\ \A i \in DOMAIN notifiers :
               notifiers'[i] = IF i = k THEN NoCallback ELSE notifiers[i]
    BY <1>2, <2>1, <2>3
  <2>6. TypeOK'
    BY <1>1, <2>2, <2>5 DEF Placed, TypeOK
  <2>7. SlotsAreOwned'
    <3>1. SUFFICES ASSUME NEW i \in DOMAIN notifiers', NEW r \in Subscribers, notifiers'[i] = r
                   PROVE  /\ subscriber'[r].slot = i
                          /\ subscriber'[r].step \in Registered /\ calls[r] = 0
      BY <1>1 DEF SlotsAreOwned
    <3>2. i # k /\ i \in DOMAIN notifiers /\ notifiers[i] = r
      BY <2>5, <3>1, NoCallbackAssumption
    <3>3. r # s
      BY <3>2 DEF Placed, SlotsAreOwned
    <3>4. QED
      BY <2>2, <3>2, <3>3 DEF Placed, SlotsAreOwned
  <2>8. SlotsAreKept'
    <3>1. SUFFICES ASSUME NEW r \in Subscribers, subscriber'[r].step \in Registered
                   PROVE  /\ subscriber'[r].slot \in DOMAIN notifiers'
                          /\ notifiers'[subscriber'[r].slot] = r
      BY DEF SlotsAreKept
    <3>2. r # s /\ subscriber[r].step \in Registered
      BY <2>2, <3>1 DEF Registered
    <3>3. subscriber[r].slot \in DOMAIN notifiers /\ notifiers[subscriber[r].slot] = r
      BY <2>3, <3>2 DEF Placed, SlotsAreKept
    <3>4. QED
      BY <2>2, <2>4, <2>5, <3>2, <3>3
  <2>9. SlotsAreOpen' /\ BatchIsOwned' /\ NoLostWakeup'
    BY <1>1, <1>5, <2>3 DEF Placed, SlotsAreOpen, IdleAtFirst, BatchIsOwned, NoLostWakeup
  <2>10. CallsAreCounted' /\ LateFoundTheFlag'
    BY <1>1, <2>2, <2>4 DEF Placed, CallsAreCounted, LateFoundTheFlag
  <2>11. QED
    BY <1>5, <2>6, <2>7, <2>8, <2>9, <2>10 DEF Placed
<1>7. CASE ~StillThere(s)
  <2>1. notifiers' = notifiers /\ subscriber' = [subscriber EXCEPT ![s].step = "late"]
    BY <1>7 DEF DropRegistration
  <2>2. /\ subscriber' \in [Subscribers -> SubscriberState]
        /\ \A r \in Subscribers :
               /\ subscriber'[r].slot = subscriber[r].slot
               /\ subscriber'[r].step = IF r = s THEN "late" ELSE subscriber[r].step
    BY <1>3, <2>1
  <2>3. TypeOK'
    BY <1>1, <2>1, <2>2 DEF Placed, TypeOK
  <2>4. SlotsAreOwned'
    <3>1. \A i \in DOMAIN notifiers : notifiers[i] # s
      <4>1. SUFFICES ASSUME NEW i \in DOMAIN notifiers, notifiers[i] = s
                     PROVE  FALSE
        OBVIOUS
      <4>2. subscriber[s].slot \in 1..Len(notifiers)
        BY <1>2, <4>1 DEF Placed, SlotsAreOwned
      <4>3. alive
        BY <1>2, <4>1 DEF Placed, SlotsAreOpen
      <4>4. QED
        BY <1>7, <4>2, <4>3 DEF StillThere
    <3>2. QED
      BY <1>1, <2>1, <2>2, <3>1 DEF Placed, SlotsAreOwned
  <2>5. SlotsAreKept'
    BY <1>1, <2>1, <2>2 DEF Placed, SlotsAreKept, Registered
  <2>6. BatchIsOwned'
    BY <1>1, <2>2 DEF Placed, BatchIsOwned, Registered
  <2>7. CallsAreCounted' /\ LateFoundTheFlag' /\ SlotsAreOpen'
    BY <1>1, <2>1, <2>2 DEF Placed, CallsAreCounted, LateFoundTheFlag, SlotsAreOpen
  <2>8. NoLostWakeup'
    BY <1>1, <1>4, <2>2 DEF Placed, NoLostWakeup, Registered
  <2>9. QED
    BY <1>5, <2>3, <2>4, <2>5, <2>6, <2>7, <2>8 DEF Placed
<1>8. QED
  BY <1>6, <1>7

(* Forgetting empties the slots and calls nobody.                          *)
LEMMA ForgetStep == Placed /\ Forget => Placed'
<1>1. SUFFICES ASSUME Placed, Forget PROVE Placed'
  OBVIOUS
<1>2. alive' = FALSE /\ notifiers' = <<>> /\ UNCHANGED <<flag, canceller, subscriber, calls>>
  BY <1>1 DEF Forget
<1>3. TypeOK'
  <2>1. notifiers' \in Seq(Subscribers \cup {NoCallback})
    BY <1>2
  <2>2. QED
    BY <1>1, <1>2, <2>1 DEF Placed, TypeOK
<1>4. SlotsAreOpen' /\ SlotsAreOwned' /\ SlotsAreKept'
  BY <1>2 DEF SlotsAreOpen, SlotsAreOwned, SlotsAreKept
<1>5. \A d \in Cancellers, r \in Subscribers : Ahead(d, r)' = Ahead(d, r)
  BY <1>2 DEF Ahead
<1>6. IdleAtFirst' /\ OneBatch' /\ BatchIsOwned'
  BY <1>1, <1>2 DEF Placed, IdleAtFirst, OneBatch, BatchIsOwned
<1>7. CallsAreCounted' /\ LateFoundTheFlag' /\ NoLostWakeup'
  BY <1>1, <1>2, <1>5 DEF Placed, CallsAreCounted, LateFoundTheFlag, NoLostWakeup
<1>8. QED
  BY <1>3, <1>4, <1>6, <1>7 DEF Placed

(* Nothing changes.                                                        *)
LEMMA StutterStep == Placed /\ UNCHANGED cancellationVars => Placed'
<1>1. SUFFICES ASSUME Placed, UNCHANGED cancellationVars PROVE Placed'
  OBVIOUS
<1>2. UNCHANGED <<flag, notifiers, alive, canceller, subscriber, calls>>
  BY <1>1 DEF cancellationVars, shared
<1>3. TypeOK' /\ SlotsAreOpen' /\ SlotsAreOwned' /\ SlotsAreKept'
  BY <1>1, <1>2 DEF Placed, TypeOK, SlotsAreOpen, SlotsAreOwned, SlotsAreKept
<1>4. IdleAtFirst' /\ OneBatch' /\ BatchIsOwned' /\ CallsAreCounted' /\ LateFoundTheFlag'
  BY <1>1, <1>2 DEF Placed, IdleAtFirst, OneBatch, BatchIsOwned, CallsAreCounted, LateFoundTheFlag
<1>5. NoLostWakeup'
  BY <1>1, <1>2 DEF Placed, NoLostWakeup, Ahead
<1>6. QED
  BY <1>3, <1>4, <1>5 DEF Placed

----------------------------------------------------------------------------
(***************************************************************************)
(* The theorems.                                                           *)
(***************************************************************************)
(* Types hold, and every callback is where its registration says: this is  *)
(* the argument the two theorems below share.                              *)
THEOREM EveryCallbackIsPlaced == CancellationSpec => []Placed
<1>1. Placed /\ [CancellationNext]_cancellationVars => Placed'
  <2>1. SUFFICES ASSUME Placed, [CancellationNext]_cancellationVars PROVE Placed'
    OBVIOUS
  <2>2. ASSUME NEW c \in Cancellers, BeginCancel(c) \/ CallNext(c) \/ EndCancel(c)
        PROVE  Placed'
    BY <2>1, <2>2, BeginCancelStep, CallNextStep, EndCancelStep
  <2>3. ASSUME NEW s \in Subscribers, Register(s) \/ CallAtOnce(s) \/ DropRegistration(s)
        PROVE  Placed'
    BY <2>1, <2>3, RegisterStep, CallAtOnceStep, DropRegistrationStep
  <2>4. CASE Forget
    BY <2>1, <2>4, ForgetStep
  <2>5. CASE UNCHANGED cancellationVars
    BY <2>1, <2>5, StutterStep
  <2>6. QED
    BY <2>1, <2>2, <2>3, <2>4, <2>5 DEF CancellationNext
<1>2. QED
  BY Initially, <1>1, PTL DEF CancellationSpec

(* No callback is called twice, and none whose registration was dropped    *)
(* in time (cancellation.rs, cancel, register and drop).                   *)
THEOREM CallsAreUnique == CancellationSpec => []CalledAtMostOnce
<1>1. Placed => CalledAtMostOnce
  <2>1. SUFFICES ASSUME Placed, NEW s \in Subscribers
                 PROVE  calls[s] <= IF subscriber[s].step = "removed" THEN 0 ELSE 1
    BY DEF CalledAtMostOnce
  <2>2. QED
    BY <2>1, SubscriberFields DEF Placed, CallsAreCounted
<1>2. QED
  BY EveryCallbackIsPlaced, <1>1, PTL

(* After the cancellation every callback that was registered has been      *)
(* called or is still ahead of whoever calls (cancellation.rs, "This       *)
(* closes the lost-wakeup case").                                          *)
THEOREM NoWakeupIsLost == CancellationSpec => []NoLostWakeup
<1>1. Placed => NoLostWakeup
  BY DEF Placed
<1>2. QED
  BY EveryCallbackIsPlaced, <1>1, PTL
=============================================================================
