----------------------------- MODULE Generation -----------------------------
(***************************************************************************)
(* One answer of a command-line generator: the login is confirmed, the     *)
(* request prepared, the records of the child read as they come, their     *)
(* text previewed, and at the end what the protocol says is reconciled     *)
(* with what became of the process and with a cancellation that may have   *)
(* come at any moment.                                                     *)
(*                                                                         *)
(* This is the worker's thread: the use case, the engine and the adapter   *)
(* below it.  The other thread only ever cancels.  What the child will say *)
(* is chosen at the beginning; it may stop saying it at any point.         *)
(*                                                                         *)
(* A document is [text, object, json, unique, raw, narrative, usable]: its *)
(* characters, whether it is an object, is JSON, has no key twice, the     *)
(* narrative the first such key holds, the trimmed narrative of the parsed *)
(* value, and whether it is an answer to what was asked.                   *)
(***************************************************************************)
EXTENDS StreamingStringField

CONSTANTS
    Field,          \* the key whose value is previewed
    Conversations,  \* what the child may say: [vendor, status, records]
    NoDoc

Claude == INSTANCE ClaudeProtocol
Codex == INSTANCE CodexProtocol

Flaw == {"None", "Bytes", "Ambiguous", "Untyped", "Field"}
Document ==
    [text : Seq(Nat), object : BOOLEAN, json : BOOLEAN, unique : BOOLEAN,
     raw : Seq(Nat), narrative : Seq(Nat), usable : BOOLEAN]
Line ==
    [type : STRING, flaw : Flaw, index : Nat, text : Seq(Nat), doc : Document \cup {NoDoc}]

(* Nothing is read of a message or of a rate limit, so no field of theirs  *)
(* can be wrong; what Codex calls a message without a text has a wrong     *)
(* field.                                                                  *)
ASSUME GenerationAssumption ==
    \A c \in Conversations :
        /\ c.vendor \in {"claude", "codex"}
        /\ c.records \in Seq(Line)
        /\ \A k \in DOMAIN c.records :
              LET r == c.records[k] IN
              /\ r.type \in {"message", "rate_limit_event"} => r.flaw # "Field"
              /\ r.type = "agent_message" /\ r.flaw = "None" => r.doc # NoDoc

VARIABLES
    cli,        \* the conversation of this run
    request,    \* "turn", or an outline or a cast, which are not previewed
    pc,         \* where the worker is
    cancelled,  \* the token
    taken,      \* records delivered
    protocol,   \* the adapter's protocol
    previewed,  \* the adapter has forwarded a fragment
    fragments,  \* all text the engine has heard
    scanner,    \* the engine's scanner
    told,       \* what the reader has been shown
    transport,  \* what the supervisor returned
    answer      \* what the worker returned

hearing == <<fragments, scanner, told>>
vars == <<cli, request, pc, cancelled, taken, protocol, previewed, hearing, transport, answer>>

Unanswered == [kind |-> "None", raw |-> <<>>]
Outcomes ==
    {"Success", "Cancelled", "Timeout", "Spawn", "NonzeroExit", "ConsumerRejected", "Io"}

Init ==
    /\ cli \in Conversations
    /\ request \in {"turn", "other"}
    /\ pc = "connecting"
    /\ cancelled = FALSE
    /\ taken = 0
    /\ protocol = IF cli.vendor = "claude" THEN Claude!NewClaude ELSE Codex!NewCodex
    /\ previewed = FALSE
    /\ fragments = <<>>
    /\ scanner = NewScanner
    /\ told = <<>>
    /\ transport = "None"
    /\ answer = Unanswered

Return(kind, raw) ==
    /\ answer' = [kind |-> kind, raw |-> raw]
    /\ pc' = "done"

Cancel ==
    /\ ~cancelled
    /\ pc # "done"
    /\ cancelled' = TRUE
    /\ UNCHANGED <<cli, request, pc, taken, protocol, previewed, hearing, transport, answer>>

----------------------------------------------------------------------------
(***************************************************************************)
(* Before the request: one preflight with the same executable.             *)
(***************************************************************************)
(* Claude reports fields, which must all be right; Codex lines, of which   *)
(* one must be the confirmation and the others a known warning.            *)
SubscriptionAuth(c) ==
    IF c.vendor = "claude"
    THEN {"loggedIn", "claude.ai", "firstParty"} \subseteq ToSet(c.status)
    ELSE /\ ToSet(c.status) \subseteq {"Logged in using ChatGPT", "WARNING"}
         /\ Len(SelectSeq(c.status, LAMBDA line : line # "WARNING")) = 1

(* A transport that failed: what the engine makes of the adapter's error.  *)
FailureKind(outcome, silent) ==
    CASE outcome \in {"Cancelled", "Timeout"} -> outcome
      [] outcome = "Spawn" -> "Unavailable"
      [] outcome = "NonzeroExit" /\ silent -> "Unavailable"
      [] OTHER -> "Transport"

(* The status command is a child like any other; what it prints is no      *)
(* answer.                                                                 *)
Connect ==
    /\ pc = "connecting"
    /\ \/ cancelled /\ Return("Cancelled", <<>>)
       \/ /\ ~cancelled
          /\ \E outcome \in Outcomes \ {"Cancelled", "ConsumerRejected", "Success"} :
                Return(FailureKind(outcome, TRUE), <<>>)
       \/ ~cancelled /\ ~SubscriptionAuth(cli) /\ Return("Unavailable", <<>>)
       \/ /\ ~cancelled /\ SubscriptionAuth(cli)
          /\ pc' = "connected"
          /\ UNCHANGED answer
    /\ UNCHANGED <<cli, request, cancelled, taken, protocol, previewed, hearing, transport>>

(* A workspace that cannot be made, or an argument the system cannot pass, *)
(* is found before any child exists.                                       *)
Prepare ==
    /\ pc = "connected"
    /\ \/ cancelled /\ Return("Cancelled", <<>>)
       \/ ~cancelled /\ Return("Unavailable", <<>>)
       \/ /\ ~cancelled
          /\ pc' = "running"
          /\ UNCHANGED answer
    /\ UNCHANGED <<cli, request, cancelled, taken, protocol, previewed, hearing, transport>>

----------------------------------------------------------------------------
(***************************************************************************)
(* While the child runs.                                                   *)
(***************************************************************************)
(* The engine keeps what it hears, and shows it unless it was cancelled.   *)
Hear(text) ==
    LET scanned == Feed(scanner, Field, text)
    IN  /\ fragments' = fragments \o text
        /\ IF cancelled \/ request # "turn" THEN UNCHANGED <<scanner, told>>
           ELSE /\ scanner' = [scanned EXCEPT !.out = <<>>]
                /\ told' = told \o scanned.out

NextFragment(record) ==
    IF cli.vendor = "claude" /\ Claude!Record(protocol, record).at # "Failed"
    THEN Claude!Fragment(protocol, record)
    ELSE <<>>

TakeRecord ==
    /\ pc = "running"
    /\ protocol.at # "Failed"
    /\ taken < Len(cli.records)
    /\ taken' = taken + 1
    /\ LET record == cli.records[taken']
           fragment == NextFragment(record)
       IN  /\ protocol' = IF cli.vendor = "claude" THEN Claude!Record(protocol, record)
                                                   ELSE Codex!Record(protocol, record)
           /\ previewed' = (previewed \/ fragment # <<>>)
           /\ Hear(fragment)
    /\ UNCHANGED <<cli, request, pc, cancelled, transport, answer>>

(* The supervisor returns.  A refused record stops the child, whose        *)
(* cleanup may fail too.                                                   *)
TransportEnds ==
    /\ pc = "running"
    /\ transport' \in IF protocol.at = "Failed" THEN {"ConsumerRejected", "Io"}
                                                ELSE Outcomes \ {"ConsumerRejected"}
    /\ transport' = "Cancelled" => cancelled
    /\ transport' = "Spawn" => taken = 0
    /\ pc' = "ended"
    /\ UNCHANGED <<cli, request, cancelled, taken, protocol, previewed, hearing, answer>>

----------------------------------------------------------------------------
(***************************************************************************)
(* The answer.                                                             *)
(***************************************************************************)
Finished == IF cli.vendor = "claude" THEN Claude!Finish(protocol) ELSE Codex!Finish(protocol)
Candidate == protocol.candidate
Raw(default) == IF Candidate = NoDoc THEN default ELSE Candidate.text

(* Mutant: a complete answer is taken whatever became of the child.        *)
TransportFailedUnanswered == transport # "Success" /\ ~Finished.ok

(* A failure of the transport comes before anything the protocol says.     *)
TransportFailed == transport # "Success"

Reconcile ==
    /\ pc = "ended"
    /\ LET kind == FailureKind(transport, taken = 0)
       IN  CASE TransportFailed ->
                   Return(kind, IF kind = "Unavailable" THEN fragments
                                ELSE Raw(IF kind = "Transport" THEN <<>> ELSE fragments))
             [] ~TransportFailed /\ cancelled -> Return("Cancelled", Raw(fragments))
             [] ~TransportFailed /\ ~cancelled /\ ~Finished.ok -> Return("Transport", Raw(<<>>))
             [] OTHER -> /\ pc' = IF previewed THEN "answered" ELSE "unsaid"
                         /\ UNCHANGED answer
    /\ UNCHANGED <<cli, request, cancelled, taken, protocol, previewed, hearing, transport>>

(* An answer without a preview is forwarded whole, once, unless it was     *)
(* cancelled meanwhile.                                                    *)
ForwardWhole ==
    /\ pc = "unsaid"
    /\ IF cancelled THEN Return("Cancelled", Candidate.text) /\ UNCHANGED hearing
       ELSE /\ Hear(Candidate.text)
            /\ pc' = "answered"
            /\ UNCHANGED answer
    /\ UNCHANGED <<cli, request, cancelled, taken, protocol, previewed, transport>>

(* What the preview did not reach.                                         *)
Remainder(narrative) ==
    IF request = "turn" /\ IsPrefix(told, narrative)
    THEN SubSeq(narrative, Len(told) + 1, Len(narrative)) ELSE <<>>

(* Decoding, and the rest of the narrative.                                *)
Decode ==
    /\ pc = "answered"
    /\ \/ cancelled /\ Return("Cancelled", Candidate.text) /\ UNCHANGED told
       \/ ~cancelled /\ ~Candidate.usable /\ Return("InvalidResponse", Candidate.text)
          /\ UNCHANGED told
       \/ /\ ~cancelled /\ Candidate.usable
          /\ told' = told \o Remainder(Candidate.narrative)
          /\ pc' = "told"
          /\ UNCHANGED answer
    /\ UNCHANGED <<cli, request, cancelled, taken, protocol, previewed, fragments, scanner,
                   transport>>

(* The last look at the token; after it the answer is the session's.       *)
HandOver ==
    /\ pc = "told"
    /\ Return(IF cancelled THEN "Cancelled" ELSE "Ok", Candidate.text)
    /\ UNCHANGED <<cli, request, cancelled, taken, protocol, previewed, hearing, transport>>

Next ==
    \/ Cancel \/ Connect \/ Prepare \/ TakeRecord \/ TransportEnds
    \/ Reconcile \/ ForwardWhole \/ Decode \/ HandOver

Spec == Init /\ [][Next]_vars

----------------------------------------------------------------------------
(***************************************************************************)
(* What an answer has to be, said of the whole conversation.               *)
(***************************************************************************)
Delivered == SubSeq(cli.records, 1, taken)

(* Records i and k are of one message.                                     *)
SameMessage(s, i, k) == \A j \in i + 1..k : s[j].type # "message_start"

BlocksInOrder(s) ==
    \A k \in DOMAIN s :
        LET before(types) == {i \in 1..k - 1 : s[i].type \in types /\ SameMessage(s, i, k)}
        IN  /\ s[k].type \in Claude!Starts =>
                   \A i \in before(Claude!Starts) : s[i].index # s[k].index
            /\ s[k].type = "payload_start" => before({"payload_start"}) = {}
            /\ s[k].type \in Claude!InBlock =>
                   \E i \in before(Claude!Starts) : s[i].index = s[k].index

Metadata == {"system", "rate_limit_event"}

(* One init, then messages, then one result with an unambiguous object.    *)
IsClaudeAnswer(s) ==
    \E init \in DOMAIN s :
        /\ \A k \in DOMAIN s : s[k].flaw = "None"
        /\ s[init].type = "init"
        /\ \A k \in 1..init - 1 : s[k].type \in Metadata
        /\ \A k \in init + 1..Len(s) - 1 :
              s[k].type \in Metadata \cup {"message"}
                               \cup (Claude!StreamEvents \ {"error", "unknown_event"})
        /\ init < Len(s)
        /\ Last(s).type = "result"
        /\ Last(s).doc # NoDoc /\ Last(s).doc.object /\ Last(s).doc.unique
        /\ BlocksInOrder(s)

IsCodexAnswer(s) ==
    /\ Len(s) = 4
    /\ \A k \in DOMAIN s : s[k].flaw = "None"
    /\ [k \in DOMAIN s |-> s[k].type] = <<"thread", "turn", "agent_message", "completed">>
    /\ s[3].doc.json

IsAnswer(s) == IF cli.vendor = "claude" THEN IsClaudeAnswer(s) ELSE IsCodexAnswer(s)
AnswerOf(s) == IF cli.vendor = "claude" THEN Last(s).doc ELSE s[3].doc

(* Records whose document came close enough to an answer to be kept as     *)
(* evidence.                                                               *)
IsCut(r) ==
    /\ r.flaw = "Ambiguous" \/ (r.type \in Claude!Results /\ r.flaw \in {"None", "Field"})
    /\ r.doc # NoDoc /\ r.doc.object
Cuts(s) ==
    IF cli.vendor = "claude" THEN {k \in DOMAIN s : IsCut(s[k])}
    ELSE {k \in DOMAIN s : /\ k = 3 /\ s[k].type = "agent_message" /\ s[k].flaw = "None"
                           /\ s[1].type = "thread" /\ s[2].type = "turn"}

(* The first one, unless the record that ended it all is ambiguous in its  *)
(* control data and carries another.                                       *)
EvidenceOf(s) ==
    IF cli.vendor = "claude" /\ IsCut(Last(s)) /\ Last(s).flaw = "Ambiguous" THEN Last(s).doc
    ELSE s[Min(Cuts(s))].doc

(* An answer is given for exactly the conversations that are one, from a   *)
(* child that ended well, with the subscription confirmed, usable and not  *)
(* cancelled; and it is the document of the result.  A failure keeps the   *)
(* document that was received, if any, and else at most what was heard     *)
(* (claude_cli/adapter.rs reconcile, engine.rs generate).                  *)
AnswerIsEarned ==
    pc = "done" =>
        LET earned == /\ transport = "Success" /\ SubscriptionAuth(cli)
                      /\ IsAnswer(Delivered) /\ AnswerOf(Delivered).usable
        IN  /\ answer.kind = "Ok" => earned /\ answer.raw = AnswerOf(Delivered).text
            /\ earned /\ ~cancelled => answer.kind = "Ok"
            /\ answer.kind # "Ok" =>
                  IF Cuts(Delivered) # {} THEN answer.raw = EvidenceOf(Delivered).text
                  ELSE answer.raw \in {<<>>, fragments}

----------------------------------------------------------------------------
(***************************************************************************)
(* What the reader is shown meanwhile.                                     *)
(***************************************************************************)
(* The text of the first payload block, up to its stop, the end of its     *)
(* message or the result.                                                  *)
Streamed(s) ==
    LET payloads == {k \in DOMAIN s : s[k].type = "payload_start" /\ s[k].flaw = "None"}
        first == CHOOSE k \in payloads : \A j \in payloads : k <= j
        Ends(k) == \/ s[k].type \in {"message_start"} \cup Claude!Results
                   \/ s[k].type = "content_block_stop" /\ s[k].index = s[first].index
        Says(k) == /\ s[k].type = "json_delta" /\ s[k].flaw = "None"
                   /\ s[k].index = s[first].index
                   /\ \A j \in first + 1..k : ~Ends(j)
    IN  IF payloads = {} THEN <<>>
        ELSE FlattenSeq([i \in 1..Len(s) - first |->
                            IF Says(first + i) THEN s[first + i].text ELSE <<>>])

Blank == 32
Trimmed(text) ==
    LET solid == {i \in DOMAIN text : text[i] # Blank}
    IN  IF solid = {} THEN <<>> ELSE SubSeq(text, Min(solid), Max(solid))

Docs == {cli.records[k].doc : k \in DOMAIN cli.records} \ {NoDoc}

(* The engine hears the first payload block only, or the whole answer once *)
(* if there was no such block; nothing of an abandoned or a second block   *)
(* is spliced in.  What the reader sees is the beginning of the narrative  *)
(* of every document the text heard so far can still become, wherever the  *)
(* text was cut; and of an answer the reader has seen, in the end, the     *)
(* whole narrative and nothing twice, unless the text heard was of another *)
(* document or a narrative that begins with a blank was cut (claude_cli/   *)
(* protocol.rs stream_event, stream.rs, engine.rs turn).                   *)
PreviewIsOfTheAnswer ==
    /\ \/ fragments = Streamed(Delivered)
       \/ /\ Streamed(Delivered) = <<>>
          /\ pc \in {"answered", "told", "done"}
          /\ fragments = Candidate.text
    /\ pc \notin {"told", "done"} =>
          \A doc \in Docs :
              doc.json /\ doc.unique /\ IsPrefix(fragments, doc.text) => IsPrefix(told, doc.raw)
    /\ answer.kind = "Ok" /\ request = "turn" =>
          LET doc == AnswerOf(Delivered)
          IN  /\ told \in {doc.narrative, Feed(NewScanner, Field, fragments).out}
              /\ /\ doc.unique
                 /\ IsPrefix(fragments, doc.text)
                 /\ Head(doc.raw) # Blank \/ fragments = doc.text
                 => Trimmed(told) = doc.narrative
=============================================================================
