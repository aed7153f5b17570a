---------------------------- MODULE MCGeneration ----------------------------
(***************************************************************************)
(* Small instance of Generation.  A few documents, encoded from the        *)
(* characters they say; a few conversations in order, with the text cut    *)
(* everywhere; and every conversation that one fault makes of them.        *)
(***************************************************************************)
EXTENDS Generation

----------------------------------------------------------------------------
(* Documents.  A glyph is a character and one way to write it.             *)

Letter(ch) == [wire |-> <<ch>>, char |-> ch]
a == Letter(97)
b == Letter(98)
n == Letter(110)
blank == Letter(Blank)
newline == [wire |-> <<92, 110>>, char |-> 10]
quote == [wire |-> <<92, 34>>, char |-> 34]
escapedJ == [wire |-> <<92, 117, 48, 48, 52, 65>>, char |-> 74]
emoji == [wire |-> <<92, 117, 100, 56, 51, 100, 92, 117, 68, 69, 48, 48>>, char |-> 128512]
half == [wire |-> <<92, 117, 100, 56, 48, 48>>, char |-> Replacement]

Wire(glyphs) == FlattenSeq([i \in DOMAIN glyphs |-> glyphs[i].wire])
Said(glyphs) == [i \in DOMAIN glyphs |-> glyphs[i].char]
String(glyphs) == <<Quote>> \o Wire(glyphs) \o <<Quote>>
Member(key, value) == String(key) \o <<Colon>> \o value
Object(members) ==
    <<123>> \o FlattenSeq([i \in DOMAIN members |->
                              IF i < Len(members) THEN Append(members[i], Comma) ELSE members[i]])
            \o <<125>>
MCField == Said(<<n>>)

Turn(members, narrative) ==
    [text |-> Object(members), object |-> TRUE, json |-> TRUE, unique |-> TRUE,
     raw |-> Said(narrative), narrative |-> Trimmed(Said(narrative)),
     usable |-> Trimmed(Said(narrative)) # <<>>]
Simple(narrative) == Turn(<<Member(<<n>>, String(narrative))>>, narrative)

Plain == Simple(<<a, b>>)
Other == Simple(<<b>>)
Prefixed == Simple(<<a>>)
Rich ==
    Turn(<<Member(<<a>>, String(<<n>>)),
           Member(<<b>>, Object(<<Member(<<n>>, String(<<b>>))>>)),
           Member(<<n>>, String(<<quote, a, emoji, newline, escapedJ>>)),
           Member(<<quote>>, String(<<b>>))>>,
         <<quote, a, emoji, newline, escapedJ>>)
Indented == Simple(<<blank, a, blank>>)
Trailing == Simple(<<a, b, blank>>)
Empty == Simple(<<blank>>)
Wordless == Turn(<<Member(<<a>>, String(<<n>>))>>, <<>>)
Twice ==
    [Turn(<<Member(<<n>>, String(<<a>>)), Member(<<n>>, String(<<b>>))>>, <<a>>) EXCEPT
        !.unique = FALSE, !.narrative = Said(<<b>>)]
Broken == [Simple(<<half, a>>) EXCEPT !.json = FALSE, !.usable = FALSE]
Bare ==
    [Wordless EXCEPT !.text = String(<<a>>), !.object = FALSE]

----------------------------------------------------------------------------
(* Records.                                                                *)

Record(type) == [type |-> type, flaw |-> "None", index |-> 0, text |-> <<>>, doc |-> NoDoc]
At(type, index) == [Record(type) EXCEPT !.index = index]
Delta(index, text) == [At("json_delta", index) EXCEPT !.text = text]
With(type, doc) == [Record(type) EXCEPT !.doc = doc]
Flawed(record, flaw) == [record EXCEPT !.flaw = flaw]

ClaudeStatus == <<"loggedIn", "claude.ai", "firstParty">>
FromClaude(records) == [vendor |-> "claude", status |-> ClaudeStatus, records |-> records]
CodexStatus == <<"WARNING", "Logged in using ChatGPT">>
FromCodex(records) == [vendor |-> "codex", status |-> CodexStatus, records |-> records]

Opened == <<Record("init"), Record("message_start")>>
CutAt(doc, i) == <<SubSeq(doc.text, 1, i), SubSeq(doc.text, i + 1, Len(doc.text))>>

Streaming(doc, i) ==
    Opened \o <<At("payload_start", 0), Delta(0, CutAt(doc, i)[1]), Delta(0, CutAt(doc, i)[2]),
                At("content_block_stop", 0), With("result", doc)>>

(* The first message is given up, the second one is the answer.            *)
Abandoning(first, doc) ==
    Opened \o <<At("payload_start", 0), Delta(0, CutAt(first, 6)[1]), Record("message_start"),
                At("payload_start", 0), Delta(0, doc.text), With("result", doc)>>

(* Thinking and another tool before the payload.                           *)
Thinking(doc) ==
    Opened \o <<At("other_start", 0), At("other_delta", 0), At("payload_start", 1),
                Delta(0, Other.text), Delta(1, CutAt(doc, 7)[1]), At("content_block_stop", 1),
                With("result", doc)>>

Silent(doc) == <<Record("system"), Record("init"), Record("message"), With("result", doc)>>

Complete(doc) ==
    <<Record("thread"), Record("turn"), With("agent_message", doc), Record("completed")>>

----------------------------------------------------------------------------
(* One fault: a record that should not be there, is missing, comes twice   *)
(* or too early.                                                           *)

Swapped(s, i) == [s EXCEPT ![i] = s[i + 1], ![i + 1] = s[i]]
Faulty(s, extra) ==
    {InsertAt(s, i, record) : i \in 1..Len(s) + 1, record \in extra \cup ToSet(s)}
    \cup {RemoveAt(s, i) : i \in DOMAIN s}
    \cup {Swapped(s, i) : i \in 1..Len(s) - 1}
    \cup {[s EXCEPT ![i].flaw = flaw] : i \in DOMAIN s, flaw \in {"Bytes", "Ambiguous", "Untyped", "Field"}}

ClaudeExtra ==
    {Record(type) : type \in {"system", "metered_init", "rate_limit_event", "message",
                              "message_delta", "error", "unknown_event", "unknown"}}
    \cup {At(type, index) : type \in Claude!Starts \cup {"content_block_stop"}, index \in 0..1}
    \cup {Delta(0, Other.text), Delta(1, Prefixed.text), At("other_delta", 0),
          With("result", Other), With("failed_result", Other), Record("result"),
          With("result", Bare), With("result", Twice),
          Flawed(With("result", Other), "Ambiguous"), Flawed(Record("message"), "Ambiguous"),
          Flawed(Record("system"), "Bytes")}

(* Two records too many, of those that move blocks and previews.           *)
Moving ==
    {Record("message_start"), At("payload_start", 0), At("payload_start", 1),
     At("other_start", 1), Delta(0, Other.text), Delta(1, Prefixed.text),
     At("content_block_stop", 0), With("result", Other),
     Flawed(With("result", Other), "Ambiguous")}
Crowded(s) ==
    {InsertAt(InsertAt(s, i, one), j, other) :
        i \in 2..Len(s) + 1, j \in 2..Len(s) + 2, one, other \in Moving}

CodexExtra ==
    {Record("failed"), Record("notice"), Record("unknown"), Flawed(Record("turn"), "Bytes"),
     With("agent_message", Other)}

MCConversations ==
    {FromClaude(Streaming(Rich, i)) : i \in 0..Len(Rich.text)}
    \cup {FromClaude(Streaming(doc, i)) : doc \in {Plain, Indented, Trailing}, i \in {0, 6, 7, 8}}
    \cup {FromClaude(Silent(doc)) :
             doc \in {Plain, Rich, Indented, Trailing, Empty, Wordless, Twice, Bare}}
    \cup {FromClaude(s) : s \in Faulty(Streaming(Plain, 6), ClaudeExtra)
                                \cup Faulty(Abandoning(Prefixed, Plain), ClaudeExtra)
                                \cup Faulty(Thinking(Plain), ClaudeExtra)
                                \cup Crowded(Streaming(Plain, 6))}
    \cup {FromClaude(Abandoning(first, doc)) : first, doc \in {Plain, Other, Prefixed}}
    \cup {FromCodex(Complete(doc)) :
             doc \in {Plain, Rich, Indented, Trailing, Empty, Wordless, Twice, Bare, Broken}}
    \cup {FromCodex(s) : s \in Faulty(Complete(Plain), CodexExtra)}
    \cup {[FromClaude(Silent(Plain)) EXCEPT !.status = Tail(ClaudeStatus)]}
    \cup {[FromCodex(Complete(Plain)) EXCEPT !.status = status] :
             status \in {<<>>, <<"WARNING">>, Tail(CodexStatus), CodexStatus \o Tail(CodexStatus),
                         Append(CodexStatus, "Logged in using an API key")}}
=============================================================================
