--------------------------- MODULE ClaudeProtocol ---------------------------
(***************************************************************************)
(* The stream-json profile of the Claude command line: which records may   *)
(* follow which, which text is only a preview, and which document is the   *)
(* answer.                                                                 *)
(*                                                                         *)
(* A record is [type, flaw, index, text, doc], what JSON parsing makes of  *)
(* one line.  "type" tells apart the record and event types and what the   *)
(* profile looks at inside them; "flaw" is what is wrong with the record:  *)
(* not JSON ("Bytes"), a control key twice ("Ambiguous"), no type          *)
(* ("Untyped"), a needed field missing or malformed ("Field"), or nothing. *)
(***************************************************************************)
EXTENDS Naturals, FiniteSets

CONSTANT NoDoc

StreamEvents ==
    {"message_start", "payload_start", "other_start", "json_delta", "other_delta",
     "content_block_stop", "message_delta", "error", "unknown_event"}
Starts == {"payload_start", "other_start"}
Deltas == {"json_delta", "other_delta"}
InBlock == Deltas \cup {"content_block_stop"}

Closed == [at |-> "Closed", message |-> 0, index |-> 0]
Unstarted == [Closed EXCEPT !.at = "Unstarted"]
Open(message, index) == [at |-> "Open", message |-> message, index |-> index]

NewClaude ==
    [at |-> "AwaitingInit", message |-> 0, payloads |-> {}, others |-> {},
     preview |-> Unstarted, candidate |-> NoDoc]

Blocks(p) == p.payloads \cup p.others

(* Only an object can be a candidate.                                      *)
CandidateOf(record) ==
    IF record.doc # NoDoc /\ record.doc.object THEN record.doc ELSE NoDoc

----------------------------------------------------------------------------
(* What is wrong with a record, looked at in the order of the code.        *)

SystemObjection(p, record) ==
    CASE record.flaw = "Field" -> "InvalidField"
      [] record.type = "init" /\ p.at # "AwaitingInit" -> "Order"
      [] record.type = "metered_init" ->
            IF p.at # "AwaitingInit" THEN "Order" ELSE "MeteredAuth"
      [] OTHER -> "None"

EventObjection(p, record) ==
    CASE p.at # "Streaming" -> "Order"
      [] record.type = "error" -> "VendorError"
      [] record.type = "unknown_event" -> "Unsupported"
      [] record.flaw = "Field" -> "InvalidField"
      [] record.type \in Starts /\ record.index \in Blocks(p) -> "Order"
      [] record.type = "payload_start" /\ p.payloads # {} -> "AmbiguousPayload"
      [] record.type \in InBlock /\ record.index \notin Blocks(p) -> "Order"
      [] OTHER -> "None"

ResultObjection(p, record) ==
    CASE record.flaw = "Field" -> "InvalidField"
      [] record.type = "failed_result" -> "VendorError"
      [] p.at # "Streaming" -> "Order"
      [] CandidateOf(record) = NoDoc -> "MissingPayload"
      [] ~CandidateOf(record).unique -> "InvalidPayload"
      [] OTHER -> "None"

Results == {"result", "failed_result"}

AfterTheResult(p, record) == IF record.type \in Results THEN "DuplicateResult" ELSE "Order"

Objection(p, record) ==
    CASE record.flaw = "Bytes" -> "InvalidJson"
      [] record.flaw = "Ambiguous" -> "DuplicateField"
      [] record.flaw = "Untyped" -> "InvalidField"
      [] record.flaw \in {"None", "Field"} /\ p.at = "Finished" -> AfterTheResult(p, record)
      [] OTHER ->
            CASE record.type \in {"init", "metered_init", "system"} -> SystemObjection(p, record)
              [] record.type \in StreamEvents -> EventObjection(p, record)
              [] record.type = "message" -> IF p.at = "Streaming" THEN "None" ELSE "Order"
              [] record.type = "rate_limit_event" -> "None"
              [] record.type \in Results -> ResultObjection(p, record)
              [] OTHER -> "Unsupported"

----------------------------------------------------------------------------
(* What a record in order does.                                            *)

(* Block indices start again with every message: the preview of a message  *)
(* that is over is over.                                                   *)
MessageStarts(p) ==
    [p EXCEPT !.message = @ + 1, !.payloads = {}, !.others = {},
              !.preview = IF @.at = "Open" THEN Closed ELSE @]

(* Mutant: every payload block is previewed.                               *)
BlockStartsAnew(p, record) ==
    IF record.type = "other_start" THEN [p EXCEPT !.others = @ \cup {record.index}]
    ELSE [p EXCEPT !.payloads = @ \cup {record.index},
                   !.preview = Open(p.message, record.index)]

BlockStarts(p, record) ==
    IF record.type = "other_start" THEN [p EXCEPT !.others = @ \cup {record.index}]
    ELSE [p EXCEPT !.payloads = @ \cup {record.index},
                   !.preview = IF @ = Unstarted THEN Open(p.message, record.index) ELSE @]

BlockStops(p, record) ==
    [p EXCEPT !.preview = IF @ = Open(p.message, record.index) THEN Closed ELSE @]

Advance(p, record) ==
    CASE record.type = "init" -> [p EXCEPT !.at = "Streaming"]
      [] record.type = "message_start" -> MessageStarts(p)
      [] record.type \in Starts -> BlockStarts(p, record)
      [] record.type = "content_block_stop" -> BlockStops(p, record)
      [] record.type = "result" -> [p EXCEPT !.at = "Finished", !.candidate = CandidateOf(record)]
      [] OTHER -> p

(* The text a record adds to the preview.                                  *)
Fragment(p, record) ==
    IF record.type = "json_delta" /\ p.preview = Open(p.message, record.index)
    THEN record.text ELSE <<>>

----------------------------------------------------------------------------
(* The document a refused record leaves as evidence: its own if its        *)
(* payload could be cut out, else the one received before.  A second       *)
(* result does not displace the first.                                     *)
Evidence(p, record) ==
    LET isCut == \/ record.flaw = "Ambiguous"
                 \/ /\ p.at # "Finished"
                    /\ record.flaw \in {"None", "Field"}
                    /\ record.type \in Results
    IN  IF isCut /\ CandidateOf(record) # NoDoc THEN CandidateOf(record) ELSE p.candidate

(* One record; the first objection is final.                               *)
Record(p, record) ==
    CASE p.at = "Failed" -> p
      [] p.at # "Failed" /\ Objection(p, record) = "None" -> Advance(p, record)
      [] OTHER -> [NewClaude EXCEPT !.at = "Failed", !.candidate = Evidence(p, record)]

(* The end of the stream: the answer was given, or there is at most        *)
(* evidence.                                                               *)
Finish(p) == [ok |-> p.at = "Finished", candidate |-> p.candidate]
=============================================================================
