---------------------------- MODULE CodexProtocol ----------------------------
(***************************************************************************)
(* The profile of the Codex command line, which reports complete messages  *)
(* only: a thread, a turn, one message, the end of the turn.  Records are  *)
(* as in ClaudeProtocol; the text of the message is the candidate.         *)
(***************************************************************************)
CONSTANT NoDoc

NewCodex == [at |-> "AwaitingThread", candidate |-> NoDoc]

(* The place in the conversation where a record is in order, and the next. *)
InOrder == [thread |-> "AwaitingThread", turn |-> "AwaitingTurn",
            agent_message |-> "AwaitingCandidate", completed |-> "Candidate"]
After == [thread |-> "AwaitingTurn", turn |-> "AwaitingCandidate",
          agent_message |-> "Candidate", completed |-> "Completed"]

Objection(p, record) ==
    CASE record.flaw # "None" -> "InvalidRecord"
      [] record.flaw = "None" /\ record.type \notin DOMAIN InOrder \cup {"failed", "notice"} ->
            "Unsupported"
      [] record.type = "completed" /\ p.at = "Completed" -> "DuplicateTerminal"
      [] record.type = "failed" ->
            IF p.at = "Completed" THEN "ConflictingTerminal" ELSE "VendorFailure"
      [] record.type = "notice" -> "ErrorNotice"
      [] record.type = "agent_message" /\ p.at = "Candidate" -> "MultipleCandidates"
      [] record.type \in DOMAIN InOrder /\ p.at # InOrder[record.type] -> "Order"
      [] OTHER -> "None"

Advance(p, record) ==
    [p EXCEPT !.at = After[record.type],
              !.candidate = IF record.type = "agent_message" THEN record.doc ELSE @]

(* The first objection is final; the candidate received so far is kept.    *)
Record(p, record) ==
    CASE p.at = "Failed" -> p
      [] p.at # "Failed" /\ Objection(p, record) = "None" -> Advance(p, record)
      [] OTHER -> [p EXCEPT !.at = "Failed"]

(* Whether the candidate is JSON at all is looked at only here.            *)
Finish(p) ==
    [ok |-> p.at = "Completed" /\ p.candidate.json, candidate |-> p.candidate]
=============================================================================
