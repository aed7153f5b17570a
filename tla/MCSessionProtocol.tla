------------------------- MODULE MCSessionProtocol -------------------------
(***************************************************************************)
(* Small instance of SessionProtocol.  MaxCounter is low enough for the    *)
(* request and revision counters to run out, and high enough for a         *)
(* request to be failed, retried and answered twice.                       *)
(***************************************************************************)
EXTENDS SessionProtocol

(* A story whose opening turn is still to be generated, and one with it.   *)
MCRestorableGames ==
    {[outline |-> [by |-> "generator", n |-> 0], limits |-> l, turns |-> t] :
        l \in Limits, t \in {<<>>, <<0>>}}
=============================================================================
