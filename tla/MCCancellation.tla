--------------------------- MODULE MCCancellation ---------------------------
(* Two threads that cancel and three subscribers, so that a slot is used   *)
(* again while another callback is registered behind it.                   *)
EXTENDS Cancellation

CONSTANTS c1, c2, s1, s2, s3
MCCancellers == {c1, c2}
MCSubscribers == {s1, s2, s3}
=============================================================================
