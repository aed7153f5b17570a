------------------- MODULE MCPersistedImplementsProtocol -------------------
(***************************************************************************)
(* Small instance of PersistedImplementsProtocol.                          *)
(***************************************************************************)
EXTENDS PersistedImplementsProtocol, SequencesExt

(* Every game these counters can produce, with one turn restored at start  *)
(* and none added by other processes.                                      *)
MCRestorableGames ==
    [outline: [by: {"generator", "player"}, n: 0 .. MaxCounter], limits: Limits,
     turns: BoundedSeq(0 .. MaxCounter, 2)]
=============================================================================
