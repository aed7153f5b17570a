------------------------- MODULE MCPersistedSession -------------------------
(***************************************************************************)
(* Small instances of PersistedSession.  Two slots are enough for a save   *)
(* and a copy of it (or a save that failed and its replacement).  The      *)
(* configurations differ in how the process starts and in how far the      *)
(* counters go; MaxPreview is 0 because no step here reports progress.     *)
(***************************************************************************)
EXTENDS PersistedSession
=============================================================================
