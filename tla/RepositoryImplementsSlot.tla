---------------------- MODULE RepositoryImplementsSlot ----------------------
(***************************************************************************)
(* The repository keeps the promise of SaveSlot: however helpers, kills    *)
(* and power losses interleave, the two files only ever take its steps, as *)
(* long as nobody edits them by hand.                                      *)
(* The pledge is the newest document a session holds a receipt for.        *)
(***************************************************************************)
EXTENDS Repository

Newest(docs) ==
    IF docs = {} THEN NoDoc
    ELSE CHOOSE d \in docs : \A other \in docs : Len(other) <= Len(d)

Slot == INSTANCE SaveSlot WITH primary <- Primary, backup <- Backup, pledge <- Newest(acked)

ImplementsSlot == Slot!Spec
=============================================================================
