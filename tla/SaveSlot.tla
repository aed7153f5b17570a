------------------------------ MODULE SaveSlot ------------------------------
(***************************************************************************)
(* What one save promises to those who use it: a document with a backup,   *)
(* replaced only by a document that continues it, after the backup was     *)
(* brought up to date; and a pledge, the newest document somebody holds a  *)
(* receipt for, which not even a power loss takes back.  The promise ends  *)
(* when somebody changes the files by hand.                                *)
(***************************************************************************)
EXTENDS Naturals, SequencesExt

VARIABLES primary, backup, pledge, edits

slot == <<primary, backup, pledge, edits>>

Init ==
    /\ primary = <<>>
    /\ backup = <<>>
    /\ pledge = <<>>
    /\ edits = 0

KeepBackup ==
    /\ primary # <<>>
    /\ backup' = primary
    /\ UNCHANGED <<primary, pledge>>

Put ==
    /\ backup = primary
    /\ primary' # <<>>
    /\ Front(primary') = primary
    /\ UNCHANGED <<backup, pledge>>

Pledge ==
    /\ IsPrefix(pledge, pledge')
    /\ IsPrefix(pledge', primary)
    /\ UNCHANGED <<primary, backup>>

(* The last replacement of the primary may be lost if nobody holds a       *)
(* receipt for it, and the backup be left as it was before.  The two are   *)
(* never more than one save apart.                                         *)
Adjacent(p, b) == b = p \/ (p # <<>> /\ b = Front(p)) \/ (b # <<>> /\ p = Front(b))

PowerLoss ==
    /\ primary' \in {primary} \cup {Front(p) : p \in {primary} \ {<<>>}}
    /\ IsPrefix(pledge, primary')
    /\ Adjacent(primary', backup')
    /\ UNCHANGED pledge

EditedByHand == edits' > 0

Next ==
    \/ /\ KeepBackup \/ Put \/ Pledge \/ PowerLoss
       /\ UNCHANGED edits
    \/ EditedByHand

Spec == Init /\ [][Next]_slot
=============================================================================
