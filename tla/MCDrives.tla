------------------------------ MODULE MCDrives -------------------------------
(***************************************************************************)
(* Model checking of Drives with one NTFS and one FAT volume.              *)
(***************************************************************************)
EXTENDS Drives

Sizes == [v \in Volume |-> IF v \in Ntfs THEN 3 ELSE 2]
=============================================================================
