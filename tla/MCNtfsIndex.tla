----------------------------- MODULE MCNtfsIndex -----------------------------
(***************************************************************************)
(* Model checking of NtfsIndex on one volume, and of the shared statics of *)
(* updateFileEntry on two.                                                 *)
(***************************************************************************)
EXTENDS NtfsIndex

OneDrive == {1}
TwoDrives == {1, 2}
=============================================================================
