------------------------------ MODULE MCImuTask ------------------------------
(***************************************************************************)
(* Values for the runs of ImuTask: gravity on a tilted axis, and motion in *)
(* both directions from it.                                                *)
(***************************************************************************)
EXTENDS ImuTask

SomeRaw == {-20, 0, 7, 31}
=============================================================================
