---------------------------- MODULE MCTimedTasks ----------------------------
(***************************************************************************)
(* Values for the run of TimedTasks.                                       *)
(***************************************************************************)
EXTENDS TimedTasks

ClearReading == {[status |-> "Connected", distanceCm |-> 100]}
OneMortal == {SOURCE_IMU}
=============================================================================
