--------------------------- MODULE MCSafetySystem ---------------------------
(***************************************************************************)
(* Values for the run of SafetySystem.                                     *)
(***************************************************************************)
EXTENDS SafetySystem

CONSTANTS us1, imu

StuckSensor == {[sensor |-> us1, kind |-> "Impossible"]}
=============================================================================
