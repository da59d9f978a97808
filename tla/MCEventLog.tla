----------------------------- MODULE MCEventLog -----------------------------
(***************************************************************************)
(* EventLog with four slots and three events: every fill level and every  *)
(* position of the head, each reached through several wraps.               *)
(***************************************************************************)
EXTENDS EventLog

MCLogged == {Event("Obstacle", ULTRASONIC_ID_1),
             Event("ProcessDead", SOURCE_IMU),
             Event("OverrideCleared", SOURCE_SYSTEM)}
=============================================================================
