------------------------------ MODULE MCDisplay ------------------------------
(***************************************************************************)
(* Values for the runs of StatusDisplay.                                   *)
(***************************************************************************)
EXTENDS StatusDisplay

R(st, d) == [status |-> st, distanceCm |-> d]

KindsOfReading == {R("Connected", 1), R("Connected", 10), R("Connected", 100)}
OneSensor      == {ULTRASONIC_ID_1}
=============================================================================
