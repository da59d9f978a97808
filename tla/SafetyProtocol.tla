--------------------------- MODULE SafetyProtocol ---------------------------
(***************************************************************************)
(* The vocabulary that common/protocol.h gives every process: who sends,   *)
(* what a sensor claims about a reading, and what the supervisor says      *)
(* about a subsystem, about the system, and in its event log.              *)
(***************************************************************************)
EXTENDS Integers

CONSTANT NaN   \* the IEEE not-a-number a float distance can also hold

ASSUME NaNAssumption == NaN \notin Int

ULTRASONIC_ID_1 == 0
ULTRASONIC_ID_2 == 1
SOURCE_IMU      == 2
SOURCE_SYSTEM   == 3

Ultrasonic == {ULTRASONIC_ID_1, ULTRASONIC_ID_2}
Source     == Ultrasonic \cup {SOURCE_IMU}   \* the three sensor processes

SensorStatus == {"Connected", "Disconnected", "OutOfRange"}
SensorHealth == {"Healthy", "Degraded", "Dead"}
SystemState  == {"Normal", "Degraded", "SafeStop", "Recovery"}

SafetyEventType ==
  {"Obstacle", "SensorTimeout", "ProcessDead", "ProcessRecovered",
   "OverrideEngaged", "OverrideCleared", "AnomalyDetected"}

(***************************************************************************)
(* An event keeps its type and its source.  Its timestamp, its value and   *)
(* the snapshot of the two distances are payload nothing here depends on.  *)
(***************************************************************************)
SafetyEvent == [type : SafetyEventType, source : Source \cup {SOURCE_SYSTEM}]

(***************************************************************************)
(* Distances are whole centimetres or NaN; an ordered comparison with NaN  *)
(* is false on both sides, as in C++.                                      *)
(***************************************************************************)
Distance == Int \cup {NaN}

ULTRASONIC_PHYSICAL_MIN_CM == 2
ULTRASONIC_PHYSICAL_MAX_CM == 400

Below(d, cm) == d # NaN /\ d < cm
Above(d, cm) == d # NaN /\ d > cm

Reading == [status : SensorStatus, distanceCm : Distance]   \* UltrasonicMsg
=============================================================================
