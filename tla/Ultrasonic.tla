------------------------------ MODULE Ultrasonic ------------------------------
(***************************************************************************)
(* The HC-SR04 driver: Ultrasonic::sense() in ultrasonic.cpp, against the  *)
(* ranging module on its two pins.  The driver busy-waits on the ECHO line *)
(* and reads the cycle counter; it runs at an ordinary priority, so any    *)
(* time up to LAG may pass between two of its statements.  Time is kept as *)
(* ages, in units of an arbitrary length.                                  *)
(*                                                                         *)
(* The module on the wires is not part of the repository.  After a trigger *)
(* it is either silent or raises ECHO within RISE_MAX and keeps it high    *)
(* for at most HOLD; it ignores a trigger while it is busy; it may lose    *)
(* its power or its wiring, may stick high, and may be repaired.           *)
(***************************************************************************)
EXTENDS SafetyProtocol

CONSTANTS
  ECHO_TIMEOUT,   \* echoTimeoutUs, 30 ms
  CM_PER_UNIT,    \* half the way sound travels in a unit
  LAG,            \* the longest pause between two statements of sense()
  RISE_MAX,       \* the module's answer time, well below a millisecond
  HOLD,           \* how long it holds ECHO when no target answers, 38 ms
  HORIZON         \* bound on sincePing, for TLC: it stops counting there

ASSUME DriverAssumption ==
  /\ ECHO_TIMEOUT \in Nat /\ CM_PER_UNIT \in Nat /\ LAG \in Nat
  /\ RISE_MAX \in Nat /\ HOLD \in Nat /\ HORIZON \in Nat
  /\ 2 * ECHO_TIMEOUT + 5 * LAG < HORIZON
  /\ RISE_MAX + HOLD < HORIZON

MIN_RANGE_CM == 2
MAX_RANGE_CM == 400

VARIABLES
  pc,          \* the next statement of sense(); "Idle" outside of it
  timer,       \* ClockCycles() - waitStart, then ClockCycles() - pulseStart
  lag,         \* since the last statement of sense()
  reading,     \* what sense() returned last
  device,      \* the module: "Quiet", "Ranging", "Echoing"; "Absent", "Stuck"
  high,        \* how long ECHO is or was high after the last trigger heard
  faulted,     \* something was wrong with the module since the last trigger
  sincePing    \* since the last trigger

driverVars == <<pc, timer, lag, reading>>
deviceVars == <<device, high, faulted>>

Echo == device \in {"Echoing", "Stuck"}   \* gpio_.read(echoPin_)

Disconnected == [status |-> "Disconnected", distanceCm |-> -1]

DriverInit ==
  /\ pc = "Idle" /\ timer = 0 /\ lag = 0 /\ reading = Disconnected
  /\ device \in {"Quiet", "Absent", "Stuck"}
  /\ high = 0
  /\ faulted = (device # "Quiet")
  /\ sincePing = HORIZON

-----------------------------------------------------------------------------
(***************************************************************************)
(* sense(), one action per access to the line or to the counter.           *)
(***************************************************************************)

At(here, there) == pc = here /\ pc' = there /\ lag' = 0

\* The 10 us pulse on TRIG; the module hears it when it is idle.
Trigger ==
  /\ At("Idle", "StampWait")
  /\ sincePing' = 0
  /\ \/ device = "Quiet" /\ device' \in {"Ranging", "Quiet"} /\ high' = 0 /\ faulted' = FALSE
     \/ device # "Quiet" /\ UNCHANGED <<device, high>>
        /\ faulted' = (faulted \/ device \in {"Absent", "Stuck"})
  /\ UNCHANGED <<timer, reading>>

\* waitStart and pulseStart.
StampWait ==
  /\ At("StampWait", "PollRise") /\ timer' = 0
  /\ UNCHANGED <<reading, deviceVars, sincePing>>

\* Mutant: the pulse is measured from the start of the wait.
StampRiseNot ==
  /\ At("StampRise", "PollFall")
  /\ UNCHANGED <<timer, reading, deviceVars, sincePing>>

StampRise ==
  /\ At("StampRise", "PollFall") /\ timer' = 0
  /\ UNCHANGED <<reading, deviceVars, sincePing>>

PollRise ==
  /\ At("PollRise", IF Echo THEN "StampRise" ELSE "CheckRise")
  /\ UNCHANGED <<timer, reading, deviceVars, sincePing>>

PollFall ==
  /\ At("PollFall", IF Echo THEN "CheckFall" ELSE "StampFall")
  /\ UNCHANGED <<timer, reading, deviceVars, sincePing>>

Returns(r) == pc' = "Idle" /\ reading' = r /\ lag' = 0

\* Mutant: the timeout is taken for a thousandth of what it is.
TimedOutWrongUnit == timer * 1000 > ECHO_TIMEOUT

TimedOut == timer > ECHO_TIMEOUT

CheckRise ==
  /\ pc = "CheckRise"
  /\ \/ TimedOut /\ Returns(Disconnected)
     \/ ~TimedOut /\ At("CheckRise", "PollRise") /\ UNCHANGED reading
  /\ UNCHANGED <<timer, deviceVars, sincePing>>

\* Mutants: an echo that has begun is waited for to its end; pulseStart is
\* read again in every round of the loop.
CheckFallForever ==
  /\ At("CheckFall", "PollFall")
  /\ UNCHANGED <<timer, reading, deviceVars, sincePing>>

CheckFallRestamps ==
  /\ pc = "CheckFall"
  /\ \/ TimedOut /\ Returns(Disconnected)
     \/ ~TimedOut /\ At("CheckFall", "StampRise") /\ UNCHANGED reading
  /\ UNCHANGED <<timer, deviceVars, sincePing>>

CheckFall ==
  /\ pc = "CheckFall"
  /\ \/ TimedOut /\ Returns(Disconnected)
     \/ ~TimedOut /\ At("CheckFall", "PollFall") /\ UNCHANGED reading
  /\ UNCHANGED <<timer, deviceVars, sincePing>>

\* Mutant: the upper end of the range is not looked at.
ClassifyNoMax(cm) ==
  [status |-> IF cm < MIN_RANGE_CM THEN "OutOfRange" ELSE "Connected", distanceCm |-> cm]

Classify(cm) ==
  [status |-> IF cm < MIN_RANGE_CM \/ cm > MAX_RANGE_CM THEN "OutOfRange" ELSE "Connected",
   distanceCm |-> cm]

\* pulseCycles is a last reading of the counter, after the line was seen low.
StampFall ==
  /\ pc = "StampFall"
  /\ Returns(Classify(timer * CM_PER_UNIT))
  /\ UNCHANGED <<timer, deviceVars, sincePing>>

Sense == StampWait \/ PollRise \/ CheckRise \/ StampRise \/ PollFall \/ CheckFall \/ StampFall

(***************************************************************************)
(* The module, and what can happen to it.                                  *)
(***************************************************************************)

EchoRises ==
  /\ device = "Ranging" /\ device' = "Echoing"
  /\ UNCHANGED <<driverVars, high, faulted, sincePing>>

EchoFalls ==
  /\ device = "Echoing" /\ device' = "Quiet"
  /\ UNCHANGED <<driverVars, high, faulted, sincePing>>

Breaks ==
  /\ device' \in {"Absent", "Stuck", "Quiet"} \ {device}
  /\ device' = "Quiet" => device \in {"Absent", "Stuck"}
  /\ faulted' = TRUE
  /\ UNCHANGED <<driverVars, high, sincePing>>

(***************************************************************************)
(* Time passes unless a statement, or the module, has waited its longest.  *)
(***************************************************************************)
DriverElapses ==
  /\ pc # "Idle" => lag < LAG
  /\ device = "Ranging" => sincePing < RISE_MAX
  /\ device = "Echoing" => high < HOLD
  /\ timer' = IF pc = "Idle" THEN timer ELSE timer + 1
  /\ lag'   = IF pc = "Idle" THEN lag ELSE lag + 1
  /\ high'  = IF device = "Echoing" THEN high + 1 ELSE high
  /\ sincePing' = IF sincePing < HORIZON THEN sincePing + 1 ELSE sincePing
  /\ UNCHANGED <<pc, reading, device, faulted>>
=============================================================================
