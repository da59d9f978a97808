---------------------------- MODULE UltrasonicTask ----------------------------
(***************************************************************************)
(* The main thread of an ultrasonic task (ultrasonic_task-1.cpp; -2 is the *)
(* same program on other pins): it checks that the sensor responds, finds  *)
(* the supervisor, starts the heartbeat thread, and then samples, sends    *)
(* and sleeps for ever.  The supervisor is the environment here: its name  *)
(* may not be registered yet, and a reading is answered late or fails.     *)
(***************************************************************************)
EXTENDS Ultrasonic

CONSTANTS
  SAMPLE_PERIOD_MS,   \* 100 ms
  CONNECT_RETRY,      \* sleep(1)
  MAX_ATTEMPTS        \* waitForSensor(sensor, 10)

\* A module without a target is quiet again before the next sample.
ASSUME TaskAssumption ==
  /\ SAMPLE_PERIOD_MS \in Nat /\ CONNECT_RETRY \in Nat
  /\ MAX_ATTEMPTS \in Nat \ {0}
  /\ RISE_MAX + HOLD < ECHO_TIMEOUT + SAMPLE_PERIOD_MS

VARIABLES
  phase,      \* where main() is
  attempt,    \* of waitForSensor()
  sleep,      \* what is left of a usleep()
  beating     \* the heartbeat thread was created

taskVars == <<phase, attempt, sleep, beating>>
vars == <<driverVars, deviceVars, sincePing, taskVars>>

Streaming == {"Sampling", "Sending", "Sleeping"}

Init ==
  /\ DriverInit
  /\ phase = "Checking" /\ attempt = 1 /\ sleep = 0 /\ beating = FALSE

-----------------------------------------------------------------------------
StartSense ==
  /\ phase \in {"Checking", "Sampling"}
  /\ Trigger
  /\ UNCHANGED taskVars

SensorResponds(r) == r.status # "Disconnected"

\* What main() does with the reading sense() just returned.
TakeReading ==
  \/ /\ phase = "Checking" /\ SensorResponds(reading')
     /\ phase' = "Connecting"
     /\ UNCHANGED <<attempt, sleep, beating>>
  \/ /\ phase = "Checking" /\ ~SensorResponds(reading')
     /\ phase' = "Rechecking" /\ sleep' = SAMPLE_PERIOD_MS
     /\ UNCHANGED <<attempt, beating>>
  \/ /\ phase = "Sampling"
     /\ phase' = "Sending"
     /\ UNCHANGED <<attempt, sleep, beating>>

SenseStep ==
  /\ Sense
  /\ IF pc' = "Idle" THEN TakeReading ELSE UNCHANGED taskVars

\* The usleep() after a failed check, and the end of the loop behind it.
Recheck ==
  /\ phase = "Rechecking" /\ sleep = 0
  /\ \/ attempt < MAX_ATTEMPTS /\ phase' = "Checking" /\ attempt' = attempt + 1
     \/ attempt = MAX_ATTEMPTS /\ phase' = "Exited" /\ UNCHANGED attempt
  /\ UNCHANGED <<driverVars, deviceVars, sincePing, sleep, beating>>

ConnectToSupervisor ==
  /\ phase = "Connecting" /\ sleep = 0
  /\ \/ phase' = "Sampling" /\ beating' = TRUE /\ UNCHANGED sleep
     \/ sleep' = CONNECT_RETRY /\ UNCHANGED <<phase, beating>>
  /\ UNCHANGED <<driverVars, deviceVars, sincePing, attempt>>

\* Mutant: no pause after a reply.
SendReturnsHot ==
  /\ phase = "Sending"
  /\ phase' = "Sampling"
  /\ UNCHANGED <<driverVars, deviceVars, sincePing, attempt, beating, sleep>>

\* MsgSend() returns, with the reply or with an error: both lead to usleep().
SendReturns ==
  /\ phase = "Sending"
  /\ phase' = "Sleeping" /\ sleep' = SAMPLE_PERIOD_MS
  /\ UNCHANGED <<driverVars, deviceVars, sincePing, attempt, beating>>

Wake ==
  /\ phase = "Sleeping" /\ sleep = 0
  /\ phase' = "Sampling"
  /\ UNCHANGED <<driverVars, deviceVars, sincePing, attempt, sleep, beating>>

Elapse ==
  /\ DriverElapses
  /\ sleep' = IF sleep > 0 THEN sleep - 1 ELSE 0
  /\ UNCHANGED <<phase, attempt, beating>>

Environment ==
  /\ EchoRises \/ EchoFalls \/ Breaks
  /\ UNCHANGED taskVars

Main == StartSense \/ SenseStep \/ Recheck \/ ConnectToSupervisor \/ Wake

Next == Main \/ SendReturns \/ Environment \/ Elapse

Spec == Init /\ [][Next]_vars

\* The thread is scheduled, the clock runs and the module ends its echoes.
\* Nothing is assumed of the supervisor or of faults.
FairSpec ==
  /\ Spec
  /\ WF_vars(Main)
  /\ WF_vars(Elapse)
  /\ WF_vars((EchoRises \/ EchoFalls) /\ UNCHANGED taskVars)

-----------------------------------------------------------------------------
TypeOK ==
  /\ pc \in {"Idle", "StampWait", "PollRise", "CheckRise", "StampRise", "PollFall",
             "CheckFall", "StampFall"}
  /\ timer \in Nat /\ lag \in 0 .. LAG
  /\ reading \in Reading
  /\ device \in {"Quiet", "Ranging", "Echoing", "Absent", "Stuck"}
  /\ high \in 0 .. HOLD /\ faulted \in BOOLEAN /\ sincePing \in 0 .. HORIZON
  /\ phase \in {"Checking", "Rechecking", "Exited", "Connecting"} \cup Streaming
  /\ attempt \in 1 .. MAX_ATTEMPTS /\ sleep \in Nat /\ beating \in BOOLEAN

\* No module, healthy or not, holds sense() for longer than its two waits,
\* however the thread is scheduled within the lag.
SenseBounded == pc # "Idle" => sincePing <= 2 * ECHO_TIMEOUT + 5 * LAG

ReturnsReading == pc # "Idle" /\ pc' = "Idle"

\* A distance is that of the module's echo, up to three pauses of the thread,
\* although the line is polled and the counter is read after the poll.
DistanceAccurate ==
  [][ReturnsReading /\ ~faulted /\ reading'.status # "Disconnected" =>
       \E width \in high - 3 * LAG .. high + 3 * LAG :
         reading'.distanceCm = width * CM_PER_UNIT]_vars

\* "Disconnected" is not said of a module that answers: only when there was
\* no echo, one too short to be caught, or one as long as the timeout.
EchoNotMissed ==
  [][ReturnsReading /\ ~faulted /\ reading'.status = "Disconnected" =>
       high <= 2 * LAG \/ high > ECHO_TIMEOUT - LAG]_vars

\* No trigger finds the module busy with the echo of an earlier one: the
\* pauses of main() outlast an echo that sense() gave up on.
TriggerHeard == [][StartSense => device \notin {"Ranging", "Echoing"}]_vars

\* What the supervisor is sent as Connected is never what it calls physically
\* impossible: the driver's range and the protocol's are kept apart.
NeverAnomalous ==
  phase = "Sending" /\ reading.status = "Connected" =>
    reading.distanceCm \in ULTRASONIC_PHYSICAL_MIN_CM .. ULTRASONIC_PHYSICAL_MAX_CM

\* waitForSensor() decides, whatever the module does.
StartupDecides == phase = "Checking" ~> phase \in {"Connecting", "Exited"}

\* A task that streams keeps producing readings, whatever the module does.
KeepsSampling == phase = "Sleeping" ~> phase = "Sending"

(***************************************************************************)
(* The strengthening these claims rest on, for every constant: what is     *)
(* known of the ages at each statement of sense().                         *)
(***************************************************************************)
Busy == device \in {"Ranging", "Echoing"}

InFirstWait  == pc \in {"PollRise", "CheckRise", "StampRise"}
InSecondWait == pc \in {"PollFall", "CheckFall", "StampFall"}

\* How old an answer of the module can be.
BusyInv ==
  /\ device = "Ranging" => sincePing <= RISE_MAX /\ high = 0
  /\ device = "Echoing" => sincePing <= RISE_MAX + high

\* The module is idle at every trigger: sense() saw the echo end, or gave up
\* on it and main() sleeps.
CalmInv ==
  /\ pc # "Idle" => phase \in {"Checking", "Sampling"}
  /\ pc = "Idle" /\ phase \in {"Checking", "Sampling", "Connecting"} => ~Busy
  /\ phase = "Sending" /\ Busy => sincePing > ECHO_TIMEOUT
  /\ phase \in {"Rechecking", "Sleeping"} /\ Busy => sincePing + sleep > ECHO_TIMEOUT + SAMPLE_PERIOD_MS
  /\ InSecondWait \/ pc = "StampRise" => device # "Ranging"
  /\ pc = "StampFall" => ~Busy

\* The two waits, and what of them is behind.
WaitInv ==
  /\ pc = "StampWait" => sincePing <= lag
  /\ InFirstWait => timer <= sincePing /\ sincePing <= timer + LAG
  /\ InSecondWait => timer <= sincePing /\ sincePing <= timer + ECHO_TIMEOUT + 3 * LAG
  /\ pc \in {"PollRise", "PollFall"} => timer <= ECHO_TIMEOUT + lag
  /\ pc \in {"CheckRise", "StampRise", "CheckFall", "StampFall"} => timer <= ECHO_TIMEOUT + LAG + lag

\* The measured age against the true one, while the module is in order.
EchoInv ==
  ~faulted =>
    /\ device \in {"Quiet", "Ranging", "Echoing"}
    /\ pc = "StampWait" => high <= lag
    /\ pc = "PollRise"  => high <= 2 * LAG /\ (Busy => high <= LAG + lag)
    /\ pc = "CheckRise" => high <= 2 * LAG /\ (Busy => high <= lag)
    /\ pc = "StampRise" => high <= 2 * LAG + lag
    /\ InSecondWait => high <= timer + 3 * LAG
    /\ InSecondWait /\ Busy => timer <= high
    /\ pc = "PollFall"  => timer <= high + LAG + lag
    /\ pc = "CheckFall" => timer <= high + lag
    /\ pc = "StampFall" => timer <= high + 2 * LAG + lag

TaskInv == TypeOK /\ BusyInv /\ CalmInv /\ WaitInv /\ EchoInv
=============================================================================
