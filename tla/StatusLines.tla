----------------------------- MODULE StatusLines -----------------------------
(***************************************************************************)
(* What oled_task composes for its panel from a status reply: render() and *)
(* findLatestHazardEvent().  The texts are as of the reply, so they are    *)
(* operators on the supervisor's state; the numbers in them are left out.  *)
(***************************************************************************)
EXTENDS Supervisor

DrawOrder == <<0, 2, 4, 6>>   \* the panel's rows, as render() draws them

Stopped == overrideActive \/ state = "SafeStop"

\* findLatestHazardEvent(): where the last reading-related fault is.
HazardEvents(events) ==
  {i \in DOMAIN events : events[i].type \in {"Obstacle", "AnomalyDetected"}}

\* Mutant: the log is scanned forward.
EarliestHazard(events) ==
  events[CHOOSE i \in HazardEvents(events) : \A j \in HazardEvents(events) : i <= j]

LatestHazard(events) ==
  events[CHOOSE i \in HazardEvents(events) : \A j \in HazardEvents(events) : j <= i]

Found == HazardEvents(ReplyEvents(log)) # {}

SourceName == [s \in Source |-> CASE s = ULTRASONIC_ID_1 -> "US1"
                                  [] s = ULTRASONIC_ID_2 -> "US2"
                                  [] s = SOURCE_IMU      -> "IMU"]

\* Mutant: only the override counts as a stop.
Line0OverrideOnly == IF overrideActive THEN "VehicleStopped" ELSE "VehicleMoving"

Line0 == IF Stopped THEN "VehicleStopped" ELSE "VehicleMoving"

Line1 ==
  CASE ~Stopped -> "Distances"
    [] Stopped /\ Found /\ LatestHazard(ReplyEvents(log)).type = "AnomalyDetected" -> "AnomalyDetected"
    [] OTHER -> "ObstacleDetected"

Line2 ==
  CASE ~Stopped /\ state = "Normal" -> "StateNormal"
    [] ~Stopped /\ state # "Normal" -> "StateDegraded"
    [] Stopped /\ Found  -> SourceName[LatestHazard(ReplyEvents(log)).source]
    [] Stopped /\ ~Found -> "Distances"

Lines == [r \in {0, 2, 4, 6} |-> CASE r = 0 -> Line0 [] r = 2 -> Line1
                            [] r = 4 -> Line2 [] r = 6 -> "Accel"]

-----------------------------------------------------------------------------
\* The cause on the display is not an old one of the sensor it names: if that
\* sensor still reports a hazard, it is of the kind shown, though the line is
\* composed from the log and the log has room for a few entries only.
CauseCurrent ==
  overrideActive /\ Found =>
    LET src == LatestHazard(ReplyEvents(log)).source
    IN  hazard[src] => (Line1 = "AnomalyDetected" <=> dataFault[src])
=============================================================================
