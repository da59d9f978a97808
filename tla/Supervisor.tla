----------------------------- MODULE Supervisor -----------------------------
(***************************************************************************)
(* The safety supervisor (supervisor/supervisor.cpp): one thread that      *)
(* takes messages and pulses off its channel and handles each to the end   *)
(* before it takes the next.  Every handler is one action.  The processes  *)
(* on the other side of the channel are unconstrained here: any sensor     *)
(* task that was started may send a reading or a heartbeat at any time,    *)
(* and may stop at any time simply by not sending again.                   *)
(*                                                                         *)
(* Time is CLOCK_MONOTONIC in whole units of an arbitrary length.  A       *)
(* timestamp of 0 means "never", as in the code, so the clock starts       *)
(* above 0.  The kernel timer queues a PULSE_SAFETY_TICK every             *)
(* SAFETY_TICK_PERIOD; tickDue is the expiry of the oldest pulse not yet   *)
(* handled.  TICK_LAG bounds how long such a pulse waits: the thread runs  *)
(* SCHED_FIFO at the highest priority (raisePriority()).                   *)
(***************************************************************************)
EXTENDS EventRing

CONSTANTS
  SAFETY_TICK_PERIOD,       \* 50 ms
  TICK_LAG,                 \* the longest a due tick waits to be handled
  HEARTBEAT_TIMEOUT_NS,     \* 250 ms
  ULTRASONIC_DEADLINE_NS,   \* 300 ms
  IMU_DEADLINE_NS,          \* 300 ms
  RECOVERY_GRACE_NS,        \* 2000 ms
  MAX_RESPAWN_ATTEMPTS,     \* 3
  Started,                  \* the sensor tasks that were ever started
  Readings,                 \* the ultrasonic readings they may send
  MaxTime                   \* bound on the clock, for TLC

ASSUME TimingAssumption ==
  /\ SAFETY_TICK_PERIOD \in Nat \ {0}
  /\ TICK_LAG \in Nat
  /\ HEARTBEAT_TIMEOUT_NS \in Nat
  /\ ULTRASONIC_DEADLINE_NS \in Nat
  /\ IMU_DEADLINE_NS \in Nat
  /\ RECOVERY_GRACE_NS \in Nat \ {0}
  /\ MAX_RESPAWN_ATTEMPTS \in Nat
  /\ MaxTime \in Nat

ASSUME InputAssumption == Started \subseteq Source /\ Readings \subseteq Reading

OBSTACLE_THRESHOLD_CM == 20

VARIABLES
  now,                 \* CLOCK_MONOTONIC
  tickDue,             \* expiry of the oldest unhandled safety tick
  processAlive,        \* SubsystemState, one function per field
  lastHeartbeatNs,
  lastMsgNs,
  dataHealth,
  recoveryStartedNs,
  respawnAttempts,
  hazard,              \* the two fields only ultrasonic handlers touch
  dataFault,
  lastDistanceCm,      \* g_lastDistanceCm
  state,               \* g_state
  overrideActive,      \* g_overrideActive
  log                  \* g_events, g_eventHead, g_eventCount

clockVars    == <<now, tickDue>>
livenessVars == <<processAlive, lastHeartbeatNs, recoveryStartedNs, respawnAttempts>>
readingVars  == <<hazard, dataFault, lastDistanceCm, overrideActive>>
vars == <<clockVars, livenessVars, lastMsgNs, dataHealth, readingVars, state, log>>

Init ==
  /\ now = 1
  /\ tickDue = now + SAFETY_TICK_PERIOD
  /\ processAlive      = [s \in Source |-> FALSE]
  /\ lastHeartbeatNs   = [s \in Source |-> 0]
  /\ lastMsgNs         = [s \in Source |-> 0]
  /\ dataHealth        = [s \in Source |-> "Dead"]
  /\ recoveryStartedNs = [s \in Source |-> 0]
  /\ respawnAttempts   = [s \in Source |-> 0]
  /\ hazard            = [u \in Ultrasonic |-> FALSE]
  /\ dataFault         = [u \in Ultrasonic |-> FALSE]
  /\ lastDistanceCm    = [u \in Ultrasonic |-> -1]
  /\ state = "Recovery"
  /\ overrideActive = FALSE
  /\ log = EmptyLog

-----------------------------------------------------------------------------
(***************************************************************************)
(* Readings.                                                               *)
(***************************************************************************)

Implausible(m) ==
  /\ m.status = "Connected"
  /\ \/ Below(m.distanceCm, ULTRASONIC_PHYSICAL_MIN_CM)
     \/ Above(m.distanceCm, ULTRASONIC_PHYSICAL_MAX_CM)

Plausible(m) == m.status = "Connected" /\ ~Implausible(m)

\* Mutants: the distance is looked at whatever the status; an anomaly is
\* logged only when the fault is new.
ShowsHazardAnyStatus(m) == Implausible(m) \/ Below(m.distanceCm, OBSTACLE_THRESHOLD_CM)

LogReadingOnce(l, id, m) ==
  CASE Implausible(m) -> LogIf(l, ~dataFault[id], Event("AnomalyDetected", id))
    [] Plausible(m)   -> LogIf(l, ShowsHazardAnyStatus(m), Event("Obstacle", id))
    [] OTHER          -> LogEvent(l, Event("SensorTimeout", id))

ShowsHazard(m) ==
  Implausible(m) \/ (Plausible(m) /\ Below(m.distanceCm, OBSTACLE_THRESHOLD_CM))

LogReading(l, id, m) ==
  CASE Implausible(m) -> LogEvent(l, Event("AnomalyDetected", id))
    [] Plausible(m)   -> LogIf(l, ShowsHazard(m), Event("Obstacle", id))
    [] OTHER          -> LogEvent(l, Event("SensorTimeout", id))

AnyHazard(h) == \E u \in Ultrasonic : h[u]

\* Mutant: the override follows the sensor that just reported.
UpdateOverrideOwnSensor(id, h, l) ==
  /\ overrideActive' = h[id]
  /\ log' = LogIf(LogIf(l, h[id] /\ ~overrideActive, Event("OverrideEngaged", id)),
                  ~h[id] /\ overrideActive, Event("OverrideCleared", SOURCE_SYSTEM))

\* updateOverride(), after the reading was logged in l and the flags became
\* h: it acts on the two edges only.
UpdateOverride(id, h, l) ==
  LET engages == AnyHazard(h) /\ ~overrideActive
      clears  == ~AnyHazard(h) /\ overrideActive
  IN  /\ overrideActive' = (engages \/ (overrideActive /\ ~clears))
      /\ log' = LogIf(LogIf(l, engages, Event("OverrideEngaged", id)),
                      clears, Event("OverrideCleared", SOURCE_SYSTEM))

\* Mutant: a plausible reading does not clear the fault.
OnUltrasonicReadingSticky(id, m) ==
  /\ id \in Ultrasonic
  /\ lastMsgNs' = [lastMsgNs EXCEPT ![id] = now]
  /\ hazard'    = [hazard EXCEPT ![id] = ShowsHazard(m)]
  /\ dataFault' = [dataFault EXCEPT ![id] = Implausible(m) \/ @]
  /\ lastDistanceCm' = [lastDistanceCm EXCEPT
                          ![id] = IF m.status = "Connected" THEN m.distanceCm ELSE @]
  /\ UpdateOverride(id, hazard', LogReading(log, id, m))
  /\ UNCHANGED <<clockVars, livenessVars, dataHealth, state>>

\* onUltrasonicReading(): a sender with any other id is ignored.
OnUltrasonicReading(id, m) ==
  /\ id \in Ultrasonic
  /\ lastMsgNs' = [lastMsgNs EXCEPT ![id] = now]
  /\ hazard'    = [hazard EXCEPT ![id] = ShowsHazard(m)]
  /\ dataFault' = [dataFault EXCEPT ![id] = Implausible(m) \/ (@ /\ ~Plausible(m))]
  /\ lastDistanceCm' = [lastDistanceCm EXCEPT
                          ![id] = IF m.status = "Connected" THEN m.distanceCm ELSE @]
  /\ UpdateOverride(id, hazard', LogReading(log, id, m))
  /\ UNCHANGED <<clockVars, livenessVars, dataHealth, state>>

\* onImuReading(): the acceleration itself is only ever displayed.
OnImuReading(valid) ==
  /\ lastMsgNs' = [lastMsgNs EXCEPT ![SOURCE_IMU] = now]
  /\ log' = LogIf(log, ~valid, Event("SensorTimeout", SOURCE_IMU))
  /\ UNCHANGED <<clockVars, livenessVars, dataHealth, readingVars, state>>

(***************************************************************************)
(* Pulses.                                                                 *)
(***************************************************************************)

\* Mutant: a reconnect leaves the recovery counters of the last outage.
OnHeartbeatNoReset(s) ==
  /\ lastHeartbeatNs' = [lastHeartbeatNs EXCEPT ![s] = now]
  /\ processAlive' = [processAlive EXCEPT ![s] = TRUE]
  /\ log' = LogIf(log, ~processAlive[s], Event("ProcessRecovered", s))
  /\ UNCHANGED <<clockVars, lastMsgNs, dataHealth, readingVars, state,
                 recoveryStartedNs, respawnAttempts>>

OnHeartbeat(s) ==
  /\ lastHeartbeatNs' = [lastHeartbeatNs EXCEPT ![s] = now]
  /\ processAlive' = [processAlive EXCEPT ![s] = TRUE]
  /\ recoveryStartedNs' = [recoveryStartedNs EXCEPT ![s] = IF processAlive[s] THEN @ ELSE 0]
  /\ respawnAttempts' = [respawnAttempts EXCEPT ![s] = IF processAlive[s] THEN @ ELSE 0]
  /\ log' = LogIf(log, ~processAlive[s], Event("ProcessRecovered", s))
  /\ UNCHANGED <<clockVars, lastMsgNs, dataHealth, readingVars, state>>

\* Mutant: readings count as signs of life.
MissesReadings(s) ==
  /\ lastHeartbeatNs[s] # 0
  /\ now - lastMsgNs[s] > HEARTBEAT_TIMEOUT_NS
  /\ processAlive[s]

\* Mutant: a heartbeat exactly as old as the timeout is too old.
MissesAtTimeout(s) ==
  /\ lastHeartbeatNs[s] # 0
  /\ now - lastHeartbeatNs[s] >= HEARTBEAT_TIMEOUT_NS
  /\ processAlive[s]

\* checkWatchdog() declares s dead.
MissesHeartbeats(s) ==
  /\ lastHeartbeatNs[s] # 0   \* never connected yet: still starting up
  /\ now - lastHeartbeatNs[s] > HEARTBEAT_TIMEOUT_NS
  /\ processAlive[s]

Deadline(s) == IF s = SOURCE_IMU THEN IMU_DEADLINE_NS ELSE ULTRASONIC_DEADLINE_NS

\* Mutant: once a reading came, its age is not looked at.
CheckDeadlineHeardOnce(s) == IF lastMsgNs[s] = 0 THEN "Dead" ELSE "Healthy"

CheckDeadline(s) ==
  CASE lastMsgNs[s] = 0 -> "Dead"
    [] lastMsgNs[s] # 0 /\ now - lastMsgNs[s] > Deadline(s) -> "Degraded"
    [] OTHER -> "Healthy"

\* Mutants: prompts without limit; one prompt too few.
PromptsForever(s, alive, started) ==
  ~alive[s] /\ started[s] # 0 /\ now - started[s] >= RECOVERY_GRACE_NS

PromptsOneShort(s, alive, started) ==
  PromptsForever(s, alive, started) /\ respawnAttempts[s] + 1 < MAX_RESPAWN_ATTEMPTS

\* tryRecover() prompts for s, given who is alive and when the timers started.
PromptsFor(s, alive, started) ==
  /\ ~alive[s]
  /\ started[s] # 0
  /\ now - started[s] >= RECOVERY_GRACE_NS
  /\ respawnAttempts[s] < MAX_RESPAWN_ATTEMPTS

\* The two tests recomputeSystemState() makes and what follows from them.
AllHealthy(health, fault) ==
  (\A s \in Source : health[s] = "Healthy") /\ (\A u \in Ultrasonic : ~fault[u])

Rollup(allProcessesAlive, allDataHealthy) ==
  CASE ~allProcessesAlive                    -> "SafeStop"
    [] allProcessesAlive /\ ~allDataHealthy -> "Degraded"
    [] OTHER                                 -> "Normal"

\* Mutants: SAFE_STOP only when no process is left; SAFE_STOP is latched; the
\* IMU's data are not looked at.
RecomputeNoneLeft(alive, health, fault) ==
  Rollup(\E s \in Source : alive[s], AllHealthy(health, fault))
RecomputeLatched(alive, health, fault) ==
  Rollup(state # "SafeStop" /\ \A s \in Source : alive[s], AllHealthy(health, fault))
RecomputeWithoutImu(alive, health, fault) ==
  Rollup(\A s \in Source : alive[s], \A u \in Ultrasonic : health[u] = "Healthy" /\ ~fault[u])

RecomputeSystemState(alive, health, fault) ==
  Rollup(\A s \in Source : alive[s], AllHealthy(health, fault))

\* Mutant: the entry is written a tick after the declaration.
LogDeathLate(l, s) ==
  LogIf(l, ~processAlive[s] /\ recoveryStartedNs[s] # 0 /\ respawnAttempts[s] = 0, Event("ProcessDead", s))

\* checkWatchdog()'s entry for s.
LogDeath(l, s) == LogIf(l, MissesHeartbeats(s), Event("ProcessDead", s))

\* onSafetyTick(): watchdogs, then deadlines, then recovery, then the state.
OnSafetyTick ==
  /\ tickDue <= now
  /\ tickDue' = tickDue + SAFETY_TICK_PERIOD
  /\ processAlive' = [s \in Source |-> processAlive[s] /\ ~MissesHeartbeats(s)]
  /\ dataHealth' = [s \in Source |-> CheckDeadline(s)]
  /\ LET started  == [s \in Source |-> IF MissesHeartbeats(s) THEN now ELSE recoveryStartedNs[s]]
         prompted == {s \in Source : PromptsFor(s, processAlive', started)}
     IN  /\ recoveryStartedNs' = [s \in Source |-> IF s \in prompted THEN now ELSE started[s]]
         /\ respawnAttempts' = [s \in Source |-> IF s \in prompted THEN respawnAttempts[s] + 1
                                                                   ELSE respawnAttempts[s]]
  /\ state' = RecomputeSystemState(processAlive', dataHealth', dataFault)
  /\ log' = LogDeath(LogDeath(LogDeath(log, ULTRASONIC_ID_1), ULTRASONIC_ID_2), SOURCE_IMU)
  /\ UNCHANGED <<now, lastHeartbeatNs, lastMsgNs, readingVars>>

\* The clock moves on unless a due tick has already waited its longest.
Elapse ==
  /\ now < MaxTime
  /\ now < tickDue + TICK_LAG
  /\ now' = now + 1
  /\ UNCHANGED <<tickDue, livenessVars, lastMsgNs, dataHealth, readingVars, state, log>>

Next ==
  \/ \E id \in Ultrasonic \cap Started, m \in Readings : OnUltrasonicReading(id, m)
  \/ \E valid \in BOOLEAN : SOURCE_IMU \in Started /\ OnImuReading(valid)
  \/ \E s \in Started : OnHeartbeat(s)
  \/ OnSafetyTick
  \/ Elapse

Spec == Init /\ [][Next]_vars

(***************************************************************************)
(* The health buildStatusReply() reports for each subsystem.  A status     *)
(* request reads the state and changes nothing, so it is no action: what   *)
(* is claimed of the reply is claimed of every state.                      *)
(***************************************************************************)
ReplyHealth(s) ==
  CASE ~processAlive[s] -> "Dead"
    [] processAlive[s] /\ s \in Ultrasonic /\ dataFault[s] -> "Dead"
    [] OTHER -> dataHealth[s]

-----------------------------------------------------------------------------
TypeOK ==
  /\ now \in Nat \ {0}
  /\ tickDue \in Nat
  /\ processAlive \in [Source -> BOOLEAN]
  /\ lastHeartbeatNs \in [Source -> Nat]
  /\ lastMsgNs \in [Source -> Nat]
  /\ dataHealth \in [Source -> SensorHealth]
  /\ recoveryStartedNs \in [Source -> Nat]
  /\ respawnAttempts \in [Source -> 0 .. MAX_RESPAWN_ATTEMPTS]
  /\ hazard \in [Ultrasonic -> BOOLEAN]
  /\ dataFault \in [Ultrasonic -> BOOLEAN]
  /\ lastDistanceCm \in [Ultrasonic -> Distance]
  /\ state \in SystemState
  /\ overrideActive \in BOOLEAN
  /\ log \in Ring

\* The override is one decision over both sensors: whatever the order of
\* their readings, it is on exactly while one of them still reports a hazard
\* (updateOverride() acts on edges and never recomputes the flag).
OverrideMatchesHazards == overrideActive <=> AnyHazard(hazard)

\* A timestamp read by the next tick may be this much older when the tick
\* after it has not been handled yet.
Slack == SAFETY_TICK_PERIOD + TICK_LAG

\* NORMAL is a bounded claim about the present although it is recomputed only
\* at ticks: at no moment is the system NORMAL on a reading older than its
\* deadline, or on a heartbeat older than the timeout, by more than a period.
NormalMeansFresh ==
  state = "Normal" =>
    \A s \in Source :
      /\ lastMsgNs[s] # 0 /\ now - lastMsgNs[s] <= Deadline(s) + Slack
      /\ lastHeartbeatNs[s] # 0 /\ now - lastHeartbeatNs[s] <= HEARTBEAT_TIMEOUT_NS + Slack

\* Whenever a process that once beat has been silent for longer than the
\* timeout and a period, the watchdog has declared it dead, the recovery
\* timer runs for it, and the system is in SAFE_STOP.
SilenceIsDeclared ==
  \A s \in Source :
    lastHeartbeatNs[s] # 0 /\ now - lastHeartbeatNs[s] > HEARTBEAT_TIMEOUT_NS + Slack
      => ~processAlive[s] /\ recoveryStartedNs[s] # 0 /\ state = "SafeStop"

\* Recovery prompts are paced: the k-th prompt of an outage comes no earlier
\* than k grace periods after the heartbeat timeout, and an outage that ends
\* gives the next one its full number of prompts.
RecoveryPaced ==
  \A s \in Source :
    IF processAlive[s] \/ lastHeartbeatNs[s] = 0
    THEN respawnAttempts[s] = 0 /\ recoveryStartedNs[s] = 0
    ELSE recoveryStartedNs[s] > lastHeartbeatNs[s] + HEARTBEAT_TIMEOUT_NS
                                  + respawnAttempts[s] * RECOVERY_GRACE_NS

\* Recovery does not fall silent early: while prompts are left, a dead
\* process is never without one for longer than the grace period and a tick.
PromptNotLate ==
  \A s \in Source :
    (lastHeartbeatNs[s] # 0 /\ ~processAlive[s] /\ respawnAttempts[s] < MAX_RESPAWN_ATTEMPTS)
      => now - recoveryStartedNs[s] < RECOVERY_GRACE_NS + Slack

\* The strengthening the four claims above rest on: what holds of the clock
\* and of process s not at the present moment but as of the last tick, whose
\* expiry was tickDue - SAFETY_TICK_PERIOD.
LastTick == tickDue - SAFETY_TICK_PERIOD

ClockInv == LastTick <= now /\ now <= tickDue + TICK_LAG

StampsPast(s) == lastMsgNs[s] <= now /\ lastHeartbeatNs[s] <= now /\ recoveryStartedNs[s] <= now

AliveInv(s) ==
  processAlive[s] => /\ lastHeartbeatNs[s] # 0
                     /\ LastTick - lastHeartbeatNs[s] <= HEARTBEAT_TIMEOUT_NS
                     /\ respawnAttempts[s] = 0
                     /\ recoveryStartedNs[s] = 0

DeadInv(s) ==
  (~processAlive[s] /\ lastHeartbeatNs[s] # 0)
    => /\ state = "SafeStop"
       /\ recoveryStartedNs[s] > lastHeartbeatNs[s] + HEARTBEAT_TIMEOUT_NS
                                   + respawnAttempts[s] * RECOVERY_GRACE_NS
       /\ respawnAttempts[s] < MAX_RESPAWN_ATTEMPTS
            => LastTick - recoveryStartedNs[s] < RECOVERY_GRACE_NS

NeverHeardInv(s) ==
  lastHeartbeatNs[s] = 0 => /\ ~processAlive[s]
                            /\ respawnAttempts[s] = 0
                            /\ recoveryStartedNs[s] = 0

StateInv(s) ==
  /\ state \in {"Normal", "Degraded"} => processAlive[s]
  /\ state = "Normal" => lastMsgNs[s] # 0 /\ LastTick - lastMsgNs[s] <= Deadline(s)

TimingInv ==
  /\ ClockInv
  /\ \A s \in Source :
       StampsPast(s) /\ AliveInv(s) /\ DeadInv(s) /\ NeverHeardInv(s) /\ StateInv(s)

\* The flags agree with the distance on display: a hazard is shown with a
\* distance that explains it, and an impossible distance only with the fault
\* that marks the sensor DEAD.
FlagsMatchDistance ==
  \A u \in Ultrasonic :
    LET d == lastDistanceCm[u]
        impossible == Below(d, ULTRASONIC_PHYSICAL_MIN_CM) \/ Above(d, ULTRASONIC_PHYSICAL_MAX_CM)
    IN  /\ hazard[u] => impossible \/ Below(d, OBSTACLE_THRESHOLD_CM)
        /\ dataFault[u] => impossible
        /\ impossible => dataFault[u] \/ d = -1

\* The entry of events at i is the last one of them that satisfies P.
IsLatest(events, i, P(_)) == P(events[i]) /\ \A j \in DOMAIN events : j > i => ~P(events[j])

\* A reader of the log is never misled about a process: the latest entry on
\* it, however often the ring has wrapped, tells whether it is alive now.
LogTellsLiveness ==
  LET events == ReplyEvents(log)
      OnProcess(s, e) == e.source = s /\ e.type \in {"ProcessDead", "ProcessRecovered"}
  IN  \A s \in Source, i \in DOMAIN events :
        IsLatest(events, i, LAMBDA e : OnProcess(s, e))
          => (events[i].type = "ProcessRecovered" <=> processAlive[s])

\* The same for the override; its two entries differ in their source.
LogTellsOverride ==
  LET events == ReplyEvents(log)
      OnOverride(e) == e.type \in {"OverrideEngaged", "OverrideCleared"}
  IN  \A i \in DOMAIN events :
        IsLatest(events, i, OnOverride)
          => (events[i].type = "OverrideEngaged" <=> overrideActive)

\* Every engagement in the log stands right behind the reading that caused
\* it, from the same sensor: nothing slips in between the two entries.
EngagementExplained ==
  LET events == ReplyEvents(log)
  IN  \A i \in DOMAIN events :
        events[i].type = "OverrideEngaged" /\ i > 1
          => /\ events[i - 1].type \in {"Obstacle", "AnomalyDetected"}
             /\ events[i - 1].source = events[i].source

\* The roll-up in recomputeSystemState() and the per-sensor health a status
\* reply computes on its own say the same at every tick.
TickRollsUpHealth ==
  [][OnSafetyTick =>
       /\ (state' = "Normal") <=> (\A s \in Source : ReplyHealth(s)' = "Healthy")
       /\ (state' = "SafeStop") <=> (\E s \in Source : ~processAlive'[s])]_vars

\* SAFE_STOP is left only at a tick, and only when all three processes have
\* been heard within the timeout: no single reconnect ends it.
SafeStopLeftOnlyWhenAllBeat ==
  [][state = "SafeStop" /\ state' # "SafeStop" =>
       \A s \in Source : /\ lastHeartbeatNs[s] # 0
                         /\ now - lastHeartbeatNs[s] <= HEARTBEAT_TIMEOUT_NS]_vars

\* The supervisor implements Verdict: in every interleaving its flags, edges
\* and ticks amount to that judgement, and never to one made at another time.
V == INSTANCE Verdict
       WITH Task <- Source, Sensor <- Ultrasonic,
            beating <- {s \in Source : processAlive[s]},
            hazards <- {u \in Ultrasonic : hazard[u]},
            faults <- {u \in Ultrasonic : dataFault[u]},
            override <- overrideActive, verdict <- state

ImplementsVerdict == V!Spec
=============================================================================
