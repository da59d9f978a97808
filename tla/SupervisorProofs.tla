-------------------------- MODULE SupervisorProofs --------------------------
(***************************************************************************)
(* The supervisor for every period, lag, timeout, deadline, grace period   *)
(* and number of prompts, every set of started tasks and every set of      *)
(* readings: its types, the override, and what it may claim about the      *)
(* present although it looks at its clock only at safety ticks.            *)
(***************************************************************************)
EXTENDS Supervisor, EventRingLemmas

USE DEF ULTRASONIC_ID_1, ULTRASONIC_ID_2, SOURCE_IMU, SOURCE_SYSTEM, Ultrasonic, Source

-----------------------------------------------------------------------------
\* Every event the supervisor logs about one of its subsystems is well formed.
LEMMA EventIsSafetyEvent ==
  ASSUME NEW t \in SafetyEventType, NEW s \in Source \cup {SOURCE_SYSTEM}
  PROVE  Event(t, s) \in SafetyEvent
  BY DEF Event, SafetyEvent

\* The tests on a reading are Booleans, whatever the distance (NaN included).
LEMMA ReadingTests ==
  ASSUME NEW m \in Reading
  PROVE  Implausible(m) \in BOOLEAN /\ Plausible(m) \in BOOLEAN /\ ShowsHazard(m) \in BOOLEAN
  BY DEF Implausible, Plausible, ShowsHazard

\* Logging a reading keeps the ring.
LEMMA LogReadingInRing ==
  ASSUME NEW l \in Ring, NEW id \in Ultrasonic, NEW m \in Reading
  PROVE  LogReading(l, id, m) \in Ring
  <1>1. \A t \in SafetyEventType : Event(t, id) \in SafetyEvent
    BY EventIsSafetyEvent
  <1>2. {"AnomalyDetected", "Obstacle", "SensorTimeout"} \subseteq SafetyEventType
    BY DEF SafetyEventType
  <1>3. LogEvent(l, Event("AnomalyDetected", id)) \in Ring
    BY <1>1, <1>2, LogEventInRing
  <1>4. LogEvent(l, Event("SensorTimeout", id)) \in Ring
    BY <1>1, <1>2, LogEventInRing
  <1>5. LogIf(l, ShowsHazard(m), Event("Obstacle", id)) \in Ring
    BY <1>1, <1>2, LogIfInRing, ReadingTests
  <1> QED BY <1>3, <1>4, <1>5 DEF LogReading

\* checkDeadline() and recomputeSystemState() return values of their types.
LEMMA RollupTypes ==
  ASSUME NEW s \in Source, NEW alive, NEW health, NEW fault
  PROVE  /\ CheckDeadline(s) \in SensorHealth
         /\ RecomputeSystemState(alive, health, fault) \in SystemState
  BY DEF CheckDeadline, SensorHealth, RecomputeSystemState, Rollup, SystemState

-----------------------------------------------------------------------------
\* Every variable keeps its type, the event ring included: in particular no
\* subsystem is ever prompted for more than MAX_RESPAWN_ATTEMPTS times.
THEOREM TypeCorrect == Spec => []TypeOK
  <1>1. Init => TypeOK
    <2> SUFFICES ASSUME Init
                 PROVE  TypeOK
      OBVIOUS
    <2>1. now \in Nat \ {0} /\ tickDue \in Nat
      BY TimingAssumption DEF Init
    <2>2. 0 \in 0 .. MAX_RESPAWN_ATTEMPTS /\ -1 \in Distance
      BY TimingAssumption DEF Distance
    <2> QED BY <2>1, <2>2, EmptyLogInRing DEF Init, TypeOK, SensorHealth, SystemState
  <1>2. TypeOK /\ [Next]_vars => TypeOK'
    <2> SUFFICES ASSUME TypeOK, [Next]_vars
                 PROVE  TypeOK'
      OBVIOUS
    <2>1. ASSUME NEW id \in Ultrasonic \cap Started, NEW m \in Readings,
                 OnUltrasonicReading(id, m)
          PROVE  TypeOK'
      <3>1. m \in Reading /\ m.distanceCm \in Distance
        BY InputAssumption DEF Reading
      <3>2. lastMsgNs' \in [Source -> Nat] /\ lastDistanceCm' \in [Ultrasonic -> Distance]
        BY <2>1, <3>1 DEF TypeOK, OnUltrasonicReading
      <3>3. hazard' \in [Ultrasonic -> BOOLEAN] /\ dataFault' \in [Ultrasonic -> BOOLEAN]
        BY <2>1, <3>1, ReadingTests DEF TypeOK, OnUltrasonicReading
      <3>4. overrideActive' \in BOOLEAN /\ log' \in Ring
        <4> DEFINE l       == LogReading(log, id, m)
                   engages == AnyHazard(hazard') /\ ~overrideActive
                   clears  == ~AnyHazard(hazard') /\ overrideActive
                   l2      == LogIf(l, engages, Event("OverrideEngaged", id))
        <4>1. l \in Ring
          BY <3>1, LogReadingInRing DEF TypeOK
        <4>2. Event("OverrideEngaged", id) \in SafetyEvent
              /\ Event("OverrideCleared", SOURCE_SYSTEM) \in SafetyEvent
          BY EventIsSafetyEvent DEF SafetyEventType
        <4>3. engages \in BOOLEAN /\ clears \in BOOLEAN
          OBVIOUS
        <4> HIDE DEF l, engages, clears
        <4>4. l2 \in Ring
          BY <4>1, <4>2, <4>3, LogIfInRing
        <4> HIDE DEF l2
        <4>5. LogIf(l2, clears, Event("OverrideCleared", SOURCE_SYSTEM)) \in Ring
          BY <4>2, <4>3, <4>4, LogIfInRing
        <4>6. UpdateOverride(id, hazard', l)
          BY <2>1 DEF OnUltrasonicReading, l
        <4> QED BY <4>5, <4>6 DEF UpdateOverride, l2, engages, clears
      <3> QED BY <2>1, <3>2, <3>3, <3>4
              DEF TypeOK, OnUltrasonicReading, clockVars, livenessVars
    <2>2. ASSUME NEW valid \in BOOLEAN, OnImuReading(valid)
          PROVE  TypeOK'
      <3>1. log' \in Ring
        BY <2>2, EventIsSafetyEvent, LogIfInRing DEF TypeOK, OnImuReading, SafetyEventType
      <3> QED BY <2>2, <3>1
              DEF TypeOK, OnImuReading, clockVars, livenessVars, readingVars
    <2>3. ASSUME NEW s \in Started, OnHeartbeat(s)
          PROVE  TypeOK'
      <3>1. s \in Source
        BY InputAssumption
      <3>2. log' \in Ring
        BY <2>3, <3>1, EventIsSafetyEvent, LogIfInRing DEF TypeOK, OnHeartbeat, SafetyEventType
      <3> QED BY <2>3, <3>1, <3>2, TimingAssumption
              DEF TypeOK, OnHeartbeat, clockVars, readingVars
    <2>4. CASE OnSafetyTick
      <3>1. log' \in Ring
        <4>1. ASSUME NEW l \in Ring, NEW s \in Source
              PROVE  LogDeath(l, s) \in Ring
          <5>1. Event("ProcessDead", s) \in SafetyEvent
            BY EventIsSafetyEvent DEF SafetyEventType
          <5>2. MissesHeartbeats(s) \in BOOLEAN
            BY DEF MissesHeartbeats
          <5> QED BY <5>1, <5>2, LogIfInRing DEF LogDeath
        <4> QED BY <2>4, <4>1 DEF TypeOK, OnSafetyTick
      <3>2. dataHealth' \in [Source -> SensorHealth] /\ state' \in SystemState
        BY <2>4, RollupTypes DEF OnSafetyTick
      <3>3. tickDue' \in Nat /\ processAlive' \in [Source -> BOOLEAN]
        BY <2>4, TimingAssumption DEF TypeOK, OnSafetyTick, MissesHeartbeats
      <3>4. recoveryStartedNs' \in [Source -> Nat]
        BY <2>4 DEF TypeOK, OnSafetyTick
      <3>5. respawnAttempts' \in [Source -> 0 .. MAX_RESPAWN_ATTEMPTS]
        BY <2>4, TimingAssumption DEF TypeOK, OnSafetyTick, PromptsFor
      <3> QED BY <2>4, <3>1, <3>2, <3>3, <3>4, <3>5 DEF TypeOK, OnSafetyTick, readingVars
    <2>5. CASE Elapse
      BY <2>5 DEF TypeOK, Elapse, livenessVars, readingVars
    <2>6. CASE UNCHANGED vars
      BY <2>6 DEF TypeOK, vars, clockVars, livenessVars, readingVars
    <2> QED BY <2>1, <2>2, <2>3, <2>4, <2>5, <2>6 DEF Next
  <1> QED BY <1>1, <1>2, PTL DEF Spec

-----------------------------------------------------------------------------
\* updateOverride() acts on edges only, and still the override is on exactly
\* while a sensor reports a hazard, for every order of readings.
THEOREM OverrideCorrect == Spec => []OverrideMatchesHazards
  <1>1. Init => OverrideMatchesHazards
    BY DEF Init, OverrideMatchesHazards, AnyHazard
  <1>2. TypeOK /\ OverrideMatchesHazards /\ [Next]_vars => OverrideMatchesHazards'
    <2> SUFFICES ASSUME TypeOK, OverrideMatchesHazards, [Next]_vars
                 PROVE  OverrideMatchesHazards'
      OBVIOUS
    <2>1. ASSUME NEW id, NEW m, OnUltrasonicReading(id, m)
          PROVE  OverrideMatchesHazards'
      <3>1. PICK l : UpdateOverride(id, hazard', l)
        BY <2>1, Zenon DEF OnUltrasonicReading
      <3> QED BY <3>1 DEF UpdateOverride, OverrideMatchesHazards, AnyHazard, TypeOK
    <2>2. UNCHANGED readingVars => OverrideMatchesHazards'
      BY DEF OverrideMatchesHazards, AnyHazard, readingVars
    <2> QED BY <2>1, <2>2, Zenon
            DEF Next, OnImuReading, OnHeartbeat, OnSafetyTick, Elapse, vars
  <1> QED BY <1>1, <1>2, TypeCorrect, PTL DEF Spec

\* What the display shows of a sensor hangs together: in every interleaving of
\* the readings, disconnects included, a hazard is shown with a distance that
\* explains it, and an impossible distance with the fault (but for the -1 of
\* "no reading yet").
THEOREM FlagsAgree == Spec => []FlagsMatchDistance
  <1>1. Init => FlagsMatchDistance
    BY DEF Init, FlagsMatchDistance
  <1>2. TypeOK /\ FlagsMatchDistance /\ [Next]_vars => FlagsMatchDistance'
    <2> SUFFICES ASSUME TypeOK, FlagsMatchDistance, [Next]_vars
                 PROVE  FlagsMatchDistance'
      OBVIOUS
    <2>1. ASSUME NEW id \in Ultrasonic \cap Started, NEW m \in Readings,
                 OnUltrasonicReading(id, m)
          PROVE  FlagsMatchDistance'
      <3> DEFINE Agrees(d, h, f) ==
            LET impossible == Below(d, ULTRASONIC_PHYSICAL_MIN_CM) \/ Above(d, ULTRASONIC_PHYSICAL_MAX_CM)
            IN  /\ h => impossible \/ Below(d, OBSTACLE_THRESHOLD_CM)
                /\ f => impossible
                /\ impossible => f \/ d = -1
      <3> SUFFICES ASSUME NEW u \in Ultrasonic
                   PROVE  Agrees(lastDistanceCm'[u], hazard'[u], dataFault'[u])
        BY DEF FlagsMatchDistance
      <3>1. Agrees(lastDistanceCm[u], hazard[u], dataFault[u])
        BY DEF FlagsMatchDistance
      <3>2. CASE u # id
        <4>1. /\ lastDistanceCm'[u] = lastDistanceCm[u]
              /\ hazard'[u] = hazard[u]
              /\ dataFault'[u] = dataFault[u]
          BY <2>1, <3>2 DEF TypeOK, OnUltrasonicReading
        <4> QED BY <3>1, <4>1
      <3>3. CASE u = id
        <4>1. /\ lastDistanceCm'[u] = IF m.status = "Connected" THEN m.distanceCm
                                                                ELSE lastDistanceCm[u]
              /\ hazard'[u] = ShowsHazard(m)
              /\ dataFault'[u] = (Implausible(m) \/ (dataFault[u] /\ ~Plausible(m)))
          BY <2>1, <3>3 DEF TypeOK, OnUltrasonicReading
        <4>2. CASE m.status = "Connected"
          <5>1. CASE Implausible(m)
            BY <4>1, <4>2, <5>1 DEF Implausible, Plausible, ShowsHazard
          <5>2. CASE ~Implausible(m)
            BY <4>1, <4>2, <5>2 DEF Implausible, Plausible, ShowsHazard
          <5> QED BY <5>1, <5>2
        <4>3. CASE m.status # "Connected"
          BY <3>1, <4>1, <4>3 DEF Implausible, Plausible, ShowsHazard
        <4> QED BY <4>2, <4>3
      <3> QED BY <3>2, <3>3
    <2>2. ASSUME NEW valid \in BOOLEAN, OnImuReading(valid)
          PROVE  FlagsMatchDistance'
      BY <2>2 DEF OnImuReading, readingVars, FlagsMatchDistance
    <2>3. ASSUME NEW s \in Started, OnHeartbeat(s)
          PROVE  FlagsMatchDistance'
      BY <2>3 DEF OnHeartbeat, readingVars, FlagsMatchDistance
    <2>4. CASE OnSafetyTick
      BY <2>4 DEF OnSafetyTick, readingVars, FlagsMatchDistance
    <2>5. CASE Elapse
      BY <2>5 DEF Elapse, readingVars, FlagsMatchDistance
    <2>6. CASE UNCHANGED vars
      BY <2>6 DEF vars, readingVars, FlagsMatchDistance
    <2> QED BY <2>1, <2>2, <2>3, <2>4, <2>5, <2>6 DEF Next
  <1> QED BY <1>1, <1>2, TypeCorrect, PTL DEF Spec

-----------------------------------------------------------------------------
(***************************************************************************)
(* The inductive invariant behind the claims about time.  Handlers run     *)
(* when something arrives, and the supervisor compares its timestamps with *)
(* the clock at ticks only; TimingInv therefore measures every age from    *)
(* the last tick, and ClockInv says how far behind the clock that can be.  *)
(***************************************************************************)
\* One source's part of TimingInv.
SourceInv(s) == StampsPast(s) /\ AliveInv(s) /\ DeadInv(s) /\ NeverHeardInv(s) /\ StateInv(s)

USE DEF LastTick

\* What TypeOK says about the numbers of one source.
LEMMA SourceTypes ==
  ASSUME TypeOK, NEW s \in Source
  PROVE  /\ now \in Nat /\ now # 0 /\ tickDue \in Nat
         /\ lastMsgNs[s] \in Nat /\ lastHeartbeatNs[s] \in Nat /\ recoveryStartedNs[s] \in Nat
         /\ respawnAttempts[s] \in Nat /\ processAlive[s] \in BOOLEAN
         /\ Deadline(s) \in Nat
  BY TimingAssumption DEF TypeOK, Deadline

\* A reading only makes its sender's data younger.
LEMMA ReadingKeepsTiming ==
  ASSUME TypeOK, TimingInv, NEW id \in Source,
         lastMsgNs' = [lastMsgNs EXCEPT ![id] = now],
         UNCHANGED <<clockVars, livenessVars, state>>
  PROVE  TimingInv'
  <1>1. ClockInv'
    BY DEF TimingInv, ClockInv, clockVars
  <1>2. ASSUME NEW s \in Source
        PROVE  SourceInv(s)'
    <2>1. lastMsgNs'[s] \in {lastMsgNs[s], now}
      BY DEF TypeOK
    <2>2. StampsPast(s)'
      BY <2>1, SourceTypes DEF TimingInv, StampsPast, clockVars, livenessVars
    <2>3. AliveInv(s)' /\ DeadInv(s)' /\ NeverHeardInv(s)'
      BY DEF TimingInv, AliveInv, DeadInv, NeverHeardInv, clockVars, livenessVars
    <2>4. StateInv(s)'
      <3>1. state = "Normal" => lastMsgNs[s] # 0 /\ LastTick - lastMsgNs[s] <= Deadline(s)
        BY DEF TimingInv, StateInv
      <3>2. LastTick - now <= Deadline(s)
        BY SourceTypes, TimingAssumption DEF TimingInv, ClockInv
      <3>3. state' = "Normal" => lastMsgNs'[s] # 0 /\ LastTick' - lastMsgNs'[s] <= Deadline(s)
        BY <2>1, <3>1, <3>2, SourceTypes, TimingAssumption DEF clockVars
      <3> QED BY <3>3 DEF TimingInv, StateInv, Deadline, livenessVars
    <2> QED BY <2>2, <2>3, <2>4 DEF SourceInv
  <1> QED BY <1>1, <1>2 DEF TimingInv, SourceInv

\* A heartbeat revives its sender with a clean recovery record; the state
\* can stay as it is until the tick.
LEMMA HeartbeatKeepsTiming ==
  ASSUME TypeOK, TimingInv, NEW id \in Source, OnHeartbeat(id)
  PROVE  TimingInv'
  <1>1. ClockInv'
    BY DEF TimingInv, ClockInv, OnHeartbeat, clockVars
  <1>2. ASSUME NEW s \in Source
        PROVE  SourceInv(s)'
    <2>1. CASE s = id
      <3>1. /\ lastHeartbeatNs'[s] = now /\ processAlive'[s] = TRUE
            /\ recoveryStartedNs'[s] = (IF processAlive[s] THEN recoveryStartedNs[s] ELSE 0)
            /\ respawnAttempts'[s] = (IF processAlive[s] THEN respawnAttempts[s] ELSE 0)
        BY <2>1 DEF OnHeartbeat, TypeOK
      <3>3. StampsPast(s)'
        BY <3>1, SourceTypes DEF TimingInv, StampsPast, OnHeartbeat, clockVars
      <3>4. AliveInv(s)'
        BY <3>1, SourceTypes, TimingAssumption DEF TimingInv, ClockInv, AliveInv, OnHeartbeat, clockVars
      <3>5. DeadInv(s)' /\ NeverHeardInv(s)'
        BY <3>1, SourceTypes DEF DeadInv, NeverHeardInv
      <3>6. StateInv(s)'
        BY <3>1 DEF TimingInv, StateInv, Deadline, OnHeartbeat, clockVars
      <3> QED BY <3>3, <3>4, <3>5, <3>6 DEF SourceInv
    <2>2. CASE s # id
      <3>1. /\ lastHeartbeatNs'[s] = lastHeartbeatNs[s] /\ processAlive'[s] = processAlive[s]
            /\ recoveryStartedNs'[s] = recoveryStartedNs[s]
            /\ respawnAttempts'[s] = respawnAttempts[s]
        BY <2>2 DEF OnHeartbeat, TypeOK
      <3> QED BY <3>1
              DEF TimingInv, SourceInv, StampsPast, AliveInv, DeadInv, NeverHeardInv,
                  StateInv, Deadline, OnHeartbeat, clockVars
    <2> QED BY <2>1, <2>2
  <1> QED BY <1>1, <1>2 DEF TimingInv, SourceInv

\* The clock runs ahead of the last tick by a period and the lag at most.
LEMMA ElapseKeepsTiming ==
  ASSUME TypeOK, TimingInv, Elapse
  PROVE  TimingInv'
  <1>1. now \in Nat /\ tickDue \in Nat /\ now' = now + 1
    BY DEF TypeOK, Elapse
  <1>2. ClockInv'
    BY <1>1, TimingAssumption DEF TimingInv, ClockInv, Elapse
  <1>3. ASSUME NEW s \in Source
        PROVE  SourceInv(s)'
    BY <1>1, SourceTypes
       DEF TimingInv, SourceInv, StampsPast, AliveInv, DeadInv, NeverHeardInv, StateInv,
           Deadline, Elapse, livenessVars
  <1> QED BY <1>2, <1>3 DEF TimingInv, SourceInv

\* What a tick does to one source: it is declared dead, prompted for, or left.
LEMMA TickOnSource ==
  ASSUME TypeOK, OnSafetyTick, NEW s \in Source
  PROVE  /\ processAlive'[s] <=> (processAlive[s] /\ ~MissesHeartbeats(s))
         /\ \/ /\ MissesHeartbeats(s)
               /\ recoveryStartedNs'[s] = now
               /\ respawnAttempts'[s] = respawnAttempts[s]
            \/ /\ ~MissesHeartbeats(s)
               /\ PromptsFor(s, processAlive', recoveryStartedNs)
               /\ recoveryStartedNs'[s] = now
               /\ respawnAttempts'[s] = respawnAttempts[s] + 1
            \/ /\ ~MissesHeartbeats(s)
               /\ ~PromptsFor(s, processAlive', recoveryStartedNs)
               /\ recoveryStartedNs'[s] = recoveryStartedNs[s]
               /\ respawnAttempts'[s] = respawnAttempts[s]
  <1> DEFINE started  == [r \in Source |-> IF MissesHeartbeats(r) THEN now ELSE recoveryStartedNs[r]]
             prompted == {r \in Source : PromptsFor(r, processAlive', started)}
  <1>1. /\ recoveryStartedNs' = [r \in Source |-> IF r \in prompted THEN now ELSE started[r]]
        /\ respawnAttempts' = [r \in Source |-> IF r \in prompted THEN respawnAttempts[r] + 1
                                                                 ELSE respawnAttempts[r]]
        /\ processAlive' = [r \in Source |-> processAlive[r] /\ ~MissesHeartbeats(r)]
    BY DEF OnSafetyTick
  <1>2. MissesHeartbeats(s) => s \notin prompted
    <2>1. MissesHeartbeats(s) => now - started[s] = 0
      BY SourceTypes
    <2> QED BY <2>1, TimingAssumption DEF PromptsFor
  <1>3. ~MissesHeartbeats(s) => (s \in prompted <=> PromptsFor(s, processAlive', recoveryStartedNs))
    BY DEF PromptsFor
  <1>4. started[s] = IF MissesHeartbeats(s) THEN now ELSE recoveryStartedNs[s]
    OBVIOUS
  <1> HIDE DEF started, prompted
  <1> QED BY <1>1, <1>2, <1>3, <1>4, Zenon

\* A tick re-establishes every age from scratch: whoever it leaves alive beat
\* within the timeout, whoever it leaves dead makes the state SAFE_STOP and
\* has been prompted for no more often than the grace periods allow.
LEMMA TickKeepsTiming ==
  ASSUME TypeOK, TimingInv, OnSafetyTick
  PROVE  TimingInv'
  <1>1. /\ tickDue' = tickDue + SAFETY_TICK_PERIOD /\ now' = now /\ tickDue <= now
        /\ lastMsgNs' = lastMsgNs /\ lastHeartbeatNs' = lastHeartbeatNs
        /\ dataHealth' = [r \in Source |-> CheckDeadline(r)]
        /\ state' = RecomputeSystemState(processAlive', dataHealth', dataFault)
    BY DEF OnSafetyTick
  <1>2. ClockInv'
    BY <1>1, TimingAssumption DEF TypeOK, TimingInv, ClockInv
  <1>3. ASSUME NEW s \in Source
        PROVE  SourceInv(s)'
    <2>1. StampsPast(s)'
      BY <1>1, TickOnSource, SourceTypes DEF TimingInv, StampsPast
    <2>2. AliveInv(s)'
      <3> SUFFICES ASSUME processAlive'[s]
                   PROVE  /\ lastHeartbeatNs'[s] # 0
                          /\ LastTick' - lastHeartbeatNs'[s] <= HEARTBEAT_TIMEOUT_NS
                          /\ respawnAttempts'[s] = 0
                          /\ recoveryStartedNs'[s] = 0
        BY DEF AliveInv
      <3>1. processAlive[s] /\ ~MissesHeartbeats(s)
        BY TickOnSource
      <3>2. recoveryStartedNs'[s] = recoveryStartedNs[s] /\ respawnAttempts'[s] = respawnAttempts[s]
        BY <3>1, TickOnSource DEF PromptsFor
      <3>3. lastHeartbeatNs[s] # 0 /\ respawnAttempts[s] = 0 /\ recoveryStartedNs[s] = 0
        BY <3>1 DEF TimingInv, AliveInv
      <3> QED BY <1>1, <3>1, <3>2, <3>3, SourceTypes, TimingAssumption DEF MissesHeartbeats
    <2>3. DeadInv(s)'
      <3> SUFFICES ASSUME ~processAlive'[s], lastHeartbeatNs[s] # 0
                   PROVE  /\ state' = "SafeStop"
                          /\ recoveryStartedNs'[s] > lastHeartbeatNs[s] + HEARTBEAT_TIMEOUT_NS
                                                      + respawnAttempts'[s] * RECOVERY_GRACE_NS
                          /\ respawnAttempts'[s] < MAX_RESPAWN_ATTEMPTS
                               => tickDue - recoveryStartedNs'[s] < RECOVERY_GRACE_NS
        BY <1>1, SourceTypes, TimingAssumption DEF DeadInv
      <3>1. state' = "SafeStop"
        BY <1>1 DEF RecomputeSystemState, Rollup
      <3>2. CASE MissesHeartbeats(s)
        <4>1. recoveryStartedNs'[s] = now /\ respawnAttempts'[s] = 0
          BY <3>2, TickOnSource DEF TimingInv, AliveInv, MissesHeartbeats
        <4> QED BY <1>1, <3>1, <3>2, <4>1, SourceTypes, TimingAssumption DEF MissesHeartbeats
      <3>3. CASE ~MissesHeartbeats(s)
        <4>1. ~processAlive[s] /\ recoveryStartedNs[s] # 0
          <5>1. ~processAlive[s]
            BY <3>3, TickOnSource
          <5>2. recoveryStartedNs[s] > lastHeartbeatNs[s] + HEARTBEAT_TIMEOUT_NS
                                        + respawnAttempts[s] * RECOVERY_GRACE_NS
            BY <5>1 DEF TimingInv, DeadInv
          <5>3. respawnAttempts[s] * RECOVERY_GRACE_NS \in Nat
            BY SourceTypes, TimingAssumption
          <5> QED BY <5>1, <5>2, <5>3, SourceTypes, TimingAssumption
        <4>2. recoveryStartedNs[s] > lastHeartbeatNs[s] + HEARTBEAT_TIMEOUT_NS
                                      + respawnAttempts[s] * RECOVERY_GRACE_NS
          BY <4>1 DEF TimingInv, DeadInv
        <4>3. CASE PromptsFor(s, processAlive', recoveryStartedNs)
          <5>1. recoveryStartedNs'[s] = now /\ respawnAttempts'[s] = respawnAttempts[s] + 1
            BY <3>3, <4>3, TickOnSource
          <5>2. (respawnAttempts[s] + 1) * RECOVERY_GRACE_NS
                  = respawnAttempts[s] * RECOVERY_GRACE_NS + RECOVERY_GRACE_NS
            BY SourceTypes, TimingAssumption
          <5>3. now - recoveryStartedNs[s] >= RECOVERY_GRACE_NS
            BY <4>3 DEF PromptsFor
          <5>4. respawnAttempts[s] * RECOVERY_GRACE_NS \in Nat
            BY SourceTypes, TimingAssumption
          <5>5. now > lastHeartbeatNs[s] + HEARTBEAT_TIMEOUT_NS
                       + (respawnAttempts[s] + 1) * RECOVERY_GRACE_NS
            BY <4>2, <5>2, <5>3, <5>4, SourceTypes, TimingAssumption
          <5> QED BY <1>1, <3>1, <5>1, <5>5, SourceTypes, TimingAssumption
        <4>4. CASE ~PromptsFor(s, processAlive', recoveryStartedNs)
          <5>1. recoveryStartedNs'[s] = recoveryStartedNs[s] /\ respawnAttempts'[s] = respawnAttempts[s]
            BY <3>3, <4>4, TickOnSource
          <5>2. respawnAttempts[s] < MAX_RESPAWN_ATTEMPTS
                  => now - recoveryStartedNs[s] < RECOVERY_GRACE_NS
            BY <4>1, <4>4, SourceTypes, TimingAssumption DEF PromptsFor
          <5> QED BY <1>1, <3>1, <4>2, <5>1, <5>2, SourceTypes, TimingAssumption
        <4> QED BY <4>3, <4>4
      <3> QED BY <3>2, <3>3
    <2>4. NeverHeardInv(s)'
      BY <1>1, TickOnSource DEF TimingInv, NeverHeardInv, MissesHeartbeats, PromptsFor
    <2>5. StateInv(s)'
      <3>1. state' \in {"Normal", "Degraded"} => processAlive'[s]
        BY <1>1 DEF RecomputeSystemState, Rollup
      <3>2. state' = "Normal" => CheckDeadline(s) = "Healthy"
        BY <1>1 DEF RecomputeSystemState, Rollup, AllHealthy
      <3>3. CheckDeadline(s) = "Healthy" => lastMsgNs[s] # 0 /\ now - lastMsgNs[s] <= Deadline(s)
        BY SourceTypes DEF CheckDeadline
      <3> QED BY <1>1, <3>1, <3>2, <3>3, SourceTypes, TimingAssumption DEF StateInv, Deadline
    <2> QED BY <2>1, <2>2, <2>3, <2>4, <2>5 DEF SourceInv
  <1> QED BY <1>2, <1>3 DEF TimingInv, SourceInv

\* The timing invariant holds from the start on.
THEOREM TimingCorrect == Spec => []TimingInv
  <1>1. Init => TimingInv
    BY TimingAssumption
       DEF Init, TimingInv, ClockInv, StampsPast, AliveInv, DeadInv, NeverHeardInv, StateInv
  <1>2. TypeOK /\ TimingInv /\ [Next]_vars => TimingInv'
    <2> SUFFICES ASSUME TypeOK, TimingInv, [Next]_vars
                 PROVE  TimingInv'
      OBVIOUS
    <2>1. ASSUME NEW id \in Ultrasonic \cap Started, NEW m \in Readings,
                 OnUltrasonicReading(id, m)
          PROVE  TimingInv'
      BY <2>1, ReadingKeepsTiming DEF OnUltrasonicReading
    <2>2. ASSUME NEW valid \in BOOLEAN, OnImuReading(valid)
          PROVE  TimingInv'
      BY <2>2, ReadingKeepsTiming DEF OnImuReading
    <2>3. ASSUME NEW s \in Started, OnHeartbeat(s)
          PROVE  TimingInv'
      BY <2>3, InputAssumption, HeartbeatKeepsTiming
    <2>4. CASE OnSafetyTick
      BY <2>4, TickKeepsTiming
    <2>5. CASE Elapse
      BY <2>5, ElapseKeepsTiming
    <2>6. CASE UNCHANGED vars
      BY <2>6 DEF TimingInv, ClockInv, StampsPast, AliveInv, DeadInv, NeverHeardInv, StateInv,
                  Deadline, vars, clockVars, livenessVars
    <2> QED BY <2>1, <2>2, <2>3, <2>4, <2>5, <2>6 DEF Next
  <1> QED BY <1>1, <1>2, TypeCorrect, PTL DEF Spec

-----------------------------------------------------------------------------
\* From the timing invariant, at every moment and not only at ticks: NORMAL
\* is never claimed on data or heartbeats older than their limit by more than
\* the period and the lag.
THEOREM NormalIsFresh == Spec => []NormalMeansFresh
  <1>1. TypeOK /\ TimingInv => NormalMeansFresh
    <2> SUFFICES ASSUME TypeOK, TimingInv, state = "Normal", NEW s \in Source
                 PROVE  /\ lastMsgNs[s] # 0
                        /\ now - lastMsgNs[s] <= Deadline(s) + Slack
                        /\ lastHeartbeatNs[s] # 0
                        /\ now - lastHeartbeatNs[s] <= HEARTBEAT_TIMEOUT_NS + Slack
      BY DEF NormalMeansFresh
    <2>1. now <= tickDue + TICK_LAG
      BY DEF TimingInv, ClockInv
    <2>2. lastMsgNs[s] # 0 /\ LastTick - lastMsgNs[s] <= Deadline(s)
      BY DEF TimingInv, StateInv
    <2>3. lastHeartbeatNs[s] # 0 /\ LastTick - lastHeartbeatNs[s] <= HEARTBEAT_TIMEOUT_NS
      BY DEF TimingInv, StateInv, AliveInv
    <2> QED BY <2>1, <2>2, <2>3, SourceTypes, TimingAssumption DEF Slack
  <1> QED BY <1>1, TypeCorrect, TimingCorrect, PTL

\* A process silent for longer than the timeout, a period and the lag has been
\* declared dead and holds the system in SAFE_STOP.
THEOREM SilenceDetected == Spec => []SilenceIsDeclared
  <1>1. TypeOK /\ TimingInv => SilenceIsDeclared
    <2> SUFFICES ASSUME TypeOK, TimingInv, NEW s \in Source,
                        lastHeartbeatNs[s] # 0,
                        now - lastHeartbeatNs[s] > HEARTBEAT_TIMEOUT_NS + Slack
                 PROVE  ~processAlive[s] /\ recoveryStartedNs[s] # 0 /\ state = "SafeStop"
      BY DEF SilenceIsDeclared
    <2>1. now <= tickDue + TICK_LAG
      BY DEF TimingInv, ClockInv
    <2>2. ~processAlive[s]
      <3>1. processAlive[s] => LastTick - lastHeartbeatNs[s] <= HEARTBEAT_TIMEOUT_NS
        BY DEF TimingInv, AliveInv
      <3> QED BY <2>1, <3>1, SourceTypes, TimingAssumption DEF Slack
    <2>3. /\ state = "SafeStop"
          /\ recoveryStartedNs[s] > lastHeartbeatNs[s] + HEARTBEAT_TIMEOUT_NS
                                      + respawnAttempts[s] * RECOVERY_GRACE_NS
      BY <2>2 DEF TimingInv, DeadInv
    <2>4. respawnAttempts[s] * RECOVERY_GRACE_NS \in Nat
      BY SourceTypes, TimingAssumption
    <2> QED BY <2>2, <2>3, <2>4, SourceTypes, TimingAssumption
  <1> QED BY <1>1, TypeCorrect, TimingCorrect, PTL

\* Prompts for a dead process are at least a grace period apart, the first one
\* that long after the timeout, and a new outage starts with a clean record.
THEOREM RecoveryIsPaced == Spec => []RecoveryPaced
  <1>1. TypeOK /\ TimingInv => RecoveryPaced
    BY DEF TypeOK, TimingInv, AliveInv, DeadInv, NeverHeardInv, RecoveryPaced
  <1> QED BY <1>1, TypeCorrect, TimingCorrect, PTL

\* While prompts are left, a dead process is never without one for a grace
\* period, a tick and the lag.
THEOREM PromptsKeepComing == Spec => []PromptNotLate
  <1>1. TypeOK /\ TimingInv => PromptNotLate
    <2> SUFFICES ASSUME TypeOK, TimingInv, NEW s \in Source,
                        lastHeartbeatNs[s] # 0, ~processAlive[s],
                        respawnAttempts[s] < MAX_RESPAWN_ATTEMPTS
                 PROVE  now - recoveryStartedNs[s] < RECOVERY_GRACE_NS + Slack
      BY DEF PromptNotLate
    <2>1. now <= tickDue + TICK_LAG
      BY DEF TimingInv, ClockInv
    <2>2. LastTick - recoveryStartedNs[s] < RECOVERY_GRACE_NS
      BY DEF TimingInv, DeadInv
    <2> QED BY <2>1, <2>2, SourceTypes, TimingAssumption DEF Slack
  <1> QED BY <1>1, TypeCorrect, TimingCorrect, PTL

\* SAFE_STOP is left only at a tick that finds all three processes beating.
THEOREM SafeStopHeld == Spec => SafeStopLeftOnlyWhenAllBeat
  <1>1. TypeOK /\ TimingInv /\ [Next]_vars
          => [state = "SafeStop" /\ state' # "SafeStop" =>
                \A s \in Source : /\ lastHeartbeatNs[s] # 0
                                  /\ now - lastHeartbeatNs[s] <= HEARTBEAT_TIMEOUT_NS]_vars
    <2> SUFFICES ASSUME TypeOK, TimingInv, Next, state' # state, state' # "SafeStop",
                        NEW s \in Source
                 PROVE  /\ lastHeartbeatNs[s] # 0
                        /\ now - lastHeartbeatNs[s] <= HEARTBEAT_TIMEOUT_NS
      BY DEF vars
    <2>1. OnSafetyTick
      BY DEF Next, OnUltrasonicReading, OnImuReading, OnHeartbeat, Elapse
    <2>2. processAlive'[s]
      BY <2>1 DEF OnSafetyTick, RecomputeSystemState, Rollup
    <2>3. processAlive[s] /\ ~MissesHeartbeats(s)
      BY <2>1, <2>2, TickOnSource
    <2>4. lastHeartbeatNs[s] # 0
      BY <2>3 DEF TimingInv, AliveInv
    <2> QED BY <2>3, <2>4, SourceTypes, TimingAssumption DEF MissesHeartbeats
  <1> QED BY <1>1, TypeCorrect, TimingCorrect, PTL DEF Spec, SafeStopLeftOnlyWhenAllBeat

\* At every tick the rolled-up state and the health a status reply reports for
\* each subsystem, computed in two places of the code, tell the same story.
THEOREM RollupAgreesWithReply == Spec => TickRollsUpHealth
  <1>1. TypeOK /\ [Next]_vars
          => [OnSafetyTick =>
                /\ (state' = "Normal") <=> (\A s \in Source : ReplyHealth(s)' = "Healthy")
                /\ (state' = "SafeStop") <=> (\E s \in Source : ~processAlive'[s])]_vars
    <2> SUFFICES ASSUME TypeOK, OnSafetyTick
                 PROVE  /\ (state' = "Normal") <=> (\A s \in Source : ReplyHealth(s)' = "Healthy")
                        /\ (state' = "SafeStop") <=> (\E s \in Source : ~processAlive'[s])
      OBVIOUS
    <2>1. state' = RecomputeSystemState(processAlive', dataHealth', dataFault')
      BY DEF OnSafetyTick, readingVars
    <2>2. (state' = "SafeStop") <=> (\E s \in Source : ~processAlive'[s])
      BY <2>1 DEF RecomputeSystemState, Rollup
    <2>3. (state' = "Normal") <=> /\ \A s \in Source : processAlive'[s] /\ dataHealth'[s] = "Healthy"
                                  /\ \A u \in Ultrasonic : ~dataFault'[u]
      BY <2>1 DEF RecomputeSystemState, Rollup, AllHealthy
    <2>4. ASSUME NEW s \in Source
          PROVE  (ReplyHealth(s)' = "Healthy") <=> /\ processAlive'[s] /\ dataHealth'[s] = "Healthy"
                                                   /\ s \in Ultrasonic => ~dataFault'[s]
      BY DEF ReplyHealth
    <2> QED BY <2>2, <2>3, <2>4
  <1> QED BY <1>1, TypeCorrect, PTL DEF Spec, TickRollsUpHealth

-----------------------------------------------------------------------------
(***************************************************************************)
(* The supervisor implements Verdict: every handler is a judgement, a beat *)
(* or a review of the abstract specification, or leaves it as it is.       *)
(***************************************************************************)
Beating == {s \in Source : processAlive[s]}
Hazards == {u \in Ultrasonic : hazard[u]}
Faults  == {u \in Ultrasonic : dataFault[u]}

\* The kind of a reading, in the abstract specification's words.
KindOf(m) ==
  IF Implausible(m) THEN "Impossible"
  ELSE IF ShowsHazard(m) THEN "Obstacle"
  ELSE IF Plausible(m) THEN "Clear" ELSE "Lost"

\* A reading is judged by its kind, over both sensors at once.
LEMMA ReadingRefines ==
  ASSUME TypeOK, OverrideMatchesHazards, OverrideMatchesHazards',
         NEW id \in Ultrasonic, NEW m \in Reading, OnUltrasonicReading(id, m)
  PROVE  V!Judge(id, KindOf(m))
  <1>1. /\ hazard' = [hazard EXCEPT ![id] = ShowsHazard(m)]
        /\ dataFault' = [dataFault EXCEPT ![id] = Implausible(m) \/ (@ /\ ~Plausible(m))]
        /\ processAlive' = processAlive /\ state' = state
    BY DEF OnUltrasonicReading, livenessVars
  <1>2. /\ KindOf(m) \in {"Impossible", "Obstacle"} <=> ShowsHazard(m)
        /\ KindOf(m) = "Impossible" <=> Implausible(m)
        /\ KindOf(m) \in {"Obstacle", "Clear"} <=> Plausible(m)
        /\ KindOf(m) \in {"Impossible", "Obstacle", "Clear", "Lost"}
    BY DEF KindOf, ShowsHazard, Plausible
  <1>3. Hazards' = IF ShowsHazard(m) THEN Hazards \cup {id} ELSE Hazards \ {id}
    BY <1>1, ReadingTests DEF Hazards, TypeOK
  <1>4. Faults' = IF Implausible(m) THEN Faults \cup {id}
                  ELSE IF Plausible(m) THEN Faults \ {id} ELSE Faults
    BY <1>1, ReadingTests DEF Faults, TypeOK
  <1>5. overrideActive' = (Hazards' # {})
    BY <1>1, ReadingTests DEF OverrideMatchesHazards, AnyHazard, Hazards, TypeOK, UpdateOverride, OnUltrasonicReading
  <1>6. Faults' = V!FaultsAfter(id, KindOf(m))
    <2>1. CASE Implausible(m)
      BY <2>1, <1>2, <1>4 DEF V!FaultsAfter, Faults
    <2>2. CASE ~Implausible(m) /\ Plausible(m)
      BY <2>2, <1>2, <1>4 DEF V!FaultsAfter, Faults
    <2>3. CASE ~Implausible(m) /\ ~Plausible(m)
      <3>1. KindOf(m) = "Lost"
        BY <2>3, <1>2
      <3> QED BY <3>1, <2>3, <1>4 DEF V!FaultsAfter, Faults
    <2> QED BY <2>1, <2>2, <2>3
  <1> QED BY <1>1, <1>2, <1>3, <1>5, <1>6 DEF V!Judge, Hazards, Faults

\* A tick is a review, whatever it finds lost or late.
LEMMA TickRefines ==
  ASSUME TypeOK, OnSafetyTick
  PROVE  V!Review
  <1> DEFINE lost == {s \in Source : MissesHeartbeats(s)} \cap Beating
             inTime == \A s \in Source : dataHealth'[s] = "Healthy"
  <1>1. Beating' = Beating \ lost
    BY DEF OnSafetyTick, Beating, TypeOK
  <1>2. state' = Rollup(\A s \in Source : processAlive'[s], AllHealthy(dataHealth', dataFault))
    BY DEF OnSafetyTick, RecomputeSystemState
  <1>3. (\A s \in Source : processAlive'[s]) <=> Beating' = Source
    BY DEF Beating
  <1>4. AllHealthy(dataHealth', dataFault) <=> inTime /\ Faults = {}
    BY DEF AllHealthy, Faults
  <1>5. state' = V!VerdictOn(Beating', inTime)
    BY <1>2, <1>3, <1>4 DEF Rollup, V!VerdictOn, Faults
  <1>6. UNCHANGED <<Hazards, Faults, overrideActive>>
    BY DEF OnSafetyTick, readingVars, Hazards, Faults
  <1>7. lost \in SUBSET Beating /\ inTime \in BOOLEAN
    OBVIOUS
  <1> QED BY <1>1, <1>5, <1>6, <1>7 DEF V!Review, Beating, Hazards, Faults

\* The supervisor's handlers, edges and rollup together amount to the abstract
\* verdict, for every timing and every order of messages and pulses.
THEOREM SupervisorRefinesVerdict == Spec => ImplementsVerdict
  <1>1. Init => V!Init
    BY DEF Init, V!Init
  <1>2. /\ TypeOK /\ OverrideMatchesHazards /\ OverrideMatchesHazards' /\ [Next]_vars
        => [V!Next]_(V!judgement)
    <2> SUFFICES ASSUME TypeOK, OverrideMatchesHazards, OverrideMatchesHazards', [Next]_vars
                 PROVE  V!Next \/ UNCHANGED V!judgement
      OBVIOUS
    <2>1. ASSUME NEW id \in Ultrasonic \cap Started, NEW m \in Readings, OnUltrasonicReading(id, m)
          PROVE  V!Next
      <3>1. V!Judge(id, KindOf(m)) /\ KindOf(m) \in V!Kind
        BY <2>1, InputAssumption, ReadingRefines DEF KindOf, V!Kind
      <3> QED BY <3>1, Zenon DEF V!Next
    <2>2. ASSUME NEW s \in Started, OnHeartbeat(s)
          PROVE  V!Next
      <3>1. V!Hear(s) /\ s \in Source
        BY <2>2, InputAssumption DEF OnHeartbeat, readingVars, V!Hear, TypeOK
      <3> QED BY <3>1, Zenon DEF V!Next
    <2>3. OnSafetyTick => V!Next
      BY TickRefines, Zenon DEF V!Next
    <2>4. UNCHANGED <<processAlive, hazard, dataFault, overrideActive, state>>
            => UNCHANGED V!judgement
      BY DEF V!judgement
    <2>5. ASSUME NEW valid, OnImuReading(valid)
          PROVE  UNCHANGED <<processAlive, hazard, dataFault, overrideActive, state>>
      BY <2>5 DEF OnImuReading, livenessVars, readingVars
    <2>6. Elapse \/ UNCHANGED vars
            => UNCHANGED <<processAlive, hazard, dataFault, overrideActive, state>>
      BY DEF Elapse, vars, livenessVars, readingVars
    <2> QED BY <2>1, <2>2, <2>3, <2>4, <2>5, <2>6, Zenon DEF Next
  <1> QED BY <1>1, <1>2, TypeCorrect, OverrideCorrect, PTL DEF Spec, ImplementsVerdict, V!Spec

-----------------------------------------------------------------------------
(***************************************************************************)
(* What the event log says.  A handler makes up to three entries and sets  *)
(* its flags on its own conditions; that entries and flags agree however   *)
(* often the ring has wrapped is an invariant over both, and it needs that *)
(* an engagement follows from the hazards (OverrideMatchesHazards).        *)
(***************************************************************************)
OnProcess(s) == {e \in SafetyEvent : e.source = s /\ e.type \in {"ProcessDead", "ProcessRecovered"}}
Recovered    == {e \in SafetyEvent : e.type = "ProcessRecovered"}
OnOverride   == {e \in SafetyEvent : e.type \in {"OverrideEngaged", "OverrideCleared"}}
Engaged      == {e \in SafetyEvent : e.type = "OverrideEngaged"}
Cause        == {"Obstacle", "AnomalyDetected"}

\* The log l is well formed and tells on s the flag alive.
TellsProcess(l, s, alive) == Filled(l) /\ Tells(ReplyEvents(l), OnProcess(s), Recovered, alive)

\* The log l is well formed and tells that the override is active or not.
TellsOverride(l, active) == Filled(l) /\ Tells(ReplyEvents(l), OnOverride, Engaged, active)

\* The log l is well formed and explains every engagement in it.
ExplainsEngagement(l) == Filled(l) /\ Explained(ReplyEvents(l), "OverrideEngaged", Cause)

LogInv ==
  /\ \A s \in Source : TellsProcess(log, s, processAlive[s])
  /\ TellsOverride(log, overrideActive)
  /\ ExplainsEngagement(log)

\* An entry that is about no process changes nothing of what the log tells on
\* one.
LEMMA AsideProcess ==
  ASSUME NEW l, NEW t \in SafetyEventType, NEW u \in Source \cup {SOURCE_SYSTEM}, NEW c \in BOOLEAN,
         t \notin {"ProcessDead", "ProcessRecovered"},
         NEW s \in Source, NEW alive \in BOOLEAN, TellsProcess(l, s, alive)
  PROVE  TellsProcess(LogIf(l, c, Event(t, u)), s, alive)
  <1> DEFINE e == Event(t, u)
  <1>1. e \in SafetyEvent /\ e \notin OnProcess(s)
    BY EventIsSafetyEvent DEF Event, OnProcess
  <1> HIDE DEF e
  <1>2. TellsProcess(LogIf(l, c, e), s, alive)
    BY <1>1, LogIfTells DEF TellsProcess
  <1> QED BY <1>2 DEF e

\* An entry that is not about the override changes nothing of what the log
\* tells on it.
LEMMA AsideOverride ==
  ASSUME NEW l, NEW t \in SafetyEventType, NEW u \in Source \cup {SOURCE_SYSTEM}, NEW c \in BOOLEAN,
         t \notin {"OverrideEngaged", "OverrideCleared"},
         NEW active \in BOOLEAN, TellsOverride(l, active)
  PROVE  TellsOverride(LogIf(l, c, Event(t, u)), active)
  <1> DEFINE e == Event(t, u)
  <1>1. e \in SafetyEvent /\ e \notin OnOverride
    BY EventIsSafetyEvent DEF Event, OnOverride
  <1> HIDE DEF e
  <1>2. TellsOverride(LogIf(l, c, e), active)
    BY <1>1, LogIfTells DEF TellsOverride
  <1> QED BY <1>2 DEF e

\* An entry that is no engagement needs no explanation.
LEMMA AsideEngagement ==
  ASSUME NEW l, NEW t \in SafetyEventType, NEW u \in Source \cup {SOURCE_SYSTEM}, NEW c \in BOOLEAN,
         t # "OverrideEngaged", ExplainsEngagement(l)
  PROVE  ExplainsEngagement(LogIf(l, c, Event(t, u)))
  <1> DEFINE e == Event(t, u)
  <1>1. e \in SafetyEvent /\ e.type # "OverrideEngaged"
    BY EventIsSafetyEvent DEF Event
  <1> HIDE DEF e
  <1>2. ExplainsEngagement(LogIf(l, c, e))
    BY <1>1, LogIfExplained DEF ExplainsEngagement
  <1> QED BY <1>2 DEF e

\* A reading makes at most one entry of its own, and one that shows a hazard
\* makes exactly one, of a kind that explains an engagement.
LEMMA ReadingEntry ==
  ASSUME NEW l, NEW id \in Ultrasonic, NEW m \in Reading
  PROVE  /\ \E c \in BOOLEAN : \/ LogReading(l, id, m) = LogIf(l, c, Event("AnomalyDetected", id))
                               \/ LogReading(l, id, m) = LogIf(l, c, Event("Obstacle", id))
                               \/ LogReading(l, id, m) = LogIf(l, c, Event("SensorTimeout", id))
         /\ ShowsHazard(m) => \E t \in Cause : LogReading(l, id, m) = LogEvent(l, Event(t, id))
  <1>1. CASE Implausible(m)
    <2>1. LogReading(l, id, m) = LogIf(l, TRUE, Event("AnomalyDetected", id))
      BY <1>1 DEF LogReading, LogIf, Plausible
    <2> QED BY <2>1 DEF Cause, LogIf
  <1>2. CASE Plausible(m)
    <2>1. LogReading(l, id, m) = LogIf(l, ShowsHazard(m), Event("Obstacle", id))
      BY <1>2 DEF LogReading, Plausible
    <2> QED BY <2>1, ReadingTests DEF Cause, LogIf
  <1>3. CASE ~Implausible(m) /\ ~Plausible(m)
    <2>1. LogReading(l, id, m) = LogIf(l, TRUE, Event("SensorTimeout", id))
      BY <1>3 DEF LogReading, LogIf
    <2>2. ~ShowsHazard(m)
      BY <1>3 DEF ShowsHazard
    <2> QED BY <2>1, <2>2
  <1> QED BY <1>1, <1>2, <1>3

\* So the entry a reading makes leaves aside processes, override and
\* engagements.
LEMMA ReadingAside ==
  ASSUME NEW l, NEW id \in Ultrasonic, NEW m \in Reading
  PROVE  /\ \A s \in Source : \A alive \in BOOLEAN :
              TellsProcess(l, s, alive) => TellsProcess(LogReading(l, id, m), s, alive)
         /\ \A active \in BOOLEAN :
              TellsOverride(l, active) => TellsOverride(LogReading(l, id, m), active)
         /\ ExplainsEngagement(l) => ExplainsEngagement(LogReading(l, id, m))
  <1>1. PICK c \in BOOLEAN : \/ LogReading(l, id, m) = LogIf(l, c, Event("AnomalyDetected", id))
                             \/ LogReading(l, id, m) = LogIf(l, c, Event("Obstacle", id))
                             \/ LogReading(l, id, m) = LogIf(l, c, Event("SensorTimeout", id))
    BY ReadingEntry
  <1>2. {"AnomalyDetected", "Obstacle", "SensorTimeout"} \subseteq SafetyEventType
    BY DEF SafetyEventType
  <1>3. ASSUME NEW s \in Source, NEW alive \in BOOLEAN, TellsProcess(l, s, alive)
        PROVE  TellsProcess(LogReading(l, id, m), s, alive)
    <2>1. TellsProcess(LogIf(l, c, Event("AnomalyDetected", id)), s, alive)
      BY <1>2, <1>3, AsideProcess
    <2>2. TellsProcess(LogIf(l, c, Event("Obstacle", id)), s, alive)
      BY <1>2, <1>3, AsideProcess
    <2>3. TellsProcess(LogIf(l, c, Event("SensorTimeout", id)), s, alive)
      BY <1>2, <1>3, AsideProcess
    <2> QED BY <1>1, <2>1, <2>2, <2>3
  <1>4. ASSUME NEW active \in BOOLEAN, TellsOverride(l, active)
        PROVE  TellsOverride(LogReading(l, id, m), active)
    <2>1. TellsOverride(LogIf(l, c, Event("AnomalyDetected", id)), active)
      BY <1>2, <1>4, AsideOverride
    <2>2. TellsOverride(LogIf(l, c, Event("Obstacle", id)), active)
      BY <1>2, <1>4, AsideOverride
    <2>3. TellsOverride(LogIf(l, c, Event("SensorTimeout", id)), active)
      BY <1>2, <1>4, AsideOverride
    <2> QED BY <1>1, <2>1, <2>2, <2>3
  <1>5. ASSUME ExplainsEngagement(l)
        PROVE  ExplainsEngagement(LogReading(l, id, m))
    <2>1. ExplainsEngagement(LogIf(l, c, Event("AnomalyDetected", id)))
      BY <1>2, <1>5, AsideEngagement
    <2>2. ExplainsEngagement(LogIf(l, c, Event("Obstacle", id)))
      BY <1>2, <1>5, AsideEngagement
    <2>3. ExplainsEngagement(LogIf(l, c, Event("SensorTimeout", id)))
      BY <1>2, <1>5, AsideEngagement
    <2> QED BY <1>1, <2>1, <2>2, <2>3
  <1> QED BY <1>3, <1>4, <1>5

\* onUltrasonicReading(): up to three entries, and the override as the last
\* one on it says.
LEMMA ReadingKeepsLog ==
  ASSUME TypeOK, OverrideMatchesHazards, LogInv,
         NEW id \in Ultrasonic \cap Started, NEW m \in Readings, OnUltrasonicReading(id, m)
  PROVE  LogInv'
  <1> DEFINE l0      == LogReading(log, id, m)
             engages == AnyHazard(hazard') /\ ~overrideActive
             clears  == ~AnyHazard(hazard') /\ overrideActive
             l1      == LogIf(l0, engages, Event("OverrideEngaged", id))
             l2      == LogIf(l1, clears, Event("OverrideCleared", SOURCE_SYSTEM))
  <1>1. m \in Reading
    BY InputAssumption
  <1>2. /\ log' = l2 /\ overrideActive' = (engages \/ (overrideActive /\ ~clears))
        /\ processAlive' = processAlive
    BY DEF OnUltrasonicReading, UpdateOverride, livenessVars
  <1>3. engages \in BOOLEAN /\ clears \in BOOLEAN /\ overrideActive \in BOOLEAN
        /\ \A s \in Source : processAlive[s] \in BOOLEAN
    BY DEF TypeOK
  <1>4. {"OverrideEngaged", "OverrideCleared"} \subseteq SafetyEventType
    BY DEF SafetyEventType
  <1>5. engages => ShowsHazard(m)
    BY DEF OnUltrasonicReading, OverrideMatchesHazards, AnyHazard, TypeOK
  <1>6. /\ \A s \in Source : TellsProcess(l0, s, processAlive[s])
        /\ TellsOverride(l0, overrideActive)
        /\ ExplainsEngagement(l0)
    <2>1. ASSUME NEW s \in Source
          PROVE  TellsProcess(l0, s, processAlive[s])
      <3> DEFINE alive == processAlive[s]
      <3>1. alive \in BOOLEAN /\ TellsProcess(log, s, alive)
        BY <1>3 DEF LogInv
      <3> HIDE DEF alive
      <3>2. TellsProcess(l0, s, alive)
        BY <1>1, <3>1, ReadingAside
      <3> QED BY <3>2 DEF alive
    <2>2. TellsOverride(l0, overrideActive) /\ ExplainsEngagement(l0)
      BY <1>1, <1>3, ReadingAside DEF LogInv
    <2> HIDE DEF l0
    <2> QED BY <2>1, <2>2
  <1>7. engages => LET last == ReplyEvents(l0)[Len(ReplyEvents(l0))]
                   IN  last.type \in Cause /\ last.source = id
    <2> SUFFICES ASSUME engages
                 PROVE  LET last == ReplyEvents(l0)[Len(ReplyEvents(l0))]
                        IN  last.type \in Cause /\ last.source = id
      OBVIOUS
    <2>1. PICK t \in Cause : l0 = LogEvent(log, Event(t, id))
      BY <1>1, <1>5, ReadingEntry
    <2>2. Event(t, id) \in SafetyEvent /\ Filled(log)
      BY EventIsSafetyEvent DEF LogInv, TellsOverride, Cause, SafetyEventType
    <2>3. ReplyEvents(l0)[Len(ReplyEvents(l0))] = Event(t, id)
      BY <2>1, <2>2, LastLogged
    <2>4. Event(t, id).type = t /\ Event(t, id).source = id
      BY DEF Event
    <2> HIDE DEF l0
    <2> QED BY <2>3, <2>4
  <1> HIDE DEF l0, engages, clears
  <1>8. ASSUME NEW s \in Source
        PROVE  TellsProcess(l2, s, processAlive[s])
    <2> DEFINE alive == processAlive[s]
    <2>1. alive \in BOOLEAN /\ TellsProcess(l0, s, alive)
      BY <1>3, <1>6
    <2> HIDE DEF alive
    <2>2. TellsProcess(l1, s, alive)
      BY <1>3, <1>4, <2>1, AsideProcess
    <2> HIDE DEF l1
    <2>3. TellsProcess(l2, s, alive)
      BY <1>3, <1>4, <2>1, <2>2, AsideProcess
    <2> QED BY <2>3 DEF alive
  <1>9. TellsOverride(l2, overrideActive')
    <2>1. TellsOverride(l1, engages \/ overrideActive)
      <3>1. Event("OverrideEngaged", id) \in SafetyEvent \cap OnOverride \cap Engaged
        BY <1>4, EventIsSafetyEvent DEF OnOverride, Engaged, Event
      <3> QED BY <1>3, <1>6, <3>1, LogIfTells DEF TellsOverride
    <2>2. Event("OverrideCleared", SOURCE_SYSTEM) \in (SafetyEvent \cap OnOverride) \ Engaged
      BY <1>4, EventIsSafetyEvent DEF OnOverride, Engaged, Event
    <2>3. clears => ~engages /\ overrideActive
      BY DEF clears, engages
    <2>4. (engages \/ overrideActive) \in BOOLEAN
      OBVIOUS
    <2> HIDE DEF l1
    <2> QED BY <1>2, <1>3, <2>1, <2>2, <2>3, <2>4, LogIfTells DEF TellsOverride
  <1>10. ExplainsEngagement(l2)
    <2>1. ExplainsEngagement(l1)
      <3>1. Event("OverrideEngaged", id) \in SafetyEvent /\ Event("OverrideEngaged", id).source = id
        BY <1>4, EventIsSafetyEvent DEF Event
      <3> QED BY <1>3, <1>6, <1>7, <3>1, LogIfExplained DEF ExplainsEngagement
    <2> HIDE DEF l1
    <2> QED BY <1>3, <1>4, <2>1, AsideEngagement
  <1> QED BY <1>2, <1>8, <1>9, <1>10 DEF LogInv

\* The watchdog's entry on u settles what the log tells on u and leaves the
\* rest alone.
LEMMA DeathTold ==
  ASSUME TypeOK, NEW l, NEW u \in Source, NEW s \in Source, NEW alive \in BOOLEAN,
         TellsProcess(l, s, alive)
  PROVE  TellsProcess(LogDeath(l, u), s, alive /\ ~(s = u /\ MissesHeartbeats(s)))
  <1> DEFINE e == Event("ProcessDead", u)
  <1>1. e \in SafetyEvent /\ e.type = "ProcessDead" /\ e.source = u
    BY EventIsSafetyEvent DEF Event, SafetyEventType
  <1>2. MissesHeartbeats(u) \in BOOLEAN
    BY DEF MissesHeartbeats, TypeOK
  <1> HIDE DEF e
  <1>3. e \notin Recovered /\ (e \in OnProcess(s) => s = u)
    BY <1>1 DEF Recovered, OnProcess
  <1>4. s = u => e \in OnProcess(s)
    BY <1>1 DEF OnProcess
  <1>5. TellsProcess(LogIf(l, MissesHeartbeats(u), e), s, alive /\ ~(s = u /\ MissesHeartbeats(s)))
    <2> DEFINE after == alive /\ ~(s = u /\ MissesHeartbeats(s))
    <2>1. /\ MissesHeartbeats(u) /\ e \in OnProcess(s) => ~after
          /\ ~MissesHeartbeats(u) \/ e \notin OnProcess(s) => (after <=> alive)
          /\ after \in BOOLEAN
      BY <1>2, <1>3, <1>4
    <2> HIDE DEF after
    <2>2. TellsProcess(LogIf(l, MissesHeartbeats(u), e), s, after)
      BY <1>1, <1>2, <1>3, <2>1, LogIfTells DEF TellsProcess
    <2> QED BY <2>2 DEF after
  <1> QED BY <1>5 DEF LogDeath, e

\* onSafetyTick(): one entry for every process declared dead.
LEMMA TickKeepsLog ==
  ASSUME TypeOK, LogInv, OnSafetyTick
  PROVE  LogInv'
  <1> DEFINE l1 == LogDeath(log, ULTRASONIC_ID_1)
             l2 == LogDeath(l1, ULTRASONIC_ID_2)
             l3 == LogDeath(l2, SOURCE_IMU)
  <1>1. log' = l3 /\ overrideActive' = overrideActive /\ overrideActive \in BOOLEAN
    BY DEF OnSafetyTick, readingVars, TypeOK
  <1>2. \A u \in Source : MissesHeartbeats(u) \in BOOLEAN
    BY DEF MissesHeartbeats, TypeOK
  <1>3. "ProcessDead" \in SafetyEventType
    BY DEF SafetyEventType
  <1>4. ASSUME NEW l, NEW u \in Source, TellsOverride(l, overrideActive), ExplainsEngagement(l)
        PROVE  TellsOverride(LogDeath(l, u), overrideActive) /\ ExplainsEngagement(LogDeath(l, u))
    BY <1>1, <1>2, <1>3, <1>4, AsideOverride, AsideEngagement DEF LogDeath
  <1>5. ASSUME NEW s \in Source
        PROVE  TellsProcess(l3, s, processAlive'[s])
    <2> DEFINE a1 == processAlive[s] /\ ~(s = ULTRASONIC_ID_1 /\ MissesHeartbeats(s))
               a2 == a1 /\ ~(s = ULTRASONIC_ID_2 /\ MissesHeartbeats(s))
               a3 == a2 /\ ~(s = SOURCE_IMU /\ MissesHeartbeats(s))
    <2>1. processAlive[s] \in BOOLEAN /\ TellsProcess(log, s, processAlive[s])
      BY DEF TypeOK, LogInv
    <2>2. TellsProcess(l1, s, a1)
      BY <2>1, DeathTold
    <2> HIDE DEF l1, a1
    <2>3. a1 \in BOOLEAN
      BY DEF a1
    <2>4. TellsProcess(l2, s, a2)
      BY <2>2, <2>3, DeathTold
    <2> HIDE DEF l2, a2
    <2>5. a2 \in BOOLEAN
      BY DEF a2
    <2>6. TellsProcess(l3, s, a3)
      BY <2>4, <2>5, DeathTold
    <2>7. processAlive'[s] = a3
      BY <2>1 DEF OnSafetyTick, a1, a2
    <2> QED BY <2>6, <2>7
  <1>6. TellsOverride(l3, overrideActive) /\ ExplainsEngagement(l3)
    <2>1. TellsOverride(l1, overrideActive) /\ ExplainsEngagement(l1)
      BY <1>4 DEF LogInv
    <2> HIDE DEF l1
    <2>2. TellsOverride(l2, overrideActive) /\ ExplainsEngagement(l2)
      BY <1>4, <2>1
    <2> HIDE DEF l2
    <2> QED BY <1>4, <2>2
  <1> QED BY <1>1, <1>5, <1>6 DEF LogInv

\* Entries and flags agree in every reachable state.
LEMMA LogCorrect == Spec => []LogInv
  <1>1. Init => LogInv
    <2> SUFFICES ASSUME Init
                 PROVE  LogInv
      OBVIOUS
    <2>1. Filled(log) /\ DOMAIN ReplyEvents(log) = {}
      BY EmptyLogFilled DEF Init, EmptyLog, ReplyEvents
    <2> QED BY <2>1 DEF LogInv, TellsProcess, TellsOverride, ExplainsEngagement, Tells, Explained
  <1>2. TypeOK /\ OverrideMatchesHazards /\ LogInv /\ [Next]_vars => LogInv'
    <2> SUFFICES ASSUME TypeOK, OverrideMatchesHazards, LogInv, [Next]_vars
                 PROVE  LogInv'
      OBVIOUS
    <2>1. /\ overrideActive \in BOOLEAN
          /\ \A s \in Source : processAlive[s] \in BOOLEAN
      BY DEF TypeOK
    <2>2. ASSUME NEW id \in Ultrasonic \cap Started, NEW m \in Readings,
                 OnUltrasonicReading(id, m)
          PROVE  LogInv'
      BY <2>2, ReadingKeepsLog
    <2>3. ASSUME NEW valid \in BOOLEAN, OnImuReading(valid)
          PROVE  LogInv'
      <3>1. /\ log' = LogIf(log, ~valid, Event("SensorTimeout", SOURCE_IMU))
            /\ processAlive' = processAlive /\ overrideActive' = overrideActive
        BY <2>3 DEF OnImuReading, livenessVars, readingVars
      <3>2. "SensorTimeout" \in SafetyEventType /\ (~valid) \in BOOLEAN
        BY DEF SafetyEventType
      <3>3. ASSUME NEW s \in Source
            PROVE  TellsProcess(log', s, processAlive'[s])
        <4> DEFINE alive == processAlive[s]
        <4>1. alive \in BOOLEAN /\ TellsProcess(log, s, alive)
          BY <2>1 DEF LogInv
        <4> HIDE DEF alive
        <4>2. TellsProcess(log', s, alive)
          BY <3>1, <3>2, <4>1, AsideProcess
        <4> QED BY <3>1, <4>2 DEF alive
      <3>4. TellsOverride(log', overrideActive')
        BY <2>1, <3>1, <3>2, AsideOverride DEF LogInv
      <3>5. ExplainsEngagement(log')
        BY <3>1, <3>2, AsideEngagement DEF LogInv
      <3> QED BY <3>3, <3>4, <3>5 DEF LogInv
    <2>4. ASSUME NEW u \in Started, OnHeartbeat(u)
          PROVE  LogInv'
      <3> DEFINE e == Event("ProcessRecovered", u)
      <3>0. u \in Source
        BY InputAssumption
      <3>1. /\ log' = LogIf(log, ~processAlive[u], e)
            /\ processAlive' = [processAlive EXCEPT ![u] = TRUE]
            /\ overrideActive' = overrideActive
        BY <2>4 DEF OnHeartbeat, readingVars
      <3>2. "ProcessRecovered" \in SafetyEventType
        BY DEF SafetyEventType
      <3>3. TellsOverride(log', overrideActive') /\ ExplainsEngagement(log')
        <4> DEFINE c      == ~processAlive[u]
                   active == overrideActive
        <4>1. /\ c \in BOOLEAN /\ active \in BOOLEAN
              /\ TellsOverride(log, active) /\ ExplainsEngagement(log)
          BY <2>1 DEF LogInv
        <4>2. log' = LogIf(log, c, e)
          BY <3>1
        <4> HIDE DEF c, active
        <4>3. TellsOverride(log', active)
          BY <3>0, <3>2, <4>1, <4>2, AsideOverride
        <4>4. ExplainsEngagement(log')
          BY <3>0, <3>2, <4>1, <4>2, AsideEngagement
        <4> QED BY <3>1, <4>3, <4>4 DEF active
      <3>4. ASSUME NEW s \in Source
            PROVE  TellsProcess(log', s, processAlive'[s])
        <4>1. e \in SafetyEvent \cap Recovered /\ (e \in OnProcess(s) <=> s = u)
          BY <3>0, <3>2, EventIsSafetyEvent DEF Recovered, OnProcess, Event
        <4>2. processAlive'[s] = IF s = u THEN TRUE ELSE processAlive[s]
          BY <3>1 DEF TypeOK
        <4>3. TellsProcess(log, s, processAlive[s])
          BY DEF LogInv
        <4> DEFINE before == processAlive[s]
                   after  == processAlive'[s]
                   c      == ~processAlive[u]
        <4>4. before \in BOOLEAN /\ after \in BOOLEAN /\ c \in BOOLEAN
          BY <2>1, <4>2
        <4>5. /\ c /\ e \in OnProcess(s) => (e \in Recovered <=> after)
              /\ ~c \/ e \notin OnProcess(s) => (after <=> before)
          BY <4>1, <4>2
        <4>6. log' = LogIf(log, c, e) /\ TellsProcess(log, s, before) /\ e \in SafetyEvent
          BY <3>1, <4>1, <4>3
        <4> HIDE DEF e, before, after, c
        <4>7. TellsProcess(log', s, after)
          BY <4>4, <4>5, <4>6, LogIfTells DEF TellsProcess
        <4> QED BY <4>7 DEF after
      <3> QED BY <3>3, <3>4 DEF LogInv
    <2>5. CASE OnSafetyTick
      BY <2>5, TickKeepsLog
    <2>6. CASE Elapse
      BY <2>6 DEF Elapse, livenessVars, readingVars, LogInv
    <2>7. CASE UNCHANGED vars
      BY <2>7 DEF vars, livenessVars, readingVars, LogInv
    <2> QED BY <2>2, <2>3, <2>4, <2>5, <2>6, <2>7 DEF Next
  <1> QED BY <1>1, <1>2, TypeCorrect, OverrideCorrect, PTL DEF Spec

\* What a reader of a well-formed log gets are events, at the places of a
\* sequence.
LEMMA ReplyIsEvents ==
  ASSUME NEW l, Filled(l)
  PROVE  \A i \in DOMAIN ReplyEvents(l) : i \in Int /\ ReplyEvents(l)[i] \in SafetyEvent
  BY ReplyEventsIsSeq DEF Filled

\* Whatever the size of the ring and however often it wrapped, the latest
\* entry on a process that is still in it tells whether the process is alive.
THEOREM LogNeverMisleads == Spec => []LogTellsLiveness
  <1>1. LogInv => LogTellsLiveness
    <2> SUFFICES ASSUME LogInv, NEW s \in Source, NEW i \in DOMAIN ReplyEvents(log),
                        ReplyEvents(log)[i].source = s,
                        ReplyEvents(log)[i].type \in {"ProcessDead", "ProcessRecovered"},
                        \A j \in DOMAIN ReplyEvents(log) : j > i =>
                          ~(/\ ReplyEvents(log)[j].source = s
                            /\ ReplyEvents(log)[j].type \in {"ProcessDead", "ProcessRecovered"})
                 PROVE  ReplyEvents(log)[i].type = "ProcessRecovered" <=> processAlive[s]
      BY DEF LogTellsLiveness, IsLatest
    <2> DEFINE q == ReplyEvents(log)
    <2>1. TellsProcess(log, s, processAlive[s])
      BY DEF LogInv
    <2>2. \A j \in DOMAIN q : q[j] \in SafetyEvent
      BY <2>1, ReplyIsEvents DEF TellsProcess
    <2> HIDE DEF q
    <2> QED BY <2>1, <2>2 DEF q, TellsProcess, Tells, OnProcess, Recovered
  <1> QED BY <1>1, LogCorrect, PTL

\* The latest entry on the override tells whether it is on.
THEOREM LogTellsTheOverride == Spec => []LogTellsOverride
  <1>1. LogInv => LogTellsOverride
    <2> SUFFICES ASSUME LogInv, NEW i \in DOMAIN ReplyEvents(log),
                        ReplyEvents(log)[i].type \in {"OverrideEngaged", "OverrideCleared"},
                        \A j \in DOMAIN ReplyEvents(log) : j > i =>
                          ~(ReplyEvents(log)[j].type \in {"OverrideEngaged", "OverrideCleared"})
                 PROVE  ReplyEvents(log)[i].type = "OverrideEngaged" <=> overrideActive
      BY DEF LogTellsOverride, IsLatest
    <2> DEFINE q == ReplyEvents(log)
    <2>1. TellsOverride(log, overrideActive)
      BY DEF LogInv
    <2>2. \A j \in DOMAIN q : q[j] \in SafetyEvent
      BY <2>1, ReplyIsEvents DEF TellsOverride
    <2> HIDE DEF q
    <2> QED BY <2>1, <2>2 DEF q, TellsOverride, Tells, OnOverride, Engaged
  <1> QED BY <1>1, LogCorrect, PTL

\* Nothing slips in between the entry of the reading that engaged the
\* override and the entry of the engagement.
THEOREM EngagementsExplained == Spec => []EngagementExplained
  <1>1. LogInv => EngagementExplained
    BY DEF LogInv, ExplainsEngagement, Explained, Cause, EngagementExplained
  <1> QED BY <1>1, LogCorrect, PTL

-----------------------------------------------------------------------------
(***************************************************************************)
(* How an outage ends when nobody restarts the process: recovery prompts   *)
(* come no later than PromptedBy, so all of them have been made by a time  *)
(* known beforehand.                                                       *)
(***************************************************************************)
\* A prompt follows the one before it by no more than this.
Turn == RECOVERY_GRACE_NS + Slack

\* The k-th prompt after the outage was noticed is made by this time.
PromptedBy(s, k) == lastHeartbeatNs[s] + HEARTBEAT_TIMEOUT_NS + Slack + k * Turn

\* The prompts already made were made in time.
OutageInv ==
  \A s \in Source :
    ~processAlive[s] /\ lastHeartbeatNs[s] # 0 => recoveryStartedNs[s] <= PromptedBy(s, respawnAttempts[s])

\* A process that stays dead is not waited for for ever: by a time known when
\* its heartbeats end, onSafetyTick() has given up on it.
AllPromptsMade ==
  \A s \in Source :
    ~processAlive[s] /\ lastHeartbeatNs[s] # 0 /\ now >= PromptedBy(s, MAX_RESPAWN_ATTEMPTS)
      => respawnAttempts[s] = MAX_RESPAWN_ATTEMPTS

\* Prompts take turns.
LEMMA Turns ==
  /\ Turn \in Nat
  /\ \A k \in Nat : k * Turn \in Nat /\ (k + 1) * Turn = k * Turn + Turn
  /\ \A j, k \in Nat : j <= k => j * Turn <= k * Turn
  <1>1. Turn \in Nat
    BY TimingAssumption DEF Turn, Slack
  <1>2. ASSUME NEW c \in Nat, NEW j \in Nat, NEW k \in Nat, j <= k PROVE j * c <= k * c
    <2>1. k - j \in Nat /\ k = j + (k - j)
      BY <1>2
    <2>2. ASSUME NEW d \in Nat PROVE (j + d) * c = j * c + d * c /\ d * c \in Nat /\ j * c \in Nat
      OBVIOUS
    <2>3. k * c = j * c + (k - j) * c /\ (k - j) * c \in Nat /\ j * c \in Nat
      BY <2>1, <2>2
    <2> QED BY <2>3
  <1>3. ASSUME NEW c \in Nat, NEW k \in Nat PROVE k * c \in Nat /\ (k + 1) * c = k * c + c
    OBVIOUS
  <1> QED BY <1>1, <1>2, <1>3

\* onSafetyTick() keeps OutageInv, whatever it finds out about the process.
LEMMA TickKeepsOutage ==
  ASSUME TypeOK, TimingInv, OutageInv, OnSafetyTick
  PROVE  OutageInv'
  <1> SUFFICES ASSUME NEW s \in Source, ~processAlive'[s], lastHeartbeatNs'[s] # 0
               PROVE  recoveryStartedNs'[s] <= PromptedBy(s, respawnAttempts[s])'
    BY DEF OutageInv
  <1>1. lastHeartbeatNs' = lastHeartbeatNs /\ now <= LastTick + Slack /\ LastTick \in Int
    BY TimingAssumption DEF OnSafetyTick, TimingInv, ClockInv, LastTick, Slack, TypeOK
  <1>2. CASE MissesHeartbeats(s)
    <2>1. recoveryStartedNs'[s] = now /\ respawnAttempts'[s] = 0
      BY <1>2, TickOnSource DEF TimingInv, AliveInv, MissesHeartbeats
    <2>2. LastTick - lastHeartbeatNs[s] <= HEARTBEAT_TIMEOUT_NS
      BY <1>2 DEF TimingInv, AliveInv, MissesHeartbeats
    <2>3. 0 * Turn = 0
      BY Turns
    <2> QED BY <1>1, <2>1, <2>2, <2>3, SourceTypes, TimingAssumption DEF PromptedBy, Slack
  <1>3. CASE ~MissesHeartbeats(s)
    <2>1. ~processAlive[s] /\ lastHeartbeatNs[s] # 0
      BY <1>1, <1>3, TickOnSource
    <2> DEFINE k == respawnAttempts[s]
    <2>2. k \in Nat /\ recoveryStartedNs[s] <= PromptedBy(s, k)
      BY <2>1, SourceTypes DEF OutageInv
    <2>3. CASE recoveryStartedNs'[s] = recoveryStartedNs[s] /\ respawnAttempts'[s] = k
      BY <1>1, <2>2, <2>3 DEF PromptedBy
    <2>4. CASE PromptsFor(s, processAlive', recoveryStartedNs)
               /\ recoveryStartedNs'[s] = now /\ respawnAttempts'[s] = k + 1
      <3>1. LastTick - recoveryStartedNs[s] < RECOVERY_GRACE_NS
        BY <2>1, <2>4 DEF TimingInv, DeadInv, PromptsFor
      <3>2. now < recoveryStartedNs[s] + Turn
        BY <1>1, <3>1, SourceTypes, TimingAssumption DEF Turn, Slack
      <3>3. k * Turn \in Nat /\ (k + 1) * Turn = k * Turn + Turn /\ Turn \in Nat
        BY <2>2, Turns
      <3>4. now <= lastHeartbeatNs[s] + HEARTBEAT_TIMEOUT_NS + Slack + (k + 1) * Turn
        BY <2>2, <3>2, <3>3, SourceTypes, TimingAssumption DEF PromptedBy, Slack
      <3> QED BY <1>1, <2>4, <3>4 DEF PromptedBy
    <2> QED BY <1>3, <2>3, <2>4, TickOnSource
  <1> QED BY <1>2, <1>3

\* MAX_RESPAWN_ATTEMPTS prompts are all made within the turns they take.
THEOREM RecoveryRunsItsCourse == Spec => []AllPromptsMade
  <1>1. Init => OutageInv
    BY DEF Init, OutageInv
  <1>2. TypeOK /\ TimingInv /\ OutageInv /\ [Next]_vars => OutageInv'
    <2> SUFFICES ASSUME TypeOK, TimingInv, OutageInv, [Next]_vars
                 PROVE  OutageInv'
      OBVIOUS
    <2>1. ASSUME UNCHANGED livenessVars PROVE OutageInv'
      BY <2>1 DEF OutageInv, PromptedBy, livenessVars
    <2>2. ASSUME NEW r \in Started, OnHeartbeat(r) PROVE OutageInv'
      <3>1. ASSUME NEW s \in Source, ~processAlive'[s]
            PROVE  /\ ~processAlive[s] /\ lastHeartbeatNs'[s] = lastHeartbeatNs[s]
                   /\ recoveryStartedNs'[s] = recoveryStartedNs[s]
                   /\ respawnAttempts'[s] = respawnAttempts[s]
        BY <2>2, <3>1 DEF OnHeartbeat, TypeOK
      <3> QED BY <3>1 DEF OutageInv, PromptedBy
    <2>3. ASSUME NEW id \in Ultrasonic \cap Started, NEW m \in Readings, OnUltrasonicReading(id, m)
          PROVE  OutageInv'
      BY <2>1, <2>3 DEF OnUltrasonicReading
    <2>4. ASSUME NEW valid \in BOOLEAN, OnImuReading(valid) PROVE OutageInv'
      BY <2>1, <2>4 DEF OnImuReading
    <2>5. CASE Elapse \/ UNCHANGED vars
      BY <2>1, <2>5 DEF Elapse, vars
    <2>6. CASE OnSafetyTick
      BY <2>6, TickKeepsOutage
    <2> QED BY <2>2, <2>3, <2>4, <2>5, <2>6 DEF Next
  <1>3. TypeOK /\ OutageInv /\ PromptNotLate => AllPromptsMade
    <2> SUFFICES ASSUME TypeOK, OutageInv, PromptNotLate, NEW s \in Source,
                        ~processAlive[s], lastHeartbeatNs[s] # 0,
                        respawnAttempts[s] # MAX_RESPAWN_ATTEMPTS
                 PROVE  now < PromptedBy(s, MAX_RESPAWN_ATTEMPTS)
      BY SourceTypes, TimingAssumption, Turns DEF AllPromptsMade, PromptedBy, Slack
    <2> DEFINE k == respawnAttempts[s]
    <2>1. k \in 0 .. MAX_RESPAWN_ATTEMPTS /\ MAX_RESPAWN_ATTEMPTS \in Nat
      BY TimingAssumption DEF TypeOK
    <2>2. k \in Nat /\ k + 1 <= MAX_RESPAWN_ATTEMPTS /\ k < MAX_RESPAWN_ATTEMPTS
      BY <2>1
    <2>3. now - recoveryStartedNs[s] < Turn /\ recoveryStartedNs[s] <= PromptedBy(s, k)
      BY <2>2 DEF OutageInv, PromptNotLate, Turn
    <2>4. /\ k * Turn \in Nat /\ (k + 1) * Turn = k * Turn + Turn /\ Turn \in Nat
          /\ MAX_RESPAWN_ATTEMPTS * Turn \in Nat
      BY <2>1, <2>2, Turns
    <2>5. (k + 1) * Turn <= MAX_RESPAWN_ATTEMPTS * Turn
      <3>1. k + 1 \in Nat
        BY <2>2
      <3> HIDE DEF k
      <3> QED BY <2>1, <2>2, <3>1, Turns
    <2> HIDE DEF k
    <2> QED BY <2>3, <2>4, <2>5, SourceTypes, TimingAssumption DEF PromptedBy, Slack
  <1> QED BY <1>1, <1>2, <1>3, TypeCorrect, TimingCorrect, PromptsKeepComing, PTL DEF Spec
=============================================================================
