------------------------- MODULE CompositionProofs -------------------------
(***************************************************************************)
(* Proofs about the supervisor in its surroundings: against the reports it *)
(* was given (SupervisorHistory), with tasks that keep time (TimedTasks),  *)
(* and under the eyes of oled_task (StatusDisplay); for every timing,      *)
(* every set of readings and every order.                                  *)
(***************************************************************************)
EXTENDS SupervisorHistory, TimedTasks, StatusDisplay, SupervisorProofs, WellFoundedInduction

USE DEF LastTick

-----------------------------------------------------------------------------
\* The history variables only watch: every behaviour with them is a behaviour
\* of the supervisor, so what was proved of it holds here too.
THEOREM HistoryIsAuxiliary == HSpec => Spec
  <1>1. HInit => Init
    BY DEF HInit
  <1>2. [HNext]_allVars => [Next]_vars
    <2> SUFFICES ASSUME [HNext]_allVars
                 PROVE  [Next]_vars
      OBVIOUS
    <2>1. ASSUME NEW id \in Ultrasonic \cap Started, NEW m \in Readings, Report(id, m)
          PROVE  Next
      BY <2>1, Zenon DEF Report, Next
    <2>2. ASSUME NEW s \in Started, Beat(s)
          PROVE  Next
      BY <2>2, Zenon DEF Beat, Next
    <2>3. Quiet => Next
      BY Zenon DEF Quiet, Next
    <2> QED BY <2>1, <2>2, <2>3, Zenon DEF HNext, allVars
  <1> QED BY <1>1, <1>2, PTL DEF HSpec, Spec

-----------------------------------------------------------------------------
\* The flag the supervisor keeps per sensor is the verdict on its last report.
HazardInv ==
  /\ lastReport \in [Ultrasonic -> Reading \cup {NoReport}]
  /\ \A u \in Ultrasonic : hazard[u] <=> (Reported(u) /\ ShowsHazard(lastReport[u]))

\* Whatever happens between them, hazard flags and last reports agree.
LEMMA HazardCorrect == HSpec => [](HazardInv /\ FaultMatchesReports)
  <1>1. HInit => HazardInv /\ FaultMatchesReports
    BY DEF HInit, Init, HazardInv, FaultMatchesReports, Reported
  <1>2. TypeOK /\ HazardInv /\ FaultMatchesReports /\ [HNext]_allVars
          => HazardInv' /\ FaultMatchesReports'
    <2> SUFFICES ASSUME TypeOK, HazardInv, FaultMatchesReports, [HNext]_allVars
                 PROVE  HazardInv' /\ FaultMatchesReports'
      OBVIOUS
    <2>1. ASSUME NEW id \in Ultrasonic \cap Started, NEW m \in Readings, Report(id, m)
          PROVE  HazardInv' /\ FaultMatchesReports'
      <3>1. m \in Reading /\ m # NoReport
        BY InputAssumption, NoReportAssumption
      <3>2. /\ lastReport' = [lastReport EXCEPT ![id] = m]
            /\ hazard' = [hazard EXCEPT ![id] = ShowsHazard(m)]
            /\ dataFault' = [dataFault EXCEPT ![id] = Implausible(m) \/ (@ /\ ~Plausible(m))]
        BY <2>1 DEF Report, OnUltrasonicReading
      <3>3. HazardInv'
        BY <3>1, <3>2, ReadingTests DEF TypeOK, HazardInv, Reported
      <3>4. Implausible(m) => ~Plausible(m)
        BY DEF Plausible
      <3>5. FaultMatchesReports'
        BY <3>1, <3>2, <3>4, ReadingTests DEF TypeOK, HazardInv, FaultMatchesReports, Reported
      <3> QED BY <3>3, <3>5
    <2>2. UNCHANGED <<hazard, dataFault, lastReport>> => HazardInv' /\ FaultMatchesReports'
      BY DEF HazardInv, FaultMatchesReports, Reported
    <2>3. ASSUME NEW s \in Started, Beat(s)
          PROVE  UNCHANGED <<hazard, dataFault, lastReport>>
      BY <2>3 DEF Beat, OnHeartbeat, readingVars
    <2>4. Quiet => UNCHANGED <<hazard, dataFault, lastReport>>
      BY DEF Quiet, OnImuReading, OnSafetyTick, Elapse, readingVars, historyVars
    <2>5. UNCHANGED allVars => UNCHANGED <<hazard, dataFault, lastReport>>
      BY DEF allVars, vars, readingVars, historyVars
    <2> QED BY <2>1, <2>2, <2>3, <2>4, <2>5, Zenon DEF HNext
  <1> QED BY <1>1, <1>2, TypeCorrect, HistoryIsAuxiliary, PTL DEF HSpec

\* The override is on while the latest report of one of the sensors was a
\* hazard, and off while all that reported did report clear (updateOverride()).
THEOREM OverrideFollowsReports == HSpec => []OverrideMatchesReports
  <1>1. HazardInv /\ OverrideMatchesHazards => OverrideMatchesReports
    BY DEF HazardInv, OverrideMatchesHazards, OverrideMatchesReports, AnyHazard, ReportsClear
  <1> QED BY <1>1, HazardCorrect, OverrideCorrect, HistoryIsAuxiliary, PTL

\* The fault latch is set by an impossible report and reset by a plausible one
\* only.
THEOREM FaultFollowsReports == HSpec => []FaultMatchesReports
  BY HazardCorrect, PTL

-----------------------------------------------------------------------------
\* In SAFE_STOP with everyone alive, someone reconnected since the last tick.
ReconnectInv ==
  /\ reconnectedNs \in [Source -> Nat]
  /\ state = "SafeStop" /\ (\A s \in Source : processAlive[s])
       => \E s \in Source : LastTick <= reconnectedNs[s]

\* SAFE_STOP does not outlast its reason by more than a period and the lag.
THEOREM SafeStopEnds == HSpec => []SafeStopEndsPromptly
  <1>1. HInit => ReconnectInv
    BY DEF HInit, Init, ReconnectInv
  <1>2. TypeOK /\ TimingInv /\ ReconnectInv /\ [HNext]_allVars => ReconnectInv'
    <2> SUFFICES ASSUME TypeOK, TimingInv, ReconnectInv, [HNext]_allVars
                 PROVE  ReconnectInv'
      OBVIOUS
    <2>1. ASSUME NEW s \in Started, Beat(s)
          PROVE  ReconnectInv'
      <3>1. /\ s \in Source
            /\ processAlive' = [processAlive EXCEPT ![s] = TRUE]
            /\ reconnectedNs' = [reconnectedNs EXCEPT ![s] = IF processAlive[s] THEN @ ELSE now]
            /\ state' = state /\ tickDue' = tickDue /\ now' = now
        BY <2>1, InputAssumption DEF Beat, OnHeartbeat, clockVars
      <3>2. CASE processAlive[s]
        <4>1. processAlive' = processAlive /\ reconnectedNs' = reconnectedNs
          BY <3>1, <3>2 DEF TypeOK, ReconnectInv
        <4> QED BY <3>1, <4>1 DEF ReconnectInv
      <3>3. CASE ~processAlive[s]
        <4>1. reconnectedNs' \in [Source -> Nat] /\ reconnectedNs'[s] = now
          BY <3>1, <3>3 DEF TypeOK, ReconnectInv
        <4>2. LastTick' <= reconnectedNs'[s]
          BY <3>1, <4>1 DEF TimingInv, ClockInv
        <4> QED BY <3>1, <4>1, <4>2 DEF ReconnectInv
      <3> QED BY <3>2, <3>3
    <2>2. CASE OnSafetyTick /\ UNCHANGED historyVars
      <3>1. state' = "SafeStop" => \E s \in Source : ~processAlive'[s]
        BY <2>2 DEF OnSafetyTick, RecomputeSystemState, Rollup
      <3> QED BY <2>2, <3>1 DEF ReconnectInv, historyVars
    <2>3. UNCHANGED <<state, processAlive, tickDue, reconnectedNs>> => ReconnectInv'
      BY DEF ReconnectInv
    <2>4. ASSUME NEW id \in Ultrasonic \cap Started, NEW m \in Readings, Report(id, m)
          PROVE  UNCHANGED <<state, processAlive, tickDue, reconnectedNs>>
      BY <2>4 DEF Report, OnUltrasonicReading, clockVars, livenessVars
    <2>5. ASSUME Quiet, ~OnSafetyTick
          PROVE  UNCHANGED <<state, processAlive, tickDue, reconnectedNs>>
      BY <2>5 DEF Quiet, OnImuReading, Elapse, clockVars, livenessVars, historyVars
    <2>6. UNCHANGED allVars => UNCHANGED <<state, processAlive, tickDue, reconnectedNs>>
      BY DEF allVars, vars, clockVars, livenessVars, historyVars
    <2>7. Quiet => UNCHANGED historyVars
      BY DEF Quiet
    <2> QED BY <2>1, <2>2, <2>3, <2>4, <2>5, <2>6, <2>7, Zenon DEF HNext
  <1>3. TypeOK /\ TimingInv /\ ReconnectInv => SafeStopEndsPromptly
    <2> SUFFICES ASSUME TypeOK, TimingInv, NEW s \in Source,
                        reconnectedNs[s] \in Nat, LastTick <= reconnectedNs[s]
                 PROVE  now - reconnectedNs[s] <= Slack
      BY DEF ReconnectInv, SafeStopEndsPromptly
    <2> QED BY TimingAssumption DEF TypeOK, TimingInv, ClockInv, Slack
  <1> QED BY <1>1, <1>2, <1>3, TypeCorrect, TimingCorrect, HistoryIsAuxiliary, PTL DEF HSpec

-----------------------------------------------------------------------------
\* Tasks that keep time are a restriction of the tasks the supervisor is
\* proved against: what holds of it for all tasks holds for them.
THEOREM TimedIsSupervisor == TSpec => Spec
  <1>1. TInit => Init
    BY DEF TInit
  <1>2. [TNext]_tvars => [Next]_vars
    <2> SUFFICES ASSUME [TNext]_tvars
                 PROVE  [Next]_vars
      OBVIOUS
    <2>1. ASSUME NEW s \in Started, Joins(s) \/ Dies(s) \/ TBeat(s)
          PROVE  [Next]_vars
      BY <2>1, Zenon DEF Joins, Dies, TBeat, Next
    <2>2. ASSUME NEW u \in Ultrasonic \cap Started, NEW m \in Readings, TReading(u, m)
          PROVE  Next
      BY <2>2, Zenon DEF TReading, Next
    <2>3. ASSUME NEW valid \in BOOLEAN, SOURCE_IMU \in Started /\ TImuReading(valid)
          PROVE  Next
      BY <2>3, Zenon DEF TImuReading, Next
    <2>4. (OnSafetyTick /\ UNCHANGED taskVars) \/ TElapse => Next
      BY Zenon DEF TElapse, Next
    <2> QED BY <2>1, <2>2, <2>3, <2>4, Zenon DEF TNext, tvars
  <1> QED BY <1>1, <1>2, PTL DEF TSpec, Spec

\* It holds when only the tasks that wait for the supervisor run.
LEMMA TimedInit == TInit => TimedInv
  <1> SUFFICES ASSUME TInit PROVE TimedInv
    OBVIOUS
  <1>1. Early \subseteq Source /\ BEAT_GAP \in Nat /\ SAMPLE_GAP \in Nat /\ LINGER \in Nat
    BY GapAssumption, InputAssumption
  <1>2. /\ now = 1 /\ tickDue = 1 + SAFETY_TICK_PERIOD /\ running = Early
        /\ sinceNs = [s \in Source |-> IF s \in Early THEN 1 ELSE 0]
        /\ lastHeartbeatNs = [s \in Source |-> 0] /\ lastMsgNs = [s \in Source |-> 0]
    BY DEF TInit, Init
  <1>3. ASSUME NEW s \in Source
        PROVE  RecentInv(s) /\ GapInv(s)
    BY <1>1, <1>2 DEF RecentInv, GapInv, Since, Later
  <1>4. \A u \in Ultrasonic : ~dataFault[u]
    BY DEF TInit, Init
  <1>5. ~\A s \in Source : UpLongerThan(s, LastTick)
    <2>1. LastTick = 1
      BY <1>2, TimingAssumption
    <2>2. ~UpLongerThan(SOURCE_IMU, 1)
      BY <1>1, <1>2 DEF UpLongerThan, Source
    <2> QED BY <2>1, <2>2 DEF Source
  <1> QED BY <1>1, <1>2, <1>3, <1>4, <1>5 DEF TimedInv

\* A task that joins or dies restarts its own gaps and no other's.
LEMMA JoinDieKeepsTimed ==
  ASSUME TypeOK, ClockInv, \A s \in Source : StampsPast(s), TimedInv,
         NEW t \in Started, Joins(t) \/ Dies(t)
  PROVE  TimedInv'
  <1>1. t \in Source /\ sinceNs' = [sinceNs EXCEPT ![t] = now]
        /\ UNCHANGED vars /\ running' \in {running \cup {t}, running \ {t}}
    BY InputAssumption DEF Joins, Dies
  <1>2. /\ now' = now /\ tickDue' = tickDue /\ lastHeartbeatNs' = lastHeartbeatNs
        /\ lastMsgNs' = lastMsgNs /\ processAlive' = processAlive
        /\ dataFault' = dataFault /\ state' = state
    BY <1>1 DEF vars, clockVars, livenessVars, readingVars
  <1>3. running' \in SUBSET Source /\ sinceNs' \in [Source -> Nat]
    BY <1>1 DEF TimedInv, TypeOK
  <1>4. ASSUME NEW s \in Source
        PROVE  RecentInv(s)' /\ GapInv(s)'
    <2>1. RecentInv(s)'
      BY <1>2 DEF TimedInv, RecentInv
    <2>2. CASE s = t
      <3>1. sinceNs'[s] = now /\ now \in Nat \ {0} /\ lastHeartbeatNs[s] <= now /\ lastMsgNs[s] <= now
        BY <1>1, <2>2 DEF TimedInv, TypeOK, StampsPast
      <3>2. lastHeartbeatNs[s] \in Nat /\ lastMsgNs[s] \in Nat
        BY DEF TypeOK
      <3> QED BY <1>2, <2>1, <3>1, <3>2, GapAssumption DEF GapInv, Since, Later
    <2>3. CASE s # t
      <3>1. sinceNs'[s] = sinceNs[s] /\ (s \in running' <=> s \in running)
        BY <1>1, <2>3 DEF TimedInv
      <3> QED BY <1>2, <2>1, <3>1 DEF TimedInv, GapInv, Since, Later
    <2> QED BY <2>2, <2>3
  <1>5. ~UpLongerThan(t, LastTick)'
    <2>1. sinceNs'[t] = now /\ LastTick' = LastTick
      BY <1>1, <1>2 DEF TimedInv
    <2> QED BY <1>2, <2>1, TimingAssumption, GapAssumption DEF UpLongerThan, ClockInv, TypeOK
  <1> QED BY <1>1, <1>2, <1>3, <1>4, <1>5 DEF TimedInv

\* A beat, whoever sends it, and a reading, whichever it is, keep the gaps.
LEMMA BeatKeepsTimed ==
  ASSUME TypeOK, ClockInv, TimedInv, NEW t \in Started, TBeat(t)
  PROVE  TimedInv'
  <1>1. /\ t \in Source
        /\ t \in running \/ (sinceNs[t] # 0 /\ now <= sinceNs[t] + LINGER)
        /\ lastHeartbeatNs' = [lastHeartbeatNs EXCEPT ![t] = now]
        /\ processAlive' = [processAlive EXCEPT ![t] = TRUE]
        /\ now' = now /\ tickDue' = tickDue /\ lastMsgNs' = lastMsgNs
        /\ dataFault' = dataFault /\ state' = state /\ running' = running /\ sinceNs' = sinceNs
    BY InputAssumption DEF TBeat, OnHeartbeat, clockVars, readingVars, taskVars
  <1>2. ASSUME NEW s \in Source
        PROVE  RecentInv(s)' /\ GapInv(s)'
    <2>1. CASE s # t
      <3>1. lastHeartbeatNs'[s] = lastHeartbeatNs[s] /\ processAlive'[s] = processAlive[s]
        BY <1>1, <2>1 DEF TypeOK
      <3> QED BY <1>1, <3>1 DEF TimedInv, RecentInv, GapInv, Since, Later
    <2>2. CASE s = t
      <3>1. lastHeartbeatNs'[s] = now /\ processAlive'[s]
        BY <1>1, <2>2 DEF TypeOK
      <3>2. sinceNs[s] \in Nat /\ now \in Nat /\ GapInv(s)
        BY DEF TimedInv, TypeOK
      <3> QED BY <1>1, <2>2, <3>1, <3>2, GapAssumption DEF RecentInv, GapInv, Since, Later
    <2> QED BY <2>1, <2>2
  <1>3. UpLongerThan(t, LastTick)' = UpLongerThan(t, LastTick)
    BY <1>1 DEF UpLongerThan
  <1> QED BY <1>1, <1>2 DEF TimedInv, UpLongerThan

\* A plausible reading of either ultrasonic task (TReading of the module).
LEMMA ReadingKeepsTimed ==
  ASSUME TypeOK, TimedInv,
         \/ \E u \in Ultrasonic \cap Started, m \in Readings : TReading(u, m)
         \/ \E valid \in BOOLEAN : TImuReading(valid)
  PROVE  TimedInv'
  <1>1. PICK t \in Source :
          /\ lastMsgNs' = [lastMsgNs EXCEPT ![t] = now]
          /\ lastHeartbeatNs' = lastHeartbeatNs /\ processAlive' = processAlive
          /\ now' = now /\ tickDue' = tickDue /\ state' = state
          /\ running' = running /\ sinceNs' = sinceNs
    <2>1. CASE \E u \in Ultrasonic \cap Started, m \in Readings : TReading(u, m)
      <3>1. PICK u \in Ultrasonic \cap Started, m \in Readings : TReading(u, m)
        BY <2>1
      <3>2. u \in Source
        BY DEF Source
      <3> QED BY <3>1, <3>2 DEF TReading, OnUltrasonicReading, clockVars, livenessVars, taskVars
    <2>2. CASE \E valid \in BOOLEAN : TImuReading(valid)
      <3>1. PICK valid \in BOOLEAN : TImuReading(valid)
        BY <2>2
      <3>2. SOURCE_IMU \in Source
        BY DEF Source
      <3> QED BY <3>1, <3>2 DEF TImuReading, OnImuReading, clockVars, livenessVars, taskVars
    <2> QED BY <2>1, <2>2
  <1>2. \A u \in Ultrasonic : ~dataFault'[u]
    <2>1. ASSUME NEW u \in Ultrasonic \cap Started, NEW m \in Readings, TReading(u, m)
          PROVE  \A v \in Ultrasonic : ~dataFault'[v]
      <3>1. dataFault' = [dataFault EXCEPT ![u] = Implausible(m) \/ (@ /\ ~Plausible(m))]
        BY <2>1 DEF TReading, OnUltrasonicReading
      <3>2. ~Implausible(m)
        BY PlausibleAssumption
      <3> QED BY <3>1, <3>2 DEF TimedInv, TypeOK
    <2>2. ASSUME NEW valid, TImuReading(valid)
          PROVE  dataFault' = dataFault
      BY <2>2 DEF TImuReading, OnImuReading, readingVars
    <2> QED BY <2>1, <2>2 DEF TimedInv
  <1>3. ASSUME NEW s \in Source
        PROVE  RecentInv(s)' /\ GapInv(s)'
    <2>1. lastMsgNs'[s] \in {lastMsgNs[s], now} /\ lastMsgNs[s] \in Nat /\ now \in Nat
      BY <1>1 DEF TypeOK
    <2>2. sinceNs[s] \in Nat /\ GapInv(s) /\ RecentInv(s)
      BY DEF TimedInv
    <2> QED BY <1>1, <2>1, <2>2, GapAssumption DEF RecentInv, GapInv, Since, Later
  <1> QED BY <1>1, <1>2, <1>3 DEF TimedInv, UpLongerThan

\* A tick finds every task alive and fresh that is up longer than its gaps.
LEMMA UpIsHealthy ==
  ASSUME TypeOK, ClockInv, TimedInv, OnSafetyTick, NEW s \in Source, UpLongerThan(s, tickDue)
  PROVE  processAlive'[s] /\ dataHealth'[s] = "Healthy"
  <1>1. /\ now \in Nat /\ tickDue \in Nat /\ tickDue <= now /\ sinceNs[s] \in Nat
        /\ lastHeartbeatNs[s] \in Nat /\ lastMsgNs[s] \in Nat /\ sinceNs[s] # 0
        /\ now - sinceNs[s] > BEAT_GAP /\ now - sinceNs[s] > SAMPLE_GAP
        /\ now <= Since(s, lastHeartbeatNs) + BEAT_GAP
        /\ now <= Since(s, lastMsgNs) + SAMPLE_GAP
    BY GapAssumption DEF UpLongerThan, TypeOK, TimedInv, GapInv, OnSafetyTick
  <1>2. lastHeartbeatNs[s] # 0 /\ now - lastHeartbeatNs[s] <= HEARTBEAT_TIMEOUT_NS
    BY <1>1, GapAssumption, TimingAssumption DEF Since, Later
  <1>3. lastMsgNs[s] # 0 /\ now - lastMsgNs[s] <= SAMPLE_GAP
    BY <1>1, GapAssumption DEF Since, Later
  <1>4. now - lastMsgNs[s] <= Deadline(s)
    BY <1>1, <1>3, GapAssumption, TimingAssumption DEF Deadline
  <1>5. processAlive[s] /\ ~MissesHeartbeats(s)
    BY <1>1, <1>2, TimingAssumption DEF TimedInv, RecentInv, MissesHeartbeats
  <1>6. CheckDeadline(s) = "Healthy"
    BY <1>1, <1>3, <1>4, TimingAssumption DEF CheckDeadline, Deadline
  <1> QED BY <1>5, <1>6 DEF OnSafetyTick

\* A tick declares no task dead that was heard in time, and makes the state
\* NORMAL when all three were up long enough by its expiry.
LEMMA TickKeepsTimed ==
  ASSUME TypeOK, ClockInv, TimedInv, OnSafetyTick, UNCHANGED taskVars
  PROVE  TimedInv'
  <1>1. /\ now' = now /\ tickDue' = tickDue + SAFETY_TICK_PERIOD /\ tickDue \in Nat
        /\ lastHeartbeatNs' = lastHeartbeatNs /\ lastMsgNs' = lastMsgNs /\ dataFault' = dataFault
        /\ running' = running /\ sinceNs' = sinceNs
        /\ processAlive' = [s \in Source |-> processAlive[s] /\ ~MissesHeartbeats(s)]
        /\ state' = RecomputeSystemState(processAlive', dataHealth', dataFault)
    BY DEF OnSafetyTick, taskVars, readingVars, TypeOK
  <1>2. ASSUME NEW s \in Source
        PROVE  RecentInv(s)' /\ GapInv(s)'
    <2>1. GapInv(s)'
      BY <1>1 DEF TimedInv, GapInv, Since, Later
    <2>2. RecentInv(s)'
      BY <1>1, TimingAssumption DEF TimedInv, RecentInv, MissesHeartbeats, TypeOK
    <2> QED BY <2>1, <2>2
  <1>3. LastTick' = tickDue
    BY <1>1, TimingAssumption
  <1>4. ASSUME \A s \in Source : UpLongerThan(s, LastTick)'
        PROVE  state' = "Normal"
    <2>1. \A s \in Source : UpLongerThan(s, tickDue)
      BY <1>1, <1>3, <1>4 DEF UpLongerThan
    <2>2. \A s \in Source : processAlive'[s] /\ dataHealth'[s] = "Healthy"
      BY <2>1, UpIsHealthy
    <2> QED BY <1>1, <2>2 DEF TimedInv, RecomputeSystemState, Rollup, AllHealthy
  <1> QED BY <1>1, <1>2, <1>4 DEF TimedInv

\* Time passes no gap of a running task.
LEMMA ElapseKeepsTimed ==
  ASSUME TypeOK, TimedInv, TElapse
  PROVE  TimedInv'
  <1>1. /\ now' = now + 1 /\ now \in Nat /\ tickDue' = tickDue /\ state' = state
        /\ lastHeartbeatNs' = lastHeartbeatNs /\ lastMsgNs' = lastMsgNs /\ dataFault' = dataFault
        /\ running' = running /\ sinceNs' = sinceNs /\ processAlive' = processAlive
        /\ \A s \in running : /\ now < Since(s, lastHeartbeatNs) + BEAT_GAP
                               /\ now < Since(s, lastMsgNs) + SAMPLE_GAP
    BY DEF TElapse, Elapse, livenessVars, readingVars, taskVars, TypeOK
  <1>2. ASSUME NEW s \in Source
        PROVE  RecentInv(s)' /\ GapInv(s)'
    <2>1. /\ lastHeartbeatNs[s] \in Nat /\ lastMsgNs[s] \in Nat /\ sinceNs[s] \in Nat
          /\ GapInv(s) /\ RecentInv(s)
      BY DEF TypeOK, TimedInv
    <2>2. RecentInv(s)'
      BY <1>1, <2>1, TimingAssumption DEF RecentInv
    <2>3. GapInv(s)'
      BY <1>1, <2>1, GapAssumption DEF GapInv, Since, Later
    <2> QED BY <2>2, <2>3
  <1> QED BY <1>1, <1>2 DEF TimedInv, UpLongerThan

\* The inductive invariant of the supervisor with tasks that keep time.
THEOREM TimedCorrect == TSpec => []TimedInv
  <1>1. TypeOK /\ TimingInv /\ TimedInv /\ [TNext]_tvars => TimedInv'
    <2> SUFFICES ASSUME TypeOK, TimingInv, TimedInv, [TNext]_tvars
                 PROVE  TimedInv'
      OBVIOUS
    <2>1. ClockInv /\ \A s \in Source : StampsPast(s)
      BY DEF TimingInv
    <2>2. UNCHANGED tvars => TimedInv'
      <3>1. UNCHANGED tvars
              => UNCHANGED <<now, tickDue, lastHeartbeatNs, lastMsgNs, processAlive, dataFault,
                             state, running, sinceNs>>
        BY DEF tvars, vars, clockVars, livenessVars, readingVars, taskVars
      <3> QED BY <3>1 DEF TimedInv, RecentInv, GapInv, Since, Later, UpLongerThan
    <2> QED BY <2>1, <2>2, JoinDieKeepsTimed, BeatKeepsTimed, ReadingKeepsTimed, TickKeepsTimed,
               ElapseKeepsTimed, Zenon DEF TNext
  <1> QED BY <1>1, TimedInit, TypeCorrect, TimingCorrect, TimedIsSupervisor, PTL DEF TSpec

\* No false alarm: a task that keeps its gaps is never taken for dead once its
\* first beat was due.
THEOREM NoFalseAlarm == TSpec => []AliveWhileRunning
  <1>1. TypeOK /\ TimedInv => AliveWhileRunning
    <2> SUFFICES ASSUME TypeOK, TimedInv, NEW s \in running, now - sinceNs[s] > BEAT_GAP
                 PROVE  processAlive[s]
      BY DEF AliveWhileRunning
    <2>1. /\ s \in Source /\ RecentInv(s) /\ GapInv(s) /\ sinceNs[s] \in Nat /\ now \in Nat
          /\ lastHeartbeatNs[s] \in Nat
      BY DEF TimedInv, TypeOK
    <2> QED BY <2>1, GapAssumption, TimingAssumption DEF RecentInv, GapInv, Since, Later
  <1> QED BY <1>1, TimedCorrect, TypeCorrect, TimedIsSupervisor, PTL

\* Three tasks that run and keep their gaps make and keep the system NORMAL.
THEOREM RunningIsNormal == TSpec => []AllRunningIsNormal
  <1>1. TypeOK /\ ClockInv /\ TimedInv => AllRunningIsNormal
    <2> SUFFICES ASSUME TypeOK, ClockInv, TimedInv, \A s \in Source : UpLongerThan(s, now - Slack)
                 PROVE  state = "Normal"
      BY DEF AllRunningIsNormal
    <2>1. ASSUME NEW s \in Source
          PROVE  UpLongerThan(s, LastTick)
      <3>1. UpLongerThan(s, now - Slack) /\ sinceNs[s] \in Nat
        BY DEF TimedInv
      <3> QED BY <3>1, TimingAssumption, GapAssumption DEF UpLongerThan, ClockInv, Slack, TypeOK
    <2> QED BY <2>1 DEF TimedInv
  <1>2. TimingInv => ClockInv
    BY DEF TimingInv
  <1> QED BY <1>1, <1>2, TimedCorrect, TypeCorrect, TimingCorrect, TimedIsSupervisor, PTL

\* A task that is gone is found out in bounded time, its queued pulses
\* included, and one that never ran was never believed to.
THEOREM DeathIsNoticed == TSpec => []DeathStops
  <1>1. TypeOK /\ TimingInv /\ TimedInv /\ SilenceIsDeclared => DeathStops
    <2> SUFFICES ASSUME TypeOK, TimingInv, TimedInv, SilenceIsDeclared, NEW s \in Source \ running,
                        \/ sinceNs[s] = 0
                        \/ now - sinceNs[s] > LINGER + HEARTBEAT_TIMEOUT_NS + Slack
                 PROVE  ~processAlive[s] /\ state \notin {"Normal", "Degraded"}
      BY DEF DeathStops
    <2>1. /\ GapInv(s) /\ NeverHeardInv(s) /\ StateInv(s)
          /\ sinceNs[s] \in Nat /\ now \in Nat /\ lastHeartbeatNs[s] \in Nat
      BY DEF TimedInv, TimingInv, TypeOK
    <2>2. CASE lastHeartbeatNs[s] = 0
      BY <2>1, <2>2 DEF NeverHeardInv, StateInv
    <2>3. CASE lastHeartbeatNs[s] # 0
      <3>1. now - lastHeartbeatNs[s] > HEARTBEAT_TIMEOUT_NS + Slack
        BY <2>1, <2>3, GapAssumption, TimingAssumption DEF GapInv, Slack
      <3> QED BY <2>1, <2>3, <3>1 DEF SilenceIsDeclared, StateInv
    <2> QED BY <2>2, <2>3
  <1> QED BY <1>1, TimedCorrect, TypeCorrect, TimingCorrect, SilenceDetected, TimedIsSupervisor, PTL

\* A task that keeps its gaps is never reported for recovery: the supervisor
\* counts no prompt for it, nor is one left over from its earlier deaths.
NotPrompted ==
  \A s \in running : now - sinceNs[s] > BEAT_GAP => respawnAttempts[s] = 0 /\ recoveryStartedNs[s] = 0

\* This is NoFalseAlarm carried to what onSafetyTick() tells the operator.
THEOREM RunningIsNotPrompted == TSpec => []NotPrompted
  <1>1. TimedInv /\ AliveWhileRunning /\ RecoveryPaced => NotPrompted
    BY DEF TimedInv, AliveWhileRunning, RecoveryPaced, NotPrompted
  <1> QED BY <1>1, NoFalseAlarm, TimedCorrect, RecoveryIsPaced, TimedIsSupervisor, PTL

\* A task that was heard of and stays away has been reported for the last time
\* by a time that its death and the constants determine, the pulses it left in
\* the queue included.
GivenUpInTime ==
  \A s \in Source \ running :
    lastHeartbeatNs[s] # 0
      /\ now - sinceNs[s] > LINGER + HEARTBEAT_TIMEOUT_NS + Slack + MAX_RESPAWN_ATTEMPTS * Turn
    => respawnAttempts[s] = MAX_RESPAWN_ATTEMPTS

\* The watchdog of DeathIsNoticed and the prompts of RecoveryRunsItsCourse,
\* one after the other.
THEOREM GoneIsGivenUp == TSpec => []GivenUpInTime
  <1>1. TypeOK /\ TimedInv /\ DeathStops /\ AllPromptsMade => GivenUpInTime
    <2> SUFFICES ASSUME TypeOK, TimedInv, DeathStops, AllPromptsMade,
                        NEW s \in Source \ running, lastHeartbeatNs[s] # 0,
                        now - sinceNs[s] > LINGER + HEARTBEAT_TIMEOUT_NS + Slack
                                           + MAX_RESPAWN_ATTEMPTS * Turn
                 PROVE  respawnAttempts[s] = MAX_RESPAWN_ATTEMPTS
      BY DEF GivenUpInTime
    <2>1. MAX_RESPAWN_ATTEMPTS * Turn \in Nat
      BY Turns, TimingAssumption
    <2>2. /\ lastHeartbeatNs[s] <= sinceNs[s] + LINGER
          /\ sinceNs[s] \in Nat /\ now \in Nat /\ lastHeartbeatNs[s] \in Nat
      BY DEF TimedInv, GapInv, TypeOK
    <2>3. now - sinceNs[s] > LINGER + HEARTBEAT_TIMEOUT_NS + Slack
      BY <2>1, <2>2, GapAssumption, TimingAssumption DEF Slack
    <2>4. ~processAlive[s]
      BY <2>3 DEF DeathStops
    <2>5. now >= PromptedBy(s, MAX_RESPAWN_ATTEMPTS)
      BY <2>1, <2>2, GapAssumption, TimingAssumption DEF PromptedBy, Slack
    <2> QED BY <2>4, <2>5 DEF AllPromptsMade
  <1> QED BY <1>1, TypeCorrect, TimedCorrect, DeathIsNoticed, RecoveryRunsItsCourse,
             TimedIsSupervisor, PTL

-----------------------------------------------------------------------------
\* The rows render() draws.
LEMMA DrawOrderFacts ==
  /\ Len(DrawOrder) = 4
  /\ DrawOrder[1] = 0 /\ DrawOrder[2] = 2 /\ DrawOrder[3] = 4 /\ DrawOrder[4] = 6
  BY DEF DrawOrder

\* The lines of a frame drawn so far without a failure stand on the panel
\* (drawText() sets the window for each).
THEOREM DisplayCorrect == DSpec => []DisplayInv
<1>1. DInit => DisplayInv
  BY DrawOrderFacts DEF DInit, DisplayInv
<1>2. DisplayInv /\ [DNext]_dvars => DisplayInv'
  <2> SUFFICES ASSUME DisplayInv, [DNext]_dvars PROVE DisplayInv'
    OBVIOUS
  <2>1. CASE Query
    BY <2>1, DrawOrderFacts DEF Query, DisplayInv
  <2>2. CASE DrawText
    <3>1. PICK heard, written \in BOOLEAN :
            /\ drawn < Len(DrawOrder)
            /\ drawn' = drawn + 1
            /\ failed' = (failed \/ ~heard \/ ~written)
            /\ SetWindow(DrawOrder[drawn + 1], heard)
            /\ \/ written /\ Shows(frame[DrawOrder[drawn + 1]])
               \/ ~written /\ UNCHANGED screen
               \/ ~(heard /\ written) /\ Shows("Garbled")
            /\ UNCHANGED frame
      BY <2>2 DEF DrawText
    <3>2. drawn' \in 0 .. Len(DrawOrder)
      BY <3>1, DrawOrderFacts DEF DisplayInv
    <3>3. screen' = [r \in KeptRow |-> screen'[r]]
      BY <3>1 DEF DisplayInv, Shows
    <3>4. ASSUME ~failed', NEW i \in 1 .. drawn', DrawOrder[i] \in KeptRow
          PROVE  screen'[DrawOrder[i]] = frame'[DrawOrder[i]]
      <4>1. ~failed /\ heard /\ written
        BY <3>1, <3>4
      <4>2. window' = DrawOrder[drawn + 1] /\ Shows(frame[DrawOrder[drawn + 1]])
        BY <3>1, <4>1 DEF SetWindow
      <4>3. CASE i = drawn + 1
        BY <4>2, <4>3, <3>1, <3>4 DEF Shows
      <4>4. CASE i # drawn + 1
        <5>1. i \in 1 .. drawn /\ drawn \in 0 .. 3
          BY <4>4, <3>1, <3>4, DrawOrderFacts DEF DisplayInv
        <5>2. DrawOrder[i] # DrawOrder[drawn + 1]
          BY <5>1, DrawOrderFacts
        <5>3. screen'[DrawOrder[i]] = screen[DrawOrder[i]]
          BY <4>2, <5>2, <3>4 DEF Shows
        <5> QED BY <5>1, <5>3, <4>1, <3>1, <3>4 DEF DisplayInv
      <4> QED BY <4>3, <4>4
    <3> QED BY <3>2, <3>3, <3>4 DEF DisplayInv
  <2>3. CASE UNCHANGED displayVars
    BY <2>3 DEF displayVars, DisplayInv
  <2> QED BY <2>1, <2>2, <2>3 DEF DNext, Display, dvars
<1> QED BY <1>1, <1>2, PTL DEF DSpec

\* A frame drawn without a failure is on the panel line by line.
THEOREM FrameIsFaithful == DSpec => []FrameFaithful
<1>1. DisplayInv => FrameFaithful
  <2> SUFFICES ASSUME DisplayInv, drawn = Len(DrawOrder), ~failed, NEW r \in KeptRow
               PROVE  screen[r] = frame[r]
    BY DEF FrameFaithful
  <2>1. PICK i \in DOMAIN DrawOrder : r = DrawOrder[i]
    BY RowAssumption DEF DrawnRow
  <2>2. i \in 1 .. drawn
    BY <2>1 DEF DrawOrder
  <2> QED BY <2>1, <2>2 DEF DisplayInv
<1> QED BY <1>1, DisplayCorrect, PTL

-----------------------------------------------------------------------------
(***************************************************************************)
(* The cause the display names.  What the log tells on the faults of one   *)
(* sensor follows its flags as long as it reports a hazard; the entry that *)
(* is latest of all is the latest of its sensor.                           *)
(***************************************************************************)
USE DEF ULTRASONIC_ID_1, ULTRASONIC_ID_2, SOURCE_IMU, SOURCE_SYSTEM, Ultrasonic, Source

\* The order of the natural numbers as a set of pairs.
Before == {p \in Nat \X Nat : p[1] < p[2]}
\* Its pairs do not descend for ever.
LEMMA BeforeWF == IsWellFoundedOn(Before, Nat)
  <1>1. OpToRel(<, Nat) = Before
    BY DEF OpToRel, Before
  <1> QED BY <1>1, NatLessThanWellFounded
\* A non-empty set of places has a last one.
LEMMA LatestExists ==
  ASSUME NEW n \in Nat, NEW S \in SUBSET (1 .. n), S # {}
  PROVE  \E i \in S : \A j \in S : j <= i
  <1> DEFINE T == {n - i : i \in S}
  <1>0. T \subseteq Nat
    OBVIOUS
  <1>1. T \subseteq Nat /\ T # {}
    <2>1. PICK k \in S : TRUE
      OBVIOUS
    <2>2. n - k \in T
      OBVIOUS
    <2> QED BY <1>0, <2>2
  <1> HIDE DEF T
  <1>2. PICK x \in T : \A y \in T : ~(<<y, x>> \in Before)
    BY <1>1, BeforeWF, WFMin
  <1> USE DEF T
  <1>3. PICK i \in S : x = n - i
    OBVIOUS
  <1>4. ASSUME NEW j \in S
        PROVE  j <= i
    <2>1. n - j \in T /\ n - j \in Nat /\ x \in Nat
      BY <1>1
    <2>2. ~(n - j < x)
      BY <1>2, <2>1 DEF Before
    <2> QED BY <1>3, <2>2
  <1> QED BY <1>4

\* The log's entries on faults that sensor u saw, and those that are anomalies.
OnFault(u) == {e \in SafetyEvent : e.source = u /\ e.type \in Cause}
Anomalies  == {e \in SafetyEvent : e.type = "AnomalyDetected"}

\* The log l is well formed and tells on u whether its fault is an anomaly.
TellsFault(l, u, anomaly) == Filled(l) /\ Tells(ReplyEvents(l), OnFault(u), Anomalies, anomaly)

\* The log l is well formed and holds no fault of anything but a sensor: the
\* latest of them would have to be in the empty set.
Strays     == {e \in SafetyEvent : e.source \notin Ultrasonic /\ e.type \in Cause}
NoStray(l) == Filled(l) /\ Tells(ReplyEvents(l), Strays, {}, TRUE)

CauseInv ==
  /\ NoStray(log)
  /\ \A u \in Ultrasonic : hazard[u] => TellsFault(log, u, dataFault[u])

\* An entry that is no fault, or another sensor's, tells nothing on u.
LEMMA AsideFault ==
  ASSUME NEW l, NEW t \in SafetyEventType, NEW v \in Source \cup {SOURCE_SYSTEM}, NEW c \in BOOLEAN,
         NEW u \in Ultrasonic, t \notin Cause \/ v # u,
         NEW anomaly \in BOOLEAN, TellsFault(l, u, anomaly)
  PROVE  TellsFault(LogIf(l, c, Event(t, v)), u, anomaly)
  <1> DEFINE e == Event(t, v)
  <1>1. e \in SafetyEvent /\ e \notin OnFault(u)
    BY EventIsSafetyEvent DEF Event, OnFault
  <1> HIDE DEF e
  <1>2. TellsFault(LogIf(l, c, e), u, anomaly)
    BY <1>1, LogIfTells DEF TellsFault
  <1> QED BY <1>2 DEF e

\* Whatever the handlers log, no fault in it is of anything but a sensor.
LEMMA StraysStayOut ==
  ASSUME NEW l, NoStray(l), NEW t \in SafetyEventType, NEW v \in Source \cup {SOURCE_SYSTEM},
         t \notin Cause \/ v \in Ultrasonic, NEW c \in BOOLEAN
  PROVE  NoStray(LogIf(l, c, Event(t, v)))
  <1> DEFINE e == Event(t, v)
  <1>1. e \in SafetyEvent /\ e \notin Strays
    BY EventIsSafetyEvent DEF Event, Strays
  <1> HIDE DEF e
  <1>2. TRUE \in BOOLEAN
    OBVIOUS
  <1>3. NoStray(LogIf(l, c, e))
    BY <1>1, <1>2, LogIfTells DEF NoStray
  <1> QED BY <1>3 DEF e

\* The fault just logged is what the log tells on its sensor, whatever stood
\* there before.
LEMMA FreshFault ==
  ASSUME NEW l, Filled(l), NEW u \in Ultrasonic, NEW t \in Cause,
         NEW anomaly \in BOOLEAN, anomaly <=> t = "AnomalyDetected"
  PROVE  TellsFault(LogEvent(l, Event(t, u)), u, anomaly)
  <1> DEFINE e == Event(t, u)
             q == ReplyEvents(LogEvent(l, e))
  <1>1. e \in SafetyEvent /\ e.type = t /\ e.source = u
    BY EventIsSafetyEvent DEF Event, Cause, SafetyEventType
  <1>2. e \in OnFault(u) /\ (e \in Anomalies <=> anomaly)
    BY <1>1 DEF OnFault, Anomalies
  <1> HIDE DEF e
  <1>3. Filled(LogEvent(l, e))
    BY <1>1, LogEventFilled
  <1>4. LogEvent(l, e) \in Ring /\ LogEvent(l, e).count >= 1
    BY <1>3, LogAssumption DEF Filled, LogEvent, Ring
  <1>5. q \in Seq(SafetyEvent) /\ Len(q) >= 1 /\ q[Len(q)] = e
    BY <1>1, <1>4, ReplyEventsIsSeq, LastLogged
  <1> HIDE DEF q
  <1>6. Len(q) \in DOMAIN q /\ \A i \in DOMAIN q : i \in Int /\ (i < Len(q) \/ i = Len(q))
    BY <1>5
  <1>7. Tells(q, OnFault(u), Anomalies, anomaly)
    BY <1>2, <1>5, <1>6 DEF Tells
  <1> QED BY <1>3, <1>7 DEF TellsFault, q, e

\* onUltrasonicReading() logs the fault it sets the flags for.
LEMMA ReadingKeepsCause ==
  ASSUME TypeOK, CauseInv,
         NEW id \in Ultrasonic \cap Started, NEW m \in Readings, OnUltrasonicReading(id, m)
  PROVE  CauseInv'
  <1> DEFINE l0      == LogReading(log, id, m)
             engages == AnyHazard(hazard') /\ ~overrideActive
             clears  == ~AnyHazard(hazard') /\ overrideActive
             l1      == LogIf(l0, engages, Event("OverrideEngaged", id))
             l2      == LogIf(l1, clears, Event("OverrideCleared", SOURCE_SYSTEM))
  <1>1. m \in Reading
    BY InputAssumption
  <1>2. log' = l2 /\ engages \in BOOLEAN /\ clears \in BOOLEAN
    BY DEF OnUltrasonicReading, UpdateOverride
  <1>3. {"AnomalyDetected", "Obstacle", "SensorTimeout", "OverrideEngaged", "OverrideCleared"}
          \subseteq SafetyEventType
    BY DEF SafetyEventType
  <1>4. PICK c \in BOOLEAN : \/ l0 = LogIf(log, c, Event("AnomalyDetected", id))
                             \/ l0 = LogIf(log, c, Event("Obstacle", id))
                             \/ l0 = LogIf(log, c, Event("SensorTimeout", id))
    BY <1>1, ReadingEntry
  <1>5. NoStray(l0)
    BY <1>3, <1>4, StraysStayOut DEF CauseInv
  <1>6. ASSUME NEW u \in Ultrasonic, hazard'[u], NEW anomaly \in BOOLEAN, anomaly <=> dataFault'[u]
        PROVE  TellsFault(l0, u, anomaly)
    <2>1. CASE u = id
      <3>1. /\ ShowsHazard(m)
            /\ dataFault'[id] = (Implausible(m) \/ (dataFault[id] /\ ~Plausible(m)))
        BY <1>6, <2>1 DEF OnUltrasonicReading, TypeOK
      <3>2. CASE Implausible(m)
        <4>1. l0 = LogEvent(log, Event("AnomalyDetected", id)) /\ anomaly
          BY <1>6, <2>1, <3>1, <3>2 DEF LogReading, Plausible
        <4> QED BY <2>1, <4>1, FreshFault DEF CauseInv, NoStray, Cause
      <3>3. CASE ~Implausible(m)
        <4>1. l0 = LogEvent(log, Event("Obstacle", id)) /\ ~anomaly
          BY <1>6, <2>1, <3>1, <3>3 DEF LogReading, LogIf, ShowsHazard
        <4> QED BY <2>1, <4>1, FreshFault DEF CauseInv, NoStray, Cause
      <3> QED BY <3>2, <3>3
    <2>2. CASE u # id
      <3>1. hazard[u] /\ (dataFault'[u] <=> dataFault[u]) /\ dataFault[u] \in BOOLEAN
        BY <1>6, <2>2 DEF OnUltrasonicReading, TypeOK
      <3>2. anomaly = dataFault[u]
        BY <1>6, <3>1
      <3>3. TellsFault(log, u, anomaly)
        BY <3>1, <3>2 DEF CauseInv
      <3>4. TellsFault(LogIf(log, c, Event("AnomalyDetected", id)), u, anomaly)
        BY <1>3, <1>6, <2>2, <3>3, AsideFault
      <3>5. TellsFault(LogIf(log, c, Event("Obstacle", id)), u, anomaly)
        BY <1>3, <1>6, <2>2, <3>3, AsideFault
      <3>6. TellsFault(LogIf(log, c, Event("SensorTimeout", id)), u, anomaly)
        BY <1>3, <1>6, <2>2, <3>3, AsideFault
      <3> QED BY <1>4, <3>4, <3>5, <3>6
    <2> QED BY <2>1, <2>2
  <1> HIDE DEF l0, engages, clears
  <1>7. NoStray(l2)
    <2>1. NoStray(l1)
      BY <1>2, <1>3, <1>5, StraysStayOut DEF Cause
    <2> HIDE DEF l1
    <2> QED BY <1>2, <1>3, <2>1, StraysStayOut DEF Cause
  <1>8. ASSUME NEW u \in Ultrasonic, hazard'[u]
        PROVE  TellsFault(l2, u, dataFault'[u])
    <2> DEFINE anomaly == dataFault'[u]
    <2>1. anomaly \in BOOLEAN
      BY <1>8, <1>1, ReadingTests DEF OnUltrasonicReading, TypeOK
    <2> HIDE DEF anomaly
    <2>2. TellsFault(l0, u, anomaly)
      BY <1>6, <1>8, <2>1 DEF anomaly
    <2>3. TellsFault(l1, u, anomaly)
      BY <1>2, <1>3, <2>1, <2>2, AsideFault DEF Cause
    <2> HIDE DEF l1
    <2>4. TellsFault(l2, u, anomaly)
      BY <1>2, <1>3, <2>1, <2>3, AsideFault DEF Cause
    <2> QED BY <2>4 DEF anomaly
  <1> QED BY <1>2, <1>7, <1>8 DEF CauseInv

\* Every other handler logs no fault and leaves the flags alone.
LEMMA OthersKeepCause ==
  ASSUME TypeOK, CauseInv, hazard' = hazard, dataFault' = dataFault,
         NEW t \in SafetyEventType, t \notin Cause,
         NEW v \in Source, NEW c \in BOOLEAN,
         NEW l, NoStray(l), \A u \in Ultrasonic : hazard[u] => TellsFault(l, u, dataFault[u])
  PROVE  LET l1 == LogIf(l, c, Event(t, v))
         IN  NoStray(l1) /\ \A u \in Ultrasonic : hazard[u] => TellsFault(l1, u, dataFault[u])
  <1>1. NoStray(LogIf(l, c, Event(t, v)))
    BY StraysStayOut
  <1>2. ASSUME NEW u \in Ultrasonic, hazard[u]
        PROVE  TellsFault(LogIf(l, c, Event(t, v)), u, dataFault[u])
    <2> DEFINE anomaly == dataFault[u]
    <2>1. anomaly \in BOOLEAN /\ TellsFault(l, u, anomaly)
      BY <1>2 DEF TypeOK
    <2> HIDE DEF anomaly
    <2>2. TellsFault(LogIf(l, c, Event(t, v)), u, anomaly)
      BY <2>1, AsideFault
    <2> QED BY <2>2 DEF anomaly
  <1> QED BY <1>1, <1>2

\* What the log tells on faults and the flags agree in every reachable state.
LEMMA CauseCorrect == Spec => []CauseInv
  <1>1. Init => CauseInv
    <2> SUFFICES ASSUME Init
                 PROVE  CauseInv
      OBVIOUS
    <2>1. Filled(log) /\ DOMAIN ReplyEvents(log) = {}
      BY EmptyLogFilled DEF Init, EmptyLog, ReplyEvents
    <2>2. \A u \in Ultrasonic : ~hazard[u]
      BY DEF Init
    <2> QED BY <2>1, <2>2 DEF CauseInv, NoStray, Tells
  <1>2. TypeOK /\ CauseInv /\ [Next]_vars => CauseInv'
    <2> SUFFICES ASSUME TypeOK, CauseInv, [Next]_vars
                 PROVE  CauseInv'
      OBVIOUS
    <2>1. {"SensorTimeout", "ProcessRecovered", "ProcessDead"} \subseteq SafetyEventType \ Cause
      BY DEF SafetyEventType, Cause
    <2>2. ASSUME NEW id \in Ultrasonic \cap Started, NEW m \in Readings,
                 OnUltrasonicReading(id, m)
          PROVE  CauseInv'
      BY <2>2, ReadingKeepsCause
    <2>3. ASSUME NEW valid \in BOOLEAN, OnImuReading(valid)
          PROVE  CauseInv'
      <3> DEFINE c == ~valid
      <3>1. /\ log' = LogIf(log, c, Event("SensorTimeout", SOURCE_IMU)) /\ c \in BOOLEAN
            /\ hazard' = hazard /\ dataFault' = dataFault
        BY <2>3 DEF OnImuReading, readingVars
      <3> HIDE DEF c
      <3> QED BY <2>1, <3>1, OthersKeepCause DEF CauseInv
    <2>4. ASSUME NEW s \in Started, OnHeartbeat(s)
          PROVE  CauseInv'
      <3> DEFINE c == ~processAlive[s]
      <3>1. /\ log' = LogIf(log, c, Event("ProcessRecovered", s)) /\ c \in BOOLEAN
            /\ hazard' = hazard /\ dataFault' = dataFault /\ s \in Source
        BY <2>4, InputAssumption DEF OnHeartbeat, readingVars
      <3> HIDE DEF c
      <3> QED BY <2>1, <3>1, OthersKeepCause DEF CauseInv
    <2>5. CASE OnSafetyTick
      <3> DEFINE l1 == LogDeath(log, ULTRASONIC_ID_1)
                 l2 == LogDeath(l1, ULTRASONIC_ID_2)
                 Told(l) == NoStray(l)
                            /\ \A u \in Ultrasonic : hazard[u] => TellsFault(l, u, dataFault[u])
      <3>1. log' = LogDeath(l2, SOURCE_IMU) /\ hazard' = hazard /\ dataFault' = dataFault
        BY <2>5 DEF OnSafetyTick, readingVars
      <3>2. ASSUME NEW l, NEW s \in Source, Told(l)
            PROVE  Told(LogDeath(l, s))
        <4> DEFINE c == MissesHeartbeats(s)
        <4>1. c \in BOOLEAN
          BY DEF MissesHeartbeats, TypeOK
        <4> HIDE DEF c
        <4>2. Told(LogIf(l, c, Event("ProcessDead", s)))
          BY <2>1, <3>1, <3>2, <4>1, OthersKeepCause
        <4> QED BY <4>2 DEF c, LogDeath
      <3>3. Told(log)
        BY DEF CauseInv
      <3> HIDE DEF Told
      <3>4. Told(l1)
        BY <3>2, <3>3
      <3> HIDE DEF l1
      <3>5. Told(l2)
        BY <3>2, <3>4
      <3> HIDE DEF l2
      <3>6. Told(log')
        BY <3>1, <3>2, <3>5
      <3> QED BY <3>1, <3>6 DEF CauseInv, Told
    <2>6. CASE Elapse
      BY <2>6 DEF Elapse, readingVars, CauseInv
    <2>7. CASE UNCHANGED vars
      BY <2>7 DEF vars, readingVars, CauseInv
    <2> QED BY <2>2, <2>3, <2>4, <2>5, <2>6, <2>7 DEF Next
  <1> QED BY <1>1, <1>2, TypeCorrect, PTL DEF Spec

\* The supervisor is not disturbed by who watches it.
LEMMA WatchedIsSupervisor == DSpec => Spec
  <1>1. DInit => Init
    BY DEF DInit
  <1>2. [DNext]_dvars => [Next]_vars
    BY DEF DNext, Display, dvars
  <1> QED BY <1>1, <1>2, PTL DEF DSpec, Spec

\* The cause and the sensor on the display are never out of date for that
\* sensor, whatever the size of the ring the line is composed from.
THEOREM CauseIsCurrent == DSpec => []CauseCurrent
  <1>1. TypeOK /\ CauseInv => CauseCurrent
    <2> DEFINE q == ReplyEvents(log)
               H == HazardEvents(q)
               k == CHOOSE i \in H : \A j \in H : j <= i
    <2> SUFFICES ASSUME TypeOK, CauseInv, overrideActive, Found, hazard[q[k].source]
                 PROVE  Line1 = "AnomalyDetected" <=> dataFault[q[k].source]
      BY DEF CauseCurrent, LatestHazard
    <2>1. /\ q \in Seq(SafetyEvent) /\ Len(q) \in Nat /\ DOMAIN q = 1 .. Len(q)
      BY ReplyEventsIsSeq DEF CauseInv, NoStray, Filled
    <2>2. Line1 = "AnomalyDetected" <=> q[k].type = "AnomalyDetected"
      BY DEF Line1, Stopped, LatestHazard
    <2>3. H # {}
      BY DEF Found
    <2> HIDE DEF q
    <2>4. H \in SUBSET (1 .. Len(q)) /\ \A i \in DOMAIN q : i \in H <=> q[i].type \in Cause
      BY <2>1 DEF HazardEvents, Cause
    <2> HIDE DEF H
    <2>5. k \in H /\ \A j \in H : j <= k
      <3>1. \E i \in H : \A j \in H : j <= i
        BY <2>1, <2>3, <2>4, LatestExists
      <3> QED BY <3>1
    <2> HIDE DEF k
    <2>6. /\ k \in DOMAIN q /\ q[k] \in SafetyEvent /\ q[k].type \in Cause
          /\ \A j \in DOMAIN q : j > k => q[j].type \notin Cause
      BY <2>1, <2>4, <2>5
    <2>7. q[k].source \in Ultrasonic
      <3>1. Tells(q, Strays, {}, TRUE)
        BY DEF CauseInv, NoStray, q
      <3>2. \A j \in DOMAIN q : j > k => q[j] \notin Strays
        BY <2>6 DEF Strays
      <3>3. q[k] \notin Strays
        BY <2>6, <3>1, <3>2 DEF Tells
      <3> QED BY <2>6, <3>3 DEF Strays
    <2> DEFINE u == q[k].source
               anomaly == dataFault[u]
    <2>8. anomaly \in BOOLEAN /\ Tells(q, OnFault(u), Anomalies, anomaly)
      BY <2>7 DEF CauseInv, TellsFault, TypeOK, q
    <2> HIDE DEF anomaly
    <2>9. q[k] \in OnFault(u) /\ \A j \in DOMAIN q : j > k => q[j] \notin OnFault(u)
      BY <2>6 DEF OnFault
    <2>10. q[k] \in Anomalies <=> anomaly
      BY <2>6, <2>8, <2>9 DEF Tells
    <2>11. q[k] \in Anomalies <=> q[k].type = "AnomalyDetected"
      BY <2>6 DEF Anomalies
    <2> QED BY <2>2, <2>10, <2>11 DEF anomaly
  <1> QED BY <1>1, WatchedIsSupervisor, TypeCorrect, CauseCorrect, PTL

-----------------------------------------------------------------------------
\* The display's thread goes on: Query or DrawText can be taken in every state,
\* and each changes drawn, so this is what WF_dvars(Display) says.
DisplayRuns == []<><<Display>>_dvars

\* The top line is right in the frame, and on the panel.
Composed(text) == frame[0] = text
Shown(text) == frame[0] = text /\ screen[0] = text

\* One step of the display leads to the next line, or from the last one to a
\* frame with the top line of that moment.
LEMMA DisplayAdvances ==
  ASSUME NEW text, DisplayInv, Display
  PROVE  /\ drawn < 4 => drawn' = drawn + 1
         /\ drawn = 4 => drawn' = 0 /\ (Line0 = text => Composed(text)')
  <1>1. Query => drawn = 4 /\ drawn' = 0 /\ frame'[0] = Line0
    BY DrawOrderFacts DEF Query, Lines
  <1>2. DrawText => drawn < 4 /\ drawn' = drawn + 1
    BY DrawOrderFacts DEF DrawText
  <1> QED BY <1>1, <1>2 DEF Display, Composed

\* As long as the top line is to be text, a frame that has it is followed by
\* frames that have it.
LEMMA ComposedKept ==
  ASSUME NEW text, DisplayInv, Line0 = text, Composed(text), [DNext]_dvars
  PROVE  Composed(text)'
  <1>1. CASE Query
    BY <1>1 DEF Query, Lines, Composed
  <1>2. CASE DrawText
    BY <1>2 DEF DrawText, Composed
  <1> QED BY <1>1, <1>2 DEF DNext, Display, dvars, displayVars, Composed

\* Behind the first line of such a frame the panel shows it, ...
LEMMA ShownOnce ==
  ASSUME NEW text, 0 \in KeptRow, DisplayInv, ~failed, Composed(text), drawn \in 1 .. 4
  PROVE  Shown(text)
  <1>1. 1 \in 1 .. drawn
    OBVIOUS
  <1> QED BY <1>1, DrawOrderFacts DEF DisplayInv, Composed, Shown

\* ... and goes on to show it while transactions do not fail.
LEMMA ShownKept ==
  ASSUME NEW text, 0 \in KeptRow, DisplayInv, ~failed', Line0 = text, Shown(text), [DNext]_dvars
  PROVE  Shown(text)'
  <1>1. Composed(text)'
    BY ComposedKept DEF Shown, Composed
  <1>2. CASE DrawText
    <2>1. PICK heard, written \in BOOLEAN :
            /\ drawn < Len(DrawOrder)
            /\ failed' = (failed \/ ~heard \/ ~written)
            /\ SetWindow(DrawOrder[drawn + 1], heard)
            /\ \/ written /\ Shows(frame[DrawOrder[drawn + 1]])
               \/ ~written /\ UNCHANGED screen
               \/ ~(heard /\ written) /\ Shows("Garbled")
      BY <1>2 DEF DrawText
    <2>2. window' = DrawOrder[drawn + 1] /\ Shows(frame[DrawOrder[drawn + 1]])
      BY <2>1 DEF SetWindow
    <2>3. screen'[0] = IF DrawOrder[drawn + 1] = 0 THEN frame[DrawOrder[drawn + 1]] ELSE screen[0]
      BY <2>2 DEF Shows
    <2> QED BY <1>1, <2>3 DEF Shown, Composed
  <1>3. CASE Query \/ UNCHANGED displayVars
    BY <1>1, <1>3 DEF Query, displayVars, Shown, Composed
  <1> QED BY <1>2, <1>3 DEF DNext, Display, dvars

\* The display moves on only by its own steps.
LEMMA DrawnWaits ==
  ASSUME [DNext]_dvars
  PROVE  drawn' = drawn \/ <<Display>>_dvars
  <1>1. Display => <<Display>>_dvars \/ drawn' = drawn
    BY DEF dvars, displayVars
  <1> QED BY <1>1 DEF DNext, dvars, displayVars

\* Once the I2C transactions stop failing and the decision stops changing, the
\* panel of a display whose font has the top row settles on that decision.
THEOREM TopLineDoesSettle ==
  ASSUME 0 \in KeptRow
  PROVE  DSpec /\ DisplayRuns => TopLineSettles
  <1> DEFINE at(i) == drawn = i
             heard == ~failed
             stop == Stopped
             c1 == Composed("VehicleStopped")
             c2 == Composed("VehicleMoving")
             s1 == Shown("VehicleStopped")
             s2 == Shown("VehicleMoving")
             e0 == at(0)
             e1 == at(1)
             e2 == at(2)
             e3 == at(3)
             e4 == at(4)
             D == Display
  <1>1. DisplayInv => e0 \/ e1 \/ e2 \/ e3 \/ e4
    BY DrawOrderFacts DEF DisplayInv
  <1>2. DisplayInv /\ <<D>>_dvars => /\ e0 => e1'
                                     /\ e1 => e2'
                                     /\ e2 => e3'
                                     /\ e3 => e4'
    BY DisplayAdvances
  <1>3. [DNext]_dvars => /\ e0 => e0' \/ <<D>>_dvars
                         /\ e1 => e1' \/ <<D>>_dvars
                         /\ e2 => e2' \/ <<D>>_dvars
                         /\ e3 => e3' \/ <<D>>_dvars
                         /\ e4 => e4' \/ <<D>>_dvars
    BY DrawnWaits
  <1>4. (Line0 = "VehicleStopped" <=> Stopped) /\ (Line0 = "VehicleMoving" <=> ~Stopped)
    BY DEF Line0
  <1>5. DisplayInv /\ <<D>>_dvars /\ e4 => e0' /\ (stop => c1') /\ (~stop => c2')
    BY <1>4, DisplayAdvances
  <1>6. DisplayInv /\ [DNext]_dvars => (stop /\ c1 => c1') /\ (~stop /\ c2 => c2')
    BY <1>4, ComposedKept
  <1>7. DisplayInv /\ heard /\ e1 => (c1 => s1) /\ (c2 => s2)
    BY ShownOnce
  <1>8. DisplayInv /\ heard' /\ [DNext]_dvars => (stop /\ s1 => s1') /\ (~stop /\ s2 => s2')
    BY <1>4, ShownKept
  <1>9. (s1 => screen[0] = "VehicleStopped") /\ (s2 => screen[0] = "VehicleMoving")
    BY DEF Shown
  <1> HIDE DEF heard, stop, c1, c2, s1, s2, e0, e1, e2, e3, e4, D
  <1>10. DSpec /\ []<><<D>>_dvars /\ <>[]heard /\ <>[]stop => <>[](screen[0] = "VehicleStopped")
    BY <1>1, <1>2, <1>3, <1>5, <1>6, <1>7, <1>8, <1>9, DisplayCorrect, PTL DEF DSpec
  <1>11. DSpec /\ []<><<D>>_dvars /\ <>[]heard /\ <>[]~stop => <>[](screen[0] = "VehicleMoving")
    BY <1>1, <1>2, <1>3, <1>5, <1>6, <1>7, <1>8, <1>9, DisplayCorrect, PTL DEF DSpec
  <1> QED
    BY <1>10, <1>11 DEF TopLineSettles, DisplayRuns, heard, stop, Stopped, D
=============================================================================
