----------------------------- MODULE TimedTasks -----------------------------
(***************************************************************************)
(* The supervisor with sensor tasks that keep time: each runs a heartbeat  *)
(* thread and a sampling loop with fixed pauses (ultrasonic_task-1.cpp,    *)
(* imu_task.cpp), so that the supervisor hears a running task again before *)
(* BEAT_GAP and SAMPLE_GAP are over.  The gaps hold the period, the work   *)
(* of a round and the wait for the processor.  A task may die at any time  *)
(* and be started again by hand; pulses it sent before outlive it in the   *)
(* queue for up to LINGER.  A reading does not: its sender is blocked in   *)
(* MsgSend() and the kernel drops the message of a sender that is gone.    *)
(*                                                                         *)
(* The module restricts Supervisor and changes nothing in it; what it adds *)
(* is what the watchdogs and the deadlines are for.                        *)
(***************************************************************************)
EXTENDS Supervisor

CONSTANTS
  BEAT_GAP,      \* HEARTBEAT_PERIOD_MS and what delays a pulse
  SAMPLE_GAP,    \* SAMPLE_PERIOD_MS, a sense() or a read(), and the reply
  LINGER,        \* the longest a queued pulse waits
  Mortal,        \* the tasks that may die
  Early          \* the tasks that wait for the supervisor when it starts

ASSUME GapAssumption ==
  /\ BEAT_GAP \in Nat /\ BEAT_GAP <= HEARTBEAT_TIMEOUT_NS
  /\ SAMPLE_GAP \in Nat
  /\ SAMPLE_GAP <= ULTRASONIC_DEADLINE_NS /\ SAMPLE_GAP <= IMU_DEADLINE_NS
  /\ LINGER \in Nat
  /\ Early \subseteq Started

\* The drivers never call Connected what is impossible (NeverAnomalous of
\* UltrasonicTask), and the fault injector is not run.
ASSUME PlausibleAssumption == \A m \in Readings : ~Implausible(m)

VARIABLES
  running,   \* the tasks that are streaming
  sinceNs    \* when each began or ceased to

taskVars == <<running, sinceNs>>
tvars == <<vars, taskVars>>

TInit ==
  /\ Init
  /\ running = Early
  /\ sinceNs = [s \in Source |-> IF s \in Early THEN now ELSE 0]

-----------------------------------------------------------------------------
\* A task is up and has opened its connection: its loops begin.
Joins(s) ==
  /\ s \notin running
  /\ running' = running \cup {s}
  /\ sinceNs' = [sinceNs EXCEPT ![s] = now]
  /\ UNCHANGED vars

Dies(s) ==
  /\ s \in Mortal \cap running
  /\ running' = running \ {s}
  /\ sinceNs' = [sinceNs EXCEPT ![s] = now]
  /\ UNCHANGED vars

\* heartbeatThread()
TBeat(s) ==
  /\ s \in running \/ (sinceNs[s] # 0 /\ now <= sinceNs[s] + LINGER)
  /\ OnHeartbeat(s)
  /\ UNCHANGED taskVars

\* The sampling loops.
TReading(u, m) == u \in running /\ OnUltrasonicReading(u, m) /\ UNCHANGED taskVars
TImuReading(valid) == SOURCE_IMU \in running /\ OnImuReading(valid) /\ UNCHANGED taskVars

\* Time does not pass a running task's next beat or reading.
Later(a, b) == IF a > b THEN a ELSE b
Since(s, stamp) == Later(stamp[s], sinceNs[s])

TElapse ==
  /\ \A s \in running : /\ now < Since(s, lastHeartbeatNs) + BEAT_GAP
                        /\ now < Since(s, lastMsgNs) + SAMPLE_GAP
  /\ Elapse
  /\ UNCHANGED taskVars

TNext ==
  \/ \E s \in Started : Joins(s) \/ Dies(s) \/ TBeat(s)
  \/ \E u \in Ultrasonic \cap Started, m \in Readings : TReading(u, m)
  \/ \E valid \in BOOLEAN : SOURCE_IMU \in Started /\ TImuReading(valid)
  \/ OnSafetyTick /\ UNCHANGED taskVars
  \/ TElapse

TSpec == TInit /\ [][TNext]_tvars

-----------------------------------------------------------------------------
\* No false alarm: a task that keeps its gaps is alive in the supervisor's
\* eyes from its first beat on, whatever the ticks, the other tasks and its
\* own earlier deaths.
AliveWhileRunning ==
  \A s \in running : now - sinceNs[s] > BEAT_GAP => processAlive[s]

\* Three tasks that run and keep their gaps put the system into NORMAL within
\* a period, from SAFE_STOP and RECOVERY alike, and keep it there.
UpLongerThan(s, d) == s \in running /\ d - sinceNs[s] > BEAT_GAP /\ d - sinceNs[s] > SAMPLE_GAP

AllRunningIsNormal ==
  (\A s \in Source : UpLongerThan(s, now - Slack)) => state = "Normal"

\* A task that is not running is known to be dead, and holds the system out
\* of NORMAL and DEGRADED, as soon as its last pulse, the timeout and a
\* period are over; one that never ran holds it out from the start.
DeathStops ==
  \A s \in Source \ running :
    sinceNs[s] = 0 \/ now - sinceNs[s] > LINGER + HEARTBEAT_TIMEOUT_NS + Slack
      => ~processAlive[s] /\ state \notin {"Normal", "Degraded"}

\* What they rest on: a recent beat means alive, the gaps are kept, a task
\* that is gone beat no later than LINGER after it died, no sensor is marked
\* faulty, and the last tick found what was running long enough by then.
RecentInv(s) ==
  lastHeartbeatNs[s] # 0 /\ now - lastHeartbeatNs[s] <= HEARTBEAT_TIMEOUT_NS => processAlive[s]

GapInv(s) ==
  /\ sinceNs[s] <= now
  /\ s \in running => /\ sinceNs[s] # 0
                      /\ now <= Since(s, lastHeartbeatNs) + BEAT_GAP
                      /\ now <= Since(s, lastMsgNs) + SAMPLE_GAP
  /\ s \notin running => lastHeartbeatNs[s] <= sinceNs[s] + LINGER
  /\ sinceNs[s] = 0 => lastHeartbeatNs[s] = 0

TimedInv ==
  /\ running \in SUBSET Source /\ sinceNs \in [Source -> Nat]
  /\ \A s \in Source : RecentInv(s) /\ GapInv(s)
  /\ \A u \in Ultrasonic : ~dataFault[u]
  /\ (\A s \in Source : UpLongerThan(s, LastTick)) => state = "Normal"
=============================================================================
