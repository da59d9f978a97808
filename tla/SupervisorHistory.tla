-------------------------- MODULE SupervisorHistory --------------------------
(***************************************************************************)
(* The supervisor together with what its environment would remember: the   *)
(* latest report of each ultrasonic sensor, when each last sent one its    *)
(* driver called Connected, and when each process last reconnected.  The   *)
(* history variables are written and never read by the supervisor, so they *)
(* restrict nothing; they let a property compare what the supervisor       *)
(* decided with what it was told.                                          *)
(***************************************************************************)
EXTENDS Supervisor

CONSTANT NoReport   \* in place of a report of a sensor that sent none yet

ASSUME NoReportAssumption == NoReport \notin Reading

VARIABLES lastReport, lastTrustedNs, reconnectedNs

historyVars == <<lastReport, lastTrustedNs, reconnectedNs>>
allVars == <<vars, historyVars>>

HInit ==
  /\ Init
  /\ lastReport    = [u \in Ultrasonic |-> NoReport]
  /\ lastTrustedNs = [u \in Ultrasonic |-> 0]
  /\ reconnectedNs = [s \in Source |-> 0]

Report(id, m) ==
  /\ OnUltrasonicReading(id, m)
  /\ lastReport' = [lastReport EXCEPT ![id] = m]
  /\ lastTrustedNs' = [lastTrustedNs EXCEPT ![id] = IF m.status = "Connected" THEN now ELSE @]
  /\ UNCHANGED reconnectedNs

Beat(s) ==
  /\ OnHeartbeat(s)
  /\ reconnectedNs' = [reconnectedNs EXCEPT ![s] = IF processAlive[s] THEN @ ELSE now]
  /\ UNCHANGED <<lastReport, lastTrustedNs>>

Quiet ==
  /\ \/ \E valid \in BOOLEAN : SOURCE_IMU \in Started /\ OnImuReading(valid)
     \/ OnSafetyTick
     \/ Elapse
  /\ UNCHANGED historyVars

HNext ==
  \/ \E id \in Ultrasonic \cap Started, m \in Readings : Report(id, m)
  \/ \E s \in Started : Beat(s)
  \/ Quiet

HSpec == HInit /\ [][HNext]_allVars

-----------------------------------------------------------------------------
Reported(u) == lastReport[u] # NoReport

\* A report that sees no hazard: an echo beyond the threshold or the range.
\* Disconnected is none, the sensor has seen nothing.
ReportsClear(m) == m.status # "Disconnected" /\ ~ShowsHazard(m)

\* updateOverride(): the override is on while the latest report of either
\* sensor was a hazard, and off while all that reported did report clear.  No
\* later step of the other sensor, of the watchdog or of a tick ends it, and
\* no hazard of the past holds it.  Of a sensor that lost its echo nothing is
\* said here, see ClearedOnlyByClearReports.
OverrideMatchesReports ==
  /\ (\E u \in Ultrasonic : Reported(u) /\ ShowsHazard(lastReport[u])) => overrideActive
  /\ (\A u \in Ultrasonic : Reported(u) => ReportsClear(lastReport[u])) => ~overrideActive

\* supervisor.cpp on the override: it "only clears once BOTH report clear".  A
\* sensor that never reported is let pass.
ClearedOnlyByClearReports ==
  [][overrideActive /\ ~overrideActive' =>
       \A u \in Ultrasonic : Reported(u)' => ReportsClear(lastReport'[u])]_allVars

\* A fault is latched until a plausible reading: a sensor not marked faulty
\* did not send an impossible reading last, and one whose last reading was
\* plausible is not marked.
FaultMatchesReports ==
  \A u \in Ultrasonic :
    Reported(u) => /\ Implausible(lastReport[u]) => dataFault[u]
                   /\ Plausible(lastReport[u]) => ~dataFault[u]

\* SAFE_STOP does not outlast its reason: with all three processes alive it
\* only means that one reconnected less than a period ago.
SafeStopEndsPromptly ==
  state = "SafeStop" /\ (\A s \in Source : processAlive[s])
    => \E s \in Source : now - reconnectedNs[s] <= Slack

\* supervisor.cpp on readings that are not Connected: the deadline and the
\* watchdog degrade the sensor's health, so that it is not silently trusted.
NormalMeansTrusted ==
  state = "Normal" =>
    \A u \in Ultrasonic : lastTrustedNs[u] # 0 /\ now - lastTrustedNs[u] <= Deadline(u) + Slack
=============================================================================
