------------------------- MODULE MCSupervisorHistory -------------------------
(***************************************************************************)
(* Values for the runs of SupervisorHistory.                               *)
(***************************************************************************)
EXTENDS SupervisorHistory

R(st, d) == [status |-> st, distanceCm |-> d]

\* The least distances that are possible and no obstacle, one that is neither,
\* the not-a-number atof() can make, an echo from too far and a lost one.
BoundaryReadings ==
  {R("Connected", d) : d \in {2, 20, 401, NaN}}
    \cup {R("OutOfRange", 401), R("Disconnected", -1)}

\* Two views.  The properties of the override run read the reports and none of
\* the rest of the history, those of the watchdog run everything but the log.
\* No guard and no other variable depends on what is left out.
ReportsOnly == <<vars, lastReport>>

AllButLog == <<clockVars, livenessVars, lastMsgNs, dataHealth, readingVars, state, historyVars>>

ClearReading == {R("Connected", 100)}
SeenThenLost == {R("Connected", 10), R("Connected", 100), R("Disconnected", -1)}
ClearOrLost  == {R("Connected", 100), R("Disconnected", -1)}
=============================================================================
