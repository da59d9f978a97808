------------------------- MODULE SafetySystemProofs -------------------------
(***************************************************************************)
(* Proofs about the processes and their channel, for any number of tasks   *)
(* and other clients and any pattern of deaths and starts.                 *)
(***************************************************************************)
EXTENDS SafetySystem, TLAPS

\* What a message does to the supervisor's judgement leaves alone which tasks
\* it believes to beat, and the verdict.
LEMMA ReadingsKeepVerdict ==
  ASSUME NEW c, Handle(c)
  PROVE  beating' = beating /\ verdict' = verdict
  BY DEF Handle, Judge, judgement

\* Pulses in the queue, beats in the supervisor's memory and connections are
\* all of tasks that opened a connection to the supervisor that runs now.
THEOREM SystemCorrect == SSpec => [](SystemInv /\ AllMetBeforeMoving)
<1> DEFINE Inv == SystemInv /\ AllMetBeforeMoving
<1>1. SInit => Inv
  BY DEF SInit, Init, SystemInv, AllMetBeforeMoving
<1>2. Inv /\ [SNext]_svars => Inv'
  <2> SUFFICES ASSUME Inv, [SNext]_svars PROVE Inv'
    OBVIOUS
  <2> USE DEF SystemInv, AllMetBeforeMoving
  <2>1. ASSUME NEW c \in Client, StartClient(c) PROVE Inv'
    BY <2>1 DEF StartClient, judgement, channel
  <2>2. ASSUME NEW c \in Client, Open(c) PROVE Inv'
    BY <2>2 DEF Open, judgement
  <2>3. ASSUME NEW c \in Client, Send(c) \/ Close(c) PROVE Inv'
    BY <2>3 DEF Send, Close, judgement, channel
  <2>4. ASSUME NEW c \in Client, ClientDies(c) PROVE Inv'
    BY <2>4 DEF ClientDies, judgement
  <2>5. ASSUME NEW t \in Task, Beat(t) PROVE Inv'
    BY <2>5 DEF Beat, judgement
  <2>6. ASSUME NEW t \in Task, ReceivePulse(t) PROVE Inv'
    BY <2>6 DEF ReceivePulse, Hear
  <2>7. ASSUME NEW c \in Client, Receive(c) PROVE Inv'
    <3>1. beating' = beating /\ verdict' = verdict
      BY <2>7, ReadingsKeepVerdict DEF Receive
    <3> QED BY <2>7, <3>1 DEF Receive, Reply
  <2>8. ASSUME Tick PROVE Inv'
    <3>1. PICK lost \in SUBSET beating, inTime \in BOOLEAN :
            beating' = beating \ lost /\ verdict' = VerdictOn(beating', inTime)
      BY <2>8 DEF Tick, Review
    <3>2. verdict' \in {"Normal", "Degraded"} => beating' = Task
      BY <3>1 DEF VerdictOn
    <3> QED BY <2>8, <3>1, <3>2 DEF Tick, channel
  <2>9. ASSUME SupervisorDies PROVE Inv'
    BY <2>9 DEF SupervisorDies, judgement
  <2>10. ASSUME SupervisorStarts PROVE Inv'
    BY <2>10 DEF SupervisorStarts
  <2>11. ASSUME UNCHANGED svars PROVE Inv'
    BY <2>11 DEF svars, judgement, channel
  <2> QED BY <2>1, <2>2, <2>3, <2>4, <2>5, <2>6, <2>7, <2>8, <2>9, <2>10, <2>11, Zenon
          DEF SNext, Loop
<1> QED BY <1>1, <1>2, PTL DEF SSpec

\* The vehicle is not said to move before every task has connected to this
\* very supervisor, however often it and they were restarted.
THEOREM MetBeforeMoving == SSpec => []AllMetBeforeMoving
  BY SystemCorrect, PTL

-----------------------------------------------------------------------------
\* Only a client that runs has a connection, and only on it a call can wait.
PhaseInv ==
  /\ DOMAIN phase = Client
  /\ blocked \subseteq connected /\ connected \subseteq {c \in Client : phase[c] = "Running"}
  /\ ~up => connected = {}

\* Nobody runs at first.
LEMMA PhaseStart == SInit => PhaseInv
  BY DEF SInit, PhaseInv

\* A death ends the connection with the call on it (MsgSend()).
LEMMA PhaseStep == PhaseInv /\ [SNext]_svars => PhaseInv'
  <1> SUFFICES ASSUME PhaseInv, [SNext]_svars PROVE PhaseInv'
    OBVIOUS
  <1> USE DEF PhaseInv
  <1>1. ASSUME NEW c \in Client, StartClient(c) PROVE PhaseInv'
    BY <1>1 DEF StartClient, channel
  <1>2. ASSUME NEW c \in Client, Open(c) PROVE PhaseInv'
    BY <1>2 DEF Open
  <1>3. ASSUME NEW c \in Client, Send(c) \/ Close(c) PROVE PhaseInv'
    BY <1>3 DEF Send, Close, channel
  <1>4. ASSUME NEW c \in Client, ClientDies(c) PROVE PhaseInv'
    BY <1>4 DEF ClientDies
  <1>5. ASSUME NEW t \in Task, Beat(t) \/ ReceivePulse(t) PROVE PhaseInv'
    BY <1>5 DEF Beat, ReceivePulse
  <1>6. ASSUME NEW c \in Client, Receive(c) PROVE PhaseInv'
    BY <1>6 DEF Receive, Reply
  <1>7. ASSUME Tick \/ SupervisorDies \/ SupervisorStarts \/ UNCHANGED svars PROVE PhaseInv'
    BY <1>7 DEF Tick, SupervisorDies, SupervisorStarts, svars, channel
  <1> QED BY <1>1, <1>2, <1>3, <1>4, <1>5, <1>6, <1>7, Zenon DEF SNext, Loop

\* Calls wait only on connections, and connections are of running clients with
\* a running supervisor, through all deaths and starts (ClientDies, Open).
THEOREM PhaseCorrect == SSpec => []PhaseInv
  BY PhaseStart, PhaseStep, PTL DEF SSpec

-----------------------------------------------------------------------------
\* No injector for u runs; a plausible reading of u arrives.
Stopped(u) == \A i \in Injector : i.sensor = u => phase[i] = "Down"
TakesPlausible(u) == Receive(u) /\ \E kind \in {"Obstacle", "Clear"} : Judge(u, kind)

\* A plausible reading clears the fault (onUltrasonicReading()).
LEMMA PlausibleEnds ==
  ASSUME NEW u \in Sensor, TakesPlausible(u)
  PROVE  (u \notin faults)'
  BY DEF TakesPlausible, Judge, FaultsAfter

\* With its injectors stopped, nothing faults u again: its own driver never sends
\* an impossible reading, and a call of a dead injector is withdrawn.
LEMMA StaysEnded ==
  ASSUME NEW u \in Sensor, PhaseInv, Stopped(u), u \notin faults, [SNext]_svars
  PROVE  (u \notin faults)'
  <1>1. ASSUME NEW c \in Client, Receive(c) PROVE u \notin faults'
    <2>1. CASE c \in Sensor
      <3>1. PICK kind \in Kind \ {"Impossible"} : Judge(c, kind)
        <4>1. c \notin Injector
          BY <2>1, ClientAssumption, VerdictAssumption
        <4> QED BY <1>1, <2>1, <4>1 DEF Receive, Handle
      <3> QED BY <3>1 DEF Judge, FaultsAfter, Kind
    <2>2. CASE c \in Injector /\ c \notin Sensor
      <3>1. c.sensor # u
        BY <1>1, <2>2 DEF Receive, Stopped, PhaseInv
      <3>2. c.kind \in Kind
        BY <2>2, InjectorAssumption
      <3> QED BY <1>1, <2>2, <3>1, <3>2 DEF Receive, Handle, Judge, FaultsAfter, Kind
    <2>3. CASE c \notin Sensor \cup Injector
      BY <1>1, <2>3 DEF Receive, Handle, judgement
    <2> QED BY <2>1, <2>2, <2>3
  <1>2. ASSUME NEW t \in Task, ReceivePulse(t) PROVE u \notin faults'
    BY <1>2 DEF ReceivePulse, Hear
  <1>3. CASE Tick
    BY <1>3 DEF Tick, Review
  <1>4. CASE SupervisorStarts
    BY <1>4 DEF SupervisorStarts
  <1>5. ASSUME NEW c \in Client, StartClient(c) \/ Loop(c) \/ ClientDies(c) PROVE u \notin faults'
    BY <1>5 DEF StartClient, Loop, Open, Send, Close, ClientDies, judgement
  <1>6. ASSUME NEW t \in Task, Beat(t) PROVE u \notin faults'
    BY <1>6 DEF Beat, judgement
  <1>7. CASE SupervisorDies \/ UNCHANGED svars
    BY <1>7 DEF SupervisorDies, svars, judgement
  <1> QED BY <1>1, <1>2, <1>3, <1>4, <1>5, <1>6, <1>7 DEF SNext

\* Once the injector is stopped, a plausible reading of the real sensor ends the
\* fault for good (fault_injector.cpp), for any clients and whatever dies and is
\* started again.  No fairness is needed: that readings arrive is a premise.
THEOREM FaultsEnd == SSpec => FaultEnds
  <1>1. ASSUME NEW u \in Sensor
        PROVE  SSpec => (/\ <>[](\A i \in Injector : i.sensor = u => phase[i] = "Down")
                         /\ []<><<Receive(u) /\ \E kind \in {"Obstacle", "Clear"} : Judge(u, kind)>>_svars
                         => <>[](u \notin faults))
    <2> DEFINE stopped == Stopped(u)
               plausible == TakesPlausible(u)
               trusted == u \notin faults
    <2>1. PhaseInv /\ stopped /\ trusted /\ [SNext]_svars => trusted'
      BY StaysEnded
    <2>2. <<plausible>>_svars => trusted'
      BY PlausibleEnds
    <2> HIDE DEF stopped, plausible, trusted
    <2>3. SSpec /\ <>[]stopped /\ []<><<plausible>>_svars => <>[]trusted
      BY <2>1, <2>2, PhaseCorrect, PTL DEF SSpec
    <2> QED BY <2>3 DEF stopped, plausible, trusted, Stopped, TakesPlausible
  <1> QED BY <1>1 DEF FaultEnds
-----------------------------------------------------------------------------
(***************************************************************************)
(* The fairness of FairSSpec, with the condition under which each action   *)
(* can change the state written out, since the prover knows nothing of     *)
(* ENABLED: if from some time on a thread can always go on, it does so     *)
(* again and again.  For a task it is said twice, as a client and as a     *)
(* task, because the provers instantiate a temporal formula only over the  *)
(* set it is quantified over.                                              *)
(***************************************************************************)
CanLoop(c) ==
  \/ phase[c] = "Connecting" /\ up
  \/ c \in connected \ blocked
  \/ c \in Query /\ phase[c] = "Running" /\ c \notin connected

LoopRuns(c) == []<>~CanLoop(c) \/ []<><<Loop(c)>>_svars
IsServed(c) == []<>~(up /\ c \in blocked) \/ []<><<Receive(c)>>_svars
BeatsOn(t)  == []<>~(t \in connected \ pulses) \/ []<><<Beat(t)>>_svars
IsHeard(t)  == []<>~(up /\ t \in pulses) \/ []<><<ReceivePulse(t)>>_svars

ThreadsRun ==
  /\ \A c \in Client : LoopRuns(c) /\ IsServed(c)
  /\ \A t \in Task : LoopRuns(t) /\ IsServed(t) /\ BeatsOn(t) /\ IsHeard(t)

\* A call waits until it is received or its connection ends.
LEMMA CallWaits ==
  ASSUME NEW t \in Task, PhaseInv, t \in blocked, [SNext]_svars, (t \in connected)'
  PROVE  (t \in blocked)' \/ <<Receive(t)>>_svars
  <1>1. ASSUME NEW c \in Client, Receive(c), c # t PROVE t \in blocked'
    BY <1>1 DEF Receive, Reply
  <1>2. Receive(t) => <<Receive(t)>>_svars
    BY DEF Receive, Reply, svars, channel
  <1>3. ASSUME NEW c \in Client, StartClient(c) \/ Loop(c) \/ ClientDies(c) PROVE t \in blocked'
    BY <1>3 DEF StartClient, Loop, Open, Send, Close, ClientDies, channel
  <1>4. ASSUME NEW u \in Task, Beat(u) \/ ReceivePulse(u) PROVE t \in blocked'
    BY <1>4 DEF Beat, ReceivePulse
  <1>5. CASE Tick \/ UNCHANGED svars
    BY <1>5 DEF Tick, svars, channel
  <1>6. CASE SupervisorDies \/ SupervisorStarts
    BY <1>6 DEF SupervisorDies, SupervisorStarts
  <1> QED BY <1>1, <1>2, <1>3, <1>4, <1>5, <1>6 DEF SNext

\* So does a heartbeat in the queue.
LEMMA PulseWaits ==
  ASSUME NEW t \in Task, PhaseInv, t \in pulses, [SNext]_svars, (t \in connected)'
  PROVE  (t \in pulses)' \/ <<ReceivePulse(t)>>_svars
  <1>1. ASSUME NEW u \in Task, Beat(u) \/ ReceivePulse(u), u # t PROVE t \in pulses'
    BY <1>1 DEF Beat, ReceivePulse
  <1>2. ReceivePulse(t) => <<ReceivePulse(t)>>_svars
    BY DEF ReceivePulse, svars, channel
  <1>3. ASSUME NEW c \in Client, StartClient(c) \/ Loop(c) \/ ClientDies(c) \/ Receive(c) PROVE t \in pulses'
    BY <1>3 DEF StartClient, Loop, Open, Send, Close, ClientDies, Receive, channel
  <1>4. Beat(t) => t \in pulses'
    BY DEF Beat
  <1>5. CASE Tick \/ UNCHANGED svars
    BY <1>5 DEF Tick, svars, channel
  <1>6. CASE SupervisorDies \/ SupervisorStarts
    BY <1>6 DEF SupervisorDies, SupervisorStarts
  <1> QED BY <1>1, <1>2, <1>3, <1>4, <1>5, <1>6 DEF SNext

\* No call waits for good: it is answered, or its connection ends with one of
\* its ends.
THEOREM EveryCallReturns == SSpec /\ ThreadsRun => \A c \in Client : []<>(c \notin blocked)
  <1>1. ASSUME NEW c \in Client
        PROVE  SSpec /\ ThreadsRun => []<>(c \notin blocked)
    <2> DEFINE waits == c \in blocked
               served == Receive(c)
    <2>1. PhaseInv /\ waits => up /\ c \in blocked
      BY DEF PhaseInv
    <2>2. <<served>>_svars => ~waits'
      BY DEF Receive, Reply
    <2>3. ThreadsRun => []<>~(up /\ c \in blocked) \/ []<><<served>>_svars
      BY DEF ThreadsRun, IsServed
    <2>4. ~waits <=> c \notin blocked
      OBVIOUS
    <2> HIDE DEF waits, served
    <2> QED BY <2>1, <2>2, <2>3, <2>4, PhaseCorrect, PTL
  <1> QED BY <1>1

\* A task that stays connected is heard over and over, by both its threads: the
\* blocked call of one does not keep the other's pulses out.
THEOREM TasksAreHeard ==
  SSpec /\ ThreadsRun =>
    \A t \in Task : <>[](t \in connected) => /\ []<><<Receive(t)>>_svars
                                             /\ []<><<ReceivePulse(t)>>_svars
  <1>1. ASSUME NEW t \in Task
        PROVE  SSpec /\ ThreadsRun =>
                 (<>[](t \in connected) => /\ []<><<Receive(t)>>_svars
                                           /\ []<><<ReceivePulse(t)>>_svars)
    <2>1. t \in Client
      BY DEF Client
    <2> DEFINE linked == t \in connected
               waits == t \in blocked
               beats == t \in pulses
               loops == CanLoop(t)
               running == up
               LoopStep == Loop(t)
               BeatStep == Beat(t)
               Served == Receive(t)
               Heard == ReceivePulse(t)
    <2>2. PhaseInv /\ linked => running
      BY DEF PhaseInv
    <2>3. linked /\ ~waits => loops
      BY DEF CanLoop
    <2>4. PhaseInv /\ linked /\ <<LoopStep>>_svars => waits'
      BY <2>1 DEF PhaseInv, Loop, Open, Send, Close
    <2>5. PhaseInv /\ waits /\ [SNext]_svars /\ linked' => waits' \/ <<Served>>_svars
      BY CallWaits
    <2>6. <<BeatStep>>_svars => beats'
      BY DEF Beat
    <2>7. PhaseInv /\ beats /\ [SNext]_svars /\ linked' => beats' \/ <<Heard>>_svars
      BY PulseWaits
    <2>8. ThreadsRun => /\ []<>~loops \/ []<><<LoopStep>>_svars
                        /\ []<>~(running /\ waits) \/ []<><<Served>>_svars
                        /\ []<>~(linked /\ ~beats) \/ []<><<BeatStep>>_svars
                        /\ []<>~(running /\ beats) \/ []<><<Heard>>_svars
      <3>1. (t \in connected \ pulses) <=> (t \in connected /\ ~(t \in pulses))
        OBVIOUS
      <3>2. ThreadsRun => []<>~loops \/ []<><<LoopStep>>_svars
        BY DEF ThreadsRun, LoopRuns, IsServed, BeatsOn, IsHeard
      <3>3. ThreadsRun => []<>~(running /\ waits) \/ []<><<Served>>_svars
        BY DEF ThreadsRun, LoopRuns, IsServed, BeatsOn, IsHeard
      <3>4. ThreadsRun => []<>~(t \in connected \ pulses) \/ []<><<BeatStep>>_svars
        BY DEF ThreadsRun, LoopRuns, IsServed, BeatsOn, IsHeard
      <3>5. ThreadsRun => []<>~(running /\ beats) \/ []<><<Heard>>_svars
        BY DEF ThreadsRun, LoopRuns, IsServed, BeatsOn, IsHeard
      <3> QED BY <3>1, <3>2, <3>3, <3>4, <3>5, PTL
    <2> HIDE DEF linked, waits, beats, loops, running, LoopStep, BeatStep, Served, Heard
    <2>9. SSpec /\ ThreadsRun => (<>[]linked => []<><<Served>>_svars)
      BY <2>2, <2>3, <2>4, <2>5, <2>8, PhaseCorrect, PTL DEF SSpec
    <2>10. SSpec /\ ThreadsRun => (<>[]linked => []<><<Heard>>_svars)
      BY <2>2, <2>6, <2>7, <2>8, PhaseCorrect, PTL DEF SSpec
    <2> QED BY <2>9, <2>10 DEF linked, Served, Heard
  <1> QED BY <1>1

\* Both together: the liveness of the system, for any number of clients.
THEOREM AllAreServed == SSpec /\ ThreadsRun => ClientsAreServed
  BY EveryCallReturns, TasksAreHeard DEF ClientsAreServed

-----------------------------------------------------------------------------
\* The supervisor is started anew, with nothing remembered.
Restart == Init'

\* Each action is a step of Verdict (Judge, Hear, Review), a restart, or leaves
\* the judgement alone.
LEMMA StepIsVerdict ==
  ASSUME [SNext]_svars
  PROVE  [Next \/ Restart]_judgement
  <1>1. ASSUME NEW c \in Client, Receive(c) PROVE Next \/ UNCHANGED judgement
    <2>1. CASE c \in Sensor
      <3>1. c \notin Injector
        BY <2>1, ClientAssumption, VerdictAssumption
      <3>2. PICK kind \in Kind : Judge(c, kind)
        BY <1>1, <2>1, <3>1 DEF Receive, Handle
      <3> QED BY <2>1, <3>2 DEF Next
    <2>2. CASE c \in Injector /\ c \notin Sensor
      <3>1. c.sensor \in Sensor /\ c.kind \in Kind
        BY <2>2, InjectorAssumption
      <3>2. Judge(c.sensor, c.kind)
        BY <1>1, <2>2 DEF Receive, Handle
      <3> QED BY <3>1, <3>2 DEF Next
    <2>3. CASE c \notin Sensor \cup Injector
      BY <1>1, <2>3 DEF Receive, Handle
    <2> QED BY <2>1, <2>2, <2>3
  <1>2. ASSUME NEW t \in Task, ReceivePulse(t) PROVE Next
    BY <1>2 DEF ReceivePulse, Next
  <1>3. Tick => Next
    BY DEF Tick, Next
  <1>4. SupervisorStarts => Restart
    BY DEF SupervisorStarts, Restart, Init
  <1>5. ASSUME NEW c \in Client, StartClient(c) \/ Loop(c) \/ ClientDies(c) PROVE UNCHANGED judgement
    BY <1>5 DEF StartClient, Loop, Open, Send, Close, ClientDies
  <1>6. ASSUME NEW t \in Task, Beat(t) PROVE UNCHANGED judgement
    BY <1>6 DEF Beat
  <1>7. SupervisorDies \/ UNCHANGED svars => UNCHANGED judgement
    BY DEF SupervisorDies, svars
  <1> QED BY <1>1, <1>2, <1>3, <1>4, <1>5, <1>6, <1>7, Zenon DEF SNext

\* Verdict with restarts.
Lives == Init /\ [][Next \/ Restart]_judgement

\* The system implements the verdict with restarts: no death of a client and no
\* message judges anything but as Verdict says.
THEOREM EveryLifeIsAVerdict == SSpec => Lives
  <1>1. SInit => Init
    BY DEF SInit
  <1>2. [SNext]_svars => [Next \/ Restart]_judgement
    BY StepIsVerdict
  <1> QED BY <1>1, <1>2, PTL DEF SSpec, Lives

\* NORMAL is earned: it is entered only with no fault standing, and with every
\* task beating that has met this very supervisor.
NormalEarned ==
  [][verdict' = "Normal" /\ verdict # "Normal" =>
       faults = {} /\ beating' = Task /\ Task \subseteq met']_svars

\* recomputeSystemState(), with deaths and restarts on either side of it.
THEOREM NormalIsEarned == SSpec => NormalEarned
  <1>1. ASSUME [Next \/ Restart]_judgement, verdict' = "Normal", verdict # "Normal"
        PROVE  faults = {} /\ beating' = Task
    <2>1. Review
      BY <1>1 DEF Next, Hear, Judge, Restart, Init, judgement
    <2> QED BY <1>1, <2>1 DEF Review, VerdictOn
  <1>2. [SNext]_svars /\ SystemInv' =>
          [verdict' = "Normal" /\ verdict # "Normal" =>
             faults = {} /\ beating' = Task /\ Task \subseteq met']_svars
    BY <1>1, StepIsVerdict DEF SystemInv
  <1>3. SSpec => []SystemInv
    BY SystemCorrect, PTL
  <1> QED BY <1>2, <1>3, PTL DEF SSpec, NormalEarned

-----------------------------------------------------------------------------
\* Faults are of sensors that an injector was run for.
FaultsInjected == faults \subseteq {i.sensor : i \in Injector}

\* Without an injector no fault is ever seen: the drivers never send what
\* implausible() refuses (proved of the driver as NeverAnomalous).
THEOREM NoFaultOfItsOwn == SSpec => []FaultsInjected
  <1>1. SInit => FaultsInjected
    BY DEF SInit, Init, FaultsInjected
  <1>2. FaultsInjected /\ [SNext]_svars => FaultsInjected'
    <2> SUFFICES ASSUME FaultsInjected, [SNext]_svars PROVE FaultsInjected'
      OBVIOUS
    <2> USE DEF FaultsInjected
    <2>1. ASSUME NEW c \in Client, Receive(c) PROVE FaultsInjected'
      <3>1. CASE c \in Sensor
        <4>1. c \notin Injector
          BY <3>1, ClientAssumption, VerdictAssumption
        <4>2. PICK kind \in Kind \ {"Impossible"} : Judge(c, kind)
          BY <2>1, <3>1, <4>1 DEF Receive, Handle
        <4> QED BY <4>2 DEF Judge, FaultsAfter, Kind
      <3>2. CASE c \in Injector /\ c \notin Sensor
        <4>1. c.kind \in Kind /\ Judge(c.sensor, c.kind)
          BY <2>1, <3>2, InjectorAssumption DEF Receive, Handle
        <4> QED BY <3>2, <4>1 DEF Judge, FaultsAfter, Kind
      <3>3. CASE c \notin Sensor \cup Injector
        BY <2>1, <3>3 DEF Receive, Handle, judgement
      <3> QED BY <3>1, <3>2, <3>3
    <2>2. ASSUME NEW t \in Task, ReceivePulse(t) PROVE FaultsInjected'
      BY <2>2 DEF ReceivePulse, Hear
    <2>3. CASE Tick
      BY <2>3 DEF Tick, Review
    <2>4. CASE SupervisorStarts
      BY <2>4 DEF SupervisorStarts
    <2>5. ASSUME NEW c \in Client, StartClient(c) \/ Loop(c) \/ ClientDies(c) PROVE FaultsInjected'
      BY <2>5 DEF StartClient, Loop, Open, Send, Close, ClientDies, judgement
    <2>6. ASSUME NEW t \in Task, Beat(t) PROVE FaultsInjected'
      BY <2>6 DEF Beat, judgement
    <2>7. CASE SupervisorDies \/ UNCHANGED svars
      BY <2>7 DEF SupervisorDies, svars, judgement
    <2> QED BY <2>1, <2>2, <2>3, <2>4, <2>5, <2>6, <2>7 DEF SNext
  <1> QED BY <1>1, <1>2, PTL DEF SSpec

-----------------------------------------------------------------------------
\* t has left nothing behind that could be taken for a sign of life.
Gone(t) == t \notin connected \cup pulses \cup beating /\ verdict \notin {"Normal", "Degraded"}

\* A task that is gone holds the vehicle until it opens a connection itself.
GoneHolds == [][\A t \in Task : Gone(t) => Gone(t)' \/ Open(t)]_svars

\* No message of the others, no restart of the supervisor and no review can make
\* up for a task that is gone (recomputeSystemState()).
THEOREM GoneHoldsStop == SSpec => GoneHolds
  <1>1. ASSUME SystemInv, PhaseInv, NEW t \in Task, Gone(t), SNext
        PROVE  Gone(t)' \/ Open(t)
    <2> USE DEF Gone
    <2>1. ASSUME NEW c \in Client, Open(c), c # t PROVE Gone(t)'
      BY <1>1, <2>1 DEF Open, judgement
    <2>2. ASSUME NEW c \in Client, StartClient(c) \/ Send(c) \/ Close(c) \/ ClientDies(c) PROVE Gone(t)'
      BY <1>1, <2>2 DEF StartClient, Send, Close, ClientDies, judgement, channel
    <2>3. ASSUME NEW c \in Client, Receive(c) PROVE Gone(t)'
      <3>1. beating' = beating /\ verdict' = verdict
        BY <2>3, ReadingsKeepVerdict DEF Receive
      <3> QED BY <1>1, <2>3, <3>1 DEF Receive, Reply
    <2>4. ASSUME NEW u \in Task, Beat(u) \/ ReceivePulse(u) PROVE Gone(t)'
      BY <1>1, <2>4 DEF Beat, ReceivePulse, Hear, judgement
    <2>5. CASE Tick
      <3>1. PICK lost \in SUBSET beating, inTime \in BOOLEAN :
              beating' = beating \ lost /\ verdict' = VerdictOn(beating', inTime)
        BY <2>5 DEF Tick, Review
      <3>2. beating' # Task
        BY <1>1, <3>1
      <3>3. verdict' = "SafeStop"
        BY <3>1, <3>2 DEF VerdictOn
      <3> QED BY <1>1, <2>5, <3>1, <3>3 DEF Tick, channel
    <2>6. CASE SupervisorDies \/ SupervisorStarts
      BY <1>1, <2>6 DEF SupervisorDies, SupervisorStarts, judgement
    <2> QED BY <1>1, <2>1, <2>2, <2>3, <2>4, <2>5, <2>6 DEF SNext, Loop
  <1>2. SystemInv /\ PhaseInv /\ [SNext]_svars => [\A t \in Task : Gone(t) => Gone(t)' \/ Open(t)]_svars
    BY <1>1
  <1>3. SSpec => []SystemInv
    BY SystemCorrect, PTL
  <1> QED BY <1>2, <1>3, PhaseCorrect, PTL DEF SSpec, GoneHolds
=============================================================================
