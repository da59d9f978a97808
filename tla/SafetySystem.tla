---------------------------- MODULE SafetySystem ----------------------------
(***************************************************************************)
(* The processes and the channel between them.  Every client finds the     *)
(* supervisor's channel with name_open() and sends to it: the sensor tasks *)
(* their readings and, from a thread of its own, heartbeats; the fault     *)
(* injector false readings; oled_task and cli_status requests.  MsgSend()  *)
(* blocks until the supervisor replies, a pulse never blocks.  Any process *)
(* may die and be started again.  The supervisor itself is Verdict.        *)
(*                                                                         *)
(* Of the kernel this takes: a name is found while its owner lives; the    *)
(* death of the owner ends the connections, fails the calls that wait and  *)
(* drops the queue; the death of a client withdraws its call and leaves    *)
(* its pulses queued.  A call on a connection that has ended fails at      *)
(* once, is reported and forgotten by every client: a stuttering step.     *)
(***************************************************************************)
EXTENDS Verdict

CONSTANTS Injector, Panel, Query   \* the other processes, by program

\* An injector is known by its arguments; it always claims Connected.
ASSUME InjectorAssumption == Injector \subseteq [sensor : Sensor, kind : Kind \ {"Lost"}]

Client == Task \cup Injector \cup Panel \cup Query

ASSUME ClientAssumption ==
  /\ Task \cap (Injector \cup Panel \cup Query) = {}
  /\ Injector \cap (Panel \cup Query) = {}
  /\ Panel \cap Query = {}

VARIABLES
  up,          \* the supervisor runs
  phase,       \* where each client is
  connected,   \* the clients whose connection leads to the running supervisor
  blocked,     \* the clients that wait in MsgSend()
  pulses,      \* the tasks with a heartbeat in the channel's queue
  met          \* the tasks that have opened a connection to this supervisor

channel == <<connected, blocked, pulses, met>>
svars == <<judgement, up, phase, channel>>

SInit ==
  /\ Init
  /\ up = FALSE
  /\ phase = [c \in Client |-> "Down"]
  /\ connected = {} /\ blocked = {} /\ pulses = {} /\ met = {}

-----------------------------------------------------------------------------
(***************************************************************************)
(* The clients.                                                            *)
(***************************************************************************)

\* A task is past its sensor check, an injector past its arguments.
StartClient(c) ==
  /\ phase[c] = "Down"
  /\ phase' = [phase EXCEPT ![c] = "Connecting"]
  /\ UNCHANGED <<judgement, up, channel>>

\* name_open() succeeds.  Until then all but a single cli_status retry.
Open(c) ==
  /\ phase[c] = "Connecting" /\ up
  /\ phase' = [phase EXCEPT ![c] = "Running"]
  /\ connected' = connected \cup {c}
  /\ met' = met \cup ({c} \cap Task)
  /\ UNCHANGED <<judgement, up, blocked, pulses>>

Send(c) ==
  /\ c \in connected \ blocked
  /\ blocked' = blocked \cup {c}
  /\ UNCHANGED <<judgement, up, phase, connected, pulses, met>>

\* Mutant: one thread for both, which does not beat while its call waits.
BeatBetweenCalls(t) ==
  /\ t \in connected \ blocked
  /\ pulses' = pulses \cup {t}
  /\ UNCHANGED <<judgement, up, phase, connected, blocked, met>>

\* heartbeatThread(): it beats whatever the sampling loop waits for.
Beat(t) ==
  /\ t \in connected
  /\ pulses' = pulses \cup {t}
  /\ UNCHANGED <<judgement, up, phase, connected, blocked, met>>

\* cli_status closes its connection after every call, failed or not.
Close(c) ==
  /\ c \in Query /\ phase[c] = "Running" /\ c \notin connected
  /\ phase' = [phase EXCEPT ![c] = "Connecting"]
  /\ UNCHANGED <<judgement, up, channel>>

Loop(c) == Open(c) \/ Send(c) \/ Close(c)

ClientDies(c) ==
  /\ phase[c] # "Down"
  /\ phase' = [phase EXCEPT ![c] = "Down"]
  /\ connected' = connected \ {c} /\ blocked' = blocked \ {c}
  /\ UNCHANGED <<judgement, up, pulses, met>>

-----------------------------------------------------------------------------
(***************************************************************************)
(* The supervisor's loop.                                                  *)
(***************************************************************************)

\* MsgReply(), and what a client does with its connection then.
Reply(c) ==
  /\ blocked' = blocked \ {c}
  /\ connected' = connected \ ({c} \cap Query)

\* A reading as a driver makes it, or as the injector does.
Handle(c) ==
  CASE c \in Sensor   -> \E kind \in Kind \ {"Impossible"} : Judge(c, kind)
    [] c \in Injector -> Judge(c.sensor, c.kind)
    [] OTHER          -> UNCHANGED judgement   \* onImuReading(), buildStatusReply()

Receive(c) ==
  /\ up /\ c \in blocked
  /\ Handle(c)
  /\ Reply(c)
  /\ UNCHANGED <<up, phase, pulses, met>>

ReceivePulse(t) ==
  /\ up /\ t \in pulses
  /\ Hear(t)
  /\ pulses' = pulses \ {t}
  /\ UNCHANGED <<up, phase, connected, blocked, met>>

Tick == up /\ Review /\ UNCHANGED <<up, phase, channel>>

SupervisorDies ==
  /\ up /\ up' = FALSE
  /\ connected' = {} /\ blocked' = {} /\ pulses' = {}
  /\ UNCHANGED <<judgement, phase, met>>

SupervisorStarts ==
  /\ ~up /\ up' = TRUE
  /\ beating' = {} /\ hazards' = {} /\ faults' = {} /\ override' = FALSE /\ verdict' = "Recovery"
  /\ met' = {}
  /\ UNCHANGED <<phase, connected, blocked, pulses>>

SNext ==
  \/ \E c \in Client : StartClient(c) \/ Loop(c) \/ Receive(c) \/ ClientDies(c)
  \/ \E t \in Task : Beat(t) \/ ReceivePulse(t)
  \/ Tick
  \/ SupervisorDies \/ SupervisorStarts

SSpec == SInit /\ [][SNext]_svars

\* The clients' loops go on, and the supervisor's, which is READY whenever its
\* channel holds a message or a pulse, gets to each of them.  Nothing is
\* assumed of deaths and starts, nor of what a reading says.
FairSSpec ==
  /\ SSpec
  /\ \A c \in Client : WF_svars(Loop(c)) /\ WF_svars(Receive(c))
  /\ \A t \in Task : WF_svars(Beat(t)) /\ WF_svars(ReceivePulse(t))

-----------------------------------------------------------------------------
\* The vehicle is not said to move before every task has found this very
\* supervisor: a task that was running when the supervisor was started again
\* still sends to the old one, is not heard, and so keeps it from moving.
AllMetBeforeMoving == verdict \in {"Normal", "Degraded"} => Task \subseteq met

\* What it rests on: calls, pulses and beats are those of connected tasks.
SystemInv ==
  /\ connected \cap Task \subseteq met
  /\ pulses \subseteq met
  /\ beating \subseteq met
  /\ ~up => connected = {} /\ pulses = {}

\* No call waits for good, whatever dies; and a task that stays connected is
\* heard over and over, by its readings and by its pulses: neither of its
\* threads ever waits for the other.
ClientsAreServed ==
  /\ \A c \in Client : []<>(c \notin blocked)
  /\ \A t \in Task : <>[](t \in connected) => /\ []<><<Receive(t)>>_svars
                                              /\ []<><<ReceivePulse(t)>>_svars

\* fault_injector.cpp: once it is stopped, a plausible reading of the real
\* sensor ends the fault for good, with nothing else to be done.
FaultEnds ==
  \A u \in Sensor :
    /\ <>[](\A i \in Injector : i.sensor = u => phase[i] = "Down")
    /\ []<><<Receive(u) /\ \E kind \in {"Obstacle", "Clear"} : Judge(u, kind)>>_svars
    => <>[](u \notin faults)
=============================================================================
