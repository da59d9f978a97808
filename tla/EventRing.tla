------------------------------ MODULE EventRing ------------------------------
(***************************************************************************)
(* The supervisor's event log as supervisor.cpp stores it: a fixed array   *)
(* g_events, the slot g_eventHead to overwrite next, and g_eventCount,     *)
(* which stops growing when the array is full.  The log is a value here    *)
(* (a record), so that a handler that logs several times is one step.      *)
(***************************************************************************)
EXTENDS SafetyProtocol, Sequences

CONSTANT MAX_EVENT_LOG   \* slots in the ring; 16 in the code

ASSUME LogAssumption == MAX_EVENT_LOG \in Nat \ {0}

Slot == 0 .. MAX_EVENT_LOG - 1

Event(t, s) == [type |-> t, source |-> s]

Ring == [events : [Slot -> SafetyEvent], head : Slot, count : 0 .. MAX_EVENT_LOG]

\* A zero-initialised global: enumerators of value 0 in every slot.
EmptyLog ==
  [events |-> [i \in Slot |-> Event("Obstacle", ULTRASONIC_ID_1)],
   head |-> 0, count |-> 0]

\* Mutants of the operators below: the head is not wrapped, and the reader
\* always starts at slot 0.
LogEventNoWrap(l, e) ==
  [events |-> [l.events EXCEPT ![l.head] = e],
   head   |-> l.head + 1,
   count  |-> IF l.count < MAX_EVENT_LOG THEN l.count + 1 ELSE l.count]

EventsFromSlotZero(l) == [i \in 1 .. l.count |-> l.events[i - 1]]

\* logEvent(): overwrite the slot at the head, advance, count up to the size.
LogEvent(l, e) ==
  [events |-> [l.events EXCEPT ![l.head] = e],
   head   |-> (l.head + 1) % MAX_EVENT_LOG,
   count  |-> IF l.count < MAX_EVENT_LOG THEN l.count + 1 ELSE l.count]

\* logEvent() under the caller's condition.
LogIf(l, condition, e) == IF condition THEN LogEvent(l, e) ELSE l

(***************************************************************************)
(* The events a CliStatusReply carries, oldest first: the reader starts at *)
(* slot 0 until the ring is full and at the head afterwards.               *)
(***************************************************************************)
ReplyEvents(l) ==
  LET start == IF l.count < MAX_EVENT_LOG THEN 0 ELSE l.head
  IN  [i \in 1 .. l.count |-> l.events[(start + i - 1) % MAX_EVENT_LOG]]
=============================================================================
