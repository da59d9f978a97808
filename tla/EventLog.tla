------------------------------ MODULE EventLog ------------------------------
(***************************************************************************)
(* The ring of EventRing driven by arbitrary calls of logEvent(), and the  *)
(* claim that its readers see a bounded log (BoundedLog): whatever the     *)
(* number of calls, buildStatusReply() copies out the most recent events   *)
(* in the order they happened, and never a slot that was not written.      *)
(***************************************************************************)
EXTENDS EventRing

CONSTANT Logged   \* the events this instance logs

ASSUME LoggedAssumption == Logged \subseteq SafetyEvent

VARIABLE log

Init == log = EmptyLog

Log(e) == log' = LogEvent(log, e)

Next == \E e \in Logged : Log(e)

Spec == Init /\ [][Next]_log

-----------------------------------------------------------------------------
\* Head and count stay inside the array for any number of calls, and while
\* the ring is not yet full the head is the number of events in it: the next
\* call overwrites a free slot and never an event that still has a place.
RingInv ==
  /\ log \in Ring
  /\ log.count < MAX_EVENT_LOG => log.head = log.count

\* logEvent() and the reader's index arithmetic in buildStatusReply()
\* together implement the bounded log, across every wrap of the ring.
Bounded == INSTANCE BoundedLog
             WITH Capacity <- MAX_EVENT_LOG, Entry <- Logged,
                  recent <- ReplyEvents(log)

ImplementsBoundedLog == Bounded!Spec
=============================================================================
