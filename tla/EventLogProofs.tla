--------------------------- MODULE EventLogProofs ---------------------------
(***************************************************************************)
(* The event log for every size of the ring and every set of events:       *)
(* logEvent() keeps the ring well formed, and ring and reader together     *)
(* implement the bounded log.                                              *)
(***************************************************************************)
EXTENDS EventLog, EventRingLemmas

-----------------------------------------------------------------------------
\* Head and count of the ring stay inside the array for any number of calls of
\* logEvent(), and the ring fills up before it wraps.
THEOREM RingCorrect == Spec => []RingInv
  <1>1. Init => RingInv
    BY EmptyLogInRing DEF Init, RingInv, EmptyLog
  <1>2. RingInv /\ [Next]_log => RingInv'
    <2> SUFFICES ASSUME RingInv, NEW e \in Logged, Log(e)
                 PROVE  RingInv'
      BY DEF Next, RingInv
    <2>1. log' \in Ring
      BY LogEventInRing, LoggedAssumption DEF RingInv, Log
    <2>2. log'.count < MAX_EVENT_LOG => log'.head = log'.count
      BY LogAssumption DEF RingInv, Log, LogEvent, Ring, Slot
    <2> QED BY <2>1, <2>2 DEF RingInv
  <1> QED BY <1>1, <1>2, PTL DEF Spec

-----------------------------------------------------------------------------
\* The event log implements the bounded log: after any number of calls, a
\* reader of buildStatusReply()'s copy sees the latest MAX_EVENT_LOG events in
\* the order of the calls.
THEOREM EventLogRefinesBoundedLog == Spec => ImplementsBoundedLog
  <1>1. Init => Bounded!Init
    BY LogAssumption DEF Init, Bounded!Init, EmptyLog, ReplyEvents
  <1>2. RingInv /\ [Next]_log => [Bounded!Next]_(ReplyEvents(log))
    <2> SUFFICES ASSUME RingInv, NEW e \in Logged, Log(e)
                 PROVE  Bounded!Next
      BY DEF Next
    <2>1. ReplyEvents(log)' = Bounded!Keep(ReplyEvents(log), e)
      BY ReadersSeeKept, LoggedAssumption DEF RingInv, Log, Filled, Kept, Bounded!Keep
    <2> QED BY <2>1 DEF Bounded!Next, Bounded!Record
  <1> QED BY <1>1, <1>2, RingCorrect, PTL DEF Spec, ImplementsBoundedLog, Bounded!Spec
=============================================================================
