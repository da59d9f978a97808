--------------------------- MODULE EventRingLemmas ---------------------------
(***************************************************************************)
(* What the operators of EventRing preserve, for whoever uses a ring.      *)
(***************************************************************************)
EXTENDS EventRing, SequenceTheorems, TLAPS

\* The initial, zeroed log is a well-formed ring with no event in it.
LEMMA EmptyLogInRing == EmptyLog \in Ring
  BY LogAssumption
     DEF EmptyLog, Ring, Slot, Event, SafetyEvent, SafetyEventType, Source, Ultrasonic,
         ULTRASONIC_ID_1, ULTRASONIC_ID_2, SOURCE_IMU, SOURCE_SYSTEM

\* logEvent() maps a well-formed ring to a well-formed ring.
LEMMA LogEventInRing ==
  ASSUME NEW l \in Ring, NEW e \in SafetyEvent
  PROVE  LogEvent(l, e) \in Ring
  BY LogAssumption DEF LogEvent, Ring, Slot

\* A conditional entry preserves the ring as well: every handler logs this way.
LEMMA LogIfInRing ==
  ASSUME NEW l \in Ring, NEW e \in SafetyEvent, NEW c \in BOOLEAN
  PROVE  LogIf(l, c, e) \in Ring
  BY LogEventInRing DEF LogIf

-----------------------------------------------------------------------------
\* A ring as logEvent() leaves it: it fills up before it wraps.
Filled(l) == l \in Ring /\ (l.count < MAX_EVENT_LOG => l.head = l.count)

\* The last MAX_EVENT_LOG elements of seq with e behind it.
Kept(seq, e) == Append(IF Len(seq) = MAX_EVENT_LOG THEN Tail(seq) ELSE seq, e)

\* The initial log is empty, so it has not wrapped.
LEMMA EmptyLogFilled == Filled(EmptyLog)
  BY EmptyLogInRing DEF Filled, EmptyLog

\* logEvent() never wraps a ring that still has room.
LEMMA LogEventFilled ==
  ASSUME NEW l, Filled(l), NEW e \in SafetyEvent
  PROVE  Filled(LogEvent(l, e))
  <1>1. LogEvent(l, e) \in Ring
    BY LogEventInRing DEF Filled
  <1>2. LogEvent(l, e).count < MAX_EVENT_LOG => LogEvent(l, e).head = LogEvent(l, e).count
    BY LogAssumption DEF LogEvent, Ring, Slot, Filled
  <1> QED BY <1>1, <1>2 DEF Filled

\* What a reader gets from a well-formed ring is a sequence of events.
LEMMA ReplyEventsIsSeq ==
  ASSUME NEW l \in Ring
  PROVE  /\ ReplyEvents(l) \in Seq(SafetyEvent)
         /\ Len(ReplyEvents(l)) = l.count
  <1> DEFINE start == IF l.count < MAX_EVENT_LOG THEN 0 ELSE l.head
             index(i) == (start + i - 1) % MAX_EVENT_LOG
  <1>1. \A i \in 1 .. l.count : index(i) \in Slot
    BY LogAssumption DEF Ring, Slot
  <1>2. \A i \in 1 .. l.count : l.events[index(i)] \in SafetyEvent
    BY <1>1 DEF Ring
  <1>3. ReplyEvents(l) \in [1 .. l.count -> SafetyEvent]
    BY <1>2, Zenon DEF ReplyEvents
  <1>4. l.count \in Nat
    BY LogAssumption DEF Ring
  <1> HIDE DEF index, start
  <1> QED BY <1>3, <1>4

\* One call of logEvent() changes what a reader sees as the bounded log says:
\* the new event is the last one, and the oldest goes when there is no room.
LEMMA ReadersSeeKept ==
  ASSUME NEW l, Filled(l), NEW e \in SafetyEvent
  PROVE  ReplyEvents(LogEvent(l, e)) = Kept(ReplyEvents(l), e)
  <1> DEFINE after == LogEvent(l, e)
             seen  == ReplyEvents(l)
             kept  == Kept(seen, e)
  <1>0. l \in Ring /\ (l.count < MAX_EVENT_LOG => l.head = l.count)
    BY DEF Filled
  <1>1. after \in Ring
    BY <1>0, LogEventInRing
  <1>2. /\ seen \in Seq(SafetyEvent) /\ Len(seen) = l.count
        /\ ReplyEvents(after) \in Seq(SafetyEvent) /\ Len(ReplyEvents(after)) = after.count
    BY <1>0, <1>1, ReplyEventsIsSeq
  <1>3. /\ l.count \in 0 .. MAX_EVENT_LOG
        /\ l.head \in 0 .. MAX_EVENT_LOG - 1
        /\ l.events \in [Slot -> SafetyEvent]
        /\ MAX_EVENT_LOG \in Nat \ {0}
    BY <1>0, LogAssumption DEF Ring, Slot
  <1>h. PICK h \in 0 .. MAX_EVENT_LOG - 1 : h = l.head
    BY <1>3
  <1>4. CASE l.count < MAX_EVENT_LOG   \* room left: nothing is dropped
    <2>1. kept = Append(seen, e)
      BY <1>2, <1>3, <1>4 DEF Kept
    <2>2. kept \in Seq(SafetyEvent) /\ Len(kept) = l.count + 1
      BY <1>2, <2>1
    <2>3. after.count = l.count + 1
      BY <1>3, <1>4 DEF LogEvent
    <2>4. ASSUME NEW i \in 1 .. l.count + 1
          PROVE  ReplyEvents(after)[i] = kept[i]
      <3>1. ReplyEvents(after)[i] = after.events[i - 1]
        <4>1. after.count = MAX_EVENT_LOG => after.head = 0
          BY <1>0, <1>3, <1>4, <2>3 DEF LogEvent
        <4>2. ReplyEvents(after)[i] = after.events[(0 + i - 1) % MAX_EVENT_LOG]
          <5> DEFINE start == IF after.count < MAX_EVENT_LOG THEN 0 ELSE after.head
          <5>1. start = 0
            BY <1>3, <1>4, <2>3, <4>1
          <5>2. ReplyEvents(after)[i] = after.events[(start + i - 1) % MAX_EVENT_LOG]
            BY <2>3, Zenon DEF ReplyEvents
          <5> HIDE DEF start
          <5> QED BY <5>1, <5>2
        <4>3. (0 + i - 1) % MAX_EVENT_LOG = i - 1
          BY <1>3, <1>4
        <4> QED BY <4>2, <4>3
      <3>2. CASE i <= l.count
        <4>1. kept[i] = seen[i]
          BY <1>2, <1>3, <2>1, <3>2
        <4>2. seen[i] = l.events[i - 1]
          <5>1. i - 1 \in 0 .. 2 * MAX_EVENT_LOG - 1 /\ i - 1 < MAX_EVENT_LOG /\ 0 + i - 1 = i - 1
            BY <1>3, <1>4, <3>2
          <5>2. (0 + i - 1) % MAX_EVENT_LOG = i - 1
            BY <1>3, <5>1
          <5> QED BY <1>3, <1>4, <3>2, <5>2 DEF ReplyEvents
        <4>3. after.events[i - 1] = l.events[i - 1]
          BY <1>0, <1>3, <1>4, <3>2 DEF LogEvent, Slot
        <4> QED BY <3>1, <4>1, <4>2, <4>3
      <3>3. CASE i = l.count + 1
        <4>1. kept[i] = e
          BY <1>2, <1>3, <2>1, <3>3
        <4>2. after.events[i - 1] = e
          BY <1>0, <1>3, <1>4, <3>3 DEF LogEvent, Slot
        <4> QED BY <3>1, <4>1, <4>2
      <3> QED BY <1>3, <3>2, <3>3
    <2> HIDE DEF after, seen, kept
    <2>5. ReplyEvents(after) = kept
      BY <1>2, <2>2, <2>3, <2>4, SeqEqual
    <2> QED BY <2>5 DEF after, seen, kept
  <1>5. CASE l.count = MAX_EVENT_LOG   \* full: the oldest event goes
    <2>1. kept = Append(Tail(seen), e)
      BY <1>2, <1>5 DEF Kept
    <2>2. /\ Tail(seen) \in Seq(SafetyEvent) /\ Len(Tail(seen)) = MAX_EVENT_LOG - 1
          /\ \A i \in 1 .. MAX_EVENT_LOG - 1 : Tail(seen)[i] = seen[i + 1]
      BY <1>2, <1>3, <1>5
    <2>3. kept \in Seq(SafetyEvent) /\ Len(kept) = MAX_EVENT_LOG
      BY <1>3, <2>1, <2>2
    <2>4. after.count = MAX_EVENT_LOG /\ after.head = (l.head + 1) % MAX_EVENT_LOG
      BY <1>3, <1>5 DEF LogEvent
    <2>5. ASSUME NEW i \in 1 .. MAX_EVENT_LOG
          PROVE  ReplyEvents(after)[i] = kept[i]
      <3>1. ReplyEvents(after)[i] = after.events[(after.head + i - 1) % MAX_EVENT_LOG]
        BY <1>3, <2>4 DEF ReplyEvents
      <3>2. CASE i < MAX_EVENT_LOG
        <4>1. kept[i] = seen[i + 1]
          BY <1>3, <2>1, <2>2, <3>2
        <4>2. seen[i + 1] = l.events[(l.head + i) % MAX_EVENT_LOG]
          BY <1>3, <1>5, <3>2 DEF ReplyEvents
        <4>3. (after.head + i - 1) % MAX_EVENT_LOG = (l.head + i) % MAX_EVENT_LOG
          <5>1. i \in 1 .. MAX_EVENT_LOG - 1
            BY <1>3, <3>2
          <5>2. (((h + 1) % MAX_EVENT_LOG) + i - 1) % MAX_EVENT_LOG = (h + i) % MAX_EVENT_LOG
            BY LogAssumption, <5>1
          <5> QED BY <1>h, <2>4, <5>2, Zenon
        <4>4. (l.head + i) % MAX_EVENT_LOG \in Slot \ {l.head}
          <5>1. i \in 1 .. MAX_EVENT_LOG - 1
            BY <1>3, <3>2
          <5>2. (h + i) % MAX_EVENT_LOG \in (0 .. MAX_EVENT_LOG - 1) \ {h}
            BY LogAssumption, <5>1
          <5> QED BY <1>h, <5>2, Zenon DEF Slot
        <4>5. after.events[(l.head + i) % MAX_EVENT_LOG] = l.events[(l.head + i) % MAX_EVENT_LOG]
          BY <1>3, <4>4 DEF LogEvent
        <4> QED BY <3>1, <4>1, <4>2, <4>3, <4>5
      <3>3. CASE i = MAX_EVENT_LOG
        <4>1. kept[i] = e
          BY <1>3, <2>1, <2>2, <3>3
        <4>2. (after.head + i - 1) % MAX_EVENT_LOG = l.head
          <5>1. (((h + 1) % MAX_EVENT_LOG) + MAX_EVENT_LOG - 1) % MAX_EVENT_LOG = h
            BY LogAssumption
          <5> QED BY <1>h, <2>4, <3>3, <5>1, Zenon
        <4>3. after.events[l.head] = e
          BY <1>3 DEF LogEvent, Slot
        <4> QED BY <3>1, <4>1, <4>2, <4>3
      <3> QED BY <1>3, <3>2, <3>3
    <2> HIDE DEF after, seen, kept
    <2>6. ReplyEvents(after) = kept
      BY <1>2, <2>3, <2>4, <2>5, SeqEqual
    <2> QED BY <2>6 DEF after, seen, kept
  <1> QED BY <1>3, <1>4, <1>5

-----------------------------------------------------------------------------
(***************************************************************************)
(* What the latest entries of a log say about the present.                 *)
(***************************************************************************)
\* The latest entry of events on a matter (the set on) is one of those in yes
\* exactly when flag holds; nothing is said when no entry is left.
Tells(events, on, yes, flag) ==
  \A i \in DOMAIN events :
    (events[i] \in on /\ \A j \in DOMAIN events : j > i => events[j] \notin on)
      => (events[i] \in yes <=> flag)

\* Every entry of kind what stands right behind one of a kind in why, from the
\* same source (the first entry left has lost its predecessor).
Explained(events, what, why) ==
  \A i \in DOMAIN events :
    events[i].type = what /\ i > 1 => /\ events[i - 1].type \in why
                                      /\ events[i - 1].source = events[i].source

\* Keeping one more event shifts what stays by at most one place.
LEMMA KeptIsShifted ==
  ASSUME NEW q \in Seq(SafetyEvent), Len(q) <= MAX_EVENT_LOG, NEW e \in SafetyEvent
  PROVE  \E d \in {0, 1} :
           /\ Len(Kept(q, e)) = Len(q) + 1 - d
           /\ DOMAIN Kept(q, e) = 1 .. Len(q) + 1 - d
           /\ Len(q) >= d
           /\ Kept(q, e)[Len(q) + 1 - d] = e
           /\ \A i \in 1 .. Len(q) - d : Kept(q, e)[i] = q[i + d]
  <1>1. CASE Len(q) = MAX_EVENT_LOG
    <2>1. /\ Tail(q) \in Seq(SafetyEvent) /\ Len(Tail(q)) = Len(q) - 1
          /\ \A i \in 1 .. Len(q) - 1 : Tail(q)[i] = q[i + 1]
      BY <1>1, LogAssumption
    <2>2. Kept(q, e) = Append(Tail(q), e)
      BY <1>1 DEF Kept
    <2> QED BY <1>1, <2>1, <2>2, LogAssumption
  <1>2. CASE Len(q) # MAX_EVENT_LOG
    <2>1. Kept(q, e) = Append(q, e)
      BY <1>2 DEF Kept
    <2> QED BY <2>1
  <1> QED BY <1>1, <1>2

\* A log that tells a flag still does when the flag changes together with an
\* entry that says so, or neither happens.
LEMMA KeptTells ==
  ASSUME NEW q \in Seq(SafetyEvent), Len(q) <= MAX_EVENT_LOG, NEW e \in SafetyEvent,
         NEW on, NEW yes, NEW flag, NEW flag1,
         Tells(q, on, yes, flag),
         e \in on => (e \in yes <=> flag1),
         e \notin on => (flag1 <=> flag)
  PROVE  Tells(Kept(q, e), on, yes, flag1)
  <1> DEFINE r == Kept(q, e)
  <1>1. PICK d \in {0, 1} :
          /\ Len(r) = Len(q) + 1 - d
          /\ DOMAIN r = 1 .. Len(q) + 1 - d
          /\ Len(q) >= d
          /\ r[Len(q) + 1 - d] = e
          /\ \A i \in 1 .. Len(q) - d : r[i] = q[i + d]
    BY KeptIsShifted
  <1> HIDE DEF r
  <1>2. Len(q) \in Nat /\ DOMAIN q = 1 .. Len(q)
    OBVIOUS
  <1> SUFFICES ASSUME NEW i \in DOMAIN r, r[i] \in on,
                      \A j \in DOMAIN r : j > i => r[j] \notin on
               PROVE  r[i] \in yes <=> flag1
    BY DEF Tells, r
  <1>3. CASE i = Len(q) + 1 - d
    BY <1>1, <1>3
  <1>4. CASE i # Len(q) + 1 - d
    <2>0. i \in 1 .. Len(q) - d
      BY <1>1, <1>2, <1>4
    <2>1. i \in 1 .. Len(q) - d /\ i + d \in DOMAIN q /\ r[i] = q[i + d]
      BY <1>1, <1>2, <2>0
    <2>2. e \notin on
      BY <1>1, <1>2, <2>1
    <2>3. ASSUME NEW j \in DOMAIN q, j > i + d
          PROVE  q[j] \notin on
      <3>1. j - d \in 1 .. Len(q) - d /\ j - d > i /\ j - d \in DOMAIN r /\ (j - d) + d = j
        BY <1>1, <1>2, <2>1, <2>3
      <3>2. r[j - d] = q[j]
        BY <1>1, <3>1
      <3> QED BY <3>1, <3>2
    <2> QED BY <2>1, <2>2, <2>3 DEF Tells
  <1> QED BY <1>3, <1>4

\* The same for a condition on neighbours: only the new entry has to be
\* explained by the one before it.
LEMMA KeptExplained ==
  ASSUME NEW q \in Seq(SafetyEvent), Len(q) <= MAX_EVENT_LOG, NEW e \in SafetyEvent,
         NEW what, NEW why,
         Explained(q, what, why),
         e.type = what => \/ Len(q) = 0
                          \/ q[Len(q)].type \in why /\ q[Len(q)].source = e.source
  PROVE  Explained(Kept(q, e), what, why)
  <1> DEFINE r == Kept(q, e)
  <1>1. PICK d \in {0, 1} :
          /\ Len(r) = Len(q) + 1 - d
          /\ DOMAIN r = 1 .. Len(q) + 1 - d
          /\ Len(q) >= d
          /\ r[Len(q) + 1 - d] = e
          /\ \A i \in 1 .. Len(q) - d : r[i] = q[i + d]
    BY KeptIsShifted
  <1> HIDE DEF r
  <1>2. Len(q) \in Nat /\ DOMAIN q = 1 .. Len(q)
    OBVIOUS
  <1> SUFFICES ASSUME NEW i \in DOMAIN r, r[i].type = what, i > 1
               PROVE  r[i - 1].type \in why /\ r[i - 1].source = r[i].source
    BY DEF Explained, r
  <1>3. /\ i - 1 \in 1 .. Len(q) - d /\ r[i - 1] = q[(i - 1) + d]
        /\ (i - 1) + d \in DOMAIN q
    BY <1>1, <1>2
  <1>4. CASE i = Len(q) + 1 - d
    <2>1. r[i] = e /\ (i - 1) + d = Len(q) /\ Len(q) # 0
      BY <1>1, <1>2, <1>3, <1>4
    <2> QED BY <1>3, <2>1
  <1>5. CASE i # Len(q) + 1 - d
    <2>1. i \in 1 .. Len(q) - d /\ r[i] = q[i + d] /\ i + d \in DOMAIN q
          /\ i + d > 1 /\ (i + d) - 1 = (i - 1) + d
      BY <1>1, <1>2, <1>5
    <2> QED BY <1>3, <2>1 DEF Explained
  <1> QED BY <1>4, <1>5


\* The two lemmas for the ring itself: logEvent() under a condition, as every
\* handler calls it.
LEMMA LogIfTells ==
  ASSUME NEW l, Filled(l), NEW e \in SafetyEvent, NEW c \in BOOLEAN,
         NEW on, NEW yes, NEW flag \in BOOLEAN, NEW flag1 \in BOOLEAN,
         Tells(ReplyEvents(l), on, yes, flag),
         c /\ e \in on => (e \in yes <=> flag1),
         ~c \/ e \notin on => (flag1 <=> flag)
  PROVE  /\ Filled(LogIf(l, c, e))
         /\ Tells(ReplyEvents(LogIf(l, c, e)), on, yes, flag1)
  <1>1. ReplyEvents(l) \in Seq(SafetyEvent) /\ Len(ReplyEvents(l)) <= MAX_EVENT_LOG
    BY ReplyEventsIsSeq, LogAssumption DEF Filled, Ring
  <1>2. CASE c
    <2>1. ReplyEvents(LogEvent(l, e)) = Kept(ReplyEvents(l), e)
      BY ReadersSeeKept
    <2>2. Tells(Kept(ReplyEvents(l), e), on, yes, flag1)
      BY <1>1, <1>2, KeptTells
    <2> QED BY <1>2, <2>1, <2>2, LogEventFilled DEF LogIf
  <1>3. CASE ~c
    <2>1. flag1 = flag
      BY <1>3
    <2> QED BY <1>3, <2>1 DEF LogIf
  <1> QED BY <1>2, <1>3

\* A conditional entry that finds its explanation last in the log keeps every
\* such entry explained (the handlers' logEvent() behind an if).
LEMMA LogIfExplained ==
  ASSUME NEW l, Filled(l), NEW e \in SafetyEvent, NEW c \in BOOLEAN, NEW what, NEW why,
         Explained(ReplyEvents(l), what, why),
         c /\ e.type = what =>
           LET q == ReplyEvents(l)
           IN  Len(q) = 0 \/ (q[Len(q)].type \in why /\ q[Len(q)].source = e.source)
  PROVE  /\ Filled(LogIf(l, c, e))
         /\ Explained(ReplyEvents(LogIf(l, c, e)), what, why)
  <1>1. ReplyEvents(l) \in Seq(SafetyEvent) /\ Len(ReplyEvents(l)) <= MAX_EVENT_LOG
    BY ReplyEventsIsSeq, LogAssumption DEF Filled, Ring
  <1>2. CASE c
    <2>1. ReplyEvents(LogEvent(l, e)) = Kept(ReplyEvents(l), e)
      BY ReadersSeeKept
    <2>2. Explained(Kept(ReplyEvents(l), e), what, why)
      BY <1>1, <1>2, KeptExplained
    <2> QED BY <1>2, <2>1, <2>2, LogEventFilled DEF LogIf
  <1>3. CASE ~c
    BY <1>3 DEF LogIf
  <1> QED BY <1>2, <1>3

\* The entry just made is the last one a reader sees.
LEMMA LastLogged ==
  ASSUME NEW l, Filled(l), NEW e \in SafetyEvent
  PROVE  LET q == ReplyEvents(LogEvent(l, e)) IN q[Len(q)] = e
  <1>1. ReplyEvents(l) \in Seq(SafetyEvent) /\ Len(ReplyEvents(l)) <= MAX_EVENT_LOG
    BY ReplyEventsIsSeq, LogAssumption DEF Filled, Ring
  <1>2. ReplyEvents(LogEvent(l, e)) = Kept(ReplyEvents(l), e)
    BY ReadersSeeKept
  <1>3. PICK d \in {0, 1} : /\ Len(Kept(ReplyEvents(l), e)) = Len(ReplyEvents(l)) + 1 - d
                            /\ Kept(ReplyEvents(l), e)[Len(ReplyEvents(l)) + 1 - d] = e
    BY <1>1, KeptIsShifted
  <1> QED BY <1>2, <1>3

=============================================================================
