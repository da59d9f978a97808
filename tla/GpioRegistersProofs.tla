-------------------------- MODULE GpioRegistersProofs --------------------------
(***************************************************************************)
(* What the GPIO registers guarantee the two ultrasonic processes, in      *)
(* every order of their steps: their levels and the bus always, the modes  *)
(* of their pins after a constructor that did not overlap the other's.     *)
(***************************************************************************)
EXTENDS GpioRegisters, TLAPS

USE DEF ULTRASONIC_ID_1, ULTRASONIC_ID_2, Ultrasonic

\* The pins of the two tasks are distinct, and none is a pin of the bus.
LEMMA Pins ==
  \A t \in Ultrasonic :
    /\ TRIG_PIN[t] \in Pin \ BusPins /\ ECHO_PIN[t] \in Pin \ BusPins
    /\ TRIG_PIN[t] # ECHO_PIN[t]
    /\ \A u \in Ultrasonic \ {t} :
         {TRIG_PIN[t], ECHO_PIN[t]} \cap {TRIG_PIN[u], ECHO_PIN[u]} = {}
  BY DEF TRIG_PIN, ECHO_PIN, Pin, BusPins

\* A pin is in its own register, and registers hold pins.
LEMMA Registers == \A p \in Pin : p \in Register(p) /\ Register(p) \subseteq Pin
  BY DEF Register

\* Every step keeps the types.
LEMMA TypeStep == TypeOK /\ [Next]_vars => TypeOK'
  <1> SUFFICES ASSUME TypeOK, [Next]_vars PROVE TypeOK'
    OBVIOUS
  <1> USE DEF TypeOK, Step, Constructing
  <1>1. ASSUME NEW t \in Ultrasonic, Start(t) PROVE TypeOK'
    BY <1>1 DEF Start
  <1>2. ASSUME NEW t \in Ultrasonic, Construct(t) PROVE TypeOK'
    <2>1. CASE Step(t, "ReadTrig", "WriteTrig") /\ ReadMode(t, TRIG_PIN[t])
      BY <2>1, Pins, Registers DEF ReadMode
    <2>2. CASE Step(t, "WriteTrig", "ReadEcho") /\ WriteMode(t, TRIG_PIN[t], "Output")
      BY <2>2, Pins, Registers DEF WriteMode, Mode
    <2>3. CASE Step(t, "ReadEcho", "WriteEcho") /\ ReadMode(t, ECHO_PIN[t])
      BY <2>3, Pins, Registers DEF ReadMode
    <2>4. CASE Step(t, "WriteEcho", "Lower") /\ WriteMode(t, ECHO_PIN[t], "Input")
      BY <2>4, Pins, Registers DEF WriteMode, Mode
    <2>5. CASE Step(t, "Lower", "Ready") /\ Write(TRIG_PIN[t], FALSE)
      BY <2>5 DEF Write
    <2> QED BY <1>2, <2>1, <2>2, <2>3, <2>4, <2>5 DEF Construct
  <1>3. ASSUME NEW t \in Ultrasonic, Pulse(t) PROVE TypeOK'
    <2>1. CASE Step(t, "Ready", "High") /\ Write(TRIG_PIN[t], TRUE)
      BY <2>1 DEF Write
    <2>2. CASE Step(t, "High", "Ready") /\ Write(TRIG_PIN[t], FALSE)
      BY <2>2 DEF Write
    <2> QED BY <1>3, <2>1, <2>2 DEF Pulse
  <1>4. ASSUME NEW t \in Ultrasonic, Dies(t) PROVE TypeOK'
    BY <1>4 DEF Dies
  <1>5. CASE UNCHANGED vars
    BY <1>5 DEF vars
  <1> QED BY <1>1, <1>2, <1>3, <1>4, <1>5 DEF Next

\* Every reachable state is well typed.
THEOREM RegistersTyped == Spec => []TypeOK
  <1>1. Init => TypeOK
    BY DEF Init, TypeOK
  <1> QED BY <1>1, TypeStep, PTL DEF Spec

\* A trigger line carries what its own process wrote last: the set and clear
\* registers need no exclusion.
THEOREM LevelsAreOwn == Spec => []LevelIsOwn
  <1>1. Init => LevelIsOwn
    BY DEF Init, LevelIsOwn, Up
  <1>2. TypeOK /\ LevelIsOwn /\ [Next]_vars => LevelIsOwn'
    <2> SUFFICES ASSUME TypeOK, LevelIsOwn, [Next]_vars PROVE LevelIsOwn'
      OBVIOUS
    <2> USE DEF TypeOK, LevelIsOwn, Up, Step, Constructing
    <2>1. ASSUME NEW t \in Ultrasonic, Start(t) PROVE LevelIsOwn'
      BY <2>1 DEF Start
    <2>2. ASSUME NEW t \in Ultrasonic, Construct(t) PROVE LevelIsOwn'
      <3>1. CASE Step(t, "Lower", "Ready") /\ Write(TRIG_PIN[t], FALSE)
        BY <3>1, Pins DEF Write
      <3>2. CASE ~Step(t, "Lower", "Ready")
        <4>1. UNCHANGED latch /\ ~Up(t)' /\ \A u \in Ultrasonic \ {t} : pc'[u] = pc[u]
          BY <2>2, <3>2 DEF Construct, ReadMode, WriteMode
        <4> QED BY <4>1
      <3> QED BY <3>1, <3>2, <2>2 DEF Construct
    <2>3. ASSUME NEW t \in Ultrasonic, Pulse(t) PROVE LevelIsOwn'
      <3>1. \A u \in Ultrasonic \ {t} : pc'[u] = pc[u]
        BY <2>3 DEF Pulse
      <3>2. latch'[TRIG_PIN[t]] = (pc'[t] = "High")
        BY <2>3, Pins DEF Pulse, Write
      <3>3. \A p \in Pin \ {TRIG_PIN[t]} : latch'[p] = latch[p]
        BY <2>3 DEF Pulse, Write
      <3>4. \A u \in Ultrasonic \ {t} : TRIG_PIN[u] \in Pin \ {TRIG_PIN[t]}
        BY Pins
      <3> QED BY <3>1, <3>2, <3>3, <3>4
    <2>4. ASSUME NEW t \in Ultrasonic, Dies(t) PROVE LevelIsOwn'
      BY <2>4 DEF Dies
    <2>5. CASE UNCHANGED vars
      BY <2>5 DEF vars
    <2> QED BY <2>1, <2>2, <2>3, <2>4, <2>5 DEF Next
  <1> QED BY <1>1, <1>2, RegistersTyped, PTL DEF Spec

\* Every step keeps what the modes rest on.
LEMMA ModesStep == ASSUME ModesInv, [Next]_vars PROVE ModesInv'
  <1> USE DEF ModesInv, Step, Constructing
  <1>1. TypeOK'
    BY TypeStep
  <1>2. OverlapNoted'
    <2>1. ASSUME NEW t \in Ultrasonic, Start(t) PROVE OverlapNoted'
      BY <2>1 DEF Start, OverlapNoted, TypeOK
    <2>2. ASSUME NEW t \in Ultrasonic, Construct(t) \/ Pulse(t) \/ Dies(t) PROVE OverlapNoted'
      <3>1. UNCHANGED overlapped
        BY <2>2 DEF Construct, Pulse, Dies, ReadMode, WriteMode, Write
      <3>2. \A u \in Ultrasonic :
              /\ pc'[u] \in Constructing => pc[u] \in Constructing
              /\ pc[u] = "Down" => pc'[u] = "Down"
        BY <2>2 DEF Construct, Pulse, Dies, TypeOK
      <3> SUFFICES ASSUME NEW v \in Ultrasonic, NEW u \in Ultrasonic \ {v}, pc'[v] \in Constructing
                   PROVE  /\ pc'[u] \in Constructing => u \in overlapped'
                          /\ v \in overlapped' => pc'[u] = "Down" \/ u \in overlapped'
        BY DEF OverlapNoted
      <3>3. pc[v] \in Constructing
        BY <3>2
      <3>4. /\ pc[u] \in Constructing => u \in overlapped
            /\ v \in overlapped => pc[u] = "Down" \/ u \in overlapped
        BY <3>3 DEF OverlapNoted
      <3> QED BY <3>1, <3>2, <3>4
    <2>3. CASE UNCHANGED vars
      BY <2>3 DEF vars, OverlapNoted
    <2> QED BY <2>1, <2>2, <2>3 DEF Next
  <1>3. ASSUME NEW t \in Ultrasonic, Start(t) \/ Pulse(t) \/ Dies(t)
        PROVE CopyFresh' /\ HalfConfigured' /\ PinsStayConfigured'
    BY <1>3 DEF Start, Pulse, Dies, Write, CopyFresh, HalfConfigured, PinsStayConfigured, Up, TypeOK
  <1>4. ASSUME NEW t \in Ultrasonic, Construct(t)
        PROVE CopyFresh' /\ HalfConfigured' /\ PinsStayConfigured'
    <2>1. /\ UNCHANGED overlapped
          /\ \A u \in Ultrasonic \ {t} :
               /\ pc'[u] = pc[u]
               /\ u \notin overlapped => pc[u] \notin Constructing
               /\ t \in overlapped => pc[u] = "Down" \/ u \in overlapped
      BY <1>4 DEF Construct, ReadMode, WriteMode, Write, OverlapNoted, TypeOK
    <2>2. CASE Step(t, "ReadTrig", "WriteTrig") /\ ReadMode(t, TRIG_PIN[t])
      BY <2>1, <2>2, Pins, Registers
      DEF ReadMode, CopyFresh, HalfConfigured, PinsStayConfigured, Up, TypeOK
    <2>3. CASE Step(t, "ReadEcho", "WriteEcho") /\ ReadMode(t, ECHO_PIN[t])
      BY <2>1, <2>3, Pins, Registers
      DEF ReadMode, CopyFresh, HalfConfigured, PinsStayConfigured, Up, TypeOK
    <2>4. CASE Step(t, "WriteTrig", "ReadEcho") /\ WriteMode(t, TRIG_PIN[t], "Output")
      <3>1. pc'[t] = "ReadEcho" /\ UNCHANGED <<val, overlapped>>
        BY <2>1, <2>4 DEF WriteMode, TypeOK
      <3>2. CASE t \in overlapped
        <4>1. \A u \in Ultrasonic \ overlapped : pc'[u] = "Down"
          BY <2>1, <3>1, <3>2
        <4> QED BY <3>1, <4>1 DEF CopyFresh, HalfConfigured, PinsStayConfigured, Up
      <3>3. CASE t \notin overlapped
        <4>1. \A p \in Pin : gpfsel'[p] = IF p = TRIG_PIN[t] THEN "Output" ELSE gpfsel[p]
          BY <2>4, <3>3, Pins, Registers DEF WriteMode, CopyFresh, TypeOK
        <4>2. gpfsel'[TRIG_PIN[t]] = "Output"
          BY <4>1, Pins
        <4>3. \A p \in Pin \ {TRIG_PIN[t]} : gpfsel'[p] = gpfsel[p]
          BY <4>1
        <4>4. CopyFresh'
          BY <2>1, <3>1 DEF CopyFresh
        <4>5. HalfConfigured'
          BY <2>1, <2>4, <3>1, <3>3, <4>2, <4>3, Pins DEF HalfConfigured
        <4>6. ASSUME NEW u \in Ultrasonic, Up(u)', u \notin overlapped
              PROVE gpfsel'[TRIG_PIN[u]] = "Output" /\ gpfsel'[ECHO_PIN[u]] = "Input"
          <5>1. u # t /\ Up(u)
            BY <2>1, <3>1, <4>6 DEF Up
          <5>2. TRIG_PIN[u] \in Pin \ {TRIG_PIN[t]} /\ ECHO_PIN[u] \in Pin \ {TRIG_PIN[t]}
            BY <5>1, Pins
          <5> QED BY <4>3, <4>6, <5>1, <5>2 DEF PinsStayConfigured
        <4> QED BY <3>1, <4>4, <4>5, <4>6 DEF PinsStayConfigured
      <3> QED BY <3>2, <3>3
    <2>5. CASE Step(t, "WriteEcho", "Lower") /\ WriteMode(t, ECHO_PIN[t], "Input")
      <3>1. pc'[t] = "Lower" /\ UNCHANGED <<val, overlapped>>
        BY <2>1, <2>5 DEF WriteMode, TypeOK
      <3>2. CASE t \in overlapped
        <4>1. \A u \in Ultrasonic \ overlapped : pc'[u] = "Down"
          BY <2>1, <3>1, <3>2
        <4> QED BY <3>1, <4>1 DEF CopyFresh, HalfConfigured, PinsStayConfigured, Up
      <3>3. CASE t \notin overlapped
        <4>1. \A p \in Pin : gpfsel'[p] = IF p = ECHO_PIN[t] THEN "Input" ELSE gpfsel[p]
          BY <2>5, <3>3, Pins, Registers DEF WriteMode, CopyFresh, TypeOK
        <4>2. gpfsel'[ECHO_PIN[t]] = "Input"
          BY <4>1, Pins
        <4>3. \A p \in Pin \ {ECHO_PIN[t]} : gpfsel'[p] = gpfsel[p]
          BY <4>1
        <4>4. CopyFresh'
          BY <2>1, <3>1 DEF CopyFresh
        <4>5. HalfConfigured'
          BY <2>1, <2>5, <3>1, <3>3, <4>2, <4>3, Pins DEF HalfConfigured
        <4>6. ASSUME NEW u \in Ultrasonic, Up(u)', u \notin overlapped
              PROVE gpfsel'[TRIG_PIN[u]] = "Output" /\ gpfsel'[ECHO_PIN[u]] = "Input"
          <5>1. u # t /\ Up(u)
            BY <2>1, <3>1, <4>6 DEF Up
          <5>2. TRIG_PIN[u] \in Pin \ {ECHO_PIN[t]} /\ ECHO_PIN[u] \in Pin \ {ECHO_PIN[t]}
            BY <5>1, Pins
          <5> QED BY <4>3, <4>6, <5>1, <5>2 DEF PinsStayConfigured
        <4> QED BY <3>1, <4>4, <4>5, <4>6 DEF PinsStayConfigured
      <3> QED BY <3>2, <3>3
    <2>6. CASE Step(t, "Lower", "Ready") /\ Write(TRIG_PIN[t], FALSE)
      BY <2>1, <2>6 DEF Write, CopyFresh, HalfConfigured, PinsStayConfigured, Up, TypeOK
    <2> QED BY <1>4, <2>2, <2>3, <2>4, <2>5, <2>6 DEF Construct
  <1>5. CASE UNCHANGED vars
    BY <1>5 DEF vars, TypeOK, OverlapNoted, CopyFresh, HalfConfigured, PinsStayConfigured, Up
  <1> QED
    BY <1>1, <1>2, <1>3, <1>4, <1>5 DEF Next

\* A process that is up after a constructor of its own finds its pins as that
\* constructor left them.
THEOREM PinsConfigured == Spec => []PinsStayConfigured
  <1>1. Init => ModesInv
    BY DEF Init, ModesInv, TypeOK, OverlapNoted, CopyFresh, HalfConfigured, PinsStayConfigured, Up,
           Constructing
  <1>2. ModesInv /\ [Next]_vars => ModesInv'
    BY ModesStep
  <1>3. ModesInv => PinsStayConfigured
    BY DEF ModesInv
  <1> QED BY <1>1, <1>2, <1>3, PTL DEF Spec

\* No constructor takes a pin of the I2C bus away, however the two overlap.
THEOREM BusIsKept == Spec => []BusKept
  <1> DEFINE CopyKept ==
        \A t \in Ultrasonic :
          /\ pc[t] = "WriteTrig" => \A p \in Register(TRIG_PIN[t]) \cap BusPins : val[t][p] = "Alt"
          /\ pc[t] = "WriteEcho" => \A p \in Register(ECHO_PIN[t]) \cap BusPins : val[t][p] = "Alt"
  <1>1. Init => BusKept /\ CopyKept
    BY DEF Init, BusKept
  <1>2. TypeOK /\ BusKept /\ CopyKept /\ [Next]_vars => (BusKept /\ CopyKept)'
    <2> SUFFICES ASSUME TypeOK, BusKept, CopyKept, [Next]_vars PROVE BusKept' /\ CopyKept'
      OBVIOUS
    <2> USE DEF TypeOK, BusKept, Step, Constructing
    <2>1. ASSUME NEW t \in Ultrasonic, Start(t) \/ Pulse(t) \/ Dies(t) PROVE BusKept' /\ CopyKept'
      BY <2>1 DEF Start, Pulse, Dies, Write
    <2>2. ASSUME NEW t \in Ultrasonic, Construct(t) PROVE BusKept' /\ CopyKept'
      <3>1. CASE Step(t, "ReadTrig", "WriteTrig") /\ ReadMode(t, TRIG_PIN[t])
        BY <3>1, Pins, Registers DEF ReadMode
      <3>2. CASE Step(t, "ReadEcho", "WriteEcho") /\ ReadMode(t, ECHO_PIN[t])
        BY <3>2, Pins, Registers DEF ReadMode
      <3>3. CASE Step(t, "WriteTrig", "ReadEcho") /\ WriteMode(t, TRIG_PIN[t], "Output")
        BY <3>3, Pins, Registers DEF WriteMode, Pin
      <3>4. CASE Step(t, "WriteEcho", "Lower") /\ WriteMode(t, ECHO_PIN[t], "Input")
        BY <3>4, Pins, Registers DEF WriteMode, Pin
      <3>5. CASE Step(t, "Lower", "Ready") /\ Write(TRIG_PIN[t], FALSE)
        BY <3>5 DEF Write
      <3> QED BY <2>2, <3>1, <3>2, <3>3, <3>4, <3>5 DEF Construct
    <2>3. CASE UNCHANGED vars
      BY <2>3 DEF vars
    <2> QED BY <2>1, <2>2, <2>3 DEF Next
  <1> HIDE DEF CopyKept
  <1> QED BY <1>1, <1>2, RegistersTyped, PTL DEF Spec
=============================================================================
