---------------------------- MODULE GpioRegisters ----------------------------
(***************************************************************************)
(* The GPIO block of the board as the two ultrasonic processes use it      *)
(* (gpio.cpp, and the constructor and the trigger in ultrasonic.cpp).      *)
(* Each process maps the same physical registers.  A function-select       *)
(* register holds the modes of ten pins and is changed by a load and a     *)
(* store; the set and clear registers act on the pins whose bit is written.*)
(* A process may die anywhere and is then started again by hand.           *)
(***************************************************************************)
EXTENDS SafetyProtocol

TRIG_PIN == [t \in Ultrasonic |-> IF t = ULTRASONIC_ID_1 THEN 23 ELSE 25]
ECHO_PIN == [t \in Ultrasonic |-> IF t = ULTRASONIC_ID_1 THEN 24 ELSE 8]

\* SDA and SCL share a register with pin 8 and belong to the I2C driver.
BusPins == {2, 3}
Pin == BusPins \cup {TRIG_PIN[t] : t \in Ultrasonic} \cup {ECHO_PIN[t] : t \in Ultrasonic}

Mode == {"Input", "Output", "Alt"}

VARIABLES
  gpfsel,   \* the mode of every pin, in the registers
  latch,    \* the output latch of every pin
  pc,       \* where each process is
  val,      \* setMode()'s local copy of a register
  overlapped  \* history: whose constructor ran while the other's did

vars == <<gpfsel, latch, pc, val, overlapped>>

Register(pin) == {p \in Pin : p \div 10 = pin \div 10}

Constructing == {"ReadTrig", "WriteTrig", "ReadEcho", "WriteEcho", "Lower"}

\* The pins are inputs at power-on, or what an earlier program left.
Init ==
  /\ gpfsel \in [Pin -> Mode] /\ \A p \in BusPins : gpfsel[p] = "Alt"
  /\ latch = [p \in Pin |-> FALSE]
  /\ pc = [t \in Ultrasonic |-> "Down"]
  /\ val = [t \in Ultrasonic |-> <<>>]
  /\ overlapped = {}

-----------------------------------------------------------------------------
Step(t, here, there) == pc[t] = here /\ pc' = [pc EXCEPT ![t] = there]

Start(t) ==
  LET busy == {u \in Ultrasonic \ {t} : pc[u] \in Constructing} IN
  /\ Step(t, "Down", "ReadTrig")
  /\ overlapped' = (overlapped \ {t}) \cup busy \cup (IF busy = {} THEN {} ELSE {t})
  /\ UNCHANGED <<gpfsel, latch, val>>

\* The two halves of setMode().
ReadMode(t, pin) ==
  /\ val' = [val EXCEPT ![t] = [p \in Register(pin) |-> gpfsel[p]]]
  /\ UNCHANGED <<gpfsel, latch, overlapped>>

\* Mutants: the other fields of the register are not kept; the field itself
\* is not masked out before the mode is put in.
WriteModeUnmasked(t, pin, mode) ==
  /\ gpfsel' = [p \in Pin |-> IF p = pin /\ mode = "Output"
                              THEN IF val[t][p] = "Input" THEN "Output" ELSE "Alt"
                              ELSE IF p \in Register(pin) THEN val[t][p] ELSE gpfsel[p]]
  /\ UNCHANGED <<latch, val, overlapped>>

WriteModeOnly(t, pin, mode) ==
  /\ gpfsel' = [p \in Pin |-> IF p = pin THEN mode
                              ELSE IF p \in Register(pin) THEN "Input" ELSE gpfsel[p]]
  /\ UNCHANGED <<latch, val, overlapped>>

WriteMode(t, pin, mode) ==
  /\ gpfsel' = [p \in Pin |-> IF p = pin THEN mode
                              ELSE IF p \in Register(pin) THEN val[t][p] ELSE gpfsel[p]]
  /\ UNCHANGED <<latch, val, overlapped>>

\* Mutant: the store replaces the whole word.
WriteWord(pin, high) ==
  /\ latch' = [p \in Pin |-> p = pin /\ high]
  /\ UNCHANGED <<gpfsel, val, overlapped>>

\* write(): a store to GPSET0 or GPCLR0, for one bit.
Write(pin, high) ==
  /\ latch' = [latch EXCEPT ![pin] = high]
  /\ UNCHANGED <<gpfsel, val, overlapped>>

\* Ultrasonic's constructor.
Construct(t) ==
  \/ Step(t, "ReadTrig", "WriteTrig") /\ ReadMode(t, TRIG_PIN[t])
  \/ Step(t, "WriteTrig", "ReadEcho") /\ WriteMode(t, TRIG_PIN[t], "Output")
  \/ Step(t, "ReadEcho", "WriteEcho") /\ ReadMode(t, ECHO_PIN[t])
  \/ Step(t, "WriteEcho", "Lower")    /\ WriteMode(t, ECHO_PIN[t], "Input")
  \/ Step(t, "Lower", "Ready")        /\ Write(TRIG_PIN[t], FALSE)

\* The pulse sense() puts on TRIG.
Pulse(t) ==
  \/ Step(t, "Ready", "High") /\ Write(TRIG_PIN[t], TRUE)
  \/ Step(t, "High", "Ready") /\ Write(TRIG_PIN[t], FALSE)

Dies(t) ==
  /\ pc[t] # "Down" /\ pc' = [pc EXCEPT ![t] = "Down"]
  /\ UNCHANGED <<gpfsel, latch, val, overlapped>>

Next == \E t \in Ultrasonic : Start(t) \/ Construct(t) \/ Pulse(t) \/ Dies(t)

Spec == Init /\ [][Next]_vars

-----------------------------------------------------------------------------
TypeOK ==
  /\ gpfsel \in [Pin -> Mode]
  /\ latch \in [Pin -> BOOLEAN]
  /\ pc \in [Ultrasonic -> Constructing \cup {"Down", "Ready", "High"}]
  /\ overlapped \subseteq Ultrasonic
  /\ DOMAIN val = Ultrasonic
  /\ \A t \in Ultrasonic :
       /\ pc[t] = "WriteTrig" => val[t] \in [Register(TRIG_PIN[t]) -> Mode]
       /\ pc[t] = "WriteEcho" => val[t] \in [Register(ECHO_PIN[t]) -> Mode]

Up(t) == pc[t] \in {"Ready", "High"}

\* A process that is up and whose constructor did not overlap the other's
\* has its trigger pin an output and its echo pin an input, through deaths
\* and restarts of either process.
PinsStayConfigured ==
  \A t \in Ultrasonic :
    Up(t) /\ t \notin overlapped => gpfsel[TRIG_PIN[t]] = "Output" /\ gpfsel[ECHO_PIN[t]] = "Input"

\* The level of a trigger line is what its own process wrote last, however
\* the two processes interleave.
LevelIsOwn ==
  \A t \in Ultrasonic : Up(t) => latch[TRIG_PIN[t]] = (pc[t] = "High")

\* No constructor takes the I2C bus of the IMU and the display away.
BusKept == \A p \in BusPins : gpfsel[p] = "Alt"

(***************************************************************************)
(* The strengthening PinsStayConfigured rests on.                          *)
(***************************************************************************)

\* A process that is alive while the other constructs has its mark if it is
\* constructing itself, or was when the other began.
OverlapNoted ==
  \A t \in Ultrasonic : \A u \in Ultrasonic \ {t} :
    pc[t] \in Constructing => /\ pc[u] \in Constructing => u \in overlapped
                              /\ t \in overlapped => pc[u] = "Down" \/ u \in overlapped

\* A copy about to be stored is still what the register holds.
CopyFresh ==
  \A t \in Ultrasonic : t \notin overlapped =>
    /\ pc[t] = "WriteTrig" => \A p \in Register(TRIG_PIN[t]) : val[t][p] = gpfsel[p]
    /\ pc[t] = "WriteEcho" => \A p \in Register(ECHO_PIN[t]) : val[t][p] = gpfsel[p]

HalfConfigured ==
  \A t \in Ultrasonic : t \notin overlapped =>
    /\ pc[t] \in {"ReadEcho", "WriteEcho", "Lower"} => gpfsel[TRIG_PIN[t]] = "Output"
    /\ pc[t] = "Lower" => gpfsel[ECHO_PIN[t]] = "Input"

ModesInv == TypeOK /\ OverlapNoted /\ CopyFresh /\ HalfConfigured /\ PinsStayConfigured
=============================================================================
