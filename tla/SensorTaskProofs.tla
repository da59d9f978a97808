--------------------------- MODULE SensorTaskProofs ---------------------------
(***************************************************************************)
(* The two sensor tasks.  TaskInv is inductive for every lag, timeout and  *)
(* period that meet the two assumptions, and what sense() promises follows *)
(* from it; ImuInv is inductive for every number of calibration readings,  *)
(* and what main() of the IMU task reports at rest follows from it.        *)
(***************************************************************************)
EXTENDS UltrasonicTask, ImuTask, TLAPS

USE DriverAssumption, TaskAssumption, ImuAssumption

\* The initial states are well typed.
LEMMA TypeInit == Init => TypeOK
  <1> SUFFICES ASSUME Init PROVE TypeOK
    OBVIOUS
  <1>1. faulted \in BOOLEAN /\ beating \in BOOLEAN
    BY Zenon DEF Init, DriverInit
  <1>2. reading \in Reading
    BY DEF Init, DriverInit, Disconnected, Reading, Distance, SensorStatus
  <1>3. /\ pc = "Idle" /\ timer = 0 /\ lag = 0 /\ high = 0 /\ sincePing = HORIZON
        /\ device \in {"Quiet", "Absent", "Stuck"}
        /\ phase = "Checking" /\ attempt = 1 /\ sleep = 0
    BY DEF Init, DriverInit
  <1> QED BY <1>1, <1>2, <1>3 DEF TypeOK

\* Every step keeps the types.
LEMMA TypeStep == TypeOK /\ [Next]_vars => TypeOK'
  <1> SUFFICES ASSUME TypeOK, [Next]_vars PROVE TypeOK'
    OBVIOUS
  <1> USE DEF TypeOK, driverVars, deviceVars, taskVars, Streaming
  <1>1. CASE StartSense
    <2>1. faulted' \in BOOLEAN
      <3>1. faulted' = FALSE \/ faulted' = (faulted \/ device \in {"Absent", "Stuck"})
        BY <1>1, Zenon DEF StartSense, Trigger
      <3>2. faulted \in BOOLEAN
        BY Zenon
      <3> QED BY <3>1, <3>2, Zenon
    <2>2. device' \in {"Quiet", "Ranging", "Echoing", "Absent", "Stuck"} /\ high' \in 0 .. HOLD
      BY <1>1 DEF StartSense, Trigger
    <2>3. pc' = "StampWait" /\ lag' = 0 /\ sincePing' = 0 /\ UNCHANGED <<timer, reading, taskVars>>
      BY <1>1 DEF StartSense, Trigger, At
    <2> QED BY <2>1, <2>2, <2>3
  <1>2. CASE SenseStep
    <2>1. reading' \in Reading /\ timer' \in Nat /\ lag' \in 0 .. LAG /\ pc' \in {"Idle", "StampWait", "PollRise", "CheckRise", "StampRise", "PollFall", "CheckFall", "StampFall"}
      <3>1. CASE StampWait BY <3>1 DEF StampWait, At
      <3>2. CASE PollRise BY <3>2 DEF PollRise, At
      <3>3. CASE CheckRise BY <3>3 DEF CheckRise, At, Returns, Disconnected, Reading, Distance, SensorStatus
      <3>4. CASE StampRise BY <3>4 DEF StampRise, At
      <3>5. CASE PollFall BY <3>5 DEF PollFall, At
      <3>6. CASE CheckFall BY <3>6 DEF CheckFall, At, Returns, Disconnected, Reading, Distance, SensorStatus
      <3>7. CASE StampFall
        <4>1. timer * CM_PER_UNIT \in Int
          OBVIOUS
        <4> QED BY <3>7, <4>1 DEF StampFall, Returns, Classify, Reading, Distance, SensorStatus
      <3> QED BY <1>2, <3>1, <3>2, <3>3, <3>4, <3>5, <3>6, <3>7 DEF SenseStep, Sense
    <2>2. UNCHANGED <<deviceVars, sincePing>>
      BY <1>2 DEF SenseStep, Sense, StampWait, PollRise, CheckRise, StampRise, PollFall, CheckFall, StampFall
    <2>3. TakeReading \/ UNCHANGED taskVars
      BY <1>2 DEF SenseStep
    <2> QED BY <2>1, <2>2, <2>3 DEF TakeReading
  <1>3. CASE Recheck
    BY <1>3 DEF Recheck
  <1>4. CASE ConnectToSupervisor
    BY <1>4 DEF ConnectToSupervisor
  <1>5. CASE Wake
    BY <1>5 DEF Wake
  <1>6. CASE SendReturns
    BY <1>6 DEF SendReturns
  <1>7. CASE Environment
    BY <1>7 DEF Environment, EchoRises, EchoFalls, Breaks
  <1>8. CASE Elapse
    BY <1>8 DEF Elapse, DriverElapses
  <1>9. CASE UNCHANGED vars
    BY <1>9 DEF vars
  <1> QED
    BY <1>1, <1>2, <1>3, <1>4, <1>5, <1>6, <1>7, <1>8, <1>9 DEF Next, Main

\* Every reachable state of the task is well typed.
THEOREM TaskTypeCorrect == Spec => []TypeOK
  BY TypeInit, TypeStep, PTL DEF Spec

\* A busy module was triggered no longer ago than it can be busy.
LEMMA BusyStep == TypeOK /\ BusyInv /\ [Next]_vars => BusyInv'
  <1> SUFFICES ASSUME TypeOK, BusyInv, [Next]_vars PROVE BusyInv'
    OBVIOUS
  <1> USE DEF TypeOK, driverVars, deviceVars, taskVars, Streaming, Busy, InFirstWait, InSecondWait, BusyInv
  <1>1. CASE StartSense
    BY <1>1 DEF StartSense, Trigger, At
  <1>2. CASE SenseStep
    <2>1. CASE StampWait BY <1>2, <2>1 DEF SenseStep, StampWait, At, TakeReading
    <2>2. CASE PollRise BY <1>2, <2>2 DEF SenseStep, PollRise, At, Echo, TakeReading
    <2>3. CASE CheckRise BY <1>2, <2>3 DEF SenseStep, CheckRise, At, Returns, TimedOut, Disconnected, SensorResponds, TakeReading
    <2>4. CASE StampRise BY <1>2, <2>4 DEF SenseStep, StampRise, At, TakeReading
    <2>5. CASE PollFall BY <1>2, <2>5 DEF SenseStep, PollFall, At, Echo, TakeReading
    <2>6. CASE CheckFall BY <1>2, <2>6 DEF SenseStep, CheckFall, At, Returns, TimedOut, Disconnected, SensorResponds, TakeReading
    <2>7. CASE StampFall BY <1>2, <2>7 DEF SenseStep, StampFall, Returns, Classify, SensorResponds, TakeReading
    <2> QED BY <1>2, <2>1, <2>2, <2>3, <2>4, <2>5, <2>6, <2>7 DEF SenseStep, Sense
  <1>3. CASE Recheck
    BY <1>3 DEF Recheck
  <1>4. CASE ConnectToSupervisor
    BY <1>4 DEF ConnectToSupervisor
  <1>5. CASE Wake
    BY <1>5 DEF Wake
  <1>6. CASE SendReturns
    BY <1>6 DEF SendReturns
  <1>7. CASE Environment
    BY <1>7 DEF Environment, EchoRises, EchoFalls, Breaks
  <1>8. CASE Elapse
    BY <1>8 DEF Elapse, DriverElapses
  <1>9. CASE UNCHANGED vars
    BY <1>9 DEF vars
  <1> QED
    BY <1>1, <1>2, <1>3, <1>4, <1>5, <1>6, <1>7, <1>8, <1>9 DEF Next, Main

\* The two waits keep to the timeout and the lag.
LEMMA WaitStep == TypeOK /\ WaitInv /\ [Next]_vars => WaitInv'
  <1> SUFFICES ASSUME TypeOK, WaitInv, [Next]_vars PROVE WaitInv'
    OBVIOUS
  <1> USE DEF TypeOK, driverVars, deviceVars, taskVars, Streaming, Busy, InFirstWait, InSecondWait, WaitInv
  <1>1. CASE StartSense
    BY <1>1 DEF StartSense, Trigger, At
  <1>2. CASE SenseStep
    <2>1. CASE StampWait BY <1>2, <2>1 DEF SenseStep, StampWait, At, TakeReading
    <2>2. CASE PollRise BY <1>2, <2>2 DEF SenseStep, PollRise, At, Echo, TakeReading
    <2>3. CASE CheckRise BY <1>2, <2>3 DEF SenseStep, CheckRise, At, Returns, TimedOut, Disconnected, SensorResponds, TakeReading
    <2>4. CASE StampRise BY <1>2, <2>4 DEF SenseStep, StampRise, At, TakeReading
    <2>5. CASE PollFall BY <1>2, <2>5 DEF SenseStep, PollFall, At, Echo, TakeReading
    <2>6. CASE CheckFall BY <1>2, <2>6 DEF SenseStep, CheckFall, At, Returns, TimedOut, Disconnected, SensorResponds, TakeReading
    <2>7. CASE StampFall BY <1>2, <2>7 DEF SenseStep, StampFall, Returns, Classify, SensorResponds, TakeReading
    <2> QED BY <1>2, <2>1, <2>2, <2>3, <2>4, <2>5, <2>6, <2>7 DEF SenseStep, Sense
  <1>3. CASE Recheck
    BY <1>3 DEF Recheck
  <1>4. CASE ConnectToSupervisor
    BY <1>4 DEF ConnectToSupervisor
  <1>5. CASE Wake
    BY <1>5 DEF Wake
  <1>6. CASE SendReturns
    BY <1>6 DEF SendReturns
  <1>7. CASE Environment
    BY <1>7 DEF Environment, EchoRises, EchoFalls, Breaks
  <1>8. CASE Elapse
    BY <1>8 DEF Elapse, DriverElapses
  <1>9. CASE UNCHANGED vars
    BY <1>9 DEF vars
  <1> QED
    BY <1>1, <1>2, <1>3, <1>4, <1>5, <1>6, <1>7, <1>8, <1>9 DEF Next, Main

\* main() never triggers a busy module: it rests on how old an answer can be.
LEMMA CalmStep == TypeOK /\ BusyInv /\ WaitInv /\ CalmInv /\ [Next]_vars => CalmInv'
  <1> SUFFICES ASSUME TypeOK, BusyInv, WaitInv, CalmInv, [Next]_vars PROVE CalmInv'
    OBVIOUS
  <1> USE DEF TypeOK, driverVars, deviceVars, taskVars, Streaming, Busy, InFirstWait, InSecondWait, BusyInv, WaitInv, CalmInv
  <1>1. CASE StartSense
    BY <1>1 DEF StartSense, Trigger, At
  <1>2. CASE SenseStep
    <2>1. CASE StampWait BY <1>2, <2>1 DEF SenseStep, StampWait, At, TakeReading
    <2>2. CASE PollRise BY <1>2, <2>2 DEF SenseStep, PollRise, At, Echo, TakeReading
    <2>3. CASE CheckRise BY <1>2, <2>3 DEF SenseStep, CheckRise, At, Returns, TimedOut, Disconnected, SensorResponds, TakeReading
    <2>4. CASE StampRise BY <1>2, <2>4 DEF SenseStep, StampRise, At, TakeReading
    <2>5. CASE PollFall BY <1>2, <2>5 DEF SenseStep, PollFall, At, Echo, TakeReading
    <2>6. CASE CheckFall BY <1>2, <2>6 DEF SenseStep, CheckFall, At, Returns, TimedOut, Disconnected, SensorResponds, TakeReading
    <2>7. CASE StampFall BY <1>2, <2>7 DEF SenseStep, StampFall, Returns, Classify, SensorResponds, TakeReading
    <2> QED BY <1>2, <2>1, <2>2, <2>3, <2>4, <2>5, <2>6, <2>7 DEF SenseStep, Sense
  <1>3. CASE Recheck
    BY <1>3 DEF Recheck
  <1>4. CASE ConnectToSupervisor
    BY <1>4 DEF ConnectToSupervisor
  <1>5. CASE Wake
    BY <1>5 DEF Wake
  <1>6. CASE SendReturns
    BY <1>6 DEF SendReturns
  <1>7. CASE Environment
    BY <1>7 DEF Environment, EchoRises, EchoFalls, Breaks
  <1>8. CASE Elapse
    BY <1>8 DEF Elapse, DriverElapses
  <1>9. CASE UNCHANGED vars
    BY <1>9 DEF vars
  <1> QED
    BY <1>1, <1>2, <1>3, <1>4, <1>5, <1>6, <1>7, <1>8, <1>9 DEF Next, Main

\* The measured age stays within the lag of the true one.
LEMMA EchoStep == TypeOK /\ BusyInv /\ CalmInv /\ EchoInv /\ [Next]_vars => EchoInv'
  <1> SUFFICES ASSUME TypeOK, BusyInv, CalmInv, EchoInv, [Next]_vars PROVE EchoInv'
    OBVIOUS
  <1> USE DEF TypeOK, driverVars, deviceVars, taskVars, Streaming, Busy, InFirstWait, InSecondWait, BusyInv, CalmInv, EchoInv
  <1>1. CASE StartSense
    BY <1>1 DEF StartSense, Trigger, At
  <1>2. CASE SenseStep
    <2>1. CASE StampWait BY <1>2, <2>1 DEF SenseStep, StampWait, At, TakeReading
    <2>2. CASE PollRise BY <1>2, <2>2 DEF SenseStep, PollRise, At, Echo, TakeReading
    <2>3. CASE CheckRise BY <1>2, <2>3 DEF SenseStep, CheckRise, At, Returns, TimedOut, Disconnected, SensorResponds, TakeReading
    <2>4. CASE StampRise BY <1>2, <2>4 DEF SenseStep, StampRise, At, TakeReading
    <2>5. CASE PollFall BY <1>2, <2>5 DEF SenseStep, PollFall, At, Echo, TakeReading
    <2>6. CASE CheckFall BY <1>2, <2>6 DEF SenseStep, CheckFall, At, Returns, TimedOut, Disconnected, SensorResponds, TakeReading
    <2>7. CASE StampFall BY <1>2, <2>7 DEF SenseStep, StampFall, Returns, Classify, SensorResponds, TakeReading
    <2> QED BY <1>2, <2>1, <2>2, <2>3, <2>4, <2>5, <2>6, <2>7 DEF SenseStep, Sense
  <1>3. CASE Recheck
    BY <1>3 DEF Recheck
  <1>4. CASE ConnectToSupervisor
    BY <1>4 DEF ConnectToSupervisor
  <1>5. CASE Wake
    BY <1>5 DEF Wake
  <1>6. CASE SendReturns
    BY <1>6 DEF SendReturns
  <1>7. CASE Environment
    BY <1>7 DEF Environment, EchoRises, EchoFalls, Breaks
  <1>8. CASE Elapse
    BY <1>8 DEF Elapse, DriverElapses
  <1>9. CASE UNCHANGED vars
    BY <1>9 DEF vars
  <1> QED
    BY <1>1, <1>2, <1>3, <1>4, <1>5, <1>6, <1>7, <1>8, <1>9 DEF Next, Main

-----------------------------------------------------------------------------
\* TaskInv holds throughout: the inductive invariant of the task.
THEOREM TaskCorrect == Spec => []TaskInv
  <1>1. Init => TaskInv
    <2> SUFFICES ASSUME Init PROVE TaskInv
      OBVIOUS
    <2>1. pc = "Idle" /\ phase = "Checking" /\ device \in {"Quiet", "Absent", "Stuck"} /\ high = 0
      BY DEF Init, DriverInit
    <2>2. device # "Quiet" => faulted
      BY DEF Init, DriverInit
    <2> QED
      BY <2>1, <2>2, TypeInit
      DEF TaskInv, BusyInv, CalmInv, WaitInv, EchoInv, Busy, InFirstWait, InSecondWait
  <1>2. TaskInv /\ [Next]_vars => TaskInv'
    BY TypeStep, BusyStep, WaitStep, CalmStep, EchoStep DEF TaskInv
  <1> QED
    BY <1>1, <1>2, PTL DEF Spec

\* sense() returns within its two timeouts and five pauses of the thread.
THEOREM SenseIsBounded == Spec => []SenseBounded
  <1>1. TaskInv => SenseBounded
    BY DEF TaskInv, TypeOK, WaitInv, InFirstWait, InSecondWait, SenseBounded
  <1> QED
    BY <1>1, TaskCorrect, PTL

\* Only three statements of sense() return to main().
LEMMA ReturnSteps ==
  ASSUME [Next]_vars, ReturnsReading
  PROVE  \/ (CheckRise \/ CheckFall) /\ TimedOut /\ reading' = Disconnected
         \/ StampFall /\ reading' = Classify(timer * CM_PER_UNIT)
  <1> USE DEF ReturnsReading, driverVars, deviceVars, taskVars
  <1>1. CASE SenseStep
    BY <1>1 DEF SenseStep, Sense, StampWait, PollRise, CheckRise, StampRise, PollFall, CheckFall,
                StampFall, At, Returns
  <1>2. CASE StartSense \/ Recheck \/ ConnectToSupervisor \/ Wake \/ SendReturns
    BY <1>2 DEF StartSense, Trigger, At, Recheck, ConnectToSupervisor, Wake, SendReturns
  <1>3. CASE Environment \/ Elapse \/ UNCHANGED vars
    BY <1>3 DEF Environment, EchoRises, EchoFalls, Breaks, Elapse, DriverElapses, vars
  <1> QED
    BY <1>1, <1>2, <1>3 DEF Next, Main

\* The distance sense() returns is that of the echo, up to three pauses.
THEOREM DistanceIsAccurate == Spec => DistanceAccurate
  <1>1. ASSUME TaskInv, [Next]_vars, ReturnsReading, ~faulted, reading'.status # "Disconnected"
        PROVE  \E width \in high - 3 * LAG .. high + 3 * LAG : reading'.distanceCm = width * CM_PER_UNIT
    <2>1. StampFall /\ reading' = Classify(timer * CM_PER_UNIT)
      BY <1>1, ReturnSteps DEF Disconnected
    <2>2. timer \in high - 3 * LAG .. high + 3 * LAG
      BY <1>1, <2>1 DEF TaskInv, TypeOK, EchoInv, InSecondWait, StampFall
    <2>3. reading'.distanceCm = timer * CM_PER_UNIT
      BY <2>1 DEF Classify
    <2> QED
      BY <2>2, <2>3
  <1> QED
    BY <1>1, TaskCorrect, PTL DEF Spec, DistanceAccurate

\* "Disconnected" is not said of a module whose echo could be caught.
THEOREM EchoIsNotMissed == Spec => EchoNotMissed
  <1>1. ASSUME TaskInv, [Next]_vars, ReturnsReading, ~faulted, reading'.status = "Disconnected"
        PROVE  high <= 2 * LAG \/ high > ECHO_TIMEOUT - LAG
    <2>1. (CheckRise \/ CheckFall) /\ TimedOut
      BY <1>1, ReturnSteps DEF Classify
    <2>2. CASE CheckRise
      BY <1>1, <2>2 DEF TaskInv, EchoInv, CheckRise
    <2>3. CASE CheckFall
      BY <1>1, <2>1, <2>3 DEF TaskInv, TypeOK, EchoInv, InSecondWait, CheckFall, TimedOut
    <2> QED
      BY <2>1, <2>2, <2>3
  <1> QED
    BY <1>1, TaskCorrect, PTL DEF Spec, EchoNotMissed

\* No trigger finds the module busy.
THEOREM EveryTriggerHeard == Spec => TriggerHeard
  <1>1. TaskInv /\ StartSense => device \notin {"Ranging", "Echoing"}
    BY DEF TaskInv, CalmInv, Busy, StartSense, Trigger, At
  <1> QED
    BY <1>1, TaskCorrect, PTL DEF TriggerHeard

\* What is sent as Connected is physically possible, for any lag.
THEOREM ReadingsPossible == Spec => []NeverAnomalous
  <1> DEFINE InRange(r) == r.status = "Connected" => r.distanceCm \in MIN_RANGE_CM .. MAX_RANGE_CM
  <1>1. Init => InRange(reading)
    BY DEF Init, DriverInit, Disconnected
  <1>2. TypeOK /\ InRange(reading) /\ [Next]_vars => InRange(reading)'
    <2> SUFFICES ASSUME TypeOK, InRange(reading), [Next]_vars PROVE InRange(reading')
      OBVIOUS
    <2>1. CASE ReturnsReading
      <3>1. timer * CM_PER_UNIT \in Int
        BY DEF TypeOK
      <3>2. InRange(Classify(timer * CM_PER_UNIT))
        BY <3>1 DEF Classify, MIN_RANGE_CM, MAX_RANGE_CM
      <3>3. InRange(Disconnected)
        BY DEF Disconnected
      <3> QED
        BY <2>1, <3>2, <3>3, ReturnSteps
    <2>2. CASE ~ReturnsReading
      <3>1. reading' = reading
        <4> USE DEF driverVars, deviceVars, taskVars
        <4>1. CASE SenseStep
          BY <2>2, <4>1 DEF SenseStep, Sense, StampWait, PollRise, CheckRise, StampRise, PollFall,
                            CheckFall, StampFall, At, Returns, ReturnsReading
        <4>2. CASE StartSense \/ Recheck \/ ConnectToSupervisor \/ Wake \/ SendReturns
          BY <4>2 DEF StartSense, Trigger, Recheck, ConnectToSupervisor, Wake, SendReturns
        <4>3. CASE Environment \/ Elapse \/ UNCHANGED vars
          BY <4>3 DEF Environment, EchoRises, EchoFalls, Breaks, Elapse, DriverElapses, vars
        <4> QED
          BY <4>1, <4>2, <4>3 DEF Next, Main
      <3> QED
        BY <3>1
    <2> QED
      BY <2>1, <2>2
  <1>3. InRange(reading) => NeverAnomalous
    BY DEF NeverAnomalous, MIN_RANGE_CM, MAX_RANGE_CM, ULTRASONIC_PHYSICAL_MIN_CM,
           ULTRASONIC_PHYSICAL_MAX_CM
  <1> HIDE DEF InRange
  <1> QED
    BY <1>1, <1>2, <1>3, TaskTypeCorrect, PTL DEF Spec

-----------------------------------------------------------------------------
\* The division of calibrate() and of the filter is on integers.
LEMMA QuotientType ==
  ASSUME NEW a \in Int, NEW b \in Nat \ {0}
  PROVE  Quotient(a, b) \in Int
  BY DEF Quotient

\* The average of n equal readings is that reading, of either sign.
LEMMA AverageOfEqual ==
  ASSUME NEW n \in Nat \ {0}, NEW r \in Int
  PROVE  Quotient(n * r, n) = r
  <1>1. ASSUME NEW x \in Nat PROVE (n * x) \div n = x
    OBVIOUS
  <1>2. CASE r >= 0
    <2>1. n * r >= 0
      BY <1>2
    <2> QED BY <1>1, <1>2, <2>1 DEF Quotient
  <1>3. CASE r < 0
    <2>1. -r \in Nat /\ -(n * r) = n * (-r) /\ n * r < 0
      BY <1>3
    <2>2. (-(n * r)) \div n = -r
      BY <1>1, <2>1
    <2> QED BY <2>1, <2>2 DEF Quotient
  <1> QED BY <1>2, <1>3

\* A weighted mean lies between its arguments, although the division truncates.
LEMMA SmoothBetween ==
  ASSUME NEW lo \in Int, NEW hi \in Int, NEW a \in lo .. hi, NEW b \in lo .. hi
  PROVE  Quotient(a + 4 * b, 5) \in lo .. hi
  BY DEF Quotient

\* What ImuInv says of the still board holds before the first reading.
LEMMA ImuStart == IInit => ImuInv
  <1> SUFFICES ASSUME IInit PROVE ImuInv
    OBVIOUS
  <1>1. raw \in Int /\ rest = raw /\ sum = 0 /\ ok * rest = 0
    BY DEF IInit
  <1>2. {raw, rest, sum, bias, filt, lowest, highest} \subseteq Int /\ taken = 0 /\ ok = 0
    BY <1>1 DEF IInit
  <1>3. moved \in BOOLEAN /\ primed \in BOOLEAN
    BY Zenon DEF IInit
  <1>4. sent \in [valid : BOOLEAN, accel : Int] /\ stage = "Detecting"
    BY DEF IInit, NoSample
  <1>5. ImuTypeOK
    BY <1>2, <1>3, <1>4 DEF ImuTypeOK
  <1> QED BY <1>1, <1>5 DEF IInit, ImuInv, StillInv, NoSample

\* Each step of main(), and each move of the board, keeps ImuInv.
LEMMA ImuStep == ImuInv /\ [INext]_ivars => ImuInv'
  <1> SUFFICES ASSUME ImuInv, [INext]_ivars PROVE ImuInv'
    OBVIOUS
  <1> USE DEF ImuInv, ImuTypeOK, StillInv, board, calibration, filter
  <1>1. CASE Connect
    BY <1>1 DEF Connect
  <1>2. CASE CalibrationRead
    <2>1. ok' = ok + 1 => ok' * rest = ok * rest + rest
      OBVIOUS
    <2> QED BY <1>2, <2>1 DEF CalibrationRead
  <1>3. CASE Calibrate
    <2>1. bias' \in Int
      BY <1>3, QuotientType DEF Calibrate
    <2>2. ~moved /\ ok > 0 => bias' = rest
      BY <1>3, AverageOfEqual DEF Calibrate
    <2> QED BY <1>3, <2>1, <2>2 DEF Calibrate
  <1>4. CASE OpenChannel
    BY <1>4 DEF OpenChannel
  <1>5. CASE SendSample
    <2> DEFINE accel == raw - bias
    <2>1. accel \in Int /\ lowest' \in Int /\ highest' \in Int /\ lowest' <= accel /\ accel <= highest'
      BY <1>5 DEF SendSample, Smaller, Larger
    <2>2. filt' \in Int /\ lowest' <= filt' /\ filt' <= highest'
      <3>1. CASE primed
        <4>1. filt \in lowest' .. highest' /\ filt' = Smooth(accel)
          BY <1>5, <3>1 DEF SendSample, Filter, Smaller, Larger
        <4>2. accel \in lowest' .. highest'
          BY <2>1
        <4> HIDE DEF accel
        <4>3. Smooth(accel) \in lowest' .. highest'
          BY <2>1, <4>1, <4>2, SmoothBetween DEF Smooth
        <4> QED BY <2>1, <4>1, <4>3
      <3>2. CASE ~primed
        BY <1>5, <2>1, <3>2 DEF SendSample, Filter
      <3> QED BY <3>1, <3>2
    <2>3. ~moved /\ ok > 0 => filt' = 0
      BY <1>5 DEF SendSample, Filter, Smooth, Quotient
    <2>4. sent' = [valid |-> TRUE, accel |-> filt'] /\ primed' = TRUE
          /\ UNCHANGED <<board, stage, calibration>> /\ stage = "Streaming"
      BY <1>5 DEF SendSample
    <2> HIDE DEF accel
    <2> QED BY <2>1, <2>2, <2>3, <2>4
  <1>6. CASE SendFailure
    BY <1>6 DEF SendFailure, NoSample
  <1>7. CASE Moves
    BY <1>7 DEF Moves
  <1>8. CASE UNCHANGED ivars
    BY <1>8 DEF ivars
  <1> QED BY <1>1, <1>2, <1>3, <1>4, <1>5, <1>6, <1>7, <1>8 DEF INext

\* ImuInv holds throughout the run of the IMU task: the inductive invariant.
THEOREM ImuCorrect == ISpec => []ImuInv
  BY ImuStart, ImuStep, PTL DEF ISpec

\* A board that has not moved since the task started is reported at exactly
\* zero, however many of the calibration readings failed.
THEOREM RestIsZero == ISpec => []RestReadsZero
  <1>1. ImuInv => RestReadsZero
    BY DEF ImuInv, StillInv, RestReadsZero
  <1> QED BY <1>1, ImuCorrect, PTL

\* The filter never leaves the range of the values it was fed.
THEOREM FilterIsBounded == ISpec => []FilterBounded
  <1>1. ImuInv => FilterBounded
    BY DEF ImuInv, ImuTypeOK, FilterBounded
  <1> QED BY <1>1, ImuCorrect, PTL

\* The step behind BumpPasses: with the board back at rest, every good sample
\* is strictly nearer to zero than the one before, and on the same side.
BumpDecays ==
  [][SendSample /\ primed /\ raw = bias =>
       \/ filt = 0 /\ filt' = 0
       \/ 0 <= filt' /\ filt' < filt
       \/ filt < filt' /\ filt' <= 0]_ivars

\* That step is taken for every reading, calibration and filter state.
THEOREM BumpsDecay == ISpec => BumpDecays
  <1>1. ASSUME ImuInv, SendSample, primed, raw = bias
        PROVE  \/ filt = 0 /\ filt' = 0
               \/ 0 <= filt' /\ filt' < filt
               \/ filt < filt' /\ filt' <= 0
    <2>1. filt \in Int /\ raw - bias = 0
      BY <1>1 DEF ImuInv, ImuTypeOK
    <2>2. filt' = Quotient(4 * filt, 5)
      BY <1>1, <2>1 DEF SendSample, Filter, Smooth
    <2> QED BY <2>1, <2>2 DEF Quotient
  <1> QED BY <1>1, ImuCorrect, PTL DEF BumpDecays
=============================================================================
