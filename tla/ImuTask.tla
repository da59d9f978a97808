------------------------------- MODULE ImuTask -------------------------------
(***************************************************************************)
(* imu_task: it detects the MPU6500, averages CALIBRATION_SAMPLES readings *)
(* into a bias, finds the supervisor, and streams corrected and smoothed   *)
(* samples.  Any read may fail on the shared bus.  One axis is kept, in    *)
(* whole units; all six are treated alike.  Division truncates: what the   *)
(* floats keep below a unit is lost.                                       *)
(***************************************************************************)
EXTENDS Integers

CONSTANTS
  CALIBRATION_SAMPLES,   \* 50
  Raw                    \* what the sensor can measure

ASSUME ImuAssumption == CALIBRATION_SAMPLES \in Nat \ {0} /\ Raw \subseteq Int

VARIABLES
  raw,      \* what a read would return now; the sensor's motion and tilt
  rest,     \* raw when the task started, "while the board is stationary"
  moved,    \* raw has been different from rest
  stage,    \* where main() is
  taken,    \* calibrate(): reads done, those that succeeded, and their sum
  ok,
  sum,
  bias,     \* cal.accelBiasG
  filt,     \* filtAccel
  primed,   \* filterPrimed
  lowest,   \* the extremes of the corrected samples taken while streaming
  highest,
  sent      \* the last ImuMsg

board == <<raw, rest, moved>>
calibration == <<taken, ok, sum, bias>>
filter == <<filt, primed, lowest, highest>>
ivars == <<board, stage, calibration, filter, sent>>

NoSample == [valid |-> FALSE, accel |-> 0]

IInit ==
  /\ raw \in Raw /\ rest = raw /\ moved = FALSE
  /\ stage = "Detecting"
  /\ taken = 0 /\ ok = 0 /\ sum = 0 /\ bias = 0
  /\ filt = 0 /\ primed = FALSE /\ lowest = 0 /\ highest = 0
  /\ sent = NoSample

Quotient(a, b) == IF a >= 0 THEN a \div b ELSE -((-a) \div b)

-----------------------------------------------------------------------------
\* Mpu6500::connect(): bus, identity and wake-up, each of which may fail.
Connect ==
  /\ stage = "Detecting"
  /\ stage' \in {"Calibrating", "Exited"}
  /\ UNCHANGED <<board, calibration, filter, sent>>

\* A round of calibrate()'s loop.
CalibrationRead ==
  /\ stage = "Calibrating" /\ taken < CALIBRATION_SAMPLES
  /\ taken' = taken + 1
  /\ \/ ok' = ok + 1 /\ sum' = sum + raw
     \/ UNCHANGED <<ok, sum>>
  /\ UNCHANGED <<board, stage, bias, filter, sent>>

\* Mutant: the sum is divided by the number of attempts.
CalibrateByAttempts ==
  /\ stage = "Calibrating" /\ taken = CALIBRATION_SAMPLES
  /\ stage' = "Connecting"
  /\ bias' = Quotient(sum, taken)
  /\ UNCHANGED <<board, taken, ok, sum, filter, sent>>

Calibrate ==
  /\ stage = "Calibrating" /\ taken = CALIBRATION_SAMPLES
  /\ stage' = "Connecting"
  /\ bias' = IF ok > 0 THEN Quotient(sum, ok) ELSE sum
  /\ UNCHANGED <<board, taken, ok, sum, filter, sent>>

\* A failed name_open() is retried and changes nothing.
OpenChannel ==
  /\ stage = "Connecting" /\ stage' = "Streaming"
  /\ UNCHANGED <<board, calibration, filter, sent>>

\* Mutants: the old value keeps its full weight; the filter starts from zero.
SmoothNoDecay(accel) == Quotient(accel + 5 * filt, 5)

\* FILTER_ALPHA is a fifth; the first good sample seeds the filter.
Smooth(accel) == Quotient(accel + 4 * filt, 5)

FilterUnprimed(accel) == Smooth(accel)
Filter(accel) == IF primed THEN Smooth(accel) ELSE accel

Smaller(a, b) == IF a < b THEN a ELSE b
Larger(a, b)  == IF a > b THEN a ELSE b

\* A round of the streaming loop, with a read that succeeds or fails.
SendSample ==
  LET accel == raw - bias
  IN  /\ stage = "Streaming"
      /\ filt' = Filter(accel) /\ primed' = TRUE
      /\ lowest'  = IF primed THEN Smaller(lowest, accel) ELSE accel
      /\ highest' = IF primed THEN Larger(highest, accel) ELSE accel
      /\ sent' = [valid |-> TRUE, accel |-> filt']
      /\ UNCHANGED <<board, stage, calibration>>

SendFailure ==
  /\ stage = "Streaming"
  /\ sent' = NoSample
  /\ UNCHANGED <<board, stage, calibration, filter>>

\* The board is moved, tilted, or put back.
Moves ==
  /\ raw' \in Raw \ {raw}
  /\ moved' = TRUE
  /\ UNCHANGED <<rest, stage, calibration, filter, sent>>

INext ==
  \/ Connect \/ CalibrationRead \/ Calibrate \/ OpenChannel
  \/ SendSample \/ SendFailure
  \/ Moves

ISpec == IInit /\ [][INext]_ivars

\* The task keeps running.
FairISpec ==
  /\ ISpec
  /\ WF_ivars(Connect \/ CalibrationRead \/ Calibrate \/ OpenChannel)
  /\ WF_ivars(SendSample \/ SendFailure)

-----------------------------------------------------------------------------
\* A board that is not moved reads zero, whichever reads failed while the
\* bias was taken, as long as one did not (calibrate()).
RestReadsZero == ~moved /\ ok > 0 /\ sent.valid => sent.accel = 0

\* No smoothed sample is outside of what was measured, however good and
\* failed reads alternate: the filter never invents motion.
FilterBounded == primed => filt \in lowest .. highest

\* A bump passes: with the board still during the calibration and back at
\* rest for good, the samples return to zero.
BumpPasses ==
  (<>[](raw = bias /\ stage = "Streaming")) => <>[](sent.valid => sent.accel = 0)

(***************************************************************************)
(* The strengthening the two invariants rest on, for any number of         *)
(* readings and any sensor.                                                *)
(***************************************************************************)
ImuTypeOK ==
  /\ {raw, rest, sum, bias, filt, lowest, highest} \subseteq Int
  /\ moved \in BOOLEAN /\ primed \in BOOLEAN
  /\ stage \in {"Detecting", "Calibrating", "Connecting", "Streaming", "Exited"}
  /\ taken \in 0 .. CALIBRATION_SAMPLES /\ ok \in 0 .. taken
  /\ sent \in [valid : BOOLEAN, accel : Int]

\* The sum of equal readings is a multiple of one, so the bias is that one.
StillInv ==
  ~moved =>
    /\ raw = rest /\ sum = ok * rest
    /\ stage \in {"Connecting", "Streaming"} /\ ok > 0 => bias = rest
    /\ ok > 0 /\ primed => filt = 0
    /\ ok > 0 /\ sent.valid => sent.accel = 0

ImuInv ==
  /\ ImuTypeOK /\ StillInv
  /\ stage # "Streaming" => ~primed /\ ~sent.valid
  /\ primed => lowest <= filt /\ filt <= highest
=============================================================================
