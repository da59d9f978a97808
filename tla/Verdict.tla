------------------------------- MODULE Verdict -------------------------------
(***************************************************************************)
(* What the safety supervisor promises, without its clocks, its log and    *)
(* its counters: the override is on exactly while a hazard stands, a fault *)
(* stands until a plausible reading of the same sensor, and the vehicle is *)
(* said to be in order only on a review that found every task beating.     *)
(* When a task counts as lost, and when its data are in time, is left to   *)
(* the supervisor; how the verdict follows from it is not.                 *)
(***************************************************************************)
EXTENDS Integers

CONSTANTS
  Task,     \* the sensor tasks the verdict rests on
  Sensor    \* those of them that report distances

ASSUME VerdictAssumption == Sensor \subseteq Task

VARIABLES
  beating,    \* the tasks heard from and not yet declared lost
  hazards,    \* the sensors whose latest reading was a hazard
  faults,     \* the sensors not trusted until their next plausible reading
  override,
  verdict

judgement == <<beating, hazards, faults, override, verdict>>

Init ==
  /\ beating = {} /\ hazards = {} /\ faults = {}
  /\ override = FALSE
  /\ verdict = "Recovery"

Hear(t) == beating' = beating \cup {t} /\ UNCHANGED <<hazards, faults, override, verdict>>

\* What a reading can be: out of the physical range, near, far, or untrusted.
Kind == {"Impossible", "Obstacle", "Clear", "Lost"}

\* Mutant: a fault is cleared by a clear reading only.
FaultsAfterClear(u, kind) ==
  CASE kind = "Impossible"           -> faults \cup {u}
    [] kind = "Clear"                -> faults \ {u}
    [] kind \in {"Obstacle", "Lost"} -> faults

FaultsAfter(u, kind) ==
  CASE kind = "Impossible"            -> faults \cup {u}
    [] kind \in {"Obstacle", "Clear"} -> faults \ {u}
    [] kind = "Lost"                  -> faults

Judge(u, kind) ==
  /\ hazards' = IF kind \in {"Impossible", "Obstacle"} THEN hazards \cup {u} ELSE hazards \ {u}
  /\ faults' = FaultsAfter(u, kind)
  /\ override' = (hazards' # {})
  /\ UNCHANGED <<beating, verdict>>

\* Mutant: one task that beats is enough.
VerdictAnyBeating(beats, inTime) ==
  CASE beats = {}                             -> "SafeStop"
    [] beats # {} /\ inTime /\ faults = {}    -> "Normal"
    [] beats # {} /\ ~(inTime /\ faults = {}) -> "Degraded"

VerdictOn(beats, inTime) ==
  CASE beats # Task                             -> "SafeStop"
    [] beats = Task /\ inTime /\ faults = {}    -> "Normal"
    [] beats = Task /\ ~(inTime /\ faults = {}) -> "Degraded"

Review ==
  \E lost \in SUBSET beating, inTime \in BOOLEAN :
    /\ beating' = beating \ lost
    /\ verdict' = VerdictOn(beating', inTime)
    /\ UNCHANGED <<hazards, faults, override>>

Next ==
  \/ \E t \in Task : Hear(t)
  \/ \E u \in Sensor, kind \in Kind : Judge(u, kind)
  \/ Review

Spec == Init /\ [][Next]_judgement
=============================================================================
