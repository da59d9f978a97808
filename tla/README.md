# Safety supervisor: TLA+ models, checks and proofs

This directory holds TLA+ models of the QNX vehicle safety supervisor in `src/`, TLC
configurations that check them on small instances, and TLAPS proofs that hold for every
value of the constants. `PROJECT.json` is the index: it lists the components, the runs, the
code lines behind every definition, the mutants each property was tried against, the
hazards and the theorems.

Run TLC as `tlc -config MCWatchdog.cfg MCSupervisorHistory` and TLAPS as
`tlapm SupervisorProofs.tla`.

## 1. The system

The repository is eight small C++ programs on a Raspberry Pi under QNX. Three sensor
processes send readings and heartbeats to one supervisor. Two readers ask it for its
status. A fault injector imitates a broken sensor. A metrics server watches the machine
independently of all this.

| Part | State it keeps | Operations | Talks to |
|---|---|---|---|
| `supervisor/supervisor.cpp` | per subsystem: alive, timestamps, data health, recovery timer and count, hazard and fault flags; system state, override flag, last distances | one `MsgReceive` loop: `onUltrasonicReading`, `onImuReading`, `onHeartbeat`, `onSafetyTick`, `buildStatusReply` | everyone, over one named channel |
| event log (in the supervisor) | 16-slot ring, head, count | `logEvent`, the copy into a status reply | readers, through the reply |
| `ultrasonic_task-1`, `-2` | attempt counter, connection id | sensor check, connect, sampling loop; a heartbeat thread | driver, supervisor |
| `ultrasonic.cpp` | none between calls | `sense()`: trigger, two bounded busy-waits, classification | the HC-SR04 through the GPIO registers |
| `gpio.cpp` | the memory-mapped registers, which both ultrasonic processes share | `setMode`, `write`, `read` | hardware |
| `imu_task`, `mpu6500.cpp` | calibration bias, filter | detect, calibrate, stream; a heartbeat thread | I2C bus, supervisor |
| `oled_task`, `ssd1306.cpp` | the frame being drawn | query, `render`, `drawText` | supervisor, I2C bus |
| `cli_status` | none | query and print | supervisor |
| `fault_injector` | its two arguments | send one impossible reading every 100 ms | supervisor |
| `metrics_server` | run times at the last walk, per pid and per thread | `gatherMetrics` per HTTP request | procfs |
| `dashboard.html`, `font5x7.h`, build files | none of interest | | |

### What is hard here

* **Timing.** Timestamps are judged only at a 50 ms tick, which may be handled late or
  several at once. Heartbeat timeout, data deadline, grace period and tick all interact.
* **Interleaving.** Two sensors feed one edge-triggered override. Heartbeats and readings
  of one process come from two threads. Two processes share GPIO registers.
* **Staleness.** Status replies, the panel and the load figures are derived from data taken
  at another moment.
* **Partial failure.** I2C transactions, calibration reads, sends and `/proc` entries fail
  one by one.
* **Crashes.** Any process may die and be restarted by hand. Clients open the connection
  to the supervisor once and never again.

### What makes each part correct

* Processes and channel: nobody waits for good, a task is heard whatever its other thread
  waits for, and a supervisor that was restarted trusts nobody it has not met.
* Tasks and supervisor together: a task that keeps its periods is never taken for dead, three
  of them make the system NORMAL, and a dead one is noticed in time.
* Supervisor: the override is on while a sensor reports a hazard and off once all report
  clear. NORMAL is a bounded claim about the present. Silence is declared in time, SAFE_STOP is left only when
  all beat and does not outlast its reason, and recovery prompts are paced and bounded.
* Event log: the reader sees the latest events in order, and what they say agrees with the
  state they are about.
* Ultrasonic driver and task: bounded in time, accurate, no echo missed, no trigger lost,
  and never blocked for good by the hardware.
* GPIO: the trigger level and the bus are never disturbed, and modes only by an overlapping
  constructor.
* IMU: rest reads as zero, and the filter adds no motion.
* Display: a frame that was drawn stands, the top line settles, and the cause shown is
  current.
* Metrics: run time is counted once, whatever the walks miss.

The `hazards` of `PROJECT.json` give the code line where each of these can go wrong.

## 2. Modules

```
SafetyProtocol            ids, enumerations, readings, events (protocol.h)
  EventRing               logEvent() and the reply's index arithmetic, as operators
    EventLog              ... as a specification;  refines BoundedLog
    Supervisor            every handler of the supervisor;  refines Verdict
      SupervisorHistory   + what the environment would remember
      TimedTasks          + tasks that keep their periods, die and come back
      StatusLines         what oled_task composes from a reply
        StatusDisplay     + the panel and its driver, beside the running supervisor
Verdict                   what the supervisor decides, without clocks, log and counters
  SafetySystem            + every process, the channel, deaths and restarts
  Ultrasonic              sense() against the ranging module
    UltrasonicTask        + main() of an ultrasonic task
  GpioRegisters           two processes on one register block
ImuTask                   calibration, filter, streaming
MetricsServer             the walk over /proc
```

Modules named `*Proofs` and `EventRingLemmas` hold the proofs; `CompositionProofs` those of the
modules that put something beside `Supervisor`. Modules named `MC*` hold
values for TLC. `UltrasonicTask`, `GpioRegisters` and `MetricsServer` need only simple
values and are instantiated by their `.cfg` alone. An operator whose comment says *Mutant*
is a plausible bug: the real definition next to it is never built from it, and the property
it is listed with in `PROJECT.json` is violated when it takes that definition's place.

### Correspondence with the code

**Supervisor.** The supervisor is one thread, so each handler is one atomic action.
`SubsystemState` becomes one function per field, indexed by the source.
`OnUltrasonicReading` contains its call to `updateOverride()` and all the log entries in
their order. `OnSafetyTick` is the whole of `onSafetyTick()`: watchdogs, deadlines, recovery,
roll-up, with the order of reads and writes kept through primed values. `Elapse` moves
`CLOCK_MONOTONIC`. `tickDue` is the expiry of the oldest queued safety tick and `TICK_LAG`
the longest it waits. 0 means "never", as in the code. A status request reads and changes
nothing, so it is not an action: `ReplyHealth` and `ReplyEvents` are operators, and what is
claimed of a reply is claimed of every state. The environment is unconstrained: any started
task may send any reading or beat at any time or fall silent, which covers its death, its
restart, the fault injector, and any order of delivery.

**EventRing, EventLog, BoundedLog.** The log is a record (`events`, `head`, `count`), so that
a handler that logs three times is still one step. `EventLog` is the ring alone and implements
`BoundedLog`, a sequence of the latest events, under the mapping `ReplyEvents`.

**SupervisorHistory.** Remembers the last report of each sensor, when each was last
Connected, and when each process reconnected. `HistoryIsAuxiliary` proves that the history
restricts nothing.

**Verdict.** The supervisor's decisions as sets: who beats, which sensors show a hazard, which are
faulty, the override, and the verdict of the last review. When a task is lost and whether data are
in time is left open. `Supervisor` implements it under a mapping that turns its Boolean functions
into sets, and every handler is one step of it or none.

**TimedTasks.** The tasks' loops put bounds on when the supervisor hears from a running task:
`BEAT_GAP` and `SAMPLE_GAP`. Each is a period of the code, the work of a round, and the wait for the
processor. `TElapse` lets no more time pass. Tasks join and die at any time, and a pulse may be
handled up to `LINGER` after its sender died. Nothing of `Supervisor` is changed, and
`TimedIsSupervisor` proves that `TSpec` only restricts it.

**SafetySystem.** Every process of the safety system as a client of one channel: tasks (with a
heartbeat thread that never waits), injectors, panels and status queries. `Send` blocks until
`Reply`. The supervisor is `Verdict`, so that every step of it is a decision of the code and the
model stays small enough for liveness. A call on a connection whose server is gone fails at once;
all clients report that and go on, which is a stuttering step. `met` remembers which tasks found the
supervisor that runs now.

**Ultrasonic, UltrasonicTask.** One action per access to the line or to the cycle counter:
`sense()` is a busy-wait at an ordinary priority, and up to `LAG` may pass between any two
statements. Time is kept as ages. The ranging module is external. It answers or is silent,
breaks, sticks, and is repaired at any moment. `faulted` says that this happened since the last
trigger. Both tasks hold identical copies of the driver. They differ in pins and id only, so the
map names lines of either copy.

**GpioRegisters.** One action per load and store, for both processes' constructors and trigger
pulses, with deaths and manual restarts anywhere. The history variable `overlapped` holds the
processes whose constructor ran while the other's did; such a constructor may lose the other's
mode, and the claim about modes is for the rest.

**ImuTask.** One axis, in whole units, with truncating division in place of floats. Any read
may fail. `Moves` is the environment tilting the board.

**StatusLines, StatusDisplay.** `Lines` is `render()` up to the numbers in the text.
`StatusDisplay` runs the polling loop beside the complete `Supervisor`, with no bound on what
the supervisor does between two of its steps. Each of the two I2C transactions of a line may fail.

**MetricsServer.** One action per entry of `/proc`, so that processes run, end, start and reuse
pids in the middle of a walk.

## 3. Checks

Constants are scaled: a unit of time is the tick period in the supervisor's runs, and 5 ms or
more in the driver's. What matters is the order and the comparison of the limits, and the
proofs cover all their values.

### Runs that pass

| Run | What it asks | Bounds |
|---|---|---|
| `event_log` | the ring refines the bounded log | 4 slots, filled several times over |
| `override` | override, faults, flags, displayed distance and log agree with the reports; the log tells who lives; every step is a step of `Verdict` | both sensors, the least distances that are possible and no obstacle, an impossible one, NaN, an echo from too far, a lost one; 2 slots; deaths and reconnects around one tick |
| `watchdog` | NORMAL is fresh, silence is declared in time, SAFE_STOP is left only when all beat and ends in time | three tasks, clear readings, ticks at three times, deadlines of one unit, so that data outlive what NORMAL allows |
| `punctual` | no false alarm, NORMAL when all run, deaths noticed; prompts bounded, paced, not late; state and reply roll up alike | three tasks of which the IMU's joins late, dies and returns; gaps as long as the timeouts; ticks up to a unit late, 8 units |
| `system` | everyone is served, a stopped injector's fault ends, only tasks that were met count | an ultrasonic task, the IMU, an injector, a status client, any number of deaths and restarts of each and of the supervisor |
| `sense` | bounded, accurate, no echo missed, no trigger lost, never impossible; the check decides, sampling goes on | timeout 4, lag 1, echo of up to 5 units, two attempts |
| `gpio` | modes, levels, bus | all register contents at power-on, every interleaving |
| `imu` | rest is zero, filter bounded, bumps pass | 3 calibration reads, 4 raw values |
| `display` | a frame stands, the cause is current, the top line settles | one sensor, three kinds of reading, 2 slots, the top row kept, one tick |
| `metrics` | run time counted once | two pids, one processor, 5 units |

`MaxTime`, `MaxNow`, `HORIZON` and `KeptRow` are the only artificial bounds. The clocks stop at the
first two. The supervisor's limits are 0 to 2 units in these runs, so that a death and a reconnect fit
below `MaxTime` (in `punctual` both prompts of an outage, or a second death, too). In `punctual` the
gaps equal the timeouts, which is the worst case `GapAssumption` allows; the code has 50 ms against 250
ms for beats, and 100 ms and a `sense()` against 300 ms for readings. `SafetySystem` has no bound but
its sets of processes; a panel, which asks like a status client and never reopens its connection, is in
the proofs only. `override` and `watchdog` have a VIEW that leaves out what neither their properties nor
any guard reads. `sincePing` stops counting at `HORIZON`, beyond every comparison made with it.
`KeptRow` is the part of the panel that is recorded; `drawText()` treats every row alike. A ring of one,
two or four slots wraps after a few events, as sixteen do after more. Deadlock is checked in every run.

### Fairness

Six properties are temporal, besides those that speak of steps.

* `StartupDecides`, `KeepsSampling` use `FairSpec` of `UltrasonicTask`: weak fairness of the main thread
  (it is READY and nothing of higher priority spins), of time, and of the module ending its own
  echo. Nothing is assumed of `MsgSend()`: its return is not fair, and `KeepsSampling` ends at the
  send. Nothing is assumed of faults.
* `TopLineSettles` uses weak fairness of the display's own steps. It is conditional on the
  panel hearing again and on the stop decision staying as it is.
* `BumpPasses` uses weak fairness of the IMU's loop and is conditional on the board coming to rest.

* `ClientsAreServed`, `FaultEnds` use `FairSSpec`: weak fairness of each client's main loop, of each
  heartbeat thread, and of the supervisor for each message and each pulse its channel holds. The
  clients' loops are endless and sleep between rounds, and the supervisor runs above them all, so each
  of them gets the processor. A kernel queue is served in order of priority and arrival, the senders
  are few and each holds one message at most, so none waits for ever. Nothing is assumed of deaths,
  starts, or what a reading says; both properties are conditional on what they need of these.

The supervisor's bounds on reaction are stated as safety, with `TICK_LAG` as the assumption: it runs
SCHED_FIFO at the highest priority (`raisePriority()`), and `Elapse` lets no due tick wait longer. A QNX
channel that does not fix the priority of its server also lends it that of the message it handles; how
long a due tick waits behind the handlers of such messages is part of `TICK_LAG`. If `SchedSet` fails,
which the code reports and survives, that bound is void.

### Where code and documentation disagree

Two of these are runs that TLC finds violated. The quoted sentences and the code lines are in the
`findings` of `PROJECT.json`.

| Run | The code |
|---|---|
| `trusted` | a sensor that only ever reports Disconnected is Healthy and the system NORMAL, although the comment says that it is not silently trusted |
| `lost_echo` | a reading without an echo clears the override, although it "only clears once BOTH report clear" |

Others were met while translating and are noted here only:

* The panel announces an obstacle whenever the latest fault in the log is no anomaly, and also when
  there is none, as in SAFE_STOP after every start (`oled_task.cpp:59`); lines 29-31 say that it tells
  which of the two it was and which sensor saw it.
* An injected fault survives genuine readings that are OutOfRange, as a free view gives them
  (`supervisor.cpp:193-195`); the readme (line 281) says that the "very next genuine reading clears the
  fault". `FaultEnds` asks for a plausible one, which is what `fault_injector.cpp:14` calls valid.
* RECOVERY is left for SAFE_STOP at the first tick unless all tasks beat already, and is never
  entered again; the state diagram (readme, lines 94-100) has neither.
* An obstacle engages the override and leaves the state machine in NORMAL; the readme
  (lines 269-270) has it drop out of NORMAL at the same tick.
* The first sample is triggered right behind the sensor check (`ultrasonic_task-1.cpp:94`), without
  the 60 ms of quiet that lines 22-23 ask for.
* `setMode()` loads and stores a register both ultrasonic processes share, so overlapping
  constructors can lose a mode; the readme (line 143) says that no memory is shared.
* `calibrate()` returns a bias of zero when no read succeeded (`imu_task.cpp:52`), and gravity is
  then streamed as motion. `RestReadsZero` assumes one good read.
* `drawText()` sends its data even if the window command was not acknowledged (`ssd1306.cpp:128`),
  so a line can land on another row. `FrameFaithful` is about frames without a failure.
* `metrics_server` samples run times during a walk but divides by the time between the starts of two
  walks, and compares with an entry that may be older than the last poll (lines 175-179): the
  aggregate can exceed N * 100 %.

## 4. Proofs

All theorems hold for every value of the constants under the named assumptions of the modules
(`TimingAssumption`, `LogAssumption`, `InputAssumption`, `NaNAssumption`, `NoReportAssumption`,
`DriverAssumption`, `TaskAssumption`, `RowAssumption`, `MetricsAssumption`, `VerdictAssumption`,
`InjectorAssumption`, `ClientAssumption`, `GapAssumption`, `PlausibleAssumption`, `ImuAssumption`). Most
of these only give a constant its type. Five are relations. `GapAssumption` says that beats and readings
of a running task come within the heartbeat timeout and the deadlines. `PlausibleAssumption` says that
the readings in `TimedTasks` are those a driver makes (`NeverAnomalous`), because a faulty sensor
rightly keeps the system out of NORMAL. `DriverAssumption` puts `HORIZON` beyond what is counted.
`TaskAssumption` says that a module without a target is quiet again before the next sample (38 ms
against 130 ms). `MAX_EVENT_LOG` and the tick period are not zero.

| Module | Proved |
|---|---|
| `EventRingLemmas` | what one `LogEvent` does to the sequence a reader gets, full and not full, and to what its latest entries tell |
| `EventLogProofs` | `RingInv`; `EventLog` implements `BoundedLog` |
| `SupervisorProofs` | `TypeOK`, `OverrideMatchesHazards`, `NormalMeansFresh`, `SilenceIsDeclared`, `RecoveryPaced`, `PromptNotLate`, `AllPromptsMade`, `SafeStopLeftOnlyWhenAllBeat`, `TickRollsUpHealth`, `FlagsMatchDistance`, `LogTellsLiveness`, `LogTellsOverride`, `EngagementExplained`; `Supervisor` implements `Verdict` |
| `CompositionProofs` | with history: `OverrideMatchesReports`, `FaultMatchesReports`, `SafeStopEndsPromptly`, history is auxiliary; with timed tasks: `AliveWhileRunning`, `AllRunningIsNormal`, `DeathStops`, `NotPrompted`, `GivenUpInTime`, they restrict the supervisor; with the display: `FrameFaithful`, `CauseCurrent`, `TopLineSettles` |
| `SafetySystemProofs` | `AllMetBeforeMoving`, `ClientsAreServed`, `FaultEnds`; every step is one of `Verdict` or a restart (`Lives`); `NormalEarned`, `FaultsInjected`, `GoneHolds` |
| `SensorTaskProofs` | ultrasonic: `TypeOK`, `SenseBounded`, `DistanceAccurate`, `EchoNotMissed`, `TriggerHeard`, `NeverAnomalous`; IMU: `RestReadsZero`, `FilterBounded`, `BumpDecays` |
| `GpioRegistersProofs` | `TypeOK`, `LevelIsOwn`, `BusKept`, `PinsStayConfigured` |
| `MetricsServerProofs` | `CountedOnce`, `LoadPossible` |

**The supervisor's argument.** None of the timed properties is inductive: they compare `now` with
timestamps, while verdicts are made at ticks. `TimingInv` says what the *last* tick knew. The
clock is within `TICK_LAG` of the next expiry, a live process had beaten within the timeout as
of that tick, a dead one's recovery timer started no earlier than its silence allows, and each
prompt moved it by a grace period. `StateInv` ties the system state to what that tick saw. From
there to `now` is at most `Slack`, a period and the lag, which is the slack in every timed
property. The override needs only that it equals the disjunction of the flags, because
`updateOverride()` acts on edges and would keep any disagreement for ever.

**Tasks that keep time.** `TimedInv` adds to `TimingInv` that a beat within the timeout means alive
(nothing but a tick that finds it older takes that away), that no running task is past its gaps, and
that the last tick made the state NORMAL if all three had been up longer than both gaps by its
expiry. A tick handled late judges by the time it is handled; by then the gaps have been kept all the
same. `DeathStops` combines `GapInv`, by which the last beat came no later than `LINGER` after the death, with
`SilenceIsDeclared`.

**The supervisor implements the verdict.** `ReadingRefines` and `TickRefines` map the two handlers that decide
something. The first needs `OverrideMatchesHazards` before and after, since the code acts on edges and `Judge`
sets the override to what the hazards are. The witnesses of `Review` are the tasks the watchdog declared dead
and whether all data were in time. The step from `Verdict` back to the processes is `SafetySystem`, whose
supervisor is that module's actions.

**The processes.** `SystemInv`: connections, queued pulses and beats remembered are all of tasks this
supervisor has met. A death drops the first two, a start the third. `StepIsVerdict` maps the actions to
`Verdict` with restarts. What ties the verdict to the processes needs both: `NormalIsEarned` that the
beats are of tasks met, `GoneHoldsStop` that a task with no connection, pulse or beat left gets none but by opening a
connection.

**Recovery ends.** `PromptNotLate` speaks of the next prompt. `OutageInv` adds them up: the k-th one of
an outage was made by `PromptedBy(s, k)`, the last beat plus the timeout, a `Slack`, and k turns of a
grace period and a `Slack`. Whatever is dead at `PromptedBy(s, MAX_RESPAWN_ATTEMPTS)` has had them all
(`RecoveryRunsItsCourse`). With `GapInv` this counts from the death itself (`GoneIsGivenUp`), and with
`NoFalseAlarm` a task that keeps its gaps is never prompted for.

**The IMU.** `StillInv`: while the board has not moved, the sum is `ok * rest`, and the average of equal
readings is that reading (`AverageOfEqual`, of either sign, as the division truncates), so every
corrected sample is zero and the filter stays there. `SmoothBetween`: the truncated mean of two values
with weights 1 and 4 lies between them, so the extremes of what was fed bound the filter. `BumpDecays`
says that truncation is towards zero on either side, so the filter does not stall on its way back.

**The load.** `CountedInv` keeps, for each pid, what is counted and what the next sample would add below
what was used under it; `UsedInv` keeps that below `NumCpus * now`. So a report above N * 100 % is made
up for by others (`LoadPossible`).

**Liveness.** The prover has neither `WF_` nor `ENABLED`, so the fairness is written out: for each
thread, either it again and again cannot go on or it goes on again and again, with "can go on" spelled
as a state predicate (`CanLoop` and its neighbours in `ThreadsRun`; a display can always go on, so
`DisplayRuns` has one half). That is weak fairness by its definition. `ClientsAreServed` rests on two
facts: a call, or a pulse, waits until it is received or its caller's connection ends (`CallWaits`,
`PulseWaits`), and what is received is answered. `TopLineSettles` is a chain of the five positions of
the drawing loop: once the decision stands, the next frame is composed with it, and its first line
without a failure puts it on the panel, where nothing removes it. It assumes that the recorded rows
include the top one (`0 \in KeptRow`). `FaultEnds` needs no fairness: its premises say that plausible
readings arrive, one of them arrives after the injectors have stopped, and `PhaseInv` (no call outlives
its caller) keeps it so.

**The driver's argument.** `TaskInv` follows the age of the wait or of the pulse, and the true age
of the echo, through each statement of `sense()`: every statement adds at most one lag to the
difference. `CalmInv` is what makes the next trigger heard: either `sense()` saw the echo end, or it
gave up on it after the timeout, and then `main()` sleeps longer than an echo can still last.

**The registers' argument.** A process that is constructing or up while the other constructs is
marked, unless it was up before the other began (`OverlapNoted`). So the copy that an unmarked
process is about to store is still what the register holds (`CopyFresh`), and a marked one can
only take away modes of a process that is down or marked itself. The bus pins survive even an
overlap, because nobody ever stores another value for them.

**What the log tells.** `Tells` says of a sequence that its latest entry on a matter, if one is left,
agrees with a flag. `KeptTells` shows that this survives one more entry, and the loss of the oldest, if
the entry and the flag change together; so the size of the ring does not matter. `LogInv` is that for
every process and for the override, with every engagement explained by its predecessor. A handler makes
up to three entries on conditions of its own, and each is taken as one step of the lemma. The
explanation needs `OverrideMatchesHazards`: only then does an engagement mean that the reading just
handled shows a hazard. `CauseInv` is the same for the faults of one sensor, which hold only while it
reports a hazard. That the display takes the last entry of all needs that such an entry exists
(`LatestExists`) and is a sensor's (`NoStray`).

**The refinement.** `EventLog` steps map to `BoundedLog` steps: the sequence read from the ring
after `LogEvent` is the old sequence with the event appended and, when full, its first dropped.

Not proved, and checked by TLC only: `StartupDecides`, `KeepsSampling` and `BumpPasses`. Each repeats a
step for as long as a datum counts down: the sleep and the attempts of `main()`, the age of a wait, the
size of the filter. That is induction over data inside a temporal formula, which the prover cannot do;
what a single repetition achieves is proved where it says something by itself (`BumpDecays`,
`SenseBounded`). That `FairSpec`, `FairISpec`, `FairDSpec` and `FairSSpec` imply the written-out
fairness is read off `ENABLED` of each action and is not a theorem either. No module here declares a
recursive operator.

## 5. Not modelled

* Of the channel: message priorities, more than one queued pulse of a task, and the messages and pulses of
  the name service itself. `name_open()` and a disconnect also reach the channel; `handleMessage()` and
  `handlePulse()` have no case for them, and what the kernel does about that is not in this repository. No
  process here sends a message of another type than the three.
* That the display keeps its last frame when the supervisor is gone. The code does so
  (`oled_task.cpp:123`), and nothing says otherwise; `TopLineSettles` is conditional on being heard.
  Likewise, tasks that outlive the supervisor are never heard by the next one (`AllMetBeforeMoving`
  shows that this keeps the vehicle stopped).
* What `cli_status` prints, `dashboard.html` (presentation), `font5x7.h` (data), build files.
* Texts, numbers in texts, acceleration values, event payloads, the measured override latency, the MPU6500's
  registers and units, the SSD1306's power-on sequence and glyphs.
* Sockets and HTTP of the metrics server, and its per-thread figures.

## 6. Plan

Done so far, in this order: event log, supervisor with history, driver and task, registers, IMU,
display, metrics, the abstract verdict and its refinement, tasks that keep time, the processes and the
channel.

1. Proofs: what a walk of the metrics server misses, and how long a death may go unnoticed in the
   composed processes.
2. The display and the status client in `SafetySystem` with a frame each, so that what a reader shows
   can be related to the supervisor's death.
3. Threads and the socket loop of the metrics server.
