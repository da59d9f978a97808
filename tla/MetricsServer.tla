---------------------------- MODULE MetricsServer ----------------------------
(***************************************************************************)
(* The CPU load metrics_server reports.  For every request it walks /proc, *)
(* takes each process's run time, and compares it with what it found at an *)
(* earlier request; both maps outlive the requests and are never cleaned.  *)
(* The processes run, end and start while it walks, and a pid is used      *)
(* again.  The threads of a process are counted the same way and not kept. *)
(***************************************************************************)
EXTENDS Integers, FiniteSets

CONSTANTS
  Pid,
  NumCpus,    \* _syspage_ptr->num_cpu
  MaxNow      \* bound on the clock, for TLC

ASSUME MetricsAssumption == IsFiniteSet(Pid) /\ NumCpus \in Nat \ {0} /\ MaxNow \in Nat

VARIABLES
  now,             \* nowNs(); 0 stands for "no gathering yet"
  running,         \* the processes there are
  busyNs,          \* their run time, utime + stime
  usedNs,          \* all the run time there ever was under a pid
  prevProcess,     \* g_prevProcess, and its keys
  entries,
  prevGatherNs,    \* g_prevGatherNs
  gatherNs,        \* of the walk under way
  todo,            \* the entries of /proc the walk has still to come to
  aggregateNs,     \* aggregateBusyDeltaNs
  countedNs,       \* the run time of a pid counted so far, in all walks
  aggregate        \* the last report: busy time, and the time it took

system == <<now, running, busyNs, usedNs>>
maps == <<prevProcess, entries>>
walk == <<gatherNs, todo, aggregateNs>>
vars == <<system, maps, prevGatherNs, walk, countedNs, aggregate>>

Zero == [p \in Pid |-> 0]

Init ==
  /\ now = 1 /\ running \in SUBSET Pid /\ busyNs = Zero /\ usedNs = Zero
  /\ prevProcess = Zero /\ entries = {} /\ prevGatherNs = 0
  /\ gatherNs = 0 /\ todo = {} /\ aggregateNs = 0
  /\ countedNs = Zero
  /\ aggregate = [busy |-> 0, wall |-> 0]

-----------------------------------------------------------------------------
(***************************************************************************)
(* The board: each processor gives a unit of time to some process or none. *)
(***************************************************************************)
Elapse ==
  /\ now < MaxNow /\ now' = now + 1
  /\ \E share \in [running -> 0 .. NumCpus] :
       /\ \A p, q \in running : p # q => share[p] + share[q] <= NumCpus
       /\ busyNs' = [p \in Pid |-> IF p \in running THEN busyNs[p] + share[p] ELSE busyNs[p]]
       /\ usedNs' = [p \in Pid |-> IF p \in running THEN usedNs[p] + share[p] ELSE usedNs[p]]
  /\ UNCHANGED <<running, maps, prevGatherNs, walk, countedNs, aggregate>>

Starts(p) ==
  /\ p \notin running /\ running' = running \cup {p}
  /\ busyNs' = [busyNs EXCEPT ![p] = 0]
  /\ UNCHANGED <<now, usedNs, maps, prevGatherNs, walk, countedNs, aggregate>>

Ends(p) ==
  /\ p \in running /\ running' = running \ {p}
  /\ UNCHANGED <<now, busyNs, usedNs, maps, prevGatherNs, walk, countedNs, aggregate>>

(***************************************************************************)
(* gatherMetrics(), for one request at a time.                             *)
(***************************************************************************)
Idle == todo = {}

StartGather ==
  /\ Idle /\ running # {}
  /\ gatherNs' = now /\ todo' = Pid /\ aggregateNs' = 0
  /\ UNCHANGED <<system, maps, prevGatherNs, countedNs, aggregate>>

DeltaWallNs == IF prevGatherNs = 0 THEN 0 ELSE gatherNs - prevGatherNs

\* Mutant: a reading that went back counts as run time.
DeltaUnguarded(p) ==
  IF p \in entries /\ DeltaWallNs > 0
  THEN (IF busyNs[p] >= prevProcess[p] THEN busyNs[p] - prevProcess[p] ELSE prevProcess[p] - busyNs[p])
  ELSE 0

\* What an entry adds to the aggregate.
Delta(p) ==
  IF p \in entries /\ DeltaWallNs > 0 /\ busyNs[p] >= prevProcess[p]
  THEN busyNs[p] - prevProcess[p] ELSE 0

\* The walk ends with the entry it visits last.
EndGather(total) ==
  IF todo' = {}
  THEN prevGatherNs' = gatherNs /\ aggregate' = [busy |-> total, wall |-> DeltaWallNs]
  ELSE UNCHANGED <<prevGatherNs, aggregate>>

Sample(p) ==
  /\ p \in todo \cap running
  /\ todo' = todo \ {p}
  /\ aggregateNs' = aggregateNs + Delta(p)
  /\ countedNs' = [countedNs EXCEPT ![p] = @ + Delta(p)]
  /\ prevProcess' = [prevProcess EXCEPT ![p] = busyNs[p]]
  /\ entries' = entries \cup {p}
  /\ EndGather(aggregateNs')
  /\ UNCHANGED <<system, gatherNs>>

\* The process is gone, or its file cannot be opened or asked.
Skip(p) ==
  /\ p \in todo
  /\ todo' = todo \ {p}
  /\ EndGather(aggregateNs)
  /\ UNCHANGED <<system, maps, gatherNs, aggregateNs, countedNs>>

Next ==
  \/ Elapse
  \/ \E p \in Pid : Starts(p) \/ Ends(p) \/ Sample(p) \/ Skip(p)
  \/ StartGather

Spec == Init /\ [][Next]_vars

-----------------------------------------------------------------------------
\* No run time is counted twice, over any number of requests: what is added
\* for a pid was used under it, whichever walks missed it and however often
\* the pid was given to a new process (the guard busyNs >= prev in
\* gatherMetrics(), and the entry it rewrites).
CountedOnce == \A p \in Pid : countedNs[p] <= usedNs[p]

\* The strengthening it rests on: what the next sample of p would add is also
\* still uncounted.
Loads == [Pid -> Nat]

CountedInv ==
  /\ busyNs \in Loads /\ usedNs \in Loads /\ prevProcess \in Loads /\ countedNs \in Loads
  /\ \A p \in Pid : /\ countedNs[p] <= usedNs[p]
                    /\ p \in entries => countedNs[p] + (busyNs[p] - prevProcess[p]) <= usedNs[p]
=============================================================================
