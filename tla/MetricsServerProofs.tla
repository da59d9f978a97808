------------------------- MODULE MetricsServerProofs -------------------------
(***************************************************************************)
(* Proofs about metrics_server's counting, for any number of processes,    *)
(* processors and requests.                                                *)
(***************************************************************************)
EXTENDS MetricsServer, TLAPS

\* Run time not yet counted is never less than what the next sample adds
\* (the maps of gatherMetrics()).
THEOREM CountingCorrect == Spec => []CountedInv
<1>1. Init => CountedInv
  BY DEF Init, Zero, CountedInv, Loads
<1>2. CountedInv /\ [Next]_vars => CountedInv'
  <2> SUFFICES ASSUME CountedInv, [Next]_vars PROVE CountedInv'
    OBVIOUS
  <2>1. CASE Elapse
    <3>1. PICK share \in [running -> 0 .. NumCpus] :
            /\ busyNs' = [p \in Pid |-> IF p \in running THEN busyNs[p] + share[p] ELSE busyNs[p]]
            /\ usedNs' = [p \in Pid |-> IF p \in running THEN usedNs[p] + share[p] ELSE usedNs[p]]
      BY <2>1 DEF Elapse
    <3>2. \A p \in running : share[p] \in Nat
      BY MetricsAssumption
    <3>3. UNCHANGED <<maps, countedNs>>
      BY <2>1 DEF Elapse
    <3> QED BY <3>1, <3>2, <3>3 DEF CountedInv, Loads, maps
  <2>2. ASSUME NEW p \in Pid, Starts(p) PROVE CountedInv'
    BY <2>2 DEF Starts, CountedInv, Loads, maps
  <2>3. ASSUME NEW p \in Pid, Ends(p) PROVE CountedInv'
    BY <2>3 DEF Ends, CountedInv, Loads, maps
  <2>4. ASSUME NEW p \in Pid, Sample(p) PROVE CountedInv'
    <3>1. Delta(p) \in Nat /\ countedNs[p] + Delta(p) <= usedNs[p]
      BY DEF Delta, CountedInv, Loads
    <3>2. /\ countedNs' = [countedNs EXCEPT ![p] = @ + Delta(p)]
          /\ prevProcess' = [prevProcess EXCEPT ![p] = busyNs[p]]
          /\ entries' = entries \cup {p}
          /\ UNCHANGED <<busyNs, usedNs>>
      BY <2>4 DEF Sample, system
    <3> QED BY <3>1, <3>2 DEF CountedInv, Loads
  <2>5. ASSUME NEW p \in Pid, Skip(p) PROVE CountedInv'
    BY <2>5 DEF Skip, CountedInv, Loads, maps, system
  <2>6. CASE StartGather
    BY <2>6 DEF StartGather, CountedInv, Loads, maps, system
  <2>7. CASE UNCHANGED vars
    BY <2>7 DEF vars, CountedInv, Loads, maps, system
  <2> QED BY <2>1, <2>2, <2>3, <2>4, <2>5, <2>6, <2>7 DEF Next
<1> QED BY <1>1, <1>2, PTL DEF Spec

\* No run time of a process is counted twice, over any number of requests.
THEOREM NothingCountedTwice == Spec => []CountedOnce
<1>1. CountedInv => CountedOnce
  BY DEF CountedInv, CountedOnce
<1> QED BY <1>1, CountingCorrect, PTL

\* A process cannot have used more than all processors gave since the start.
UsedInv == now \in Nat /\ usedNs \in Loads /\ \A p \in Pid : usedNs[p] <= NumCpus * now

\* One report may exceed N * 100 %, because a walk takes its samples at other
\* times than it is timed by (gatherMetrics()); but added up over all requests, no
\* pid is credited with more than every processor working for it all the time.
LoadPossible == \A p \in Pid : countedNs[p] <= NumCpus * now

\* The excess of one report is what another one lacks.
THEOREM LoadIsPossible == Spec => []LoadPossible
<1>1. Init => UsedInv
  BY MetricsAssumption DEF Init, Zero, UsedInv, Loads
<1>2. UsedInv /\ [Next]_vars => UsedInv'
  <2> SUFFICES ASSUME UsedInv, [Next]_vars PROVE UsedInv'
    OBVIOUS
  <2>1. CASE Elapse
    <3>1. PICK share \in [running -> 0 .. NumCpus] :
            usedNs' = [p \in Pid |-> IF p \in running THEN usedNs[p] + share[p] ELSE usedNs[p]]
      BY <2>1 DEF Elapse
    <3>2. now' = now + 1 /\ now \in Nat /\ NumCpus \in Nat /\ NumCpus * now \in Nat
      BY <2>1, MetricsAssumption DEF Elapse, UsedInv
    <3>3. NumCpus * now' = NumCpus * now + NumCpus
      BY <3>2
    <3>4. ASSUME NEW p \in Pid
          PROVE  usedNs'[p] \in Nat /\ usedNs'[p] <= NumCpus * now + NumCpus
      <4>1. usedNs[p] \in Nat /\ usedNs[p] <= NumCpus * now
        BY DEF UsedInv, Loads
      <4>2. p \in running => share[p] \in 0 .. NumCpus
        OBVIOUS
      <4>3. usedNs'[p] = usedNs[p] + (IF p \in running THEN share[p] ELSE 0)
        BY <3>1, <4>1
      <4> HIDE <3>1
      <4> QED BY <3>2, <4>1, <4>2, <4>3
    <3>5. usedNs' \in Loads
      BY <3>1, <3>4 DEF Loads
    <3> QED BY <3>2, <3>3, <3>4, <3>5 DEF UsedInv
  <2>2. CASE UNCHANGED <<now, usedNs>>
    BY <2>2 DEF UsedInv
  <2>3. ASSUME NEW p \in Pid, Starts(p) \/ Ends(p) \/ Sample(p) \/ Skip(p) PROVE UNCHANGED <<now, usedNs>>
    BY <2>3 DEF Starts, Ends, Sample, Skip, system
  <2>4. StartGather \/ UNCHANGED vars => UNCHANGED <<now, usedNs>>
    BY DEF StartGather, system, vars
  <2> QED BY <2>1, <2>2, <2>3, <2>4 DEF Next
<1>3. CountedInv /\ UsedInv => LoadPossible
  <2> SUFFICES ASSUME CountedInv, UsedInv, NEW p \in Pid PROVE countedNs[p] <= NumCpus * now
    BY DEF LoadPossible
  <2>1. countedNs[p] \in Nat /\ usedNs[p] \in Nat /\ countedNs[p] <= usedNs[p]
    BY DEF CountedInv, Loads
  <2>2. usedNs[p] <= NumCpus * now /\ NumCpus * now \in Nat
    BY MetricsAssumption DEF UsedInv
  <2> QED BY <2>1, <2>2
<1> QED BY <1>1, <1>2, <1>3, CountingCorrect, PTL DEF Spec
=============================================================================
