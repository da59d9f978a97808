----------------------------- MODULE BoundedLog -----------------------------
(***************************************************************************)
(* What the event log promises its readers: the latest Capacity events, in *)
(* the order they were logged, and nothing else.                           *)
(***************************************************************************)
EXTENDS Integers, Sequences

CONSTANTS Capacity, Entry

VARIABLE recent   \* the events a reader sees, oldest first

\* The last Capacity elements of recent with e behind it.
Keep(seq, e) == Append(IF Len(seq) = Capacity THEN Tail(seq) ELSE seq, e)

Init == recent = << >>

Record(e) == recent' = Keep(recent, e)

Next == \E e \in Entry : Record(e)

Spec == Init /\ [][Next]_recent
=============================================================================
