---------------------------- MODULE TokenBuckets ----------------------------
(* What a rate limit by token bucket promises: one bucket for every address, *)
(* full at first, that fills by one unit each tick.  Memory is bounded by    *)
(* Room: when more buckets than that are not full, some may be forgotten,    *)
(* that is, be full again, until Room of them are left; never otherwise.     *)
EXTENDS Naturals, FiniteSets

CONSTANTS Ips, Capacity, Cost, Room

VARIABLES
    now,
    level,                    \* what each bucket holds
    spent,                    \* what was taken from it before it was forgotten
    forgotten                 \* the addresses whose bucket was forgotten once

Init ==
    /\ now = 1
    /\ level = [i \in Ips |-> Capacity]
    /\ spent = [i \in Ips |-> 0]
    /\ forgotten = {}

Grant(i) ==
    LET left == [level EXCEPT ![i] = @ - Cost]
        active == {j \in Ips : left[j] < Capacity}
    IN  /\ level[i] >= Cost
        /\ spent' = [spent EXCEPT ![i] = IF i \in forgotten THEN @ ELSE @ + Cost]
        /\ \E lost \in SUBSET (active \ {i}) :
             /\ lost = {} \/ Cardinality(active \ lost) = Room
             /\ level' = [j \in Ips |-> IF j \in lost THEN Capacity ELSE left[j]]
             /\ forgotten' = forgotten \union lost
        /\ UNCHANGED now

Tick ==
    /\ now' = now + 1
    /\ level' = [i \in Ips |-> IF level[i] < Capacity THEN level[i] + 1 ELSE Capacity]
    /\ UNCHANGED <<spent, forgotten>>

Next == Tick \/ \E i \in Ips : Grant(i)

Spec == Init /\ [][Next]_<<now, level, spent, forgotten>>
=============================================================================
