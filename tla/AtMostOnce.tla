----------------------------- MODULE AtMostOnce -----------------------------
(* What the replay window promises its session: of all the authentic frames  *)
(* the network may duplicate, delay and reorder, each is taken at most once. *)
CONSTANT Frames

VARIABLE taken                \* the number of times each frame was taken

Init == taken = [f \in Frames |-> 0]

Take(f) ==
    /\ taken[f] = 0
    /\ taken' = [taken EXCEPT ![f] = 1]

Next == \E f \in Frames : Take(f)

Spec == Init /\ [][Next]_taken
==============================================================================
