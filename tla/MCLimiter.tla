------------------------------ MODULE MCLimiter ------------------------------
(* One IP more than either table holds, and floats with two exponents.       *)
EXTENDS Limiter, TLC

MCPowers == 0 :> 1 @@ 1 :> 2

Symmetry == Permutations(Ips)

(* The two tables share nothing but the clock and no operation touches both: *)
(* states where both are in use add nothing to those where one is.           *)
OneTableInUse ==
    \/ \A i \in Ips : spent[i] = 0
    \/ \A i \in Ips : running[i] = 0 /\ sessions[i] = 0 /\ tried[i] = 0
=============================================================================
