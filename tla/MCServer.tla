------------------------------ MODULE MCServer ------------------------------
(* Two IPs, one of them with two addresses, as behind a NAT. *)
EXTENDS Server

MCIps == {"i", "j"}
MCAddrs == {"i1", "i2", "j1"}
MCIpOf == [a \in MCAddrs |-> IF a = "j1" THEN "j" ELSE "i"]
=============================================================================
