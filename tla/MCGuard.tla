------------------------------ MODULE MCGuard ------------------------------
(***************************************************************************)
(* Instances of Guard for TLC: two addresses that pass the lists, one that *)
(* is blocked though it is allowed, one that no rule allows.               *)
(***************************************************************************)
EXTENDS Guard, TLC

CONSTANTS ip1, ip2, ip3, ip4

Blocked == {{ip3}}
Allowed == {{ip1}, {ip2, ip3}}

Symmetric == Permutations(Req)
=============================================================================
