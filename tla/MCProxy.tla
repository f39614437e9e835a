------------------------------ MODULE MCProxy ------------------------------
(***************************************************************************)
(* An instance of Proxy for TLC: an address that passes the lists, one     *)
(* that is blocked and one that no rule allows; heads with and without a   *)
(* hop-by-hop header and the headers that the proxy sets itself.           *)
(***************************************************************************)
EXTENDS Proxy

CONSTANTS ip1, ip2, ip3

Blocked == {{ip2}}
Allowed == {{ip1, ip2}}

SomeHeads == {[connection |-> "close", other |-> "x"],
              [forwarded_for |-> ip3, frame_options |-> "ALLOW",
               other |-> "x"]}
=============================================================================
