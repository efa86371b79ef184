-------------------------- MODULE MCRawPassthrough --------------------------
(* TLC instances: two TCP clients, one tearing down while another connects,   *)
(* and one client that comes back, which is small enough for liveness.        *)
EXTENDS RawPassthrough

CONSTANTS c1, c2

MCClients == {c1, c2}
LiveClients == {c1}
=============================================================================
