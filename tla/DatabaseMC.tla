----------------------------- MODULE DatabaseMC -----------------------------
(***************************************************************************)
(* Two clients, two rows and two connections: enough for transactions that *)
(* lock each other out and for a pool that is used up.                     *)
(***************************************************************************)
EXTENDS Database
CONSTANTS c1, c2, k1, k2
=============================================================================
