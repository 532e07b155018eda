----------------------------- MODULE SessionMC -----------------------------
(***************************************************************************)
(* Two tabs of one browser, two session IDs, a lifetime of one second.     *)
(***************************************************************************)
EXTENDS Session, TLC

CONSTANTS s1, s2, b1, r1, r2

\* The IDs are alike, and so are the requests; the properties checked with it are invariants.
Alike == Permutations({s1, s2}) \union Permutations({r1, r2})
=============================================================================
