------------------------------ MODULE UsersMC ------------------------------
(***************************************************************************)
(* Two users and a group, two goroutines: a user's and the group's Update  *)
(* write the same pair, and the group's has two pairs to write.            *)
(***************************************************************************)
EXTENDS Users, TLC
CONSTANTS u1, u2, g1, w1, w2

Symmetry == Permutations({w1, w2}) \union Permutations({u1, u2})

\* Making objects and operating on the tables touch different variables, so it is enough
\* to look at operations with one cache, in which each object has an empty set of its own,
\* and after a restart.
Made == (\E w \in Worker : op[w] # "idle")
          => /\ created = Entity /\ cached \in {Entity, {}}
             /\ \A e \in Entity : holds[e] = e /\ sets[e] = {}
=============================================================================
