----------------------------- MODULE TokenGame -----------------------------
(***************************************************************************)
(* What the workflow engine promises about a running process, without its  *)
(* data structures: a token game on a graph.  Every process instance has a *)
(* set of active nodes.  An active node may fire: it leaves the set and    *)
(* hands over to the nodes it is connected to - all of them if it splits,  *)
(* one otherwise.  A node that joins is entered only when none of its      *)
(* predecessors is active any more; until then the branch that reached it  *)
(* is kept by one of those predecessors.  So no branch is ever dropped.    *)
(***************************************************************************)
EXTENDS FiniteSets

CONSTANTS Node, ProcessInst,
          Split,    \* nodes whose outgoing side is parallel
          Join      \* nodes whose incoming side is parallel

VARIABLES active,   \* process instance -> set of active nodes
          succ,     \* node -> nodes its outgoing lines lead to
          pred      \* node -> nodes its incoming lines come from

vars == <<active, succ, pred>>

Init == /\ active = [pi \in ProcessInst |-> {}]
        /\ succ = [n \in Node |-> {}]
        /\ pred = [n \in Node |-> {}]

\* The designer adds nodes and lines; a definition never shrinks.
Design == /\ succ' \in [Node -> SUBSET Node]
          /\ pred' \in [Node -> SUBSET Node]
          /\ \A n \in Node : succ[n] \subseteq succ'[n] /\ pred[n] \subseteq pred'[n]
          /\ UNCHANGED active

Begin(pi) == /\ active[pi] = {}
             /\ \E n \in Node : active' = [active EXCEPT ![pi] = {n}]
             /\ UNCHANGED <<succ, pred>>

\* The nodes that a firing of n may hand over to.
HandOver(n) == IF n \in Split THEN {succ[n]} ELSE {{s} : s \in succ[n]}

Fire(pi, n) ==
  /\ n \in active[pi] /\ succ[n] # {}
  /\ \E taken \in HandOver(n) : \E entered \in SUBSET taken :
       /\ active' = [active EXCEPT ![pi] = (@ \ {n}) \union entered]
       /\ \A s \in entered \intersect Join : pred[s] \intersect (active[pi] \ {n}) = {}
       /\ \A s \in taken \ entered :
            s \in Join /\ pred[s] \intersect ((active[pi] \ {n}) \union entered) # {}
  /\ UNCHANGED <<succ, pred>>

Next == \/ Design
        \/ \E pi \in ProcessInst : Begin(pi) \/ \E n \in Node : Fire(pi, n)

Spec == Init /\ [][Next]_vars
=============================================================================
