----------------------------- MODULE WorkflowMC -----------------------------
(***************************************************************************)
(* Process definitions for model checking the engine.                      *)
(***************************************************************************)
EXTENDS Workflow, TLC

CONSTANTS s, f, a, b, j, e,    \* the process Fork
          q, k, l, x, y,       \* the process Knot
          Fork, Knot,
          i1, i2,
          d0, d1               \* d0: the rules of the first choice hold

MCNode == {s, f, a, b, j, e, q, k, l, x, y}
MCData == {d0, d1}

\* j and k, l join; f and q split; y has the unsupported inclusive side.
MCInType == [n \in MCNode |-> IF n \in {j, k, l} THEN "Parallel" ELSE "Exclusive"]
MCOutType == [n \in MCNode |-> CASE n \in {f, q} -> "Parallel"
                                 [] n = y -> "Inclusive"
                                 [] OTHER -> "Exclusive"]

\* The two nodes k and y of Knot are both called "k".
MCName == [n \in MCNode |-> IF n = y THEN k ELSE n]

Always(n) == [node |-> n, rule |-> MCData]
If(d, n) == [node |-> n, rule |-> {d}]

Lines(m) == [n \in MCNode |-> IF n \in DOMAIN m THEN m[n] ELSE <<>>]

\* A fork into two branches that meet in a join, which goes round again or ends.  The
\* second branch is opened only under d1.
ForkRequest ==
  [process |-> Fork, entrance |-> s, nodes |-> {s, f, a, b, j, e},
   lines |-> Lines((s :> <<Always(f)>>) @@ (f :> <<Always(a), If(d1, b)>>) @@
                   (a :> <<Always(j)>>) @@ (b :> <<Always(j)>>) @@
                   (j :> <<If(d0, f), Always(e)>>))]

\* The same process set again with one more line, a way back out of the first branch.
ForkAgain ==
  [ForkRequest EXCEPT !.lines = Lines(a :> <<If(d0, s)>>)]

\* Two joins that are each other's predecessors, opened by the start node together with
\* a branch x that may be redone before it reaches one of them.
KnotRequest ==
  [process |-> Knot, entrance |-> q, nodes |-> {q, k, l, x, y},
   lines |-> Lines((q :> <<Always(k), Always(l), Always(x)>>) @@
                   (k :> <<If(d1, l), Always(y)>>) @@ (l :> <<If(d0, k), Always(x)>>) @@
                   (x :> <<If(d0, x), Always(l)>>) @@ (y :> <<Always(x)>>))]

MCRequest == {ForkRequest, ForkAgain, KnotRequest}

\* A fork whose second branch has two steps before the join.
UnevenRequest ==
  [ForkRequest EXCEPT !.lines =
     Lines((s :> <<Always(f)>>) @@ (f :> <<Always(a), Always(b)>>) @@
           (a :> <<Always(j)>>) @@ (b :> <<Always(e)>>) @@ (e :> <<Always(j)>>))]
MCUneven == {UnevenRequest}

\* A fork whose branches meet in an ordinary node.
MCMerge == {[ForkRequest EXCEPT !.lines =
               Lines((s :> <<Always(f)>>) @@ (f :> <<Always(a), Always(b)>>) @@
                     (a :> <<Always(e)>>) @@ (b :> <<Always(e)>>))]}
=============================================================================
