--------------------------- MODULE WorkflowProofs ---------------------------
(***************************************************************************)
(* Proofs about the workflow engine, for any set of definitions, nodes,    *)
(* data and process instances.                                             *)
(***************************************************************************)
EXTENDS Workflow, WellFoundedInduction, TLAPS

-----------------------------------------------------------------------------
(* Instance numbers. *)

\* Every nonempty set of natural numbers has a smallest element.
LEMMA SmallestExists ==
  ASSUME NEW T \in SUBSET Nat, T # {}
  PROVE  \E t \in T : \A u \in T : t <= u
<1> DEFINE R == {ss \in Nat \X Nat : ss[1] < ss[2]}
<1>1. IsWellFoundedOn(R, Nat)
  BY NatLessThanWellFounded DEF OpToRel
<1>2. PICK t \in T : \A u \in T : ~ (<<u, t>> \in R)
  <2> HIDE DEF R
  <2> QED BY <1>1, WFMin
<1>3. ASSUME NEW u \in T, ~ (t <= u) PROVE FALSE
  <2>1. u \in Nat /\ t \in Nat
    OBVIOUS
  <2>2. u < t
    BY <1>3, <2>1
  <2>3. <<u, t>> \in R
    BY <2>1, <2>2
  <2> QED BY <1>2, <2>3
<1> QED BY <1>3

\* A nonempty set of numbers below a bound has a largest one.
LEMMA LargestExists ==
  ASSUME NEW N \in Nat, NEW S \in SUBSET (0..N), S # {}
  PROVE  \E i \in S : \A j \in S : j <= i
<1> DEFINE T == {N - i : i \in S}
<1>1. \A i \in S : i \in Nat /\ N - i \in Nat /\ N - i \in T
  <2> TAKE i \in S
  <2>1. i \in 0..N
    OBVIOUS
  <2> QED BY <2>1
<1>2. T \in SUBSET Nat /\ T # {}
  BY <1>1
<1>3. PICK t \in T : \A u \in T : t <= u
  <2> HIDE DEF T
  <2> QED BY <1>2, SmallestExists
<1>4. PICK i \in S : t = N - i
  OBVIOUS
<1>5. \A j \in S : j <= i
  <2> TAKE j \in S
  <2>1. N - i <= N - j
    BY <1>1, <1>3, <1>4
  <2> QED BY <1>1, <2>1
<1> QED BY <1>5

\* What NodeAfter gives: the last instance created for the node, or else what it had.
LEMMA NodeAfterCases ==
  ASSUME NEW pi, NEW n, NEW taken \in Seq(Relation), NEW added \in SUBSET DOMAIN taken, NEW m
  PROVE  LET mine == {i \in added : taken[i].node = m}
         IN  \/ \E i \in mine : /\ NodeAfter(pi, n, taken, added, m) = last[pi] + i
                                /\ \A j \in mine : j <= i
             \/ mine = {} /\ m = n /\ NodeAfter(pi, n, taken, added, m) = 0
             \/ mine = {} /\ m # n /\ NodeAfter(pi, n, taken, added, m) = tokenNodes[pi][m]
<1> DEFINE mine == {i \in added : taken[i].node = m}
<1>1. CASE mine = {}
  BY <1>1 DEF NodeAfter
<1>2. CASE mine # {}
  <2>1. mine \in SUBSET (0..Len(taken)) /\ Len(taken) \in Nat
    OBVIOUS
  <2>2. \E i \in mine : \A j \in mine : j <= i
    <3> HIDE DEF mine
    <3> QED BY <1>2, <2>1, LargestExists
  <2> DEFINE top == CHOOSE i \in mine : \A j \in mine : j <= i
  <2>3. top \in mine /\ \A j \in mine : j <= top
    BY <2>2
  <2>4. NodeAfter(pi, n, taken, added, m) = last[pi] + top
    BY <1>2 DEF NodeAfter
  <2> QED BY <2>3, <2>4
<1> QED BY <1>1, <1>2

-----------------------------------------------------------------------------
(* Type correctness. *)

\* What a submission takes are relations, and Len of them fit.
LEMMA AdvanceType ==
  ASSUME TypeOK, NEW pi \in ProcessInst, NEW n \in Token(pi), NEW taken \in Seq(Relation),
         Advance(pi, n, taken)
  PROVE  TypeOK'
<1> USE BoundAssumption DEF InstID
<1>1. PICK added \in SUBSET Reached(pi, taken) : Advance(pi, n, taken)!2!(added)
  BY DEF Advance
<1>2. added \in SUBSET DOMAIN taken /\ \A i \in added : i \in 1..Len(taken)
  BY DEF Reached
<1>3. last[pi] \in Nat /\ Len(taken) \in Nat /\ last[pi] + Len(taken) <= MaxInsts
  BY DEF Advance, TypeOK
<1>4. \A i \in added : last[pi] + i \in InstID /\ taken[i].node \in Node
  <2> TAKE i \in added
  <2>1. i \in 1..Len(taken)
    BY <1>2
  <2>2. taken[i] \in Relation
    BY <2>1
  <2> QED BY <1>3, <2>1, <2>2 DEF Relation
<1>5. n \in Node
  BY DEF Token
<1>6. \A m \in Node : NodeAfter(pi, n, taken, added, m) \in 0..MaxInsts
  <2> TAKE m \in Node
  <2>1. tokenNodes[pi][m] \in 0..MaxInsts
    BY DEF TypeOK
  <2> QED BY <1>2, <1>3, <1>4, <2>1, NodeAfterCases
<1>7. tokenNodes' \in [ProcessInst -> [Node -> 0..MaxInsts]]
  BY <1>1, <1>6 DEF TypeOK
<1>8. tokenInsts' \in [ProcessInst -> SUBSET InstID]
  BY <1>1, <1>4 DEF TypeOK
<1>9. instNode' \in [ProcessInst -> [InstID -> Node \union {None}]]
  BY <1>1, <1>4 DEF TypeOK
<1>10. instStatus' \in [ProcessInst ->
                          [InstID -> {"Unused", "Ready", "Running", "Waiting", "Closed"}]]
  BY <1>1 DEF TypeOK, InstAfter
<1>11. status' \in [ProcessInst -> SUBSET {Name[m] : m \in Node}]
  BY <1>1, <1>4 DEF TypeOK, StatusAfter
<1>12. last' \in [ProcessInst -> 0..MaxInsts]
  BY <1>3 DEF Advance, TypeOK
<1> QED BY <1>7, <1>8, <1>9, <1>10, <1>11, <1>12 DEF TypeOK, Advance, defVars

\* Setting a process keeps the types: a relation list grows by one of the request's.
LEMMA SetProcessType ==
  ASSUME TypeOK, NEW r \in Request, SetProcess(r)
  PROVE  TypeOK'
<1> USE BoundAssumption
<1>1. r \in RequestType
  BY RequestAssumption
<1>2. /\ r.process \in Process /\ r.entrance \in Node /\ r.nodes \in SUBSET Node
      /\ r.lines \in [Node -> Seq(Relation)]
  BY <1>1 DEF RequestType
<1>3. To' \in [Node -> Seq(Relation)]
  BY <1>2 DEF SetProcess, TypeOK
<1>4. From' \in [Node -> SUBSET Node]
  BY <1>2 DEF SetProcess, TypeOK, ComesFrom
<1>5. regs' \in [Process -> 0..MaxRegs]
  BY <1>2 DEF SetProcess, TypeOK
<1>6. processDefs' \in [Process -> Node \union {None}] /\ nodes' \in [Process -> SUBSET Node]
  BY <1>2 DEF SetProcess, TypeOK
<1> QED BY <1>3, <1>4, <1>5, <1>6 DEF SetProcess, TypeOK, tokenVars

\* The relations a submission takes.
LEMMA TakenRelations ==
  ASSUME TypeOK, NEW n \in Node
  PROVE  To[n] \in Seq(Relation) /\ \A i \in DOMAIN To[n] : <<To[n][i]>> \in Seq(Relation)
BY DEF TypeOK

\* Every step of the engine keeps the types.
LEMMA TypeStep == TypeOK /\ [Next]_vars => TypeOK'
<1> SUFFICES ASSUME TypeOK, [Next]_vars PROVE TypeOK'
  OBVIOUS
<1> USE BoundAssumption, DataAssumption
<1>1. CASE \E r \in Request : SetProcess(r)
  BY <1>1, SetProcessType
<1>2. ASSUME NEW pi \in ProcessInst, NEW p \in Process, Start(pi, p) PROVE TypeOK'
  <2>1. processDefs[p] \in Node /\ 1 \in InstID
    BY <1>2 DEF Start, TypeOK, InstID
  <2>2. instNode' \in [ProcessInst -> [InstID -> Node \union {None}]]
    BY <1>2, <2>1 DEF Start, TypeOK
  <2>3. instStatus' \in [ProcessInst ->
                           [InstID -> {"Unused", "Ready", "Running", "Waiting", "Closed"}]]
    BY <1>2, <2>1 DEF Start, TypeOK
  <2>4. tokenNodes' \in [ProcessInst -> [Node -> 0..MaxInsts]]
        /\ tokenInsts' \in [ProcessInst -> SUBSET InstID]
        /\ last' \in [ProcessInst -> 0..MaxInsts]
    BY <1>2, <2>1 DEF Start, TypeOK, InstID
  <2>5. processID' \in [ProcessInst -> Process \union {None}]
    BY <1>2 DEF Start, TypeOK
  <2> QED BY <1>2, <2>2, <2>3, <2>4, <2>5 DEF Start, TypeOK, defVars
<1>3. ASSUME NEW pi \in ProcessInst, NEW d \in Data, SetData(pi, d) PROVE TypeOK'
  BY <1>3 DEF SetData, TypeOK, defVars, tokenVars
<1>4. ASSUME NEW pi \in ProcessInst, NEW n \in Node, Submit(pi, n) PROVE TypeOK'
  <2>1. CASE SubmitParallel(pi, n)
    BY <2>1, AdvanceType, TakenRelations DEF SubmitParallel, CanPush
  <2>2. CASE SubmitWaits(pi, n)
    <3>1. tokenNodes[pi][n] \in InstID
      BY <2>2 DEF SubmitWaits, CanPush, Token, TypeOK, InstID
    <3>2. instStatus' \in [ProcessInst ->
                             [InstID -> {"Unused", "Ready", "Running", "Waiting", "Closed"}]]
      BY <2>2, <3>1 DEF SubmitWaits, TypeOK
    <3> QED BY <2>2, <3>2 DEF SubmitWaits, TypeOK, defVars
  <2>3. CASE SubmitExclusive(pi, n)
    BY <2>3, AdvanceType, TakenRelations DEF SubmitExclusive, CanPush
  <2>4. CASE SubmitRefused(pi, n)
    BY <2>4 DEF SubmitRefused, vars, defVars, tokenVars, TypeOK
  <2> QED BY <1>4, <2>1, <2>2, <2>3, <2>4 DEF Submit
<1>5. CASE UNCHANGED vars
  BY <1>5 DEF vars, defVars, tokenVars, TypeOK
<1> QED BY <1>1, <1>2, <1>3, <1>4, <1>5 DEF Next

\* The variables of the engine have their types in every reachable state.
THEOREM TypeCorrect == Spec => []TypeOK
<1>1. Init => TypeOK
  BY BoundAssumption, DataAssumption DEF Init, TypeOK, InstID
<1> QED BY <1>1, TypeStep, PTL DEF Spec

-----------------------------------------------------------------------------
(* The two maps of a token. *)

\* What Advance does to the token of pi when it enters the nodes of the relations added.
Moves(pi, n, taken, added) ==
  /\ Entering(pi, n, taken, added)
  /\ \A m \in Node : tokenNodes'[pi][m] = NodeAfter(pi, n, taken, added, m)
  /\ tokenInsts'[pi] = (tokenInsts[pi] \ {tokenNodes[pi][n]})
                         \union {last[pi] + i : i \in added}
  /\ status'[pi] = StatusAfter(pi, n, taken, added)
  /\ \A i \in added : /\ i \in 1..Len(taken)
                      /\ last[pi] + i \in InstID
                      /\ instNode'[pi][last[pi] + i] = taken[i].node
                      /\ instStatus'[pi][last[pi] + i] = "Running"
  /\ \A k \in InstID : k <= last[pi] =>
       /\ instNode'[pi][k] = instNode[pi][k]
       /\ instStatus'[pi][k] = IF k = tokenNodes[pi][n] THEN "Closed" ELSE instStatus[pi][k]
  /\ \A k \in InstID : k > last[pi] /\ (\A i \in added : k # last[pi] + i) =>
       instNode'[pi][k] = instNode[pi][k]

\* An advance moves one process instance as Moves says, for some choice of nodes entered,
\* and leaves the others alone.
LEMMA AdvanceFacts ==
  ASSUME TypeOK, NEW pi \in ProcessInst, NEW n \in Token(pi), NEW taken \in Seq(Relation),
         Advance(pi, n, taken)
  PROVE  /\ \A qi \in ProcessInst \ {pi} :
              /\ tokenNodes'[qi] = tokenNodes[qi] /\ tokenInsts'[qi] = tokenInsts[qi]
              /\ instNode'[qi] = instNode[qi] /\ instStatus'[qi] = instStatus[qi]
              /\ status'[qi] = status[qi] /\ last'[qi] = last[qi]
         /\ last'[pi] = last[pi] + Len(taken)
         /\ \E added \in SUBSET Reached(pi, taken) : Moves(pi, n, taken, added)
<1>1. PICK added \in SUBSET Reached(pi, taken) : Advance(pi, n, taken)!2!(added)
  BY DEF Advance
<1>2. \A i \in added : i \in 1..Len(taken)
  BY DEF Reached
<1>3. last[pi] \in Nat /\ Len(taken) \in Nat /\ last[pi] + Len(taken) <= MaxInsts
  BY BoundAssumption DEF Advance, TypeOK
<1>4. \A i \in added : i \in Nat \ {0} /\ last[pi] + i \in InstID
                       /\ last[pi] + i - last[pi] = i
  BY <1>2, <1>3, BoundAssumption DEF InstID
<1>5. \A k \in InstID : k <= last[pi] => k - last[pi] \notin added
  BY <1>3, <1>4, BoundAssumption DEF InstID
<1>6. \A i \in added : /\ instNode'[pi][last[pi] + i] = taken[i].node
                       /\ instStatus'[pi][last[pi] + i] = "Running"
  BY <1>1, <1>4 DEF TypeOK, InstAfter
<1>7. \A k \in InstID : k <= last[pi] =>
        /\ instNode'[pi][k] = instNode[pi][k]
        /\ instStatus'[pi][k] = IF k = tokenNodes[pi][n] THEN "Closed" ELSE instStatus[pi][k]
  BY <1>1, <1>5 DEF TypeOK, InstAfter
<1>8. \A m \in Node : tokenNodes'[pi][m] = NodeAfter(pi, n, taken, added, m)
  BY <1>1 DEF TypeOK
<1>9. /\ tokenInsts'[pi] = (tokenInsts[pi] \ {tokenNodes[pi][n]})
                             \union {last[pi] + i : i \in added}
      /\ status'[pi] = StatusAfter(pi, n, taken, added)
  BY <1>1 DEF TypeOK
<1>10. last'[pi] = last[pi] + Len(taken)
  BY DEF Advance, TypeOK
<1>11. \A qi \in ProcessInst \ {pi} :
         /\ tokenNodes'[qi] = tokenNodes[qi] /\ tokenInsts'[qi] = tokenInsts[qi]
         /\ instNode'[qi] = instNode[qi] /\ instStatus'[qi] = instStatus[qi]
         /\ status'[qi] = status[qi] /\ last'[qi] = last[qi]
  BY <1>1 DEF TypeOK, Advance
<1>12. \A k \in InstID : k > last[pi] /\ (\A i \in added : k # last[pi] + i) =>
         instNode'[pi][k] = instNode[pi][k]
  <2> SUFFICES ASSUME NEW k \in InstID, \A i \in added : k # last[pi] + i
               PROVE  instNode'[pi][k] = instNode[pi][k]
    OBVIOUS
  <2>1. k - last[pi] \notin added
    BY <1>3, BoundAssumption DEF InstID
  <2> QED BY <1>1, <2>1 DEF TypeOK
<1>13. Moves(pi, n, taken, added)
  BY <1>1, <1>2, <1>4, <1>6, <1>7, <1>8, <1>9, <1>12 DEF Moves
<1> QED BY <1>10, <1>11, <1>13

\* An advance keeps the maps consistent: the instances it creates are new, and the one
\* it closes is the only one that Token.nodes holds for its node.
LEMMA AdvanceIndex ==
  ASSUME TypeOK, IndexConsistent,
         NEW pi \in ProcessInst, NEW n \in Token(pi), NEW taken \in Seq(Relation),
         Advance(pi, n, taken)
  PROVE  IndexConsistent'
<1> DEFINE old == tokenNodes[pi]
           new == tokenNodes'[pi]
<1>1. PICK added \in SUBSET Reached(pi, taken) : Moves(pi, n, taken, added)
  BY AdvanceFacts
<1>2. /\ n \in Node /\ last[pi] \in Nat /\ Len(taken) \in Nat
      /\ nodes' = nodes /\ processID' = processID
  BY DEF Token, TypeOK, Advance, defVars
<1>3. /\ Running(pi) /\ n \in nodes[processID[pi]]
      /\ \A m \in Token(pi) : old[m] \in tokenInsts[pi] /\ instNode[pi][old[m]] = m
      /\ \A i \in tokenInsts[pi] : i \in InstID /\ i <= last[pi]
      /\ \A i \in tokenInsts[pi] : instStatus[pi][i] \in {"Ready", "Running", "Waiting"}
  BY DEF IndexConsistent, TypeOK
<1>4. ASSUME NEW m \in Node, new[m] # 0
      PROVE  new[m] \in tokenInsts'[pi] /\ instNode'[pi][new[m]] = m /\ m \in nodes[processID[pi]]
  <2>1. CASE \E i \in added : taken[i].node = m /\ new[m] = last[pi] + i
    BY <1>1, <2>1 DEF Reached, Moves
  <2>2. CASE m # n /\ new[m] = old[m]
    <3>1. m \in Token(pi) /\ old[m] # old[n]
      BY <1>2, <1>3, <1>4, <2>2 DEF Token
    <3> QED BY <1>1, <1>3, <2>2, <3>1 DEF IndexConsistent, Moves
  <2> QED BY <1>1, <1>4, <2>1, <2>2, NodeAfterCases DEF Reached, Moves
<1>5. ASSUME NEW i \in tokenInsts'[pi]
      PROVE  i <= last'[pi] /\ instStatus'[pi][i] \in {"Ready", "Running", "Waiting"}
  <2>1. last'[pi] = last[pi] + Len(taken)
    BY AdvanceFacts
  <2>2. CASE i \in tokenInsts[pi] /\ i # old[n]
    <3>1. i \in InstID /\ i <= last[pi] /\ instStatus'[pi][i] = instStatus[pi][i]
      BY <1>1, <1>3, <2>2 DEF Moves
    <3> QED BY <1>2, <1>3, <2>1, <2>2, <3>1, BoundAssumption DEF InstID
  <2>3. CASE \E h \in added : i = last[pi] + h
    <3>1. PICK h \in added : i = last[pi] + h
      BY <2>3
    <3>2. h \in 1..Len(taken) /\ instStatus'[pi][last[pi] + h] = "Running"
      BY <1>1 DEF Moves
    <3> QED BY <1>2, <2>1, <3>1, <3>2
  <2> QED BY <1>1, <1>5, <2>2, <2>3 DEF Moves
<1>6. ASSUME NEW qi \in ProcessInst, qi # pi
      PROVE  /\ Token(qi)' = Token(qi) /\ tokenNodes'[qi] = tokenNodes[qi]
             /\ tokenInsts'[qi] = tokenInsts[qi] /\ instNode'[qi] = instNode[qi]
             /\ instStatus'[qi] = instStatus[qi] /\ last'[qi] = last[qi]
  BY <1>6, AdvanceFacts DEF Token
<1>7. Token(pi)' = {m \in Node : new[m] # 0}
  BY DEF Token
<1> QED BY <1>2, <1>3, <1>4, <1>5, <1>6, <1>7 DEF IndexConsistent, Running

\* Every step of the engine keeps the two maps consistent.
LEMMA IndexStep == TypeOK /\ IndexConsistent /\ [Next]_vars => IndexConsistent'
<1> SUFFICES ASSUME TypeOK, IndexConsistent, [Next]_vars PROVE IndexConsistent'
  OBVIOUS
<1>1. ASSUME NEW r \in Request, SetProcess(r) PROVE IndexConsistent'
  <2>1. \A p \in Process : nodes[p] \subseteq nodes'[p]
    BY <1>1 DEF SetProcess, TypeOK
  <2>2. UNCHANGED <<processID, tokenNodes, tokenInsts, instNode, instStatus, last>>
    BY <1>1 DEF SetProcess, tokenVars
  <2>3. \A pi \in ProcessInst : Running(pi) => processID[pi] \in Process
    BY DEF Running, TypeOK
  <2> QED BY <2>1, <2>2, <2>3 DEF IndexConsistent, Running, Token
<1>2. ASSUME NEW pi \in ProcessInst, NEW p \in Process, Start(pi, p) PROVE IndexConsistent'
  <2>1. processDefs[p] \in Node /\ 1 \in InstID /\ p # None
    BY <1>2, BoundAssumption, NoneAssumption DEF Start, TypeOK, InstID
  <2>2. /\ Running(pi)' /\ processID'[pi] = p
        /\ Token(pi)' = {processDefs[p]} /\ tokenNodes'[pi][processDefs[p]] = 1
        /\ tokenInsts'[pi] = {1} /\ last'[pi] = 1
        /\ instNode'[pi][1] = processDefs[p] /\ instStatus'[pi][1] = "Ready"
    BY <1>2, <2>1 DEF Start, TypeOK, Token, Running
  <2>3. nodes' = nodes /\ processDefs[p] \in nodes[p]
    BY <1>2 DEF Start, defVars
  <2>4. ASSUME NEW qi \in ProcessInst, qi # pi
        PROVE  /\ processID'[qi] = processID[qi] /\ tokenNodes'[qi] = tokenNodes[qi]
               /\ tokenInsts'[qi] = tokenInsts[qi] /\ instNode'[qi] = instNode[qi]
               /\ instStatus'[qi] = instStatus[qi] /\ last'[qi] = last[qi]
               /\ Token(qi)' = Token(qi) /\ Running(qi)' = Running(qi)
    BY <1>2, <2>4 DEF Start, TypeOK, Token, Running
  <2>5. ASSUME NEW qi \in ProcessInst
        PROVE  /\ Token(qi)' # {} => Running(qi)' /\ Token(qi)' \subseteq nodes'[processID'[qi]]
               /\ \A n \in Token(qi)' : /\ tokenNodes'[qi][n] \in tokenInsts'[qi]
                                        /\ instNode'[qi][tokenNodes'[qi][n]] = n
               /\ \A i \in tokenInsts'[qi] :
                    i <= last'[qi] /\ instStatus'[qi][i] \in {"Ready", "Running", "Waiting"}
    <3>1. CASE qi = pi
      BY <2>2, <2>3, <3>1
    <3>2. CASE qi # pi
      BY <2>3, <2>4, <3>2 DEF IndexConsistent
    <3> QED BY <3>1, <3>2
  <2> QED BY <2>5 DEF IndexConsistent
<1>3. ASSUME NEW pi \in ProcessInst, NEW d \in Data, SetData(pi, d) PROVE IndexConsistent'
  BY <1>3 DEF SetData, IndexConsistent, Token, Running, defVars, tokenVars
<1>4. ASSUME NEW pi \in ProcessInst, NEW n \in Node, Submit(pi, n) PROVE IndexConsistent'
  <2>1. CASE SubmitParallel(pi, n)
    BY <2>1, AdvanceIndex, TakenRelations DEF SubmitParallel, CanPush
  <2>2. CASE SubmitWaits(pi, n)
    <3>1. UNCHANGED <<nodes, processID, tokenNodes, tokenInsts, instNode, last>>
      BY <2>2 DEF SubmitWaits, defVars
    <3>2. \A qi \in ProcessInst : \A i \in InstID :
            instStatus'[qi][i] = instStatus[qi][i] \/ instStatus'[qi][i] = "Waiting"
      BY <2>2 DEF SubmitWaits, TypeOK
    <3>3. \A qi \in ProcessInst : tokenInsts[qi] \subseteq InstID
      BY DEF TypeOK
    <3> QED BY <3>1, <3>2, <3>3 DEF IndexConsistent, Token, Running
  <2>3. CASE SubmitExclusive(pi, n)
    BY <2>3, AdvanceIndex, TakenRelations DEF SubmitExclusive, CanPush
  <2>4. CASE SubmitRefused(pi, n)
    BY <2>4 DEF SubmitRefused, vars, defVars, tokenVars, IndexConsistent, Token, Running
  <2> QED BY <1>4, <2>1, <2>2, <2>3, <2>4 DEF Submit
<1>5. CASE UNCHANGED vars
  BY <1>5 DEF vars, defVars, tokenVars, IndexConsistent, Token, Running
<1> QED BY <1>1, <1>2, <1>3, <1>4, <1>5 DEF Next

\* Token.nodes and Token.nodeInsts stay consistent, and hold no closed instance.
THEOREM IndexAlwaysConsistent == Spec => []IndexConsistent
<1>1. Init => IndexConsistent
  BY DEF Init, IndexConsistent, Token
<1> QED BY <1>1, TypeCorrect, IndexStep, PTL DEF Spec

-----------------------------------------------------------------------------
(* Definitions. *)

\* Nodes that the calls of setProcess give to process p.
Requested(p) == UNION {r.nodes : r \in {q \in Request : q.process = p}}

\* What the calls of setProcess establish about definitions, beyond their types.
DefsOK ==
  /\ \A p \in Process : regs[p] = 0 => processDefs[p] = None /\ nodes[p] = {}
  /\ \A p \in Process : nodes[p] \subseteq Requested(p)
  /\ \A n \in Node : To[n] # <<>> => \E p \in Process : n \in nodes[p]
  /\ LinesResolve => \A p \in Process : \A n \in nodes[p] : Successors(n) \subseteq nodes[p]
  /\ NoSelfJoin => \A n \in Node : InType[n] = "Parallel" => n \notin From[n]
  /\ \A pi \in ProcessInst : Running(pi) => regs[processID[pi]] > 0

\* Nodes of two processes differ.
LEMMA NodesApart ==
  ASSUME TypeOK, DefsOK, NEW p \in Process, NEW pp \in Process, p # pp
  PROVE  Requested(p) \intersect Requested(pp) = {}
BY OwnNodesAssumption DEF Requested

\* An element of a concatenation is an element of one of its parts.
LEMMA AppendedFrom ==
  ASSUME NEW S, NEW u \in Seq(S), NEW v \in Seq(S), NEW i \in DOMAIN (u \o v)
  PROVE  \/ i \in DOMAIN u /\ (u \o v)[i] = u[i]
         \/ \E h \in DOMAIN v : (u \o v)[i] = v[h]
<1>1. Len(u) \in Nat /\ Len(v) \in Nat /\ i \in 1..(Len(u) + Len(v))
  OBVIOUS
<1>2. CASE i <= Len(u)
  BY <1>1, <1>2
<1>3. CASE i > Len(u)
  <2>1. i - Len(u) \in DOMAIN v /\ (u \o v)[i] = v[i - Len(u)]
    BY <1>1, <1>3
  <2> QED BY <2>1
<1> QED BY <1>1, <1>2, <1>3

\* The first part of a concatenation is kept.
LEMMA AppendKeeps ==
  ASSUME NEW S, NEW u \in Seq(S), NEW v \in Seq(S), NEW i \in DOMAIN u
  PROVE  i \in DOMAIN (u \o v) /\ (u \o v)[i] = u[i]
<1>1. Len(u) \in Nat /\ Len(v) \in Nat /\ i \in 1..Len(u) /\ i \in 1..(Len(u) + Len(v))
  OBVIOUS
<1> QED BY <1>1

\* The relations of a node after a call of setProcess for its process.
LEMMA SetProcessDefs ==
  ASSUME TypeOK, DefsOK, NEW r \in Request, SetProcess(r)
  PROVE  DefsOK'
<1> DEFINE p == r.process
           known == nodes[p] \union r.nodes
<1>1. r \in RequestType
  BY RequestAssumption
<1>2. /\ p \in Process /\ r.entrance \in Node /\ r.nodes \in SUBSET Node
      /\ r.lines \in [Node -> Seq(Relation)]
  BY <1>1 DEF RequestType
<1>3. /\ regs' = [regs EXCEPT ![p] = @ + 1] /\ nodes' = [nodes EXCEPT ![p] = known]
      /\ processDefs' = [processDefs EXCEPT ![p] = r.entrance]
      /\ To' = [n \in Node |-> IF n \in known THEN To[n] \o r.lines[n] ELSE To[n]]
      /\ From' = [m \in Node |-> IF m \in known THEN From[m] \union ComesFrom(r, m) ELSE From[m]]
      /\ UNCHANGED processID
  BY DEF SetProcess
<1>4. known \subseteq Requested(p)
  BY <1>2 DEF DefsOK, Requested
<1>5. \A pp \in Process : nodes'[pp] = IF pp = p THEN known ELSE nodes[pp]
  BY <1>2, <1>3 DEF TypeOK
<1>6. \A pp \in Process : regs'[pp] = 0 => processDefs'[pp] = None /\ nodes'[pp] = {}
  BY <1>2, <1>3, BoundAssumption DEF TypeOK, DefsOK
<1>7. \A pp \in Process : nodes'[pp] \subseteq Requested(pp)
  BY <1>4, <1>5 DEF DefsOK
<1>8. \A n \in Node : To'[n] # <<>> => \E pp \in Process : n \in nodes'[pp]
  BY <1>2, <1>3, <1>5 DEF DefsOK
<1>9. ASSUME LinesResolve, NEW pp \in Process, NEW n \in nodes'[pp]
      PROVE  Successors(n)' \subseteq nodes'[pp]
  <2>1. n \in Node /\ To[n] \in Seq(Relation) /\ r.lines[n] \in Seq(Relation)
    BY <1>2, <1>5 DEF TypeOK
  <2>2. CASE pp = p
    <3>1. \A i \in DOMAIN r.lines[n] : r.lines[n][i].node \in known
      BY <1>9, <2>1 DEF LinesResolve
    <3>2. \A i \in DOMAIN To[n] : To[n][i].node \in known
      <4>1. CASE n \in nodes[p]
        BY <1>2, <1>9, <4>1 DEF DefsOK, Successors
      <4>2. CASE n \notin nodes[p]
        <5>1. \A q \in Process : n \notin nodes[q]
          BY <1>2, <1>4, <1>5, <1>9, <2>2, <4>2, NodesApart DEF DefsOK
        <5>2. To[n] = <<>>
          BY <2>1, <5>1 DEF DefsOK
        <5> QED BY <5>2
      <4> QED BY <4>1, <4>2
    <3>3. \A i \in DOMAIN To'[n] : To'[n][i].node \in known
      <4>1. To'[n] = To[n] \o r.lines[n]
        BY <1>3, <1>5, <1>9, <2>1, <2>2
      <4> DEFINE old == To[n]
                 more == r.lines[n]
      <4>2. ASSUME NEW i \in DOMAIN (old \o more) PROVE (old \o more)[i].node \in known
        <5>1. \/ i \in DOMAIN old /\ (old \o more)[i] = old[i]
              \/ \E h \in DOMAIN more : (old \o more)[i] = more[h]
          <6>1. old \in Seq(Relation) /\ more \in Seq(Relation)
            BY <2>1
          <6> HIDE DEF old, more
          <6> QED BY <6>1, AppendedFrom
        <5> QED BY <3>1, <3>2, <5>1
      <4> QED BY <4>1, <4>2
    <3> QED BY <1>5, <2>2, <3>3, <1>2 DEF Successors
  <2>3. CASE pp # p
    <3>1. n \notin known
      BY <1>2, <1>4, <1>5, <1>9, <2>3, NodesApart DEF DefsOK
    <3>2. To'[n] = To[n]
      BY <1>3, <2>1, <3>1
    <3> QED BY <1>5, <1>9, <2>3, <3>2 DEF DefsOK, Successors
  <2> QED BY <2>2, <2>3
<1>10. ASSUME NoSelfJoin, NEW n \in Node, InType[n] = "Parallel"
       PROVE  n \notin From'[n]
  BY <1>2, <1>3, <1>10 DEF DefsOK, NoSelfJoin, ComesFrom
<1>11. \A pi \in ProcessInst : Running(pi)' => regs'[processID'[pi]] > 0
  BY <1>2, <1>3, BoundAssumption DEF DefsOK, Running, TypeOK
<1> QED BY <1>6, <1>7, <1>8, <1>9, <1>10, <1>11 DEF DefsOK

\* Every step keeps DefsOK.
LEMMA DefsStep == TypeOK /\ DefsOK /\ [Next]_vars => DefsOK'
<1> SUFFICES ASSUME TypeOK, DefsOK, [Next]_vars PROVE DefsOK'
  OBVIOUS
<1>1. CASE \E r \in Request : SetProcess(r)
  BY <1>1, SetProcessDefs
<1>2. ASSUME NEW pi \in ProcessInst, NEW p \in Process, Start(pi, p) PROVE DefsOK'
  <2>1. regs[p] > 0
    BY <1>2, BoundAssumption DEF Start, DefsOK, TypeOK
  <2>2. \A qi \in ProcessInst : Running(qi)' => regs'[processID'[qi]] > 0
    BY <1>2, <2>1 DEF Start, defVars, DefsOK, Running, TypeOK
  <2> QED BY <1>2, <2>2 DEF Start, defVars, DefsOK, Successors
<1>3. CASE UNCHANGED <<defVars, processID>>
  BY <1>3 DEF defVars, DefsOK, Successors, Running
<1>4. ASSUME NEW pi \in ProcessInst, NEW d \in Data, SetData(pi, d) PROVE DefsOK'
  BY <1>3, <1>4 DEF SetData
<1>5. ASSUME NEW pi \in ProcessInst, NEW n \in Node, Submit(pi, n) PROVE DefsOK'
  BY <1>3, <1>5 DEF Submit, SubmitParallel, SubmitWaits, SubmitExclusive, SubmitRefused,
                    Advance, vars
<1>6. CASE UNCHANGED vars
  BY <1>3, <1>6 DEF vars
<1> QED BY <1>1, <1>2, <1>4, <1>5, <1>6 DEF Next

\* Before any call of setProcess there is nothing that could fail to resolve.
LEMMA DefsInit == Init => DefsOK
BY DEF Init, DefsOK, Requested, Successors, Running

-----------------------------------------------------------------------------
(* What a submission does to the set of nodes in the token. *)

\* The token loses the node submitted and gains the nodes entered.
LEMMA MovedToken ==
  ASSUME TypeOK, NEW pi \in ProcessInst, NEW n \in Token(pi), NEW taken \in Seq(Relation),
         NEW added \in SUBSET Reached(pi, taken), Moves(pi, n, taken, added)
  PROVE  Token(pi)' = (Token(pi) \ {n}) \union {taken[i].node : i \in added}
<1> DEFINE entered == {taken[i].node : i \in added}
<1>1. added \in SUBSET DOMAIN taken /\ last[pi] \in Nat /\ \A i \in added : i \in Nat \ {0}
  BY DEF Reached, TypeOK
<1>2. entered \subseteq Node
  <2> SUFFICES ASSUME NEW i \in added PROVE taken[i].node \in Node
    OBVIOUS
  <2>1. taken[i] \in Relation
    BY <1>1
  <2> QED BY <2>1 DEF Relation
<1>3. ASSUME NEW m \in Node
      PROVE  tokenNodes'[pi][m] # 0 <=> m \in (Token(pi) \ {n}) \union entered
  <2>1. tokenNodes'[pi][m] = NodeAfter(pi, n, taken, added, m)
    BY DEF Moves
  <2>2. CASE \E i \in added : taken[i].node = m
    BY <1>1, <2>1, <2>2, NodeAfterCases
  <2>3. CASE ~ \E i \in added : taken[i].node = m
    BY <1>1, <2>1, <2>3, NodeAfterCases DEF Token
  <2> QED BY <2>2, <2>3
<1> QED BY <1>2, <1>3 DEF Token

\* A submission that advances takes relations of the node submitted: all of them when
\* its outgoing side is parallel, one of them when it is exclusive.
LEMMA AdvanceTakes ==
  ASSUME TypeOK, NEW pi \in ProcessInst, NEW n \in Node,
         SubmitParallel(pi, n) \/ SubmitExclusive(pi, n)
  PROVE  /\ n \in Token(pi)
         /\ \E taken \in Seq(Relation) :
              /\ Advance(pi, n, taken)
              /\ taken # <<>>
              /\ \/ OutType[n] = "Parallel" /\ taken = To[n]
                 \/ OutType[n] = "Exclusive" /\ \E i \in DOMAIN To[n] : taken = <<To[n][i]>>
<1>1. CASE SubmitParallel(pi, n)
  BY <1>1, TakenRelations DEF SubmitParallel, CanPush
<1>2. CASE SubmitExclusive(pi, n)
  <2>1. PICK i \in DOMAIN To[n] : Advance(pi, n, <<To[n][i]>>)
    BY <1>2 DEF SubmitExclusive
  <2>2. <<To[n][i]>> \in Seq(Relation) /\ <<To[n][i]>> # <<>>
    BY TakenRelations
  <2> QED BY <1>2, <2>1, <2>2 DEF SubmitExclusive, CanPush
<1> QED BY <1>1, <1>2

\* The nodes those relations lead to.
LEMMA TakenNodes ==
  ASSUME TypeOK, NEW n \in Node, NEW taken \in Seq(Relation), taken # <<>>,
         \/ OutType[n] = "Parallel" /\ taken = To[n]
         \/ OutType[n] = "Exclusive" /\ \E i \in DOMAIN To[n] : taken = <<To[n][i]>>
  PROVE  /\ 1 \in DOMAIN taken
         /\ \A i \in DOMAIN taken : taken[i].node \in Successors(n)
         /\ OutType[n] = "Parallel" => {taken[i].node : i \in DOMAIN taken} = Successors(n)
         /\ OutType[n] # "Parallel" =>
              \E m \in Successors(n) : {taken[i].node : i \in DOMAIN taken} = {m}
<1>1. CASE OutType[n] = "Parallel" /\ taken = To[n]
  <2>1. 1 \in DOMAIN taken
    OBVIOUS
  <2> QED BY <1>1, <2>1 DEF Successors
<1>2. ASSUME OutType[n] # "Parallel", NEW i \in DOMAIN To[n], taken = <<To[n][i]>>
      PROVE  /\ DOMAIN taken = {1} /\ taken[1].node \in Successors(n)
             /\ {taken[h].node : h \in DOMAIN taken} = {taken[1].node}
  <2>1. DOMAIN taken = {1} /\ taken[1] = To[n][i]
    BY <1>2
  <2> QED BY <2>1 DEF Successors
<1> QED BY <1>1, <1>2

\* When lines resolve, the loop over the relations taken goes through all of them.
LEMMA AllReached ==
  ASSUME TypeOK, DefsOK, IndexConsistent, LinesResolve,
         NEW pi \in ProcessInst, NEW n \in Token(pi), NEW taken \in Seq(Relation),
         \A i \in DOMAIN taken : taken[i].node \in Successors(n)
  PROVE  Reached(pi, taken) = DOMAIN taken
<1>1. Running(pi) /\ n \in nodes[processID[pi]] /\ processID[pi] \in Process
  BY DEF IndexConsistent, TypeOK, Running
<1>2. Successors(n) \subseteq nodes[processID[pi]]
  BY <1>1 DEF DefsOK
<1>3. \A i \in DOMAIN taken : \A j \in 1..i : j \in DOMAIN taken
  OBVIOUS
<1> QED BY <1>2, <1>3 DEF Reached

\* An advance leaves a node in the token: the first node reached, or what keeps it out.
LEMMA AdvanceNotEmpty ==
  ASSUME TypeOK, DefsOK, IndexConsistent, LinesResolve,
         NEW pi \in ProcessInst, NEW n \in Node,
         SubmitParallel(pi, n) \/ SubmitExclusive(pi, n)
  PROVE  Token(pi)' # {}
<1>1. n \in Token(pi)
  BY AdvanceTakes
<1>2. PICK taken \in Seq(Relation) :
        /\ Advance(pi, n, taken)
        /\ taken # <<>>
        /\ \/ OutType[n] = "Parallel" /\ taken = To[n]
           \/ OutType[n] = "Exclusive" /\ \E i \in DOMAIN To[n] : taken = <<To[n][i]>>
  BY AdvanceTakes
<1>3. 1 \in DOMAIN taken /\ \A i \in DOMAIN taken : taken[i].node \in Successors(n)
  BY <1>2, TakenNodes
<1>4. PICK added \in SUBSET Reached(pi, taken) : Moves(pi, n, taken, added)
  BY <1>1, <1>2, AdvanceFacts
<1>5. Token(pi)' = (Token(pi) \ {n}) \union {taken[i].node : i \in added}
  BY <1>1, <1>4, MovedToken
<1>6. CASE 1 \in added
  BY <1>5, <1>6
<1>7. CASE 1 \notin added
  <2>1. 1 \in Reached(pi, taken) /\ added \subseteq DOMAIN taken
    BY <1>1, <1>3, AllReached DEF Reached
  <2>2. {k \in added : k < 1} = {}
    BY <2>1
  <2>3. ~ InGateOpen(taken[1].node, Token(pi) \ {n})
    <3>1. 1 \in added <=> InGateOpen(taken[1].node,
            (Token(pi) \ {n}) \union {taken[j].node : j \in {k \in added : k < 1}})
      BY <1>4, <2>1 DEF Moves, Entering
    <3>2. {taken[j].node : j \in {k \in added : k < 1}} = {}
      BY <2>2
    <3>3. (Token(pi) \ {n}) \union {taken[j].node : j \in {k \in added : k < 1}}
            = Token(pi) \ {n}
      BY <3>2
    <3> QED BY <1>7, <3>1, <3>3
  <2> QED BY <1>5, <2>3 DEF InGateOpen
<1> QED BY <1>6, <1>7

\* Every step leaves a running process a node: an advance by AdvanceNotEmpty, the other
\* steps because they change no token but the new one.
LEMMA TokenStep ==
  TypeOK /\ DefsOK /\ IndexConsistent /\ TokenNeverEmpty /\ [Next]_vars => TokenNeverEmpty'
<1> SUFFICES ASSUME TypeOK, DefsOK, IndexConsistent, TokenNeverEmpty, [Next]_vars,
                    LinesResolve, NEW qi \in ProcessInst, Running(qi)'
             PROVE  Token(qi)' # {}
  BY DEF TokenNeverEmpty
<1>1. CASE Running(qi) /\ tokenNodes'[qi] = tokenNodes[qi]
  BY <1>1 DEF TokenNeverEmpty, Token
<1>2. CASE UNCHANGED <<processID, tokenNodes>>
  BY <1>1, <1>2 DEF Running
<1>3. ASSUME NEW r \in Request, SetProcess(r) PROVE Token(qi)' # {}
  BY <1>2, <1>3 DEF SetProcess, tokenVars
<1>4. ASSUME NEW pi \in ProcessInst, NEW p \in Process, Start(pi, p) PROVE Token(qi)' # {}
  <2>1. CASE qi = pi
    <3>1. processDefs[p] \in Node /\ tokenNodes'[pi][processDefs[p]] = 1
      BY <1>4 DEF Start, TypeOK
    <3> QED BY <2>1, <3>1 DEF Token
  <2>2. CASE qi # pi
    BY <1>1, <1>4, <2>2 DEF Start, TypeOK, Running
  <2> QED BY <2>1, <2>2
<1>5. ASSUME NEW pi \in ProcessInst, NEW d \in Data, SetData(pi, d) PROVE Token(qi)' # {}
  BY <1>2, <1>5 DEF SetData, tokenVars
<1>6. ASSUME NEW pi \in ProcessInst, NEW n \in Node, Submit(pi, n) PROVE Token(qi)' # {}
  <2>1. CASE SubmitParallel(pi, n) \/ SubmitExclusive(pi, n)
    <3>1. CASE qi = pi
      BY <2>1, <3>1, AdvanceNotEmpty
    <3>2. CASE qi # pi
      <4>1. processID' = processID /\ tokenNodes'[qi] = tokenNodes[qi]
        <5>1. n \in Token(pi) /\ \E taken \in Seq(Relation) : Advance(pi, n, taken)
          BY <2>1, AdvanceTakes
        <5> QED BY <3>2, <5>1, AdvanceFacts DEF Advance
      <4> QED BY <1>1, <4>1 DEF Running
    <3> QED BY <3>1, <3>2
  <2>2. CASE SubmitWaits(pi, n) \/ SubmitRefused(pi, n)
    BY <1>2, <2>2 DEF SubmitWaits, SubmitRefused, vars, tokenVars
  <2> QED BY <1>6, <2>1, <2>2 DEF Submit
<1>7. CASE UNCHANGED vars
  BY <1>2, <1>7 DEF vars, tokenVars
<1> QED BY <1>3, <1>4, <1>5, <1>6, <1>7 DEF Next

\* The inductive invariant.
IInv == TypeOK /\ DefsOK /\ IndexConsistent /\ TokenNeverEmpty

\* The inductive invariant holds of every reachable state of the engine.
THEOREM InvariantHolds == Spec => []IInv
<1>1. Init => DefsOK /\ IndexConsistent /\ TokenNeverEmpty
  BY DefsInit DEF Init, IndexConsistent, TokenNeverEmpty, Token, Running
<1>2. TypeOK /\ DefsOK /\ IndexConsistent /\ TokenNeverEmpty /\ [Next]_vars
        => DefsOK' /\ IndexConsistent' /\ TokenNeverEmpty'
  BY DefsStep, IndexStep, TokenStep
<1> QED BY <1>1, <1>2, TypeCorrect, PTL DEF Spec, IInv

\* A process whose definition's lines resolve never loses its token.
THEOREM TokenKept == Spec => []TokenNeverEmpty
BY InvariantHolds, PTL DEF IInv

-----------------------------------------------------------------------------
(* Joins never all wait for each other. *)

\* BlockersAreNewer for one process instance.
NewerBlockers(pi) ==
  \A n \in Token(pi) : InType[n] = "Parallel" =>
    \A m \in (From[n] \intersect Token(pi)) \ {n} : tokenNodes[pi][m] > tokenNodes[pi][n]

\* An advance keeps the order: a join is entered when no predecessor is in the token,
\* so that a predecessor found there later is one that came later.
LEMMA AdvanceBlockers ==
  ASSUME TypeOK, IndexConsistent, NEW pi \in ProcessInst, NEW n \in Token(pi),
         NEW taken \in Seq(Relation), Advance(pi, n, taken), NewerBlockers(pi)
  PROVE  NewerBlockers(pi)'
<1> DEFINE old == tokenNodes[pi]
           new == tokenNodes'[pi]
<1>1. PICK added \in SUBSET Reached(pi, taken) : Moves(pi, n, taken, added)
  BY AdvanceFacts
<1>2. From' = From /\ last[pi] \in Nat /\ \A i \in added : i \in Nat \ {0}
  BY DEF Advance, defVars, TypeOK, Reached
<1>3. added \in SUBSET DOMAIN taken
  BY DEF Reached
<1>4. ASSUME NEW x \in Token(pi)'
      PROVE  \/ \E i \in added : taken[i].node = x /\ new[x] = last[pi] + i
             \/ x \in Token(pi) \ {n} /\ new[x] = old[x] /\ old[x] \in Nat /\ old[x] <= last[pi]
  <2>1. x \in Node /\ new[x] # 0 /\ new[x] = NodeAfter(pi, n, taken, added, x)
    BY <1>1 DEF Moves, Token
  <2>2. \/ \E i \in added : taken[i].node = x /\ new[x] = last[pi] + i
        \/ x # n /\ new[x] = old[x]
    BY <1>3, <2>1, NodeAfterCases
  <2>3. new[x] = old[x] => x \in Token(pi) /\ old[x] \in Nat
    BY <2>1 DEF Token, TypeOK
  <2>4. x \in Token(pi) => old[x] <= last[pi]
    BY DEF IndexConsistent
  <2> QED BY <2>2, <2>3, <2>4
<1>5. ASSUME NEW i \in added, InType[taken[i].node] = "Parallel"
      PROVE  /\ From[taken[i].node] \intersect (Token(pi) \ {n}) = {}
             /\ \A j \in added : j < i => taken[j].node \notin From[taken[i].node]
  <2>1. InGateOpen(taken[i].node,
          (Token(pi) \ {n}) \union {taken[j].node : j \in {k \in added : k < i}})
    BY <1>1 DEF Moves, Entering
  <2> QED BY <1>5, <2>1 DEF InGateOpen
<1>6. ASSUME NEW x \in Token(pi)', InType[x] = "Parallel",
             NEW m \in (From[x] \intersect Token(pi)') \ {x}
      PROVE  new[m] > new[x]
  <2>1. CASE \E i \in added : taken[i].node = x /\ new[x] = last[pi] + i
    <3>1. PICK i \in added : taken[i].node = x /\ new[x] = last[pi] + i
      BY <2>1
    <3>2. PICK j \in added : taken[j].node = m /\ new[m] = last[pi] + j
      BY <1>4, <1>5, <1>6, <3>1
    <3>3. ~ (j < i) /\ j # i
      BY <1>5, <1>6, <3>1, <3>2
    <3> QED BY <1>2, <3>1, <3>2, <3>3
  <2>2. CASE x \in Token(pi) \ {n} /\ new[x] = old[x] /\ old[x] \in Nat /\ old[x] <= last[pi]
    <3>1. CASE \E j \in added : taken[j].node = m /\ new[m] = last[pi] + j
      BY <1>2, <2>2, <3>1
    <3>2. CASE m \in Token(pi) \ {n} /\ new[m] = old[m]
      BY <1>6, <2>2, <3>2 DEF NewerBlockers
    <3> QED BY <1>4, <1>6, <3>1, <3>2
  <2> QED BY <1>4, <2>1, <2>2
<1> QED BY <1>2, <1>6 DEF NewerBlockers

\* Every step keeps the order in which a join and what holds it back were entered.
LEMMA BlockersStep ==
  TypeOK /\ DefsOK /\ IndexConsistent /\ BlockersAreNewer /\ [Next]_vars => BlockersAreNewer'
<1> SUFFICES ASSUME TypeOK, DefsOK, IndexConsistent, BlockersAreNewer, [Next]_vars,
                    NEW qi \in ProcessInst, Running(qi)', regs'[processID'[qi]] = 1
             PROVE  NewerBlockers(qi)'
  BY DEF BlockersAreNewer, NewerBlockers
<1>1. Running(qi) /\ regs[processID[qi]] = 1 => NewerBlockers(qi)
  BY DEF BlockersAreNewer, NewerBlockers
<1>2. CASE UNCHANGED <<From, regs, processID, tokenNodes>>
  BY <1>1, <1>2 DEF Running, NewerBlockers, Token
<1>3. ASSUME NEW r \in Request, SetProcess(r) PROVE NewerBlockers(qi)'
  <2>1. /\ r.process \in Process /\ r.nodes \in SUBSET Node
    BY RequestAssumption DEF RequestType
  <2>2. /\ processID' = processID /\ tokenNodes' = tokenNodes
        /\ regs' = [regs EXCEPT ![r.process] = @ + 1]
    BY <1>3 DEF SetProcess, tokenVars
  <2>3. Running(qi) /\ processID[qi] \in Process /\ regs[processID[qi]] > 0
    BY <2>2 DEF Running, DefsOK, TypeOK
  <2>4. processID[qi] # r.process /\ regs[processID[qi]] = 1
    BY <2>1, <2>2, <2>3, BoundAssumption DEF TypeOK
  <2>5. \A m \in nodes[processID[qi]] : m \notin nodes[r.process] \union r.nodes
    <3>1. nodes[r.process] \union r.nodes \subseteq Requested(r.process)
      BY <2>1 DEF DefsOK, Requested
    <3>2. nodes[processID[qi]] \subseteq Requested(processID[qi])
      BY <2>3 DEF DefsOK
    <3> QED BY <2>1, <2>3, <2>4, <3>1, <3>2, NodesApart
  <2>6. Token(qi) \subseteq nodes[processID[qi]] /\ Token(qi)' = Token(qi)
    BY <2>2 DEF IndexConsistent, Token
  <2>7. \A m \in Token(qi) : From'[m] = From[m]
    BY <1>3, <2>5, <2>6 DEF SetProcess, Token
  <2> QED BY <1>1, <2>2, <2>3, <2>4, <2>6, <2>7 DEF NewerBlockers
<1>4. ASSUME NEW pi \in ProcessInst, NEW p \in Process, Start(pi, p) PROVE NewerBlockers(qi)'
  <2>1. CASE qi = pi
    <3>1. Token(pi)' \subseteq {processDefs[p]}
      BY <1>4 DEF Start, TypeOK, Token
    <3> QED BY <2>1, <3>1 DEF NewerBlockers
  <2>2. CASE qi # pi
    <3>1. /\ processID'[qi] = processID[qi] /\ tokenNodes'[qi] = tokenNodes[qi]
          /\ From' = From /\ regs' = regs
      BY <1>4, <2>2 DEF Start, TypeOK, defVars
    <3> QED BY <1>1, <3>1 DEF Running, NewerBlockers, Token
  <2> QED BY <2>1, <2>2
<1>5. ASSUME NEW pi \in ProcessInst, NEW d \in Data, SetData(pi, d) PROVE NewerBlockers(qi)'
  BY <1>2, <1>5 DEF SetData, defVars, tokenVars
<1>6. ASSUME NEW pi \in ProcessInst, NEW n \in Node, Submit(pi, n) PROVE NewerBlockers(qi)'
  <2>1. CASE SubmitParallel(pi, n) \/ SubmitExclusive(pi, n)
    <3>1. n \in Token(pi)
      BY <2>1, AdvanceTakes
    <3>2. PICK taken \in Seq(Relation) : Advance(pi, n, taken)
      BY <2>1, AdvanceTakes
    <3>3. processID' = processID /\ regs' = regs /\ From' = From
      BY <3>2 DEF Advance, defVars
    <3>4. NewerBlockers(qi)
      BY <1>1, <3>3 DEF Running
    <3>5. CASE qi = pi
      BY <3>1, <3>2, <3>4, <3>5, AdvanceBlockers
    <3>6. CASE qi # pi
      <4>1. tokenNodes'[qi] = tokenNodes[qi]
        BY <3>1, <3>2, <3>6, AdvanceFacts
      <4> QED BY <3>3, <3>4, <4>1 DEF NewerBlockers, Token
    <3> QED BY <3>5, <3>6
  <2>2. CASE SubmitWaits(pi, n) \/ SubmitRefused(pi, n)
    BY <1>2, <2>2 DEF SubmitWaits, SubmitRefused, vars, defVars, tokenVars
  <2> QED BY <1>6, <2>1, <2>2 DEF Submit
<1>7. CASE UNCHANGED vars
  BY <1>2, <1>7 DEF vars, defVars, tokenVars
<1> QED BY <1>3, <1>4, <1>5, <1>6, <1>7 DEF Next

\* A predecessor that holds a join back was entered after the join.
THEOREM BlockersNewer == Spec => []BlockersAreNewer
<1>1. Init => BlockersAreNewer
  BY DEF Init, BlockersAreNewer, Running
<1>2. IInv /\ BlockersAreNewer /\ [Next]_vars => BlockersAreNewer'
  BY BlockersStep DEF IInv
<1> QED BY <1>1, <1>2, InvariantHolds, PTL DEF Spec

\* The node of the token that was entered last has nothing to wait for.
LEMMA LastEnteredIsOpen == IInv /\ BlockersAreNewer => NoGridlock
<1> SUFFICES ASSUME IInv, BlockersAreNewer, LinesResolve, NoSelfJoin,
                    NEW pi \in ProcessInst, Running(pi), regs[processID[pi]] = 1
             PROVE  \E n \in Token(pi) : InGateOpen(n, Token(pi))
  BY DEF NoGridlock
<1> USE DEF IInv
<1>1. Token(pi) # {} /\ NewerBlockers(pi)
  BY DEF TokenNeverEmpty, BlockersAreNewer, NewerBlockers
<1> DEFINE held == {tokenNodes[pi][n] : n \in Token(pi)}
<1>2. held \in SUBSET (0..MaxInsts) /\ held # {}
  <2>1. \A n \in Token(pi) : tokenNodes[pi][n] \in 0..MaxInsts
    BY DEF TypeOK, Token
  <2> QED BY <1>1, <2>1
<1>3. PICK h \in held : \A g \in held : g <= h
  <2> HIDE DEF held
  <2> QED BY <1>2, LargestExists, BoundAssumption
<1>4. PICK n \in Token(pi) : tokenNodes[pi][n] = h
  OBVIOUS
<1>5. \A m \in Token(pi) : tokenNodes[pi][m] \in Nat /\ tokenNodes[pi][m] <= tokenNodes[pi][n]
  BY <1>3, <1>4, BoundAssumption DEF TypeOK, Token
<1>6. n \in Node /\ (InType[n] = "Parallel" => n \notin From[n])
  BY DEF DefsOK, Token
<1>7. InType[n] = "Parallel" => From[n] \intersect Token(pi) = {}
  BY <1>1, <1>5, <1>6 DEF NewerBlockers
<1> QED BY <1>7 DEF InGateOpen

\* Some node of the token can always be submitted as far as its incoming side goes.
THEOREM GridlockFree == Spec => []NoGridlock
BY InvariantHolds, BlockersNewer, LastEnteredIsOpen, PTL

-----------------------------------------------------------------------------
(* Closed instances. *)

\* Instance numbers above the last one used are unused.
FreshUnused ==
  \A pi \in ProcessInst : /\ ~Running(pi) => last[pi] = 0
                          /\ \A k \in InstID : k > last[pi] => instStatus[pi][k] = "Unused"

\* The body of ClosedForever.
StaysClosed ==
  \A pi \in ProcessInst : \A i \in InstID :
    instStatus[pi][i] = "Closed" => instStatus'[pi][i] = "Closed" /\ i \notin tokenInsts'[pi]

\* An advance gives its nodes unused instance numbers, so it touches no closed instance.
LEMMA AdvanceClosed ==
  ASSUME TypeOK, IndexConsistent, FreshUnused,
         NEW pi \in ProcessInst, NEW n \in Token(pi), NEW taken \in Seq(Relation),
         Advance(pi, n, taken)
  PROVE  /\ \A k \in InstID : k > last'[pi] => instStatus'[pi][k] = "Unused"
         /\ \A k \in InstID : instStatus[pi][k] = "Closed" =>
              instStatus'[pi][k] = "Closed" /\ k \notin tokenInsts'[pi]
<1>1. PICK added \in SUBSET Reached(pi, taken) : Moves(pi, n, taken, added)
  BY AdvanceFacts
<1>2. PICK entering \in SUBSET Reached(pi, taken) :
        instStatus' = [instStatus EXCEPT ![pi] =
                         [k \in InstID |-> InstAfter(pi, n, taken, entering, k)]]
  BY DEF Advance
<1>3. /\ last[pi] \in Nat /\ Len(taken) \in Nat /\ last'[pi] = last[pi] + Len(taken)
      /\ \A i \in entering : i \in 1..Len(taken)
  BY AdvanceFacts DEF TypeOK, Reached
<1>4. tokenNodes[pi][n] \in tokenInsts[pi] /\ tokenNodes[pi][n] <= last[pi]
  BY DEF IndexConsistent
<1>5. ASSUME NEW k \in InstID, k > last'[pi] PROVE instStatus'[pi][k] = "Unused"
  <2>1. k \in Int /\ k > last[pi] /\ k - last[pi] \notin entering /\ k # tokenNodes[pi][n]
    BY <1>3, <1>4, <1>5, BoundAssumption DEF InstID
  <2> QED BY <1>2, <2>1 DEF FreshUnused, TypeOK, InstAfter
<1>6. ASSUME NEW k \in InstID, instStatus[pi][k] = "Closed"
      PROVE  instStatus'[pi][k] = "Closed" /\ k \notin tokenInsts'[pi]
  <2>1. k <= last[pi] \/ k > last[pi]
    BY <1>3, BoundAssumption DEF InstID
  <2>2. CASE k <= last[pi]
    <3>1. k \notin tokenInsts[pi]
      BY <1>6 DEF IndexConsistent
    <3>2. \A i \in added : k # last[pi] + i
      BY <1>1, <1>3, <2>2, BoundAssumption DEF Moves, InstID
    <3> QED BY <1>1, <1>6, <2>2, <3>1, <3>2 DEF Moves
  <2>3. CASE k > last[pi]
    <3>1. instStatus[pi][k] = "Unused"
      BY <2>3 DEF FreshUnused
    <3>2. last[pi] + (k - last[pi]) = k /\ k \notin tokenInsts[pi]
      BY <1>3, <2>3, BoundAssumption DEF InstID, IndexConsistent
    <3> QED BY <1>6, <3>1, <3>2
  <2> QED BY <2>1, <2>2, <2>3
<1> QED BY <1>5, <1>6

\* Every step keeps the numbers after the last one unused, and what is closed closed.
LEMMA ClosedStep ==
  TypeOK /\ IndexConsistent /\ FreshUnused /\ [Next]_vars => FreshUnused' /\ StaysClosed
<1> SUFFICES ASSUME TypeOK, IndexConsistent, FreshUnused, [Next]_vars
             PROVE  FreshUnused' /\ StaysClosed
  OBVIOUS
<1>1. CASE UNCHANGED <<processID, tokenInsts, instStatus, last>>
  BY <1>1 DEF FreshUnused, StaysClosed, Running, IndexConsistent
<1>2. ASSUME NEW r \in Request, SetProcess(r) PROVE FreshUnused' /\ StaysClosed
  BY <1>1, <1>2 DEF SetProcess, tokenVars
<1>3. ASSUME NEW pi \in ProcessInst, NEW p \in Process, Start(pi, p)
      PROVE  FreshUnused' /\ StaysClosed
  <2>1. /\ last[pi] = 0 /\ last'[pi] = 1 /\ tokenInsts'[pi] = {1} /\ Running(pi)'
        /\ 1 \in InstID /\ \A k \in InstID \ {1} : instStatus'[pi][k] = instStatus[pi][k]
    BY <1>3, BoundAssumption, NoneAssumption DEF Start, TypeOK, InstID, FreshUnused, Running
  <2>2. \A k \in InstID : instStatus[pi][k] = "Unused"
    BY <2>1, BoundAssumption DEF FreshUnused, InstID
  <2>3. \A qi \in ProcessInst \ {pi} :
          /\ last'[qi] = last[qi] /\ tokenInsts'[qi] = tokenInsts[qi]
          /\ instStatus'[qi] = instStatus[qi] /\ processID'[qi] = processID[qi]
    BY <1>3 DEF Start, TypeOK
  <2>4. StaysClosed
    BY <2>2, <2>3 DEF StaysClosed, IndexConsistent
  <2>5. FreshUnused'
    <3>1. \A k \in InstID : k > 1 => instStatus'[pi][k] = "Unused"
      BY <2>1, <2>2
    <3> QED BY <2>1, <2>3, <3>1 DEF FreshUnused, Running
  <2> QED BY <2>4, <2>5
<1>4. ASSUME NEW pi \in ProcessInst, NEW d \in Data, SetData(pi, d)
      PROVE  FreshUnused' /\ StaysClosed
  BY <1>1, <1>4 DEF SetData, tokenVars
<1>5. ASSUME NEW pi \in ProcessInst, NEW n \in Node, Submit(pi, n)
      PROVE  FreshUnused' /\ StaysClosed
  <2>1. CASE SubmitParallel(pi, n) \/ SubmitExclusive(pi, n)
    <3>1. n \in Token(pi)
      BY <2>1, AdvanceTakes
    <3>2. PICK taken \in Seq(Relation) : Advance(pi, n, taken)
      BY <2>1, AdvanceTakes
    <3>3. \A qi \in ProcessInst \ {pi} :
            /\ last'[qi] = last[qi] /\ tokenInsts'[qi] = tokenInsts[qi]
            /\ instStatus'[qi] = instStatus[qi]
      BY <3>1, <3>2, AdvanceFacts
    <3>4. processID' = processID /\ Running(pi)
      BY <3>1, <3>2 DEF Advance, IndexConsistent
    <3>5. /\ \A k \in InstID : k > last'[pi] => instStatus'[pi][k] = "Unused"
          /\ \A k \in InstID : instStatus[pi][k] = "Closed" =>
               instStatus'[pi][k] = "Closed" /\ k \notin tokenInsts'[pi]
      BY <3>1, <3>2, AdvanceClosed
    <3> QED BY <3>3, <3>4, <3>5 DEF FreshUnused, StaysClosed, Running, IndexConsistent
  <2>2. CASE SubmitWaits(pi, n)
    <3>1. UNCHANGED <<processID, tokenInsts, last>>
      BY <2>2 DEF SubmitWaits
    <3>2. tokenNodes[pi][n] \in tokenInsts[pi] /\ tokenNodes[pi][n] <= last[pi]
      BY <2>2 DEF SubmitWaits, CanPush, IndexConsistent
    <3>3. \A qi \in ProcessInst : \A k \in InstID :
            instStatus'[qi][k] = instStatus[qi][k] \/ (qi = pi /\ k = tokenNodes[pi][n])
      BY <2>2 DEF SubmitWaits, TypeOK
    <3>4. StaysClosed
      BY <3>1, <3>2, <3>3 DEF StaysClosed, IndexConsistent
    <3>5. FreshUnused'
      <4>1. \A k \in InstID : k > last[pi] => k # tokenNodes[pi][n]
        BY <3>2, BoundAssumption DEF InstID, TypeOK
      <4> QED BY <3>1, <3>3, <4>1 DEF FreshUnused, Running
    <3> QED BY <3>4, <3>5
  <2>3. CASE SubmitRefused(pi, n)
    BY <1>1, <2>3 DEF SubmitRefused, vars, tokenVars
  <2> QED BY <1>5, <2>1, <2>2, <2>3 DEF Submit
<1>6. CASE UNCHANGED vars
  BY <1>1, <1>6 DEF vars, tokenVars
<1> QED BY <1>2, <1>3, <1>4, <1>5, <1>6 DEF Next

\* A closed node instance stays closed and out of the token.
THEOREM ClosedStaysClosed == Spec => ClosedForever
<1>1. Init => FreshUnused
  BY DEF Init, FreshUnused, InstID
<1>2. TypeOK /\ IndexConsistent /\ FreshUnused /\ [Next]_vars => FreshUnused' /\ [StaysClosed]_vars
  BY ClosedStep
<1>3. Spec => [][StaysClosed]_vars
  BY <1>1, <1>2, TypeCorrect, IndexAlwaysConsistent, PTL DEF Spec
<1> QED BY <1>3 DEF ClosedForever, StaysClosed

-----------------------------------------------------------------------------
(* The status of a process. *)

\* StatusShowsToken for one process instance, in two parts.
Entered(pi) == {n \in Token(pi) : tokenNodes[pi][n] # 1}
NothingStale(pi) == \A s \in status[pi] : \E n \in Entered(pi) : s = Name[n]
NothingMissing(pi) ==
  \A n \in Entered(pi) :
    (\A m \in nodes[processID[pi]] : Name[m] = Name[n] => m = n) => Name[n] \in status[pi]

\* A process instance that has not started shows nothing; one that has, has used number 1.
StatusFresh == \A pi \in ProcessInst : /\ ~Running(pi) => status[pi] = {}
                                       /\ Running(pi) => last[pi] >= 1

\* The names of nodes entered are added after that of the node left has been deleted.
LEMMA AdvanceStatus ==
  ASSUME TypeOK, IndexConsistent, NEW pi \in ProcessInst, NEW n \in Token(pi),
         NEW taken \in Seq(Relation), Advance(pi, n, taken), last[pi] >= 1,
         NothingStale(pi), NothingMissing(pi)
  PROVE  NothingStale(pi)' /\ NothingMissing(pi)'
<1>1. PICK added \in SUBSET Reached(pi, taken) : Moves(pi, n, taken, added)
  BY AdvanceFacts
<1>2. /\ added \in SUBSET DOMAIN taken /\ last[pi] \in Nat
      /\ \A i \in added : i \in Nat \ {0} /\ last[pi] + i # 1 /\ last[pi] + i # 0
  BY DEF Reached, TypeOK
<1>3. /\ status'[pi] = (status[pi] \ {Name[n]}) \union {Name[taken[i].node] : i \in added}
      /\ \A m \in Node : tokenNodes'[pi][m] = NodeAfter(pi, n, taken, added, m)
  BY <1>1 DEF Moves, StatusAfter
<1>4. \A i \in added : taken[i].node \in Node
  <2> SUFFICES ASSUME NEW i \in added PROVE taken[i].node \in Node
    OBVIOUS
  <2>1. taken[i] \in Relation
    BY <1>2
  <2> QED BY <2>1 DEF Relation
<1>5. \A i \in added : taken[i].node \in Entered(pi)'
  <2> SUFFICES ASSUME NEW i \in added PROVE taken[i].node \in Entered(pi)'
    OBVIOUS
  <2> DEFINE m == taken[i].node
  <2>1. \E h \in added : NodeAfter(pi, n, taken, added, m) = last[pi] + h
    BY <1>2, NodeAfterCases
  <2> QED BY <1>2, <1>3, <1>4, <2>1 DEF Entered, Token
<1>6. \A m \in Node : \/ \E i \in added : taken[i].node = m
                      \/ m = n /\ tokenNodes'[pi][m] = 0
                      \/ m # n /\ tokenNodes'[pi][m] = tokenNodes[pi][m]
  BY <1>2, <1>3, NodeAfterCases
<1>7. NothingStale(pi)'
  <2> SUFFICES ASSUME NEW s \in status'[pi] PROVE \E m \in Entered(pi)' : s = Name[m]
    BY DEF NothingStale
  <2>1. CASE \E i \in added : s = Name[taken[i].node]
    BY <1>5, <2>1
  <2>2. CASE s \in status[pi] /\ s # Name[n]
    <3>1. PICK m \in Entered(pi) : s = Name[m]
      BY <2>2 DEF NothingStale
    <3>2. m \in Node /\ m # n
      BY <2>2, <3>1 DEF Entered, Token
    <3>3. m \in Entered(pi)'
      BY <1>5, <1>6, <3>1, <3>2 DEF Entered, Token
    <3> QED BY <3>1, <3>3
  <2> QED BY <1>3, <2>1, <2>2
<1>8. NothingMissing(pi)'
  <2>1. nodes' = nodes /\ processID' = processID
    BY DEF Advance, defVars
  <2> SUFFICES ASSUME NEW m \in Entered(pi)',
                      \A k \in nodes[processID[pi]] : Name[k] = Name[m] => k = m
               PROVE  Name[m] \in status'[pi]
    BY <2>1 DEF NothingMissing
  <2>2. m \in Node /\ n \in nodes[processID[pi]]
    BY DEF Entered, Token, IndexConsistent
  <2>3. CASE \E i \in added : taken[i].node = m
    BY <1>3, <2>3
  <2>4. CASE m # n /\ tokenNodes'[pi][m] = tokenNodes[pi][m]
    <3>1. m \in Entered(pi)
      BY <2>4, <2>2 DEF Entered, Token
    <3>2. Name[m] \in status[pi] /\ Name[m] # Name[n]
      BY <2>2, <2>4, <3>1 DEF NothingMissing
    <3> QED BY <1>3, <3>2
  <2> QED BY <1>6, <2>2, <2>3, <2>4 DEF Entered, Token
<1> QED BY <1>7, <1>8

LEMMA StatusStep ==
  TypeOK /\ IndexConsistent /\ StatusFresh /\ StatusShowsToken /\ [Next]_vars
    => StatusFresh' /\ StatusShowsToken'
<1> DEFINE Good(pi) == /\ ~Running(pi) => status[pi] = {}
                       /\ Running(pi) => last[pi] >= 1 /\ NothingStale(pi) /\ NothingMissing(pi)
<1>1. StatusFresh /\ StatusShowsToken <=> \A pi \in ProcessInst : Good(pi)
  BY DEF StatusFresh, StatusShowsToken, NothingStale, NothingMissing, Entered
<1>2. (StatusFresh /\ StatusShowsToken)' <=> \A pi \in ProcessInst : Good(pi)'
  BY DEF StatusFresh, StatusShowsToken, NothingStale, NothingMissing, Entered, Token
<1> SUFFICES ASSUME TypeOK, IndexConsistent, [Next]_vars, NEW qi \in ProcessInst, Good(qi)
             PROVE  Good(qi)'
  BY <1>1, <1>2
<1>3. ASSUME processID'[qi] = processID[qi], tokenNodes'[qi] = tokenNodes[qi],
             status'[qi] = status[qi], last'[qi] = last[qi],
             Running(qi) => nodes[processID[qi]] \subseteq nodes'[processID[qi]]
      PROVE  Good(qi)'
  BY <1>3 DEF Running, NothingStale, NothingMissing, Entered, Token
<1>4. ASSUME NEW r \in Request, SetProcess(r) PROVE Good(qi)'
  <2>1. r.process \in Process
    BY RequestAssumption DEF RequestType
  <2>2. Running(qi) => nodes[processID[qi]] \subseteq nodes'[processID[qi]]
    BY <1>4, <2>1 DEF SetProcess, TypeOK, Running
  <2> QED BY <1>3, <1>4, <2>2 DEF SetProcess, tokenVars
<1>5. ASSUME NEW pi \in ProcessInst, NEW p \in Process, Start(pi, p) PROVE Good(qi)'
  <2>1. CASE qi = pi
    <3>1. ~Running(pi) /\ status'[pi] = {} /\ last'[pi] = 1
      BY <1>5, <2>1 DEF Start, TypeOK, Running
    <3>2. \A m \in Node : tokenNodes'[pi][m] \in {0, 1}
      BY <1>5 DEF Start, TypeOK
    <3>3. Entered(pi)' = {}
      BY <3>2 DEF Entered, Token
    <3>4. processID'[pi] = p /\ p # None
      BY <1>5, NoneAssumption DEF Start, TypeOK
    <3> QED BY <2>1, <3>1, <3>3, <3>4 DEF NothingStale, NothingMissing, Running
  <2>2. CASE qi # pi
    BY <1>3, <1>5, <2>2 DEF Start, TypeOK, defVars
  <2> QED BY <2>1, <2>2
<1>6. ASSUME NEW pi \in ProcessInst, NEW d \in Data, SetData(pi, d) PROVE Good(qi)'
  BY <1>3, <1>6 DEF SetData, defVars, tokenVars
<1>7. ASSUME NEW pi \in ProcessInst, NEW n \in Node, Submit(pi, n) PROVE Good(qi)'
  <2>1. CASE SubmitParallel(pi, n) \/ SubmitExclusive(pi, n)
    <3>1. n \in Token(pi)
      BY <2>1, AdvanceTakes
    <3>2. PICK taken \in Seq(Relation) : Advance(pi, n, taken)
      BY <2>1, AdvanceTakes
    <3>3. processID' = processID /\ nodes' = nodes
      BY <3>2 DEF Advance, defVars
    <3>4. CASE qi = pi
      <4>1. Running(pi) /\ last[pi] >= 1 /\ NothingStale(pi) /\ NothingMissing(pi)
        BY <3>1, <3>4 DEF IndexConsistent
      <4>2. NothingStale(pi)' /\ NothingMissing(pi)'
        BY <3>1, <3>2, <4>1, AdvanceStatus
      <4>3. last'[pi] = last[pi] + Len(taken) /\ last[pi] \in Nat /\ Len(taken) \in Nat
        BY <3>1, <3>2, AdvanceFacts DEF TypeOK
      <4> QED BY <3>3, <3>4, <4>1, <4>2, <4>3 DEF Running
    <3>5. CASE qi # pi
      BY <1>3, <3>1, <3>2, <3>3, <3>5, AdvanceFacts
    <3> QED BY <3>4, <3>5
  <2>2. CASE SubmitWaits(pi, n) \/ SubmitRefused(pi, n)
    BY <1>3, <2>2 DEF SubmitWaits, SubmitRefused, vars, defVars, tokenVars
  <2> QED BY <1>7, <2>1, <2>2 DEF Submit
<1>8. CASE UNCHANGED vars
  BY <1>3, <1>8 DEF vars, defVars, tokenVars
<1> QED BY <1>4, <1>5, <1>6, <1>7, <1>8 DEF Next

\* The status names the nodes of the token, through nodes that share names, nodes that
\* follow themselves and definitions that change under a running process.
THEOREM StatusIsTrue == Spec => []StatusShowsToken
<1>1. Init => StatusFresh /\ StatusShowsToken
  BY DEF Init, StatusFresh, StatusShowsToken, Running
<1>2. TypeOK /\ IndexConsistent /\ StatusFresh /\ StatusShowsToken /\ [Next]_vars
        => StatusFresh' /\ StatusShowsToken'
  BY StatusStep
<1> QED BY <1>1, <1>2, TypeCorrect, IndexAlwaysConsistent, PTL DEF Spec

-----------------------------------------------------------------------------
(* The engine plays the token game. *)

\* The refinement mapping: active nodes, and the two sides of the relations.
Active == [pi \in ProcessInst |-> Token(pi)]
Succ == [n \in Node |-> Successors(n)]

\* A submission that advances is a firing of its node.
LEMMA AdvanceFires ==
  ASSUME IInv, LinesResolve, NEW pi \in ProcessInst, NEW n \in Node,
         SubmitParallel(pi, n) \/ SubmitExclusive(pi, n)
  PROVE  Game!Fire(pi, n)
<1> USE DEF IInv
<1>1. n \in Token(pi)
  BY AdvanceTakes
<1>2. PICK taken \in Seq(Relation) :
        /\ Advance(pi, n, taken)
        /\ taken # <<>>
        /\ \/ OutType[n] = "Parallel" /\ taken = To[n]
           \/ OutType[n] = "Exclusive" /\ \E i \in DOMAIN To[n] : taken = <<To[n][i]>>
  BY AdvanceTakes
<1> DEFINE T == {taken[i].node : i \in DOMAIN taken}
<1>3. /\ 1 \in DOMAIN taken
      /\ \A i \in DOMAIN taken : taken[i].node \in Successors(n)
      /\ OutType[n] = "Parallel" => T = Successors(n)
      /\ OutType[n] # "Parallel" => \E m \in Successors(n) : T = {m}
  BY <1>2, TakenNodes
<1>4. PICK added \in SUBSET Reached(pi, taken) : Moves(pi, n, taken, added)
  BY <1>1, <1>2, AdvanceFacts
<1> DEFINE entered == {taken[i].node : i \in added}
           rest == Token(pi) \ {n}
<1>5. Reached(pi, taken) = DOMAIN taken
  BY <1>1, <1>3, AllReached
<1>6. Token(pi)' = rest \union entered /\ entered \subseteq T
  BY <1>1, <1>4, <1>5, MovedToken
<1>7. \A i \in DOMAIN taken : i \in added <=> InGateOpen(taken[i].node,
        rest \union {taken[j].node : j \in {k \in added : k < i}})
  BY <1>4, <1>5 DEF Moves, Entering
<1>8. \A i \in DOMAIN taken : taken[i].node \in Node
  <2> TAKE i \in DOMAIN taken
  <2>1. taken[i] \in Relation
    OBVIOUS
  <2> QED BY <2>1 DEF Relation
<1>9. ASSUME NEW s \in entered, InType[s] = "Parallel" PROVE From[s] \intersect rest = {}
  BY <1>5, <1>7, <1>9 DEF InGateOpen
<1>10. ASSUME NEW s \in T \ entered
       PROVE  /\ s \in {m \in Node : InType[m] = "Parallel"}
              /\ From[s] \intersect (rest \union entered) # {}
  <2>1. PICK i \in DOMAIN taken : taken[i].node = s
    BY <1>10
  <2>2. i \notin added
    BY <1>10, <2>1
  <2>3. ~ InGateOpen(s, rest \union {taken[j].node : j \in {k \in added : k < i}})
    BY <1>7, <2>1, <2>2
  <2> QED BY <1>8, <2>1, <2>3 DEF InGateOpen
<1>11. Active' = [Active EXCEPT ![pi] = (@ \ {n}) \union entered]
  <2>1. \A qi \in ProcessInst \ {pi} : Token(qi)' = Token(qi)
    BY <1>1, <1>2, AdvanceFacts DEF Token
  <2> QED BY <1>6, <2>1 DEF Active
<1>12. T \in (IF n \in {m \in Node : OutType[m] = "Parallel"} THEN {Succ[n]}
              ELSE {{s} : s \in Succ[n]})
  BY <1>3 DEF Succ
<1>13. n \in Active[pi] /\ Succ[n] # {} /\ Active[pi] \ {n} = rest
  BY <1>1, <1>3 DEF Active, Succ
<1>14. UNCHANGED <<Succ, From>>
  BY <1>2 DEF Advance, defVars, Succ, Successors
<1> HIDE DEF T, entered, rest
<1>15. entered \in SUBSET T
  BY <1>6
<1>16. \A s \in entered \intersect {m \in Node : InType[m] = "Parallel"} :
         From[s] \intersect (Active[pi] \ {n}) = {}
  BY <1>9, <1>13
<1>17. \A s \in T \ entered :
         /\ s \in {m \in Node : InType[m] = "Parallel"}
         /\ From[s] \intersect ((Active[pi] \ {n}) \union entered) # {}
  BY <1>10, <1>13
<1> QED BY <1>11, <1>12, <1>13, <1>14, <1>15, <1>16, <1>17
        DEF Game!Fire, Game!HandOver, Active, Succ

\* Every step of the engine is a step of the game or leaves the game as it is.
LEMMA GameStep == LinesResolve /\ IInv /\ IInv' /\ [Next]_vars => [Game!Next]_(Game!vars)
<1> SUFFICES ASSUME LinesResolve, IInv, IInv', [Next]_vars PROVE [Game!Next]_(Game!vars)
  OBVIOUS
<1> USE DEF IInv
<1>1. CASE UNCHANGED <<tokenNodes, To, From>>
  BY <1>1 DEF Game!vars, Token, Successors
<1>2. ASSUME NEW r \in Request, SetProcess(r) PROVE Game!Design
  <2>1. /\ r.process \in Process /\ r.nodes \in SUBSET Node
        /\ r.lines \in [Node -> Seq(Relation)]
    BY RequestAssumption DEF RequestType
  <2>2. ASSUME NEW n \in Node
        PROVE  /\ Successors(n)' \in SUBSET Node /\ Successors(n) \subseteq Successors(n)'
               /\ From'[n] \in SUBSET Node /\ From[n] \subseteq From'[n]
    <3>1. To'[n] \in Seq(Relation) /\ To[n] \in Seq(Relation) /\ r.lines[n] \in Seq(Relation)
      BY <2>1 DEF TypeOK
    <3>2. \A i \in DOMAIN To'[n] : To'[n][i].node \in Node
      <4> TAKE i \in DOMAIN To'[n]
      <4>1. To'[n][i] \in Relation
        BY <3>1
      <4> QED BY <4>1 DEF Relation
    <3>3. To'[n] = To[n] \/ To'[n] = To[n] \o r.lines[n]
      BY <1>2 DEF SetProcess
    <3>4. \A i \in DOMAIN To[n] : i \in DOMAIN To'[n] /\ To'[n][i] = To[n][i]
      <4> DEFINE old == To[n]
                 more == r.lines[n]
      <4>1. old \in Seq(Relation) /\ more \in Seq(Relation)
        BY <3>1
      <4>2. \A i \in DOMAIN old : i \in DOMAIN (old \o more) /\ (old \o more)[i] = old[i]
        <5> HIDE DEF old, more
        <5> QED BY <4>1, AppendKeeps
      <4> QED BY <3>3, <4>2
    <3>5. From[n] \subseteq From'[n] /\ From'[n] \in SUBSET Node
      BY <1>2 DEF SetProcess, TypeOK
    <3> QED BY <3>2, <3>4, <3>5 DEF Successors
  <2>3. UNCHANGED tokenNodes
    BY <1>2 DEF SetProcess, tokenVars
  <2> QED BY <2>2, <2>3 DEF Game!Design, TypeOK, Token
<1>3. ASSUME NEW pi \in ProcessInst, NEW p \in Process, Start(pi, p) PROVE Game!Begin(pi)
  <2>1. Token(pi) = {} /\ UNCHANGED <<To, From>> /\ processDefs[p] \in Node
    BY <1>3 DEF Start, IndexConsistent, Running, defVars, TypeOK
  <2>2. Token(pi)' = {processDefs[p]}
    BY <1>3, <2>1 DEF Start, TypeOK, Token
  <2>3. \A qi \in ProcessInst \ {pi} : Token(qi)' = Token(qi)
    BY <1>3 DEF Start, TypeOK, Token
  <2>4. Active' = [Active EXCEPT ![pi] = {processDefs[p]}]
    BY <2>2, <2>3 DEF Active
  <2>5. Active[pi] = {} /\ UNCHANGED <<Succ, From>>
    BY <2>1 DEF Active, Succ, Successors
  <2> QED BY <2>1, <2>4, <2>5 DEF Game!Begin, Active, Succ
<1>4. ASSUME NEW pi \in ProcessInst, NEW d \in Data, SetData(pi, d)
      PROVE  [Game!Next]_(Game!vars)
  BY <1>1, <1>4 DEF SetData, defVars, tokenVars
<1>5. ASSUME NEW pi \in ProcessInst, NEW n \in Node, Submit(pi, n)
      PROVE  [Game!Next]_(Game!vars)
  <2>1. CASE SubmitParallel(pi, n) \/ SubmitExclusive(pi, n)
    BY <2>1, AdvanceFires DEF Game!Next
  <2>2. CASE SubmitWaits(pi, n) \/ SubmitRefused(pi, n)
    BY <1>1, <2>2 DEF SubmitWaits, SubmitRefused, vars, defVars, tokenVars
  <2> QED BY <1>5, <2>1, <2>2 DEF Submit
<1>6. CASE UNCHANGED vars
  BY <1>1, <1>6 DEF vars, defVars, tokenVars
<1> QED BY <1>2, <1>3, <1>4, <1>5, <1>6 DEF Next, Game!Next

\* Whatever the definitions whose lines resolve, the engine implements the token game.
THEOREM EnginePlaysTokenGame == ASSUME LinesResolve PROVE Spec => PlaysTokenGame
<1>1. Init => Game!Init
  BY DEF Init, Game!Init, Token, Successors
<1>2. IInv /\ IInv' /\ [Next]_vars => [Game!Next]_(Game!vars)
  BY GameStep
<1>3. Spec => Game!Spec
  BY <1>1, <1>2, InvariantHolds, PTL DEF Spec, Game!Spec
<1> QED BY <1>3 DEF PlaysTokenGame
=============================================================================
