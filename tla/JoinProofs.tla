----------------------------- MODULE JoinProofs -----------------------------
(***************************************************************************)
(* Proof that in a fork whose branches meet in one join, the join is       *)
(* entered no more often than each branch has been completed, for every    *)
(* number of branches and every surrounding process.                       *)
(***************************************************************************)
EXTENDS WorkflowProofs, FiniteSetTheorems

\* A node that a node leads to knows it as a predecessor.
Mirrored == LinesResolve => \A n \in Node : \A m \in Successors(n) : n \in From[m]

\* Instance numbers above the last one used belong to no node.
InstFresh ==
  \A pi \in ProcessInst : \A k \in InstID : k > last[pi] => instNode[pi][k] = None

\* What JoinAfterAllBranches says of j, and in addition: while some branch is under way,
\* a branch that is not has been completed once more than j has been entered.
Ahead(pi, j) ==
  \A b \in From[j] :
    /\ Cardinality(InstancesOf(pi, j)) <= Cardinality(ClosedOf(pi, b))
    /\ b \notin Token(pi) /\ From[j] \intersect Token(pi) # {} =>
         Cardinality(InstancesOf(pi, j)) < Cardinality(ClosedOf(pi, b))

AlwaysAhead ==
  LinesResolve =>
    \A pi \in ProcessInst : Running(pi) /\ regs[processID[pi]] = 1 =>
      \A f, j \in nodes[processID[pi]] : Diamond(processID[pi], f, j) => Ahead(pi, j)

-----------------------------------------------------------------------------
(* Instances. *)

\* The sets counted are finite.
LEMMA Countable ==
  ASSUME NEW pi, NEW n
  PROVE  /\ IsFiniteSet(InstancesOf(pi, n)) /\ Cardinality(InstancesOf(pi, n)) \in Nat
         /\ IsFiniteSet(ClosedOf(pi, n)) /\ Cardinality(ClosedOf(pi, n)) \in Nat
         /\ IsFiniteSet(InstancesOf(pi, n)') /\ Cardinality(InstancesOf(pi, n)') \in Nat
         /\ IsFiniteSet(ClosedOf(pi, n)') /\ Cardinality(ClosedOf(pi, n)') \in Nat
<1>1. IsFiniteSet(InstID)
  BY BoundAssumption, FS_Interval DEF InstID
<1>2. /\ InstancesOf(pi, n) \subseteq InstID /\ ClosedOf(pi, n) \subseteq InstID
      /\ InstancesOf(pi, n)' \subseteq InstID /\ ClosedOf(pi, n)' \subseteq InstID
  BY DEF InstancesOf, ClosedOf
<1> QED BY <1>1, <1>2, FS_Subset, FS_CardinalityType

\* An advance closes the instance of the node submitted and keeps what is closed.
LEMMA ClosedGrows ==
  ASSUME TypeOK, IndexConsistent, FreshUnused, NEW pi \in ProcessInst, NEW n \in Token(pi),
         NEW taken \in Seq(Relation), Advance(pi, n, taken), NEW m \in Node
  PROVE  /\ Cardinality(ClosedOf(pi, m)) <= Cardinality(ClosedOf(pi, m)')
         /\ m = n => Cardinality(ClosedOf(pi, m)) < Cardinality(ClosedOf(pi, m)')
<1>1. PICK added \in SUBSET Reached(pi, taken) : Moves(pi, n, taken, added)
  BY AdvanceFacts
<1>2. \A k \in ClosedOf(pi, m) : k \in ClosedOf(pi, m)'
  <2> SUFFICES ASSUME NEW k \in ClosedOf(pi, m) PROVE k \in ClosedOf(pi, m)'
    OBVIOUS
  <2>1. k \in InstID /\ instStatus[pi][k] = "Closed" /\ instNode[pi][k] = m
    BY DEF ClosedOf, InstancesOf
  <2>2. k <= last[pi]
    <3>1. ~(k > last[pi])
      BY <2>1 DEF FreshUnused
    <3>2. k \in Nat /\ last[pi] \in Nat
      BY <2>1, BoundAssumption DEF InstID, TypeOK
    <3> QED BY <3>1, <3>2
  <2>3. instNode'[pi][k] = m /\ instStatus'[pi][k] = "Closed"
    BY <1>1, <2>1, <2>2 DEF Moves
  <2> QED BY <2>1, <2>3 DEF ClosedOf, InstancesOf
<1>3. ASSUME m = n PROVE \E k : k \in ClosedOf(pi, m)' /\ k \notin ClosedOf(pi, m)
  <2> DEFINE k == tokenNodes[pi][n]
  <2>1. k \in tokenInsts[pi] /\ instNode[pi][k] = n
    BY DEF IndexConsistent
  <2>2. k \in InstID /\ k <= last[pi] /\ instStatus[pi][k] # "Closed"
    BY <2>1 DEF IndexConsistent, TypeOK
  <2>3. instNode'[pi][k] = n /\ instStatus'[pi][k] = "Closed"
    BY <1>1, <2>1, <2>2 DEF Moves
  <2> QED BY <1>3, <2>2, <2>3 DEF ClosedOf, InstancesOf
<1>4. ClosedOf(pi, m) \subseteq ClosedOf(pi, m)'
  BY <1>2
<1>5. Cardinality(ClosedOf(pi, m)) <= Cardinality(ClosedOf(pi, m)')
  BY <1>4, Countable, FS_Subset
<1>6. ASSUME m = n PROVE Cardinality(ClosedOf(pi, m)) < Cardinality(ClosedOf(pi, m)')
  <2>1. ClosedOf(pi, m) # ClosedOf(pi, m)'
    BY <1>3, <1>6
  <2> QED BY <1>4, <2>1, Countable, FS_Subset
<1> QED BY <1>5, <1>6

\* An advance that enters j at most once gives it at most one instance more.
LEMMA InstancesGrow ==
  ASSUME TypeOK, InstFresh, NEW pi \in ProcessInst, NEW n \in Token(pi),
         NEW taken \in Seq(Relation), NEW added \in SUBSET Reached(pi, taken),
         Moves(pi, n, taken, added), NEW j \in Node
  PROVE  /\ (\A i \in added : taken[i].node # j)
              => InstancesOf(pi, j)' \subseteq InstancesOf(pi, j)
         /\ added \subseteq {1}
              => InstancesOf(pi, j)' \subseteq InstancesOf(pi, j) \union {last[pi] + 1}
<1>1. \A i \in added : last[pi] + i \in InstID /\ instNode'[pi][last[pi] + i] = taken[i].node
  BY DEF Moves
<1>2. ASSUME NEW k \in InstancesOf(pi, j)', \A i \in added : k # last[pi] + i
      PROVE  k \in InstancesOf(pi, j)
  <2>1. k \in InstID /\ instNode'[pi][k] = j /\ j # None
    BY NoneAssumption DEF InstancesOf
  <2>2. CASE k <= last[pi]
    BY <2>1, <2>2 DEF InstancesOf, Moves
  <2>3. CASE k > last[pi]
    <3>1. instNode'[pi][k] = None
      BY <1>2, <2>1, <2>3 DEF Moves, InstFresh
    <3> QED BY <2>1, <3>1
  <2>4. k \in Nat /\ last[pi] \in Nat
    BY <2>1, BoundAssumption DEF InstID, TypeOK
  <2> QED BY <2>2, <2>3, <2>4
<1>3. ASSUME \A i \in added : taken[i].node # j
      PROVE  InstancesOf(pi, j)' \subseteq InstancesOf(pi, j)
  <2> SUFFICES ASSUME NEW k \in InstancesOf(pi, j)' PROVE k \in InstancesOf(pi, j)
    OBVIOUS
  <2>1. instNode'[pi][k] = j
    BY DEF InstancesOf
  <2> QED BY <1>1, <1>2, <1>3, <2>1
<1>4. ASSUME added \subseteq {1}
      PROVE  InstancesOf(pi, j)' \subseteq InstancesOf(pi, j) \union {last[pi] + 1}
  BY <1>2, <1>4
<1> QED BY <1>3, <1>4

LEMMA InstancesCount ==
  ASSUME NEW pi, NEW j, NEW x
  PROVE  /\ InstancesOf(pi, j)' \subseteq InstancesOf(pi, j) =>
              Cardinality(InstancesOf(pi, j)') <= Cardinality(InstancesOf(pi, j))
         /\ InstancesOf(pi, j)' \subseteq InstancesOf(pi, j) \union {x} =>
              Cardinality(InstancesOf(pi, j)') <= Cardinality(InstancesOf(pi, j)) + 1
<1>1. /\ IsFiniteSet(InstancesOf(pi, j) \union {x})
      /\ Cardinality(InstancesOf(pi, j) \union {x}) \in Nat
      /\ Cardinality(InstancesOf(pi, j) \union {x}) <= Cardinality(InstancesOf(pi, j)) + 1
  <2>1. IsFiniteSet(InstancesOf(pi, j)) /\ Cardinality(InstancesOf(pi, j)) \in Nat
    BY Countable
  <2>2. IsFiniteSet(InstancesOf(pi, j) \union {x})
    BY <2>1, FS_AddElement
  <2>3. \/ Cardinality(InstancesOf(pi, j) \union {x}) = Cardinality(InstancesOf(pi, j))
        \/ Cardinality(InstancesOf(pi, j) \union {x}) = Cardinality(InstancesOf(pi, j)) + 1
    BY <2>1, FS_AddElement
  <2> QED BY <2>1, <2>2, <2>3
<1>2. InstancesOf(pi, j)' \subseteq InstancesOf(pi, j) =>
        Cardinality(InstancesOf(pi, j)') <= Cardinality(InstancesOf(pi, j))
  BY Countable, FS_Subset
<1>3. ASSUME InstancesOf(pi, j)' \subseteq InstancesOf(pi, j) \union {x}
      PROVE  Cardinality(InstancesOf(pi, j)') <= Cardinality(InstancesOf(pi, j)) + 1
  <2>1. Cardinality(InstancesOf(pi, j)') <= Cardinality(InstancesOf(pi, j) \union {x})
    BY <1>1, <1>3, FS_Subset
  <2> QED BY <1>1, <2>1, Countable
<1> QED BY <1>2, <1>3

-----------------------------------------------------------------------------
(* Advances. *)

\* The fork, a branch or another node is submitted.
LEMMA AdvanceAhead ==
  ASSUME IInv, FreshUnused, InstFresh, Mirrored, LinesResolve,
         NEW pi \in ProcessInst, Running(pi), NEW n \in Node,
         SubmitParallel(pi, n) \/ SubmitExclusive(pi, n),
         NEW f \in Node, NEW j \in Node, Diamond(processID[pi], f, j), Ahead(pi, j)
  PROVE  Ahead(pi, j)'
<1>1. PICK taken \in Seq(Relation) :
        /\ Advance(pi, n, taken)
        /\ taken # <<>>
        /\ \/ OutType[n] = "Parallel" /\ taken = To[n]
           \/ OutType[n] = "Exclusive" /\ \E i \in DOMAIN To[n] : taken = <<To[n][i]>>
  BY AdvanceTakes DEF IInv
<1>2. n \in Token(pi) /\ CanPush(pi, n)
  BY DEF SubmitParallel, SubmitExclusive, CanPush
<1>3. PICK added \in SUBSET Reached(pi, taken) : Moves(pi, n, taken, added)
  BY <1>1, <1>2, AdvanceFacts DEF IInv
<1>4. /\ Token(pi)' = (Token(pi) \ {n}) \union {taken[i].node : i \in added}
      /\ added \subseteq DOMAIN taken /\ From' = From
      /\ \A i \in DOMAIN taken : taken[i].node \in Successors(n)
      /\ \A i \in DOMAIN taken : n \in From[taken[i].node]
  <2>1. Token(pi)' = (Token(pi) \ {n}) \union {taken[i].node : i \in added}
    BY <1>2, <1>3, MovedToken DEF IInv
  <2>2. \A i \in DOMAIN taken : taken[i].node \in Successors(n)
    BY <1>1, TakenNodes DEF IInv
  <2> QED BY <1>1, <2>1, <2>2 DEF Mirrored, Reached, Advance, defVars
<1>5. /\ InType[j] = "Parallel" /\ OutType[f] = "Parallel" /\ From[j] = Successors(f)
      /\ \A b \in From[j] : /\ b \in Node /\ From[b] = {f}
                            /\ Successors(b) = {j} /\ Len(To[b]) = 1
  BY DEF Diamond, IInv, TypeOK
<1>6. \A b \in From[j] : Cardinality(ClosedOf(pi, b)) <= Cardinality(ClosedOf(pi, b)')
  BY <1>1, <1>2, <1>5, ClosedGrows DEF IInv
<1>7. \A b \in Node : /\ Cardinality(InstancesOf(pi, b)) \in Nat
                      /\ Cardinality(InstancesOf(pi, b)') \in Nat
                      /\ Cardinality(ClosedOf(pi, b)) \in Nat
                      /\ Cardinality(ClosedOf(pi, b)') \in Nat
  BY Countable
\* A join that is a branch of itself is the fork, too, and never goes on.
<1>8. j \notin From[j] \/ n # j
  <2> SUFFICES ASSUME j \in From[j], n = j PROVE FALSE
    OBVIOUS
  <2> QED BY <1>2, <1>5 DEF CanPush, InGateOpen
<1>9. ASSUME \A i \in added : taken[i].node # j
      PROVE  Cardinality(InstancesOf(pi, j)') <= Cardinality(InstancesOf(pi, j))
  BY ZenonT(60), <1>2, <1>3, <1>9, InstancesGrow, InstancesCount DEF IInv
<1>10. CASE n = f
  <2>1. j \notin From[j]
    BY <1>5, <1>8, <1>10
  <2>2. taken = To[f] /\ {taken[i].node : i \in DOMAIN taken} = From[j]
    BY <1>1, <1>5, <1>10, TakenNodes DEF IInv
  <2>3. \A i \in added : taken[i].node # j
    BY <1>4, <2>1, <2>2
  <2>4. f \notin From[j]
    BY <1>5, <2>1
  <2>5. added = DOMAIN taken
    <3>1. Reached(pi, taken) = DOMAIN taken
      BY <1>2, <1>4, AllReached DEF IInv
    <3>2. \A i \in DOMAIN taken :
            InGateOpen(taken[i].node,
              (Token(pi) \ {n}) \union {taken[k].node : k \in {h \in added : h < i}})
      BY <1>4, <1>5, <1>10, <2>2, <2>4 DEF InGateOpen
    <3> QED BY <1>3, <3>1, <3>2 DEF Moves, Entering
  <2>6. From[j] \subseteq Token(pi)'
    BY <1>4, <2>2, <2>5
  <2> QED BY SMTT(30), <1>4, <1>5, <1>6, <1>7, <1>9, <2>3, <2>6 DEF Ahead
<1>11. CASE n \in From[j] /\ n # f
  <2>1. j \notin From[j]
    BY <1>5, <1>11
  <2>2. Len(taken) = 1 /\ added \subseteq {1} /\ taken[1].node = j
    <3>1. Len(taken) = 1
      BY <1>1, <1>5, <1>11 DEF IInv, TypeOK
    <3>2. DOMAIN taken = {1}
      BY <3>1
    <3> QED BY <1>4, <1>5, <1>11, <3>1, <3>2
  <2>3. Cardinality(ClosedOf(pi, n)) < Cardinality(ClosedOf(pi, n)')
    BY <1>1, <1>2, ClosedGrows DEF IInv
  <2>4. CASE added = {}
    <3>1. Token(pi)' = Token(pi) \ {n}
      BY <1>4, <2>4
    <3>2. Cardinality(InstancesOf(pi, j)') <= Cardinality(InstancesOf(pi, j))
      BY <1>9, <2>4
    <3>3. ASSUME NEW b \in From[j]
          PROVE  /\ Cardinality(InstancesOf(pi, j)') <= Cardinality(ClosedOf(pi, b)')
                 /\ b \notin Token(pi)' =>
                      Cardinality(InstancesOf(pi, j)') < Cardinality(ClosedOf(pi, b)')
      <4>1. Cardinality(InstancesOf(pi, j)) <= Cardinality(ClosedOf(pi, b))
        BY DEF Ahead
      <4>2. CASE b = n
        BY <1>5, <1>7, <2>3, <3>2, <4>1, <4>2
      <4>3. CASE b # n
        <5>1. b \notin Token(pi)' =>
                Cardinality(InstancesOf(pi, j)) < Cardinality(ClosedOf(pi, b))
          BY <1>2, <1>11, <3>1, <4>3 DEF Ahead
        <5> QED BY SMTT(30), <1>5, <1>6, <1>7, <3>2, <4>1, <5>1
      <4> QED BY <4>2, <4>3
    <3> QED BY <1>4, <3>3 DEF Ahead
  <2>5. CASE added = {1}
    <3>1. From[j] \intersect (Token(pi) \ {n}) = {}
      <4>1. InGateOpen(taken[1].node,
              (Token(pi) \ {n}) \union {taken[k].node : k \in {h \in added : h < 1}})
        BY <1>3, <2>5 DEF Moves, Entering
      <4> QED BY <1>5, <2>2, <4>1 DEF InGateOpen
    <3>2. From[j] \intersect Token(pi)' = {}
      BY <1>4, <2>1, <2>2, <2>5, <3>1
    <3>3. Cardinality(InstancesOf(pi, j)') <= Cardinality(InstancesOf(pi, j)) + 1
      BY <1>2, <1>3, <2>2, InstancesGrow, InstancesCount DEF IInv
    <3>4. ASSUME NEW b \in From[j]
          PROVE  Cardinality(InstancesOf(pi, j)') <= Cardinality(ClosedOf(pi, b)')
      <4>1. CASE b = n
        <5>1. Cardinality(InstancesOf(pi, j)) <= Cardinality(ClosedOf(pi, b))
          BY DEF Ahead
        <5> QED BY <1>5, <1>7, <2>3, <3>3, <4>1, <5>1
      <4>2. CASE b # n
        <5>1. Cardinality(InstancesOf(pi, j)) < Cardinality(ClosedOf(pi, b))
          BY <1>2, <1>11, <3>1, <4>2 DEF Ahead
        <5> QED BY SMTT(30), <1>5, <1>6, <1>7, <3>3, <5>1
      <4> QED BY <4>1, <4>2
    <3> QED BY <1>4, <3>2, <3>4 DEF Ahead
  <2> QED BY <2>2, <2>4, <2>5
<1>12. CASE n \notin From[j] /\ n # f
  <2>1. \A i \in added : taken[i].node # j /\ taken[i].node \notin From[j]
    BY <1>4, <1>5, <1>12
  <2>2. From[j] \intersect Token(pi)' = From[j] \intersect Token(pi)
    BY <1>4, <1>12, <2>1
  <2>3. Cardinality(InstancesOf(pi, j)') <= Cardinality(InstancesOf(pi, j))
    BY <1>9, <2>1
  <2>4. ASSUME NEW b \in From[j]
        PROVE  /\ Cardinality(InstancesOf(pi, j)') <= Cardinality(ClosedOf(pi, b)')
               /\ b \notin Token(pi)' /\ From[j] \intersect Token(pi)' # {} =>
                    Cardinality(InstancesOf(pi, j)') < Cardinality(ClosedOf(pi, b)')
    <3>1. Cardinality(InstancesOf(pi, j)) <= Cardinality(ClosedOf(pi, b))
      BY DEF Ahead
    <3>2. b \in Token(pi)' <=> b \in Token(pi)
      BY <2>2
    <3>3. b \notin Token(pi)' /\ From[j] \intersect Token(pi)' # {} =>
            Cardinality(InstancesOf(pi, j)) < Cardinality(ClosedOf(pi, b))
      BY <2>2, <3>2 DEF Ahead
    <3>4. b \in Node
      BY <1>5
    <3> QED BY SMTT(30), <1>6, <1>7, <2>3, <3>1, <3>3, <3>4
  <2> QED BY <1>4, <2>4 DEF Ahead
<1> QED BY <1>10, <1>11, <1>12

-----------------------------------------------------------------------------
(* Steps. *)

LEMMA MirroredStep == TypeOK /\ Mirrored /\ [Next]_vars => Mirrored'
<1> SUFFICES ASSUME TypeOK, Mirrored, [Next]_vars, LinesResolve PROVE Mirrored'
  BY DEF Mirrored
<1>1. CASE UNCHANGED <<To, From>>
  BY <1>1 DEF Mirrored, Successors
<1>2. ASSUME NEW r \in Request, SetProcess(r) PROVE Mirrored'
  <2> DEFINE known == nodes[r.process] \union r.nodes
  <2>1. r.lines \in [Node -> Seq(Relation)]
    BY RequestAssumption DEF RequestType
  <2>2. \A n \in Node : To'[n] = IF n \in known THEN To[n] \o r.lines[n] ELSE To[n]
    BY <1>2 DEF SetProcess
  <2>3. \A m \in Node : From'[m] = IF m \in known THEN From[m] \union ComesFrom(r, m)
                                                   ELSE From[m]
    BY <1>2 DEF SetProcess
  <2> SUFFICES ASSUME NEW n \in Node, NEW i \in DOMAIN To'[n]
               PROVE  n \in From'[To'[n][i].node]
    BY DEF Mirrored, Successors
  <2>4. ASSUME NEW h \in DOMAIN To[n] PROVE n \in From'[To[n][h].node]
    <3>1. n \in From[To[n][h].node] /\ To[n][h] \in Relation
      BY DEF Mirrored, Successors, TypeOK
    <3> QED BY <2>3, <3>1 DEF Relation
  <2>5. CASE n \notin known
    BY <2>2, <2>4, <2>5
  <2>6. CASE n \in known
    <3>1. \/ i \in DOMAIN To[n] /\ To'[n][i] = To[n][i]
          \/ \E h \in DOMAIN r.lines[n] : To'[n][i] = r.lines[n][h]
      <4>1. To[n] \in Seq(Relation) /\ r.lines[n] \in Seq(Relation)
        BY <2>1 DEF TypeOK
      <4>2. To'[n] = To[n] \o r.lines[n] /\ i \in DOMAIN (To[n] \o r.lines[n])
        BY <2>2, <2>6
      <4> DEFINE old == To[n]
                 more == r.lines[n]
      <4>3. \/ i \in DOMAIN old /\ (old \o more)[i] = old[i]
            \/ \E h \in DOMAIN more : (old \o more)[i] = more[h]
        <5>1. old \in Seq(Relation) /\ more \in Seq(Relation) /\ i \in DOMAIN (old \o more)
          BY <4>1, <4>2
        <5> HIDE DEF old, more
        <5> QED BY <5>1, AppendedFrom
      <4> QED BY <4>2, <4>3
    <3>2. ASSUME NEW h \in DOMAIN r.lines[n] PROVE n \in From'[r.lines[n][h].node]
      <4>1. r.lines[n][h].node \in r.nodes /\ r.lines[n][h] \in Relation
        BY <2>1 DEF LinesResolve
      <4>2. n \in ComesFrom(r, r.lines[n][h].node)
        BY DEF ComesFrom
      <4> QED BY <2>3, <4>1, <4>2 DEF Relation
    <3> QED BY <2>4, <3>1, <3>2
  <2> QED BY <2>5, <2>6
<1>3. ASSUME NEW pi \in ProcessInst, NEW n \in Node, Submit(pi, n) PROVE UNCHANGED <<To, From>>
  BY <1>3 DEF Submit, SubmitParallel, SubmitWaits, SubmitExclusive, SubmitRefused, Advance,
              vars, defVars
<1>4. ASSUME NEW pi \in ProcessInst,
             \/ \E p \in Process : Start(pi, p)
             \/ \E d \in Data : SetData(pi, d)
      PROVE  UNCHANGED <<To, From>>
  BY <1>4 DEF Start, SetData, defVars
<1>5. UNCHANGED vars => UNCHANGED <<To, From>>
  BY DEF vars, defVars
<1> QED BY <1>1, <1>2, <1>3, <1>4, <1>5 DEF Next

LEMMA InstFreshStep ==
  TypeOK /\ IndexConsistent /\ FreshUnused /\ InstFresh /\ [Next]_vars => InstFresh'
<1> SUFFICES ASSUME TypeOK, IndexConsistent, FreshUnused, InstFresh, [Next]_vars,
                    NEW qi \in ProcessInst, NEW k \in InstID, k > last'[qi]
             PROVE  instNode'[qi][k] = None
  BY DEF InstFresh
<1>1. CASE instNode'[qi] = instNode[qi] /\ last'[qi] = last[qi]
  BY <1>1 DEF InstFresh
<1>2. ASSUME NEW pi \in ProcessInst, NEW p \in Process, Start(pi, p)
      PROVE  instNode'[qi][k] = None
  <2>1. CASE qi = pi
    <3>1. last[pi] = 0 /\ last'[pi] = 1
      BY <1>2 DEF Start, TypeOK, FreshUnused, Running
    <3>2. k # 1 /\ k > last[pi]
      BY <2>1, <3>1, BoundAssumption DEF InstID
    <3>3. instNode'[pi][k] = instNode[pi][k]
      BY <1>2, <3>2 DEF Start, TypeOK
    <3> QED BY <2>1, <3>2, <3>3 DEF InstFresh
  <2>2. CASE qi # pi
    BY <1>1, <1>2, <2>2 DEF Start, TypeOK
  <2> QED BY <2>1, <2>2
<1>3. ASSUME NEW pi \in ProcessInst, NEW n \in Node,
             SubmitParallel(pi, n) \/ SubmitExclusive(pi, n)
      PROVE  instNode'[qi][k] = None
  <2>1. PICK taken \in Seq(Relation) : n \in Token(pi) /\ Advance(pi, n, taken)
    BY <1>3, AdvanceTakes
  <2>2. CASE qi = pi
    <3>1. PICK added \in SUBSET Reached(pi, taken) : Moves(pi, n, taken, added)
      BY <2>1, AdvanceFacts
    <3>2. last'[pi] = last[pi] + Len(taken) /\ last[pi] \in Nat /\ Len(taken) \in Nat
      BY <2>1, AdvanceFacts DEF TypeOK
    <3>3. k > last[pi] /\ \A i \in added : k # last[pi] + i
      BY <2>2, <3>1, <3>2, BoundAssumption DEF Moves, InstID
    <3>4. instNode'[pi][k] = instNode[pi][k]
      BY <3>1, <3>3 DEF Moves
    <3> QED BY <2>2, <3>3, <3>4 DEF InstFresh
  <2>3. CASE qi # pi
    BY <1>1, <2>1, <2>3, AdvanceFacts
  <2> QED BY <2>2, <2>3
<1> QED BY <1>1, <1>2, <1>3 DEF Next, SetProcess, SetData, Submit, SubmitWaits, SubmitRefused,
              vars, tokenVars

\* The steps that move no token of qi, open or close no instance and leave its graph alone.
LEMMA StillAhead ==
  ASSUME NEW qi, NEW j, Ahead(qi, j), From'[j] = From[j], tokenNodes'[qi] = tokenNodes[qi],
         instNode'[qi] = instNode[qi],
         \A k \in InstID : instStatus'[qi][k] = "Closed" <=> instStatus[qi][k] = "Closed"
  PROVE  Ahead(qi, j)'
<1>1. /\ Token(qi)' = Token(qi)
      /\ \A n : InstancesOf(qi, n)' = InstancesOf(qi, n) /\ ClosedOf(qi, n)' = ClosedOf(qi, n)
  BY DEF Token, InstancesOf, ClosedOf
<1> QED BY <1>1 DEF Ahead

\* A call of setProcess for another process leaves a diamond and its process as they were;
\* a first call for this one finds no instance of it.
LEMMA SetProcessAhead ==
  ASSUME IInv, LinesResolve, AlwaysAhead, NEW r \in Request, SetProcess(r),
         NEW qi \in ProcessInst, Running(qi)', regs'[processID'[qi]] = 1,
         NEW f \in nodes'[processID'[qi]], NEW j \in nodes'[processID'[qi]],
         Diamond(processID[qi], f, j)'
  PROVE  Ahead(qi, j)'
<1> DEFINE p == processID[qi]
<1>1. r.process \in Process /\ r.nodes \in SUBSET Node
  BY RequestAssumption DEF RequestType
<1>2. UNCHANGED <<processID, data, tokenVars>> /\ regs' = [regs EXCEPT ![r.process] = @ + 1]
  BY DEF SetProcess
<1>3. Running(qi) /\ p \in Process /\ regs[p] > 0
  BY <1>2 DEF Running, IInv, DefsOK, TypeOK
<1>4. p # r.process /\ regs[p] = 1
  BY <1>1, <1>2, <1>3, BoundAssumption DEF IInv, TypeOK
<1>5. nodes'[p] = nodes[p] /\ processDefs'[p] = processDefs[p]
  BY <1>1, <1>3, <1>4 DEF SetProcess, IInv, TypeOK
<1>6. \A m \in nodes[p] : m \in Node /\ m \notin nodes[r.process] \union r.nodes
  <2>1. nodes[r.process] \union r.nodes \subseteq Requested(r.process)
    BY <1>1 DEF IInv, DefsOK, Requested
  <2>2. nodes[p] \subseteq Requested(p) /\ nodes[p] \subseteq Node
    BY <1>3 DEF IInv, DefsOK, TypeOK
  <2> QED BY <1>1, <1>3, <1>4, <2>1, <2>2, NodesApart DEF IInv
<1>7. \A m \in nodes[p] : To'[m] = To[m] /\ From'[m] = From[m] /\ Successors(m)' = Successors(m)
  BY <1>6 DEF SetProcess, Successors
<1>8. f \in nodes[p] /\ j \in nodes[p]
  BY <1>2, <1>5
<1>9. From[j] = Successors(f) /\ Successors(f) \subseteq nodes[p]
  BY <1>2, <1>3, <1>7, <1>8 DEF Diamond, IInv, DefsOK
<1>10. Diamond(p, f, j)
  BY <1>2, <1>5, <1>7, <1>8, <1>9 DEF Diamond
<1>11. Ahead(qi, j)
  BY <1>3, <1>4, <1>8, <1>10 DEF AlwaysAhead
<1> QED BY <1>2, <1>7, <1>8, <1>11, StillAhead DEF tokenVars

LEMMA AheadStep ==
  IInv /\ FreshUnused /\ InstFresh /\ Mirrored /\ AlwaysAhead /\ [Next]_vars => AlwaysAhead'
<1> SUFFICES ASSUME IInv, FreshUnused, InstFresh, Mirrored, AlwaysAhead, [Next]_vars,
                    LinesResolve, NEW qi \in ProcessInst,
                    Running(qi)', regs'[processID'[qi]] = 1,
                    NEW f \in nodes'[processID'[qi]], NEW j \in nodes'[processID'[qi]],
                    Diamond(processID[qi], f, j)'
             PROVE  Ahead(qi, j)'
  BY DEF AlwaysAhead
<1>1. ASSUME UNCHANGED defVars, processID'[qi] = processID[qi]
      PROVE  /\ Ahead(qi, j) /\ From'[j] = From[j] /\ Running(qi)
             /\ f \in Node /\ j \in Node /\ Diamond(processID[qi], f, j)
  <2>1. To' = To /\ From' = From /\ nodes' = nodes /\ regs' = regs /\ processDefs' = processDefs
    BY <1>1 DEF defVars
  <2>2. \A n : Successors(n)' = Successors(n)
    BY <2>1 DEF Successors
  <2>3. Diamond(processID[qi], f, j)
    BY <1>1, <2>1, <2>2 DEF Diamond
  <2>4. Running(qi) /\ regs[processID[qi]] = 1
    BY <1>1, <2>1 DEF Running
  <2>5. f \in nodes[processID[qi]] /\ j \in nodes[processID[qi]]
    BY <1>1, <2>1
  <2>6. f \in Node /\ j \in Node
    BY <2>4, <2>5 DEF IInv, TypeOK, Running
  <2> QED BY <2>1, <2>3, <2>4, <2>5, <2>6 DEF AlwaysAhead
<1>2. ASSUME UNCHANGED defVars, processID'[qi] = processID[qi],
             tokenNodes'[qi] = tokenNodes[qi], instNode'[qi] = instNode[qi],
             instStatus'[qi] = instStatus[qi]
      PROVE  Ahead(qi, j)'
  BY <1>1, <1>2, StillAhead
<1>3. ASSUME NEW r \in Request, SetProcess(r) PROVE Ahead(qi, j)'
  BY <1>3, SetProcessAhead
<1>4. ASSUME NEW pi \in ProcessInst, NEW p \in Process, Start(pi, p) PROVE Ahead(qi, j)'
  <2>1. CASE qi = pi
    <3>1. processID'[qi] = p /\ processDefs' = processDefs /\ processDefs[p] \in Node
      BY <1>4, <2>1 DEF Start, IInv, TypeOK, defVars
    <3>2. processDefs[p] \notin From'[j] \union {j}
      BY <3>1 DEF Diamond
    <3>3. \A n \in Node : tokenNodes'[qi][n] # 0 => n = processDefs[p]
      BY <1>4, <2>1 DEF Start, IInv, TypeOK
    <3>4. From'[j] \intersect Token(qi)' = {}
      BY <3>2, <3>3 DEF Token
    <3>5. \A k \in InstID : instNode'[qi][k] # j
      <4>1. last[qi] = 0
        BY <1>4, <2>1 DEF Start, FreshUnused, Running
      <4>2. \A k \in InstID : instNode[qi][k] = None
        BY <4>1, BoundAssumption DEF InstFresh, InstID
      <4>3. \A k \in InstID : instNode'[qi][k] \in {None, processDefs[p]}
        BY <1>4, <2>1, <4>2 DEF Start, IInv, TypeOK
      <4>4. j # None
        BY NoneAssumption, <3>1, <1>4 DEF Start, IInv, TypeOK, defVars
      <4> QED BY <3>2, <4>3, <4>4
    <3>6. InstancesOf(qi, j)' = {}
      BY <3>5 DEF InstancesOf
    <3>7. Cardinality(InstancesOf(qi, j)') = 0
      BY <3>6, FS_EmptySet
    <3>8. \A b : 0 <= Cardinality(ClosedOf(qi, b)')
      BY Countable
    <3> QED BY <3>4, <3>7, <3>8 DEF Ahead
  <2>2. CASE qi # pi
    BY <1>2, <1>4, <2>2 DEF Start, IInv, TypeOK
  <2> QED BY <2>1, <2>2
<1>5. ASSUME NEW pi \in ProcessInst, NEW d \in Data, SetData(pi, d) PROVE Ahead(qi, j)'
  BY <1>2, <1>5 DEF SetData, tokenVars
<1>6. ASSUME NEW pi \in ProcessInst, NEW n \in Node, Submit(pi, n) PROVE Ahead(qi, j)'
  <2>1. CASE SubmitParallel(pi, n) \/ SubmitExclusive(pi, n)
    <3>1. PICK taken \in Seq(Relation) : n \in Token(pi) /\ Advance(pi, n, taken)
      BY <2>1, AdvanceTakes DEF IInv
    <3>2. UNCHANGED defVars /\ processID' = processID
      BY <3>1 DEF Advance
    <3>3. CASE qi = pi
      <4>1. /\ Running(pi) /\ f \in Node /\ j \in Node
            /\ Diamond(processID[pi], f, j) /\ Ahead(pi, j)
        BY <1>1, <3>2, <3>3
      <4> QED BY <2>1, <3>3, <4>1, AdvanceAhead
    <3>4. CASE qi # pi
      BY <1>2, <3>1, <3>2, <3>4, AdvanceFacts DEF IInv
    <3> QED BY <3>3, <3>4
  <2>2. CASE SubmitWaits(pi, n)
    <3>1. /\ UNCHANGED <<defVars, processID, tokenNodes, instNode>>
          /\ instStatus' = [instStatus EXCEPT ![pi][tokenNodes[pi][n]] = "Waiting"]
      BY <2>2 DEF SubmitWaits
    <3>2. instStatus[pi][tokenNodes[pi][n]] # "Closed"
      BY <2>2 DEF SubmitWaits, CanPush, IInv, IndexConsistent
    <3>3. \A k \in InstID : instStatus'[qi][k] = "Closed" <=> instStatus[qi][k] = "Closed"
      BY <3>1, <3>2 DEF IInv, TypeOK
    <3> QED BY <1>1, <3>1, <3>3, StillAhead
  <2>3. CASE SubmitRefused(pi, n)
    BY <1>2, <2>3 DEF SubmitRefused, vars, tokenVars
  <2> QED BY <1>6, <2>1, <2>2, <2>3 DEF Submit
<1>7. CASE UNCHANGED vars
  BY <1>2, <1>7 DEF vars, tokenVars
<1> QED BY <1>3, <1>4, <1>5, <1>6, <1>7 DEF Next

-----------------------------------------------------------------------------

\* In a fork whose branches meet in one join, the join is entered no more often than each
\* branch has been completed, however the branches are submitted, refused or gone through
\* again, whatever the rest of the process looks like.
THEOREM JoinWaitsForBranches == Spec => []JoinAfterAllBranches
<1>1. Init => FreshUnused /\ InstFresh /\ Mirrored /\ AlwaysAhead
  BY DEF Init, FreshUnused, InstFresh, Mirrored, AlwaysAhead, Running, Successors, InstID
<1>2. TypeOK /\ IndexConsistent /\ FreshUnused /\ [Next]_vars => FreshUnused'
  BY ClosedStep
<1>3. AlwaysAhead => JoinAfterAllBranches
  BY DEF AlwaysAhead, Ahead, JoinAfterAllBranches
<1>4. IInv => TypeOK /\ IndexConsistent
  BY DEF IInv
<1> QED BY <1>1, <1>2, <1>3, <1>4, MirroredStep, InstFreshStep, AheadStep, InvariantHolds, PTL
        DEF Spec
=============================================================================
