------------------------------ MODULE Workflow ------------------------------
(***************************************************************************)
(* The workflow engine of src/workflow: process definitions made of nodes  *)
(* and lines, process instances that carry a token (the nodes under        *)
(* execution), and the submission of a node, which pushes the token along  *)
(* the lines whose rules hold.                                             *)
(*                                                                         *)
(* A node object is its ID.  A rule is the set of data values under which  *)
(* expression.Calc says true.  The identifiers of node instances, random   *)
(* in the code, count up within a process instance: number 1 is the        *)
(* instance of the start node, and a larger number was created later.      *)
(***************************************************************************)
EXTENDS Integers, Sequences, FiniteSets

CONSTANTS Node, Process, ProcessInst,
          Data, NoData,       \* contents of ProcessInst.Data; the empty map
          InType, OutType,    \* Node -> Gate, with the default already applied
          Name,               \* Node -> name shown in the process status
          Request,            \* the calls of setProcess
          MaxRegs,            \* bound: calls of setProcess for one process
          MaxInsts,           \* bound: node instances of one process instance
          None

Gate == {"Exclusive", "Parallel", "Inclusive"}

\* A relation seen from the node it leaves: where to, and under which data.
Relation == [node : Node, rule : SUBSET Data]

\* lines[n] are the lines of the call that leave n, in the order of the slice.
RequestType == [process : Process, entrance : Node, nodes : SUBSET Node,
                lines : [Node -> Seq(Relation)]]

ASSUME GateAssumption == InType \in [Node -> Gate] /\ OutType \in [Node -> Gate]
ASSUME RequestAssumption == \A r \in Request : r \in RequestType
ASSUME BoundAssumption == MaxRegs \in Nat /\ MaxInsts \in Nat
ASSUME DataAssumption == NoData \in Data
ASSUME NoneAssumption == None \notin Process /\ None \notin Node

\* NewNode draws a fresh ID, so definitions of different processes share no node.
ASSUME OwnNodesAssumption ==
  \A r, q \in Request : r.process # q.process => r.nodes \intersect q.nodes = {}

VARIABLES
  processDefs,  \* Process -> entrance of the stored definition, or None
  nodes,        \* Process -> nodes of the process
  To,           \* Node -> relations leaving it, in the order they were appended
  From,         \* Node -> nodes its incoming relations name
  regs,         \* Process -> calls of setProcess so far
  processID,    \* ProcessInst -> its process, None before Start
  data,         \* ProcessInst -> contents of its Data map
  status,       \* ProcessInst -> its Status, a set of node names
  tokenNodes,   \* ProcessInst -> Token.nodes: Node -> instance, 0 when absent
  tokenInsts,   \* ProcessInst -> Token.nodeInsts: instances
  instNode,     \* ProcessInst -> instance -> its NodeID
  instStatus,   \* ProcessInst -> instance -> its Status, "Unused" before it exists
  last          \* ProcessInst -> the last instance number used

defVars   == <<processDefs, nodes, To, From, regs>>
tokenVars == <<status, tokenNodes, tokenInsts, instNode, instStatus, last>>
vars      == <<defVars, processID, data, tokenVars>>

InstID == 1..MaxInsts

\* The nodes of a process instance's token, by FindByNodeID.
Token(pi) == {n \in Node : tokenNodes[pi][n] # 0}

Init == /\ processDefs = [p \in Process |-> None]
        /\ nodes = [p \in Process |-> {}]
        /\ To = [n \in Node |-> <<>>]
        /\ From = [n \in Node |-> {}]
        /\ regs = [p \in Process |-> 0]
        /\ processID = [pi \in ProcessInst |-> None]
        /\ data = [pi \in ProcessInst |-> NoData]
        /\ status = [pi \in ProcessInst |-> {}]
        /\ tokenNodes = [pi \in ProcessInst |-> [n \in Node |-> 0]]
        /\ tokenInsts = [pi \in ProcessInst |-> {}]
        /\ instNode = [pi \in ProcessInst |-> [i \in InstID |-> None]]
        /\ instStatus = [pi \in ProcessInst |-> [i \in InstID |-> "Unused"]]
        /\ last = [pi \in ProcessInst |-> 0]

-----------------------------------------------------------------------------
(* Definitions. *)

\* Where a line of the request comes from, for the node it leads to.
ComesFrom(r, m) == {n \in Node : \E i \in DOMAIN r.lines[n] : r.lines[n][i].node = m}

\* setProcess: the definition and the nodes are stored, then each line adds a
\* relation to whichever of its ends is a node of the process.  A second call for
\* the same process keeps the relations of the first.
SetProcess(r) ==
  LET p == r.process
      known == nodes[p] \union r.nodes
  IN  /\ regs[p] < MaxRegs
      /\ regs' = [regs EXCEPT ![p] = @ + 1]
      /\ processDefs' = [processDefs EXCEPT ![p] = r.entrance]
      /\ nodes' = [nodes EXCEPT ![p] = known]
      /\ To' = [n \in Node |-> IF n \in known THEN To[n] \o r.lines[n] ELSE To[n]]
      /\ From' = [m \in Node |-> IF m \in known THEN From[m] \union ComesFrom(r, m)
                                                ELSE From[m]]
      /\ UNCHANGED <<processID, data, tokenVars>>

-----------------------------------------------------------------------------
(* Running a process. *)

\* Start: one instance of the entrance, Ready and alone in the token.  (An unknown
\* process, or one whose entrance is not a node of it, panics before any change.)
\* The status stays empty: the start node's name is never added to it.
Start(pi, p) ==
  /\ processID[pi] = None
  /\ processDefs[p] # None /\ processDefs[p] \in nodes[p]
  /\ MaxInsts > 0
  /\ processID' = [processID EXCEPT ![pi] = p]
  /\ tokenNodes' = [tokenNodes EXCEPT ![pi] =
                      [n \in Node |-> IF n = processDefs[p] THEN 1 ELSE 0]]
  /\ tokenInsts' = [tokenInsts EXCEPT ![pi] = {1}]
  /\ instNode' = [instNode EXCEPT ![pi][1] = processDefs[p]]
  /\ instStatus' = [instStatus EXCEPT ![pi][1] = "Ready"]
  /\ last' = [last EXCEPT ![pi] = 1]
  /\ UNCHANGED <<defVars, data, status>>

\* The holder of the process instance writes the data its rules are evaluated on.
SetData(pi, d) ==
  /\ processID[pi] # None
  /\ data[pi] # d
  /\ data' = [data EXCEPT ![pi] = d]
  /\ UNCHANGED <<defVars, processID, tokenVars>>

\* Mutant of InGateOpen: the loop over the predecessors stops at the first absent one.
InGateAnyAbsent(n, token) == InType[n] = "Parallel" => ~(From[n] \subseteq token)

\* The incoming side of a node lets it through, given the nodes in the token.
InGateOpen(n, token) == InType[n] = "Parallel" => From[n] \intersect token = {}

\* relationCheck: the i-th relation leaving n holds.
Holds(pi, n, i) == data[pi] \in To[n][i].rule

AllHold(pi, n) == \A i \in DOMAIN To[n] : Holds(pi, n, i)

\* i is the first relation leaving n that holds.
FirstHolds(pi, n, i) == Holds(pi, n, i) /\ \A j \in 1..(i - 1) : ~Holds(pi, n, j)

\* The loop over the relations taken reaches the i-th one: every node up to it
\* exists.  (getNode gives nil for another, and the loop panics there, after the
\* submitted node has left the token.)
Reached(pi, taken) ==
  {i \in DOMAIN taken : \A j \in 1..i : taken[j].node \in nodes[processID[pi]]}

\* Mutants of Entering: the submitted node is removed from the token only afterwards;
\* nothing is checked; the loop breaks at the first node that may not enter.
EnteringBeforeLeaving(pi, n, taken, added) ==
  \A i \in Reached(pi, taken) :
    i \in added <=> InGateOpen(taken[i].node,
                      Token(pi) \union {taken[j].node : j \in {k \in added : k < i}})
EnteringUnchecked(pi, n, taken, added) == added = Reached(pi, taken)
EnteringUntilBlocked(pi, n, taken, added) ==
  \A i \in Reached(pi, taken) :
    i \in added <=> \A h \in 1..i : InGateOpen(taken[h].node,
                      (Token(pi) \ {n}) \union {taken[j].node : j \in {k \in added : k < h}})

\* Which of the nodes reached enter the token: each is checked against the token
\* as the earlier ones have left it.
Entering(pi, n, taken, added) ==
  \A i \in Reached(pi, taken) :
    i \in added <=> InGateOpen(taken[i].node,
                      (Token(pi) \ {n}) \union {taken[j].node : j \in {k \in added : k < i}})

\* Mutants of NodeAfter: an instance number too far; Remove forgets Token.nodes.
NodeAfterTooFar(pi, n, taken, added, m) ==
  LET mine == {i \in added : taken[i].node = m}
  IN  IF mine # {} THEN last[pi] + 1 + (CHOOSE i \in mine : \A j \in mine : j <= i)
      ELSE IF m = n THEN 0 ELSE tokenNodes[pi][m]
NodeAfterStays(pi, n, taken, added, m) ==
  LET mine == {i \in added : taken[i].node = m}
  IN  IF mine # {} THEN last[pi] + (CHOOSE i \in mine : \A j \in mine : j <= i)
      ELSE tokenNodes[pi][m]

\* Token.nodes[m] afterwards: the last instance created for m, else the one it had.
NodeAfter(pi, n, taken, added, m) ==
  LET mine == {i \in added : taken[i].node = m}
  IN  IF mine # {} THEN last[pi] + (CHOOSE i \in mine : \A j \in mine : j <= i)
      ELSE IF m = n THEN 0 ELSE tokenNodes[pi][m]

\* Mutant of InstAfter: entering a node reopens the instances it had before.
InstAfterReopens(pi, n, taken, added, k) ==
  IF k - last[pi] \in added \/ (\E i \in added : instNode[pi][k] = taken[i].node)
  THEN "Running"
  ELSE IF k = tokenNodes[pi][n] THEN "Closed" ELSE instStatus[pi][k]

\* The status of instance k afterwards.
InstAfter(pi, n, taken, added, k) ==
  IF k - last[pi] \in added THEN "Running"
  ELSE IF k = tokenNodes[pi][n] THEN "Closed" ELSE instStatus[pi][k]

\* Mutant of StatusAfter: Del after Add.
StatusDelLast(pi, n, taken, added) ==
  (status[pi] \union {Name[taken[i].node] : i \in added}) \ {Name[n]}

\* Status.Del of the node left, then Status.Add of each node entered.
StatusAfter(pi, n, taken, added) ==
  (status[pi] \ {Name[n]}) \union {Name[taken[i].node] : i \in added}

\* Node n is done: its instance is closed and leaves the token and the status, and
\* the nodes at the other end of the relations taken are entered.
Advance(pi, n, taken) ==
  /\ last[pi] + Len(taken) <= MaxInsts
  /\ \E added \in SUBSET Reached(pi, taken) :
       /\ Entering(pi, n, taken, added)
       /\ tokenNodes' = [tokenNodes EXCEPT ![pi] =
                           [m \in Node |-> NodeAfter(pi, n, taken, added, m)]]
       /\ tokenInsts' = [tokenInsts EXCEPT ![pi] =
                           (@ \ {tokenNodes[pi][n]}) \union {last[pi] + i : i \in added}]
       /\ instNode' = [instNode EXCEPT ![pi] = [k \in InstID |->
                         IF k - last[pi] \in added THEN taken[k - last[pi]].node ELSE @[k]]]
       /\ instStatus' = [instStatus EXCEPT ![pi] =
                           [k \in InstID |-> InstAfter(pi, n, taken, added, k)]]
       /\ status' = [status EXCEPT ![pi] = StatusAfter(pi, n, taken, added)]
  /\ last' = [last EXCEPT ![pi] = @ + Len(taken)]
  /\ UNCHANGED <<defVars, processID, data>>

\* push of a node that is in the token and whose incoming side is open.
CanPush(pi, n) == n \in Token(pi) /\ InGateOpen(n, Token(pi))

\* Parallel out: every relation must hold, and all are taken.
SubmitParallel(pi, n) ==
  /\ CanPush(pi, n) /\ OutType[n] = "Parallel"
  /\ To[n] # <<>> /\ AllHold(pi, n)
  /\ Advance(pi, n, To[n])

\* Parallel out, not every relation holds: the node keeps its place and waits.
SubmitWaits(pi, n) ==
  /\ CanPush(pi, n) /\ OutType[n] = "Parallel"
  /\ ~AllHold(pi, n)
  /\ instStatus' = [instStatus EXCEPT ![pi][tokenNodes[pi][n]] = "Waiting"]
  /\ UNCHANGED <<defVars, processID, data, status, tokenNodes, tokenInsts, instNode, last>>

\* Exclusive out: the first relation that holds is taken.
SubmitExclusive(pi, n) ==
  /\ CanPush(pi, n) /\ OutType[n] = "Exclusive"
  /\ \E i \in DOMAIN To[n] : FirstHolds(pi, n, i) /\ Advance(pi, n, <<To[n][i]>>)

\* Submit of a node that is not in the token, whose incoming side is closed, that
\* has no relation to take, or whose outgoing side is Inclusive: nothing happens.
SubmitRefused(pi, n) ==
  /\ processID[pi] # None
  /\ \/ ~CanPush(pi, n)
     \/ OutType[n] = "Inclusive"
     \/ To[n] = <<>>
     \/ OutType[n] = "Exclusive" /\ \A i \in DOMAIN To[n] : ~Holds(pi, n, i)
  /\ UNCHANGED vars

Submit(pi, n) == \/ SubmitParallel(pi, n)
                 \/ SubmitWaits(pi, n)
                 \/ SubmitExclusive(pi, n)
                 \/ SubmitRefused(pi, n)

Next == \/ \E r \in Request : SetProcess(r)
        \/ \E pi \in ProcessInst :
             \/ \E p \in Process : Start(pi, p)
             \/ \E d \in Data : SetData(pi, d)
             \/ \E n \in Node : Submit(pi, n)

Spec == Init /\ [][Next]_vars

-----------------------------------------------------------------------------
(* Type correctness. *)

\* Every variable has its type.
TypeOK ==
  /\ processDefs \in [Process -> Node \union {None}]
  /\ nodes \in [Process -> SUBSET Node]
  /\ To \in [Node -> Seq(Relation)]
  /\ From \in [Node -> SUBSET Node]
  /\ regs \in [Process -> 0..MaxRegs]
  /\ processID \in [ProcessInst -> Process \union {None}]
  /\ data \in [ProcessInst -> Data]
  /\ status \in [ProcessInst -> SUBSET {Name[n] : n \in Node}]
  /\ tokenNodes \in [ProcessInst -> [Node -> 0..MaxInsts]]
  /\ tokenInsts \in [ProcessInst -> SUBSET InstID]
  /\ instNode \in [ProcessInst -> [InstID -> Node \union {None}]]
  /\ instStatus \in [ProcessInst ->
                       [InstID -> {"Unused", "Ready", "Running", "Waiting", "Closed"}]]
  /\ last \in [ProcessInst -> 0..MaxInsts]

-----------------------------------------------------------------------------
(* Safety. *)

\* Every line of a definition joins two nodes of the same call.
LinesResolve ==
  \A r \in Request : \A n \in Node : \A i \in DOMAIN r.lines[n] :
    n \in r.nodes /\ r.lines[n][i].node \in r.nodes

\* No node that joins is its own predecessor.
NoSelfJoin ==
  \A r \in Request : \A n \in Node : \A i \in DOMAIN r.lines[n] :
    r.lines[n][i].node = n => InType[n] # "Parallel"

Running(pi) == processID[pi] # None

\* A process that runs keeps a token: push takes a node out of it before the next
\* nodes are checked, and a check that refuses them all must still leave a node.
TokenNeverEmpty == LinesResolve => \A pi \in ProcessInst : Running(pi) => Token(pi) # {}

\* The two maps of a token: what FindByNodeID gives for a node is an instance of that
\* node, still open, and also in nodeInsts; nothing closed is in either map.  The nodes
\* are nodes of the process (push dereferences what getNode gives for them).
IndexConsistent ==
  \A pi \in ProcessInst :
    /\ Token(pi) # {} => Running(pi) /\ Token(pi) \subseteq nodes[processID[pi]]
    /\ \A n \in Token(pi) : /\ tokenNodes[pi][n] \in tokenInsts[pi]
                            /\ instNode[pi][tokenNodes[pi][n]] = n
    /\ \A i \in tokenInsts[pi] : /\ i <= last[pi]
                                 /\ instStatus[pi][i] \in {"Ready", "Running", "Waiting"}

\* A node that joins is in the token together with one of its predecessors only when
\* the predecessor was entered after it: what holds the join back came round again.
\* (While the definition is the one the process instance was started with.)
BlockersAreNewer ==
  \A pi \in ProcessInst : Running(pi) /\ regs[processID[pi]] = 1 =>
    \A n \in Token(pi) : InType[n] = "Parallel" =>
      \A m \in (From[n] \intersect Token(pi)) \ {n} : tokenNodes[pi][m] > tokenNodes[pi][n]

\* Nodes that join never all wait for each other: the incoming side of some node of
\* the token is open, so that its submission is considered.
NoGridlock ==
  LinesResolve /\ NoSelfJoin =>
    \A pi \in ProcessInst : Running(pi) /\ regs[processID[pi]] = 1 =>
      \E n \in Token(pi) : InGateOpen(n, Token(pi))

\* The status of a process names the nodes of its token other than the start node's
\* first instance: no name of a node that has been left, and every node in the token
\* whose name no other node of the process shares.
StatusShowsToken ==
  \A pi \in ProcessInst : Running(pi) =>
    LET entered == {n \in Token(pi) : tokenNodes[pi][n] # 1}
    IN  /\ status[pi] \subseteq {Name[n] : n \in entered}
        /\ \A n \in entered :
             (\A m \in nodes[processID[pi]] : Name[m] = Name[n] => m = n) => Name[n] \in status[pi]

InstancesOf(pi, n) == {i \in InstID : instNode[pi][i] = n}
ClosedOf(pi, n) == {i \in InstancesOf(pi, n) : instStatus[pi][i] = "Closed"}

Successors(n) == {To[n][i].node : i \in DOMAIN To[n]}

\* j collects exactly the branches that f opens, each of them a single node with a single
\* line out.  (Two lines from a branch to j would enter j twice.)
Diamond(p, f, j) ==
  /\ OutType[f] = "Parallel" /\ InType[j] = "Parallel"
  /\ From[j] # {} /\ From[j] = Successors(f)
  /\ \A b \in From[j] : From[b] = {f} /\ Successors(b) = {j} /\ Len(To[b]) = 1
  /\ processDefs[p] \notin From[j] \union {j}

\* In a fork whose branches meet in one join, the join is entered no more often than
\* each branch has been completed, however the branches are submitted, refused,
\* submitted twice or gone through again.
JoinAfterAllBranches ==
  LinesResolve =>
    \A pi \in ProcessInst : Running(pi) /\ regs[processID[pi]] = 1 =>
      \A f, j \in nodes[processID[pi]] : Diamond(processID[pi], f, j) =>
        \A b \in From[j] : Cardinality(InstancesOf(pi, j)) <= Cardinality(ClosedOf(pi, b))

\* A closed node instance stays closed and never returns to a token: entering the node
\* again creates another instance.
ClosedForever ==
  [][\A pi \in ProcessInst : \A i \in InstID :
       instStatus[pi][i] = "Closed" => instStatus'[pi][i] = "Closed" /\ i \notin tokenInsts'[pi]]_vars

\* The engine plays the token game: whatever submissions are made, no branch is dropped.
Game == INSTANCE TokenGame WITH
          Split  <- {n \in Node : OutType[n] = "Parallel"},
          Join   <- {n \in Node : InType[n] = "Parallel"},
          active <- [pi \in ProcessInst |-> Token(pi)],
          succ   <- [n \in Node |-> Successors(n)],
          pred   <- From

PlaysTokenGame == Game!Spec

-----------------------------------------------------------------------------
(* What the documents of the repository say of the engine. *)

\* README.md of the engine: a node whose incoming side is parallel is entered after
\* all the nodes its incoming lines come from have been executed.
JoinEntersWhenAllDone ==
  \A pi \in ProcessInst : \A j \in Node :
    InType[j] = "Parallel" /\ InstancesOf(pi, j) \ {1} # {} =>
      \A b \in From[j] : ClosedOf(pi, b) # {}

\* token.go: nodeInsts and nodes are both the set of instances now running.
TokenMapsAgree ==
  \A pi \in ProcessInst : tokenInsts[pi] = {tokenNodes[pi][n] : n \in Token(pi)}
=============================================================================
