--------------------------- MODULE DatabaseProofs ---------------------------
(***************************************************************************)
(* Proofs about the access to a database: no connection and no lock is     *)
(* lost, and transactions are all or nothing, for every number of clients, *)
(* rows, connections and statements.                                       *)
(***************************************************************************)
EXTENDS Database, FiniteSetTheorems, TLAPS

Holding == {c \in Client : txn[c] # "none"}
Using == {c \in Client : call[c] = "run"}

\* The types without the bound of free, which is a matter of counting.
Shape ==
  /\ store \in [Key -> Client \union {None}]
  /\ locks \in [Key -> Client \union {None}]
  /\ free \in Nat
  /\ txn \in [Client -> {"none", "open", "prepare", "exec", "close"}]
  /\ Execsqls \in [Client -> Seq(Key)]
  /\ done \in [Client -> Nat]
  /\ err \in [Client -> BOOLEAN]
  /\ call \in [Client -> {"none", "begin", "wait", "run"}]
  /\ arg \in [Client -> Key \union {None}]

\* How far a transaction is: nothing is left of one that is over, one at a statement has
\* it still to do, and one that closes without an error has done all.
Progress ==
  \A c \in Client :
    /\ done[c] <= Len(Execsqls[c])
    /\ txn[c] = "none" => Execsqls[c] = <<>>
    /\ txn[c] \in {"none", "open"} => done[c] = 0
    /\ txn[c] \in {"prepare", "exec"} => done[c] < Len(Execsqls[c])
    /\ txn[c] = "close" /\ ~err[c] => done[c] = Len(Execsqls[c])
    /\ call[c] # "none" => txn[c] \in {"none", "open"}
    /\ call[c] = "begin" => txn[c] = "none"

\* Connections can be counted.
Counted == IsFiniteSet(Holding) /\ IsFiniteSet(Using) /\ ConnectionsKept

\* The inductive invariant.
IInv == Shape /\ Progress /\ Counted /\ LocksOnlyWhileEnding

-----------------------------------------------------------------------------

\* A client that calls is not ending, and starts or ends nothing meanwhile.
LEMMA ShapeStep == Shape /\ Progress /\ [Next]_vars => Shape'
<1> SUFFICES ASSUME Shape, Progress, [Next]_vars PROVE Shape'
  OBVIOUS
<1> USE DatabaseAssumption DEF Shape
<1>1. ASSUME NEW c \in Client, NEW k \in Key \union {None}, CallPool(c, k) PROVE Shape'
  BY <1>1 DEF CallPool, txnVars
<1>2. ASSUME NEW c \in Client, TakeConn(c) PROVE Shape'
  BY <1>2 DEF TakeConn, txnVars
<1>3. ASSUME NEW c \in Client, RunStatement(c) PROVE Shape'
  <2>1. store' \in [Key -> Client \union {None}]
    BY <1>3 DEF RunStatement
  <2> QED BY <1>3, <2>1 DEF RunStatement, GiveBack, txnVars
<1>4. ASSUME NEW c \in Client, FailStatement(c) PROVE Shape'
  BY <1>4 DEF FailStatement, GiveBack, txnVars
<1>5. ASSUME NEW c \in Client, CallBegin(c) PROVE Shape'
  BY <1>5 DEF CallBegin, txnVars
<1>6. ASSUME NEW c \in Client, BeginTransaction(c) PROVE Shape'
  BY <1>6 DEF BeginTransaction
<1>7. ASSUME NEW c \in Client, NEW k \in Key, Execute(c, k) PROVE Shape'
  <2>1. Append(Execsqls[c], k) \in Seq(Key)
    OBVIOUS
  <2> QED BY <1>7, <2>1 DEF Execute, callVars
<1>8. ASSUME NEW c \in Client, EndTransaction(c) PROVE Shape'
  BY <1>8 DEF EndTransaction, AfterStatement, callVars
<1>9. ASSUME NEW c \in Client, Prepare(c) PROVE Shape'
  BY <1>9 DEF Prepare, callVars
<1>10. ASSUME NEW c \in Client, Exec(c) PROVE Shape'
  <2>1. locks' \in [Key -> Client \union {None}]
    BY <1>10 DEF Exec
  <2>2. done' \in [Client -> Nat]
    BY <1>10 DEF Exec
  <2>3. AfterStatement(c, done[c] + 1) \in {"prepare", "close"}
    BY DEF AfterStatement
  <2> QED BY <1>10, <2>1, <2>2, <2>3 DEF Exec, callVars
<1>11. ASSUME NEW c \in Client, Failed(c) PROVE Shape'
  BY <1>11 DEF Failed, callVars
<1>12. ASSUME NEW c \in Client, Close(c) PROVE Shape'
  <2>1. locks' \in [Key -> Client \union {None}]
    BY <1>12 DEF Close, Over, Release
  <2>2. store' \in [Key -> Client \union {None}]
    BY <1>12 DEF Close
  <2> QED BY <1>12, <2>1, <2>2 DEF Close, Over, callVars
<1>13. CASE Crash
  BY <1>13 DEF Crash
<1>14. CASE UNCHANGED vars
  BY <1>14 DEF vars, txnVars, callVars
<1> QED BY <1>1, <1>2, <1>3, <1>4, <1>5, <1>6, <1>7, <1>8, <1>9, <1>10, <1>11, <1>12, <1>13,
           <1>14 DEF Next, Answer, ExecFails, BreakDeadlock

\* Transactions go through their stages in order.
LEMMA ProgressStep == Shape /\ Progress /\ [Next]_vars => Progress'
<1> SUFFICES ASSUME Shape, Progress, [Next]_vars PROVE Progress'
  OBVIOUS
<1> USE DatabaseAssumption DEF Shape, Progress
<1>1. ASSUME NEW c \in Client, NEW k \in Key \union {None}, CallPool(c, k) PROVE Progress'
  BY <1>1 DEF CallPool, Running, txnVars
<1>2. ASSUME NEW c \in Client, TakeConn(c) PROVE Progress'
  BY <1>2 DEF TakeConn, txnVars
<1>3. ASSUME NEW c \in Client, RunStatement(c) PROVE Progress'
  BY <1>3 DEF RunStatement, GiveBack, txnVars
<1>4. ASSUME NEW c \in Client, FailStatement(c) PROVE Progress'
  BY <1>4 DEF FailStatement, GiveBack, txnVars
<1>5. ASSUME NEW c \in Client, CallBegin(c) PROVE Progress'
  BY <1>5 DEF CallBegin, Running, txnVars
<1>6. ASSUME NEW c \in Client, BeginTransaction(c) PROVE Progress'
  BY <1>6 DEF BeginTransaction
<1>7. ASSUME NEW c \in Client, NEW k \in Key, Execute(c, k) PROVE Progress'
  <2>1. Len(Append(Execsqls[c], k)) = Len(Execsqls[c]) + 1
    OBVIOUS
  <2> QED BY <1>7, <2>1 DEF Execute, Running, callVars
<1>8. ASSUME NEW c \in Client, EndTransaction(c) PROVE Progress'
  BY <1>8 DEF EndTransaction, AfterStatement, Running, callVars
<1>9. ASSUME NEW c \in Client, Prepare(c) PROVE Progress'
  BY <1>9 DEF Prepare, callVars
<1>10. ASSUME NEW c \in Client, Exec(c) PROVE Progress'
  BY <1>10 DEF Exec, AfterStatement, callVars
<1>11. ASSUME NEW c \in Client, txn[c] = "exec", Failed(c) PROVE Progress'
  BY <1>11 DEF Failed, callVars
<1>12. ASSUME NEW c \in Client, Close(c) PROVE Progress'
  BY <1>12 DEF Close, Over, callVars
<1>13. CASE Crash
  BY <1>13 DEF Crash
<1>14. CASE UNCHANGED vars
  BY <1>14 DEF vars, txnVars, callVars
<1>15. \A c \in Client : Deadlocked(c) => txn[c] = "exec"
  BY DEF Deadlocked
<1> QED BY <1>1, <1>2, <1>3, <1>4, <1>5, <1>6, <1>7, <1>8, <1>9, <1>10, <1>11, <1>12, <1>13,
           <1>14, <1>15 DEF Next, Answer, ExecFails, BreakDeadlock

-----------------------------------------------------------------------------

\* Counting: a client takes a connection into one set, gives it back from one, or moves none.
LEMMA CountSame ==
  ASSUME Counted, Holding' = Holding, Using' = Using, free' = free
  PROVE  Counted'
BY DEF Counted, ConnectionsKept, Holding, Using

LEMMA CountTake ==
  ASSUME Shape, Counted, NEW c \in Client, free' = free - 1,
         \/ c \notin Using /\ Using' = Using \union {c} /\ Holding' = Holding
         \/ c \notin Holding /\ Holding' = Holding \union {c} /\ Using' = Using
  PROVE  Counted'
<1>1. free + Cardinality(Holding) + Cardinality(Using) = MaxOpen
  BY DEF Counted, ConnectionsKept, Holding, Using
<1>2. /\ IsFiniteSet(Holding) /\ Cardinality(Holding) \in Nat
      /\ IsFiniteSet(Using) /\ Cardinality(Using) \in Nat
  BY FS_CardinalityType DEF Counted
<1>3. IsFiniteSet(Holding') /\ IsFiniteSet(Using')
  BY <1>2, FS_AddElement
<1>4. Cardinality(Holding') + Cardinality(Using')
        = Cardinality(Holding) + Cardinality(Using) + 1
  <2>1. CASE c \notin Using /\ Using' = Using \union {c} /\ Holding' = Holding
    <3>1. Cardinality(Using') = Cardinality(Using) + 1
      BY <2>1, <1>2, FS_AddElement
    <3> QED BY <3>1, <2>1, <1>2
  <2>2. CASE c \notin Holding /\ Holding' = Holding \union {c} /\ Using' = Using
    <3>1. Cardinality(Holding') = Cardinality(Holding) + 1
      BY <2>2, <1>2, FS_AddElement
    <3> QED BY <3>1, <2>2, <1>2
  <2> QED BY <2>1, <2>2
<1>5. Cardinality(Holding') \in Nat /\ Cardinality(Using') \in Nat
  BY <1>3, FS_CardinalityType
<1>6. free' + Cardinality(Holding') + Cardinality(Using') = MaxOpen
  BY SMTT(30), <1>1, <1>2, <1>4, <1>5 DEF Shape
<1> QED BY <1>3, <1>6 DEF Counted, ConnectionsKept, Holding, Using

LEMMA CountGive ==
  ASSUME Shape, Counted, NEW c \in Client, free' = free + 1,
         \/ c \in Using /\ Using' = Using \ {c} /\ Holding' = Holding
         \/ c \in Holding /\ Holding' = Holding \ {c} /\ Using' = Using
  PROVE  Counted'
<1>1. free + Cardinality(Holding) + Cardinality(Using) = MaxOpen
  BY DEF Counted, ConnectionsKept, Holding, Using
<1>2. /\ IsFiniteSet(Holding) /\ Cardinality(Holding) \in Nat
      /\ IsFiniteSet(Using) /\ Cardinality(Using) \in Nat
  BY FS_CardinalityType DEF Counted
<1>3. IsFiniteSet(Holding') /\ IsFiniteSet(Using')
  BY <1>2, FS_RemoveElement
<1>4. Cardinality(Holding') + Cardinality(Using')
        = Cardinality(Holding) + Cardinality(Using) - 1
  <2>1. CASE c \in Using /\ Using' = Using \ {c} /\ Holding' = Holding
    <3>1. Cardinality(Using') = Cardinality(Using) - 1
      BY <2>1, <1>2, FS_RemoveElement
    <3> QED BY <3>1, <2>1, <1>2
  <2>2. CASE c \in Holding /\ Holding' = Holding \ {c} /\ Using' = Using
    <3>1. Cardinality(Holding') = Cardinality(Holding) - 1
      BY <2>2, <1>2, FS_RemoveElement
    <3> QED BY <3>1, <2>2, <1>2
  <2> QED BY <2>1, <2>2
<1>5. Cardinality(Holding') \in Nat /\ Cardinality(Using') \in Nat
  BY <1>3, FS_CardinalityType
<1>6. free \in Nat /\ free' = free + 1
  BY DEF Shape
<1>7. free' + Cardinality(Holding') + Cardinality(Using') = MaxOpen
  BY SMTT(30), <1>1, <1>2, <1>4, <1>5, <1>6, DatabaseAssumption
<1> QED BY <1>3, <1>7 DEF Counted, ConnectionsKept, Holding, Using

\* No step loses or doubles a connection.
LEMMA CountedStep == IInv /\ [Next]_vars => Counted'
<1> SUFFICES ASSUME IInv, [Next]_vars PROVE Counted'
  OBVIOUS
<1> USE DEF IInv
<1>1. ASSUME NEW c \in Client, NEW k \in Key \union {None}, CallPool(c, k) PROVE Counted'
  BY <1>1, CountSame DEF CallPool, Running, Shape, txnVars, Holding, Using
<1>2. ASSUME NEW c \in Client, TakeConn(c) PROVE Counted'
  <2>1. c \notin Using /\ Using' = Using \union {c} /\ Holding' = Holding /\ free' = free - 1
    BY <1>2 DEF TakeConn, Shape, txnVars, Holding, Using
  <2> QED BY <2>1, CountTake
<1>3. ASSUME NEW c \in Client, RunStatement(c) PROVE Counted'
  <2>1. c \in Using /\ Using' = Using \ {c} /\ Holding' = Holding /\ free' = free + 1
    BY <1>3 DEF RunStatement, GiveBack, Shape, txnVars, Holding, Using
  <2> QED BY <2>1, CountGive
<1>4. ASSUME NEW c \in Client, FailStatement(c) PROVE Counted'
  <2>1. c \in Using /\ Using' = Using \ {c} /\ Holding' = Holding /\ free' = free + 1
    BY <1>4 DEF FailStatement, GiveBack, Shape, txnVars, Holding, Using
  <2> QED BY <2>1, CountGive
<1>5. ASSUME NEW c \in Client, CallBegin(c) PROVE Counted'
  BY <1>5, CountSame DEF CallBegin, Running, Shape, txnVars, Holding, Using
<1>6. ASSUME NEW c \in Client, BeginTransaction(c) PROVE Counted'
  <2>1. Using' = Using
    BY <1>6 DEF BeginTransaction, Shape, Using
  <2>2. CASE UNCHANGED <<free, txn>>
    BY <2>1, <2>2, CountSame DEF Holding
  <2>3. CASE free' = free - 1 /\ txn' = [txn EXCEPT ![c] = "open"]
    <3>1. c \notin Holding /\ Holding' = Holding \union {c}
      BY <1>6, <2>3 DEF BeginTransaction, Progress, Shape, Holding
    <3> QED BY <2>1, <2>3, <3>1, CountTake
  <2> QED BY <1>6, <2>2, <2>3 DEF BeginTransaction
<1>7. ASSUME NEW c \in Client, NEW k \in Key, Execute(c, k) PROVE Counted'
  BY <1>7, CountSame DEF Execute, callVars, Holding, Using
<1>8. ASSUME NEW c \in Client, EndTransaction(c) PROVE Counted'
  BY <1>8, CountSame DEF EndTransaction, AfterStatement, Shape, callVars, Holding, Using
<1>9. ASSUME NEW c \in Client, Prepare(c) PROVE Counted'
  BY <1>9, CountSame DEF Prepare, Shape, callVars, Holding, Using
<1>10. ASSUME NEW c \in Client, Exec(c) PROVE Counted'
  BY <1>10, CountSame DEF Exec, AfterStatement, Shape, callVars, Holding, Using
<1>11. ASSUME NEW c \in Client, txn[c] = "exec", Failed(c) PROVE Counted'
  BY <1>11, CountSame DEF Failed, Shape, callVars, Holding, Using
<1>12. ASSUME NEW c \in Client, Close(c) PROVE Counted'
  <2>1. c \in Holding /\ Holding' = Holding \ {c} /\ Using' = Using /\ free' = free + 1
    BY <1>12 DEF Close, Over, Shape, callVars, Holding, Using
  <2> QED BY <2>1, CountGive
<1>13. CASE Crash
  <2>1. Holding' = {} /\ Using' = {} /\ free' = MaxOpen
    BY <1>13 DEF Crash, Holding, Using
  <2>2. MaxOpen + 0 + 0 = MaxOpen
    BY DatabaseAssumption
  <2> QED BY <2>1, <2>2, FS_EmptySet DEF Counted, ConnectionsKept, Holding, Using
<1>14. CASE UNCHANGED vars
  BY <1>14, CountSame DEF vars, txnVars, callVars, Holding, Using
<1>15. \A c \in Client : Deadlocked(c) => txn[c] = "exec"
  BY DEF Deadlocked
<1> QED BY <1>1, <1>2, <1>3, <1>4, <1>5, <1>6, <1>7, <1>8, <1>9, <1>10, <1>11, <1>12, <1>13,
           <1>14, <1>15 DEF Next, Answer, ExecFails, BreakDeadlock

\* Only Exec takes locks, and a transaction gives them back when it closes.
LEMMA LocksStep ==
  Shape /\ Progress /\ LocksOnlyWhileEnding /\ [Next]_vars => LocksOnlyWhileEnding'
<1> SUFFICES ASSUME Shape, Progress, LocksOnlyWhileEnding, [Next]_vars,
                    NEW k \in Key, locks'[k] # None
             PROVE  Ending(locks[k])'
  BY DEF LocksOnlyWhileEnding
<1> USE DatabaseAssumption DEF Shape, LocksOnlyWhileEnding, Ending
<1>1. ASSUME UNCHANGED <<locks, txn>> PROVE Ending(locks[k])'
  <2>1. locks' = locks /\ txn' = txn
    BY <1>1
  <2>2. Ending(locks[k])
    BY <2>1
  <2> QED BY <2>1, <2>2
<1>2. ASSUME NEW c \in Client, BeginTransaction(c) PROVE Ending(locks[k])'
  BY <1>2 DEF BeginTransaction, Progress
<1>3. ASSUME NEW c \in Client, EndTransaction(c) PROVE Ending(locks[k])'
  BY <1>3 DEF EndTransaction, AfterStatement
<1>4. ASSUME NEW c \in Client, Prepare(c) PROVE Ending(locks[k])'
  BY <1>4 DEF Prepare
<1>5. ASSUME NEW c \in Client, Exec(c) PROVE Ending(locks[k])'
  <2>1. locks'[k] \in {locks[k], c} /\ txn'[c] \in {"prepare", "close"}
    BY <1>5 DEF Exec, AfterStatement
  <2>2. \A d \in Client : d # c => txn'[d] = txn[d]
    BY <1>5 DEF Exec
  <2> QED BY ZenonT(60), <2>1, <2>2
<1>6. ASSUME NEW c \in Client, Failed(c) PROVE Ending(locks[k])'
  BY <1>6 DEF Failed
<1>7. ASSUME NEW c \in Client, Close(c) PROVE Ending(locks[k])'
  BY <1>7 DEF Close, Over, Release
<1>8. CASE Crash
  BY <1>8 DEF Crash
<1> QED
  BY <1>1, <1>2, <1>3, <1>4, <1>5, <1>6, <1>7, <1>8
  DEF Next, Answer, ExecFails, BreakDeadlock, CallPool, TakeConn, RunStatement, FailStatement,
      CallBegin, Execute, vars, txnVars, callVars

LEMMA InitInvariant == Init => IInv
<1> SUFFICES ASSUME Init PROVE IInv
  OBVIOUS
<1>1. Shape /\ Progress /\ LocksOnlyWhileEnding
  BY DatabaseAssumption DEF Init, Shape, Progress, LocksOnlyWhileEnding
<1>2. Holding = {} /\ Using = {} /\ free = MaxOpen
  BY DEF Init, Holding, Using
<1>3. MaxOpen + 0 + 0 = MaxOpen
  BY DatabaseAssumption
<1>4. Counted
  BY <1>2, <1>3, FS_EmptySet DEF Counted, ConnectionsKept, Holding, Using
<1> QED BY <1>1, <1>4 DEF IInv

LEMMA StepInvariant == IInv /\ [Next]_vars => IInv'
BY ShapeStep, ProgressStep, CountedStep, LocksStep DEF IInv

LEMMA Invariant == Spec => []IInv
BY InitInvariant, StepInvariant, PTL DEF Spec

-----------------------------------------------------------------------------
(* Theorems. *)

\* Types, and a pool that never has more connections than it may open.
THEOREM TypeCorrect == Spec => []TypeOK
<1>1. IInv => TypeOK
  <2> SUFFICES ASSUME IInv PROVE TypeOK
    OBVIOUS
  <2>1. Cardinality(Holding) \in Nat /\ Cardinality(Using) \in Nat
    BY FS_CardinalityType DEF IInv, Counted
  <2>2. free + Cardinality(Holding) + Cardinality(Using) = MaxOpen
    BY DEF IInv, Counted, ConnectionsKept, Holding, Using
  <2>3. free \in 0 .. MaxOpen
    BY <2>1, <2>2, DatabaseAssumption DEF IInv, Shape
  <2> QED BY <2>3 DEF IInv, Shape, Progress, TypeOK
<1> QED BY <1>1, Invariant, PTL

\* ExecuteDB, QueryDB and EndTransaction give back every connection, whatever fails in them.
THEOREM ConnectionsStay == Spec => []ConnectionsKept
<1>1. IInv => ConnectionsKept
  BY DEF IInv, Counted
<1> QED BY <1>1, Invariant, PTL

\* Transaction.Execute collects: rows are locked by transactions that are being ended only.
THEOREM OpenLocksNothing == Spec => []LocksOnlyWhileEnding
<1>1. IInv => LocksOnlyWhileEnding
  BY DEF IInv
<1> QED BY <1>1, Invariant, PTL

-----------------------------------------------------------------------------
(* The refinement: transactions are all or nothing. *)

Pending == [c \in Client |-> IF txn[c] = "none" THEN None ELSE Execsqls[c]]

\* What a transaction is to write is not mistaken for no transaction.
LEMMA PendingIsSomething ==
  ASSUME Shape, NEW c \in Client
  PROVE  /\ Pending[c] = None <=> txn[c] = "none"
         /\ txn[c] # "none" => Pending[c] = Execsqls[c]
BY DatabaseAssumption DEF Shape, Pending

\* Steps that no row and no list of statements notices.
LEMMA Unnoticed ==
  ASSUME Shape, store' = store, Execsqls' = Execsqls,
         \A c \in Client : (txn'[c] = "none") <=> (txn[c] = "none")
  PROVE  UNCHANGED <<store, Pending>>
BY DEF Pending

LEMMA RunStatementIsSingle ==
  ASSUME Shape, NEW c \in Client, RunStatement(c)
  PROVE  [Promise!Next]_<<store, Pending>>
<1>1. Pending' = Pending
  BY DEF RunStatement, txnVars, Pending
<1>2. CASE UNCHANGED store
  BY <1>1, <1>2
<1>3. CASE arg[c] # None /\ store' = [store EXCEPT ![arg[c]] = c]
  <2>1. arg[c] \in Key
    BY <1>3 DEF Shape
  <2>2. Promise!Single(c, arg[c])
    BY <1>1, <1>3 DEF Promise!Single, Pending
  <2> QED BY <2>1, <2>2 DEF Promise!Next
<1> QED BY <1>2, <1>3 DEF RunStatement

LEMMA BeginIsOpen ==
  ASSUME Shape, Progress, NEW c \in Client, BeginTransaction(c)
  PROVE  [Promise!Next]_<<store, Pending>>
<1>1. store' = store /\ Execsqls' = Execsqls
  BY DEF BeginTransaction
<1>2. CASE UNCHANGED txn
  BY <1>1, <1>2, Unnoticed
<1>3. CASE txn' = [txn EXCEPT ![c] = "open"]
  <2>1. txn[c] = "none" /\ Execsqls[c] = <<>>
    BY DEF Progress, BeginTransaction
  <2>2. Pending' = [Pending EXCEPT ![c] = <<>>]
    BY <1>1, <1>3, <2>1 DEF Pending, Shape
  <2>3. Pending[c] = None
    BY <2>1, PendingIsSomething
  <2>4. Promise!Open(c)
    BY <1>1, <2>2, <2>3 DEF Promise!Open, Pending
  <2> QED BY <2>4 DEF Promise!Next
<1> QED BY <1>2, <1>3 DEF BeginTransaction

LEMMA ExecuteIsAdd ==
  ASSUME Shape, NEW c \in Client, NEW k \in Key, Execute(c, k)
  PROVE  [Promise!Next]_<<store, Pending>>
<1>1. txn[c] # "none" /\ UNCHANGED <<store, txn>>
  BY DEF Execute
<1>2. Pending' = [Pending EXCEPT ![c] = Append(@, k)]
  BY <1>1 DEF Execute, Pending, Shape
<1>3. Promise!Add(c, k)
  BY <1>1, <1>2, PendingIsSomething DEF Promise!Add, Pending
<1> QED BY <1>3 DEF Promise!Next

\* A transaction whose Commit succeeds has executed all its statements; one that is rolled
\* back, or whose Commit fails, leaves the store as it was.
LEMMA CloseIsCommitOrAbort ==
  ASSUME Shape, Progress, NEW c \in Client, Close(c)
  PROVE  [Promise!Next]_<<store, Pending>>
<1>1. Pending' = [Pending EXCEPT ![c] = None]
  BY DEF Close, Over, Shape, Pending
<1>2. CASE UNCHANGED store
  <2>1. Pending' = [d \in Client |-> IF d \in {c} THEN None ELSE Pending[d]]
    BY <1>1 DEF Pending
  <2>2. Promise!Abort
    BY <1>2, <2>1 DEF Promise!Abort, Pending
  <2> QED BY <2>2 DEF Promise!Next
<1>3. CASE /\ ~err[c]
           /\ store' = [k \in Key |-> IF k \in Written(c) THEN c ELSE store[k]]
  <2>1. done[c] = Len(Execsqls[c]) /\ txn[c] # "none"
    BY <1>3 DEF Close, Progress
  <2>2. Pending[c] = Execsqls[c] /\ Pending[c] # None
    BY <2>1, PendingIsSomething
  <2>3. DOMAIN Execsqls[c] = 1 .. done[c]
    BY <2>1 DEF Shape
  <2>4. \A k \in Key : k \in Written(c) <=> \E i \in DOMAIN Execsqls[c] : Execsqls[c][i] = k
    BY <2>3 DEF Written
  <2>5. store' = Promise!Apply(c, Execsqls[c], store)
    BY <1>3, <2>4 DEF Promise!Apply
  <2>6. Promise!Commit(c)
    BY <1>1, <2>2, <2>5 DEF Promise!Commit, Pending
  <2> QED BY <2>6 DEF Promise!Next
<1> QED BY <1>2, <1>3 DEF Close

LEMMA CrashIsAbort ==
  ASSUME Crash PROVE [Promise!Next]_<<store, Pending>>
<1>1. Pending' = [d \in Client |-> IF d \in Client THEN None ELSE Pending[d]]
  BY DEF Crash, Pending
<1>2. Promise!Abort
  BY <1>1 DEF Promise!Abort, Pending, Crash
<1> QED BY <1>2 DEF Promise!Next

LEMMA StepKeepsPromise ==
  ASSUME Shape, Progress, [Next]_vars
  PROVE  [Promise!Next]_<<store, Pending>>
<1> DEFINE Kept == [Promise!Next]_<<store, Pending>>
<1>1. ASSUME UNCHANGED <<store, Execsqls, txn>> PROVE Kept
  BY <1>1, Unnoticed
<1>2. ASSUME NEW c \in Client, EndTransaction(c) PROVE Kept
  BY <1>2, Unnoticed DEF EndTransaction, AfterStatement, Shape
<1>3. ASSUME NEW c \in Client, Prepare(c) PROVE Kept
  BY <1>3, Unnoticed DEF Prepare, Shape
<1>4. ASSUME NEW c \in Client, Exec(c) PROVE Kept
  BY <1>4, Unnoticed DEF Exec, AfterStatement, Shape
<1>5. ASSUME NEW c \in Client, txn[c] = "exec", Failed(c) PROVE Kept
  BY <1>5, Unnoticed DEF Failed, Shape
<1>6. \A c \in Client : Deadlocked(c) => txn[c] = "exec"
  BY DEF Deadlocked
<1>7. ASSUME NEW c \in Client, Answer(c) PROVE Kept
  <2>1. TakeConn(c) => UNCHANGED <<store, Execsqls, txn>>
    BY DEF TakeConn, txnVars
  <2> HIDE DEF Kept
  <2>2. RunStatement(c) \/ BeginTransaction(c) \/ Close(c) => Kept
    BY RunStatementIsSingle, BeginIsOpen, CloseIsCommitOrAbort DEF Kept
  <2> QED BY <1>1, <1>3, <1>4, <1>5, <1>6, <1>7, <2>1, <2>2 DEF Answer, BreakDeadlock
<1>8. ASSUME NEW c \in Client, NEW k \in Key, Execute(c, k) PROVE Kept
  BY <1>8, ExecuteIsAdd
<1>9. Crash => Kept
  BY CrashIsAbort
<1>10. ASSUME NEW c \in Client,
              \/ FailStatement(c) \/ CallBegin(c)
              \/ \E k \in Key \union {None} : CallPool(c, k)
       PROVE  UNCHANGED <<store, Execsqls, txn>>
  BY <1>10 DEF FailStatement, CallBegin, CallPool, txnVars
<1>11. UNCHANGED vars => UNCHANGED <<store, Execsqls, txn>>
  BY DEF vars, txnVars
<1> HIDE DEF Kept
<1> QED
  <2>1. Kept
    BY <1>1, <1>2, <1>5, <1>7, <1>8, <1>9, <1>10, <1>11 DEF Next, ExecFails
  <2> QED BY <2>1 DEF Kept

\* The store changes by single statements or by whole transactions, through errors in any
\* statement, a Commit that fails, and a stop of the process at any point.
THEOREM TransactionsAreAtomic == Spec => AllOrNothing
<1>1. Init => Promise!Init
  BY DEF Init, Promise!Init
<1>2. IInv /\ [Next]_vars => [Promise!Next]_<<store, Pending>>
  BY StepKeepsPromise DEF IInv
<1> QED BY <1>1, <1>2, Invariant, PTL
  DEF Spec, AllOrNothing, Promise!Spec, Pending
=============================================================================
