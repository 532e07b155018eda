------------------------------ MODULE Database ------------------------------
(***************************************************************************)
(* Access to a database (src/orm/db): single statements and queries on the *)
(* pool of connections, and transactions, whose statements are collected   *)
(* and sent only when they end.                                            *)
(*                                                                         *)
(* A transaction holds a connection from its beginning.  The database      *)
(* keeps, for each row that a transaction has written, a lock until the    *)
(* transaction is over; statements wait for locks and calls wait for       *)
(* connections.  Any statement may fail.                                   *)
(***************************************************************************)
EXTENDS Naturals, Sequences, FiniteSets

CONSTANTS Client,   \* goroutines
          Key,      \* rows
          MaxOpen,  \* maxOpenConns
          MaxStmt,  \* bound: statements of one transaction
          None

ASSUME DatabaseAssumption ==
  /\ None \notin Client \union Key \union Seq(Key)
  /\ MaxOpen \in Nat \ {0} /\ MaxStmt \in Nat

VARIABLES
  store,     \* what is committed: Key -> the client that wrote it last, or None
  locks,     \* Key -> the client whose transaction has written it, or None
  free,      \* connections of the pool that nobody uses
  txn,       \* Client -> "none", "open", "prepare", "exec" or "close"
  Execsqls,  \* Client -> the keys that its transaction writes
  done,      \* Client -> statements of it that have been executed
  err,       \* Client -> EndTransaction's err is set
  call,      \* Client -> call it is in: "none", "begin", "wait" or "run"
  arg        \* Client -> the row of its single statement, None for a query

txnVars == <<txn, Execsqls, done, err>>
callVars == <<call, arg>>
vars == <<store, locks, free, txnVars, callVars>>

Init == /\ store = [k \in Key |-> None]
        /\ locks = [k \in Key |-> None]
        /\ free = MaxOpen
        /\ txn = [c \in Client |-> "none"]
        /\ Execsqls = [c \in Client |-> <<>>]
        /\ done = [c \in Client |-> 0]
        /\ err = [c \in Client |-> FALSE]
        /\ call = [c \in Client |-> "none"]
        /\ arg = [c \in Client |-> None]

Running(c) == call[c] = "none" /\ txn[c] \in {"none", "open"}
Ending(c) == txn[c] \in {"prepare", "exec", "close"}

-----------------------------------------------------------------------------
(* Single statements and queries: ExecuteDB and QueryDB. *)

\* A client calls one of the two, in a transaction of its own or outside.
CallPool(c, k) ==
  /\ Running(c)
  /\ call' = [call EXCEPT ![c] = "wait"]
  /\ arg' = [arg EXCEPT ![c] = k]
  /\ UNCHANGED <<store, locks, free, txnVars>>

\* The pool has a connection for it.
TakeConn(c) ==
  /\ call[c] = "wait"
  /\ free > 0
  /\ free' = free - 1
  /\ call' = [call EXCEPT ![c] = "run"]
  /\ UNCHANGED <<store, locks, txnVars, arg>>

GiveBack(c) ==
  /\ free' = free + 1
  /\ call' = [call EXCEPT ![c] = "none"]
  /\ arg' = [arg EXCEPT ![c] = None]

\* The statement, which waits for the row, commits by itself.
RunStatement(c) ==
  /\ call[c] = "run"
  /\ \/ arg[c] = None /\ UNCHANGED store
     \/ /\ arg[c] # None
        /\ locks[arg[c]] = None
        /\ store' = [store EXCEPT ![arg[c]] = c]
  /\ GiveBack(c)
  /\ UNCHANGED <<locks, txnVars>>

\* Mutant of FailStatement: the result is not closed when the query fails.
FailStatementOpen(c) ==
  /\ call[c] = "run"
  /\ call' = [call EXCEPT ![c] = "none"]
  /\ arg' = [arg EXCEPT ![c] = None]
  /\ UNCHANGED <<store, locks, free, txnVars>>

\* It fails: a panic, with the connection back in the pool.
FailStatement(c) ==
  /\ call[c] = "run"
  /\ GiveBack(c)
  /\ UNCHANGED <<store, locks, txnVars>>

-----------------------------------------------------------------------------
(* Transactions. *)

CallBegin(c) ==
  /\ Running(c) /\ txn[c] = "none"
  /\ call' = [call EXCEPT ![c] = "begin"]
  /\ UNCHANGED <<store, locks, free, txnVars, arg>>

\* Mutant of BeginTransaction: the error of Begin is not looked at.
BeginTransactionUnchecked(c) ==
  /\ call[c] = "begin"
  /\ free > 0
  /\ call' = [call EXCEPT ![c] = "none"]
  /\ free' \in {free, free - 1}
  /\ txn' = [txn EXCEPT ![c] = "open"]
  /\ UNCHANGED <<store, locks, Execsqls, done, err, arg>>

\* BeginTransactionDB: a connection for the transaction, or nil when Begin fails.
BeginTransaction(c) ==
  /\ call[c] = "begin"
  /\ free > 0
  /\ call' = [call EXCEPT ![c] = "none"]
  /\ \/ free' = free - 1 /\ txn' = [txn EXCEPT ![c] = "open"]
     \/ UNCHANGED <<free, txn>>
  /\ UNCHANGED <<store, locks, Execsqls, done, err, arg>>

\* Mutant of Execute: the statement is sent at once.
ExecuteAtOnce(c, k) ==
  /\ Running(c) /\ txn[c] = "open"
  /\ Len(Execsqls[c]) < MaxStmt
  /\ locks[k] \in {None, c}
  /\ locks' = [locks EXCEPT ![k] = c]
  /\ Execsqls' = [Execsqls EXCEPT ![c] = Append(@, k)]
  /\ UNCHANGED <<store, free, txn, done, err, callVars>>

\* Transaction.Execute only takes a note.
Execute(c, k) ==
  /\ Running(c) /\ txn[c] = "open"
  /\ Len(Execsqls[c]) < MaxStmt
  /\ Execsqls' = [Execsqls EXCEPT ![c] = Append(@, k)]
  /\ UNCHANGED <<store, locks, free, txn, done, err, callVars>>

\* EndTransaction, and its loop.
AfterStatement(c, n) == IF n < Len(Execsqls[c]) THEN "prepare" ELSE "close"

EndTransaction(c) ==
  /\ Running(c) /\ txn[c] = "open"
  /\ txn' = [txn EXCEPT ![c] = AfterStatement(c, 0)]
  /\ UNCHANGED <<store, locks, free, Execsqls, done, err, callVars>>

\* Preparing a statement may fail: the deferred function comes next.
Prepare(c) ==
  /\ txn[c] = "prepare"
  /\ \E fails \in BOOLEAN :
       /\ txn' = [txn EXCEPT ![c] = IF fails THEN "close" ELSE "exec"]
       /\ err' = [err EXCEPT ![c] = fails]
  /\ UNCHANGED <<store, locks, free, Execsqls, done, callVars>>

ThisKey(c) == Execsqls[c][done[c] + 1]

\* The statement waits for its row and locks it.
Exec(c) ==
  /\ txn[c] = "exec"
  /\ locks[ThisKey(c)] \in {None, c}
  /\ locks' = [locks EXCEPT ![ThisKey(c)] = c]
  /\ done' = [done EXCEPT ![c] = @ + 1]
  /\ txn' = [txn EXCEPT ![c] = AfterStatement(c, done[c] + 1)]
  /\ UNCHANGED <<store, free, Execsqls, err, callVars>>

\* Mutant of Failed: the error is not kept.
FailedUnseen(c) ==
  /\ txn' = [txn EXCEPT ![c] = "close"]
  /\ err' = [err EXCEPT ![c] = FALSE]
  /\ UNCHANGED <<store, locks, free, Execsqls, done, callVars>>

\* Mutant of Failed: the statement is tried again.
FailedRetried(c) == c \in Client /\ UNCHANGED vars

\* A failed statement has no result: using it is a panic, and the deferred function runs
\* with err set.
Failed(c) ==
  /\ txn' = [txn EXCEPT ![c] = "close"]
  /\ err' = [err EXCEPT ![c] = TRUE]
  /\ UNCHANGED <<store, locks, free, Execsqls, done, callVars>>

ExecFails(c) == txn[c] = "exec" /\ Failed(c)

\* Clients that wait for rows of each other: the database lets one of them fail.
Deadlocked(c) ==
  \E set \in SUBSET Client :
    /\ c \in set
    /\ \A d \in set : txn[d] = "exec" /\ locks[ThisKey(d)] \in set \ {d}

BreakDeadlock(c) == Deadlocked(c) /\ Failed(c)

Release(c) == locks' = [k \in Key |-> IF locks[k] = c THEN None ELSE locks[k]]

\* The transaction is over and its connection is free.
Over(c) ==
  /\ Release(c)
  /\ free' = free + 1
  /\ txn' = [txn EXCEPT ![c] = "none"]
  /\ Execsqls' = [Execsqls EXCEPT ![c] = <<>>]
  /\ done' = [done EXCEPT ![c] = 0]
  /\ err' = [err EXCEPT ![c] = FALSE]
  /\ UNCHANGED callVars

\* What the transaction has written.
Written(c) == {Execsqls[c][i] : i \in 1 .. done[c]}

\* The deferred function: Rollback when err is set, otherwise Commit, whose own error
\* nobody looks at.
Close(c) ==
  /\ txn[c] = "close"
  /\ \/ UNCHANGED store
     \/ /\ ~err[c]
        /\ store' = [k \in Key |-> IF k \in Written(c) THEN c ELSE store[k]]
  /\ Over(c)

\* The process stops: the database gives up what is not committed.
Crash ==
  /\ UNCHANGED store
  /\ locks' = [k \in Key |-> None]
  /\ free' = MaxOpen
  /\ txn' = [c \in Client |-> "none"]
  /\ Execsqls' = [c \in Client |-> <<>>]
  /\ done' = [c \in Client |-> 0]
  /\ err' = [c \in Client |-> FALSE]
  /\ call' = [c \in Client |-> "none"]
  /\ arg' = [c \in Client |-> None]

\* What a call waits for: a connection, a row, or the database alone.
Answer(c) == \/ TakeConn(c) \/ RunStatement(c) \/ BeginTransaction(c) \/ Prepare(c)
             \/ Exec(c) \/ BreakDeadlock(c) \/ Close(c)

Next == \/ \E c \in Client :
             \/ Answer(c) \/ FailStatement(c) \/ ExecFails(c)
             \/ CallBegin(c) \/ EndTransaction(c)
             \/ \E k \in Key \union {None} : CallPool(c, k)
             \/ \E k \in Key : Execute(c, k)
        \/ Crash

\* The pool serves its callers, and the database the statements that wait for a row, in
\* the order they came, and a deadlock is found: no call is passed over for ever.  A
\* client ends the transaction it has begun.
Fairness == \A c \in Client : SF_vars(Answer(c)) /\ SF_vars(EndTransaction(c))

Spec == Init /\ [][Next]_vars /\ Fairness

-----------------------------------------------------------------------------
(* Properties. *)

TypeOK ==
  /\ store \in [Key -> Client \union {None}]
  /\ locks \in [Key -> Client \union {None}]
  /\ free \in 0 .. MaxOpen
  /\ txn \in [Client -> {"none", "open", "prepare", "exec", "close"}]
  /\ \A c \in Client : Execsqls[c] \in Seq(Key) /\ done[c] \in 0 .. Len(Execsqls[c])
  /\ err \in [Client -> BOOLEAN]
  /\ call \in [Client -> {"none", "begin", "wait", "run"}]
  /\ arg \in [Client -> Key \union {None}]

\* Every connection is free or in the hands of a transaction or of a single statement:
\* none is lost by a failure, a panic or a transaction that ends twice.
ConnectionsKept ==
  free + Cardinality({c \in Client : txn[c] # "none"})
       + Cardinality({c \in Client : call[c] = "run"}) = MaxOpen

\* Since statements are only collected until the end, a transaction that is still open
\* has no row locked, whatever its client does meanwhile, and one that is over has none.
LocksOnlyWhileEnding == \A k \in Key : locks[k] # None => Ending(locks[k])

\* The store changes by whole transactions or by single statements.
Promise == INSTANCE AtomicStore WITH
  pending <- [c \in Client |-> IF txn[c] = "none" THEN None ELSE Execsqls[c]]
AllOrNothing == Promise!Spec

\* All connections are with open transactions whose clients wait for one more.
Gridlock == Cardinality({c \in Client : txn[c] = "open" /\ call[c] = "wait"}) = MaxOpen

\* Who waits for a connection gets one, unless the pool is in gridlock: a client
\* must not query the pool while it holds a transaction.
WaitersServed ==
  \A c \in Client : (call[c] \in {"begin", "wait"}) ~>
                      (call[c] \notin {"begin", "wait"} \/ Gridlock)

\* Every transaction that is being ended is over in the end, whoever holds its rows.
EndingEnds == \A c \in Client : Ending(c) ~> (txn[c] = "none")
=============================================================================
