----------------------------- MODULE AtomicStore -----------------------------
(***************************************************************************)
(* What transactions promise: a store that changes by one statement at a   *)
(* time or by all the statements of a transaction at once, in their order. *)
(***************************************************************************)
EXTENDS Sequences

CONSTANTS Client, Key, None

VARIABLES store,    \* Key -> the client that wrote it last, or None
          pending   \* Client -> the keys its transaction is to write, or None

Init == /\ store = [k \in Key |-> None]
        /\ pending = [c \in Client |-> None]

\* A client's statements, applied one after the other.
Apply(c, keys, s) == [k \in Key |-> IF \E i \in DOMAIN keys : keys[i] = k THEN c ELSE s[k]]

Open(c) == /\ pending[c] = None
           /\ pending' = [pending EXCEPT ![c] = <<>>]
           /\ UNCHANGED store

Add(c, k) == /\ pending[c] # None
             /\ pending' = [pending EXCEPT ![c] = Append(@, k)]
             /\ UNCHANGED store

Commit(c) == /\ pending[c] # None
             /\ store' = Apply(c, pending[c], store)
             /\ pending' = [pending EXCEPT ![c] = None]

\* Any number of transactions may be given up, but none in part.
Abort == /\ \E given \in SUBSET Client :
              pending' = [c \in Client |-> IF c \in given THEN None ELSE pending[c]]
         /\ UNCHANGED store

Single(c, k) == store' = [store EXCEPT ![k] = c] /\ UNCHANGED pending

Next == \/ \E c \in Client : Open(c) \/ Commit(c) \/ \E k \in Key : Add(c, k) \/ Single(c, k)
        \/ Abort

Spec == Init /\ [][Next]_<<store, pending>>
=============================================================================
