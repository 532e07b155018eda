------------------------------- MODULE Users -------------------------------
(***************************************************************************)
(* Users, groups and the table of memberships (src/vuser) over the mapper  *)
(* (src/orm/mapper): an operation is a row of statements, each sent to the *)
(* database on its own, outside a transaction.  The operations of several  *)
(* goroutines interleave statement by statement; a statement may fail,     *)
(* which is a panic in the goroutine, and the process may stop.            *)
(*                                                                         *)
(* Users and groups are alike: both are entities here, on one of two       *)
(* sides.  Of a row only its number of copies is kept.                     *)
(***************************************************************************)
EXTENDS Naturals, FiniteSets

CONSTANTS User, Group,  \* IDs, drawn at random
          Worker,       \* goroutines
          MaxRows,      \* bound: rows of one entity
          None

ASSUME SidesAssumption ==
  /\ User \intersect Group = {} /\ None \notin User \union Group
  /\ IsFiniteSet(Worker) /\ MaxRows \in Nat \ {0}

Entity == User \union Group
Others(e) == IF e \in User THEN Group ELSE User
Pair == User \X Group
PairsOf(e) == {p \in Pair : e \in {p[1], p[2]}}
PairsWith(e, set) == {p \in PairsOf(e) : p[1] \in set \/ p[2] \in set}

VARIABLES
  created,  \* IDs drawn so far
  cached,   \* the entities in Manager's maps
  holds,    \* Entity -> the set object (Groups or Users) that it points to, named after the
            \* entity that was made with it first
  sets,     \* set object -> the IDs in it
  rows,     \* Entity -> copies of its row
  members,  \* Pair -> copies of its row in the table of memberships
  op,       \* Worker -> "idle", "save", "update" or "delete"
  target,   \* Worker -> the entity it works on, None when idle
  set,      \* Worker -> the set of the object it works on
  next,     \* Worker -> the next statement: "row", "clear", "pair" or "last"
  todo,     \* Worker -> pairs still to be written
  wanted,   \* history: see Note
  dropped

cacheVars == <<created, cached, holds, sets>>
opVars == <<op, target, set>>
vars == <<cacheVars, rows, members, opVars, next, todo, wanted, dropped>>

\* The tables have been made, empty.
Init == /\ created = {} /\ cached = {}
        /\ holds = [e \in Entity |-> e]
        /\ sets = [h \in Entity |-> {}]
        /\ rows = [e \in Entity |-> 0]
        /\ members = [p \in Pair |-> 0]
        /\ op = [w \in Worker |-> "idle"]
        /\ target = [w \in Worker |-> None]
        /\ set = [w \in Worker |-> {}]
        /\ next = [w \in Worker |-> "row"]
        /\ todo = [w \in Worker |-> {}]
        /\ wanted = {}
        /\ dropped = Pair

-----------------------------------------------------------------------------
(* The mapper. *)

\* Every column asked for must be a field of the struct: for another one the name found
\* is empty, and fieldType panics on the value that has no type.
Fields(table) == IF table = "member" THEN {"userid", "groupid"} ELSE {"id", "data"}
Built(table, cols) == cols \subseteq Fields(table)

CreateRow(e) == rows' = [rows EXCEPT ![e] = @ + 1]
CreatePair(p) == members' = [members EXCEPT ![p] = @ + 1]

\* Mutant of DeletePairs: the condition meets no row.
DeletePairsMissed(e) == e \in Entity /\ UNCHANGED members

\* Delete by userid or by groupid.
DeletePairs(e) == members' = [p \in Pair |-> IF p \in PairsOf(e) THEN 0 ELSE members[p]]

DeleteByID(e) == rows' = [rows EXCEPT ![e] = 0]

-----------------------------------------------------------------------------
(* The cache. *)

Links(e) == sets[holds[e]]

\* Mutant of NewSets: the other side is not told.
NewSetsAlone(e, h, s) == [sets EXCEPT ![h] = s]

\* NewUser, NewGroup: those of the set that are in the cache take the new ID into theirs.
NewSets(e, h, s) ==
  LET told == {holds[f] : f \in s \intersect Others(e) \intersect cached}
  IN  [k \in Entity |-> (IF k = h THEN s ELSE sets[k]) \union (IF k \in told THEN {e} ELSE {})]

\* The new object keeps the pointer h to the set it was given, whose IDs are s.
New(e, h, s) ==
  /\ e \notin created
  /\ created' = created \union {e}
  /\ cached' = cached \union {e}
  /\ holds' = [holds EXCEPT ![e] = h]
  /\ sets' = NewSets(e, h, s)
  /\ UNCHANGED <<rows, members, opVars, next, todo, wanted, dropped>>

\* A set made for it alone, with IDs of the other side, or one that an object has already.
NewOwn(e) == \E s \in SUBSET (Others(e) \intersect created) : New(e, e, s)
NewShared(e) == \E f \in cached : New(e, holds[f], Links(f))

-----------------------------------------------------------------------------
(* Operations. *)

\* What an operation means for the memberships: the pairs it writes, and those it only
\* takes out.  An Update of an object whose set is empty leaves them as they are.
Writes(o, e, s) == IF o = "update" THEN PairsWith(e, s) ELSE {}
TakesOut(o, e, s) == IF o = "delete" \/ (o = "update" /\ s # {})
                     THEN PairsOf(e) \ Writes(o, e, s) ELSE {}
WritesNow(w) == Writes(op[w], target[w], set[w])
TakesOutNow(w) == TakesOut(op[w], target[w], set[w])

\* A pair is wanted from the beginning of an operation that writes it, with none under
\* way that takes it out, until one begins that does; dropped is the reverse.
Note(o, e, s) ==
  LET writing == UNION {WritesNow(w) : w \in Worker}
      taking == UNION {TakesOutNow(w) : w \in Worker}
  IN  /\ wanted' = (wanted \ TakesOut(o, e, s)) \union (Writes(o, e, s) \ taking)
      /\ dropped' = (dropped \ Writes(o, e, s)) \union (TakesOut(o, e, s) \ writing)

\* A goroutine calls an operation on an object that it has got from the cache, or from
\* QueryByID or QueryByUsername, with its set nil, and may have given a set since.  That
\* set stays as it is until the operation is over.
Begin(w, o, e, s) ==
  /\ op[w] = "idle"
  /\ e \in created
  /\ op' = [op EXCEPT ![w] = o]
  /\ target' = [target EXCEPT ![w] = e]
  /\ set' = [set EXCEPT ![w] = s]
  /\ next' = [next EXCEPT ![w] = IF o = "delete" THEN "clear" ELSE "row"]
  /\ Note(o, e, s)
  /\ UNCHANGED <<cacheVars, rows, members, todo>>

\* The operation of w is over.
Return(w) == /\ op' = [op EXCEPT ![w] = "idle"]
             /\ target' = [target EXCEPT ![w] = None]
             /\ set' = [set EXCEPT ![w] = {}]
             /\ next' = [next EXCEPT ![w] = "row"]
             /\ todo' = [todo EXCEPT ![w] = {}]

Goto(w, s) == next' = [next EXCEPT ![w] = s] /\ UNCHANGED <<opVars, todo>>

\* Save's first statement; with an empty set it is the only one.
SaveRow(w) ==
  /\ op[w] = "save" /\ next[w] = "row"
  /\ rows[target[w]] < MaxRows
  /\ CreateRow(target[w])
  /\ IF set[w] = {} THEN Return(w) ELSE Goto(w, "pair")
  /\ UNCHANGED <<cacheVars, members, wanted, dropped>>

\* ... which asks for a column id of the memberships: a panic.
SavePair(w) ==
  /\ op[w] = "save" /\ next[w] = "pair"
  /\ ~Built("member", {"id", "userid", "groupid"})
  /\ Return(w)
  /\ UNCHANGED <<cacheVars, rows, members, wanted, dropped>>

\* Update's first statement changes the entity's rows.
UpdateRow(w) ==
  /\ op[w] = "update" /\ next[w] = "row"
  /\ IF set[w] = {} THEN Return(w) ELSE Goto(w, "clear")
  /\ UNCHANGED <<cacheVars, rows, members, wanted, dropped>>

\* Mutant of ClearPairs: all possible memberships are to be written.
ClearPairsAll(w) ==
  /\ next[w] = "clear"
  /\ DeletePairs(target[w])
  /\ next' = [next EXCEPT ![w] = IF op[w] = "update" THEN "pair" ELSE "last"]
  /\ todo' = [todo EXCEPT ![w] = PairsOf(target[w])]
  /\ UNCHANGED <<cacheVars, rows, opVars, wanted, dropped>>

\* Update and Delete take all memberships of the entity out.
ClearPairs(w) ==
  /\ next[w] = "clear"
  /\ DeletePairs(target[w])
  /\ next' = [next EXCEPT ![w] = IF op[w] = "update" THEN "pair" ELSE "last"]
  /\ todo' = [todo EXCEPT ![w] = WritesNow(w)]
  /\ UNCHANGED <<cacheVars, rows, opVars, wanted, dropped>>

\* Mutant of WritePair: the loop stops after one.
WritePairOnce(w) ==
  /\ op[w] = "update" /\ next[w] = "pair"
  /\ \E p \in todo[w] : CreatePair(p)
  /\ Return(w)
  /\ UNCHANGED <<cacheVars, rows, wanted, dropped>>

\* Update writes the memberships one by one, in the order of the map.
WritePair(w) ==
  /\ op[w] = "update" /\ next[w] = "pair"
  /\ Built("member", {"userid", "groupid"})
  /\ \E p \in todo[w] :
       /\ CreatePair(p)
       /\ IF todo[w] = {p} THEN Return(w)
          ELSE todo' = [todo EXCEPT ![w] = @ \ {p}] /\ UNCHANGED <<opVars, next>>
  /\ UNCHANGED <<cacheVars, rows, wanted, dropped>>

\* Delete's second statement.
DeleteRow(w) ==
  /\ op[w] = "delete" /\ next[w] = "last"
  /\ DeleteByID(target[w])
  /\ Return(w)
  /\ UNCHANGED <<cacheVars, members, wanted, dropped>>

Forget(pairs) == wanted' = wanted \ pairs /\ dropped' = dropped \ pairs

\* A statement fails: ExecuteDB uses what it has not got, and the operation stops in a
\* panic that the web server recovers from.
Fail(w) ==
  /\ op[w] # "idle"
  /\ Return(w)
  /\ Forget(WritesNow(w) \union TakesOutNow(w))
  /\ UNCHANGED <<cacheVars, rows, members>>

\* The process stops and starts again, with an empty cache (load does nothing).
Crash ==
  /\ cached' = {}
  /\ holds' = [e \in Entity |-> e]
  /\ sets' = [h \in Entity |-> {}]
  /\ op' = [w \in Worker |-> "idle"]
  /\ target' = [w \in Worker |-> None]
  /\ set' = [w \in Worker |-> {}]
  /\ next' = [w \in Worker |-> "row"]
  /\ todo' = [w \in Worker |-> {}]
  /\ Forget(UNION {WritesNow(w) \union TakesOutNow(w) : w \in Worker})
  /\ UNCHANGED <<created, rows, members>>

Next == \/ \E e \in Entity : NewOwn(e) \/ NewShared(e)
        \/ \E w \in Worker :
             \/ \E e \in Entity, o \in {"save", "update", "delete"} :
                  \E s \in SUBSET Others(e) : Begin(w, o, e, s)
             \/ SaveRow(w) \/ SavePair(w) \/ UpdateRow(w) \/ ClearPairs(w)
             \/ WritePair(w) \/ DeleteRow(w) \/ Fail(w)
        \/ Crash

Spec == Init /\ [][Next]_vars

-----------------------------------------------------------------------------
(* Properties. *)

TypeOK ==
  /\ cached \subseteq created /\ created \subseteq Entity
  /\ holds \in [Entity -> Entity] /\ sets \in [Entity -> SUBSET Entity]
  /\ rows \in [Entity -> 0 .. MaxRows]
  /\ members \in [Pair -> Nat]
  /\ op \in [Worker -> {"idle", "save", "update", "delete"}]
  /\ target \in [Worker -> Entity \union {None}] /\ set \in [Worker -> SUBSET Entity]
  /\ next \in [Worker -> {"row", "clear", "pair", "last"}]
  /\ todo \in [Worker -> SUBSET Pair]
  /\ \A w \in Worker : todo[w] \subseteq WritesNow(w)
  /\ wanted \subseteq Pair /\ dropped \subseteq Pair

\* No operation under way writes the pair or takes it out.
Quiet(p) == \A w \in Worker : p \notin WritesNow(w) \union TakesOutNow(w)

\* A membership that the operations agree on is in the table once they are over, in
\* whatever order their statements have come, unless one of them failed or the process
\* stopped (Update deletes all memberships first and writes them anew).
AgreedIsKept == \A p \in wanted : Quiet(p) => members[p] > 0

\* A membership that the operations agree to take out, by Delete or by an Update with
\* other ones, is out of the table once they are over.
DroppedIsGone == \A p \in dropped : Quiet(p) => members[p] = 0

\* Updates that run into each other write a membership more than once, but never more
\* often than there are goroutines: each of them has taken out what was there before.
CopiesBounded == \A p \in Pair : members[p] <= Cardinality(Worker)

\* No other object in the cache has been made with its set.
Own(e) == \A f \in cached \ {e} : holds[f] # holds[e]

\* What an object in the cache has in a set of its own has it in return: a user the group
\* and a group the user (NewUser and NewGroup both keep both sides).  A set that two objects
\* share takes in, for both, what was meant for one.
LinksAreMutual ==
  \A e \in cached : Own(e) => \A f \in Links(e) \intersect Others(e) \intersect cached :
                                 e \in Links(f)
=============================================================================
