---------------------------- MODULE UsersProofs ----------------------------
(***************************************************************************)
(* Proofs about the table of memberships and the cache: what the           *)
(* operations agree on is in the table once they are over, for any number  *)
(* of users, groups and goroutines and every order of their statements.    *)
(***************************************************************************)
EXTENDS Users, FiniteSetTheorems, TLAPS

\* An operation of w that is still to write the pair, or still to take it out.
Writing(w, p) == p \in WritesNow(w) /\ (next[w] \in {"row", "clear"} \/ p \in todo[w])
Taking(w, p) == p \in TakesOutNow(w) /\ next[w] \in {"row", "clear"}

\* The stages of an operation.
Stages ==
  \A w \in Worker :
    /\ op[w] = "idle" => next[w] = "row" /\ target[w] = None
    /\ op[w] # "idle" => target[w] \in Entity
    /\ next[w] = "clear" => op[w] = "delete" \/ (op[w] = "update" /\ set[w] # {})
    /\ next[w] = "last" => op[w] = "delete"

\* A wanted membership has no operation against it, and is there or about to be written.
WantedIsComing ==
  \A p \in wanted : /\ \A w \in Worker : p \notin TakesOutNow(w)
                    /\ members[p] > 0 \/ \E w \in Worker : Writing(w, p)

\* A dropped membership has no operation for it, and is out or about to be taken out.
DroppedIsGoing ==
  \A p \in dropped : /\ \A w \in Worker : p \notin WritesNow(w)
                     /\ members[p] = 0 \/ \E w \in Worker : Taking(w, p)

\* The inductive invariant for the table.
IInv == TypeOK /\ Stages /\ WantedIsComing /\ DroppedIsGoing

-----------------------------------------------------------------------------
(* What operations mean. *)

LEMMA Meaning ==
  ASSUME NEW e, NEW s
  PROVE  /\ \A o \in {"idle", "save", "delete"} : Writes(o, e, s) = {}
         /\ \A o \in {"idle", "save"} : TakesOut(o, e, s) = {}
         /\ s = {} => Writes("update", e, s) = {} /\ TakesOut("update", e, s) = {}
         /\ \A o : Writes(o, e, s) \intersect TakesOut(o, e, s) = {}
         /\ \A o : Writes(o, e, s) \subseteq Pair /\ TakesOut(o, e, s) \subseteq Pair
         /\ \A o : o = "delete" \/ (o = "update" /\ s # {})
              => PairsOf(e) = Writes(o, e, s) \union TakesOut(o, e, s)
BY DEF Writes, TakesOut, PairsWith, PairsOf

\* The table is changed by the worker's own pairs only.
LEMMA ClearsOwnPairs ==
  ASSUME Stages, NEW w \in Worker, next[w] = "clear"
  PROVE  PairsOf(target[w]) = WritesNow(w) \union TakesOutNow(w)
BY Meaning DEF Stages, WritesNow, TakesOutNow

LEMMA OthersPairs ==
  ASSUME NEW e \in Entity, NEW s \in SUBSET Others(e)
  PROVE  s \subseteq Entity
BY DEF Others, Entity

-----------------------------------------------------------------------------

\* A set made for a new object, or taken from another, is a set object with IDs.
LEMMA NewIsNew ==
  ASSUME TypeOK, NEW e \in Entity, NewOwn(e) \/ NewShared(e)
  PROVE  \E h \in Entity : \E s \in SUBSET Entity : New(e, h, s)
<1>1. CASE NewOwn(e)
  BY <1>1, OthersPairs DEF NewOwn
<1>2. CASE NewShared(e)
  <2>1. PICK f \in cached : New(e, holds[f], Links(f))
    BY <1>2 DEF NewShared
  <2>2. f \in Entity /\ holds[f] \in Entity /\ Links(f) \in SUBSET Entity
    BY DEF TypeOK, Links
  <2> QED BY <2>1, <2>2
<1> QED BY <1>1, <1>2

LEMMA TypeStep == TypeOK /\ Stages /\ [Next]_vars => TypeOK' /\ Stages'
<1> SUFFICES ASSUME TypeOK, Stages, [Next]_vars PROVE TypeOK' /\ Stages'
  OBVIOUS
<1> USE SidesAssumption DEF TypeOK, Stages
<1>1. ASSUME NEW w \in Worker, Return(w), UNCHANGED cacheVars,
             rows' \in [Entity -> 0 .. MaxRows], members' \in [Pair -> Nat],
             wanted' \subseteq Pair, dropped' \subseteq Pair
      PROVE  TypeOK' /\ Stages'
  <2>1. ASSUME NEW v \in Worker PROVE todo'[v] \subseteq WritesNow(v)'
    <3>1. CASE v = w
      BY <1>1, <3>1 DEF Return
    <3>2. CASE v # w
      BY <1>1, <3>2 DEF Return, WritesNow
    <3> QED BY <3>1, <3>2
  <2> QED BY <1>1, <2>1 DEF Return, cacheVars
<1>2. ASSUME NEW e \in Entity, NEW h \in Entity, NEW s \in SUBSET Entity, New(e, h, s)
      PROVE  TypeOK' /\ Stages'
  <2>1. holds' \in [Entity -> Entity] /\ sets' \in [Entity -> SUBSET Entity]
    BY <1>2 DEF New, NewSets
  <2>2. \A v \in Worker : todo'[v] \subseteq WritesNow(v)'
    BY <1>2 DEF New, opVars, WritesNow
  <2> QED BY <1>2, <2>1, <2>2 DEF New, opVars
<1>3. ASSUME NEW w \in Worker, NEW e \in Entity, NEW o \in {"save", "update", "delete"},
             NEW s \in SUBSET Others(e), Begin(w, o, e, s)
      PROVE  TypeOK' /\ Stages'
  <2>1. s \subseteq Entity
    BY OthersPairs
  <2>2. wanted' \subseteq Pair /\ dropped' \subseteq Pair
    BY <1>3, Meaning DEF Begin, Note
  <2>3. \A v \in Worker : todo'[v] \subseteq WritesNow(v)'
    <3>1. todo[w] = {}
      BY <1>3, Meaning DEF Begin, WritesNow
    <3> QED BY <1>3, <3>1 DEF Begin, WritesNow
  <2> QED BY <1>3, <2>1, <2>2, <2>3 DEF Begin, cacheVars
<1>4. ASSUME NEW w \in Worker, NEW st \in {"clear", "pair"}, op[w] # "idle", Goto(w, st),
             st = "clear" => op[w] = "update" /\ set[w] # {},
             UNCHANGED <<cacheVars, members, wanted, dropped>>,
             rows' \in [Entity -> 0 .. MaxRows]
      PROVE  TypeOK' /\ Stages'
  <2>1. \A v \in Worker : todo'[v] \subseteq WritesNow(v)'
    BY <1>4 DEF Goto, opVars, WritesNow
  <2> QED BY <1>4, <2>1 DEF Goto, opVars, cacheVars
<1>5. ASSUME NEW w \in Worker, SaveRow(w) PROVE TypeOK' /\ Stages'
  <2>1. rows' \in [Entity -> 0 .. MaxRows] /\ op[w] # "idle"
    BY <1>5 DEF SaveRow, CreateRow
  <2> QED BY <1>1, <1>4, <1>5, <2>1 DEF SaveRow
<1>6. ASSUME NEW w \in Worker, SavePair(w) PROVE TypeOK' /\ Stages'
  BY <1>1, <1>6 DEF SavePair
<1>7. ASSUME NEW w \in Worker, UpdateRow(w) PROVE TypeOK' /\ Stages'
  <2>1. op[w] # "idle"
    BY <1>7 DEF UpdateRow
  <2> QED BY <1>1, <1>4, <1>7, <2>1 DEF UpdateRow
<1>8. ASSUME NEW w \in Worker, ClearPairs(w) PROVE TypeOK' /\ Stages'
  <2>1. members' \in [Pair -> Nat]
    BY <1>8 DEF ClearPairs, DeletePairs
  <2>2. \A v \in Worker : todo'[v] \subseteq WritesNow(v)'
    BY <1>8 DEF ClearPairs, opVars, WritesNow
  <2>3. WritesNow(w) \subseteq Pair
    BY Meaning DEF WritesNow
  <2>4. todo' \in [Worker -> SUBSET Pair]
    BY <1>8, <2>3 DEF ClearPairs
  <2> QED BY <1>8, <2>1, <2>2, <2>4 DEF ClearPairs, opVars, cacheVars
<1>9. ASSUME NEW w \in Worker, WritePair(w) PROVE TypeOK' /\ Stages'
  <2>1. PICK p \in todo[w] :
          /\ CreatePair(p)
          /\ IF todo[w] = {p} THEN Return(w)
             ELSE todo' = [todo EXCEPT ![w] = @ \ {p}] /\ UNCHANGED <<opVars, next>>
    BY <1>9 DEF WritePair
  <2>2. members' \in [Pair -> Nat]
    <3>1. p \in Pair
      BY Meaning DEF WritesNow
    <3>2. members[p] + 1 \in Nat
      BY <3>1
    <3> QED BY <2>1, <3>2 DEF CreatePair
  <2>3. UNCHANGED <<cacheVars, rows, wanted, dropped>>
    BY <1>9 DEF WritePair
  <2>4. CASE Return(w)
    BY <1>1, <2>2, <2>3, <2>4
  <2>5. CASE todo' = [todo EXCEPT ![w] = @ \ {p}] /\ UNCHANGED <<opVars, next>>
    <3>1. \A v \in Worker : todo'[v] \subseteq WritesNow(v)'
      BY <2>5 DEF opVars, WritesNow
    <3>2. todo' \in [Worker -> SUBSET Pair]
      BY <2>5
    <3> QED BY <2>2, <2>3, <2>5, <3>1, <3>2 DEF opVars, cacheVars
  <2> QED BY <2>1, <2>4, <2>5
<1>10. ASSUME NEW w \in Worker, DeleteRow(w) PROVE TypeOK' /\ Stages'
  BY <1>1, <1>10 DEF DeleteRow, DeleteByID
<1>11. ASSUME NEW w \in Worker, Fail(w) PROVE TypeOK' /\ Stages'
  BY <1>1, <1>11 DEF Fail, Forget
<1>12. CASE Crash
  <2>1. \A v \in Worker : todo'[v] \subseteq WritesNow(v)'
    BY <1>12 DEF Crash
  <2> QED BY <1>12, <2>1 DEF Crash, Forget
<1>13. CASE UNCHANGED vars
  <2>1. \A v \in Worker : todo'[v] \subseteq WritesNow(v)'
    BY <1>13 DEF vars, opVars, WritesNow
  <2> QED BY <1>13, <2>1 DEF vars, opVars, cacheVars
<1>14. ASSUME NEW e \in Entity, NewOwn(e) \/ NewShared(e) PROVE TypeOK' /\ Stages'
  BY <1>2, <1>14, NewIsNew
<1> QED BY <1>3, <1>5, <1>6, <1>7, <1>8, <1>9, <1>10, <1>11, <1>12, <1>13, <1>14 DEF Next

-----------------------------------------------------------------------------
(* The table of memberships. *)

\* A worker's step leaves the operations of the others as they are.
Alone(w) ==
  \A v \in Worker \ {w} :
    /\ WritesNow(v)' = WritesNow(v) /\ TakesOutNow(v)' = TakesOutNow(v)
    /\ next'[v] = next[v] /\ todo'[v] = todo[v]

\* An operation that is over writes and takes out nothing.
LEMMA ReturnFacts ==
  ASSUME TypeOK, NEW w \in Worker, Return(w)
  PROVE  Alone(w) /\ WritesNow(w)' = {} /\ TakesOutNow(w)' = {}
<1>1. op'[w] = "idle"
  BY DEF Return, TypeOK
<1>2. WritesNow(w)' = {} /\ TakesOutNow(w)' = {}
  BY <1>1, Meaning DEF WritesNow, TakesOutNow
<1>3. Alone(w)
  BY DEF Return, TypeOK, Alone, WritesNow, TakesOutNow
<1> QED BY <1>2, <1>3

LEMMA GotoFacts ==
  ASSUME TypeOK, NEW w \in Worker, UNCHANGED opVars,
         \A v \in Worker \ {w} : next'[v] = next[v] /\ todo'[v] = todo[v]
  PROVE  /\ Alone(w)
         /\ \A v \in Worker : WritesNow(v)' = WritesNow(v) /\ TakesOutNow(v)' = TakesOutNow(v)
BY DEF opVars, Alone, WritesNow, TakesOutNow

\* The end of an operation that has nothing left to do to the table.
LEMMA DoneKeeps ==
  ASSUME IInv, NEW w \in Worker, Return(w), UNCHANGED <<members, wanted, dropped>>,
         \A p \in Pair : ~Writing(w, p) /\ ~Taking(w, p)
  PROVE  WantedIsComing' /\ DroppedIsGoing'
<1> USE DEF IInv
<1>1. Alone(w) /\ WritesNow(w)' = {} /\ TakesOutNow(w)' = {}
  BY ReturnFacts
<1>2. wanted \subseteq Pair /\ dropped \subseteq Pair
  BY DEF TypeOK
<1>3. WantedIsComing'
  BY <1>1, <1>2 DEF WantedIsComing, Alone, Writing
<1>4. DroppedIsGoing'
  BY <1>1, <1>2 DEF DroppedIsGoing, Alone, Taking
<1> QED BY <1>3, <1>4

\* The first statement of an operation done, before those on memberships.
LEMMA RowKeeps ==
  ASSUME IInv, NEW w \in Worker, NEW st, Goto(w, st), UNCHANGED <<members, wanted, dropped>>,
         next[w] = "row", st = "clear" \/ op[w] = "save"
  PROVE  WantedIsComing' /\ DroppedIsGoing'
<1> USE DEF IInv
<1>1. /\ Alone(w)
      /\ \A v \in Worker : WritesNow(v)' = WritesNow(v) /\ TakesOutNow(v)' = TakesOutNow(v)
  BY GotoFacts DEF Goto, TypeOK
<1>2. todo' = todo /\ next'[w] = st
  BY DEF Goto, TypeOK
<1>3. op[w] = "save" => WritesNow(w) = {} /\ TakesOutNow(w) = {}
  BY Meaning DEF WritesNow, TakesOutNow
<1>4. WantedIsComing'
  BY <1>1, <1>2, <1>3 DEF WantedIsComing, Alone, Writing
<1>5. DroppedIsGoing'
  BY <1>1, <1>2, <1>3 DEF DroppedIsGoing, Alone, Taking
<1> QED BY <1>4, <1>5

LEMMA BeginKeeps ==
  ASSUME IInv, NEW w \in Worker, NEW e \in Entity, NEW o \in {"save", "update", "delete"},
         NEW s \in SUBSET Others(e), Begin(w, o, e, s)
  PROVE  WantedIsComing' /\ DroppedIsGoing'
<1> USE DEF IInv
<1>1. /\ Alone(w) /\ members' = members
      /\ WritesNow(w)' = Writes(o, e, s) /\ TakesOutNow(w)' = TakesOut(o, e, s)
      /\ next'[w] \in {"row", "clear"}
  BY DEF Begin, TypeOK, Alone, WritesNow, TakesOutNow
<1>2. WritesNow(w) = {} /\ TakesOutNow(w) = {}
  BY Meaning DEF Begin, WritesNow, TakesOutNow
<1>3. Writes(o, e, s) \intersect TakesOut(o, e, s) = {}
  BY Meaning
<1>4. ASSUME NEW p \in wanted'
      PROVE  /\ \A v \in Worker : p \notin TakesOutNow(v)'
             /\ members'[p] > 0 \/ \E v \in Worker : Writing(v, p)'
  <2>1. CASE p \in wanted /\ p \notin TakesOut(o, e, s)
    BY <1>1, <1>2, <2>1 DEF WantedIsComing, Alone, Writing
  <2>2. CASE p \in Writes(o, e, s) /\ \A v \in Worker : p \notin TakesOutNow(v)
    BY <1>1, <1>3, <2>2 DEF Alone, Writing
  <2> QED BY <2>1, <2>2 DEF Begin, Note
<1>5. ASSUME NEW p \in dropped'
      PROVE  /\ \A v \in Worker : p \notin WritesNow(v)'
             /\ members'[p] = 0 \/ \E v \in Worker : Taking(v, p)'
  <2>1. CASE p \in dropped /\ p \notin Writes(o, e, s)
    BY <1>1, <1>2, <2>1 DEF DroppedIsGoing, Alone, Taking
  <2>2. CASE p \in TakesOut(o, e, s) /\ \A v \in Worker : p \notin WritesNow(v)
    BY <1>1, <1>3, <2>2 DEF Alone, Taking
  <2> QED BY <2>1, <2>2 DEF Begin, Note
<1> QED BY <1>4, <1>5 DEF WantedIsComing, DroppedIsGoing

\* What a worker takes out of the table for a moment, it is about to write again.
LEMMA ClearKeeps ==
  ASSUME IInv, NEW w \in Worker, ClearPairs(w)
  PROVE  WantedIsComing' /\ DroppedIsGoing'
<1> USE DEF IInv
<1>1. /\ Alone(w) /\ next[w] = "clear" /\ todo'[w] = WritesNow(w)
      /\ \A v \in Worker : WritesNow(v)' = WritesNow(v) /\ TakesOutNow(v)' = TakesOutNow(v)
      /\ wanted' = wanted /\ dropped' = dropped
  <2>1. /\ next[w] = "clear" /\ todo' = [todo EXCEPT ![w] = WritesNow(w)]
        /\ UNCHANGED <<opVars, wanted, dropped>>
        /\ \A v \in Worker \ {w} : next'[v] = next[v]
    BY DEF ClearPairs, TypeOK
  <2> QED BY <2>1, GotoFacts DEF TypeOK
<1>2. \A p \in Pair : members'[p] = IF p \in WritesNow(w) \union TakesOutNow(w) THEN 0
                                     ELSE members[p]
  <2>1. members' = [p \in Pair |-> IF p \in PairsOf(target[w]) THEN 0 ELSE members[p]]
    BY DEF ClearPairs, DeletePairs
  <2>2. PairsOf(target[w]) = WritesNow(w) \union TakesOutNow(w)
    BY <1>1, ClearsOwnPairs
  <2> QED BY <2>1, <2>2
<1>3. wanted \subseteq Pair /\ dropped \subseteq Pair
  BY DEF TypeOK
<1>4. ASSUME NEW p \in wanted
      PROVE  members'[p] > 0 \/ \E v \in Worker : Writing(v, p)'
  <2>1. CASE p \in WritesNow(w)
    BY <1>1, <2>1 DEF Writing
  <2>2. CASE p \notin WritesNow(w)
    BY <1>1, <1>2, <1>3, <2>2 DEF WantedIsComing, Alone, Writing
  <2> QED BY <2>1, <2>2
<1>5. ASSUME NEW p \in dropped
      PROVE  members'[p] = 0 \/ \E v \in Worker : Taking(v, p)'
  <2>1. CASE p \in TakesOutNow(w)
    BY <1>2, <1>3, <2>1
  <2>2. CASE p \notin TakesOutNow(w)
    BY <1>1, <1>2, <1>3, <2>2 DEF DroppedIsGoing, Alone, Taking
  <2> QED BY <2>1, <2>2
<1> QED BY <1>1, <1>4, <1>5 DEF WantedIsComing, DroppedIsGoing

LEMMA WriteKeeps ==
  ASSUME IInv, NEW w \in Worker, WritePair(w)
  PROVE  WantedIsComing' /\ DroppedIsGoing'
<1> USE DEF IInv
<1>1. PICK q \in todo[w] :
        /\ CreatePair(q)
        /\ IF todo[w] = {q} THEN Return(w)
           ELSE todo' = [todo EXCEPT ![w] = @ \ {q}] /\ UNCHANGED <<opVars, next>>
  BY DEF WritePair
<1>2. next[w] = "pair" /\ wanted' = wanted /\ dropped' = dropped
  BY DEF WritePair
<1>3. q \in WritesNow(w) /\ q \in Pair
  BY Meaning DEF TypeOK, WritesNow
<1>4. /\ \A p \in Pair : members[p] \in Nat /\ members'[p] = IF p = q THEN members[p] + 1
                                                             ELSE members[p]
      /\ wanted \subseteq Pair /\ dropped \subseteq Pair
  BY <1>1 DEF CreatePair, TypeOK
<1>5. /\ Alone(w)
      /\ WritesNow(w)' \subseteq WritesNow(w) /\ TakesOutNow(w)' \subseteq TakesOutNow(w)
      /\ \A p \in todo[w] \ {q} : p \in todo'[w] /\ WritesNow(w)' = WritesNow(w)
  <2>1. CASE todo[w] = {q} /\ Return(w)
    BY <2>1, ReturnFacts
  <2>2. CASE todo' = [todo EXCEPT ![w] = @ \ {q}] /\ UNCHANGED <<opVars, next>>
    <3>1. \A v \in Worker \ {w} : next'[v] = next[v] /\ todo'[v] = todo[v]
      BY <2>2 DEF TypeOK
    <3>2. todo'[w] = todo[w] \ {q}
      BY <2>2 DEF TypeOK
    <3> QED BY <2>2, <3>1, <3>2, GotoFacts
  <2> QED BY <1>1, <2>1, <2>2
<1>6. ASSUME NEW p \in wanted
      PROVE  /\ \A v \in Worker : p \notin TakesOutNow(v)'
             /\ members'[p] > 0 \/ \E v \in Worker : Writing(v, p)'
  <2>1. \A v \in Worker : p \notin TakesOutNow(v)'
    BY <1>5 DEF WantedIsComing, Alone
  <2>2. members[p] > 0 => members'[p] > 0
    BY <1>4
  <2>3. p = q => members'[p] > 0
    BY <1>4
  <2>4. ASSUME NEW v \in Worker, Writing(v, p), p # q PROVE Writing(v, p)'
    BY <1>2, <1>5, <2>4 DEF Alone, Writing
  <2> QED BY <2>1, <2>2, <2>3, <2>4 DEF WantedIsComing
<1>7. ASSUME NEW p \in dropped
      PROVE  /\ \A v \in Worker : p \notin WritesNow(v)'
             /\ members'[p] = 0 \/ \E v \in Worker : Taking(v, p)'
  <2>1. p # q /\ members'[p] = members[p]
    BY <1>3, <1>4 DEF DroppedIsGoing
  <2>2. ASSUME NEW v \in Worker, Taking(v, p) PROVE Taking(v, p)'
    BY <1>2, <1>5, <2>2 DEF Alone, Taking
  <2> QED BY <1>5, <2>1, <2>2 DEF DroppedIsGoing, Alone
<1> QED BY <1>2, <1>6, <1>7 DEF WantedIsComing, DroppedIsGoing

\* After a failure nothing is said of the memberships the operation was about.
LEMMA FailKeeps ==
  ASSUME IInv, NEW w \in Worker, Fail(w)
  PROVE  WantedIsComing' /\ DroppedIsGoing'
<1> USE DEF IInv
<1>1. Alone(w) /\ WritesNow(w)' = {} /\ TakesOutNow(w)' = {} /\ members' = members
  BY ReturnFacts DEF Fail
<1>2. /\ wanted' = wanted \ (WritesNow(w) \union TakesOutNow(w))
      /\ dropped' = dropped \ (WritesNow(w) \union TakesOutNow(w))
  BY DEF Fail, Forget
<1>3. WantedIsComing'
  BY <1>1, <1>2 DEF WantedIsComing, Alone, Writing
<1>4. DroppedIsGoing'
  BY <1>1, <1>2 DEF DroppedIsGoing, Alone, Taking
<1> QED BY <1>3, <1>4

LEMMA CrashKeeps ==
  ASSUME IInv, Crash
  PROVE  WantedIsComing' /\ DroppedIsGoing'
<1> USE DEF IInv
<1>1. /\ \A v \in Worker : WritesNow(v)' = {} /\ TakesOutNow(v)' = {}
      /\ members' = members
  BY Meaning DEF Crash, WritesNow, TakesOutNow
<1>2. /\ \A p \in wanted' : p \in wanted /\ \A v \in Worker : p \notin WritesNow(v)
      /\ \A p \in dropped' : p \in dropped /\ \A v \in Worker : p \notin TakesOutNow(v)
  BY DEF Crash, Forget
<1> QED BY <1>1, <1>2 DEF WantedIsComing, DroppedIsGoing, Writing, Taking

LEMMA TableStep == IInv /\ [Next]_vars => WantedIsComing' /\ DroppedIsGoing'
<1> SUFFICES ASSUME IInv, [Next]_vars PROVE WantedIsComing' /\ DroppedIsGoing'
  OBVIOUS
<1> DEFINE Kept == WantedIsComing' /\ DroppedIsGoing'
<1>1. ASSUME UNCHANGED <<opVars, next, todo, members, wanted, dropped>> PROVE Kept
  <2>1. \A v \in Worker : WritesNow(v)' = WritesNow(v) /\ TakesOutNow(v)' = TakesOutNow(v)
    BY <1>1 DEF opVars, WritesNow, TakesOutNow
  <2> QED BY <1>1, <2>1 DEF IInv, WantedIsComing, DroppedIsGoing, Writing, Taking
<1>2. ASSUME NEW w \in Worker, op[w] \in {"save", "delete"} \/ set[w] = {}
      PROVE  \A p \in Pair : ~Writing(w, p)
  BY <1>2, Meaning DEF IInv, TypeOK, Writing, WritesNow
<1>3. ASSUME NEW w \in Worker, op[w] = "save" \/ next[w] \in {"pair", "last"}
                               \/ (op[w] = "update" /\ set[w] = {})
      PROVE  \A p \in Pair : ~Taking(w, p)
  BY <1>3, Meaning DEF Taking, TakesOutNow
<1>4. ASSUME NEW w \in Worker, SaveRow(w) PROVE Kept
  BY <1>2, <1>3, <1>4, DoneKeeps, RowKeeps DEF SaveRow
<1>5. ASSUME NEW w \in Worker, SavePair(w) PROVE Kept
  BY <1>2, <1>3, <1>5, DoneKeeps DEF SavePair
<1>6. ASSUME NEW w \in Worker, UpdateRow(w) PROVE Kept
  BY <1>2, <1>3, <1>6, DoneKeeps, RowKeeps DEF UpdateRow
<1>7. ASSUME NEW w \in Worker, DeleteRow(w) PROVE Kept
  BY <1>2, <1>3, <1>7, DoneKeeps DEF DeleteRow
<1>8. ASSUME NEW e \in Entity, NewOwn(e) \/ NewShared(e)
      PROVE  Kept
  BY <1>1, <1>8 DEF NewOwn, NewShared, New
<1> HIDE DEF Kept
<1>9. ASSUME NEW w \in Worker,
             \/ ClearPairs(w) \/ WritePair(w) \/ Fail(w)
             \/ \E e \in Entity, o \in {"save", "update", "delete"} :
                  \E s \in SUBSET Others(e) : Begin(w, o, e, s)
      PROVE  Kept
  BY <1>9, ClearKeeps, WriteKeeps, FailKeeps, BeginKeeps DEF Kept
<1>10. Crash => Kept
  BY CrashKeeps DEF Kept
<1>11. UNCHANGED vars => Kept
  BY <1>1 DEF vars
<1> QED
  <2>1. Kept
    BY <1>4, <1>5, <1>6, <1>7, <1>8, <1>9, <1>10, <1>11 DEF Next
  <2> QED BY <2>1 DEF Kept

LEMMA Invariant == Spec => []IInv
<1>1. Init => IInv
  <2> SUFFICES ASSUME Init PROVE IInv
    OBVIOUS
  <2>1. \A v \in Worker : WritesNow(v) = {} /\ TakesOutNow(v) = {}
    BY Meaning DEF Init, WritesNow, TakesOutNow
  <2> QED BY <2>1, SidesAssumption
          DEF Init, IInv, TypeOK, Stages, WantedIsComing, DroppedIsGoing
<1>2. IInv /\ [Next]_vars => IInv'
  BY TypeStep, TableStep DEF IInv
<1> QED BY <1>1, <1>2, PTL DEF Spec

\* Every variable has its type, for any number of users, groups and goroutines.
THEOREM TypeCorrect == Spec => []TypeOK
<1>1. IInv => TypeOK
  BY DEF IInv
<1> QED BY <1>1, Invariant, PTL

\* Update deletes and writes again outside a transaction: in whatever order its statements
\* come between those of others, a membership that the operations agree on is there in
\* the end.
THEOREM AgreedStays == Spec => []AgreedIsKept
<1>1. IInv => AgreedIsKept
  BY DEF IInv, WantedIsComing, AgreedIsKept, Quiet, Writing
<1> QED BY <1>1, Invariant, PTL

\* A membership that the operations agree to take out is out in the end.
THEOREM DroppedGoes == Spec => []DroppedIsGone
<1>1. IInv => DroppedIsGone
  BY DEF IInv, DroppedIsGoing, DroppedIsGone, Quiet, Taking
<1> QED BY <1>1, Invariant, PTL

-----------------------------------------------------------------------------
(* Copies of a membership. *)

\* The operations that are going to write the pair once more.
Writers(p) == {w \in Worker : p \in todo[w]}

\* With what is still to be written, a membership has at most a copy for each goroutine.
CopiesToCome == \A p \in Pair : members[p] + Cardinality(Writers(p)) <= Cardinality(Worker)

LEMMA WritersFinite ==
  ASSUME NEW p, NEW set1 \in SUBSET Writers(p)
  PROVE  /\ IsFiniteSet(Writers(p)) /\ Cardinality(Writers(p)) \in Nat
         /\ Cardinality(set1) \in Nat /\ Cardinality(set1) <= Cardinality(Writers(p))
         /\ Cardinality(Worker) \in Nat /\ Cardinality(Writers(p)) <= Cardinality(Worker)
<1>1. IsFiniteSet(Worker) /\ Writers(p) \subseteq Worker
  BY SidesAssumption DEF Writers
<1>2. IsFiniteSet(Writers(p)) /\ Cardinality(Writers(p)) <= Cardinality(Worker)
  BY <1>1, FS_Subset
<1>3. IsFiniteSet(set1) /\ Cardinality(set1) <= Cardinality(Writers(p))
  BY <1>2, FS_Subset
<1> QED BY <1>1, <1>2, <1>3, FS_CardinalityType

\* Fewer are to write it, and no copy has been added.
LEMMA FewerWriters ==
  ASSUME CopiesToCome, NEW p \in Pair, members[p] \in Nat, members'[p] \in Nat,
         members'[p] <= members[p], Writers(p)' \subseteq Writers(p)
  PROVE  members'[p] + Cardinality(Writers(p)') <= Cardinality(Worker)
<1> DEFINE now == Writers(p)'
<1>1. Cardinality(now) \in Nat /\ Cardinality(now) <= Cardinality(Writers(p))
  BY WritersFinite
<1>2. Cardinality(Writers(p)) \in Nat /\ Cardinality(Worker) \in Nat
  BY WritersFinite
<1>3. members[p] + Cardinality(Writers(p)) <= Cardinality(Worker)
  BY DEF CopiesToCome
<1> HIDE DEF now
<1>4. members'[p] + Cardinality(now) <= Cardinality(Worker)
  BY <1>1, <1>2, <1>3
<1> QED BY <1>4 DEF now

LEMMA CopiesStep == IInv /\ CopiesToCome /\ [Next]_vars => CopiesToCome'
<1> SUFFICES ASSUME IInv, CopiesToCome, [Next]_vars, NEW p \in Pair
             PROVE  members'[p] + Cardinality(Writers(p)') <= Cardinality(Worker)
  BY DEF CopiesToCome
<1>1. TypeOK /\ members[p] \in Nat
  BY DEF IInv, TypeOK
<1> DEFINE Kept == members'[p] + Cardinality(Writers(p)') <= Cardinality(Worker)
<1>2. ASSUME members'[p] = members[p], Writers(p)' \subseteq Writers(p) PROVE Kept
  BY <1>1, <1>2, FewerWriters
<1>3. ASSUME NEW w \in Worker, Return(w), UNCHANGED members PROVE Kept
  BY <1>1, <1>2, <1>3 DEF Return, Writers, TypeOK
<1>4. ASSUME UNCHANGED <<members, todo>> PROVE Kept
  BY <1>2, <1>4 DEF Writers
<1>5. ASSUME NEW w \in Worker, ClearPairs(w) PROVE Kept
  <2>1. /\ members' = [q \in Pair |-> IF q \in PairsOf(target[w]) THEN 0 ELSE members[q]]
        /\ todo' = [todo EXCEPT ![w] = WritesNow(w)]
    BY <1>5 DEF ClearPairs, DeletePairs
  <2>2. CASE p \in PairsOf(target[w])
    <3>1. members'[p] = 0
      BY <2>1, <2>2
    <3>2. Writers(p)' \subseteq Worker
      BY DEF Writers
    <3>3. Cardinality(Writers(p)') \in Nat /\ Cardinality(Writers(p)') <= Cardinality(Worker)
      BY <3>2, SidesAssumption, FS_Subset, FS_CardinalityType
    <3> QED BY <3>1, <3>3
  <2>3. CASE p \notin PairsOf(target[w])
    <3>1. p \notin WritesNow(w)
      BY <2>3 DEF WritesNow, Writes, PairsWith
    <3>2. Writers(p)' \subseteq Writers(p)
      BY <1>1, <2>1, <3>1 DEF Writers, TypeOK
    <3> QED BY <1>2, <2>1, <2>3, <3>2
  <2> QED BY <2>2, <2>3
<1>6. ASSUME NEW w \in Worker, WritePair(w) PROVE Kept
  <2>1. PICK q \in todo[w] :
          /\ CreatePair(q)
          /\ IF todo[w] = {q} THEN Return(w)
             ELSE todo' = [todo EXCEPT ![w] = @ \ {q}] /\ UNCHANGED <<opVars, next>>
    BY <1>6 DEF WritePair
  <2>2. members' = [members EXCEPT ![q] = @ + 1]
    BY <2>1 DEF CreatePair
  <2>3. Writers(p)' \subseteq Writers(p) /\ (p = q => w \notin Writers(p)')
    <3>1. CASE Return(w)
      BY <1>1, <3>1 DEF Return, Writers, TypeOK
    <3>2. CASE todo' = [todo EXCEPT ![w] = @ \ {q}]
      BY <1>1, <3>2 DEF Writers, TypeOK
    <3> QED BY <2>1, <3>1, <3>2
  <2>4. CASE p # q
    BY <1>1, <1>2, <2>2, <2>3, <2>4 DEF TypeOK
  <2>5. CASE p = q
    <3> DEFINE now == Writers(p)'
    <3>1. w \in Writers(p) /\ now \subseteq Writers(p) \ {w}
      BY <2>1, <2>3, <2>5 DEF Writers
    <3>2. /\ Cardinality(Writers(p) \ {w}) = Cardinality(Writers(p)) - 1
          /\ IsFiniteSet(Writers(p) \ {w}) /\ Cardinality(Writers(p)) \in Nat
          /\ Cardinality(Worker) \in Nat
      BY <3>1, WritersFinite, FS_RemoveElement, FS_Subset
    <3> HIDE DEF now
    <3>3. Cardinality(now) \in Nat /\ Cardinality(now) <= Cardinality(Writers(p)) - 1
      BY <3>1, <3>2, FS_Subset, FS_CardinalityType
    <3>4. members'[p] = members[p] + 1
      BY <1>1, <2>2, <2>5 DEF TypeOK
    <3>5. members[p] + Cardinality(Writers(p)) <= Cardinality(Worker)
      BY DEF CopiesToCome
    <3>6. members'[p] + Cardinality(now) <= Cardinality(Worker)
      BY <1>1, <3>2, <3>3, <3>4, <3>5
    <3> QED BY <3>6 DEF now
  <2> QED BY <2>4, <2>5
<1>7. ASSUME Crash PROVE Kept
  BY <1>2, <1>7 DEF Crash, Writers
<1>8. ASSUME NEW w \in Worker,
             \/ SaveRow(w) \/ SavePair(w) \/ UpdateRow(w) \/ DeleteRow(w) \/ Fail(w)
      PROVE  Kept
  BY <1>3, <1>4, <1>8 DEF SaveRow, SavePair, UpdateRow, DeleteRow, Fail, Goto
<1>9. ASSUME NEW w \in Worker, NEW e, NEW o, NEW s, Begin(w, o, e, s) PROVE Kept
  BY <1>4, <1>9 DEF Begin
<1>10. ASSUME NEW e \in Entity, NewOwn(e) \/ NewShared(e) PROVE Kept
  BY <1>4, <1>10 DEF NewOwn, NewShared, New
<1>11. UNCHANGED vars => Kept
  BY <1>4 DEF vars
<1> HIDE DEF Kept
<1>12. Kept
  BY <1>5, <1>6, <1>7, <1>8, <1>9, <1>10, <1>11 DEF Next
<1> QED BY <1>12 DEF Kept

\* Updates that run into each other write a membership more than once, but leave at most
\* one copy for each goroutine.
THEOREM CopiesStayBounded == Spec => []CopiesBounded
<1>1. Init => CopiesToCome
  <2> SUFFICES ASSUME Init, NEW p \in Pair
               PROVE  members[p] + Cardinality(Writers(p)) <= Cardinality(Worker)
    BY DEF CopiesToCome
  <2>1. members[p] = 0
    BY DEF Init
  <2> QED BY <2>1, WritersFinite
<1>2. IInv /\ CopiesToCome => CopiesBounded
  <2> SUFFICES ASSUME IInv, CopiesToCome, NEW p \in Pair
               PROVE  members[p] <= Cardinality(Worker)
    BY DEF CopiesBounded
  <2>1. members[p] \in Nat
    BY DEF IInv, TypeOK
  <2>2. members[p] + Cardinality(Writers(p)) <= Cardinality(Worker)
    BY DEF CopiesToCome
  <2>3. Cardinality(Writers(p)) \in Nat /\ Cardinality(Worker) \in Nat
    BY WritersFinite
  <2> QED BY <2>1, <2>2, <2>3
<1> QED BY <1>1, <1>2, CopiesStep, Invariant, PTL DEF Spec

-----------------------------------------------------------------------------
(* The cache. *)

\* Sets in the cache hold IDs that have been drawn, so a new object is in none of them; and
\* a set that is held was made with an object that is in the cache.
CacheInv == /\ LinksAreMutual
            /\ \A h \in Entity : sets[h] \subseteq created
            /\ \A e \in cached : holds[e] \in cached

\* A new object that gets the set h, whose IDs are s: it is a new set for it alone, or the one
\* that an object in the cache has.
LEMMA NewKeepsLinks ==
  ASSUME TypeOK, CacheInv, NEW e \in Entity, NEW h \in Entity, NEW s \in SUBSET created,
         New(e, h, s),
         \/ h = e
         \/ \E f \in cached : h = holds[f] /\ s = sets[h]
  PROVE  CacheInv'
<1> USE DEF TypeOK, CacheInv, Links
<1>1. /\ e \notin created /\ created' = created \union {e} /\ cached' = cached \union {e}
      /\ holds'[e] = h /\ \A a \in Entity \ {e} : holds'[a] = holds[a]
  BY DEF New
<1> DEFINE told == {holds[f] : f \in s \intersect Others(e) \intersect cached}
<1>2. \A k \in Entity : sets'[k] = (IF k = h THEN s ELSE sets[k])
                                  \union (IF k \in told THEN {e} ELSE {})
  BY DEF New, NewSets
<1>3. \A a \in cached : a # e /\ a \in Entity /\ holds[a] # e /\ holds'[a] = holds[a]
  BY <1>1
<1>4. \A a \in cached : Links(a) \subseteq Links(a)'
  BY <1>1, <1>2, <1>3
<1>5. \A k \in Entity : sets'[k] \subseteq created'
  BY <1>1, <1>2
<1>6. \A a \in cached' : holds'[a] \in cached'
  BY <1>1, <1>3
<1>7. ASSUME NEW a \in cached', Own(a)', NEW b \in Links(a)' \intersect Others(a) \intersect cached'
      PROVE  a \in Links(b)'
  <2>1. CASE a = e
    <3>1. h = e
      <4>1. ASSUME NEW f \in cached, h = holds[f] PROVE FALSE
        BY <1>1, <1>3, <1>7, <2>1, <4>1 DEF Own
      <4> QED BY <4>1
    <3>2. e \notin told
      BY <1>3
    <3>3. Links(a)' = s
      <4>1. sets'[e] = s
        <5> HIDE DEF told
        <5> QED BY <1>2, <3>1, <3>2
      <4>2. holds'[a] = e
        BY <1>1, <2>1, <3>1
      <4> QED BY <4>1, <4>2
    <3>4. b \in cached /\ b \in s
      BY <1>1, <1>7, <3>3
    <3>5. holds[b] \in told /\ holds'[b] = holds[b] /\ holds[b] \in Entity
      BY <1>3, <1>7, <2>1, <3>4
    <3> QED BY <1>2, <2>1, <3>5
  <2>2. CASE a # e
    <3>1. a \in cached /\ a \in Entity /\ Own(a) /\ holds'[a] = holds[a] /\ holds[a] # h
      BY <1>1, <1>3, <1>7, <2>2 DEF Own
    <3>2. CASE b \in Links(a)
      <4>1. b \in cached
        BY <1>1, <1>7, <3>1, <3>2
      <4>2. a \in Links(b)
        BY <1>7, <3>1, <3>2, <4>1 DEF LinksAreMutual
      <4> QED BY <1>4, <4>1, <4>2
    <3>3. CASE b \notin Links(a)
      <4>1. b = e /\ holds[a] \in told
        BY <1>2, <1>7, <3>1, <3>3
      <4>2. PICK f \in s \intersect Others(e) \intersect cached : holds[f] = holds[a]
        BY <4>1
      <4>3. a \in s
        BY <3>1, <4>2 DEF Own
      <4> QED BY <1>1, <1>2, <4>1, <4>3
    <3> QED BY <3>2, <3>3
  <2> QED BY <2>1, <2>2
<1> QED BY <1>5, <1>6, <1>7 DEF LinksAreMutual

LEMMA CacheStep == TypeOK /\ CacheInv /\ [Next]_vars => CacheInv'
<1> SUFFICES ASSUME TypeOK, CacheInv, [Next]_vars PROVE CacheInv'
  OBVIOUS
<1>1. ASSUME UNCHANGED cacheVars PROVE CacheInv'
  BY <1>1 DEF cacheVars, CacheInv, LinksAreMutual, Own, Links
<1>2. ASSUME NEW e \in Entity, NewOwn(e) PROVE CacheInv'
  BY <1>2, NewKeepsLinks DEF NewOwn
<1>3. ASSUME NEW e \in Entity, NewShared(e) PROVE CacheInv'
  <2>1. PICK f \in cached : New(e, holds[f], Links(f))
    BY <1>3 DEF NewShared
  <2>2. holds[f] \in Entity /\ Links(f) \in SUBSET created /\ Links(f) = sets[holds[f]]
    BY DEF TypeOK, CacheInv, Links
  <2> QED BY <2>1, <2>2, NewKeepsLinks
<1>4. CASE Crash
  BY <1>4 DEF Crash, CacheInv, LinksAreMutual
<1>5. ASSUME NEW w \in Worker, NEW o, NEW e, NEW s, Begin(w, o, e, s) PROVE CacheInv'
  BY <1>1, <1>5 DEF Begin
<1>6. ASSUME NEW w \in Worker,
             \/ SaveRow(w) \/ SavePair(w) \/ UpdateRow(w) \/ ClearPairs(w)
             \/ WritePair(w) \/ DeleteRow(w) \/ Fail(w)
      PROVE  CacheInv'
  BY <1>1, <1>6 DEF SaveRow, SavePair, UpdateRow, ClearPairs, WritePair, DeleteRow, Fail
<1>7. UNCHANGED vars => CacheInv'
  BY <1>1 DEF vars
<1> QED BY <1>2, <1>3, <1>4, <1>5, <1>6, <1>7 DEF Next

\* In the cache both sides of a membership say the same, whatever is made in whatever order,
\* where an object has its set for itself.
THEOREM CacheStaysMutual == Spec => []LinksAreMutual
<1>1. Init => CacheInv
  BY DEF Init, CacheInv, LinksAreMutual
<1>2. CacheInv => LinksAreMutual
  BY DEF CacheInv
<1> QED BY <1>1, <1>2, CacheStep, TypeCorrect, PTL DEF Spec
=============================================================================
