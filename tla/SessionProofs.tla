---------------------------- MODULE SessionProofs ----------------------------
(***************************************************************************)
(* Proofs about the sessions of the web server: types, and that a session  *)
(* in use stays intact, for every number of sessions, browsers, requests   *)
(* and seconds.                                                            *)
(***************************************************************************)
EXTENDS Session, TLAPS

\* A request holds an object only once it has read or made its session, and the map holds
\* only objects that have been made.
ObjectsMade == /\ \A r \in Request : pc[r] \notin {"update", "handler"} => obj[r] = 0
               /\ \A id \in ID : store[id] <= made[id]

\* A cookie, and a request that came with one, name a session that has been made.
CookiesMade ==
  /\ \A b \in Browser : \A id \in ID : jar[b] = Escape(id) => made[id] >= 1
  /\ \A r \in Request : pc[r] \notin {"idle", "cookie"} => made[sid[r]] >= 1

\* What the collector may take, and what Read may make a second time, is a session that
\* has ended, or whose lifetime has passed within a visit.
EndedMarked ==
  /\ \A id \in ID : store[id] # 0 /\ age[id] > MaxLife => fate[id] = "ended"
  /\ gcLook # None /\ gcAge > MaxLife => fate[gcLook] # "sound"
  /\ \A id \in victims : fate[id] # "sound"
  /\ \A r \in Request : pc[r] = "init" => fate[sid[r]] # "sound"

\* The inductive invariant.
IInv == TypeOK /\ ObjectsMade /\ CookiesMade /\ EndedMarked /\ UsedSessionIntact

-----------------------------------------------------------------------------

\* Escaping an ID and taking it back gives the ID; an escaped ID is no ID and not absent.
LEMMA EscapeBack ==
  /\ \A id \in ID : Unescape(Escape(id)) = id /\ Escape(id) \notin ID /\ Escape(id) # None
  /\ \A c \in CookieValue : Unescape(c) \in ID /\ c = Escape(Unescape(c))
BY EscapeAssumption DEF CookieValue, Escape, Unescape

\* Logging out leaves the map as it is: an escaped ID is not in it.
LEMMA DestroyKeepsMap ==
  ASSUME TypeOK, NEW id \in ID, DestroyKey(Escape(id))
  PROVE  store' = store /\ age' = age
<1>1. \A i \in ID : i # Escape(id)
  BY EscapeBack
<1>2. store' = [i \in ID |-> store[i]] /\ age' = [i \in ID |-> age[i]]
  BY <1>1 DEF DestroyKey
<1> QED BY <1>2 DEF TypeOK

\* Every step keeps the types.
LEMMA TypeStep == TypeOK /\ ObjectsMade /\ [Next]_vars => TypeOK'
<1> SUFFICES ASSUME TypeOK, ObjectsMade, [Next]_vars PROVE TypeOK'
  OBVIOUS
<1> USE LifeAssumption, NoneAssumption, EscapeAssumption DEF Object
<1>1. ASSUME NEW r \in Request, NEW b \in Browser, Arrive(r, b) PROVE TypeOK'
  BY <1>1, EscapeBack DEF Arrive, TypeOK, ObjectsMade, gcVars, StepTo
<1>2. ASSUME NEW r \in Request, Check(r) PROVE TypeOK'
  <2> UNCHANGED <<store, made, age, jar, gcVars, fate>> /\ pc[r] = "check"
    BY <1>2 DEF Check
  <2>1. CASE StepTo(r, "read") /\ UNCHANGED <<browser, sid, obj, setCookie>>
    BY <2>1 DEF TypeOK, ObjectsMade, gcVars, StepTo
  <2>2. CASE Free(r) /\ UNCHANGED lag
    BY <2>2 DEF Free, TypeOK, ObjectsMade, gcVars
  <2>3. CASE StepTo(r, "cookie") /\ UNCHANGED <<browser, sid, obj, setCookie>>
    BY <2>3 DEF TypeOK, ObjectsMade, gcVars, StepTo
  <2> QED BY <1>2, <2>1, <2>2, <2>3 DEF Check
<1>3. ASSUME NEW r \in Request, Read(r) PROVE TypeOK'
  BY <1>3 DEF Read, TypeOK, ObjectsMade, gcVars, StepTo
<1>4. ASSUME NEW r \in Request, ReadInit(r) PROVE TypeOK'
  BY <1>4 DEF ReadInit, InitSession, Stamp, TypeOK, gcVars, StepTo
<1>5. ASSUME NEW r \in Request, Update(r) PROVE TypeOK'
  BY <1>5 DEF Update, Stamp, TypeOK, gcVars, StepTo
<1>6. ASSUME NEW r \in Request, NewCookie(r) PROVE TypeOK'
  BY <1>6 DEF NewCookie, InitSession, Stamp, TypeOK, ObjectsMade, gcVars, StepTo
<1>7. ASSUME NEW r \in Request, Finish(r) PROVE TypeOK'
  BY <1>7 DEF Finish, Free, TypeOK, gcVars, CookieValue
<1>8. ASSUME NEW r \in Request, Renew(r) PROVE TypeOK'
  BY <1>8 DEF Renew, Stamp, TypeOK, reqVars, gcVars, StepTo
<1>9. ASSUME NEW r \in Request, Destroy(r) PROVE TypeOK'
  BY <1>9, DestroyKeepsMap DEF Destroy, TypeOK, gcVars, StepTo
<1>10. CASE Collect
  BY <1>10 DEF Collect, GCStart, GCLook, GCCompare, GCScanned, GCDelete, GCRearm, DestroyKey, TypeOK,
               reqVars
<1>11. CASE Tick
  BY <1>11 DEF Tick, Older, Stamping, TypeOK, reqVars, gcVars
<1>12. ASSUME NEW b \in Browser, Forget(b) PROVE TypeOK'
  BY <1>12 DEF Forget, TypeOK, reqVars, gcVars
<1>13. CASE UNCHANGED vars
  BY <1>13 DEF vars, reqVars, gcVars, TypeOK
<1> QED
  BY <1>1, <1>2, <1>3, <1>4, <1>5, <1>6, <1>7, <1>8, <1>9, <1>10, <1>11, <1>12, <1>13
  DEF Next, Serve

\* Every step keeps ObjectsMade.
LEMMA ObjectsStep == TypeOK /\ ObjectsMade /\ [Next]_vars => ObjectsMade'
<1> SUFFICES ASSUME TypeOK, ObjectsMade, [Next]_vars PROVE ObjectsMade'
  OBVIOUS
<1> USE LifeAssumption, NoneAssumption DEF TypeOK, ObjectsMade, Object
<1>1. ASSUME NEW r \in Request, NEW b \in Browser, Arrive(r, b) PROVE ObjectsMade'
  BY <1>1 DEF Arrive, gcVars, StepTo
<1>2. ASSUME NEW r \in Request, Check(r) PROVE ObjectsMade'
  BY <1>2 DEF Check, Free, gcVars, StepTo
<1>3. ASSUME NEW r \in Request, Read(r) PROVE ObjectsMade'
  BY <1>3 DEF Read, gcVars, StepTo
<1>4. ASSUME NEW r \in Request, ReadInit(r) PROVE ObjectsMade'
  BY <1>4 DEF ReadInit, InitSession, Stamp, gcVars, StepTo
<1>5. ASSUME NEW r \in Request, Update(r) PROVE ObjectsMade'
  BY <1>5 DEF Update, Stamp, gcVars, StepTo
<1>6. ASSUME NEW r \in Request, NewCookie(r) PROVE ObjectsMade'
  BY <1>6 DEF NewCookie, InitSession, Stamp, gcVars, StepTo
<1>7. ASSUME NEW r \in Request, Finish(r) PROVE ObjectsMade'
  BY <1>7 DEF Finish, Free, gcVars
<1>8. ASSUME NEW r \in Request, Renew(r) PROVE ObjectsMade'
  BY <1>8 DEF Renew, Stamp, reqVars, gcVars, StepTo
<1>9. ASSUME NEW r \in Request, Destroy(r) PROVE ObjectsMade'
  BY <1>9, DestroyKeepsMap DEF Destroy, gcVars, StepTo
<1>10. CASE Collect
  BY <1>10 DEF Collect, GCStart, GCLook, GCCompare, GCScanned, GCDelete, GCRearm, DestroyKey,
               Expired, reqVars
<1>11. CASE Tick
  BY <1>11 DEF Tick, Older, Stamping, reqVars, gcVars
<1>12. ASSUME NEW b \in Browser, Forget(b) PROVE ObjectsMade'
  BY <1>12 DEF Forget, reqVars, gcVars
<1>13. CASE UNCHANGED vars
  BY <1>13 DEF vars, reqVars, gcVars
<1> QED
  BY <1>1, <1>2, <1>3, <1>4, <1>5, <1>6, <1>7, <1>8, <1>9, <1>10, <1>11, <1>12, <1>13
  DEF Next, Serve

\* Every step keeps CookiesMade: a cookie is only set to the ID of a session just made.
LEMMA CookiesStep == TypeOK /\ CookiesMade /\ [Next]_vars => CookiesMade'
<1> SUFFICES ASSUME TypeOK, CookiesMade, [Next]_vars PROVE CookiesMade'
  OBVIOUS
<1> USE LifeAssumption, NoneAssumption DEF TypeOK, CookiesMade, Object
<1>1. ASSUME NEW r \in Request, NEW b \in Browser, Arrive(r, b) PROVE CookiesMade'
  BY <1>1, EscapeBack DEF Arrive, gcVars, StepTo
<1>2. ASSUME NEW r \in Request, Check(r) PROVE CookiesMade'
  BY <1>2 DEF Check, Free, gcVars, StepTo
<1>3. ASSUME NEW r \in Request, Read(r) PROVE CookiesMade'
  BY <1>3 DEF Read, gcVars, StepTo
<1>4. ASSUME NEW r \in Request, ReadInit(r) PROVE CookiesMade'
  BY <1>4 DEF ReadInit, InitSession, Stamp, gcVars, StepTo
<1>5. ASSUME NEW r \in Request, Update(r) PROVE CookiesMade'
  BY <1>5 DEF Update, Stamp, gcVars, StepTo
<1>6. ASSUME NEW r \in Request, NewCookie(r) PROVE CookiesMade'
  BY <1>6, EscapeBack DEF NewCookie, InitSession, Stamp, gcVars, StepTo
<1>7. ASSUME NEW r \in Request, Finish(r) PROVE CookiesMade'
  <2>1. sid[r] \in ID /\ made[sid[r]] >= 1 /\ made' = made
    BY <1>7 DEF Finish
  <2>2. ASSUME NEW b \in Browser, NEW id \in ID, jar'[b] = Escape(id) PROVE made[id] >= 1
    <3>1. CASE jar[b] = Escape(id)
      BY <3>1
    <3>2. CASE jar[b] # Escape(id)
      <4>1. jar'[b] = Escape(sid[r])
        BY <1>7, <2>2, <3>2, EscapeBack DEF Finish
      <4> QED BY <2>1, <2>2, <4>1, EscapeBack
    <3> QED BY <3>1, <3>2
  <2>3. ASSUME NEW q \in Request, pc'[q] \notin {"idle", "cookie"} PROVE made[sid'[q]] >= 1
    BY <1>7, <2>3 DEF Finish, Free
  <2> QED BY <2>1, <2>2, <2>3
<1>8. ASSUME NEW r \in Request, Renew(r) PROVE CookiesMade'
  BY <1>8 DEF Renew, Stamp, reqVars, gcVars, StepTo
<1>9. ASSUME NEW r \in Request, Destroy(r) PROVE CookiesMade'
  BY <1>9, DestroyKeepsMap DEF Destroy, gcVars, StepTo
<1>10. CASE Collect
  BY <1>10 DEF Collect, GCStart, GCLook, GCCompare, GCScanned, GCDelete, GCRearm, DestroyKey,
               Expired, reqVars
<1>11. CASE Tick
  BY <1>11 DEF Tick, Older, Stamping, reqVars, gcVars
<1>12. ASSUME NEW b \in Browser, Forget(b) PROVE CookiesMade'
  BY <1>12, EscapeBack DEF Forget, reqVars, gcVars
<1>13. CASE UNCHANGED vars
  BY <1>13 DEF vars, reqVars, gcVars
<1> QED
  BY <1>1, <1>2, <1>3, <1>4, <1>5, <1>6, <1>7, <1>8, <1>9, <1>10, <1>11, <1>12, <1>13
  DEF Next, Serve

\* Every step keeps EndedMarked: a session is past its lifetime only when ended, and noted or
\* gone only when ended or late.
LEMMA EndedStep == IInv /\ [Next]_vars => EndedMarked'
<1> SUFFICES ASSUME IInv, [Next]_vars PROVE EndedMarked'
  OBVIOUS
<1> USE LifeAssumption, NoneAssumption
    DEF IInv, TypeOK, ObjectsMade, CookiesMade, EndedMarked, UsedSessionIntact, Object
<1>1. ASSUME NEW r \in Request, NEW b \in Browser, Arrive(r, b) PROVE EndedMarked'
  BY <1>1 DEF Arrive, gcVars, StepTo
<1>2. ASSUME NEW r \in Request, Check(r) PROVE EndedMarked'
  BY <1>2 DEF Check, Free, gcVars, StepTo
<1>3. ASSUME NEW r \in Request, Read(r) PROVE EndedMarked'
  BY <1>3 DEF Read, gcVars, StepTo
<1>4. ASSUME NEW r \in Request, ReadInit(r) PROVE EndedMarked'
  BY <1>4 DEF ReadInit, InitSession, Stamp, gcVars, StepTo
<1>5. ASSUME NEW r \in Request, Update(r) PROVE EndedMarked'
  BY <1>5 DEF Update, Stamp, gcVars, StepTo
<1>6. ASSUME NEW r \in Request, NewCookie(r) PROVE EndedMarked'
  BY <1>6 DEF NewCookie, InitSession, Stamp, gcVars, StepTo
<1>7. ASSUME NEW r \in Request, Finish(r) PROVE EndedMarked'
  BY <1>7 DEF Finish, Free, gcVars
<1>8. ASSUME NEW r \in Request, Renew(r) PROVE EndedMarked'
  BY <1>8 DEF Renew, Stamp, reqVars, gcVars, StepTo
<1>9. ASSUME NEW r \in Request, Destroy(r) PROVE EndedMarked'
  BY <1>9, DestroyKeepsMap DEF Destroy, gcVars, StepTo
<1>10. CASE Collect
  BY <1>10 DEF Collect, GCStart, GCLook, GCCompare, GCScanned, GCDelete, GCRearm, DestroyKey,
               Expired, reqVars
<1>11. CASE Tick
  BY <1>11 DEF Tick, Older, Stamping, reqVars, gcVars
<1>12. ASSUME NEW b \in Browser, Forget(b) PROVE EndedMarked'
  BY <1>12 DEF Forget, reqVars, gcVars
<1>13. CASE UNCHANGED vars
  BY <1>13 DEF vars, reqVars, gcVars
<1> QED
  BY <1>1, <1>2, <1>3, <1>4, <1>5, <1>6, <1>7, <1>8, <1>9, <1>10, <1>11, <1>12, <1>13
  DEF Next, Serve

\* Every step leaves intact a session that the collector had no reason to note.
LEMMA IntactStep == IInv /\ [Next]_vars => UsedSessionIntact'
<1> SUFFICES ASSUME IInv, [Next]_vars PROVE UsedSessionIntact'
  OBVIOUS
<1> USE LifeAssumption, NoneAssumption
    DEF IInv, TypeOK, ObjectsMade, CookiesMade, EndedMarked, UsedSessionIntact, Object
<1>1. ASSUME NEW r \in Request, NEW b \in Browser, Arrive(r, b) PROVE UsedSessionIntact'
  BY <1>1 DEF Arrive, gcVars, StepTo
<1>2. ASSUME NEW r \in Request, Check(r) PROVE UsedSessionIntact'
  BY <1>2 DEF Check, Free, gcVars, StepTo
<1>3. ASSUME NEW r \in Request, Read(r) PROVE UsedSessionIntact'
  BY <1>3 DEF Read, gcVars, StepTo
<1>4. ASSUME NEW r \in Request, ReadInit(r) PROVE UsedSessionIntact'
  BY <1>4 DEF ReadInit, InitSession, Stamp, gcVars, StepTo
<1>5. ASSUME NEW r \in Request, Update(r) PROVE UsedSessionIntact'
  BY <1>5 DEF Update, Stamp, gcVars, StepTo
<1>6. ASSUME NEW r \in Request, NewCookie(r) PROVE UsedSessionIntact'
  BY <1>6 DEF NewCookie, InitSession, Stamp, gcVars, StepTo
<1>7. ASSUME NEW r \in Request, Finish(r) PROVE UsedSessionIntact'
  BY <1>7 DEF Finish, Free, gcVars
<1>8. ASSUME NEW r \in Request, Renew(r) PROVE UsedSessionIntact'
  BY <1>8 DEF Renew, Stamp, reqVars, gcVars, StepTo
<1>9. ASSUME NEW r \in Request, Destroy(r) PROVE UsedSessionIntact'
  BY <1>9, DestroyKeepsMap DEF Destroy, gcVars, StepTo
<1>10. CASE Collect
  BY <1>10 DEF Collect, GCStart, GCLook, GCCompare, GCScanned, GCDelete, GCRearm, DestroyKey,
               Expired, reqVars
<1>11. CASE Tick
  BY <1>11 DEF Tick, Older, Stamping, reqVars, gcVars
<1>12. ASSUME NEW b \in Browser, Forget(b) PROVE UsedSessionIntact'
  BY <1>12 DEF Forget, reqVars, gcVars
<1>13. CASE UNCHANGED vars
  BY <1>13 DEF vars, reqVars, gcVars
<1> QED
  BY <1>1, <1>2, <1>3, <1>4, <1>5, <1>6, <1>7, <1>8, <1>9, <1>10, <1>11, <1>12, <1>13
  DEF Next, Serve

-----------------------------------------------------------------------------

\* The inductive invariant holds in every reachable state.
THEOREM SessionInvariant == Spec => []IInv
<1>1. Init => IInv
  BY LifeAssumption, NoneAssumption, EscapeAssumption
  DEF Init, IInv, TypeOK, ObjectsMade, CookiesMade, EndedMarked, UsedSessionIntact, Object,
      CookieValue
<1>2. IInv /\ [Next]_vars => IInv'
  BY TypeStep, ObjectsStep, CookiesStep, EndedStep, IntactStep DEF IInv
<1> QED BY <1>1, <1>2, PTL DEF Spec

\* The variables of the web server's sessions have their types in every reachable state.
THEOREM SessionTypes == Spec => []TypeOK
BY SessionInvariant, PTL DEF IInv

\* A session that has been within its lifetime throughout, that nobody has logged out of, and
\* whose lifetime has not passed between the two halves of a visit of the collector, is never
\* taken by the collector nor made a second time by Check and Read.
THEOREM SessionsInUseIntact == Spec => []UsedSessionIntact
BY SessionInvariant, PTL DEF IInv
=============================================================================
