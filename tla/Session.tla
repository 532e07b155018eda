------------------------------- MODULE Session -------------------------------
(***************************************************************************)
(* Sessions of the web server: the in-memory provider                      *)
(* (src/web/session/memory), the manager (src/web/session/session.go) and  *)
(* the authentication that wraps every handler (src/web/restful).          *)
(* Requests run concurrently with each other and with the collector of     *)
(* expired sessions; a step here is one access to the shared map or to a   *)
(* session object.  Where the code reads the clock and uses what it has    *)
(* read in one statement, time may pass between the two.                   *)
(*                                                                         *)
(* A session ID names successive objects 1, 2, ... : reading an ID that is *)
(* not in the map makes a new object for it.  Time is the age, in seconds, *)
(* of the object that the map holds; it stops counting once it is past the *)
(* lifetime.  The age of an object that has left the map is read by nobody.*)
(***************************************************************************)
EXTENDS Naturals

CONSTANTS ID,           \* session IDs, drawn at random in the code
          Browser,      \* clients that keep one cookie
          Request,      \* slots for requests under way
          MaxLife,      \* maxLifeTime, in seconds
          MaxObj,       \* bound: objects made for one ID
          None

ASSUME LifeAssumption == MaxLife \in Nat /\ MaxObj \in Nat \ {0}
ASSUME NoneAssumption == None \notin ID /\ None \notin Browser

VARIABLES
  store,     \* MemProvider.sessions: ID -> object in the map, 0 when absent
  made,      \* ID -> objects made so far
  age,       \* ID -> seconds since lastAccessedTime of its object in the map
  jar,       \* Browser -> value of its session cookie, or None
  pc,        \* Request -> next step
  browser,   \* Request -> the browser that sent it, None when idle
  sid,       \* Request -> session ID it works with, or None
  obj,       \* Request -> session object it holds, 0 when none
  lag,       \* Request -> seconds since its last step, when its next may store a time
  setCookie, \* Request -> cookie of its response: "keep", "set" or "expire"
  gcState,   \* the collector: "asleep", "scan" or "sweep"
  gcView,    \* ID -> "due", "optional" or "seen" by the Range under way
  gcLook,    \* the ID whose access time the collector has read and not yet compared, or None
  gcAge,     \* seconds since the access time it has read
  victims,   \* deleteSessionIDs
  fate       \* history: ID -> "ended" once its session has been past its lifetime or logged out
             \* of; else "late" once its access time, as the collector had read it, went past
             \* the lifetime before the collector looked at the clock; else "sound"

reqVars  == <<pc, browser, sid, obj, setCookie, lag>>
gcVars   == <<gcState, gcView, gcLook, gcAge, victims>>
vars     == <<store, made, age, jar, reqVars, gcVars, fate>>

\* url.QueryEscape of an ID: 32 bytes in base64 end in "=", which becomes "%3D", so
\* an escaped ID is never an ID.  QueryUnescape takes it back.
Escape(id) == <<"%3D", id>>
Unescape(value) == value[2]
CookieValue == {Escape(id) : id \in ID}

ASSUME EscapeAssumption == CookieValue \intersect (ID \union {None}) = {}

Init == /\ store = [id \in ID |-> 0]
        /\ made = [id \in ID |-> 0]
        /\ age = [id \in ID |-> 0]
        /\ jar = [b \in Browser |-> None]
        /\ pc = [r \in Request |-> "idle"]
        /\ browser = [r \in Request |-> None]
        /\ sid = [r \in Request |-> None]
        /\ obj = [r \in Request |-> 0]
        /\ setCookie = [r \in Request |-> "keep"]
        /\ lag = [r \in Request |-> 0]
        /\ gcState = "asleep"
        /\ gcView = [id \in ID |-> "optional"]
        /\ gcLook = None
        /\ gcAge = 0
        /\ victims = {}
        /\ fate = [id \in ID |-> "sound"]

-----------------------------------------------------------------------------
(* The provider's operations on one ID. *)

\* A time of a seconds ago is stored for the object of id: it may be past its lifetime.
Stamp(id, a) ==
  /\ age' = [age EXCEPT ![id] = a]
  /\ fate' = IF a > MaxLife THEN [fate EXCEPT ![id] = "ended"] ELSE fate

\* MemProvider.Init: a new object replaces whatever the map holds for the ID.
InitSession(id, a) ==
  /\ made[id] < MaxObj
  /\ made' = [made EXCEPT ![id] = @ + 1]
  /\ store' = [store EXCEPT ![id] = made[id] + 1]
  /\ Stamp(id, a)

\* MemProvider.Destroy of a key: only an ID can be in the map.
DestroyKey(key) ==
  /\ store' = [id \in ID |-> IF id = key THEN 0 ELSE store[id]]
  /\ age' = [id \in ID |-> IF id = key THEN 0 ELSE age[id]]

\* Mutant of Expired: a session used exactly maxLifeTime ago has expired.
ExpiredEarly(a) == a >= MaxLife

\* GC's test: lastAccessedTime + maxLifeTime < now.
Expired(a) == a > MaxLife

-----------------------------------------------------------------------------
(* Requests: wapper. *)

\* The request's slot is free again.
Free(r) == /\ pc' = [pc EXCEPT ![r] = "idle"]
           /\ browser' = [browser EXCEPT ![r] = None]
           /\ sid' = [sid EXCEPT ![r] = None]
           /\ obj' = [obj EXCEPT ![r] = 0]
           /\ setCookie' = [setCookie EXCEPT ![r] = "keep"]

\* The request takes a step, which begins its next one.
StepTo(r, next) == /\ pc' = [pc EXCEPT ![r] = next]
                   /\ lag' = [lag EXCEPT ![r] = 0]

\* A request comes in with the browser's cookie.  Without one, a handler that wants
\* authentication is refused at once (401: nothing changes); another gets a cookie.
Arrive(r, b) ==
  /\ pc[r] = "idle"
  /\ browser' = [browser EXCEPT ![r] = b]
  /\ \/ /\ jar[b] = None
        /\ StepTo(r, "cookie")
        /\ UNCHANGED sid
     \/ /\ jar[b] # None
        /\ StepTo(r, "check")
        /\ sid' = [sid EXCEPT ![r] = Unescape(jar[b])]
  /\ UNCHANGED <<store, made, age, jar, obj, setCookie, gcVars, fate>>

\* SessionManager.Check, first half: is the ID in the map?  When it is not, a handler
\* that wants authentication answers 401 and another makes a session and a cookie.
Check(r) ==
  /\ pc[r] = "check"
  /\ \/ /\ store[sid[r]] # 0
        /\ StepTo(r, "read")
        /\ UNCHANGED <<browser, sid, obj, setCookie>>
     \/ store[sid[r]] = 0 /\ Free(r) /\ UNCHANGED lag
     \/ /\ store[sid[r]] = 0
        /\ StepTo(r, "cookie")
        /\ UNCHANGED <<browser, sid, obj, setCookie>>
  /\ UNCHANGED <<store, made, age, jar, gcVars, fate>>

\* Mutant of Read: what the map gave is used without looking whether it gave anything.
ReadUnchecked(r) ==
  /\ pc[r] = "read"
  /\ obj' = [obj EXCEPT ![r] = store[sid[r]]]
  /\ StepTo(r, "update")
  /\ UNCHANGED <<store, made, age, jar, browser, sid, setCookie, gcVars, fate>>

\* SessionManager.Check, second half: Read loads the object, if it is still there.
Read(r) ==
  /\ pc[r] = "read"
  /\ obj' = [obj EXCEPT ![r] = store[sid[r]]]
  /\ StepTo(r, IF store[sid[r]] # 0 THEN "update" ELSE "init")
  /\ UNCHANGED <<store, made, age, jar, browser, sid, setCookie, gcVars, fate>>

\* ... and otherwise makes a new one under the same ID.
ReadInit(r) ==
  /\ pc[r] = "init"
  /\ \E a \in 0..lag[r] : InitSession(sid[r], a)
  /\ obj' = [obj EXCEPT ![r] = made[sid[r]] + 1]
  /\ StepTo(r, "update")
  /\ UNCHANGED <<jar, browser, sid, setCookie, gcVars>>

\* wapper refreshes the object it was given, which may have left the map by now.  The time
\* it stores was on the clock at some moment since the request's last step.
Update(r) ==
  /\ pc[r] = "update"
  /\ IF obj[r] = store[sid[r]] THEN \E a \in 0..lag[r] : Stamp(sid[r], a)
                               ELSE UNCHANGED <<age, fate>>
  /\ StepTo(r, "handler")
  /\ UNCHANGED <<store, made, jar, browser, sid, obj, setCookie, gcVars>>

\* SessionManager.Cookie: a session under a fresh ID.  wapper keeps only the cookie.
NewCookie(r) ==
  /\ pc[r] = "cookie"
  /\ \E id \in {i \in ID : made[i] = 0}, a \in 0..lag[r] :
       /\ InitSession(id, a)
       /\ sid' = [sid EXCEPT ![r] = id]
  /\ setCookie' = [setCookie EXCEPT ![r] = "set"]
  /\ StepTo(r, "handler")
  /\ UNCHANGED <<jar, browser, obj, gcVars>>

\* A handler with a manager of its own on the provider (NewSessionManager) renews the
\* session of its request, or sets or gets a value of it: the object in the map, if any.
Renew(r) ==
  /\ pc[r] = "handler" /\ store[sid[r]] # 0
  /\ \E a \in 0..lag[r] : Stamp(sid[r], a)
  /\ StepTo(r, "handler")
  /\ UNCHANGED <<store, made, jar, browser, sid, obj, setCookie, gcVars>>

\* It logs out of the session the request came with: SessionManager.Destroy looks up the
\* cookie's value as it came, and has the response expire the cookie.
Destroy(r) ==
  /\ pc[r] = "handler" /\ obj[r] # 0
  /\ DestroyKey(Escape(sid[r]))
  /\ setCookie' = [setCookie EXCEPT ![r] = "expire"]
  /\ fate' = [fate EXCEPT ![sid[r]] = "ended"]
  /\ StepTo(r, "handler")
  /\ UNCHANGED <<made, jar, browser, sid, obj, gcVars>>

\* The response reaches the browser.
Finish(r) ==
  /\ pc[r] = "handler"
  /\ jar' = [jar EXCEPT ![browser[r]] = CASE setCookie[r] = "keep" -> @
                                          [] setCookie[r] = "set" -> Escape(sid[r])
                                          [] setCookie[r] = "expire" -> None]
  /\ Free(r)
  /\ lag' = [lag EXCEPT ![r] = 0]
  /\ UNCHANGED <<store, made, age, gcVars, fate>>

-----------------------------------------------------------------------------
(* The collector: SessionManager.GC and MemProvider.GC. *)

\* A cycle starts with a Range over the map: it visits what the map holds now, and may
\* or may not visit what is stored while it runs.
GCStart ==
  /\ gcState = "asleep"
  /\ gcState' = "scan"
  /\ gcView' = [id \in ID |-> IF store[id] # 0 THEN "due" ELSE "optional"]
  /\ UNCHANGED <<store, made, age, jar, reqVars, gcLook, gcAge, victims, fate>>

\* The visit of one session reads its access time, the left side of the comparison, ...
GCLook(id) ==
  /\ gcState = "scan" /\ gcLook = None /\ store[id] # 0 /\ gcView[id] # "seen"
  /\ gcView' = [gcView EXCEPT ![id] = "seen"]
  /\ gcLook' = id
  /\ gcAge' = age[id]
  /\ UNCHANGED <<store, made, age, jar, reqVars, gcState, victims, fate>>

\* ... and then the clock.
GCCompare ==
  /\ gcLook # None
  /\ victims' = IF Expired(gcAge) THEN victims \union {gcLook} ELSE victims
  /\ gcLook' = None
  /\ gcAge' = 0
  /\ UNCHANGED <<store, made, age, jar, reqVars, gcState, gcView, fate>>

GCScanned ==
  /\ gcState = "scan" /\ gcLook = None
  /\ \A id \in ID : store[id] # 0 => gcView[id] # "due"
  /\ gcState' = "sweep"
  /\ gcView' = [id \in ID |-> "optional"]
  /\ UNCHANGED <<store, made, age, jar, reqVars, gcLook, gcAge, victims, fate>>

GCDelete(id) ==
  /\ gcState = "sweep" /\ id \in victims
  /\ DestroyKey(id)
  /\ victims' = victims \ {id}
  /\ UNCHANGED <<made, jar, reqVars, gcState, gcView, gcLook, gcAge, fate>>

\* Mutant of GCRearm: the next cycle is never scheduled.
GCOnce ==
  /\ gcState = "sweep" /\ victims = {}
  /\ gcState' = "over"
  /\ UNCHANGED <<store, made, age, jar, reqVars, gcView, gcLook, gcAge, victims, fate>>

\* The cycle ends, and time.AfterFunc has the next one run after gcCycle.
GCRearm ==
  /\ gcState = "sweep" /\ victims = {}
  /\ gcState' = "asleep"
  /\ UNCHANGED <<store, made, age, jar, reqVars, gcView, gcLook, gcAge, victims, fate>>

-----------------------------------------------------------------------------
(* Time, and the whole. *)

Older(a) == IF a > MaxLife THEN a ELSE a + 1

\* The steps that store a time.
Stamping == {"init", "update", "cookie", "handler"}

Tick ==
  /\ age' = [id \in ID |-> IF store[id] = 0 THEN 0 ELSE Older(age[id])]
  /\ lag' = [r \in Request |-> IF pc[r] \in Stamping THEN Older(lag[r]) ELSE 0]
  /\ gcAge' = IF gcLook = None THEN 0 ELSE Older(gcAge)
  /\ fate' = [id \in ID |->
                IF store[id] # 0 /\ Older(age[id]) > MaxLife THEN "ended"
                ELSE IF fate[id] = "sound" /\ id = gcLook /\ Older(gcAge) > MaxLife THEN "late"
                ELSE fate[id]]
  /\ UNCHANGED <<store, made, jar, pc, browser, sid, obj, setCookie, gcState, gcView, gcLook,
                 victims>>

\* A browser drops its cookie: its MaxAge has passed since it was set.
Forget(b) ==
  /\ jar[b] # None
  /\ jar' = [jar EXCEPT ![b] = None]
  /\ UNCHANGED <<store, made, age, reqVars, gcVars, fate>>

\* The steps the server takes by itself once a request has come in.
Serve(r) == \/ Check(r) \/ Read(r) \/ ReadInit(r) \/ Update(r) \/ NewCookie(r) \/ Finish(r)

Collect == \/ GCStart \/ GCCompare \/ GCScanned \/ GCRearm
           \/ \E id \in ID : GCLook(id) \/ GCDelete(id)

Next == \/ \E r \in Request : \/ \E b \in Browser : Arrive(r, b)
                              \/ Serve(r) \/ Renew(r) \/ Destroy(r)
        \/ Collect
        \/ Tick
        \/ \E b \in Browser : Forget(b)

\* Time passes, the collector's goroutine and timer run, requests are served.  No
\* request needs to come in.
Fairness == WF_vars(Tick) /\ WF_vars(Collect) /\ \A r \in Request : WF_vars(Serve(r))

Spec == Init /\ [][Next]_vars /\ Fairness

-----------------------------------------------------------------------------
(* Properties. *)

Object == 0..MaxObj

\* Every variable has its type, and a request that has read its session holds one of
\* the objects made for its ID.
TypeOK ==
  /\ store \in [ID -> Object]
  /\ made \in [ID -> Object]
  /\ age \in [ID -> 0..(MaxLife + 1)]
  /\ jar \in [Browser -> CookieValue \union {None}]
  /\ pc \in [Request -> {"idle", "check", "read", "init", "update", "cookie", "handler"}]
  /\ browser \in [Request -> Browser \union {None}]
  /\ sid \in [Request -> ID \union {None}]
  /\ obj \in [Request -> Object]
  /\ setCookie \in [Request -> {"keep", "set", "expire"}]
  /\ lag \in [Request -> 0..(MaxLife + 1)]
  /\ gcState \in {"asleep", "scan", "sweep"}
  /\ gcView \in [ID -> {"due", "optional", "seen"}]
  /\ gcLook \in ID \union {None} /\ gcAge \in 0..(MaxLife + 1)
  /\ gcLook # None => gcState = "scan"
  /\ victims \subseteq ID
  /\ fate \in [ID -> {"sound", "late", "ended"}]
  /\ \A r \in Request : pc[r] # "idle" => browser[r] \in Browser
  /\ \A r \in Request : pc[r] \notin {"idle", "cookie"} => sid[r] \in ID
  /\ \A r \in Request : pc[r] = "update" => obj[r] # 0
  /\ \A r \in Request : obj[r] # 0 => sid[r] \in ID /\ obj[r] <= made[sid[r]]

\* A session that has never gone past its lifetime, that nobody has logged out of, and whose
\* lifetime has not passed between the two halves of a visit of the collector, is intact: the
\* collector has not taken it, Check and Read have not made a second object for it, and
\* every request that works with it holds the one object.
UsedSessionIntact ==
  /\ \A id \in ID : fate[id] = "sound" => made[id] <= 1 /\ store[id] = made[id]
  /\ \A r \in Request : obj[r] # 0 /\ fate[sid[r]] = "sound" => obj[r] = store[sid[r]]

\* A session that no request works with any more does not stay in the map.
IdleCollected ==
  \A id \in ID : []<>(store[id] = 0 \/ \E r \in Request : sid[r] = id)

-----------------------------------------------------------------------------
(* What the comments of the repository say of sessions. *)

\* session.go: Destroy destroys the session; it has left the map with that step.
DestroyEndsSession ==
  [][\A r \in Request : setCookie[r] # "expire" /\ setCookie'[r] = "expire"
                           => store'[sid[r]] = 0]_vars

\* session.go and memory.go: the collector deletes expired sessions.  What it takes may have
\* been renewed since its look at the clock, or between the two halves of that look.
GCDeletesOnlyExpired ==
  [][\A id \in ID : gcState = "sweep" /\ store[id] # 0 /\ store'[id] = 0
                       => Expired(age[id])]_vars
=============================================================================
