---------------------------- MODULE LoggerProofs ----------------------------
(***************************************************************************)
(* Proofs about the global logger: its mutex keeps lines, flags and levels *)
(* apart for any number of goroutines, any programs they run and any       *)
(* number of midnights, as long as no call is caught by a replacement; and *)
(* only such a call can end in the fatal error of Unlock.  And proofs      *)
(* about the configuration it reads, for every file: the four searches for *)
(* a comment find the first one, and however far a file has been read, the *)
(* map holds what its lines so far say.                                    *)
(***************************************************************************)
EXTENDS Logger, SequenceTheorems, WellFoundedInduction, TLAPS

Held == {"save", "clear", "prefix", "output", "reset", "restore", "unlock"}
FlagSet == {"std", "file", "none"}

\* Where a thread is in the function it runs.
Placed(t) ==
  /\ pc[t] \in {"idle", "open", "publish"} => at[t] = 0 /\ kind[t] = ""
  /\ pc[t] \in {"ask1", "ask2", "ask3"} => kind[t] \in {"debug", "info", "error"}
  /\ pc[t] \in Held \union {"lock"} => kind[t] \in Function
  /\ pc[t] \in {"save", "clear", "restore"} => kind[t] = "println"
  /\ pc[t] \in {"level", "flags"} => kind[t] \in Level \union {""}
  /\ KeepsFlags(t) => saved[t] \in FlagSet
  /\ pc[t] \in {"open", "publish"} => t = Timer /\ mylogger < MaxLogger
  /\ t = Timer => kind[t] = ""

Program == \A t \in Thread : Placed(t)

\* Each call holds the mutex of a logger of its own.
Exclusive ==
  \A t \in Thread : pc[t] \in Held =>
    /\ mine[t] \in Log /\ locked[mine[t]]
    /\ \A u \in Thread \ {t} : pc[u] \in Held => mine[u] # mine[t]

-----------------------------------------------------------------------------

\* The statement after each one.
LEMMA FollowsFacts ==
  /\ \A k : Follows(k, "unlock") = "idle"
  /\ \A k : Follows(k, "lock") = IF k = "println" THEN "save" ELSE "prefix"
  /\ Follows("println", "clear") = "prefix"
  /\ \A k : Follows(k, "prefix") = "output"
  /\ \A k : Follows(k, "reset") = IF k = "println" THEN "restore" ELSE "unlock"
  /\ Follows("println", "restore") = "unlock"
<1>1. \A k : Follows(k, "unlock") = "idle"
  BY DEF Follows
<1>2. ASSUME NEW k, k = "println"
      PROVE  /\ Follows(k, "lock") = "save" /\ Follows(k, "clear") = "prefix"
             /\ Follows(k, "prefix") = "output" /\ Follows(k, "reset") = "restore"
             /\ Follows(k, "restore") = "unlock"
  <2>1. Body(k) = <<"lock", "save", "clear", "prefix", "output", "reset", "restore", "unlock">>
    BY <1>2 DEF Body
  <2>2. DOMAIN Body(k) = 1 .. 8
    BY <2>1
  <2>3. /\ \A i \in 1 .. 8 : Body(k)[i] = "lock" <=> i = 1
        /\ \A i \in 1 .. 8 : Body(k)[i] = "clear" <=> i = 3
        /\ \A i \in 1 .. 8 : Body(k)[i] = "prefix" <=> i = 4
        /\ \A i \in 1 .. 8 : Body(k)[i] = "reset" <=> i = 6
        /\ \A i \in 1 .. 8 : Body(k)[i] = "restore" <=> i = 7
    BY <2>1
  <2>4. Follows(k, "lock") = "save"
    BY <2>1, <2>2, <2>3 DEF Follows
  <2>5. Follows(k, "clear") = "prefix"
    BY <2>1, <2>2, <2>3 DEF Follows
  <2>6. Follows(k, "prefix") = "output"
    BY <2>1, <2>2, <2>3 DEF Follows
  <2>7. Follows(k, "reset") = "restore"
    BY <2>1, <2>2, <2>3 DEF Follows
  <2>8. Follows(k, "restore") = "unlock"
    BY <2>1, <2>2, <2>3 DEF Follows
  <2> QED BY <2>4, <2>5, <2>6, <2>7, <2>8
<1>3. ASSUME NEW k, k # "println"
      PROVE  /\ Follows(k, "lock") = "prefix" /\ Follows(k, "prefix") = "output"
             /\ Follows(k, "reset") = "unlock"
  <2>1. Body(k) = <<"lock", "prefix", "output", "reset", "unlock">>
    BY <1>3 DEF Body
  <2>2. DOMAIN Body(k) = 1 .. 5
    BY <2>1
  <2>3. /\ \A i \in 1 .. 5 : Body(k)[i] = "lock" <=> i = 1
        /\ \A i \in 1 .. 5 : Body(k)[i] = "prefix" <=> i = 2
        /\ \A i \in 1 .. 5 : Body(k)[i] = "reset" <=> i = 4
    BY <2>1
  <2>4. Follows(k, "lock") = "prefix"
    BY <2>1, <2>2, <2>3 DEF Follows
  <2>5. Follows(k, "prefix") = "output"
    BY <2>1, <2>2, <2>3 DEF Follows
  <2>6. Follows(k, "reset") = "unlock"
    BY <2>1, <2>2, <2>3 DEF Follows
  <2> QED BY <2>4, <2>5, <2>6
<1> QED BY <1>1, <1>2, <1>3

\* Numbers of loggers.
LEMMA LogFacts ==
  ASSUME TypeOK
  PROVE  /\ mylogger \in Log /\ mylogger \in 0 .. mylogger /\ mylogger \in Nat
         /\ \A l \in 0 .. mylogger : l # 0 => l \in Log
         /\ \A l \in 0 .. mylogger : l \in 0 .. mylogger + 1
         /\ 0 \in 0 .. mylogger /\ 0 \notin Log
<1>1. mylogger \in 1 .. MaxLogger /\ MaxLogger \in Nat
  BY ThreadAssumption DEF TypeOK, Log
<1> QED BY <1>1 DEF Log

\* Done moves its thread and leaves the others alone.
LEMMA DoneFacts ==
  ASSUME TypeOK, NEW t \in Thread, NEW s, NEW next \in Place, Done(t, s, next)
  PROVE  /\ pc[t] = s /\ pc'[t] = next /\ at[t] \in Log /\ at[t] \in 0 .. mylogger /\ at'[t] = 0
         /\ kind'[t] = IF next = "idle" THEN "" ELSE kind[t]
         /\ \A u \in Thread \ {t} : pc'[u] = pc[u] /\ kind'[u] = kind[u] /\ at'[u] = at[u]
         /\ astray' = (astray \/ mine[t] \notin {0, at[t]}) /\ astray' \in BOOLEAN
         /\ mylogger' = mylogger /\ role' = role
         /\ pc' \in [Thread -> Place] /\ at' \in [Thread -> 0 .. mylogger]
         /\ kind' \in [Thread -> Function \union Level \union {""}]
<1>1. /\ pc[t] = s /\ at[t] # 0 /\ pc' = [pc EXCEPT ![t] = next] /\ at' = [at EXCEPT ![t] = 0]
      /\ astray' = (astray \/ mine[t] \notin {0, at[t]})
      /\ kind' = [kind EXCEPT ![t] = IF next = "idle" THEN "" ELSE @]
      /\ mylogger' = mylogger /\ role' = role
  BY DEF Done
<1>2. /\ pc \in [Thread -> Place] /\ kind \in [Thread -> Function \union Level \union {""}]
      /\ at \in [Thread -> 0 .. mylogger] /\ astray \in BOOLEAN
  BY DEF TypeOK
<1>3. at[t] \in 0 .. mylogger /\ at[t] \in Log /\ at' \in [Thread -> 0 .. mylogger]
  BY <1>1, <1>2, LogFacts
<1>4. astray' \in BOOLEAN
  BY <1>1, <1>2
<1>5. pc' \in [Thread -> Place] /\ pc'[t] = next
  BY <1>1, <1>2
<1>6. /\ kind' \in [Thread -> Function \union Level \union {""}]
      /\ kind'[t] = IF next = "idle" THEN "" ELSE kind[t]
  BY <1>1, <1>2
<1>7. \A u \in Thread \ {t} : pc'[u] = pc[u] /\ kind'[u] = kind[u] /\ at'[u] = at[u]
  BY <1>1, <1>2
<1>8. at'[t] = 0
  BY <1>1, <1>2
<1> QED BY <1>1, <1>3, <1>4, <1>5, <1>6, <1>7, <1>8

-----------------------------------------------------------------------------
(* Types, and where the threads are. *)

\* The variables that a statement may change besides those that Done changes.
RestOK == /\ level \in [Log -> Level] /\ prefix \in [Log -> Function \union {"", "blank"}]
          /\ flags \in [Log -> FlagSet] /\ locked \in [Log -> BOOLEAN]
          /\ ended \in {"", "unlock", "map", "file"}
          /\ mine \in [Thread -> 0 .. mylogger] /\ settled \in [Thread -> BOOLEAN]
          /\ muddled \in BOOLEAN /\ DOMAIN saved = Thread

LEMMA RestIsTyped == TypeOK => RestOK
BY DEF TypeOK, RestOK, FlagSet

LEMMA DoneTypes ==
  ASSUME TypeOK, Program, NEW t \in Thread, NEW s, NEW next \in Place \ {"open", "publish"},
         Done(t, s, next), RestOK', \A u \in Thread \ {t} : saved'[u] = saved[u],
         next \in {"ask1", "ask2", "ask3"} => kind[t] \in {"debug", "info", "error"},
         next \in Held \union {"lock"} => kind[t] \in Function,
         next \in {"save", "clear", "restore"} => kind[t] = "println",
         next \in {"level", "flags"} => kind[t] \in Level \union {""},
         kind[t] = "println" /\ next \in Held \ {"save", "unlock"} => saved'[t] \in FlagSet
  PROVE  TypeOK' /\ Program'
<1>1. TypeOK'
  <2>1. /\ mylogger' = mylogger /\ role' = role /\ astray' \in BOOLEAN
        /\ pc' \in [Thread -> Place] /\ at' \in [Thread -> 0 .. mylogger]
        /\ kind' \in [Thread -> Function \union Level \union {""}]
    BY DoneFacts
  <2>2. mylogger \in Log /\ role \in Role
    BY DEF TypeOK
  <2> QED BY <2>1, <2>2 DEF TypeOK, RestOK, FlagSet
<1>2. ASSUME NEW u \in Thread, u # t PROVE Placed(u)'
  <2>1. /\ pc'[u] = pc[u] /\ kind'[u] = kind[u] /\ at'[u] = at[u] /\ saved'[u] = saved[u]
        /\ mylogger' = mylogger
    BY ZenonT(60), <1>2, DoneFacts
  <2>2. Placed(u)
    BY DEF Program
  <2> QED BY <2>1, <2>2 DEF Placed, KeepsFlags
<1>3. Placed(t)'
  <2>1. /\ pc'[t] = next /\ at'[t] = 0 /\ kind'[t] = (IF next = "idle" THEN "" ELSE kind[t])
        /\ next \notin {"open", "publish"}
    BY ZenonT(60), DoneFacts
  <2>2. t = Timer => kind[t] = ""
    BY DEF Program, Placed
  <2> QED BY <2>1, <2>2 DEF Placed, Held, KeepsFlags
<1>4. ASSUME NEW u \in Thread PROVE Placed(u)'
  BY <1>2, <1>3
<1> QED BY <1>1, <1>4 DEF Program

LEMMA TypeStep == TypeOK /\ Program /\ [Next]_vars => TypeOK' /\ Program'
<1> SUFFICES ASSUME TypeOK, Program, [Next]_vars PROVE TypeOK' /\ Program'
  OBVIOUS
<1> DEFINE Good == TypeOK' /\ Program'
<1>0. RestOK
  BY RestIsTyped
<1>1. ASSUME NEW t \in Thread, Fetch(t) PROVE Good
  <2>1. at' = [at EXCEPT ![t] = mylogger] /\ pc[t] \notin {"idle", "open", "publish"}
        /\ UNCHANGED <<mylogger, level, prefix, flags, locked, ended, role, pc, kind, saved, mine,
                       settled, astray, muddled>>
    BY <1>1 DEF Fetch, logVars, histVars
  <2>2. TypeOK'
    BY <2>1, LogFacts DEF TypeOK
  <2>3. \A u \in Thread : Placed(u)'
    BY <2>1 DEF TypeOK, Program, Placed, KeepsFlags
  <2> QED BY <2>2, <2>3 DEF Program
<1>2. ASSUME NEW t \in Thread, Ask(t) PROVE Good
  <2>1. PICK i \in DOMAIN Asks(kind[t]) :
          /\ Done(t, <<"ask1", "ask2", "ask3">>[i],
                  CASE level[at[t]] = Asks(kind[t])[i] -> "lock"
                    [] level[at[t]] # Asks(kind[t])[i] /\ i < Len(Asks(kind[t])) ->
                         <<"ask2", "ask3">>[i]
                    [] OTHER -> "idle")
          /\ UNCHANGED <<logVars, ended, saved, mine, settled, muddled>>
    BY <1>2 DEF Ask
  <2> DEFINE next == CASE level[at[t]] = Asks(kind[t])[i] -> "lock"
                       [] level[at[t]] # Asks(kind[t])[i] /\ i < Len(Asks(kind[t])) ->
                            <<"ask2", "ask3">>[i]
                       [] OTHER -> "idle"
  <2>2. next \in {"lock", "ask2", "ask3", "idle"} /\ kind[t] \in {"debug", "info", "error"}
    <3>1. kind[t] \in {"debug", "info", "error"}
      BY DEF Asks
    <3>2. i \in 1 .. 3 /\ Len(Asks(kind[t])) <= 3
      BY <3>1 DEF Asks
    <3>3. i < Len(Asks(kind[t])) => <<"ask2", "ask3">>[i] \in {"ask2", "ask3"}
      BY <3>1 DEF Asks
    <3> QED BY <3>1, <3>3
  <2> HIDE DEF next
  <2>3. Done(t, <<"ask1", "ask2", "ask3">>[i], next)
    BY <2>1 DEF next
  <2>4. RestOK'
    BY ZenonT(60), <1>0, <2>1, <2>3, DoneFacts, <2>2 DEF RestOK, logVars, Place
  <2> QED BY <2>1, <2>2, <2>3, <2>4, DoneTypes DEF Place, Held, Function
<1>3. ASSUME NEW t \in Thread, Lock(t) PROVE Good
  <2>1. Done(t, "lock", Follows(kind[t], "lock")) /\ Follows(kind[t], "lock") \in {"save", "prefix"}
    BY <1>3, FollowsFacts DEF Lock
  <2>2. RestOK'
    <3>1. at[t] \in Log /\ at[t] \in 0 .. mylogger /\ mylogger' = mylogger
      BY <2>1, DoneFacts DEF Place
    <3> QED BY <1>0, <1>3, <3>1 DEF Lock, RestOK
  <2>3. /\ kind[t] \in Function
        /\ Follows(kind[t], "lock") = "save" => kind[t] = "println"
        /\ Follows(kind[t], "lock") = "prefix" => kind[t] # "println"
    BY <2>1, FollowsFacts DEF Done, Program, Placed
  <2>4. UNCHANGED saved
    BY <1>3 DEF Lock
  <2> DEFINE next == Follows(kind[t], "lock")
  <2>5. Done(t, "lock", next) /\ next \in {"save", "prefix"}
    BY <2>1
  <2>6. kind[t] \in Function /\ (next = "save" <=> kind[t] = "println")
    BY <2>1, <2>3
  <2> HIDE DEF next
  <2> QED BY <2>2, <2>4, <2>5, <2>6, DoneTypes DEF Place, Held
<1>4. ASSUME NEW t \in Thread, SaveFlags(t) PROVE Good
  <2>1. Done(t, "save", "clear") /\ saved' = [saved EXCEPT ![t] = flags[at[t]]]
    BY <1>4 DEF SaveFlags
  <2>2. RestOK' /\ flags[at[t]] \in FlagSet
    BY <1>0, <1>4, <2>1, DoneFacts DEF SaveFlags, logVars, RestOK, Place
  <2>3. kind[t] = "println" /\ kind[t] \in Function /\ saved'[t] = flags[at[t]]
    BY <1>0, <2>1 DEF Done, Program, Placed, Function, RestOK
  <2> QED BY <1>0, <2>1, <2>2, <2>3, DoneTypes DEF Place, RestOK, Held
<1>5. ASSUME NEW t \in Thread, SetFlags(t) PROVE Good
  <2>1. PICK s \in {"clear", "restore"} :
          /\ Done(t, s, Follows(kind[t], s))
          /\ flags' = [flags EXCEPT ![at[t]] = IF s = "clear" THEN "none" ELSE saved[t]]
          /\ saved' = [saved EXCEPT ![t] = IF s = "clear" THEN @ ELSE ""]
          /\ UNCHANGED <<level, prefix, locked, ended, mine, settled, muddled>>
    BY <1>5 DEF SetFlags
  <2>2. kind[t] = "println" /\ KeepsFlags(t) /\ saved[t] \in FlagSet
    BY <2>1 DEF Done, Program, Placed, KeepsFlags
  <2>3. Follows(kind[t], s) = IF s = "clear" THEN "prefix" ELSE "unlock"
    BY <2>1, <2>2, FollowsFacts
  <2>4. RestOK'
    BY <1>0, <2>1, <2>2, <2>3, DoneFacts DEF RestOK, Place, FlagSet
  <2>5. /\ s = "clear" => saved'[t] \in FlagSet
        /\ \A u \in Thread \ {t} : saved'[u] = saved[u]
    BY <1>0, <2>1, <2>2 DEF RestOK
  <2> QED BY <2>1, <2>2, <2>3, <2>4, <2>5, DoneTypes DEF Place, Held, Function
<1>6. ASSUME NEW t \in Thread, SetPrefix(t) PROVE Good
  <2>1. PICK s \in {"prefix", "reset"} :
          /\ Done(t, s, Follows(kind[t], s))
          /\ prefix' = [prefix EXCEPT ![at[t]] = IF s = "prefix" THEN kind[t] ELSE "blank"]
          /\ UNCHANGED <<level, flags, locked, ended, saved, mine, settled, muddled>>
    BY <1>6 DEF SetPrefix
  <2>2. kind[t] \in Function /\ (kind[t] = "println" => saved[t] \in FlagSet)
    BY <2>1 DEF Done, Program, Placed, KeepsFlags, Held
  <2>3. Follows(kind[t], s) = IF s = "prefix" THEN "output"
                              ELSE IF kind[t] = "println" THEN "restore" ELSE "unlock"
    BY <2>1, FollowsFacts
  <2>4. RestOK'
    BY ZenonT(60), <1>0, <2>1, <2>2, <2>3, DoneFacts DEF RestOK, Place
  <2> QED BY <2>1, <2>2, <2>3, <2>4, DoneTypes DEF Place, Held
<1>7. ASSUME NEW t \in Thread, Output(t) PROVE Good
  <2>1. Done(t, "output", "reset") /\ UNCHANGED <<logVars, ended, saved, mine, settled, muddled>>
    BY <1>7 DEF Output
  <2>2. RestOK'
    BY <1>0, <2>1, DoneFacts DEF logVars, RestOK, Place
  <2>3. kind[t] \in Function /\ (kind[t] = "println" => saved[t] \in FlagSet)
    BY <2>1 DEF Done, Program, Placed, KeepsFlags, Held
  <2> QED BY <2>1, <2>2, <2>3, DoneTypes DEF Place, Held
<1>8. ASSUME NEW t \in Thread, Unlock(t) PROVE Good
  <2>1. Done(t, "unlock", "idle") /\ 0 \in 0 .. mylogger
    BY <1>8, LogFacts DEF Unlock
  <2>2. RestOK'
    BY <1>0, <1>8, <2>1, DoneFacts DEF Unlock, RestOK, Place
  <2> QED BY <1>8, <2>1, <2>2, DoneTypes DEF Unlock, Place, Held
<1>9. ASSUME NEW t \in Thread, SetLevel(t) PROVE Good
  <2> DEFINE next == IF saved[t] \in Level THEN "flags" ELSE "idle"
  <2>1. Done(t, "level", next) /\ next \in {"flags", "idle"} /\ 0 \in 0 .. mylogger
    BY <1>9, LogFacts DEF SetLevel
  <2> HIDE DEF next
  <2>2. RestOK'
    BY <1>0, <1>9, <2>1, DoneFacts DEF SetLevel, RestOK, Place
  <2>3. kind[t] \in Level \union {""}
    BY <2>1 DEF Done, Program, Placed
  <2> QED BY <1>9, <2>1, <2>2, <2>3, DoneTypes DEF SetLevel, Place, Held
<1>10. ASSUME NEW t \in Thread, SetLevelFlags(t) PROVE Good
  <2>1. Done(t, "flags", "idle") /\ 0 \in 0 .. mylogger /\ FlagsOf(saved[t]) \in FlagSet
    BY <1>10, LogFacts DEF SetLevelFlags, FlagsOf, FlagSet
  <2>2. RestOK'
    <3>1. muddled' \in BOOLEAN
      BY <1>10 DEF SetLevelFlags, TypeOK
    <3> QED BY <1>0, <1>10, <2>1, <3>1, DoneFacts DEF SetLevelFlags, RestOK, Place
  <2> QED BY <1>0, <1>10, <2>1, <2>2, DoneTypes DEF SetLevelFlags, Place, RestOK, Held
<1>11. ASSUME NEW t \in Caller, NEW k \in role[t] \ {"load"}, Call(t, k) PROVE Good
  <2>1. k \in Function \union Level /\ t # Timer /\ t \in Thread
    BY ThreadAssumption DEF Thread, TypeOK
  <2>2. /\ pc[t] = "idle" /\ kind' = [kind EXCEPT ![t] = k]
        /\ pc' = [pc EXCEPT ![t] = IF k = "println" THEN "lock"
                                   ELSE IF k \in Level THEN "level" ELSE "ask1"]
        /\ saved' = [saved EXCEPT ![t] = IF k \in Level THEN k ELSE ""]
        /\ settled' = [settled EXCEPT ![t] = TRUE]
        /\ UNCHANGED <<mylogger, level, prefix, flags, locked, ended, role, at, mine, astray,
                       muddled>>
    BY <1>11 DEF Call, logVars
  <2>3. TypeOK'
    BY <2>1, <2>2 DEF TypeOK, Place
  <2>4. ASSUME NEW u \in Thread PROVE Placed(u)'
    BY ZenonT(60), <2>1, <2>2 DEF TypeOK, Program, Placed, KeepsFlags, Held, Function, Level
  <2> QED BY <2>3, <2>4 DEF Program
<1>12. CASE Midnight
  <2>1. /\ pc[Timer] = "idle" /\ mylogger < MaxLogger /\ pc' = [pc EXCEPT ![Timer] = "open"]
        /\ DOMAIN saved' = DOMAIN saved /\ (\A u \in Thread \ {Timer} : saved'[u] = saved[u])
        /\ ended' \in {"", "map"}
        /\ UNCHANGED <<mylogger, level, prefix, flags, locked, role, kind, at, mine, settled,
                       astray, muddled>>
    BY <1>12 DEF Midnight, ReadOutcome, logVars, histVars, TypeOK
  <2>2. TypeOK'
    BY <2>1 DEF TypeOK, Place
  <2>3. ASSUME NEW u \in Thread PROVE Placed(u)'
    BY <2>1 DEF TypeOK, Program, Placed, KeepsFlags, Held
  <2> QED BY <2>2, <2>3 DEF Program
<1>13. CASE Open
  <2>1. /\ pc[Timer] = "open" /\ pc' = [pc EXCEPT ![Timer] = "publish"]
        /\ DOMAIN saved' = DOMAIN saved /\ (\A u \in Thread \ {Timer} : saved'[u] = saved[u])
        /\ ended' \in {"", "map", "file"}
        /\ UNCHANGED <<mylogger, level, prefix, flags, locked, role, kind, at, mine, settled,
                       astray, muddled>>
    BY <1>13 DEF Open, ReadOutcome, logVars, histVars, TypeOK
  <2>2. TypeOK'
    BY <2>1 DEF TypeOK, Place
  <2>3. ASSUME NEW u \in Thread PROVE Placed(u)'
    BY <2>1 DEF TypeOK, Program, Placed, KeepsFlags, Held
  <2> QED BY <2>2, <2>3 DEF Program
<1>14. CASE Publish
  <2>1. /\ pc[Timer] = "publish" /\ pc' = [pc EXCEPT ![Timer] = "level"]
        /\ mylogger' = mylogger + 1 /\ settled' = [u \in Thread |-> FALSE]
        /\ UNCHANGED <<level, prefix, flags, locked, ended, role, kind, at, saved, mine,
                       astray, muddled>>
    BY <1>14 DEF Publish, logVars
  <2>2. Timer \in Thread /\ mylogger < MaxLogger
    BY <2>1 DEF Thread, Program, Placed
  <2>3. /\ mylogger' \in Log
        /\ \A f : f \in [Thread -> 0 .. mylogger] => f \in [Thread -> 0 .. mylogger']
    BY <2>1, <2>2, LogFacts, ThreadAssumption DEF Log
  <2>4. TypeOK'
    BY <2>1, <2>3 DEF TypeOK, Place
  <2>5. ASSUME NEW u \in Thread PROVE Placed(u)'
    BY <2>1, <2>2 DEF TypeOK, Program, Placed, KeepsFlags, Held
  <2> QED BY <2>4, <2>5 DEF Program
<1>15. CASE Configure \/ UNCHANGED vars
  BY ZenonT(60), <1>15 DEF Configure, vars, threadVars, histVars, logVars, TypeOK, Program,
                           Placed, KeepsFlags
<1> QED BY <1>1, <1>2, <1>3, <1>4, <1>5, <1>6, <1>7, <1>8, <1>9, <1>10, <1>11, <1>12, <1>13,
           <1>14, <1>15 DEF Next, Statement, Change

-----------------------------------------------------------------------------
(* Mutual exclusion. *)

\* A step that is no statement of a function, or loads mylogger only: whoever holds a
\* mutex or is about to set flags stays where it is, and loggers are as they were.
Outside ==
  /\ UNCHANGED <<level, prefix, flags, locked, mine, astray, muddled>>
  /\ \A u \in Thread : pc[u] \in Held \union {"flags"} \/ pc'[u] \in Held \union {"flags"} =>
       pc'[u] = pc[u] /\ kind'[u] = kind[u] /\ saved'[u] = saved[u]

Other == \/ \E t \in Thread : Fetch(t)
         \/ \E t \in Caller : \E k \in role[t] \ {"load"} : Call(t, k)
         \/ Change \/ Configure \/ UNCHANGED vars

LEMMA OutsideFacts == TypeOK /\ Other => Outside
<1> SUFFICES ASSUME TypeOK, Other PROVE Outside
  OBVIOUS
<1>1. ASSUME NEW t \in Thread, Fetch(t) PROVE Outside
  BY <1>1 DEF Fetch, Outside, logVars, histVars
<1>2. ASSUME NEW t \in Caller, NEW k \in role[t] \ {"load"}, Call(t, k) PROVE Outside
  BY <1>2 DEF Call, Outside, logVars, TypeOK, Thread, Held
<1>3. CASE Midnight
  BY <1>3 DEF Midnight, Outside, logVars, histVars, TypeOK, Thread, Held
<1>4. CASE Open
  BY <1>4 DEF Open, Outside, logVars, histVars, TypeOK, Thread, Held
<1>5. CASE Publish
  BY <1>5 DEF Publish, Outside, logVars, TypeOK, Thread, Held
<1>6. CASE Configure \/ UNCHANGED vars
  BY <1>6 DEF Configure, vars, Outside, logVars, histVars, threadVars
<1> QED BY <1>1, <1>2, <1>3, <1>4, <1>5, <1>6 DEF Other, Change

\* What every step is.
LEMMA Steps ==
  ASSUME [Next]_vars
  PROVE  \/ Other
         \/ \E t \in Thread : \/ Ask(t) \/ Lock(t) \/ SaveFlags(t) \/ SetFlags(t) \/ SetPrefix(t)
                              \/ Output(t) \/ Unlock(t) \/ SetLevel(t) \/ SetLevelFlags(t)
BY DEF Next, Statement, Other

\* The places that a statement of each kind comes from and leads to.
LEMMA Moves ==
  ASSUME TypeOK, Program, NEW t \in Thread
  PROVE  /\ Ask(t) => pc[t] \notin Held \union {"flags"} /\ pc'[t] \notin Held \union {"flags"}
         /\ Lock(t) => pc[t] = "lock" /\ pc'[t] \in {"save", "prefix"}
         /\ SaveFlags(t) => pc[t] = "save" /\ pc'[t] = "clear"
         /\ SetFlags(t) => \/ pc[t] = "clear" /\ pc'[t] = "prefix"
                           \/ pc[t] = "restore" /\ pc'[t] = "unlock"
         /\ SetPrefix(t) => \/ pc[t] = "prefix" /\ pc'[t] = "output"
                            \/ pc[t] = "reset" /\ pc'[t] = "restore" /\ kind[t] = "println"
                            \/ pc[t] = "reset" /\ pc'[t] = "unlock" /\ kind[t] # "println"
         /\ Output(t) => pc[t] = "output" /\ pc'[t] = "reset"
         /\ Unlock(t) => pc[t] = "unlock" /\ pc'[t] = "idle"
         /\ SetLevel(t) => pc[t] = "level" /\ pc'[t] = IF saved[t] \in Level THEN "flags" ELSE "idle"
         /\ SetLevelFlags(t) => pc[t] = "flags" /\ pc'[t] = "idle"
<1>1. ASSUME Ask(t) PROVE pc[t] \in {"ask1", "ask2", "ask3"} /\ pc'[t] \in {"lock", "ask2", "ask3", "idle"}
  <2>1. PICK i \in DOMAIN Asks(kind[t]) :
          Done(t, <<"ask1", "ask2", "ask3">>[i],
               CASE level[at[t]] = Asks(kind[t])[i] -> "lock"
                 [] level[at[t]] # Asks(kind[t])[i] /\ i < Len(Asks(kind[t])) ->
                      <<"ask2", "ask3">>[i]
                 [] OTHER -> "idle")
    BY <1>1 DEF Ask
  <2>2. i \in 1 .. 3 /\ (i < Len(Asks(kind[t])) => i \in 1 .. 2)
    BY DEF Asks
  <2>3. pc[t] = <<"ask1", "ask2", "ask3">>[i]
    BY <2>1 DEF Done
  <2>4. pc'[t] = CASE level[at[t]] = Asks(kind[t])[i] -> "lock"
                   [] level[at[t]] # Asks(kind[t])[i] /\ i < Len(Asks(kind[t])) ->
                        <<"ask2", "ask3">>[i]
                   [] OTHER -> "idle"
    BY <2>1 DEF Done, TypeOK
  <2> QED BY <2>2, <2>3, <2>4
<1>2. ASSUME NEW s, NEW next, Done(t, s, next) PROVE pc[t] = s /\ pc'[t] = next
  BY <1>2 DEF Done, TypeOK
<1>3. Lock(t) => pc[t] = "lock" /\ pc'[t] \in {"save", "prefix"}
  BY <1>2, FollowsFacts DEF Lock
<1>4. SetFlags(t) => \/ pc[t] = "clear" /\ pc'[t] = "prefix"
                     \/ pc[t] = "restore" /\ pc'[t] = "unlock"
  <2> SUFFICES ASSUME SetFlags(t)
               PROVE  \/ pc[t] = "clear" /\ pc'[t] = "prefix"
                      \/ pc[t] = "restore" /\ pc'[t] = "unlock"
    OBVIOUS
  <2>1. PICK s \in {"clear", "restore"} : Done(t, s, Follows(kind[t], s))
    BY DEF SetFlags
  <2>2. pc[t] = s /\ pc'[t] = Follows(kind[t], s)
    BY <1>2, <2>1
  <2>3. kind[t] = "println"
    BY <2>2 DEF Program, Placed
  <2> QED BY <2>2, <2>3, FollowsFacts
<1>5. SetPrefix(t) => \/ pc[t] = "prefix" /\ pc'[t] = "output"
                      \/ pc[t] = "reset" /\ pc'[t] = "restore" /\ kind[t] = "println"
                      \/ pc[t] = "reset" /\ pc'[t] = "unlock" /\ kind[t] # "println"
  <2> SUFFICES ASSUME SetPrefix(t)
               PROVE  \/ pc[t] = "prefix" /\ pc'[t] = "output"
                      \/ pc[t] = "reset" /\ pc'[t] = "restore" /\ kind[t] = "println"
                      \/ pc[t] = "reset" /\ pc'[t] = "unlock" /\ kind[t] # "println"
    OBVIOUS
  <2>1. PICK s \in {"prefix", "reset"} : Done(t, s, Follows(kind[t], s))
    BY DEF SetPrefix
  <2>2. pc[t] = s /\ pc'[t] = Follows(kind[t], s)
    BY <1>2, <2>1
  <2> QED BY <2>2, FollowsFacts
<1>6. /\ SaveFlags(t) => pc[t] = "save" /\ pc'[t] = "clear"
      /\ Output(t) => pc[t] = "output" /\ pc'[t] = "reset"
      /\ Unlock(t) => pc[t] = "unlock" /\ pc'[t] = "idle"
  BY <1>2 DEF SaveFlags, Output, Unlock
<1>7. /\ SetLevel(t) => pc[t] = "level" /\ pc'[t] = IF saved[t] \in Level THEN "flags" ELSE "idle"
      /\ SetLevelFlags(t) => pc[t] = "flags" /\ pc'[t] = "idle"
  BY <1>2 DEF SetLevel, SetLevelFlags
<1> QED BY <1>1, <1>3, <1>4, <1>5, <1>6, <1>7 DEF Held

\* Every statement leaves the other threads where they are, and is astray unless its
\* logger is the thread's own.
LEMMA Apart ==
  ASSUME TypeOK, NEW t \in Thread,
         \/ Ask(t) \/ Lock(t) \/ SaveFlags(t) \/ SetFlags(t) \/ SetPrefix(t)
         \/ Output(t) \/ Unlock(t) \/ SetLevel(t) \/ SetLevelFlags(t)
  PROVE  /\ \A u \in Thread \ {t} : /\ pc'[u] = pc[u] /\ kind'[u] = kind[u] /\ at'[u] = at[u]
                                   /\ mine'[u] = mine[u] /\ saved'[u] = saved[u]
         /\ ~astray' => ~astray /\ mine[t] \in {0, at[t]}
         /\ at[t] \in Log
<1>1. PICK s, next : Done(t, s, next)
  BY DEF Ask, Lock, SaveFlags, SetFlags, SetPrefix, Output, Unlock, SetLevel, SetLevelFlags
<1>2. \A u \in Thread \ {t} : pc'[u] = pc[u] /\ kind'[u] = kind[u] /\ at'[u] = at[u]
  BY <1>1 DEF Done, TypeOK
<1>3. /\ ~astray' => ~astray /\ mine[t] \in {0, at[t]}
      /\ at[t] \in Log
  BY <1>1, LogFacts DEF Done, TypeOK
<1>4. \A u \in Thread \ {t} : mine'[u] = mine[u] /\ saved'[u] = saved[u]
  BY DEF Ask, Lock, SaveFlags, SetFlags, SetPrefix, Output, Unlock, SetLevel, SetLevelFlags, TypeOK
<1> QED BY <1>2, <1>3, <1>4

\* As long as no call is astray, each holds a mutex of its own.
Kept == ~astray => Exclusive

LEMMA Holds ==
  ASSUME Exclusive, NEW u \in Thread, pc[u] \in Held
  PROVE  /\ mine[u] \in Log /\ locked[mine[u]]
         /\ \A v \in Thread \ {u} : pc[v] \in Held => mine[v] # mine[u]
BY DEF Exclusive

LEMMA ExclusiveStays ==
  ASSUME Exclusive, UNCHANGED locked,
         \A u \in Thread : pc'[u] \in Held => pc[u] \in Held /\ mine'[u] = mine[u]
  PROVE  Exclusive'
<1>1. ASSUME NEW u \in Thread, pc'[u] \in Held
      PROVE  /\ mine'[u] \in Log /\ locked'[mine'[u]]
             /\ \A v \in Thread \ {u} : pc'[v] \in Held => mine'[v] # mine'[u]
  BY <1>1, Holds
<1> QED BY <1>1 DEF Exclusive

LEMMA KeptStep == TypeOK /\ Program /\ Kept /\ FatalOnlyAstray /\ ended = "" /\ [Next]_vars
                    => Kept' /\ FatalOnlyAstray'
<1> SUFFICES ASSUME TypeOK, Program, Kept, ended = "", [Next]_vars
             PROVE  Kept' /\ FatalOnlyAstray'
  OBVIOUS
<1>1. ASSUME Other PROVE Kept' /\ FatalOnlyAstray'
  <2>1. Kept'
    BY <1>1, OutsideFacts, ExclusiveStays DEF Outside, Kept
  <2>2. ended' # "unlock"
    BY <1>1 DEF Other, Fetch, Call, Change, Midnight, Open, Publish, Configure, ReadOutcome, vars
  <2> QED BY <2>1, <2>2 DEF FatalOnlyAstray
<1>2. ASSUME NEW t \in Thread,
             \/ Ask(t) \/ SaveFlags(t) \/ SetFlags(t) \/ SetPrefix(t) \/ Output(t)
             \/ SetLevel(t) \/ SetLevelFlags(t)
      PROVE  Kept' /\ FatalOnlyAstray'
  <2>1. UNCHANGED <<locked, ended>>
    BY <1>2 DEF Ask, SaveFlags, SetFlags, SetPrefix, Output, SetLevel, SetLevelFlags, logVars
  <2>2. \/ pc'[t] \notin Held
        \/ pc[t] \in Held /\ mine'[t] = mine[t]
    BY <1>2, Moves DEF SaveFlags, SetFlags, SetPrefix, Output, Held
  <2>3. Kept'
    <3>1. \A u \in Thread : pc'[u] \in Held => pc[u] \in Held /\ mine'[u] = mine[u]
      BY <1>2, <2>2, Apart
    <3>2. ~astray' => ~astray
      BY <1>2, Apart
    <3> QED BY <2>1, <3>1, <3>2, ExclusiveStays DEF Kept
  <2> QED BY <2>1, <2>3 DEF FatalOnlyAstray
<1>3. ASSUME NEW t \in Thread, Lock(t) PROVE Kept' /\ FatalOnlyAstray'
  <2>1. /\ ~locked[at[t]] /\ at[t] \in Log /\ mine'[t] = at[t] /\ locked'[at[t]]
        /\ \A l \in Log : locked[l] => locked'[l]
        /\ ended' = ended
    BY <1>3, Apart DEF Lock, TypeOK
  <2>2. ASSUME ~astray' PROVE Exclusive'
    <3>1. /\ Exclusive
          /\ \A u \in Thread \ {t} : pc'[u] = pc[u] /\ mine'[u] = mine[u]
      BY <1>3, <2>2, Apart DEF Kept
    <3>2. \A u \in Thread \ {t} : pc'[u] \in Held =>
            mine'[u] \in Log /\ locked'[mine'[u]] /\ mine'[u] # mine'[t]
      BY <2>1, <3>1 DEF Exclusive
    <3>3. \A u, v \in Thread \ {t} : pc'[u] \in Held /\ pc'[v] \in Held /\ u # v =>
            mine'[u] # mine'[v]
      BY ZenonT(60), <3>1 DEF Exclusive
    <3> QED BY <2>1, <3>2, <3>3 DEF Exclusive
  <2> QED BY <2>1, <2>2 DEF Kept, FatalOnlyAstray
<1>4. ASSUME NEW t \in Thread, Unlock(t) PROVE Kept' /\ FatalOnlyAstray'
  <2>1. /\ locked' = [locked EXCEPT ![at[t]] = FALSE]
        /\ ended' = (IF locked[at[t]] THEN "" ELSE "unlock")
        /\ pc[t] \in Held /\ pc'[t] \notin Held /\ at[t] \in Log
    BY <1>4, Apart, Moves DEF Unlock, Held
  <2>2. ASSUME ~astray' PROVE Exclusive' /\ ended' # "unlock"
    <3>1. /\ Exclusive /\ mine[t] \in {0, at[t]}
          /\ \A u \in Thread \ {t} : pc'[u] = pc[u] /\ mine'[u] = mine[u]
      BY <1>4, <2>2, Apart DEF Kept
    <3>2. mine[t] = at[t] /\ locked[at[t]]
      BY <2>1, <3>1, LogFacts DEF Exclusive
    <3>3. ASSUME NEW u \in Thread, pc'[u] \in Held
          PROVE  /\ mine'[u] \in Log /\ locked'[mine'[u]]
                 /\ \A v \in Thread \ {u} : pc'[v] \in Held => mine'[v] # mine'[u]
      <4>1. u # t /\ pc[u] \in Held /\ mine'[u] = mine[u]
        BY <2>1, <3>1, <3>3
      <4>2. mine[u] \in Log /\ locked[mine[u]] /\ mine[u] # at[t]
        BY <2>1, <3>1, <3>2, <4>1, Holds
      <4>3. locked'[mine[u]]
        BY <2>1, <4>2 DEF TypeOK
      <4>4. ASSUME NEW v \in Thread \ {u}, pc'[v] \in Held PROVE mine'[v] # mine'[u]
        <5>1. v # t /\ pc[v] \in Held /\ mine'[v] = mine[v]
          BY <2>1, <3>1, <4>4
        <5> QED BY <3>1, <4>1, <5>1, Holds
      <4> QED BY <4>1, <4>2, <4>3, <4>4
    <3> QED BY <2>1, <3>2, <3>3 DEF Exclusive
  <2> QED BY <2>2 DEF Kept, FatalOnlyAstray
<1> QED BY <1>1, <1>2, <1>3, <1>4, Steps

-----------------------------------------------------------------------------
(* Lines. *)

\* What a call has put before its line, and that Println has taken the flags away.
Prefixed == ~astray => \A t \in Thread : pc[t] = "output" => prefix[mine[t]] = kind[t]
Unflagged ==
  ~astray /\ ~muddled =>
    \A t \in Thread :
      kind[t] = "println" /\ pc[t] \in {"prefix", "output", "reset", "restore"} =>
        flags[mine[t]] = "none"

LEMMA LineStep == TypeOK /\ Program /\ Kept /\ Prefixed /\ Unflagged /\ [Next]_vars
                    => Prefixed' /\ Unflagged'
<1> SUFFICES ASSUME TypeOK, Program, Kept, Prefixed, Unflagged, [Next]_vars
             PROVE  Prefixed' /\ Unflagged'
  OBVIOUS
<1>1. CASE Other
  BY <1>1, OutsideFacts DEF Outside, Prefixed, Unflagged, Held
<1>2. ASSUME NEW t \in Thread,
             \/ Ask(t) \/ Lock(t) \/ SaveFlags(t) \/ Output(t) \/ Unlock(t) \/ SetLevel(t)
      PROVE  Prefixed' /\ Unflagged'
  <2>1. /\ UNCHANGED <<prefix, flags, muddled>>
        /\ pc'[t] # "output" /\ (pc'[t] = "prefix" => pc[t] = "lock" /\ kind[t] # "println")
        /\ pc'[t] # "restore" /\ (pc'[t] = "reset" => pc[t] = "output" /\ mine'[t] = mine[t])
    <3>1. UNCHANGED <<prefix, flags, muddled>>
      BY <1>2 DEF Ask, Lock, SaveFlags, Output, Unlock, SetLevel, logVars
    <3>2. Lock(t) => pc'[t] = Follows(kind[t], "lock")
      BY DEF Lock, Done, TypeOK
    <3>3. Output(t) => mine' = mine
      BY DEF Output
    <3> QED BY <1>2, <3>1, <3>2, <3>3, Moves, FollowsFacts DEF Held
  <2>2. kind'[t] = kind[t] \/ kind'[t] = ""
    BY <1>2 DEF Ask, Lock, SaveFlags, Output, Unlock, SetLevel, Done, TypeOK
  <2>3. Prefixed'
    BY <1>2, <2>1, Apart DEF Prefixed
  <2>4. Unflagged'
    <3> SUFFICES ASSUME ~astray', ~muddled', NEW u \in Thread, kind'[u] = "println",
                        pc'[u] \in {"prefix", "output", "reset", "restore"}
                 PROVE  flags'[mine'[u]] = "none"
      BY DEF Unflagged
    <3>1. ~astray /\ ~muddled
      BY <1>2, <2>1, Apart
    <3>2. CASE u = t
      BY <2>1, <2>2, <3>1, <3>2 DEF Unflagged
    <3>3. CASE u # t
      BY <1>2, <2>1, <3>1, <3>3, Apart DEF Unflagged
    <3> QED BY <3>2, <3>3
  <2> QED BY <2>3, <2>4
\* A holder writes to the logger that it holds, which no other thread holds.
<1>3. ASSUME NEW t \in Thread, SetFlags(t) \/ SetPrefix(t), ~astray'
      PROVE  /\ ~astray /\ mine[t] = at[t] /\ UNCHANGED <<mine, muddled>>
             /\ \A u \in Thread \ {t} : pc[u] \in Held => mine[u] # at[t]
  <2>1. pc[t] \in Held /\ UNCHANGED <<mine, muddled>>
    BY <1>3, Moves DEF SetFlags, SetPrefix, Held
  <2>2. ~astray /\ mine[t] \in {0, at[t]}
    BY <1>3, Apart
  <2> QED BY <2>1, <2>2, LogFacts DEF Kept, Exclusive
<1>4. ASSUME NEW t \in Thread, SetFlags(t) PROVE Prefixed' /\ Unflagged'
  <2>1. /\ \A l \in Log : l # at[t] => flags'[l] = flags[l]
        /\ UNCHANGED prefix
        /\ pc[t] = "clear" => flags'[at[t]] = "none"
    <3>1. PICK s \in {"clear", "restore"} :
            /\ pc[t] = s
            /\ flags' = [flags EXCEPT ![at[t]] = IF s = "clear" THEN "none" ELSE saved[t]]
            /\ UNCHANGED prefix
      BY <1>4 DEF SetFlags, Done
    <3>2. at[t] \in Log /\ flags \in [Log -> {"std", "file", "none"}]
      BY <1>4, Apart DEF TypeOK
    <3> QED BY <3>1, <3>2
  <2>2. Prefixed'
    BY <1>3, <1>4, <2>1, Apart, Moves DEF Prefixed
  <2>3. Unflagged'
    <3> SUFFICES ASSUME ~astray', ~muddled', NEW u \in Thread, kind'[u] = "println",
                        pc'[u] \in {"prefix", "output", "reset", "restore"}
                 PROVE  flags'[mine'[u]] = "none"
      BY DEF Unflagged
    <3>1. CASE u = t
      BY <1>3, <1>4, <2>1, <3>1, Moves
    <3>2. CASE u # t
      <4>1. /\ kind[u] = "println" /\ pc[u] = pc'[u] /\ mine'[u] = mine[u] /\ ~astray /\ ~muddled
            /\ mine[u] # at[t] /\ mine[u] \in Log
        BY <1>3, <1>4, <3>2, Apart, Holds DEF Held, Kept
      <4> QED BY <2>1, <4>1 DEF Unflagged
    <3> QED BY <3>1, <3>2
  <2> QED BY <2>2, <2>3
<1>5. ASSUME NEW t \in Thread, SetPrefix(t) PROVE Prefixed' /\ Unflagged'
  <2>1. /\ pc[t] = "prefix" => prefix'[at[t]] = kind[t]
        /\ \A l \in Log : l # at[t] => prefix'[l] = prefix[l]
        /\ UNCHANGED flags
        /\ kind'[t] \in {kind[t], ""}
    <3>1. PICK s \in {"prefix", "reset"} :
            /\ Done(t, s, Follows(kind[t], s))
            /\ prefix' = [prefix EXCEPT ![at[t]] = IF s = "prefix" THEN kind[t] ELSE "blank"]
            /\ UNCHANGED flags
      BY <1>5 DEF SetPrefix
    <3>2. at[t] \in Log /\ prefix \in [Log -> Function \union {"", "blank"}]
      BY <1>5, Apart DEF TypeOK
    <3>3. kind'[t] \in {kind[t], ""} /\ pc[t] = s
      BY <3>1 DEF Done, TypeOK
    <3>4. prefix'[at[t]] = IF s = "prefix" THEN kind[t] ELSE "blank"
      BY <3>1, <3>2
    <3>5. \A l \in Log : l # at[t] => prefix'[l] = prefix[l]
      BY <3>1, <3>2
    <3> QED BY <3>1, <3>3, <3>4, <3>5
  <2>2. Prefixed'
    <3> SUFFICES ASSUME ~astray', NEW u \in Thread, pc'[u] = "output"
                 PROVE  prefix'[mine'[u]] = kind'[u]
      BY DEF Prefixed
    <3>1. CASE u = t
      <4>1. pc[t] = "prefix" /\ kind'[t] = kind[t]
        BY <1>5, <3>1, Moves DEF SetPrefix, Done, TypeOK
      <4> QED BY <1>3, <1>5, <2>1, <3>1, <4>1
    <3>2. CASE u # t
      <4>1. /\ pc[u] = "output" /\ kind'[u] = kind[u] /\ mine'[u] = mine[u] /\ ~astray
            /\ mine[u] # at[t] /\ mine[u] \in Log
        BY <1>3, <1>5, <3>2, Apart, Holds DEF Held, Kept
      <4> QED BY <2>1, <4>1 DEF Prefixed
    <3> QED BY <3>1, <3>2
  <2>3. Unflagged'
    <3> SUFFICES ASSUME ~astray', ~muddled', NEW u \in Thread, kind'[u] = "println",
                        pc'[u] \in {"prefix", "output", "reset", "restore"}
                 PROVE  flags'[mine'[u]] = "none"
      BY DEF Unflagged
    <3>1. ~astray /\ ~muddled /\ mine'[u] = mine[u] /\ flags' = flags
      BY <1>3, <1>5, <2>1
    <3>2. kind[u] = "println" /\ pc[u] \in {"prefix", "output", "reset", "restore"}
      BY ZenonT(60), <1>5, <2>1, Apart, Moves
    <3> QED BY <3>1, <3>2 DEF Unflagged
  <2> QED BY <2>2, <2>3
<1>6. ASSUME NEW t \in Thread, SetLevelFlags(t) PROVE Prefixed' /\ Unflagged'
  <2>1. /\ UNCHANGED prefix /\ pc'[t] = "idle"
        /\ ~muddled' => ~muddled /\ \A u \in Thread \ {t} : ~KeepsFlags(u)
    BY <1>6, Moves DEF SetLevelFlags
  <2>2. Prefixed'
    BY <1>6, <2>1, Apart DEF Prefixed
  <2>3. Unflagged'
    BY <1>6, <2>1, Apart DEF Unflagged, KeepsFlags
  <2> QED BY <2>2, <2>3
<1> QED BY <1>1, <1>2, <1>4, <1>5, <1>6, Steps

-----------------------------------------------------------------------------
(* Levels. *)

\* While nobody sets a level or replaces the logger, what a call has found out stays true.
FoundOut(t) ==
  settled[t] =>
    /\ at[t] \in {0, mylogger}
    /\ kind[t] = "debug" /\ pc[t] \in {"lock", "prefix", "output"} => level[mylogger] = "DEBUG"
    /\ kind[t] = "error" /\ pc[t] = "ask2" => level[mylogger] # "INFO"
    /\ kind[t] = "error" /\ pc[t] = "ask3" => level[mylogger] = "ERROR"
Informed == \A t \in Thread : FoundOut(t)

\* A call of Err that ends without a line has not been left alone.
ErrOver == \A t \in Thread : kind[t] = "error" /\ pc[t] # "unlock" /\ pc'[t] = "idle" => ~settled[t]

LEMMA StaysFound ==
  ASSUME Informed, NEW u \in Thread, UNCHANGED <<mylogger, level, settled>>,
         at'[u] = at[u], kind'[u] = kind[u], pc'[u] = pc[u]
  PROVE  FoundOut(u)'
<1>1. FoundOut(u)
  BY DEF Informed
<1> QED BY <1>1 DEF FoundOut

LEMMA LevelStep == TypeOK /\ Program /\ Informed /\ [Next]_vars => Informed' /\ ErrOver
<1> SUFFICES ASSUME TypeOK, Program, Informed, [Next]_vars PROVE Informed' /\ ErrOver
  OBVIOUS
<1>1. ASSUME NEW t \in Thread, Fetch(t) PROVE Informed' /\ ErrOver
  <2>1. /\ at' = [at EXCEPT ![t] = mylogger] /\ pc[t] # "idle"
        /\ UNCHANGED <<mylogger, level, pc, kind, settled>>
    BY <1>1 DEF Fetch, logVars, histVars
  <2>2. ASSUME NEW u \in Thread PROVE FoundOut(u)'
    BY <2>1 DEF TypeOK, Informed, FoundOut
  <2>3. ErrOver
    BY <2>1 DEF ErrOver, Program, Placed
  <2> QED BY <2>2, <2>3 DEF Informed
<1>2. ASSUME NEW t \in Caller, NEW k \in role[t] \ {"load"}, Call(t, k)
      PROVE  Informed' /\ ErrOver
  <2>1. /\ t \in Thread /\ pc[t] = "idle" /\ at[t] = 0 /\ pc'[t] \in {"lock", "level", "ask1"}
        /\ pc'[t] = "lock" => kind'[t] = "println"
        /\ \A u \in Thread \ {t} : pc'[u] = pc[u] /\ kind'[u] = kind[u] /\ settled'[u] = settled[u]
        /\ UNCHANGED <<mylogger, level, at>>
    BY <1>2 DEF Call, logVars, Thread, TypeOK, Program, Placed
  <2>2. ASSUME NEW u \in Thread PROVE FoundOut(u)'
    BY <2>1 DEF Informed, FoundOut
  <2>3. ErrOver
    BY <2>1 DEF ErrOver, Program, Placed
  <2> QED BY <2>2, <2>3 DEF Informed
<1>3. CASE Midnight \/ Open
  <2>1. /\ pc[Timer] \in {"idle", "open"} /\ Timer \in Thread /\ pc'[Timer] \in {"open", "publish"}
        /\ \A u \in Thread \ {Timer} : pc'[u] = pc[u]
        /\ UNCHANGED <<mylogger, level, at, kind, settled>>
    BY <1>3 DEF Midnight, Open, logVars, histVars, TypeOK, Thread
  <2>2. ASSUME NEW u \in Thread PROVE FoundOut(u)'
    BY <2>1 DEF Informed, FoundOut
  <2>3. ErrOver
    BY <2>1 DEF ErrOver, Program, Placed
  <2> QED BY <2>2, <2>3 DEF Informed
<1>4. ASSUME NEW t \in Thread, Publish \/ SetLevel(t) PROVE Informed' /\ ErrOver
  <2>1. \A u \in Thread : ~settled'[u]
    BY <1>4 DEF Publish, SetLevel
  <2>2. ErrOver
    <3>1. CASE Publish
      BY <3>1 DEF Publish, ErrOver, Program, Placed, TypeOK, Thread
    <3>2. CASE SetLevel(t)
      <4>1. kind[t] # "error"
        BY <3>2, Moves DEF Program, Placed, Level
      <4> QED BY ZenonT(60), <3>2, <4>1, Apart DEF ErrOver, Program, Placed
    <3> QED BY <1>4, <3>1, <3>2
  <2> QED BY <2>1, <2>2 DEF Informed, FoundOut
<1>5. CASE Configure \/ UNCHANGED vars
  BY <1>5 DEF Configure, vars, logVars, histVars, threadVars, Informed, FoundOut, ErrOver,
              Program, Placed
<1>6. ASSUME NEW t \in Thread, Ask(t) PROVE Informed' /\ ErrOver
  <2>1. PICK i \in DOMAIN Asks(kind[t]) :
          /\ Done(t, <<"ask1", "ask2", "ask3">>[i],
                  CASE level[at[t]] = Asks(kind[t])[i] -> "lock"
                    [] level[at[t]] # Asks(kind[t])[i] /\ i < Len(Asks(kind[t])) ->
                         <<"ask2", "ask3">>[i]
                    [] OTHER -> "idle")
          /\ UNCHANGED <<logVars, settled>>
    BY <1>6 DEF Ask
  <2>2. /\ pc[t] = <<"ask1", "ask2", "ask3">>[i] /\ at'[t] = 0 /\ at[t] # 0
        /\ kind'[t] \in {kind[t], ""}
        /\ UNCHANGED <<mylogger, level, settled>>
    BY <2>1 DEF Done, TypeOK, logVars
  <2>12. /\ level[at[t]] = Asks(kind[t])[i] => pc'[t] = "lock"
         /\ level[at[t]] # Asks(kind[t])[i] /\ i < Len(Asks(kind[t])) =>
              pc'[t] = <<"ask2", "ask3">>[i]
         /\ level[at[t]] # Asks(kind[t])[i] /\ ~(i < Len(Asks(kind[t]))) => pc'[t] = "idle"
    <3>1. pc'[t] = CASE level[at[t]] = Asks(kind[t])[i] -> "lock"
                     [] level[at[t]] # Asks(kind[t])[i] /\ i < Len(Asks(kind[t])) ->
                          <<"ask2", "ask3">>[i]
                     [] OTHER -> "idle"
      BY <2>1 DEF Done, TypeOK
    <3> QED BY <3>1
  <2>3. level[mylogger] \in {"DEBUG", "INFO", "ERROR"}
    BY DEF TypeOK, Level
  <2>4. settled[t] => at[t] = mylogger
    BY <2>2 DEF Informed, FoundOut
  <2>5. kind[t] = "debug" => pc'[t] # "lock" \/ level[at[t]] = "DEBUG"
    <3> SUFFICES ASSUME kind[t] = "debug", level[at[t]] # "DEBUG" PROVE pc'[t] # "lock"
      OBVIOUS
    <3>1. Asks(kind[t]) = <<"DEBUG">>
      BY DEF Asks
    <3>2. i = 1 /\ Asks(kind[t])[i] = "DEBUG" /\ Len(Asks(kind[t])) = 1
      BY <3>1
    <3> QED BY <2>12, <3>2
  <2>6. ASSUME kind[t] = "error"
        PROVE  /\ pc[t] = "ask1" => pc'[t] \in {"lock", "ask2"}
               /\ pc[t] = "ask1" /\ pc'[t] = "ask2" => level[at[t]] # "INFO"
               /\ pc[t] = "ask2" => pc'[t] \in {"lock", "ask3"}
               /\ pc[t] = "ask2" /\ pc'[t] = "ask3" => level[at[t]] # "DEBUG"
               /\ pc[t] = "ask3" /\ pc'[t] # "lock" => level[at[t]] # "ERROR" /\ pc'[t] = "idle"
               /\ pc[t] \in {"ask1", "ask2", "ask3"}
    <3>1. Asks(kind[t]) = <<"INFO", "DEBUG", "ERROR">>
      BY <2>6 DEF Asks
    <3>2. i \in 1 .. 3
      BY <3>1
    <3>3. CASE i = 1
      <4>1. /\ Asks(kind[t])[i] = "INFO" /\ Len(Asks(kind[t])) = 3
            /\ <<"ask1", "ask2", "ask3">>[i] = "ask1" /\ <<"ask2", "ask3">>[i] = "ask2"
        BY <3>1, <3>3
      <4>2. pc[t] = "ask1"
        BY <2>2, <4>1
      <4>3. level[at[t]] = "INFO" => pc'[t] = "lock"
        BY <2>12, <4>1
      <4>4. level[at[t]] # "INFO" => pc'[t] = "ask2"
        BY <2>12, <3>3, <4>1
      <4> QED BY <4>2, <4>3, <4>4
    <3>4. CASE i = 2
      <4>1. /\ Asks(kind[t])[i] = "DEBUG" /\ Len(Asks(kind[t])) = 3
            /\ <<"ask1", "ask2", "ask3">>[i] = "ask2" /\ <<"ask2", "ask3">>[i] = "ask3"
        BY <3>1, <3>4
      <4>2. pc[t] = "ask2"
        BY <2>2, <4>1
      <4>3. level[at[t]] = "DEBUG" => pc'[t] = "lock"
        BY <2>12, <4>1
      <4>4. level[at[t]] # "DEBUG" => pc'[t] = "ask3"
        BY <2>12, <3>4, <4>1
      <4> QED BY <4>2, <4>3, <4>4
    <3>5. CASE i = 3
      <4>1. /\ Asks(kind[t])[i] = "ERROR" /\ Len(Asks(kind[t])) = 3
            /\ <<"ask1", "ask2", "ask3">>[i] = "ask3"
        BY <3>1, <3>5
      <4>2. pc[t] = "ask3"
        BY <2>2, <4>1
      <4>3. level[at[t]] = "ERROR" => pc'[t] = "lock"
        BY <2>12, <4>1
      <4>4. level[at[t]] # "ERROR" => pc'[t] = "idle"
        BY <2>12, <3>5, <4>1
      <4> QED BY <4>2, <4>3, <4>4
    <3> QED BY <3>2, <3>3, <3>4, <3>5
  <2>7. pc'[t] \in {"lock", "ask2", "ask3", "idle"} /\ pc[t] \in {"ask1", "ask2", "ask3"}
    <3>1. i \in 1 .. 3 /\ (i < Len(Asks(kind[t])) => i \in 1 .. 2)
      BY DEF Asks
    <3>2. /\ \A j \in 1 .. 3 : <<"ask1", "ask2", "ask3">>[j] \in {"ask1", "ask2", "ask3"}
          /\ \A j \in 1 .. 2 : <<"ask2", "ask3">>[j] \in {"ask2", "ask3"}
      OBVIOUS
    <3> QED BY <2>2, <2>12, <3>1, <3>2
  <2>8. FoundOut(t)'
    <3>1. Informed /\ FoundOut(t)
      BY DEF Informed
    <3> QED BY <2>2, <2>3, <2>4, <2>5, <2>6, <2>7, <3>1 DEF FoundOut
  <2>9. \A u \in Thread \ {t} : FoundOut(u)'
    BY <1>6, <2>2, Apart, StaysFound
  <2>10. ErrOver
    <3>1. kind[t] = "error" /\ pc'[t] = "idle" => ~settled[t]
      BY <2>3, <2>4, <2>6 DEF Informed, FoundOut
    <3> QED BY ZenonT(60), <1>6, <3>1, Apart DEF ErrOver, Program, Placed
  <2>11. ASSUME NEW u \in Thread PROVE FoundOut(u)'
    BY <2>8, <2>9
  <2> QED BY <2>10, <2>11 DEF Informed
<1>7. ASSUME NEW t \in Thread,
             \/ Lock(t) \/ SaveFlags(t) \/ SetFlags(t) \/ SetPrefix(t) \/ Output(t)
             \/ Unlock(t) \/ SetLevelFlags(t)
      PROVE  Informed' /\ ErrOver
  <2>1. /\ UNCHANGED <<mylogger, level, settled>> /\ at'[t] = 0 /\ kind'[t] \in {kind[t], ""}
    BY <1>7 DEF Lock, SaveFlags, SetFlags, SetPrefix, Output, Unlock, SetLevelFlags, Done,
                TypeOK, logVars
  <2>2. /\ pc'[t] \notin {"lock", "ask2", "ask3"}
        /\ pc'[t] \in {"prefix", "output"} => kind[t] = "println" \/ pc[t] \in {"lock", "prefix"}
        /\ pc'[t] = "idle" => pc[t] = "unlock" \/ kind[t] # "error"
    BY <1>7, Moves DEF Program, Placed, Level
  <2>3. FoundOut(t)'
    BY <2>1, <2>2 DEF Informed, FoundOut
  <2>4. \A u \in Thread \ {t} : FoundOut(u)'
    BY <1>7, <2>1, Apart, StaysFound
  <2>5. ErrOver
    BY ZenonT(60), <1>7, <2>2, Apart DEF ErrOver, Program, Placed
  <2>6. ASSUME NEW u \in Thread PROVE FoundOut(u)'
    BY <2>3, <2>4
  <2> QED BY <2>5, <2>6 DEF Informed
<1>8. CASE Other
  BY <1>1, <1>2, <1>3, <1>4, <1>5, <1>8 DEF Other, Change, Thread
<1> QED BY <1>4, <1>6, <1>7, <1>8, Steps

-----------------------------------------------------------------------------
(* Flags. *)

\* A thread that is between the two statements of SetLevel has set the level it knows,
\* unless there is a second one.
SetterKnows ==
  ~astray /\ ~muddled =>
    \A t \in Thread : pc[t] = "flags" =>
      \/ mine[t] \in Log /\ level[mine[t]] = saved[t]
      \/ \E u \in Thread \ {t} : pc[u] = "flags"

\* The flags of a logger that nobody is setting are those of its level, or kept by the
\* Println that holds it.
FlagsFit(l) ==
  (\A t \in Thread : pc[t] = "flags" => mine[t] # l) =>
    /\ \A t \in Thread : KeepsFlags(t) /\ mine[t] = l => saved[t] = FlagsOf(level[l])
    /\ (\A t \in Thread : KeepsFlags(t) => mine[t] # l) => flags[l] = FlagsOf(level[l])
AllFit == ~astray /\ ~muddled => \A l \in Log : FlagsFit(l)

FlagInv == SetterKnows /\ AllFit

LEMMA FlagsStep == TypeOK /\ Program /\ Kept /\ FlagInv /\ [Next]_vars => FlagInv'
<1> SUFFICES ASSUME TypeOK, Program, Kept, FlagInv, [Next]_vars PROVE FlagInv'
  OBVIOUS
<1>1. CASE Other
  <2>1. Outside
    BY <1>1, OutsideFacts
  <2>2. \A t \in Thread : (KeepsFlags(t)' <=> KeepsFlags(t))
    BY <2>1 DEF Outside, KeepsFlags, Held
  <2>3. \A t \in Thread : /\ pc'[t] = "flags" <=> pc[t] = "flags"
                          /\ KeepsFlags(t) \/ pc[t] = "flags" => saved'[t] = saved[t]
    BY <2>1 DEF Outside, KeepsFlags, Held
  <2>4. SetterKnows'
    BY <2>1, <2>3 DEF Outside, SetterKnows, FlagInv
  <2>5. AllFit'
    BY <2>1, <2>2, <2>3 DEF Outside, AllFit, FlagsFit, FlagInv
  <2> QED BY <2>4, <2>5 DEF FlagInv
\* The statements that touch neither levels nor flags.
<1>2. ASSUME NEW t \in Thread,
             \/ Ask(t) \/ Lock(t) \/ SetPrefix(t) \/ Output(t) \/ Unlock(t)
      PROVE  FlagInv'
  <2>1. /\ UNCHANGED <<level, flags, saved, muddled>>
        /\ pc'[t] # "flags" /\ pc[t] # "flags"
    BY <1>2, Moves DEF Ask, Lock, SetPrefix, Output, Unlock, logVars
  <2>2. /\ KeepsFlags(t)' <=> KeepsFlags(t)
        /\ KeepsFlags(t) => mine'[t] = mine[t]
    <3>1. Lock(t) => kind'[t] = kind[t] /\ (pc'[t] = "prefix" => kind[t] # "println")
      BY FollowsFacts DEF Lock, Done, TypeOK
    <3>2. SetPrefix(t) \/ Output(t) => mine' = mine /\ kind'[t] = kind[t]
      <4>1. SetPrefix(t) \/ Output(t) => mine' = mine
        BY DEF SetPrefix, Output
      <4>2. ASSUME SetPrefix(t) \/ Output(t) PROVE kind'[t] = kind[t]
        <5>1. pc'[t] # "idle"
          BY <4>2, Moves
        <5> QED BY <4>2, <5>1 DEF SetPrefix, Output, Done, TypeOK
      <4> QED BY <4>1, <4>2
    <3>3. Unlock(t) \/ Ask(t) => ~KeepsFlags(t) /\ ~KeepsFlags(t)'
      BY Moves DEF KeepsFlags, Held
    <3>4. Lock(t) => ~KeepsFlags(t) /\ ~KeepsFlags(t)'
      BY <3>1, Moves DEF KeepsFlags
    <3>5. SetPrefix(t) \/ Output(t) => (KeepsFlags(t)' <=> KeepsFlags(t))
      BY <3>2, Moves DEF KeepsFlags
    <3> QED BY <1>2, <3>2, <3>3, <3>4, <3>5
  <2>3. \A u \in Thread \ {t} : /\ KeepsFlags(u)' <=> KeepsFlags(u)
                                /\ pc'[u] = pc[u] /\ mine'[u] = mine[u]
    BY <1>2, Apart DEF KeepsFlags
  <2>4. ~astray' => ~astray
    BY <1>2, Apart
  <2>5. SetterKnows'
    BY <2>1, <2>3, <2>4 DEF SetterKnows, FlagInv
  <2>6. ASSUME NEW l \in Log, FlagsFit(l) PROVE FlagsFit(l)'
    BY <2>1, <2>2, <2>3, <2>6 DEF FlagsFit
  <2>7. AllFit'
    BY <2>1, <2>4, <2>6 DEF AllFit, FlagInv
  <2> QED BY <2>5, <2>7 DEF FlagInv
\* Println saves the flags of the logger it holds, clears and restores them.
<1>3. ASSUME NEW t \in Thread, SaveFlags(t) \/ SetFlags(t) PROVE FlagInv'
  <2>1. /\ UNCHANGED <<level, mine, muddled>>
        /\ pc'[t] # "flags" /\ pc[t] # "flags" /\ pc[t] \in Held /\ kind[t] = "println"
        /\ at[t] \in Log
    BY <1>3, Moves, Apart DEF SaveFlags, SetFlags, logVars, Held, Program, Placed
  <2>2. \A u \in Thread \ {t} : /\ KeepsFlags(u)' <=> KeepsFlags(u)
                                /\ pc'[u] = pc[u] /\ saved'[u] = saved[u]
    BY <1>3, Apart DEF KeepsFlags
  <2>3. SetterKnows'
    BY <1>3, <2>1, <2>2, Apart DEF SetterKnows, FlagInv
  <2>4. ASSUME ~astray', ~muddled' PROVE \A l \in Log : FlagsFit(l)'
    <3> PICK m \in Log : m = at[t]
      BY <2>1
    <3>1. ~astray /\ Exclusive /\ (\A l \in Log : FlagsFit(l)) /\ mine[t] \in {0, m}
      BY <1>3, <2>1, <2>4, Apart DEF Kept, AllFit, FlagInv
    <3>2. /\ mine[t] = m
          /\ \A u \in Thread \ {t} : KeepsFlags(u) => mine[u] # m
      BY <2>1, <3>1, Holds, LogFacts DEF KeepsFlags, Held
    <3>3. ASSUME NEW l \in Log, l # m PROVE FlagsFit(l)'
      <4>1. flags'[l] = flags[l]
        BY <1>3, <3>3 DEF SaveFlags, SetFlags, logVars, TypeOK
      <4> QED BY <2>1, <2>2, <3>1, <3>2, <3>3, <4>1 DEF FlagsFit
    <3>4. FlagsFit(m)
      BY <3>1
    <3>5. CASE SaveFlags(t)
      <4>1. pc[t] = "save" /\ ~KeepsFlags(t)
        BY <3>5, Moves DEF KeepsFlags
      <4>2. saved'[t] = flags[m] /\ UNCHANGED flags
        BY <3>5 DEF SaveFlags, logVars, TypeOK
      <4>3. FlagsFit(m)'
        <5>1. (\A u \in Thread : pc[u] = "flags" => mine[u] # m) => flags[m] = FlagsOf(level[m])
          BY <3>2, <3>4, <4>1 DEF FlagsFit
        <5> QED BY <2>1, <2>2, <3>2, <4>2, <5>1 DEF FlagsFit
      <4> QED BY <3>3, <4>3
    <3>6. CASE SetFlags(t)
      <4>1. PICK s \in {"clear", "restore"} :
              /\ Done(t, s, Follows(kind[t], s))
              /\ flags' = [flags EXCEPT ![m] = IF s = "clear" THEN "none" ELSE saved[t]]
              /\ saved' = [saved EXCEPT ![t] = IF s = "clear" THEN @ ELSE ""]
        BY <3>6 DEF SetFlags
      <4>2. /\ pc[t] = s /\ KeepsFlags(t)
            /\ s = "clear" => KeepsFlags(t)' /\ saved'[t] = saved[t]
            /\ s = "restore" => ~KeepsFlags(t)' /\ flags'[m] = saved[t]
        <5>1. pc[t] = s
          BY <4>1 DEF Done
        <5>2. s = "clear" => pc'[t] = "prefix" /\ kind'[t] = "println" /\ saved'[t] = saved[t]
          BY <2>1, <3>6, <4>1, <5>1, Moves DEF Done, TypeOK
        <5>3. s = "restore" => pc'[t] = "unlock" /\ flags'[m] = saved[t]
          BY <3>6, <4>1, <5>1, Moves DEF TypeOK
        <5> QED BY <2>1, <5>1, <5>2, <5>3 DEF KeepsFlags
      <4>3. CASE s = "clear"
        BY <2>1, <2>2, <3>2, <3>3, <3>4, <4>2, <4>3 DEF FlagsFit
      <4>4. CASE s = "restore"
        BY <2>1, <2>2, <3>2, <3>3, <3>4, <4>2, <4>4 DEF FlagsFit
      <4> QED BY <4>3, <4>4
    <3> QED BY <1>3, <3>5, <3>6
  <2> QED BY <2>3, <2>4 DEF FlagInv, AllFit
\* SetLevel's first statement: the level is ahead of the flags.
<1>4. ASSUME NEW t \in Thread, SetLevel(t) PROVE FlagInv'
  <2>1. /\ UNCHANGED <<flags, saved, muddled>> /\ pc[t] = "level" /\ at[t] \in Log
        /\ ~astray' => ~astray
        /\ \A u \in Thread \ {t} : pc'[u] = pc[u] /\ kind'[u] = kind[u] /\ mine'[u] = mine[u]
    BY <1>4, Moves, Apart DEF SetLevel
  <2>2. \A u \in Thread : KeepsFlags(u)' <=> (KeepsFlags(u) /\ u # t)
    BY <1>4, <2>1, Moves DEF KeepsFlags
  <2>3. ~KeepsFlags(t)
    BY <2>1 DEF KeepsFlags
  <2>4. CASE saved[t] \notin Level
    <3>1. UNCHANGED level /\ pc'[t] = "idle"
      BY <1>4, <2>4, Moves DEF SetLevel
    <3>2. SetterKnows'
      BY <2>1, <3>1 DEF SetterKnows, FlagInv
    <3>3. ASSUME NEW l \in Log, FlagsFit(l) PROVE FlagsFit(l)'
      BY <2>1, <2>2, <2>3, <3>1, <3>3 DEF FlagsFit
    <3> QED BY <2>1, <3>2, <3>3 DEF AllFit, FlagInv
  <2>5. CASE saved[t] \in Level
    <3>1. /\ level' = [level EXCEPT ![at[t]] = saved[t]] /\ pc'[t] = "flags"
          /\ mine'[t] = at[t]
      BY <1>4, <2>5, Moves DEF SetLevel, TypeOK
    <3>2. level'[at[t]] = saved[t] /\ \A l \in Log : l # at[t] => level'[l] = level[l]
      BY <2>1, <3>1 DEF TypeOK
    <3>3. SetterKnows'
      BY <2>1, <3>1, <3>2 DEF SetterKnows
    <3>4. ASSUME NEW l \in Log, FlagsFit(l) PROVE FlagsFit(l)'
      <4>1. CASE l = at[t]
        BY <3>1, <4>1 DEF FlagsFit
      <4>2. CASE l # at[t]
        BY <2>1, <2>2, <2>3, <3>1, <3>2, <3>4, <4>2 DEF FlagsFit
      <4> QED BY <4>1, <4>2
    <3> QED BY <2>1, <3>3, <3>4 DEF AllFit, FlagInv
  <2> QED BY <2>4, <2>5
\* ... and its second, alone or muddled.
<1>5. ASSUME NEW t \in Thread, SetLevelFlags(t) PROVE FlagInv'
  <2> SUFFICES ASSUME ~astray', ~muddled' PROVE FlagInv'
    BY DEF FlagInv, SetterKnows, AllFit
  <2>1. /\ ~muddled /\ \A u \in Thread \ {t} : ~KeepsFlags(u) /\ pc[u] # "flags"
        /\ flags' = [flags EXCEPT ![at[t]] = FlagsOf(saved[t])] /\ UNCHANGED level
    BY <1>5 DEF SetLevelFlags
  <2>2. /\ ~astray /\ mine[t] \in {0, at[t]} /\ pc[t] = "flags" /\ pc'[t] = "idle"
        /\ at[t] \in Log
        /\ \A u \in Thread \ {t} : pc'[u] = pc[u] /\ kind'[u] = kind[u]
    BY <1>5, Apart, Moves
  <2>3. mine[t] = at[t] /\ level[at[t]] = saved[t]
    BY <2>1, <2>2, LogFacts DEF FlagInv, SetterKnows
  <2>4. \A u \in Thread : pc'[u] # "flags" /\ ~KeepsFlags(u)'
    BY <2>1, <2>2 DEF KeepsFlags
  <2>5. ASSUME NEW l \in Log PROVE flags'[l] = FlagsOf(level'[l])
    <3>1. CASE l = at[t]
      BY <2>1, <2>3, <3>1 DEF TypeOK
    <3>2. CASE l # at[t]
      <4>1. FlagsFit(l)
        BY <2>1, <2>2 DEF FlagInv, AllFit
      <4>2. ~KeepsFlags(t)
        BY <2>2 DEF KeepsFlags
      <4>3. flags[l] = FlagsOf(level[l])
        BY <2>1, <2>3, <3>2, <4>1, <4>2 DEF FlagsFit
      <4> QED BY <2>1, <3>2, <4>3 DEF TypeOK
    <3> QED BY <3>1, <3>2
  <2> QED BY <2>4, <2>5 DEF FlagInv, SetterKnows, AllFit, FlagsFit
<1> QED BY <1>1, <1>2, <1>3, <1>4, <1>5, Steps

-----------------------------------------------------------------------------
(* What is promised. *)

IInv == /\ TypeOK /\ Program /\ Kept /\ FatalOnlyAstray
        /\ Prefixed /\ Unflagged /\ Informed /\ FlagInv

LEMMA InitInv == Init => IInv
<1> SUFFICES ASSUME Init PROVE IInv
  OBVIOUS
<1>1. /\ mylogger = 1 /\ level \in [Log -> Level] /\ flags = [l \in Log |-> FlagsOf(level[l])]
      /\ prefix = [l \in Log |-> ""] /\ locked = [l \in Log |-> FALSE]
  <2>1. PICK lvl : InitLogger(lvl)
    BY DEF Init
  <2> QED BY <2>1 DEF InitLogger, Level
<1>2. TypeOK
  <2>1. 1 \in Log /\ 0 \in 0 .. 1
    BY ThreadAssumption DEF Log
  <2> QED BY <1>1, <2>1 DEF Init, TypeOK, FlagsOf, Place
<1>3. Program /\ Kept /\ FatalOnlyAstray /\ Prefixed /\ Unflagged /\ Informed /\ SetterKnows
  BY DEF Init, Program, Placed, Kept, Exclusive, FatalOnlyAstray, Prefixed, Unflagged, Informed,
         FoundOut, SetterKnows, Held, KeepsFlags
<1>4. AllFit
  BY <1>1 DEF Init, AllFit, FlagsFit, KeepsFlags
<1> QED BY <1>2, <1>3, <1>4 DEF IInv, FlagInv

LEMMA Invariant == Spec => []IInv
<1>1. IInv /\ [Next]_vars => IInv'
  <2> SUFFICES ASSUME IInv, [Next]_vars PROVE IInv'
    OBVIOUS
  <2>1. TypeOK' /\ Program'
    BY TypeStep DEF IInv
  <2>2. Kept' /\ FatalOnlyAstray'
    <3>1. CASE ended = ""
      BY <3>1, KeptStep DEF IInv
    <3>2. CASE UNCHANGED vars
      BY <3>2, OutsideFacts, ExclusiveStays
      DEF IInv, Other, Kept, FatalOnlyAstray, vars, logVars, threadVars, histVars
    <3> QED BY <3>1, <3>2 DEF Next
  <2>3. Prefixed' /\ Unflagged'
    BY LineStep DEF IInv
  <2>4. Informed'
    BY LevelStep DEF IInv
  <2>5. FlagInv'
    BY FlagsStep DEF IInv
  <2> QED BY <2>1, <2>2, <2>3, <2>4, <2>5 DEF IInv
<1> QED BY <1>1, InitInv, PTL DEF Spec

\* Every variable has its type: flags are always flags that SetLevel or Println chose.
THEOREM TypeCorrect == Spec => []TypeOK
<1>1. IInv => TypeOK
  BY DEF IInv
<1> QED BY <1>1, Invariant, PTL

\* The mutex keeps lines apart: a line is written under its own prefix, and a line of
\* Println under no flags, unless some call was caught by a replacement of the logger.
THEOREM LinesKeptApart == Spec => []LineIsOwn
<1>1. IInv => LineIsOwn
  BY DEF IInv, LineIsOwn, Prefixed, Unflagged
<1> QED BY <1>1, Invariant, PTL

\* The fatal error of unlocking an unlocked mutex comes only of such a call.
THEOREM FatalNeedsReplacement == Spec => []FatalOnlyAstray
<1>1. IInv => FatalOnlyAstray
  BY DEF IInv
<1> QED BY <1>1, Invariant, PTL

\* Debug prints on another level only if a level was set, or the logger replaced, while
\* it ran.
THEOREM DebugKeepsLevel == Spec => []DebugNeedsDebug
<1>1. IInv => DebugNeedsDebug
  BY DEF IInv, DebugNeedsDebug, Informed, FoundOut
<1> QED BY <1>1, Invariant, PTL

\* Once nobody is setting flags or holds them in hand, the flags are those of the level.
THEOREM FlagsOfLevel == Spec => []FlagsFollowLevel
<1>1. IInv => FlagsFollowLevel
  BY DEF IInv, FlagsFollowLevel, FlagInv, AllFit, FlagsFit, TypeOK
<1> QED BY <1>1, Invariant, PTL

\* A call of Err gives its line up only if a level was set, or the logger replaced,
\* between its comparisons.
THEOREM ErrorsArePrinted == Spec => ErrorIsPrinted
<1>1. IInv /\ [Next]_vars =>
        [\A t \in Thread :
           kind[t] = "error" /\ pc[t] # "unlock" /\ pc'[t] = "idle" => ~settled[t]]_vars
  BY LevelStep DEF IInv, ErrOver
<1> QED BY <1>1, Invariant, PTL DEF Spec, ErrorIsPrinted

-----------------------------------------------------------------------------
(* The configuration. *)

\* What begins a comment.
Comment == {"#", "//"}
Mark == Blank \X Comment

\* A mark of M begins at i.
Begins(t, M, i) == i + 1 <= Len(t) /\ <<t[i], t[i + 1]>> \in M

\* The text ends after k: no mark begins before, and one does there.
Ends(t, M, k) ==
  /\ k \in 0 .. Len(t)
  /\ \A i \in 1 .. k : ~Begins(t, M, i)
  /\ k = Len(t) \/ Begins(t, M, k + 1)

\* Line i sets a value, and the key it sets.
Sets(file, before, i) ==
  /\ file[i].type = "pair"
  /\ SectionOf(file, before, i) # <<>>
  /\ file[i].key # <<>>
  /\ Uncomment(file[i].text) # <<>>

KeyOf(file, before, i) == SectionOf(file, before, i) \o file[i].key

\* The map and the section are what the first n lines say.
Said(map, section, file, before, n) ==
  /\ section = SectionOf(file, before, n + 1)
  /\ DOMAIN map = {KeyOf(file, before, i) : i \in {j \in 1 .. n : Sets(file, before, j)}}
  /\ \A i \in 1 .. n :
       /\ Sets(file, before, i)
       /\ \A j \in 1 .. n : Sets(file, before, j) /\ KeyOf(file, before, j) = KeyOf(file, before, i)
                              => j <= i
       => map[KeyOf(file, before, i)] = Uncomment(file[i].text)

\* However far the file has been read, the map holds what it says so far.
ConfInv ==
  /\ loaded.file \in Seq(Line)
  /\ \E n \in 0 .. Len(loaded.file) :
       /\ rest = SubSeq(loaded.file, n + 1, Len(loaded.file))
       /\ Said(confMap, strcet, loaded.file, loaded.section, n)

-----------------------------------------------------------------------------
(* Sets of numbers. *)

\* A set of numbers has a smallest.
LEMMA LeastExists ==
  ASSUME NEW S \in SUBSET Nat, S # {}
  PROVE  Min(S) \in S /\ \A y \in S : Min(S) <= y
<1> DEFINE R == {ss \in Nat \X Nat : ss[1] < ss[2]}
<1>1. IsWellFoundedOn(R, Nat)
  BY NatLessThanWellFounded DEF OpToRel
<1>2. PICK x \in S : \A y \in S : ~(<<y, x>> \in R)
  <2> HIDE DEF R
  <2> QED BY <1>1, WFMin
<1>3. ASSUME NEW y \in S PROVE x <= y
  <2>1. x \in Nat /\ y \in Nat /\ ~(<<y, x>> \in R)
    BY <1>2
  <2> QED BY <2>1
<1> QED BY <1>2, <1>3 DEF Min

\* It is what nothing in the set is below.
LEMMA LeastIs ==
  ASSUME NEW S \in SUBSET Nat, NEW x \in S, \A y \in S : x <= y
  PROVE  Min(S) = x
<1>1. Min(S) \in S /\ Min(S) <= x /\ x <= Min(S)
  BY LeastExists
<1>2. Min(S) \in Nat /\ x \in Nat
  BY <1>1
<1> QED BY <1>1, <1>2

\* A bounded set of numbers has a greatest, which is what nothing in it is above.
LEMMA GreatestIs ==
  ASSUME NEW S \in SUBSET Nat, NEW x \in S, \A y \in S : y <= x
  PROVE  Max(S) = x
<1>1. Max(S) \in S /\ \A y \in S : Max(S) >= y
  <2>1. \A y \in S : x >= y
    OBVIOUS
  <2> QED BY <2>1 DEF Max
<1>2. Max(S) >= x /\ x >= Max(S)
  BY <1>1
<1>3. Max(S) \in Nat /\ x \in Nat
  BY <1>1
<1> QED BY <1>2, <1>3

LEMMA GreatestExists ==
  ASSUME NEW n \in Nat, NEW S \in SUBSET (1 .. n), S # {}
  PROVE  Max(S) \in S /\ \A y \in S : y <= Max(S)
<1> DEFINE B == {b \in Nat : \A y \in S : y <= b}
<1>1. S \subseteq Nat /\ n \in B
  OBVIOUS
<1>2. Min(B) \in B /\ \A b \in B : Min(B) <= b
  BY <1>1, LeastExists
<1>3. Min(B) \in Nat /\ \A y \in S : y <= Min(B)
  BY <1>2
<1>4. Min(B) \in S
  <2>1. SUFFICES ASSUME Min(B) \notin S PROVE FALSE
    OBVIOUS
  <2>2. PICK z \in S : TRUE
    OBVIOUS
  <2>3. z \in 1 .. n /\ z <= Min(B)
    BY <1>3, <2>2
  <2> DEFINE c == Min(B) - 1
  <2>4. c \in Nat
    BY <1>3, <2>3
  <2>5. ASSUME NEW y \in S PROVE y <= c
    <3>1. y \in Nat /\ y <= Min(B) /\ y # Min(B)
      BY <1>1, <1>3, <2>1
    <3> QED BY <3>1, <1>3
  <2>6. c \in B
    BY <2>4, <2>5
  <2>7. Min(B) <= c
    BY <1>2, <2>6
  <2> QED BY <2>7, <1>3
<1>5. Max(S) = Min(B)
  BY <1>1, <1>3, <1>4, GreatestIs
<1> QED BY <1>3, <1>4, <1>5

-----------------------------------------------------------------------------
(* The value of a text. *)

\* A piece of a sequence that begins where the sequence does.
LEMMA FrontFacts ==
  ASSUME NEW T, NEW s \in Seq(T), NEW k \in 0 .. Len(s)
  PROVE  /\ SubSeq(s, 1, k) \in Seq(T) /\ Len(SubSeq(s, 1, k)) = k
         /\ \A i \in 1 .. k : SubSeq(s, 1, k)[i] = s[i]
         /\ k = Len(s) => SubSeq(s, 1, k) = s
         /\ \A l \in 0 .. k : SubSeq(SubSeq(s, 1, k), 1, l) = SubSeq(s, 1, l)
<1> DEFINE f == SubSeq(s, 1, k)
<1>1. f \in Seq(T) /\ Len(f) = k /\ \A i \in 1 .. k : f[i] = s[i]
  OBVIOUS
<1>2. k = Len(s) => f = s
  OBVIOUS
<1> HIDE DEF f
<1>3. ASSUME NEW l \in 0 .. k PROVE SubSeq(f, 1, l) = SubSeq(s, 1, l)
  <2> DEFINE a == SubSeq(f, 1, l)
             b == SubSeq(s, 1, l)
  <2>1. a \in Seq(T) /\ Len(a) = l /\ \A i \in 1 .. l : a[i] = f[i]
    BY <1>1
  <2>2. b \in Seq(T) /\ Len(b) = l /\ \A i \in 1 .. l : b[i] = s[i]
    OBVIOUS
  <2> HIDE DEF a, b
  <2>3. \A i \in 1 .. l : a[i] = b[i]
    BY <1>1, <2>1, <2>2
  <2>4. a = b
    BY <2>1, <2>2, <2>3, SeqEqual
  <2> QED BY <2>4 DEF a, b
<1> QED BY <1>1, <1>2, <1>3 DEF f

\* A text without its outer blanks is a text.
LEMMA TrimType ==
  ASSUME NEW T, NEW text \in Seq(T)
  PROVE  Trim(text) \in Seq(T)
<1> DEFINE word == {i \in DOMAIN text : text[i] \notin Blank}
           n == Len(text)
<1>1. n \in Nat /\ DOMAIN text = 1 .. n /\ word \in SUBSET (1 .. n)
  OBVIOUS
<1>2. CASE word = {}
  BY <1>2 DEF Trim
<1>3. CASE word # {}
  <2> HIDE DEF word
  <2>1. word \in SUBSET Nat
    BY <1>1
  <2>2. Min(word) \in word /\ Max(word) \in word
    BY <1>1, <1>3, <2>1, LeastExists, GreatestExists
  <2>3. Min(word) \in 1 .. n /\ Max(word) \in 1 .. n
    BY <1>1, <2>2
  <2>4. Trim(text) = SubSeq(text, Min(word), Max(word))
    BY <1>3 DEF Trim, word
  <2> HIDE DEF n
  <2>5. SubSeq(text, Min(word), Max(word)) \in Seq(T)
    BY <2>3 DEF n
  <2> QED BY <2>4, <2>5
<1> QED BY <1>2, <1>3

\* A search finds the first mark.
LEMMA CutEnds ==
  ASSUME NEW T, NEW t \in Seq(T), NEW m
  PROVE  \E k \in 0 .. Len(t) : Ends(t, {m}, k) /\ CutAt(t, m) = SubSeq(t, 1, k)
<1> DEFINE hits == {i \in 1 .. Len(t) - 1 : <<t[i], t[i + 1]>> = m}
           n == Len(t)
<1>1. n \in Nat /\ hits \in SUBSET Nat
  OBVIOUS
<1>2. ASSUME NEW i \in Nat PROVE i \in hits <=> i \in 1 .. n /\ Begins(t, {m}, i)
  BY <1>1, <1>2 DEF Begins
<1>3. CutAt(t, m) = IF hits = {} THEN t ELSE SubSeq(t, 1, Min(hits) - 1)
  BY DEF CutAt
<1>3a. n \in 0 .. n /\ SubSeq(t, 1, n) = t
  BY <1>1
<1> HIDE DEF hits, n
<1>4. CASE hits = {}
  <2>1. CutAt(t, m) = SubSeq(t, 1, n)
    BY <1>3, <1>3a, <1>4
  <2>2. ASSUME NEW i \in 1 .. n PROVE ~Begins(t, {m}, i)
    <3>1. i \in Nat
      BY <1>1
    <3> QED BY <3>1, <1>2, <1>4
  <2>3. Ends(t, {m}, n)
    BY <2>2, <1>3a DEF Ends, n
  <2> QED BY <2>1, <2>3, <1>3a DEF n
<1>5. CASE hits # {}
  <2> DEFINE x == Min(hits)
  <2>1. x \in hits /\ \A y \in hits : x <= y
    BY <1>1, <1>5, LeastExists
  <2> HIDE DEF x
  <2>2. x \in 1 .. n /\ Begins(t, {m}, x)
    BY <1>1, <1>2, <2>1
  <2>3. x - 1 \in 0 .. n /\ (x - 1) + 1 = x
    BY <1>1, <2>2
  <2>4. ASSUME NEW i \in 1 .. x - 1 PROVE ~Begins(t, {m}, i)
    <3>1. i \in Nat /\ i \in 1 .. n /\ ~(x <= i)
      BY <1>1, <2>2, <2>4
    <3>2. i \notin hits
      BY <2>1, <3>1
    <3> QED BY <1>2, <3>1, <3>2
  <2>5. Ends(t, {m}, x - 1)
    BY <2>2, <2>3, <2>4 DEF Ends, n
  <2>6. CutAt(t, m) = SubSeq(t, 1, x - 1)
    BY <1>3, <1>5 DEF x
  <2> QED BY <2>3, <2>5, <2>6 DEF n
<1> QED BY <1>4, <1>5

\* A search in what other searches have left: a mark that began where they have cut
\* would end in the blank of the mark they found.
LEMMA EndsStep ==
  ASSUME NEW T, NEW t \in Seq(T), NEW M \in SUBSET Mark, NEW m \in Mark,
         NEW k \in 0 .. Len(t), Ends(t, M, k),
         NEW l \in 0 .. k, Ends(SubSeq(t, 1, k), {m}, l)
  PROVE  Ends(t, M \union {m}, l)
<1> DEFINE f == SubSeq(t, 1, k)
           n == Len(t)
<1>1. Len(f) = k /\ \A i \in 1 .. k : f[i] = t[i]
  BY FrontFacts
<1>2. n \in Nat /\ k \in 0 .. n /\ l \in 0 .. k
  OBVIOUS
<1>3. /\ \A i \in 1 .. k : ~Begins(t, M, i)
      /\ k = n \/ Begins(t, M, k + 1)
  BY DEF Ends
<1>4. /\ \A i \in 1 .. l : ~Begins(f, {m}, i)
      /\ l = k \/ Begins(f, {m}, l + 1)
  BY <1>1 DEF Ends
<1> HIDE DEF f, n
<1>5. ASSUME NEW i \in 1 .. k - 1 PROVE Begins(f, {m}, i) <=> Begins(t, {m}, i)
  <2>1. i \in 1 .. k /\ i + 1 \in 1 .. k /\ i + 1 <= k /\ i + 1 <= n
    BY <1>2, <1>5
  <2>2. f[i] = t[i] /\ f[i + 1] = t[i + 1]
    BY <1>1, <2>1
  <2> QED BY <1>1, <2>1, <2>2 DEF Begins, n
<1>6. ~Begins(f, {m}, k)
  BY <1>1, <1>2 DEF Begins
<1>7. ASSUME NEW i \in 1 .. l PROVE ~Begins(t, {m}, i)
  <2>1. CASE i < k
    <3>1. i \in 1 .. k - 1
      BY <1>2, <2>1
    <3> QED BY <3>1, <1>4, <1>5
  <2>2. CASE i = k
    <3>1. SUFFICES ASSUME Begins(t, {m}, k) PROVE FALSE
      BY <2>2
    <3>2. k + 1 <= n /\ <<t[k], t[k + 1]>> = m
      BY <3>1 DEF Begins, n
    <3>3. Begins(t, M, k + 1)
      BY <1>2, <1>3, <3>2
    <3>4. <<t[k + 1], t[k + 1 + 1]>> \in Mark
      BY <3>3 DEF Begins
    <3>5. t[k + 1] \in Blank /\ t[k + 1] \in Comment
      BY <3>2, <3>4 DEF Mark
    <3> QED BY <3>5 DEF Blank, Comment
  <2> QED BY <2>1, <2>2, <1>2
<1>8. \A i \in 1 .. l : ~Begins(t, M, i)
  BY <1>2, <1>3
<1>9. \A i : Begins(t, M \union {m}, i) <=> Begins(t, M, i) \/ Begins(t, {m}, i)
  BY DEF Begins
<1>10. l = n \/ Begins(t, M \union {m}, l + 1)
  <2>1. CASE l = k
    BY <2>1, <1>3, <1>9
  <2>2. CASE l # k
    <3>1. Begins(f, {m}, l + 1)
      BY <2>2, <1>4
    <3>2. l + 1 \in 1 .. k - 1
      BY <1>2, <1>6, <2>2, <3>1
    <3> QED BY <1>5, <1>9, <3>1, <3>2
  <2> QED BY <2>1, <2>2
<1>11. \A i \in 1 .. l : ~Begins(t, M \union {m}, i)
  BY <1>7, <1>8, <1>9
<1>12. l \in 0 .. n
  BY <1>2
<1> QED BY <1>10, <1>11, <1>12 DEF Ends, n

\* One more search.
LEMMA NextCut ==
  ASSUME NEW T, NEW t \in Seq(T), NEW M \in SUBSET Mark, NEW m \in Mark,
         NEW k \in 0 .. Len(t), Ends(t, M, k)
  PROVE  \E l \in 0 .. Len(t) : /\ Ends(t, M \union {m}, l)
                                /\ CutAt(SubSeq(t, 1, k), m) = SubSeq(t, 1, l)
<1> DEFINE f == SubSeq(t, 1, k)
<1>1. /\ f \in Seq(T) /\ Len(f) = k
      /\ \A l \in 0 .. k : SubSeq(f, 1, l) = SubSeq(t, 1, l)
  BY FrontFacts
<1> HIDE DEF f
<1>2. PICK l \in 0 .. Len(f) : Ends(f, {m}, l) /\ CutAt(f, m) = SubSeq(f, 1, l)
  BY <1>1, CutEnds
<1>3. l \in 0 .. k
  BY <1>1, <1>2
<1>4. l \in 0 .. Len(t)
  BY <1>3
<1>5. Ends(t, M \union {m}, l)
  BY <1>2, <1>3, EndsStep DEF f
<1> QED BY <1>1, <1>2, <1>3, <1>4, <1>5 DEF f

\* The four searches together find the first mark.
LEMMA UncommentEnds ==
  ASSUME NEW text \in Seq(STRING)
  PROVE  \E k \in 0 .. Len(Trim(text)) :
           Ends(Trim(text), Mark, k) /\ Uncomment(text) = Trim(SubSeq(Trim(text), 1, k))
<1> DEFINE t == Trim(text)
           a == <<"tab", "#">>
           b == <<"sp", "#">>
           c == <<"tab", "//">>
           d == <<"sp", "//">>
<1>1. t \in Seq(STRING)
  BY TrimType
<1>2. Uncomment(text) = Trim(CutAt(CutAt(CutAt(CutAt(t, a), b), c), d))
  BY DEF Uncomment
<1>3. a \in Mark /\ b \in Mark /\ c \in Mark /\ d \in Mark
  BY DEF Mark, Blank, Comment
<1>4. ASSUME NEW x \in Mark PROVE x \in {a, b, c, d}
  BY <1>4 DEF Mark, Blank, Comment
<1>5. {a} \union {b} \union {c} \union {d} = Mark
  <2> HIDE DEF a, b, c, d
  <2> QED BY <1>3, <1>4
<1> HIDE DEF a, b, c, d, t
<1>6. PICK i \in 0 .. Len(t) : Ends(t, {a}, i) /\ CutAt(t, a) = SubSeq(t, 1, i)
  BY <1>1, CutEnds
<1>7. PICK j \in 0 .. Len(t) : /\ Ends(t, {a} \union {b}, j)
                               /\ CutAt(SubSeq(t, 1, i), b) = SubSeq(t, 1, j)
  <2>1. {a} \in SUBSET Mark
    BY <1>3
  <2> QED BY <1>1, <1>3, <1>6, <2>1, NextCut
<1>8. PICK k \in 0 .. Len(t) : /\ Ends(t, {a} \union {b} \union {c}, k)
                               /\ CutAt(SubSeq(t, 1, j), c) = SubSeq(t, 1, k)
  <2>1. {a} \union {b} \in SUBSET Mark
    BY <1>3
  <2> QED BY <1>1, <1>3, <1>7, <2>1, NextCut
<1>9. PICK l \in 0 .. Len(t) : /\ Ends(t, {a} \union {b} \union {c} \union {d}, l)
                               /\ CutAt(SubSeq(t, 1, k), d) = SubSeq(t, 1, l)
  <2>1. {a} \union {b} \union {c} \in SUBSET Mark
    BY <1>3
  <2> QED BY <1>1, <1>3, <1>8, <2>1, NextCut
<1>10. CutAt(CutAt(CutAt(CutAt(t, a), b), c), d) = SubSeq(t, 1, l)
  BY <1>6, <1>7, <1>8, <1>9
<1> QED BY <1>2, <1>5, <1>9, <1>10 DEF t

\* ... which is the value that the text is said to have.
LEMMA ValueIs ==
  ASSUME NEW text \in Seq(STRING), NEW v
  PROVE  IsValue(text, v) <=> v = Uncomment(text)
<1> DEFINE t == Trim(text)
           n == Len(t)
           marked == {i \in 2 .. Len(t) : t[i] \in {"#", "//"} /\ t[i - 1] \in Blank}
<1>1. t \in Seq(STRING) /\ n \in Nat
  BY TrimType
<1>2. PICK k \in 0 .. n : Ends(t, Mark, k) /\ Uncomment(text) = Trim(SubSeq(t, 1, k))
  BY UncommentEnds
<1>3. IsValue(text, v) <=> v = Trim(IF marked = {} THEN t ELSE SubSeq(t, 1, Min(marked) - 2))
  BY DEF IsValue
<1>4. ASSUME NEW i \in Nat PROVE i + 1 \in marked <=> i >= 1 /\ Begins(t, Mark, i)
  <2>1. i + 1 - 1 = i
    OBVIOUS
  <2>2. i + 1 \in 2 .. n <=> i >= 1 /\ i + 1 <= n
    BY <1>1
  <2>3. i + 1 \in marked <=> i + 1 \in 2 .. n /\ t[i + 1] \in Comment /\ t[i] \in Blank
    BY <2>1 DEF Comment
  <2>4. <<t[i], t[i + 1]>> \in Mark <=> t[i + 1] \in Comment /\ t[i] \in Blank
    BY DEF Mark
  <2> QED BY <2>2, <2>3, <2>4 DEF Begins
<1>5. marked \in SUBSET Nat /\ \A i \in marked : i - 1 \in Nat /\ i - 1 >= 1 /\ (i - 1) + 1 = i
                                                  /\ i <= n
  BY <1>1
<1> HIDE DEF marked, t, n
<1>6. /\ \A i \in 1 .. k : ~Begins(t, Mark, i)
      /\ k = n \/ Begins(t, Mark, k + 1)
  BY <1>2 DEF Ends, n
<1>7. ASSUME NEW i \in marked PROVE k + 2 <= i
  <2>1. i - 1 \in Nat /\ i - 1 >= 1 /\ Begins(t, Mark, i - 1)
    BY <1>4, <1>5
  <2>2. i - 1 \notin 1 .. k
    BY <1>6, <2>1
  <2> QED BY <1>2, <1>5, <2>1, <2>2
<1>8. CASE k = n
  <2>1. marked = {}
    <3> SUFFICES ASSUME NEW i \in marked PROVE FALSE
      OBVIOUS
    <3>1. i <= n /\ k + 2 <= i /\ i \in Nat
      BY <1>5, <1>7
    <3> QED BY <3>1, <1>1, <1>8
  <2>2. SubSeq(t, 1, n) = t
    BY <1>1 DEF n
  <2> QED BY <1>2, <1>3, <1>8, <2>1, <2>2
<1>9. CASE Begins(t, Mark, k + 1)
  <2>1. k + 1 \in Nat /\ k + 1 >= 1 /\ (k + 1) + 1 = k + 2
    BY <1>2
  <2>2. k + 2 \in marked
    BY <1>4, <1>9, <2>1
  <2>3. Min(marked) = k + 2
    BY <1>5, <1>7, <2>2, LeastIs
  <2>4. Min(marked) - 2 = k
    BY <1>2, <2>3
  <2>5. (IF marked = {} THEN t ELSE SubSeq(t, 1, Min(marked) - 2)) = SubSeq(t, 1, k)
    BY <2>2, <2>4
  <2> QED BY <1>2, <1>3, <2>5
<1> QED BY <1>6, <1>8, <1>9

-----------------------------------------------------------------------------
(* What a file says. *)

\* A file begins in the section before it.
LEMMA FirstSection == ASSUME NEW file, NEW before PROVE SectionOf(file, before, 1) = before
<1>1. {j \in 1 .. 1 - 1 : file[j].type = "section"} = {}
  OBVIOUS
<1> QED BY <1>1 DEF SectionOf

\* A header changes the section of the lines below it.
LEMMA NextSection ==
  ASSUME NEW file, NEW before, NEW n \in Nat
  PROVE  SectionOf(file, before, n + 1 + 1)
           = IF file[n + 1].type = "section" THEN Trim(file[n + 1].key)
             ELSE SectionOf(file, before, n + 1)
<1> DEFINE Header(i) == {j \in 1 .. i - 1 : file[j].type = "section"}
           old == Header(n + 1)
           new == Header(n + 1 + 1)
<1>1. \A i : SectionOf(file, before, i)
               = IF Header(i) = {} THEN before ELSE Trim(file[Max(Header(i))].key)
  BY DEF SectionOf
<1>2. ASSUME NEW j PROVE j \in old <=> j \in 1 .. n /\ file[j].type = "section"
  OBVIOUS
<1>3. ASSUME NEW j PROVE j \in new <=> j \in 1 .. n + 1 /\ file[j].type = "section"
  OBVIOUS
<1>4. /\ SectionOf(file, before, n + 1) = IF old = {} THEN before ELSE Trim(file[Max(old)].key)
      /\ SectionOf(file, before, n + 1 + 1)
           = IF new = {} THEN before ELSE Trim(file[Max(new)].key)
  BY <1>1
<1> HIDE DEF Header, old, new
<1>5. CASE file[n + 1].type = "section"
  <2>1. n + 1 \in new
    BY <1>3, <1>5
  <2>2. new \in SUBSET Nat /\ \A j \in new : j <= n + 1
    BY <1>3
  <2>3. Max(new) = n + 1
    BY <2>1, <2>2, GreatestIs
  <2> QED BY <1>4, <1>5, <2>1, <2>3
<1>6. CASE file[n + 1].type # "section"
  <2>1. ASSUME NEW j PROVE j \in new <=> j \in old
    <3>1. j \in 1 .. n + 1 <=> j \in 1 .. n \/ j = n + 1
      OBVIOUS
    <3> QED BY <1>2, <1>3, <1>6, <3>1
  <2>2. new = old
    BY <2>1
  <2> QED BY <1>4, <1>6, <2>2
<1> QED BY <1>5, <1>6

\* One more line.
LEMMA LineSaid ==
  ASSUME NEW file, NEW before, NEW map, NEW section, NEW n \in Nat,
         Said(map, section, file, before, n)
  PROVE  Said(LineDone(map, section, file[n + 1]).map,
              LineDone(map, section, file[n + 1]).section, file, before, n + 1)
<1> DEFINE l == file[n + 1]
           end == LineDone(map, section, l)
           k == KeyOf(file, before, n + 1)
           v == Uncomment(l.text)
           S(i) == Sets(file, before, i)
           K(i) == KeyOf(file, before, i)
<1>1. /\ section = SectionOf(file, before, n + 1)
      /\ DOMAIN map = {K(i) : i \in {j \in 1 .. n : S(j)}}
      /\ \A i \in 1 .. n : S(i) /\ (\A j \in 1 .. n : S(j) /\ K(j) = K(i) => j <= i)
                             => map[K(i)] = Uncomment(file[i].text)
  BY DEF Said
<1>2. k = section \o l.key
  BY <1>1 DEF KeyOf
<1>3. S(n + 1) <=> l.type = "pair" /\ section # <<>> /\ l.key # <<>> /\ v # <<>>
  BY <1>1 DEF Sets
<1>4. end.section = IF l.type = "section" THEN Trim(l.key) ELSE section
  BY DEF LineDone
<1>5. end.map = IF S(n + 1) THEN With(map, k, v) ELSE map
  <2>1. end.map = IF l.type = "pair" THEN Put(map, section, l) ELSE map
    BY DEF LineDone
  <2>2. Put(map, section, l) = IF section = <<>> \/ l.key = <<>> \/ v = <<>> THEN map
                               ELSE With(map, k, v)
    BY <1>2 DEF Put
  <2> HIDE DEF l, end, k, v, S
  <2> QED BY <1>3, <2>1, <2>2
<1>6. end.section = SectionOf(file, before, n + 1 + 1)
  BY <1>1, <1>4, NextSection
<1>7. K(n + 1) = k /\ v = Uncomment(file[n + 1].text)
  OBVIOUS
<1>8. \A i : i \in 1 .. n + 1 <=> i \in 1 .. n \/ i = n + 1
  OBVIOUS
<1>9. \A i \in 1 .. n : i \in Nat /\ ~(n + 1 <= i)
  OBVIOUS
<1> DEFINE map2 == end.map
<1> HIDE DEF l, end, k, v, S, K, map2
<1>10. CASE S(n + 1)
  <2>1. /\ DOMAIN map2 = DOMAIN map \union {k}
        /\ map2[k] = v
        /\ \A x \in DOMAIN map : x # k => map2[x] = map[x]
    <3>1. map2 = With(map, k, v)
      BY <1>5, <1>10 DEF map2
    <3>2. /\ DOMAIN With(map, k, v) = DOMAIN map \union {k}
          /\ With(map, k, v)[k] = v
          /\ \A x \in DOMAIN map : x # k => With(map, k, v)[x] = map[x]
      BY DEF With
    <3> QED BY <3>1, <3>2
  <2>2. DOMAIN map2 = {K(i) : i \in {j \in 1 .. n + 1 : S(j)}}
    BY <1>1, <1>7, <1>8, <1>10, <2>1
  <2>3. ASSUME NEW i \in 1 .. n + 1, S(i), \A j \in 1 .. n + 1 : S(j) /\ K(j) = K(i) => j <= i
        PROVE  map2[K(i)] = Uncomment(file[i].text)
    <3>1. CASE i = n + 1
      BY <3>1, <1>7, <2>1
    <3>2. CASE i \in 1 .. n
      <4>1. n + 1 \in 1 .. n + 1 /\ ~(n + 1 <= i)
        BY <1>8, <1>9, <3>2
      <4>2. K(i) # k
        BY <1>7, <1>10, <2>3, <4>1
      <4>3. K(i) \in DOMAIN map
        BY <1>1, <2>3, <3>2
      <4>4. map[K(i)] = Uncomment(file[i].text)
        BY <1>1, <1>8, <2>3, <3>2
      <4> QED BY <2>1, <4>2, <4>3, <4>4
    <3> QED BY <1>8, <2>3, <3>1, <3>2
  <2> QED BY <1>6, <2>2, <2>3 DEF Said, S, K, map2, end, l
<1>11. CASE ~S(n + 1)
  <2>1. map2 = map
    BY <1>5, <1>11 DEF map2
  <2>2. {j \in 1 .. n + 1 : S(j)} = {j \in 1 .. n : S(j)}
    BY <1>8, <1>11
  <2>3. DOMAIN map2 = {K(i) : i \in {j \in 1 .. n + 1 : S(j)}}
    BY <1>1, <2>1, <2>2
  <2>4. ASSUME NEW i \in 1 .. n + 1, S(i), \A j \in 1 .. n + 1 : S(j) /\ K(j) = K(i) => j <= i
        PROVE  map2[K(i)] = Uncomment(file[i].text)
    BY <1>1, <1>8, <1>11, <2>1, <2>4
  <2> QED BY <1>6, <2>3, <2>4 DEF Said, S, K, map2, end, l
<1> QED BY <1>10, <1>11

\* Before its first line a file says nothing.
LEMMA NothingSaid ==
  ASSUME NEW file, NEW before
  PROVE  Said(EmptyMap, before, file, before, 0)
<1>1. before = SectionOf(file, before, 0 + 1)
  BY FirstSection
<1>2. DOMAIN EmptyMap = {}
  BY DEF EmptyMap
<1>3. {j \in 1 .. 0 : Sets(file, before, j)} = {}
  OBVIOUS
<1>4. {KeyOf(file, before, i) : i \in {j \in 1 .. 0 : Sets(file, before, j)}} = {}
  BY <1>3
<1>5. 1 .. 0 = {}
  OBVIOUS
<1> QED BY <1>1, <1>2, <1>4, <1>5 DEF Said

-----------------------------------------------------------------------------
(* config.conf has been read line by line. *)

\* What init has found after line i when it had found r before.
After(r, i) == LineDone(r.map, r.section, FirstFile[i])

Start == [map |-> EmptyMap, section |-> <<>>]

\* g tells what has been found after each of the first n lines.
Tells(g, n) == g = [i \in 0 .. n |-> IF i = 0 THEN Start ELSE After(g[i - 1], i)]

\* There is such a function for every n.
LEMMA SomeTells == \A n \in Nat : \E g : Tells(g, n)
<1>1. \E g : Tells(g, 0)
  <2> DEFINE g == [i \in 0 .. 0 |-> Start]
  <2>1. g = [i \in 0 .. 0 |-> IF i = 0 THEN Start ELSE After(g[i - 1], i)]
    OBVIOUS
  <2> QED BY <2>1 DEF Tells
<1>2. ASSUME NEW n \in Nat, NEW g, Tells(g, n) PROVE \E h : Tells(h, n + 1)
  <2> DEFINE h == [i \in 0 .. n + 1 |-> IF i = n + 1 THEN After(g[n], n + 1) ELSE g[i]]
             f == [i \in 0 .. n + 1 |-> IF i = 0 THEN Start ELSE After(h[i - 1], i)]
  <2>1. \A i \in 0 .. n : g[i] = IF i = 0 THEN Start ELSE After(g[i - 1], i)
    BY <1>2 DEF Tells
  <2>2. \A i \in 0 .. n : h[i] = g[i]
    OBVIOUS
  <2>3. h[n + 1] = After(g[n], n + 1)
    OBVIOUS
  <2>4. ASSUME NEW i \in 0 .. n + 1 PROVE h[i] = IF i = 0 THEN Start ELSE After(h[i - 1], i)
    <3>1. CASE i = 0
      BY <2>1, <2>2, <3>1
    <3>2. CASE i = n + 1
      <4>1. n \in 0 .. n /\ i - 1 = n /\ i # 0
        BY <3>2
      <4>2. h[i - 1] = g[n]
        BY <2>2, <4>1
      <4> QED BY <2>3, <3>2, <4>1, <4>2
    <3>3. CASE i \in 1 .. n
      <4>1. i \in 0 .. n /\ i - 1 \in 0 .. n /\ i # 0
        BY <3>3
      <4>2. h[i] = g[i] /\ h[i - 1] = g[i - 1]
        BY <2>2, <4>1
      <4> QED BY <2>1, <4>1, <4>2
    <3> QED BY <2>4, <3>1, <3>2, <3>3
  <2>5. h = f
    BY <2>4
  <2> QED BY <2>5 DEF Tells
<1> DEFINE none == {n \in Nat : ~ \E g : Tells(g, n)}
<1>3. none = {}
  <2>1. SUFFICES ASSUME none # {} PROVE FALSE
    OBVIOUS
  <2>2. Min(none) \in none /\ \A n \in none : Min(none) <= n
    BY <2>1, LeastExists
  <2>3. Min(none) \in Nat /\ ~ \E g : Tells(g, Min(none))
    BY <2>2
  <2> DEFINE n == Min(none) - 1
  <2> HIDE DEF none
  <2>4. Min(none) # 0
    BY <1>1, <2>3
  <2>5. n \in Nat /\ n + 1 = Min(none) /\ ~(Min(none) <= n)
    BY <2>3, <2>4
  <2>6. n \notin none
    BY <2>2, <2>5
  <2>7. PICK g : Tells(g, n)
    BY <2>5, <2>6 DEF none
  <2> HIDE DEF n
  <2>8. \E h : Tells(h, n + 1)
    BY <1>2, <2>5, <2>7
  <2> QED BY <2>3, <2>5, <2>8
<1> QED BY <1>3

\* The recursive function is one.
LEMMA ReadTells ==
  /\ Read[0] = Start
  /\ \A i \in 1 .. Len(FirstFile) : Read[i] = After(Read[i - 1], i)
<1> DEFINE L == Len(FirstFile)
<1>1. L \in Nat
  BY FileAssumption
<1>2. PICK g : Tells(g, L)
  BY <1>1, SomeTells
<1>3. Read = CHOOSE f : Tells(f, L)
  BY DEF Read, Tells, After, Start
<1>4. Tells(Read, L)
  BY <1>2, <1>3
<1> HIDE DEF L
<1>5. \A i \in 0 .. L : Read[i] = IF i = 0 THEN Start ELSE After(Read[i - 1], i)
  BY <1>4 DEF Tells
<1>6. 0 \in 0 .. L /\ \A i \in 1 .. L : i \in 0 .. L /\ i # 0
  BY <1>1
<1> QED BY <1>5, <1>6 DEF L

\* It holds what the lines so far say.
LEMMA ReadSaid ==
  Said(Read[Len(FirstFile)].map, Read[Len(FirstFile)].section, FirstFile, <<>>, Len(FirstFile))
<1> DEFINE L == Len(FirstFile)
           Right(n) == Said(Read[n].map, Read[n].section, FirstFile, <<>>, n)
           wrong == {n \in 0 .. L : ~Right(n)}
<1>1. L \in Nat
  BY FileAssumption
<1>2. Right(0)
  <2>1. Read[0].map = EmptyMap /\ Read[0].section = <<>>
    BY ReadTells DEF Start
  <2> QED BY <2>1, NothingSaid
<1>3. ASSUME NEW n \in Nat, n + 1 \in 1 .. L, Right(n) PROVE Right(n + 1)
  <2>1. Read[n + 1] = LineDone(Read[n].map, Read[n].section, FirstFile[n + 1])
    <3>1. (n + 1) - 1 = n
      OBVIOUS
    <3>2. Read[n + 1] = After(Read[(n + 1) - 1], n + 1)
      BY <1>3, ReadTells
    <3> QED BY <3>1, <3>2 DEF After
  <2> QED BY <1>3, <2>1, LineSaid
<1> HIDE DEF L, Right
<1>4. wrong = {}
  <2>1. SUFFICES ASSUME wrong # {} PROVE FALSE
    OBVIOUS
  <2>2. wrong \in SUBSET Nat
    BY <1>1
  <2>3. Min(wrong) \in wrong /\ \A n \in wrong : Min(wrong) <= n
    BY <2>1, <2>2, LeastExists
  <2>4. Min(wrong) \in 0 .. L /\ ~Right(Min(wrong))
    BY <2>3
  <2> DEFINE n == Min(wrong) - 1
  <2>5. Min(wrong) # 0
    BY <1>2, <2>4
  <2> HIDE DEF wrong
  <2>6. n \in 0 .. L /\ n \in Nat /\ n + 1 = Min(wrong) /\ n + 1 \in 1 .. L /\ ~(Min(wrong) <= n)
    BY <1>1, <2>4, <2>5
  <2>7. n \notin wrong
    BY <2>3, <2>6
  <2>8. Right(n)
    BY <2>6, <2>7 DEF wrong
  <2> HIDE DEF n
  <2>9. Right(n + 1)
    BY <1>3, <2>6, <2>8
  <2> QED BY <2>4, <2>6, <2>9
<1>5. L \in 0 .. L
  BY <1>1
<1> QED BY <1>4, <1>5 DEF L, Right

-----------------------------------------------------------------------------
(* The invariant. *)

\* What is left of a sequence.
LEMMA Left ==
  ASSUME NEW T, NEW s \in Seq(T), NEW n \in 0 .. Len(s)
  PROVE  LET r == SubSeq(s, n + 1, Len(s))
         IN  /\ r = <<>> <=> n = Len(s)
             /\ n = 0 => r = s
             /\ n # Len(s) => Head(r) = s[n + 1] /\ Tail(r) = SubSeq(s, n + 1 + 1, Len(s))
<1> DEFINE L == Len(s)
           r == SubSeq(s, n + 1, L)
           q == SubSeq(s, n + 1 + 1, L)
<1>1. L \in Nat /\ n \in 0 .. L /\ \A i \in 1 .. L : s[i] \in T
  OBVIOUS
<1>2. r \in Seq(T) /\ Len(r) = L - n /\ \A i \in 1 .. L - n : r[i] = s[n + i]
  OBVIOUS
<1>3. r = <<>> <=> n = L
  <2>1. r = <<>> <=> Len(r) = 0
    BY <1>2, EmptySeq
  <2> QED BY <1>1, <1>2, <2>1
<1>4. n = 0 => r = s
  OBVIOUS
<1>5. ASSUME n # L PROVE Head(r) = s[n + 1] /\ Tail(r) = q
  <2>1. q \in Seq(T) /\ Len(q) = L - n - 1 /\ \A i \in 1 .. L - n - 1 : q[i] = s[n + 1 + i]
    BY <1>5
  <2> HIDE DEF r, q, L
  <2>2. L - n - 1 \in Nat /\ 1 \in 1 .. L - n
    BY <1>1, <1>5
  <2>3. Head(r) = s[n + 1]
    BY <1>2, <2>2
  <2>4. /\ Tail(r) \in Seq(T) /\ Len(Tail(r)) = L - n - 1
        /\ \A i \in 1 .. L - n - 1 : Tail(r)[i] = r[i + 1]
    BY <1>2, <2>2
  <2>5. ASSUME NEW i \in 1 .. L - n - 1 PROVE Tail(r)[i] = q[i]
    <3>1. i + 1 \in 1 .. L - n /\ n + (i + 1) = n + 1 + i
      BY <1>1, <2>2
    <3> QED BY <1>2, <2>1, <2>4, <3>1
  <2>6. Tail(r) = q
    BY <2>1, <2>4, <2>5, SeqEqual
  <2> QED BY <2>3, <2>6
<1>6. q = SubSeq(s, n + 1 + 1, Len(s)) /\ r = SubSeq(s, n + 1, Len(s)) /\ L = Len(s)
  OBVIOUS
<1> HIDE DEF r, q, L
<1>7. n # L => Head(r) = s[n + 1] /\ Tail(r) = q
  BY <1>5
<1> QED BY <1>3, <1>4, <1>6, <1>7

\* init establishes it.
LEMMA ConfInit == InitConfig => ConfInv
<1> SUFFICES ASSUME InitConfig PROVE ConfInv
  OBVIOUS
<1>1. FirstFile \in Seq(Line) /\ Len(FirstFile) \in 0 .. Len(FirstFile)
  BY FileAssumption
<1>2. /\ confMap = Read[Len(FirstFile)].map /\ strcet = Read[Len(FirstFile)].section
      /\ rest = <<>> /\ loaded.file = FirstFile /\ loaded.section = <<>>
  BY DEF InitConfig
<1>3. rest = SubSeq(FirstFile, Len(FirstFile) + 1, Len(FirstFile))
  BY <1>1, <1>2, Left
<1>4. Said(confMap, strcet, FirstFile, <<>>, Len(FirstFile))
  BY <1>2, ReadSaid
<1> QED BY <1>1, <1>2, <1>3, <1>4 DEF ConfInv

\* Load and each line keep it.
LEMMA ConfStep == ConfInv /\ ConfigNext => ConfInv'
<1> SUFFICES ASSUME ConfInv, ConfigNext PROVE ConfInv'
  OBVIOUS
<1>1. CASE ReadLine
  <2> DEFINE file == loaded.file
             before == loaded.section
  <2>1. PICK n \in 0 .. Len(file) : /\ rest = SubSeq(file, n + 1, Len(file))
                                    /\ Said(confMap, strcet, file, before, n)
    BY DEF ConfInv
  <2>2. file \in Seq(Line) /\ loaded' = loaded /\ rest # <<>>
    BY <1>1 DEF ConfInv, ReadLine
  <2>3. /\ n # Len(file) /\ Head(rest) = file[n + 1]
        /\ Tail(rest) = SubSeq(file, n + 1 + 1, Len(file))
    BY <2>1, <2>2, Left
  <2>4. /\ confMap' = LineDone(confMap, strcet, file[n + 1]).map
        /\ strcet' = LineDone(confMap, strcet, file[n + 1]).section
        /\ rest' = SubSeq(file, n + 1 + 1, Len(file))
    BY <1>1, <2>3 DEF ReadLine
  <2>5. n \in Nat /\ n + 1 \in 0 .. Len(file)
    BY <2>2, <2>3
  <2>6. Said(confMap', strcet', file, before, n + 1)
    BY <2>1, <2>4, <2>5, LineSaid
  <2>7. loaded'.file = file /\ loaded'.section = before
    BY <2>2
  <2> QED BY <2>2, <2>4, <2>5, <2>6, <2>7 DEF ConfInv
<1>2. ASSUME NEW file \in File, Load(file) PROVE ConfInv'
  <2>1. file \in Seq(Line) /\ 0 \in 0 .. Len(file)
    BY FileAssumption
  <2>2. /\ confMap' = EmptyMap /\ rest' = file /\ strcet' = strcet
        /\ loaded'.file = file /\ loaded'.section = strcet
    BY <1>2 DEF Load
  <2>3. rest' = SubSeq(file, 0 + 1, Len(file))
    BY <2>1, <2>2, Left
  <2>4. Said(confMap', strcet', file, strcet, 0)
    BY <2>2, NothingSaid
  <2> QED BY <2>1, <2>2, <2>3, <2>4 DEF ConfInv
<1> QED BY <1>1, <1>2 DEF ConfigNext

\* Nothing else touches it.
LEMMA ConfKept == ConfInv /\ UNCHANGED confVars => ConfInv'
BY DEF ConfInv, confVars

\* Once a file has been read to its end, the map holds what it says.
LEMMA ConfEnd == ConfInv => FileInForce
<1> SUFFICES ASSUME ConfInv, rest = <<>> PROVE FileInForce
  BY DEF FileInForce
<1> DEFINE file == loaded.file
           before == loaded.section
           L == Len(file)
           pairs == {i \in DOMAIN file :
                       /\ file[i].type = "pair"
                       /\ SectionOf(file, before, i) # <<>>
                       /\ file[i].key # <<>>
                       /\ ~IsValue(file[i].text, <<>>)}
           set == {i \in 1 .. L : Sets(file, before, i)}
           K(i) == KeyOf(file, before, i)
<1>1. file \in Seq(Line) /\ L \in Nat /\ DOMAIN file = 1 .. L
  BY DEF ConfInv
<1>2. PICK n \in 0 .. L : rest = SubSeq(file, n + 1, L) /\ Said(confMap, strcet, file, before, n)
  BY DEF ConfInv
<1>3. n = L
  BY <1>1, <1>2, Left
<1>4. /\ DOMAIN confMap = {K(i) : i \in set}
      /\ \A i \in 1 .. L : i \in set /\ (\A j \in 1 .. L : j \in set /\ K(j) = K(i) => j <= i)
                             => confMap[K(i)] = Uncomment(file[i].text)
  BY <1>2, <1>3 DEF Said
<1>5. ASSUME NEW i \in 1 .. L PROVE file[i].text \in Seq(STRING)
  <2>1. file[i] \in Line
    BY <1>1
  <2> QED BY <2>1 DEF Line
<1>6. \A i \in 1 .. L : \A v : IsValue(file[i].text, v) <=> v = Uncomment(file[i].text)
  BY <1>5, ValueIs
<1>7. pairs = set
  BY <1>1, <1>6 DEF Sets
<1>8. \A i : K(i) = SectionOf(file, before, i) \o file[i].key
  BY DEF KeyOf
<1>9. ASSUME NEW i \in pairs, \A j \in pairs : K(j) = K(i) => j <= i
      PROVE  IsValue(file[i].text, confMap[K(i)])
  <2>1. i \in 1 .. L /\ i \in set
    BY <1>1, <1>7
  <2> HIDE DEF pairs, set, K, L
  <2>2. confMap[K(i)] = Uncomment(file[i].text)
    BY <1>4, <1>7, <1>9, <2>1
  <2> QED BY <1>6, <2>1, <2>2
<1>10. DOMAIN confMap = {K(i) : i \in pairs}
  BY <1>4, <1>7
<1> QED BY <1>9, <1>10 DEF FileInForce, KeyOf

\* The configuration says what its file says, whoever prints or reads while it is loaded.
THEOREM FileHolds == Spec => []FileInForce
<1>1. Init => ConfInv
  BY ConfInit DEF Init
<1>2. ConfInv /\ [Next]_vars => ConfInv'
  <2> SUFFICES ASSUME ConfInv, [Next]_vars PROVE ConfInv'
    OBVIOUS
  <2>1. CASE UNCHANGED confVars
    BY <2>1, ConfKept
  <2>2. CASE ConfigNext
    BY <2>2, ConfStep
  <2>3. ASSUME NEW t \in Thread, Statement(t) PROVE UNCHANGED confVars
    BY <2>3 DEF Statement, Fetch, Done, Ask, Lock, SaveFlags, SetFlags, SetPrefix, Output,
                Unlock, SetLevel, SetLevelFlags
  <2>4. ASSUME NEW t \in Caller, NEW k \in role[t] \ {"load"}, Call(t, k)
        PROVE  UNCHANGED confVars
    BY <2>4 DEF Call
  <2>5. Change => UNCHANGED confVars
    BY DEF Change, Midnight, Open, Publish
  <2>6. Configure => ConfigNext
    BY DEF Configure
  <2>7. UNCHANGED vars => UNCHANGED confVars
    BY DEF vars
  <2> QED BY <2>1, <2>2, <2>3, <2>4, <2>5, <2>6, <2>7 DEF Next
<1> QED BY <1>1, <1>2, ConfEnd, PTL DEF Spec
=============================================================================
