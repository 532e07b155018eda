------------------------------- MODULE Logger -------------------------------
(***************************************************************************)
(* The global logger (src/logger): concurrent calls that print, calls of   *)
(* SetLevel, and the change of the logger at midnight, which reads the     *)
(* configuration (module Config) while it may be loaded anew.              *)
(*                                                                         *)
(* Every statement of the code that mentions mylogger loads that pointer   *)
(* again, and what it does to the logger comes after: a step is the load   *)
(* (Fetch) or what is done to the logger that was loaded.                  *)
(***************************************************************************)
EXTENDS Config

CONSTANTS Caller,     \* goroutines that print or set the level
          Timer,      \* the goroutine that TimerZero starts at midnight
          Role,       \* the programs: Caller -> the functions it calls
          MaxLogger,  \* bound: loggers ever made
          LogNode, PathKey, LevelKey  \* "log", "path" and "level"

Thread == Caller \union {Timer}
Log == 1 .. MaxLogger
Level == {"DEBUG", "INFO", "ERROR"}
Function == {"debug", "info", "error", "println"}

ASSUME ThreadAssumption ==
  /\ Timer \notin Caller /\ MaxLogger \in Nat \ {0}
  /\ Role \subseteq [Caller -> SUBSET (Function \union Level \union {"load"})]

VARIABLES
  mylogger,  \* the current logger
  level,     \* Log -> its level
  prefix,    \* Log -> the kind of line its prefix announces, "" or "blank"
  flags,     \* Log -> "std", "file" (with the file and the line) or "none"
  locked,    \* Log -> is its mutex locked?
  ended,     \* why the process has ended: "unlock", "map" or "file", "" while it runs
  role,      \* the program that runs
  pc,        \* Thread -> next statement
  kind,      \* Thread -> the function it is in
  at,        \* Thread -> the logger its statement has loaded, 0 before
  saved,     \* Thread -> the flags that Println keeps, the level that SetLevel sets
  mine,      \* history: Thread -> the logger it locked or set the level of, 0 when none
  settled,   \* history: Thread -> no level was set or changed since its call began
  astray,    \* history: some call has gone on with another logger than its own
  muddled    \* history: flags were set while a Println had them in hand

threadVars == <<pc, kind, at, saved>>
logVars == <<level, prefix, flags, locked>>
histVars == <<mine, settled, astray, muddled>>
vars == <<mylogger, logVars, ended, role, threadVars, histVars, confVars>>

\* Mutant of Asks: Debug prints at INFO too.
AsksMore(k) == CASE k = "debug" -> <<"DEBUG", "INFO">>
                 [] k = "info" -> <<"INFO", "DEBUG">>
                 [] k = "error" -> <<"INFO", "DEBUG", "ERROR">>
                 [] OTHER -> <<>>

\* Mutant of Asks: Err does not ask for ERROR.
AsksLess(k) == CASE k = "debug" -> <<"DEBUG">>
                 [] k \in {"info", "error"} -> <<"INFO", "DEBUG">>
                 [] OTHER -> <<>>

\* The levels a function asks for before it prints, in this order.
Asks(k) == CASE k = "debug" -> <<"DEBUG">>
             [] k = "info" -> <<"INFO", "DEBUG">>
             [] k = "error" -> <<"INFO", "DEBUG", "ERROR">>
             [] OTHER -> <<>>

\* SetLevel's flags for a level.
FlagsOf(lvl) == IF lvl = "INFO" THEN "std" ELSE "file"

\* Mutant of Body: Println does not save the flags.
BodyUnsaved(k) ==
  IF k = "println" THEN <<"lock", "clear", "prefix", "output", "reset", "restore", "unlock">>
  ELSE <<"lock", "prefix", "output", "reset", "unlock">>

\* Mutant of Body: Println does not put the flags back.
BodyUnrestored(k) ==
  IF k = "println" THEN <<"lock", "save", "clear", "prefix", "output", "reset", "unlock">>
  ELSE <<"lock", "prefix", "output", "reset", "unlock">>

\* The statements that follow the lock.
Body(k) == IF k = "println"
           THEN <<"lock", "save", "clear", "prefix", "output", "reset", "restore", "unlock">>
           ELSE <<"lock", "prefix", "output", "reset", "unlock">>

Follows(k, s) ==
  IF s = "unlock" THEN "idle"
  ELSE Body(k)[1 + CHOOSE i \in DOMAIN Body(k) : Body(k)[i] = s]

\* The first logger; a new one has the level DEBUG and its flags.
InitLogger(lvl) ==
  /\ mylogger = 1
  /\ level = [l \in Log |-> IF l = 1 /\ lvl \in Level THEN lvl ELSE "DEBUG"]
  /\ prefix = [l \in Log |-> ""]
  /\ flags = [l \in Log |-> FlagsOf(level[l])]
  /\ locked = [l \in Log |-> FALSE]

\* The level a change sets: INFO when none is configured; SetLevel leaves one it does
\* not know alone.
Configured(text) == IF text = <<>> THEN "INFO" ELSE Head(text)

Init == /\ InitConfig
        /\ InitLogger(Configured(ReadKey(LogNode, LevelKey)))
        /\ ended = ""
        /\ role \in Role
        /\ pc = [t \in Thread |-> "idle"]
        /\ kind = [t \in Thread |-> ""]
        /\ at = [t \in Thread |-> 0]
        /\ saved = [t \in Thread |-> ""]
        /\ mine = [t \in Thread |-> 0]
        /\ settled = [t \in Thread |-> TRUE]
        /\ astray = FALSE
        /\ muddled = FALSE

-----------------------------------------------------------------------------
(* Steps. *)

\* A caller enters a function.
Call(t, k) ==
  /\ pc[t] = "idle"
  /\ kind' = [kind EXCEPT ![t] = k]
  /\ pc' = [pc EXCEPT ![t] = IF k = "println" THEN "lock"
                             ELSE IF k \in Level THEN "level" ELSE "ask1"]
  /\ saved' = [saved EXCEPT ![t] = IF k \in Level THEN k ELSE ""]
  /\ settled' = [settled EXCEPT ![t] = TRUE]
  /\ UNCHANGED <<mylogger, logVars, ended, role, at, mine, astray, muddled, confVars>>

\* A statement loads mylogger.
Fetch(t) ==
  /\ pc[t] \notin {"idle", "open", "publish"}
  /\ at[t] = 0
  /\ at' = [at EXCEPT ![t] = mylogger]
  /\ UNCHANGED <<mylogger, logVars, ended, role, pc, kind, saved, histVars, confVars>>

\* The statement s of t is done with the logger it loaded; the next one is next.  A
\* call goes astray when the logger is no longer the one it began with.
Done(t, s, next) ==
  /\ pc[t] = s
  /\ at[t] # 0
  /\ pc' = [pc EXCEPT ![t] = next]
  /\ at' = [at EXCEPT ![t] = 0]
  /\ astray' = (astray \/ mine[t] \notin {0, at[t]})
  /\ kind' = [kind EXCEPT ![t] = IF next = "idle" THEN "" ELSE @]
  /\ UNCHANGED <<mylogger, role, confVars>>

\* One comparison of the level; the statement after the last one is the end.
Ask(t) ==
  \E i \in DOMAIN Asks(kind[t]) :
    /\ Done(t, <<"ask1", "ask2", "ask3">>[i],
            CASE level[at[t]] = Asks(kind[t])[i] -> "lock"
              [] level[at[t]] # Asks(kind[t])[i] /\ i < Len(Asks(kind[t])) ->
                   <<"ask2", "ask3">>[i]
              [] OTHER -> "idle")
    /\ UNCHANGED <<logVars, ended, saved, mine, settled, muddled>>

\* Mutant of Lock: the mutex does not keep a second call out.
LockShared(t) ==
  /\ Done(t, "lock", Follows(kind[t], "lock"))
  /\ locked' = [locked EXCEPT ![at[t]] = TRUE]
  /\ mine' = [mine EXCEPT ![t] = at[t]]
  /\ UNCHANGED <<level, prefix, flags, ended, saved, settled, muddled>>

\* m.Lock: waits until the mutex of the logger it loaded is free.
Lock(t) ==
  /\ Done(t, "lock", Follows(kind[t], "lock"))
  /\ ~locked[at[t]]
  /\ locked' = [locked EXCEPT ![at[t]] = TRUE]
  /\ mine' = [mine EXCEPT ![t] = at[t]]
  /\ UNCHANGED <<level, prefix, flags, ended, saved, settled, muddled>>

\* Println's flags := Flags().
SaveFlags(t) ==
  /\ Done(t, "save", "clear")
  /\ saved' = [saved EXCEPT ![t] = flags[at[t]]]
  /\ UNCHANGED <<logVars, ended, mine, settled, muddled>>

\* SetFlags(0), and SetFlags(flags) at the end.
SetFlags(t) ==
  \E s \in {"clear", "restore"} :
    /\ Done(t, s, Follows(kind[t], s))
    /\ flags' = [flags EXCEPT ![at[t]] = IF s = "clear" THEN "none" ELSE saved[t]]
    /\ saved' = [saved EXCEPT ![t] = IF s = "clear" THEN @ ELSE ""]
    /\ UNCHANGED <<level, prefix, locked, ended, mine, settled, muddled>>

\* SetPrefix before the line and after it.
SetPrefix(t) ==
  \E s \in {"prefix", "reset"} :
    /\ Done(t, s, Follows(kind[t], s))
    /\ prefix' = [prefix EXCEPT ![at[t]] = IF s = "prefix" THEN kind[t] ELSE "blank"]
    /\ UNCHANGED <<level, flags, locked, ended, saved, mine, settled, muddled>>

\* Output writes the line with the logger's prefix and flags of this moment.
Output(t) ==
  /\ Done(t, "output", "reset")
  /\ UNCHANGED <<logVars, ended, saved, mine, settled, muddled>>

\* Mutant of Unlock: the mutex is not released.
UnlockForgotten(t) ==
  /\ Done(t, "unlock", "idle")
  /\ ended' = ""
  /\ mine' = [mine EXCEPT ![t] = 0]
  /\ UNCHANGED <<logVars, saved, settled, muddled>>

\* m.Unlock: a fatal error when the mutex of the logger it loaded is not locked.
Unlock(t) ==
  /\ Done(t, "unlock", "idle")
  /\ locked' = [locked EXCEPT ![at[t]] = FALSE]
  /\ ended' = IF locked[at[t]] THEN "" ELSE "unlock"
  /\ mine' = [mine EXCEPT ![t] = 0]
  /\ UNCHANGED <<level, prefix, flags, saved, settled, muddled>>

\* SetLevel's first statement; a level it does not know changes nothing.
SetLevel(t) ==
  /\ Done(t, "level", IF saved[t] \in Level THEN "flags" ELSE "idle")
  /\ level' = IF saved[t] \in Level THEN [level EXCEPT ![at[t]] = saved[t]] ELSE level
  /\ settled' = [u \in Thread |-> FALSE]
  /\ mine' = [mine EXCEPT ![t] = IF saved[t] \in Level THEN at[t] ELSE 0]
  /\ UNCHANGED <<prefix, flags, locked, ended, saved, muddled>>

\* Println holds flags that it has saved.
KeepsFlags(t) ==
  kind[t] = "println" /\ pc[t] \in {"clear", "prefix", "output", "reset", "restore"}

\* ... and its second.
SetLevelFlags(t) ==
  /\ Done(t, "flags", "idle")
  /\ flags' = [flags EXCEPT ![at[t]] = FlagsOf(saved[t])]
  /\ muddled' = (muddled \/ \E u \in Thread \ {t} : KeepsFlags(u) \/ pc[u] = "flags")
  /\ saved' = [saved EXCEPT ![t] = ""]
  /\ mine' = [mine EXCEPT ![t] = 0]
  /\ UNCHANGED <<level, prefix, locked, ended, settled>>

-----------------------------------------------------------------------------
(* Midnight. *)

\* What a read of the map may end in: the runtime stops a process that it sees read
\* a map while another goroutine writes it.
ReadOutcome == IF rest = <<>> THEN {""} ELSE {"", "map"}

\* TimerZero starts a change; its first statement reads the path.
Midnight ==
  /\ pc[Timer] = "idle"
  /\ mylogger < MaxLogger
  /\ pc' = [pc EXCEPT ![Timer] = "open"]
  /\ saved' = [saved EXCEPT ![Timer] = IF ReadKey(LogNode, PathKey) = <<>> THEN "stdout"
                                       ELSE "path"]
  /\ ended' \in ReadOutcome
  /\ UNCHANGED <<mylogger, logVars, role, kind, at, histVars, confVars>>

\* changeLogger reads the level and, if there is a path, opens the file: one that
\* cannot be opened is a panic.
Open ==
  /\ pc[Timer] = "open"
  /\ saved' = [saved EXCEPT ![Timer] = Configured(ReadKey(LogNode, LevelKey))]
  /\ ended' \in ReadOutcome \union (IF saved[Timer] = "path" THEN {"file"} ELSE {})
  /\ pc' = [pc EXCEPT ![Timer] = "publish"]
  /\ UNCHANGED <<mylogger, logVars, role, kind, at, histVars, confVars>>

\* The new logger takes the old one's place, at level DEBUG.
Publish ==
  /\ pc[Timer] = "publish"
  /\ mylogger' = mylogger + 1
  /\ settled' = [t \in Thread |-> FALSE]
  /\ pc' = [pc EXCEPT ![Timer] = "level"]
  /\ UNCHANGED <<logVars, ended, role, kind, at, saved, mine, astray, muddled, confVars>>

Statement(t) == \/ Fetch(t) \/ Ask(t) \/ Lock(t) \/ SaveFlags(t) \/ SetFlags(t)
                \/ SetPrefix(t) \/ Output(t) \/ Unlock(t) \/ SetLevel(t) \/ SetLevelFlags(t)

Change == Midnight \/ Open \/ Publish

\* A caller of Load reads a file into the configuration.
Configure ==
  /\ \E t \in Caller : "load" \in role[t]
  /\ ConfigNext
  /\ UNCHANGED <<mylogger, logVars, ended, role, threadVars, histVars>>

Next == /\ ended = ""
        /\ \/ \E t \in Thread : Statement(t)
           \/ \E t \in Caller : \E k \in role[t] \ {"load"} : Call(t, k)
           \/ Change
           \/ Configure

\* The scheduler runs every goroutine, and a mutex is handed to the one that waits
\* longest once it has waited for a millisecond.
Fairness == \A t \in Thread : /\ WF_vars(ended = "" /\ Statement(t))
                             /\ SF_vars(ended = "" /\ Lock(t))

Spec == Init /\ [][Next]_vars /\ Fairness

-----------------------------------------------------------------------------
(* Properties. *)

Place == {"idle", "ask1", "ask2", "ask3", "lock", "save", "clear", "prefix", "output", "reset",
          "restore", "unlock", "level", "flags", "open", "publish"}

\* Every variable has its type: in particular the flags are always a set of flags that
\* SetLevel or Println chose, and a logger that a statement works on has been made.
TypeOK ==
  /\ mylogger \in Log
  /\ level \in [Log -> Level]
  /\ prefix \in [Log -> Function \union {"", "blank"}]
  /\ flags \in [Log -> {"std", "file", "none"}]
  /\ locked \in [Log -> BOOLEAN]
  /\ ended \in {"", "unlock", "map", "file"}
  /\ kind \in [Thread -> Function \union Level \union {""}]
  /\ at \in [Thread -> 0 .. mylogger] /\ mine \in [Thread -> 0 .. mylogger]
  /\ pc \in [Thread -> Place] /\ DOMAIN saved = Thread
  /\ role \in Role /\ settled \in [Thread -> BOOLEAN]
  /\ astray \in BOOLEAN /\ muddled \in BOOLEAN

\* As long as no call has gone astray (the logger is replaced between two of its
\* statements), a line is written under its own
\* prefix, and a line of Println under none of the flags.
LineIsOwn ==
  \A t \in Thread :
    pc[t] = "output" /\ at[t] # 0 /\ at[t] = mine[t] /\ ~astray =>
      /\ prefix[at[t]] = kind[t]
      /\ kind[t] = "println" /\ ~muddled => flags[at[t]] = "none"

\* The levels are kept: a call of Debug prints on a logger of another level than DEBUG
\* only if a level was set, or the logger replaced, while it ran.  (The new logger is
\* published at DEBUG, before its level is set.)
DebugNeedsDebug ==
  \A t \in Thread :
    pc[t] = "output" /\ at[t] # 0 /\ kind[t] = "debug" /\ settled[t] =>
      level[at[t]] = "DEBUG"

\* Every level lets errors through: a call of Err gives a line up only if a level was
\* set, or the logger replaced, between its comparisons.
ErrorIsPrinted ==
  [][\A t \in Thread :
       kind[t] = "error" /\ pc[t] # "unlock" /\ pc'[t] = "idle" => ~settled[t]]_vars

\* When nobody is setting flags or holds them in hand, the current logger has the flags
\* of its level, unless two settings of flags ran into each other or a call went astray.
FlagsFollowLevel ==
  (\A t \in Thread : ~KeepsFlags(t) /\ pc[t] \notin {"level", "flags"})
    /\ ~astray /\ ~muddled => flags[mylogger] = FlagsOf(level[mylogger])

\* The process ends in the fatal error of unlocking an unlocked mutex only when a call
\* unlocks another logger than it locked.
FatalOnlyAstray == ended = "unlock" => astray

\* Every call returns, unless the process ends or a call goes astray: it then leaves the
\* mutex it took locked for ever.
CallsReturn ==
  \A t \in Caller : (pc[t] # "idle") ~> (pc[t] = "idle" \/ ended # "" \/ astray)
=============================================================================
