----------------------------- MODULE Expression -----------------------------
(***************************************************************************)
(* Formulas that are registered and calculated by any number of goroutines *)
(* (src/expression).  Reg parses a formula and writes the map of formulas  *)
(* under a lock; Calc reads the map without it.                            *)
(***************************************************************************)
EXTENDS FiniteSets, Rpn

CONSTANTS Thread,   \* goroutines
          Name,     \* names of formulas
          Formula,  \* texts that are registered: what prepare makes of them
          Bindings, \* values for keys that Calc is called with
          Number,   \* a text that is a number -> the number
          Items,    \* a text that is a list -> what its commas separate
          None

\* There is a function name in a token.
Names(t) == \E f \in functionNames : Within(f, t)

\* prepare sets function names apart from what is around them; keys are not empty, and a
\* map has finitely many of them.
ASSUME FormulaAssumption ==
  \A f \in Formula : f \in Seq(Seq(STRING)) /\ \A i \in DOMAIN f : Names(f[i]) => isFN(f[i])
ASSUME BindingsAssumption ==
  \A kvMap \in Bindings :
    /\ IsFiniteSet(DOMAIN kvMap)
    /\ \A k \in DOMAIN kvMap : k \in Seq(STRING) \ {NoText} /\ kvMap[k] \in Seq(STRING)

VARIABLES
  formulaMap, \* name -> the text of its formula, or None
  formulaMu,  \* the thread that holds the lock, or None
  pc,         \* "idle", "lock", "parse", "write", "calc", "done" or "loop"
  call,       \* what the thread was called with, or None
  result,     \* what Calc returns, or None
  source,     \* name -> the formula that was registered last, or None
  of,         \* thread -> the formula that its Calc has read, or None
  dead        \* the runtime has stopped the process

ghosts == <<source, of>>
vars == <<formulaMap, formulaMu, pc, call, result, ghosts, dead>>

Init == /\ formulaMap = [n \in Name |-> None]
        /\ formulaMu = None
        /\ pc = [t \in Thread |-> "idle"]
        /\ call = [t \in Thread |-> None]
        /\ result = [t \in Thread |-> None]
        /\ source = [n \in Name |-> None]
        /\ of = [t \in Thread |-> None]
        /\ dead = FALSE

-----------------------------------------------------------------------------
(* Calculation. *)

Bool(b) == IF b THEN <<"t", "r", "u", "e">> ELSE <<"f", "a", "l", "s", "e">>
StrToBool(t) == t = Bool(TRUE)
StrToFloat64(t) == IF t \in DOMAIN Number THEN Number[t] ELSE 0
StrToSet(t) == IF t \in DOMAIN Items THEN Items[t] ELSE {t}

\* Popping the arguments, the first of them first; beyond the last there is nothing.
Arg(args, i) == IF i \in DOMAIN args THEN args[i] ELSE NoText

Apply(op, args) ==
  LET a == Arg(args, 1)
      b == Arg(args, 2)
      x == StrToFloat64(a)
      y == StrToFloat64(b)
  IN  CASE op = AtAND -> args # <<>> /\ \A i \in DOMAIN args : StrToBool(args[i])
        [] op = AtOR  -> \E i \in DOMAIN args : StrToBool(args[i])
        [] op = AtNOT -> ~StrToBool(a)
        [] op = AtIN  -> a \in StrToSet(b)
        [] op = AtNIN -> a \notin StrToSet(b)
        [] op = AtGT  -> x > y
        [] op = AtGE  -> x >= y
        [] op = AtLT  -> x < y
        [] op = AtLE  -> x <= y
        [] op = AtEQ  -> a = b
        [] op = AtNEQ -> a # b

Marks(s) == {i \in DOMAIN s : s[i] = separator}

\* Mutant of reverseArgs: the arguments come in the order in which they are popped.
reverseArgsOnce(s) == Reverse(SubSeq(s, Max(Marks(s)) + 1, Len(s)))

\* The arguments of the operator that comes next: what is above the last mark.
reverseArgs(s) == SubSeq(s, Max(Marks(s)) + 1, Len(s))

\* An operator with no mark on the stack looks for it for ever.
Step(x, t) ==
  CASE x.loops -> x
    [] ~x.loops /\ isFN(t) ->
         IF Marks(x.s) = {} THEN [x EXCEPT !.loops = TRUE]
         ELSE [x EXCEPT !.s = Push(SubSeq(@, 1, Max(Marks(@)) - 1),
                                   Bool(Apply(t, reverseArgs(@))))]
    [] OTHER -> [x EXCEPT !.s = Push(@, t)]

\* One letter of a token in which v goes in for k: skip letters of a key that has just
\* been replaced are still to be passed over.
Pass(x, t, k, v, i) ==
  CASE x.skip > 0 -> [x EXCEPT !.skip = @ - 1]
    [] x.skip = 0 /\ IsPrefix(k, SubSeq(t, i, Len(t))) ->
         [out |-> x.out \o v, skip |-> Len(k) - 1]
    [] OTHER -> [x EXCEPT !.out = Append(@, t[i])]

\* strings.Replace, within a token, from left to right.
Replace(t, k, v) ==
  LET passed[i \in 0 .. Len(t)] ==
        IF i = 0 THEN [out |-> <<>>, skip |-> 0] ELSE Pass(passed[i - 1], t, k, v, i)
  IN  passed[Len(t)].out

\* The values go in for the keys one after the other, each over what the text has become.
Filled(exp, kvMap, keys) ==
  LET filled[n \in 0 .. Len(keys)] ==
        IF n = 0 THEN exp
        ELSE LET text == filled[n - 1]
             IN  [i \in DOMAIN text |-> Replace(text[i], keys[n], kvMap[keys[n]])]
  IN  filled[Len(keys)]

\* The tokens of a text, one after the other.
Run(text) ==
  LET run[n \in 0 .. Len(text)] ==
        IF n = 0 THEN [s |-> <<>>, loops |-> FALSE] ELSE Step(run[n - 1], text[n])
  IN  run[Len(text)]

\* An empty text is one empty token.
Calculation(exp, kvMap, keys) ==
  Run(Filled(IF exp = <<>> THEN <<NoText>> ELSE exp, kvMap, keys))

\* What Parse makes of each formula.
Parsed == [f \in Formula |-> Parse(f)]

ASSUME NoneAssumption == None \notin Thread \union Formula \union {p.rpn : p \in Range(Parsed)}

-----------------------------------------------------------------------------
(* Threads. *)

Goto(t, here, there) == ~dead /\ pc[t] = here /\ pc' = [pc EXCEPT ![t] = there]

CallReg(t, n, f) ==
  /\ Goto(t, "idle", "lock")
  /\ call' = [call EXCEPT ![t] = [name |-> n, formula |-> f]]
  /\ UNCHANGED <<formulaMap, formulaMu, result, ghosts, dead>>

Lock(t) ==
  /\ Goto(t, "lock", "parse")
  /\ formulaMu = None
  /\ formulaMu' = t
  /\ UNCHANGED <<formulaMap, call, result, ghosts, dead>>

\* A formula that Parse does not come back from keeps the lock.
ParseFormula(t) ==
  /\ Goto(t, "parse", IF Parsed[call[t].formula].loops THEN "loop" ELSE "write")
  /\ UNCHANGED <<formulaMap, formulaMu, call, result, ghosts, dead>>

\* Mutant of Unlock: there is no unlocking.
UnlockForgotten(t) == UNCHANGED formulaMu

Unlock(t) == formulaMu' = None

Write(t) ==
  /\ Goto(t, "write", "idle")
  /\ formulaMap' = [formulaMap EXCEPT ![call[t].name] = Parsed[call[t].formula].rpn]
  /\ source' = [source EXCEPT ![call[t].name] = call[t].formula]
  /\ Unlock(t)
  /\ call' = [call EXCEPT ![t] = None]
  /\ UNCHANGED <<result, of, dead>>

CallCalc(t, n, kvMap) ==
  /\ Goto(t, "idle", "calc")
  /\ call' = [call EXCEPT ![t] = [name |-> n, kvMap |-> kvMap]]
  /\ UNCHANGED <<formulaMap, formulaMu, result, ghosts, dead>>

\* The map is read: a name that is not there is false, and keys go in in any order.
Calc(t) ==
  /\ ~dead /\ pc[t] = "calc"
  /\ LET exp == formulaMap[call[t].name]
         kvMap == call[t].kvMap
     IN  \/ /\ exp = None
            /\ Goto(t, "calc", "done")
            /\ result' = [result EXCEPT ![t] = FALSE]
         \/ /\ exp # None
            /\ \E keys \in SetToSeqs(DOMAIN kvMap) :
                 LET x == Calculation(exp, kvMap, keys)
                 IN  /\ Goto(t, "calc", IF x.loops THEN "loop" ELSE "done")
                     /\ result' = [result EXCEPT ![t] = ~x.loops /\ StrToBool(Top(x.s))]
  /\ of' = [of EXCEPT ![t] = source[call[t].name]]
  /\ UNCHANGED <<formulaMap, formulaMu, call, source, dead>>

\* A read while the map is being written: the runtime may notice, and stops the process.
ReadNoticed(t) ==
  /\ ~dead /\ pc[t] = "calc"
  /\ \E u \in Thread : pc[u] = "write"
  /\ dead' = TRUE
  /\ UNCHANGED <<formulaMap, formulaMu, pc, call, result, ghosts>>

Return(t) ==
  /\ Goto(t, "done", "idle")
  /\ call' = [call EXCEPT ![t] = None]
  /\ result' = [result EXCEPT ![t] = None]
  /\ of' = [of EXCEPT ![t] = None]
  /\ UNCHANGED <<formulaMap, formulaMu, source, dead>>

Next == \E t \in Thread :
          \/ \E n \in Name : \/ \E f \in Formula : CallReg(t, n, f)
                             \/ \E kvMap \in Bindings : CallCalc(t, n, kvMap)
          \/ Lock(t) \/ ParseFormula(t) \/ Write(t)
          \/ Calc(t) \/ ReadNoticed(t) \/ Return(t)

\* A goroutine that can run does, and sync.Mutex hands the lock to who has waited long.
Fairness == \A t \in Thread : /\ SF_vars(Lock(t))
                              /\ WF_vars(ParseFormula(t) \/ Write(t))

Spec == Init /\ [][Next]_vars /\ Fairness

-----------------------------------------------------------------------------
(* Properties. *)

\* The lock is held by the one thread that is parsing, writing or looping in Parse.
TypeOK ==
  /\ formulaMap \in [Name -> {p.rpn : p \in Range(Parsed)} \union {None}]
  /\ \A n \in Name : (formulaMap[n] = None) = (source[n] = None)
  /\ pc \in [Thread -> {"idle", "lock", "parse", "write", "calc", "done", "loop"}]
  /\ \A t \in Thread :
       (formulaMu = t) = (\/ pc[t] \in {"parse", "write"}
                          \/ pc[t] = "loop" /\ "formula" \in DOMAIN call[t])
  /\ result \in [Thread -> BOOLEAN \union {None}]
  /\ dead \in BOOLEAN

\* Every function name begins with this letter, and nothing else of it is one.
HasAt(t) == \E i \in DOMAIN t : t[i] = "@"

\* A formula does not make Calc loop, malformed as it may be: when Parse comes back from
\* it, each function has its mark.  What can is a key that takes a mark away, or a function
\* that is made up by replacement, of a value with an "@" in it or around an "@" that
\* stands in the formula without being of a function ("@xEQ", when x is empty).
CalcLoopsOnlyByStrays ==
  \A t \in Thread :
    pc[t] = "loop" /\ "kvMap" \in DOMAIN call[t] =>
      \/ \E k \in DOMAIN call[t].kvMap : k = separator \/ HasAt(call[t].kvMap[k])
      \/ \E i \in DOMAIN of[t] : HasAt(of[t][i]) /\ ~isFN(of[t][i])
=============================================================================
