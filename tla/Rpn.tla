-------------------------------- MODULE Rpn --------------------------------
(***************************************************************************)
(* Formulas and their reverse Polish form (src/rpn, src/stack).  A token   *)
(* is a sequence of letters, function names among them; a text is the      *)
(* sequence of the tokens that its spaces separate.                        *)
(***************************************************************************)
EXTENDS Naturals, Sequences, SequencesExt

AtAND == <<"@", "A", "N", "D">>
AtOR == <<"@", "O", "R">>
AtNOT == <<"@", "N", "O", "T">>
AtIN == <<"@", "I", "N">>
AtNIN == <<"@", "N", "I", "N">>
AtGT == <<"@", "G", "T">>
AtGE == <<"@", "G", "E">>
AtLT == <<"@", "L", "T">>
AtLE == <<"@", "L", "E">>
AtEQ == <<"@", "E", "Q">>
AtNEQ == <<"@", "N", "E", "Q">>

functionNames == {AtAND, AtOR, AtNOT, AtIN, AtNIN, AtGT, AtGE, AtLT, AtLE, AtEQ, AtNEQ}
separator == <<"|">>
leftParenthesis == <<"(">>
rightParenthesis == <<")">>
comma == <<",">>
NoText == <<>>

isFN(t) == t \in functionNames

\* k stands somewhere in t.
Within(k, t) == \E i \in DOMAIN t : IsPrefix(k, SubSeq(t, i, Len(t)))

\* Stacks of strings: the top is last, and an empty stack has an empty string on top.
Push(s, v) == Append(s, v)
Top(s) == IF s = <<>> THEN NoText ELSE Last(s)
Popped(s) == IF s = <<>> THEN s ELSE Front(s)

-----------------------------------------------------------------------------
(* Parse: [rpn, s] is what the text and the stack are, loops that a right  *)
(* parenthesis pops the empty stack for ever.                              *)

\* A right parenthesis appends everything down to the left one, and what is under that;
\* a space goes before the first of them even when the text is empty.
Close(x) ==
  LET open == {i \in DOMAIN x.s : x.s[i] = leftParenthesis}
      i == Max(open)
      under == SubSeq(x.s, 1, i - 1)
      above == SubSeq(x.s, i + 1, Len(x.s))
  IN  IF open = {} THEN [x EXCEPT !.loops = TRUE]
      ELSE [x EXCEPT !.rpn = (IF @ = <<>> THEN <<NoText>> ELSE @)
                               \o Append(Reverse(above), Top(under)),
                     !.s = Popped(under)]

\* Mutant of Function: the mark is only written where a space is needed.
FunctionMarkLost(x, t) ==
  [x EXCEPT !.s = Push(@, t), !.rpn = IF @ = <<>> THEN @ ELSE Append(@, separator)]

\* A function is pushed and the beginning of its arguments is marked.
Function(x, t) == [x EXCEPT !.rpn = Append(@, separator), !.s = Push(@, t)]

Token(x, t) ==
  CASE x.loops -> x
    [] ~x.loops /\ isFN(t) -> Function(x, t)
    [] ~x.loops /\ t = leftParenthesis -> [x EXCEPT !.s = Push(@, t)]
    [] ~x.loops /\ t = rightParenthesis -> Close(x)
    [] ~x.loops /\ t = comma -> x
    [] OTHER -> [x EXCEPT !.rpn = Append(@, t)]

\* The stack is dropped in the end, whatever is left on it.
Parse(exp) ==
  LET parsed[n \in 0 .. Len(exp)] ==
        IF n = 0 THEN [rpn |-> <<>>, s |-> <<>>, loops |-> FALSE]
        ELSE Token(parsed[n - 1], exp[n])
  IN  parsed[Len(exp)]
=============================================================================
