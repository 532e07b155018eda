------------------------------ MODULE Meaning ------------------------------
(***************************************************************************)
(* Formulas in function form and what is meant by them: the reference that *)
(* registered formulas and their calculation are measured by.              *)
(***************************************************************************)
EXTENDS Expression

CONSTANTS Tree,   \* formulas in function form, and the arguments in them, as trees
          Height  \* the height of each of them

Leaf(text) == [op |-> NoText, text |-> text, args |-> <<>>]
Node(op, args) == [op |-> op, text |-> NoText, args |-> args]

\* What stands between the commas and parentheses of functions.
IsArgument(t) ==
  /\ t \in Seq(STRING) \ {NoText} /\ ~Names(t)
  /\ t \notin {separator, leftParenthesis, rightParenthesis, comma}

ASSUME TreeAssumption ==
  /\ Height \in [Tree -> Nat]
  /\ \A f \in Tree : /\ IF f.op = NoText THEN IsArgument(f.text) ELSE isFN(f.op)
                     /\ f.args \in Seq(Tree)
                     /\ \A i \in DOMAIN f.args : Height[f.args[i]] < Height[f]

\* Texts one after the other, with a comma between them.
Listed(texts) ==
  LET listed[n \in 0 .. Len(texts)] ==
        CASE n = 0 -> <<>>
          [] n = 1 -> texts[1]
          [] OTHER -> Append(listed[n - 1], comma) \o texts[n]
  IN  listed[Len(texts)]

\* What prepare makes of a formula: its tokens, apart from each other.
Text[f \in Tree] ==
  IF f.op = NoText THEN <<f.text>>
  ELSE <<f.op, leftParenthesis>> \o Listed([i \in DOMAIN f.args |-> Text[f.args[i]]])
         \o <<rightParenthesis>>

\* The value of a formula: that of its function on the values of its arguments.
Value(kvMap) ==
  LET value[f \in Tree] ==
        IF f.op # NoText THEN Bool(Apply(f.op, [i \in DOMAIN f.args |-> value[f.args[i]]]))
        ELSE IF f.text \in DOMAIN kvMap THEN kvMap[f.text] ELSE f.text
  IN  value

-----------------------------------------------------------------------------
(* Properties. *)

\* Keys and values that do not get into each other, nor into the texts of a formula:
\* no key is part of another key, of a value or of another text, and neither a key nor a
\* value is a mark or a function.
Apart(texts, kvMap) ==
  \A k \in DOMAIN kvMap : /\ ~isFN(k) /\ ~isFN(kvMap[k])
                          /\ k # separator /\ kvMap[k] # separator
                          /\ \A j \in DOMAIN kvMap : ~Within(k, kvMap[j])
                          /\ \A t \in texts \union DOMAIN kvMap : t # k => ~Within(k, t)

\* Calc returns the value of the formula that was registered last when it read the map,
\* in whatever order the keys were filled in, when keys and values are kept apart.
CalcIsValue ==
  \A t \in Thread : \A f \in Tree :
    pc[t] = "done" /\ of[t] # None /\ of[t] = Text[f] =>
      (Apart(ToSet(of[t]), call[t].kvMap) =>
         result[t] = StrToBool(Value(call[t].kvMap)[f]))

\* Every registration comes to its end, unless the process stops or some thread holds the
\* lock for ever with a formula that is not in function form.
RegEnds ==
  \A t \in Thread :
    pc[t] = "lock" ~> \/ pc[t] = "idle"
                      \/ dead
                      \/ \E u \in Thread : /\ pc[u] = "loop"
                                           /\ "formula" \in DOMAIN call[u]
                                           /\ \A f \in Tree : call[u].formula # Text[f]
=============================================================================
