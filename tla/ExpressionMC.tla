---------------------------- MODULE ExpressionMC ----------------------------
(***************************************************************************)
(* Every function over constants and keys, one formula nested in another,  *)
(* and malformed ones, among them the example of src/README.md:37 with a   *)
(* function that does not exist.  Keys overlap: "x" is part of "xy".       *)
(***************************************************************************)
EXTENDS Meaning
CONSTANTS t1, t2, n1

x == Leaf(<<"x">>)
xy == Leaf(<<"x", "y">>)
z == Leaf(<<"z">>)
one == Leaf(<<"1">>)

MCGood == {Node(AtGT, <<x, one>>), Node(AtLE, <<one, xy>>),
           Node(AtAND, <<Node(AtEQ, <<x, one>>), Node(AtNOT, <<Node(AtNIN, <<one, z>>)>>)>>),
           Node(AtOR, <<Node(AtAND, <<>>), Node(AtGE, <<x, z>>), Node(AtNEQ, <<one, x>>)>>),
           Node(AtOR, <<Node(AtIN, <<one, z>>), Node(AtLT, <<z, x>>)>>),
           Node(AtEQ, <<Node(AtIN, <<x>>), Node(AtNOT, <<>>)>>),
           Node(AtNEQ, <<Node(AtLT, <<x, one>>), Node(AtAND, <<Node(AtGT, <<z, one, x>>)>>)>>),
           Node(AtNOT, <<Leaf(<<"@", "x", "E", "Q">>)>>)}

\* A function that does not exist, and what begins a text or stands between its functions.
AtSEQ == <<"@", "S", "E", "Q">>
open == leftParenthesis
close == rightParenthesis
Letters(ts) == [i \in DOMAIN ts |-> <<ts[i]>>]

MCBad == {<<AtOR, open, AtSEQ, open>> \o Letters(<<"a", ",", "b", ")", ",">>) \o <<AtSEQ, open>>
            \o Letters(<<"c", ",", "d", ")", ",">>) \o <<AtIN, open>>
            \o Letters(<<"e", ",", "f", ")", ")">>),
          <<AtNOT, <<"x">>>>, <<open, AtNOT, close>>, <<open, close>>, <<<<"x">>, close>>,
          <<AtGT, open, AtLT, open>> \o Letters(<<"x", ",", "1", ")">>),
          <<<<"@", "x", "E", "Q">>>>}

\* Trees with their arguments, which are two levels deep at most.
Args(fs) == fs \union UNION {Range(f.args) : f \in fs}
MCTree == Args(Args(MCGood))
MCHeight[f \in MCTree] ==
  IF f.args = <<>> THEN 0 ELSE 1 + Max({MCHeight[a] : a \in Range(f.args)})
MCFormula == {Text[f] : f \in MCGood} \union MCBad

\* Values that are apart from the keys and from each other, values that overlap with the
\* keys of others, some that make up a function name with what is around them, and keys
\* that are the mark, a function or part of one.
MCBindings == {[k \in {<<"x">>} |-> <<"2">>],
               [k \in {<<"x">>, <<"z">>} |-> IF k = <<"x">> THEN <<"1">> ELSE <<"3">>],
               [k \in {<<"x">>, <<"z">>} |-> IF k = <<"x">> THEN <<"1">> ELSE <<"1", ",", "2">>],
               [k \in {<<"x">>, <<"x", "y">>} |-> IF k = <<"x">> THEN <<"1">> ELSE <<"3">>],
               [k \in {<<"x">>} |-> <<>>], [k \in {<<"x">>} |-> AtEQ],
               [k \in {<<"|">>} |-> <<"1">>], [k \in {AtNEQ} |-> <<"1">>],
               [k \in {<<"E">>} |-> <<"T">>], [k \in {<<"x">>} |-> <<"N">>]}
MCNumber == [t \in {<<"1">>, <<"2">>, <<"3">>} |->
               CASE t = <<"1">> -> 1 [] t = <<"2">> -> 2 [] OTHER -> 3]
MCItems == [t \in {<<"1", ",", "2">>} |-> {<<"1">>, <<"2">>}]
=============================================================================
