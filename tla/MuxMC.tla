------------------------------- MODULE MuxMC -------------------------------
(***************************************************************************)
(* A root, a subtree and its root without the slash, a subtree of a host,  *)
(* two subtrees that are not clean and four patterns with parameters.      *)
(***************************************************************************)
EXTENDS Mux

MCParam == {"{x}", "{y}"}
MCPattern == {<<"", "">>, <<"", "a", "">>, <<"", "a">>, <<"h", "a", "">>,
              <<"", "", "a", "">>, <<"", "..", "a", "">>, <<"", "{x}">>, <<"", "a", "{x}">>,
              <<"", "{x}", "{y}">>, <<"", "{y}", "{x}">>}
MCPath == {<<"">>, <<"", "a">>, <<"", "a", "b">>, <<"", "", "a">>, <<"", "..", "a">>,
           <<"", "b", "..", "a", "">>}
MCHost == {"h", "h:80", "g"}
MCBare == [x \in {"h:80"} |-> "h"]
=============================================================================
