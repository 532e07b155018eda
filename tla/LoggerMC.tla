------------------------------ MODULE LoggerMC ------------------------------
(***************************************************************************)
(* Two callers, one midnight, one Load of one of four files: an ordinary   *)
(* one; one whose first pair spells the same key as log/level and whose    *)
(* header with a comment is none; one that begins in the section in force; *)
(* one without a level.                                                    *)
(***************************************************************************)
EXTENDS Logger
CONSTANTS c1, c2, timer

Section(name) == [type |-> "section", key |-> name, text |-> <<>>]
Pair(key, text) == [type |-> "pair", key |-> key, text |-> text]
Skipped == [type |-> "other", key |-> <<>>, text |-> <<>>]

LogSection == <<"lo", "g">>
LogPath == <<"path">>
LogLevel == <<"g", "level">>

Info == <<Section(<<"lo", "g">>), Pair(LogLevel, <<"INFO">>)>>
Plain == <<Section(<<"lo", "g">>), Pair(LogPath, <<"sp", "dir">>),
           Pair(LogLevel, <<"tab", "ERROR", "sp", "sp", "//", "note", "tab", "#">>)>>
Spelt == <<Section(<<"lo">>), Pair(<<"g", "g", "level">>, <<"DEBUG", "tab", "#">>),
           Skipped, Pair(<<"path">>, <<"sp", "#", "none">>)>>
Headless == <<Pair(LogLevel, <<"ERROR">>), Pair(LogLevel, <<"tab">>)>>

Files == {Info, Plain, Spelt, Headless}

Roles == {c1 :> {"error"} @@ c2 :> {"println"},
          c1 :> {"error"} @@ c2 :> {"ERROR"},
          c1 :> {"println"} @@ c2 :> {"INFO"},
          c1 :> {"info", "debug"} @@ c2 :> {"load"}}
=============================================================================
