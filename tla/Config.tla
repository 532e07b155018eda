------------------------------- MODULE Config -------------------------------
(***************************************************************************)
(* The configuration (src/config): one global map, filled line by line     *)
(* from a file and read by everybody without a lock.                       *)
(*                                                                         *)
(* A text is a sequence of tokens; the tokens the code looks for are the   *)
(* blanks and the comment marks, every other token is a word.  A line of a *)
(* file, with its outer blanks off, is a comment, a section header, a pair *)
(* or anything else, which is skipped.                                     *)
(***************************************************************************)
EXTENDS Naturals, Sequences, SequencesExt

CONSTANTS File,       \* the files: sequences of lines
          FirstFile,  \* config.conf, loaded by init
          MaxLoad     \* bound: calls of Load

Line == [type : {"section", "pair", "other"}, key : Seq(STRING), text : Seq(STRING)]

ASSUME FileAssumption ==
  FirstFile \in File /\ MaxLoad \in Nat /\ \A file \in File : file \in Seq(Line)

VARIABLES
  confMap,  \* joined section and key -> value
  strcet,   \* the section in force
  rest,     \* lines of the file being loaded that are still to be read
  loaded,   \* history: the file of the last Load, and the section in force before it
  loads     \* loads begun

confVars == <<confMap, strcet, rest, loaded, loads>>

Blank == {"sp", "tab"}
EmptyMap == [k \in {} |-> <<>>]

\* strings.TrimSpace.
Trim(text) ==
  LET word == {i \in DOMAIN text : text[i] \notin Blank}
  IN  IF word = {} THEN <<>> ELSE SubSeq(text, Min(word), Max(word))

\* The text before the first occurrence of a mark, all of it when there is none.
CutAt(text, mark) ==
  LET at == {i \in 1 .. Len(text) - 1 : <<text[i], text[i + 1]>> = mark}
  IN  IF at = {} THEN text ELSE SubSeq(text, 1, Min(at) - 1)

\* The value in what follows the equals sign: four searches, each in what the one
\* before has left.  A mark at the very beginning has lost its blank and stays.
Uncomment(text) ==
  LET hash == CutAt(CutAt(Trim(text), <<"tab", "#">>), <<"sp", "#">>)
  IN  Trim(CutAt(CutAt(hash, <<"tab", "//">>), <<"sp", "//">>))

\* The map with a value for a key.
With(map, key, value) ==
  [k \in DOMAIN map \union {key} |-> IF k = key THEN value ELSE map[k]]

\* Mutant of Put: the key without its section.
PutPlain(map, section, line) ==
  IF section = <<>> \/ line.key = <<>> \/ Uncomment(line.text) = <<>>
  THEN map ELSE With(map, line.key, Uncomment(line.text))

\* A pair outside a section, without a key or without a value is skipped; the section
\* and the key are joined with nothing between them.
Put(map, section, line) ==
  IF section = <<>> \/ line.key = <<>> \/ Uncomment(line.text) = <<>>
  THEN map ELSE With(map, section \o line.key, Uncomment(line.text))

\* Config.read: "" for a key that is not there.
ReadKey(node, key) ==
  IF node \o key \in DOMAIN confMap THEN confMap[node \o key] ELSE <<>>

-----------------------------------------------------------------------------
\* One pass of initConfig's loop.
LineDone(map, section, line) ==
  CASE line.type = "section" -> [map |-> map, section |-> Trim(line.key)]
    [] line.type = "pair"    -> [map |-> Put(map, section, line), section |-> section]
    [] OTHER                 -> [map |-> map, section |-> section]

\* The map and the section after the first n lines of config.conf.
Read[n \in 0 .. Len(FirstFile)] ==
  IF n = 0 THEN [map |-> EmptyMap, section |-> <<>>]
  ELSE LineDone(Read[n - 1].map, Read[n - 1].section, FirstFile[n])

\* init has read config.conf before anybody else runs.
InitConfig ==
  LET end == Read[Len(FirstFile)]
  IN  /\ confMap = end.map
      /\ strcet = end.section
      /\ rest = <<>>
      /\ loaded = [file |-> FirstFile, section |-> <<>>]
      /\ loads = 0

\* Load: an empty map takes the place of the old one at once.  The section in force
\* stays as the file before has left it.
Load(file) ==
  /\ rest = <<>>
  /\ loads < MaxLoad
  /\ confMap' = EmptyMap
  /\ rest' = file
  /\ loaded' = [file |-> file, section |-> strcet]
  /\ loads' = loads + 1
  /\ UNCHANGED strcet

ReadLine ==
  /\ rest # <<>>
  /\ LET end == LineDone(confMap, strcet, Head(rest))
     IN  confMap' = end.map /\ strcet' = end.section
  /\ rest' = Tail(rest)
  /\ UNCHANGED <<loaded, loads>>

ConfigNext == ReadLine \/ \E file \in File : Load(file)

-----------------------------------------------------------------------------
(* What a file says, read as a whole. *)

\* The section of line i: the last header above it, or the one in force before.
SectionOf(file, before, i) ==
  LET header == {j \in 1 .. i - 1 : file[j].type = "section"}
  IN  IF header = {} THEN before ELSE Trim(file[Max(header)].key)

\* The value a mark ends: no blank at its ends, no mark after a blank inside, and what
\* follows it in the text begins with blanks and a mark or is blank.
IsValue(text, value) ==
  LET t == Trim(text)
      marked == {i \in 2 .. Len(t) : t[i] \in {"#", "//"} /\ t[i - 1] \in Blank}
  IN  value = Trim(IF marked = {} THEN t ELSE SubSeq(t, 1, Min(marked) - 2))

\* When no file is being read, a key has the value of the last pair of the file whose
\* section and key spell it, and only such keys are there (initConfig; the section a
\* file begins in is the one the file before ended in).
FileInForce ==
  rest = <<>> =>
    LET file == loaded.file
        Key(i) == SectionOf(file, loaded.section, i) \o file[i].key
        pairs == {i \in DOMAIN file :
                    /\ file[i].type = "pair"
                    /\ SectionOf(file, loaded.section, i) # <<>>
                    /\ file[i].key # <<>>
                    /\ ~IsValue(file[i].text, <<>>)}
    IN  /\ DOMAIN confMap = {Key(i) : i \in pairs}
        /\ \A i \in pairs :
             (\A j \in pairs : Key(j) = Key(i) => j <= i)
               => IsValue(file[i].text, confMap[Key(i)])
=============================================================================
