-------------------------- MODULE ExpressionProofs --------------------------
(***************************************************************************)
(* Proofs about formulas, for every formula, every set of values and any   *)
(* number of goroutines: the lock is held where the code holds it; a       *)
(* formula that Parse comes back from is calculated to the end, unless a   *)
(* key takes a mark away or a replacement makes up a function; and the     *)
(* result is the value of the formula, however its functions are nested    *)
(* and in whatever order its keys are filled in, when those are kept       *)
(* apart.                                                                  *)
(***************************************************************************)
EXTENDS Meaning, SequenceTheorems, FiniteSetTheorems, WellFoundedInduction,
        TLAPS

\* The letters of formulas, of marks, parentheses and functions, and of the truth values.
Letter == STRING \union {"|", "(", ")", ",", "@", "A", "N", "D", "O", "R", "T", "I", "G", "E", "L", "Q",
                         "t", "r", "u", "e", "f", "a", "l", "s"}
Tok == Seq(Letter)

\* A token that has no "@" but that of a function name.
Clean == {t \in Tok : HasAt(t) => isFN(t)}

\* A mark opens the arguments of a function, the function closes them.
Opens(t) == IF t = separator THEN 1 ELSE 0
Closes(t) == IF isFN(t) THEN 1 ELSE 0

\* After i tokens of the text there are d[i] open marks, or more: no function is without.
Deep(text, d) ==
  /\ d \in [0 .. Len(text) -> Nat] /\ d[0] = 0
  /\ \A i \in 1 .. Len(text) : d[i] + Closes(text[i]) <= d[i - 1] + Opens(text[i])

\* There are at most e[i] functions among the lowest i tokens of the stack.
Carried(s, e) ==
  /\ e \in [0 .. Len(s) -> Nat]
  /\ \A i \in 1 .. Len(s) : e[i - 1] + Closes(s[i]) <= e[i]

-----------------------------------------------------------------------------
(* Recursion along a sequence. *)

\* A set of numbers has a smallest.
LEMMA LeastExists ==
  ASSUME NEW S \in SUBSET Nat, S # {}
  PROVE  \E x \in S : \A y \in S : x <= y
<1> DEFINE R == {ss \in Nat \X Nat : ss[1] < ss[2]}
<1>1. IsWellFoundedOn(R, Nat)
  BY NatLessThanWellFounded DEF OpToRel
<1>2. PICK x \in S : \A y \in S : ~(<<y, x>> \in R)
  <2> HIDE DEF R
  <2> QED BY <1>1, WFMin
<1>3. ASSUME NEW y \in S PROVE x <= y
  <2>1. x \in Nat /\ y \in Nat /\ ~(<<y, x>> \in R)
    BY <1>2
  <2> QED BY <2>1
<1> QED BY <1>2, <1>3

\* A bounded one has a greatest.
LEMMA GreatestExists ==
  ASSUME NEW n \in Nat, NEW S \in SUBSET (1 .. n), S # {}
  PROVE  Max(S) \in S /\ \A y \in S : y <= Max(S)
<1> DEFINE B == {b \in Nat : \A y \in S : y <= b}
<1>1. S \subseteq Nat /\ n \in B
  OBVIOUS
<1>2. PICK m \in B : \A b \in B : m <= b
  BY <1>1, LeastExists
<1>3. m \in Nat /\ \A y \in S : y <= m
  BY <1>2
<1>4. m \in S
  <2>1. SUFFICES ASSUME m \notin S PROVE FALSE
    OBVIOUS
  <2>2. PICK z \in S : TRUE
    OBVIOUS
  <2>3. z \in 1 .. n /\ z <= m
    BY <1>3, <2>2
  <2>4. m - 1 \in Nat
    BY <1>3, <2>3
  <2>5. ASSUME NEW y \in S PROVE y <= m - 1
    <3>1. y \in Nat /\ y <= m /\ y # m
      BY <1>1, <1>3, <2>1
    <3> QED BY <3>1, <1>3
  <2>6. m - 1 \in B
    BY <2>4, <2>5
  <2>7. m <= m - 1
    BY <1>2, <2>6
  <2> QED BY <2>7, <1>3
<1>5. m \in S /\ \A y \in S : m >= y
  BY <1>1, <1>3, <1>4
<1>6. Max(S) \in S /\ \A y \in S : Max(S) >= y
  BY <1>5 DEF Max
<1>7. ASSUME NEW y \in S PROVE y <= Max(S)
  <2>1. y \in Nat /\ Max(S) \in Nat /\ Max(S) >= y
    BY <1>1, <1>6
  <2> QED BY <2>1
<1> QED BY <1>6, <1>7

\* What holds at the beginning and is kept by each step holds all along.
LEMMA Along ==
  ASSUME NEW n \in Nat, NEW S, 0 \in S,
         \A i \in 1 .. n : i - 1 \in S => i \in S
  PROVE  \A i \in 0 .. n : i \in S
<1> DEFINE out == {i \in 0 .. n : i \notin S}
<1>1. SUFFICES ASSUME out # {} PROVE FALSE
  OBVIOUS
<1>2. out \in SUBSET Nat
  OBVIOUS
<1>3. PICK x \in out : \A y \in out : x <= y
  BY <1>1, <1>2, LeastExists
<1>4. x \in 0 .. n /\ x \notin S /\ x # 0
  BY <1>3
<1>5. x \in 1 .. n /\ x - 1 \in 0 .. n /\ ~(x <= x - 1)
  BY <1>4
<1>6. x - 1 \notin out
  BY <1>3, <1>5
<1>7. x - 1 \in S
  BY <1>5, <1>6
<1> QED BY <1>4, <1>5, <1>7

\* Step i of n goes from X[i - 1] to X[i].
Leads(F, X, n) == \A i \in 1 .. n : \A x \in X[i - 1] : F[i][x] \in X[i]

\* g is what n steps make of start.
Follows(g, F, start, n) == g = [i \in 0 .. n |-> IF i = 0 THEN start ELSE F[i][g[i - 1]]]

\* A function that is recursive along a sequence exists.
LEMMA Recursion ==
  ASSUME NEW n \in Nat, NEW X, NEW F, NEW start, start \in X[0], Leads(F, X, n)
  PROVE  \E g : Follows(g, F, start, n) /\ \A i \in 0 .. n : g[i] \in X[i]
<1> USE DEF Leads, Follows
<1> DEFINE Works(g, m) == /\ g = [i \in 0 .. m |-> IF i = 0 THEN start ELSE F[i][g[i - 1]]]
                          /\ \A i \in 0 .. m : g[i] \in X[i]
           S == {m \in 0 .. n : \E g : Works(g, m)}
<1>1. 0 \in S
  <2> DEFINE g == [i \in 0 .. 0 |-> start]
  <2>1. g = [i \in 0 .. 0 |-> IF i = 0 THEN start ELSE F[i][g[i - 1]]]
    OBVIOUS
  <2>2. \A i \in 0 .. 0 : g[i] \in X[i]
    OBVIOUS
  <2>3. Works(g, 0)
    BY <2>1, <2>2
  <2> HIDE DEF Works
  <2> QED BY <2>3
<1>2. ASSUME NEW k \in 1 .. n, k - 1 \in S PROVE k \in S
  <2> DEFINE m == k - 1
  <2>1. m \in Nat /\ k = m + 1 /\ k \in Nat
    OBVIOUS
  <2> HIDE DEF m
  <2>2. PICK g : Works(g, m)
    <3> HIDE DEF Works
    <3> QED BY <1>2 DEF m
  <2>3. /\ \A i \in 0 .. m : g[i] = IF i = 0 THEN start ELSE F[i][g[i - 1]]
        /\ \A i \in 0 .. m : g[i] \in X[i]
    BY <2>2
  <2> DEFINE h == [i \in 0 .. k |-> IF i = k THEN F[k][g[m]] ELSE g[i]]
             f == [i \in 0 .. k |-> IF i = 0 THEN start ELSE F[i][h[i - 1]]]
  <2>4. \A i \in 0 .. m : h[i] = g[i]
    BY <2>1
  <2>5. h[k] = F[k][g[m]]
    BY <2>1
  <2>6. ASSUME NEW i \in 0 .. k PROVE h[i] = f[i] /\ h[i] \in X[i]
    <3>1. f[i] = IF i = 0 THEN start ELSE F[i][h[i - 1]]
      OBVIOUS
    <3> HIDE DEF h, f
    <3>2. CASE i = 0
      <4>1. 0 \in 0 .. m
        BY <2>1
      <4> QED BY <2>3, <2>4, <3>1, <3>2, <4>1
    <3>3. CASE i = k
      <4>1. m \in 0 .. m /\ i - 1 = m /\ i # 0
        BY <2>1, <3>3
      <4>2. h[i - 1] = g[m] /\ g[m] \in X[k - 1]
        BY <2>3, <2>4, <4>1, <3>3
      <4> QED BY <2>5, <3>1, <3>3, <4>1, <4>2
    <3>4. CASE i \in 1 .. m
      <4>1. i \in 0 .. m /\ i - 1 \in 0 .. m /\ i # 0
        BY <2>1, <3>4
      <4>2. h[i] = g[i] /\ h[i - 1] = g[i - 1]
        BY <2>4, <4>1
      <4> QED BY <2>3, <3>1, <4>1, <4>2
    <3> QED BY <2>1, <2>6, <3>2, <3>3, <3>4
  <2>7. h = f
    BY <2>6
  <2>8. Works(h, k)
    BY <2>6, <2>7
  <2> HIDE DEF Works, h
  <2> QED BY <2>8, <2>1
<1> HIDE DEF Works
<1>3. \A i \in 0 .. n : i \in S
  <2> HIDE DEF S
  <2> QED BY <1>1, <1>2, Along
<1>4. n \in 0 .. n
  OBVIOUS
<1>5. PICK g : Works(g, n)
  BY <1>3, <1>4
<1> QED BY <1>5 DEF Works

-----------------------------------------------------------------------------
(* Tokens, depths and stacks. *)

LEMMA FunctionFacts ==
  ASSUME NEW t, isFN(t)
  PROVE  t \in Tok /\ 1 \in DOMAIN t /\ t[1] = "@"
<1> DEFINE L == {"@", "A", "N", "D", "O", "R", "T", "I", "G", "E", "L", "Q"}
           Good(u) == u \in Tok /\ 1 \in DOMAIN u /\ u[1] = "@"
<1>1. L \subseteq Letter
  BY DEF Letter
<1>2. /\ \A b, c \in Letter : Good(<<"@", b, c>>)
      /\ \A b, c, d \in Letter : Good(<<"@", b, c, d>>)
  <2>1. "@" \in Letter
    BY <1>1
  <2> HIDE DEF Letter
  <2> QED BY <2>1 DEF Tok
<1>3. \/ \E b, c \in L : t = <<"@", b, c>>
      \/ \E b, c, d \in L : t = <<"@", b, c, d>>
  BY DEF isFN, functionNames, AtAND, AtOR, AtNOT, AtIN, AtNIN, AtGT, AtGE, AtLT, AtLE, AtEQ, AtNEQ
<1>4. Good(t)
  <2> HIDE DEF Letter, L, Good
  <2> QED BY <1>1, <1>2, <1>3
<1> QED BY <1>4

\* What has no "@" is not a function.
LEMMA NoFunction ==
  /\ \A c \in Letter : c # "@" => <<c>> \in Clean /\ ~HasAt(<<c>>) /\ ~isFN(<<c>>)
  /\ \A t : isFN(t) => HasAt(t)
<1>1. \A t : isFN(t) => HasAt(t)
  BY FunctionFacts DEF HasAt
<1>2. ASSUME NEW c \in Letter, c # "@" PROVE <<c>> \in Clean /\ ~HasAt(<<c>>)
  <2>1. DOMAIN <<c>> = {1} /\ <<c>>[1] = c /\ <<c>> \in Tok
    <3> HIDE DEF Letter
    <3> QED BY DEF Tok
  <2>2. ~HasAt(<<c>>)
    BY <1>2, <2>1 DEF HasAt
  <2> QED BY <2>1, <2>2 DEF Clean
<1> QED BY <1>1, <1>2

LEMMA TokenFacts ==
  /\ separator \in Clean /\ ~HasAt(separator)
  /\ Opens(separator) = 1 /\ Closes(separator) = 0
  /\ NoText \in Clean /\ ~HasAt(NoText) /\ Closes(NoText) = 0
  /\ leftParenthesis \in Clean /\ Closes(leftParenthesis) = 0
  /\ \A t : isFN(t) => /\ HasAt(t) /\ t \in Clean
                       /\ t # separator /\ Opens(t) = 0 /\ Closes(t) = 1
  /\ \A t : Opens(t) \in {0, 1} /\ Closes(t) \in {0, 1}
  /\ Clean \subseteq Tok
<1>1. {"|", "("} \subseteq Letter /\ "|" # "@" /\ "(" # "@"
  BY DEF Letter
<1>2. /\ separator \in Clean /\ ~HasAt(separator) /\ ~isFN(separator)
      /\ leftParenthesis \in Clean /\ ~isFN(leftParenthesis)
  BY <1>1, NoFunction DEF separator, leftParenthesis
<1>3. NoText \in Clean /\ ~HasAt(NoText) /\ ~isFN(NoText)
  <2>1. NoText \in Tok /\ DOMAIN NoText = {}
    BY DEF NoText, Tok
  <2>2. ~HasAt(NoText)
    BY <2>1 DEF HasAt
  <2> QED BY <2>1, <2>2, NoFunction DEF Clean
<1>4. \A t : isFN(t) => HasAt(t) /\ t \in Clean /\ t # separator
  BY <1>2, FunctionFacts, NoFunction DEF Clean
<1>5. \A t : Opens(t) \in {0, 1} /\ Closes(t) \in {0, 1}
  BY DEF Opens, Closes
<1>6. \A t : isFN(t) => Opens(t) = 0 /\ Closes(t) = 1
  BY <1>4 DEF Opens, Closes
<1>7. /\ Opens(separator) = 1 /\ Closes(separator) = 0 /\ Closes(NoText) = 0
      /\ Closes(leftParenthesis) = 0
  BY <1>2, <1>3 DEF Opens, Closes
<1>8. Clean \subseteq Tok
  BY DEF Clean
<1> QED BY <1>2, <1>3, <1>4, <1>5, <1>6, <1>7, <1>8

LEMMA TruthFacts == \A b : Bool(b) \in Tok /\ Bool(b) # separator
<1>1. {"t", "r", "u", "e", "f", "a", "l", "s"} \subseteq Letter
  BY DEF Letter
<1> DEFINE T == <<"t", "r", "u", "e">>
           F == <<"f", "a", "l", "s", "e">>
<1>2. T \in Tok /\ F \in Tok
  <2> HIDE DEF Letter
  <2> QED BY <1>1 DEF Tok
<1>3. T # separator /\ F # separator
  <2>1. Len(T) = 4 /\ Len(F) = 5 /\ Len(separator) = 1
    BY DEF separator
  <2> QED BY <2>1
<1>4. \A b : Bool(b) \in {T, F}
  BY DEF Bool
<1> HIDE DEF T, F
<1> QED BY <1>2, <1>3, <1>4

\* What a sequence is with one more at its end, and up to some place.
LEMMA Appending ==
  ASSUME NEW T, NEW s \in Seq(T), NEW t \in T
  PROVE  /\ Append(s, t) \in Seq(T) /\ Len(Append(s, t)) = Len(s) + 1 /\ Len(s) \in Nat
         /\ Append(s, t)[Len(s) + 1] = t
         /\ \A i \in 1 .. Len(s) : Append(s, t)[i] = s[i]
OBVIOUS

LEMMA UpTo ==
  ASSUME NEW T, NEW s \in Seq(T), NEW k \in 0 .. Len(s)
  PROVE  /\ SubSeq(s, 1, k) \in Seq(T) /\ Len(SubSeq(s, 1, k)) = k
         /\ \A i \in 1 .. k : SubSeq(s, 1, k)[i] = s[i]
OBVIOUS

\* One more token on a text.
LEMMA DeepAppend ==
  ASSUME NEW s \in Seq(Clean), NEW d, Deep(s, d), NEW t \in Clean, NEW m \in Nat,
         m + Closes(t) <= d[Len(s)] + Opens(t)
  PROVE  \E d2 : Deep(Append(s, t), d2) /\ d2[Len(s) + 1] = m
<1> DEFINE n == Len(s)
           d2 == [i \in 0 .. n + 1 |-> IF i = n + 1 THEN m ELSE d[i]]
<1>1. /\ Len(Append(s, t)) = n + 1 /\ n \in Nat /\ Append(s, t)[n + 1] = t
      /\ \A i \in 1 .. n : Append(s, t)[i] = s[i]
  BY Appending
<1>2. /\ d \in [0 .. n -> Nat]
      /\ \A i \in 1 .. n : d[i] + Closes(s[i]) <= d[i - 1] + Opens(s[i])
  BY DEF Deep
<1>3. m + Closes(t) <= d[n] + Opens(t)
  OBVIOUS
<1> HIDE DEF n
<1>4. d2 \in [0 .. n + 1 -> Nat] /\ d2[n + 1] = m /\ \A i \in 0 .. n : d2[i] = d[i]
  BY <1>1, <1>2
<1> HIDE DEF d2
<1>5. ASSUME NEW i \in 1 .. n + 1
      PROVE  d2[i] + Closes(Append(s, t)[i]) <= d2[i - 1] + Opens(Append(s, t)[i])
  <2>1. CASE i = n + 1
    <3>1. i - 1 = n /\ n \in 0 .. n
      BY <1>1, <2>1
    <3> QED BY <1>1, <1>3, <1>4, <2>1, <3>1
  <2>2. CASE i \in 1 .. n
    <3>1. i \in 0 .. n /\ i - 1 \in 0 .. n
      BY <1>1, <2>2
    <3> QED BY <1>1, <1>2, <1>4, <2>2, <3>1
  <2> QED BY <1>1, <1>5, <2>1, <2>2
<1>6. Deep(Append(s, t), d2)
  BY <1>1, <1>4, <1>5 DEF Deep
<1> QED BY <1>4, <1>6 DEF n

\* One more token on a stack.
LEMMA CarryPush ==
  ASSUME NEW s \in Seq(Clean), NEW e, Carried(s, e), NEW t \in Clean, NEW m \in Nat,
         e[Len(s)] + Closes(t) <= m
  PROVE  \E e2 : Carried(Append(s, t), e2) /\ e2[Len(s) + 1] = m
<1> DEFINE n == Len(s)
           e2 == [i \in 0 .. n + 1 |-> IF i = n + 1 THEN m ELSE e[i]]
<1>1. /\ Len(Append(s, t)) = n + 1 /\ n \in Nat /\ Append(s, t)[n + 1] = t
      /\ \A i \in 1 .. n : Append(s, t)[i] = s[i]
  BY Appending
<1>2. /\ e \in [0 .. n -> Nat]
      /\ \A i \in 1 .. n : e[i - 1] + Closes(s[i]) <= e[i]
  BY DEF Carried
<1>3. e[n] + Closes(t) <= m
  OBVIOUS
<1> HIDE DEF n
<1>4. e2 \in [0 .. n + 1 -> Nat] /\ e2[n + 1] = m /\ \A i \in 0 .. n : e2[i] = e[i]
  BY <1>1, <1>2
<1> HIDE DEF e2
<1>5. ASSUME NEW i \in 1 .. n + 1 PROVE e2[i - 1] + Closes(Append(s, t)[i]) <= e2[i]
  <2>1. CASE i = n + 1
    <3>1. i - 1 = n /\ n \in 0 .. n
      BY <1>1, <2>1
    <3> QED BY <1>1, <1>3, <1>4, <2>1, <3>1
  <2>2. CASE i \in 1 .. n
    <3>1. i \in 0 .. n /\ i - 1 \in 0 .. n
      BY <1>1, <2>2
    <3> QED BY <1>1, <1>2, <1>4, <2>2, <3>1
  <2> QED BY <1>1, <1>5, <2>1, <2>2
<1>6. Carried(Append(s, t), e2)
  BY <1>1, <1>4, <1>5 DEF Carried
<1> QED BY <1>4, <1>6 DEF n

\* The lower part of a stack.
LEMMA CarryBelow ==
  ASSUME NEW s \in Seq(Clean), NEW e, Carried(s, e), NEW k \in 0 .. Len(s)
  PROVE  \E e2 : Carried(SubSeq(s, 1, k), e2) /\ e2[k] = e[k]
<1> DEFINE n == Len(s)
           e2 == [i \in 0 .. k |-> e[i]]
           f == SubSeq(s, 1, k)
<1>1. /\ n \in Nat /\ k \in 0 .. n /\ Len(f) = k /\ \A i \in 1 .. k : f[i] = s[i]
  BY UpTo
<1>2. /\ e \in [0 .. n -> Nat]
      /\ \A i \in 1 .. n : e[i - 1] + Closes(s[i]) <= e[i]
  BY DEF Carried
<1> HIDE DEF n, f
<1>3. e2 \in [0 .. k -> Nat] /\ \A i \in 0 .. k : e2[i] = e[i]
  BY <1>1, <1>2
<1> HIDE DEF e2
<1>4. ASSUME NEW i \in 1 .. k PROVE e2[i - 1] + Closes(f[i]) <= e2[i]
  <2>1. i \in 1 .. n /\ i \in 0 .. k /\ i - 1 \in 0 .. k
    BY <1>1
  <2> QED BY <1>1, <1>2, <1>3, <2>1
<1>5. Carried(f, e2) /\ k \in 0 .. k
  BY <1>1, <1>3, <1>4 DEF Carried
<1> QED BY <1>3, <1>5 DEF f

\* Everything above place i of a stack, the last of it first, and one more token.
LEMMA PouredFacts ==
  ASSUME NEW T, NEW s \in Seq(T), NEW i \in 1 .. Len(s), NEW t \in T
  PROVE  LET q == Append(Reverse(SubSeq(s, i + 1, Len(s))), t)
             a == Len(s) - i
         IN  /\ q \in Seq(T) /\ Len(q) = a + 1 /\ q[a + 1] = t
             /\ \A j \in 1 .. a : q[j] = s[Len(s) - j + 1]
<1> DEFINE n == Len(s)
           a == n - i
           above == SubSeq(s, i + 1, n)
           back == Reverse(above)
           q == Append(back, t)
<1>1. n \in Nat /\ i \in 1 .. n /\ a \in Nat /\ \A j \in 1 .. n : s[j] \in T
  OBVIOUS
<1>2. above \in Seq(T) /\ Len(above) = a /\ \A j \in 1 .. a : above[j] = s[i + j]
  OBVIOUS
<1>3. back = [j \in 1 .. Len(above) |-> above[(Len(above) - j) + 1]]
  BY DEF Reverse
<1> HIDE DEF above, back
<1>4. back \in [1 .. a -> T]
  <2> SUFFICES ASSUME NEW j \in 1 .. a PROVE above[(a - j) + 1] \in T
    BY <1>2, <1>3
  <2>1. (a - j) + 1 \in 1 .. a
    BY <1>1
  <2>2. above[(a - j) + 1] = s[i + ((a - j) + 1)] /\ i + ((a - j) + 1) \in 1 .. n
    BY <1>1, <1>2, <2>1
  <2> QED BY <1>1, <2>2
<1>5. back \in Seq(T) /\ Len(back) = a
  <2> HIDE DEF a
  <2> QED BY <1>1, <1>4
<1>6. ASSUME NEW j \in 1 .. a PROVE back[j] = s[n - j + 1]
  <2>1. (a - j) + 1 \in 1 .. a /\ i + ((a - j) + 1) = n - j + 1
    BY <1>1
  <2> QED BY <1>2, <1>3, <1>6, <2>1
<1>7. /\ q \in Seq(T) /\ Len(q) = a + 1 /\ q[a + 1] = t
      /\ \A j \in 1 .. a : q[j] = back[j]
  <2> HIDE DEF a
  <2> QED BY <1>5, Appending
<1>8. \A j \in 1 .. a : q[j] = s[n - j + 1]
  BY <1>6, <1>7
<1>9. q = Append(Reverse(SubSeq(s, i + 1, Len(s))), t) /\ a = Len(s) - i /\ n = Len(s)
  BY DEF back, above
<1> HIDE DEF q, a, n
<1> QED BY <1>7, <1>8, <1>9

\* A right parenthesis moves functions from the stack to the text, each below its mark.
LEMMA Pouring ==
  ASSUME NEW r \in Seq(Clean), NEW d, Deep(r, d), NEW s \in Seq(Clean), NEW e, Carried(s, e),
         e[Len(s)] <= d[Len(r)]
  PROVE  \A i \in 1 .. Len(s), k \in 0 .. Len(s), t \in Clean :
           LET p == r \o Append(Reverse(SubSeq(s, i + 1, Len(s))), t)
           IN  k <= i - 1 /\ e[k] + Closes(t) <= e[i - 1]
                 => p \in Seq(Clean) /\ \E d2 : Deep(p, d2) /\ d2[Len(p)] = e[k]
<1> TAKE i \in 1 .. Len(s), k \in 0 .. Len(s), t \in Clean
<1> SUFFICES ASSUME k <= i - 1, e[k] + Closes(t) <= e[i - 1]
             PROVE  LET p == r \o Append(Reverse(SubSeq(s, i + 1, Len(s))), t)
                    IN  p \in Seq(Clean) /\ \E d2 : Deep(p, d2) /\ d2[Len(p)] = e[k]
  OBVIOUS
<1> DEFINE n == Len(s)
           a == n - i
           l == Len(r)
           q == Append(Reverse(SubSeq(s, i + 1, Len(s))), t)
           p == r \o q
           d2 == [j \in 0 .. l + a + 1 |-> IF j <= l THEN d[j]
                                           ELSE IF j <= l + a THEN e[n - (j - l)] ELSE e[k]]
<1>1. /\ q \in Seq(Clean) /\ Len(q) = a + 1 /\ q[a + 1] = t
      /\ \A j \in 1 .. a : q[j] = s[n - j + 1]
  <2> HIDE DEF q
  <2> QED BY PouredFacts DEF q
<1>2. /\ d \in [0 .. l -> Nat] /\ d[0] = 0
      /\ \A j \in 1 .. l : d[j] + Closes(r[j]) <= d[j - 1] + Opens(r[j])
  BY DEF Deep
<1>3. /\ e \in [0 .. n -> Nat]
      /\ \A j \in 1 .. n : e[j - 1] + Closes(s[j]) <= e[j]
  BY DEF Carried
<1>4. /\ n \in Nat /\ l \in Nat /\ i \in 1 .. n /\ k \in 0 .. n /\ a \in Nat /\ n = a + i
      /\ e[n] <= d[l] /\ k <= i - 1 /\ e[k] + Closes(t) <= e[i - 1]
  OBVIOUS
<1> HIDE DEF q
<1>5. /\ p \in Seq(Clean) /\ Len(p) = l + (a + 1)
      /\ \A j \in 1 .. l : p[j] = r[j]
      /\ \A j \in 1 .. a + 1 : p[l + j] = q[j]
  <2> HIDE DEF a
  <2> QED BY <1>1, <1>4
<1> HIDE DEF p, n, l, a
<1>6. d2 \in [0 .. l + a + 1 -> Nat]
  <2> SUFFICES ASSUME NEW j \in 0 .. l + a + 1
               PROVE  (IF j <= l THEN d[j]
                       ELSE IF j <= l + a THEN e[n - (j - l)] ELSE e[k]) \in Nat
    OBVIOUS
  <2>1. CASE j <= l
    <3>1. j \in 0 .. l
      BY <1>4, <2>1
    <3> QED BY <1>2, <2>1, <3>1
  <2>2. CASE ~(j <= l) /\ j <= l + a
    <3>1. n - (j - l) \in 0 .. n
      BY <1>4, <2>2
    <3> QED BY <1>3, <2>2, <3>1
  <2>3. CASE ~(j <= l) /\ ~(j <= l + a)
    BY <1>3, <1>4, <2>3
  <2> QED BY <2>1, <2>2, <2>3
<1>7. \A j \in 0 .. l : d2[j] = d[j]
  BY <1>4
<1>8. ASSUME NEW j \in 1 .. a PROVE d2[l + j] = e[n - j]
  <2>1. l + j \in 0 .. l + a + 1 /\ ~(l + j <= l) /\ l + j <= l + a /\ n - ((l + j) - l) = n - j
    BY <1>4
  <2> QED BY <2>1
<1>9. d2[l + a + 1] = e[k]
  <2>1. l + a + 1 \in 0 .. l + a + 1 /\ ~(l + a + 1 <= l) /\ ~(l + a + 1 <= l + a)
    BY <1>4
  <2> QED BY <2>1
<1> HIDE DEF d2
<1>10. ASSUME NEW j \in 1 .. a + 1
       PROVE  d2[l + j] + Closes(p[l + j]) <= d2[l + j - 1] + Opens(p[l + j])
  <2>1. d2[l + j - 1] >= e[n - (j - 1)] /\ n - (j - 1) \in 0 .. n /\ d2[l + j - 1] \in Nat
    <3>1. CASE j = 1
      <4>1. l + j - 1 = l /\ l \in 0 .. l /\ n - (j - 1) = n /\ n \in 0 .. n
        BY <1>4, <3>1
      <4>2. d2[l + j - 1] = d[l] /\ d[l] \in Nat /\ e[n] \in Nat
        BY <1>2, <1>3, <1>7, <4>1
      <4> QED BY <1>4, <4>1, <4>2
    <3>2. CASE j # 1
      <4>1. j - 1 \in 1 .. a /\ l + (j - 1) = l + j - 1 /\ n - (j - 1) \in 0 .. n
        BY <1>4, <3>2
      <4>2. d2[l + j - 1] = e[n - (j - 1)] /\ e[n - (j - 1)] \in Nat
        BY <1>3, <1>8, <4>1
      <4> QED BY <4>1, <4>2
    <3> QED BY <3>1, <3>2
  <2>2. CASE j = a + 1
    <3>1. n - (j - 1) = i /\ i \in 1 .. n /\ i - 1 \in 0 .. n /\ l + j = l + a + 1
      BY <1>4, <2>2
    <3>2. e[i - 1] + Closes(s[i]) <= e[i] /\ e[i - 1] \in Nat /\ e[i] \in Nat /\ e[k] \in Nat
      BY <1>3, <1>4, <3>1
    <3>3. p[l + j] = t /\ d2[l + j] = e[k]
      BY <1>1, <1>5, <1>9, <2>2, <3>1
    <3>4. Closes(s[i]) \in {0, 1} /\ Opens(t) \in {0, 1} /\ Closes(t) \in {0, 1}
      BY TokenFacts
    <3>5. e[n - (j - 1)] = e[i]
      BY <3>1
    <3> DEFINE x == d2[l + j - 1]
    <3>6. x >= e[i] /\ x \in Nat
      BY <2>1, <3>5
    <3> HIDE DEF x
    <3>7. e[i - 1] <= e[i] /\ e[k] + Closes(t) \in Nat
      BY <3>2, <3>4
    <3>8. e[k] + Closes(t) <= e[i]
      BY <1>4, <3>2, <3>7
    <3>9. e[k] + Closes(t) <= x
      BY <3>2, <3>6, <3>7, <3>8
    <3>10. e[k] + Closes(t) <= x + Opens(t)
      BY <3>4, <3>6, <3>7, <3>9
    <3> QED BY <3>3, <3>10 DEF x
  <2>3. CASE j # a + 1
    <3>1. j \in 1 .. a /\ n - (j - 1) = n - j + 1 /\ n - j + 1 \in 1 .. n /\ (n - j + 1) - 1 = n - j
          /\ n - j \in 0 .. n
      BY <1>4, <2>3
    <3>2. p[l + j] = s[n - j + 1] /\ d2[l + j] = e[n - j]
      BY <1>1, <1>5, <1>8, <3>1
    <3>3. e[n - j] + Closes(s[n - j + 1]) <= e[n - j + 1]
      BY <1>3, <3>1
    <3>4. e[n - j] \in Nat /\ e[n - j + 1] \in Nat
      BY <1>3, <3>1
    <3>5. Closes(s[n - j + 1]) \in {0, 1} /\ Opens(s[n - j + 1]) \in {0, 1}
      BY TokenFacts
    <3>6. d2[l + j - 1] >= e[n - j + 1]
      BY <2>1, <3>1
    <3> QED BY <2>1, <3>2, <3>3, <3>4, <3>5, <3>6
  <2> QED BY <2>2, <2>3
<1>11. ASSUME NEW j \in 1 .. l + a + 1
       PROVE  d2[j] + Closes(p[j]) <= d2[j - 1] + Opens(p[j])
  <2>1. CASE j \in 1 .. l
    <3>1. j \in 0 .. l /\ j - 1 \in 0 .. l
      BY <1>4, <2>1
    <3> QED BY <1>2, <1>5, <1>7, <2>1, <3>1
  <2>2. CASE j \notin 1 .. l
    <3> DEFINE i2 == j - l
    <3>1. i2 \in 1 .. a + 1 /\ l + i2 = j /\ l + i2 - 1 = j - 1
      BY <1>4, <2>2
    <3> HIDE DEF i2
    <3>2. d2[l + i2] + Closes(p[l + i2]) <= d2[l + i2 - 1] + Opens(p[l + i2])
      BY <1>10, <3>1
    <3> QED BY <3>1, <3>2
  <2> QED BY <2>1, <2>2
<1>12. l + (a + 1) = l + a + 1
  BY <1>4
<1>13. d2[0] = 0
  BY <1>2, <1>4, <1>7
<1>14. Deep(p, d2) /\ d2[Len(p)] = e[k]
  BY <1>5, <1>6, <1>9, <1>11, <1>12, <1>13 DEF Deep
<1> QED BY <1>5, <1>14 DEF p, q

-----------------------------------------------------------------------------
(* Parse. *)

\* Each function that is still on the stack has its mark in the text.
Matched(rpn, s) ==
  \E d, e : Deep(rpn, d) /\ Carried(s, e) /\ e[Len(s)] <= d[Len(rpn)]

ParseState == {x \in [rpn : Seq(Clean), s : Seq(Clean), loops : BOOLEAN] : Matched(x.rpn, x.s)}

\* The depth at the end of a text, and the load of a stack, are numbers.
LEMMA EndsAreNumbers ==
  /\ \A r \in Seq(Clean) : \A d : Deep(r, d) => d[Len(r)] \in Nat
  /\ \A s \in Seq(Clean) : \A e : Carried(s, e) => \A i \in 0 .. Len(s) : e[i] \in Nat
<1>1. ASSUME NEW r \in Seq(Clean), NEW d, Deep(r, d) PROVE d[Len(r)] \in Nat
  <2>1. Len(r) \in 0 .. Len(r)
    OBVIOUS
  <2> QED BY <1>1, <2>1 DEF Deep
<1>2. ASSUME NEW s \in Seq(Clean), NEW e, Carried(s, e)
      PROVE  \A i \in 0 .. Len(s) : e[i] \in Nat
  BY <1>2 DEF Carried
<1> QED BY <1>1, <1>2

\* A function or any other token that is pushed.
LEMMA MatchedPush ==
  ASSUME NEW r \in Seq(Clean), NEW s \in Seq(Clean), Matched(r, s), NEW t \in Clean, Closes(t) = 0
  PROVE  Matched(r, Append(s, t)) /\ Matched(Append(r, t), s)
<1>1. PICK d, e : Deep(r, d) /\ Carried(s, e) /\ e[Len(s)] <= d[Len(r)]
  BY DEF Matched
<1>2. d[Len(r)] \in Nat /\ e[Len(s)] \in Nat
  <2>1. Len(s) \in 0 .. Len(s)
    OBVIOUS
  <2> QED BY <1>1, <2>1, EndsAreNumbers
<1>3. PICK e2 : Carried(Append(s, t), e2) /\ e2[Len(s) + 1] = e[Len(s)]
  <2>1. e[Len(s)] + Closes(t) <= e[Len(s)]
    BY <1>2
  <2> QED BY <1>1, <1>2, <2>1, CarryPush
<1>4. PICK d2 : Deep(Append(r, t), d2) /\ d2[Len(r) + 1] = d[Len(r)]
  <2>1. Opens(t) \in {0, 1}
    BY TokenFacts
  <2>2. d[Len(r)] + Closes(t) <= d[Len(r)] + Opens(t)
    BY <1>2, <2>1
  <2> QED BY <1>1, <1>2, <2>2, DeepAppend
<1>5. Len(Append(s, t)) = Len(s) + 1 /\ Len(Append(r, t)) = Len(r) + 1
  BY Appending
<1> QED BY <1>1, <1>3, <1>4, <1>5 DEF Matched

LEMMA MatchedFunction ==
  ASSUME NEW r \in Seq(Clean), NEW s \in Seq(Clean), Matched(r, s), NEW t \in Clean, isFN(t)
  PROVE  Matched(Append(r, separator), Append(s, t))
<1>1. PICK d, e : Deep(r, d) /\ Carried(s, e) /\ e[Len(s)] <= d[Len(r)]
  BY DEF Matched
<1>2. d[Len(r)] \in Nat /\ e[Len(s)] \in Nat
  <2>1. Len(s) \in 0 .. Len(s)
    OBVIOUS
  <2> QED BY <1>1, <2>1, EndsAreNumbers
<1>3. Closes(t) = 1 /\ separator \in Clean /\ Opens(separator) = 1 /\ Closes(separator) = 0
  BY TokenFacts
<1>4. PICK e2 : Carried(Append(s, t), e2) /\ e2[Len(s) + 1] = e[Len(s)] + 1
  <2>1. e[Len(s)] + Closes(t) <= e[Len(s)] + 1 /\ e[Len(s)] + 1 \in Nat
    BY <1>2, <1>3
  <2> QED BY <1>1, <2>1, CarryPush
<1>5. PICK d2 : Deep(Append(r, separator), d2) /\ d2[Len(r) + 1] = d[Len(r)] + 1
  <2>1. d[Len(r)] + 1 + Closes(separator) <= d[Len(r)] + Opens(separator) /\ d[Len(r)] + 1 \in Nat
    BY <1>2, <1>3
  <2> QED BY <1>1, <1>3, <2>1, DeepAppend
<1>6. Len(Append(s, t)) = Len(s) + 1 /\ Len(Append(r, separator)) = Len(r) + 1
  BY <1>3, Appending
<1>7. e[Len(s)] + 1 <= d[Len(r)] + 1
  BY <1>1, <1>2
<1>8. e2[Len(Append(s, t))] <= d2[Len(Append(r, separator))]
  BY <1>4, <1>5, <1>6, <1>7
<1> QED BY <1>4, <1>5, <1>8 DEF Matched

\* A right parenthesis.
LEMMA CloseStep == ASSUME NEW x \in ParseState PROVE Close(x) \in ParseState
<1> DEFINE r == x.rpn
           s == x.s
           open == {j \in DOMAIN s : s[j] = leftParenthesis}
           i == Max(open)
           under == SubSeq(s, 1, i - 1)
           above == SubSeq(s, i + 1, Len(s))
           r0 == IF r = <<>> THEN <<NoText>> ELSE r
           p == r0 \o Append(Reverse(above), Top(under))
           left == Popped(under)
<1>1. r \in Seq(Clean) /\ s \in Seq(Clean) /\ x.loops \in BOOLEAN /\ Matched(r, s)
      /\ x = [rpn |-> r, s |-> s, loops |-> x.loops]
  BY DEF ParseState
<1>2. Close(x) = IF open = {} THEN [x EXCEPT !.loops = TRUE]
                 ELSE [x EXCEPT !.rpn = p, !.s = left]
  BY DEF Close
<1>3. CASE open = {}
  <2>1. Close(x) = [rpn |-> r, s |-> s, loops |-> TRUE]
    BY <1>1, <1>2, <1>3
  <2> QED BY <1>1, <2>1 DEF ParseState
<1>4. CASE open # {}
  <2>1. Close(x) = [rpn |-> p, s |-> left, loops |-> x.loops]
    <3> HIDE DEF open, p, left, r, s
    <3>1. Close(x) = [x EXCEPT !.rpn = p, !.s = left]
      BY <1>2, <1>4
    <3> QED BY <1>1, <3>1
  <2>2. i \in 1 .. Len(s)
    <3>1. open \in SUBSET (1 .. Len(s)) /\ Len(s) \in Nat
      BY <1>1
    <3> HIDE DEF open
    <3>2. Max(open) \in open
      BY <1>4, <3>1, GreatestExists
    <3>3. Max(open) \in 1 .. Len(s)
      BY <3>1, <3>2
    <3> QED BY <3>3
  <2> HIDE DEF i, open, r, s
  <2> DEFINE n == Len(s)
             k == IF i = 1 THEN 0 ELSE i - 2
             t == IF i = 1 THEN NoText ELSE s[i - 1]
  <2>3. n \in Nat /\ i \in 1 .. n /\ k \in 0 .. n /\ k <= i - 1 /\ i - 1 \in 0 .. n
    BY <1>1, <2>2
  <2>4. under \in Seq(Clean) /\ Len(under) = i - 1 /\ \A j \in 1 .. i - 1 : under[j] = s[j]
    BY <1>1, <2>3, UpTo
  <2>5. left = SubSeq(s, 1, k) /\ Top(under) = t /\ t \in Clean
    <3>1. under = <<>> <=> i = 1
      <4> HIDE DEF under
      <4>1. under = <<>> <=> Len(under) = 0
        BY <2>4, EmptySeq
      <4> QED BY <2>3, <2>4, <4>1
    <3>2. CASE i = 1
      <4>1. left = <<>> /\ Top(under) = NoText
        BY <3>1, <3>2 DEF Popped, Top
      <4>2. SubSeq(s, 1, 0) = <<>>
        BY <1>1
      <4> QED BY <3>2, <4>1, <4>2, TokenFacts
    <3>3. CASE i # 1
      <4>1. left = SubSeq(under, 1, Len(under) - 1) /\ Top(under) = under[Len(under)]
        BY <3>1, <3>3 DEF Popped, Top, Front, Last
      <4>2. left = SubSeq(under, 1, k) /\ Top(under) = s[i - 1] /\ i - 1 \in 1 .. n
            /\ k \in 0 .. i - 1
        <5>1. Len(under) - 1 = k /\ i - 1 \in 1 .. i - 1 /\ i - 1 \in 1 .. n /\ k \in 0 .. i - 1
          BY <2>3, <2>4, <3>3
        <5>2. under[Len(under)] = s[i - 1]
          BY <2>4, <5>1
        <5> QED BY <4>1, <5>1, <5>2
      <4> HIDE DEF under, left
      <4>3. /\ SubSeq(under, 1, k) \in Seq(Clean) /\ Len(SubSeq(under, 1, k)) = k
            /\ \A j \in 1 .. k : SubSeq(under, 1, k)[j] = under[j]
        BY <2>4, <4>2, UpTo
      <4>4. /\ SubSeq(s, 1, k) \in Seq(Clean) /\ Len(SubSeq(s, 1, k)) = k
            /\ \A j \in 1 .. k : SubSeq(s, 1, k)[j] = s[j]
        BY <1>1, <2>3, UpTo
      <4>5. ASSUME NEW j \in 1 .. k PROVE SubSeq(under, 1, k)[j] = SubSeq(s, 1, k)[j]
        <5>1. j \in 1 .. i - 1
          BY <4>2, <2>3
        <5> QED BY <2>4, <4>3, <4>4, <5>1
      <4>6. SubSeq(under, 1, k) = SubSeq(s, 1, k)
        BY <4>3, <4>4, <4>5, SeqEqual
      <4>7. s[i - 1] \in Clean
        BY <1>1, <4>2
      <4> QED BY <3>3, <4>2, <4>6, <4>7
    <3> QED BY <3>2, <3>3
  <2>6. PICK d, e : Deep(r, d) /\ Carried(s, e) /\ e[n] <= d[Len(r)]
    BY <1>1 DEF Matched
  <2>7. \A j \in 0 .. n : e[j] \in Nat
    BY <1>1, <2>6, EndsAreNumbers
  <2>8. r0 \in Seq(Clean) /\ \E d0 : Deep(r0, d0) /\ e[n] <= d0[Len(r0)]
    <3>1. CASE r = <<>>
      <4>1. d[Len(r)] \in Nat /\ NoText \in Clean /\ Closes(NoText) = 0 /\ Opens(NoText) \in {0, 1}
        BY <1>1, <2>6, EndsAreNumbers, TokenFacts
      <4>2. d[Len(r)] + Closes(NoText) <= d[Len(r)] + Opens(NoText)
        BY <4>1
      <4>3. PICK d0 : Deep(Append(r, NoText), d0) /\ d0[Len(r) + 1] = d[Len(r)]
        BY <1>1, <2>6, <4>1, <4>2, DeepAppend
      <4>4. Append(r, NoText) = r0
        BY <3>1
      <4>5. r0 \in Seq(Clean) /\ Len(r0) = Len(r) + 1
        BY <1>1, <4>1, <4>4, Appending
      <4> HIDE DEF r0
      <4> QED BY <2>6, <4>3, <4>4, <4>5
    <3>2. CASE r # <<>>
      BY <1>1, <2>6, <3>2
    <3> QED BY <3>1, <3>2
  <2>9. PICK d0 : Deep(r0, d0) /\ e[n] <= d0[Len(r0)]
    BY <2>8
  <2>10. e[k] + Closes(t) <= e[i - 1]
    <3>1. CASE i = 1
      BY <2>3, <2>7, <3>1, TokenFacts
    <3>2. CASE i # 1
      <4>1. i - 1 \in 1 .. n /\ (i - 1) - 1 = k
        BY <2>3, <3>2
      <4> QED BY <2>6, <3>2, <4>1 DEF Carried
    <3> QED BY <3>1, <3>2
  <2> HIDE DEF r0, k, t, n
  <2>11. p \in Seq(Clean) /\ \E d2 : Deep(p, d2) /\ d2[Len(p)] = e[k]
    <3>1. p = r0 \o Append(Reverse(SubSeq(s, i + 1, Len(s))), t)
      BY <2>5
    <3>2. r0 \in Seq(Clean) /\ Deep(r0, d0) /\ Carried(s, e) /\ e[Len(s)] <= d0[Len(r0)]
          /\ i \in 1 .. Len(s) /\ k \in 0 .. Len(s)
      BY <2>3, <2>6, <2>8, <2>9 DEF n
    <3>3. /\ k <= i - 1 /\ e[k] + Closes(t) <= e[i - 1] /\ t \in Clean
          /\ s \in Seq(Clean)
      BY <1>1, <2>3, <2>5, <2>10
    <3> HIDE DEF p
    <3> DEFINE q == r0 \o Append(Reverse(SubSeq(s, i + 1, Len(s))), t)
    <3>4. q \in Seq(Clean) /\ \E d2 : Deep(q, d2) /\ d2[Len(q)] = e[k]
      BY <3>2, <3>3, Pouring
    <3> QED BY <3>1, <3>4
  <2>12. PICK d2 : Deep(p, d2) /\ d2[Len(p)] = e[k]
    BY <2>11
  <2>13. PICK e2 : Carried(SubSeq(s, 1, k), e2) /\ e2[k] = e[k]
    BY <1>1, <2>3, <2>6, CarryBelow DEF n
  <2>14. left \in Seq(Clean) /\ Len(left) = k /\ Carried(left, e2)
    <3>1. SubSeq(s, 1, k) \in Seq(Clean) /\ Len(SubSeq(s, 1, k)) = k
      BY <1>1, <2>3, UpTo DEF n
    <3> QED BY <2>5, <2>13, <3>1
  <2> HIDE DEF p, left
  <2>15. e[k] \in Nat
    BY <2>3, <2>7
  <2>16. Matched(p, left)
    <3>1. e2[Len(left)] <= d2[Len(p)]
      BY <2>12, <2>13, <2>14, <2>15
    <3> QED BY <2>12, <2>14, <3>1 DEF Matched
  <2> QED BY <1>1, <2>1, <2>11, <2>14, <2>16 DEF ParseState
<1> QED BY <1>3, <1>4

\* Each token of the formula.
LEMMA TokenStep == ASSUME NEW x \in ParseState, NEW t \in Clean PROVE Token(x, t) \in ParseState
<1>1. x.rpn \in Seq(Clean) /\ x.s \in Seq(Clean) /\ x.loops \in BOOLEAN /\ Matched(x.rpn, x.s)
      /\ x = [rpn |-> x.rpn, s |-> x.s, loops |-> x.loops]
  BY DEF ParseState
<1> DEFINE F == [rpn |-> Append(x.rpn, separator), s |-> Append(x.s, t), loops |-> x.loops]
           P == [rpn |-> x.rpn, s |-> Append(x.s, t), loops |-> x.loops]
           A == [rpn |-> Append(x.rpn, t), s |-> x.s, loops |-> x.loops]
<1>2. /\ Function(x, t) = F
      /\ [x EXCEPT !.s = Push(@, t)] = P
      /\ [x EXCEPT !.rpn = Append(@, t)] = A
  <2> HIDE DEF F, P, A
  <2> DEFINE r == x.rpn
             s == x.s
             l == x.loops
  <2>1. x = [rpn |-> r, s |-> s, loops |-> l]
    BY <1>1
  <2> HIDE DEF r, s, l
  <2>2. /\ Function(x, t) = [rpn |-> Append(r, separator), s |-> Append(s, t), loops |-> l]
        /\ [x EXCEPT !.s = Push(@, t)] = [rpn |-> r, s |-> Append(s, t), loops |-> l]
        /\ [x EXCEPT !.rpn = Append(@, t)] = [rpn |-> Append(r, t), s |-> s, loops |-> l]
    <3>1. x.rpn = r /\ x.s = s /\ x.loops = l
      BY <2>1
    <3>2. ASSUME NEW q PROVE [x EXCEPT !.s = q] = [rpn |-> r, s |-> q, loops |-> l]
      BY <2>1
    <3>3. ASSUME NEW p PROVE [x EXCEPT !.rpn = p] = [rpn |-> p, s |-> s, loops |-> l]
      BY <2>1
    <3>4. Function(x, t) = [rpn |-> Append(r, separator), s |-> Append(s, t), loops |-> l]
      <4> DEFINE y == [x EXCEPT !.rpn = Append(@, separator)]
      <4>1. y = [rpn |-> Append(r, separator), s |-> s, loops |-> l]
        BY <3>1, <3>3
      <4>2. Function(x, t) = [y EXCEPT !.s = Append(@, t)]
        BY DEF Function, Push
      <4> HIDE DEF y
      <4>3. y.s = s
        BY <4>1
      <4>4. [y EXCEPT !.s = Append(s, t)] = [rpn |-> Append(r, separator), s |-> Append(s, t),
                                             loops |-> l]
        <5>1. ASSUME NEW a, NEW b, y = [rpn |-> a, s |-> s, loops |-> l]
              PROVE  [y EXCEPT !.s = b] = [rpn |-> a, s |-> b, loops |-> l]
          BY <5>1
        <5> QED BY <4>1, <5>1
      <4> QED BY <4>2, <4>3, <4>4
    <3> QED BY <3>1, <3>2, <3>3, <3>4 DEF Push
  <2> QED BY <2>2 DEF F, P, A, r, s, l
<1>3. isFN(t) => F \in ParseState
  <2>1. separator \in Clean
    BY TokenFacts
  <2>2. Append(x.rpn, separator) \in Seq(Clean) /\ Append(x.s, t) \in Seq(Clean)
    BY <1>1, <2>1
  <2> QED BY <1>1, <2>2, MatchedFunction DEF ParseState
<1>4. ~isFN(t) => P \in ParseState /\ A \in ParseState
  <2>1. Append(x.rpn, t) \in Seq(Clean) /\ Append(x.s, t) \in Seq(Clean)
    BY <1>1
  <2>2. ~isFN(t) => Closes(t) = 0
    BY DEF Closes
  <2> QED BY <1>1, <2>1, <2>2, MatchedPush DEF ParseState
<1> HIDE DEF F, P, A
<1>5. Token(x, t) \in {x, Close(x)} \/ (isFN(t) /\ Token(x, t) = F)
        \/ (~isFN(t) /\ Token(x, t) \in {P, A})
  <2>1. leftParenthesis # rightParenthesis /\ leftParenthesis # comma /\ rightParenthesis # comma
    BY DEF leftParenthesis, rightParenthesis, comma
  <2>2. ~isFN(leftParenthesis) /\ ~isFN(rightParenthesis) /\ ~isFN(comma)
    <3>1. {"(", ")", ","} \subseteq Letter /\ "(" # "@" /\ ")" # "@" /\ "," # "@"
      BY DEF Letter
    <3> QED BY <3>1, NoFunction DEF leftParenthesis, rightParenthesis, comma
  <2>3. CASE x.loops
    BY <2>3 DEF Token
  <2>4. CASE ~x.loops /\ isFN(t)
    BY <1>2, <2>2, <2>4 DEF Token
  <2>5. CASE ~x.loops /\ ~isFN(t)
    BY <1>2, <2>1, <2>5 DEF Token
  <2> QED BY <2>3, <2>4, <2>5
<1> QED BY <1>3, <1>4, <1>5, CloseStep

\* A text that Parse comes back with has a mark for each function, and before it.
LEMMA ParseDeep ==
  ASSUME NEW exp \in Seq(Clean)
  PROVE  Parse(exp) \in ParseState
<1> DEFINE n == Len(exp)
           start == [rpn |-> <<>>, s |-> <<>>, loops |-> FALSE]
           Is(f) == f = [i \in 0 .. n |-> IF i = 0 THEN start ELSE Token(f[i - 1], exp[i])]
           parsed == CHOOSE f : Is(f)
           X == [i \in 0 .. n |-> ParseState]
           F == [i \in 1 .. n |-> [x \in ParseState |-> Token(x, exp[i])]]
<1>1. n \in Nat /\ \A i \in 1 .. n : exp[i] \in Clean
  OBVIOUS
<1>2. start \in ParseState
  <2>1. Deep(<<>>, [i \in {0} |-> 0]) /\ Carried(<<>>, [i \in {0} |-> 0])
    <3>1. Len(<<>>) = 0 /\ 0 .. 0 = {0} /\ 1 .. 0 = {}
      OBVIOUS
    <3> QED BY <3>1 DEF Deep, Carried
  <2>2. Matched(<<>>, <<>>)
    BY <2>1 DEF Matched
  <2> QED BY <2>2 DEF ParseState
<1>3. Parse(exp) = parsed[n]
  BY DEF Parse
<1> HIDE DEF n, start
<1>4. PICK g : Is(g)
  <2>1. Leads(F, X, n)
    <3> SUFFICES ASSUME NEW i \in 1 .. n, NEW x \in X[i - 1] PROVE F[i][x] \in X[i]
      BY DEF Leads
    <3>1. i \in 0 .. n /\ i - 1 \in 0 .. n
      BY <1>1
    <3>2. x \in ParseState /\ X[i] = ParseState
      BY <3>1
    <3>3. F[i][x] = Token(x, exp[i])
      BY <3>2
    <3> QED BY <1>1, <3>2, <3>3, TokenStep
  <2>2. start \in X[0]
    BY <1>1, <1>2
  <2> HIDE DEF X, F
  <2>3. PICK g : Follows(g, F, start, n) /\ \A i \in 0 .. n : g[i] \in X[i]
    BY <1>1, <2>1, <2>2, Recursion
  <2>4. ASSUME NEW i \in 0 .. n, i # 0 PROVE F[i][g[i - 1]] = Token(g[i - 1], exp[i])
    <3>1. i \in 1 .. n /\ i - 1 \in 0 .. n
      BY <1>1, <2>4
    <3>2. g[i - 1] \in ParseState
      BY <2>3, <3>1 DEF X
    <3> QED BY <3>1, <3>2 DEF F
  <2>5. Is(g)
    BY <2>3, <2>4 DEF Follows
  <2> QED BY <2>5
<1>5. Is(parsed)
  <2> HIDE DEF Is
  <2> QED BY <1>4
<1> HIDE DEF parsed
<1>6. \A i \in 0 .. n : parsed[i] = IF i = 0 THEN start ELSE Token(parsed[i - 1], exp[i])
  BY <1>5
<1> DEFINE S == {i \in 0 .. n : parsed[i] \in ParseState}
<1>7. 0 \in S
  BY <1>1, <1>2, <1>6
<1>8. ASSUME NEW i \in 1 .. n, i - 1 \in S PROVE i \in S
  <2>1. i \in 0 .. n /\ i # 0 /\ parsed[i - 1] \in ParseState
    BY <1>1, <1>8
  <2>2. parsed[i] = Token(parsed[i - 1], exp[i])
    BY <1>6, <2>1
  <2> QED BY <1>1, <2>1, <2>2, TokenStep
<1> HIDE DEF S
<1>9. \A i \in 0 .. n : i \in S
  BY <1>1, <1>7, <1>8, Along
<1>10. n \in S
  BY <1>1, <1>9
<1> QED BY <1>3, <1>10 DEF S

-----------------------------------------------------------------------------
(* Replace. *)

\* Each "@" comes from the token or from what goes in.
PassState(t, v) == {x \in [out : Tok, skip : Nat] : HasAt(x.out) => HasAt(t) \/ HasAt(v)}

\* What there is an "@" in.
LEMMA AtFacts ==
  /\ ~HasAt(<<>>)
  /\ \A o, v \in Tok : o \o v \in Tok /\ (HasAt(o \o v) => HasAt(o) \/ HasAt(v))
  /\ \A o, t \in Tok : \A i \in DOMAIN t :
       Append(o, t[i]) \in Tok /\ (HasAt(Append(o, t[i])) => HasAt(o) \/ HasAt(t))
<1> HIDE DEF Letter
<1>1. ASSUME NEW o \in Tok, NEW v \in Tok
      PROVE  o \o v \in Tok /\ (HasAt(o \o v) => HasAt(o) \/ HasAt(v))
  <2>1. o \in Seq(Letter) /\ v \in Seq(Letter)
    BY DEF Tok
  <2>2. \A j \in DOMAIN (o \o v) :
          \/ j \in DOMAIN o /\ (o \o v)[j] = o[j]
          \/ j - Len(o) \in DOMAIN v /\ (o \o v)[j] = v[j - Len(o)]
    BY <2>1
  <2>3. o \o v \in Seq(Letter)
    BY <2>1
  <2> DEFINE c == o \o v
  <2> HIDE DEF c
  <2>4. HasAt(c) => HasAt(o) \/ HasAt(v)
    BY <2>2 DEF HasAt, c
  <2> QED BY <2>3, <2>4 DEF Tok, c
<1>2. ASSUME NEW o \in Tok, NEW t \in Tok, NEW i \in DOMAIN t
      PROVE  Append(o, t[i]) \in Tok /\ (HasAt(Append(o, t[i])) => HasAt(o) \/ HasAt(t))
  <2>1. o \in Seq(Letter) /\ t \in Seq(Letter) /\ t[i] \in Letter
    BY DEF Tok
  <2> DEFINE a == Append(o, t[i])
  <2>2. a \in Seq(Letter) /\ \A j \in DOMAIN a : (j \in DOMAIN o /\ a[j] = o[j]) \/ a[j] = t[i]
    BY <2>1
  <2> HIDE DEF a
  <2>3. HasAt(a) => HasAt(o) \/ HasAt(t)
    BY <2>2 DEF HasAt
  <2>4. a \in Tok
    BY <2>2 DEF Tok
  <2> QED BY <2>3, <2>4 DEF a
<1>3. ~HasAt(<<>>)
  BY DEF HasAt
<1> QED BY <1>1, <1>2, <1>3

LEMMA PassStep ==
  ASSUME NEW t \in Tok, NEW k \in Tok, k # <<>>, NEW v \in Tok,
         NEW i \in 1 .. Len(t), NEW x \in PassState(t, v)
  PROVE  Pass(x, t, k, v, i) \in PassState(t, v)
<1> DEFINE o == x.out
           n == x.skip
<1>1. /\ x = [out |-> o, skip |-> n] /\ o \in Tok /\ n \in Nat
      /\ HasAt(o) => HasAt(t) \/ HasAt(v)
  BY DEF PassState
<1>2. i \in DOMAIN t /\ Len(k) - 1 \in Nat
  <2>1. Len(k) \in Nat /\ Len(k) # 0
    BY EmptySeq DEF Tok
  <2> QED BY <2>1 DEF Tok
<1> HIDE DEF o, n
<1>3. \A a \in Tok, m \in Nat :
        (HasAt(a) => HasAt(t) \/ HasAt(v)) => [out |-> a, skip |-> m] \in PassState(t, v)
  BY DEF PassState
<1>4. CASE n > 0
  <2>1. Pass(x, t, k, v, i) = [out |-> o, skip |-> n - 1]
    BY <1>1, <1>4 DEF Pass
  <2> QED BY <1>1, <1>4, <2>1 DEF PassState
<1>5. CASE n = 0 /\ IsPrefix(k, SubSeq(t, i, Len(t)))
  <2>1. Pass(x, t, k, v, i) = [out |-> o \o v, skip |-> Len(k) - 1]
    <3>1. x.skip = n /\ x.out = o /\ ~(n > 0)
      BY <1>1, <1>5
    <3> QED BY <1>5, <3>1 DEF Pass
  <2>2. o \o v \in Tok /\ (HasAt(o \o v) => HasAt(t) \/ HasAt(v))
    BY <1>1, AtFacts
  <2> HIDE DEF o
  <2> QED BY <1>2, <1>3, <2>1, <2>2
<1>6. CASE n = 0 /\ ~IsPrefix(k, SubSeq(t, i, Len(t)))
  <2> DEFINE a == Append(o, t[i])
  <2>1. Pass(x, t, k, v, i) = [out |-> a, skip |-> n]
    <3>1. x.skip = n /\ x.out = o /\ ~(n > 0)
      BY <1>1, <1>6
    <3>2. Pass(x, t, k, v, i) = [x EXCEPT !.out = a]
      BY <1>6, <3>1 DEF Pass
    <3> HIDE DEF a
    <3> QED BY <1>1, <3>2
  <2>2. a \in Tok /\ (HasAt(a) => HasAt(t) \/ HasAt(v))
    BY <1>1, <1>2, AtFacts
  <2> HIDE DEF a
  <2> QED BY <1>1, <1>3, <2>1, <2>2
<1> QED BY <1>1, <1>4, <1>5, <1>6

\* The states that one pass along a token goes through.
LEMMA PassesAlong ==
  ASSUME NEW t \in Tok, NEW k \in Tok, k # <<>>, NEW v \in Tok
  PROVE  \E passed :
           /\ \A i \in 0 .. Len(t) : /\ passed[i] \in PassState(t, v)
                                    /\ passed[i] = IF i = 0 THEN [out |-> <<>>, skip |-> 0]
                                                   ELSE Pass(passed[i - 1], t, k, v, i)
           /\ Replace(t, k, v) = passed[Len(t)].out
<1> DEFINE n == Len(t)
           start == [out |-> <<>>, skip |-> 0]
           Is(f) == f = [i \in 0 .. n |-> IF i = 0 THEN start ELSE Pass(f[i - 1], t, k, v, i)]
           passed == CHOOSE f : Is(f)
           P == PassState(t, v)
           X == [i \in 0 .. n |-> P]
           F == [i \in 1 .. n |-> [x \in P |-> Pass(x, t, k, v, i)]]
<1>1. n \in Nat /\ t \in Seq(Letter)
  BY DEF Tok
<1>2. start \in P
  <2>1. ~HasAt(<<>>) /\ <<>> \in Tok
    BY AtFacts DEF Tok
  <2> QED BY <2>1 DEF PassState
<1>3. Replace(t, k, v) = passed[n].out
  BY DEF Replace
<1>4. ASSUME NEW i \in 1 .. n, NEW x \in P PROVE Pass(x, t, k, v, i) \in P
  BY PassStep
<1> HIDE DEF n, start, P
<1>5. PICK g : Is(g)
  <2>1. Leads(F, X, n)
    <3> SUFFICES ASSUME NEW i \in 1 .. n, NEW x \in X[i - 1] PROVE F[i][x] \in X[i]
      BY DEF Leads
    <3>1. i \in 0 .. n /\ i - 1 \in 0 .. n
      BY <1>1
    <3>2. x \in P /\ X[i] = P
      BY <3>1
    <3> QED BY <1>4, <3>2
  <2>2. start \in X[0]
    BY <1>1, <1>2
  <2> HIDE DEF X, F
  <2>3. PICK g : Follows(g, F, start, n) /\ \A i \in 0 .. n : g[i] \in X[i]
    BY <1>1, <2>1, <2>2, Recursion
  <2>4. ASSUME NEW i \in 0 .. n, i # 0 PROVE F[i][g[i - 1]] = Pass(g[i - 1], t, k, v, i)
    <3>1. i \in 1 .. n /\ i - 1 \in 0 .. n
      BY <1>1, <2>4
    <3>2. g[i - 1] \in P
      BY <2>3, <3>1 DEF X
    <3> QED BY <3>1, <3>2 DEF F
  <2>5. Is(g)
    BY <2>3, <2>4 DEF Follows
  <2> QED BY <2>5
<1>6. Is(passed)
  <2> HIDE DEF Is
  <2> QED BY <1>5
<1> HIDE DEF passed
<1>7. \A i \in 0 .. n : passed[i] = IF i = 0 THEN start ELSE Pass(passed[i - 1], t, k, v, i)
  BY <1>6
<1> DEFINE S == {i \in 0 .. n : passed[i] \in P}
<1>8. 0 \in S
  BY <1>1, <1>2, <1>7
<1>9. ASSUME NEW i \in 1 .. n, i - 1 \in S PROVE i \in S
  <2>1. i \in 0 .. n /\ i # 0 /\ passed[i - 1] \in P
    BY <1>1, <1>9
  <2>2. passed[i] = Pass(passed[i - 1], t, k, v, i)
    BY <1>7, <2>1
  <2> QED BY <1>4, <2>1, <2>2
<1>10. \A i \in 0 .. n : passed[i] \in P
  <2> HIDE DEF S
  <2>1. \A i \in 0 .. n : i \in S
    BY <1>1, <1>8, <1>9, Along
  <2> QED BY <2>1 DEF S
<1> QED BY <1>3, <1>7, <1>10 DEF P, n, start

\* A replacement brings in no "@" but those of what goes in.
LEMMA ReplacePasses ==
  ASSUME NEW t \in Tok, NEW k \in Tok, k # <<>>, NEW v \in Tok
  PROVE  /\ Replace(t, k, v) \in Tok
         /\ HasAt(Replace(t, k, v)) => HasAt(t) \/ HasAt(v)
<1> DEFINE n == Len(t)
<1>1. n \in 0 .. n
  BY DEF Tok
<1>2. PICK passed : /\ \A i \in 0 .. n : passed[i] \in PassState(t, v)
                    /\ Replace(t, k, v) = passed[n].out
  BY PassesAlong
<1> HIDE DEF n
<1>3. passed[n] \in PassState(t, v)
  BY <1>1, <1>2
<1> QED BY <1>2, <1>3 DEF PassState

\* A token that a key is no part of stays.
LEMMA ReplaceApart ==
  ASSUME NEW t \in Tok, NEW k \in Tok, k # <<>>, NEW v \in Tok,
         ~Within(k, t)
  PROVE  Replace(t, k, v) = t
<1> DEFINE n == Len(t)
           start == [out |-> <<>>, skip |-> 0]
<1>1. n \in Nat /\ t \in Seq(Letter) /\ DOMAIN t = 1 .. n
  BY DEF Tok
<1>2. PICK passed :
        /\ \A i \in 0 .. n : /\ passed[i] \in PassState(t, v)
                            /\ passed[i] = IF i = 0 THEN start ELSE Pass(passed[i - 1], t, k, v, i)
        /\ Replace(t, k, v) = passed[n].out
  BY PassesAlong
<1>3. \A i \in 1 .. n : ~IsPrefix(k, SubSeq(t, i, Len(t)))
  BY <1>1 DEF Within
<1>4. \A i \in 1 .. n : Append(SubSeq(t, 1, i - 1), t[i]) = SubSeq(t, 1, i)
  <2> TAKE i \in 1 .. n
  <2>1. 1 \in 1 .. Len(t) /\ i \in 1 .. Len(t) /\ i - 1 \in 0 .. Len(t) /\ t[i] \in Letter
    BY <1>1
  <2>2. SubSeq(t, 1, i) = SubSeq(t, 1, i - 1) \o <<t[i]>>
    BY <1>1, <2>1, SubSeqRecursiveSecond
  <2>3. SubSeq(t, 1, i - 1) \in Seq(Letter)
    BY <1>1, <2>1, UpTo
  <2>4. \A o \in Seq(Letter), c \in Letter : o \o <<c>> = Append(o, c)
    OBVIOUS
  <2> QED BY <2>1, <2>2, <2>3, <2>4
<1>5. SubSeq(t, 1, 0) = <<>> /\ SubSeq(t, 1, n) = t
  BY <1>1
<1> HIDE DEF n
<1> DEFINE S == {i \in 0 .. n : passed[i] = [out |-> SubSeq(t, 1, i), skip |-> 0]}
<1>6. 0 \in S
  BY <1>1, <1>2, <1>5
<1>7. ASSUME NEW i \in 1 .. n, i - 1 \in S PROVE i \in S
  <2> DEFINE x == passed[i - 1]
             o == SubSeq(t, 1, i - 1)
  <2>1. i \in 0 .. n /\ i # 0 /\ x = [out |-> o, skip |-> 0]
    BY <1>1, <1>7
  <2>2. passed[i] = Pass(x, t, k, v, i)
    BY <1>2, <2>1
  <2> HIDE DEF x, o
  <2>3. x.skip = 0 /\ x.out = o /\ ~(x.skip > 0)
    BY <2>1
  <2>4. Pass(x, t, k, v, i) = [x EXCEPT !.out = Append(o, t[i])]
    BY <1>3, <2>3 DEF Pass
  <2>5. ASSUME NEW q PROVE [x EXCEPT !.out = q] = [out |-> q, skip |-> 0]
    BY <2>1
  <2>6. passed[i] = [out |-> Append(o, t[i]), skip |-> 0]
    BY <2>2, <2>4, <2>5
  <2> QED BY <1>4, <2>1, <2>6 DEF o
<1>8. n \in S
  <2> HIDE DEF S
  <2>1. \A i \in 0 .. n : i \in S
    BY <1>1, <1>6, <1>7, Along
  <2>2. n \in Nat
    BY <1>1
  <2>3. n \in 0 .. n
    BY <2>2
  <2> QED BY <2>1, <2>3
<1>9. passed[n].out = SubSeq(t, 1, n)
  <2>1. \A i \in S : passed[i] = [out |-> SubSeq(t, 1, i), skip |-> 0]
    OBVIOUS
  <2>2. ASSUME NEW x, NEW o, x = [out |-> o, skip |-> 0] PROVE x.out = o
    BY <2>2
  <2> HIDE DEF S, start
  <2>3. passed[n] = [out |-> SubSeq(t, 1, n), skip |-> 0]
    BY <1>8, <2>1
  <2> QED BY <2>2, <2>3
<1>10. Replace(t, k, v) = passed[n].out
  BY <1>2
<1> QED BY <1>5, <1>9, <1>10

\* A token that is the key is replaced.
LEMMA ReplaceWhole ==
  ASSUME NEW k \in Tok, k # <<>>, NEW v \in Tok
  PROVE  Replace(k, k, v) = v
<1> DEFINE n == Len(k)
           start == [out |-> <<>>, skip |-> 0]
<1>1. k \in Seq(Letter)
  BY DEF Tok
<1>2. n \in Nat /\ n # 0
  BY <1>1, EmptySeq
<1>3. PICK passed :
        /\ \A i \in 0 .. n : /\ passed[i] \in PassState(k, v)
                            /\ passed[i] = IF i = 0 THEN start ELSE Pass(passed[i - 1], k, k, v, i)
        /\ Replace(k, k, v) = passed[n].out
  BY <1>1, PassesAlong
<1>4. IsPrefix(k, SubSeq(k, 1, Len(k)))
  <2>1. SubSeq(k, 1, Len(k)) = k
    BY <1>1
  <2> QED BY <1>2, <2>1 DEF IsPrefix
<1> DEFINE S == {i \in 0 .. n : i # 0 => passed[i] = [out |-> v, skip |-> n - i]}
<1>5. 0 \in S
  BY <1>2
<1>6. ASSUME NEW i \in 1 .. n, i - 1 \in S PROVE i \in S
  <2> DEFINE x == passed[i - 1]
  <2>1. i \in 0 .. n /\ i # 0 /\ i - 1 \in 0 .. n
    BY <1>2
  <2>2. passed[i] = Pass(x, k, k, v, i)
    BY <1>3, <2>1
  <2>3. CASE i = 1
    <3>1. x = start
      BY <1>3, <2>1, <2>3
    <3> HIDE DEF x
    <3>2. x.skip = 0 /\ x.out = <<>> /\ ~(x.skip > 0) /\ <<>> \o v = v
      BY <3>1
    <3>3. Pass(x, k, k, v, i) = [out |-> v, skip |-> n - i]
      BY <1>4, <2>3, <3>2 DEF Pass
    <3> QED BY <2>1, <2>2, <3>3
  <2>4. CASE i # 1
    <3> DEFINE m == n - (i - 1)
    <3>1. x = [out |-> v, skip |-> m]
      BY <1>6, <2>1, <2>4
    <3>2. m \in Nat /\ m > 0 /\ m - 1 = n - i
      BY <1>2, <2>1
    <3> HIDE DEF x, m
    <3>3. x.skip = m /\ x.skip > 0
      BY <3>1, <3>2
    <3>4. Pass(x, k, k, v, i) = [x EXCEPT !.skip = m - 1]
      BY <3>3 DEF Pass
    <3>5. ASSUME NEW q PROVE [x EXCEPT !.skip = q] = [out |-> v, skip |-> q]
      BY <3>1
    <3>6. passed[i] = [out |-> v, skip |-> n - i]
      BY <2>2, <3>2, <3>4, <3>5
    <3> QED BY <2>1, <3>6
  <2> QED BY <2>3, <2>4
<1>7. n \in S
  <2> HIDE DEF S, n
  <2>1. \A i \in 0 .. n : i \in S
    BY <1>2, <1>5, <1>6, Along
  <2> QED BY <1>2, <2>1
<1> QED BY <1>2, <1>3, <1>7

\* A key that is not the mark is not in the mark.
LEMMA NotInMark ==
  ASSUME NEW k \in Tok, k # <<>>, k # separator
  PROVE  ~Within(k, separator)
<1> SUFFICES ASSUME NEW i \in DOMAIN separator, IsPrefix(k, SubSeq(separator, i, Len(separator)))
             PROVE  FALSE
  BY DEF Within
<1>1. /\ separator \in Seq(Letter) /\ Len(separator) = 1 /\ DOMAIN separator = {1}
  <2>1. \A c : Len(<<c>>) = 1 /\ DOMAIN <<c>> = {1}
    OBVIOUS
  <2>2. separator \in Seq(Letter)
    BY TokenFacts DEF Tok
  <2> QED BY <2>1, <2>2 DEF separator
<1>2. i = 1
  BY <1>1
<1>3. SubSeq(separator, 1, 1) = separator
  BY <1>1, SubSeqFull
<1>4. IsPrefix(k, separator)
  BY <1>1, <1>2, <1>3
<1>5. Len(k) <= 1 /\ SubSeq(k, 1, Len(k)) = SubSeq(separator, 1, Len(k))
  BY <1>1, <1>4 DEF IsPrefix
<1>6. Len(k) \in Nat /\ Len(k) # 0 /\ k \in Seq(Letter)
  BY EmptySeq DEF Tok
<1>7. Len(k) = 1
  <2> DEFINE n == Len(k)
  <2>1. n <= 1 /\ n \in Nat /\ n # 0
    BY <1>5, <1>6
  <2> HIDE DEF n
  <2>2. n = 1
    BY <2>1
  <2> QED BY <2>2 DEF n
<1>8. SubSeq(k, 1, Len(k)) = k
  BY <1>6, SubSeqFull
<1> QED BY <1>3, <1>5, <1>7, <1>8

\* What a token becomes: a mark stays one, and no "@" comes in.
Kept(t, r) == (t = separator => r = separator) /\ (HasAt(r) => HasAt(t))

LEMMA ReplaceKeeps ==
  ASSUME NEW t \in Tok, NEW k \in Tok, k # <<>>, k # separator, NEW v \in Tok, ~HasAt(v)
  PROVE  Kept(t, Replace(t, k, v))
<1>1. t = separator => Replace(t, k, v) = separator
  BY NotInMark, ReplaceApart
<1>2. HasAt(Replace(t, k, v)) => HasAt(t)
  BY ReplacePasses
<1> QED BY <1>1, <1>2 DEF Kept

-----------------------------------------------------------------------------
(* Filled. *)

\* What is known of a key and its value.
LEMMA BindingFacts ==
  ASSUME NEW kvMap \in Bindings, NEW k \in DOMAIN kvMap
  PROVE  k \in Tok /\ k # <<>> /\ kvMap[k] \in Tok
<1>1. k \in Seq(STRING) /\ k # NoText /\ kvMap[k] \in Seq(STRING)
  BY BindingsAssumption
<1>2. STRING \subseteq Letter
  BY DEF Letter
<1>3. k \in Seq(Letter) /\ kvMap[k] \in Seq(Letter)
  <2> HIDE DEF Letter
  <2> QED BY <1>1, <1>2, SeqMonotonic
<1> QED BY <1>1, <1>3 DEF Tok, NoText

\* No key takes a mark away, and no value brings an "@" in.
Bare(kvMap) == \A k \in DOMAIN kvMap : k # separator /\ ~HasAt(kvMap[k])

\* One value goes in for its key.
Fill(text, k, v) == [j \in DOMAIN text |-> Replace(text[j], k, v)]

\* What a text becomes.
AllKept(exp, text) == Len(text) = Len(exp) /\ \A j \in 1 .. Len(exp) : Kept(exp[j], text[j])

LEMMA FillKeeps ==
  ASSUME NEW text \in Seq(Tok), NEW k \in Tok, k # <<>>, NEW v \in Tok
  PROVE  /\ Fill(text, k, v) \in Seq(Tok)
         /\ k # separator /\ ~HasAt(v) => AllKept(text, Fill(text, k, v))
<1> DEFINE n == Len(text)
           f == Fill(text, k, v)
<1>1. n \in Nat /\ DOMAIN text = 1 .. n /\ \A i \in 1 .. n : text[i] \in Tok
  OBVIOUS
<1> HIDE DEF n
<1>2. f = [i \in 1 .. n |-> Replace(text[i], k, v)]
  BY <1>1 DEF Fill
<1> HIDE DEF f
<1>3. \A i \in 1 .. n : f[i] = Replace(text[i], k, v) /\ f[i] \in Tok
  BY <1>1, <1>2, ReplacePasses
<1>4. f \in [1 .. n -> Tok]
  BY <1>2, <1>3
<1>5. f \in Seq(Tok) /\ Len(f) = n
  BY <1>1, <1>4
<1>6. ASSUME k # separator, ~HasAt(v) PROVE AllKept(text, f)
  <2>1. \A i \in 1 .. n : Kept(text[i], f[i])
    BY <1>1, <1>3, <1>6, ReplaceKeeps
  <2> QED BY <1>5, <2>1 DEF AllKept, n
<1> QED BY <1>5, <1>6 DEF f

\* What a text is while the keys go in, in the order in which they come.
LEMMA FillsAlong ==
  ASSUME NEW exp \in Seq(Tok), NEW kvMap \in Bindings,
         NEW keys \in Seq(DOMAIN kvMap)
  PROVE  \E filled :
           /\ filled[0] = exp
           /\ \A i \in 0 .. Len(keys) :
               filled[i] \in Seq(Tok) /\ (Bare(kvMap) => AllKept(exp, filled[i]))
           /\ \A i \in 1 .. Len(keys) :
                filled[i] = Fill(filled[i - 1], keys[i], kvMap[keys[i]])
           /\ Filled(exp, kvMap, keys) = filled[Len(keys)]
<1> DEFINE n == Len(keys)
           Filling(text, i) == Fill(text, keys[i], kvMap[keys[i]])
           Is(f) == f = [i \in 0 .. n |-> IF i = 0 THEN exp ELSE Filling(f[i - 1], i)]
           filled == CHOOSE f : Is(f)
           P == {text \in Seq(Tok) : Bare(kvMap) => AllKept(exp, text)}
           X == [i \in 0 .. n |-> P]
           F == [i \in 1 .. n |-> [text \in P |-> Filling(text, i)]]
<1>1. n \in Nat /\ \A i \in 1 .. n : keys[i] \in DOMAIN kvMap
  OBVIOUS
<1>2. exp \in P
  BY DEF AllKept, Kept
<1>3. Filled(exp, kvMap, keys) = filled[n]
  BY DEF Filled, Fill
<1>4. ASSUME NEW i \in 1 .. n, NEW text \in P PROVE Filling(text, i) \in P
  <2> DEFINE k == keys[i]
             v == kvMap[k]
  <2>1. k \in DOMAIN kvMap
    BY <1>1
  <2>2. k \in Tok /\ k # <<>> /\ v \in Tok /\ (Bare(kvMap) => k # separator /\ ~HasAt(v))
    <3> HIDE DEF k
    <3> QED BY <2>1, BindingFacts DEF Bare
  <2>3. text \in Seq(Tok) /\ (Bare(kvMap) => AllKept(exp, text))
    OBVIOUS
  <2> DEFINE filling == Filling(text, i)
  <2>4. filling = Fill(text, k, v)
    OBVIOUS
  <2> HIDE DEF k, v, filling
  <2>5. filling \in Seq(Tok) /\ (Bare(kvMap) => AllKept(text, filling))
    BY <2>2, <2>3, <2>4, FillKeeps
  <2>6. AllKept(exp, text) /\ AllKept(text, filling) => AllKept(exp, filling)
    BY DEF AllKept, Kept
  <2> QED BY <2>3, <2>5, <2>6 DEF filling
<1> HIDE DEF n, P, Filling
<1>5. PICK g : Is(g)
  <2>1. Leads(F, X, n)
    <3> SUFFICES ASSUME NEW i \in 1 .. n, NEW text \in X[i - 1] PROVE F[i][text] \in X[i]
      BY DEF Leads
    <3>1. i \in 0 .. n /\ i - 1 \in 0 .. n
      BY <1>1
    <3>2. text \in P /\ X[i] = P
      BY <3>1
    <3> QED BY <1>4, <3>2
  <2>2. exp \in X[0]
    BY <1>1, <1>2
  <2> HIDE DEF X, F
  <2>3. PICK g : Follows(g, F, exp, n) /\ \A i \in 0 .. n : g[i] \in X[i]
    BY <1>1, <2>1, <2>2, Recursion
  <2>4. ASSUME NEW i \in 0 .. n, i # 0 PROVE F[i][g[i - 1]] = Filling(g[i - 1], i)
    <3>1. i \in 1 .. n /\ i - 1 \in 0 .. n
      BY <1>1, <2>4
    <3>2. g[i - 1] \in P
      BY <2>3, <3>1 DEF X
    <3> QED BY <3>1, <3>2 DEF F
  <2>5. Is(g)
    BY <2>3, <2>4 DEF Follows
  <2> QED BY <2>5
<1>6. Is(filled)
  <2> HIDE DEF Is
  <2> QED BY <1>5
<1> HIDE DEF filled
<1>7. \A i \in 0 .. n : filled[i] = IF i = 0 THEN exp ELSE Filling(filled[i - 1], i)
  BY <1>6
<1> DEFINE S == {i \in 0 .. n : filled[i] \in P}
<1>8. 0 \in S
  BY <1>1, <1>2, <1>7
<1>9. ASSUME NEW i \in 1 .. n, i - 1 \in S PROVE i \in S
  <2>1. i \in 0 .. n /\ i # 0 /\ filled[i - 1] \in P
    BY <1>1, <1>9
  <2>2. filled[i] = Filling(filled[i - 1], i)
    BY <1>7, <2>1
  <2> QED BY <1>4, <2>1, <2>2
<1>10. \A i \in 0 .. n : filled[i] \in P
  <2> HIDE DEF S
  <2>1. \A i \in 0 .. n : i \in S
    BY <1>1, <1>8, <1>9, Along
  <2> QED BY <2>1 DEF S
<1>11. filled[0] = exp
  BY <1>1, <1>7
<1>12. \A i \in 1 .. n : filled[i] = Filling(filled[i - 1], i)
  <2> TAKE i \in 1 .. n
  <2>1. i \in 0 .. n /\ i # 0
    BY <1>1
  <2> QED BY <1>7, <2>1
<1> QED BY <1>3, <1>10, <1>11, <1>12 DEF P, Filling, n

LEMMA FilledKept ==
  ASSUME NEW exp \in Seq(Tok), NEW kvMap \in Bindings, NEW keys \in Seq(DOMAIN kvMap)
  PROVE  /\ Filled(exp, kvMap, keys) \in Seq(Tok)
         /\ Bare(kvMap) => AllKept(exp, Filled(exp, kvMap, keys))
<1> DEFINE n == Len(keys)
<1>1. n \in 0 .. n
  OBVIOUS
<1> HIDE DEF n
<1> QED BY <1>1, FillsAlong DEF n

\* Each function keeps its mark, when no key is the mark and nothing makes up a function.
LEMMA FilledDeep ==
  ASSUME NEW exp \in Seq(Clean), NEW d, Deep(exp, d),
         NEW kvMap \in Bindings, Bare(kvMap), NEW keys \in Seq(DOMAIN kvMap)
  PROVE  Filled(exp, kvMap, keys) \in Seq(Tok) /\ Deep(Filled(exp, kvMap, keys), d)
<1> DEFINE m == Len(exp)
           f == Filled(exp, kvMap, keys)
<1>1. f \in Seq(Tok) /\ AllKept(exp, f)
  <2>1. exp \in Seq(Tok)
    BY TokenFacts, SeqMonotonic
  <2> QED BY <2>1, FilledKept
<1> HIDE DEF f
<1>2. m \in Nat /\ Len(f) = m /\ \A i \in 1 .. m : exp[i] \in Clean /\ Kept(exp[i], f[i])
  BY <1>1 DEF AllKept
<1>3. /\ d \in [0 .. m -> Nat] /\ d[0] = 0
      /\ \A i \in 1 .. m : d[i] + Closes(exp[i]) <= d[i - 1] + Opens(exp[i])
  BY DEF Deep
<1> HIDE DEF m
<1>4. ASSUME NEW i \in 1 .. m PROVE d[i] + Closes(f[i]) <= d[i - 1] + Opens(f[i])
  <2>1. i \in 0 .. m /\ i - 1 \in 0 .. m
    BY <1>2
  <2>2. d[i] \in Nat /\ d[i - 1] \in Nat
    BY <1>3, <2>1
  <2>3. isFN(f[i]) => isFN(exp[i])
    BY <1>2, NoFunction DEF Kept, Clean
  <2>4. exp[i] = separator => f[i] = separator
    BY <1>2 DEF Kept
  <2>5. Closes(f[i]) <= Closes(exp[i]) /\ Opens(f[i]) >= Opens(exp[i])
    BY <2>3, <2>4 DEF Closes, Opens
  <2>6. /\ Closes(f[i]) \in {0, 1} /\ Closes(exp[i]) \in {0, 1}
        /\ Opens(f[i]) \in {0, 1} /\ Opens(exp[i]) \in {0, 1}
    BY TokenFacts
  <2>7. d[i] + Closes(exp[i]) <= d[i - 1] + Opens(exp[i])
    BY <1>3
  <2> QED BY <2>2, <2>5, <2>6, <2>7
<1>5. Deep(f, d)
  BY <1>1, <1>2, <1>3, <1>4 DEF Deep
<1> QED BY <1>1, <1>5 DEF f

\* Each key comes.
LEMMA KeysCome ==
  ASSUME NEW kvMap \in Bindings, NEW keys \in SetToSeqs(DOMAIN kvMap)
  PROVE  /\ keys \in Seq(DOMAIN kvMap)
         /\ \A k \in DOMAIN kvMap : \E i \in 1 .. Len(keys) : keys[i] = k
<1> DEFINE S == DOMAIN kvMap
           c == Cardinality(S)
<1>1. IsFiniteSet(S) /\ c \in Nat
  BY BindingsAssumption, FS_CardinalityType
<1>2. keys \in [1 .. c -> S] /\ \A i, j \in 1 .. c : i # j => keys[i] # keys[j]
  BY DEF SetToSeqs
<1> HIDE DEF S
<1>3. keys \in Injection(1 .. c, S)
  BY <1>2 DEF Injection, IsInjective
<1>4. Cardinality(1 .. c) = c
  <2> HIDE DEF c
  <2>1. 1 \in Int /\ c \in Int /\ (1 > c => c = 0)
    BY <1>1
  <2>2. Cardinality(1 .. c) = IF 1 > c THEN 0 ELSE c - 1 + 1
    BY <2>1, FS_Interval
  <2> QED BY <1>1, <2>1, <2>2
<1>5. keys \in Surjection(1 .. c, S)
  BY <1>1, <1>3, <1>4, FS_Injection
<1>6. keys \in Seq(S) /\ Len(keys) = c
  <2> HIDE DEF c
  <2> QED BY <1>1, <1>2
<1>7. \A k \in S : \E i \in 1 .. c : keys[i] = k
  BY <1>5 DEF Surjection
<1> QED BY <1>6, <1>7 DEF S

\* What goes in where, when keys and values are apart: the value for a token that is a key.
Put(kvMap, t) == IF t \in DOMAIN kvMap THEN kvMap[t] ELSE t

\* Filling the values in one after the other, each over what the text has become, in
\* whatever order a map is iterated, is filling all of them in at once, when no key gets
\* into another text or a value (Calc of base_formula.go).
THEOREM FilledAtOnce ==
  ASSUME NEW exp \in Seq(Tok), NEW kvMap \in Bindings,
         Apart(ToSet(exp), kvMap), NEW keys \in SetToSeqs(DOMAIN kvMap)
  PROVE  Filled(exp, kvMap, keys) = [j \in DOMAIN exp |-> Put(kvMap, exp[j])]
<1> DEFINE n == Len(keys)
           D == DOMAIN kvMap
<1>1. keys \in Seq(D) /\ \A k \in D : \E i \in 1 .. n : keys[i] = k
  BY KeysCome
<1>2. n \in Nat /\ \A i \in 1 .. n : keys[i] \in D
  BY <1>1
<1>3. PICK filled :
        /\ filled[0] = exp
        /\ \A i \in 0 .. n :
             filled[i] \in Seq(Tok) /\ (Bare(kvMap) => AllKept(exp, filled[i]))
        /\ \A i \in 1 .. n : filled[i] = Fill(filled[i - 1], keys[i], kvMap[keys[i]])
        /\ Filled(exp, kvMap, keys) = filled[n]
  BY <1>1, FillsAlong
<1>4. \A k \in D : /\ \A j \in D : ~Within(k, kvMap[j])
                  /\ \A j \in DOMAIN exp : exp[j] # k => ~Within(k, exp[j])
  BY DEF Apart, ToSet
<1> HIDE DEF n, D
<1> DEFINE Came(i) == {keys[a] : a \in 1 .. i}
           Now(i, t) == IF t \in Came(i) THEN kvMap[t] ELSE t
           S == {i \in 0 .. n : filled[i] = [j \in DOMAIN exp |-> Now(i, exp[j])]}
<1>5. 0 \in S
  <2>1. Came(0) = {}
    OBVIOUS
  <2>2. \A j \in DOMAIN exp : Now(0, exp[j]) = exp[j]
    BY <2>1
  <2>3. exp = [j \in DOMAIN exp |-> exp[j]]
    OBVIOUS
  <2> HIDE DEF Now
  <2> QED BY <1>2, <1>3, <2>2, <2>3
<1>6. ASSUME NEW i \in 1 .. n, i - 1 \in S PROVE i \in S
  <2> DEFINE k == keys[i]
             v == kvMap[k]
  <2>1. k \in D /\ i \in 0 .. n /\ Came(i) = Came(i - 1) \union {k} /\ Came(i) \subseteq D
    <3>1. i \in 0 .. n /\ 1 .. i = (1 .. i - 1) \union {i} /\ \A a \in 1 .. i : a \in 1 .. n
      BY <1>2
    <3> QED BY <1>2, <3>1
  <2>2. k \in Tok /\ k # <<>> /\ v \in Tok
    <3> HIDE DEF k
    <3> QED BY <2>1, BindingFacts DEF D
  <2>3. /\ DOMAIN filled[i - 1] = DOMAIN exp
        /\ \A j \in DOMAIN exp : filled[i - 1][j] = Now(i - 1, exp[j])
    BY <1>6
  <2>4. filled[i] = [j \in DOMAIN exp |-> Replace(Now(i - 1, exp[j]), k, v)]
    <3> HIDE DEF Now
    <3> QED BY <1>3, <2>3 DEF Fill
  <2>5. ASSUME NEW j \in DOMAIN exp PROVE Replace(Now(i - 1, exp[j]), k, v) = Now(i, exp[j])
    <3> DEFINE t == exp[j]
    <3>1. t \in Tok
      OBVIOUS
    <3>2. t # k => ~Within(k, t)
      BY <1>4, <2>1
    <3> HIDE DEF k, v, t
    <3>3. CASE t \in Came(i - 1)
      <4>1. Now(i - 1, t) = kvMap[t] /\ Now(i, t) = kvMap[t] /\ t \in D
        BY <2>1, <3>3
      <4>2. ~Within(k, kvMap[t]) /\ kvMap[t] \in Tok
        <5>1. kvMap[t] \in Tok
          BY <4>1, BindingFacts DEF D
        <5> QED BY <1>4, <2>1, <4>1, <5>1
      <4> HIDE DEF Now
      <4> QED BY <2>2, <4>1, <4>2, ReplaceApart DEF t
    <3>4. CASE t \notin Came(i - 1) /\ t = k
      <4>1. Now(i - 1, t) = k /\ Now(i, t) = v /\ k \in Tok
        BY <2>1, <3>1, <3>4 DEF v
      <4> HIDE DEF Now
      <4> QED BY <2>2, <4>1, ReplaceWhole DEF t
    <3>5. CASE t \notin Came(i - 1) /\ t # k
      <4>1. Now(i - 1, t) = t /\ Now(i, t) = t
        BY <2>1, <3>5
      <4> HIDE DEF Now
      <4> QED BY <2>2, <3>1, <3>2, <3>5, <4>1, ReplaceApart DEF t
    <3> QED BY <3>3, <3>4, <3>5
  <2>6. filled[i] = [j \in DOMAIN exp |-> Now(i, exp[j])]
    <3> HIDE DEF Now, k, v
    <3> QED BY <2>4, <2>5
  <2> QED BY <2>1, <2>6
<1>7. filled[n] = [j \in DOMAIN exp |-> Now(n, exp[j])]
  <2>1. \A i \in S : filled[i] = [j \in DOMAIN exp |-> Now(i, exp[j])]
    OBVIOUS
  <2> HIDE DEF S, Now
  <2>2. \A i \in 0 .. n : i \in S
    BY <1>2, <1>5, <1>6, Along
  <2>3. n \in 0 .. n
    BY <1>2
  <2> QED BY <2>1, <2>2, <2>3
<1>8. \A t : t \in Came(n) <=> t \in D
  <2>1. \A k \in D : \E i \in 1 .. n : keys[i] = k
    BY <1>1 DEF n
  <2> QED BY <1>2, <2>1
<1>9. \A j \in DOMAIN exp : Now(n, exp[j]) = Put(kvMap, exp[j])
  BY <1>8 DEF Put, D
<1> HIDE DEF Now
<1> QED BY <1>3, <1>7, <1>9

-----------------------------------------------------------------------------
(* Run. *)

\* There are m marks on the stack, at the places that g names, or more.
HasMarks(s, m) ==
  \E g \in [1 .. m -> DOMAIN s] :
    /\ \A j \in 1 .. m : s[g[j]] = separator
    /\ \A i, j \in 1 .. m : i < j => g[i] < g[j]

RunState(m) == {x \in [s : Seq(Tok), loops : {FALSE}] : HasMarks(x.s, m)}

LEMMA MarksPush ==
  ASSUME NEW s \in Seq(Tok), NEW m \in Nat, HasMarks(s, m), NEW t \in Tok
  PROVE  HasMarks(Append(s, t), m) /\ (t = separator => HasMarks(Append(s, t), m + 1))
<1> DEFINE n == Len(s)
           r == Append(s, t)
<1>1. PICK g \in [1 .. m -> DOMAIN s] : /\ \A j \in 1 .. m : s[g[j]] = separator
                                        /\ \A i, j \in 1 .. m : i < j => g[i] < g[j]
  BY DEF HasMarks
<1>2. /\ n \in Nat /\ DOMAIN s = 1 .. n /\ DOMAIN r = 1 .. n + 1
      /\ r[n + 1] = t /\ \A i \in 1 .. n : r[i] = s[i]
  BY Appending
<1> HIDE DEF n, r
<1>3. \A j \in 1 .. m : g[j] \in 1 .. n /\ r[g[j]] = separator
  BY <1>1, <1>2
<1>4. HasMarks(r, m)
  <2>1. g \in [1 .. m -> DOMAIN r]
    BY <1>1, <1>2
  <2> QED BY <1>1, <1>3, <2>1 DEF HasMarks
<1>5. ASSUME t = separator PROVE HasMarks(r, m + 1)
  <2> DEFINE h == [j \in 1 .. m + 1 |-> IF j = m + 1 THEN n + 1 ELSE g[j]]
  <2>1. /\ h[m + 1] = n + 1 /\ \A j \in 1 .. m : h[j] = g[j]
        /\ h = [j \in 1 .. m + 1 |-> h[j]]
    OBVIOUS
  <2> HIDE DEF h
  <2>2. ASSUME NEW j \in 1 .. m + 1 PROVE h[j] \in 1 .. n + 1 /\ r[h[j]] = separator
    <3>1. CASE j = m + 1
      BY <1>2, <1>5, <2>1, <3>1
    <3>2. CASE j \in 1 .. m
      <4>1. g[j] \in 1 .. n + 1
        BY <1>2, <1>3, <3>2
      <4> QED BY <1>3, <2>1, <3>2, <4>1
    <3> QED BY <3>1, <3>2
  <2>3. ASSUME NEW i \in 1 .. m + 1, NEW j \in 1 .. m + 1, i < j PROVE h[i] < h[j]
    <3>1. i \in 1 .. m
      BY <2>3
    <3>4. h[i] = g[i] /\ g[i] \in 1 .. n
      BY <1>3, <2>1, <3>1
    <3>2. CASE j = m + 1
      BY <1>2, <2>1, <3>4, <3>2
    <3>3. CASE j \in 1 .. m
      BY <1>1, <2>1, <2>3, <3>1, <3>4, <3>3
    <3> QED BY <3>2, <3>3
  <2>4. h \in [1 .. m + 1 -> DOMAIN r]
    BY <1>2, <2>1, <2>2
  <2> QED BY <2>2, <2>3, <2>4 DEF HasMarks
<1> QED BY <1>4, <1>5 DEF r

LEMMA MarksLess ==
  ASSUME NEW s \in Seq(Tok), NEW m \in Nat, HasMarks(s, m), NEW k \in 0 .. m
  PROVE  HasMarks(s, k)
<1>1. PICK g \in [1 .. m -> DOMAIN s] : /\ \A j \in 1 .. m : s[g[j]] = separator
                                        /\ \A i, j \in 1 .. m : i < j => g[i] < g[j]
  BY DEF HasMarks
<1> DEFINE h == [j \in 1 .. k |-> g[j]]
<1>2. \A j \in 1 .. k : j \in 1 .. m /\ h[j] = g[j]
  OBVIOUS
<1>3. h \in [1 .. k -> DOMAIN s]
  BY <1>2
<1> HIDE DEF h
<1>4. \A j \in 1 .. k : s[h[j]] = separator
  BY <1>1, <1>2
<1>5. \A i, j \in 1 .. k : i < j => h[i] < h[j]
  BY <1>1, <1>2
<1> QED BY <1>3, <1>4, <1>5 DEF HasMarks

\* A function finds a mark, and leaves the marks below it.
LEMMA MarksBelow ==
  ASSUME NEW s \in Seq(Tok), NEW m \in Nat, HasMarks(s, m + 1)
  PROVE  /\ Marks(s) # {}
         /\ SubSeq(s, 1, Max(Marks(s)) - 1) \in Seq(Tok)
         /\ HasMarks(SubSeq(s, 1, Max(Marks(s)) - 1), m)
<1> DEFINE n == Len(s)
           p == Max(Marks(s))
           r == SubSeq(s, 1, p - 1)
<1>1. PICK g \in [1 .. m + 1 -> DOMAIN s] :
        /\ \A j \in 1 .. m + 1 : s[g[j]] = separator
        /\ \A i, j \in 1 .. m + 1 : i < j => g[i] < g[j]
  BY DEF HasMarks
<1>2. n \in Nat /\ DOMAIN s = 1 .. n /\ Marks(s) \in SUBSET (1 .. n)
  BY DEF Marks
<1>3. \A j \in 1 .. m + 1 : g[j] \in Marks(s) /\ g[j] \in 1 .. n
  BY <1>1, <1>2 DEF Marks
<1>4. m + 1 \in 1 .. m + 1 /\ \A j \in 1 .. m : j \in 1 .. m + 1 /\ j < m + 1
  OBVIOUS
<1>5. Marks(s) # {}
  BY <1>3, <1>4
<1> HIDE DEF n
<1>6. p \in Marks(s) /\ \A y \in Marks(s) : y <= p
  BY <1>2, <1>5, GreatestExists
<1> HIDE DEF p
<1>7. p \in 1 .. n /\ p - 1 \in 0 .. n
  BY <1>2, <1>6
<1>8. r \in Seq(Tok) /\ Len(r) = p - 1 /\ \A i \in 1 .. p - 1 : r[i] = s[i]
  BY <1>7, UpTo DEF n
<1> HIDE DEF r
<1>9. DOMAIN r = 1 .. p - 1
  BY <1>8
<1>10. ASSUME NEW j \in 1 .. m PROVE g[j] \in 1 .. p - 1
  <2>1. g[j] < g[m + 1]
    BY <1>1, <1>4
  <2>2. g[m + 1] <= p /\ g[m + 1] \in 1 .. n /\ g[j] \in 1 .. n
    BY <1>3, <1>4, <1>6
  <2> QED BY <1>7, <2>1, <2>2
<1> DEFINE h == [j \in 1 .. m |-> g[j]]
<1>11. \A j \in 1 .. m : h[j] = g[j]
  OBVIOUS
<1>12. h \in [1 .. m -> DOMAIN r]
  BY <1>9, <1>10
<1> HIDE DEF h
<1>13. \A j \in 1 .. m : r[h[j]] = separator
  BY <1>1, <1>4, <1>8, <1>10, <1>11
<1>14. \A i, j \in 1 .. m : i < j => h[i] < h[j]
  BY <1>1, <1>4, <1>11
<1>15. HasMarks(r, m)
  BY <1>12, <1>13, <1>14 DEF HasMarks
<1> QED BY <1>5, <1>8, <1>15 DEF r, p

\* One token, from a stack with m marks to one with k.
LEMMA StepMarks ==
  ASSUME NEW m \in Nat, NEW x \in RunState(m), NEW t \in Tok, NEW k \in Nat,
         k + Closes(t) <= m + Opens(t)
  PROVE  Step(x, t) \in RunState(k)
<1> DEFINE s == x.s
<1>1. x = [s |-> s, loops |-> FALSE] /\ s \in Seq(Tok) /\ HasMarks(s, m) /\ ~x.loops /\ x.s = s
  BY DEF RunState
<1> HIDE DEF s
<1>2. \A q \in Seq(Tok) : HasMarks(q, k) => [x EXCEPT !.s = q] \in RunState(k)
  <2> TAKE q \in Seq(Tok)
  <2>1. ASSUME NEW l, x = [s |-> s, loops |-> l]
        PROVE  [x EXCEPT !.s = q] = [s |-> q, loops |-> l]
    BY <2>1
  <2>2. [x EXCEPT !.s = q] = [s |-> q, loops |-> FALSE]
    BY <1>1, <2>1
  <2> QED BY <2>2 DEF RunState
<1>3. CASE isFN(t)
  <2> DEFINE low == SubSeq(s, 1, Max(Marks(s)) - 1)
             b == Bool(Apply(t, reverseArgs(s)))
             q == Append(low, b)
  <2>1. m - 1 \in Nat /\ k \in 0 .. m - 1
    <3>1. Opens(t) = 0 /\ Closes(t) = 1
      BY <1>3, TokenFacts
    <3> QED BY <3>1
  <2>2. /\ Marks(s) # {} /\ low \in Seq(Tok) /\ HasMarks(low, m - 1)
    <3>1. HasMarks(s, (m - 1) + 1)
      <4>1. (m - 1) + 1 = m
        BY <2>1
      <4> QED BY <1>1, <4>1
    <3> QED BY <1>1, <2>1, <3>1, MarksBelow
  <2>3. b \in Tok
    BY TruthFacts
  <2>4. Step(x, t) = [x EXCEPT !.s = q]
    BY <1>1, <1>3, <2>2 DEF Step, Push
  <2> HIDE DEF low, b
  <2>5. HasMarks(low, k)
    BY <2>1, <2>2, MarksLess
  <2>6. q \in Seq(Tok) /\ HasMarks(q, k)
    BY <2>1, <2>2, <2>3, <2>5, MarksPush, Appending
  <2> HIDE DEF q
  <2> QED BY <1>2, <2>4, <2>6
<1>4. CASE ~isFN(t)
  <2> DEFINE q == Append(s, t)
  <2>1. Step(x, t) = [x EXCEPT !.s = q]
    BY <1>1, <1>4 DEF Step, Push
  <2>2. q \in Seq(Tok) /\ HasMarks(q, m) /\ (t = separator => HasMarks(q, m + 1))
    BY <1>1, MarksPush, Appending
  <2> HIDE DEF q
  <2>3. HasMarks(q, k)
    <3>1. Closes(t) = 0
      BY <1>4 DEF Closes
    <3>2. CASE t = separator
      <4>1. k \in 0 .. m + 1 /\ m + 1 \in Nat
        BY <3>1, <3>2, TokenFacts
      <4> QED BY <2>2, <3>2, <4>1, MarksLess
    <3>3. CASE t # separator
      <4>1. k \in 0 .. m
        BY <3>1, <3>3 DEF Opens
      <4> QED BY <2>2, <4>1, MarksLess
    <3> QED BY <3>2, <3>3
  <2> QED BY <1>2, <2>1, <2>2, <2>3
<1> QED BY <1>3, <1>4

\* A text in which each function has its mark is run to its end.
LEMMA RunEnds ==
  ASSUME NEW text \in Seq(Tok), NEW d, Deep(text, d)
  PROVE  ~Run(text).loops
<1> DEFINE n == Len(text)
           start == [s |-> <<>>, loops |-> FALSE]
           Is(f) == f = [i \in 0 .. n |-> IF i = 0 THEN start ELSE Step(f[i - 1], text[i])]
           run == CHOOSE f : Is(f)
           X == [i \in 0 .. n |-> RunState(d[i])]
           F == [i \in 1 .. n |-> [x \in X[i - 1] |-> Step(x, text[i])]]
<1>1. n \in Nat /\ \A i \in 1 .. n : text[i] \in Tok
  OBVIOUS
<1>2. /\ d \in [0 .. n -> Nat] /\ d[0] = 0
      /\ \A i \in 1 .. n : d[i] + Closes(text[i]) <= d[i - 1] + Opens(text[i])
  BY DEF Deep
<1>3. start \in RunState(0)
  <2>1. <<>> \in [1 .. 0 -> DOMAIN <<>>] /\ 1 .. 0 = {}
    OBVIOUS
  <2>2. HasMarks(<<>>, 0)
    BY <2>1 DEF HasMarks
  <2> QED BY <2>2 DEF RunState
<1>4. Run(text) = run[n]
  BY DEF Run
<1> HIDE DEF n, start
<1>5. ASSUME NEW i \in 1 .. n, NEW x \in RunState(d[i - 1]) PROVE Step(x, text[i]) \in RunState(d[i])
  <2>1. i \in 0 .. n /\ i - 1 \in 0 .. n
    BY <1>1
  <2>2. d[i] \in Nat /\ d[i - 1] \in Nat
    BY <1>2, <2>1
  <2> QED BY <1>1, <1>2, <2>2, StepMarks
<1>6. \A i \in 0 .. n : X[i] = RunState(d[i])
  OBVIOUS
<1>7. \A i \in 1 .. n : i \in 0 .. n /\ i - 1 \in 0 .. n
  BY <1>1
<1> HIDE DEF X
<1>8. PICK g : Is(g)
  <2>1. Leads(F, X, n)
    <3> SUFFICES ASSUME NEW i \in 1 .. n, NEW x \in X[i - 1] PROVE F[i][x] \in X[i]
      BY DEF Leads
    <3>1. F[i][x] = Step(x, text[i])
      OBVIOUS
    <3> HIDE DEF F
    <3> QED BY <1>5, <1>6, <1>7, <3>1
  <2>2. start \in X[0]
    BY <1>1, <1>2, <1>3, <1>6
  <2> HIDE DEF F
  <2>3. PICK g : Follows(g, F, start, n) /\ \A i \in 0 .. n : g[i] \in X[i]
    BY <1>1, <2>1, <2>2, Recursion
  <2>4. ASSUME NEW i \in 0 .. n, i # 0 PROVE F[i][g[i - 1]] = Step(g[i - 1], text[i])
    <3>1. i \in 1 .. n /\ i - 1 \in 0 .. n
      BY <1>1, <2>4
    <3>2. g[i - 1] \in X[i - 1]
      BY <2>3, <3>1
    <3> QED BY <3>1, <3>2 DEF F
  <2>5. Is(g)
    BY <2>3, <2>4 DEF Follows
  <2> QED BY <2>5
<1>9. Is(run)
  <2> HIDE DEF Is
  <2> QED BY <1>8
<1> HIDE DEF run
<1>10. \A i \in 0 .. n : run[i] = IF i = 0 THEN start ELSE Step(run[i - 1], text[i])
  BY <1>9
<1> DEFINE S == {i \in 0 .. n : run[i] \in RunState(d[i])}
<1>11. 0 \in S
  BY <1>1, <1>2, <1>3, <1>10
<1>12. ASSUME NEW i \in 1 .. n, i - 1 \in S PROVE i \in S
  <2>1. i \in 0 .. n /\ i # 0 /\ run[i - 1] \in RunState(d[i - 1])
    BY <1>1, <1>12
  <2>2. run[i] = Step(run[i - 1], text[i])
    BY <1>10, <2>1
  <2> QED BY <1>5, <2>1, <2>2
<1>13. n \in S
  <2> HIDE DEF S
  <2>1. \A i \in 0 .. n : i \in S
    BY <1>1, <1>11, <1>12, Along
  <2> QED BY <1>1, <2>1
<1> QED BY <1>4, <1>13 DEF RunState

\* A formula is a sequence of such tokens.
LEMMA FormulaTokens == Formula \subseteq Seq(Tok)
<1> SUFFICES ASSUME NEW f \in Formula PROVE f \in Seq(Tok)
  OBVIOUS
<1>1. f \in Seq(Seq(STRING))
  BY FormulaAssumption
<1>2. STRING \subseteq Letter
  BY DEF Letter
<1>3. Seq(STRING) \subseteq Tok
  <2> HIDE DEF Letter
  <2> QED BY <1>2, SeqMonotonic DEF Tok
<1> QED BY <1>1, <1>3, SeqMonotonic

\* What can make up a function where there was none, or take a mark away.
Stray(exp, kvMap) ==
  \/ \E k \in DOMAIN kvMap : k = separator \/ HasAt(kvMap[k])
  \/ \E i \in DOMAIN exp : HasAt(exp[i]) /\ ~isFN(exp[i])

\* A formula that Parse comes back from is calculated to its end.
LEMMA CalculationEnds ==
  ASSUME NEW exp \in Seq(Tok), ~Parse(exp).loops,
         NEW kvMap \in Bindings, ~Stray(exp, kvMap), NEW keys \in SetToSeqs(DOMAIN kvMap)
  PROVE  ~Calculation(Parse(exp).rpn, kvMap, keys).loops
<1> DEFINE r == Parse(exp).rpn
           text == IF r = <<>> THEN <<NoText>> ELSE r
<1>1. r \in Seq(Clean) /\ \E d : Deep(r, d)
  <2>1. \A i \in DOMAIN exp : exp[i] \in Clean
    BY DEF Stray, Clean
  <2>2. exp \in Seq(Clean)
    BY <2>1
  <2> QED BY <2>2, ParseDeep DEF ParseState, Matched
<1> HIDE DEF r
<1>2. PICK d : Deep(r, d)
  BY <1>1
<1>3. text \in Seq(Clean) /\ \E f : Deep(text, f)
  <2>1. CASE r # <<>>
    BY <1>1, <1>2, <2>1
  <2>2. CASE r = <<>>
    <3>1. d[Len(r)] \in Nat /\ NoText \in Clean /\ Closes(NoText) = 0 /\ Opens(NoText) \in {0, 1}
      BY <1>1, <1>2, EndsAreNumbers, TokenFacts
    <3>2. d[Len(r)] + Closes(NoText) <= d[Len(r)] + Opens(NoText)
      BY <3>1
    <3>3. PICK f : Deep(Append(r, NoText), f)
      BY <1>1, <1>2, <3>1, <3>2, DeepAppend
    <3>4. Append(r, NoText) = text /\ text \in Seq(Clean)
      BY <2>2, <3>1
    <3> QED BY <3>3, <3>4
  <2> QED BY <2>1, <2>2
<1>4. keys \in Seq(DOMAIN kvMap)
  <2>1. keys \in [1 .. Cardinality(DOMAIN kvMap) -> DOMAIN kvMap]
    BY DEF SetToSeqs
  <2>2. Cardinality(DOMAIN kvMap) \in Nat
    BY BindingsAssumption, FS_CardinalityType
  <2> QED BY <2>1, <2>2
<1>5. Calculation(r, kvMap, keys) = Run(Filled(text, kvMap, keys))
  BY DEF Calculation
<1> HIDE DEF text
<1>6. PICK f : Deep(text, f)
  BY <1>3
<1>7. Filled(text, kvMap, keys) \in Seq(Tok) /\ Deep(Filled(text, kvMap, keys), f)
  <2>1. Bare(kvMap)
    BY DEF Stray, Bare
  <2> QED BY <1>3, <1>4, <1>6, <2>1, FilledDeep
<1>8. ~Run(Filled(text, kvMap, keys)).loops
  BY <1>7, RunEnds
<1> QED BY <1>5, <1>8 DEF r

-----------------------------------------------------------------------------
(* Ways through a text. *)

\* R holds steps <<x, t, y>>, from x to y by token t: all of the text goes from x to y.
Through(R, x, text, y) ==
  \E g : /\ g[0] = x /\ g[Len(text)] = y
         /\ \A i \in 1 .. Len(text) : <<g[i - 1], text[i], g[i]>> \in R

ParseX == [rpn : Seq(Tok), s : Seq(Tok), loops : BOOLEAN]
ParseR == {q \in ParseX \X Tok \X ParseX : q[3] = Token(q[1], q[2])}

\* Of a text whose keys are filled in.
RunX == [s : Seq(Tok), loops : BOOLEAN]
RunR(kvMap) == {q \in RunX \X Tok \X RunX : q[3] = Step(q[1], Put(kvMap, q[2]))}

LEMMA ThroughNone == \A R, x : Through(R, x, <<>>, x)
<1> SUFFICES ASSUME NEW R, NEW x PROVE Through(R, x, <<>>, x)
  OBVIOUS
<1> DEFINE g == [i \in {0} |-> x]
<1>1. g[0] = x /\ g[Len(<<>>)] = x /\ 1 .. Len(<<>>) = {}
  OBVIOUS
<1> HIDE DEF g
<1> QED BY <1>1 DEF Through

LEMMA ThroughOne ==
  ASSUME NEW R, NEW x, NEW t, NEW y, <<x, t, y>> \in R
  PROVE  Through(R, x, <<t>>, y)
<1> DEFINE g == [i \in {0, 1} |-> IF i = 0 THEN x ELSE y]
<1>1. g[0] = x /\ g[1] = y
  OBVIOUS
<1> HIDE DEF g
<1>2. Len(<<t>>) = 1 /\ <<t>>[1] = t
  OBVIOUS
<1>3. \A i \in 1 .. 1 : <<g[i - 1], <<t>>[i], g[i]>> \in R
  <2> TAKE i \in 1 .. 1
  <2>1. i = 1 /\ i - 1 = 0
    OBVIOUS
  <2> QED BY <1>1, <1>2, <2>1
<1> QED BY <1>1, <1>2, <1>3 DEF Through

\* One text after the other.
LEMMA ThroughBoth ==
  ASSUME NEW T, NEW u \in Seq(T), NEW w \in Seq(T), NEW R, NEW x, NEW y, NEW z,
         Through(R, x, u, y), Through(R, y, w, z)
  PROVE  Through(R, x, u \o w, z)
<1> DEFINE n == Len(u)
           m == Len(w)
           c == u \o w
<1>1. PICK g : /\ g[0] = x /\ g[n] = y
               /\ \A i \in 1 .. n : <<g[i - 1], u[i], g[i]>> \in R
  BY DEF Through
<1>2. PICK h : /\ h[0] = y /\ h[m] = z
               /\ \A i \in 1 .. m : <<h[i - 1], w[i], h[i]>> \in R
  BY DEF Through
<1>3. /\ n \in Nat /\ m \in Nat /\ Len(c) = n + m
      /\ \A i \in 1 .. n : c[i] = u[i]
      /\ \A i \in 1 .. m : c[n + i] = w[i]
  OBVIOUS
<1> HIDE DEF n, m, c
<1> DEFINE f == [i \in 0 .. n + m |-> IF i <= n THEN g[i] ELSE h[i - n]]
<1>4. /\ \A i \in 0 .. n : f[i] = g[i]
      /\ \A i \in 0 .. m : f[n + i] = h[i]
  <2>1. \A i \in 0 .. n : f[i] = g[i]
    BY <1>3
  <2>2. ASSUME NEW i \in 0 .. m PROVE f[n + i] = h[i]
    <3>1. n + i \in 0 .. n + m /\ (n + i) - n = i /\ (n + i <= n <=> i = 0)
      BY <1>3
    <3>2. n + 0 = n
      BY <1>3
    <3> QED BY <1>1, <1>2, <3>1, <3>2
  <2> QED BY <2>1, <2>2
<1> HIDE DEF f
<1>5. f[0] = x /\ f[n + m] = z
  <2>1. 0 \in 0 .. n /\ m \in 0 .. m
    BY <1>3
  <2> QED BY <1>1, <1>2, <1>4, <2>1
<1>6. ASSUME NEW i \in 1 .. n + m PROVE <<f[i - 1], c[i], f[i]>> \in R
  <2>1. CASE i \in 1 .. n
    <3>1. i \in 0 .. n /\ i - 1 \in 0 .. n
      BY <1>3, <2>1
    <3> QED BY <1>1, <1>3, <1>4, <2>1, <3>1
  <2>2. CASE i \notin 1 .. n
    <3> DEFINE j == i - n
    <3>1. j \in 1 .. m /\ j \in 0 .. m /\ j - 1 \in 0 .. m /\ i = n + j /\ i - 1 = n + (j - 1)
      BY <1>3, <2>2
    <3> HIDE DEF j
    <3>2. f[i] = h[j] /\ f[i - 1] = h[j - 1] /\ c[i] = w[j]
      BY <1>3, <1>4, <3>1
    <3> QED BY <1>2, <3>1, <3>2
  <2> QED BY <2>1, <2>2
<1> QED BY <1>3, <1>5, <1>6 DEF Through, c

\* Where Parse comes to.
LEMMA IsParsed ==
  ASSUME NEW text \in Seq(Tok), NEW y,
         Through(ParseR, [rpn |-> <<>>, s |-> <<>>, loops |-> FALSE], text, y)
  PROVE  Parse(text) = y
<1> DEFINE n == Len(text)
           start == [rpn |-> <<>>, s |-> <<>>, loops |-> FALSE]
           Is(f) == f = [i \in 0 .. n |-> IF i = 0 THEN start ELSE Token(f[i - 1], text[i])]
           parsed == CHOOSE f : Is(f)
<1>1. PICK g : /\ g[0] = start /\ g[n] = y
               /\ \A i \in 1 .. n : <<g[i - 1], text[i], g[i]>> \in ParseR
  BY DEF Through
<1>2. n \in Nat
  OBVIOUS
<1>3. Parse(text) = parsed[n]
  BY DEF Parse
<1> HIDE DEF n, start
<1>4. \A i \in 1 .. n : g[i] = Token(g[i - 1], text[i])
  <2> TAKE i \in 1 .. n
  <2>1. <<g[i - 1], text[i], g[i]>> \in ParseR
    BY <1>1
  <2> QED BY <2>1 DEF ParseR
<1> DEFINE h == [i \in 0 .. n |-> g[i]]
<1>5. Is(h)
  <2>1. \A i \in 0 .. n : h[i] = g[i]
    OBVIOUS
  <2>2. h = [i \in 0 .. n |-> h[i]]
    OBVIOUS
  <2> HIDE DEF h
  <2>3. ASSUME NEW i \in 0 .. n PROVE h[i] = IF i = 0 THEN start ELSE Token(h[i - 1], text[i])
    <3>1. i = 0 \/ (i \in 1 .. n /\ i - 1 \in 0 .. n)
      BY <1>2
    <3> QED BY <1>1, <1>4, <2>1, <3>1
  <2> QED BY <2>2, <2>3
<1>6. Is(parsed)
  <2> HIDE DEF Is
  <2> QED BY <1>5
<1> HIDE DEF parsed
<1>7. \A i \in 0 .. n : parsed[i] = IF i = 0 THEN start ELSE Token(parsed[i - 1], text[i])
  BY <1>6
<1> DEFINE S == {i \in 0 .. n : parsed[i] = g[i]}
<1>8. 0 \in S
  BY <1>1, <1>2, <1>7
<1>9. ASSUME NEW i \in 1 .. n, i - 1 \in S PROVE i \in S
  <2>1. i \in 0 .. n /\ i # 0
    BY <1>2
  <2> QED BY <1>4, <1>7, <1>9, <2>1
<1>10. n \in S
  <2> HIDE DEF S
  <2>1. \A i \in 0 .. n : i \in S
    BY <1>2, <1>8, <1>9, Along
  <2>2. n \in 0 .. n
    BY <1>2
  <2> QED BY <2>1, <2>2
<1> QED BY <1>1, <1>3, <1>10

\* Where the run of a text comes to.
LEMMA IsRun ==
  ASSUME NEW text \in Seq(Tok), NEW kvMap, NEW y,
         Through(RunR(kvMap), [s |-> <<>>, loops |-> FALSE], text, y)
  PROVE  Run([j \in DOMAIN text |-> Put(kvMap, text[j])]) = y
<1> DEFINE n == Len(text)
           put == [j \in DOMAIN text |-> Put(kvMap, text[j])]
           start == [s |-> <<>>, loops |-> FALSE]
           Is(f) == f = [i \in 0 .. n |-> IF i = 0 THEN start ELSE Step(f[i - 1], put[i])]
           run == CHOOSE f : Is(f)
<1>1. PICK g : /\ g[0] = start /\ g[n] = y
               /\ \A i \in 1 .. n : <<g[i - 1], text[i], g[i]>> \in RunR(kvMap)
  BY DEF Through
<1>2. n \in Nat /\ DOMAIN text = 1 .. n
  OBVIOUS
<1>3. Len(put) = n /\ \A i \in 1 .. n : put[i] = Put(kvMap, text[i])
  <2>1. put = [j \in 1 .. n |-> Put(kvMap, text[j])]
    BY <1>2
  <2> HIDE DEF put, n
  <2> QED BY <1>2, <2>1
<1> HIDE DEF put
<1>4. Run(put) = run[n]
  BY <1>3 DEF Run
<1> HIDE DEF n, start
<1>5. \A i \in 1 .. n : g[i] = Step(g[i - 1], put[i])
  <2> TAKE i \in 1 .. n
  <2>1. <<g[i - 1], text[i], g[i]>> \in RunR(kvMap)
    BY <1>1
  <2>2. g[i] = Step(g[i - 1], Put(kvMap, text[i]))
    BY <2>1 DEF RunR
  <2> QED BY <1>3, <2>2
<1> DEFINE h == [i \in 0 .. n |-> g[i]]
<1>6. Is(h)
  <2>1. \A i \in 0 .. n : h[i] = g[i]
    OBVIOUS
  <2>2. h = [i \in 0 .. n |-> h[i]]
    OBVIOUS
  <2> HIDE DEF h
  <2>3. ASSUME NEW i \in 0 .. n PROVE h[i] = IF i = 0 THEN start ELSE Step(h[i - 1], put[i])
    <3>1. i = 0 \/ (i \in 1 .. n /\ i - 1 \in 0 .. n)
      BY <1>2
    <3> QED BY <1>1, <1>5, <2>1, <3>1
  <2> QED BY <2>2, <2>3
<1>7. Is(run)
  <2> HIDE DEF Is
  <2> QED BY <1>6
<1> HIDE DEF run
<1>8. \A i \in 0 .. n : run[i] = IF i = 0 THEN start ELSE Step(run[i - 1], put[i])
  BY <1>7
<1> DEFINE S == {i \in 0 .. n : run[i] = g[i]}
<1>9. 0 \in S
  BY <1>1, <1>2, <1>8
<1>10. ASSUME NEW i \in 1 .. n, i - 1 \in S PROVE i \in S
  <2>1. i \in 0 .. n /\ i # 0
    BY <1>2
  <2> QED BY <1>5, <1>8, <1>10, <2>1
<1>11. n \in S
  <2> HIDE DEF S
  <2>1. \A i \in 0 .. n : i \in S
    BY <1>2, <1>9, <1>10, Along
  <2>2. n \in 0 .. n
    BY <1>2
  <2> QED BY <2>1, <2>2
<1> QED BY <1>1, <1>4, <1>11 DEF put

-----------------------------------------------------------------------------
(* Trees. *)

\* What holds of a tree when it holds of its arguments holds of all trees.
LEMMA TreeInduction ==
  ASSUME NEW S, \A f \in Tree : (\A i \in DOMAIN f.args : f.args[i] \in S) => f \in S
  PROVE  Tree \subseteq S
<1> DEFINE out == {f \in Tree : f \notin S}
           hs == {Height[f] : f \in out}
<1>1. SUFFICES ASSUME out # {} PROVE FALSE
  OBVIOUS
<1>2. hs \in SUBSET Nat /\ hs # {}
  BY <1>1, TreeAssumption
<1>3. PICK h \in hs : \A k \in hs : h <= k
  <2> HIDE DEF hs
  <2> QED BY <1>2, LeastExists
<1>4. PICK f \in out : h = Height[f]
  BY <1>3
<1>5. PICK i \in DOMAIN f.args : f.args[i] \notin S
  BY <1>4
<1>6. f.args[i] \in Tree /\ Height[f.args[i]] < Height[f]
  BY <1>4, <1>5, TreeAssumption
<1>7. Height[f.args[i]] \in hs
  BY <1>5, <1>6
<1>8. h <= Height[f.args[i]] /\ h \in Nat /\ Height[f.args[i]] \in Nat
  BY <1>2, <1>3, <1>7
<1> QED BY <1>4, <1>6, <1>8

\* What F makes of the values that h has for the arguments of f.
Made(h, f, F) == F[<<f, [i \in DOMAIN f.args |-> h[f.args[i]]]>>]

\* A function that is recursive on trees exists.
LEMMA TreeRecursion ==
  ASSUME NEW V, V # {}, NEW F, \A f \in Tree, vs \in Seq(V) : F[<<f, vs>>] \in V
  PROVE  \E h \in [Tree -> V] : \A f \in Tree : h[f] = Made(h, f, F)
<1> DEFINE Works(h, n) == /\ h \in [Tree -> V]
                          /\ \A f \in Tree : Height[f] < n => h[f] = Made(h, f, F)
<1>1. \A h \in [Tree -> V], f \in Tree : Made(h, f, F) \in V
  <2> TAKE h \in [Tree -> V], f \in Tree
  <2>1. [i \in DOMAIN f.args |-> h[f.args[i]]] \in Seq(V)
    <3>1. f.args \in Seq(Tree)
      BY TreeAssumption
    <3> DEFINE m == Len(f.args)
    <3>2. m \in Nat /\ DOMAIN f.args = 1 .. m /\ \A i \in 1 .. m : f.args[i] \in Tree
      BY <3>1
    <3> HIDE DEF m
    <3>3. [i \in 1 .. m |-> h[f.args[i]]] \in [1 .. m -> V]
      BY <3>2
    <3> QED BY <3>2, <3>3
  <2> QED BY <2>1 DEF Made
<1>2. \A f \in Tree : Height[f] \in Nat
  BY TreeAssumption
<1>3. ASSUME NEW h, NEW g, NEW f \in Tree,
             \A i \in DOMAIN f.args : h[f.args[i]] = g[f.args[i]]
      PROVE  Made(h, f, F) = Made(g, f, F)
  <2>1. [i \in DOMAIN f.args |-> h[f.args[i]]] = [i \in DOMAIN f.args |-> g[f.args[i]]]
    BY <1>3
  <2> QED BY <2>1 DEF Made
<1>4. ASSUME NEW N \in Nat PROVE \E h : Works(h, N)
  <2> DEFINE S == {n \in 0 .. N : \E h : Works(h, n)}
  <2>1. 0 \in S
    <3>1. PICK v \in V : TRUE
      OBVIOUS
    <3> DEFINE h == [f \in Tree |-> v]
    <3>2. h \in [Tree -> V]
      OBVIOUS
    <3>3. \A f \in Tree : ~(Height[f] < 0)
      BY <1>2
    <3> HIDE DEF h
    <3>4. Works(h, 0)
      BY <3>2, <3>3
    <3> HIDE DEF Works
    <3> QED BY <3>4
  <2>2. ASSUME NEW n \in 1 .. N, n - 1 \in S PROVE n \in S
    <3>1. PICK h : Works(h, n - 1)
      <4> HIDE DEF Works
      <4> QED BY <2>2
    <3> DEFINE g == [f \in Tree |-> IF Height[f] = n - 1 THEN Made(h, f, F) ELSE h[f]]
    <3>2. g \in [Tree -> V] /\ \A f \in Tree : g[f] = IF Height[f] = n - 1 THEN Made(h, f, F) ELSE h[f]
      BY <1>1, <3>1
    <3> HIDE DEF g
    <3>3. ASSUME NEW f \in Tree, Height[f] < n PROVE g[f] = Made(g, f, F)
      <4>1. ASSUME NEW i \in DOMAIN f.args PROVE h[f.args[i]] = g[f.args[i]]
        <5>1. f.args[i] \in Tree /\ Height[f.args[i]] < Height[f]
          BY TreeAssumption
        <5>2. Height[f.args[i]] # n - 1
          BY <1>2, <3>3, <5>1
        <5> QED BY <3>2, <5>1, <5>2
      <4>2. Made(h, f, F) = Made(g, f, F)
        BY <1>3, <4>1
      <4>3. g[f] = Made(h, f, F)
        <5>1. CASE Height[f] = n - 1
          BY <3>2, <5>1
        <5>2. CASE Height[f] # n - 1
          <6>1. Height[f] < n - 1
            BY <1>2, <3>3, <5>2
          <6> QED BY <3>1, <3>2, <5>2, <6>1
        <5> QED BY <5>1, <5>2
      <4> QED BY <4>2, <4>3
    <3>4. Works(g, n)
      BY <3>2, <3>3
    <3>5. n \in 0 .. N
      OBVIOUS
    <3> HIDE DEF Works
    <3> QED BY <3>4, <3>5
  <2> HIDE DEF Works
  <2>3. N \in S
    <3> HIDE DEF S
    <3>1. \A n \in 0 .. N : n \in S
      BY <2>1, <2>2, Along
    <3> QED BY <3>1
  <2> QED BY <2>3
<1>5. ASSUME NEW h, NEW n \in Nat, Works(h, n), NEW g, NEW m \in Nat, Works(g, m)
      PROVE  \A f \in Tree : Height[f] < n /\ Height[f] < m => h[f] = g[f]
  <2> DEFINE S == {f \in Tree : Height[f] < n /\ Height[f] < m => h[f] = g[f]}
  <2>1. ASSUME NEW f \in Tree, \A i \in DOMAIN f.args : f.args[i] \in S PROVE f \in S
    <3>1. SUFFICES ASSUME Height[f] < n, Height[f] < m PROVE h[f] = g[f]
      OBVIOUS
    <3>2. ASSUME NEW i \in DOMAIN f.args PROVE h[f.args[i]] = g[f.args[i]]
      <4>1. f.args[i] \in Tree /\ Height[f.args[i]] < Height[f] /\ f.args[i] \in S
        BY <2>1, TreeAssumption
      <4>2. Height[f.args[i]] < n /\ Height[f.args[i]] < m
        BY <1>2, <3>1, <4>1
      <4> QED BY <4>1, <4>2
    <3>3. Made(h, f, F) = Made(g, f, F)
      BY <1>3, <3>2
    <3> QED BY <1>5, <3>1, <3>3
  <2>2. Tree \subseteq S
    <3> HIDE DEF S
    <3> QED BY <2>1, TreeInduction
  <2> QED BY <2>2
<1> DEFINE H(n) == CHOOSE h : Works(h, n)
           all == [f \in Tree |-> H(Height[f] + 1)[f]]
<1>6. \A n \in Nat : Works(H(n), n)
  <2> HIDE DEF Works
  <2> QED BY <1>4
<1>7. \A f \in Tree : Height[f] + 1 \in Nat /\ Height[f] < Height[f] + 1
  BY <1>2
<1> HIDE DEF H
<1>8. all \in [Tree -> V] /\ \A f \in Tree : all[f] = H(Height[f] + 1)[f]
  BY <1>6, <1>7
<1> HIDE DEF all
<1>9. ASSUME NEW f \in Tree PROVE all[f] = Made(all, f, F)
  <2> DEFINE h == H(Height[f] + 1)
  <2>1. h[f] = Made(h, f, F) /\ all[f] = h[f]
    BY <1>6, <1>7, <1>8
  <2>2. ASSUME NEW i \in DOMAIN f.args PROVE h[f.args[i]] = all[f.args[i]]
    <3> DEFINE a == f.args[i]
    <3>1. a \in Tree /\ Height[a] < Height[f]
      BY TreeAssumption
    <3> HIDE DEF a
    <3>2. Height[a] < Height[f] + 1 /\ Height[a] < Height[a] + 1
      BY <1>2, <3>1
    <3>3. Works(H(Height[a] + 1), Height[a] + 1) /\ Works(h, Height[f] + 1)
      <4> HIDE DEF Works
      <4> QED BY <1>6, <1>7, <3>1
    <3>4. h[a] = H(Height[a] + 1)[a]
      <4> HIDE DEF Works, h
      <4> QED BY <1>5, <1>7, <3>1, <3>2, <3>3
    <3> QED BY <1>8, <3>1, <3>4 DEF a
  <2> HIDE DEF h
  <2> QED BY <1>3, <2>1, <2>2
<1> QED BY <1>8, <1>9

\* Punctuation, functions and truth values are tokens.
LEMMA PunctuationFacts ==
  /\ leftParenthesis \in Tok /\ rightParenthesis \in Tok /\ comma \in Tok
  /\ ~isFN(leftParenthesis) /\ ~isFN(rightParenthesis) /\ ~isFN(comma)
  /\ leftParenthesis # rightParenthesis /\ leftParenthesis # comma /\ rightParenthesis # comma
  /\ \A t : isFN(t) => t \in Tok
  /\ \A b : Bool(b) \in Tok /\ Bool(b) # separator
<1>1. {"(", ")", ","} \subseteq Letter /\ "(" # "@" /\ ")" # "@" /\ "," # "@"
  BY DEF Letter
<1>2. /\ leftParenthesis \in Tok /\ rightParenthesis \in Tok /\ comma \in Tok
      /\ ~isFN(leftParenthesis) /\ ~isFN(rightParenthesis) /\ ~isFN(comma)
  BY <1>1, NoFunction, TokenFacts DEF leftParenthesis, rightParenthesis, comma
<1>3. leftParenthesis # rightParenthesis /\ leftParenthesis # comma /\ rightParenthesis # comma
  BY DEF leftParenthesis, rightParenthesis, comma
<1> QED BY <1>2, <1>3, FunctionFacts, TruthFacts

\* What Listed goes through.
LEMMA ListedAlong ==
  ASSUME NEW texts \in Seq(Seq(Tok))
  PROVE  \E listed : /\ listed[0] = <<>>
                     /\ \A n \in 0 .. Len(texts) : listed[n] \in Seq(Tok)
                     /\ \A n \in 1 .. Len(texts) :
                          listed[n] = IF n = 1 THEN texts[n]
                                      ELSE Append(listed[n - 1], comma) \o texts[n]
                     /\ Listed(texts) = listed[Len(texts)]
<1> DEFINE m == Len(texts)
           More(l, n) == IF n = 1 THEN texts[n] ELSE Append(l, comma) \o texts[n]
           Is(f) == f = [n \in 0 .. m |-> CASE n = 0 -> <<>>
                                            [] n = 1 -> texts[1]
                                            [] OTHER -> Append(f[n - 1], comma) \o texts[n]]
           listed == CHOOSE f : Is(f)
           P == Seq(Tok)
           X == [n \in 0 .. m |-> P]
           F == [n \in 1 .. m |-> [l \in P |-> More(l, n)]]
<1>1. m \in Nat /\ \A n \in 1 .. m : texts[n] \in P
  OBVIOUS
<1>2. Listed(texts) = listed[m]
  BY DEF Listed
<1>3. ASSUME NEW n \in 1 .. m, NEW l \in P PROVE More(l, n) \in P
  <2>1. Append(l, comma) \in Seq(Tok)
    BY PunctuationFacts, Appending
  <2>2. texts[n] \in Seq(Tok)
    BY <1>1
  <2>3. Append(l, comma) \o texts[n] \in Seq(Tok)
    BY <2>1, <2>2
  <2> QED BY <2>2, <2>3
<1>4. <<>> \in P
  OBVIOUS
<1>5. \A f : Is(f) <=> f = [n \in 0 .. m |-> IF n = 0 THEN <<>> ELSE More(f[n - 1], n)]
  <2> TAKE f
  <2>1. ASSUME NEW n \in 0 .. m
        PROVE  (CASE n = 0 -> <<>>
                  [] n = 1 -> texts[1]
                  [] OTHER -> Append(f[n - 1], comma) \o texts[n])
                 = IF n = 0 THEN <<>> ELSE More(f[n - 1], n)
    <3>1. CASE n = 0
      BY <3>1
    <3>2. CASE n = 1
      BY <3>2
    <3>3. CASE n # 0 /\ n # 1
      BY <3>3
    <3> QED BY <3>1, <3>2, <3>3
  <2> HIDE DEF More, m
  <2> QED BY <2>1
<1> HIDE DEF m, P, More, Is
<1>6. PICK g : Is(g)
  <2>1. Leads(F, X, m)
    <3> SUFFICES ASSUME NEW n \in 1 .. m, NEW l \in X[n - 1] PROVE F[n][l] \in X[n]
      BY DEF Leads
    <3>1. n \in 0 .. m /\ n - 1 \in 0 .. m
      BY <1>1
    <3>2. l \in P /\ X[n] = P
      BY <3>1
    <3> QED BY <1>3, <3>2
  <2>2. <<>> \in X[0]
    BY <1>1, <1>4
  <2> HIDE DEF X, F
  <2>3. PICK g : Follows(g, F, <<>>, m) /\ \A n \in 0 .. m : g[n] \in X[n]
    BY <1>1, <2>1, <2>2, Recursion
  <2>4. ASSUME NEW n \in 0 .. m, n # 0 PROVE F[n][g[n - 1]] = More(g[n - 1], n)
    <3>1. n \in 1 .. m /\ n - 1 \in 0 .. m
      BY <1>1, <2>4
    <3>2. g[n - 1] \in P
      BY <2>3, <3>1 DEF X
    <3> QED BY <3>1, <3>2 DEF F
  <2>5. Is(g)
    BY <1>5, <2>3, <2>4 DEF Follows
  <2> QED BY <2>5
<1>7. Is(listed)
  BY <1>6
<1> HIDE DEF listed
<1>8. \A n \in 0 .. m : listed[n] = IF n = 0 THEN <<>> ELSE More(listed[n - 1], n)
  BY <1>5, <1>7
<1> DEFINE S == {n \in 0 .. m : listed[n] \in P}
<1>9. 0 \in S
  <2>1. 0 \in 0 .. m
    BY <1>1
  <2>2. listed[0] = <<>>
    BY <1>8, <2>1
  <2> QED BY <1>4, <2>1, <2>2
<1>10. ASSUME NEW n \in 1 .. m, n - 1 \in S PROVE n \in S
  <2>1. n \in 0 .. m /\ n # 0 /\ listed[n - 1] \in P
    BY <1>1, <1>10
  <2> QED BY <1>3, <1>8, <2>1
<1>11. \A n \in 0 .. m : listed[n] \in P
  <2> HIDE DEF S
  <2>1. \A n \in 0 .. m : n \in S
    BY <1>1, <1>9, <1>10, Along
  <2> QED BY <2>1 DEF S
<1>12. listed[0] = <<>>
  BY <1>1, <1>8
<1>13. \A n \in 1 .. m : listed[n] = More(listed[n - 1], n)
  <2> TAKE n \in 1 .. m
  <2>1. n \in 0 .. m /\ n # 0
    BY <1>1
  <2> QED BY <1>8, <2>1
<1> QED BY <1>2, <1>11, <1>12, <1>13 DEF P, More, m

\* The argument trees and what is made of each of them.
LEMMA ArgumentFacts ==
  ASSUME NEW V, NEW f \in Tree, NEW h \in [Tree -> V]
  PROVE  /\ [i \in DOMAIN f.args |-> h[f.args[i]]] \in Seq(V)
         /\ Len([i \in DOMAIN f.args |-> h[f.args[i]]]) = Len(f.args)
         /\ Len(f.args) \in Nat /\ DOMAIN f.args = 1 .. Len(f.args)
         /\ \A i \in 1 .. Len(f.args) : f.args[i] \in Tree
<1>1. f.args \in Seq(Tree)
  BY TreeAssumption
<1> DEFINE m == Len(f.args)
<1>2. m \in Nat /\ DOMAIN f.args = 1 .. m /\ \A i \in 1 .. m : f.args[i] \in Tree
  BY <1>1
<1> HIDE DEF m
<1>3. [i \in 1 .. m |-> h[f.args[i]]] \in [1 .. m -> V]
  BY <1>2
<1>4. /\ [i \in 1 .. m |-> h[f.args[i]]] \in Seq(V)
      /\ Len([i \in 1 .. m |-> h[f.args[i]]]) = m
  BY <1>2, <1>3
<1> QED BY <1>2, <1>4 DEF m

\* A token is in itself.
LEMMA WithinItself == \A t \in Tok : 1 \in DOMAIN t => Within(t, t)
<1> SUFFICES ASSUME NEW t \in Tok, 1 \in DOMAIN t PROVE Within(t, t)
  OBVIOUS
<1>1. t \in Seq(Letter)
  BY DEF Tok
<1>2. SubSeq(t, 1, Len(t)) = t /\ Len(t) <= Len(t)
  BY <1>1, SubSeqFull
<1>3. IsPrefix(t, SubSeq(t, 1, Len(t)))
  BY <1>2 DEF IsPrefix
<1> QED BY <1>3 DEF Within

\* What is known of an argument.
LEMMA LeafFacts ==
  ASSUME NEW f \in Tree, f.op = NoText
  PROVE  /\ f.text \in Tok /\ ~isFN(f.text)
         /\ f.text \notin {separator, leftParenthesis, rightParenthesis, comma}
<1>1. IsArgument(f.text)
  BY TreeAssumption
<1>2. f.text \in Tok
  <2>1. f.text \in Seq(STRING) /\ STRING \subseteq Letter
    BY <1>1 DEF IsArgument, Letter
  <2> HIDE DEF Letter
  <2> QED BY <2>1, SeqMonotonic DEF Tok
<1>3. ~isFN(f.text)
  <2>1. ASSUME isFN(f.text) PROVE Names(f.text)
    BY <2>1, WithinItself, FunctionFacts DEF Names, isFN
  <2> QED BY <1>1, <2>1 DEF IsArgument
<1> QED BY <1>1, <1>2, <1>3 DEF IsArgument

\* What Text is.
TextOf(f, texts) ==
  IF f.op = NoText THEN <<f.text>>
  ELSE <<f.op, leftParenthesis>> \o Listed(texts) \o <<rightParenthesis>>

LEMMA TextIs ==
  /\ Text \in [Tree -> Seq(Tok)]
  /\ \A f \in Tree : Text[f] = TextOf(f, [i \in DOMAIN f.args |-> Text[f.args[i]]])
<1> DEFINE V == Seq(Tok)
           F == [fs \in Tree \X Seq(V) |-> TextOf(fs[1], fs[2])]
<1>1. ASSUME NEW f \in Tree, NEW texts \in Seq(V) PROVE TextOf(f, texts) \in V
  <2>1. CASE f.op = NoText
    <3>1. f.text \in Tok
      BY <2>1, LeafFacts
    <3> QED BY <2>1, <3>1 DEF TextOf
  <2>2. CASE f.op # NoText
    <3>1. isFN(f.op)
      BY <2>2, TreeAssumption
    <3>2. f.op \in Tok /\ leftParenthesis \in Tok /\ rightParenthesis \in Tok
      BY <3>1, PunctuationFacts
    <3>3. Listed(texts) \in Seq(Tok)
      <4>1. Len(texts) \in 0 .. Len(texts)
        OBVIOUS
      <4> QED BY <4>1, ListedAlong
    <3>4. <<f.op, leftParenthesis>> \in Seq(Tok) /\ <<rightParenthesis>> \in Seq(Tok)
      BY <3>2
    <3> QED BY <2>2, <3>3, <3>4 DEF TextOf
  <2> QED BY <2>1, <2>2
<1>2. V # {}
  <2>1. <<>> \in V
    OBVIOUS
  <2> HIDE DEF V
  <2> QED BY <2>1
<1> HIDE DEF V
<1>3. \A f \in Tree, texts \in Seq(V) : F[<<f, texts>>] = TextOf(f, texts)
  OBVIOUS
<1> HIDE DEF F
<1>4. PICK h \in [Tree -> V] : \A f \in Tree : h[f] = Made(h, f, F)
  BY <1>1, <1>2, <1>3, TreeRecursion
<1> DEFINE Args(g, f) == [i \in DOMAIN f.args |-> g[f.args[i]]]
           Is(g) == g = [f \in Tree |-> TextOf(f, Args(g, f))]
<1>5. \A g \in [Tree -> V], f \in Tree : Args(g, f) \in Seq(V)
  BY ArgumentFacts
<1>6. Text = CHOOSE g : Is(g)
  BY DEF Text, TextOf
<1>7. Is(h)
  <2>1. \A f \in Tree : h[f] = TextOf(f, Args(h, f))
    BY <1>3, <1>4, <1>5 DEF Made
  <2> HIDE DEF Args
  <2> QED BY <1>4, <2>1
<1>8. Is(Text)
  <2> HIDE DEF Is
  <2> QED BY <1>6, <1>7
<1>9. \A f \in Tree : Text[f] = TextOf(f, Args(Text, f))
  <2> HIDE DEF Args
  <2> QED BY <1>8
<1>10. \A f \in Tree : Text[f] = h[f]
  <2> DEFINE S == {f \in Tree : Text[f] = h[f]}
  <2>1. ASSUME NEW f \in Tree, \A i \in DOMAIN f.args : f.args[i] \in S PROVE f \in S
    <3>1. Args(Text, f) = Args(h, f)
      BY <2>1
    <3>2. h[f] = TextOf(f, Args(h, f))
      BY <1>7
    <3> HIDE DEF Args
    <3> QED BY <1>9, <3>1, <3>2
  <2>2. Tree \subseteq S
    <3> HIDE DEF S
    <3> QED BY <2>1, TreeInduction
  <2> QED BY <2>2
<1>11. Text = [f \in Tree |-> Text[f]]
  BY <1>8
<1>12. Text \in [Tree -> V]
  BY <1>4, <1>10, <1>11
<1> QED BY <1>9, <1>12 DEF V

\* What Value is, of values that are not marks.
ValueOf(f, kvMap, values) ==
  IF f.op # NoText THEN Bool(Apply(f.op, values)) ELSE Put(kvMap, f.text)

LEMMA ValueIs ==
  ASSUME NEW kvMap \in Bindings, \A k \in DOMAIN kvMap : kvMap[k] # separator
  PROVE  /\ Value(kvMap) \in [Tree -> Tok \ {separator}]
         /\ \A f \in Tree :
              Value(kvMap)[f] = ValueOf(f, kvMap, [i \in DOMAIN f.args |-> Value(kvMap)[f.args[i]]])
<1> DEFINE V == Tok \ {separator}
           F == [fs \in Tree \X Seq(V) |-> ValueOf(fs[1], kvMap, fs[2])]
<1>1. ASSUME NEW f \in Tree, NEW values \in Seq(V) PROVE ValueOf(f, kvMap, values) \in V
  <2>1. CASE f.op = NoText
    <3>1. f.text \in V
      BY <2>1, LeafFacts
    <3>2. CASE f.text \in DOMAIN kvMap
      <4>1. kvMap[f.text] \in Tok /\ kvMap[f.text] # separator
        BY <3>2, BindingFacts
      <4>2. kvMap[f.text] \in V
        BY <4>1
      <4> HIDE DEF V
      <4> QED BY <2>1, <3>2, <4>2 DEF ValueOf, Put
    <3>3. CASE f.text \notin DOMAIN kvMap
      <4> HIDE DEF V
      <4> QED BY <2>1, <3>1, <3>3 DEF ValueOf, Put
    <3> QED BY <3>2, <3>3
  <2>2. CASE f.op # NoText
    BY <2>2, PunctuationFacts DEF ValueOf
  <2> QED BY <2>1, <2>2
<1>2. V # {}
  <2>1. NoText \in V
    BY TokenFacts DEF NoText, separator
  <2> HIDE DEF V
  <2> QED BY <2>1
<1> HIDE DEF V
<1>3. \A f \in Tree, values \in Seq(V) : F[<<f, values>>] = ValueOf(f, kvMap, values)
  OBVIOUS
<1> HIDE DEF F
<1>4. PICK h \in [Tree -> V] : \A f \in Tree : h[f] = Made(h, f, F)
  BY <1>1, <1>2, <1>3, TreeRecursion
<1> DEFINE Args(g, f) == [i \in DOMAIN f.args |-> g[f.args[i]]]
           Is(g) == g = [f \in Tree |-> ValueOf(f, kvMap, Args(g, f))]
           value == Value(kvMap)
<1>5. \A g \in [Tree -> V], f \in Tree : Args(g, f) \in Seq(V)
  BY ArgumentFacts
<1>6. value = CHOOSE g : Is(g)
  BY DEF Value, ValueOf, Put
<1>7. Is(h)
  <2>1. \A f \in Tree : h[f] = ValueOf(f, kvMap, Args(h, f))
    BY <1>3, <1>4, <1>5 DEF Made
  <2> HIDE DEF Args
  <2> QED BY <1>4, <2>1
<1> HIDE DEF value
<1>8. Is(value)
  <2> HIDE DEF Is
  <2> QED BY <1>6, <1>7
<1>9. \A f \in Tree : value[f] = ValueOf(f, kvMap, Args(value, f))
  <2> HIDE DEF Args
  <2> QED BY <1>8
<1>10. \A f \in Tree : value[f] = h[f]
  <2> DEFINE S == {f \in Tree : value[f] = h[f]}
  <2>1. ASSUME NEW f \in Tree, \A i \in DOMAIN f.args : f.args[i] \in S PROVE f \in S
    <3>1. Args(value, f) = Args(h, f)
      BY <2>1
    <3>2. h[f] = ValueOf(f, kvMap, Args(h, f))
      BY <1>7
    <3> HIDE DEF Args
    <3> QED BY <1>9, <3>1, <3>2
  <2>2. Tree \subseteq S
    <3> HIDE DEF S
    <3> QED BY <2>1, TreeInduction
  <2> QED BY <2>2
<1>11. value = [f \in Tree |-> value[f]]
  BY <1>8
<1>12. value \in [Tree -> V]
  BY <1>4, <1>10, <1>11
<1> QED BY <1>9, <1>12 DEF V, value

-----------------------------------------------------------------------------
(* What a formula means to Parse and to Calc. *)

ParseAt(r, s) == [rpn |-> r, s |-> s, loops |-> FALSE]
RunAt(s) == [s |-> s, loops |-> FALSE]

\* What a state is when one of its parts changes.
WithText(x, a) == [x EXCEPT !.rpn = a]
WithStack(x, a) == [x EXCEPT !.s = a]

LEMMA PartsChange ==
  ASSUME NEW r, NEW s, NEW x, x = ParseAt(r, s), NEW a
  PROVE  WithText(x, a) = ParseAt(a, s) /\ WithStack(x, a) = ParseAt(r, a)
<1> DEFINE l == FALSE
<1>1. /\ x = [rpn |-> r, s |-> s, loops |-> l]
      /\ ParseAt(a, s) = [rpn |-> a, s |-> s, loops |-> l]
      /\ ParseAt(r, a) = [rpn |-> r, s |-> a, loops |-> l]
  BY DEF ParseAt
<1> HIDE DEF l
<1> QED BY <1>1 DEF WithText, WithStack

LEMMA RunChange ==
  ASSUME NEW s, NEW x, x = RunAt(s), NEW a
  PROVE  WithStack(x, a) = RunAt(a)
<1> DEFINE l == FALSE
<1>1. x = [s |-> s, loops |-> l] /\ RunAt(a) = [s |-> a, loops |-> l]
  BY DEF RunAt
<1> HIDE DEF l
<1> QED BY <1>1 DEF WithStack

\* Tokens of a formula that are not a right parenthesis.
LEMMA TokenWays ==
  ASSUME NEW r \in Seq(Tok), NEW s \in Seq(Tok), NEW t \in Tok
  PROVE  /\ isFN(t) =>
              <<ParseAt(r, s), t, ParseAt(Append(r, separator), Append(s, t))>> \in ParseR
         /\ t = leftParenthesis => <<ParseAt(r, s), t, ParseAt(r, Append(s, t))>> \in ParseR
         /\ t = comma => <<ParseAt(r, s), t, ParseAt(r, s)>> \in ParseR
         /\ ~isFN(t) /\ t \notin {leftParenthesis, rightParenthesis, comma} =>
              <<ParseAt(r, s), t, ParseAt(Append(r, t), s)>> \in ParseR
<1> DEFINE x == ParseAt(r, s)
<1>1. x = ParseAt(r, s) /\ x.rpn = r /\ x.s = s /\ x.loops = FALSE
  BY DEF ParseAt
<1> HIDE DEF x
<1>2. ASSUME NEW a, NEW b
      PROVE  /\ WithText(x, a) = ParseAt(a, s) /\ WithStack(x, b) = ParseAt(r, b)
             /\ WithStack(WithText(x, a), b) = ParseAt(a, b)
  BY <1>1, PartsChange
<1>4. separator \in Tok
  BY TokenFacts
<1>5. Append(r, separator) \in Seq(Tok) /\ Append(s, t) \in Seq(Tok) /\ Append(r, t) \in Seq(Tok)
  BY <1>4
<1>6. \A p, q \in Seq(Tok) : ParseAt(p, q) \in ParseX
  BY DEF ParseAt, ParseX
<1>7. x \in ParseX
  BY <1>6 DEF x
<1>8. \A y \in ParseX : Token(x, t) = y => <<x, t, y>> \in ParseR
  BY <1>7 DEF ParseR
<1>9. isFN(t) => Token(x, t) = ParseAt(Append(r, separator), Append(s, t))
  <2> SUFFICES ASSUME isFN(t)
               PROVE  Token(x, t) = ParseAt(Append(r, separator), Append(s, t))
    OBVIOUS
  <2>1. Token(x, t) = Function(x, t)
    BY <1>1, PunctuationFacts DEF Token
  <2>2. Function(x, t) = WithStack(WithText(x, Append(r, separator)), Append(s, t))
    BY <1>1 DEF Function, Push, WithStack, WithText
  <2> QED BY <1>2, <2>1, <2>2
<1>10. t = leftParenthesis => Token(x, t) = ParseAt(r, Append(s, t))
  <2>1. ASSUME t = leftParenthesis PROVE Token(x, t) = WithStack(x, Append(s, t))
    BY <1>1, <2>1, PunctuationFacts DEF Token, Push, WithStack
  <2> QED BY <1>2, <2>1
<1>11. t = comma => Token(x, t) = x
  BY <1>1, PunctuationFacts DEF Token
<1>12. ~isFN(t) /\ t \notin {leftParenthesis, rightParenthesis, comma} =>
         Token(x, t) = ParseAt(Append(r, t), s)
  <2>1. ASSUME ~isFN(t), t \notin {leftParenthesis, rightParenthesis, comma}
        PROVE  Token(x, t) = WithText(x, Append(r, t))
    BY <1>1, <2>1 DEF Token, WithText
  <2> QED BY <1>2, <2>1
<1>13. /\ ParseAt(Append(r, separator), Append(s, t)) \in ParseX
       /\ ParseAt(r, Append(s, t)) \in ParseX /\ ParseAt(Append(r, t), s) \in ParseX
  BY <1>5, <1>6
<1> QED BY <1>7, <1>8, <1>9, <1>10, <1>11, <1>12, <1>13 DEF x

\* The right parenthesis of a function, whose own left one is on top of the stack.
LEMMA CloseWay ==
  ASSUME NEW r \in Seq(Tok), r # <<>>, NEW s \in Seq(Tok), NEW op \in Tok
  PROVE  <<ParseAt(r, Append(Append(s, op), leftParenthesis)), rightParenthesis,
           ParseAt(Append(r, op), s)>> \in ParseR
<1> DEFINE n == Len(s)
           a == Append(s, op)
           b == Append(a, leftParenthesis)
           x == ParseAt(r, b)
           open == {i \in DOMAIN b : b[i] = leftParenthesis}
           m == Max(open)
           under == SubSeq(b, 1, m - 1)
           above == SubSeq(b, m + 1, Len(b))
<1>1. leftParenthesis \in Tok /\ rightParenthesis \in Tok
  BY PunctuationFacts
<1>2. a \in Seq(Tok) /\ Len(a) = n + 1 /\ a[n + 1] = op /\ n \in Nat
      /\ \A i \in 1 .. n : a[i] = s[i]
  BY Appending
<1> HIDE DEF a, n
<1>3. b \in Seq(Tok) /\ Len(b) = n + 2 /\ b[n + 2] = leftParenthesis
      /\ \A i \in 1 .. n + 1 : b[i] = a[i]
  <2>1. Len(a) + 1 = n + 2
    BY <1>2
  <2> QED BY <1>1, <1>2, <2>1, Appending
<1> HIDE DEF b
<1>4. x = ParseAt(r, b) /\ x.rpn = r /\ x.s = b /\ x.loops = FALSE
  BY DEF ParseAt
<1> HIDE DEF x
<1>5. m = n + 2 /\ open # {}
  <2>1. open \in SUBSET (1 .. n + 2) /\ n + 2 \in open
    BY <1>2, <1>3
  <2> HIDE DEF open
  <2>2. n + 2 \in Nat
    BY <1>2
  <2>3. m \in open /\ n + 2 <= m
    BY <2>1, <2>2, GreatestExists
  <2>4. m \in 1 .. n + 2
    BY <2>1, <2>3
  <2> QED BY <1>2, <2>1, <2>3, <2>4
<1>6. under = a /\ above = <<>>
  <2>1. m - 1 = n + 1 /\ n + 1 \in 0 .. Len(b) /\ m + 1 \in Int /\ Len(b) \in Int /\ Len(b) < m + 1
    BY <1>2, <1>3, <1>5
  <2>2. /\ SubSeq(b, 1, n + 1) \in Seq(Tok) /\ Len(SubSeq(b, 1, n + 1)) = n + 1
        /\ \A i \in 1 .. n + 1 : SubSeq(b, 1, n + 1)[i] = b[i]
    BY <1>3, <2>1, UpTo
  <2>3. SubSeq(b, 1, n + 1) = a
    BY <1>2, <1>3, <2>2, SeqEqual
  <2>4. above = <<>>
    BY <2>1, SubSeqEmpty
  <2> QED BY <2>1, <2>3, <2>4
<1>7. Top(a) = op /\ Popped(a) = s
  <2>1. a # <<>>
    BY <1>2, EmptySeq
  <2>2. Top(a) = a[Len(a)] /\ Popped(a) = SubSeq(a, 1, Len(a) - 1)
    BY <2>1 DEF Top, Popped, Last, Front
  <2>3. Len(a) - 1 = n /\ n \in 0 .. Len(a)
    BY <1>2
  <2>4. /\ SubSeq(a, 1, n) \in Seq(Tok) /\ Len(SubSeq(a, 1, n)) = n
        /\ \A i \in 1 .. n : SubSeq(a, 1, n)[i] = a[i]
    BY <1>2, <2>3, UpTo
  <2>5. SubSeq(a, 1, n) = s
    BY <1>2, <2>4, SeqEqual DEF n
  <2> QED BY <1>2, <2>2, <2>3, <2>5
<1>8. r \o Append(Reverse(<<>>), op) = Append(r, op)
  <2>1. Reverse(<<>>) = <<>>
    BY DEF Reverse
  <2>2. Append(<<>>, op) = <<op>> /\ r \o <<op>> = Append(r, op)
    OBVIOUS
  <2> QED BY <2>1, <2>2
<1>9. Close(x) = WithStack(WithText(x, Append(r, op)), s)
  <2> DEFINE p == (IF r = <<>> THEN <<NoText>> ELSE r) \o Append(Reverse(above), Top(under))
  <2>1. Close(x) = WithStack(WithText(x, p), Popped(under))
    BY <1>4, <1>5 DEF Close, WithStack, WithText
  <2>2. p = Append(r, op) /\ Popped(under) = s
    BY <1>6, <1>7, <1>8
  <2> HIDE DEF p, under
  <2> QED BY <2>1, <2>2
<1>10. Token(x, rightParenthesis) = Close(x)
  BY <1>4, PunctuationFacts DEF Token
<1>11. Close(x) = ParseAt(Append(r, op), s)
  BY <1>4, <1>9, PartsChange
<1>12. x \in ParseX /\ ParseAt(Append(r, op), s) \in ParseX
  <2>1. Append(r, op) \in Seq(Tok)
    OBVIOUS
  <2>2. \A p, q \in Seq(Tok) : ParseAt(p, q) \in ParseX
    BY DEF ParseAt, ParseX
  <2>3. x = ParseAt(r, b)
    BY DEF x
  <2> QED BY <1>3, <2>1, <2>2, <2>3
<1> DEFINE y == ParseAt(Append(r, op), s)
<1>13. <<x, rightParenthesis, y>> \in ParseR
  <2>1. Token(x, rightParenthesis) = y
    BY <1>10, <1>11
  <2> HIDE DEF y
  <2> QED BY <1>1, <1>12, <2>1 DEF ParseR, y
<1> QED BY <1>13 DEF x, b, a

\* A token that is pushed when the text is run.
LEMMA PushWay ==
  ASSUME NEW kvMap, NEW s \in Seq(Tok), NEW t \in Tok,
         Put(kvMap, t) \in Tok, ~isFN(Put(kvMap, t))
  PROVE  <<RunAt(s), t, RunAt(Append(s, Put(kvMap, t)))>> \in RunR(kvMap)
<1> DEFINE x == RunAt(s)
           v == Put(kvMap, t)
           y == RunAt(Append(s, v))
<1>1. x = RunAt(s) /\ x.s = s /\ x.loops = FALSE
  BY DEF RunAt
<1>2. v \in Tok /\ ~isFN(v)
  OBVIOUS
<1> HIDE DEF x, v
<1>3. Step(x, v) = WithStack(x, Append(s, v))
  BY <1>1, <1>2 DEF Step, Push, WithStack
<1>4. Step(x, v) = y
  BY <1>1, <1>3, RunChange
<1>5. x \in RunX /\ y \in RunX
  <2>1. Append(s, v) \in Seq(Tok)
    BY <1>2
  <2>2. \A q \in Seq(Tok) : RunAt(q) \in RunX
    BY DEF RunAt, RunX
  <2> QED BY <1>1, <2>1, <2>2
<1> HIDE DEF y
<1>6. <<x, t, y>> \in RunR(kvMap)
  BY <1>4, <1>5 DEF RunR, v
<1> QED BY <1>6 DEF x, y, v

\* A function takes what is above the last mark, the mark too, and leaves its value.
LEMMA ApplyWay ==
  ASSUME NEW kvMap, NEW s \in Seq(Tok), NEW values \in Seq(Tok \ {separator}),
         NEW t \in Tok, isFN(t), t \notin DOMAIN kvMap
  PROVE  <<RunAt(Append(s, separator) \o values), t, RunAt(Append(s, Bool(Apply(t, values))))>>
           \in RunR(kvMap)
<1> DEFINE n == Len(s)
           m == Len(values)
           a == Append(s, separator)
           b == a \o values
           x == RunAt(b)
           v == Bool(Apply(t, values))
           y == RunAt(Append(s, v))
           top == Max(Marks(b))
<1>1. separator \in Tok /\ v \in Tok
  BY TokenFacts, PunctuationFacts
<1>2. /\ a \in Seq(Tok) /\ Len(a) = n + 1 /\ a[n + 1] = separator /\ n \in Nat
      /\ \A i \in 1 .. n : a[i] = s[i]
  BY <1>1, Appending
<1>3. values \in Seq(Tok) /\ m \in Nat /\ \A i \in 1 .. m : values[i] # separator
  <2>1. values \in Seq(Tok)
    BY SeqMonotonic
  <2> QED BY <2>1
<1>4. s \in [1 .. n -> Tok]
  OBVIOUS
<1> HIDE DEF n, m, a
<1>5. /\ b \in Seq(Tok) /\ Len(b) = n + 1 + m
      /\ \A i \in 1 .. n + 1 : b[i] = a[i]
      /\ \A i \in 1 .. m : b[n + 1 + i] = values[i]
  <2>1. b \in Seq(Tok) /\ Len(b) = n + 1 + m
    <3>1. b \in Seq(Tok) /\ Len(b) = Len(a) + Len(values)
      BY <1>2, <1>3, ConcatProperties
    <3> QED BY <1>2, <3>1 DEF m
  <2>2. \A i \in 1 .. n + 1 + m : b[i] = IF i <= n + 1 THEN a[i] ELSE values[i - (n + 1)]
    BY <1>2, <1>3, ConcatProperties DEF m
  <2> HIDE DEF b
  <2>3. ASSUME NEW i \in 1 .. n + 1 PROVE b[i] = a[i]
    <3>1. i \in 1 .. n + 1 + m /\ i <= n + 1
      BY <1>2, <1>3
    <3> QED BY <2>2, <3>1
  <2>4. ASSUME NEW i \in 1 .. m PROVE b[n + 1 + i] = values[i]
    <3>1. n + 1 + i \in 1 .. n + 1 + m /\ ~(n + 1 + i <= n + 1) /\ (n + 1 + i) - (n + 1) = i
      BY <1>2, <1>3
    <3> QED BY <2>2, <3>1
  <2> QED BY <2>1, <2>3, <2>4
<1> HIDE DEF b
<1>6. top = n + 1 /\ Marks(b) # {}
  <2> DEFINE M == Marks(b)
  <2>1. M \in SUBSET (1 .. n + 1 + m) /\ n + 1 \in M
    <3>1. n + 1 \in 1 .. n + 1 + m /\ n + 1 \in 1 .. n + 1
      BY <1>2, <1>3
    <3> QED BY <1>2, <1>5, <3>1 DEF Marks
  <2>2. ASSUME NEW i \in M PROVE i <= n + 1
    <3>1. i \in 1 .. n + 1 + m /\ b[i] = separator
      BY <1>5 DEF Marks
    <3>2. SUFFICES ASSUME ~(i <= n + 1) PROVE FALSE
      OBVIOUS
    <3> DEFINE j == i - (n + 1)
    <3>3. j \in 1 .. m /\ i = n + 1 + j
      BY <1>2, <1>3, <3>1, <3>2
    <3> HIDE DEF j
    <3> QED BY <1>3, <1>5, <3>1, <3>3
  <2> HIDE DEF M
  <2>3. n + 1 + m \in Nat /\ M # {}
    BY <1>2, <1>3, <2>1
  <2>4. Max(M) \in M /\ n + 1 <= Max(M)
    BY <2>1, <2>3, GreatestExists
  <2>5. Max(M) <= n + 1 /\ Max(M) \in 1 .. n + 1 + m
    BY <2>1, <2>2, <2>4
  <2>6. Max(M) = n + 1
    BY <1>2, <2>4, <2>5
  <2> QED BY <2>3, <2>6 DEF M
<1>7. SubSeq(b, 1, top - 1) = s
  <2>1. top - 1 = n /\ n \in 0 .. Len(b)
    BY <1>2, <1>3, <1>5, <1>6
  <2>2. /\ SubSeq(b, 1, n) \in Seq(Tok) /\ Len(SubSeq(b, 1, n)) = n
        /\ \A i \in 1 .. n : SubSeq(b, 1, n)[i] = b[i]
    BY <1>5, <2>1, UpTo
  <2>3. ASSUME NEW i \in 1 .. n PROVE SubSeq(b, 1, n)[i] = s[i]
    <3>1. i \in 1 .. n + 1
      BY <1>2
    <3> QED BY <1>2, <1>5, <2>2, <3>1
  <2>4. SubSeq(b, 1, n) = s
    BY <2>2, <2>3, SeqEqual DEF n
  <2> QED BY <2>1, <2>4
<1>8. reverseArgs(b) = values
  <2> DEFINE c == SubSeq(b, n + 2, n + 1 + m)
  <2>1. reverseArgs(b) = c
    <3>1. top + 1 = n + 2
      BY <1>2, <1>6
    <3> QED BY <1>5, <3>1 DEF reverseArgs
  <2>2. n + 2 \in Int /\ n + 1 + m \in Int /\ (n + 1 + m) - (n + 2) + 1 = m
        /\ (~(n + 2 <= n + 1 + m) => m = 0) /\ \A i \in n + 2 .. n + 1 + m : i \in 1 .. Len(b)
    BY <1>2, <1>3, <1>5
  <2>3. \A i \in n + 2 .. n + 1 + m : b[i] \in Tok
    BY <1>5, <2>2
  <2>4. /\ c \in Seq(Tok)
        /\ Len(c) = IF n + 2 <= n + 1 + m THEN (n + 1 + m) - (n + 2) + 1 ELSE 0
        /\ \A i \in 1 .. (n + 1 + m) - (n + 2) + 1 : c[i] = b[(n + 2) + i - 1]
    BY <2>2, <2>3, SubSeqProperties
  <2> HIDE DEF c
  <2>5. Len(c) = m
    BY <2>2, <2>4
  <2>6. ASSUME NEW i \in 1 .. m PROVE c[i] = values[i]
    <3>1. (n + 2) + i - 1 = n + 1 + i
      BY <1>2, <1>3
    <3>2. c[i] = b[(n + 2) + i - 1]
      BY <2>2, <2>4
    <3> QED BY <1>5, <3>1, <3>2
  <2>7. c = values
    BY <1>3, <2>4, <2>5, <2>6, SeqEqual DEF m
  <2> QED BY <2>1, <2>7
<1>9. x = RunAt(b) /\ x.s = b /\ x.loops = FALSE
  BY DEF RunAt
<1> HIDE DEF x, v
<1>10. Step(x, t) = WithStack(x, Append(s, Bool(Apply(t, values))))
  BY <1>6, <1>7, <1>8, <1>9 DEF Step, Push, WithStack
<1>11. Step(x, t) = y /\ Put(kvMap, t) = t
  BY <1>9, <1>10, RunChange DEF Put, v
<1>12. x \in RunX /\ y \in RunX
  <2>1. Append(s, v) \in Seq(Tok)
    BY <1>1
  <2>2. \A q \in Seq(Tok) : RunAt(q) \in RunX
    BY DEF RunAt, RunX
  <2> QED BY <1>5, <1>9, <2>1, <2>2
<1> HIDE DEF y
<1>13. <<x, t, y>> \in RunR(kvMap)
  BY <1>11, <1>12 DEF RunR
<1> QED BY <1>13 DEF x, y, v, b, a

LEMMA ToSetBoth ==
  /\ \A u, w \in Seq(Tok) : ToSet(u \o w) = ToSet(u) \union ToSet(w)
  /\ \A t : ToSet(<<t>>) = {t}
<1>1. ASSUME NEW u \in Seq(Tok), NEW w \in Seq(Tok)
      PROVE  ToSet(u \o w) = ToSet(u) \union ToSet(w)
  <2> DEFINE n == Len(u)
             m == Len(w)
             c == u \o w
  <2>1. /\ n \in Nat /\ m \in Nat /\ DOMAIN u = 1 .. n /\ DOMAIN w = 1 .. m
        /\ DOMAIN c = 1 .. n + m
        /\ \A i \in 1 .. n : c[i] = u[i]
        /\ \A i \in 1 .. m : c[n + i] = w[i]
    OBVIOUS
  <2> HIDE DEF n, m, c
  <2>2. ASSUME NEW i \in 1 .. n + m PROVE c[i] \in ToSet(u) \union ToSet(w)
    <3>1. CASE i \in 1 .. n
      BY <2>1, <3>1 DEF ToSet
    <3>2. CASE i \notin 1 .. n
      <4> DEFINE j == i - n
      <4>1. j \in 1 .. m /\ i = n + j
        BY <2>1, <3>2
      <4> HIDE DEF j
      <4>2. c[i] = w[j]
        BY <2>1, <4>1
      <4> QED BY <2>1, <4>1, <4>2 DEF ToSet
    <3> QED BY <3>1, <3>2
  <2>3. ASSUME NEW i \in 1 .. n PROVE u[i] \in ToSet(c)
    <3>1. i \in 1 .. n + m
      BY <2>1
    <3> QED BY <2>1, <3>1 DEF ToSet
  <2>4. ASSUME NEW i \in 1 .. m PROVE w[i] \in ToSet(c)
    <3>1. n + i \in 1 .. n + m
      BY <2>1
    <3> QED BY <2>1, <3>1 DEF ToSet
  <2>5. /\ ToSet(c) = {c[i] : i \in 1 .. n + m}
        /\ ToSet(u) = {u[i] : i \in 1 .. n} /\ ToSet(w) = {w[i] : i \in 1 .. m}
    BY <2>1 DEF ToSet
  <2>6. ToSet(c) \subseteq ToSet(u) \union ToSet(w)
    BY <2>2, <2>5
  <2>7. ToSet(u) \subseteq ToSet(c)
    BY <2>3, <2>5
  <2>8. ToSet(w) \subseteq ToSet(c)
    BY <2>4, <2>5
  <2> QED BY <2>6, <2>7, <2>8 DEF c
<1>2. ASSUME NEW t PROVE ToSet(<<t>>) = {t}
  <2>1. DOMAIN <<t>> = {1} /\ <<t>>[1] = t
    OBVIOUS
  <2> QED BY <2>1 DEF ToSet
<1> QED BY <1>1, <1>2

\* Three texts, one after the other.
Joined(x, y, z) == (x \o y) \o z = x \o (y \o z)

LEMMA Three == \A x, y, z \in Seq(Tok) : Joined(x, y, z)
<1> TAKE x, y, z \in Seq(Tok)
<1> QED BY ConcatAssociative DEF Joined

\* Parse makes p of the text, wherever it stands, and running p, when the values are in,
\* leaves the values of the text on top of what was there.
Means(text, p, kvMap, values) ==
  /\ p \in Seq(Tok) /\ ToSet(p) \subseteq ToSet(text) \union {separator}
  /\ \A r, s \in Seq(Tok) : Through(ParseR, ParseAt(r, s), text, ParseAt(r \o p, s))
  /\ \A s \in Seq(Tok) : Through(RunR(kvMap), RunAt(s), p, RunAt(s \o values))

LEMMA MeansNothing == \A kvMap : Means(<<>>, <<>>, kvMap, <<>>)
<1> SUFFICES ASSUME NEW kvMap PROVE Means(<<>>, <<>>, kvMap, <<>>)
  OBVIOUS
<1>1. \A r \in Seq(Tok) : r \o <<>> = r
  OBVIOUS
<1>2. <<>> \in Seq(Tok) /\ ToSet(<<>>) = {}
  BY DEF ToSet
<1> QED BY <1>1, <1>2, ThroughNone DEF Means

\* One text after the other.
LEMMA MeansBoth ==
  ASSUME NEW kvMap,
         NEW u \in Seq(Tok), NEW p \in Seq(Tok), NEW a \in Seq(Tok), Means(u, p, kvMap, a),
         NEW w \in Seq(Tok), NEW q \in Seq(Tok), NEW b \in Seq(Tok), Means(w, q, kvMap, b)
  PROVE  Means(u \o w, p \o q, kvMap, a \o b)
<1>1. p \o q \in Seq(Tok) /\ ToSet(p \o q) \subseteq ToSet(u \o w) \union {separator}
  <2>1. ToSet(p \o q) = ToSet(p) \union ToSet(q) /\ ToSet(u \o w) = ToSet(u) \union ToSet(w)
    BY ToSetBoth
  <2>2. p \o q \in Seq(Tok)
    OBVIOUS
  <2> QED BY <2>1, <2>2 DEF Means
<1>2. ASSUME NEW r \in Seq(Tok), NEW s \in Seq(Tok)
      PROVE  Through(ParseR, ParseAt(r, s), u \o w, ParseAt(r \o (p \o q), s))
  <2>1. r \o p \in Seq(Tok) /\ (r \o p) \o q = r \o (p \o q)
    <3>1. Joined(r, p, q)
      BY Three
    <3> QED BY <3>1 DEF Joined
  <2>2. Through(ParseR, ParseAt(r, s), u, ParseAt(r \o p, s))
    BY DEF Means
  <2>3. Through(ParseR, ParseAt(r \o p, s), w, ParseAt((r \o p) \o q, s))
    BY <2>1 DEF Means
  <2> QED BY <2>1, <2>2, <2>3, ThroughBoth
<1>3. ASSUME NEW s \in Seq(Tok)
      PROVE  Through(RunR(kvMap), RunAt(s), p \o q, RunAt(s \o (a \o b)))
  <2>1. s \o a \in Seq(Tok) /\ (s \o a) \o b = s \o (a \o b)
    <3>1. Joined(s, a, b)
      BY Three
    <3> QED BY <3>1 DEF Joined
  <2>2. Through(RunR(kvMap), RunAt(s), p, RunAt(s \o a))
    BY DEF Means
  <2>3. Through(RunR(kvMap), RunAt(s \o a), q, RunAt((s \o a) \o b))
    BY <2>1 DEF Means
  <2> QED BY <2>1, <2>2, <2>3, ThroughBoth
<1> QED BY <1>1, <1>2, <1>3 DEF Means

\* A comma means nothing.
LEMMA MeansComma == \A kvMap : Means(<<comma>>, <<>>, kvMap, <<>>)
<1> SUFFICES ASSUME NEW kvMap PROVE Means(<<comma>>, <<>>, kvMap, <<>>)
  OBVIOUS
<1>1. \A r \in Seq(Tok) : r \o <<>> = r
  OBVIOUS
<1>2. <<>> \in Seq(Tok) /\ ToSet(<<>>) = {}
  BY DEF ToSet
<1>3. \A r, s \in Seq(Tok) : Through(ParseR, ParseAt(r, s), <<comma>>, ParseAt(r, s))
  BY PunctuationFacts, TokenWays, ThroughOne
<1> QED BY <1>1, <1>2, <1>3, ThroughNone DEF Means

\* An argument.
LEMMA MeansLeaf ==
  ASSUME NEW kvMap, NEW t \in Tok, ~isFN(t),
         t \notin {leftParenthesis, rightParenthesis, comma},
         Put(kvMap, t) \in Tok, ~isFN(Put(kvMap, t))
  PROVE  Means(<<t>>, <<t>>, kvMap, <<Put(kvMap, t)>>)
<1>1. \A r \in Seq(Tok), v \in Tok : r \o <<v>> = Append(r, v)
  OBVIOUS
<1>2. <<t>> \in Seq(Tok)
  OBVIOUS
<1>3. \A r, s \in Seq(Tok) : Through(ParseR, ParseAt(r, s), <<t>>, ParseAt(r \o <<t>>, s))
  BY <1>1, TokenWays, ThroughOne
<1>4. \A s \in Seq(Tok) : Through(RunR(kvMap), RunAt(s), <<t>>, RunAt(s \o <<Put(kvMap, t)>>))
  BY <1>1, PushWay, ThroughOne
<1> QED BY <1>2, <1>3, <1>4 DEF Means

\* A function: its arguments between a mark and the function itself.
LEMMA MeansFunction ==
  ASSUME NEW kvMap, separator \notin DOMAIN kvMap, NEW op, isFN(op), op \notin DOMAIN kvMap,
         NEW list \in Seq(Tok), NEW p, NEW values \in Seq(Tok \ {separator}),
         Means(list, p, kvMap, values)
  PROVE  Means(<<op, leftParenthesis>> \o list \o <<rightParenthesis>>,
               (<<separator>> \o p) \o <<op>>, kvMap, <<Bool(Apply(op, values))>>)
<1> DEFINE v == Bool(Apply(op, values))
           text == <<op, leftParenthesis>> \o list \o <<rightParenthesis>>
           polish == (<<separator>> \o p) \o <<op>>
<1>1. /\ op \in Tok /\ leftParenthesis \in Tok /\ rightParenthesis \in Tok /\ v \in Tok
      /\ separator \in Tok /\ ~isFN(separator)
  <2>1. ~isFN(separator)
    BY TokenFacts
  <2> QED BY <2>1, PunctuationFacts, TokenFacts
<1>2. p \in Seq(Tok) /\ ToSet(p) \subseteq ToSet(list) \union {separator}
  BY DEF Means
<1>3. <<op, leftParenthesis>> = <<op>> \o <<leftParenthesis>>
  OBVIOUS
<1>4. \A t \in Tok : <<t>> \in Seq(Tok)
  OBVIOUS
<1>5. \A r \in Seq(Tok), t \in Tok : Append(r, t) \in Seq(Tok) /\ r \o <<t>> = Append(r, t)
  OBVIOUS
<1>6. <<op, leftParenthesis>> \in Seq(Tok) /\ <<op, leftParenthesis>> \o list \in Seq(Tok)
  BY <1>1
<1> HIDE DEF v
<1>7. polish \in Seq(Tok) /\ ToSet(polish) \subseteq ToSet(text) \union {separator}
  <2>1. <<separator>> \o p \in Seq(Tok) /\ polish \in Seq(Tok)
    BY <1>1, <1>2
  <2>2. ToSet(polish) = ({separator} \union ToSet(p)) \union {op}
    <3>1. ToSet(polish) = ToSet(<<separator>> \o p) \union ToSet(<<op>>)
      BY <1>1, <1>4, <2>1, ToSetBoth
    <3>2. ToSet(<<separator>> \o p) = ToSet(<<separator>>) \union ToSet(p)
      BY <1>1, <1>2, <1>4, ToSetBoth
    <3> QED BY <3>1, <3>2, ToSetBoth
  <2>3. ToSet(list) \subseteq ToSet(text) /\ op \in ToSet(text)
    <3>1. ToSet(text) = ToSet(<<op, leftParenthesis>> \o list) \union ToSet(<<rightParenthesis>>)
      BY <1>1, <1>4, <1>6, ToSetBoth
    <3>2. ToSet(<<op, leftParenthesis>> \o list) = ToSet(<<op, leftParenthesis>>) \union ToSet(list)
      BY <1>6, ToSetBoth
    <3>3. ToSet(<<op, leftParenthesis>>) = ToSet(<<op>>) \union ToSet(<<leftParenthesis>>)
      BY <1>1, <1>3, <1>4, ToSetBoth
    <3> QED BY <3>1, <3>2, <3>3, ToSetBoth
  <2> QED BY <1>2, <2>1, <2>2, <2>3
<1>8. ASSUME NEW r \in Seq(Tok), NEW s \in Seq(Tok)
      PROVE  Through(ParseR, ParseAt(r, s), text, ParseAt(r \o polish, s))
  <2> DEFINE r1 == Append(r, separator)
             s1 == Append(s, op)
             s2 == Append(s1, leftParenthesis)
             r2 == r1 \o p
  <2>1. r1 \in Seq(Tok) /\ s1 \in Seq(Tok) /\ s2 \in Seq(Tok) /\ r2 \in Seq(Tok)
    BY <1>1, <1>2
  <2>2. r2 # <<>>
    <3>1. r1 # <<>>
      BY <1>1
    <3> HIDE DEF r1
    <3> QED BY <1>2, <2>1, <3>1, ConcatEqualIffEmpty
  <2>3. Append(r2, op) = r \o polish
    <3>1. r1 = r \o <<separator>>
      BY <1>1, <1>5
    <3>2. r2 = r \o (<<separator>> \o p)
      <4>1. <<separator>> \in Seq(Tok) /\ p \in Seq(Tok)
        BY <1>1, <1>2, <1>4
      <4>2. Joined(r, <<separator>>, p)
        BY <4>1, Three
      <4> QED BY <3>1, <4>2 DEF Joined
    <3>3. <<separator>> \o p \in Seq(Tok)
      BY <1>1, <1>2
    <3>4. (r \o (<<separator>> \o p)) \o <<op>> = r \o polish
      <4> DEFINE c == <<separator>> \o p
                 d == <<op>>
      <4>1. c \in Seq(Tok) /\ d \in Seq(Tok)
        BY <1>1, <1>4, <3>3
      <4> HIDE DEF c, d
      <4>2. Joined(r, c, d)
        BY <4>1, Three
      <4> QED BY <4>2 DEF Joined, c, d
    <3> HIDE DEF r2, r1, polish
    <3> QED BY <1>1, <1>5, <2>1, <3>2, <3>4
  <2>4. <<ParseAt(r, s), op, ParseAt(r1, s1)>> \in ParseR
    BY <1>1, TokenWays
  <2>5. <<ParseAt(r1, s1), leftParenthesis, ParseAt(r1, s2)>> \in ParseR
    <3> HIDE DEF r1, s1
    <3> QED BY <1>1, <2>1, TokenWays
  <2>6. <<ParseAt(r2, s2), rightParenthesis, ParseAt(Append(r2, op), s)>> \in ParseR
    <3> HIDE DEF r2
    <3> QED BY <1>1, <2>1, <2>2, CloseWay
  <2> HIDE DEF r1, s1, s2
  <2>7. Through(ParseR, ParseAt(r, s), <<op>>, ParseAt(r1, s1))
    BY <2>4, ThroughOne
  <2>8. Through(ParseR, ParseAt(r1, s1), <<leftParenthesis>>, ParseAt(r1, s2))
    BY <2>5, ThroughOne
  <2>9. Through(ParseR, ParseAt(r, s), <<op>> \o <<leftParenthesis>>, ParseAt(r1, s2))
    BY <1>1, <1>4, <2>7, <2>8, ThroughBoth
  <2>10. Through(ParseR, ParseAt(r1, s2), list, ParseAt(r2, s2))
    BY <2>1 DEF Means
  <2>11. Through(ParseR, ParseAt(r, s), <<op, leftParenthesis>> \o list, ParseAt(r2, s2))
    BY <1>3, <1>6, <2>9, <2>10, ThroughBoth
  <2> HIDE DEF r2, polish
  <2>12. Through(ParseR, ParseAt(r2, s2), <<rightParenthesis>>, ParseAt(r \o polish, s))
    BY <2>3, <2>6, ThroughOne
  <2> QED BY <1>1, <1>4, <1>6, <2>11, <2>12, ThroughBoth
<1>9. ASSUME NEW s \in Seq(Tok)
      PROVE  Through(RunR(kvMap), RunAt(s), polish, RunAt(s \o <<v>>))
  <2> DEFINE s1 == Append(s, separator)
             s2 == s1 \o values
  <2>1. s1 \in Seq(Tok) /\ <<separator>> \o p \in Seq(Tok)
    BY <1>1, <1>2
  <2>2. <<RunAt(s), separator, RunAt(s1)>> \in RunR(kvMap)
    <3>1. Put(kvMap, separator) = separator
      BY DEF Put
    <3> QED BY <1>1, <3>1, PushWay
  <2>3. <<RunAt(s2), op, RunAt(Append(s, v))>> \in RunR(kvMap)
    BY <1>1, ApplyWay DEF v
  <2> HIDE DEF s1
  <2>4. Through(RunR(kvMap), RunAt(s), <<separator>>, RunAt(s1))
    BY <2>2, ThroughOne
  <2>5. Through(RunR(kvMap), RunAt(s1), p, RunAt(s2))
    BY <2>1 DEF Means
  <2> HIDE DEF s2
  <2>6. Through(RunR(kvMap), RunAt(s), <<separator>> \o p, RunAt(s2))
    BY <1>1, <1>2, <1>4, <2>4, <2>5, ThroughBoth
  <2>7. Through(RunR(kvMap), RunAt(s2), <<op>>, RunAt(Append(s, v)))
    BY <2>3, ThroughOne
  <2>8. Through(RunR(kvMap), RunAt(s), (<<separator>> \o p) \o <<op>>, RunAt(Append(s, v)))
    BY <1>1, <1>4, <2>1, <2>6, <2>7, ThroughBoth
  <2> QED BY <1>1, <1>5, <2>8
<1> HIDE DEF text, polish
<1>10. Means(text, polish, kvMap, <<v>>)
  BY <1>7, <1>8, <1>9 DEF Means
<1> QED BY <1>10 DEF text, polish, v

\* Arguments that are understood are understood in a list, the values in their order.
LEMMA ListMeans ==
  ASSUME NEW kvMap, NEW texts \in Seq(Seq(Tok)), NEW values \in Seq(Tok),
         Len(values) = Len(texts),
         \A i \in 1 .. Len(texts) : \E p \in Seq(Tok) : Means(texts[i], p, kvMap, <<values[i]>>)
  PROVE  /\ Listed(texts) \in Seq(Tok)
         /\ \E p \in Seq(Tok) : Means(Listed(texts), p, kvMap, values)
<1> DEFINE m == Len(texts)
           before(n) == SubSeq(values, 1, n)
<1>1. PICK listed : /\ listed[0] = <<>>
                    /\ \A n \in 0 .. m : listed[n] \in Seq(Tok)
                    /\ \A n \in 1 .. m : listed[n] = IF n = 1 THEN texts[n]
                                                    ELSE Append(listed[n - 1], comma) \o texts[n]
                    /\ Listed(texts) = listed[m]
  BY ListedAlong
<1>2. /\ m \in Nat /\ m = Len(values)
      /\ \A i \in 1 .. m : texts[i] \in Seq(Tok) /\ values[i] \in Tok /\ <<values[i]>> \in Seq(Tok)
  OBVIOUS
<1>3. /\ before(0) = <<>> /\ before(m) = values
      /\ \A n \in 0 .. m : before(n) \in Seq(Tok)
      /\ \A n \in 1 .. m : before(n) = before(n - 1) \o <<values[n]>>
  <2>1. before(0) = <<>>
    BY SubSeqEmpty
  <2>2. \A n \in 0 .. m : /\ before(n) \in Seq(Tok) /\ Len(before(n)) = n
                          /\ \A i \in 1 .. n : before(n)[i] = values[i]
    BY <1>2, UpTo
  <2>3. before(m) = values
    <3>1. m \in 0 .. m
      BY <1>2
    <3> HIDE DEF before
    <3> QED BY <1>2, <2>2, <3>1, SeqEqual
  <2>4. ASSUME NEW n \in 1 .. m PROVE before(n) = before(n - 1) \o <<values[n]>>
    <3>1. 1 \in 1 .. Len(values) /\ n \in 1 .. Len(values)
      BY <1>2
    <3> QED BY <3>1, SubSeqRecursiveSecond
  <2> QED BY <2>1, <2>2, <2>3, <2>4
<1> HIDE DEF m, before
<1> DEFINE S == {n \in 0 .. m : \E p \in Seq(Tok) : Means(listed[n], p, kvMap, before(n))}
<1>4. 0 \in S
  <2>1. <<>> \in Seq(Tok) /\ 0 \in 0 .. m
    BY <1>2
  <2> QED BY <1>1, <1>3, <2>1, MeansNothing
<1>5. ASSUME NEW n \in 1 .. m, n - 1 \in S PROVE n \in S
  <2> DEFINE l == listed[n - 1]
             v == <<values[n]>>
  <2>1. n \in 0 .. m /\ n - 1 \in 0 .. m
    BY <1>2
  <2>2. PICK p \in Seq(Tok) : Means(l, p, kvMap, before(n - 1))
    BY <1>5
  <2>3. PICK q \in Seq(Tok) : Means(texts[n], q, kvMap, v)
    BY DEF m
  <2>4. /\ l \in Seq(Tok) /\ before(n - 1) \in Seq(Tok)
        /\ texts[n] \in Seq(Tok) /\ v \in Seq(Tok)
    BY <1>1, <1>2, <1>3, <2>1
  <2> HIDE DEF l, v
  <2>5. before(n) = before(n - 1) \o v
    BY <1>3 DEF v
  <2>6. CASE n = 1
    <3>1. before(n) = v /\ listed[n] = texts[n]
      <4>1. n - 1 = 0
        BY <2>6
      <4>2. before(n) = <<>> \o v
        BY <1>3, <2>5, <4>1
      <4>3. <<>> \o v = v
        BY <2>4
      <4> QED BY <1>1, <2>6, <4>2, <4>3
    <3> QED BY <2>1, <2>3, <3>1
  <2>7. CASE n # 1
    <3>1. listed[n] = (l \o <<comma>>) \o texts[n]
      <4>1. \A u \in Seq(Tok) : Append(u, comma) = u \o <<comma>>
        BY PunctuationFacts
      <4>2. listed[n] = Append(l, comma) \o texts[n]
        BY <1>1, <2>7 DEF l
      <4> QED BY <2>4, <4>1, <4>2
    <3>2. <<comma>> \in Seq(Tok) /\ <<>> \in Seq(Tok)
      BY PunctuationFacts
    <3>3. l \o <<comma>> \in Seq(Tok) /\ p \o <<>> \in Seq(Tok) /\ before(n - 1) \o <<>> \in Seq(Tok)
      BY <2>4, <3>2
    <3>4. Means(<<comma>>, <<>>, kvMap, <<>>)
      BY MeansComma
    <3>5. Means(l \o <<comma>>, p \o <<>>, kvMap, before(n - 1) \o <<>>)
      BY <2>2, <2>4, <3>2, <3>4, MeansBoth
    <3>6. before(n - 1) \o <<>> = before(n - 1)
      BY <2>4
    <3>7. Means(l \o <<comma>>, p \o <<>>, kvMap, before(n - 1))
      BY <3>5, <3>6
    <3>8. Means((l \o <<comma>>) \o texts[n], (p \o <<>>) \o q, kvMap, before(n - 1) \o v)
      BY <2>3, <2>4, <3>3, <3>7, MeansBoth
    <3>9. (p \o <<>>) \o q \in Seq(Tok)
      BY <3>3
    <3>10. Means(listed[n], (p \o <<>>) \o q, kvMap, before(n))
      BY <2>5, <3>1, <3>8
    <3> QED BY <2>1, <3>9, <3>10
  <2> QED BY <2>6, <2>7
<1>6. m \in S
  <2> HIDE DEF S
  <2>1. \A n \in 0 .. m : n \in S
    BY <1>2, <1>4, <1>5, Along
  <2>2. m \in 0 .. m
    BY <1>2
  <2> QED BY <2>1, <2>2
<1> QED BY <1>1, <1>3, <1>6

\* Neither a key nor a value is a function or a mark.
KeysApart(kvMap) ==
  \A k \in DOMAIN kvMap : ~isFN(k) /\ ~isFN(kvMap[k]) /\ k # separator /\ kvMap[k] # separator

\* Every formula is understood, however deep its functions are in each other.
LEMMA Understood ==
  ASSUME NEW kvMap \in Bindings, KeysApart(kvMap)
  PROVE  \A f \in Tree : \E p \in Seq(Tok) :
           p # <<>> /\ Means(Text[f], p, kvMap, <<Value(kvMap)[f]>>)
<1> DEFINE value == Value(kvMap)
           S == {f \in Tree : \E p \in Seq(Tok) :
                   p # <<>> /\ Means(Text[f], p, kvMap, <<value[f]>>)}
<1>1. /\ value \in [Tree -> Tok \ {separator}]
      /\ \A f \in Tree : value[f] = ValueOf(f, kvMap, [i \in DOMAIN f.args |-> value[f.args[i]]])
  BY ValueIs DEF KeysApart
<1>2. separator \notin DOMAIN kvMap
  BY DEF KeysApart
<1> HIDE DEF value
<1>3. ASSUME NEW f \in Tree, f.op = NoText PROVE f \in S
  <2> DEFINE t == f.text
  <2>1. t \in Tok /\ ~isFN(t) /\ t \notin {leftParenthesis, rightParenthesis, comma}
    BY <1>3, LeafFacts
  <2>2. Text[f] = <<t>> /\ value[f] = Put(kvMap, t)
    BY <1>1, <1>3, TextIs DEF TextOf, ValueOf
  <2>3. Put(kvMap, t) \in Tok
    BY <1>1, <2>2
  <2>4. ~isFN(Put(kvMap, t))
    <3> HIDE DEF t
    <3>1. CASE t \in DOMAIN kvMap
      BY <3>1 DEF KeysApart, Put
    <3>2. CASE t \notin DOMAIN kvMap
      BY <2>1, <3>2 DEF Put
    <3> QED BY <3>1, <3>2
  <2> HIDE DEF t
  <2>5. Means(<<t>>, <<t>>, kvMap, <<Put(kvMap, t)>>)
    BY <2>1, <2>3, <2>4, MeansLeaf
  <2>6. <<t>> \in Seq(Tok) /\ <<t>> # <<>>
    BY <2>1
  <2>7. Means(Text[f], <<t>>, kvMap, <<value[f]>>)
    BY <2>2, <2>5
  <2> QED BY <2>6, <2>7
<1>4. ASSUME NEW f \in Tree, f.op # NoText, \A i \in DOMAIN f.args : f.args[i] \in S
      PROVE  f \in S
  <2> DEFINE op == f.op
             n == Len(f.args)
             texts == [i \in DOMAIN f.args |-> Text[f.args[i]]]
             values == [i \in DOMAIN f.args |-> value[f.args[i]]]
             list == Listed(texts)
  <2>1. isFN(op) /\ op \notin DOMAIN kvMap /\ op \in Tok
    BY <1>4, TreeAssumption, PunctuationFacts DEF KeysApart
  <2>2. /\ texts \in Seq(Seq(Tok)) /\ Len(texts) = n /\ n \in Nat /\ DOMAIN f.args = 1 .. n
        /\ \A i \in 1 .. n : f.args[i] \in Tree
    BY TextIs, ArgumentFacts
  <2>3. values \in Seq(Tok \ {separator}) /\ Len(values) = n
    BY <1>1, ArgumentFacts
  <2>4. values \in Seq(Tok)
    BY <2>3, SeqMonotonic
  <2>5. /\ Text[f] = <<op, leftParenthesis>> \o list \o <<rightParenthesis>>
        /\ value[f] = Bool(Apply(op, values))
    <3> HIDE DEF texts, values
    <3>1. Text[f] = TextOf(f, texts) /\ value[f] = ValueOf(f, kvMap, values)
      BY <1>1, TextIs DEF texts, values
    <3> QED BY <1>4, <3>1 DEF TextOf, ValueOf
  <2>6. ASSUME NEW i \in 1 .. n
        PROVE  \E p \in Seq(Tok) : Means(texts[i], p, kvMap, <<values[i]>>)
    <3>1. f.args[i] \in S /\ texts[i] = Text[f.args[i]] /\ values[i] = value[f.args[i]]
      BY <1>4, <2>2
    <3> HIDE DEF texts, values
    <3> QED BY <3>1
  <2> HIDE DEF texts, values, n
  <2>7. list \in Seq(Tok) /\ \E p \in Seq(Tok) : Means(list, p, kvMap, values)
    BY <2>2, <2>3, <2>4, <2>6, ListMeans
  <2>8. PICK p \in Seq(Tok) : Means(list, p, kvMap, values)
    BY <2>7
  <2> DEFINE polish == (<<separator>> \o p) \o <<op>>
  <2> HIDE DEF list, op
  <2>9. Means(<<op, leftParenthesis>> \o list \o <<rightParenthesis>>, polish, kvMap,
              <<Bool(Apply(op, values))>>)
    BY <1>2, <2>1, <2>3, <2>7, <2>8, MeansFunction
  <2>10. polish \in Seq(Tok) /\ polish # <<>>
    BY <2>1, TokenFacts
  <2> HIDE DEF polish
  <2>11. Means(Text[f], polish, kvMap, <<value[f]>>)
    BY <2>5, <2>9
  <2> QED BY <2>10, <2>11
<1>5. Tree \subseteq S
  <2>1. ASSUME NEW f \in Tree, \A i \in DOMAIN f.args : f.args[i] \in S PROVE f \in S
    <3> HIDE DEF S
    <3> QED BY <1>3, <1>4, <2>1
  <2> HIDE DEF S
  <2> QED BY <2>1, TreeInduction
<1> QED BY <1>5 DEF value

\* The value of a formula, in whatever order the keys go in.
LEMMA CalculationIs ==
  ASSUME NEW f \in Tree, NEW kvMap \in Bindings, Apart(ToSet(Text[f]), kvMap),
         NEW keys \in SetToSeqs(DOMAIN kvMap)
  PROVE  Calculation(Parse(Text[f]).rpn, kvMap, keys) = RunAt(<<Value(kvMap)[f]>>)
<1> DEFINE text == Text[f]
           v == <<Value(kvMap)[f]>>
<1>1. KeysApart(kvMap)
  BY DEF Apart, KeysApart
<1>2. text \in Seq(Tok) /\ v \in Seq(Tok)
  <2>1. Value(kvMap)[f] \in Tok
    BY <1>1, ValueIs DEF KeysApart
  <2> QED BY <2>1, TextIs
<1>3. PICK p \in Seq(Tok) : p # <<>> /\ Means(text, p, kvMap, v)
  BY <1>1, Understood
<1> HIDE DEF text, v
<1>4. <<>> \in Seq(Tok) /\ <<>> \o p = p /\ <<>> \o v = v
  BY <1>2
<1>5. Parse(text).rpn = p
  <2>1. Through(ParseR, ParseAt(<<>>, <<>>), text, ParseAt(<<>> \o p, <<>>))
    BY <1>3, <1>4 DEF Means
  <2>2. Through(ParseR, [rpn |-> <<>>, s |-> <<>>, loops |-> FALSE], text, ParseAt(p, <<>>))
    BY <1>4, <2>1 DEF ParseAt
  <2>3. Parse(text) = ParseAt(p, <<>>)
    BY <1>2, <2>2, IsParsed
  <2> QED BY <2>3 DEF ParseAt
<1>6. Apart(ToSet(p), kvMap)
  <2> SUFFICES ASSUME NEW k \in DOMAIN kvMap, NEW t \in ToSet(p) \union DOMAIN kvMap, t # k
               PROVE  ~Within(k, t)
    BY DEF Apart, text
  <2>1. CASE t \in ToSet(text) \union DOMAIN kvMap
    BY <2>1 DEF Apart, text
  <2>2. CASE t = separator
    <3>1. k \in Tok /\ k # <<>> /\ k # separator
      BY BindingFacts DEF Apart
    <3> QED BY <2>2, <3>1, NotInMark
  <2>3. ToSet(p) \subseteq ToSet(text) \union {separator}
    BY <1>3 DEF Means
  <2> QED BY <2>1, <2>2, <2>3
<1>7. Filled(p, kvMap, keys) = [j \in DOMAIN p |-> Put(kvMap, p[j])]
  BY <1>6, FilledAtOnce
<1>8. Run([j \in DOMAIN p |-> Put(kvMap, p[j])]) = RunAt(v)
  <2>1. Through(RunR(kvMap), RunAt(<<>>), p, RunAt(<<>> \o v))
    BY <1>3, <1>4 DEF Means
  <2>2. Through(RunR(kvMap), [s |-> <<>>, loops |-> FALSE], p, RunAt(v))
    BY <1>4, <2>1 DEF RunAt
  <2> QED BY <2>2, IsRun
<1>9. Calculation(p, kvMap, keys) = RunAt(v)
  <2>1. Calculation(p, kvMap, keys) = Run(Filled(p, kvMap, keys))
    BY <1>3 DEF Calculation
  <2> QED BY <1>7, <1>8, <2>1
<1> QED BY <1>5, <1>9 DEF text, v

-----------------------------------------------------------------------------
(* Threads. *)

Registration == [name : Name, formula : Formula]
Calculating == [name : Name, kvMap : Bindings]

\* r is what Calc returns for f when the keys go in in some order.
Returned(f, kvMap, r) ==
  /\ f \in Formula
  /\ \E keys \in SetToSeqs(DOMAIN kvMap) :
       LET y == Calculation(Parsed[f].rpn, kvMap, keys)
       IN  r = (~y.loops /\ StrToBool(Top(y.s)))

\* What a thread was called with, and where it may be with that.
CallOK(t) ==
  /\ pc[t] \in {"lock", "parse", "write"} => call[t] \in Registration
  /\ pc[t] = "write" => ~Parsed[call[t].formula].loops
  /\ pc[t] = "calc" => call[t] \in Calculating
  /\ pc[t] = "loop" => \/ call[t] \in Registration
                       \/ /\ call[t] \in Calculating
                          /\ of[t] \in Formula /\ Stray(of[t], call[t].kvMap)
  /\ pc[t] = "done" => /\ call[t] \in Calculating
                       /\ of[t] # None => Returned(of[t], call[t].kvMap, result[t])

\* What is in the map is what Parse came back with for what was registered last.
MapOK == \A n \in Name : source[n] # None =>
           /\ source[n] \in Formula /\ ~Parsed[source[n]].loops
           /\ formulaMap[n] = Parsed[source[n]].rpn

IInv == /\ TypeOK
        /\ DOMAIN call = Thread /\ DOMAIN source = Name /\ DOMAIN of = Thread
        /\ MapOK
        /\ \A t \in Thread : CallOK(t)

Places == {"idle", "lock", "parse", "write", "calc", "done", "loop"}
Holding(t) == \/ pc[t] \in {"parse", "write"}
              \/ pc[t] = "loop" /\ "formula" \in DOMAIN call[t]

\* The results of the other threads stay.
SameResults(t) == \A u \in Thread : u # t => of'[u] = of[u] /\ result'[u] = result[u]

\* What a step does to the thread that takes it, and leaves of the others.
LEMMA OneThread ==
  ASSUME IInv, NEW t \in Thread, NEW b \in Places, pc' = [pc EXCEPT ![t] = b],
         NEW c, (call' = call /\ c = call[t]) \/ call' = [call EXCEPT ![t] = c],
         SameResults(t)
  PROVE  /\ pc' \in [Thread -> Places] /\ pc[t] \in Places /\ pc'[t] = b
         /\ DOMAIN call' = Thread /\ call'[t] = c
         /\ \A u \in Thread : u # t =>
              pc'[u] = pc[u] /\ call'[u] = call[u] /\ CallOK(u)' /\ (Holding(u)' <=> Holding(u))
<1>1. pc \in [Thread -> Places] /\ DOMAIN call = Thread /\ \A u \in Thread : CallOK(u)
  BY DEF IInv, TypeOK, Places
<1>2. pc' \in [Thread -> Places] /\ pc'[t] = b /\ DOMAIN call' = Thread /\ call'[t] = c
  BY <1>1
<1>3. ASSUME NEW u \in Thread, u # t
      PROVE  pc'[u] = pc[u] /\ call'[u] = call[u] /\ CallOK(u)' /\ (Holding(u)' <=> Holding(u))
  <2>1. pc'[u] = pc[u] /\ call'[u] = call[u]
    BY <1>1, <1>3
  <2>2. of'[u] = of[u] /\ result'[u] = result[u]
    BY <1>3 DEF SameResults
  <2> QED BY <1>1, <2>1, <2>2 DEF CallOK, Holding
<1> QED BY <1>1, <1>2, <1>3

\* Who holds the lock, in the way in which TypeOK says it and the other way round.
LEMMA LockFacts ==
  ASSUME IInv
  PROVE  /\ \A t \in Thread : formulaMu = t <=> Holding(t)
         /\ None \notin Thread /\ None \notin Formula
         /\ \A f \in Formula : Parsed[f].rpn # None /\ Parsed[f].rpn \in {p.rpn : p \in Range(Parsed)}
<1>1. \A t \in Thread : formulaMu = t <=> Holding(t)
  BY DEF IInv, TypeOK, Holding
<1>2. ASSUME NEW f \in Formula PROVE Parsed[f].rpn \in {p.rpn : p \in Range(Parsed)}
  <2>1. Parsed[f] \in Range(Parsed)
    BY DEF Range, Parsed
  <2> QED BY <2>1
<1> QED BY <1>1, <1>2, NoneAssumption

\* The map is as it was.
LEMMA SameMap ==
  ASSUME IInv, UNCHANGED <<formulaMap, source>>
  PROVE  /\ MapOK' /\ DOMAIN source' = Name
         /\ formulaMap' \in [Name -> {p.rpn : p \in Range(Parsed)} \union {None}]
         /\ \A n \in Name : (formulaMap'[n] = None) = (source'[n] = None)
BY DEF IInv, TypeOK, MapOK

\* The parts of the invariant after a step of thread t.
LEMMA Rebuilt ==
  ASSUME NEW t \in Thread,
         formulaMap' \in [Name -> {p.rpn : p \in Range(Parsed)} \union {None}],
         \A n \in Name : (formulaMap'[n] = None) = (source'[n] = None),
         MapOK', DOMAIN source' = Name, DOMAIN of' = Thread,
         pc' \in [Thread -> Places], DOMAIN call' = Thread,
         CallOK(t)', \A u \in Thread : u # t => CallOK(u)',
         \A u \in Thread : formulaMu' = u <=> Holding(u)',
         result' \in [Thread -> BOOLEAN \union {None}], dead' \in BOOLEAN
  PROVE  IInv'
<1>1. TypeOK'
  BY DEF TypeOK, Places, Holding
<1> QED BY <1>1 DEF IInv

LEMMA InitIInv == Init => IInv
<1> SUFFICES ASSUME Init PROVE IInv
  OBVIOUS
<1>1. \A t \in Thread : pc[t] = "idle" /\ formulaMu # t
  BY NoneAssumption DEF Init
<1> QED BY <1>1 DEF Init, IInv, TypeOK, MapOK, CallOK

LEMMA RegSteps ==
  ASSUME IInv, NEW t \in Thread, NEW n \in Name, NEW f \in Formula, CallReg(t, n, f)
  PROVE  IInv'
<1> DEFINE c == [name |-> n, formula |-> f]
<1>1. /\ pc' = [pc EXCEPT ![t] = "lock"] /\ pc[t] = "idle" /\ call' = [call EXCEPT ![t] = c]
      /\ formulaMu' = formulaMu /\ UNCHANGED <<formulaMap, source, of, result, dead>>
  BY DEF CallReg, Goto, ghosts
<1>2. c \in Registration /\ "lock" \in Places
  BY DEF Registration, Places
<1> HIDE DEF c
<1>3. /\ pc' \in [Thread -> Places] /\ pc'[t] = "lock" /\ DOMAIN call' = Thread /\ call'[t] = c
      /\ \A u \in Thread : u # t => CallOK(u)' /\ (Holding(u)' <=> Holding(u))
  BY <1>1, <1>2, OneThread DEF SameResults
<1>4. CallOK(t)'
  BY <1>2, <1>3 DEF CallOK
<1>5. \A u \in Thread : formulaMu' = u <=> Holding(u)'
  <2>1. ~Holding(t) /\ ~Holding(t)'
    BY <1>1, <1>3 DEF Holding
  <2> QED BY <1>1, <1>3, <2>1, LockFacts
<1>6. /\ result' \in [Thread -> BOOLEAN \union {None}] /\ dead' \in BOOLEAN
      /\ DOMAIN of' = Thread
  BY <1>1 DEF IInv, TypeOK
<1> QED BY <1>1, <1>3, <1>4, <1>5, <1>6, SameMap, Rebuilt

LEMMA CalcSteps ==
  ASSUME IInv, NEW t \in Thread, NEW n \in Name, NEW kvMap \in Bindings, CallCalc(t, n, kvMap)
  PROVE  IInv'
<1> DEFINE c == [name |-> n, kvMap |-> kvMap]
<1>1. /\ pc' = [pc EXCEPT ![t] = "calc"] /\ pc[t] = "idle" /\ call' = [call EXCEPT ![t] = c]
      /\ formulaMu' = formulaMu /\ UNCHANGED <<formulaMap, source, of, result, dead>>
  BY DEF CallCalc, Goto, ghosts
<1>2. c \in Calculating /\ "calc" \in Places
  BY DEF Calculating, Places
<1> HIDE DEF c
<1>3. /\ pc' \in [Thread -> Places] /\ pc'[t] = "calc" /\ DOMAIN call' = Thread /\ call'[t] = c
      /\ \A u \in Thread : u # t => CallOK(u)' /\ (Holding(u)' <=> Holding(u))
  BY <1>1, <1>2, OneThread DEF SameResults
<1>4. CallOK(t)'
  BY <1>2, <1>3 DEF CallOK
<1>5. \A u \in Thread : formulaMu' = u <=> Holding(u)'
  <2>1. ~Holding(t) /\ ~Holding(t)'
    BY <1>1, <1>3 DEF Holding
  <2> QED BY <1>1, <1>3, <2>1, LockFacts
<1>6. /\ result' \in [Thread -> BOOLEAN \union {None}] /\ dead' \in BOOLEAN
      /\ DOMAIN of' = Thread
  BY <1>1 DEF IInv, TypeOK
<1> QED BY <1>1, <1>3, <1>4, <1>5, <1>6, SameMap, Rebuilt

\* The lock is free when it is taken.
LEMMA LockSteps == ASSUME IInv, NEW t \in Thread, Lock(t) PROVE IInv'
<1>1. /\ pc' = [pc EXCEPT ![t] = "parse"] /\ pc[t] = "lock" /\ call' = call
      /\ formulaMu = None /\ formulaMu' = t /\ UNCHANGED <<formulaMap, source, of, result, dead>>
  BY DEF Lock, Goto, ghosts
<1>2. "parse" \in Places /\ call[t] \in Registration
  BY <1>1 DEF Places, IInv, CallOK
<1>3. /\ pc' \in [Thread -> Places] /\ pc'[t] = "parse" /\ DOMAIN call' = Thread
      /\ call'[t] = call[t]
      /\ \A u \in Thread : u # t => CallOK(u)' /\ (Holding(u)' <=> Holding(u))
  BY <1>1, <1>2, OneThread DEF SameResults
<1>4. CallOK(t)'
  BY <1>2, <1>3 DEF CallOK
<1>5. \A u \in Thread : formulaMu' = u <=> Holding(u)'
  <2>1. Holding(t)'
    BY <1>3 DEF Holding
  <2> QED BY <1>1, <1>3, <2>1, LockFacts
<1>6. /\ result' \in [Thread -> BOOLEAN \union {None}] /\ dead' \in BOOLEAN
      /\ DOMAIN of' = Thread
  BY <1>1 DEF IInv, TypeOK
<1> QED BY <1>1, <1>3, <1>4, <1>5, <1>6, SameMap, Rebuilt

\* Whether Parse comes back or not, the lock stays with its thread.
LEMMA ParseSteps == ASSUME IInv, NEW t \in Thread, ParseFormula(t) PROVE IInv'
<1> DEFINE b == IF Parsed[call[t].formula].loops THEN "loop" ELSE "write"
<1>1. /\ pc' = [pc EXCEPT ![t] = b] /\ pc[t] = "parse" /\ call' = call
      /\ formulaMu' = formulaMu /\ UNCHANGED <<formulaMap, source, of, result, dead>>
  BY DEF ParseFormula, Goto, ghosts
<1>2. b \in Places /\ b \in {"loop", "write"} /\ call[t] \in Registration
      /\ (b = "write" => ~Parsed[call[t].formula].loops)
  BY <1>1 DEF Places, IInv, CallOK
<1> HIDE DEF b
<1>3. /\ pc' \in [Thread -> Places] /\ pc'[t] = b /\ DOMAIN call' = Thread
      /\ call'[t] = call[t]
      /\ \A u \in Thread : u # t => CallOK(u)' /\ (Holding(u)' <=> Holding(u))
  BY <1>1, <1>2, OneThread DEF SameResults
<1>4. CallOK(t)'
  <2>1. \A f \in Formula : (~Parsed[f].loops)' = ~Parsed[f].loops
    OBVIOUS
  <2> QED BY <1>2, <1>3, <2>1 DEF CallOK
<1>5. \A u \in Thread : formulaMu' = u <=> Holding(u)'
  <2>1. Holding(t) /\ Holding(t)'
    <3>1. "formula" \in DOMAIN call[t]
      BY <1>2 DEF Registration
    <3> QED BY <1>1, <1>2, <1>3, <3>1 DEF Holding
  <2> QED BY <1>1, <1>3, <2>1, LockFacts
<1>6. /\ result' \in [Thread -> BOOLEAN \union {None}] /\ dead' \in BOOLEAN
      /\ DOMAIN of' = Thread
  BY <1>1 DEF IInv, TypeOK
<1> QED BY <1>1, <1>3, <1>4, <1>5, <1>6, SameMap, Rebuilt

\* What is written is what Parse came back with, and the lock is free.
LEMMA WriteSteps == ASSUME IInv, NEW t \in Thread, Write(t) PROVE IInv'
<1> DEFINE n == call[t].name
           f == call[t].formula
           p == Parsed[f].rpn
<1>1. /\ pc' = [pc EXCEPT ![t] = "idle"] /\ pc[t] = "write" /\ call' = [call EXCEPT ![t] = None]
      /\ formulaMap' = [formulaMap EXCEPT ![n] = p] /\ source' = [source EXCEPT ![n] = f]
      /\ formulaMu' = None /\ UNCHANGED <<of, result, dead>>
  BY DEF Write, Unlock, Goto
<1>2. "idle" \in Places /\ n \in Name /\ f \in Formula /\ ~Parsed[f].loops
  <2>1. call[t] \in Registration /\ ~Parsed[f].loops
    BY <1>1 DEF IInv, CallOK
  <2>2. n \in Name /\ f \in Formula
    BY <2>1 DEF Registration
  <2> QED BY <2>1, <2>2 DEF Places
<1>3. p # None /\ f # None /\ p \in {q.rpn : q \in Range(Parsed)}
  BY <1>2, LockFacts
<1>4. /\ pc' \in [Thread -> Places] /\ pc'[t] = "idle" /\ DOMAIN call' = Thread
      /\ \A u \in Thread : u # t => CallOK(u)' /\ (Holding(u)' <=> Holding(u))
  BY <1>1, <1>2, OneThread DEF SameResults
<1>5. CallOK(t)'
  BY <1>4 DEF CallOK
<1>6. \A u \in Thread : formulaMu' = u <=> Holding(u)'
  <2>1. Holding(t) /\ ~Holding(t)'
    BY <1>1, <1>4 DEF Holding
  <2> QED BY <1>1, <1>4, <2>1, LockFacts
<1>7. /\ result' \in [Thread -> BOOLEAN \union {None}] /\ dead' \in BOOLEAN
      /\ DOMAIN of' = Thread
  BY <1>1 DEF IInv, TypeOK
<1> HIDE DEF n, f, p
<1>8. /\ formulaMap' \in [Name -> {q.rpn : q \in Range(Parsed)} \union {None}]
      /\ DOMAIN source' = Name
      /\ \A m \in Name : (formulaMap'[m] = None) = (source'[m] = None)
  BY <1>1, <1>2, <1>3 DEF IInv, TypeOK
<1>9. MapOK'
  <2> SUFFICES ASSUME NEW m \in Name, source'[m] # None
               PROVE  /\ source'[m] \in Formula /\ ~Parsed[source'[m]].loops
                      /\ formulaMap'[m] = Parsed[source'[m]].rpn
    BY DEF MapOK
  <2>1. /\ formulaMap'[m] = IF m = n THEN p ELSE formulaMap[m]
        /\ source'[m] = IF m = n THEN f ELSE source[m]
    BY <1>1, <1>2 DEF IInv, TypeOK
  <2>2. CASE m = n
    BY <1>2, <2>1, <2>2 DEF p
  <2>3. CASE m # n
    BY <2>1, <2>3 DEF IInv, MapOK
  <2> QED BY <2>2, <2>3
<1> QED BY <1>4, <1>5, <1>6, <1>7, <1>8, <1>9, Rebuilt

\* Calc loops by what is stray in what it was given, and what it returns is the result of
\* the formula that it has read.
LEMMA ReadSteps == ASSUME IInv, NEW t \in Thread, Calc(t) PROVE IInv'
<1> DEFINE n == call[t].name
           kvMap == call[t].kvMap
           exp == formulaMap[n]
           f == source[n]
           x(keys) == Calculation(exp, kvMap, keys)
<1>1. /\ pc[t] = "calc" /\ call' = call /\ formulaMu' = formulaMu
      /\ UNCHANGED <<formulaMap, source, dead>> /\ of' = [of EXCEPT ![t] = f]
  BY DEF Calc
<1>2. call[t] \in Calculating /\ n \in Name /\ kvMap \in Bindings
  <2>1. call[t] \in Calculating
    BY <1>1 DEF IInv, CallOK
  <2> QED BY <2>1 DEF Calculating
<1>3. /\ (exp = None) = (f = None)
      /\ f # None => f \in Formula /\ ~Parsed[f].loops /\ exp = Parsed[f].rpn
  BY <1>2 DEF IInv, TypeOK, MapOK
<1>4. PICK b \in {"done", "loop"}, r \in BOOLEAN :
        /\ pc' = [pc EXCEPT ![t] = b] /\ result' = [result EXCEPT ![t] = r]
        /\ b = "loop" => f \in Formula /\ Stray(f, kvMap)
        /\ f # None => \E keys \in SetToSeqs(DOMAIN kvMap) :
                         r = (~x(keys).loops /\ StrToBool(Top(x(keys).s)))
  <2>1. CASE exp = None
    BY <1>3, <2>1 DEF Calc, Goto
  <2>2. CASE exp # None
    <3>1. PICK keys \in SetToSeqs(DOMAIN kvMap) :
            /\ Goto(t, "calc", IF x(keys).loops THEN "loop" ELSE "done")
            /\ result' = [result EXCEPT ![t] = ~x(keys).loops /\ StrToBool(Top(x(keys).s))]
      BY <2>2 DEF Calc
    <3>2. ~Stray(f, kvMap) => ~x(keys).loops
      <4>1. f \in Seq(Tok) /\ Parsed[f] = Parse(f)
        BY <1>3, <2>2, FormulaTokens DEF Parsed
      <4> QED BY <1>2, <1>3, <2>2, <4>1, CalculationEnds
    <3> HIDE DEF x
    <3>3. (~x(keys).loops /\ StrToBool(Top(x(keys).s))) \in BOOLEAN
      OBVIOUS
    <3>4. f \in Formula
      BY <1>3, <2>2
    <3> QED BY <3>1, <3>2, <3>3, <3>4 DEF Goto
  <2> QED BY <2>1, <2>2
<1>5. b \in Places
  BY DEF Places
<1>6. /\ DOMAIN of' = Thread
      /\ of'[t] = f /\ result'[t] = r
      /\ SameResults(t)
  BY <1>1, <1>4 DEF IInv, TypeOK, SameResults
<1>7. /\ pc' \in [Thread -> Places] /\ pc'[t] = b /\ DOMAIN call' = Thread /\ call'[t] = call[t]
      /\ \A u \in Thread : u # t => CallOK(u)' /\ (Holding(u)' <=> Holding(u))
  BY <1>1, <1>4, <1>5, <1>6, OneThread
<1>8. CallOK(t)'
  <2>1. f # None => Returned(f, kvMap, r)
    BY <1>3, <1>4 DEF Returned
  <2> HIDE DEF n, kvMap, exp, f, x
  <2>2. pc'[t] \in {"done", "loop"} /\ call'[t] \in Calculating
    BY <1>2, <1>7
  <2>3. pc'[t] = "loop" => of'[t] \in Formula /\ Stray(of'[t], call'[t].kvMap)
    BY <1>4, <1>6, <1>7 DEF kvMap
  <2>4. of'[t] # None => Returned(of'[t], call'[t].kvMap, result'[t])
    BY <1>6, <1>7, <2>1 DEF kvMap
  <2> QED BY <1>7, <2>2, <2>3, <2>4 DEF CallOK, Stray
<1>9. \A u \in Thread : formulaMu' = u <=> Holding(u)'
  <2>1. ~Holding(t) /\ ~Holding(t)'
    <3>1. "formula" \notin DOMAIN call[t]
      BY <1>2 DEF Calculating
    <3> QED BY <1>1, <1>7, <3>1 DEF Holding
  <2> QED BY <1>1, <1>7, <2>1, LockFacts
<1>10. result' \in [Thread -> BOOLEAN \union {None}] /\ dead' \in BOOLEAN
  BY <1>1, <1>4 DEF IInv, TypeOK
<1> QED BY <1>1, <1>6, <1>7, <1>8, <1>9, <1>10, SameMap, Rebuilt

LEMMA ReturnSteps == ASSUME IInv, NEW t \in Thread, Return(t) PROVE IInv'
<1>1. /\ pc' = [pc EXCEPT ![t] = "idle"] /\ pc[t] = "done" /\ call' = [call EXCEPT ![t] = None]
      /\ formulaMu' = formulaMu /\ result' = [result EXCEPT ![t] = None]
      /\ of' = [of EXCEPT ![t] = None] /\ UNCHANGED <<formulaMap, source, dead>>
  BY DEF Return, Goto
<1>2. /\ "idle" \in Places /\ DOMAIN of' = Thread
      /\ SameResults(t)
  BY <1>1 DEF Places, IInv, TypeOK, SameResults
<1>3. /\ pc' \in [Thread -> Places] /\ pc'[t] = "idle" /\ DOMAIN call' = Thread
      /\ \A u \in Thread : u # t => CallOK(u)' /\ (Holding(u)' <=> Holding(u))
  BY <1>1, <1>2, OneThread
<1>4. CallOK(t)'
  BY <1>3 DEF CallOK
<1>5. \A u \in Thread : formulaMu' = u <=> Holding(u)'
  <2>1. ~Holding(t) /\ ~Holding(t)'
    BY <1>1, <1>3 DEF Holding
  <2> QED BY <1>1, <1>3, <2>1, LockFacts
<1>6. result' \in [Thread -> BOOLEAN \union {None}] /\ dead' \in BOOLEAN
  BY <1>1 DEF IInv, TypeOK
<1> QED BY <1>1, <1>2, <1>3, <1>4, <1>5, <1>6, SameMap, Rebuilt

\* The invariant is kept by what threads do, and by the runtime that stops the process.
LEMMA Invariance == Spec => []IInv
<1>1. IInv /\ UNCHANGED vars => IInv'
  <2> SUFFICES ASSUME IInv, UNCHANGED vars PROVE IInv'
    OBVIOUS
  <2>1. MapOK' /\ \A t \in Thread : CallOK(t)'
    BY DEF IInv, vars, ghosts, MapOK, CallOK
  <2> QED BY <2>1 DEF IInv, TypeOK, vars, ghosts
<1>2. IInv /\ [Next]_vars => IInv'
  <2> SUFFICES ASSUME IInv, Next PROVE IInv'
    BY <1>1
  <2>1. PICK t \in Thread :
          \/ \E n \in Name : \/ \E f \in Formula : CallReg(t, n, f)
                             \/ \E kvMap \in Bindings : CallCalc(t, n, kvMap)
          \/ Lock(t) \/ ParseFormula(t) \/ Write(t)
          \/ Calc(t) \/ ReadNoticed(t) \/ Return(t)
    BY DEF Next
  <2>2. ASSUME ReadNoticed(t) PROVE IInv'
    <3>1. dead' \in BOOLEAN /\ UNCHANGED <<formulaMap, formulaMu, pc, call, result, ghosts>>
      BY <2>2 DEF ReadNoticed
    <3>2. MapOK' /\ \A u \in Thread : CallOK(u)'
      BY <3>1 DEF IInv, MapOK, CallOK, ghosts
    <3> QED BY <3>1, <3>2 DEF IInv, TypeOK, ghosts
  <2> QED BY <2>1, <2>2, RegSteps, CalcSteps, LockSteps, ParseSteps, WriteSteps, ReadSteps,
             ReturnSteps
<1> QED BY <1>2, InitIInv, PTL DEF Spec

\* The map holds a formula wherever one was registered, and the lock is held by the one
\* thread that is parsing, writing or looping in Parse (Reg, Lock and Unlock of base_formula.go).
THEOREM LockIsHeld == Spec => []TypeOK
<1>1. IInv => TypeOK
  BY DEF IInv
<1> QED BY <1>1, Invariance, PTL

\* Calc never looks for a mark that is not there, whatever formula was registered, however
\* malformed, and in whatever order the keys are filled in, when each "@" of the formula is
\* of a function name, no value has one and no key is the mark: Parse writes the mark of a
\* function before the function, and replacements neither take it away nor make up a
\* function (Parse of rpn.go, Calc of base_formula.go).
THEOREM CalcEnds == Spec => []CalcLoopsOnlyByStrays
<1>1. IInv => CalcLoopsOnlyByStrays
  <2> SUFFICES ASSUME IInv, NEW t \in Thread, pc[t] = "loop", "kvMap" \in DOMAIN call[t]
               PROVE  Stray(of[t], call[t].kvMap)
    BY DEF CalcLoopsOnlyByStrays, Stray
  <2>1. CallOK(t)
    BY DEF IInv
  <2>2. call[t] \notin Registration
    BY DEF Registration
  <2> QED BY <2>1, <2>2 DEF CallOK
<1> QED BY <1>1, Invariance, PTL

\* Calc returns the value of the formula that was registered last when it read the map: the
\* reverse Polish form that Parse writes and the stack on which Calc runs it mean what the
\* functions do, however they are nested, and whatever order the keys are filled in, when no
\* key or value gets into another (Parse of rpn.go, Calc and reverseArgs of base_formula.go).
THEOREM CalcGivesValue == Spec => []CalcIsValue
<1>1. IInv => CalcIsValue
  <2> SUFFICES ASSUME IInv, NEW t \in Thread, NEW f \in Tree, pc[t] = "done", of[t] # None,
                      of[t] = Text[f], Apart(ToSet(of[t]), call[t].kvMap)
               PROVE  result[t] = StrToBool(Value(call[t].kvMap)[f])
    BY DEF CalcIsValue
  <2> DEFINE kvMap == call[t].kvMap
             v == Value(kvMap)[f]
  <2>1. call[t] \in Calculating /\ Returned(of[t], kvMap, result[t])
    BY DEF IInv, CallOK
  <2>2. kvMap \in Bindings
    BY <2>1 DEF Calculating
  <2>3. Parsed[of[t]] = Parse(Text[f])
    BY <2>1 DEF Returned, Parsed
  <2>4. PICK keys \in SetToSeqs(DOMAIN kvMap) :
          LET y == Calculation(Parse(Text[f]).rpn, kvMap, keys)
          IN  result[t] = (~y.loops /\ StrToBool(Top(y.s)))
    BY <2>1, <2>3 DEF Returned
  <2>5. Calculation(Parse(Text[f]).rpn, kvMap, keys) = RunAt(<<v>>)
    BY <2>2, CalculationIs
  <2>6. Top(<<v>>) = v
    BY DEF Top, Last
  <2> HIDE DEF kvMap, v
  <2>7. RunAt(<<v>>).loops = FALSE /\ RunAt(<<v>>).s = <<v>>
    BY DEF RunAt
  <2>8. result[t] = (TRUE /\ StrToBool(v))
    BY <2>4, <2>5, <2>6, <2>7
  <2> QED BY <2>8 DEF kvMap, v, StrToBool
<1> QED BY <1>1, Invariance, PTL
=============================================================================
