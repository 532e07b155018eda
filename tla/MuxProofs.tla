----------------------------- MODULE MuxProofs -----------------------------
(***************************************************************************)
(* Proofs about the multiplexer, for every set of patterns, paths, hosts   *)
(* and methods: the table keeps its order, the two looks of a request at   *)
(* it are as good as one, patterns answer in the order of match, and       *)
(* redirects come to an end.                                               *)
(***************************************************************************)
EXTENDS Mux, FiniteSetTheorems, SequenceTheorems, WellFoundedInduction, TLAPS

Entry == [pattern : Pattern, method : Method]

\* A text that begins with a slash, whatever its segments are.
Text(x) == \E T : x \in Seq(T) /\ x # <<>> /\ x[1] = Blank

\* What the proofs need of a table.
IsTable(t) ==
  /\ t = [m |-> t.m, rm |-> t.rm, es |-> t.es, hosts |-> t.hosts]
  /\ t.m \subseteq {e \in Entry : Places(e.pattern) = {}}
  /\ t.rm \subseteq {e \in Entry : Places(e.pattern) # {}}
  /\ t.es \in Seq(Entry)
  /\ \A i \in DOMAIN t.es : t.es[i] \in t.m
  /\ t.hosts = \E e \in t.m \union t.rm : e.pattern[1] # Blank

\* What TypeOK says of a table.
Ordered(t) ==
  /\ ToSet(t.es) = {e \in t.m : Last(e.pattern) = Blank}
  /\ \A i, j \in DOMAIN t.es :
       i < j => t.es[i] # t.es[j] /\ Length(t.es[i].pattern) >= Length(t.es[j].pattern)
  /\ \A d, e \in t.rm : RegexpPattern(d.pattern) = RegexpPattern(e.pattern) => d = e

\* No entry stands where e goes.
Fresh(t, e) == IF urlParse(e.pattern) # {}
               THEN \A d \in t.rm : RegexpPattern(d.pattern) # RegexpPattern(e.pattern)
               ELSE \A d \in t.m : d.pattern # e.pattern

\* es2 is es with e in its place: after no shorter one, before all shorter ones.
PlacedAt(es, e, es2, k) ==
  /\ es2 \in Seq(Entry) /\ Len(es2) = Len(es) + 1
  /\ \A i \in 1 .. k - 1 : es2[i] = es[i]
  /\ es2[k] = e
  /\ \A i \in k .. Len(es) : es2[i + 1] = es[i]
  /\ \A i \in 1 .. k - 1 : Length(es[i].pattern) >= Length(e.pattern)
  /\ k <= Len(es) => Length(es[k].pattern) < Length(e.pattern)

Placed(es, e, es2) == \E k \in 1 .. Len(es) + 1 : PlacedAt(es, e, es2, k)

-----------------------------------------------------------------------------
(* Operators. *)

\* A set of numbers has a smallest one.
LEMMA MinIsLeast ==
  ASSUME NEW S \in SUBSET Nat, S # {}
  PROVE  Min(S) \in S /\ \A y \in S : Min(S) <= y
<1> DEFINE R == {ss \in Nat \X Nat : ss[1] < ss[2]}
<1>1. IsWellFoundedOn(R, Nat)
  BY NatLessThanWellFounded DEF OpToRel
<1>2. PICK x \in S : \A y \in S : ~(<<y, x>> \in R)
  <2> HIDE DEF R
  <2> QED BY <1>1, WFMin
<1>3. \A y \in S : x <= y
  <2> SUFFICES ASSUME NEW y \in S PROVE x <= y
    OBVIOUS
  <2>1. x \in Nat /\ y \in Nat /\ ~(<<y, x>> \in R)
    BY <1>2
  <2> QED BY <2>1
<1> QED BY <1>2, <1>3 DEF Min

\* The smallest of a set is what nothing in it is below.
LEMMA MinIs ==
  ASSUME NEW S \in SUBSET Nat, NEW x \in S, \A y \in S : x <= y
  PROVE  Min(S) = x
<1>1. S # {}
  OBVIOUS
<1>2. Min(S) \in S /\ Min(S) <= x /\ x <= Min(S)
  BY <1>1, MinIsLeast
<1>3. Min(S) \in Nat /\ x \in Nat
  BY <1>2
<1> QED BY <1>2, <1>3

\* What stands where when something is put between two sequences.
LEMMA Between ==
  ASSUME NEW T, NEW a \in Seq(T), NEW c \in Seq(T), NEW e \in T
  PROVE  /\ a \o <<e>> \o c \in Seq(T) /\ Len(a \o <<e>> \o c) = Len(a) + 1 + Len(c)
         /\ \A i \in 1 .. Len(a) : (a \o <<e>> \o c)[i] = a[i]
         /\ (a \o <<e>> \o c)[Len(a) + 1] = e
         /\ \A i \in 1 .. Len(c) : (a \o <<e>> \o c)[Len(a) + 1 + i] = c[i]
<1> DEFINE b == a \o <<e>>
<1>1. b \in Seq(T) /\ Len(b) = Len(a) + 1 /\ b[Len(a) + 1] = e
  OBVIOUS
<1>2. \A i \in 1 .. Len(a) : b[i] = a[i]
  OBVIOUS
<1> HIDE DEF b
<1>3. b \o c \in Seq(T) /\ Len(b \o c) = Len(b) + Len(c)
  BY <1>1
<1>4. \A i \in 1 .. Len(b) : (b \o c)[i] = b[i]
  BY <1>1
<1>5. \A i \in 1 .. Len(c) : (b \o c)[Len(b) + i] = c[i]
  BY <1>1
<1> QED BY <1>1, <1>2, <1>3, <1>4, <1>5 DEF b

\* A sequence has a length, which is its domain.
LEMMA SeqShape ==
  ASSUME NEW T, NEW s \in Seq(T)
  PROVE  Len(s) \in Nat /\ DOMAIN s = 1 .. Len(s) /\ \A i \in 1 .. Len(s) : s[i] \in T
OBVIOUS

\* Lengths of patterns can be compared.
LEMMA LengthType == ASSUME NEW p \in Pattern PROVE Length(p) \in Nat
<1>1. Len(p) \in Nat /\ DOMAIN p = 1 .. Len(p)
  BY MuxAssumption, SeqShape
<1>2. IsFiniteSet(1 .. Len(p))
  BY <1>1, FS_Interval
<1>3. Cardinality({i \in DOMAIN p : p[i] # Blank}) \in Nat
  <2> DEFINE named == {i \in DOMAIN p : p[i] # Blank}
  <2>1. named \in SUBSET (1 .. Len(p))
    BY <1>1
  <2> HIDE DEF named
  <2>2. IsFiniteSet(named)
    BY <1>2, <2>1, FS_Subset
  <2>3. Cardinality(named) \in Nat
    BY <2>2, FS_CardinalityType
  <2> QED BY <2>3 DEF named
<1> DEFINE n == Cardinality({i \in DOMAIN p : p[i] # Blank})
<1>4. Length(p) = Len(p) + n
  BY DEF Length
<1>5. n \in Nat
  BY <1>3
<1> HIDE DEF n
<1> QED BY <1>1, <1>4, <1>5

\* A pattern has parameters or none.
LEMMA ParsedIsPlaces ==
  ASSUME NEW p PROVE urlParse(p) = {} <=> Places(p) = {}
BY DEF urlParse

\* A new subtree is put in its place.
LEMMA AppendSortedPlaces ==
  ASSUME NEW es \in Seq(Entry), NEW e \in Entry
  PROVE  Placed(es, e, appendSorted(es, e))
<1> DEFINE shorter == {i \in DOMAIN es : Length(es[i].pattern) < Length(e.pattern)}
<1>1. Length(e.pattern) \in Nat /\ \A i \in 1 .. Len(es) : Length(es[i].pattern) \in Nat
  <2>1. e.pattern \in Pattern /\ \A i \in 1 .. Len(es) : es[i].pattern \in Pattern
    <3>1. \A i \in 1 .. Len(es) : es[i] \in Entry
      BY SeqShape
    <3> QED BY <3>1 DEF Entry
  <2> QED BY <2>1, LengthType
<1>2. CASE shorter = {}
  <2>1. appendSorted(es, e) = Append(es, e)
    BY <1>2 DEF appendSorted
  <2>2. \A i \in 1 .. Len(es) : Length(es[i].pattern) >= Length(e.pattern)
    BY <1>1, <1>2
  <2>3. Len(es) \in Nat
    OBVIOUS
  <2> DEFINE k == Len(es) + 1
  <2>4. k \in 1 .. Len(es) + 1 /\ ~(k <= Len(es))
    BY <2>3
  <2>5. /\ Append(es, e) \in Seq(Entry) /\ Len(Append(es, e)) = Len(es) + 1
        /\ Append(es, e)[k] = e
        /\ \A i \in 1 .. k - 1 : Append(es, e)[i] = es[i]
        /\ \A i \in 1 .. k - 1 : Length(es[i].pattern) >= Length(e.pattern)
    BY <2>2, <2>3
  <2>6. \A i \in k .. Len(es) : Append(es, e)[i + 1] = es[i]
    BY <2>3
  <2> HIDE DEF k
  <2> QED BY <2>1, <2>4, <2>5, <2>6 DEF Placed, PlacedAt
<1>3. CASE shorter # {}
  <2> DEFINE k == Min(shorter)
             new == InsertAt(es, k, e)
  <2>1. appendSorted(es, e) = new
    BY <1>3 DEF appendSorted
  <2>2. k \in shorter /\ \A j \in shorter : k <= j
    <3>1. shorter \in SUBSET Nat
      OBVIOUS
    <3> HIDE DEF shorter
    <3> QED BY <1>3, <3>1, MinIsLeast
  <2>3. k \in 1 .. Len(es) /\ Length(es[k].pattern) < Length(e.pattern)
    BY <2>2
  <2>4. \A i \in 1 .. k - 1 : Length(es[i].pattern) >= Length(e.pattern)
    <3> SUFFICES ASSUME NEW i \in 1 .. k - 1 PROVE Length(es[i].pattern) >= Length(e.pattern)
      OBVIOUS
    <3>1. i \in 1 .. Len(es) /\ ~(k <= i)
      BY <2>3
    <3>2. i \notin shorter
      BY <2>2, <3>1
    <3>3. ~(Length(es[i].pattern) < Length(e.pattern))
      BY <3>1, <3>2
    <3> QED BY <3>1, <3>3, <1>1
  <2> HIDE DEF k, shorter
  <2> DEFINE a == SubSeq(es, 1, k - 1)
             c == SubSeq(es, k, Len(es))
  <2>5. a \in Seq(Entry) /\ Len(a) = k - 1 /\ c \in Seq(Entry) /\ Len(c) = Len(es) - k + 1
    BY <2>3
  <2>6. /\ \A i \in 1 .. k - 1 : a[i] = es[i]
        /\ \A i \in 1 .. Len(es) - k + 1 : c[i] = es[k + i - 1]
    BY <2>3
  <2>7. new = a \o <<e>> \o c
    BY DEF InsertAt
  <2> HIDE DEF a, c, new
  <2>8. /\ new \in Seq(Entry) /\ Len(new) = Len(a) + 1 + Len(c)
        /\ \A i \in 1 .. Len(a) : new[i] = a[i]
        /\ new[Len(a) + 1] = e
        /\ \A i \in 1 .. Len(c) : new[Len(a) + 1 + i] = c[i]
    <3>1. a \in Seq(Entry) /\ c \in Seq(Entry)
      BY <2>5
    <3>2. /\ a \o <<e>> \o c \in Seq(Entry) /\ Len(a \o <<e>> \o c) = Len(a) + 1 + Len(c)
          /\ \A i \in 1 .. Len(a) : (a \o <<e>> \o c)[i] = a[i]
          /\ (a \o <<e>> \o c)[Len(a) + 1] = e
          /\ \A i \in 1 .. Len(c) : (a \o <<e>> \o c)[Len(a) + 1 + i] = c[i]
      <4>1. e \in Entry
        OBVIOUS
      <4> HIDE DEF Entry
      <4> QED BY <3>1, <4>1, Between
    <3> QED BY <2>7, <3>2, Zenon
  <2>9. Len(new) = Len(es) + 1 /\ new[k] = e /\ \A i \in 1 .. k - 1 : new[i] = es[i]
    BY <2>3, <2>5, <2>6, <2>8
  <2>10. \A i \in k .. Len(es) : new[i + 1] = es[i]
    <3> SUFFICES ASSUME NEW i \in k .. Len(es) PROVE new[i + 1] = es[i]
      OBVIOUS
    <3>1. i + 1 - k \in 1 .. Len(es) - k + 1 /\ k + (i + 1 - k) - 1 = i
      BY <2>3
    <3>2. new[i + 1] = c[i + 1 - k]
      <4>1. new[k + (i + 1 - k)] = c[i + 1 - k]
        <5>1. Len(a) + 1 = k /\ Len(c) = Len(es) - k + 1
          BY <2>3, <2>5
        <5>2. \A j \in 1 .. Len(c) : new[k + j] = c[j]
          BY <2>8, <5>1
        <5> QED BY <3>1, <5>1, <5>2
      <4> QED BY <2>3, <4>1
    <3> QED BY <2>6, <3>1, <3>2
  <2>11. k \in 1 .. Len(es) + 1
    BY <2>3
  <2>12. PlacedAt(es, e, new, k)
    BY <2>3, <2>4, <2>8, <2>9, <2>10 DEF PlacedAt
  <2> QED BY <2>1, <2>11, <2>12 DEF Placed
<1> QED BY <1>2, <1>3

\* The sequence with a new entry has the old ones and the new one.
LEMMA PlacedHasBoth ==
  ASSUME NEW es \in Seq(Entry), NEW e \in Entry, NEW es2, Placed(es, e, es2)
  PROVE  /\ es2 \in Seq(Entry)
         /\ ToSet(es2) = ToSet(es) \union {e}
         /\ \A i \in DOMAIN es2 : es2[i] = e \/ \E j \in DOMAIN es : es2[i] = es[j]
<1>1. PICK k \in 1 .. Len(es) + 1 :
        /\ es2 \in Seq(Entry) /\ Len(es2) = Len(es) + 1
        /\ \A i \in 1 .. k - 1 : es2[i] = es[i]
        /\ es2[k] = e
        /\ \A i \in k .. Len(es) : es2[i + 1] = es[i]
  BY DEF Placed, PlacedAt
<1>2. DOMAIN es = 1 .. Len(es) /\ Len(es) \in Nat /\ DOMAIN es2 = 1 .. Len(es) + 1
  BY <1>1
<1>3. \A i \in DOMAIN es2 : es2[i] = e \/ \E j \in DOMAIN es : es2[i] = es[j]
  <2> SUFFICES ASSUME NEW i \in 1 .. Len(es) + 1, i # k
               PROVE  \E j \in 1 .. Len(es) : es2[i] = es[j]
    BY <1>1, <1>2
  <2>1. CASE i < k
    <3>1. i \in 1 .. Len(es) /\ i \in 1 .. k - 1
      BY <1>2, <2>1
    <3> QED BY <1>1, <3>1
  <2>2. CASE i > k
    <3>1. i - 1 \in 1 .. Len(es) /\ i - 1 \in k .. Len(es) /\ (i - 1) + 1 = i
      BY <1>2, <2>2
    <3>2. es2[i] = es[i - 1]
      BY <1>1, <3>1
    <3> QED BY <3>1, <3>2
  <2> QED BY <2>1, <2>2
<1>4. \A j \in DOMAIN es : \E i \in DOMAIN es2 : es2[i] = es[j]
  <2> SUFFICES ASSUME NEW j \in 1 .. Len(es)
               PROVE  \E i \in 1 .. Len(es) + 1 : es2[i] = es[j]
    BY <1>2
  <2>1. CASE j < k
    <3>1. j \in 1 .. k - 1 /\ j \in 1 .. Len(es) + 1
      BY <1>2, <2>1
    <3> QED BY <1>1, <3>1
  <2>2. CASE j >= k
    <3>1. j \in k .. Len(es) /\ j + 1 \in 1 .. Len(es) + 1
      BY <1>2, <2>2
    <3> QED BY <1>1, <3>1
  <2> QED BY <2>1, <2>2
<1>5. k \in DOMAIN es2
  BY <1>2
<1>6. ToSet(es2) = ToSet(es) \union {e}
  BY <1>1, <1>3, <1>4, <1>5 DEF ToSet
<1> QED BY <1>1, <1>3, <1>6

\* The order from longest to shortest survives.
LEMMA PlacedInOrder ==
  ASSUME NEW es \in Seq(Entry), NEW e \in Entry, NEW es2, Placed(es, e, es2),
         \A i \in DOMAIN es : es[i] # e,
         \A i, j \in DOMAIN es :
           i < j => es[i] # es[j] /\ Length(es[i].pattern) >= Length(es[j].pattern)
  PROVE  \A i, j \in DOMAIN es2 :
           i < j => es2[i] # es2[j] /\ Length(es2[i].pattern) >= Length(es2[j].pattern)
<1>1. PICK k \in 1 .. Len(es) + 1 :
        /\ es2 \in Seq(Entry) /\ Len(es2) = Len(es) + 1
        /\ \A i \in 1 .. k - 1 : es2[i] = es[i]
        /\ es2[k] = e
        /\ \A i \in k .. Len(es) : es2[i + 1] = es[i]
        /\ \A i \in 1 .. k - 1 : Length(es[i].pattern) >= Length(e.pattern)
        /\ k <= Len(es) => Length(es[k].pattern) < Length(e.pattern)
  BY DEF Placed, PlacedAt
<1>2. DOMAIN es = 1 .. Len(es) /\ Len(es) \in Nat /\ DOMAIN es2 = 1 .. Len(es) + 1
  BY <1>1
<1>3. Length(e.pattern) \in Nat /\ \A i \in 1 .. Len(es) : Length(es[i].pattern) \in Nat
  <2>1. \A i \in 1 .. Len(es) : es[i] \in Entry
    BY SeqShape
  <2> QED BY <2>1, LengthType DEF Entry
<1>4. \A i \in k .. Len(es) : Length(e.pattern) >= Length(es[i].pattern)
  <2> SUFFICES ASSUME NEW i \in k .. Len(es)
               PROVE  Length(e.pattern) >= Length(es[i].pattern)
    OBVIOUS
  <2>1. k \in 1 .. Len(es) /\ i \in 1 .. Len(es) /\ (k = i \/ k < i) /\ k <= Len(es)
    BY <1>2
  <2>2. Length(es[k].pattern) >= Length(es[i].pattern)
    BY <1>2, <1>3, <2>1
  <2> QED BY <1>1, <1>3, <2>1, <2>2
<1> DEFINE old(i) == IF i < k THEN i ELSE i - 1
<1>5. \A i \in 1 .. Len(es) + 1 :
        i # k => old(i) \in 1 .. Len(es) /\ es2[i] = es[old(i)]
  <2> SUFFICES ASSUME NEW i \in 1 .. Len(es) + 1, i # k
               PROVE  old(i) \in 1 .. Len(es) /\ es2[i] = es[old(i)]
    OBVIOUS
  <2>1. CASE i < k
    <3>1. i \in 1 .. Len(es) /\ i \in 1 .. k - 1
      BY <1>2, <2>1
    <3> QED BY <1>1, <2>1, <3>1
  <2>2. CASE i > k
    <3>1. i - 1 \in 1 .. Len(es) /\ i - 1 \in k .. Len(es) /\ (i - 1) + 1 = i
      BY <1>2, <2>2
    <3>2. es2[i] = es[i - 1]
      BY <1>1, <3>1
    <3> QED BY <2>2, <3>1, <3>2
  <2> QED BY <2>1, <2>2
<1>6. SUFFICES ASSUME NEW i \in 1 .. Len(es) + 1, NEW j \in 1 .. Len(es) + 1, i < j
               PROVE  es2[i] # es2[j] /\ Length(es2[i].pattern) >= Length(es2[j].pattern)
  BY <1>2
<1>7. CASE i = k
  <2>1. j # k /\ old(j) \in k .. Len(es) /\ old(j) \in 1 .. Len(es)
    BY <1>2, <1>6, <1>7
  <2>2. es2[i] = e /\ es2[j] = es[old(j)]
    BY <1>1, <1>5, <1>7, <2>1
  <2> HIDE DEF old
  <2> QED BY <1>2, <1>4, <2>1, <2>2
<1>8. CASE j = k
  <2>1. i # k /\ old(i) \in 1 .. k - 1 /\ old(i) \in 1 .. Len(es)
    BY <1>2, <1>6, <1>8
  <2>2. es2[j] = e /\ es2[i] = es[old(i)]
    BY <1>1, <1>5, <1>8, <2>1
  <2> HIDE DEF old
  <2> QED BY <1>1, <1>2, <2>1, <2>2
<1>9. CASE i # k /\ j # k
  <2>1. old(i) < old(j) /\ old(i) \in 1 .. Len(es) /\ old(j) \in 1 .. Len(es)
    BY <1>2, <1>5, <1>6, <1>9
  <2>2. es2[i] = es[old(i)] /\ es2[j] = es[old(j)]
    BY <1>5, <1>9
  <2> HIDE DEF old
  <2> QED BY <1>2, <2>1, <2>2
<1> QED BY <1>7, <1>8, <1>9

-----------------------------------------------------------------------------
(* The table. *)

\* What a pattern with parameters changes.
LEMMA AddedParam ==
  ASSUME NEW t, IsTable(t), NEW e \in Entry, urlParse(e.pattern) # {}
  PROVE  Added(t, e) = [m |-> t.m, rm |-> t.rm \union {e}, es |-> t.es,
                        hosts |-> t.hosts \/ e.pattern[1] # Blank]
<1>1. Added(t, e) = [t EXCEPT !.rm = @ \union {e}, !.hosts = t.hosts \/ e.pattern[1] # Blank]
  BY DEF Added
<1>2. t = [m |-> t.m, rm |-> t.rm, es |-> t.es, hosts |-> t.hosts]
  BY DEF IsTable
<1> QED BY <1>1, <1>2

\* What a pattern without changes.
LEMMA AddedFixed ==
  ASSUME NEW t, IsTable(t), NEW e \in Entry, urlParse(e.pattern) = {}
  PROVE  Added(t, e) = [m |-> t.m \union {e}, rm |-> t.rm,
                        es |-> IF Last(e.pattern) = Blank THEN appendSorted(t.es, e) ELSE t.es,
                        hosts |-> t.hosts \/ e.pattern[1] # Blank]
<1>1. Added(t, e) = [t EXCEPT !.m = @ \union {e}, !.hosts = t.hosts \/ e.pattern[1] # Blank,
                              !.es = IF Last(e.pattern) = Blank THEN appendSorted(@, e) ELSE @]
  BY DEF Added
<1>2. t = [m |-> t.m, rm |-> t.rm, es |-> t.es, hosts |-> t.hosts]
  BY DEF IsTable
<1> QED BY <1>1, <1>2

\* A table with one more entry is a table.
LEMMA AddedIsTable ==
  ASSUME NEW t, IsTable(t), NEW e \in Entry PROVE IsTable(Added(t, e))
<1> DEFINE u == Added(t, e)
<1> SUFFICES IsTable(u)
  OBVIOUS
<1>0. t.es \in Seq(Entry)
  BY DEF IsTable
<1>1. CASE urlParse(e.pattern) # {}
  <2>1. u = [m |-> t.m, rm |-> t.rm \union {e}, es |-> t.es,
             hosts |-> t.hosts \/ e.pattern[1] # Blank]
    BY <1>1, AddedParam
  <2> HIDE DEF u
  <2>2. Places(e.pattern) # {}
    BY <1>1, ParsedIsPlaces
  <2>3. u.rm \subseteq {d \in Entry : Places(d.pattern) # {}}
    BY <2>1, <2>2 DEF IsTable
  <2>4. u.hosts = \E d \in u.m \union u.rm : d.pattern[1] # Blank
    BY <2>1 DEF IsTable
  <2> QED BY <2>1, <2>3, <2>4 DEF IsTable
<1>2. CASE urlParse(e.pattern) = {}
  <2>1. u = [m |-> t.m \union {e}, rm |-> t.rm,
             es |-> IF Last(e.pattern) = Blank THEN appendSorted(t.es, e) ELSE t.es,
             hosts |-> t.hosts \/ e.pattern[1] # Blank]
    BY <1>2, AddedFixed
  <2> HIDE DEF u
  <2>2. u.es \in Seq(Entry) /\ \A i \in DOMAIN u.es : u.es[i] \in u.m
    <3>1. CASE Last(e.pattern) = Blank
      <4>1. Placed(t.es, e, u.es)
        <5>1. u.es = appendSorted(t.es, e)
          BY <2>1, <3>1
        <5> QED BY <1>0, <5>1, AppendSortedPlaces
      <4>2. /\ u.es \in Seq(Entry)
            /\ \A i \in DOMAIN u.es : u.es[i] = e \/ \E j \in DOMAIN t.es : u.es[i] = t.es[j]
        BY <1>0, <4>1, PlacedHasBoth
      <4> QED BY <2>1, <4>2 DEF IsTable
    <3> QED BY <2>1, <3>1 DEF IsTable
  <2>3. u.hosts = \E d \in u.m \union u.rm : d.pattern[1] # Blank
    BY <2>1 DEF IsTable
  <2>4. Places(e.pattern) = {}
    BY <1>2, ParsedIsPlaces
  <2>5. u.m \subseteq {d \in Entry : Places(d.pattern) = {}}
    BY <2>1, <2>4 DEF IsTable
  <2> QED BY <2>1, <2>2, <2>3, <2>5 DEF IsTable
<1> QED BY <1>1, <1>2

\* An entry in a place of its own keeps the order of the table.
LEMMA AddedIsOrdered ==
  ASSUME NEW t, IsTable(t), Ordered(t), NEW e \in Entry, Fresh(t, e)
  PROVE  Ordered(Added(t, e))
<1> DEFINE u == Added(t, e)
<1> SUFFICES Ordered(u)
  OBVIOUS
<1>0. t.es \in Seq(Entry) /\ \A i \in DOMAIN t.es : t.es[i] \in t.m
  BY DEF IsTable
<1>1. CASE urlParse(e.pattern) # {}
  <2>1. u = [m |-> t.m, rm |-> t.rm \union {e}, es |-> t.es,
             hosts |-> t.hosts \/ e.pattern[1] # Blank]
    BY <1>1, AddedParam
  <2> HIDE DEF u
  <2>2. \A c, d \in u.rm : RegexpPattern(c.pattern) = RegexpPattern(d.pattern) => c = d
    BY <1>1, <2>1 DEF Ordered, Fresh
  <2> QED BY <2>1, <2>2 DEF Ordered
<1>2. CASE urlParse(e.pattern) = {}
  <2>1. u = [m |-> t.m \union {e}, rm |-> t.rm,
             es |-> IF Last(e.pattern) = Blank THEN appendSorted(t.es, e) ELSE t.es,
             hosts |-> t.hosts \/ e.pattern[1] # Blank]
    BY <1>2, AddedFixed
  <2>2. e \notin t.m
    BY <1>2 DEF Fresh
  <2> HIDE DEF u
  <2>3. CASE Last(e.pattern) = Blank
    <3>1. Placed(t.es, e, u.es)
      <4>1. u.es = appendSorted(t.es, e)
        BY <2>1, <2>3
      <4> QED BY <1>0, <4>1, AppendSortedPlaces
    <3>2. ToSet(u.es) = ToSet(t.es) \union {e}
      BY <1>0, <3>1, PlacedHasBoth
    <3>3. ToSet(u.es) = {d \in u.m : Last(d.pattern) = Blank}
      BY <2>1, <2>3, <3>2 DEF Ordered
    <3>4. \A i, j \in DOMAIN u.es :
            i < j => u.es[i] # u.es[j] /\ Length(u.es[i].pattern) >= Length(u.es[j].pattern)
      <4>1. \A i \in DOMAIN t.es : t.es[i] # e
        BY <1>0, <2>2
      <4>2. \A i, j \in DOMAIN t.es :
              i < j => t.es[i] # t.es[j] /\ Length(t.es[i].pattern) >= Length(t.es[j].pattern)
        BY DEF Ordered
      <4> QED BY <1>0, <3>1, <4>1, <4>2, PlacedInOrder
    <3> QED BY <2>1, <3>3, <3>4 DEF Ordered
  <2>4. CASE Last(e.pattern) # Blank
    <3>1. ToSet(u.es) = {d \in u.m : Last(d.pattern) = Blank}
      BY <2>1, <2>4 DEF Ordered
    <3> QED BY <2>1, <2>4, <3>1 DEF Ordered
  <2> QED BY <2>3, <2>4
<1> QED BY <1>1, <1>2

\* The order of the table is inductive on its own.
LEMMA TableStep ==
  IsTable(mux) /\ Ordered(mux) /\ [Next]_vars => IsTable(mux)' /\ Ordered(mux)'
<1> SUFFICES ASSUME IsTable(mux), Ordered(mux), [Next]_vars
             PROVE  IsTable(mux') /\ Ordered(mux')
  BY DEF IsTable, Ordered
<1>1. ASSUME NEW p \in Pattern, NEW method \in Method, Handle(p, method)
      PROVE  IsTable(mux') /\ Ordered(mux')
  <2> DEFINE e == [pattern |-> p, method |-> method]
  <2>1. e \in Entry /\ e.pattern = p
    BY DEF Entry
  <2>2. mux' = Added(mux, e) /\ ~Registered(p)
    BY <1>1 DEF Handle
  <2> HIDE DEF e
  <2>3. Fresh(mux, e)
    BY <2>1, <2>2 DEF Registered, Fresh
  <2> QED BY <2>1, <2>2, <2>3, AddedIsTable, AddedIsOrdered
<1>2. CASE UNCHANGED mux
  BY <1>2
<1>3. (\E p \in Pattern, method \in Method \ {"CONNECT"} : Handle(p, method)) \/ UNCHANGED mux
  BY DEF Next, vars, Request, redirectToPathSlash, ServeHTTP, Follow, Finish
<1> QED BY <1>1, <1>2, <1>3

LEMMA TableInit == Init => IsTable(mux) /\ Ordered(mux)
<1> SUFFICES ASSUME mux = NewServeMux PROVE IsTable(mux) /\ Ordered(mux)
  BY DEF Init
<1>1. <<>> \in Seq(Entry) /\ DOMAIN <<>> = {} /\ ToSet(<<>>) = {}
  BY DEF ToSet
<1> QED BY <1>1 DEF NewServeMux, IsTable, Ordered

\* However patterns come in, the subtrees stay in their order, from the longest to the
\* shortest, no two expressions are equal, and hosts tells whether there are any.
THEOREM TypeCorrect == Spec => []TypeOK
<1>1. IsTable(mux) /\ Ordered(mux) => TypeOK
  <2> SUFFICES ASSUME IsTable(mux), Ordered(mux) PROVE TypeOK
    OBVIOUS
  <2>1. mux.m \union mux.rm \subseteq [pattern : Pattern, method : Method]
    BY DEF IsTable, Entry
  <2>2. mux.hosts = \E e \in mux.m \union mux.rm : e.pattern[1] # Blank
    BY DEF IsTable
  <2> QED BY <2>1, <2>2 DEF Ordered, TypeOK
<1> QED BY <1>1, TableInit, TableStep, PTL DEF Spec

-----------------------------------------------------------------------------
(* Matching while a pattern comes in. *)

\* A text with another host is as long and has the same segments after the first.
LEMMA AtShape ==
  ASSUME NEW path, Text(path), NEW host
  PROVE  /\ \E T : At(host, path) \in Seq(T)
         /\ Len(path) \in Nat /\ Len(path) >= 1 /\ Len(At(host, path)) = Len(path)
         /\ DOMAIN path = 1 .. Len(path) /\ DOMAIN At(host, path) = 1 .. Len(path)
         /\ At(host, path)[1] = host
         /\ \A i \in 2 .. Len(path) : At(host, path)[i] = path[i]
<1>1. PICK T : path \in Seq(T) /\ path # <<>> /\ path[1] = Blank
  BY DEF Text
<1>2. Len(path) \in Nat /\ DOMAIN path = 1 .. Len(path) /\ \A i \in 1 .. Len(path) : path[i] \in T
  BY <1>1, SeqShape
<1>3. Len(path) >= 1
  <2>1. Len(path) \in Nat \ {0}
    BY <1>1, EmptySeq
  <2> QED BY <2>1
<1> DEFINE S == T \union {host}
<1>4. At(host, path) = [i \in 1 .. Len(path) |-> IF i = 1 THEN host ELSE path[i]]
  BY <1>2 DEF At
<1>5. At(host, path) \in [1 .. Len(path) -> S]
  BY <1>2, <1>4
<1> HIDE DEF S
<1>6. At(host, path) \in Seq(S) /\ Len(At(host, path)) = Len(path)
  BY <1>2, <1>5
<1> QED BY <1>2, <1>3, <1>4, <1>6

\* Without a host it is the same.
LEMMA AtNone == ASSUME NEW path, Text(path) PROVE At(Blank, path) = path
<1>1. PICK T : path \in Seq(T) /\ path # <<>> /\ path[1] = Blank
  BY DEF Text
<1>2. Len(path) \in Nat \ {0} /\ DOMAIN path = 1 .. Len(path) /\ path \in [1 .. Len(path) -> T]
  BY <1>1, EmptySeq, LenProperties
<1>3. At(Blank, path) = [i \in 1 .. Len(path) |-> path[i]]
  BY <1>1, <1>2 DEF At
<1> QED BY <1>2, <1>3

\* A pattern longer than a text is neither the text nor the root of a subtree it is in.
LEMMA LongerMisses ==
  ASSUME NEW text, NEW p, Len(text) \in Nat, Len(p) \in Nat, Len(p) > Len(text)
  PROVE  p # text /\ ~HasPrefix(text, p)
BY DEF HasPrefix

\* A pattern without a host has more than the empty segment.
LEMMA PatternIsLong == ASSUME NEW p \in Pattern, p[1] = Blank PROVE Len(p) >= 2
<1>1. p \in Seq(STRING) /\ p # <<>> /\ p # <<Blank>>
  BY MuxAssumption
<1>2. Len(p) \in Nat \ {0}
  BY <1>1, EmptySeq
<1>3. Len(p) # 1
  <2> SUFFICES ASSUME Len(p) = 1 PROVE p = <<Blank>>
    BY <1>1
  <2> DEFINE S == STRING \union {Blank}
             q == <<Blank>>
  <2>1. q \in Seq({Blank}) /\ Len(q) = 1 /\ q[1] = Blank
    OBVIOUS
  <2>2. p \in Seq(S) /\ q \in Seq(S)
    <3>1. STRING \subseteq S /\ {Blank} \subseteq S
      OBVIOUS
    <3> HIDE DEF S, q
    <3> QED BY <1>1, <2>1, <3>1, SeqMonotonic
  <2> HIDE DEF S, q
  <2>3. Len(p) = Len(q)
    BY <2>1
  <2>4. \A i \in 1 .. Len(p) : p[i] = q[i]
    BY <2>1
  <2>5. p = q
    BY <2>2, <2>3, <2>4, SeqEqual
  <2> QED BY <2>5, Zenon DEF q
<1>4. \A n \in Nat \ {0} : n # 1 => n >= 2
  OBVIOUS
<1> QED BY <1>2, <1>3, <1>4, Zenon

\* A subtree that a text is not in does not change which one comes first.
LEMMA SameTrees ==
  ASSUME NEW t, NEW u, t.es \in Seq(Entry), NEW e \in Entry, Placed(t.es, e, u.es),
         NEW text, NEW method, ~HasPrefix(text, e.pattern)
  PROVE  /\ Trees(t, text, method) = {} <=> Trees(u, text, method) = {}
         /\ Trees(t, text, method) # {} =>
              t.es[Min(Trees(t, text, method))] = u.es[Min(Trees(u, text, method))]
<1>1. PICK k \in 1 .. Len(t.es) + 1 :
        /\ u.es \in Seq(Entry) /\ Len(u.es) = Len(t.es) + 1
        /\ \A i \in 1 .. k - 1 : u.es[i] = t.es[i]
        /\ u.es[k] = e
        /\ \A i \in k .. Len(t.es) : u.es[i + 1] = t.es[i]
  BY DEF Placed, PlacedAt
<1>2. DOMAIN t.es = 1 .. Len(t.es) /\ Len(t.es) \in Nat /\ DOMAIN u.es = 1 .. Len(t.es) + 1
  BY <1>1
<1> DEFINE old == Trees(t, text, method)
           new == Trees(u, text, method)
           above(i) == IF i < k THEN i ELSE i + 1
<1>3. \A i \in 1 .. Len(t.es) : above(i) \in 1 .. Len(t.es) + 1 /\ u.es[above(i)] = t.es[i]
  <2> SUFFICES ASSUME NEW i \in 1 .. Len(t.es)
               PROVE  above(i) \in 1 .. Len(t.es) + 1 /\ u.es[above(i)] = t.es[i]
    OBVIOUS
  <2>1. CASE i < k
    <3>1. i \in 1 .. k - 1
      BY <1>2, <2>1
    <3> QED BY <1>1, <1>2, <2>1, <3>1
  <2>2. CASE ~(i < k)
    <3>1. i \in k .. Len(t.es)
      BY <1>2, <2>2
    <3> QED BY <1>1, <1>2, <2>2, <3>1
  <2> QED BY <2>1, <2>2
<1>4. \A j \in 1 .. Len(t.es) + 1 : j # k => \E i \in 1 .. Len(t.es) : j = above(i)
  <2> SUFFICES ASSUME NEW j \in 1 .. Len(t.es) + 1, j # k
               PROVE  \E i \in 1 .. Len(t.es) : j = above(i)
    OBVIOUS
  <2>1. CASE j < k
    <3>1. j \in 1 .. Len(t.es) /\ j = above(j)
      BY <1>2, <2>1
    <3> QED BY <3>1
  <2>2. CASE j > k
    <3>1. j - 1 \in 1 .. Len(t.es) /\ j = above(j - 1)
      BY <1>2, <2>2
    <3> QED BY <3>1
  <2> QED BY <2>1, <2>2
<1>5. \A i, j \in 1 .. Len(t.es) : i <= j => above(i) <= above(j)
  BY <1>2
<1>6. \A i \in old : i \in 1 .. Len(t.es) /\ above(i) \in new
  <2> HIDE DEF above
  <2> QED BY <1>2, <1>3 DEF Trees
<1>7. \A j \in new : \E i \in old : j = above(i)
  <2> SUFFICES ASSUME NEW j \in new PROVE \E i \in old : j = above(i)
    OBVIOUS
  <2> HIDE DEF above
  <2>1. j \in 1 .. Len(t.es) + 1 /\ j # k
    BY <1>1, <1>2 DEF Trees
  <2>2. PICK i \in 1 .. Len(t.es) : j = above(i)
    BY <1>4, <2>1
  <2>3. u.es[j] = t.es[i]
    BY <1>3, <2>2
  <2>4. i \in old
    BY <1>2, <2>3 DEF Trees
  <2> QED BY <2>2, <2>4
<1> HIDE DEF above
<1>8. ASSUME old # {} PROVE t.es[Min(old)] = u.es[Min(new)]
  <2>1. old \in SUBSET Nat /\ new \in SUBSET Nat
    BY <1>2 DEF Trees
  <2> HIDE DEF old, new
  <2>2. Min(old) \in old /\ \A i \in old : Min(old) <= i
    BY <1>8, <2>1, MinIsLeast
  <2>3. above(Min(old)) \in new /\ \A j \in new : above(Min(old)) <= j
    BY <1>5, <1>6, <1>7, <2>2
  <2>4. Min(new) = above(Min(old))
    BY <2>1, <2>3, MinIs
  <2> QED BY <1>3, <1>6, <2>2, <2>4
<1> QED BY <1>6, <1>7, <1>8

\* A pattern without parameters that a text does not fit changes nothing for it.
LEMMA SameMatch ==
  ASSUME NEW t, IsTable(t), NEW e \in Entry, urlParse(e.pattern) = {}
  PROVE  \A text, method :
           e.pattern # text /\ ~HasPrefix(text, e.pattern) =>
             match(Added(t, e), text, method) = match(t, text, method)
<1> SUFFICES ASSUME NEW text, NEW method, e.pattern # text, ~HasPrefix(text, e.pattern)
             PROVE  match(Added(t, e), text, method) = match(t, text, method)
  OBVIOUS
<1> DEFINE u == Added(t, e)
           exactT == {d \in t.m : d.pattern = text /\ d.method = method}
           exactU == {d \in u.m : d.pattern = text /\ d.method = method}
           treesT == Trees(t, text, method)
           treesU == Trees(u, text, method)
<1>1. /\ u.m = t.m \union {e} /\ u.rm = t.rm
      /\ u.es = IF Last(e.pattern) = Blank THEN appendSorted(t.es, e) ELSE t.es
  <2>1. u = [m |-> t.m \union {e}, rm |-> t.rm,
             es |-> IF Last(e.pattern) = Blank THEN appendSorted(t.es, e) ELSE t.es,
             hosts |-> t.hosts \/ e.pattern[1] # Blank]
    BY AddedFixed
  <2> HIDE DEF u
  <2> QED BY <2>1
<1> HIDE DEF u
<1>2. exactT = exactU
  BY <1>1
<1>3. /\ treesT = {} <=> treesU = {}
      /\ treesT # {} => t.es[Min(treesT)] = u.es[Min(treesU)]
  <2>1. CASE Last(e.pattern) = Blank
    <3>1. t.es \in Seq(Entry) /\ u.es = appendSorted(t.es, e)
      BY <1>1, <2>1 DEF IsTable
    <3>2. Placed(t.es, e, u.es)
      BY <3>1, AppendSortedPlaces
    <3> QED BY <3>1, <3>2, SameTrees
  <2>2. CASE Last(e.pattern) # Blank
    <3>1. u.es = t.es
      BY <1>1, <2>2
    <3> QED BY <3>1 DEF Trees
  <2> QED BY <2>1, <2>2
<1> DEFINE params == {d \in t.rm : Fits(d.pattern, text) /\ d.method = method}
           Result(exact, treeless, first) ==
             CASE exact # {} -> {Handler(d, text) : d \in exact}
               [] exact = {} /\ params # {} -> {Handler(d, text) : d \in params}
               [] OTHER -> IF treeless THEN {} ELSE {Handler(first, text)}
<1>4. match(t, text, method) = Result(exactT, treesT = {}, t.es[Min(treesT)])
  BY DEF match
<1>5. match(u, text, method) = Result(exactU, treesU = {}, u.es[Min(treesU)])
  BY <1>1 DEF match
<1> HIDE DEF exactT, exactU, treesT, treesU, params
<1>6. CASE treesT = {}
  BY <1>2, <1>3, <1>4, <1>5, <1>6 DEF u
<1>7. CASE treesT # {}
  BY <1>2, <1>3, <1>4, <1>5, <1>7 DEF u
<1> QED BY <1>6, <1>7

\* A pattern without a host fits a text whatever its host.
LEMMA FitsAnyHost ==
  ASSUME NEW path, Text(path), NEW host, NEW p \in Pattern, p[1] = Blank
  PROVE  Fits(p, At(host, path)) <=> Fits(p, path)
<1>1. Len(p) \in Nat /\ DOMAIN p = 1 .. Len(p)
  BY MuxAssumption, SeqShape
<1>2. Len(At(host, path)) = Len(path) /\ \A i \in 2 .. Len(path) : At(host, path)[i] = path[i]
  BY AtShape
<1>3. \A i \in 1 .. Len(p) : Len(p) = Len(path) =>
        \/ i \in {1, Len(p)} /\ p[i] = Blank
        \/ At(host, path)[i] = path[i]
  BY <1>1, <1>2
<1> QED BY <1>1, <1>2, <1>3 DEF Fits

\* It yields the same parameters with a host as without.
LEMMA HandlerAnyHost ==
  ASSUME NEW path, Text(path), NEW host, NEW e \in Entry, e.pattern[1] = Blank,
         Fits(e.pattern, path)
  PROVE  Handler(e, At(host, path)) = Handler(e, path)
<1> DEFINE p == e.pattern
<1>1. p \in Pattern /\ p[1] = Blank /\ Fits(p, path)
  BY DEF Entry
<1> HIDE DEF p
<1>2. Len(p) \in Nat /\ DOMAIN p = 1 .. Len(p)
  BY <1>1, MuxAssumption, SeqShape
<1>3. ASSUME urlParse(p) # {}
      PROVE  At(host, path)[Min(Places(p))] = path[Min(Places(p))]
  <2>1. Places(p) # {}
    BY <1>3 DEF urlParse
  <2>0. Places(p) \in SUBSET Nat
    BY <1>2 DEF Places
  <2>2. Min(Places(p)) \in Places(p)
    BY <2>0, <2>1, MinIsLeast
  <2>3. Min(Places(p)) \in 1 .. Len(p) /\ Min(Places(p)) # 1
    BY <1>1, <1>2, <2>2, MuxAssumption DEF Places
  <2>4. Min(Places(p)) \in 2 .. Len(path)
    <3>1. Len(p) = Len(path)
      BY <1>1 DEF Fits
    <3> QED BY <1>2, <2>3, <3>1
  <2> QED BY <2>4, AtShape
<1>4. CASE urlParse(p) # {}
  BY <1>3, <1>4 DEF Handler, p
<1>5. CASE urlParse(p) = {}
  BY <1>5 DEF Handler, p
<1> QED BY <1>4, <1>5

\* While no pattern has a host, a text with a host matches nothing, or what it matches
\* without, unless the path itself is registered.
LEMMA HostMatchesNoMore ==
  ASSUME NEW t, IsTable(t), t.hosts = FALSE, NEW path, Text(path), NEW host, host # Blank,
         NEW method, \A e \in t.m : e.pattern # path
  PROVE  \/ match(t, At(host, path), method) = {}
         \/ match(t, At(host, path), method) = match(t, path, method)
<1> DEFINE text == At(host, path)
           exact(x) == {e \in t.m : e.pattern = x /\ e.method = method}
           params(x) == {e \in t.rm : Fits(e.pattern, x) /\ e.method = method}
<1>1. /\ \A e \in t.m \union t.rm : e \in Entry /\ e.pattern \in Pattern /\ e.pattern[1] = Blank
      /\ t.es \in Seq(Entry) /\ \A i \in DOMAIN t.es : t.es[i] \in t.m
  BY DEF IsTable, Entry
<1>2. text[1] = host
  BY AtShape
<1> HIDE DEF text
<1>3. exact(text) = {} /\ exact(path) = {}
  BY <1>1, <1>2
<1>4. Trees(t, text, method) = {}
  <2> SUFFICES ASSUME NEW i \in DOMAIN t.es, HasPrefix(text, t.es[i].pattern) PROVE FALSE
    BY DEF Trees
  <2> DEFINE p == t.es[i].pattern
  <2>1. p \in Pattern /\ p[1] = Blank /\ HasPrefix(text, p)
    BY <1>1
  <2> HIDE DEF p
  <2>2. Len(p) >= 2 /\ Len(p) \in Nat
    BY <2>1, PatternIsLong, MuxAssumption, SeqShape
  <2>3. 1 \in 1 .. Len(p) - 1
    BY <2>2
  <2>4. text[1] = p[1]
    BY <2>1, <2>3 DEF HasPrefix
  <2> QED BY <1>2, <2>1, <2>4
<1>5. params(text) = params(path)
  <2>1. \A e \in t.rm : Fits(e.pattern, text) <=> Fits(e.pattern, path)
    BY <1>1, FitsAnyHost DEF text
  <2> QED BY <2>1
<1>6. {Handler(e, text) : e \in params(text)} = {Handler(e, path) : e \in params(path)}
  <2>1. \A e \in params(path) : Handler(e, text) = Handler(e, path)
    BY <1>1, HandlerAnyHost DEF text
  <2> HIDE DEF params
  <2> QED BY <1>5, <2>1
<1>7. match(t, text, method) = IF params(text) # {} THEN {Handler(e, text) : e \in params(text)}
                               ELSE {}
  BY <1>3, <1>4 DEF match
<1>8. params(path) # {} => match(t, path, method) = {Handler(e, path) : e \in params(path)}
  BY <1>3 DEF match
<1> HIDE DEF params
<1> QED BY <1>5, <1>6, <1>7, <1>8 DEF text

\* The heart of AnswerFits: a subtree to whose slash a request would now be redirected does
\* not change which handler it gets.
LEMMA SameHandler ==
  ASSUME NEW t, IsTable(t), NEW e \in Entry, NEW path, Text(path), NEW host, NEW rh,
         rh \in {host, Blank}, NEW method,
         ~shouldRedirect(t, rh, path), shouldRedirect(Added(t, e), rh, path)
  PROVE  handler(Added(t, e), host, path, method) = handler(t, host, path, method)
<1> DEFINE u == Added(t, e)
           hostly == At(host, path)
<1>1. urlParse(e.pattern) = {}
  <2> SUFFICES ASSUME urlParse(e.pattern) # {} PROVE FALSE
    OBVIOUS
  <2>1. u = [m |-> t.m, rm |-> t.rm \union {e}, es |-> t.es,
             hosts |-> t.hosts \/ e.pattern[1] # Blank]
    BY AddedParam
  <2>2. shouldRedirect(u, rh, path)
    OBVIOUS
  <2> HIDE DEF u
  <2>3. u.m = t.m
    BY <2>1
  <2> QED BY <2>2, <2>3 DEF shouldRedirect
<1>2. u.m = t.m \union {e} /\ u.hosts = (t.hosts \/ e.pattern[1] # Blank)
  <2>1. u = [m |-> t.m \union {e}, rm |-> t.rm,
             es |-> IF Last(e.pattern) = Blank THEN appendSorted(t.es, e) ELSE t.es,
             hosts |-> t.hosts \/ e.pattern[1] # Blank]
    BY <1>1, AddedFixed
  <2> HIDE DEF u
  <2> QED BY <2>1
<1> HIDE DEF u
<1>3. /\ \A d \in t.m : d.pattern # path
      /\ \E c \in {path, At(rh, path)} : e.pattern = Append(c, Blank)
  BY <1>2 DEF shouldRedirect, u
<1>4. PICK c \in {path, hostly} : e.pattern = Append(c, Blank)
  BY <1>3, AtNone
<1>5. /\ Len(path) \in Nat /\ Len(hostly) = Len(path)
      /\ Len(e.pattern) = Len(path) + 1
  <2>1. \E T : path \in Seq(T)
    BY DEF Text
  <2>2. \E T : hostly \in Seq(T)
    BY AtShape
  <2>3. Len(path) \in Nat /\ Len(hostly) = Len(path)
    BY AtShape
  <2> HIDE DEF hostly
  <2>4. PICK T : c \in Seq(T)
    BY <2>1, <2>2
  <2>5. Len(c) = Len(path)
    BY <2>3
  <2> QED BY <1>4, <2>3, <2>4, <2>5
<1> HIDE DEF hostly
<1>6. match(u, path, method) = match(t, path, method)
      /\ match(u, hostly, method) = match(t, hostly, method)
  <2>1. Len(e.pattern) \in Nat /\ Len(e.pattern) > Len(path) /\ Len(e.pattern) > Len(hostly)
    BY <1>5
  <2>2. e.pattern # path /\ ~HasPrefix(path, e.pattern)
    BY <1>5, <2>1, LongerMisses
  <2>3. e.pattern # hostly /\ ~HasPrefix(hostly, e.pattern)
    BY <1>5, <2>1, LongerMisses
  <2>4. \A text : e.pattern # text /\ ~HasPrefix(text, e.pattern) =>
                   match(u, text, method) = match(t, text, method)
    <3>1. IsTable(t) /\ e \in Entry /\ urlParse(e.pattern) = {}
      BY <1>1
    <3>2. \A text, verb : e.pattern # text /\ ~HasPrefix(text, e.pattern) =>
            match(Added(t, e), text, verb) = match(t, text, verb)
      BY <3>1, SameMatch
    <3> QED BY <3>2 DEF u
  <2> QED BY <2>2, <2>3, <2>4
<1>7. CASE t.hosts = u.hosts
  BY <1>6, <1>7 DEF handler, u, hostly
<1>8. CASE t.hosts # u.hosts
  <2>1. t.hosts = FALSE /\ u.hosts = TRUE
    BY <1>2, <1>8 DEF IsTable
  <2>2. match(t, hostly, method) = {} \/ match(t, hostly, method) = match(t, path, method)
    <3>1. CASE host = Blank
      BY <3>1, AtNone DEF hostly
    <3>2. CASE host # Blank
      BY <1>3, <2>1, <3>2, HostMatchesNoMore DEF hostly
    <3> QED BY <3>1, <3>2
  <2> DEFINE Choice(first, second) ==
               CASE first # {} -> first
                 [] first = {} /\ second # {} -> second
                 [] OTHER -> {NotFound}
  <2>3. handler(u, host, path, method) = Choice(match(u, hostly, method), match(u, path, method))
    BY <2>1 DEF handler, hostly
  <2>4. handler(t, host, path, method) = Choice({}, match(t, path, method))
    BY <2>1 DEF handler
  <2>5. handler(u, host, path, method) = Choice(match(t, hostly, method), match(t, path, method))
    BY <1>6, <2>3
  <2>6. Choice(match(t, hostly, method), match(t, path, method))
          = Choice({}, match(t, path, method))
    BY <2>2
  <2> QED BY <2>4, <2>5, <2>6 DEF u
<1> QED BY <1>7, <1>8

-----------------------------------------------------------------------------
(* Cleaning a path twice. *)

\* The places of a path that path.Clean keeps, and how many of them there are up to one.
Named(p) == {i \in DOMAIN p : p[i] \notin {Blank, ".", ".."}}
Ups(p) == {i \in DOMAIN p : p[i] = ".."}
Kept(p) == {i \in Named(p) : \A j \in Ups(p) :
              Cardinality({k \in Ups(p) : i < k /\ k <= j})
                <= Cardinality({k \in Named(p) : i < k /\ k <= j})}
UpTo(S, i) == {k \in S : 0 < k /\ k <= i}
Nth(S, n) == CHOOSE i \in S : Cardinality(UpTo(S, i)) = n

LEMMA NamesIs ==
  ASSUME NEW p
  PROVE  Names(p) = [n \in 1 .. Cardinality(Kept(p)) |-> p[Nth(Kept(p), n)]]
BY DEF Names, Named, Ups, Kept, UpTo, Nth

\* One of the numbers in a set is the n-th.
LEMMA NthExists ==
  ASSUME NEW L \in Nat, NEW S \in SUBSET (1 .. L), NEW n \in 1 .. Cardinality(S)
  PROVE  \E i \in S : Cardinality(UpTo(S, i)) = n
<1> DEFINE W(i) == Cardinality(UpTo(S, i))
<1>0. IsFiniteSet(S) /\ Cardinality(S) \in Nat
  <2>1. IsFiniteSet(1 .. L)
    BY FS_Interval
  <2>2. IsFiniteSet(S)
    BY <2>1, FS_Subset
  <2> QED BY <2>2, FS_CardinalityType
<1>1. \A i : IsFiniteSet(UpTo(S, i)) /\ W(i) \in Nat
  <2>1. \A i : UpTo(S, i) \subseteq S
    BY DEF UpTo
  <2>2. \A i : IsFiniteSet(UpTo(S, i))
    BY <1>0, <2>1, FS_Subset
  <2> QED BY <2>2, FS_CardinalityType
<1>2. W(0) = 0
  <2>1. ASSUME NEW k \in UpTo(S, 0) PROVE FALSE
    <3>1. k \in S /\ 0 < k /\ k <= 0
      BY DEF UpTo
    <3>2. k \in 1 .. L
      BY <3>1, Zenon
    <3> QED BY <3>1, <3>2
  <2>2. UpTo(S, 0) = {}
    BY <2>1
  <2> QED BY <2>2, FS_EmptySet
<1>3. W(L) = Cardinality(S)
  <2>1. ASSUME NEW k \in S PROVE 0 < k /\ k <= L
    <3>1. k \in 1 .. L
      BY Zenon
    <3> QED BY <3>1
  <2>2. UpTo(S, L) = S
    BY <2>1, Zenon DEF UpTo
  <2> QED BY <2>2
<1>4. \A i \in 1 .. L : W(i) = IF i \in S THEN W(i - 1) + 1 ELSE W(i - 1)
  <2> SUFFICES ASSUME NEW i \in 1 .. L
               PROVE  W(i) = IF i \in S THEN W(i - 1) + 1 ELSE W(i - 1)
    OBVIOUS
  <2>1. ASSUME NEW k \in S PROVE (0 < k /\ k <= i) <=> (0 < k /\ k <= i - 1) \/ k = i
    <3>1. k \in 1 .. L
      BY Zenon
    <3> QED BY <3>1
  <2>2. ~(i <= i - 1)
    OBVIOUS
  <2>3. CASE i \in S
    <3>1. UpTo(S, i) = UpTo(S, i - 1) \union {i} /\ i \notin UpTo(S, i - 1)
      BY <2>1, <2>2, <2>3, Zenon DEF UpTo
    <3> QED BY <1>1, <2>3, <3>1, FS_AddElement
  <2>4. CASE i \notin S
    <3>1. UpTo(S, i) = UpTo(S, i - 1)
      BY <2>1, <2>4, Zenon DEF UpTo
    <3> QED BY <2>4, <3>1
  <2> QED BY <2>3, <2>4
<1> HIDE DEF W
<1> DEFINE R == {i \in 0 .. L : W(i) >= n}
           m == Min(R)
<1>5. m \in R /\ \A i \in R : m <= i
  <2>1. R \in SUBSET Nat /\ L \in R
    BY <1>0, <1>3
  <2> HIDE DEF R
  <2> QED BY <2>1, MinIsLeast
<1>6. m \in 0 .. L /\ W(m) >= n
  BY <1>5
<1>7. m # 0
  BY <1>0, <1>2, <1>6
<1>8. m \in 1 .. L /\ m - 1 \in 0 .. L /\ ~(m <= m - 1)
  BY <1>6, <1>7
<1>9. W(m - 1) < n
  <2>1. m - 1 \notin R
    BY <1>5, <1>8
  <2>2. ~(W(m - 1) >= n) /\ W(m - 1) \in Nat
    BY <1>1, <1>8, <2>1 DEF W
  <2> HIDE DEF m
  <2> QED BY <1>0, <2>2
<1> HIDE DEF m, R
<1>10. m \in S /\ W(m) = n
  <2>1. W(m) \in Nat /\ W(m - 1) \in Nat /\ n \in Nat
    BY <1>0, <1>1 DEF W
  <2>2. W(m) = IF m \in S THEN W(m - 1) + 1 ELSE W(m - 1)
    BY <1>4, <1>8
  <2> QED BY <1>6, <1>9, <2>1, <2>2
<1> QED BY <1>10 DEF W

\* The names of a path are segments of it, none of them empty, "." or "..".
LEMMA NamesAreNames ==
  ASSUME NEW T, NEW path \in Seq(T)
  PROVE  /\ Names(path) \in Seq(T)
         /\ \A i \in 1 .. Len(Names(path)) : Names(path)[i] \notin {Blank, ".", ".."}
<1> DEFINE m == Cardinality(Kept(path))
           nth(n) == Nth(Kept(path), n)
           names == [n \in 1 .. m |-> path[nth(n)]]
<1>1. Len(path) \in Nat /\ DOMAIN path = 1 .. Len(path) /\ \A i \in 1 .. Len(path) : path[i] \in T
  BY SeqShape
<1>2. Kept(path) \in SUBSET (1 .. Len(path))
  BY <1>1 DEF Kept, Named
<1>3. m \in Nat
  <2>1. IsFiniteSet(1 .. Len(path))
    BY <1>1, FS_Interval
  <2>2. IsFiniteSet(Kept(path))
    BY <1>2, <2>1, FS_Subset
  <2> QED BY <2>2, FS_CardinalityType
<1>4. \A n \in 1 .. m : nth(n) \in Kept(path)
  <2> SUFFICES ASSUME NEW n \in 1 .. m PROVE nth(n) \in Kept(path)
    OBVIOUS
  <2>1. \E i \in Kept(path) : Cardinality(UpTo(Kept(path), i)) = n
    BY <1>1, <1>2, NthExists
  <2> QED BY <2>1 DEF Nth
<1>5. \A i \in Kept(path) : path[i] \in T /\ path[i] \notin {Blank, ".", ".."}
  BY <1>1, <1>2 DEF Kept, Named
<1> HIDE DEF m, nth
<1>6. names \in [1 .. m -> T] /\ \A n \in 1 .. m : names[n] \notin {Blank, ".", ".."}
  BY <1>4, <1>5
<1>7. names = Names(path)
  BY NamesIs DEF m, nth
<1> HIDE DEF names
<1>8. names \in Seq(T) /\ Len(names) = m
  BY <1>3, <1>6
<1> QED BY <1>6, <1>7, <1>8

\* The empty segment is no "..".
LEMMA BlankIsNoUp == Blank # ".."
BY Zenon DEF Blank

\* The n-th number from 2 on is n + 1.
LEMMA NthOfInterval ==
  ASSUME NEW m \in Nat
  PROVE  /\ Cardinality(2 .. m + 1) = m
         /\ \A n \in 1 .. m : Nth(2 .. m + 1, n) = n + 1
<1>1. \A n \in Nat : Cardinality(2 .. n + 1) = n
  <2> SUFFICES ASSUME NEW n \in Nat PROVE Cardinality(2 .. n + 1) = n
    OBVIOUS
  <2>1. 2 \in Int /\ n + 1 \in Int
    OBVIOUS
  <2>2. Cardinality(2 .. n + 1) = IF 2 > n + 1 THEN 0 ELSE n + 1 - 2 + 1
    BY <2>1, FS_Interval
  <2> QED BY <2>2
<1>2. \A i \in 2 .. m + 1 : Cardinality(UpTo(2 .. m + 1, i)) = i - 1
  <2> SUFFICES ASSUME NEW i \in 2 .. m + 1 PROVE Cardinality(UpTo(2 .. m + 1, i)) = i - 1
    OBVIOUS
  <2>1. UpTo(2 .. m + 1, i) = 2 .. i
    BY DEF UpTo
  <2>2. i - 1 \in Nat /\ (i - 1) + 1 = i
    OBVIOUS
  <2>3. Cardinality(2 .. (i - 1) + 1) = i - 1
    BY <1>1, <2>2
  <2> QED BY <2>1, <2>2, <2>3
<1>3. ASSUME NEW n \in 1 .. m
      PROVE  Nth(2 .. m + 1, n) = n + 1
  <2> DEFINE P(i) == Cardinality(UpTo(2 .. m + 1, i)) = n
  <2>1. n + 1 \in 2 .. m + 1 /\ (n + 1) - 1 = n
    OBVIOUS
  <2>2. P(n + 1)
    BY <1>2, <2>1
  <2>3. \A i \in 2 .. m + 1 : P(i) => i = n + 1
    <3> SUFFICES ASSUME NEW i \in 2 .. m + 1, P(i) PROVE i = n + 1
      OBVIOUS
    <3>1. i - 1 = n
      BY <1>2
    <3> HIDE DEF P
    <3> QED BY <3>1
  <2> HIDE DEF P
  <2>4. (CHOOSE i \in 2 .. m + 1 : P(i)) = n + 1
    BY <2>1, <2>2, <2>3, Zenon
  <2> QED BY <2>4 DEF P, Nth
<1> QED BY <1>1, <1>3

\* A path that is made of names has these names.
LEMMA NamesOfNames ==
  ASSUME NEW T, NEW s \in Seq(T), \A i \in 1 .. Len(s) : s[i] \notin {Blank, ".", ".."},
         NEW x \in Seq(T), x[1] = Blank, \A i \in 1 .. Len(s) : x[i + 1] = s[i],
         Len(x) = Len(s) + 1 \/ Len(x) = Len(s) + 2,
         Len(x) = Len(s) + 2 => x[Len(s) + 2] = Blank
  PROVE  Names(x) = s
<1> DEFINE m == Len(s)
           l == Len(x)
<1>1. m \in Nat /\ l \in Nat /\ DOMAIN x = 1 .. l
  BY SeqShape
<1>2. /\ x[1] = Blank /\ (l = m + 1 \/ l = m + 2) /\ (l = m + 2 => x[m + 2] = Blank)
      /\ \A i \in 1 .. m : x[i + 1] = s[i] /\ s[i] \notin {Blank, ".", ".."}
  BY Zenon
<1>3. s = [n \in 1 .. m |-> s[n]]
  OBVIOUS
<1> HIDE DEF m, l
<1>4. m \in Nat /\ l \in Nat /\ (l = m + 1 \/ l = m + 2)
  BY <1>1, <1>2
<1>5. \A j \in 2 .. m + 1 : j \in 1 .. l /\ j - 1 \in 1 .. m /\ (j - 1) + 1 = j
  BY <1>4
<1>6. \A j \in 1 .. l : j = 1 \/ j \in 2 .. m + 1 \/ (j = m + 2 /\ l = m + 2)
  BY <1>4
<1>7. \A j \in 2 .. m + 1 : x[j] = s[j - 1] /\ x[j] \notin {Blank, ".", ".."}
  <2> SUFFICES ASSUME NEW j \in 2 .. m + 1
               PROVE  x[j] = s[j - 1] /\ x[j] \notin {Blank, ".", ".."}
    OBVIOUS
  <2>1. j - 1 \in 1 .. m /\ (j - 1) + 1 = j
    BY <1>5
  <2>2. x[(j - 1) + 1] = s[j - 1] /\ s[j - 1] \notin {Blank, ".", ".."}
    BY <1>2, <2>1
  <2> QED BY <2>1, <2>2
<1>8. \A j \in 1 .. l : j \in 2 .. m + 1 \/ x[j] = Blank
  BY <1>2, <1>6
<1>9. Ups(x) = {}
  <2>1. \A j \in 1 .. l : x[j] # ".."
    BY <1>7, <1>8, BlankIsNoUp, Zenon
  <2> QED BY <1>1, <2>1, Zenon DEF Ups
<1>10. Named(x) = 2 .. m + 1
  <2>1. ASSUME NEW j \in Named(x) PROVE j \in 2 .. m + 1
    BY <1>1, <1>8, Zenon DEF Named
  <2>2. ASSUME NEW j \in 2 .. m + 1 PROVE j \in Named(x)
    BY <1>1, <1>5, <1>7, Zenon DEF Named
  <2> QED BY <2>1, <2>2, Zenon
<1>11. Kept(x) = 2 .. m + 1
  BY <1>9, <1>10, Zenon DEF Kept
<1>12. Names(x) = [n \in 1 .. m |-> x[Nth(2 .. m + 1, n)]]
  <2>1. Names(x) = [n \in 1 .. Cardinality(2 .. m + 1) |-> x[Nth(2 .. m + 1, n)]]
    BY <1>11, NamesIs
  <2> QED BY <1>1, <2>1, NthOfInterval
<1>13. \A n \in 1 .. m : Nth(2 .. m + 1, n) = n + 1
  BY <1>1, NthOfInterval
<1>14. \A n \in 1 .. m : x[Nth(2 .. m + 1, n)] = s[n]
  BY <1>2, <1>13
<1> QED BY <1>3, <1>12, <1>14

\* A slash, names and what stands after them.
LEMMA Rooted ==
  ASSUME NEW S, Blank \in S, NEW s \in Seq(S), NEW end \in Seq(S)
  PROVE  LET y == <<Blank>> \o s \o end
         IN  /\ y \in Seq(S) /\ Len(y) = 1 + Len(s) + Len(end) /\ y[1] = Blank
             /\ \A i \in 1 .. Len(s) : y[i + 1] = s[i]
             /\ \A i \in 1 .. Len(end) : y[1 + Len(s) + i] = end[i]
<1> DEFINE q == <<Blank>>
           x == q \o s
           y == x \o end
           m == Len(s)
           n == Len(end)
<1>1. q \in Seq(S) /\ Len(q) = 1 /\ q[1] = Blank /\ m \in Nat /\ n \in Nat
  OBVIOUS
<1> HIDE DEF q
<1>2. x \in Seq(S) /\ Len(x) = 1 + m /\ \A i \in 1 .. 1 + m : x[i] = IF i <= 1 THEN q[i] ELSE s[i - 1]
  <2>1. /\ x \in Seq(S) /\ Len(x) = Len(q) + Len(s)
        /\ \A i \in 1 .. Len(q) + Len(s) : x[i] = IF i <= Len(q) THEN q[i] ELSE s[i - Len(q)]
    BY <1>1, ConcatProperties
  <2> QED BY <1>1, <2>1
<1> HIDE DEF x
<1>3. /\ y \in Seq(S) /\ Len(y) = 1 + m + n
      /\ \A i \in 1 .. 1 + m + n : y[i] = IF i <= 1 + m THEN x[i] ELSE end[i - (1 + m)]
  <2>1. /\ y \in Seq(S) /\ Len(y) = Len(x) + Len(end)
        /\ \A i \in 1 .. Len(x) + Len(end) : y[i] = IF i <= Len(x) THEN x[i] ELSE end[i - Len(x)]
    BY <1>2, ConcatProperties
  <2> QED BY <1>2, <2>1
<1> HIDE DEF y, m, n
<1>4. y[1] = Blank
  <2>1. 1 \in 1 .. 1 + m /\ 1 \in 1 .. 1 + m + n /\ 1 <= 1 + m
    BY <1>1
  <2> QED BY <1>1, <1>2, <1>3, <2>1
<1>5. \A i \in 1 .. m : y[i + 1] = s[i]
  <2> SUFFICES ASSUME NEW i \in 1 .. m PROVE y[i + 1] = s[i]
    OBVIOUS
  <2>1. /\ i + 1 \in 1 .. 1 + m /\ i + 1 \in 1 .. 1 + m + n
        /\ i + 1 <= 1 + m /\ ~(i + 1 <= 1) /\ (i + 1) - 1 = i
    BY <1>1
  <2> QED BY <1>2, <1>3, <2>1
<1>6. \A i \in 1 .. n : y[1 + m + i] = end[i]
  <2> SUFFICES ASSUME NEW i \in 1 .. n PROVE y[1 + m + i] = end[i]
    OBVIOUS
  <2>1. 1 + m + i \in 1 .. 1 + m + n /\ ~(1 + m + i <= 1 + m) /\ (1 + m + i) - (1 + m) = i
    BY <1>1
  <2> QED BY <1>3, <2>1
<1> QED BY <1>3, <1>4, <1>5, <1>6 DEF y, x, q, m, n

\* What a path is when it is clean: a slash, its names and, where it had one or has no
\* names, a slash at its end.
LEMMA CleanShape ==
  ASSUME NEW T, NEW path \in Seq(T)
  PROVE  LET s == Names(path)
             c == cleanPath(path)
         IN  /\ s \in Seq(T \union {Blank}) /\ c \in Seq(T \union {Blank}) /\ c[1] = Blank
             /\ \A i \in 1 .. Len(s) : c[i + 1] = s[i]
             /\ Len(c) = IF s = <<>> \/ Last(path) = Blank THEN Len(s) + 2 ELSE Len(s) + 1
             /\ Len(c) = Len(s) + 2 => c[Len(s) + 2] = Blank
<1> DEFINE S == T \union {Blank}
           s == Names(path)
           c == cleanPath(path)
<1>1. s \in Seq(S) /\ Blank \in S /\ Len(s) \in Nat
  <2>1. s \in Seq(T) /\ T \subseteq S /\ Blank \in S
    BY NamesAreNames
  <2> HIDE DEF s, S
  <2>2. s \in Seq(S)
    BY <2>1, SeqMonotonic
  <2> QED BY <2>1, <2>2, SeqShape
<1>2. c = IF s = <<>> THEN <<Blank, Blank>>
          ELSE <<Blank>> \o s \o (IF Last(path) = Blank THEN <<Blank>> ELSE <<>>)
  BY DEF cleanPath
<1> HIDE DEF S, s, c
<1>3. <<Blank>> \in Seq(S) /\ Len(<<Blank>>) = 1 /\ <<Blank>>[1] = Blank /\ <<>> \in Seq(S) /\ Len(<<>>) = 0
  BY <1>1
<1>4. CASE s = <<>>
  <2>1. <<Blank, Blank>> \in Seq(S) /\ Len(<<Blank, Blank>>) = 2
        /\ <<Blank, Blank>>[1] = Blank /\ <<Blank, Blank>>[2] = Blank
    BY <1>1
  <2>2. c = <<Blank, Blank>> /\ Len(s) = 0
    BY <1>2, <1>3, <1>4
  <2>3. c \in Seq(S) /\ Len(c) = 2 /\ c[1] = Blank /\ c[2] = Blank
    BY <2>1, <2>2
  <2> QED BY <1>1, <1>4, <2>2, <2>3 DEF s, c, S
<1>5. CASE s # <<>> /\ Last(path) = Blank
  <2>1. c = <<Blank>> \o s \o <<Blank>>
    BY <1>2, <1>5
  <2>2. /\ c \in Seq(S) /\ Len(c) = 1 + Len(s) + Len(<<Blank>>) /\ c[1] = Blank
        /\ \A i \in 1 .. Len(s) : c[i + 1] = s[i]
        /\ \A i \in 1 .. Len(<<Blank>>) : c[1 + Len(s) + i] = <<Blank>>[i]
    BY <1>1, <1>3, <2>1, Rooted
  <2>3. c[1 + Len(s) + 1] = Blank
    BY <1>3, <2>2
  <2>4. Len(c) = Len(s) + 2 /\ c[Len(s) + 2] = Blank
    BY <1>1, <1>3, <2>2, <2>3
  <2> QED BY <1>1, <1>5, <2>2, <2>4 DEF s, c, S
<1>6. CASE s # <<>> /\ Last(path) # Blank
  <2>1. c = <<Blank>> \o s \o <<>>
    BY <1>2, <1>6
  <2>2. /\ c \in Seq(S) /\ Len(c) = 1 + Len(s) + Len(<<>>) /\ c[1] = Blank
        /\ \A i \in 1 .. Len(s) : c[i + 1] = s[i]
    BY <1>1, <1>3, <2>1, Rooted
  <2>3. Len(c) = Len(s) + 1 /\ Len(c) # Len(s) + 2
    BY <1>1, <1>3, <2>2
  <2> QED BY <1>1, <1>6, <2>2, <2>3 DEF s, c, S
<1> QED BY <1>4, <1>5, <1>6

\* Cleaning a path leaves a path.
LEMMA CleanIsText == ASSUME NEW path, Text(path) PROVE Text(cleanPath(path))
<1>1. PICK T : path \in Seq(T)
  BY DEF Text
<1> DEFINE c == cleanPath(path)
           s == Names(path)
<1>2. c \in Seq(T \union {Blank}) /\ c[1] = Blank /\ s \in Seq(T \union {Blank})
      /\ Len(c) = IF s = <<>> \/ Last(path) = Blank THEN Len(s) + 2 ELSE Len(s) + 1
  BY <1>1, CleanShape
<1> HIDE DEF c, s
<1>3. Len(s) \in Nat
  BY <1>2, SeqShape
<1>4. c # <<>>
  <2>1. Len(c) # 0
    BY <1>2, <1>3
  <2> QED BY <2>1, EmptySeq
<1> QED BY <1>2, <1>4 DEF Text, c

\* Its names stay, and a slash at its end does, so that cleaning it again changes nothing.
LEMMA CleanIsClean ==
  ASSUME NEW path, Text(path)
  PROVE  /\ cleanPath(cleanPath(path)) = cleanPath(path)
         /\ Last(path) = Blank => Last(cleanPath(path)) = Blank
<1>1. PICK T : path \in Seq(T)
  BY DEF Text
<1> DEFINE S == T \union {Blank}
           s == Names(path)
           c == cleanPath(path)
           m == Len(s)
<1>2. /\ s \in Seq(S) /\ c \in Seq(S) /\ c[1] = Blank /\ m \in Nat
      /\ \A i \in 1 .. m : c[i + 1] = s[i]
      /\ Len(c) = IF s = <<>> \/ Last(path) = Blank THEN m + 2 ELSE m + 1
      /\ Len(c) = m + 2 => c[m + 2] = Blank
  <2>1. /\ s \in Seq(S) /\ c \in Seq(S) /\ c[1] = Blank
        /\ \A i \in 1 .. m : c[i + 1] = s[i]
        /\ Len(c) = IF s = <<>> \/ Last(path) = Blank THEN m + 2 ELSE m + 1
        /\ Len(c) = m + 2 => c[m + 2] = Blank
    BY <1>1, CleanShape, Zenon
  <2>2. s \in Seq(T)
    BY <1>1, NamesAreNames
  <2> HIDE DEF s, c, S
  <2>3. m \in Nat
    BY <2>2, SeqShape
  <2> QED BY <2>1, <2>3
<1>3. \A i \in 1 .. m : s[i] \notin {Blank, ".", ".."}
  BY <1>1, NamesAreNames
<1> HIDE DEF S, s, c
<1>4. Len(c) = m + 1 \/ Len(c) = m + 2
  BY <1>2
<1>5. Names(c) = s
  BY <1>2, <1>3, <1>4, NamesOfNames DEF m
<1>6. Last(c) = c[Len(c)]
  BY DEF Last
<1>7. s = <<>> \/ Last(path) = Blank => Last(c) = Blank
  BY <1>2, <1>6
<1>8. s # <<>> /\ Last(path) # Blank => Last(c) # Blank
  <2> SUFFICES ASSUME s # <<>>, Last(path) # Blank PROVE c[m + 1] # Blank
    BY <1>2, <1>6
  <2>1. m # 0
    BY <1>2, EmptySeq DEF m
  <2> HIDE DEF m
  <2>2. m \in 1 .. m
    BY <1>2, <2>1
  <2>3. c[m + 1] = s[m]
    BY <1>2, <2>2
  <2> QED BY <1>3, <2>2, <2>3
<1>9. cleanPath(c) = IF s = <<>> THEN <<Blank, Blank>>
                      ELSE <<Blank>> \o s \o (IF Last(c) = Blank THEN <<Blank>> ELSE <<>>)
  BY <1>5 DEF cleanPath
<1>10. c = IF s = <<>> THEN <<Blank, Blank>>
           ELSE <<Blank>> \o s \o (IF Last(path) = Blank THEN <<Blank>> ELSE <<>>)
  BY DEF cleanPath, c, s
<1>11. cleanPath(c) = c
  BY <1>7, <1>8, <1>9, <1>10, Zenon
<1> QED BY <1>7, <1>11 DEF c

-----------------------------------------------------------------------------
(* Requests. *)

\* A path with a slash at its end is a path.
LEMMA SlashIsText == ASSUME NEW path, Text(path) PROVE Text(Append(path, Blank))
<1>1. PICK T : path \in Seq(T) /\ path # <<>> /\ path[1] = Blank
  BY DEF Text
<1> DEFINE S == T \union {Blank}
           y == Append(path, Blank)
<1>2. path \in Seq(S) /\ Blank \in S
  <2>1. T \subseteq S /\ Blank \in S
    OBVIOUS
  <2> HIDE DEF S
  <2> QED BY <1>1, <2>1, SeqMonotonic
<1> HIDE DEF S
<1>3. Len(path) \in Nat \ {0}
  BY <1>1, EmptySeq
<1>4. y \in Seq(S) /\ Len(y) = Len(path) + 1 /\ y[1] = Blank
  BY <1>1, <1>2, <1>3
<1> HIDE DEF y
<1>5. y # <<>>
  BY <1>3, <1>4
<1>6. Text(y)
  BY <1>4, <1>5 DEF Text
<1> QED BY <1>6 DEF y

\* A request that is a path.
IsRequest(r) == r = [host |-> r.host, path |-> r.path, method |-> r.method] /\ Text(r.path)

LEMMA PathOfIsText == ASSUME NEW r, IsRequest(r) PROVE Text(PathOf(r))
BY CleanIsText DEF IsRequest, PathOf

\* The look for a redirect.
Redirects(t, r) == shouldRedirect(t, RedirectHost(r), PathOf(r))

\* A handler that is found is no redirect.
LEMMA HandlersDoNotRedirect ==
  ASSUME NEW t, NEW host, NEW path, NEW method
  PROVE  \A a \in handler(t, host, path, method) : a.kind # "redirect"
<1>1. \A e, text : Handler(e, text).kind = "handler"
  BY DEF Handler
<1>2. NotFound.kind = "notfound"
  BY DEF NotFound
<1>3. \A text : \A a \in match(t, text, method) : \E e : a = Handler(e, text)
  BY DEF match
<1>4. \A a \in handler(t, host, path, method) :
        \/ \E text : a \in match(t, text, method)
        \/ a = NotFound
  BY DEF handler
<1> SUFFICES ASSUME NEW a \in handler(t, host, path, method) PROVE a.kind # "redirect"
  OBVIOUS
<1>5. CASE a = NotFound
  BY <1>2, <1>5
<1>6. CASE \E text : a \in match(t, text, method)
  <2>1. PICK text : a \in match(t, text, method)
    BY <1>6
  <2>2. PICK e : a = Handler(e, text)
    BY <1>3, <2>1
  <2> QED BY <1>1, <2>2
<1> QED BY <1>4, <1>5, <1>6

\* What a redirect leads to is a path.
LEMMA SecondLeadsToText ==
  ASSUME NEW t, NEW r, IsRequest(r), NEW a \in Second(t, r), a.kind = "redirect"
  PROVE  Text(a.to)
<1>1. CASE PathOf(r) # r.path
  <2>1. a = Redirect(PathOf(r))
    BY <1>1 DEF Second
  <2>2. a.to = PathOf(r)
    BY <2>1 DEF Redirect
  <2> QED BY <2>2, PathOfIsText
<1>2. CASE PathOf(r) = r.path
  BY <1>2, HandlersDoNotRedirect DEF Second
<1> QED BY <1>1, <1>2

\* A pattern that came in between the looks changes nothing if it would redirect.
LEMMA SameSecond ==
  ASSUME NEW t, IsTable(t), NEW e \in Entry, NEW r, IsRequest(r),
         ~Redirects(t, r), Redirects(Added(t, e), r)
  PROVE  Second(Added(t, e), r) = Second(t, r)
<1>1. RedirectHost(r) \in {HostOf(r), Blank}
  BY DEF RedirectHost, HostOf
<1>2. Text(PathOf(r))
  BY PathOfIsText
<1>3. handler(Added(t, e), HostOf(r), PathOf(r), r.method) = handler(t, HostOf(r), PathOf(r), r.method)
  BY <1>1, <1>2, SameHandler DEF Redirects
<1> QED BY <1>3 DEF Second

-----------------------------------------------------------------------------
(* Two looks are as good as one. *)

\* Who is served is known, with the table it began with.
Served ==
  /\ changes \in Nat
  /\ phase \in {"idle", "redirect", "match", "answered"}
  /\ phase # "idle" => IsRequest(request) /\ IsTable(before)
  /\ phase = "answered" /\ answer.kind = "redirect" => Text(answer.to)

\* With one registration since, the table has one more entry.
Grown ==
  /\ phase # "idle" /\ changes = 0 => mux = before
  /\ phase # "idle" /\ changes = 1 => \E e \in Entry : mux = Added(before, e)

\* After the first look one of the tables does not redirect.
Looked ==
  phase = "match" /\ changes <= 1 => ~Redirects(before, request) \/ ~Redirects(mux, request)

\* The inductive invariant.
IInv == IsTable(mux) /\ Ordered(mux) /\ Served /\ Grown /\ Looked /\ AnswerFits

\* Registering changes the table and the count, and nothing of the client.
LEMMA HandleKeeps ==
  ASSUME IInv, NEW p \in Pattern, NEW method \in Method, Handle(p, method)
  PROVE  (Served /\ Grown /\ Looked /\ AnswerFits)'
<1> DEFINE e == [pattern |-> p, method |-> method]
<1>1. e \in Entry
  BY DEF Entry
<1>2. mux' = Added(mux, e) /\ UNCHANGED <<request, phase, answer, hops, before>>
  BY DEF Handle, client
<1>3. changes' = IF phase = "idle" THEN 0 ELSE changes + 1
  BY DEF Handle
<1> HIDE DEF e
<1>4. changes \in Nat
  BY DEF IInv, Served
<1>5. Served'
  BY <1>2, <1>3 DEF IInv, Served
<1>6. ASSUME phase # "idle", changes' <= 1
      PROVE  changes = 0 /\ changes' = 1 /\ mux = before
  <2>1. changes = 0 /\ changes' = 1
    BY <1>3, <1>4, <1>6
  <2> QED BY <1>6, <2>1 DEF IInv, Grown
<1>7. Grown'
  <2>1. phase # "idle" => changes' # 0
    BY <1>3, <1>4
  <2>2. phase # "idle" /\ changes' = 1 => mux' = Added(before, e)
    BY <1>2, <1>6
  <2> QED BY <1>1, <1>2, <2>1, <2>2 DEF Grown
<1>8. Looked'
  <2> SUFFICES ASSUME phase = "match", changes' <= 1 PROVE ~Redirects(before, request)
    BY <1>2 DEF Looked
  <2>1. changes = 0 /\ mux = before
    BY <1>6
  <2> QED BY <2>1 DEF IInv, Looked
<1>9. AnswerFits'
  <2> SUFFICES ASSUME phase = "answered", changes' <= 1 PROVE answer \in Answers(before, request)
    BY <1>2 DEF AnswerFits
  <2>1. changes = 0 /\ mux = before
    BY <1>6
  <2> QED BY <2>1 DEF IInv, AnswerFits
<1> QED BY <1>5, <1>7, <1>8, <1>9

\* The first look answers or leaves a table that does not redirect.
LEMMA FirstLookKeeps ==
  ASSUME IInv, redirectToPathSlash
  PROVE  (Served /\ Grown /\ Looked /\ AnswerFits)'
<1>1. phase = "redirect" /\ UNCHANGED <<mux, request, hops, before, changes>>
  BY DEF redirectToPathSlash
<1>2. IsRequest(request) /\ IsTable(before) /\ changes \in Nat
  BY <1>1 DEF IInv, Served
<1>3. Grown'
  BY <1>1 DEF IInv, Grown, redirectToPathSlash
<1>4. CASE Redirects(mux, request)
  <2>1. phase' = "answered" /\ answer' = Redirect(Append(PathOf(request), Blank))
    BY <1>4 DEF redirectToPathSlash, Redirects
  <2>2. Text(Append(PathOf(request), Blank))
    BY <1>2, PathOfIsText, SlashIsText
  <2>3. answer'.to = Append(PathOf(request), Blank)
    BY <2>1 DEF Redirect
  <2>4. Served'
    BY <1>1, <1>2, <2>1, <2>2, <2>3 DEF Served
  <2>5. answer' \in Answers(mux, request)
    BY <1>4, <2>1 DEF Answers, Redirects
  <2>6. AnswerFits'
    BY <1>1, <2>5 DEF AnswerFits
  <2> QED BY <1>3, <2>1, <2>4, <2>6 DEF Looked
<1>5. CASE ~Redirects(mux, request)
  <2>1. phase' = "match"
    BY <1>5 DEF redirectToPathSlash, Redirects
  <2>2. Served'
    BY <1>1, <1>2, <2>1 DEF Served
  <2>3. Looked'
    BY <1>1, <1>5 DEF Looked
  <2>4. AnswerFits'
    BY <2>1 DEF AnswerFits
  <2> QED BY <1>3, <2>2, <2>3, <2>4
<1> QED BY <1>4, <1>5

\* The second look answers as one of the tables would.
LEMMA SecondLookKeeps ==
  ASSUME IInv, ServeHTTP
  PROVE  (Served /\ Grown /\ Looked /\ AnswerFits)'
<1>1. /\ phase = "match" /\ phase' = "answered" /\ answer' \in Second(mux, request)
      /\ UNCHANGED <<mux, request, hops, before, changes>>
  BY DEF ServeHTTP
<1>2. IsRequest(request) /\ IsTable(before) /\ changes \in Nat
  BY <1>1 DEF IInv, Served
<1>3. Grown' /\ Looked'
  BY <1>1 DEF IInv, Grown, Looked
<1>4. Served'
  <2>1. answer'.kind = "redirect" => Text(answer'.to)
    BY <1>1, <1>2, SecondLeadsToText
  <2> QED BY <1>1, <1>2, <2>1 DEF Served
<1>5. ASSUME changes <= 1
      PROVE  answer' \in Answers(before, request) \union Answers(mux, request)
  <2>1. CASE ~Redirects(mux, request)
    BY <1>1, <2>1 DEF Answers, Redirects
  <2>2. CASE Redirects(mux, request)
    <3>1. ~Redirects(before, request)
      BY <1>1, <1>5, <2>2 DEF IInv, Looked
    <3>2. changes = 1
      <4>1. mux # before
        BY <2>2, <3>1
      <4>2. changes # 0
        BY <1>1, <4>1 DEF IInv, Grown
      <4> QED BY <1>2, <1>5, <4>2
    <3>3. PICK e \in Entry : mux = Added(before, e)
      BY <1>1, <3>2 DEF IInv, Grown
    <3>4. Second(mux, request) = Second(before, request)
      BY <1>2, <2>2, <3>1, <3>3, SameSecond
    <3> QED BY <1>1, <3>1, <3>4 DEF Answers, Redirects
  <2> QED BY <2>1, <2>2
<1>6. AnswerFits'
  BY <1>1, <1>5 DEF AnswerFits
<1> QED BY <1>3, <1>4, <1>6

\* The steps of the client outside the multiplexer.
LEMMA ClientKeeps ==
  ASSUME IInv, (\E r \in Requests : Request(r)) \/ Follow \/ Finish
  PROVE  (Served /\ Grown /\ Looked /\ AnswerFits)'
<1>1. ASSUME NEW r \in Requests, Request(r)
      PROVE  (Served /\ Grown /\ Looked /\ AnswerFits)'
  <2>1. request' = r /\ phase' = "redirect" /\ before' = mux /\ changes' = 0 /\ mux' = mux
    BY <1>1 DEF Request
  <2>2. IsRequest(r)
    <3>1. r = [host |-> r.host, path |-> r.path, method |-> r.method] /\ r.path \in Path
      BY DEF Requests
    <3>2. r.path \in Seq(STRING) /\ r.path # <<>> /\ r.path[1] = Blank
      BY <3>1, MuxAssumption
    <3> QED BY <3>1, <3>2 DEF IsRequest, Text
  <2>3. IsTable(mux)
    BY DEF IInv
  <2> QED BY <2>1, <2>2, <2>3 DEF Served, Grown, Looked, AnswerFits
<1>2. CASE Follow
  <2>1. /\ phase = "answered" /\ answer.kind = "redirect" /\ phase' = "redirect"
        /\ UNCHANGED <<mux, before, changes>>
    BY <1>2 DEF Follow
  <2>2. PICK method : request' = [request EXCEPT !.path = cleanPath(answer.to), !.method = method]
    BY <1>2 DEF Follow
  <2>3. IsRequest(request) /\ IsTable(before) /\ Text(cleanPath(answer.to)) /\ changes \in Nat
    BY <2>1, CleanIsText DEF IInv, Served
  <2>4. request' = [host |-> request.host, path |-> cleanPath(answer.to), method |-> method]
    <3>1. request = [host |-> request.host, path |-> request.path, method |-> request.method]
      BY <2>3 DEF IsRequest
    <3> QED BY <2>2, <3>1
  <2>5. IsRequest(request')
    BY <2>3, <2>4 DEF IsRequest
  <2>6. Served'
    BY <2>1, <2>3, <2>5 DEF Served
  <2> QED BY <2>1, <2>6 DEF IInv, Grown, Looked, AnswerFits
<1>3. CASE Finish
  BY <1>3 DEF Finish, IInv, Served, Grown, Looked, AnswerFits
<1> QED BY <1>1, <1>2, <1>3

LEMMA IInvStep == IInv /\ [Next]_vars => IInv'
<1> SUFFICES ASSUME IInv, [Next]_vars PROVE IInv'
  OBVIOUS
<1>1. IsTable(mux)' /\ Ordered(mux)'
  BY TableStep DEF IInv
<1>2. CASE UNCHANGED vars
  BY <1>1, <1>2 DEF vars, client, IInv, Served, Grown, Looked, AnswerFits
<1>3. CASE Next
  <2>1. (Served /\ Grown /\ Looked /\ AnswerFits)'
    BY <1>3, HandleKeeps, FirstLookKeeps, SecondLookKeeps, ClientKeeps DEF Next
  <2> QED BY <1>1, <2>1 DEF IInv
<1> QED BY <1>2, <1>3

LEMMA IInvInit == Init => IInv
<1> SUFFICES ASSUME Init PROVE IInv
  OBVIOUS
<1>1. phase = "idle" /\ changes = 0
  BY DEF Init
<1> QED BY <1>1, TableInit DEF IInv, Served, Grown, Looked, AnswerFits

\* The two looks at the table are as good as one while at most one pattern comes in: every
\* answer is one of the table before or of the table after.
THEOREM LooksAgree == Spec => []AnswerFits
<1>1. IInv => AnswerFits
  BY DEF IInv
<1> QED BY <1>1, IInvInit, IInvStep, PTL DEF Spec

-----------------------------------------------------------------------------
(* The most specific pattern. *)

\* The entries that a text matches as they are, and those with parameters.
Exact(t, text, method) == {e \in t.m : e.pattern = text /\ e.method = method}
Params(t, text, method) == {e \in t.rm : Fits(e.pattern, text) /\ e.method = method}

\* The patterns that fit are those that match looks through.
LEMMA FittingIs ==
  ASSUME NEW t, IsTable(t), Ordered(t), NEW text, NEW method
  PROVE  \A p : p \in Fitting(t, text, method) <=>
           \/ \E e \in Exact(t, text, method) : p = e.pattern
           \/ \E e \in Params(t, text, method) : p = e.pattern
           \/ \E i \in Trees(t, text, method) : p = t.es[i].pattern
<1> DEFINE Fit(e) == \/ e.pattern = text
                     \/ Places(e.pattern) # {} /\ Fits(e.pattern, text)
                     \/ e \in ToSet(t.es) /\ HasPrefix(text, e.pattern)
<1>1. \A p : p \in Fitting(t, text, method) <=>
        \E e \in t.m \union t.rm : e.method = method /\ Fit(e) /\ p = e.pattern
  BY DEF Fitting
<1>2. /\ \A e \in t.m : Places(e.pattern) = {}
      /\ \A e \in t.rm : Places(e.pattern) # {}
      /\ \A i \in DOMAIN t.es : t.es[i] \in t.m
  BY DEF IsTable
<1>3. \A e : e \in ToSet(t.es) <=> \E i \in DOMAIN t.es : e = t.es[i]
  BY DEF ToSet
<1>4. Fits(text, text)
  BY DEF Fits
<1> SUFFICES ASSUME NEW p
             PROVE  p \in Fitting(t, text, method) <=>
                      \/ \E e \in Exact(t, text, method) : p = e.pattern
                      \/ \E e \in Params(t, text, method) : p = e.pattern
                      \/ \E i \in Trees(t, text, method) : p = t.es[i].pattern
  OBVIOUS
<1>5. ASSUME NEW e \in t.m, e.method = method, Fit(e), p = e.pattern
      PROVE  \/ \E d \in Exact(t, text, method) : p = d.pattern
             \/ \E i \in Trees(t, text, method) : p = t.es[i].pattern
  <2>1. CASE e.pattern = text
    BY <1>5, <2>1 DEF Exact
  <2>2. CASE e \in ToSet(t.es) /\ HasPrefix(text, e.pattern)
    BY <1>3, <1>5, <2>2 DEF Trees
  <2> QED BY <1>2, <1>5, <2>1, <2>2
<1>6. ASSUME NEW e \in t.rm, e.method = method, Fit(e), p = e.pattern
      PROVE  \E d \in Params(t, text, method) : p = d.pattern
  <2>1. Fits(e.pattern, text)
    BY <1>2, <1>3, <1>4, <1>6
  <2> QED BY <1>6, <2>1 DEF Params
<1>7. ASSUME NEW e \in Exact(t, text, method), p = e.pattern
      PROVE  p \in Fitting(t, text, method)
  BY <1>1, <1>7 DEF Exact
<1>8. ASSUME NEW e \in Params(t, text, method), p = e.pattern
      PROVE  p \in Fitting(t, text, method)
  BY <1>1, <1>2, <1>8 DEF Params
<1>9. ASSUME NEW i \in Trees(t, text, method), p = t.es[i].pattern
      PROVE  p \in Fitting(t, text, method)
  <2>1. /\ t.es[i] \in t.m /\ t.es[i] \in ToSet(t.es) /\ t.es[i].method = method
        /\ HasPrefix(text, t.es[i].pattern)
    BY <1>2, <1>3 DEF Trees
  <2> QED BY <1>1, <1>9, <2>1
<1> HIDE DEF Fit
<1> QED BY <1>1, <1>5, <1>6, <1>7, <1>8, <1>9

\* What match finds, in its order.
LEMMA MatchIs ==
  ASSUME NEW t, NEW text, NEW method
  PROVE  /\ Exact(t, text, method) # {} =>
              match(t, text, method) = {Handler(e, text) : e \in Exact(t, text, method)}
         /\ Exact(t, text, method) = {} /\ Params(t, text, method) # {} =>
              match(t, text, method) = {Handler(e, text) : e \in Params(t, text, method)}
         /\ Exact(t, text, method) = {} /\ Params(t, text, method) = {} =>
              match(t, text, method) =
                IF Trees(t, text, method) = {} THEN {}
                ELSE {Handler(t.es[Min(Trees(t, text, method))], text)}
BY DEF match, Exact, Params

\* A handler is found exactly when a pattern fits, and it is the handler of one that fits.
LEMMA FoundFits ==
  ASSUME NEW t, IsTable(t), Ordered(t), NEW text, NEW method
  PROVE  /\ match(t, text, method) = {} <=> Fitting(t, text, method) = {}
         /\ \A a \in match(t, text, method) :
              a.kind = "handler" /\ a.pattern \in Fitting(t, text, method)
<1> DEFINE exact == Exact(t, text, method)
           params == Params(t, text, method)
           trees == Trees(t, text, method)
           fitting == Fitting(t, text, method)
<1>1. \A p : p \in fitting <=> \/ \E e \in exact : p = e.pattern
                               \/ \E e \in params : p = e.pattern
                               \/ \E i \in trees : p = t.es[i].pattern
  BY FittingIs
<1>2. /\ exact # {} => match(t, text, method) = {Handler(e, text) : e \in exact}
      /\ exact = {} /\ params # {} => match(t, text, method) = {Handler(e, text) : e \in params}
      /\ exact = {} /\ params = {} =>
           match(t, text, method) = IF trees = {} THEN {} ELSE {Handler(t.es[Min(trees)], text)}
  BY MatchIs
<1>3. \A e : Handler(e, text).kind = "handler" /\ Handler(e, text).pattern = e.pattern
  BY DEF Handler
<1>4. trees # {} => Min(trees) \in trees
  <2>1. trees \in SUBSET Nat
    <3>1. DOMAIN t.es = 1 .. Len(t.es) /\ Len(t.es) \in Nat
      BY SeqShape DEF IsTable
    <3> QED BY <3>1 DEF Trees
  <2> HIDE DEF trees
  <2> QED BY <2>1, MinIsLeast
<1> HIDE DEF exact, params, trees, fitting
<1>5. ASSUME NEW S, S # {}, match(t, text, method) = {Handler(e, text) : e \in S},
             \A e \in S : e.pattern \in fitting
      PROVE  /\ match(t, text, method) # {} /\ fitting # {}
             /\ \A a \in match(t, text, method) : a.kind = "handler" /\ a.pattern \in fitting
  <2>1. ASSUME NEW a \in match(t, text, method)
        PROVE  a.kind = "handler" /\ a.pattern \in fitting
    <3>1. PICK e \in S : a = Handler(e, text)
      BY <1>5, <2>1
    <3> QED BY <1>3, <1>5, <3>1
  <2>2. PICK e \in S : TRUE
    BY <1>5
  <2>3. Handler(e, text) \in match(t, text, method) /\ e.pattern \in fitting
    BY <1>5, <2>2
  <2> QED BY <2>1, <2>3
<1>6. CASE exact # {} \/ params # {}
  <2>1. CASE exact # {}
    BY <1>1, <1>2, <1>5, <2>1 DEF fitting
  <2>2. CASE exact = {} /\ params # {}
    BY <1>1, <1>2, <1>5, <2>2 DEF fitting
  <2> QED BY <1>6, <2>1, <2>2
<1>7. CASE exact = {} /\ params = {} /\ trees # {}
  <2>1. match(t, text, method) = {Handler(t.es[Min(trees)], text)}
    BY <1>2, <1>7
  <2>2. t.es[Min(trees)].pattern \in fitting
    BY <1>1, <1>4, <1>7
  <2> QED BY <1>3, <2>1, <2>2 DEF fitting
<1>8. CASE exact = {} /\ params = {} /\ trees = {}
  BY <1>1, <1>2, <1>8 DEF fitting
<1> QED BY <1>6, <1>7, <1>8

\* The root of a subtree is not longer than a path in it.
LEMMA PrefixIsShorter ==
  ASSUME NEW p \in Pattern, NEW text \in Pattern, HasPrefix(text, p), Last(p) = Blank
  PROVE  Length(p) <= Length(text)
<1> DEFINE named(q) == {i \in DOMAIN q : q[i] # Blank}
<1>1. /\ Len(p) \in Nat /\ DOMAIN p = 1 .. Len(p)
      /\ Len(text) \in Nat /\ DOMAIN text = 1 .. Len(text)
  BY MuxAssumption, SeqShape
<1>2. Len(p) <= Len(text) /\ p[Len(p)] = Blank
  BY DEF HasPrefix, Last
<1>3. named(p) \subseteq named(text)
  <2> SUFFICES ASSUME NEW i \in 1 .. Len(p), p[i] # Blank
               PROVE  i \in 1 .. Len(text) /\ text[i] # Blank
    BY <1>1
  <2>1. i \in 1 .. Len(p) - 1 /\ i \in 1 .. Len(text)
    BY <1>1, <1>2
  <2> QED BY <2>1 DEF HasPrefix
<1>4. IsFiniteSet(named(text))
  <2>1. named(text) \in SUBSET (1 .. Len(text)) /\ IsFiniteSet(1 .. Len(text))
    BY <1>1, FS_Interval
  <2> HIDE DEF named
  <2> QED BY <2>1, FS_Subset
<1>5. Length(p) = Len(p) + Cardinality(named(p)) /\ Length(text) = Len(text) + Cardinality(named(text))
  BY DEF Length
<1> HIDE DEF named
<1>6. Cardinality(named(p)) <= Cardinality(named(text))
  BY <1>3, <1>4, FS_Subset
<1>7. Cardinality(named(p)) \in Nat /\ Cardinality(named(text)) \in Nat
  BY <1>3, <1>4, FS_Subset, FS_CardinalityType
<1> QED BY <1>1, <1>2, <1>5, <1>6, <1>7

\* Without parameters no pattern that fits is longer than the one that is found.
LEMMA FoundIsLongest ==
  ASSUME NEW t, IsTable(t), Ordered(t), NEW text, NEW method,
         \A p \in Fitting(t, text, method) : Places(p) = {},
         NEW a \in match(t, text, method)
  PROVE  \A p \in Fitting(t, text, method) : Length(p) <= Length(a.pattern)
<1> DEFINE exact == Exact(t, text, method)
           params == Params(t, text, method)
           trees == Trees(t, text, method)
<1>1. \A p : p \in Fitting(t, text, method) <=> \/ \E e \in exact : p = e.pattern
                                                \/ \E e \in params : p = e.pattern
                                                \/ \E i \in trees : p = t.es[i].pattern
  BY FittingIs
<1>2. params = {}
  BY <1>1 DEF IsTable, Params
<1>3. /\ \A e \in exact : e.pattern \in Pattern /\ e.pattern = text
      /\ \A i \in DOMAIN t.es : t.es[i] \in t.m /\ t.es[i].pattern \in Pattern
                                /\ Last(t.es[i].pattern) = Blank
      /\ DOMAIN t.es = 1 .. Len(t.es) /\ Len(t.es) \in Nat
  <2>1. DOMAIN t.es = 1 .. Len(t.es) /\ Len(t.es) \in Nat
    BY SeqShape DEF IsTable
  <2>2. \A i \in DOMAIN t.es : t.es[i] \in ToSet(t.es)
    BY DEF ToSet
  <2> QED BY <2>1, <2>2 DEF IsTable, Ordered, Exact, Entry
<1>4. \A i \in trees : i \in DOMAIN t.es /\ HasPrefix(text, t.es[i].pattern)
  BY DEF Trees
<1>5. /\ exact # {} => match(t, text, method) = {Handler(e, text) : e \in exact}
      /\ exact = {} => match(t, text, method) =
                         IF trees = {} THEN {} ELSE {Handler(t.es[Min(trees)], text)}
  BY <1>2, MatchIs
<1>6. \A e : Handler(e, text).pattern = e.pattern
  BY DEF Handler
<1> HIDE DEF exact, params, trees
<1>7. CASE exact # {}
  <2>1. text \in Pattern /\ a.pattern = text
    <3>1. PICK e \in exact : a = Handler(e, text)
      BY <1>5, <1>7
    <3> QED BY <1>3, <1>6, <3>1
  <2>2. \A i \in trees : Length(t.es[i].pattern) <= Length(text)
    BY <1>3, <1>4, <2>1, PrefixIsShorter
  <2>3. Length(text) \in Nat
    BY <2>1, LengthType
  <2>4. \A n \in Nat : n <= n
    OBVIOUS
  <2> QED BY <1>1, <1>2, <1>3, <2>1, <2>2, <2>3, <2>4
<1>8. CASE exact = {}
  <2>1. trees # {} /\ a.pattern = t.es[Min(trees)].pattern
    BY <1>5, <1>6, <1>8
  <2>2. Min(trees) \in trees /\ \A i \in trees : Min(trees) <= i
    <3>1. trees \in SUBSET Nat
      BY <1>3, <1>4
    <3> QED BY <2>1, <3>1, MinIsLeast
  <2>3. ASSUME NEW i \in trees PROVE Length(t.es[i].pattern) <= Length(a.pattern)
    <3> DEFINE j == Min(trees)
               size(k) == Length(t.es[k].pattern)
    <3>1. i \in 1 .. Len(t.es) /\ j \in 1 .. Len(t.es) /\ (j = i \/ j < i)
      BY <1>3, <1>4, <2>2
    <3>2. size(i) \in Nat /\ size(j) \in Nat
      BY <1>3, <3>1, LengthType
    <3>3. j < i => size(j) >= size(i)
      BY <1>3, <3>1 DEF Ordered
    <3>4. size(j) = Length(a.pattern)
      BY <2>1
    <3> HIDE DEF j, size
    <3>5. size(i) <= size(j)
      BY <3>1, <3>2, <3>3
    <3> QED BY <3>4, <3>5 DEF size
  <2> QED BY <1>1, <1>2, <1>8, <2>3
<1> QED BY <1>7, <1>8

\* With parameters the pattern that is the text itself is found, or else one of those.
LEMMA FoundHasParams ==
  ASSUME NEW t, IsTable(t), Ordered(t), NEW text, NEW method,
         NEW q \in Fitting(t, text, method), Places(q) # {},
         NEW a \in match(t, text, method)
  PROVE  IF text \in Fitting(t, text, method) /\ Places(text) = {} THEN a.pattern = text
         ELSE a.pattern \in Fitting(t, text, method) /\ Places(a.pattern) # {}
<1> DEFINE exact == Exact(t, text, method)
           params == Params(t, text, method)
           trees == Trees(t, text, method)
<1>1. \A p : p \in Fitting(t, text, method) <=> \/ \E e \in exact : p = e.pattern
                                                \/ \E e \in params : p = e.pattern
                                                \/ \E i \in trees : p = t.es[i].pattern
  BY FittingIs
<1>2. /\ \A e \in exact : Places(e.pattern) = {} /\ e.pattern = text
      /\ \A e \in params : Places(e.pattern) # {}
      /\ \A i \in trees : t.es[i] \in t.m /\ t.es[i].method = method /\ Places(t.es[i].pattern) = {}
  BY DEF IsTable, Exact, Params, Trees
<1>3. params # {}
  BY <1>1, <1>2
<1>4. /\ exact # {} => match(t, text, method) = {Handler(e, text) : e \in exact}
      /\ exact = {} => match(t, text, method) = {Handler(e, text) : e \in params}
  BY <1>3, MatchIs
<1>5. \A e : Handler(e, text).pattern = e.pattern
  BY DEF Handler
<1>6. \A i \in trees : t.es[i].pattern = text => t.es[i] \in exact
  BY <1>2 DEF Exact
<1> HIDE DEF exact, params, trees
<1>7. CASE exact # {}
  <2>1. PICK e \in exact : a = Handler(e, text)
    BY <1>4, <1>7
  <2>2. a.pattern = text /\ Places(text) = {} /\ text \in Fitting(t, text, method)
    BY <1>1, <1>2, <1>5, <2>1
  <2> QED BY <2>2
<1>8. CASE exact = {}
  <2>1. PICK e \in params : a = Handler(e, text)
    BY <1>4, <1>8
  <2>2. a.pattern \in Fitting(t, text, method) /\ Places(a.pattern) # {}
    BY <1>1, <1>2, <1>5, <2>1
  <2>3. ~(text \in Fitting(t, text, method) /\ Places(text) = {})
    BY <1>1, <1>2, <1>6, <1>8
  <2> QED BY <2>2, <2>3
<1> QED BY <1>7, <1>8

\* Of an answer that is a handler: where it was found, and what fitted there.
LEMMA FoundWhere ==
  ASSUME NEW t, IsTable(t), Ordered(t), NEW host, NEW path, NEW method,
         NEW a \in handler(t, host, path, method), a.kind = "handler"
  PROVE  LET hostly == IF t.hosts THEN Fitting(t, At(host, path), method) ELSE {}
         IN  IF hostly # {} THEN a \in match(t, At(host, path), method)
             ELSE a \in match(t, path, method)
<1> DEFINE found == IF t.hosts THEN match(t, At(host, path), method) ELSE {}
           hostly == IF t.hosts THEN Fitting(t, At(host, path), method) ELSE {}
           plain == match(t, path, method)
<1>1. found = {} <=> hostly = {}
  BY FoundFits
<1>2. handler(t, host, path, method) = CASE found # {} -> found
                                         [] found = {} /\ plain # {} -> plain
                                         [] OTHER -> {NotFound}
  BY DEF handler
<1>3. a # NotFound
  BY DEF NotFound
<1>4. hostly # {} => t.hosts
  OBVIOUS
<1> HIDE DEF hostly, plain
<1>5. CASE hostly # {}
  BY <1>1, <1>2, <1>4, <1>5 DEF hostly
<1>6. CASE hostly = {}
  BY <1>1, <1>2, <1>3, <1>6 DEF hostly, plain
<1> QED BY <1>5, <1>6

\* A table that does not change while a client is served answers in the order of match: the
\* pattern that is the text, else one with parameters that fits, else the longest subtree;
\* patterns with the host, if one fits, come first.
THEOREM AnswersInOrder == Spec => []PatternsInOrder
<1>1. ASSUME IInv, phase = "answered", answer.kind = "handler", changes = 0
      PROVE  answer \in handler(mux, HostOf(request), PathOf(request), request.method)
  <2>1. mux = before /\ IsRequest(request)
    BY <1>1 DEF IInv, Grown, Served
  <2>2. answer \in Answers(mux, request)
    BY <1>1, <2>1 DEF IInv, AnswerFits
  <2>3. \A path : answer # Redirect(path)
    BY <1>1 DEF Redirect
  <2>4. answer \in Second(mux, request)
    BY <2>2, <2>3 DEF Answers
  <2> QED BY <2>3, <2>4 DEF Second
<1>2. IInv => PatternsInOrder
  <2> SUFFICES ASSUME IInv, phase = "answered", answer.kind = "handler", changes = 0
               PROVE  PatternsInOrder
    BY DEF PatternsInOrder
  <2> DEFINE path == PathOf(request)
             host == HostOf(request)
             hostly == IF mux.hosts THEN Fitting(mux, At(host, path), request.method) ELSE {}
             text == Searched(mux, request)
             fitting == Fitting(mux, text, request.method)
             withParams == {p \in fitting : Places(p) # {}}
  <2>1. answer \in handler(mux, host, path, request.method)
    BY <1>1
  <2>2. IsTable(mux) /\ Ordered(mux)
    BY DEF IInv
  <2>3. IF hostly # {} THEN answer \in match(mux, At(host, path), request.method)
        ELSE answer \in match(mux, path, request.method)
    <3> HIDE DEF path, host
    <3> QED BY <2>1, <2>2, FoundWhere
  <2>4. text = IF hostly # {} THEN At(host, path) ELSE path
    BY DEF Searched
  <2>5. answer \in match(mux, text, request.method)
    BY <2>3, <2>4
  <2>6. PatternsInOrder <=>
          IF withParams = {} THEN \A p \in fitting : Length(p) <= Length(answer.pattern)
          ELSE IF text \in fitting \ withParams THEN answer.pattern = text
          ELSE answer.pattern \in withParams
    BY DEF PatternsInOrder
  <2> HIDE DEF text, path, host, hostly
  <2>7. CASE withParams = {}
    <3>1. \A p \in fitting : Places(p) = {}
      BY <2>7
    <3>2. \A p \in fitting : Length(p) <= Length(answer.pattern)
      BY <2>2, <2>5, <3>1, FoundIsLongest
    <3> QED BY <2>6, <2>7, <3>2
  <2>8. CASE withParams # {}
    <3>1. PICK q \in fitting : Places(q) # {}
      BY <2>8
    <3>2. IF text \in fitting /\ Places(text) = {} THEN answer.pattern = text
          ELSE answer.pattern \in fitting /\ Places(answer.pattern) # {}
      BY <2>2, <2>5, <3>1, FoundHasParams
    <3>3. IF text \in fitting \ withParams THEN answer.pattern = text
          ELSE answer.pattern \in withParams
      BY <3>2
    <3> HIDE DEF withParams
    <3> QED BY <2>6, <2>8, <3>3
  <2> QED BY <2>7, <2>8
<1> QED BY <1>2, IInvInit, IInvStep, PTL DEF Spec

-----------------------------------------------------------------------------
(* Redirects come to an end. *)

\* A path that a client is led to by the second look, which does not redirect it again.
Passes(p, r) ==
  /\ r.method # "CONNECT" /\ cleanPath(p) = p
  /\ changes = 0 => ~shouldRedirect(mux, stripHostPort(r.host), p)

\* Once led, a client has a clean path: it ends in a slash and is not redirected again, or
\* it has passed the look for a slash in the table, which then has to change first.
Led ==
  /\ hops \in 0 .. 2 /\ (phase = "idle" => hops = 0)
  /\ phase # "idle" /\ hops # 0 => cleanPath(request.path) = request.path
  /\ hops = 1 => Last(request.path) = Blank \/ Passes(request.path, request)
  /\ hops = 2 => Last(request.path) = Blank /\ changes > 0
  /\ phase = "answered" /\ answer.kind = "redirect" =>
       /\ hops # 2
       /\ hops = 0 => Last(answer.to) = Blank \/ Passes(answer.to, request)
       /\ hops = 1 => Last(answer.to) = Blank /\ changes > 0

\* What a look that redirects to the slash says of the path.
LEMMA SlashIsLast ==
  ASSUME NEW path, Text(path) PROVE Last(Append(path, Blank)) = Blank
<1>1. PICK T : path \in Seq(T)
  BY DEF Text
<1> DEFINE S == T \union {Blank}
           y == Append(path, Blank)
<1>2. path \in Seq(S) /\ Blank \in S
  <2>1. T \subseteq S /\ Blank \in S
    OBVIOUS
  <2> HIDE DEF S
  <2> QED BY <1>1, <2>1, SeqMonotonic
<1> HIDE DEF S
<1>3. Len(y) = Len(path) + 1 /\ y[Len(path) + 1] = Blank
  BY <1>2
<1> HIDE DEF y
<1>4. Last(y) = y[Len(y)]
  BY DEF Last
<1> QED BY <1>3, <1>4 DEF y

\* A path that is clean is looked up as it is, whatever the method.
LEMMA CleanIsPathOf ==
  ASSUME NEW r, cleanPath(r.path) = r.path PROVE PathOf(r) = r.path
BY DEF PathOf

\* The path of a request without CONNECT is clean when it is looked up.
LEMMA PathOfIsClean ==
  ASSUME NEW r, IsRequest(r), r.method # "CONNECT"
  PROVE  cleanPath(PathOf(r)) = PathOf(r) /\ RedirectHost(r) = stripHostPort(r.host)
BY CleanIsClean DEF IsRequest, PathOf, RedirectHost

\* A pattern that comes in makes the condition on changes false.
LEMMA HandleLeads ==
  ASSUME IInv, Led, NEW p \in Pattern, NEW method \in Method, Handle(p, method)
  PROVE  Led'
<1>1. UNCHANGED <<request, phase, answer, hops>>
  BY DEF Handle, client
<1>2. changes \in Nat /\ changes' = IF phase = "idle" THEN 0 ELSE changes + 1
  BY DEF Handle, IInv, Served
<1>3. CASE phase = "idle"
  <2>1. hops = 0
    BY <1>3 DEF Led
  <2> QED BY <1>1, <1>3, <2>1 DEF Led
<1>4. CASE phase # "idle"
  <2>1. changes' > 0 /\ changes' # 0
    BY <1>2, <1>4
  <2>2. Passes(request.path, request) => Passes(request.path, request)'
    BY <1>1, <2>1 DEF Passes
  <2>3. Passes(answer.to, request) => Passes(answer.to, request)'
    BY <1>1, <2>1 DEF Passes
  <2> QED BY <1>1, <2>1, <2>2, <2>3 DEF Led
<1> QED BY <1>3, <1>4

\* The first look redirects a client that it redirected before only after a change.
LEMMA FirstLookLeads ==
  ASSUME IInv, Led, redirectToPathSlash PROVE Led'
<1>1. phase = "redirect" /\ UNCHANGED <<mux, request, hops, changes>>
  BY DEF redirectToPathSlash
<1>2. IsRequest(request) /\ changes \in Nat
  BY <1>1 DEF IInv, Served
<1>3. CASE Redirects(mux, request)
  <2>1. phase' = "answered" /\ answer' = Redirect(Append(PathOf(request), Blank))
    BY <1>3 DEF redirectToPathSlash, Redirects
  <2>2. answer'.to = Append(PathOf(request), Blank)
    BY <2>1 DEF Redirect
  <2>3. Last(answer'.to) = Blank
    BY <1>2, <2>2, PathOfIsText, SlashIsLast
  <2>4. Last(PathOf(request)) # Blank
    BY <1>3 DEF Redirects, shouldRedirect
  <2>5. hops # 0 => PathOf(request) = request.path
    BY <1>1, CleanIsPathOf DEF Led
  <2>6. hops # 2
    BY <2>4, <2>5 DEF Led
  <2>7. hops = 1 => changes > 0
    <3> SUFFICES ASSUME hops = 1, changes = 0 PROVE FALSE
      BY <1>2
    <3>1. Passes(request.path, request) /\ PathOf(request) = request.path
      BY <2>4, <2>5 DEF Led
    <3>2. ~shouldRedirect(mux, RedirectHost(request), PathOf(request))
      BY <1>2, <3>1, PathOfIsClean DEF Passes
    <3> QED BY <1>3, <3>2 DEF Redirects
  <2>8. Passes(request.path, request) => Passes(request.path, request)'
    BY <1>1 DEF Passes
  <2> QED BY <1>1, <2>1, <2>3, <2>6, <2>7, <2>8 DEF Led
<1>4. CASE ~Redirects(mux, request)
  <2>1. phase' = "match"
    BY <1>4 DEF redirectToPathSlash, Redirects
  <2>2. Passes(request.path, request) => Passes(request.path, request)'
    BY <1>1 DEF Passes
  <2> QED BY <1>1, <2>1, <2>2 DEF Led
<1> QED BY <1>3, <1>4

\* The second look redirects a client to a clean path, that passed the first, only once.
LEMMA SecondLookLeads ==
  ASSUME IInv, Led, ServeHTTP PROVE Led'
<1>1. /\ phase = "match" /\ phase' = "answered" /\ answer' \in Second(mux, request)
      /\ UNCHANGED <<mux, request, hops, changes>>
  BY DEF ServeHTTP
<1>2. IsRequest(request) /\ changes \in Nat
  BY <1>1 DEF IInv, Served
<1>3. Passes(request.path, request) => Passes(request.path, request)'
  BY <1>1 DEF Passes
<1>4. CASE PathOf(request) = request.path
  <2>1. answer'.kind # "redirect"
    BY <1>1, <1>4, HandlersDoNotRedirect DEF Second
  <2> QED BY <1>1, <1>3, <2>1 DEF Led
<1>5. CASE PathOf(request) # request.path
  <2>1. hops = 0
    BY <1>1, <1>5, CleanIsPathOf DEF Led
  <2>2. answer' = Redirect(PathOf(request))
    BY <1>1, <1>5 DEF Second
  <2>3. answer'.to = PathOf(request)
    BY <2>2 DEF Redirect
  <2>4. request.method # "CONNECT"
    BY <1>5 DEF PathOf
  <2>5. changes = 0 => ~Redirects(mux, request)
    BY <1>1 DEF IInv, Looked, Grown
  <2>6. Passes(answer.to, request)'
    BY <1>1, <1>2, <2>3, <2>4, <2>5, PathOfIsClean DEF Passes, Redirects
  <2> QED BY <1>1, <1>3, <2>1, <2>6 DEF Led
<1> QED BY <1>4, <1>5

\* A client is led on to a clean path, as its answer says.
LEMMA FollowLeads ==
  ASSUME IInv, Led, Follow PROVE Led'
<1>1. /\ phase = "answered" /\ answer.kind = "redirect" /\ phase' = "redirect"
      /\ hops' = hops + 1 /\ UNCHANGED <<mux, changes>>
  BY DEF Follow
<1>2. PICK method \in {request.method, "GET"} :
        request' = [request EXCEPT !.path = cleanPath(answer.to), !.method = method]
  BY DEF Follow
<1>3. IsRequest(request) /\ Text(answer.to) /\ changes \in Nat
  BY <1>1 DEF IInv, Served
<1>4. request' = [host |-> request.host, path |-> cleanPath(answer.to), method |-> method]
  <2>1. request = [host |-> request.host, path |-> request.path, method |-> request.method]
    BY <1>3 DEF IsRequest
  <2> QED BY <1>2, <2>1
<1>5. /\ request'.path = cleanPath(answer.to) /\ request'.host = request.host
      /\ request.method # "CONNECT" => request'.method # "CONNECT"
  BY <1>2, <1>4
<1>6. /\ cleanPath(request'.path) = request'.path
      /\ Last(answer.to) = Blank => Last(request'.path) = Blank
  BY <1>3, <1>5, CleanIsClean
<1>7. hops \in {0, 1} /\ hops' \in {1, 2} /\ (hops = 0 <=> hops' = 1) /\ (hops = 1 <=> hops' = 2)
  <2>1. hops \in {0, 1}
    BY <1>1 DEF Led
  <2> QED BY <1>1, <2>1
<1>8. hops' = 1 => Last(request'.path) = Blank \/ Passes(request.path, request)'
  <2> SUFFICES ASSUME hops = 0, Passes(answer.to, request) PROVE Passes(request.path, request)'
    BY <1>1, <1>6, <1>7 DEF Led
  <2>1. request'.path = answer.to
    BY <1>5 DEF Passes
  <2> QED BY <1>1, <1>5, <1>6, <2>1 DEF Passes
<1>9. hops' = 2 => Last(request'.path) = Blank /\ changes' > 0
  BY <1>1, <1>6, <1>7 DEF Led
<1> QED BY <1>1, <1>6, <1>7, <1>8, <1>9 DEF Led

LEMMA LedStep == IInv /\ Led /\ [Next]_vars => Led'
<1> SUFFICES ASSUME IInv, Led, [Next]_vars PROVE Led'
  OBVIOUS
<1>1. ASSUME NEW r \in Requests, Request(r) PROVE Led'
  <2>1. hops' = 0 /\ phase' = "redirect"
    BY <1>1 DEF Request, Led
  <2> QED BY <2>1 DEF Led
<1>2. CASE Finish
  BY <1>2 DEF Finish, Led
<1>3. CASE UNCHANGED vars
  <2>1. Led' <=> Led
    BY <1>3 DEF vars, client, Led, Passes
  <2> QED BY <2>1
<1> QED BY <1>1, <1>2, <1>3, HandleLeads, FirstLookLeads, SecondLookLeads, FollowLeads DEF Next

\* A redirect leads to a path that is not redirected again, unless a pattern is registered
\* meanwhile; and even then a client follows two at most.
THEOREM RedirectsEnd == Spec => []FewRedirects
<1>1. Init => Led
  BY DEF Init, Led
<1>2. Led => FewRedirects
  BY DEF Led, FewRedirects
<1> QED BY <1>1, <1>2, IInvInit, IInvStep, LedStep, PTL DEF Spec
=============================================================================
