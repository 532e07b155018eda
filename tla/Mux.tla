-------------------------------- MODULE Mux --------------------------------
(***************************************************************************)
(* The request multiplexer (src/web/restful/mux): patterns are registered  *)
(* while requests are answered.  A request looks at the table twice, for   *)
(* the redirect and for the handler, each time under the read lock; a      *)
(* pattern may be registered between the two.                              *)
(*                                                                         *)
(* A text is the sequence of its segments, so that "/a/" is <<"", "a", "">>*)
(* and a host followed by a path has the host as its first segment.  A     *)
(* segment that stands for a parameter is a member of Param.               *)
(***************************************************************************)
EXTENDS Naturals, Sequences, FiniteSets, SequencesExt

CONSTANTS Pattern,   \* patterns that are registered; an empty one is a panic
          Param,     \* segments "{name}"
          Path,      \* paths of requests, not all of them clean
          Host,      \* hosts of requests, some with a port
          Bare,      \* host with a port -> the host without it
          Method,    \* methods, "CONNECT" may be one of them
          MaxEntries,\* bound: patterns registered
          None

\* The segment before a slash at the beginning and after one at the end; also the host of
\* a pattern that has none.
Blank == ""

ASSUME MuxAssumption ==
  /\ Pattern \subseteq Seq(STRING) \ {<<>>, <<Blank>>} /\ Blank \notin Param
  /\ Path \subseteq Seq(STRING) \ {<<>>}
  /\ \A p \in Path : p[1] = Blank
  /\ DOMAIN Bare \subseteq Host /\ MaxEntries \in Nat

VARIABLES
  mux,      \* the ServeMux: its m, rm, es and hosts
  request,  \* the request that is being answered, or None
  phase,    \* "idle", "redirect", "match" or "answered"
  answer,   \* what the request is answered with, or None
  hops,     \* redirects the client has followed
  before,   \* the ServeMux when the client began, None without a request
  changes   \* registrations since then

client == <<request, phase, answer, hops, before>>
vars == <<mux, client, changes>>

NewServeMux == [m |-> {}, rm |-> {}, es |-> <<>>, hosts |-> FALSE]

Init == /\ mux = NewServeMux
        /\ request = None
        /\ phase = "idle"
        /\ answer = None
        /\ hops = 0
        /\ before = None
        /\ changes = 0

-----------------------------------------------------------------------------
(* Registration. *)

\* urlParse: the places of parameters in a pattern.
Places(p) == {i \in DOMAIN p : p[i] \in Param}
urlParse(p) == IF Places(p) = {} THEN {} ELSE {p[Min(Places(p))]}

\* The expression that a pattern with parameters becomes: their names do not matter.
RegexpPattern(p) == [i \in DOMAIN p |-> IF p[i] \in Param THEN "(.+)" ELSE p[i]]

\* The length of a pattern, with names of one letter.
Length(p) == Len(p) + Cardinality({i \in DOMAIN p : p[i] # Blank})

\* Mutant of appendSorted: a new subtree goes last.
appendSortedLast(es, e) == Append(es, e)

\* A new subtree goes before the first shorter one.
appendSorted(es, e) ==
  LET shorter == {i \in DOMAIN es : Length(es[i].pattern) < Length(e.pattern)}
  IN  IF shorter = {} THEN Append(es, e) ELSE InsertAt(es, Min(shorter), e)

\* Two patterns with one method or two: the second panics and changes nothing.
Registered(p) ==
  IF urlParse(p) # {} THEN \E e \in mux.rm : RegexpPattern(e.pattern) = RegexpPattern(p)
  ELSE \E e \in mux.m : e.pattern = p

\* The table with one more entry.
Added(t, e) ==
  LET hosts == t.hosts \/ e.pattern[1] # Blank
  IN  IF urlParse(e.pattern) # {}
      THEN [t EXCEPT !.rm = @ \union {e}, !.hosts = hosts]
      ELSE [t EXCEPT !.m = @ \union {e}, !.hosts = hosts,
                     !.es = IF Last(e.pattern) = Blank THEN appendSorted(@, e) ELSE @]

Handle(p, method) ==
  /\ ~Registered(p)
  /\ Cardinality(mux.m \union mux.rm) < MaxEntries
  /\ mux' = Added(mux, [pattern |-> p, method |-> method])
  /\ changes' = IF phase = "idle" THEN 0 ELSE changes + 1
  /\ UNCHANGED client

-----------------------------------------------------------------------------
(* Paths. *)

\* path.Clean: the names of a path, without those that a later ".." takes back.
Names(p) ==
  LET named == {i \in DOMAIN p : p[i] \notin {Blank, ".", ".."}}
      ups == {i \in DOMAIN p : p[i] = ".."}
      Within(set, i, j) == Cardinality({k \in set : i < k /\ k <= j})
      kept == {i \in named : \A j \in ups : Within(ups, i, j) <= Within(named, i, j)}
      Nth(n) == CHOOSE i \in kept : Within(kept, 0, i) = n
  IN  [n \in 1 .. Cardinality(kept) |-> p[Nth(n)]]

\* Mutant of cleanPath: a slash at the end is lost, as path.Clean loses it.
cleanPathShort(p) == IF Names(p) = <<>> THEN <<Blank, Blank>> ELSE <<Blank>> \o Names(p)

\* No empty segment, "." or ".." remains, and a slash at the end stays.
cleanPath(p) ==
  IF Names(p) = <<>> THEN <<Blank, Blank>>
  ELSE <<Blank>> \o Names(p) \o (IF Last(p) = Blank THEN <<Blank>> ELSE <<>>)

stripHostPort(h) == IF h \in DOMAIN Bare THEN Bare[h] ELSE h

\* host + path
At(host, path) == [path EXCEPT ![1] = host]

\* The host and the path that a request is matched with: its own for CONNECT.
HostOf(r) == IF r.method = "CONNECT" THEN r.host ELSE stripHostPort(r.host)
PathOf(r) == IF r.method = "CONNECT" THEN r.path ELSE cleanPath(r.path)

\* The host that the redirect is looked up with: the URL's for CONNECT, which has none
\* when it is a path.
RedirectHost(r) == IF r.method = "CONNECT" THEN Blank ELSE stripHostPort(r.host)

-----------------------------------------------------------------------------
(* Matching, with the table t. *)

\* The regular expression is found in the text: it is not anchored, so that a literal
\* segment at the beginning of the pattern matches what it ends, and one at the end
\* what it begins; with names of one letter that is itself, or anything when empty.
Fits(p, text) ==
  /\ Len(p) = Len(text)
  /\ \A i \in DOMAIN p :
       \/ p[i] \in Param /\ text[i] # Blank
       \/ p[i] = text[i]
       \/ i \in {1, Len(p)} /\ p[i] = Blank

HasPrefix(text, p) == Len(p) <= Len(text) /\ \A i \in 1 .. Len(p) - 1 : text[i] = p[i]

\* The subtrees that a text is in, by their places.
Trees(t, text, method) ==
  {i \in DOMAIN t.es : HasPrefix(text, t.es[i].pattern) /\ t.es[i].method = method}

Handler(e, text) ==
  [kind |-> "handler", pattern |-> e.pattern,
   params |-> {<<n, text[Min(Places(e.pattern))]>> : n \in urlParse(e.pattern)}]
NotFound == [kind |-> "notfound"]
Redirect(path) == [kind |-> "redirect", to |-> path]

\* Mutant of match: the subtrees come before the patterns with parameters.
matchTreesFirst(t, text, method) ==
  LET exact == {e \in t.m : e.pattern = text /\ e.method = method}
      params == {e \in t.rm : Fits(e.pattern, text) /\ e.method = method}
      trees == Trees(t, text, method)
  IN  CASE exact # {} -> {Handler(e, text) : e \in exact}
        [] exact = {} /\ trees # {} -> {Handler(t.es[Min(trees)], text)}
        [] OTHER -> {Handler(e, text) : e \in params}

\* What may be found: the pattern itself, else any of the patterns with parameters, as
\* the map is walked in no order, else the longest subtree; or nothing.
match(t, text, method) ==
  LET exact == {e \in t.m : e.pattern = text /\ e.method = method}
      params == {e \in t.rm : Fits(e.pattern, text) /\ e.method = method}
      trees == Trees(t, text, method)
  IN  CASE exact # {} -> {Handler(e, text) : e \in exact}
        [] exact = {} /\ params # {} -> {Handler(e, text) : e \in params}
        [] OTHER -> IF trees = {} THEN {} ELSE {Handler(t.es[Min(trees)], text)}

\* Patterns with the host before those without.
handler(t, host, path, method) ==
  LET hostly == IF t.hosts THEN match(t, At(host, path), method) ELSE {}
      plain == match(t, path, method)
  IN  CASE hostly # {} -> hostly
        [] hostly = {} /\ plain # {} -> plain
        [] OTHER -> {NotFound}

\* A subtree is registered and its root without the slash is not, for any method.
shouldRedirect(t, host, path) ==
  LET p == {path, At(host, path)}
      Has(text) == \E e \in t.m : e.pattern = text
  IN  /\ ~\E c \in p : Has(c)
      /\ path # <<Blank>> /\ Last(path) # Blank
      /\ \E c \in p : Has(Append(c, Blank))

\* The answers without the redirect to the slash.
Second(t, r) == IF PathOf(r) # r.path THEN {Redirect(PathOf(r))}
                ELSE handler(t, HostOf(r), r.path, r.method)

\* What a table answers when it does not change.
Answers(t, r) == IF shouldRedirect(t, RedirectHost(r), PathOf(r))
                 THEN {Redirect(Append(PathOf(r), Blank))} ELSE Second(t, r)

-----------------------------------------------------------------------------
(* Requests. *)

Request(r) ==
  /\ phase = "idle"
  /\ request' = r
  /\ phase' = "redirect"
  /\ before' = mux
  /\ changes' = 0
  /\ UNCHANGED <<mux, answer, hops>>

\* Mutant of redirectToPathSlash: the path is looked up before it is cleaned.
redirectToPathSlashRaw ==
  /\ phase = "redirect"
  /\ IF shouldRedirect(mux, RedirectHost(request), request.path)
     THEN phase' = "answered" /\ answer' = Redirect(Append(request.path, Blank))
     ELSE phase' = "match" /\ UNCHANGED answer
  /\ UNCHANGED <<mux, request, hops, before, changes>>

\* The first look.
redirectToPathSlash ==
  /\ phase = "redirect"
  /\ IF shouldRedirect(mux, RedirectHost(request), PathOf(request))
     THEN phase' = "answered" /\ answer' = Redirect(Append(PathOf(request), Blank))
     ELSE phase' = "match" /\ UNCHANGED answer
  /\ UNCHANGED <<mux, request, hops, before, changes>>

\* The second look.
ServeHTTP ==
  /\ phase = "match"
  /\ answer' \in Second(mux, request)
  /\ phase' = "answered"
  /\ UNCHANGED <<mux, request, hops, before, changes>>

\* Two slashes at the beginning of a redirect are read as those before a host.
Elsewhere(a) == a.kind = "redirect" /\ Len(a.to) > 2 /\ a.to[2] = Blank /\ a.to[3] # Blank

\* http.Redirect cleans the path, which CONNECT had not; the client follows with its
\* method or with GET.
Follow ==
  /\ phase = "answered" /\ answer.kind = "redirect" /\ ~Elsewhere(answer)
  /\ \E method \in {request.method, "GET"} :
       request' = [request EXCEPT !.path = cleanPath(answer.to), !.method = method]
  /\ phase' = "redirect"
  /\ answer' = None
  /\ hops' = hops + 1
  /\ UNCHANGED <<mux, before, changes>>

Finish ==
  /\ phase = "answered" /\ (answer.kind # "redirect" \/ Elsewhere(answer))
  /\ request' = None
  /\ phase' = "idle"
  /\ answer' = None
  /\ hops' = 0
  /\ before' = None
  /\ changes' = 0
  /\ UNCHANGED mux

Requests == [host : Host, path : Path, method : Method]

Next == \/ \E p \in Pattern, method \in Method \ {"CONNECT"} : Handle(p, method)
        \/ \E r \in Requests : Request(r)
        \/ redirectToPathSlash \/ ServeHTTP \/ Follow \/ Finish

Spec == Init /\ [][Next]_vars

-----------------------------------------------------------------------------
(* Properties. *)

\* es holds the subtrees of m, the longest first, so that the first that fits is the
\* most specific; no two patterns with parameters become the same expression.
TypeOK ==
  /\ mux.m \union mux.rm \subseteq [pattern : Pattern, method : Method]
  /\ ToSet(mux.es) = {e \in mux.m : Last(e.pattern) = Blank}
  /\ \A i, j \in DOMAIN mux.es :
       i < j => mux.es[i] # mux.es[j] /\ Length(mux.es[i].pattern) >= Length(mux.es[j].pattern)
  /\ \A d, e \in mux.rm : RegexpPattern(d.pattern) = RegexpPattern(e.pattern) => d = e
  /\ mux.hosts = \E e \in mux.m \union mux.rm : e.pattern[1] # Blank

\* The two looks at the table are as good as one: with at most one registration while a
\* client is served, each answer it gets is an answer of the table before or after it.
AnswerFits ==
  phase = "answered" /\ changes <= 1 =>
    answer \in Answers(before, request) \union Answers(mux, request)

\* A redirect leads to a path that is not redirected again, unless a pattern is
\* registered meanwhile; and even then a client follows two at most.
FewRedirects == hops <= 2 /\ (hops = 2 => changes > 0)

\* The patterns of a request's method that its text fits.
Fitting(t, text, method) ==
  {e.pattern : e \in {e \in t.m \union t.rm :
     e.method = method /\ (\/ e.pattern = text
                           \/ Places(e.pattern) # {} /\ Fits(e.pattern, text)
                           \/ e \in ToSet(t.es) /\ HasPrefix(text, e.pattern))}}

\* The text that is answered for: with the host if a pattern fits that, else the path.
Searched(t, r) ==
  LET hostly == At(HostOf(r), PathOf(r))
  IN  IF t.hosts /\ Fitting(t, hostly, r.method) # {} THEN hostly ELSE PathOf(r)

\* With an unchanged table a request goes to the pattern that is its text, else to any one
\* with parameters that fits, else to the longest subtree; patterns with its host, if any
\* fits, come before the others.  (Length decides among subtrees only, though mux.go:23 and
\* :105 speak of all patterns.)
PatternsInOrder ==
  phase = "answered" /\ answer.kind = "handler" /\ changes = 0 =>
    LET text == Searched(mux, request)
        fitting == Fitting(mux, text, request.method)
        withParams == {p \in fitting : Places(p) # {}}
    IN  IF withParams = {} THEN \A p \in fitting : Length(p) <= Length(answer.pattern)
        ELSE IF text \in fitting \ withParams THEN answer.pattern = text
        ELSE answer.pattern \in withParams
=============================================================================
