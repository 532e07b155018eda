# A verification development for bobi

bobi (`github.com/sycdtk/bobi`) is a Go library for web applications: a workflow engine, a rule
language, a RESTful layer with sessions, an ORM, users, and the helpers they stand on.  This
directory models its stateful parts in TLA+, checks the models with TLC and proves what matters
most with TLAPS.  All paths below are relative to `src/`.

## The system

| Component | State | Operations | What is hard |
|---|---|---|---|
| workflow engine (`workflow/engine.go`, `engine_service.go`) | definitions, nodes with their incoming and outgoing relations, process instances | `setProcess`, `Start`, `Submit` (`push`) | parallel gates: which nodes are entered, in which order, against which token; a definition that changes under a running instance |
| workflow model (`workflow/model`) | a token's two maps, statuses of node instances, the process status | `Save`, `Remove`, `FindByNodeID`, `NewNodeInst` | the two maps of a token drifting apart |
| expression (`expression`) | formulas by rule ID | `Reg`, `Calc` | a lock on one side only; replacement of keys in map order |
| rpn (`rpn`) | none | `Parse` | unbalanced parentheses |
| session manager (`web/session/session.go`) | cookie name, lifetime, cycle | `Cookie`, `Check`, `Update`, `Destroy`, `GC` | check-then-read, the collector's timer |
| memory provider (`web/session/memory`) | map from ID to session object with its access time | `Init`, `Check`, `Read`, `Update`, `Destroy`, `GC` | scan and sweep against live requests |
| restful (`web/restful`) | the router and the session manager | `wapper` around every handler | concurrent requests of one browser |
| mux (`web/restful/mux`) | exact patterns, patterns with parameters, prefixes | `Handle`, `match` | ambiguous patterns, two read locks in one request |
| logger (`logger`) | the global logger and its mutex | `Debug`, `Info`, `Err`, `change` at midnight | the global is replaced between lock and unlock |
| config (`config`) | one map of values | `Load`, `Read`, `GetNode` | keys joined without a separator |
| orm (`orm`, `orm/db`, `orm/mapper`) | connection pools, registered structs | `Create`, `Update`, `Delete`, `Query`, transactions | errors in the middle of several statements |
| users (`vuser`) | caches of users and groups, three tables | `Save`, `Update`, `Delete` | several statements without a transaction, membership kept twice |
| `ddm`, `structinfo`, `set`, `stack`, `md5`, `random`, `num`, `errtools`, `utils`, `test` | little or none | helpers | - |

How they interact: `setProcess` registers the rule of every line with `expression`, which parses
it with `rpn`; `push` evaluates it on the `Data` of the process instance.  The first file that
imports `web/restful` starts the session collector as a goroutine and from then on every request
that `mux` routes to a handler goes through `wapper`, which checks the cookie with the session
manager, which asks the memory provider.  `vuser` stores through `orm`, which builds SQL with
`mapper` and runs it with `db`.  Everything logs through `logger`, which reads `config`.  The
repository has no code that joins the workflow engine to the web layer; the engine has no locks,
so its callers must not call it concurrently, and the model takes each call as one step.

What makes each part correct: the engine never loses or duplicates a branch, never opens a join
whose direct predecessors are under way, never reaches a token that nothing can move on for want of
an open join, and keeps the token's maps and status consistent.  A session in use is neither taken
nor doubled, an idle one goes.  A line of the log has its own prefix and flags, and levels are
kept.  A transaction is stored as a whole or not at all, and connections are not lost.  Memberships
that the operations agree on are in the table.  A request gets an answer that fits the table of
patterns, and redirects come to an end.  A calculation gives the value of its formula.

## Modules

| Module | What it is |
|---|---|
| `TokenGame` | the abstract specification of a running process: sets of active nodes, and what a firing may do to them |
| `Workflow` | the engine, one action per call; its properties; the refinement mapping to `TokenGame` |
| `WorkflowMC` | definitions of processes for TLC |
| `WorkflowProofs`, `JoinProofs` | the theorems about `Workflow`; the second counts the entries of joins |
| `Session` | requests, sessions and the collector, one action per access of the shared map |
| `SessionMC`, `SessionProofs` | model values for TLC; the theorems about `Session` |
| `Config` | the map of configuration values and the file that is read into it, one line per step |
| `Logger` | extends `Config`: the global logger, its callers and the change at midnight |
| `LoggerMC`, `LoggerProofs` | files and programs for TLC; the theorems about `Logger` and `Config` |
| `AtomicStore` | the abstract specification of transactions: all or nothing |
| `Database` | single statements and transactions over a pool of connections; the refinement mapping to `AtomicStore` |
| `DatabaseMC`, `DatabaseProofs` | model values for TLC; the theorems about `Database` |
| `Users` | users, groups and the table of memberships, one action per SQL statement |
| `UsersMC`, `UsersProofs` | model values, symmetry and constraint for TLC; the theorems about `Users` |
| `Mux` | the table of patterns and a client whose requests it answers |
| `MuxMC`, `MuxProofs` | patterns and paths for TLC; the theorems about `Mux` |
| `Rpn` | `Parse` and the stack it works on, as operators |
| `Expression` | extends `Rpn`: `Reg` and `Calc` by concurrent goroutines |
| `Meaning` | extends `Expression`: formulas as trees and their value, the reference for `Calc` |
| `ExpressionMC`, `ExpressionProofs` | formulas and values for TLC; the theorems about `Expression` and `Meaning` |

### Workflow

A node object is its ID.  `To` and `From` are the relations that `setProcess` appends; `From` is a
set, because only membership matters to the loops that read it, while `To` keeps its order, which
an exclusive node depends on.  A rule is the set of values of `Data` under which `expression.Calc`
says true.  `tokenNodes` and `tokenInsts` are the two maps of `Token`; `instNode` and `instStatus`
are the node instances, including those that have left the token.  Instance numbers count up where
the code draws random identifiers: the properties need their order of creation, the code never
compares them.  `last` runs ahead by the length of the relations taken, so that the i-th relation
taken gives instance `last + i`, whether or not the nodes before it entered.

`SetProcess` is `setProcess`; `Start` is `Start`; `SetData` is the holder of the process instance
writing its `Data` map; `Submit` is `Submit` with all of `push`, in four cases: a parallel node
whose relations all hold (`SubmitParallel`), one that has to wait (`SubmitWaits`), an exclusive
node (`SubmitExclusive`), and a submission that changes nothing (`SubmitRefused`).  The nodes to
enter are processed in order: `Entering` says that the i-th of them enters exactly when the token
without the submitted node, and with the earlier ones that entered, lets it in.  The status keeps
the code's order, `Del` before `Add`.  `Reached` models the nil dereference on a line to an
unknown node: the loop stops there with what it has done so far.

Assumed of the callers: nodes of two processes differ, as `NewNode` draws an identifier for each;
a second `setProcess` passes the same node objects, so that their relations accumulate (new
objects under the old IDs would start with none).  The engine's node types all lead to the same
call and are left out.

### TokenGame

The promise of the engine in four lines: an active node may fire, whereupon it leaves and hands
over to all its successors if it splits, to one of them otherwise; a successor that joins is not
entered exactly while a predecessor of it is active.  Since a successor that is kept out is kept
out by an active node, no branch is ever dropped.  `PlaysTokenGame` maps `active` to the token's
nodes, `succ` to the targets of `To` and `pred` to `From`.

### Session

The map is a function from ID to the number of the object it holds; an object made later for the
same ID has a larger number.  A request of a browser goes through `wapper`: `Arrive` reads the
cookie, `Check`, `Read` and `ReadInit` are the accesses of `SessionManager.Check`, `Update`
refreshes the object that was read, `NewCookie` makes a session under a fresh ID, `Finish` sends
the response, with which the browser's cookie changes.  Whether a handler wants authentication is
the choice between the refusal and a new cookie.  While the handler runs it may renew the session
(`Renew`) or log out (`Destroy`), through a manager of its own on the same provider.  The collector
starts its `Range`, visits sessions one by one, and then deletes what it noted one by one.  A visit
has two halves (`memory.go:111`): `GCLook` reads the access time, `GCCompare` then the clock.
`sync.Map.Range` promises to visit what is in the map throughout, and says nothing of what is
stored meanwhile: `gcView` is "due" for the former and "optional" for the latter.

Time is the age of the object in the map, in seconds, stopping one second past the lifetime.
`Tick` may come at any point, also between the two halves of a visit (`gcAge` is the age of the time
that the collector has read) and within a renewal: the time that a request stores was on the clock at
some moment since its last step (`lag`).  Storing it is one step: the collector only takes its
seconds, which are read from a single word.

The value of the cookie is `Escape(id)`: an ID is 32 bytes in URL base64, which ends in "=", so
`url.QueryEscape` never leaves it as it is.  This is why `Destroy`, which does not unescape, finds
nothing.

### Logger and Config

Every statement of `logger.go` mentions the global `mylogger` and so loads it anew.  A thread
therefore alternates between `Fetch`, which loads the pointer, and what the statement does to the
logger it has loaded: `Ask` compares the level, `Lock`, `SaveFlags`, `SetFlags`, `SetPrefix`, `Output`
and `Unlock` are the body of a printing function, `SetLevel` and `SetLevelFlags` the two assignments
of `SetLevel`.  At midnight `TimerZero` starts a goroutine (`Midnight`, `Open`, `Publish`) that reads
the configuration, makes a logger at level DEBUG, publishes it, and only then sets its level, with
the same two steps as any other caller.  A program (`Role`) says which functions each goroutine
calls.

Some of the state is history.  `mine` is the logger whose mutex a call took, or whose level it set;
`settled` says that neither level nor logger has changed since the call began; `astray` that some
call was caught by a replacement of the logger, between two of its statements; `muddled` that two
settings of flags met.  Properties are conditional on these, because the code promises nothing
beyond: the lock is that of whichever logger is current.  `ended` says why the process has stopped:
a mutex unlocked that is not locked, a map read while it is written, a log file that cannot be opened.

`Config` reads a file line by line (`ReadLine`) into one map, in parallel with everything else.  A
text is a sequence of tokens, so that section and key are joined by `\o`, and two pairs may spell the
same entry.  The section in force at the end of a file stays in force for the next one.
`FileInForce` states what is in the map by positions in the file, as a reference for the code's
handling of blanks and comment marks.

### Database and AtomicStore

Rows have a last writer in place of a value.  `CallPool`, `TakeConn`, `RunStatement` and
`FailStatement` are a single statement or query; `BeginTransaction` takes a connection and keeps it;
`Execute` only notes a statement; `EndTransaction` prepares and executes what was noted (`Prepare`,
`Exec`, `ExecFails`) and closes (`Close`) with Rollback when `err` is set and with Commit otherwise,
whose failure is dropped.  The statement that failed at `orm/db/db.go:214` is a panic through the
deferred function, with `err` set: `Failed` leads to a rollback.  The pool of `database/sql`, the
locks on rows and the detection of deadlocks (`Deadlocked`, `BreakDeadlock`) are external, taken from
what the code relies on.  `Crash` stops the process at any point.  A single statement takes a connection
once here: `ExecuteDB` takes one to prepare it, gives it back, and takes one again to execute it, which is
the same wait twice in a row and holds nothing in between.

There is one pool with at least one connection.  A missing `maxOpenConns` is 0, which means no limit
to `database/sql`; nothing waits for a connection then, which is the case `MaxOpen` of at least the
number of clients.  Two facts of the code are outside the model because they concern the choice of
pool: `db.go:59` reads the section "postgres" for every database, and `orm.go:117` ignores `dbName`.

`AtomicStore` is a store that changes by one statement or by a whole transaction, where any
transaction may be given up.  `AllOrNothing` maps `pending` to the statements noted so far.

### Users

A user and a group do the same to the same tables, so both are entities, on one of two sides.  Each
operation is a row of statements, each on its own: `SaveRow`, `SavePair`; `UpdateRow`, `ClearPairs`,
`WritePair` once for each membership in any order; `ClearPairs`, `DeleteRow`.  Any of them may `Fail`,
and the process may `Crash`.  `SavePair` is the panic of `vuser/dbop.go:17`, which asks the mapper for
a column that its struct has not: a Save never stores a membership.  What the mapper does is what it
does to rows (`CreateRow`, `DeletePairs`, ...), with the condition under which it panics (`Built`).

`wanted` and `dropped` are histories of what the operations asked for: a pair is wanted from the
beginning of an operation that writes it, when none is under way that takes it out, until one
begins that does, or a writer fails.  The operations of one object may be interleaved with those of
another that shares the pair.  An Update of an object whose set has become empty leaves the old memberships
(`dbop.go:28`): it is taken to ask for nothing.  Deleting a user does not take it out of the sets of groups in
memory, so that the group's next Update writes the membership again; as this is what that Update is
asked for, it is `wanted`, and no property objects.

`New` is `NewUser` and `NewGroup` in one step: they write the maps of the manager without a lock, and
callers that run them together may be stopped by the runtime.  The set that is passed is kept, not
copied (`user.go:68`, `group.go:21`), so sets are objects: `holds` says which one an entity has, `sets`
what is in it.  `NewOwn` passes a set that nothing else has, `NewShared` one that an object already has.
With a shared set the two sides drift apart by the manager's own functions: a group made with {u1},
when u1 and u2 were made with one set, is added to that set and so to both users, while the group
has u1 alone.  `LinksAreMutual` is about objects that share with none.  A nil set is outside the model; both
functions would fail on it at once.  `Begin` fixes the set that an operation writes, whereas the code looks
at it twice, for `Empty` and for `Array`: nobody is assumed to change it while an operation on its object is
under way.  Organizations are kept in memory
only and are left out, with tenants.

### Mux

A text is the sequence of its segments; a host with a path has the host for its first segment.
`Handle` registers a pattern, under the write lock.  A client's request passes `redirectToPathSlash`
and `ServeHTTP`, the two looks at the table that `Handler` takes under a read lock each; between them,
and between a redirect and its following, patterns may come in.  One request at a time is enough,
since requests only read the table.  `match` gives the set of handlers that may answer: the
patterns with parameters are walked in map order.  Their regular expressions are not anchored,
which `Fits` models.  A CONNECT request is looked up for the redirect with the host of its URL, which a
path has not (`RedirectHost`), and otherwise with its own.  `path.Clean` is described by which names it leaves
(`Names`), not by how it walks.  A redirect that is followed is cleaned once more by `http.Redirect`;
one that begins with two slashes names another host and takes the client away (`Elsewhere`).  `before` and `changes` remember the table at the beginning and the number of
registrations since.

### Rpn and Expression

A token is a sequence of letters, none of them a space, so that replacing a key within it means
something; a text is a sequence of tokens.  Function names are letters too.  `prepare` sets each apart
from what is around it (`FormulaAssumption`), but a replacement may change one or make one up
afterwards: "@xEQ" with an empty x is "@EQ", which has no mark, so that `Calc` loops.  Keys and values
with spaces in them are outside the model.  `Parse` is a recursive function along the tokens
that either gives a text or `loops` (a right parenthesis that pops the empty stack for ever).
`Calc` reads the map, fills in the values in any order of the keys (`SetToSeqs`), where `Replace`
goes along each token letter by letter, and evaluates with a stack (`Run`).  A thread whose `Parse`
loops keeps the lock of `Reg` for ever.

In `Meaning`, formulas in function form and their arguments are trees (`Tree`, each with its
`Height`): `Text` writes one out, `Value` is what it means, and `CalcIsValue` compares the two ways for
keys and values that are `Apart`.  Any other sequences of tokens, malformed ones among them,
are formulas too.

## Runs

| Run | Question | Result |
|---|---|---|
| `workflow` | types, token, index, joins, status, closed instances, refinement | holds |
| `join_early` | is a join entered only after the nodes of all its incoming lines were executed, as `workflow/README.md:36` says? | no |
| `merge` | are both maps of a token the set of running instances, as `workflow/model/token.go:10-11` says? | no |
| `session` | types, sessions in use are intact | holds, unless a lifetime passes within the collector's look |
| `idle` | do sessions that nobody uses go? | yes |
| `destroy` | does `Destroy` destroy the session, as `web/session/session.go:33` says? | no |
| `collector` | does the collector delete only expired sessions, as `web/session/session.go:34` says? | no |
| `logger` | lines, levels and flags are kept apart, errors are printed, calls return, the configuration is the file's | holds, unless a call is caught by the replacement of the logger |
| `transactions` | connections and locks are kept, transactions are atomic, waiting and ending come to an end | holds, but for a gridlock of the pool |
| `users` | memberships agreed on are kept, those dropped are gone, copies are bounded, users and groups have each other | holds, in the cache for sets that are not shared |
| `mux` | two looks are as good as one, redirects end, patterns answer in the order of `match` | holds |
| `expression` | a calculation is the value of its formula, what makes `Calc` loop, registrations end | holds, but for malformed formulas and stray "@"s |

`workflow` has two processes.  `Fork` splits into two branches of which one opens only under `d1`,
joins them and goes round again or ends; its second registration (`MaxRegs` = 2) adds a way back
out of a branch, at any moment of a run.  `Knot` has two joins that precede each other, a node that
is redone, two nodes of one name and an end with the unsupported inclusive gate.  One process
instance is enough, since no operation reads two of them; twelve node instances (`MaxInsts`) let
the loop of `Fork` go round twice, up to the second entry of its join.  Properties on the order of
joins hold while the definition is the one the instance was started with (`regs` = 1): a second
registration may add predecessors to a join that is already under way.  A process may come to its
end, so deadlock is not checked.

`JoinAfterAllBranches` is what is true of joins where the README claims more: in a diamond, whose
branches are single nodes, the join is entered no more often than each branch has been completed.
`join_early` shows how the claim fails when a branch has two steps.

`session` has one browser with two requests at a time, two IDs, two objects for one ID, a lifetime
of one second.  That is the least in which a session lapses and is read again, in which Read makes
a second object while a request holds the first, and in which one ID is collected while another is
used.  IDs and requests are alike (`Alike`), which `idle`, the run with a liveness property, makes
no use of; it has one request.  The history `fate` tells sessions that have once been past their lifetime or were
logged out of ("ended"), and those whose access time, as the collector had read it, went past the
lifetime before the collector looked at the clock ("late"); `UsedSessionIntact` is about the others.
What the run shows: for these, check-then-read and scan-then-sweep are harmless, and the
strictness of the comparison is what makes them so.  Of the rest nothing is promised.  A session that has
lapsed and is renewed before the sweep is deleted all the same.  So may be one that never lapsed, as
`collector` shows: the collector reads its access time, it is renewed within its lifetime, the second
turns, and the collector compares the old time with the new second.

`logger` has two callers, two loggers (one midnight) and one load of one of four files.  Four
programs pair the functions that can disturb each other: errors with lines of `Println`, errors or
lines with `SetLevel`, and messages with a load of the configuration.  The files have blanks,
comments, a pair that spells another's key, no level, and no section of their own.  A second
midnight would add nothing: each replaces the current logger in the same way, and the proofs
cover any number.

`transactions` has two clients, two rows, two connections and two statements: enough for
transactions that lock each other out, for a pool that is used up by transactions whose clients
want one more, and for a transaction that fails at either statement.

`users` has two users, one group, two goroutines and one row for an entity.  The group's Update has
two memberships to write and meets the Update or Delete of either user.  Making objects and
operating on the tables touch different variables, so the constraint `Made` looks at operations only in
one cache, of objects with empty sets of their own, and after a restart, while objects are made in
every way with no operation under way.  The symmetry is sound: the two users and the two goroutines are
alike, and the properties are invariants.

`mux` has ten patterns, three of which are registered: a root, a subtree with and without the
slash, one with a host, two subtrees that are not clean, and four with parameters, two of which
differ only in the order of their names.  Six paths, some of them not clean, three hosts and three methods make the requests.

`expression` has two goroutines, one name, eight formulas that use every function, seven malformed
ones and ten sets of values: apart from each other, overlapping with keys of others, an empty one and
others that make up a function's name with what is around them, and some whose key is the mark, a
function or a part of one.  Deadlock is checked wherever
the system goes on for ever.  It is not in `workflow`, whose processes end, in `expression`, whose
goroutines may loop for ever or be stopped by the runtime, and in `logger`, where a fatal error stops
everything.

Fairness in `idle` (and in the specification of the other runs of `Session`): time passes; the collector's goroutine and its timer
run; a request under way is served to its end.  All of it is weak: each of these steps stays
enabled until it is taken, and Go's scheduler and timers get to it.  In `logger` and `expression`
goroutines run on (weak), and a mutex is handed to those who wait (strong), as `sync.Mutex` does for who has
waited for a millisecond.  In `transactions` fairness is strong for what a call waits for: the pool
and the database serve those who wait in turn, and the database finds deadlocks.  It is also
assumed there that a client ends the transaction it has begun: one that does not keeps its
connection.  No fairness is assumed of browsers, of handlers that renew or log out, of failures,
or of callers of the engine, of users or of the mux, whose modules have safety properties only.

## Proofs

Each theorem holds for every value of the constants that the assumptions named in the modules
allow: any number of nodes, goroutines, sessions, users, connections, loggers.

**Workflow** (`WorkflowProofs`).  The inductive invariant is
`IInv == TypeOK /\ DefsOK /\ IndexConsistent /\ TokenNeverEmpty`.  `DefsOK` says that, for lines that
resolve, the relations of a node of a process lead to nodes of that process, and that no join
precedes itself unless a line says so; without it nothing rules out that an advance stops at an unknown
node and leaves an empty token.  `IndexConsistent` is needed for `TokenNeverEmpty` (the node that keeps
a join out must not be the one just removed), and `ClosedForever` needs in addition that instance
numbers beyond `last` are unused.  `AdvanceFacts` says once what an advance does to every variable; the
lemmas on invariants are built on it, one step per action.  Proved: `TypeCorrect`,
`IndexAlwaysConsistent`, `TokenKept`, `BlockersNewer`, `GridlockFree`, `ClosedStaysClosed`, `StatusIsTrue`,
and, if every line joins two nodes of its call (`LinesResolve`), `EnginePlaysTokenGame`: `Spec`
implements `TokenGame`.

`TokenNeverEmpty` goes as follows: an advance takes at least one relation, and the first node it
leads to either enters or is refused because a predecessor is in the token without the submitted
node; either way some node is left.  `NoGridlock` follows from `BlockersAreNewer`: what blocks a
join was entered after it, so the node entered last is blocked by nothing.  The refinement needs
`IInv` before and after a step: an advance is a `Fire` of the submitted node, every other step a
`Design`, a `Begin` or a stutter.

**Joins** (`JoinProofs`).  `JoinWaitsForBranches` proves `JoinAfterAllBranches`.  It is not inductive:
the join may only be entered if every branch is a step ahead at that moment.  `Ahead` says so: while
some branch is under way, each branch that is not has been completed once more than the join has
been entered.  It rests on `Mirrored` (what a node leads to knows it as a predecessor), on instances
being fresh and on `IInv`.  It speaks of diamonds whose branches have one line each: two lines from a
branch to the join would enter the join twice for one completion.

**Session** (`SessionProofs`).  `SessionTypes` and `SessionsInUseIntact`.  Neither is inductive.
`ObjectsMade` adds that a request holds no object before it has read one and that the map holds
nothing unmade; `CookiesMade` that a cookie names a session that has been made, so that a session
missing from the map is one that was removed; `EndedMarked` that whatever is past its lifetime,
noted by the collector or about to be made again by `Read` has ended or is late, and so does, already within a
visit, an access time past the lifetime that the collector has read.  With these, the collector
and `ReadInit` can only reach sessions that `UsedSessionIntact` does not speak of.  Besides the
types of the constants the proof assumes that an escaped ID is not an ID (`EscapeAssumption`), so
it covers the code as it is, where `Destroy` finds nothing in the map.

**Database** (`DatabaseProofs`).  `IInv` consists of `Shape` (types, without the bound on free
connections), `Progress` (how far a transaction is at each stage; one that closes without an error
has executed everything), `Counted` (the sets of clients that hold connections are finite and add up
with the free ones to `MaxOpen`) and `LocksOnlyWhileEnding`.  `TransactionsAreAtomic` is the
refinement: closing without an error is the abstract Commit, because by `Progress` what is written is
everything that was noted; closing otherwise, and a crash, are Abort.

**Users** (`UsersProofs`).  `WantedIsComing` strengthens `AgreedIsKept`: a wanted membership has no
operation against it and is in the table or still to be written by one that is under way;
`DroppedIsGoing` is its counterpart.  With `TypeOK` and the stages of operations (`Stages`) they are
inductive.  `CopiesBounded` rests on `CopiesToCome`: the copies in the table plus the operations that
have one still to write are at most the goroutines; it goes up nowhere, since who begins to write
has just cleared the table.  `LinksAreMutual` (`CacheStaysMutual`) needs that sets hold only IDs that have
been drawn already, so that a new object is in none of them, and that a set is held only by or through
an object in the cache (`CacheInv`).

**Logger** (`LoggerProofs`).  `Program` says where a thread may be in which function; `Exclusive`
that each thread that holds a mutex holds that of a logger of its own, as long as no call went
astray.  From these follow the prefixes and flags of lines (`Prefixed`, `Unflagged`) and
`FatalOnlyAstray`.  `Informed` says what a call that has not been disturbed knows of the level it
compared with, which gives `DebugNeedsDebug` and `ErrorIsPrinted`.  `AllFit` says, for each logger whose level is
not being set, that its flags, or those that `Println` holds in hand, are those of its level; `SetterKnows`
that between the two statements of `SetLevel` the level is the one being set.

**Mux** (`MuxProofs`).  `TypeCorrect` rests on `AppendSortedPlaces`, which says where `appendSorted` puts a
subtree.  For `LooksAgree` the invariant notes that a request which is past the first look was
not redirected by the table before or by the table now (`Looked`), and that these two differ by one
entry at most (`Grown`).  What is left is that the second look finds the same handler in both:
`SameHandler`.  The entry that makes the difference for the redirect is the path with a slash, which is longer
than the text and so matches nothing itself; the subtrees keep their order around it
(`SameTrees`); and if it is the first pattern with a host, the table is now also searched with the host,
where only patterns with parameters can fit, the ones that fit without it (`HostMatchesNoMore`).  Patterns and
paths are any sequences, with the segments of parameters not empty.

`AnswersInOrder` (`PatternsInOrder`) says of each kind of table what `match` finds in it (`MatchIs`): the
subtrees are in order of their length, so that the first that fits is the longest (`FoundIsLongest`), and an
exact pattern is at least as long (`PrefixIsShorter`).  For `RedirectsEnd` the invariant `Led` says
where a client has been led: to a path with the slash at its end, which is not redirected again, or to
one that the first look has let pass, so that a second redirect needs a table that has changed.  It rests on
`CleanIsClean`, that cleaning a path twice is cleaning it once, which takes the numbering of the names
that are left (`NamesOfNames`).

**Configuration** (`LoggerProofs`).  `FileHolds` proves `FileInForce` of `Config`, which runs beside the
logger.  The reference `IsValue` names the first comment mark, the code searches four times, each time in what
the search before has left: `NextCut` says that each search keeps the first mark of the kinds
seen so far, `UncommentEnds` that the four together find the first of all.  The invariant `ConfInv`
says that what is left of the file is its end, and the map what the lines before it say (`Said`); `LineSaid`
and `NothingSaid` carry it over a line, `ReadSaid` over the first reading, a recursive function.

**Expression** (`ExpressionProofs`).  `LockIsHeld` is `TypeOK`.  `CalcEnds` is `CalcLoopsOnlyByStrays`, for any
formula, however malformed: nothing in `Reg` checks one, and what `Parse` makes of it decides whether
`Calc` ends.  A depth is given to each place of the text (`Deep`): it begins at 0, goes up by one at most at
a mark, and down by one at least at a function, so that there is no function without a mark of its own
before it.  While `Parse` runs, `Matched` says that the functions still on the stack (`Carried`)
are no more than the marks open in the text; a function pushes one of each, and a right
parenthesis moves functions to the text, each below its mark (`Pouring`).  What goes in for the keys
brings no "@" and takes no mark (`Kept`, `ReplaceKeeps`), so that a token that is a function was one
before, and the text stays `Deep` (`FilledDeep`); and while
`Calc` runs, the stack has at least as many marks as the depth says (`StepMarks`), so that an operator
finds one.  `Stray` is what it takes for this to fail: a key that is the mark, a value with an "@", or an
"@" in the formula that is not of a function's name.

`CalcGivesValue` is `CalcIsValue`, for functions nested to any depth, and has two halves.
`FilledAtOnce`: when no key gets into another text or a value, filling the keys in one after the other, each
over what the text has become, is filling them all in at once, so that the order of the map does
not matter; a token is a key that has not come yet, or what it will remain.  `Understood`: each tree is
understood by `Parse` and by `Calc` alike (`Means`): from wherever it stands, `Parse` goes through its text,
adds a reverse Polish text to what it has and leaves the stack as it was; running that text,
wherever the stack stands, adds the value of the tree.  `MeansLeaf`, `MeansFunction` and `MeansComma` say so of
the parts of a formula and `MeansBoth` of two of them in a row; `TreeInduction` puts them together.
The invariant of the threads is only that the map holds what `Parse` made of the formula registered
last (`MapOK`), and that a result is that of the formula read (`Returned`).  The proof found a
condition that the property lacked: a key that is the name of a function replaces the function, so that `Apart`
now excludes it, and the run has such a key.

The library's induction theorems take an operator, which no prover here can put in.  In their place, `Recursion` and `TreeRecursion` say that
functions recursive along a text or on trees exist, and `Along` and `TreeInduction` are induction
for sets, from the smallest counterexample (`LeastExists`).

Every invariant that a passing run checks is proved.  Only model-checked: liveness
(`IdleCollected`, `CallsReturn`, `WaitersServed`, `EndingEnds`, `RegEnds`), which is out of the
provers' reach; and the four violations.

## Disagreements with the documents

Besides the four runs above:

- `SessionProvider.Read` is said to give nil for a session that does not exist
  (`web/session/session.go:30`), whereas the provider makes one (`ReadInit`; its unit test relies on it).
- `maxLifeTime` is said to be in minutes (`session.go:41`), whereas code and `web/config.conf` use seconds.
- A relation without a rule is said to be taken directly (`workflow/model/relation.go:6`), whereas an
  empty expression evaluates to false.
- "Host-specific patterns take precedence over general patterns" (`web/restful/mux/mux.go:43`) and
  "Check for exact match first" (`mux.go:108`): since expressions are not anchored, "/{x}" fits "h/a",
  so that with some host registered a general pattern with a parameter goes before a host's subtree and
  before an exact path.
- "Most-specific (longest) pattern wins" (`mux.go:105`) and "Longer patterns take precedence over shorter
  ones" (`mux.go:23`) hold among subtrees only: any pattern with parameters goes before a longer
  subtree, so that "/{x}/{y}" answers "/picture/cat" though "/picture/" is registered, and of two patterns
  with parameters the map's order decides.  `PatternsInOrder` says what holds.
- Lines with an end outside the node set are said to be ignored (`workflow/engine.go:76`); `SetProcess`
  adds a relation to the other end, and a submission that takes it panics after the submitted node
  has left the token (`Reached` in `Advance`).
- A redirect is said to go to "the pattern that will match after following the redirect"
  (`mux.go:205-206`); it may be a subtree of another method.
- The formula of `README.md:37` has a function `@SEQ`, which there is not: `Parse` never returns from it.
- `@NEQ` is called `@NE` in `rpn/rpn.go:18-19`, and `@EQ` is listed among the functions on numbers, but
  compares texts: 1 and 1.0 differ.
- `@NIN(ff,data)` with a list that holds ff is said to be true (`README.md:24`) and is false.

## Not modelled

`ddm` is a registry of field names, sequential, each operation a single assignment.  `structinfo`,
`md5`, `random`, `num`, `errtools`, `utils` (but for the midnight timer) and `test` are pure functions,
input and output, or assertions.  `web.go` and `message.go` are wrappers without state.  Of the
modelled parts these are left out: tasks of the workflow, which the engine does not use; values of
a session; `GetNode` of the configuration; several pools, the wrappers of `orm.go` and `TableExist`;
the SQL text that the mapper builds and its `Write` into structs; organizations and tenants;
parameters that share a segment with text, and regular-expression characters in patterns; how
`prepare` splits a text into tokens.

Bytes that `db.go:114` keeps past the next row, and the statement that `db.go:135` prepares and never closes, are
not in `Database`: both are matters of memory that no state of the model depends on.

## Plan

Still open: a composition of `Workflow` with `Expression` in which rules are formulas rather than the
sets of data that satisfy them.
