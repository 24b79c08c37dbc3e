# Zipper in TLA+

Zipper reconciles columns of many sources into one wide row per record.  For
each incoming column it decides where the column goes (a *routing decision*),
caches that decision in an append-only log, converts the value to the type of
its canonical column, and upserts the wide row.  This directory models the
parts of it whose correctness depends on order, concurrency and failure, checks
them with TLC on small instances, and proves the main results with TLAPS for
every value of the constants.  Paths in the inventory are relative to the
package (`src/zipper/` in the repository) unless they name a module.

## 1. Inventory

| component | state | operations | hard behaviour | what makes it correct |
|---|---|---|---|---|
| ingest engine (`engine.py`) | per call: two snapshots, decisions so far, the wide row being built | `zipper_upsert`, four reads | every `await asyncio.to_thread(...)` lets other calls run; a call can fail or be cancelled at any await and is then repeated as a whole | a column is routed once; log, inventory and rows agree; no value vanishes silently |
| storage contract (`storage.py`) | four tables | 5 reads, 3 writes (+ `add_global_column`) | ties and steps of the clock behind `decided_at` | one row per external id; decisions are only added |
| `MemoryStorage` (`storage_memory.py`) | lists and dicts, one lock | the contract, the timeline and record reads | ties, late and repeated deliveries | implements the contract; its reads agree |
| `SQLiteStorage` (`storage_sqlite.py`, `schema.sql`) | a connection, its open transaction, the file | the contract, migrations | CHECK and UNIQUE failures, a failed commit, processes that share a file, crashes | implements the contract; callers are told the truth |
| LLM router (`router.py`) | none | `assess` | timeout, malformed replies, answers against the prompt's rules | a well-formed verdict or an exception |
| lookup tier (`lookup.py`) | none | `match` | none | pure |
| normalizer, coercions (`normalizer.py`, `coercions.py`) | a process-wide registry | `normalize`, `register_coercer` | partial conversions, exceptions other than `UnsafeCoercion` | a value of the target type, or `UnsafeCoercion` |
| data types (`types.py`) | none | validation of rows | `occurred_at` is ordered as text | |
| rate limiter (`ratelimit.py`) | one deque of clock readings per caller, one lock | `enforce_rate_limit` | threads of the pool, a reading used after it was overtaken | the limit, justified refusals, an honest Retry-After |
| HTTP API, authentication (`api.py`, `auth.py`) | a lazily built router | `health`, and four routes behind a token check and the limiter | requests interleave between dependency, limiter and handler; a handler fails half way | whom it counts, what it records, what its answers promise |
| configuration (`config.py`, `__init__.py`) | none | reads of the environment, re-exports | none | |

How they interact: the API runs authentication and the rate limiter, then calls
the engine; the engine calls the store in worker threads, and lookup, normalizer
and router in line; the store is the only state two engine calls share.
Authentication and the limiter are synchronous dependencies and run in a thread
pool, the engine's coroutines on the event loop.

`PROJECT.json` lists every component with what is modelled of it, and every
hazard of this code at the line where it bites.

## 2. Modules

| module | models | built on |
|---|---|---|
| `Tables` | the rows of the four tables, the calls that write them | |
| `Storage` | the store as the engine sees it: one method, one step | `Tables` |
| `Contract` | what a store promises whoever calls it | `Storage` |
| `SQLiteStore` | `SQLiteStorage` in several processes on one file | `Tables`; implements `Contract` |
| `IsoTime` | the texts accepted as `occurred_at`, their order, what they denote | |
| `MemoryStore`, `MemoryProps` | `MemoryStorage` and its reads; their properties | `Tables`, `IsoTime`; implements `Contract` |
| `Engine`, `EngineProps` | any number of `zipper_upsert` calls over one store; their properties | `Storage` |
| `RouteCache` | the promise about routing: a write-once register per (workspace, record, source, column) | implemented by `Engine` |
| `Coercions`, `Normalizer` | the thirteen built-in conversions; the registry that projects change | |
| `Router` | the reply of the model, up to the verdict or the exception | |
| `RateLimit` | the rate limiter | |
| `Api` | the server: authentication, limiter, handlers, for requests that interleave | `RateLimit`, `Router` |
| `MC...` | the instance of a module that TLC checks | |
| `EngineProofs`, `AuditProofs`, `ConditionalProofs` | proofs about the engine | each on the one before |
| `RateLimitProofs`, `ApiProofs` | proofs about limiter and server | likewise |
| `SQLiteProofs`, `MemoryProofs` | proofs about the two stores | |
| `NormalizerProofs` | proofs about conversions and registry | |

### Tables, Storage, Contract

A store method takes the instance lock and commits before it returns, so for
the engine one method is one action or one operator (`Storage`).  `decisions`
and `signals` are sequences and a row's id is its position (the code draws
UUIDs; only their uniqueness matters).  `LatestDecisions(q)` is a set:
`latest_decision_for_column` orders by `decided_at` alone, a millisecond wall
clock, so of several rows with the greatest time any may be returned.  The two
stores break such ties differently and neither documents how.  `Time` is a set
of such readings and each insert may take any of them: the clock may stand still
or be set back.  `StorableType` is the CHECK of `schema.sql`; `MemoryStorage`
has none (`StorableType = DataType`).

`Contract` makes a specification of it: each call takes effect at most once, at
once and as a whole.  `SQLiteStore!ImplementsContract` and
`MemoryProps!ImplementsContract` are the two refinements; they are what entitles
`Engine` to use `Storage`.

Left out: descriptions, samples, reasons, `source_origin`, and the timestamps
nothing reads.

### SQLiteStore

Processes `Proc` share the variable `file`.  Each has one connection, in one of
four transaction states: `none`, `begun` (Python has sent BEGIN and the first
statement failed), `read` (on a snapshot), `write` (the file's one writer).  The
instance lock runs a process's methods one at a time, so the state of the
running method is just `at`, `running` and `found`.

| action | code (`storage_sqlite.py`) |
|---|---|
| `Begin`, `Return` | entering and leaving a writing method |
| `Select` | the SELECT of `upsert_signal`, before and outside its INSERT or UPDATE |
| `Execute` | the INSERT, UPDATE or upsert statement, accepted by the constraints (`Written`, one operator per statement) |
| `Refuse` | CHECK or UNIQUE raises; no `rollback()` follows, the transaction stays open |
| `Busy` | another writer, or a snapshot that was overtaken: `OperationalError` |
| `Commit`, `CommitFails` | `commit()`; when the disk refuses it, SQLite rolls back |
| `ReadBackFails` | the SELECT of `insert_decision` after its commit (256-259): it raises, and the row stays in the file |
| `Read` | what a reading method does to the connection: it fixes the snapshot of a `begun` transaction |
| `Migrate` | `apply_migration` (`executescript` commits), or `close()` and a new instance |
| `Crash` | the process ends within a call; SQLite's recovery discards what was not committed |

How SQLite and Python's `sqlite3` behave here (deferred transactions, WAL
snapshots, what a failed statement leaves open) is the module's outside
knowledge; its `map` entries still point at the calls that rely on it.  A
consequence one can see in the model: after a busy timeout a connection can be
left on an old snapshot, on which every later write is refused until
`apply_migration`, `close()` or a restart.  `CurrentUnlessRaised` says that this
happens only after one of the connection's calls raised; `ReadYourWrites` and
`ReadsAreCommitted` say what remains true on such a connection.  `AnswersAreHonest`
has one exception, the call that was committed and raised all the same:
`insert_decision`, by `ReadBackFails`.

### MemoryStore, IsoTime

Every method is one step (`Call`), over the lists as the code keeps them: first
match, update in place, append.  The reads are operators.  A comprehension is the
set of the places its rows come from; `Sorted` puts at position `k` the place
that `k - 1` others come before, which is what a stable sort returns; `FirstMax`
is `max` with its first-of-equals; `Merged` updates one record row after row.
Times are texts in their order as texts; `Instant` is the moment they denote.
`MergedRecordIsNewest` does not look at the lists at all: it tells the merged
record from the deliveries alone.

### Engine

A task goes through `load → column → route → schema → resolve → column … → done`.
Every await of the coroutine falls between two actions, so tasks interleave
where the event loop can switch, and nowhere else.

| action | code (`engine.py`) |
|---|---|
| `Start` | entry with a validated row |
| `LoadGlobals`, `LoadPkeySchema` | the two reads of `gather` (54-57), in either order |
| `CacheHit`, `CacheMiss` | the lookup of the cached decision (63-78), tier 1 |
| `RouteByLookup`, `RouteByRouter` | tier 2 (82-102) and tier 3 (115-148), each with its `insert_decision` |
| `RecordSchema`, `SchemaRefused` | `upsert_schema_row` (149-178), and the CHECK refusing the type |
| `StoreValue`, `FlagCollision`, `FlagUnsafe`, `NormalizerRaises` | normalizing and placing the value (180-258) |
| `WriteSignal` | `upsert_signal` and the return (260-272) |
| `Fail` | any awaited call raises, or the process ends: nothing more of this call happens, what it wrote stays |
| `Cancel` | the coroutine is cancelled while a storage call runs in its thread: the caller is free, the write still lands (`Resume` then ends the task) |
| `RegisterGlobal` | `add_global_column` while rows are ingested |

`routed[t]` holds the ids of the decisions that route the row's columns.  It
stands for the local variables of the loop: the k-th entry is the decision of
the k-th column, so `Len(routed[t])` is also the loop counter.  The router's
answer is chosen in the action that inserts it, since nothing shared is touched
between the two awaits.  `LookupMatch`, `Normalize`, `Answers` and `Row` are
parameters.  `Obedient` says whether the router keeps to the rules its prompt
states: it joins only names it was shown, appends only new ones, and claims as
global only what it was shown as global.  The rules do not
oblige it to claim a global, nothing in the code compares an answer with the lists
it was given, and the lookup knows no globals at all.  `Exclusive` says whether
callers avoid overlapping two calls of one source on one record; `Faults` which of
failures and cancellations occur.

`Decide(q, n)` of `RouteCache` sets `route[q]` once.  `EngineProps!Cache`
instantiates it with `route[q]` = the name in a latest row of `q`; that the log
implements it is the property `RoutesAreWriteOnce`.

### Coercions, Normalizer

A value is known by its *form*: what `int()`, `float()`, `str()` and
`fromisoformat()` make of it is all the conversions look at.  So a conversion is
a function from forms to forms, `"unsafe"` (it raises `UnsafeCoercion`) or
`"raises"` (another exception leaves it).  `Normalizer` is the registry
(`RegisterCoercer`) and a value that goes from type to type (`Receive`,
`Normalize`).  `MCEngine` takes its `Normalize` from the same table.  `Fits` says
which forms a value of a type may have: those of `CoreForms` for the built-in
types, and for a project's own types whatever the parameter `ProjectFits` says.
That what is received fits its type is an assumption about sources: `IngestValue`
takes any value with any type (`types.py:119`), and a NaN sent as `numeric` would
pass the conversion from a type to itself unseen.

A time has five forms, because `timestamp()` can leave the years 1 to 9999: with
and without an offset; at the edge of the calendar where the offset, or the local
zone for want of one, puts it outside (the integer it gives cannot be turned back
into a time); and without an offset on the day where `timestamp()` itself raises
`ValueError`.

### Router, Api

`Router` is `_parse_verdict` and the search for the tool call, on replies made
of JSON values.  `Api` carries each request through `stage`: `arrived →
authorized → handling → …→ answered`.

| action | code |
|---|---|
| `Health` | the one route without dependencies (`api.py`) |
| `RequireAuth` | `require_auth` (`auth.py`): 401, 503, or on |
| `EnforceRateLimit` | the actions of `RateLimit`, behind it: 429 or on |
| `GetRouter` | `_get_router`, on first use; without a key it raises |
| `CacheHit`, `CacheMiss`, `RouterReplies`, `RouterTimesOut`, `UpsertSignal`, `Answer` | the ingest handler, with the engine reduced to rows of one column |
| `LatestSignal`, `Timeline`, `Decisions` | the GET handlers |
| `StorageFails` | a storage call raises in a handler: 500 |

Two details of the code decide what its answers are worth.  `UpsertSignal` moves
a row whose external id is known to the record delivered last, and keeps it in the
workspace that delivered it first; so an acknowledged signal can be `Displaced` by
another delivery of the same external row.  And the check of a similarity score
compares (`score < 0 or score > 1`), which a NaN passes; the REAL column binds it
as NULL, so what is read back has no score (`Recorded`).

`known[q]` is a history variable: the ingests that had been answered 200 when
`q` arrived.

### RateLimit

FastAPI runs `enforce_rate_limit` in worker threads.  `ReadClock` is everything
before the lock (lines 78-84), `Admit` and `Refuse` are the critical section with
its pruning loop (85-99).  `Tick` advances the clock, but not while some request
has been waiting `Stall` ticks between reading and lock: `Stall` is the one
assumption about scheduling, and no property with a bound could do without it.
`admitted` is a history variable.  Time is in ticks, `Second` to a second, so
that the rounding of Retry-After is visible.  In a window of *readings* there
can be `limit + 1` admissions, because a reading may be old when it is used;
`Spaced` is the bound that holds.

## 3. Runs

| run | question | instance | result |
|---|---|---|---|
| `engine_concurrent` | does the audit log explain everything, whatever overlaps and fails? | 2 overlapping tasks, 3 possible rows of one source (two columns meeting in one name, an external id, a value that does not convert), a router that ignores its rules, failures, cancellations, a global registered meanwhile | holds |
| `engine_serial` | is a column routed once, and is the log a write-once cache? | 3 tasks that do not overlap, any of which may fail; 2 clock readings | holds |
| `engine_globals` | does a global column fix its type, and where not? | 2 overlapping tasks of two sources, all verdicts of a router that claims only globals it was shown and may disown them, a lookup that disagrees with the registry, failures, a refused type, a raising coercer, a global registered between the steps | holds |
| `engine_live` | how far is the inventory behind the rows, and does it catch up? | 2 overlapping tasks, a router that joins, no failures, `FairSpec` | holds |
| `sqlite_store` | does `SQLiteStorage` implement the contract and tell its callers the truth? | 2 processes, any 5 of 7 calls, two of which the CHECK refuses and two of which deliver one external row; crashes, failing commits and read-backs | holds |
| `memory_store` | does `MemoryStorage` implement the contract, and do its reads agree? | any 4 of 13 calls in any order: late, repeated, moved and crossing deliveries, three texts of time, tied decisions | holds |
| `normalizer` | does a value stay one of its type, and what else than `UnsafeCoercion` can happen? | all forms, all chains of conversions, three registrations at any time | holds |
| `api` | whom does the server count, what does it record, can what it acknowledged be read, is every request answered? | 6 mixes of up to 4 requests, an external row that moves among them; 4 settings; 9 replies, a NaN among them; limit 2, window 3, stall 1 | holds |
| `inventory_gap` | inventory complete with failures? | 2 tasks one after the other | violated |
| `stale_type` | do values get the type the inventory records? | 2 calls one after the other | violated |
| `timeline_order` | is the timeline chronological for every accepted time? | as `memory_store` | violated |
| `coercer_raises` | do coercers raise only `UnsafeCoercion`? | as `normalizer` | violated |

The last four are disagreements between the code and a sentence of the
repository; `PROJECT.json` quotes each sentence next to what the code does.
Other behaviour that is easy to overlook and shows in the models: overlapping
calls for one record and source may each route a column (`Exclusive` in
`engine_serial` excludes them); an external id is matched without its workspace
(`crossed` in `memory_store`, `away` in `api`: the row stays with the first
workspace); a domain type cannot be ingested into SQLite (`StorableType`), and
registering one as a global column silently does nothing.

Why the instances are large enough.

* Every hazard of the engine is about two calls or about a call and its
  repetition, so two tasks reach it; `engine_serial` has a third, for a failure,
  a retry that fails later, and a reader.  Two columns per row are needed for
  collisions and for the use of one column's decision by another, and no action
  relates three columns.  Two canonical names, one global and one not, give each
  branch of the type computation.  Two clock readings give ties, order and
  reversed order of two rows; with one reading every pair of rows ties, which is
  the choice with most outcomes for the latest row.
* `sqlite_store`: the conflicts of SQLite are between one writer and one other
  connection.  Five calls (`MaxCalls`) let a connection be refused, be left in
  its transaction, meet a commit of the other process, and be used again twice.
* `memory_store`: four calls (`MaxCalls`) are a row, its newer version, an older
  version after it, and another row of the same time.
* `api`: the limiter's window of 3 with limit 2 makes deques that are full,
  partly expired and out of order, and four requests of one caller exceed the
  limit by two; `MaxTime` 3 lets a window expire.  Three requests of different
  callers reach every settings branch.  Two ingests and a read show what an answer
  is worth: the second delivery of an external row comes from another workspace and
  for another record, so it shows both what moves and what stays.  `Scenarios` is
  the bound: which settings go with which mix of requests.
* `normalizer` has no bound.  Its forms stand for the boundaries the code depends
  on: the range of years of a date, the two ends of the calendar, the greatest
  float.

Task symmetry is used in the engine runs that check safety, and in no run with a
liveness property.  Deadlock is checked everywhere: a state in which all calls
have ended has an explicit step of its own (`Terminated`, `Finished`).

Fairness.  `FairSpec` (engine): weak fairness of each task's own steps.  A
storage call returns, the router returns or is cut off by its timeout
(`router.py:132`), and the event loop resumes a ready coroutine.  Nothing is
assumed of callers: `Start` is not fair.  `FairApiSpec`: weak fairness of the
server as a whole, `\E q : Serve(q)`; it suffices because each request takes
finitely many steps.  `Serve` contains the timeout and no reply of the model, so
nothing is assumed of the model; nor does any failure have to happen.

Each property of a passing run was also checked to fail when a definition of the
model is changed the way a plausible bug would change the code (the operators
commented `Mutant:`).

## 4. Proofs

All theorems are for arbitrary sets of tasks, processes, requests, rows, names,
values and types, any lookup, normalizer, router and replies, and any faults.
The only assumptions are those named in the modules: inputs have their types, a
row has no column twice, `None` is no value, the limit is positive, a project's
own coercer raises nothing but `UnsafeCoercion` and returns a value of the type it
converts to.  Every invariant a passing run checks is stated by a theorem.

**Type correctness and the core** (`EngineProofs`).  `TypeOK` is not inductive:
`Route(t)` reads the log at a position from `routed[t]`, and `TargetType(t)` reads
snapshots that must have been loaded.  `CoreInv` adds what those reads rely on: a
running task has a row; a task past `load` has both snapshots; every entry of
`routed[t]` is a position of the log whose row has the quad of that column; no
more columns are routed than the row has.  `CoreCorrect` proves it,
`TypeCorrect` follows.

**The audit log** (`AuditProofs`).  Because the log only grows, what an earlier
row justifies stays justified.  `FlagsAreJustified`: the decision a task flags is
the one it was routed by, which is a routing row or, by induction, repeats one.
`InventoryIsJustified`: a task in `schema` has just inserted the routing row its
inventory row is made from.  `StoredValuesAreAudited`: each value in a wide row under
construction comes from an already routed column.  `SignalsAreUnique`: an insert happens
only where no row has the external id, and an update keeps source and id.

`NothingLostSilently`: the value of every column a call has resolved is in the
wide row, or was flagged as not converting, or its name was taken over by a later
column that was flagged (`LossInv`); and each flag is in the log.  The flag
repeats the cached decision, whose name need not be that of a routing row of
this call, so the proof follows names, not rows.  `IdsStayStable` rests on
`IdsInv`: the id a call returned is a row of its source and external id; without
an external id the row is still the one it stored; two calls that share an id
delivered the same external row.

**Routing once** (`ConditionalProofs`).  `RoutedOnceIfSerial` holds if callers do not
overlap two calls on one (workspace, record, source) and none is cancelled
(`SerialCallers`).  Both conditions are needed: two calls that overlap can both
miss the cache, and a cancelled call's write lands after the retry's lookup.  The
invariant: two running tasks have different keys (`Apart`), and a task that
missed the cache still finds no decision for its column (`StillMissed`).
Failures need no condition.

**The routing refinement** (`ConditionalProofs`).  `RoutesAreWriteOnceIfSerial`: every
step of the engine is a step of `RouteCache` or leaves it unchanged.  The three
facts behind it: every row of a quad, flag or routing, carries the same name
(from `FlagsAreJustified` and `RoutedOnceIfSerial`); a quad with rows has a
latest one, although times tie and go back; so the cached name is the name of any
of its rows, and an appended row can only name a quad that had none.

**The inventory and the globals** (`ConditionalProofs`).  `InventoryStaysInStep`
holds where no call fails (`NoCallFails`: no faults, and the tables accept every
type that can reach the inventory); run `inventory_gap` shows what one failure
does to the inventory.  The invariant is about the log and not the values: every
decision's column is listed, or a task is on its way to list it (`LogListed`);
values go back to decisions by `AuditInv`.  
**The globals** (`ConditionalProofs`).  `RegisteredGlobalsGovern` holds where the
router claims only what it was shown or every global is registered before the
first ingest (`GlobalClaimsHold`); of the lookup, and of how often the router
disowns a global, nothing is assumed.  Where the code cannot keep the promise is
part of the property, not of the hypothesis: a call whose two snapshots were both
taken before the name was known (`KnewNothingOf`), and a record whose own log
shows a routing to the name that disowned it (`Disowned`).  The invariant
`GovernInv` ties every type a task will write to the registry: what its snapshot
of the registry shows still stands, what its snapshot of the inventory shows is
the registered type or explained by the log (`SnapshotsGoverned`), a fresh
verdict that claims a global was shown it (`ClaimsHold`), and the cells of the row
under construction already agree (`CellsGoverned`).

**The rate limiter** (`RateLimitProofs`).  A caller's deque is a suffix of its
admissions, and what was dropped from it is at least a window old, however its
readings are ordered (`LimitInv`).  So when a request is admitted, the admission
`Limit` places earlier has been dropped (`AdmissionsAreSpaced`); when one is
refused, the head of its deque is the oldest of the last `Limit` admissions,
which all came later than that head's reading (`NobodyIsThrottledUnjustly`,
`RetryAfterIsHonest`).

**The server** (`ApiProofs`).  A step of the server is by its definition a step of
`RateLimit` or leaves its variables alone (`ApiKeepsLimiter`), so the three
theorems above hold of the server too (`ApiIsLimited`).  `OnlyKnownCallersAreCounted`:
a request has reached the limiter only after `require_auth` (`AuthorizedFirst`),
and only an admitted request opens a window (`WindowsAreOpened`); a configured
token is a token, so the caller is that token and no host.
`RecordedVerdictsAreWellFormed` follows from what `_parse_verdict` lets through
(`ParsedIsWellFormed`) and from the column that turns a NaN into no score
(`RecordedFacts`).

`AcknowledgedCanBeRead` (`ReadBackInv`): rows are written before the answer that
speaks of them, and from then on a row of the external id is there
(`WritesPrecedeAnswers`, `WrittenStays`).  Where it is follows from
`SignalsDelivered`: the workspace of a row and its record each come from a
delivery of its external id, so if every such delivery was of one place, the row
is at that place (`InPlace`); otherwise the ingest was `Displaced`.

**SQLite** (`SQLiteProofs`).  `SQLiteInv` says that a connection that may write
sees the file, although it may be in a transaction someone left open
(`ViewsAreCurrent`); that what it is about to commit is its statement applied to
the file; and that a row `upsert_signal` found is still there unless the
connection cannot write (`FoundIsThere`), although other processes commit between
its SELECT and its INSERT or UPDATE.  Then a commit is one step of `Contract`
and every other step leaves the file alone (`SQLiteImplementsContract`).
`CallersAreToldTheTruth`: a call that raised left nothing in the transaction that
a later commit could carry into the file, and has no effect in the file, unless it
is an `insert_decision` that raised after its commit.
`NobodyIsLeftBehindInSilence`: a transaction that may be behind the file was left
open by a call that raised (`LeftByRaise`).

What SQLite reads (`ReadInv`): outside of a statement and its commit, the tables
a connection is on have nothing the file has not (`Behind`), and everything its
own process committed.  A snapshot is the file at the moment it was taken, and
the file only grows, so both survive the commits of others; a commit of one's own
ends the transaction, and the next read takes a new snapshot.
`ReadersSeeCommittedRows` and `WritersReadTheirWrites` follow.

**Memory** (`MemoryProofs`).  The lists as tables: the first row with a key is the
table's entry, an update in place and an append change that entry and no other
(`SchemaTableIs`, `TablesAfter`), so each call is the step of `Contract`
(`MemoryImplementsContract`).  It is the specification SQLite is proved to
implement, with one parameter that differs: `StorableType` is all types here, and
in SQLite those of its CHECK.

Its reads.  Counting how many places come before a place numbers the places
without gaps, because `Before` is a strict total order and the numbering is
injective (`SortedFacts`); so `Sorted` lists every place once, in order.  The
timeline's descending sort followed by the merge's ascending one keeps rows of
one time in list order (`RecordOrder`), and updating a record row after row
leaves, per column, the last row that carries it (`MergedFacts`).
`CacheHeadsHistory`, `TimelineIsInOrder` and `LatestRowIsInMergedRecord` follow
for every list.  `NewestDeliveryWins` speaks of the deliveries, so it needs an
invariant about the past (`TraceInv`): each place has a first and a last delivery;
workspace, source and external id are those of the first, pkey, time and columns
those of the last; every delivery belongs to exactly one place, and places are
in the order of their first deliveries.

**Conversions** (`NormalizerProofs`).  Each built-in conversion takes a form its
source type admits to one its target type admits, or raises, and raises something
else than `UnsafeCoercion` only on the forms `CrashesOnly` names (`CoreTable`).
With `RegistryKnown` (what is registered for a pair is the built-in or one of the
project's) a value stays well typed through any chain of conversions and
registrations (`ValuesStayWellTyped`, `FewValuesCrash`).

Only model-checked: the liveness properties `InventoryCatchesUp` and
`EveryRequestIsAnswered`, since fairness and ENABLED are out of the prover's
reach, and the four properties that are violated.  Facts that would need
induction over data are proved here by a least counterexample instead
(`LeastIndex`, `MergedFacts`).

## 5. Not modelled

- The text of prompts, reasons and log lines, the JSON in SQLite columns, and the
  size of a prompt.
- The 422 answers of malformed requests.  A body that is no JSON is refused before
  anything of the repository runs.  One that fails validation (the repository's own
  check of `occurred_at` included) is refused after `require_auth` and the limiter
  have run, in place of the handler; for the limiter and the tables that is a
  handler that fails at its first step.
- How many windows the limiter keeps in open mode, where every token that is sent
  opens one and none is ever dropped.
- A rate limit of zero or less, which switches the limiter off, and `reset()`,
  which only tests call.
- Configuration and the package surface: constants and re-exports.
- Operator overrides: rows with `decided_by = 'operator'` are inserted by
  consuming projects; no code of the repository writes them.
- The milliseconds of a converted time: `timestamp -> integer` truncates a
  float, and reads a time without an offset in the zone of the host.

## 6. Plan

1. That `Engine` over `Contract` can be replaced by `Engine` over either store:
   the refinements are proved, their composition with the engine is argued here in
   words (section 2).
2. Safety facts that imply progress once fairness is granted, such as a measure
   each step of a task decreases, as companions to the liveness properties.
3. The size of a prompt (`router.py:205`), the one hazard of the router without a
   property.
