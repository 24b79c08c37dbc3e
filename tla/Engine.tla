------------------------------- MODULE Engine -------------------------------
(***************************************************************************)
(* The ingest engine (engine.py): any number of zipper_upsert coroutines   *)
(* over one store.  A task takes a row through                             *)
(*                                                                         *)
(*   load -> column -> route -> schema -> resolve -> column ... -> done    *)
(*                                                                         *)
(* and every await of the coroutine lies between two of its actions, so    *)
(* the tasks interleave exactly where the event loop may switch.  The      *)
(* router's answer is read at the insert that records it: nothing shared   *)
(* happens between the two awaits.                                         *)
(***************************************************************************)
EXTENDS Storage, FiniteSets

CONSTANTS
  Task,            \* zipper_upsert calls
  Row,             \* the rows callers ingest
  Value,           \* source values
  LookupMatch(_, _),    \* Lookup.match(column, value): a LookupVerdict, or None
  Normalize(_, _, _),   \* Normalizer.normalize(value, from, to): "ok", "unsafe", "raises"
  Answers,         \* verdicts the router may give
  Obedient,        \* TRUE: the router keeps to the candidate lists it is shown
  Exclusive,       \* TRUE: callers never overlap two upserts of one (workspace, pkey, source)
  Faults,          \* which of "fail", "cancel" may hit a task
  SeedGlobals,     \* globals registered before the first ingest
  Registrations    \* globals registered while rows are being ingested

LookupVerdict == [canonical_column : Name, data_type : DataType]
RoutingVerdict == [verdict : Verdict, canonical_name : Name, is_global_target : BOOLEAN]
IngestValue == [source_column : Column, source_data_type : DataType, value : Value]

\* A row's columns are a dict: ordered, and no key twice.
IsIngestRow(r) ==
  /\ r.workspace_key \in Workspace /\ r.pkey \in PKey /\ r.source \in Source
  /\ r.external_id \in ExternalId \cup {None} /\ r.occurred_at \in Time
  /\ r.columns \in Seq(IngestValue)
  /\ \A i, j \in DOMAIN r.columns :
       r.columns[i].source_column = r.columns[j].source_column => i = j

ASSUME EngineAssumption ==
  /\ \A r \in Row : IsIngestRow(r)
  /\ None \notin Row
  /\ None \notin [Name -> DataType \cup {None}] /\ None \notin [Name -> SchemaRow \cup {None}]
  /\ \A c \in Column, v \in Value : LookupMatch(c, v) \in LookupVerdict \cup {None}
  /\ None \notin LookupVerdict
  /\ Answers \subseteq RoutingVerdict
  /\ Obedient \in BOOLEAN /\ Exclusive \in BOOLEAN
  /\ Faults \subseteq {"fail", "cancel"}
  /\ SeedGlobals \in [Workspace -> [Name -> DataType \cup {None}]]
  /\ Registrations \subseteq Workspace \X Name \X DataType

VARIABLES
  pc,                \* where each task stands
  row,               \* the row it ingests
  globals_list,      \* its snapshot of the workspace's globals
  existing_schema,   \* its snapshot of the record's inventory
  routed,            \* log ids of the decisions routing its columns, in column order
  flagged,           \* the columns it has flagged, and by which step
  canonical_columns, \* the wide row it is building
  signal_id,         \* the id its upsert returned; 0 before that
  cancelled          \* the caller gave up; a storage call may still be running

task == <<pc, row, globals_list, existing_schema, routed, flagged,
          canonical_columns, signal_id, cancelled>>
vars == <<store, task>>

NoColumns == [n \in Name |-> None]

Init ==
  /\ globals = SeedGlobals
  /\ schema = [w \in Workspace |-> [p \in PKey |-> [n \in Name |-> None]]]
  /\ decisions = <<>>
  /\ signals = <<>>
  /\ pc = [t \in Task |-> "idle"]
  /\ row = [t \in Task |-> None]
  /\ globals_list = [t \in Task |-> None]
  /\ existing_schema = [t \in Task |-> None]
  /\ routed = [t \in Task |-> <<>>]
  /\ flagged = [t \in Task |-> {}]
  /\ canonical_columns = [t \in Task |-> NoColumns]
  /\ signal_id = [t \in Task |-> 0]
  /\ cancelled = [t \in Task |-> FALSE]

-----------------------------------------------------------------------------
(* What a task sees of itself. *)

Running(t) == pc[t] \in {"load", "column", "route", "schema", "resolve"}

\* Running as far as the caller knows: a cancelled call has returned to it.
InFlight(t) == Running(t) /\ ~cancelled[t]

Key(r) == <<r.workspace_key, r.pkey, r.source>>

\* The k-th column of the row, and the quad its routing is cached under.
Col(t, k) == row[t].columns[k]
QuadOf(t, k) ==
  <<row[t].workspace_key, row[t].pkey, row[t].source, Col(t, k).source_column>>

NextCol(t) == Len(routed[t]) + 1        \* about to be routed
ThisCol(t) == Len(routed[t])            \* routed, being written
\* Mutant: the decision of the row's first column is used for every column.
FirstRoute(t) == decisions[routed[t][1]]
Route(t) == decisions[routed[t][ThisCol(t)]]

\* A completed storage call resumes its task, unless the caller cancelled it.
Resume(t, next) == pc' = [pc EXCEPT ![t] = IF cancelled[t] THEN "failed" ELSE next]

-----------------------------------------------------------------------------
(* The beginning: validated row in, both snapshots loaded by gather(). *)

Start(t, r) ==
  /\ pc[t] = "idle"
  /\ Exclusive => \A u \in Task : InFlight(u) => Key(row[u]) # Key(r)
  /\ pc' = [pc EXCEPT ![t] = "load"]
  /\ row' = [row EXCEPT ![t] = r]
  /\ UNCHANGED <<store, globals_list, existing_schema, routed, flagged,
                 canonical_columns, signal_id, cancelled>>

LoadGlobals(t) ==
  /\ pc[t] = "load" /\ globals_list[t] = None
  /\ globals_list' = [globals_list EXCEPT ![t] = globals[row[t].workspace_key]]
  /\ pc' = [pc EXCEPT ![t] = IF existing_schema[t] = None THEN "load" ELSE "column"]
  /\ UNCHANGED <<store, row, existing_schema, routed, flagged, canonical_columns,
                 signal_id, cancelled>>

\* Mutant: the pkey filter of the query is forgotten.
LoadWorkspaceSchema(t) ==
  /\ pc[t] = "load" /\ existing_schema[t] = None
  /\ existing_schema' = [existing_schema EXCEPT ![t] = schema[row[t].workspace_key]]
  /\ pc' = [pc EXCEPT ![t] = IF globals_list[t] = None THEN "load" ELSE "column"]
  /\ UNCHANGED <<store, row, globals_list, routed, flagged, canonical_columns,
                 signal_id, cancelled>>

LoadPkeySchema(t) ==
  /\ pc[t] = "load" /\ existing_schema[t] = None
  /\ existing_schema' =
       [existing_schema EXCEPT ![t] = schema[row[t].workspace_key][row[t].pkey]]
  /\ pc' = [pc EXCEPT ![t] = IF globals_list[t] = None THEN "load" ELSE "column"]
  /\ UNCHANGED <<store, row, globals_list, routed, flagged, canonical_columns,
                 signal_id, cancelled>>

-----------------------------------------------------------------------------
(* Routing one column: cache, then lookup, then router. *)

HasColumn(t) == pc[t] = "column" /\ NextCol(t) <= Len(row[t].columns)

CacheHit(t) ==
  /\ HasColumn(t)
  /\ \E i \in LatestDecisions(QuadOf(t, NextCol(t))) :
       routed' = [routed EXCEPT ![t] = Append(@, i)]
  /\ pc' = [pc EXCEPT ![t] = "resolve"]
  /\ UNCHANGED <<store, row, globals_list, existing_schema, flagged,
                 canonical_columns, signal_id, cancelled>>

\* Mutant: the cache is not consulted.
CacheIgnored(t) ==
  /\ HasColumn(t)
  /\ pc' = [pc EXCEPT ![t] = "route"]
  /\ UNCHANGED <<store, row, globals_list, existing_schema, routed, flagged,
                 canonical_columns, signal_id, cancelled>>

CacheMiss(t) ==
  /\ HasColumn(t)
  /\ DecisionsFor(QuadOf(t, NextCol(t))) = {}
  /\ pc' = [pc EXCEPT ![t] = "route"]
  /\ UNCHANGED <<store, row, globals_list, existing_schema, routed, flagged,
                 canonical_columns, signal_id, cancelled>>

Match(t, k) == LookupMatch(Col(t, k).source_column, Col(t, k).value)

\* The router's rules, as the prompt gives them: join a candidate, append only a
\* new name, and claim a global target only for a name among the globals shown.
\* A verdict may still disown a global: the rule does not say "whenever".
KeepsRules(t, v) ==
  LET isGlobal == globals_list[t][v.canonical_name] # None
      isOwn == existing_schema[t][v.canonical_name] # None
  IN  /\ v.is_global_target => isGlobal
      /\ v.verdict = "join" => isGlobal \/ isOwn
      /\ v.verdict = "append" => ~isGlobal /\ ~isOwn

RouterAnswers(t) == {v \in Answers : Obedient => KeepsRules(t, v)}

\* A decision of task t about its k-th column: routing (verdict v) or flag.
DecisionOf(t, k, v, review, by, at) ==
  [workspace_key |-> row[t].workspace_key, pkey |-> row[t].pkey,
   source |-> row[t].source, source_column |-> Col(t, k).source_column,
   verdict |-> v.verdict, canonical_name |-> v.canonical_name,
   is_global_target |-> v.is_global_target,
   needs_review |-> review, decided_by |-> by, decided_at |-> at]

RecordRoute(t, v, review, by) ==
  /\ \E at \in Time : InsertDecision(DecisionOf(t, NextCol(t), v, review, by, at))
  /\ routed' = [routed EXCEPT ![t] = Append(@, Len(decisions) + 1)]
  /\ Resume(t, "schema")
  /\ UNCHANGED <<row, globals_list, existing_schema, flagged, canonical_columns,
                 signal_id, cancelled>>

RouteByLookup(t) ==
  /\ pc[t] = "route" /\ Match(t, NextCol(t)) # None
  /\ LET m == Match(t, NextCol(t))
     IN  RecordRoute(t, [verdict |-> "join", canonical_name |-> m.canonical_column,
                         is_global_target |-> FALSE], FALSE, "lookup")

RouteByRouter(t) ==
  /\ pc[t] = "route" /\ Match(t, NextCol(t)) = None
  /\ \E v \in RouterAnswers(t) : RecordRoute(t, v, v.verdict = "unclear", "llm")

-----------------------------------------------------------------------------
(* The inventory row behind a new routing. *)

SourceType(t) == Col(t, ThisCol(t)).source_data_type

\* Mutant: a global's declared type is ignored.
CanonicalTypeOfSource(t) == SourceType(t)

CanonicalType(t) ==
  LET d == Route(t)
      g == globals_list[t][d.canonical_name]
  IN  IF d.decided_by = "lookup" THEN Match(t, ThisCol(t)).data_type
      ELSE IF d.is_global_target /\ g # None THEN g
      ELSE SourceType(t)

\* Mutant: a join is taken to have its inventory row already.
RecordSchemaUnlessJoin(t) ==
  /\ pc[t] = "schema"
  /\ IF Route(t).verdict = "join" THEN UNCHANGED store
     ELSE UpsertSchemaRow(row[t].workspace_key, row[t].pkey, Route(t).canonical_name,
            [data_type |-> CanonicalType(t), is_global |-> Route(t).is_global_target])
  /\ Resume(t, "resolve")
  /\ UNCHANGED <<row, globals_list, existing_schema, routed, flagged,
                 canonical_columns, signal_id, cancelled>>

\* Mutant: is_global is looked up in the registry, not taken from the verdict.
RecordSchemaByRegistry(t) ==
  /\ pc[t] = "schema"
  /\ UpsertSchemaRow(row[t].workspace_key, row[t].pkey, Route(t).canonical_name,
       [data_type |-> CanonicalType(t),
        is_global |-> globals_list[t][Route(t).canonical_name] # None])
  /\ Resume(t, "resolve")
  /\ UNCHANGED <<row, globals_list, existing_schema, routed, flagged,
                 canonical_columns, signal_id, cancelled>>

RecordSchema(t) ==
  /\ pc[t] = "schema"
  /\ UpsertSchemaRow(row[t].workspace_key, row[t].pkey, Route(t).canonical_name,
       [data_type |-> CanonicalType(t), is_global |-> Route(t).is_global_target])
  /\ Resume(t, "resolve")
  /\ UNCHANGED <<row, globals_list, existing_schema, routed, flagged,
                 canonical_columns, signal_id, cancelled>>

\* The exception of a refused type leaves zipper_upsert.
SchemaRefused(t) ==
  /\ pc[t] = "schema" /\ CanonicalType(t) \notin StorableType
  /\ pc' = [pc EXCEPT ![t] = "failed"]
  /\ UNCHANGED <<store, row, globals_list, existing_schema, routed, flagged,
                 canonical_columns, signal_id, cancelled>>

-----------------------------------------------------------------------------
(* Normalizing the value and placing it in the wide row. *)

\* The target type comes from the snapshots, not from what was just written.
TargetType(t) ==
  LET n == Route(t).canonical_name
  IN  IF existing_schema[t][n] # None THEN existing_schema[t][n].data_type
      ELSE IF globals_list[t][n] # None THEN globals_list[t][n]
      ELSE SourceType(t)

Outcome(t) == Normalize(Col(t, ThisCol(t)).value, SourceType(t), TargetType(t))

Taken(t) == canonical_columns[t][Route(t).canonical_name] # None

PlaceValue(t) ==
  canonical_columns' = [canonical_columns EXCEPT ![t][Route(t).canonical_name] =
    [source_column |-> Col(t, ThisCol(t)).source_column, data_type |-> TargetType(t)]]

\* Mutant: a flag is logged with the verdict "unclear", not the routing's own.
FlagAsUnclear(t, by) ==
  /\ \E at \in Time :
       InsertDecision(DecisionOf(t, ThisCol(t), [Route(t) EXCEPT !.verdict = "unclear"],
                                 TRUE, by, at))
  /\ flagged' = [flagged EXCEPT ![t] = @ \cup {<<ThisCol(t), by>>}]
  /\ Resume(t, "column")

Flag(t, by) ==
  /\ \E at \in Time :
       InsertDecision(DecisionOf(t, ThisCol(t), Route(t), TRUE, by, at))
  /\ flagged' = [flagged EXCEPT ![t] = @ \cup {<<ThisCol(t), by>>}]
  /\ Resume(t, "column")

\* Mutant: a name another column has taken is overwritten without a flag.
StoreValueSilently(t) ==
  /\ pc[t] = "resolve"
  /\ Outcome(t) = "ok"
  /\ PlaceValue(t)
  /\ pc' = [pc EXCEPT ![t] = "column"]
  /\ UNCHANGED <<store, row, globals_list, existing_schema, routed, flagged,
                 signal_id, cancelled>>

StoreValue(t) ==
  /\ pc[t] = "resolve"
  /\ Outcome(t) = "ok" /\ ~Taken(t)
  /\ PlaceValue(t)
  /\ pc' = [pc EXCEPT ![t] = "column"]
  /\ UNCHANGED <<store, row, globals_list, existing_schema, routed, flagged,
                 signal_id, cancelled>>

\* Two columns of the row reached one canonical name: flag it, last value wins.
FlagCollision(t) ==
  /\ pc[t] = "resolve" /\ Outcome(t) = "ok" /\ Taken(t)
  /\ Flag(t, "collision")
  /\ PlaceValue(t)
  /\ UNCHANGED <<row, globals_list, existing_schema, routed, signal_id, cancelled>>

\* UnsafeCoercion: flag it and skip the value.
FlagUnsafe(t) ==
  /\ pc[t] = "resolve" /\ Outcome(t) = "unsafe"
  /\ Flag(t, "normalizer")
  /\ UNCHANGED <<row, globals_list, existing_schema, routed, canonical_columns,
                 signal_id, cancelled>>

\* Any other exception of a coercer leaves zipper_upsert.
NormalizerRaises(t) ==
  /\ pc[t] = "resolve" /\ Outcome(t) = "raises"
  /\ pc' = [pc EXCEPT ![t] = "failed"]
  /\ UNCHANGED <<store, row, globals_list, existing_schema, routed, flagged,
                 canonical_columns, signal_id, cancelled>>

-----------------------------------------------------------------------------
(* The end, and what can cut it short. *)

ColumnsDone(t) == pc[t] = "column" /\ ThisCol(t) = Len(row[t].columns)

SignalOf(t) ==
  [workspace_key |-> row[t].workspace_key, pkey |-> row[t].pkey,
   source |-> row[t].source, external_id |-> row[t].external_id,
   occurred_at |-> row[t].occurred_at, columns |-> canonical_columns[t]]

WriteSignal(t) ==
  /\ ColumnsDone(t)
  /\ \E id \in 1..(Len(signals) + 1) :
       /\ UpsertSignal(SignalOf(t), id)
       /\ signal_id' = [signal_id EXCEPT ![t] = id]
  /\ Resume(t, "done")
  /\ UNCHANGED <<row, globals_list, existing_schema, routed, flagged,
                 canonical_columns, cancelled>>

\* The awaited call raises (router timeout or bad answer, storage error), or
\* the process dies: nothing more of this task happens, what it wrote stays.
Fail(t) ==
  /\ "fail" \in Faults /\ Running(t)
  /\ pc' = [pc EXCEPT ![t] = "failed"]
  /\ UNCHANGED <<store, row, globals_list, existing_schema, routed, flagged,
                 canonical_columns, signal_id, cancelled>>

\* The coroutine is cancelled while a storage write runs in its thread: the
\* caller is free at once, the thread runs on and its write still lands.
WriteInThread(t) ==
  \/ pc[t] \in {"route", "schema"}
  \/ pc[t] = "resolve" /\ (Outcome(t) = "unsafe" \/ (Outcome(t) = "ok" /\ Taken(t)))
  \/ ColumnsDone(t)

Cancel(t) ==
  /\ "cancel" \in Faults /\ ~cancelled[t] /\ WriteInThread(t)
  /\ cancelled' = [cancelled EXCEPT ![t] = TRUE]
  /\ UNCHANGED <<store, pc, row, globals_list, existing_schema, routed, flagged,
                 canonical_columns, signal_id>>

RegisterGlobal(w, n, ty) ==
  /\ AddGlobalColumn(w, n, ty)
  /\ UNCHANGED task

\* Every call has returned or raised: nothing is left to do.
Terminated ==
  /\ \A t \in Task : pc[t] \in {"done", "failed"}
  /\ UNCHANGED vars

-----------------------------------------------------------------------------

\* What the event loop and the thread pool do for a running task.
Step(t) ==
  \/ LoadGlobals(t) \/ LoadPkeySchema(t)
  \/ CacheHit(t) \/ CacheMiss(t)
  \/ RouteByLookup(t) \/ RouteByRouter(t)
  \/ RecordSchema(t) \/ SchemaRefused(t)
  \/ StoreValue(t) \/ FlagCollision(t) \/ FlagUnsafe(t) \/ NormalizerRaises(t)
  \/ WriteSignal(t)

Next ==
  \/ \E t \in Task, r \in Row : Start(t, r)
  \/ \E t \in Task : Step(t) \/ Fail(t) \/ Cancel(t)
  \/ \E g \in Registrations : RegisterGlobal(g[1], g[2], g[3])
  \/ Terminated

Spec == Init /\ [][Next]_vars

\* Storage calls and the router (bounded by its timeout) return; callers owe nothing.
FairSpec == Spec /\ \A t \in Task : WF_vars(Step(t))
=============================================================================
