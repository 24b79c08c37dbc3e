---------------------------- MODULE EngineProps ----------------------------
(***************************************************************************)
(* What zipper_upsert should guarantee, stated over module Engine.         *)
(***************************************************************************)
EXTENDS Engine

PCs == {"idle", "load", "column", "route", "schema", "resolve", "done", "failed"}

\* The shape of the state: the tables, and each task's local variables.
TypeOK ==
  /\ StorageTypeOK
  /\ pc \in [Task -> PCs]
  /\ row \in [Task -> Row \cup {None}]
  /\ globals_list \in [Task -> [Name -> DataType \cup {None}] \cup {None}]
  /\ existing_schema \in [Task -> [Name -> SchemaRow \cup {None}] \cup {None}]
  /\ routed \in [Task -> Seq(Nat)]
  /\ flagged \in [Task -> SUBSET (Nat \X Flaggers)]
  /\ canonical_columns \in [Task -> [Name -> Cell \cup {None}]]
  /\ signal_id \in [Task -> Nat]
  /\ cancelled \in [Task -> BOOLEAN]

-----------------------------------------------------------------------------
(* The audit log explains everything, whatever runs at the same time.      *)

SameRouting(d, e) ==
  /\ Quad(d) = Quad(e)
  /\ d.canonical_name = e.canonical_name
  /\ d.verdict = e.verdict
  /\ d.is_global_target = e.is_global_target

\* Every collision or normalizer row repeats an earlier row by which a lookup
\* or the router routed that same column: a flag never introduces a routing,
\* even when it becomes the latest, cached, row of its quad.
FlagsRepeatRoutes ==
  \A i \in DOMAIN decisions : decisions[i].decided_by \in Flaggers =>
    \E j \in DOMAIN decisions :
      j < i /\ decisions[j].decided_by \in Routers /\ SameRouting(decisions[i], decisions[j])

\* Every inventory row was put there for a routing that is in the log.
InventoryJustified ==
  \A w \in Workspace, p \in PKey, n \in Name : schema[w][p][n] # None =>
    \E i \in DOMAIN decisions :
      /\ decisions[i].decided_by \in Routers
      /\ decisions[i].workspace_key = w /\ decisions[i].pkey = p
      /\ decisions[i].canonical_name = n
      /\ decisions[i].is_global_target = schema[w][p][n].is_global

\* Every value of a stored wide row can be traced to a decision of its record,
\* its source and its source column.
ValuesAudited ==
  \A s \in DOMAIN signals, n \in Name : signals[s].columns[n] # None =>
    \E i \in DOMAIN decisions :
      /\ decisions[i].pkey = signals[s].pkey
      /\ decisions[i].source = signals[s].source
      /\ decisions[i].source_column = signals[s].columns[n].source_column
      /\ decisions[i].canonical_name = n

\* No value disappears without a trace: once its columns are through, each value
\* is in the wide row, or was flagged as unsafe, or was overwritten by a later
\* column that was flagged as a collision; and each flag is in the log.
RoutedName(t, k) == decisions[routed[t][k]].canonical_name

Kept(t, k) ==
  /\ canonical_columns[t][RoutedName(t, k)] # None
  /\ canonical_columns[t][RoutedName(t, k)].source_column = Col(t, k).source_column

Overwritten(t, k) ==
  \E m \in 1..ThisCol(t) :
    m > k /\ <<m, "collision">> \in flagged[t] /\ RoutedName(t, m) = RoutedName(t, k)

FlagLogged(t, f) ==
  \E i \in DecisionsFor(QuadOf(t, f[1])) :
    decisions[i].needs_review /\ decisions[i].decided_by = f[2]

NoSilentLoss ==
  \A t \in Task : pc[t] = "done" \/ ColumnsDone(t) =>
    /\ \A k \in 1..ThisCol(t) :
         Kept(t, k) \/ <<k, "normalizer">> \in flagged[t] \/ Overwritten(t, k)
    /\ \A f \in flagged[t] : FlagLogged(t, f)

-----------------------------------------------------------------------------
(* Signals keep their identity under concurrent and repeated delivery.     *)

\* One stored row per (source, external id), however often and however
\* concurrently the source delivers it.
OneRowPerExternalId ==
  \A i, j \in DOMAIN signals :
    /\ signals[i].external_id # None
    /\ signals[i].source = signals[j].source
    /\ signals[i].external_id = signals[j].external_id
    => i = j

\* The id a call returned is the id of its own row from then on: two calls got
\* the same id exactly when they delivered the same external row, and a row
\* without an external id is never touched again.
SameDelivery(r, s) ==
  r.external_id # None /\ r.source = s.source /\ r.external_id = s.external_id

IdsAreStable ==
  \A t, u \in Task : pc[t] = "done" /\ pc[u] = "done" /\ t # u =>
    /\ signal_id[t] = signal_id[u] <=> SameDelivery(row[t], row[u])
    /\ row[t].external_id = None => signals[signal_id[t]] = SignalOf(t)

-----------------------------------------------------------------------------
(* Routing is decided once.                                                *)

\* What it takes: no two calls of one source overlap on a record, and none is
\* cancelled with a write still running in its thread.
SerialCallers == Exclusive /\ "cancel" \notin Faults

\* At most one routing decision per (record, source, column).
RoutedOnce ==
  \A i, j \in DOMAIN decisions :
    /\ decisions[i].decided_by \in Routers /\ decisions[j].decided_by \in Routers
    /\ Quad(decisions[i]) = Quad(decisions[j])
    => i = j

\* The name the cache answers for a quad: that of a latest row.
CachedName(q) ==
  LET latest == LatestDecisions(q)
  IN  IF latest = {} THEN None
      ELSE decisions[CHOOSE i \in latest : TRUE].canonical_name

AllQuads == Workspace \X PKey \X Source \X Column

Cache == INSTANCE RouteCache
           WITH Quads <- AllQuads, route <- [q \in AllQuads |-> CachedName(q)]

\* The decision log, read through latest_decision_for_column, is a write-once
\* cache: flags, ties and clock steps never change what a column routes to.
RoutesAreWriteOnce == Cache!Spec

-----------------------------------------------------------------------------
(* The inventory and the types of the values.                              *)

\* The inventory lists every canonical column of a row that was ingested.
Inventoried(t) ==
  \A n \in Name : canonical_columns[t][n] # None =>
    schema[row[t].workspace_key][row[t].pkey][n] # None

InventoryComplete == \A t \in Task : pc[t] = "done" => Inventoried(t)

\* A routing task that is about to write the inventory row (w, p, n).
OnItsWay(w, p, n) ==
  \E u \in Task :
    /\ pc[u] = "schema"
    /\ row[u].workspace_key = w /\ row[u].pkey = p
    /\ Route(u).canonical_name = n

\* What it takes: no storage call fails or is cancelled, and the tables accept
\* every type that can reach the inventory.
NoCallFails ==
  /\ Faults = {}
  /\ \A r \in Row : \A k \in DOMAIN r.columns : r.columns[k].source_data_type \in StorableType
  /\ \A c \in Column, v \in Value :
       LookupMatch(c, v) # None => LookupMatch(c, v).data_type \in StorableType
  /\ \A w \in Workspace, n \in Name : SeedGlobals[w][n] \in StorableType \cup {None}

\* Where no call fails, the inventory is behind the stored rows by no more than
\* steps on their way: a canonical column of an ingested row that it does not
\* list is one that another call has just routed and is about to write.
InventoryInStep ==
  \A t \in Task : pc[t] = "done" =>
    \A n \in Name : canonical_columns[t][n] # None =>
      LET w == row[t].workspace_key
          p == row[t].pkey
      IN  schema[w][p][n] # None \/ OnItsWay(w, p, n)

\* A call that returns has given each value the canonical type of its column.
Returns(t) == pc[t] # "done" /\ pc'[t] = "done"

ValuesConform ==
  [][\A t \in Task : Returns(t) =>
       \A n \in Name :
         LET cell == canonical_columns[t][n]
             canonical == schema[row[t].workspace_key][row[t].pkey][n]
         IN  cell # None /\ canonical # None => cell.data_type = canonical.data_type]_vars

\* What it takes: the router claims no global it was not shown, or the registry
\* is complete before the first ingest.
GlobalClaimsHold == Obedient \/ Registrations = {}

\* Some routing of the record to n did not claim the global: the lookup's table
\* never does, and the router need not.
Disowned(w, p, n) ==
  \E i \in DOMAIN decisions :
    /\ decisions[i].decided_by \in Routers /\ ~decisions[i].is_global_target
    /\ decisions[i].workspace_key = w /\ decisions[i].pkey = p
    /\ decisions[i].canonical_name = n

\* Both snapshots of the call were taken before n was known to anybody.
KnewNothingOf(t, n) == globals_list[t][n] = None /\ existing_schema[t][n] = None

\* A registered global fixes the type of its column: every inventory row said to
\* be the global's has its type, and so has every value a call places under that
\* name, unless the log shows that the record's own routing disowned the global,
\* or the call began before the name was registered or inventoried.
GlobalsGovern ==
  \A w \in Workspace, n \in Name : globals[w][n] # None =>
    /\ \A p \in PKey : schema[w][p][n] # None /\ schema[w][p][n].is_global =>
         schema[w][p][n].data_type = globals[w][n]
    /\ \A t \in Task :
         /\ row[t] # None /\ row[t].workspace_key = w
         /\ canonical_columns[t][n] # None
         /\ canonical_columns[t][n].data_type # globals[w][n]
         => KnewNothingOf(t, n) \/ Disowned(w, row[t].pkey, n)

-----------------------------------------------------------------------------
(* Progress.                                                               *)

\* A row ingested while the routing call was still writing the inventory is
\* covered by it in the end.
InventoryCatchesUp == \A t \in Task : pc[t] = "done" ~> Inventoried(t)
=============================================================================
