---------------------------- MODULE AuditProofs ----------------------------
(***************************************************************************)
(* Proofs that the audit log explains the flags, the inventory and the     *)
(* stored values, whatever callers overlap, fail or cancel, and whatever   *)
(* the router answers.                                                     *)
(***************************************************************************)
EXTENDS EngineProofs

-----------------------------------------------------------------------------
(* How the log may change.                                                  *)

LEMMA NextLogGrows == CoreInv /\ [Next]_vars => LogGrows
<1> SUFFICES ASSUME CoreInv, [Next]_vars PROVE LogGrows
  OBVIOUS
<1>1. CASE UNCHANGED decisions
  BY <1>1, LogUnchanged DEF CoreInv
<1>2. ASSUME NEW d, InsertDecision(d) PROVE LogGrows
  <2>1. CoreInv'
    BY CoreNext
  <2>2. Append(decisions, d) \in Seq(DecisionRow) /\ decisions \in Seq(DecisionRow)
    BY <1>2, <2>1 DEF CoreInv, TypeOK, StorageTypeOK, InsertDecision
  <2> QED BY <1>2, <2>2 DEF InsertDecision, LogGrows
<1>3. ASSUME NEW t \in Task, Step(t) PROVE LogGrows
  BY <1>1, <1>2, <1>3
     DEF Step, LoadGlobals, LoadPkeySchema, CacheHit, CacheMiss, RouteByLookup, RouteByRouter,
         RecordRoute, RecordSchema, SchemaRefused, StoreValue, FlagCollision, FlagUnsafe, Flag,
         NormalizerRaises, WriteSignal, UpsertSignal, UpdateSignal, InsertSignal,
         UpsertSchemaRow, store
<1> QED BY <1>1, <1>3
        DEF Next, Start, Fail, Cancel, RegisterGlobal, AddGlobalColumn, Terminated, vars, store

\* Every new log row is a routing by a lookup or the router, or repeats the
\* routing of a row that is already there.
LogStep ==
  \/ UNCHANGED decisions
  \/ \E d \in DecisionRow :
       /\ decisions' = Append(decisions, d)
       /\ \/ d.decided_by \in Routers
          \/ \E j \in DOMAIN decisions : SameRouting(d, decisions[j])

LEMMA NextLogStep == CoreInv /\ [Next]_vars => LogStep
<1> SUFFICES ASSUME CoreInv, [Next]_vars PROVE LogStep
  OBVIOUS
<1>1. CASE UNCHANGED decisions
  BY <1>1 DEF LogStep
<1>2. ASSUME NEW t \in Task, RouteByLookup(t) \/ RouteByRouter(t) PROVE LogStep
  <2>1. PICK v \in RoutingVerdict, review \in BOOLEAN, by \in Routers :
          /\ RecordRoute(t, v, review, by)
          /\ \A at \in Time : DecisionOf(t, NextCol(t), v, review, by, at) \in DecisionRow
    BY <1>2, RouteRecorded
  <2>2. PICK at \in Time : InsertDecision(DecisionOf(t, NextCol(t), v, review, by, at))
    BY <2>1 DEF RecordRoute
  <2>3. DecisionOf(t, NextCol(t), v, review, by, at).decided_by \in Routers
    BY DEF DecisionOf
  <2> QED BY <2>1, <2>2, <2>3 DEF LogStep, InsertDecision
<1>3. ASSUME NEW t \in Task, FlagCollision(t) \/ FlagUnsafe(t) PROVE LogStep
  <2>1. PICK by \in Flaggers : Flag(t, by) /\ pc[t] = "resolve"
    BY <1>3 DEF FlagCollision, FlagUnsafe, Flaggers
  <2>2. PICK at \in Time :
          /\ DecisionOf(t, ThisCol(t), Route(t), TRUE, by, at) \in DecisionRow
          /\ InsertDecision(DecisionOf(t, ThisCol(t), Route(t), TRUE, by, at))
    BY <2>1, FlagFacts
  <2>3. /\ routed[t][ThisCol(t)] \in DOMAIN decisions
        /\ Route(t) = decisions[routed[t][ThisCol(t)]]
        /\ Quad(Route(t)) = QuadOf(t, ThisCol(t))
    BY <2>1, RouteFacts DEF Route
  <2>4. SameRouting(DecisionOf(t, ThisCol(t), Route(t), TRUE, by, at), Route(t))
    BY <2>3 DEF SameRouting, DecisionOf, Quad, QuadOf
  <2> QED BY <2>2, <2>3, <2>4 DEF LogStep, InsertDecision
<1>4. ASSUME NEW t \in Task, Step(t) PROVE LogStep
  BY <1>1, <1>2, <1>3, <1>4
     DEF Step, LoadGlobals, LoadPkeySchema, CacheHit, CacheMiss, RecordSchema, SchemaRefused,
         StoreValue, NormalizerRaises, WriteSignal, UpsertSignal, UpdateSignal, InsertSignal,
         UpsertSchemaRow, store
<1> QED BY <1>1, <1>4
        DEF Next, Start, Fail, Cancel, RegisterGlobal, AddGlobalColumn, Terminated, vars, store

-----------------------------------------------------------------------------
(* Flags.                                                                   *)

LEMMA FlagsInit == Init => FlagsRepeatRoutes
BY DEF Init, FlagsRepeatRoutes

LEMMA FlagsNext ==
  ASSUME CoreInv, FlagsRepeatRoutes, [Next]_vars
  PROVE  FlagsRepeatRoutes'
<1>1. CASE UNCHANGED decisions
  BY <1>1 DEF FlagsRepeatRoutes
<1>2. ASSUME NEW d \in DecisionRow, decisions' = Append(decisions, d),
             \/ d.decided_by \in Routers
             \/ \E j \in DOMAIN decisions : SameRouting(d, decisions[j])
      PROVE  FlagsRepeatRoutes'
  <2>1. decisions \in Seq(DecisionRow)
    BY DEF CoreInv, TypeOK, StorageTypeOK
  <2>2. /\ Len(decisions) \in Nat /\ DOMAIN decisions = 1..Len(decisions)
        /\ DOMAIN decisions' = 1..(Len(decisions) + 1)
        /\ \A i \in 1..Len(decisions) : decisions'[i] = decisions[i]
        /\ decisions'[Len(decisions) + 1] = d
    BY <1>2, <2>1, AppendFacts
  <2>3. SUFFICES ASSUME NEW i \in DOMAIN decisions', decisions'[i].decided_by \in Flaggers
                 PROVE  \E j \in DOMAIN decisions' :
                          /\ j < i /\ decisions'[j].decided_by \in Routers
                          /\ SameRouting(decisions'[i], decisions'[j])
    BY DEF FlagsRepeatRoutes, SameRouting, Quad
  <2>4. CASE i \in DOMAIN decisions
    <3>1. PICK j \in DOMAIN decisions :
            /\ j < i /\ decisions[j].decided_by \in Routers
            /\ SameRouting(decisions[i], decisions[j])
      BY <2>2, <2>3, <2>4 DEF FlagsRepeatRoutes
    <3> QED BY <2>2, <2>4, <3>1
  <2>5. CASE i = Len(decisions) + 1
    <3>1. d.decided_by \in Flaggers /\ decisions'[i] = d
      BY <2>2, <2>3, <2>5
    <3>2. PICK j \in DOMAIN decisions : SameRouting(d, decisions[j])
      BY <1>2, <3>1 DEF Routers, Flaggers
    <3>3. decisions[j] \in DecisionRow
      BY <2>1
    <3>4. PICK k \in DOMAIN decisions :
            /\ k <= j /\ decisions[k].decided_by \in Routers
            /\ SameRouting(decisions[j], decisions[k])
      <4>1. CASE decisions[j].decided_by \in Routers
        BY <2>2, <3>2, <4>1 DEF SameRouting
      <4>2. CASE decisions[j].decided_by \in Flaggers
        BY <2>2, <3>2, <4>2 DEF FlagsRepeatRoutes
      <4> QED BY <3>3, <4>1, <4>2 DEF DecisionRow
    <3>5. SameRouting(d, decisions[k])
      BY <3>2, <3>4 DEF SameRouting
    <3>6. k < i /\ k \in DOMAIN decisions' /\ decisions'[k] = decisions[k]
      BY <2>2, <2>5, <3>4
    <3> QED BY <3>1, <3>4, <3>5, <3>6
  <2> QED BY <2>2, <2>4, <2>5
<1> QED BY <1>1, <1>2, NextLogStep DEF LogStep

\* A flag, however stale the cached row it repeats, repeats an earlier routing.
THEOREM FlagsAreJustified == Spec => []FlagsRepeatRoutes
<1>1. Init => FlagsRepeatRoutes
  BY FlagsInit
<1>2. CoreInv /\ FlagsRepeatRoutes /\ [Next]_vars => FlagsRepeatRoutes'
  BY FlagsNext
<1> QED BY <1>1, <1>2, CoreCorrect, PTL DEF Spec

-----------------------------------------------------------------------------
(* The inventory.                                                           *)

LEMMA InventoryInit == Init => InventoryJustified
BY DEF Init, InventoryJustified

LEMMA InventoryNext ==
  ASSUME CoreInv, InventoryJustified, [Next]_vars
  PROVE  InventoryJustified'
<1>1. /\ LogGrows /\ decisions \in Seq(DecisionRow)
      /\ Len(decisions) \in Nat /\ Len(decisions') \in Nat
      /\ DOMAIN decisions = 1..Len(decisions) /\ DOMAIN decisions' = 1..Len(decisions')
  BY NextLogGrows DEF CoreInv, TypeOK, StorageTypeOK, LogGrows
<1>2. \A i \in DOMAIN decisions : i \in DOMAIN decisions' /\ decisions'[i] = decisions[i]
  BY <1>1 DEF LogGrows
<1>3. CASE UNCHANGED schema
  BY <1>2, <1>3 DEF InventoryJustified
<1>4. ASSUME NEW t \in Task, RecordSchema(t) PROVE InventoryJustified'
  <2> DEFINE i == routed[t][ThisCol(t)]
             ty == CanonicalType(t)
  <2>1. pc[t] = "schema" /\ UNCHANGED decisions
    BY <1>4 DEF RecordSchema, UpsertSchemaRow
  <2>2. /\ i \in DOMAIN decisions /\ Route(t) = decisions[i]
        /\ Quad(Route(t)) = QuadOf(t, ThisCol(t)) /\ Route(t).decided_by \in Routers
    BY <2>1, RouteFacts DEF Route, CoreInv, TaskInv, FreshlyRouted
  <2>3. /\ decisions[i].workspace_key = row[t].workspace_key
        /\ decisions[i].pkey = row[t].pkey
    BY <2>2 DEF Quad, QuadOf
  <2>4. schema' = [schema EXCEPT ![row[t].workspace_key][row[t].pkey][decisions[i].canonical_name]
                     = [data_type |-> ty, is_global |-> decisions[i].is_global_target]]
    BY <1>4, <2>2 DEF RecordSchema, UpsertSchemaRow
  <2> HIDE DEF i, ty
  <2>5. SUFFICES ASSUME NEW w \in Workspace, NEW p \in PKey, NEW n \in Name,
                        schema'[w][p][n] # None
                 PROVE  \E k \in DOMAIN decisions :
                          /\ decisions[k].decided_by \in Routers
                          /\ decisions[k].workspace_key = w /\ decisions[k].pkey = p
                          /\ decisions[k].canonical_name = n
                          /\ decisions[k].is_global_target = schema'[w][p][n].is_global
    BY <2>1 DEF InventoryJustified
  <2>6. schema \in [Workspace -> [PKey -> [Name -> SchemaRow \cup {None}]]]
    BY DEF CoreInv, TypeOK, StorageTypeOK
  <2>7. CASE w = row[t].workspace_key /\ p = row[t].pkey /\ n = decisions[i].canonical_name
    <3>1. schema'[w][p][n] = [data_type |-> ty, is_global |-> decisions[i].is_global_target]
      BY <2>4, <2>6, <2>7
    <3> QED BY <2>2, <2>3, <2>7, <3>1
  <2>8. CASE ~(w = row[t].workspace_key /\ p = row[t].pkey /\ n = decisions[i].canonical_name)
    <3>1. schema'[w][p][n] = schema[w][p][n]
      BY <2>4, <2>6, <2>8
    <3> QED BY <2>5, <3>1 DEF InventoryJustified
  <2> QED BY <2>7, <2>8
<1>5. ASSUME NEW t \in Task, Step(t) PROVE InventoryJustified'
  BY <1>3, <1>4, <1>5
     DEF Step, LoadGlobals, LoadPkeySchema, CacheHit, CacheMiss, RouteByLookup, RouteByRouter,
         RecordRoute, InsertDecision, SchemaRefused, StoreValue, FlagCollision, FlagUnsafe, Flag,
         NormalizerRaises, WriteSignal, UpsertSignal, UpdateSignal, InsertSignal, store
<1> QED BY <1>3, <1>5
        DEF Next, Start, Fail, Cancel, RegisterGlobal, AddGlobalColumn, Terminated, vars, store

\* Overlapping calls overwrite each other's inventory rows, yet every row there
\* is the one of some logged routing.
THEOREM InventoryIsJustified == Spec => []InventoryJustified
<1>1. Init => InventoryJustified
  BY InventoryInit
<1>2. CoreInv /\ InventoryJustified /\ [Next]_vars => InventoryJustified'
  BY InventoryNext
<1> QED BY <1>1, <1>2, CoreCorrect, PTL DEF Spec

-----------------------------------------------------------------------------
(* Signals.                                                                 *)

LEMMA OneRowInit == Init => OneRowPerExternalId
BY DEF Init, OneRowPerExternalId

\* Only the final upsert of a call touches the signals.
LEMMA NextSignals ==
  ASSUME CoreInv, [Next]_vars
  PROVE  \/ UNCHANGED signals
         \/ \E t \in Task : WriteSignal(t)
BY DEF Next, Start, Fail, Cancel, RegisterGlobal, AddGlobalColumn, Terminated, vars, store,
       Step, LoadGlobals, LoadPkeySchema, CacheHit, CacheMiss, RouteByLookup, RouteByRouter,
       RecordRoute, InsertDecision, RecordSchema, UpsertSchemaRow, SchemaRefused, StoreValue,
       FlagCollision, FlagUnsafe, Flag, NormalizerRaises

\* What one upsert_signal does to the table.
LEMMA UpsertSignalEffect ==
  ASSUME TypeOK, NEW s \in SignalRow, NEW id, UpsertSignal(s, id)
  PROVE  /\ signals' \in Seq(SignalRow) /\ id \in DOMAIN signals'
         /\ \A k \in DOMAIN signals : k \in DOMAIN signals' /\ (k # id => signals'[k] = signals[k])
         /\ \A k \in DOMAIN signals' : k # id => k \in DOMAIN signals
         /\ signals'[id].source = s.source /\ signals'[id].external_id = s.external_id
         /\ signals'[id].pkey = s.pkey /\ signals'[id].columns = s.columns
         /\ \/ id \in SameExternal(s) /\ signals'[id].workspace_key = signals[id].workspace_key
            \/ SameExternal(s) = {} /\ id \notin DOMAIN signals /\ signals'[id] = s
<1>1. /\ signals \in Seq(SignalRow) /\ signals' \in Seq(SignalRow)
      /\ Len(signals) \in Nat /\ DOMAIN signals = 1..Len(signals)
  BY UpsertSignalFacts DEF TypeOK, StorageTypeOK
<1>2. CASE id \in SameExternal(s) /\ UpdateSignal(id, s)
  <2>1. id \in DOMAIN signals /\ signals[id] \in SignalRow
        /\ signals[id].source = s.source /\ signals[id].external_id = s.external_id
    BY <1>1, <1>2 DEF SameExternal
  <2>2. DOMAIN signals' = DOMAIN signals /\ \A k \in DOMAIN signals : k # id => signals'[k] = signals[k]
    BY <1>2 DEF UpdateSignal
  <2>3. signals'[id] = [signals[id] EXCEPT !.pkey = s.pkey, !.occurred_at = s.occurred_at,
                                           !.columns = s.columns]
    BY <1>2, <2>1 DEF UpdateSignal
  <2>4. /\ signals'[id].source = s.source /\ signals'[id].external_id = s.external_id
        /\ signals'[id].pkey = s.pkey /\ signals'[id].columns = s.columns
        /\ signals'[id].workspace_key = signals[id].workspace_key
    BY <2>1, <2>3 DEF SignalRow
  <2> QED BY <1>1, <1>2, <2>1, <2>2, <2>4
<1>3. CASE SameExternal(s) = {} /\ id = Len(signals) + 1 /\ InsertSignal(s)
  BY <1>1, <1>3, AppendFacts DEF InsertSignal
<1> QED BY <1>2, <1>3 DEF UpsertSignal

LEMMA OneRowNext ==
  ASSUME CoreInv, OneRowPerExternalId, [Next]_vars
  PROVE  OneRowPerExternalId'
<1>1. CASE UNCHANGED signals
  BY <1>1 DEF OneRowPerExternalId
<1>2. ASSUME NEW t \in Task, WriteSignal(t) PROVE OneRowPerExternalId'
  <2>1. PICK id : UpsertSignal(SignalOf(t), id)
    BY <1>2 DEF WriteSignal
  <2> DEFINE s == SignalOf(t)
  <2>2. s \in SignalRow
    BY <1>2, SignalFacts DEF WriteSignal
  <2> HIDE DEF s
  <2>3. /\ id \in DOMAIN signals'
        /\ \A k \in DOMAIN signals' : k # id => k \in DOMAIN signals /\ signals'[k] = signals[k]
        /\ signals'[id].source = s.source /\ signals'[id].external_id = s.external_id
        /\ id \in SameExternal(s) \/ SameExternal(s) = {}
    BY <2>1, <2>2, UpsertSignalEffect DEF CoreInv, s
  <2>4. SUFFICES ASSUME NEW k \in DOMAIN signals', k # id, s.external_id # None,
                        signals'[k].source = s.source, signals'[k].external_id = s.external_id
                 PROVE  FALSE
    BY <2>3 DEF OneRowPerExternalId
  <2>5. k \in SameExternal(s)
    BY <2>3, <2>4 DEF SameExternal
  <2>6. id \in SameExternal(s)
    BY <2>3, <2>5
  <2> QED BY <2>4, <2>5, <2>6 DEF SameExternal, OneRowPerExternalId
<1> QED BY <1>1, <1>2, NextSignals

\* However many calls deliver a source's row, it is stored once.
THEOREM SignalsAreUnique == Spec => []OneRowPerExternalId
<1>1. Init => OneRowPerExternalId
  BY OneRowInit
<1>2. CoreInv /\ OneRowPerExternalId /\ [Next]_vars => OneRowPerExternalId'
  BY OneRowNext
<1> QED BY <1>1, <1>2, CoreCorrect, PTL DEF Spec

-----------------------------------------------------------------------------
(* Values.  ValuesAudited is not inductive: the values being built have to  *)
(* be in the log before the row that holds them is written.                 *)

\* The log explains cell n of a row, by a decision of one of the workspaces W: a
\* stored row keeps its workspace when a call of another workspace updates it.
Audited(log, W, p, s, c, n) ==
  \E i \in DOMAIN log :
    /\ log[i].workspace_key \in W /\ log[i].pkey = p /\ log[i].source = s
    /\ log[i].source_column = c /\ log[i].canonical_name = n

CellsAudited(t) ==
  \A n \in Name : canonical_columns[t][n] # None =>
    /\ pc[t] # "idle"
    /\ Audited(decisions, {row[t].workspace_key}, row[t].pkey, row[t].source,
               canonical_columns[t][n].source_column, n)

AuditInv == ValuesAudited /\ \A t \in Task : CellsAudited(t)

LEMMA AuditedStays ==
  ASSUME CoreInv, LogGrows, NEW W, NEW p, NEW s, NEW c, NEW n,
         Audited(decisions, W, p, s, c, n)
  PROVE  Audited(decisions', W, p, s, c, n)
<1>1. /\ Len(decisions) \in Nat /\ Len(decisions') \in Nat
      /\ DOMAIN decisions = 1..Len(decisions) /\ DOMAIN decisions' = 1..Len(decisions')
  BY DEF CoreInv, TypeOK, StorageTypeOK, LogGrows
<1>2. \A i \in DOMAIN decisions : i \in DOMAIN decisions' /\ decisions'[i] = decisions[i]
  BY <1>1 DEF LogGrows
<1> QED BY <1>2 DEF Audited

LEMMA AuditInit == Init => AuditInv
BY DEF Init, AuditInv, ValuesAudited, CellsAudited, NoColumns

\* The values of every task stay audited.
LEMMA CellsNext ==
  ASSUME CoreInv, AuditInv, [Next]_vars, NEW t \in Task
  PROVE  CellsAudited(t)'
<1>1. LogGrows
  BY NextLogGrows
<1>2. CASE /\ UNCHANGED <<row, canonical_columns>>
           /\ pc[t] # "idle" => pc'[t] # "idle"
  BY <1>1, <1>2, AuditedStays DEF AuditInv, CellsAudited
<1>3. ASSUME NEW u \in Task, NEW r \in Row, Start(u, r) PROVE CellsAudited(t)'
  <2>1. CASE u = t
    BY <1>3, <2>1 DEF AuditInv, CellsAudited, Start
  <2>2. CASE u # t
    <3>1. row'[t] = row[t] /\ pc'[t] = pc[t] /\ UNCHANGED canonical_columns
      BY <1>3, <2>2 DEF CoreInv, TypeOK, Start
    <3> QED BY <1>1, <3>1, AuditedStays DEF AuditInv, CellsAudited
  <2> QED BY <2>1, <2>2
<1>4. ASSUME NEW u \in Task, StoreValue(u) \/ FlagCollision(u) PROVE CellsAudited(t)'
  <2>1. /\ PlaceValue(u) /\ pc[u] = "resolve" /\ UNCHANGED row
        /\ pc'[u] # "idle" /\ \A v \in Task \ {u} : pc'[v] = pc[v]
    BY <1>4 DEF CoreInv, TypeOK, StoreValue, FlagCollision, Flag, Resume
  <2>2. CASE u # t
    <3>1. canonical_columns'[t] = canonical_columns[t] /\ row'[t] = row[t] /\ pc'[t] = pc[t]
      BY <2>1, <2>2 DEF CoreInv, TypeOK, PlaceValue
    <3> QED BY <1>1, <3>1, AuditedStays DEF AuditInv, CellsAudited
  <2>3. CASE u = t
    <3> DEFINE i == routed[t][ThisCol(t)]
               c == Col(t, ThisCol(t)).source_column
    <3>1. /\ i \in DOMAIN decisions /\ Route(t) = decisions[i]
          /\ Quad(Route(t)) = QuadOf(t, ThisCol(t))
      BY <2>1, <2>3, RouteFacts DEF Route
    <3>2. Audited(decisions, {row[t].workspace_key}, row[t].pkey, row[t].source, c,
                 Route(t).canonical_name)
      BY <3>1 DEF Audited, Quad, QuadOf
    <3>3. \A n \in Name :
            /\ n # Route(t).canonical_name => canonical_columns'[t][n] = canonical_columns[t][n]
            /\ n = Route(t).canonical_name => canonical_columns'[t][n].source_column = c
      BY <2>1, <2>3 DEF CoreInv, TypeOK, PlaceValue
    <3> HIDE DEF c
    <3>4. ASSUME NEW n \in Name, canonical_columns'[t][n] # None
          PROVE  Audited(decisions, {row[t].workspace_key}, row[t].pkey, row[t].source,
                         canonical_columns'[t][n].source_column, n)
      BY <3>2, <3>3, <3>4 DEF AuditInv, CellsAudited
    <3> QED BY <1>1, <2>1, <2>3, <3>4, AuditedStays DEF CellsAudited
  <2> QED BY <2>2, <2>3
<1>5. ASSUME NEW u \in Task, Step(u) \/ Fail(u) \/ Cancel(u) PROVE CellsAudited(t)'
  <2>1. CASE StoreValue(u) \/ FlagCollision(u)
    BY <1>4, <2>1
  <2>2. CASE Fail(u) \/ Cancel(u) \/ (Step(u) /\ ~StoreValue(u) /\ ~FlagCollision(u))
    <3>1. UNCHANGED <<row, canonical_columns>>
      BY <2>2 DEF Step, LoadGlobals, LoadPkeySchema, CacheHit, CacheMiss, RouteByLookup,
                  RouteByRouter, RecordRoute, RecordSchema, SchemaRefused, FlagUnsafe,
                  NormalizerRaises, WriteSignal, Fail, Cancel
    <3>2. pc' = pc \/ \E x \in PCs \ {"idle"} : pc' = [pc EXCEPT ![u] = x]
      BY <2>2 DEF Step, LoadGlobals, LoadPkeySchema, CacheHit, CacheMiss, RouteByLookup,
                  RouteByRouter, RecordRoute, RecordSchema, SchemaRefused, FlagUnsafe, Flag,
                  NormalizerRaises, WriteSignal, Fail, Cancel, Resume, PCs
    <3>3. pc[t] # "idle" => pc'[t] # "idle"
      BY <3>2 DEF CoreInv, TypeOK
    <3> QED BY <1>2, <3>1, <3>3
  <2> QED BY <1>5, <2>1, <2>2
<1> QED BY <1>2, <1>3, <1>5
        DEF Next, RegisterGlobal, Terminated, vars, task

LEMMA ValuesNext ==
  ASSUME CoreInv, AuditInv, [Next]_vars
  PROVE  ValuesAudited'
<1>1. LogGrows
  BY NextLogGrows
<1>2. ValuesAudited <=>
        \A k \in DOMAIN signals, n \in Name : signals[k].columns[n] # None =>
          Audited(decisions, Workspace, signals[k].pkey, signals[k].source,
                  signals[k].columns[n].source_column, n)
  <2>1. \A i \in DOMAIN decisions : decisions[i].workspace_key \in Workspace
    <3>1. \A i \in DOMAIN decisions : decisions[i] \in DecisionRow
      BY DEF CoreInv, TypeOK, StorageTypeOK
    <3> QED BY <3>1 DEF DecisionRow
  <2>2. ASSUME NEW k \in DOMAIN signals, NEW n \in Name
        PROVE  Audited(decisions, Workspace, signals[k].pkey, signals[k].source,
                       signals[k].columns[n].source_column, n) <=>
                 \E i \in DOMAIN decisions :
                   /\ decisions[i].pkey = signals[k].pkey
                   /\ decisions[i].source = signals[k].source
                   /\ decisions[i].source_column = signals[k].columns[n].source_column
                   /\ decisions[i].canonical_name = n
    BY <2>1 DEF Audited
  <2> QED BY <2>2, Zenon DEF ValuesAudited
<1>3. ValuesAudited' <=>
        \A k \in DOMAIN signals', n \in Name : signals'[k].columns[n] # None =>
          Audited(decisions', Workspace, signals'[k].pkey, signals'[k].source,
                  signals'[k].columns[n].source_column, n)
  <2>1. \A i \in DOMAIN decisions' : decisions'[i].workspace_key \in Workspace
    <3>1. \A i \in DOMAIN decisions' : decisions'[i] \in DecisionRow
      BY CoreNext DEF CoreInv, TypeOK, StorageTypeOK
    <3> QED BY <3>1 DEF DecisionRow
  <2>2. ASSUME NEW k \in DOMAIN signals', NEW n \in Name
        PROVE  Audited(decisions', Workspace, signals'[k].pkey, signals'[k].source,
                       signals'[k].columns[n].source_column, n) <=>
                 \E i \in DOMAIN decisions' :
                   /\ decisions'[i].pkey = signals'[k].pkey
                   /\ decisions'[i].source = signals'[k].source
                   /\ decisions'[i].source_column = signals'[k].columns[n].source_column
                   /\ decisions'[i].canonical_name = n
    BY <2>1 DEF Audited
  <2> QED BY <2>2, Zenon DEF ValuesAudited
<1>4. \A k \in DOMAIN signals, n \in Name : signals[k].columns[n] # None =>
        Audited(decisions', Workspace, signals[k].pkey, signals[k].source,
                signals[k].columns[n].source_column, n)
  BY <1>1, <1>2, AuditedStays DEF AuditInv
<1>5. CASE UNCHANGED signals
  BY <1>3, <1>4, <1>5
<1>6. ASSUME NEW t \in Task, WriteSignal(t) PROVE ValuesAudited'
  <2> DEFINE s == SignalOf(t)
  <2>1. PICK id : UpsertSignal(s, id)
    BY <1>6 DEF WriteSignal
  <2>2. s \in SignalRow
    BY <1>6, SignalFacts DEF WriteSignal
  <2>3. \A n \in Name : s.columns[n] # None =>
          Audited(decisions', Workspace, s.pkey, s.source, s.columns[n].source_column, n)
    <3>1. \A n \in Name : canonical_columns[t][n] # None =>
            Audited(decisions, {row[t].workspace_key}, row[t].pkey, row[t].source,
                    canonical_columns[t][n].source_column, n)
      BY DEF AuditInv, CellsAudited
    <3>2. row[t].workspace_key \in Workspace
      BY <1>6, SignalFacts DEF WriteSignal, IsIngestRow
    <3>3. \A n \in Name : canonical_columns[t][n] # None =>
            Audited(decisions, Workspace, row[t].pkey, row[t].source,
                    canonical_columns[t][n].source_column, n)
      BY <3>1, <3>2 DEF Audited
    <3> QED BY <1>1, <3>3, AuditedStays DEF SignalOf
  <2> HIDE DEF s
  <2>4. /\ \A k \in DOMAIN signals' : k # id => k \in DOMAIN signals /\ signals'[k] = signals[k]
        /\ signals'[id].source = s.source /\ signals'[id].pkey = s.pkey
        /\ signals'[id].columns = s.columns
    BY <2>1, <2>2, UpsertSignalEffect DEF CoreInv
  <2>5. ASSUME NEW k \in DOMAIN signals', NEW n \in Name, signals'[k].columns[n] # None
        PROVE  Audited(decisions', Workspace, signals'[k].pkey, signals'[k].source,
                       signals'[k].columns[n].source_column, n)
    BY <1>4, <2>3, <2>4, <2>5
  <2> QED BY <1>3, <2>5
<1> QED BY <1>5, <1>6, NextSignals

\* Every stored value can be traced to a decision, although other calls write
\* to the log, the inventory and the same signal in between.
THEOREM StoredValuesAreAudited == Spec => []ValuesAudited
<1>1. Init => AuditInv
  BY AuditInit
<1>2. CoreInv /\ AuditInv /\ [Next]_vars => AuditInv'
  BY CellsNext, ValuesNext DEF AuditInv
<1>3. AuditInv => ValuesAudited
  BY DEF AuditInv
<1> QED BY <1>1, <1>2, <1>3, CoreCorrect, PTL DEF Spec

-----------------------------------------------------------------------------
(* Losses.  NoSilentLoss speaks of a row whose columns are all through; the *)
(* invariant accounts for each column as soon as it is through, and ties    *)
(* each flag of a task to a column that task has routed.                    *)

\* The columns of t that have been resolved.
Through(t) == IF pc[t] \in {"schema", "resolve"} THEN ThisCol(t) - 1 ELSE ThisCol(t)

AccountedFor(t, k) == Kept(t, k) \/ <<k, "normalizer">> \in flagged[t] \/ Overwritten(t, k)

LossInv(t) ==
  /\ pc[t] # "failed" => \A k \in 1..Through(t) : AccountedFor(t, k)
  /\ \A f \in flagged[t] : f[1] \in 1..ThisCol(t) /\ FlagLogged(t, f)

\* t keeps its row, and only adds to what it has routed and flagged.
OnlyAdds(t) ==
  /\ row'[t] = row[t] /\ flagged[t] \subseteq flagged'[t]
  /\ Len(routed[t]) <= Len(routed'[t])
  /\ \A k \in 1..Len(routed[t]) : routed'[t][k] = routed[t][k]

\* What is known of a routed column stays known.
LEMMA ColumnStays ==
  ASSUME CoreInv, LogGrows, NEW t \in Task, OnlyAdds(t), routed' \in [Task -> Seq(Nat)]
  PROVE  /\ ThisCol(t) \in Nat /\ ThisCol(t)' \in Nat /\ ThisCol(t) <= ThisCol(t)'
         /\ \A k \in 1..ThisCol(t) :
              /\ k \in 1..ThisCol(t)'
              /\ RoutedName(t, k)' = RoutedName(t, k) /\ Col(t, k)' = Col(t, k)
              /\ Overwritten(t, k) => Overwritten(t, k)'
         /\ \A f : FlagLogged(t, f) => FlagLogged(t, f)'
<1>1. /\ routed[t] \in Seq(Nat) /\ routed'[t] \in Seq(Nat)
      /\ Len(decisions) \in Nat /\ Len(decisions') \in Nat
      /\ DOMAIN decisions = 1..Len(decisions) /\ DOMAIN decisions' = 1..Len(decisions')
  BY DEF CoreInv, TypeOK, StorageTypeOK, LogGrows
<1>2. ThisCol(t) \in Nat /\ ThisCol(t)' \in Nat /\ ThisCol(t) <= ThisCol(t)'
  BY <1>1 DEF ThisCol, OnlyAdds
<1>3. \A i \in DOMAIN decisions : i \in DOMAIN decisions' /\ decisions'[i] = decisions[i]
  BY <1>1 DEF LogGrows
<1>4. \A k \in 1..ThisCol(t) :
        /\ k \in 1..ThisCol(t)' /\ routed'[t][k] = routed[t][k]
        /\ routed[t][k] \in DOMAIN decisions
  BY <1>1, <1>2 DEF CoreInv, TaskInv, RoutedInOrder, OnlyAdds, ThisCol
<1>5. \A k \in 1..ThisCol(t) : RoutedName(t, k)' = RoutedName(t, k)
  BY <1>3, <1>4 DEF RoutedName
<1>6. \A k : Col(t, k)' = Col(t, k) /\ QuadOf(t, k)' = QuadOf(t, k)
  BY DEF OnlyAdds, Col, QuadOf
<1>7. ASSUME NEW k \in 1..ThisCol(t), Overwritten(t, k) PROVE Overwritten(t, k)'
  <2>1. PICK m \in 1..ThisCol(t) :
          /\ m > k /\ <<m, "collision">> \in flagged[t] /\ RoutedName(t, m) = RoutedName(t, k)
    BY <1>7 DEF Overwritten
  <2>2. m \in 1..ThisCol(t)' /\ <<m, "collision">> \in flagged'[t]
        /\ RoutedName(t, m)' = RoutedName(t, k)'
    BY <1>4, <1>5, <2>1 DEF OnlyAdds
  <2> QED BY <2>1, <2>2 DEF Overwritten
<1>8. ASSUME NEW f, FlagLogged(t, f) PROVE FlagLogged(t, f)'
  <2>1. PICK i \in DOMAIN decisions :
          /\ Quad(decisions[i]) = QuadOf(t, f[1])
          /\ decisions[i].needs_review /\ decisions[i].decided_by = f[2]
    BY <1>8 DEF FlagLogged, DecisionsFor
  <2>2. i \in DOMAIN decisions' /\ decisions'[i] = decisions[i] /\ QuadOf(t, f[1])' = QuadOf(t, f[1])
    BY <1>3, <1>6
  <2> QED BY <2>1, <2>2 DEF FlagLogged, DecisionsFor
<1> QED BY <1>2, <1>4, <1>5, <1>6, <1>7, <1>8

LEMMA LossInit == Init => \A t \in Task : LossInv(t)
BY Len(<<>>) = 0 DEF Init, LossInv, Through, ThisCol

\* A step of one task leaves everything the others hold alone.
Untouched(u) == Keeps(u) /\ flagged'[u] = flagged[u] /\ signal_id'[u] = signal_id[u]

LEMMA OthersUntouched ==
  ASSUME CoreInv, NEW t \in Task, Step(t) \/ Fail(t) \/ Cancel(t) \/ \E r \in Row : Start(t, r)
  PROVE  \A u \in Task \ {t} : Untouched(u)
BY DEF CoreInv, TypeOK, Untouched, Keeps, Step, LoadGlobals, LoadPkeySchema, CacheHit, CacheMiss,
       RouteByLookup, RouteByRouter, RecordRoute, RecordSchema, SchemaRefused, StoreValue,
       FlagCollision, FlagUnsafe, Flag, PlaceValue, NormalizerRaises, WriteSignal, Fail, Cancel,
       Resume, Start

\* A step that resolves no column of t: what is accounted for stays so.
LEMMA LossStays ==
  ASSUME CoreInv, CoreInv', LogGrows, NEW t \in Task, LossInv(t), OnlyAdds(t),
         flagged'[t] = flagged[t], canonical_columns'[t] = canonical_columns[t],
         pc'[t] # "failed" => pc[t] # "failed" /\ Through(t)' <= Through(t)
  PROVE  LossInv(t)'
<1>1. routed' \in [Task -> Seq(Nat)]
  BY DEF CoreInv, TypeOK
<1>2. ThisCol(t) \in Nat /\ ThisCol(t)' \in Nat /\ ThisCol(t) <= ThisCol(t)'
  BY <1>1, ColumnStays
<1>3. \A f \in flagged'[t] : f[1] \in 1..ThisCol(t)' /\ FlagLogged(t, f)'
  BY <1>1, <1>2, ColumnStays DEF LossInv
<1>4. ASSUME pc'[t] # "failed", NEW k \in 1..Through(t)' PROVE AccountedFor(t, k)'
  <2>1. k \in 1..Through(t) /\ k \in 1..ThisCol(t) /\ AccountedFor(t, k)
    BY <1>2, <1>4 DEF LossInv, Through
  <2>2. /\ RoutedName(t, k)' = RoutedName(t, k) /\ Col(t, k)' = Col(t, k)
        /\ Overwritten(t, k) => Overwritten(t, k)'
    BY <1>1, <2>1, ColumnStays
  <2> QED BY <2>1, <2>2 DEF AccountedFor, Kept
<1> QED BY <1>3, <1>4 DEF LossInv

\* The flag a resolving task logs is there to be found.
LEMMA FlagIsLogged ==
  ASSUME CoreInv, CoreInv', NEW t \in Task, pc[t] = "resolve", NEW by \in Flaggers, Flag(t, by),
         UNCHANGED <<row, routed>>, NEW m \in Nat, m = ThisCol(t)
  PROVE  FlagLogged(t, <<m, by>>)' /\ flagged'[t] = flagged[t] \cup {<<m, by>>}
<1>1. PICK at \in Time :
        /\ DecisionOf(t, m, Route(t), TRUE, by, at) \in DecisionRow
        /\ InsertDecision(DecisionOf(t, m, Route(t), TRUE, by, at))
  BY FlagFacts
<1> DEFINE d == DecisionOf(t, m, Route(t), TRUE, by, at)
<1>2. d.needs_review /\ d.decided_by = by /\ Quad(d) = QuadOf(t, m)
  BY DEF DecisionOf, Quad, QuadOf
<1>3. d \in DecisionRow /\ InsertDecision(d)
  BY <1>1
<1> HIDE DEF d
<1>4. Len(decisions) + 1 \in DOMAIN decisions' /\ decisions'[Len(decisions) + 1] = d
  BY <1>3, InsertDecisionFacts DEF CoreInv
<1>5. <<m, by>>[1] = m /\ <<m, by>>[2] = by /\ QuadOf(t, m)' = QuadOf(t, m)
  BY DEF QuadOf, Col
<1>6. FlagLogged(t, <<m, by>>)'
  BY <1>2, <1>4, <1>5 DEF FlagLogged, DecisionsFor
<1> QED BY <1>6 DEF CoreInv, TypeOK, Flag

LEMMA LossResolved ==
  ASSUME CoreInv, CoreInv', LogGrows, NEW t \in Task, LossInv(t),
         StoreValue(t) \/ FlagCollision(t) \/ FlagUnsafe(t)
  PROVE  LossInv(t)'
<1>1. /\ pc[t] = "resolve" /\ UNCHANGED <<row, routed>> /\ pc'[t] \in {"column", "failed"}
      /\ flagged[t] \subseteq flagged'[t]
  <2>1. ASSUME NEW by, Flag(t, by)
        PROVE  pc'[t] \in {"column", "failed"} /\ flagged[t] \subseteq flagged'[t]
    BY <2>1 DEF CoreInv, TypeOK, Flag, Resume
  <2>2. CASE StoreValue(t)
    BY <2>2 DEF CoreInv, TypeOK, StoreValue
  <2> QED BY <2>1, <2>2 DEF FlagCollision, FlagUnsafe, StoreValue
<1>2. Len(routed[t]) \in Nat /\ routed' \in [Task -> Seq(Nat)] /\ OnlyAdds(t)
  BY <1>1 DEF CoreInv, TypeOK, OnlyAdds
<1>3. PICK m \in Nat : m = ThisCol(t)
  BY <1>2 DEF ThisCol
<1>4. PICK n \in Name : n = Route(t).canonical_name
  BY <1>1, TargetFacts
<1>5. /\ m >= 1 /\ ThisCol(t)' = m /\ Through(t) = m - 1 /\ RoutedName(t, m) = n
      /\ pc'[t] # "failed" => Through(t)' = m
  BY <1>1, <1>2, <1>3, <1>4 DEF CoreInv, TaskInv, RoutedInOrder, Through, ThisCol, RoutedName, Route
<1>6. ASSUME NEW k \in 1..m
      PROVE  /\ RoutedName(t, k)' = RoutedName(t, k) /\ Col(t, k)' = Col(t, k)
             /\ Overwritten(t, k) => Overwritten(t, k)'
             /\ k # m => AccountedFor(t, k)
             /\ RoutedName(t, k) \in Name
  <2>1. k # m => k \in 1..Through(t)
    BY <1>5
  <2> QED BY <1>1, <1>2, <1>3, <2>1, ColumnStays, RoutedNames DEF LossInv
\* What is left to show, for each of the three outcomes.
<1>7. ASSUME \A k \in 1..m : AccountedFor(t, k)',
             \A f \in flagged'[t] \ flagged[t] : f[1] = m /\ FlagLogged(t, f)'
      PROVE  LossInv(t)'
  <2>1. \A f \in flagged[t] : f[1] \in 1..ThisCol(t)' /\ FlagLogged(t, f)'
    BY <1>2, <1>3, <1>5, ColumnStays DEF LossInv
  <2>2. \A f \in flagged'[t] : f[1] \in 1..ThisCol(t)' /\ FlagLogged(t, f)'
    BY <1>5, <1>7, <2>1
  <2> QED BY <1>5, <1>7, <2>2 DEF LossInv
<1>8. ASSUME FlagUnsafe(t) PROVE LossInv(t)'
  <2>1. /\ flagged'[t] = flagged[t] \cup {<<m, "normalizer">>} /\ FlagLogged(t, <<m, "normalizer">>)'
        /\ UNCHANGED canonical_columns
    BY <1>1, <1>3, <1>8, FlagIsLogged DEF FlagUnsafe, Flaggers
  <2>2. ASSUME NEW k \in 1..m PROVE AccountedFor(t, k)'
    <3>1. CASE k = m
      BY <2>1, <3>1 DEF AccountedFor
    <3>2. CASE k # m
      BY <1>1, <1>6, <2>1, <3>2 DEF AccountedFor, Kept
    <3> QED BY <3>1, <3>2
  <2> QED BY <1>7, <2>1, <2>2
<1>9. ASSUME PlaceValue(t)
      PROVE  /\ Kept(t, m)'
             /\ \A k \in 1..m : Kept(t, k) /\ RoutedName(t, k) # n => Kept(t, k)'
  <2>1. \A x \in Name : x # n => canonical_columns'[t][x] = canonical_columns[t][x]
    BY <1>4, <1>9 DEF CoreInv, TypeOK, PlaceValue
  <2>2. canonical_columns'[t][n] = [source_column |-> Col(t, m).source_column,
                                    data_type |-> TargetType(t)]
    BY <1>3, <1>4, <1>9 DEF CoreInv, TypeOK, PlaceValue
  <2>3. TargetType(t) \in DataType /\ Col(t, m).source_column \in Column
    BY <1>1, <1>3, TargetFacts
  <2>4. canonical_columns'[t][n] # None /\ canonical_columns'[t][n].source_column = Col(t, m).source_column
    BY <2>2, <2>3, StorageAssumption DEF Cell
  <2>5. Kept(t, m)'
    <3>1. RoutedName(t, m)' = n /\ Col(t, m)' = Col(t, m)
      BY <1>5, <1>6
    <3> QED BY <2>4, <3>1 DEF Kept
  <2>6. ASSUME NEW k \in 1..m, Kept(t, k), RoutedName(t, k) # n PROVE Kept(t, k)'
    <3>1. /\ RoutedName(t, k)' = RoutedName(t, k) /\ Col(t, k)' = Col(t, k)
          /\ canonical_columns'[t][RoutedName(t, k)] = canonical_columns[t][RoutedName(t, k)]
      BY <1>6, <2>1, <2>6
    <3> QED BY <2>6, <3>1 DEF Kept
  <2> QED BY <2>5, <2>6
<1>10. ASSUME StoreValue(t) PROVE LossInv(t)'
  <2>1. flagged'[t] = flagged[t] /\ PlaceValue(t) /\ canonical_columns[t][n] = None
    BY <1>4, <1>10 DEF StoreValue, Taken
  <2>2. ASSUME NEW k \in 1..m PROVE AccountedFor(t, k)'
    <3>1. CASE k = m
      BY <1>9, <2>1, <3>1 DEF AccountedFor
    <3>2. CASE k # m
      <4>1. Kept(t, k) => RoutedName(t, k) # n
        BY <2>1 DEF Kept
      <4> QED BY <1>6, <1>9, <2>1, <3>2, <4>1 DEF AccountedFor
    <3> QED BY <3>1, <3>2
  <2> QED BY <1>7, <2>1, <2>2
<1>11. ASSUME FlagCollision(t) PROVE LossInv(t)'
  <2>1. /\ flagged'[t] = flagged[t] \cup {<<m, "collision">>} /\ FlagLogged(t, <<m, "collision">>)'
        /\ PlaceValue(t)
    BY <1>1, <1>3, <1>11, FlagIsLogged DEF FlagCollision, Flaggers
  <2>2. ASSUME NEW k \in 1..m PROVE AccountedFor(t, k)'
    <3>1. CASE k = m
      BY <1>9, <2>1, <3>1 DEF AccountedFor
    <3>2. CASE k # m /\ RoutedName(t, k) = n
      <4>1. m \in 1..ThisCol(t)' /\ m > k /\ <<m, "collision">> \in flagged'[t]
        BY <1>5, <2>1, <3>2
      <4>2. m \in 1..m
        BY <1>5
      <4>3. RoutedName(t, m)' = RoutedName(t, k)'
        BY <1>5, <1>6, <3>2, <4>2
      <4> QED BY <4>1, <4>3 DEF AccountedFor, Overwritten
    <3>3. CASE k # m /\ RoutedName(t, k) # n
      BY <1>6, <1>9, <2>1, <3>3 DEF AccountedFor
    <3> QED BY <3>1, <3>2, <3>3
  <2> QED BY <1>7, <2>1, <2>2
<1> QED BY <1>8, <1>10, <1>11

LEMMA LossNext ==
  ASSUME CoreInv, \A u \in Task : LossInv(u), [Next]_vars, NEW t \in Task
  PROVE  LossInv(t)'
<1>1. CoreInv' /\ LogGrows
  BY CoreNext, NextLogGrows
<1>2. LossInv(t)
  OBVIOUS
<1>3. Len(routed[t]) \in Nat
  BY DEF CoreInv, TypeOK
<1>4. CASE Untouched(t)
  <2>1. OnlyAdds(t) /\ Through(t)' = Through(t)
    BY <1>3, <1>4 DEF Untouched, Keeps, OnlyAdds, Through, ThisCol
  <2>2. Through(t)' <= Through(t)
    BY <1>3, <2>1 DEF Through, ThisCol
  <2> QED BY <1>1, <1>2, <1>4, <2>1, <2>2, LossStays DEF Untouched, Keeps
<1>5. ASSUME NEW r \in Row, Start(t, r) PROVE LossInv(t)'
  <2>1. pc[t] = "idle" /\ UNCHANGED <<routed, flagged>>
    BY <1>5 DEF Start
  <2>0. pc'[t] = "load"
    BY <1>5 DEF CoreInv, TypeOK, Start
  <2>2. ThisCol(t) = 0 /\ ThisCol(t)' = 0 /\ flagged'[t] = {}
    BY <1>2, <2>1, Len(<<>>) = 0 DEF CoreInv, TaskInv, RoutedInOrder, LossInv, ThisCol
  <2>3. Through(t)' = 0
    BY <2>0, <2>2 DEF Through
  <2> QED BY <2>2, <2>3 DEF LossInv
<1>6. ASSUME CacheHit(t) \/ RouteByLookup(t) \/ RouteByRouter(t) PROVE LossInv(t)'
  <2>1. PICK i : /\ routed' = [routed EXCEPT ![t] = Append(@, i)]
                 /\ pc'[t] \in {"resolve", "schema", "failed"} /\ pc[t] \in {"column", "route"}
                 /\ UNCHANGED <<row, flagged, canonical_columns>>
    BY <1>6 DEF CoreInv, TypeOK, CacheHit, HasColumn, RouteByLookup, RouteByRouter, RecordRoute,
                Resume
  <2>2. routed'[t] = Append(routed[t], i) /\ routed[t] \in Seq(Nat) /\ routed'[t] \in Seq(Nat)
    BY <1>1, <2>1 DEF CoreInv, TypeOK
  <2>3. /\ Len(routed'[t]) = Len(routed[t]) + 1
        /\ \A k \in 1..Len(routed[t]) : routed'[t][k] = routed[t][k]
    BY <2>2
  <2>4. OnlyAdds(t)
    BY <1>3, <2>1, <2>3 DEF OnlyAdds
  <2>5. pc'[t] # "failed" => pc[t] # "failed" /\ Through(t)' <= Through(t)
    BY <1>3, <2>1, <2>3 DEF Through, ThisCol
  <2> QED BY <1>1, <1>2, <2>1, <2>4, <2>5, LossStays
<1>7. ASSUME \/ LoadGlobals(t) \/ LoadPkeySchema(t) \/ CacheMiss(t) \/ RecordSchema(t)
             \/ SchemaRefused(t) \/ NormalizerRaises(t) \/ WriteSignal(t) \/ Fail(t) \/ Cancel(t)
      PROVE  LossInv(t)'
  <2>1. /\ UNCHANGED <<row, routed, flagged, canonical_columns>>
        /\ \/ pc'[t] = "failed" \/ pc'[t] = pc[t]
           \/ pc[t] \in {"load", "column"} /\ pc'[t] \in {"load", "column", "route", "done"}
           \/ pc[t] = "schema" /\ pc'[t] = "resolve"
    BY <1>7 DEF CoreInv, TypeOK, LoadGlobals, LoadPkeySchema, CacheMiss, HasColumn, RecordSchema,
                SchemaRefused, NormalizerRaises, WriteSignal, ColumnsDone, Fail, Cancel, Resume
  <2>2. OnlyAdds(t)
    BY <1>3, <2>1 DEF OnlyAdds
  <2>3. pc'[t] # "failed" => (pc[t] # "failed" /\ Through(t)' <= Through(t)) \/ pc'[t] = pc[t]
    BY <1>3, <2>1 DEF Through, ThisCol
  <2>4. pc[t] = "failed" => pc'[t] = "failed"
    BY <2>1
  <2>5. pc'[t] = pc[t] => Through(t)' <= Through(t)
    BY <1>3, <2>1 DEF Through, ThisCol
  <2> QED BY <1>1, <1>2, <2>1, <2>2, <2>3, <2>4, <2>5, LossStays
<1>8. ASSUME NEW u \in Task, Step(u) \/ Fail(u) \/ Cancel(u) \/ \E r \in Row : Start(u, r)
      PROVE  LossInv(t)'
  <2>1. CASE u # t
    BY <1>4, <1>8, <2>1, OthersUntouched
  <2>2. CASE u = t
    BY <1>1, <1>2, <1>5, <1>6, <1>7, <1>8, <2>2, LossResolved DEF Step
  <2> QED BY <2>1, <2>2
<1>9. CASE UNCHANGED task
  BY <1>4, <1>9 DEF task, Untouched, Keeps
<1> QED BY <1>8, <1>9 DEF Next, RegisterGlobal, Terminated, vars

\* No value of a row disappears without a flag in the log, whatever the other
\* calls, the router and the clock do, and although a cached decision may itself
\* be a flag of an earlier call.
THEOREM NothingLostSilently == Spec => []NoSilentLoss
<1> DEFINE Inv == \A t \in Task : LossInv(t)
<1>1. Init => Inv
  BY LossInit
<1>2. CoreInv /\ Inv /\ [Next]_vars => Inv'
  BY LossNext
<1>3. CoreInv /\ Inv => NoSilentLoss
  BY DEF LossInv, AccountedFor, NoSilentLoss, Through, ColumnsDone
<1> QED BY <1>1, <1>2, <1>3, CoreCorrect, PTL DEF Spec

-----------------------------------------------------------------------------
(* Ids.  The id a call returned names a row of its own source and external  *)
(* id from then on, and another call gets that id only for the same         *)
(* external row; without an external id the row is still the one it wrote.  *)

IdInv(t) ==
  pc[t] = "done" =>
    /\ signal_id[t] \in DOMAIN signals
    /\ signals[signal_id[t]].source = row[t].source
    /\ signals[signal_id[t]].external_id = row[t].external_id
    /\ row[t].external_id = None => signals[signal_id[t]] = SignalOf(t)

IdsApart ==
  \A t, u \in Task :
    pc[t] = "done" /\ pc[u] = "done" /\ t # u /\ signal_id[t] = signal_id[u] =>
      SameDelivery(row[t], row[u])

IdsInv == OneRowPerExternalId /\ (\A t \in Task : IdInv(t)) /\ IdsApart

LEMMA IdsInit == Init => IdsInv
BY OneRowInit DEF Init, IdsInv, IdInv, IdsApart

\* A call that has returned before and after the step is still what it was.
StillDone(t) ==
  pc'[t] = "done" =>
    /\ pc[t] = "done" /\ row'[t] = row[t] /\ signal_id'[t] = signal_id[t]
    /\ canonical_columns'[t] = canonical_columns[t]

LEMMA NextDone ==
  ASSUME CoreInv, [Next]_vars
  PROVE  \/ \E t \in Task : WriteSignal(t)
         \/ UNCHANGED signals /\ \A t \in Task : StillDone(t)
<1>1. ASSUME NEW t \in Task, ~WriteSignal(t),
             Step(t) \/ Fail(t) \/ Cancel(t) \/ \E r \in Row : Start(t, r)
      PROVE  \A u \in Task : StillDone(u)
  <2>1. pc'[t] # "done" \/ (pc'[t] = pc[t] /\ UNCHANGED <<row, signal_id, canonical_columns>>)
    <3>1. CASE FlagCollision(t) \/ FlagUnsafe(t)
      BY <3>1, FlagFacts DEF FlagCollision, FlagUnsafe, Flaggers
    <3>2. CASE RouteByLookup(t) \/ RouteByRouter(t)
      BY <3>2 DEF CoreInv, TypeOK, RouteByLookup, RouteByRouter, RecordRoute, Resume
    <3>3. CASE Fail(t) \/ Cancel(t) \/ \E r \in Row : Start(t, r)
      BY <3>3 DEF CoreInv, TypeOK, Fail, Cancel, Start
    <3> QED BY <1>1, <3>1, <3>2, <3>3
            DEF CoreInv, TypeOK, Step, LoadGlobals, LoadPkeySchema, CacheHit, CacheMiss,
                RecordSchema, SchemaRefused, StoreValue, NormalizerRaises, Resume
  <2>2. \A u \in Task \ {t} : StillDone(u)
    BY <1>1, OthersUntouched DEF Untouched, Keeps, StillDone
  <2> QED BY <2>1, <2>2 DEF StillDone
<1>2. UNCHANGED task => \A t \in Task : StillDone(t)
  BY DEF task, StillDone
<1>3. (\E t \in Task : WriteSignal(t)) \/ \A t \in Task : StillDone(t)
  BY <1>1, <1>2 DEF Next, RegisterGlobal, Terminated, vars
<1> QED BY <1>3, NextSignals

LEMMA IdsNext ==
  ASSUME CoreInv, IdsInv, [Next]_vars
  PROVE  IdsInv'
<1>1. OneRowPerExternalId'
  BY OneRowNext DEF IdsInv
<1>2. CASE UNCHANGED signals /\ \A t \in Task : StillDone(t)
  <2>1. ASSUME NEW t \in Task PROVE IdInv(t)'
    BY <1>2 DEF IdsInv, IdInv, StillDone, SignalOf
  <2>2. IdsApart'
    BY <1>2 DEF IdsInv, IdsApart, StillDone
  <2> QED BY <1>1, <2>1, <2>2 DEF IdsInv
<1>3. ASSUME NEW t \in Task, WriteSignal(t) PROVE IdsInv'
  <2>1. PICK id \in 1..(Len(signals) + 1) :
          UpsertSignal(SignalOf(t), id) /\ signal_id' = [signal_id EXCEPT ![t] = id]
    BY <1>3 DEF WriteSignal
  <2>2. PICK s \in SignalRow : s = SignalOf(t)
    BY <1>3, SignalFacts DEF WriteSignal
  <2>3. /\ s.source = row[t].source /\ s.external_id = row[t].external_id
    BY <2>2 DEF SignalOf
  <2>4. /\ row' = row /\ canonical_columns' = canonical_columns /\ signal_id'[t] = id
        /\ SignalOf(t)' = s
        /\ \A u \in Task \ {t} : pc'[u] = pc[u] /\ signal_id'[u] = signal_id[u]
    BY <1>3, <2>1, <2>2 DEF CoreInv, TypeOK, WriteSignal, Resume, SignalOf
  <2>5. /\ id \in DOMAIN signals'
        /\ \A k \in DOMAIN signals : k \in DOMAIN signals' /\ (k # id => signals'[k] = signals[k])
        /\ signals'[id].source = s.source /\ signals'[id].external_id = s.external_id
        /\ \/ id \in SameExternal(s)
           \/ SameExternal(s) = {} /\ id \notin DOMAIN signals /\ signals'[id] = s
    BY <2>1, <2>2, UpsertSignalEffect DEF CoreInv
  <2>6. id \in SameExternal(s) =>
          /\ id \in DOMAIN signals /\ s.external_id # None
          /\ signals[id].source = s.source /\ signals[id].external_id = s.external_id
    BY DEF SameExternal
  <2>7. IdInv(t)'
    BY <2>3, <2>4, <2>5, <2>6 DEF IdInv
  <2>8. ASSUME NEW u \in Task \ {t} PROVE IdInv(u)'
    <3>1. SignalOf(u)' = SignalOf(u)
      BY <2>4 DEF SignalOf
    <3>2. pc[u] = "done" =>
            /\ signal_id[u] \in DOMAIN signals
            /\ signals[signal_id[u]].source = row[u].source
            /\ signals[signal_id[u]].external_id = row[u].external_id
            /\ row[u].external_id = None => signals[signal_id[u]] = SignalOf(u)
      BY DEF IdsInv, IdInv
    <3> QED BY <2>4, <2>5, <2>6, <3>1, <3>2 DEF IdInv
  <2>9. ASSUME NEW u \in Task \ {t}, pc[u] = "done", signal_id[u] = id
        PROVE  SameDelivery(row[t], row[u]) /\ SameDelivery(row[u], row[t])
    <3>1. /\ id \in DOMAIN signals /\ signals[id].source = row[u].source
          /\ signals[id].external_id = row[u].external_id
      BY <2>9 DEF IdsInv, IdInv
    <3> QED BY <2>3, <2>5, <2>6, <3>1 DEF SameDelivery
  <2>10. IdsApart'
    BY <2>4, <2>9 DEF IdsInv, IdsApart
  <2> QED BY <1>1, <2>7, <2>8, <2>10 DEF IdsInv
<1> QED BY <1>2, <1>3, NextDone

\* Two calls share an id exactly when they delivered the same external row, and
\* a row without an external id is never touched again, however the calls overlap.
THEOREM IdsStayStable == Spec => []IdsAreStable
<1>1. Init => IdsInv
  BY IdsInit
<1>2. CoreInv /\ IdsInv /\ [Next]_vars => IdsInv'
  BY IdsNext
<1>3. IdsInv => IdsAreStable
  <2>1. SUFFICES ASSUME IdsInv, NEW t \in Task, NEW u \in Task,
                        pc[t] = "done", pc[u] = "done", t # u
                 PROVE  /\ signal_id[t] = signal_id[u] <=> SameDelivery(row[t], row[u])
                        /\ row[t].external_id = None => signals[signal_id[t]] = SignalOf(t)
    BY DEF IdsAreStable
  <2>2. SameDelivery(row[t], row[u]) => signal_id[t] = signal_id[u]
    BY <2>1 DEF IdsInv, IdInv, OneRowPerExternalId, SameDelivery
  <2> QED BY <2>1, <2>2 DEF IdsInv, IdInv, IdsApart
<1> QED BY <1>1, <1>2, <1>3, CoreCorrect, PTL DEF Spec
=============================================================================
