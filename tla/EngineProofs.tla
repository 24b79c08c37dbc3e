---------------------------- MODULE EngineProofs ----------------------------
(***************************************************************************)
(* Proofs of the safety properties of module Engine that need no           *)
(* assumption on the callers, the router or the faults.                    *)
(***************************************************************************)
EXTENDS EngineProps, TLAPS

-----------------------------------------------------------------------------
(* The inductive invariant behind the type invariant: a task past its start *)
(* has its row, a task past its load has both snapshots, and the k-th entry *)
(* of routed is a log row about the k-th column of the row.                 *)

Loaded == {"column", "route", "schema", "resolve"}

RowTaken(t) == pc[t] # "idle" => row[t] \in Row

SnapshotsTaken(t) == pc[t] \in Loaded => globals_list[t] # None /\ existing_schema[t] # None

RoutedInOrder(t) ==
  /\ pc[t] = "idle" => routed[t] = <<>>
  /\ pc[t] # "idle" => Len(routed[t]) <= Len(row[t].columns)
  /\ pc[t] = "route" => Len(routed[t]) < Len(row[t].columns)
  /\ pc[t] \in {"schema", "resolve"} => Len(routed[t]) >= 1
  /\ \A k \in 1..Len(routed[t]) :
       /\ routed[t][k] \in DOMAIN decisions
       /\ Quad(decisions[routed[t][k]]) = QuadOf(t, k)

FreshlyRouted(t) ==
  pc[t] = "schema" =>
    /\ Route(t).decided_by \in Routers
    /\ Route(t).decided_by = "lookup" =>
         /\ Match(t, ThisCol(t)) # None
         /\ Match(t, ThisCol(t)).canonical_column = Route(t).canonical_name

TaskInv(t) == RowTaken(t) /\ SnapshotsTaken(t) /\ RoutedInOrder(t) /\ FreshlyRouted(t)

CoreInv == TypeOK /\ \A t \in Task : TaskInv(t)

-----------------------------------------------------------------------------
(* Helpers.                                                                 *)

\* Appending keeps what is there and puts the new element last.
LEMMA AppendFacts ==
  ASSUME NEW S, NEW s \in Seq(S), NEW e \in S
  PROVE  /\ Append(s, e) \in Seq(S)
         /\ Len(s) \in Nat /\ DOMAIN s = 1..Len(s)
         /\ Len(Append(s, e)) = Len(s) + 1
         /\ DOMAIN Append(s, e) = 1..(Len(s) + 1)
         /\ \A i \in 1..Len(s) : Append(s, e)[i] = s[i] /\ s[i] \in S
         /\ Append(s, e)[Len(s) + 1] = e
OBVIOUS

\* What every step does to the log: rows stay, new ones go last.
LogGrows ==
  /\ decisions' \in Seq(DecisionRow)
  /\ Len(decisions) <= Len(decisions')
  /\ \A i \in 1..Len(decisions) : decisions'[i] = decisions[i]

\* A step of one task leaves the local variables of the others alone.
Keeps(u) ==
  /\ pc'[u] = pc[u] /\ row'[u] = row[u]
  /\ globals_list'[u] = globals_list[u] /\ existing_schema'[u] = existing_schema[u]
  /\ routed'[u] = routed[u] /\ canonical_columns'[u] = canonical_columns[u]

\* What a task knows survives the steps of the others.
LEMMA OthersKeepInv ==
  ASSUME TypeOK, NEW u \in Task, TaskInv(u), Keeps(u), LogGrows
  PROVE  TaskInv(u)'
<1>1. decisions \in Seq(DecisionRow) /\ routed[u] \in Seq(Nat)
  BY DEF TypeOK, StorageTypeOK
<1>2. /\ DOMAIN decisions = 1..Len(decisions) /\ DOMAIN decisions' = 1..Len(decisions')
      /\ Len(decisions) \in Nat /\ Len(decisions') \in Nat /\ Len(routed[u]) \in Nat
  BY <1>1 DEF LogGrows
<1>3. RowTaken(u)' /\ SnapshotsTaken(u)'
  BY DEF Keeps, TaskInv, RowTaken, SnapshotsTaken
<1>4. \A k \in 1..Len(routed[u]) :
        /\ routed[u][k] \in DOMAIN decisions /\ routed[u][k] \in DOMAIN decisions'
        /\ decisions'[routed[u][k]] = decisions[routed[u][k]]
  BY <1>2 DEF TaskInv, RoutedInOrder, LogGrows
<1>5. RoutedInOrder(u)'
  <2>1. \A k : QuadOf(u, k)' = QuadOf(u, k)
    BY DEF Keeps, QuadOf, Col
  <2>2. \A k \in 1..Len(routed'[u]) :
          /\ routed'[u][k] \in DOMAIN decisions'
          /\ Quad(decisions'[routed'[u][k]]) = QuadOf(u, k)'
    BY <1>4, <2>1 DEF Keeps, TaskInv, RoutedInOrder
  <2> QED BY <2>2 DEF Keeps, TaskInv, RoutedInOrder
<1>6. FreshlyRouted(u)'
  <2>1. pc[u] = "schema" => Len(routed[u]) \in 1..Len(routed[u])
    BY <1>2 DEF TaskInv, RoutedInOrder
  <2> QED BY <1>4, <2>1 DEF Keeps, TaskInv, FreshlyRouted, Route, ThisCol, Match, Col
<1> QED BY <1>3, <1>5, <1>6 DEF TaskInv

-----------------------------------------------------------------------------
(* What a running task can rely on.                                         *)

LEMMA RowFacts ==
  ASSUME CoreInv, NEW t \in Task, pc[t] # "idle"
  PROVE  /\ row[t] \in Row /\ IsIngestRow(row[t])
         /\ Len(row[t].columns) \in Nat
         /\ \A k \in 1..Len(row[t].columns) : Col(t, k) \in IngestValue
<1>1. row[t] \in Row /\ IsIngestRow(row[t])
  BY EngineAssumption DEF CoreInv, TaskInv, RowTaken
<1>2. row[t].columns \in Seq(IngestValue)
  BY <1>1 DEF IsIngestRow
<1> QED BY <1>1, <1>2 DEF Col

LEMMA RouteFacts ==
  ASSUME CoreInv, NEW t \in Task, pc[t] \in {"schema", "resolve"}
  PROVE  /\ ThisCol(t) \in 1..Len(row[t].columns)
         /\ routed[t][ThisCol(t)] \in DOMAIN decisions
         /\ Route(t) \in DecisionRow
         /\ Quad(Route(t)) = QuadOf(t, ThisCol(t))
<1>1. decisions \in Seq(DecisionRow) /\ routed[t] \in Seq(Nat) /\ Len(row[t].columns) \in Nat
  BY RowFacts DEF CoreInv, TypeOK, StorageTypeOK
<1>2. ThisCol(t) \in 1..Len(routed[t]) /\ ThisCol(t) \in 1..Len(row[t].columns)
  BY <1>1 DEF CoreInv, TaskInv, RoutedInOrder, ThisCol
<1>3. routed[t][ThisCol(t)] \in DOMAIN decisions /\ Quad(Route(t)) = QuadOf(t, ThisCol(t))
  BY <1>2 DEF CoreInv, TaskInv, RoutedInOrder, Route
<1> QED BY <1>1, <1>2, <1>3 DEF Route

\* Every routed column has a canonical name.
LEMMA RoutedNames ==
  ASSUME CoreInv, NEW t \in Task
  PROVE  \A k \in 1..ThisCol(t) : RoutedName(t, k) \in Name
<1>1. \A k \in 1..ThisCol(t) : routed[t][k] \in DOMAIN decisions
  BY DEF CoreInv, TaskInv, RoutedInOrder, ThisCol
<1>2. \A i \in DOMAIN decisions : decisions[i] \in DecisionRow
  BY DEF CoreInv, TypeOK, StorageTypeOK
<1> QED BY <1>1, <1>2 DEF RoutedName, DecisionRow

\* What a task logs about one of its columns is a log row of that column.
LEMMA DecisionOfFacts ==
  ASSUME CoreInv, NEW t \in Task, pc[t] # "idle", NEW k \in 1..Len(row[t].columns),
         NEW v, v.verdict \in Verdict, v.canonical_name \in Name,
         v.is_global_target \in BOOLEAN, NEW review \in BOOLEAN,
         NEW by \in Routers \cup Flaggers, NEW at \in Time
  PROVE  /\ DecisionOf(t, k, v, review, by, at) \in DecisionRow
         /\ Quad(DecisionOf(t, k, v, review, by, at)) = QuadOf(t, k)
<1>1. IsIngestRow(row[t]) /\ Col(t, k) \in IngestValue
  BY RowFacts
<1>2. Col(t, k).source_column \in Column
  BY <1>1 DEF IngestValue
<1> QED BY <1>1, <1>2 DEF DecisionOf, DecisionRow, IsIngestRow, Quad, QuadOf

LEMMA InsertDecisionFacts ==
  ASSUME TypeOK, NEW d \in DecisionRow, InsertDecision(d)
  PROVE  /\ StorageTypeOK' /\ LogGrows
         /\ Len(decisions') = Len(decisions) + 1 /\ Len(decisions) \in Nat
         /\ DOMAIN decisions' = 1..(Len(decisions) + 1)
         /\ decisions'[Len(decisions) + 1] = d
BY AppendFacts, decisions \in Seq(DecisionRow)
   DEF TypeOK, StorageTypeOK, InsertDecision, LogGrows

\* A step that does not touch the log.
LEMMA LogUnchanged ==
  ASSUME TypeOK, UNCHANGED decisions
  PROVE  LogGrows
<1>1. Len(decisions) \in Nat
  BY DEF TypeOK, StorageTypeOK
<1> QED BY <1>1 DEF TypeOK, StorageTypeOK, LogGrows

\* To preserve CoreInv a step of task t has to preserve t's own part.
LEMMA StepOfOne ==
  ASSUME CoreInv, NEW t \in Task, TypeOK', LogGrows,
         \A u \in Task \ {t} : Keeps(u), TaskInv(t)'
  PROVE  CoreInv'
<1>1. \A u \in Task \ {t} : TaskInv(u)'
  BY OthersKeepInv DEF CoreInv
<1> QED BY <1>1 DEF CoreInv

-----------------------------------------------------------------------------
(* CoreInv is inductive: one lemma per group of actions.                    *)

LEMMA CoreInit == Init => CoreInv
<1> SUFFICES ASSUME Init PROVE CoreInv
  OBVIOUS
<1>1. StorageTypeOK
  BY EngineAssumption, StorageAssumption, <<>> \in Seq(DecisionRow), <<>> \in Seq(SignalRow)
     DEF Init, StorageTypeOK
<1>2. TypeOK
  BY <1>1, <<>> \in Seq(Nat) DEF Init, TypeOK, PCs, NoColumns
<1>3. \A t \in Task : TaskInv(t)
  BY Len(<<>>) = 0
     DEF Init, TaskInv, RowTaken, SnapshotsTaken, RoutedInOrder, FreshlyRouted, Loaded
<1> QED BY <1>2, <1>3 DEF CoreInv

LEMMA CoreStart ==
  ASSUME CoreInv, NEW t \in Task, NEW r \in Row, Start(t, r)
  PROVE  CoreInv'
<1>1. TypeOK'
  BY DEF CoreInv, TypeOK, StorageTypeOK, Start, store, PCs
<1>2. LogGrows
  BY LogUnchanged DEF CoreInv, Start, store
<1>3. \A u \in Task \ {t} : Keeps(u)
  BY DEF CoreInv, TypeOK, Start, Keeps
<1>4. /\ pc'[t] = "load" /\ row'[t] = r /\ routed'[t] = <<>>
  BY DEF CoreInv, TypeOK, TaskInv, RoutedInOrder, Start
<1>5. r.columns \in Seq(IngestValue)
  BY EngineAssumption DEF IsIngestRow
<1>6. TaskInv(t)'
  BY <1>4, <1>5, Len(<<>>) = 0, Len(r.columns) \in Nat
     DEF TaskInv, RowTaken, SnapshotsTaken, RoutedInOrder, FreshlyRouted, Loaded
<1> QED BY <1>1, <1>2, <1>3, <1>6, StepOfOne

LEMMA CoreLoad ==
  ASSUME CoreInv, NEW t \in Task, LoadGlobals(t) \/ LoadPkeySchema(t)
  PROVE  CoreInv'
<1>1. IsIngestRow(row[t])
  BY RowFacts DEF LoadGlobals, LoadPkeySchema
<1>2. /\ globals[row[t].workspace_key] \in [Name -> DataType \cup {None}]
      /\ schema[row[t].workspace_key][row[t].pkey] \in [Name -> SchemaRow \cup {None}]
  BY <1>1 DEF CoreInv, TypeOK, StorageTypeOK, IsIngestRow
<1>3. TypeOK'
  BY <1>2 DEF CoreInv, TypeOK, StorageTypeOK, LoadGlobals, LoadPkeySchema, store, PCs
<1>4. LogGrows
  BY LogUnchanged DEF CoreInv, LoadGlobals, LoadPkeySchema, store
<1>5. \A u \in Task \ {t} : Keeps(u)
  BY DEF CoreInv, TypeOK, LoadGlobals, LoadPkeySchema, Keeps
<1>6. /\ pc[t] = "load" /\ pc'[t] \in {"load", "column"}
      /\ UNCHANGED <<row, routed, decisions>>
  BY DEF CoreInv, TypeOK, LoadGlobals, LoadPkeySchema, store
<1>7. SnapshotsTaken(t)'
  BY <1>2, EngineAssumption
     DEF CoreInv, TypeOK, LoadGlobals, LoadPkeySchema, SnapshotsTaken, Loaded
<1>8. RowTaken(t)' /\ RoutedInOrder(t)' /\ FreshlyRouted(t)'
  BY <1>6 DEF CoreInv, TaskInv, RowTaken, RoutedInOrder, FreshlyRouted, QuadOf, Col, Quad
<1> QED BY <1>3, <1>4, <1>5, <1>7, <1>8, StepOfOne DEF TaskInv

\* Appending one routed column keeps the columns and the log in step.
LEMMA RouteOneMore ==
  ASSUME CoreInv, NEW t \in Task, HasColumn(t) \/ pc[t] = "route",
         NEW i \in Nat, routed'[t] = Append(routed[t], i),
         i \in DOMAIN decisions', Quad(decisions'[i]) = QuadOf(t, NextCol(t)),
         UNCHANGED row, LogGrows, pc'[t] \in {"schema", "resolve", "failed"}
  PROVE  RoutedInOrder(t)'
<1>1. /\ routed[t] \in Seq(Nat) /\ Len(routed[t]) \in Nat
      /\ Len(routed'[t]) = Len(routed[t]) + 1
      /\ \A k \in 1..Len(routed[t]) : routed'[t][k] = routed[t][k]
      /\ routed'[t][Len(routed[t]) + 1] = i
  BY AppendFacts DEF CoreInv, TypeOK
<1>2. Len(routed[t]) < Len(row[t].columns) /\ Len(row[t].columns) \in Nat
  <2>1. pc[t] # "idle" /\ Len(row[t].columns) \in Nat
    BY RowFacts DEF HasColumn
  <2>2. CASE HasColumn(t)
    BY <1>1, <2>1, <2>2 DEF HasColumn, NextCol
  <2>3. CASE pc[t] = "route"
    BY <2>1, <2>3 DEF CoreInv, TaskInv, RoutedInOrder
  <2> QED BY <2>2, <2>3
<1>3. \A k : QuadOf(t, k)' = QuadOf(t, k)
  BY DEF QuadOf, Col
<1>4. \A k \in 1..Len(routed[t]) :
        /\ routed'[t][k] \in DOMAIN decisions'
        /\ Quad(decisions'[routed'[t][k]]) = QuadOf(t, k)'
  <2>1. decisions \in Seq(DecisionRow) /\ DOMAIN decisions' = 1..Len(decisions')
        /\ Len(decisions) \in Nat /\ Len(decisions') \in Nat
    BY DEF CoreInv, TypeOK, StorageTypeOK, LogGrows
  <2>2. \A k \in 1..Len(routed[t]) :
          routed[t][k] \in 1..Len(decisions) /\ Quad(decisions[routed[t][k]]) = QuadOf(t, k)
    BY <2>1 DEF CoreInv, TaskInv, RoutedInOrder
  <2>3. SUFFICES ASSUME NEW k \in 1..Len(routed[t])
                 PROVE  /\ routed'[t][k] \in DOMAIN decisions'
                        /\ Quad(decisions'[routed'[t][k]]) = QuadOf(t, k)'
    OBVIOUS
  <2>4. routed'[t][k] = routed[t][k] /\ routed[t][k] \in 1..Len(decisions)
    BY <1>1, <2>2
  <2>5. decisions'[routed'[t][k]] = decisions[routed[t][k]]
    BY <2>4 DEF LogGrows
  <2> QED BY <1>3, <2>1, <2>2, <2>4, <2>5 DEF LogGrows
<1>5. \A k \in 1..Len(routed'[t]) :
        /\ routed'[t][k] \in DOMAIN decisions'
        /\ Quad(decisions'[routed'[t][k]]) = QuadOf(t, k)'
  <2>1. SUFFICES ASSUME NEW k \in 1..Len(routed'[t])
                 PROVE  /\ routed'[t][k] \in DOMAIN decisions'
                        /\ Quad(decisions'[routed'[t][k]]) = QuadOf(t, k)'
    OBVIOUS
  <2>2. k \in 1..Len(routed[t]) \/ k = Len(routed[t]) + 1
    BY <1>1, <2>1
  <2>3. CASE k \in 1..Len(routed[t])
    BY <1>4, <2>3
  <2>4. CASE k = Len(routed[t]) + 1
    BY <1>1, <1>3, <2>4 DEF NextCol
  <2> QED BY <2>2, <2>3, <2>4
<1> QED BY <1>1, <1>2, <1>5 DEF RoutedInOrder

LEMMA CoreCache ==
  ASSUME CoreInv, NEW t \in Task, CacheHit(t) \/ CacheMiss(t)
  PROVE  CoreInv'
<1>1. LogGrows /\ UNCHANGED <<row, decisions>> /\ HasColumn(t) /\ pc[t] = "column"
  BY LogUnchanged DEF CoreInv, CacheHit, CacheMiss, HasColumn, store
<1>2. \A u \in Task \ {t} : Keeps(u)
  BY DEF CoreInv, TypeOK, CacheHit, CacheMiss, Keeps
<1>3. ASSUME CacheHit(t) PROVE TypeOK' /\ TaskInv(t)'
  <2>1. PICK i \in LatestDecisions(QuadOf(t, NextCol(t))) :
          routed' = [routed EXCEPT ![t] = Append(@, i)]
    BY <1>3 DEF CacheHit
  <2>2. i \in DOMAIN decisions /\ i \in Nat /\ Quad(decisions[i]) = QuadOf(t, NextCol(t))
    BY DEF LatestDecisions, DecisionsFor, CoreInv, TypeOK, StorageTypeOK
  <2>3. routed' \in [Task -> Seq(Nat)] /\ routed'[t] = Append(routed[t], i)
    BY <2>1, <2>2, AppendFacts DEF CoreInv, TypeOK
  <2>4. TypeOK'
    BY <1>3, <2>3 DEF CoreInv, TypeOK, StorageTypeOK, CacheHit, store, PCs
  <2>5. pc'[t] = "resolve"
    BY <1>3 DEF CoreInv, TypeOK, CacheHit
  <2>6. RoutedInOrder(t)'
    BY <1>1, <2>2, <2>3, <2>5, RouteOneMore
  <2>7. RowTaken(t)' /\ SnapshotsTaken(t)' /\ FreshlyRouted(t)'
    BY <1>1, <1>3, <2>5
       DEF CoreInv, TaskInv, RowTaken, SnapshotsTaken, FreshlyRouted, Loaded, CacheHit
  <2> QED BY <2>4, <2>6, <2>7 DEF TaskInv
<1>4. ASSUME CacheMiss(t) PROVE TypeOK' /\ TaskInv(t)'
  <2>1. TypeOK'
    BY <1>4 DEF CoreInv, TypeOK, StorageTypeOK, CacheMiss, store, PCs
  <2>2. pc'[t] = "route" /\ UNCHANGED <<routed, globals_list, existing_schema>>
    BY <1>4 DEF CoreInv, TypeOK, CacheMiss
  <2>3. Len(routed[t]) \in Nat /\ Len(routed[t]) < Len(row[t].columns)
    BY <1>1, RowFacts DEF CoreInv, TypeOK, HasColumn, NextCol
  <2>4. RoutedInOrder(t)'
    BY <1>1, <2>2, <2>3 DEF CoreInv, TaskInv, RoutedInOrder, QuadOf, Col, Quad
  <2>5. RowTaken(t)' /\ SnapshotsTaken(t)' /\ FreshlyRouted(t)'
    BY <1>1, <2>2
       DEF CoreInv, TaskInv, RowTaken, SnapshotsTaken, FreshlyRouted, Loaded
  <2> QED BY <2>1, <2>4, <2>5 DEF TaskInv
<1> QED BY <1>1, <1>2, <1>3, <1>4, StepOfOne

\* Whose verdict about its next column t records.
ChosenBy(t, v, by) ==
  \/ /\ by = "lookup" /\ Match(t, NextCol(t)) # None /\ ~v.is_global_target
     /\ v.canonical_name = Match(t, NextCol(t)).canonical_column
  \/ by = "llm" /\ v \in RouterAnswers(t)

\* Both routing tiers record a well-formed decision about the next column.
LEMMA RouteRecorded ==
  ASSUME CoreInv, NEW t \in Task, RouteByLookup(t) \/ RouteByRouter(t)
  PROVE  /\ pc[t] = "route" /\ NextCol(t) \in 1..Len(row[t].columns)
         /\ \E v \in RoutingVerdict, review \in BOOLEAN, by \in Routers :
              /\ RecordRoute(t, v, review, by)
              /\ ChosenBy(t, v, by)
              /\ \A at \in Time :
                   /\ DecisionOf(t, NextCol(t), v, review, by, at) \in DecisionRow
                   /\ Quad(DecisionOf(t, NextCol(t), v, review, by, at)) = QuadOf(t, NextCol(t))
<1>1. pc[t] = "route" /\ NextCol(t) \in 1..Len(row[t].columns)
  <2>0. pc[t] = "route" /\ pc[t] # "idle"
    BY DEF RouteByLookup, RouteByRouter
  <2>1. pc[t] = "route" /\ Len(row[t].columns) \in Nat /\ Len(routed[t]) \in Nat
    BY <2>0, RowFacts DEF CoreInv, TypeOK
  <2> QED BY <2>1 DEF CoreInv, TaskInv, RoutedInOrder, NextCol
<1>2. PICK v \in RoutingVerdict, review \in BOOLEAN, by \in Routers :
        RecordRoute(t, v, review, by) /\ ChosenBy(t, v, by)
  <2>1. CASE RouteByLookup(t)
    <3>1. Match(t, NextCol(t)) \in LookupVerdict
      BY <1>1, <2>1, RowFacts, EngineAssumption DEF RouteByLookup, Match, IngestValue
    <3> DEFINE m == Match(t, NextCol(t))
               w == [verdict |-> "join", canonical_name |-> m.canonical_column,
                     is_global_target |-> FALSE]
    <3>2. w \in RoutingVerdict
      BY <3>1 DEF LookupVerdict, RoutingVerdict, Verdict
    <3>3. RecordRoute(t, w, FALSE, "lookup") /\ ChosenBy(t, w, "lookup")
      BY <2>1 DEF RouteByLookup, ChosenBy
    <3> HIDE DEF w, m
    <3> QED BY <3>2, <3>3 DEF Routers
  <2>2. CASE RouteByRouter(t)
    <3>1. PICK w \in RouterAnswers(t) : RecordRoute(t, w, w.verdict = "unclear", "llm")
      BY <2>2 DEF RouteByRouter
    <3>2. w \in RoutingVerdict
      BY EngineAssumption DEF RouterAnswers
    <3>3. (w.verdict = "unclear") \in BOOLEAN /\ ChosenBy(t, w, "llm")
      BY DEF ChosenBy
    <3> QED BY <3>1, <3>2, <3>3 DEF Routers
  <2> QED BY <2>1, <2>2
<1>3. \A at \in Time :
        /\ DecisionOf(t, NextCol(t), v, review, by, at) \in DecisionRow
        /\ Quad(DecisionOf(t, NextCol(t), v, review, by, at)) = QuadOf(t, NextCol(t))
  BY <1>1, DecisionOfFacts DEF RoutingVerdict
<1> QED BY <1>1, <1>2, <1>3

LEMMA CoreRoute ==
  ASSUME CoreInv, NEW t \in Task, RouteByLookup(t) \/ RouteByRouter(t)
  PROVE  CoreInv'
<1>1. pc[t] = "route" /\ NextCol(t) \in 1..Len(row[t].columns)
  BY RouteRecorded
<1>2. PICK v \in RoutingVerdict, review \in BOOLEAN, by \in Routers :
        /\ RecordRoute(t, v, review, by) /\ ChosenBy(t, v, by)
        /\ \A at \in Time :
             /\ DecisionOf(t, NextCol(t), v, review, by, at) \in DecisionRow
             /\ Quad(DecisionOf(t, NextCol(t), v, review, by, at)) = QuadOf(t, NextCol(t))
  BY RouteRecorded
<1>3. PICK at \in Time : InsertDecision(DecisionOf(t, NextCol(t), v, review, by, at))
  BY <1>2 DEF RecordRoute
<1> DEFINE d == DecisionOf(t, NextCol(t), v, review, by, at)
           i == Len(decisions) + 1
<1>4. d \in DecisionRow /\ Quad(d) = QuadOf(t, NextCol(t))
  BY <1>2
<1>5. /\ StorageTypeOK' /\ LogGrows /\ i \in Nat /\ i \in DOMAIN decisions' /\ decisions'[i] = d
  BY <1>3, <1>4, InsertDecisionFacts DEF CoreInv
<1>6. routed' \in [Task -> Seq(Nat)] /\ routed'[t] = Append(routed[t], i)
  BY <1>2, <1>5, AppendFacts DEF CoreInv, TypeOK, RecordRoute
<1>7. /\ pc' \in [Task -> PCs] /\ pc'[t] \in {"schema", "failed"}
      /\ UNCHANGED <<row, globals_list, existing_schema, flagged, canonical_columns,
                     signal_id, cancelled>>
  BY <1>2 DEF CoreInv, TypeOK, RecordRoute, Resume, PCs
<1>8. TypeOK'
  BY <1>5, <1>6, <1>7 DEF CoreInv, TypeOK
<1>9. \A u \in Task \ {t} : Keeps(u)
  BY <1>2 DEF CoreInv, TypeOK, RecordRoute, Resume, Keeps
<1>10. RoutedInOrder(t)'
  BY <1>1, <1>4, <1>5, <1>6, <1>7, RouteOneMore
<1>11. FreshlyRouted(t)'
  <2>1. Len(routed'[t]) = Len(routed[t]) + 1 /\ routed'[t][Len(routed[t]) + 1] = i
    BY <1>5, <1>6, AppendFacts DEF CoreInv, TypeOK
  <2>2. /\ Match(t, ThisCol(t))' = Match(t, NextCol(t)) /\ Route(t)' = d
        /\ d.decided_by = by /\ d.canonical_name = v.canonical_name
    BY <1>5, <1>7, <2>1 DEF Match, Col, ThisCol, NextCol, Route, DecisionOf
  <2> QED BY <1>2, <2>2 DEF FreshlyRouted, ChosenBy
<1>12. RowTaken(t)' /\ SnapshotsTaken(t)'
  BY <1>1, <1>7 DEF CoreInv, TaskInv, RowTaken, SnapshotsTaken, Loaded
<1> QED BY <1>5, <1>8, <1>9, <1>10, <1>11, <1>12, StepOfOne DEF TaskInv

\* A step of t that leaves its row, its snapshots, its routing and all log rows
\* in place, and does not go back to an earlier phase of the column.
LEMMA SameRoutingStep ==
  ASSUME CoreInv, NEW t \in Task, pc[t] # "idle",
         UNCHANGED <<row, globals_list, existing_schema, routed>>, LogGrows,
         \/ pc'[t] \in {"done", "failed"} \/ pc'[t] = pc[t]
         \/ pc[t] = "schema" /\ pc'[t] = "resolve"
         \/ pc[t] = "resolve" /\ pc'[t] = "column"
  PROVE  TaskInv(t)'
<1>1. RowTaken(t)' /\ SnapshotsTaken(t)'
  BY DEF CoreInv, TaskInv, RowTaken, SnapshotsTaken, Loaded
<1>2. /\ decisions \in Seq(DecisionRow) /\ routed[t] \in Seq(Nat)
      /\ DOMAIN decisions = 1..Len(decisions) /\ DOMAIN decisions' = 1..Len(decisions')
      /\ Len(decisions) \in Nat /\ Len(decisions') \in Nat /\ Len(routed[t]) \in Nat
  BY DEF CoreInv, TypeOK, StorageTypeOK, LogGrows
<1>3. \A k \in 1..Len(routed[t]) :
        /\ routed[t][k] \in DOMAIN decisions' /\ decisions'[routed[t][k]] = decisions[routed[t][k]]
        /\ Quad(decisions[routed[t][k]]) = QuadOf(t, k)
  BY <1>2 DEF CoreInv, TaskInv, RoutedInOrder, LogGrows
<1>4. \A k : QuadOf(t, k)' = QuadOf(t, k)
  BY DEF QuadOf, Col
<1>5. RoutedInOrder(t)'
  <2>1. \A k \in 1..Len(routed'[t]) :
          /\ routed'[t][k] \in DOMAIN decisions'
          /\ Quad(decisions'[routed'[t][k]]) = QuadOf(t, k)'
    BY <1>3, <1>4
  <2> QED BY <2>1 DEF CoreInv, TaskInv, RoutedInOrder
<1>6. FreshlyRouted(t)'
  <2>1. pc[t] = "schema" => Len(routed[t]) \in 1..Len(routed[t])
    BY <1>2 DEF CoreInv, TaskInv, RoutedInOrder
  <2> QED BY <1>3, <2>1 DEF CoreInv, TaskInv, FreshlyRouted, Route, ThisCol, Match, Col
<1> QED BY <1>1, <1>5, <1>6 DEF TaskInv

LEMMA CoreSchema ==
  ASSUME CoreInv, NEW t \in Task, RecordSchema(t)
  PROVE  CoreInv'
<1>1. /\ Route(t).canonical_name \in Name /\ Route(t).is_global_target \in BOOLEAN
      /\ IsIngestRow(row[t])
  BY RouteFacts, RowFacts DEF RecordSchema, DecisionRow
<1>2. CanonicalType(t) \in DataType
  BY StorageAssumption DEF RecordSchema, UpsertSchemaRow
<1>3. StorageTypeOK'
  BY <1>1, <1>2
     DEF CoreInv, TypeOK, StorageTypeOK, RecordSchema, UpsertSchemaRow, SchemaRow, IsIngestRow
<1>4. TypeOK'
  BY <1>3 DEF CoreInv, TypeOK, RecordSchema, Resume, PCs
<1>5. LogGrows
  BY LogUnchanged DEF CoreInv, RecordSchema, UpsertSchemaRow
<1>6. \A u \in Task \ {t} : Keeps(u)
  BY DEF CoreInv, TypeOK, RecordSchema, Resume, Keeps
<1>7. pc[t] = "schema" /\ pc'[t] \in {"resolve", "failed"}
  BY DEF CoreInv, TypeOK, RecordSchema, Resume
<1>8. TaskInv(t)'
  BY <1>5, <1>7, SameRoutingStep DEF RecordSchema
<1> QED BY <1>4, <1>5, <1>6, <1>8, StepOfOne

\* Steps that end a task without touching the store.
LEMMA CoreFailed ==
  ASSUME CoreInv, NEW t \in Task, SchemaRefused(t) \/ NormalizerRaises(t) \/ Fail(t)
  PROVE  CoreInv'
<1>1. pc[t] # "idle" /\ pc' = [pc EXCEPT ![t] = "failed"]
      /\ UNCHANGED <<store, row, globals_list, existing_schema, routed, flagged,
                     canonical_columns, signal_id, cancelled>>
  BY DEF SchemaRefused, NormalizerRaises, Fail, Running
<1>2. TypeOK'
  BY <1>1 DEF CoreInv, TypeOK, StorageTypeOK, store, PCs
<1>3. LogGrows
  BY <1>1, LogUnchanged DEF CoreInv, store
<1>4. pc'[t] = "failed" /\ \A u \in Task \ {t} : Keeps(u)
  BY <1>1 DEF CoreInv, TypeOK, Keeps
<1>5. TaskInv(t)'
  BY <1>1, <1>3, <1>4, SameRoutingStep
<1> QED BY <1>2, <1>3, <1>4, <1>5, StepOfOne

\* The cell of the column being resolved.
LEMMA TargetFacts ==
  ASSUME CoreInv, NEW t \in Task, pc[t] = "resolve"
  PROVE  /\ Route(t).canonical_name \in Name /\ TargetType(t) \in DataType
         /\ Col(t, ThisCol(t)).source_column \in Column
<1>1. ThisCol(t) \in 1..Len(row[t].columns) /\ Route(t).canonical_name \in Name
  BY RouteFacts DEF DecisionRow
<1>2. Col(t, ThisCol(t)) \in IngestValue
  BY <1>1, RowFacts
<1>3. /\ existing_schema[t] \in [Name -> SchemaRow \cup {None}]
      /\ globals_list[t] \in [Name -> DataType \cup {None}]
  BY DEF CoreInv, TypeOK, TaskInv, SnapshotsTaken, Loaded
<1>4. TargetType(t) \in DataType
  BY <1>1, <1>2, <1>3 DEF TargetType, SourceType, SchemaRow, IngestValue
<1> QED BY <1>1, <1>2, <1>4 DEF IngestValue

LEMMA PlaceValueFacts ==
  ASSUME CoreInv, NEW t \in Task, pc[t] = "resolve", PlaceValue(t)
  PROVE  canonical_columns' \in [Task -> [Name -> Cell \cup {None}]]
BY TargetFacts DEF CoreInv, TypeOK, PlaceValue, Cell

LEMMA FlagFacts ==
  ASSUME CoreInv, NEW t \in Task, pc[t] = "resolve", NEW by \in Flaggers, Flag(t, by)
  PROVE  /\ StorageTypeOK' /\ LogGrows
         /\ flagged' \in [Task -> SUBSET (Nat \X Flaggers)]
         /\ pc' = [pc EXCEPT ![t] = pc'[t]] /\ pc'[t] \in {"column", "failed"}
         /\ \E at \in Time :
              /\ DecisionOf(t, ThisCol(t), Route(t), TRUE, by, at) \in DecisionRow
              /\ InsertDecision(DecisionOf(t, ThisCol(t), Route(t), TRUE, by, at))
<1>1. ThisCol(t) \in 1..Len(row[t].columns) /\ Route(t) \in DecisionRow
  BY RouteFacts
<1>2. PICK at \in Time : InsertDecision(DecisionOf(t, ThisCol(t), Route(t), TRUE, by, at))
  BY DEF Flag
<1>3. DecisionOf(t, ThisCol(t), Route(t), TRUE, by, at) \in DecisionRow
  BY <1>1, DecisionOfFacts DEF DecisionRow
<1>4. StorageTypeOK' /\ LogGrows
  BY <1>2, <1>3, InsertDecisionFacts DEF CoreInv
<1>5. <<ThisCol(t), by>> \in Nat \X Flaggers
  BY <1>1, RowFacts
<1>6. flagged' \in [Task -> SUBSET (Nat \X Flaggers)]
  BY <1>5 DEF CoreInv, TypeOK, Flag
<1>7. pc' = [pc EXCEPT ![t] = pc'[t]] /\ pc'[t] \in {"column", "failed"}
  BY DEF CoreInv, TypeOK, Flag, Resume
<1> QED BY <1>2, <1>3, <1>4, <1>6, <1>7

LEMMA CoreResolve ==
  ASSUME CoreInv, NEW t \in Task, StoreValue(t) \/ FlagCollision(t) \/ FlagUnsafe(t)
  PROVE  CoreInv'
<1>1. /\ pc[t] = "resolve" /\ pc[t] # "idle"
      /\ UNCHANGED <<row, globals_list, existing_schema, routed, signal_id, cancelled>>
  BY DEF StoreValue, FlagCollision, FlagUnsafe
<1>2. /\ StorageTypeOK' /\ LogGrows /\ flagged' \in [Task -> SUBSET (Nat \X Flaggers)]
      /\ pc' = [pc EXCEPT ![t] = pc'[t]] /\ pc'[t] \in {"column", "failed"}
  <2>1. CASE StoreValue(t)
    BY <2>1, LogUnchanged DEF CoreInv, TypeOK, StorageTypeOK, StoreValue, store
  <2>2. CASE FlagCollision(t)
    BY <1>1, <2>2, FlagFacts DEF FlagCollision, Flaggers
  <2>3. CASE FlagUnsafe(t)
    BY <1>1, <2>3, FlagFacts DEF FlagUnsafe, Flaggers
  <2> QED BY <2>1, <2>2, <2>3
<1>3. /\ canonical_columns' \in [Task -> [Name -> Cell \cup {None}]]
      /\ \A u \in Task \ {t} : canonical_columns'[u] = canonical_columns[u]
  <2>1. CASE StoreValue(t) \/ FlagCollision(t)
    BY <1>1, <2>1, PlaceValueFacts DEF CoreInv, TypeOK, StoreValue, FlagCollision, PlaceValue
  <2>2. CASE FlagUnsafe(t)
    BY <2>2 DEF CoreInv, TypeOK, FlagUnsafe
  <2> QED BY <2>1, <2>2
<1>4. TypeOK'
  BY <1>1, <1>2, <1>3 DEF CoreInv, TypeOK, PCs
<1>5. \A u \in Task \ {t} : Keeps(u)
  BY <1>1, <1>2, <1>3 DEF CoreInv, TypeOK, Keeps
<1>6. TaskInv(t)'
  BY <1>1, <1>2, SameRoutingStep
<1> QED BY <1>2, <1>4, <1>5, <1>6, StepOfOne

\* The row a task writes is a row of the table.
LEMMA SignalFacts ==
  ASSUME CoreInv, NEW t \in Task, ColumnsDone(t)
  PROVE  SignalOf(t) \in SignalRow /\ IsIngestRow(row[t])
<1>1. IsIngestRow(row[t])
  BY RowFacts DEF ColumnsDone
<1> QED BY <1>1 DEF CoreInv, TypeOK, SignalOf, SignalRow, IsIngestRow

LEMMA UpsertSignalFacts ==
  ASSUME TypeOK, NEW s \in SignalRow, NEW id, UpsertSignal(s, id)
  PROVE  StorageTypeOK' /\ UNCHANGED decisions
<1>1. signals \in Seq(SignalRow)
  BY DEF TypeOK, StorageTypeOK
<1>2. signals' \in Seq(SignalRow)
  <2>1. CASE InsertSignal(s)
    BY <1>1, <2>1, AppendFacts DEF InsertSignal
  <2>2. CASE id \in SameExternal(s) /\ UpdateSignal(id, s)
    <3>1. id \in DOMAIN signals /\ signals[id] \in SignalRow
      BY <1>1, <2>2 DEF SameExternal
    <3>2. [signals[id] EXCEPT !.pkey = s.pkey, !.occurred_at = s.occurred_at,
                              !.columns = s.columns] \in SignalRow
      BY <3>1 DEF SignalRow
    <3> QED BY <1>1, <2>2, <3>1, <3>2 DEF UpdateSignal
  <2> QED BY <2>1, <2>2 DEF UpsertSignal
<1> QED BY <1>2 DEF TypeOK, StorageTypeOK, UpsertSignal, UpdateSignal, InsertSignal

LEMMA CoreWriteSignal ==
  ASSUME CoreInv, NEW t \in Task, WriteSignal(t)
  PROVE  CoreInv'
<1>1. PICK id \in 1..(Len(signals) + 1) :
        /\ UpsertSignal(SignalOf(t), id)
        /\ signal_id' = [signal_id EXCEPT ![t] = id]
  BY DEF WriteSignal
<1>2. StorageTypeOK' /\ LogGrows
  BY <1>1, SignalFacts, UpsertSignalFacts, LogUnchanged DEF CoreInv, WriteSignal
<1>3. TypeOK'
  BY <1>1, <1>2 DEF CoreInv, TypeOK, StorageTypeOK, WriteSignal, Resume, PCs
<1>4. \A u \in Task \ {t} : Keeps(u)
  BY DEF CoreInv, TypeOK, WriteSignal, Resume, Keeps
<1>5. pc[t] # "idle" /\ pc'[t] \in {"done", "failed"}
  BY DEF CoreInv, TypeOK, WriteSignal, ColumnsDone, Resume
<1>6. TaskInv(t)'
  BY <1>2, <1>5, SameRoutingStep DEF WriteSignal
<1> QED BY <1>2, <1>3, <1>4, <1>6, StepOfOne

\* Steps that move no task.
LEMMA CoreStill ==
  ASSUME CoreInv, TypeOK', UNCHANGED <<decisions, pc, row, globals_list, existing_schema,
                                       routed, canonical_columns>>
  PROVE  CoreInv'
BY LogUnchanged, OthersKeepInv DEF CoreInv, Keeps

LEMMA CoreNext == CoreInv /\ [Next]_vars => CoreInv'
<1> SUFFICES ASSUME CoreInv, [Next]_vars PROVE CoreInv'
  OBVIOUS
<1>1. ASSUME NEW t \in Task, NEW r \in Row, Start(t, r) PROVE CoreInv'
  BY <1>1, CoreStart
<1>2. ASSUME NEW t \in Task, Step(t) PROVE CoreInv'
  BY <1>2, CoreLoad, CoreCache, CoreRoute, CoreSchema, CoreFailed, CoreResolve, CoreWriteSignal
     DEF Step
<1>3. ASSUME NEW t \in Task, Fail(t) PROVE CoreInv'
  BY <1>3, CoreFailed
<1>4. ASSUME NEW t \in Task, Cancel(t) PROVE CoreInv'
  <2>1. TypeOK'
    BY <1>4 DEF CoreInv, TypeOK, StorageTypeOK, Cancel, store
  <2> QED BY <1>4, <2>1, CoreStill DEF Cancel, store
<1>5. ASSUME NEW g \in Registrations, RegisterGlobal(g[1], g[2], g[3]) PROVE CoreInv'
  <2>1. g[3] \in StorableType => g[3] \in DataType
    BY StorageAssumption
  <2>2. TypeOK'
    BY <1>5, <2>1 DEF CoreInv, TypeOK, StorageTypeOK, RegisterGlobal, AddGlobalColumn, task
  <2> QED BY <1>5, <2>2, CoreStill DEF RegisterGlobal, AddGlobalColumn, task
<1>6. CASE UNCHANGED vars
  <2>1. TypeOK'
    BY <1>6 DEF CoreInv, TypeOK, StorageTypeOK, vars, task, store
  <2> QED BY <1>6, <2>1, CoreStill DEF vars, task, store
<1> QED BY <1>1, <1>2, <1>3, <1>4, <1>5, <1>6 DEF Next, Terminated

\* In every run the tables and the tasks' local variables have their shape, and
\* a task only ever resolves a column under a log row of that very column.
THEOREM CoreCorrect == Spec => []CoreInv
BY CoreInit, CoreNext, PTL DEF Spec

\* The tables and the local variables of every call keep their types.
THEOREM TypeCorrect == Spec => []TypeOK
<1>1. CoreInv => TypeOK
  BY DEF CoreInv
<1> QED BY <1>1, CoreCorrect, PTL
=============================================================================
