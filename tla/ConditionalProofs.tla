------------------------- MODULE ConditionalProofs -------------------------
(***************************************************************************)
(* Proofs of the properties that ask something of the callers, the faults  *)
(* or the router.                                                          *)
(*                                                                         *)
(* Where callers do not overlap, every column is routed once, and the log, *)
(* read through latest_decision_for_column, is the write-once cache of     *)
(* module RouteCache: calls may still fail at any point, the router may    *)
(* answer anything, and the clock may tie and step back.                   *)
(*                                                                         *)
(* Where no call fails, the inventory lists all that was ingested, up to   *)
(* rows on their way; where the router claims no global it was not shown,  *)
(* the globals' types govern.  Both with callers that overlap at will.     *)
(***************************************************************************)
EXTENDS AuditProofs

-----------------------------------------------------------------------------
(* Why a column is routed once: of two running tasks no two share a quad,   *)
(* and a task that missed the cache still finds no decision for its column. *)

NoneCancelled == \A t \in Task : ~cancelled[t]

Apart ==
  \A t, u \in Task : t # u /\ Running(t) /\ Running(u) => Key(row[t]) # Key(row[u])

StillMissed ==
  \A t \in Task : pc[t] = "route" => DecisionsFor(QuadOf(t, NextCol(t))) = {}

SerialInv == NoneCancelled /\ Apart /\ StillMissed /\ RoutedOnce

LEMMA SerialInit == Init => SerialInv
BY DEF Init, SerialInv, NoneCancelled, Apart, StillMissed, RoutedOnce, Running

LEMMA NoneCancelledNext ==
  ASSUME "cancel" \notin Faults, NoneCancelled, [Next]_vars
  PROVE  NoneCancelled'
<1>1. UNCHANGED cancelled
  BY DEF Next, Start, Fail, Cancel, RegisterGlobal, Terminated, vars, task,
         Step, LoadGlobals, LoadPkeySchema, CacheHit, CacheMiss, RouteByLookup, RouteByRouter,
         RecordRoute, RecordSchema, SchemaRefused, StoreValue, FlagCollision, FlagUnsafe,
         NormalizerRaises, WriteSignal
<1> QED BY <1>1 DEF NoneCancelled

\* A step other than Start changes no row and starts no task.
LEMMA NextRuns ==
  ASSUME CoreInv, [Next]_vars
  PROVE  \/ \E t \in Task, r \in Row : Start(t, r)
         \/ UNCHANGED row /\ \A t \in Task : Running(t)' => Running(t)
<1>1. ASSUME NEW t \in Task, Step(t) \/ Fail(t) \/ Cancel(t)
      PROVE  UNCHANGED row /\ \A u \in Task : Running(u)' => Running(u)
  <2>1. UNCHANGED row
    BY <1>1 DEF Step, LoadGlobals, LoadPkeySchema, CacheHit, CacheMiss, RouteByLookup,
                RouteByRouter, RecordRoute, RecordSchema, SchemaRefused, StoreValue,
                FlagCollision, FlagUnsafe, NormalizerRaises, WriteSignal, Fail, Cancel
  <2>2. \/ pc' = pc
        \/ Running(t) /\ \E x \in PCs : pc' = [pc EXCEPT ![t] = x]
    BY <1>1 DEF Step, LoadGlobals, LoadPkeySchema, CacheHit, CacheMiss, HasColumn, RouteByLookup,
                RouteByRouter, RecordRoute, RecordSchema, SchemaRefused, StoreValue,
                FlagCollision, FlagUnsafe, Flag, NormalizerRaises, WriteSignal, ColumnsDone,
                Fail, Cancel, Resume, PCs, Running
  <2> QED BY <2>1, <2>2 DEF CoreInv, TypeOK, Running
<1>2. CASE UNCHANGED <<pc, row>>
  BY <1>2 DEF Running
<1> QED BY <1>1, <1>2 DEF Next, RegisterGlobal, Terminated, vars, task

LEMMA ApartNext ==
  ASSUME CoreInv, SerialCallers, NoneCancelled, Apart, [Next]_vars
  PROVE  Apart'
<1>1. CASE UNCHANGED row /\ \A t \in Task : Running(t)' => Running(t)
  BY <1>1 DEF Apart
<1>2. ASSUME NEW t \in Task, NEW r \in Row, Start(t, r) PROVE Apart'
  <2>1. \A u \in Task : Running(u) => Key(row[u]) # Key(r)
    BY <1>2 DEF Start, SerialCallers, InFlight, NoneCancelled
  <2>2. row'[t] = r /\ \A u \in Task \ {t} : row'[u] = row[u] /\ pc'[u] = pc[u]
    BY <1>2 DEF CoreInv, TypeOK, Start
  <2> QED BY <2>1, <2>2 DEF Apart, Running
<1> QED BY <1>1, <1>2, NextRuns

-----------------------------------------------------------------------------
(* How the decisions of a quad change.                                      *)

LEMMA AppendDecisionsFor ==
  ASSUME CoreInv, NEW d \in DecisionRow, decisions' = Append(decisions, d), NEW q
  PROVE  /\ Quad(d) # q => DecisionsFor(q)' = DecisionsFor(q)
         /\ Quad(d) = q => DecisionsFor(q)' = DecisionsFor(q) \cup {Len(decisions) + 1}
         /\ \A i \in DOMAIN decisions : i \in DOMAIN decisions' /\ decisions'[i] = decisions[i]
         /\ decisions'[Len(decisions) + 1] = d /\ Len(decisions) + 1 \notin DOMAIN decisions
         /\ DOMAIN decisions' = DOMAIN decisions \cup {Len(decisions) + 1}
<1>1. decisions \in Seq(DecisionRow)
  BY DEF CoreInv, TypeOK, StorageTypeOK
<1>2. /\ Len(decisions) \in Nat /\ DOMAIN decisions = 1..Len(decisions)
      /\ DOMAIN decisions' = 1..(Len(decisions) + 1)
      /\ \A i \in 1..Len(decisions) : decisions'[i] = decisions[i]
      /\ decisions'[Len(decisions) + 1] = d
  BY <1>1, AppendFacts
<1>3. DOMAIN decisions' = DOMAIN decisions \cup {Len(decisions) + 1}
      /\ Len(decisions) + 1 \notin DOMAIN decisions
  BY <1>2
<1> QED BY <1>2, <1>3 DEF DecisionsFor

\* Who appends what: a routing task the decision it missed, a resolving task a
\* flag, both under their own key; no other task moves.
Appends(t, d) ==
  /\ decisions' = Append(decisions, d) /\ UNCHANGED row
  /\ Running(t) /\ pc'[t] # "route"
  /\ \A u \in Task \ {t} : pc'[u] = pc[u] /\ routed'[u] = routed[u]
  /\ <<d.workspace_key, d.pkey, d.source>> = Key(row[t])
  /\ \/ pc[t] = "route" /\ Quad(d) = QuadOf(t, NextCol(t))
     \/ d.decided_by \in Flaggers

LEMMA NextAppends ==
  ASSUME CoreInv, [Next]_vars
  PROVE  UNCHANGED decisions \/ \E t \in Task, d \in DecisionRow : Appends(t, d)
<1>1. ASSUME NEW t \in Task, RouteByLookup(t) \/ RouteByRouter(t)
      PROVE  \E d \in DecisionRow : Appends(t, d)
  <2>1. PICK v \in RoutingVerdict, review \in BOOLEAN, by \in Routers :
          /\ RecordRoute(t, v, review, by)
          /\ \A at \in Time :
               /\ DecisionOf(t, NextCol(t), v, review, by, at) \in DecisionRow
               /\ Quad(DecisionOf(t, NextCol(t), v, review, by, at)) = QuadOf(t, NextCol(t))
    BY <1>1, RouteRecorded
  <2>2. PICK at \in Time : InsertDecision(DecisionOf(t, NextCol(t), v, review, by, at))
    BY <2>1 DEF RecordRoute
  <2> DEFINE d == DecisionOf(t, NextCol(t), v, review, by, at)
  <2>3. /\ pc[t] = "route" /\ UNCHANGED row /\ pc'[t] # "route"
        /\ \A u \in Task \ {t} : pc'[u] = pc[u] /\ routed'[u] = routed[u]
    BY <1>1, <2>1, RouteRecorded DEF CoreInv, TypeOK, RecordRoute, Resume
  <2>4. <<d.workspace_key, d.pkey, d.source>> = Key(row[t])
    BY DEF DecisionOf, Key
  <2>5. decisions' = Append(decisions, d) /\ d \in DecisionRow /\ Quad(d) = QuadOf(t, NextCol(t))
    BY <2>1, <2>2 DEF InsertDecision
  <2> HIDE DEF d
  <2> QED BY <2>3, <2>4, <2>5 DEF Appends, Running
<1>2. ASSUME NEW t \in Task, FlagCollision(t) \/ FlagUnsafe(t)
      PROVE  \E d \in DecisionRow : Appends(t, d)
  <2>1. PICK by \in Flaggers : Flag(t, by) /\ pc[t] = "resolve" /\ UNCHANGED <<row, routed>>
    BY <1>2 DEF FlagCollision, FlagUnsafe, Flaggers
  <2>2. PICK at \in Time :
          /\ DecisionOf(t, ThisCol(t), Route(t), TRUE, by, at) \in DecisionRow
          /\ InsertDecision(DecisionOf(t, ThisCol(t), Route(t), TRUE, by, at))
    BY <2>1, FlagFacts
  <2> DEFINE d == DecisionOf(t, ThisCol(t), Route(t), TRUE, by, at)
  <2>3. <<d.workspace_key, d.pkey, d.source>> = Key(row[t]) /\ d.decided_by \in Flaggers
    BY <2>1 DEF DecisionOf, Key
  <2>4. decisions' = Append(decisions, d) /\ d \in DecisionRow
    BY <2>2 DEF InsertDecision
  <2>5. pc'[t] # "route" /\ \A u \in Task \ {t} : pc'[u] = pc[u]
    BY <2>1, FlagFacts DEF CoreInv, TypeOK
  <2> HIDE DEF d
  <2> QED BY <2>1, <2>3, <2>4, <2>5 DEF Appends, Running
<1>3. ASSUME NEW t \in Task, Step(t)
      PROVE  UNCHANGED decisions \/ \E d \in DecisionRow : Appends(t, d)
  BY <1>1, <1>2, <1>3
     DEF Step, LoadGlobals, LoadPkeySchema, CacheHit, CacheMiss, RecordSchema, SchemaRefused,
         StoreValue, NormalizerRaises, WriteSignal, UpsertSignal, UpdateSignal, InsertSignal,
         UpsertSchemaRow, store
<1> QED BY <1>3
        DEF Next, Start, Fail, Cancel, RegisterGlobal, AddGlobalColumn, Terminated, vars, store

-----------------------------------------------------------------------------
(* Routed once.                                                             *)

LEMMA StillMissedNext ==
  ASSUME CoreInv, Apart, StillMissed, [Next]_vars
  PROVE  StillMissed'
<1>1. SUFFICES ASSUME NEW u \in Task, pc'[u] = "route", NEW q, q = QuadOf(u, NextCol(u))'
               PROVE  DecisionsFor(q)' = {}
  BY DEF StillMissed
<1>2. ASSUME NEW t \in Task, NEW d \in DecisionRow, Appends(t, d)
      PROVE  DecisionsFor(q)' = {}
  <2>1. u # t /\ pc[u] = "route" /\ q = QuadOf(u, NextCol(u))
    BY <1>1, <1>2 DEF Appends, QuadOf, Col, NextCol
  <2>2. DecisionsFor(q) = {}
    BY <2>1 DEF StillMissed
  <2>3. Key(row[t]) # Key(row[u])
    BY <1>2, <2>1 DEF Apart, Appends, Running
  <2>4. Quad(d) # q
    BY <1>2, <2>1, <2>3 DEF Appends, Quad, QuadOf, Key
  <2>5. DecisionsFor(q)' = DecisionsFor(q)
    BY <1>2, <2>4, AppendDecisionsFor DEF Appends
  <2> QED BY <2>2, <2>5
<1>3. CASE UNCHANGED decisions
  <2>1. \/ pc[u] = "route" /\ routed'[u] = routed[u] /\ row'[u] = row[u]
        \/ CacheMiss(u)
    <3>1. ASSUME NEW t \in Task, t # u, Step(t) \/ Fail(t) \/ Cancel(t) \/ \E r \in Row : Start(t, r)
          PROVE  pc'[u] = pc[u] /\ routed'[u] = routed[u] /\ row'[u] = row[u]
      BY <3>1
         DEF CoreInv, TypeOK, Step, LoadGlobals, LoadPkeySchema, CacheHit, CacheMiss,
             RouteByLookup, RouteByRouter, RecordRoute, RecordSchema, SchemaRefused, StoreValue,
             FlagCollision, FlagUnsafe, Flag, NormalizerRaises, WriteSignal, Fail, Cancel, Resume,
             Start
    <3>2. ASSUME Step(u) \/ Fail(u) \/ \E r \in Row : Start(u, r)
          PROVE  CacheMiss(u)
      BY <1>1, <3>2
         DEF CoreInv, TypeOK, Step, LoadGlobals, LoadPkeySchema, CacheHit,
             RouteByLookup, RouteByRouter, RecordRoute, RecordSchema, SchemaRefused, StoreValue,
             FlagCollision, FlagUnsafe, Flag, NormalizerRaises, WriteSignal, Fail, Resume, Start
    <3>3. CASE UNCHANGED <<pc, routed, row>>
      BY <1>1, <3>3
    <3> QED BY <1>1, <3>1, <3>2, <3>3 DEF Next, Cancel, RegisterGlobal, Terminated, vars, task
  <2>2. CASE pc[u] = "route" /\ routed'[u] = routed[u] /\ row'[u] = row[u]
    BY <1>1, <1>3, <2>2 DEF StillMissed, DecisionsFor, QuadOf, Col, NextCol
  <2>3. CASE CacheMiss(u)
    BY <1>1, <1>3, <2>3 DEF CacheMiss, DecisionsFor, QuadOf, Col, NextCol
  <2> QED BY <2>1, <2>2, <2>3
<1> QED BY <1>2, <1>3, NextAppends

LEMMA RoutedOnceNext ==
  ASSUME CoreInv, StillMissed, RoutedOnce, [Next]_vars
  PROVE  RoutedOnce'
<1>1. CASE UNCHANGED decisions
  BY <1>1 DEF RoutedOnce
<1>2. ASSUME NEW t \in Task, NEW d \in DecisionRow, Appends(t, d)
      PROVE  RoutedOnce'
  <2>1. /\ DOMAIN decisions' = DOMAIN decisions \cup {Len(decisions) + 1}
        /\ \A i \in DOMAIN decisions : decisions'[i] = decisions[i]
        /\ decisions'[Len(decisions) + 1] = d
    BY <1>2, AppendDecisionsFor DEF Appends
  <2>2. d.decided_by \in Routers =>
          \A i \in DOMAIN decisions : Quad(decisions[i]) # Quad(d)
    BY <1>2 DEF Appends, StillMissed, DecisionsFor, Routers, Flaggers
  <2> QED BY <2>1, <2>2 DEF RoutedOnce
<1> QED BY <1>1, <1>2, NextAppends

LEMMA SerialNext ==
  ASSUME CoreInv, SerialCallers, SerialInv, [Next]_vars
  PROVE  SerialInv'
BY NoneCancelledNext, ApartNext, StillMissedNext, RoutedOnceNext DEF SerialInv, SerialCallers

\* Where callers do not overlap and none is cancelled, a column is routed once,
\* however often its calls fail and are repeated.
THEOREM RoutedOnceIfSerial == SerialCallers => (Spec => []RoutedOnce)
<1> SUFFICES ASSUME SerialCallers PROVE Spec => []RoutedOnce
  OBVIOUS
<1>1. Init => SerialInv
  BY SerialInit
<1>2. CoreInv /\ SerialInv /\ [Next]_vars => SerialInv'
  BY SerialNext
<1>3. SerialInv => RoutedOnce
  BY DEF SerialInv
<1> QED BY <1>1, <1>2, <1>3, CoreCorrect, PTL DEF Spec

-----------------------------------------------------------------------------
(* The log implements the write-once cache.                                 *)

\* A quad with decisions has a latest one: the query never comes back empty.
SomeLatest == \A q \in AllQuads : DecisionsFor(q) # {} => LatestDecisions(q) # {}

\* All decisions of a quad, flags included, agree on the canonical name.
OneName ==
  \A i, j \in DOMAIN decisions :
    Quad(decisions[i]) = Quad(decisions[j])
      => decisions[i].canonical_name = decisions[j].canonical_name

LEMMA OneNameHolds ==
  ASSUME CoreInv, FlagsRepeatRoutes, RoutedOnce
  PROVE  OneName
<1>1. \A i \in DOMAIN decisions : \E k \in DOMAIN decisions :
        decisions[k].decided_by \in Routers /\ SameRouting(decisions[i], decisions[k])
  <2>1. SUFFICES ASSUME NEW i \in DOMAIN decisions
                 PROVE  \E k \in DOMAIN decisions :
                   decisions[k].decided_by \in Routers /\ SameRouting(decisions[i], decisions[k])
    OBVIOUS
  <2>2. decisions[i] \in DecisionRow
    BY DEF CoreInv, TypeOK, StorageTypeOK
  <2>3. CASE decisions[i].decided_by \in Routers
    BY <2>3 DEF SameRouting
  <2>4. CASE decisions[i].decided_by \in Flaggers
    BY <2>4 DEF FlagsRepeatRoutes
  <2> QED BY <2>2, <2>3, <2>4 DEF DecisionRow
<1>2. SUFFICES ASSUME NEW i \in DOMAIN decisions, NEW j \in DOMAIN decisions,
                      Quad(decisions[i]) = Quad(decisions[j])
               PROVE  decisions[i].canonical_name = decisions[j].canonical_name
  BY DEF OneName
<1>3. PICK k \in DOMAIN decisions :
        decisions[k].decided_by \in Routers /\ SameRouting(decisions[i], decisions[k])
  BY <1>1
<1>4. PICK m \in DOMAIN decisions :
        decisions[m].decided_by \in Routers /\ SameRouting(decisions[j], decisions[m])
  BY <1>1
<1>5. k = m
  BY <1>2, <1>3, <1>4 DEF SameRouting, RoutedOnce
<1> QED BY <1>3, <1>4, <1>5 DEF SameRouting

\* The cached name of a quad is the name of any of its decisions.
LEMMA CachedNameFacts ==
  ASSUME SomeLatest, OneName, NEW q \in AllQuads
  PROVE  /\ DecisionsFor(q) = {} => CachedName(q) = None
         /\ \A i \in DecisionsFor(q) : CachedName(q) = decisions[i].canonical_name
<1>1. LatestDecisions(q) \subseteq DecisionsFor(q)
  BY DEF LatestDecisions
<1>2. ASSUME NEW i \in DecisionsFor(q)
      PROVE  CachedName(q) = decisions[i].canonical_name
  <2> DEFINE c == CHOOSE k \in LatestDecisions(q) : TRUE
  <2>1. LatestDecisions(q) # {} /\ c \in LatestDecisions(q)
    BY <1>2 DEF SomeLatest
  <2>2. c \in DOMAIN decisions /\ i \in DOMAIN decisions
        /\ Quad(decisions[c]) = Quad(decisions[i])
    BY <1>1, <1>2, <2>1 DEF DecisionsFor
  <2>3. CachedName(q) = decisions[c].canonical_name
    BY <2>1 DEF CachedName
  <2> QED BY <2>2, <2>3 DEF OneName
<1> QED BY <1>1, <1>2 DEF CachedName

\* The same of the next state: the facts' premises, primed.
LEMMA CachedNameFactsNext ==
  ASSUME SomeLatest', OneName', NEW q \in AllQuads
  PROVE  /\ DecisionsFor(q)' = {} => CachedName(q)' = None
         /\ \A i \in DecisionsFor(q)' : CachedName(q)' = decisions'[i].canonical_name
<1>1. LatestDecisions(q)' \subseteq DecisionsFor(q)'
  BY DEF LatestDecisions
<1>2. ASSUME NEW i \in DecisionsFor(q)'
      PROVE  CachedName(q)' = decisions'[i].canonical_name
  <2> DEFINE c == CHOOSE k \in LatestDecisions(q)' : TRUE
  <2>1. LatestDecisions(q)' # {} /\ c \in LatestDecisions(q)'
    BY <1>2 DEF SomeLatest
  <2>2. c \in DOMAIN decisions' /\ i \in DOMAIN decisions'
        /\ Quad(decisions'[c]) = Quad(decisions'[i])
    BY <1>1, <1>2, <2>1 DEF DecisionsFor
  <2>3. CachedName(q)' = decisions'[c].canonical_name
    BY <2>1 DEF CachedName
  <2> QED BY <2>2, <2>3 DEF OneName
<1> QED BY <1>1, <1>2 DEF CachedName

LEMMA SomeLatestInit == Init => SomeLatest
BY DEF Init, SomeLatest, DecisionsFor

LEMMA SomeLatestNext ==
  ASSUME CoreInv, SomeLatest, [Next]_vars
  PROVE  SomeLatest'
<1>1. CASE UNCHANGED decisions
  BY <1>1 DEF SomeLatest, LatestDecisions, DecisionsFor
<1>2. ASSUME NEW d \in DecisionRow, decisions' = Append(decisions, d),
             NEW q \in AllQuads, DecisionsFor(q)' # {}
      PROVE  LatestDecisions(q)' # {}
  <2> DEFINE n == Len(decisions) + 1
             at(i) == decisions[i].decided_at
             S == DecisionsFor(q)
  <2>1. /\ DecisionsFor(q)' = IF Quad(d) = q THEN S \cup {n} ELSE S
        /\ \A i \in S : decisions'[i].decided_at = at(i) /\ at(i) \in Nat
        /\ decisions'[n].decided_at = d.decided_at /\ d.decided_at \in Nat
    <3>1. \A i \in S : i \in DOMAIN decisions /\ decisions[i] \in DecisionRow
      BY DEF DecisionsFor, CoreInv, TypeOK, StorageTypeOK
    <3>2. \A e \in DecisionRow : e.decided_at \in Nat
      BY StorageAssumption DEF DecisionRow
    <3> QED BY <1>2, <3>1, <3>2, AppendDecisionsFor
  <2>2. LatestDecisions(q)' =
          {i \in DecisionsFor(q)' : \A j \in DecisionsFor(q)' :
             decisions'[j].decided_at <= decisions'[i].decided_at}
    BY DEF LatestDecisions
  <2>3. S # {} => \E m \in S : \A j \in S : at(j) <= at(m)
    BY DEF SomeLatest, LatestDecisions
  <2> HIDE DEF S, n, at
  <2>4. CASE S = {}
    <3>1. DecisionsFor(q)' = {n}
      BY <1>2, <2>1, <2>4
    <3>2. n \in LatestDecisions(q)'
      BY <2>1, <2>2, <3>1
    <3> QED BY <3>2
  <2>5. CASE S # {}
    <3>1. PICK m \in S : \A j \in S : at(j) <= at(m)
      BY <2>3, <2>5
    <3>2. CASE Quad(d) # q \/ d.decided_at <= at(m)
      <4>1. m \in LatestDecisions(q)'
        BY <2>1, <2>2, <3>1, <3>2
      <4> QED BY <4>1
    <3>3. CASE Quad(d) = q /\ ~(d.decided_at <= at(m))
      <4>1. \A j \in S : at(j) <= d.decided_at
        BY <2>1, <3>1, <3>3
      <4>2. n \in LatestDecisions(q)'
        BY <2>1, <2>2, <3>3, <4>1
      <4> QED BY <4>2
    <3> QED BY <3>2, <3>3
  <2> QED BY <2>4, <2>5
<1>3. ASSUME NEW d \in DecisionRow, decisions' = Append(decisions, d) PROVE SomeLatest'
  BY <1>2, <1>3 DEF SomeLatest, AllQuads
<1> QED BY <1>1, <1>3, NextAppends DEF Appends

LEMMA CacheInit == Init => Cache!Init
BY DEF Init, Cache!Init, CachedName, LatestDecisions, DecisionsFor

\* A step answers nothing new, or the name of one quad that had none.
LEMMA CacheNext ==
  ASSUME CoreInv, SomeLatest, SomeLatest', OneName, OneName', [Next]_vars
  PROVE  [Cache!Next]_[q \in AllQuads |-> CachedName(q)]
<1> DEFINE route == [q \in AllQuads |-> CachedName(q)]
<1>1. CASE UNCHANGED decisions
  BY <1>1 DEF CachedName, LatestDecisions, DecisionsFor
<1>2. ASSUME NEW d \in DecisionRow, decisions' = Append(decisions, d)
      PROVE  route' = route \/ Cache!Next
  <2> DEFINE o == Quad(d)
  <2>1. o \in AllQuads /\ d.canonical_name \in Name
    BY DEF DecisionRow, Quad, AllQuads
  <2>2. /\ \A q \in AllQuads : q # o => DecisionsFor(q)' = DecisionsFor(q)
        /\ DecisionsFor(o)' = DecisionsFor(o) \cup {Len(decisions) + 1}
        /\ \A i \in DOMAIN decisions : decisions'[i] = decisions[i]
        /\ decisions'[Len(decisions) + 1] = d
    BY <1>2, AppendDecisionsFor
  <2>3. \A q \in AllQuads : DecisionsFor(q) \subseteq DOMAIN decisions
    BY DEF DecisionsFor
  <2>4. \A q \in AllQuads :
          /\ DecisionsFor(q) = {} => CachedName(q) = None
          /\ \A i \in DecisionsFor(q) : CachedName(q) = decisions[i].canonical_name
    BY CachedNameFacts
  <2>5. \A q \in AllQuads :
          /\ DecisionsFor(q)' = {} => CachedName(q)' = None
          /\ \A i \in DecisionsFor(q)' : CachedName(q)' = decisions'[i].canonical_name
    BY CachedNameFactsNext
  <2>6. \A q \in AllQuads : DecisionsFor(q) # {} \/ q # o => CachedName(q)' = CachedName(q)
    <3>1. SUFFICES ASSUME NEW q \in AllQuads, DecisionsFor(q) # {} \/ q # o
                   PROVE  CachedName(q)' = CachedName(q)
      OBVIOUS
    <3>2. CASE DecisionsFor(q) = {}
      BY <2>2, <2>4, <2>5, <3>1, <3>2
    <3>3. CASE DecisionsFor(q) # {}
      <4>1. PICK i \in DecisionsFor(q) : TRUE
        BY <3>3
      <4>2. i \in DecisionsFor(q)' /\ decisions'[i] = decisions[i]
        BY <2>2, <2>3, <4>1
      <4> QED BY <2>4, <2>5, <4>1, <4>2
    <3> QED BY <3>2, <3>3
  <2>7. CASE DecisionsFor(o) # {}
    BY <2>6, <2>7
  <2>8. CASE DecisionsFor(o) = {}
    <3>1. CachedName(o) = None /\ CachedName(o)' = d.canonical_name
      BY <2>1, <2>2, <2>4, <2>5, <2>8
    <3>2. route[o] = None /\ route' = [route EXCEPT ![o] = d.canonical_name]
      BY <2>1, <2>6, <3>1
    <3> QED BY <2>1, <3>2 DEF Cache!Next, Cache!Decide
  <2> QED BY <2>7, <2>8
<1> QED BY <1>1, <1>2, NextAppends DEF Appends

\* Where callers do not overlap and none is cancelled, the log read through
\* latest_decision_for_column is a write-once cache: what the README promises.
THEOREM RoutesAreWriteOnceIfSerial == SerialCallers => (Spec => RoutesAreWriteOnce)
<1> SUFFICES ASSUME SerialCallers PROVE Spec => RoutesAreWriteOnce
  OBVIOUS
<1> DEFINE route == [q \in AllQuads |-> CachedName(q)]
<1>1. Init => Cache!Init /\ SomeLatest
  BY CacheInit, SomeLatestInit
<1>2. CoreInv /\ SomeLatest /\ [Next]_vars => SomeLatest'
  BY SomeLatestNext
<1>3. CoreInv /\ FlagsRepeatRoutes /\ RoutedOnce => OneName
  BY OneNameHolds
<1>4. CoreInv /\ SomeLatest /\ SomeLatest' /\ OneName /\ OneName' /\ [Next]_vars
        => [Cache!Next]_route
  BY CacheNext
<1> QED BY <1>1, <1>2, <1>3, <1>4, CoreCorrect, FlagsAreJustified, RoutedOnceIfSerial, PTL
        DEF Spec, RoutesAreWriteOnce, Cache!Spec

-----------------------------------------------------------------------------
(* The inventory in step with the log.                                      *)

StorableOrNone(ty) == ty = None \/ ty \in StorableType

\* Every global type a task may hand to the inventory is one it accepts.
StorableGlobals ==
  /\ \A w \in Workspace, n \in Name : StorableOrNone(globals[w][n])
  /\ \A t \in Task : globals_list[t] # None => \A n \in Name : StorableOrNone(globals_list[t][n])

\* Listed, or on its way.
Listed(w, p, n) == schema[w][p][n] # None \/ OnItsWay(w, p, n)

LogListed ==
  \A i \in DOMAIN decisions :
    Listed(decisions[i].workspace_key, decisions[i].pkey, decisions[i].canonical_name)

StepInv == NoneCancelled /\ StorableGlobals /\ LogListed

LEMMA StepInit == NoCallFails /\ Init => StepInv
BY EngineAssumption
   DEF NoCallFails, Init, StepInv, NoneCancelled, StorableGlobals, StorableOrNone, LogListed

\* Who changes the registry or a snapshot of it, and who the inventory.
LEMMA NextGlobals ==
  ASSUME [Next]_vars
  PROVE  \/ UNCHANGED <<globals, globals_list>>
         \/ \E t \in Task : LoadGlobals(t)
         \/ \E g \in Registrations : RegisterGlobal(g[1], g[2], g[3])
BY DEF Next, Start, Step, LoadPkeySchema, CacheHit, CacheMiss, RouteByLookup, RouteByRouter,
       RecordRoute, InsertDecision, RecordSchema, UpsertSchemaRow, SchemaRefused, StoreValue,
       FlagCollision, FlagUnsafe, Flag, NormalizerRaises, WriteSignal, UpsertSignal, UpdateSignal,
       InsertSignal, Fail, Cancel, Terminated, vars, task, store

LEMMA NextSchema ==
  ASSUME [Next]_vars
  PROVE  UNCHANGED schema \/ \E t \in Task : RecordSchema(t)
BY DEF Next, Start, Step, LoadGlobals, LoadPkeySchema, CacheHit, CacheMiss, RouteByLookup,
       RouteByRouter, RecordRoute, InsertDecision, SchemaRefused, StoreValue, FlagCollision,
       FlagUnsafe, Flag, NormalizerRaises, WriteSignal, UpsertSignal, UpdateSignal, InsertSignal,
       Fail, Cancel, RegisterGlobal, AddGlobalColumn, Terminated, vars, task, store

\* What recording the inventory row of t's routing writes.
LEMMA RecordSchemaEffect ==
  ASSUME CoreInv, NEW t \in Task, RecordSchema(t)
  PROVE  /\ Route(t).canonical_name \in Name /\ IsIngestRow(row[t])
         /\ \A w \in Workspace, p \in PKey, n \in Name :
              IF w = row[t].workspace_key /\ p = row[t].pkey /\ n = Route(t).canonical_name
                THEN /\ schema'[w][p][n] # None
                     /\ schema'[w][p][n].data_type = CanonicalType(t)
                     /\ schema'[w][p][n].is_global = Route(t).is_global_target
                ELSE schema'[w][p][n] = schema[w][p][n]
<1>1. pc[t] = "schema" /\ pc[t] # "idle" /\ Route(t) \in DecisionRow /\ IsIngestRow(row[t])
  BY RouteFacts, RowFacts DEF RecordSchema
<1>2. Route(t).canonical_name \in Name /\ Route(t).is_global_target \in BOOLEAN
  BY <1>1 DEF DecisionRow
<1> DEFINE r == [data_type |-> CanonicalType(t), is_global |-> Route(t).is_global_target]
<1>3. /\ schema' = [schema EXCEPT ![row[t].workspace_key][row[t].pkey][Route(t).canonical_name] = r]
      /\ r.data_type = CanonicalType(t) /\ r.is_global = Route(t).is_global_target
      /\ r \in SchemaRow
  BY <1>2, StorageAssumption DEF RecordSchema, UpsertSchemaRow, SchemaRow
<1>4. r # None
  BY <1>3, StorageAssumption
<1> HIDE DEF r
<1>5. schema \in [Workspace -> [PKey -> [Name -> SchemaRow \cup {None}]]]
  BY DEF CoreInv, TypeOK, StorageTypeOK
<1>6. row[t].workspace_key \in Workspace /\ row[t].pkey \in PKey
  BY <1>1 DEF IsIngestRow
<1>7. ASSUME NEW w \in Workspace, NEW p \in PKey, NEW n \in Name
      PROVE  schema'[w][p][n] =
               IF w = row[t].workspace_key /\ p = row[t].pkey /\ n = Route(t).canonical_name
                 THEN r ELSE schema[w][p][n]
  <2>1. schema' = [schema EXCEPT ![row[t].workspace_key][row[t].pkey][Route(t).canonical_name] = r]
    BY <1>3
  <2>2. CASE w = row[t].workspace_key /\ p = row[t].pkey /\ n = Route(t).canonical_name
    BY <1>5, <2>1, <2>2
  <2>3. CASE ~(w = row[t].workspace_key /\ p = row[t].pkey /\ n = Route(t).canonical_name)
    BY <1>2, <1>5, <1>6, <2>1, <2>3
  <2> QED BY <2>2, <2>3
<1>8. r # None /\ r.data_type = CanonicalType(t) /\ r.is_global = Route(t).is_global_target
  BY <1>3, <1>4
<1>9. \A w \in Workspace, p \in PKey, n \in Name :
        IF w = row[t].workspace_key /\ p = row[t].pkey /\ n = Route(t).canonical_name
          THEN /\ schema'[w][p][n] # None
               /\ schema'[w][p][n].data_type = CanonicalType(t)
               /\ schema'[w][p][n].is_global = Route(t).is_global_target
          ELSE schema'[w][p][n] = schema[w][p][n]
  BY <1>7, <1>8
<1> QED BY <1>1, <1>2, <1>9

\* What routing a column leaves behind: the decision at the end of the log, with
\* the verdict of the tier that chose it.
LEMMA RoutedNow ==
  ASSUME CoreInv, NEW t \in Task, RouteByLookup(t) \/ RouteByRouter(t)
  PROVE  /\ UNCHANGED row /\ pc'[t] = IF cancelled[t] THEN "failed" ELSE "schema"
         /\ Route(t)' \in DecisionRow /\ decisions' = Append(decisions, Route(t)')
         /\ Route(t)'.workspace_key = row[t].workspace_key /\ Route(t)'.pkey = row[t].pkey
         /\ \E v \in RoutingVerdict :
              /\ ChosenBy(t, v, Route(t)'.decided_by)
              /\ Route(t)'.canonical_name = v.canonical_name
              /\ Route(t)'.is_global_target = v.is_global_target
<1>1. PICK v \in RoutingVerdict, review \in BOOLEAN, by \in Routers :
        /\ RecordRoute(t, v, review, by) /\ ChosenBy(t, v, by)
        /\ \A at \in Time : DecisionOf(t, NextCol(t), v, review, by, at) \in DecisionRow
  BY RouteRecorded
<1>2. PICK at \in Time : InsertDecision(DecisionOf(t, NextCol(t), v, review, by, at))
  BY <1>1 DEF RecordRoute
<1>3. PICK d \in DecisionRow : d = DecisionOf(t, NextCol(t), v, review, by, at)
  BY <1>1
<1>4. /\ d.workspace_key = row[t].workspace_key /\ d.pkey = row[t].pkey
      /\ d.canonical_name = v.canonical_name /\ d.is_global_target = v.is_global_target
      /\ d.decided_by = by
  BY <1>3 DEF DecisionOf
<1>5. /\ decisions' = Append(decisions, d) /\ Len(decisions) \in Nat
      /\ decisions'[Len(decisions) + 1] = d
  BY <1>2, <1>3, InsertDecisionFacts DEF CoreInv, InsertDecision
<1>6. /\ routed'[t] = Append(routed[t], Len(decisions) + 1) /\ routed[t] \in Seq(Nat)
      /\ UNCHANGED row /\ pc'[t] = IF cancelled[t] THEN "failed" ELSE "schema"
  BY <1>1 DEF CoreInv, TypeOK, RecordRoute, Resume
<1>7. routed'[t][ThisCol(t)'] = Len(decisions) + 1
  BY <1>5, <1>6, AppendFacts DEF ThisCol
<1>8. Route(t)' = d
  BY <1>5, <1>7 DEF Route
<1> QED BY <1>1, <1>4, <1>5, <1>6, <1>8

\* The routing of a column stands while its task does.
LEMMA RouteStands ==
  ASSUME CoreInv, LogGrows, NEW u \in Task, pc[u] \in {"schema", "resolve"},
         routed'[u] = routed[u]
  PROVE  Route(u)' = Route(u) /\ ThisCol(u)' = ThisCol(u)
<1>1. routed[u][ThisCol(u)] \in DOMAIN decisions /\ DOMAIN decisions = 1..Len(decisions)
  BY RouteFacts DEF CoreInv, TypeOK, StorageTypeOK
<1> QED BY <1>1 DEF LogGrows, Route, ThisCol

LEMMA StorableGlobalsNext ==
  ASSUME CoreInv, StorableGlobals, [Next]_vars
  PROVE  StorableGlobals'
<1>1. CASE UNCHANGED <<globals, globals_list>>
  BY <1>1 DEF StorableGlobals
<1>2. ASSUME NEW t \in Task, LoadGlobals(t) PROVE StorableGlobals'
  <2>1. IsIngestRow(row[t]) /\ row[t].workspace_key \in Workspace
    BY <1>2, RowFacts DEF LoadGlobals, IsIngestRow
  <2>2. UNCHANGED globals /\ globals_list'[t] = globals[row[t].workspace_key]
        /\ \A u \in Task \ {t} : globals_list'[u] = globals_list[u]
    BY <1>2 DEF CoreInv, TypeOK, LoadGlobals, store
  <2> QED BY <2>1, <2>2 DEF StorableGlobals
<1>3. ASSUME NEW g \in Registrations, RegisterGlobal(g[1], g[2], g[3]) PROVE StorableGlobals'
  <2>1. UNCHANGED globals_list
    BY <1>3 DEF RegisterGlobal, task
  <2>2. ASSUME NEW w \in Workspace, NEW n \in Name PROVE StorableOrNone(globals'[w][n])
    BY <1>3 DEF RegisterGlobal, AddGlobalColumn, StorableGlobals, StorableOrNone, CoreInv, TypeOK,
                StorageTypeOK
  <2> QED BY <2>1, <2>2 DEF StorableGlobals
<1> QED BY <1>1, <1>2, <1>3, NextGlobals

\* The type of a freshly routed column is one the tables accept.
LEMMA CanonicalTypeStorable ==
  ASSUME CoreInv, NoCallFails, StorableGlobals, NEW t \in Task, pc[t] = "schema"
  PROVE  CanonicalType(t) \in StorableType
<1>1. /\ IsIngestRow(row[t]) /\ row[t] \in Row /\ ThisCol(t) \in 1..Len(row[t].columns)
      /\ Col(t, ThisCol(t)) \in IngestValue
      /\ Route(t).canonical_name \in Name
  BY RowFacts, RouteFacts DEF DecisionRow
<1>2. SourceType(t) \in StorableType
  <2>1. row[t].columns \in Seq(IngestValue) /\ ThisCol(t) \in DOMAIN row[t].columns
    BY <1>1 DEF IsIngestRow
  <2> QED BY <1>1, <2>1 DEF NoCallFails, SourceType, Col
<1>3. CASE Route(t).decided_by = "lookup"
  BY <1>1, <1>3
     DEF CoreInv, TaskInv, FreshlyRouted, NoCallFails, CanonicalType, Match, IngestValue
<1>4. globals_list[t] # None
  BY DEF CoreInv, TaskInv, SnapshotsTaken, Loaded
<1>5. CASE Route(t).decided_by # "lookup"
  BY <1>1, <1>2, <1>4, <1>5 DEF CanonicalType, StorableGlobals, StorableOrNone
<1> QED BY <1>3, <1>5

\* What is listed or on its way stays so.
LEMMA ListedStays ==
  ASSUME CoreInv, NoCallFails, StepInv, [Next]_vars,
         NEW w \in Workspace, NEW p \in PKey, NEW n \in Name, Listed(w, p, n)
  PROVE  Listed(w, p, n)'
<1>1. CASE schema[w][p][n] # None
  <2>1. ASSUME NEW t \in Task, RecordSchema(t) PROVE schema'[w][p][n] # None
    BY <1>1, <2>1, RecordSchemaEffect
  <2> QED BY <1>1, <2>1, NextSchema DEF Listed
<1>2. ASSUME NEW u \in Task, pc[u] = "schema", row[u].workspace_key = w, row[u].pkey = p,
             Route(u).canonical_name = n
      PROVE  Listed(w, p, n)'
  <2>1. CASE RecordSchema(u)
    BY <1>2, <2>1, RecordSchemaEffect DEF Listed
  <2>2. CASE Untouched(u)
    <3>1. Route(u)' = Route(u)
      BY <1>2, <2>2, RouteStands, NextLogGrows DEF Untouched, Keeps
    <3> QED BY <1>2, <2>2, <3>1 DEF Untouched, Keeps, Listed, OnItsWay
  <2>3. ~SchemaRefused(u) /\ ~Fail(u) /\ ~Cancel(u) /\ \A r \in Row : ~Start(u, r)
    BY <1>2, CanonicalTypeStorable
       DEF StepInv, SchemaRefused, NoCallFails, Fail, Cancel, Start
  <2>4. Step(u) => RecordSchema(u)
    BY <1>2, <2>3
       DEF Step, LoadGlobals, LoadPkeySchema, CacheHit, CacheMiss, HasColumn, RouteByLookup,
           RouteByRouter, StoreValue, FlagCollision, FlagUnsafe, NormalizerRaises, WriteSignal,
           ColumnsDone
  <2>5. ASSUME NEW t \in Task, Step(t) \/ Fail(t) \/ Cancel(t) \/ \E r \in Row : Start(t, r)
        PROVE  t = u \/ Untouched(u)
    BY <2>5, OthersUntouched
  <2>6. UNCHANGED task => Untouched(u)
    BY DEF task, Untouched, Keeps
  <2> QED BY <2>1, <2>2, <2>3, <2>4, <2>5, <2>6 DEF Next, RegisterGlobal, Terminated, vars
<1> QED BY <1>1, <1>2 DEF Listed, OnItsWay

\* Every log row stays listed.
LEMMA LogRowStaysListed ==
  ASSUME CoreInv, NoCallFails, StepInv, [Next]_vars, NEW i \in DOMAIN decisions,
         NEW d, d = decisions[i]
  PROVE  Listed(d.workspace_key, d.pkey, d.canonical_name)'
<1>1. d \in DecisionRow
  BY DEF CoreInv, TypeOK, StorageTypeOK
<1>2. d.workspace_key \in Workspace /\ d.pkey \in PKey /\ d.canonical_name \in Name
  BY <1>1 DEF DecisionRow
<1>3. Listed(d.workspace_key, d.pkey, d.canonical_name)
  BY DEF StepInv, LogListed
<1> QED BY <1>2, <1>3, ListedStays

LEMMA LogListedNext ==
  ASSUME CoreInv, NoCallFails, StepInv, [Next]_vars
  PROVE  LogListed'
<1>1. SUFFICES ASSUME NEW i \in DOMAIN decisions', NEW d, d = decisions'[i]
               PROVE  Listed(d.workspace_key, d.pkey, d.canonical_name)'
  BY DEF LogListed, Listed, OnItsWay
<1>2. decisions \in Seq(DecisionRow) /\ DOMAIN decisions = 1..Len(decisions) /\ Len(decisions) \in Nat
  BY DEF CoreInv, TypeOK, StorageTypeOK
<1>3. CASE i \in DOMAIN decisions /\ decisions'[i] = decisions[i]
  BY <1>1, <1>3, LogRowStaysListed
<1>4. ASSUME NEW e \in DecisionRow, decisions' = Append(decisions, e),
             Listed(e.workspace_key, e.pkey, e.canonical_name)'
      PROVE  Listed(d.workspace_key, d.pkey, d.canonical_name)'
  <2>1. /\ DOMAIN decisions' = 1..(Len(decisions) + 1) /\ decisions'[Len(decisions) + 1] = e
        /\ \A k \in 1..Len(decisions) : decisions'[k] = decisions[k]
    BY <1>2, <1>4, AppendFacts
  <2>2. d = e \/ (i \in DOMAIN decisions /\ decisions'[i] = decisions[i])
    BY <1>1, <1>2, <2>1
  <2>3. CASE d = e
    BY <1>4, <2>3
  <2> QED BY <1>3, <2>2, <2>3
<1>5. ASSUME NEW t \in Task, RouteByLookup(t) \/ RouteByRouter(t)
      PROVE  Listed(d.workspace_key, d.pkey, d.canonical_name)'
  <2>1. PICK e \in DecisionRow : e = Route(t)'
    BY <1>5, RoutedNow
  <2>2. /\ decisions' = Append(decisions, e) /\ UNCHANGED row /\ pc'[t] = "schema"
        /\ e.workspace_key = row[t].workspace_key /\ e.pkey = row[t].pkey
    BY <1>5, <2>1, RoutedNow DEF StepInv, NoneCancelled
  <2>3. Listed(e.workspace_key, e.pkey, e.canonical_name)'
    BY <2>1, <2>2 DEF Listed, OnItsWay
  <2> QED BY <1>4, <2>2, <2>3
<1>6. ASSUME NEW t \in Task, FlagCollision(t) \/ FlagUnsafe(t)
      PROVE  Listed(d.workspace_key, d.pkey, d.canonical_name)'
  <2>1. PICK by \in Flaggers : Flag(t, by) /\ pc[t] = "resolve"
    BY <1>6 DEF FlagCollision, FlagUnsafe, Flaggers
  <2>2. PICK at \in Time :
          /\ DecisionOf(t, ThisCol(t), Route(t), TRUE, by, at) \in DecisionRow
          /\ InsertDecision(DecisionOf(t, ThisCol(t), Route(t), TRUE, by, at))
    BY <2>1, FlagFacts
  <2>3. PICK e \in DecisionRow : e = DecisionOf(t, ThisCol(t), Route(t), TRUE, by, at)
    BY <2>2
  <2>4. PICK j \in DOMAIN decisions : Route(t) = decisions[j]
    BY <2>1, RouteFacts DEF Route
  <2>5. Quad(Route(t)) = QuadOf(t, ThisCol(t))
    BY <2>1, RouteFacts
  <2>6. /\ e.workspace_key = decisions[j].workspace_key /\ e.pkey = decisions[j].pkey
        /\ e.canonical_name = decisions[j].canonical_name
    BY <2>3, <2>4, <2>5 DEF DecisionOf, Quad, QuadOf
  <2>7. PICK c : c = decisions[j]
    OBVIOUS
  <2>8. Listed(c.workspace_key, c.pkey, c.canonical_name)'
    BY <2>7, LogRowStaysListed
  <2>9. Listed(e.workspace_key, e.pkey, e.canonical_name)'
    BY <2>6, <2>7, <2>8
  <2> QED BY <1>4, <2>2, <2>3, <2>9 DEF InsertDecision
<1>7. CASE UNCHANGED decisions
  BY <1>1, <1>3, <1>7
<1>8. ASSUME NEW t \in Task, Step(t)
      PROVE  UNCHANGED decisions \/ RouteByLookup(t) \/ RouteByRouter(t)
               \/ FlagCollision(t) \/ FlagUnsafe(t)
  BY <1>8
     DEF Step, LoadGlobals, LoadPkeySchema, CacheHit, CacheMiss, RecordSchema, SchemaRefused,
         StoreValue, NormalizerRaises, WriteSignal, UpsertSignal, UpdateSignal, InsertSignal,
         UpsertSchemaRow, store
<1>9. UNCHANGED decisions \/ \E t \in Task : Step(t)
  BY DEF Next, Start, Fail, Cancel, RegisterGlobal, AddGlobalColumn, Terminated, vars, store
<1> QED BY <1>5, <1>6, <1>7, <1>8, <1>9

\* Where no call fails, overlapping calls leave the inventory behind the stored
\* rows by no more than writes that are on their way.
THEOREM InventoryStaysInStep == NoCallFails => (Spec => []InventoryInStep)
<1> SUFFICES ASSUME NoCallFails PROVE Spec => []InventoryInStep
  OBVIOUS
<1>1. Init => StepInv /\ AuditInv
  BY StepInit, AuditInit
<1>2. CoreInv /\ StepInv /\ [Next]_vars => StepInv'
  BY NoneCancelledNext, StorableGlobalsNext, LogListedNext DEF StepInv, NoCallFails
<1>3. CoreInv /\ AuditInv /\ [Next]_vars => AuditInv'
  BY CellsNext, ValuesNext DEF AuditInv
<1>4. StepInv /\ AuditInv => InventoryInStep
  <2>1. SUFFICES ASSUME StepInv, AuditInv, NEW t \in Task, NEW n \in Name,
                        canonical_columns[t][n] # None
                 PROVE  Listed(row[t].workspace_key, row[t].pkey, n)
    BY DEF InventoryInStep, Listed
  <2>2. PICK i \in DOMAIN decisions :
          /\ decisions[i].workspace_key = row[t].workspace_key
          /\ decisions[i].pkey = row[t].pkey /\ decisions[i].canonical_name = n
    BY <2>1 DEF AuditInv, CellsAudited, Audited
  <2> QED BY <2>1, <2>2 DEF StepInv, LogListed
<1> QED BY <1>1, <1>2, <1>3, <1>4, CoreCorrect, PTL DEF Spec

-----------------------------------------------------------------------------
(* Globals.  Every type a value gets comes from a snapshot.  Each snapshot  *)
(* row either has the type of the registry, which does not change once it   *)
(* is set, or was put in the inventory by a routing that disowned the       *)
(* global, which stays in the log.                                          *)

\* ty is what the registry reg says of n in w, or n never gets registered there.
Settled(reg, w, n, ty) ==
  \/ reg[w][n] # None /\ reg[w][n] = ty
  \/ reg[w][n] = None /\ Registrations = {}

DisownedIn(log, w, p, n) ==
  \E i \in DOMAIN log :
    /\ log[i].decided_by \in Routers /\ ~log[i].is_global_target
    /\ log[i].workspace_key = w /\ log[i].pkey = p /\ log[i].canonical_name = n

Explained(reg, log, w, p, n, ty) == Settled(reg, w, n, ty) \/ DisownedIn(log, w, p, n)

InventoryGoverned ==
  \A w \in Workspace, p \in PKey, n \in Name :
    schema[w][p][n] # None /\ schema[w][p][n].is_global =>
      Settled(globals, w, n, schema[w][p][n].data_type)

\* What a snapshot of the globals says of n still holds, but for names that
\* were registered since.
GlobalsStand(t) ==
  \A n \in Name :
    IF globals_list[t][n] # None
      THEN globals[row[t].workspace_key][n] = globals_list[t][n]
      ELSE Registrations = {} => globals[row[t].workspace_key][n] = None

SchemaExplained(t) ==
  \A n \in Name : existing_schema[t][n] # None =>
    Explained(globals, decisions, row[t].workspace_key, row[t].pkey, n,
              existing_schema[t][n].data_type)

SnapshotsGoverned(t) ==
  /\ pc[t] = "idle" => globals_list[t] = None /\ existing_schema[t] = None
  /\ globals_list[t] # None => GlobalsStand(t)
  /\ existing_schema[t] # None => SchemaExplained(t)

\* A fresh routing claims a global only if the router did, by its rules.
ClaimsHold(t) ==
  pc[t] = "schema" /\ Route(t).is_global_target =>
    /\ Route(t).decided_by # "lookup"
    /\ globals_list[t][Route(t).canonical_name] # None \/ Registrations = {}

CellsGoverned(t) ==
  \A n \in Name : canonical_columns[t][n] # None =>
    /\ pc[t] \notin {"idle", "load"}
    /\ \/ Explained(globals, decisions, row[t].workspace_key, row[t].pkey, n,
                    canonical_columns[t][n].data_type)
       \/ KnewNothingOf(t, n)

TaskGoverned(t) == SnapshotsGoverned(t) /\ ClaimsHold(t) /\ CellsGoverned(t)

GovernInv == InventoryGoverned /\ \A t \in Task : TaskGoverned(t)

LEMMA GovernInit == Init => GovernInv
BY DEF Init, GovernInv, InventoryGoverned, TaskGoverned, SnapshotsGoverned, ClaimsHold,
       CellsGoverned, NoColumns

\* A registered global keeps its type; where nothing is registered late the
\* registry stays as it was; and the log only grows.  So what is settled or
\* explained stays so.
LEMMA GlobalsStay ==
  ASSUME CoreInv, [Next]_vars
  PROVE  /\ \A w \in Workspace, n \in Name :
              globals[w][n] # None => globals'[w][n] = globals[w][n]
         /\ Registrations = {} => UNCHANGED globals
<1>1. CASE UNCHANGED globals
  BY <1>1
<1>2. ASSUME NEW g \in Registrations, RegisterGlobal(g[1], g[2], g[3])
      PROVE  \A w \in Workspace, n \in Name :
               globals[w][n] # None => globals'[w][n] = globals[w][n]
  BY <1>2 DEF RegisterGlobal, AddGlobalColumn, CoreInv, TypeOK, StorageTypeOK
<1>3. UNCHANGED globals \/ \E g \in Registrations : RegisterGlobal(g[1], g[2], g[3])
  BY NextGlobals DEF LoadGlobals, store
<1> QED BY <1>1, <1>2, <1>3

LEMMA SettledStays ==
  ASSUME CoreInv, [Next]_vars, NEW w \in Workspace, NEW n \in Name, NEW ty,
         Settled(globals, w, n, ty)
  PROVE  Settled(globals', w, n, ty)
BY GlobalsStay DEF Settled

LEMMA ExplainedStays ==
  ASSUME CoreInv, [Next]_vars, NEW w \in Workspace, NEW p, NEW n \in Name, NEW ty,
         Explained(globals, decisions, w, p, n, ty)
  PROVE  Explained(globals', decisions', w, p, n, ty)
<1>1. CASE Settled(globals, w, n, ty)
  BY <1>1, SettledStays DEF Explained
<1>2. CASE DisownedIn(decisions, w, p, n)
  <2>1. /\ LogGrows /\ decisions \in Seq(DecisionRow)
        /\ Len(decisions) \in Nat /\ Len(decisions') \in Nat
        /\ DOMAIN decisions = 1..Len(decisions) /\ DOMAIN decisions' = 1..Len(decisions')
    BY NextLogGrows DEF CoreInv, TypeOK, StorageTypeOK, LogGrows
  <2>2. \A i \in DOMAIN decisions : i \in DOMAIN decisions' /\ decisions'[i] = decisions[i]
    BY <2>1 DEF LogGrows
  <2> QED BY <1>2, <2>2 DEF DisownedIn, Explained
<1> QED BY <1>1, <1>2 DEF Explained

\* The type recorded behind a fresh routing that claims a global is settled.
LEMMA CanonicalTypeSettled ==
  ASSUME CoreInv, GovernInv, NEW t \in Task, pc[t] = "schema", Route(t).is_global_target
  PROVE  Settled(globals, row[t].workspace_key, Route(t).canonical_name, CanonicalType(t))
<1>1. Route(t).canonical_name \in Name
  BY RouteFacts DEF DecisionRow
<1>2. /\ GlobalsStand(t) /\ Route(t).decided_by # "lookup"
      /\ globals_list[t][Route(t).canonical_name] # None \/ Registrations = {}
  BY DEF CoreInv, TaskInv, SnapshotsTaken, Loaded, GovernInv, TaskGoverned, SnapshotsGoverned,
         ClaimsHold
<1> QED BY <1>1, <1>2 DEF CanonicalType, GlobalsStand, Settled

\* The type a value is normalized to is explained, if anything was known of the
\* name when the call began.
LEMMA TargetTypeExplained ==
  ASSUME CoreInv, GovernInv, NEW t \in Task, pc[t] = "resolve"
  PROVE  \/ Explained(globals, decisions, row[t].workspace_key, row[t].pkey,
                      Route(t).canonical_name, TargetType(t))
         \/ KnewNothingOf(t, Route(t).canonical_name)
<1>1. Route(t).canonical_name \in Name
  BY TargetFacts
<1>2. GlobalsStand(t) /\ SchemaExplained(t)
  BY DEF CoreInv, TaskInv, SnapshotsTaken, Loaded, GovernInv, TaskGoverned, SnapshotsGoverned
<1> QED BY <1>1, <1>2
        DEF TargetType, GlobalsStand, SchemaExplained, Explained, Settled, KnewNothingOf

LEMMA InventoryGovernedNext ==
  ASSUME CoreInv, GovernInv, [Next]_vars
  PROVE  InventoryGoverned'
<1>1. SUFFICES ASSUME NEW w \in Workspace, NEW p \in PKey, NEW n \in Name,
                      schema'[w][p][n] # None, schema'[w][p][n].is_global
               PROVE  Settled(globals', w, n, schema'[w][p][n].data_type)
  BY DEF InventoryGoverned, Settled
<1>2. CASE schema'[w][p][n] = schema[w][p][n]
  <2>1. Settled(globals, w, n, schema[w][p][n].data_type)
    BY <1>1, <1>2 DEF GovernInv, InventoryGoverned
  <2> QED BY <1>2, <2>1, SettledStays
<1>3. ASSUME NEW t \in Task, RecordSchema(t), schema'[w][p][n] # schema[w][p][n]
      PROVE  Settled(globals', w, n, schema'[w][p][n].data_type)
  <2>1. /\ w = row[t].workspace_key /\ n = Route(t).canonical_name
        /\ schema'[w][p][n].data_type = CanonicalType(t)
        /\ schema'[w][p][n].is_global = Route(t).is_global_target
    BY <1>3, RecordSchemaEffect
  <2>2. pc[t] = "schema"
    BY <1>3 DEF RecordSchema
  <2>3. Settled(globals, w, n, CanonicalType(t))
    BY <1>1, <2>1, <2>2, CanonicalTypeSettled
  <2> QED BY <2>1, <2>3, SettledStays
<1> QED BY <1>2, <1>3, NextSchema

\* A task whose row, snapshots and cells a step leaves alone has governed
\* snapshots and cells afterwards.
LEMMA StaysGoverned ==
  ASSUME CoreInv, GovernInv, [Next]_vars, NEW t \in Task,
         pc'[t] \notin {"idle", "load"} \/ pc'[t] = pc[t],
         row'[t] = row[t], globals_list'[t] = globals_list[t],
         existing_schema'[t] = existing_schema[t]
  PROVE  /\ SnapshotsGoverned(t)'
         /\ canonical_columns'[t] = canonical_columns[t] => CellsGoverned(t)'
<1>1. pc[t] # "idle" => row[t].workspace_key \in Workspace
  BY RowFacts DEF IsIngestRow
<1>2. SnapshotsGoverned(t) /\ CellsGoverned(t)
  BY DEF GovernInv, TaskGoverned
<1>3. globals_list[t] # None => GlobalsStand(t)'
  BY <1>1, <1>2, GlobalsStay DEF SnapshotsGoverned, GlobalsStand
<1>4. existing_schema[t] # None => SchemaExplained(t)'
  BY <1>1, <1>2, ExplainedStays DEF SnapshotsGoverned, SchemaExplained
<1>5. canonical_columns'[t] = canonical_columns[t] => CellsGoverned(t)'
  BY <1>1, <1>2, ExplainedStays DEF CellsGoverned, KnewNothingOf
<1>6. pc'[t] = "idle" => globals_list'[t] = None /\ existing_schema'[t] = None
  BY <1>2 DEF SnapshotsGoverned
<1> QED BY <1>3, <1>4, <1>5, <1>6 DEF SnapshotsGoverned

\* A claim stands while its task records it; a task that does not arrive at
\* "schema" owes none.
LEMMA ClaimStays ==
  ASSUME CoreInv, GovernInv, LogGrows, NEW t \in Task,
         pc'[t] = "schema" => pc[t] = "schema" /\ routed'[t] = routed[t],
         globals_list'[t] = globals_list[t]
  PROVE  ClaimsHold(t)'
<1>1. pc'[t] = "schema" => pc[t] = "schema" /\ Route(t)' = Route(t)
  BY RouteStands
<1> QED BY <1>1 DEF GovernInv, TaskGoverned, ClaimsHold

LEMMA LoadGoverned ==
  ASSUME CoreInv, GovernInv, InventoryJustified, NEW t \in Task,
         LoadGlobals(t) \/ LoadPkeySchema(t)
  PROVE  TaskGoverned(t)'
<1>1. row[t].workspace_key \in Workspace /\ row[t].pkey \in PKey
  BY RowFacts DEF LoadGlobals, LoadPkeySchema, IsIngestRow
<1>2. /\ UNCHANGED <<row, canonical_columns, schema, globals, decisions>>
      /\ pc[t] = "load" /\ pc'[t] \in {"load", "column"}
  BY DEF CoreInv, TypeOK, LoadGlobals, LoadPkeySchema, store
<1>3. \/ /\ globals_list'[t] = globals[row[t].workspace_key]
         /\ existing_schema'[t] = existing_schema[t]
      \/ /\ existing_schema'[t] = schema[row[t].workspace_key][row[t].pkey]
         /\ globals_list'[t] = globals_list[t]
  BY DEF CoreInv, TypeOK, LoadGlobals, LoadPkeySchema
<1>4. ASSUME NEW n \in Name, schema[row[t].workspace_key][row[t].pkey][n] # None
      PROVE  Explained(globals, decisions, row[t].workspace_key, row[t].pkey, n,
                       schema[row[t].workspace_key][row[t].pkey][n].data_type)
  <2> DEFINE r == schema[row[t].workspace_key][row[t].pkey][n]
  <2>1. CASE r.is_global
    BY <1>1, <1>4, <2>1 DEF GovernInv, InventoryGoverned, Explained
  <2>2. CASE ~r.is_global
    BY <1>1, <1>4, <2>2 DEF InventoryJustified, Explained, DisownedIn
  <2> QED BY <2>1, <2>2
<1>5. SnapshotsGoverned(t)'
  BY <1>1, <1>2, <1>3, <1>4
     DEF GovernInv, TaskGoverned, SnapshotsGoverned, GlobalsStand, SchemaExplained
<1>6. ClaimsHold(t)' /\ CellsGoverned(t)'
  BY <1>2 DEF GovernInv, TaskGoverned, ClaimsHold, CellsGoverned
<1> QED BY <1>5, <1>6 DEF TaskGoverned

LEMMA RouteGoverned ==
  ASSUME GlobalClaimsHold, CoreInv, GovernInv, [Next]_vars, NEW t \in Task,
         RouteByLookup(t) \/ RouteByRouter(t)
  PROVE  TaskGoverned(t)'
<1>1. /\ pc[t] = "route" /\ UNCHANGED <<row, globals_list, existing_schema, canonical_columns>>
      /\ pc'[t] \in {"schema", "failed"}
  BY RoutedNow DEF RouteByLookup, RouteByRouter, RecordRoute
<1>2. SnapshotsGoverned(t)' /\ CellsGoverned(t)'
  BY <1>1, StaysGoverned
<1>3. PICK v \in RoutingVerdict :
        /\ ChosenBy(t, v, Route(t)'.decided_by)
        /\ Route(t)'.canonical_name = v.canonical_name
        /\ Route(t)'.is_global_target = v.is_global_target
  BY RoutedNow
<1>4. v.is_global_target =>
        /\ Route(t)'.decided_by # "lookup"
        /\ globals_list[t][v.canonical_name] # None \/ Registrations = {}
  BY <1>3 DEF ChosenBy, RouterAnswers, KeepsRules, GlobalClaimsHold
<1>5. ClaimsHold(t)'
  BY <1>1, <1>3, <1>4 DEF ClaimsHold
<1> QED BY <1>2, <1>5 DEF TaskGoverned

LEMMA PlaceGoverned ==
  ASSUME CoreInv, GovernInv, [Next]_vars, NEW t \in Task, StoreValue(t) \/ FlagCollision(t)
  PROVE  TaskGoverned(t)'
<1>1. /\ pc[t] = "resolve" /\ UNCHANGED <<row, globals_list, existing_schema>> /\ PlaceValue(t)
  BY DEF StoreValue, FlagCollision
<1>2. pc'[t] \in {"column", "failed"}
  BY DEF CoreInv, TypeOK, StoreValue, FlagCollision, Flag, Resume
<1>3. SnapshotsGoverned(t)' /\ ClaimsHold(t)'
  BY <1>1, <1>2, StaysGoverned DEF ClaimsHold
<1>4. CellsGoverned(t)'
  <2>1. /\ row[t].workspace_key \in Workspace
        /\ \/ Explained(globals, decisions, row[t].workspace_key, row[t].pkey,
                        Route(t).canonical_name, TargetType(t))
           \/ KnewNothingOf(t, Route(t).canonical_name)
    BY <1>1, TargetTypeExplained, RowFacts DEF IsIngestRow
  <2>2. SUFFICES ASSUME NEW n \in Name, canonical_columns'[t][n] # None
                 PROVE  \/ Explained(globals', decisions', row[t].workspace_key, row[t].pkey, n,
                                     canonical_columns'[t][n].data_type)
                        \/ KnewNothingOf(t, n)
    BY <1>1, <1>2 DEF CellsGoverned, KnewNothingOf
  <2>3. \/ canonical_columns'[t][n] = canonical_columns[t][n]
        \/ n = Route(t).canonical_name /\ canonical_columns'[t][n].data_type = TargetType(t)
    BY <1>1 DEF CoreInv, TypeOK, PlaceValue
  <2>4. \/ Explained(globals, decisions, row[t].workspace_key, row[t].pkey, n,
                     canonical_columns'[t][n].data_type)
        \/ KnewNothingOf(t, n)
    BY <2>1, <2>2, <2>3 DEF GovernInv, TaskGoverned, CellsGoverned
  <2> QED BY <2>1, <2>4, ExplainedStays
<1> QED BY <1>3, <1>4 DEF TaskGoverned

LEMMA TaskGovernedNext ==
  ASSUME GlobalClaimsHold, CoreInv, GovernInv, InventoryJustified, [Next]_vars, NEW t \in Task
  PROVE  TaskGoverned(t)'
<1>1. LogGrows
  BY NextLogGrows
<1>2. CASE Untouched(t)
  BY <1>1, <1>2, StaysGoverned, ClaimStays DEF Untouched, Keeps, TaskGoverned
<1>3. ASSUME NEW r \in Row, Start(t, r) PROVE TaskGoverned(t)'
  <2>1. /\ pc[t] = "idle" /\ pc'[t] = "load"
        /\ UNCHANGED <<globals_list, existing_schema, canonical_columns>>
    BY <1>3 DEF CoreInv, TypeOK, Start
  <2> QED BY <2>1 DEF GovernInv, TaskGoverned, SnapshotsGoverned, ClaimsHold, CellsGoverned
<1>4. ASSUME \/ CacheHit(t) \/ CacheMiss(t) \/ RecordSchema(t) \/ SchemaRefused(t)
             \/ FlagUnsafe(t) \/ NormalizerRaises(t) \/ WriteSignal(t) \/ Fail(t) \/ Cancel(t)
      PROVE  TaskGoverned(t)'
  <2>1. /\ UNCHANGED <<row, globals_list, existing_schema, canonical_columns>>
        /\ (pc'[t] \notin {"idle", "load", "schema"}) \/ (pc'[t] = pc[t] /\ routed'[t] = routed[t])
    BY <1>4 DEF CoreInv, TypeOK, CacheHit, CacheMiss, RecordSchema, SchemaRefused, FlagUnsafe,
                Flag, NormalizerRaises, WriteSignal, Fail, Cancel, Resume
  <2> QED BY <1>1, <2>1, StaysGoverned, ClaimStays DEF TaskGoverned
<1>5. ASSUME NEW u \in Task, Step(u) \/ Fail(u) \/ Cancel(u) \/ \E r \in Row : Start(u, r)
      PROVE  TaskGoverned(t)'
  <2>1. CASE u # t
    BY <1>2, <1>5, <2>1, OthersUntouched
  <2>2. CASE u = t
    BY <1>3, <1>4, <1>5, <2>2, LoadGoverned, RouteGoverned, PlaceGoverned DEF Step
  <2> QED BY <2>1, <2>2
<1>6. UNCHANGED task => Untouched(t)
  BY DEF task, Untouched, Keeps
<1> QED BY <1>2, <1>5, <1>6 DEF Next, RegisterGlobal, Terminated, vars

\* The type of a registered global governs, although calls work on snapshots,
\* globals are registered while they run and inventory rows are written by
\* whoever comes last.  Of the router it asks only that it does not claim a
\* global it was not shown, and not even that if the registry is complete first;
\* of the lookup, nothing.
THEOREM RegisteredGlobalsGovern == GlobalClaimsHold => (Spec => []GlobalsGovern)
<1> SUFFICES ASSUME GlobalClaimsHold PROVE Spec => []GlobalsGovern
  OBVIOUS
<1>1. Init => GovernInv
  BY GovernInit
<1>2. CoreInv /\ InventoryJustified /\ GovernInv /\ [Next]_vars => GovernInv'
  BY InventoryGovernedNext, TaskGovernedNext DEF GovernInv
<1>3. CoreInv /\ GovernInv => GlobalsGovern
  <2>1. SUFFICES ASSUME CoreInv, GovernInv, NEW w \in Workspace, NEW n \in Name,
                        globals[w][n] # None
                 PROVE  /\ \A p \in PKey : schema[w][p][n] # None /\ schema[w][p][n].is_global =>
                             schema[w][p][n].data_type = globals[w][n]
                        /\ \A t \in Task :
                             /\ row[t] # None /\ row[t].workspace_key = w
                             /\ canonical_columns[t][n] # None
                             /\ canonical_columns[t][n].data_type # globals[w][n]
                             => KnewNothingOf(t, n) \/ Disowned(w, row[t].pkey, n)
    BY DEF GlobalsGovern
  <2>2. \A ty : Settled(globals, w, n, ty) => ty = globals[w][n]
    BY <2>1 DEF Settled
  <2> QED BY <2>1, <2>2
          DEF GovernInv, InventoryGoverned, TaskGoverned, CellsGoverned, Explained, DisownedIn,
              Disowned
<1> QED BY <1>1, <1>2, <1>3, CoreCorrect, InventoryIsJustified, PTL DEF Spec
=============================================================================
