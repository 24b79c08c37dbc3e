---------------------------- MODULE MemoryStore ----------------------------
(***************************************************************************)
(* MemoryStorage (storage_memory.py): four lists behind one lock, so each  *)
(* method is one step.  The reading methods, and get_merged_record of the  *)
(* engine on top of them, are operators over the lists.                    *)
(***************************************************************************)
EXTENDS Tables, IsoTime, SequencesExt

CONSTANTS
  Attempt,     \* calls of writing methods
  CallOf(_),   \* the method and its row
  MaxCalls     \* bound: how many of the attempts are made

ASSUME MemoryAssumption ==
  /\ \A a \in Attempt : CallOf(a) \in StoreCall
  /\ StorableType = DataType      \* lists take every type
  /\ MaxCalls \in Nat

VARIABLES
  globals, schema, decisions, signals,   \* _globals, _schema, _decisions, _signals
  log                                    \* history: the attempts, in order

lists == <<globals, schema, decisions, signals>>
vars == <<lists, log>>

Init ==
  /\ globals = <<>> /\ schema = <<>> /\ decisions = <<>> /\ signals = <<>>
  /\ log = <<>>

-----------------------------------------------------------------------------
(* The writing methods. *)

InsertDecision(r) ==
  /\ decisions' = Append(decisions, r)
  /\ UNCHANGED <<globals, schema, signals>>

\* The first row of the list with the key of r, or 0.
SchemaIndex(r) ==
  SelectInSeq(schema, LAMBDA s :
    /\ s.workspace_key = r.workspace_key
    /\ s.pkey = r.pkey
    /\ s.canonical_name = r.canonical_name)

UpsertSchemaRow(r) ==
  /\ LET i == SchemaIndex(r)
     IN  schema' = IF i # 0
           THEN [schema EXCEPT ![i].data_type = r.data_type, ![i].is_global = r.is_global]
           ELSE Append(schema, r)
  /\ UNCHANGED <<globals, decisions, signals>>

SignalIndex(r) ==
  SelectInSeq(signals, LAMBDA s :
    /\ r.external_id # None
    /\ s.source = r.source
    /\ s.external_id = r.external_id)

\* Mutant: a row delivered again replaces everything, its workspace included.
UpsertWholeSignal(r) ==
  /\ LET i == SignalIndex(r)
     IN  signals' = IF i # 0 THEN [signals EXCEPT ![i] = r] ELSE Append(signals, r)
  /\ UNCHANGED <<globals, schema, decisions>>

UpsertSignal(r) ==
  /\ LET i == SignalIndex(r)
     IN  signals' = IF i # 0
           THEN [signals EXCEPT ![i].pkey = r.pkey, ![i].occurred_at = r.occurred_at,
                                ![i].columns = r.columns]
           ELSE Append(signals, r)
  /\ UNCHANGED <<globals, schema, decisions>>

AddGlobalColumn(r) ==
  /\ globals' =
       IF \E i \in DOMAIN globals :
            globals[i].workspace_key = r.workspace_key /\ globals[i].name = r.name
         THEN globals
         ELSE Append(globals, r)
  /\ UNCHANGED <<schema, decisions, signals>>

Call(a) ==
  LET c == CallOf(a)
  IN  /\ Len(log) < MaxCalls
      /\ ~Contains(log, a)
      /\ \/ c.method = "insert_decision" /\ InsertDecision(c.row)
         \/ c.method = "upsert_schema_row" /\ UpsertSchemaRow(c.row)
         \/ c.method = "upsert_signal" /\ UpsertSignal(c.row)
         \/ c.method = "add_global_column" /\ AddGlobalColumn(c.row)
      /\ log' = Append(log, a)

Finished == Len(log) = MaxCalls /\ UNCHANGED vars

Next == (\E a \in Attempt : Call(a)) \/ Finished

Spec == Init /\ [][Next]_vars

-----------------------------------------------------------------------------
(* The reading methods.  A comprehension over a list is the set of places   *)
(* it takes rows from; key[i] is what the row at place i is ordered by.      *)

\* sorted(): equal keys keep their order, in reverse too.
Before(key, reverse, i, j) ==
  \/ IF reverse THEN key[i] > key[j] ELSE key[i] < key[j]
  \/ key[i] = key[j] /\ i < j

Sorted(key, reverse) ==
  [k \in 1..Cardinality(DOMAIN key) |->
    CHOOSE i \in DOMAIN key :
      Cardinality({j \in DOMAIN key : Before(key, reverse, j, i)}) = k - 1]

\* max(): the first of the greatest.
FirstMax(key) == Min({i \in DOMAIN key : \A j \in DOMAIN key : key[j] <= key[i]})

Rows(list, places) == [k \in DOMAIN places |-> list[places[k]]]

OfColumn(q) == {i \in DOMAIN decisions : Quad(decisions[i]) = q}

\* Mutant: the row inserted last is taken for the latest.
LastDecisionForColumn(q) == IF OfColumn(q) = {} THEN None ELSE decisions[Max(OfColumn(q))]

LatestDecisionForColumn(q) ==
  IF OfColumn(q) = {} THEN None
  ELSE decisions[FirstMax([i \in OfColumn(q) |-> decisions[i].decided_at])]

OfCanonical(w, p, n) ==
  {i \in DOMAIN decisions :
     /\ decisions[i].workspace_key = w
     /\ decisions[i].pkey = p
     /\ decisions[i].canonical_name = n}

GetDecisionHistory(w, p, n) ==
  Rows(decisions, Sorted([i \in OfCanonical(w, p, n) |-> decisions[i].decided_at], TRUE))

OfRecord(w, p) == {i \in DOMAIN signals : signals[i].workspace_key = w /\ signals[i].pkey = p}

\* Mutant: likewise.
LastZipperedRow(w, p) == IF OfRecord(w, p) = {} THEN None ELSE signals[Max(OfRecord(w, p))]

GetZipperedRow(w, p) ==
  IF OfRecord(w, p) = {} THEN None
  ELSE signals[FirstMax([i \in OfRecord(w, p) |-> signals[i].occurred_at])]

Since(w, p, since) == {i \in OfRecord(w, p) : signals[i].occurred_at >= since}

\* Mutant: rows are appended in time order, so the list is only turned around.
TimelineReversed(w, p, since) == Rows(signals, Reverse(SetToSortSeq(Since(w, p, since), <)))

GetZipperedTimeline(w, p, since) ==
  Rows(signals, Sorted([i \in Since(w, p, since) |-> signals[i].occurred_at], TRUE))

Update(record, r) ==
  [n \in Name |-> IF r.columns[n] = None THEN record[n] ELSE r.columns[n]]

Merged(rows) ==
  LET merged[k \in 0..Len(rows)] ==
        IF k = 0 THEN [n \in Name |-> None] ELSE Update(merged[k - 1], rows[k])
  IN  merged[Len(rows)]

\* Mutant: the timeline is merged as it comes, newest first.
MergedNewestFirst(w, p) == Merged(GetZipperedTimeline(w, p, 0))

\* The empty string of the code is before every time.
GetMergedRecord(w, p) ==
  LET rows == GetZipperedTimeline(w, p, 0)
  IN  Merged(Rows(rows, Sorted([k \in DOMAIN rows |-> rows[k].occurred_at], FALSE)))
=============================================================================
