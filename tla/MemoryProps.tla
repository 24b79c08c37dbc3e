---------------------------- MODULE MemoryProps ----------------------------
(***************************************************************************)
(* What MemoryStorage, and the reads of the engine over it, should         *)
(* guarantee.                                                              *)
(***************************************************************************)
EXTENDS MemoryStore

\* The lists as the tables of the contract.
GlobalTable ==
  [w \in Workspace |-> [n \in Name |->
    LET i == SelectInSeq(globals, LAMBDA g : g.workspace_key = w /\ g.name = n)
    IN  IF i = 0 THEN None ELSE globals[i].data_type]]

SchemaTable ==
  [w \in Workspace |-> [p \in PKey |-> [n \in Name |->
    LET i == SchemaIndex([workspace_key |-> w, pkey |-> p, canonical_name |-> n])
    IN  IF i = 0 THEN None
        ELSE [data_type |-> schema[i].data_type, is_global |-> schema[i].is_global]]]]

Promise == INSTANCE Contract
             WITH globals <- GlobalTable, schema <- SchemaTable, applied <- ToSet(log)

\* The lists change as the contract says, call by call.
ImplementsContract == Promise!Spec

\* The cached decision of a column is the one the audit view shows first: no row
\* of its column is more recent, and of several equally recent ones the reads
\* agree which comes first.
CacheIsHeadOfHistory ==
  \A i \in DOMAIN decisions :
    LET d == decisions[i]
        cached == LatestDecisionForColumn(Quad(d))
        history == GetDecisionHistory(d.workspace_key, d.pkey, cached.canonical_name)
    IN  /\ d.decided_at <= cached.decided_at
        /\ \E k \in DOMAIN history :
             /\ history[k] = cached
             /\ \A j \in 1..(k - 1) : Quad(history[j]) # Quad(d)

-----------------------------------------------------------------------------
(* The record, told from the deliveries alone.                             *)

RowAt(k) == CallOf(log[k]).row

Deliveries == {k \in DOMAIN log : CallOf(log[k]).method = "upsert_signal"}

SameExternalRow(j, k) ==
  \/ j = k
  \/ /\ RowAt(k).external_id # None
     /\ RowAt(j).source = RowAt(k).source
     /\ RowAt(j).external_id = RowAt(k).external_id

FirstDelivery(k) ==
  CHOOSE j \in Deliveries :
    SameExternalRow(j, k) /\ \A i \in Deliveries : SameExternalRow(i, k) => j <= i

\* The last deliveries of the rows that belong to a record: a row stays in the
\* workspace of its first delivery and goes to the pkey of its last.
Current(w, p) ==
  {k \in Deliveries :
     /\ \A j \in Deliveries : SameExternalRow(j, k) => j <= k
     /\ RowAt(FirstDelivery(k)).workspace_key = w
     /\ RowAt(k).pkey = p}

NewerThan(k, j) ==
  \/ RowAt(k).occurred_at > RowAt(j).occurred_at
  \/ /\ RowAt(k).occurred_at = RowAt(j).occurred_at
     /\ FirstDelivery(k) >= FirstDelivery(j)

\* Newest wins, per column: each value of the merged record is that of the
\* newest row carrying the column, in the version delivered last; versions that
\* were replaced, and rows that moved to another record, leave no trace; of rows
\* of one time the one first delivered last wins.
MergedRecordIsNewest ==
  \A w \in Workspace, p \in PKey, n \in Name :
    LET carriers == {k \in Current(w, p) : RowAt(k).columns[n] # None}
    IN  IF carriers = {} THEN GetMergedRecord(w, p)[n] = None
        ELSE \E k \in carriers :
               /\ \A j \in carriers : NewerThan(k, j)
               /\ GetMergedRecord(w, p)[n] = RowAt(k).columns[n]

\* The two "current state" reads agree: every value of the most recent row is in
\* the merged record, unless another row of the record has the very same time
\* (get_zippered_row takes the first inserted, the merge the last).
RowAgreesWithMerged ==
  \A w \in Workspace, p \in PKey :
    LET row == GetZipperedRow(w, p)
        tied == {i \in OfRecord(w, p) : signals[i].occurred_at = row.occurred_at}
    IN  row # None /\ Cardinality(tied) = 1 =>
          \A n \in Name : row.columns[n] # None => GetMergedRecord(w, p)[n] = row.columns[n]

-----------------------------------------------------------------------------
(* The order of the timeline.                                              *)

Descending(s) ==
  \A i, j \in DOMAIN s : i < j => Instant(s[i].occurred_at) >= Instant(s[j].occurred_at)

OneFormat(s) ==
  \A i, j \in DOMAIN s : SuffixOf(s[i].occurred_at) = SuffixOf(s[j].occurred_at)

\* The timeline is in the order of time, whatever the order of delivery, as long
\* as the sources of a record write their times in one format.
TimelineInOrder ==
  \A w \in Workspace, p \in PKey, since \in Time :
    LET rows == GetZipperedTimeline(w, p, since)
    IN  OneFormat(rows) => Descending(rows)

\* What the validation of occurred_at is there for: every accepted time is put
\* in its place.
TimelineChronological ==
  \A w \in Workspace, p \in PKey : Descending(GetZipperedTimeline(w, p, 0))
=============================================================================
