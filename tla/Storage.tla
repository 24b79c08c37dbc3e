------------------------------ MODULE Storage ------------------------------
(***************************************************************************)
(* The persistence contract of zipper (storage.py): four tables and the    *)
(* operations the engine calls on them.  Each method of a store runs       *)
(* behind the instance lock and commits before it returns, so it is one    *)
(* atomic step here.  Both shipped stores meet the definitions below;      *)
(* where they may differ (which of several rows with equal decided_at is   *)
(* the latest; which data types the table accepts) the contract leaves the *)
(* choice open.                                                            *)
(*                                                                         *)
(* Row ids are positions: a decision is known by its place in the log and  *)
(* a signal by its place in the table.                                     *)
(***************************************************************************)
EXTENDS Tables

VARIABLES
  globals,    \* globals[w][n]: data type of the global column n, or None
  schema,     \* schema[w][p][n]: the inventory row of canonical column n, or None
  decisions,  \* the append-only decision log
  signals     \* the wide rows, in insertion order

store == <<globals, schema, decisions, signals>>

StorageTypeOK ==
  /\ globals \in [Workspace -> [Name -> DataType \cup {None}]]
  /\ schema \in [Workspace -> [PKey -> [Name -> SchemaRow \cup {None}]]]
  /\ decisions \in Seq(DecisionRow)
  /\ signals \in Seq(SignalRow)

-----------------------------------------------------------------------------
(* Reads. *)

\* Mutant: the query does not filter on the source column.
DecisionsForAnyColumn(q) ==
  {i \in DOMAIN decisions : SubSeq(Quad(decisions[i]), 1, 3) = SubSeq(q, 1, 3)}

DecisionsFor(q) == {i \in DOMAIN decisions : Quad(decisions[i]) = q}

\* latest_decision_for_column: the rows with the greatest decided_at.  The
\* clock has millisecond resolution and may be stepped back, and the query has
\* no second ordering key: any of the greatest may be the one returned.
LatestDecisions(q) ==
  {i \in DecisionsFor(q) :
     \A j \in DecisionsFor(q) : decisions[j].decided_at <= decisions[i].decided_at}

-----------------------------------------------------------------------------
(* Writes. *)

\* insert_decision: INSERT only.
InsertDecision(d) ==
  /\ decisions' = Append(decisions, d)
  /\ UNCHANGED <<globals, schema, signals>>

\* upsert_schema_row: one row per (workspace, pkey, canonical name), replaced
\* on conflict; a type outside the table's CHECK raises and writes nothing.
UpsertSchemaRow(w, p, n, r) ==
  /\ r.data_type \in StorableType
  /\ schema' = [schema EXCEPT ![w][p][n] = r]
  /\ UNCHANGED <<globals, decisions, signals>>

\* Mutant: rows without an external id match each other.
SameExternalOrNone(s) ==
  {i \in DOMAIN signals :
     signals[i].source = s.source /\ signals[i].external_id = s.external_id}

\* The stored row an incoming signal replaces, if the source named its row.
SameExternal(s) ==
  {i \in DOMAIN signals :
     /\ s.external_id # None
     /\ signals[i].source = s.source
     /\ signals[i].external_id = s.external_id}

\* upsert_signal on a row already there: pkey, time and columns are replaced,
\* the id, the workspace and the source stay.
UpdateSignal(i, s) ==
  /\ signals' = [signals EXCEPT ![i] =
       [@ EXCEPT !.pkey = s.pkey, !.occurred_at = s.occurred_at, !.columns = s.columns]]
  /\ UNCHANGED <<globals, schema, decisions>>

InsertSignal(s) ==
  /\ signals' = Append(signals, s)
  /\ UNCHANGED <<globals, schema, decisions>>

\* Mutant: a plain INSERT.
AlwaysInsertSignal(s, id) == id = Len(signals) + 1 /\ InsertSignal(s)

\* upsert_signal, with the id it returns.
UpsertSignal(s, id) ==
  \/ /\ id \in SameExternal(s)
     /\ UpdateSignal(id, s)
  \/ /\ SameExternal(s) = {}
     /\ id = Len(signals) + 1
     /\ InsertSignal(s)

\* add_global_column: idempotent on the name.  INSERT OR IGNORE also ignores a
\* type the table's CHECK refuses.
AddGlobalColumn(w, n, ty) ==
  /\ globals' = IF globals[w][n] = None /\ ty \in StorableType
                  THEN [globals EXCEPT ![w][n] = ty]
                  ELSE globals
  /\ UNCHANGED <<schema, decisions, signals>>
=============================================================================
