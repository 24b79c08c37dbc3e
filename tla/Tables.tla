------------------------------- MODULE Tables -------------------------------
(***************************************************************************)
(* The rows of zipper's four tables (types.py, schema.sql), shared by the  *)
(* storage contract and by the two stores that implement it.               *)
(*                                                                         *)
(* Descriptions, samples, similarity scores, reasons and the *_at columns  *)
(* nothing reads are left out.                                             *)
(***************************************************************************)
EXTENDS Naturals, Sequences

CONSTANTS
  Workspace, PKey, Source, Column,  \* the partition, the record, where a column comes from
  Name,          \* canonical column names
  ExternalId,    \* the source's own ids of its rows
  DataType,      \* data-type identifiers in use, domain-specific ones included
  StorableType,  \* the data types the backend's tables accept
  Time,          \* readings of the wall clock, as the ISO strings order them
  None           \* Python's None; also "no such row"

Verdict == {"join", "append", "unclear"}
Routers == {"lookup", "llm"}            \* tiers that choose a canonical name
Flaggers == {"collision", "normalizer"} \* steps that only flag a row for review

\* One canonical column of a record (zippering_schema).
SchemaRow == [data_type : DataType, is_global : BOOLEAN]

\* One line of the audit log (zippering_decisions).
DecisionRow ==
  [workspace_key : Workspace, pkey : PKey, source : Source, source_column : Column,
   verdict : Verdict, canonical_name : Name, is_global_target : BOOLEAN,
   needs_review : BOOLEAN, decided_by : Routers \cup Flaggers, decided_at : Time]

\* A normalized value: the source column it came from and the type it now has.
Cell == [source_column : Column, data_type : DataType]

\* One wide reconciled row (zippered_signals).
SignalRow ==
  [workspace_key : Workspace, pkey : PKey, source : Source,
   external_id : ExternalId \cup {None}, occurred_at : Time,
   columns : [Name -> Cell \cup {None}]]

\* What the writing methods of a store are called with.
StoreCall ==
  [method : {"insert_decision"}, row : DecisionRow]
  \cup [method : {"upsert_signal"}, row : SignalRow]
  \cup [method : {"upsert_schema_row"},
        row : [workspace_key : Workspace, pkey : PKey, canonical_name : Name,
               data_type : DataType, is_global : BOOLEAN]]
  \cup [method : {"add_global_column"},
        row : [workspace_key : Workspace, name : Name, data_type : DataType]]

ASSUME StorageAssumption ==
  /\ StorableType \subseteq DataType
  /\ Time \subseteq Nat
  /\ None \notin DataType \cup ExternalId \cup SchemaRow \cup Cell

\* What a decision is cached under.
Quad(d) == <<d.workspace_key, d.pkey, d.source, d.source_column>>
=============================================================================
