--------------------------- MODULE MCSQLiteStore ---------------------------
(***************************************************************************)
(* Two processes on one file.  Both deliver the same external row and      *)
(* register the same global column, one of them with a type the table      *)
(* refuses; one logs a decision, and writes an inventory row whose type    *)
(* is refused; the other writes the row of the inventory.                  *)
(***************************************************************************)
EXTENDS SQLiteStore, TLC

CONSTANTS p1, p2

MCProc == {p1, p2}
MCAttempt ==
  {"p1 signal", "p1 decision", "p1 geo", "p1 global", "p2 signal", "p2 schema", "p2 geo global"}

MCProcOf(a) ==
  IF a \in {"p1 signal", "p1 decision", "p1 geo", "p1 global"} THEN p1 ELSE p2

Signal(t) ==
  [workspace_key |-> "acme", pkey |-> "ada", source |-> "crm", external_id |-> "e1",
   occurred_at |-> t, columns |-> [n \in Name |-> None]]

SchemaCall(ty) ==
  [method |-> "upsert_schema_row",
   row |-> [workspace_key |-> "acme", pkey |-> "ada", canonical_name |-> "contact",
            data_type |-> ty, is_global |-> FALSE]]

GlobalCall(ty) ==
  [method |-> "add_global_column",
   row |-> [workspace_key |-> "acme", name |-> "contact", data_type |-> ty]]

MCCallOf(a) ==
  CASE a = "p1 signal" -> [method |-> "upsert_signal", row |-> Signal(1)]
    [] a = "p2 signal" -> [method |-> "upsert_signal", row |-> Signal(2)]
    [] a = "p1 geo" -> SchemaCall("geo")
    [] a = "p2 schema" -> SchemaCall("text")
    [] a = "p1 decision" ->
         [method |-> "insert_decision",
          row |-> [workspace_key |-> "acme", pkey |-> "ada", source |-> "crm",
                   source_column |-> "mail", verdict |-> "append",
                   canonical_name |-> "contact", is_global_target |-> FALSE,
                   needs_review |-> FALSE, decided_by |-> "llm", decided_at |-> 1]]
    [] a = "p1 global" -> GlobalCall("text")
    [] a = "p2 geo global" -> GlobalCall("geo")
=============================================================================
