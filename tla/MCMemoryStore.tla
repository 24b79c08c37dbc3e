--------------------------- MODULE MCMemoryStore ---------------------------
(***************************************************************************)
(* A small instance of MemoryStore: signals of three formats of time, some *)
(* with an external id that comes again later, for another record or from  *)
(* another workspace; decisions that tie and go back in time.              *)
(***************************************************************************)
EXTENDS MemoryProps

MCWorkspace == {"acme", "beta"}
MCPKey == {"ada", "bob"}
MCName == {"contact", "score"}
MCColumn == {"mail", "email", "fax", "grade"}

\* Two hours in UTC, and the second as the clock of a source in India shows it.
Utc6 == Stamp(6, 5)
Utc7 == Stamp(7, 5)
India7 == Stamp(7, 2)
MCTime == {Utc6, Utc7, India7}

Columns(contact, score) ==
  [n \in Name |->
     LET c == IF n = "contact" THEN contact ELSE score
     IN  IF c = None THEN None ELSE [source_column |-> c, data_type |-> "text"]]

Signal(w, p, e, t, cols) ==
  [method |-> "upsert_signal",
   row |-> [workspace_key |-> w, pkey |-> p, source |-> "crm", external_id |-> e,
            occurred_at |-> t, columns |-> cols]]

Decision(n, t) ==
  [method |-> "insert_decision",
   row |-> [workspace_key |-> "acme", pkey |-> "ada", source |-> "crm",
            source_column |-> "mail", verdict |-> "append", canonical_name |-> n,
            is_global_target |-> FALSE, needs_review |-> n = "score",
            decided_by |-> "llm", decided_at |-> t]]

SchemaCall(n, ty) ==
  [method |-> "upsert_schema_row",
   row |-> [workspace_key |-> "acme", pkey |-> "ada", canonical_name |-> n,
            data_type |-> ty, is_global |-> FALSE]]

GlobalCall(w, ty) ==
  [method |-> "add_global_column",
   row |-> [workspace_key |-> w, name |-> "score", data_type |-> ty]]

MCAttempt ==
  {"first", "again", "moved", "crossed", "nameless", "india",
   "contact", "score", "contact tied", "inventory", "retyped", "global", "geo global"}

MCCallOf(a) ==
  CASE a = "first" -> Signal("acme", "ada", "e1", Utc6, Columns("mail", "grade"))
    [] a = "again" -> Signal("acme", "ada", "e1", Utc7, Columns("email", None))
    [] a = "moved" -> Signal("acme", "bob", "e1", Utc6, Columns("fax", None))
    [] a = "crossed" -> Signal("beta", "ada", "e1", Utc7, Columns("email", "grade"))
    [] a = "nameless" -> Signal("acme", "ada", None, Utc6, Columns("fax", None))
    [] a = "india" -> Signal("acme", "ada", None, India7, Columns(None, "fax"))
    [] a = "contact" -> Decision("contact", Utc6)
    [] a = "score" -> Decision("score", Utc7)
    [] a = "contact tied" -> Decision("contact", Utc7)
    [] a = "inventory" -> SchemaCall("contact", "text")
    [] a = "retyped" -> SchemaCall("contact", "geo")
    [] a = "global" -> GlobalCall("acme", "text")
    [] a = "geo global" -> GlobalCall("acme", "geo")
=============================================================================
