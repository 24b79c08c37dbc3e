------------------------------ MODULE Contract ------------------------------
(***************************************************************************)
(* What a store promises whoever calls it (the Storage protocol): each     *)
(* call takes effect at once and as a whole, at most once, and leaves the  *)
(* four tables as the method of module Storage says.  Calls that are       *)
(* refused leave no trace here.  Both shipped stores are shown to          *)
(* implement it.                                                           *)
(***************************************************************************)
EXTENDS Storage

CONSTANTS
  Attempt,     \* calls; a repeated call is another attempt
  CallOf(_)    \* the StoreCall each of them makes

VARIABLE applied   \* the attempts that have taken effect

Init ==
  /\ globals = [w \in Workspace |-> [n \in Name |-> None]]
  /\ schema = [w \in Workspace |-> [p \in PKey |-> [n \in Name |-> None]]]
  /\ decisions = <<>>
  /\ signals = <<>>
  /\ applied = {}

TakesEffect(call) ==
  LET r == call.row
  IN  \/ /\ call.method = "insert_decision"
         /\ InsertDecision(r)
      \/ /\ call.method = "upsert_schema_row"
         /\ UpsertSchemaRow(r.workspace_key, r.pkey, r.canonical_name,
                            [data_type |-> r.data_type, is_global |-> r.is_global])
      \/ /\ call.method = "upsert_signal"
         /\ \E id \in 1..(Len(signals) + 1) : UpsertSignal(r, id)
      \/ /\ call.method = "add_global_column"
         /\ AddGlobalColumn(r.workspace_key, r.name, r.data_type)

Apply(a) ==
  /\ a \notin applied
  /\ TakesEffect(CallOf(a))
  /\ applied' = applied \cup {a}

Next == \E a \in Attempt : Apply(a)

Spec == Init /\ [][Next]_<<store, applied>>
=============================================================================
