------------------------------ MODULE MCEngine ------------------------------
(***************************************************************************)
(* Small instances of Engine for TLC.  Strings are atoms.  "mail" and      *)
(* "email" are two columns of one source that can meet in one canonical    *)
(* name; "grade" is a column whose values may not convert; "cust_no" is    *)
(* the column the deterministic lookup knows.                              *)
(***************************************************************************)
EXTENDS EngineProps, Coercions, TLC

MCWorkspace == {"acme"}
MCPKey == {"ada"}
MCSource == {"crm"}
MCTwoSources == {"crm", "forms"}
MCColumn == {"mail", "email", "grade", "cust_no"}
MCName == {"contact", "score"}
MCExternalId == {"e1"}
MCValue == {"word", "digits", "int", "far int"}

\* Two core types, one core type with a partial coercer, and a domain's own.
MCDataType == {"text", "integer", "timestamp", "geo"}
MCStorableType == {"text", "integer", "timestamp"}

\* The built-in registry; no pair is registered for geo.
MCNormalize(v, from, to) ==
  LET result == IF from = to THEN v
                ELSE IF <<from, to>> \in CorePairs THEN CoreCoercer(<<from, to>>, v)
                ELSE "unsafe"
  IN  IF result \in Failure THEN result ELSE "ok"

MCNoLookup(c, v) == None
MCLookup(c, v) ==
  IF c = "cust_no" THEN [canonical_column |-> "score", data_type |-> "integer"] ELSE None

Answer(v, n, g) == [verdict |-> v, canonical_name |-> n, is_global_target |-> g]
MCFewAnswers == {Answer("append", "contact", FALSE), Answer("join", "score", TRUE)}
MCJoins == {Answer("join", "contact", FALSE), Answer("join", "score", TRUE)}
\* Both names claimed as globals and disowned.
MCClaims == {Answer("append", "contact", FALSE), Answer("join", "contact", TRUE),
             Answer("join", "score", TRUE), Answer("join", "score", FALSE)}
MCAllAnswers == [verdict : Verdict, canonical_name : MCName, is_global_target : BOOLEAN]

MCNoGlobals == [w \in Workspace |-> [n \in Name |-> None]]
MCScoreGlobal ==
  [w \in Workspace |-> [n \in Name |-> IF n = "score" THEN "integer" ELSE None]]
\* A global whose type values reach only by conversion.
MCStampGlobal ==
  [w \in Workspace |-> [n \in Name |-> IF n = "score" THEN "timestamp" ELSE None]]

MCNoRegistrations == {}
MCRegistrations == {<<"acme", "contact", "text">>}

Field(c, ty, v) == [source_column |-> c, source_data_type |-> ty, value |-> v]
RowOf(w, s, e, cols) ==
  [workspace_key |-> w, pkey |-> "ada", source |-> s, external_id |-> e,
   occurred_at |-> 1, columns |-> cols]

MailAndEmail(e) == RowOf("acme", "crm", e, <<Field("mail", "text", "word"),
                                             Field("email", "text", "word")>>)
GradeOnly(e) == RowOf("acme", "crm", e, <<Field("grade", "text", "word")>>)
MailOnly(e) == RowOf("acme", "crm", e, <<Field("mail", "text", "word")>>)

TaskSymmetry == Permutations(Task)

\* One source delivering the same columns from overlapping calls.
ConcurrentRows == {MailAndEmail("e1"), MailOnly("e1"), GradeOnly(None)}

\* One source whose calls come one after the other, and are retried.
SerialRows == {MailAndEmail(None)}
MCMailColumns == {"mail", "email"}

\* Two sources meeting in one record: types that disagree, a value whose
\* coercer raises, a type the tables refuse, a column the lookup knows.
TwoSourceRows ==
  {MailAndEmail(None),
   RowOf("acme", "forms", None, <<Field("mail", "geo", "word"),
                                  Field("grade", "integer", "far int")>>),
   RowOf("acme", "forms", None, <<Field("cust_no", "integer", "int")>>)}

\* The single rows the counterexamples need.
MailOnlyRows == {MailOnly(None)}
DisagreeingRows ==
  {RowOf("acme", "crm", None, <<Field("grade", "integer", "int")>>),
   RowOf("acme", "crm", None, <<Field("mail", "text", "digits")>>)}
=============================================================================
