------------------------------- MODULE MCApi -------------------------------
(***************************************************************************)
(* A small server for TLC: one client that ingests and reads a record, a   *)
(* request with a token that is not configured, one without a token from   *)
(* the same host, and a health check; and one external row that is         *)
(* delivered again from another workspace and for another record.          *)
(***************************************************************************)
EXTENDS Api

Asked(path, authorization) ==
  [path |-> path, authorization |-> authorization, host |-> "h", workspace_key |-> "acme",
   pkey |-> "ada", external_id |-> None, canonical_name |-> "email"]
Bearer(token) == [scheme |-> "bearer", token |-> token]

\* An ingest of the source's row e1, for a record of a workspace.
Delivered(w, p) ==
  [Asked("ingest", Bearer("a")) EXCEPT !.workspace_key = w, !.pkey = p, !.external_id = "e1"]

MCRequests ==
  [in1 |-> Asked("ingest", Bearer("a")), in2 |-> Asked("ingest", Bearer("a")),
   ext |-> Delivered("acme", "ada"), away |-> Delivered("zeta", "bob"),
   get |-> Asked("signals", Bearer("a")), log |-> Asked("decisions", Bearer("a")),
   t1 |-> Asked("timeline", Bearer("a")), t2 |-> Asked("timeline", Bearer("a")),
   none |-> Asked("timeline", None), odd |-> Asked("signals", Bearer("x")),
   up |-> Asked("health", None)]
MCRequest == DOMAIN MCRequests
MCSent(q) == MCRequests[q]
MCCallerOf(q) == CallerKey(q)
MCCaller == {<<"tok", "a">>, <<"tok", "x">>, <<"ip", "h">>}

Configured(anthropic) == [keys |-> {"a"}, allow_no_auth |-> FALSE, anthropic_api_key |-> anthropic]
Open == [keys |-> {}, allow_no_auth |-> TRUE, anthropic_api_key |-> TRUE]
Unconfigured == [keys |-> {}, allow_no_auth |-> FALSE, anthropic_api_key |-> TRUE]

\* Two ingests of a record; an ingest and a read; reads up to and over the limit;
\* an external row delivered for two records; every kind of caller.
MCScenarios ==
  [env : {Configured(TRUE)},
   sent : {{"in1", "in2"}, {"in1", "log"}, {"get", "log", "t1", "t2"}, {"ext", "away", "get"}}]
  \cup [env : {Open}, sent : {{"in1", "none", "odd"}}]
  \cup [env : {Configured(TRUE), Configured(FALSE), Unconfigured},
        sent : {{"in1", "none", "odd"}, {"odd", "up"}}]

Use(v, n, g, s, r) ==
  [type |-> "tool_use", name |-> Tool,
   input |-> [verdict |-> v, canonical_name |-> n, is_global_target |-> g,
              similarity_score |-> s, reason |-> r]]
Talk == [type |-> "text", name |-> None, input |-> None]

\* Good, in part, and unusable replies.
MCReplies ==
  {<<Talk, Use(Text("append"), Text("email"), Boolean(FALSE), Boolean(TRUE), Text("new"))>>,
   <<Use(Text("join"), Text("email"), Boolean(TRUE), NaN, Text("same"))>>,
   <<Use(Text("join"), Text("email"), Boolean(TRUE), Number(150), Text("same"))>>,
   <<Use(Text("merge"), Text("email"), Boolean(TRUE), Number(90), Text("same"))>>,
   <<Use(Text("join"), Text(""), Boolean(TRUE), Number(90), Text("same"))>>,
   <<Use(Text("join"), Text("email"), Text("yes"), Number(90), Text("same"))>>,
   <<Use(Text("join"), Text("email"), Boolean(TRUE), Number(90), Null)>>,
   <<[type |-> "tool_use", name |-> Tool, input |-> None]>>,
   <<Talk>>}
=============================================================================
