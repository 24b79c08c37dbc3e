-------------------------------- MODULE Api --------------------------------
(***************************************************************************)
(* The HTTP API (api.py, auth.py): every request to a protected route      *)
(* passes require_auth, then the rate limiter of module RateLimit, then    *)
(* its handler, which works on one store and one router that all requests  *)
(* share.  The two dependencies run in a thread pool and the handlers as   *)
(* coroutines, so the requests interleave between all of these steps.      *)
(*                                                                         *)
(* The engine below the handlers is module Engine.  Of it this module      *)
(* keeps what the routes can tell apart: rows of one source and one        *)
(* column, the cached decision, the router's answer or failure, and the    *)
(* signal row, which a later delivery may take to another record.          *)
(***************************************************************************)
EXTENDS RateLimit, Router

CONSTANTS
  Sent(_),       \* per request: its path, Authorization header, host, record, external id, name
  Token,         \* bearer tokens
  Scenarios,     \* bound: the settings it runs with, and which requests are sent
  Replies        \* the content of the model's replies

VARIABLES
  env,        \* the environment variables; they do not change while it runs
  stage,      \* how far each request has come, if it is sent at all
  status,     \* the status it was answered with; 0 before that
  listed,     \* the decisions its answer lists
  router,     \* whether _router has been built
  decisions,  \* the audit log of the store
  signals,    \* the signal rows: their record and external id
  known       \* history: the ingests answered 200 when a request arrived

apiVars == <<env, stage, status, listed, router, decisions, signals, known>>
allVars == <<vars, apiVars>>

Environment == [keys : SUBSET Token, allow_no_auth : BOOLEAN, anthropic_api_key : BOOLEAN]

\* The scheme is compared without case and the token stripped of blanks.
ExtractBearer(header) ==
  IF header = None \/ header.scheme # "bearer" \/ header.token = "" THEN None ELSE header.token

\* _caller_key
CallerKey(q) ==
  LET token == ExtractBearer(Sent(q).authorization)
  IN  IF token # None THEN <<"tok", token>> ELSE <<"ip", Sent(q).host>>

ASSUME ApiAssumption ==
  /\ \A q \in Request : CallerOf(q) = CallerKey(q)
  /\ \A q \in Request : Sent(q).path \in {"health", "ingest", "signals", "timeline", "decisions"}
  /\ \A content \in Replies : IsContent(content)
  /\ None \notin Token
  /\ Scenarios \subseteq [env : Environment, sent : SUBSET Request]

ApiInit ==
  /\ Init
  /\ \E s \in Scenarios :
       /\ env = s.env
       /\ stage = [q \in Request |-> IF q \in s.sent THEN "arrived" ELSE "unsent"]
  /\ status = [q \in Request |-> 0]
  /\ listed = [q \in Request |-> {}]
  /\ router = FALSE
  /\ decisions = {} /\ signals = {}
  /\ known = [q \in Request |-> {}]

Acknowledged == {q \in Request : Sent(q).path = "ingest" /\ status[q] = 200}

\* The record a request is about.
Place(q) == <<Sent(q).workspace_key, Sent(q).pkey>>

\* What a record's stored decisions are cached under, and listed by.
CachedFor(q) == {d \in decisions : <<d.workspace_key, d.pkey>> = Place(q)}
HistoryFor(q) == {d \in CachedFor(q) : d.verdict.canonical_name = Sent(q).canonical_name}

Advance(q, to) ==
  /\ stage' = [stage EXCEPT ![q] = to]
  /\ UNCHANGED <<env, status, listed>>

Respond(q, code, rows) ==
  /\ status' = [status EXCEPT ![q] = code]
  /\ listed' = [listed EXCEPT ![q] = rows]
  /\ stage' = [stage EXCEPT ![q] = "answered"]
  /\ UNCHANGED env

Health(q) ==
  /\ stage[q] = "arrived" /\ Sent(q).path = "health"
  /\ Respond(q, 200, {})
  /\ UNCHANGED <<vars, router, decisions, signals, known>>

\* No configured key lets everybody in only if the operator opted out.
Authorized(q) ==
  IF env.keys = {} THEN env.allow_no_auth ELSE ExtractBearer(Sent(q).authorization) \in env.keys

RequireAuth(q) ==
  /\ stage[q] = "arrived" /\ Sent(q).path # "health"
  /\ IF Authorized(q) THEN Advance(q, "authorized")
     ELSE Respond(q, IF env.keys = {} THEN 503 ELSE 401, {})
  /\ known' = [known EXCEPT ![q] = Acknowledged]
  /\ UNCHANGED <<vars, router, decisions, signals>>

\* Mutant: the dependencies are listed the other way round, so that the limiter
\* counts requests nobody has authorized yet.
LimitFirst(q) ==
  /\ stage[q] \in {"arrived", "authorized"}
  /\ \/ ReadClock(q) /\ UNCHANGED apiVars
     \/ Admit(q) /\ Advance(q, IF Authorized(q) THEN "handling" ELSE "arrived")
                 /\ UNCHANGED <<router, decisions, signals, known>>
     \/ Refuse(q) /\ Respond(q, 429, {}) /\ UNCHANGED <<router, decisions, signals, known>>

EnforceRateLimit(q) ==
  /\ stage[q] = "authorized"
  /\ \/ ReadClock(q) /\ UNCHANGED apiVars
     \/ /\ Admit(q) /\ Advance(q, "handling")
        /\ UNCHANGED <<router, decisions, signals, known>>
     \/ /\ Refuse(q) /\ Respond(q, 429, {})
        /\ UNCHANGED <<router, decisions, signals, known>>

-----------------------------------------------------------------------------
\* POST /v1/ingest

\* The router is built on first use; without a key HaikuRouter() raises, and
\* the next request tries again.
GetRouter(q) ==
  /\ stage[q] = "handling" /\ Sent(q).path = "ingest"
  /\ IF router \/ env.anthropic_api_key
     THEN router' = TRUE /\ Advance(q, "ingesting")
     ELSE UNCHANGED router /\ Respond(q, 500, {})
  /\ UNCHANGED <<vars, decisions, signals, known>>

\* A decision for the record is in the log: it is used, and the router is not asked.
CacheHit(q) ==
  /\ stage[q] = "ingesting"
  /\ \E d \in CachedFor(q) : listed' = [listed EXCEPT ![q] = {d}]
  /\ stage' = [stage EXCEPT ![q] = "routed"]
  /\ UNCHANGED <<vars, env, status, router, decisions, signals, known>>

CacheMiss(q) ==
  /\ stage[q] = "ingesting" /\ CachedFor(q) = {}
  /\ Advance(q, "routing")
  /\ UNCHANGED <<vars, router, decisions, signals, known>>

\* The REAL column binds NaN as NULL: such a decision is read back without a score.
Recorded(verdict) ==
  [verdict EXCEPT !.similarity_score = IF @ = NaN THEN None ELSE @]

\* The reply comes in time: a verdict is recorded, anything else raises.
RouterReplies(q) ==
  /\ stage[q] = "routing"
  /\ \E content \in Replies :
       IF Verdicts(content) = None
       THEN Respond(q, 500, {}) /\ UNCHANGED decisions
       ELSE LET d == [workspace_key |-> Sent(q).workspace_key, pkey |-> Sent(q).pkey, by |-> q,
                      verdict |-> Recorded(Verdicts(content))]
            IN  /\ decisions' = decisions \cup {d}
                /\ listed' = [listed EXCEPT ![q] = {d}]
                /\ stage' = [stage EXCEPT ![q] = "routed"]
                /\ UNCHANGED <<env, status>>
  /\ UNCHANGED <<vars, router, signals, known>>

\* Mutant: the call to the model is not wrapped in wait_for.
NeverTimesOut(q) == FALSE /\ UNCHANGED allVars

\* wait_for gives up and cancels the call: a reply that comes later is nobody's.
RouterTimesOut(q) ==
  /\ stage[q] = "routing"
  /\ Respond(q, 500, {})
  /\ UNCHANGED <<vars, router, decisions, signals, known>>

\* The stored row an external id is already known by, in whichever workspace.
SameExternal(q) ==
  {s \in signals : Sent(q).external_id # None /\ s.external_id = Sent(q).external_id}

SignalOf(q) ==
  [workspace_key |-> Sent(q).workspace_key, pkey |-> Sent(q).pkey,
   external_id |-> Sent(q).external_id]

\* Mutant: the answer is sent before the row is written.
AnswerFirst(q) ==
  /\ stage[q] = "routed"
  /\ Advance(q, "stored")
  /\ UNCHANGED <<vars, router, decisions, signals, known>>

\* A row with a known external id moves to the pkey delivered last, and stays in
\* the workspace that delivered it first.
UpsertSignal(q) ==
  /\ stage[q] = "routed"
  /\ IF SameExternal(q) = {}
     THEN signals' = signals \cup {SignalOf(q)}
     ELSE signals' = (signals \ SameExternal(q))
                       \cup {[s EXCEPT !.pkey = Sent(q).pkey] : s \in SameExternal(q)}
  /\ Advance(q, "stored")
  /\ UNCHANGED <<vars, router, decisions, known>>

Answer(q) ==
  /\ stage[q] = "stored"
  /\ Respond(q, 200, listed[q])
  /\ UNCHANGED <<vars, router, decisions, signals, known>>

-----------------------------------------------------------------------------
\* The GET routes read the store once and answer with what they found.

LatestSignal(q) ==
  /\ stage[q] = "handling" /\ Sent(q).path = "signals"
  /\ Respond(q, IF \E s \in signals : <<s.workspace_key, s.pkey>> = Place(q) THEN 200 ELSE 404, {})
  /\ UNCHANGED <<vars, router, decisions, signals, known>>

Timeline(q) ==
  /\ stage[q] = "handling" /\ Sent(q).path = "timeline"
  /\ Respond(q, 200, {})
  /\ UNCHANGED <<vars, router, decisions, signals, known>>

Decisions(q) ==
  /\ stage[q] = "handling" /\ Sent(q).path = "decisions"
  /\ Respond(q, 200, HistoryFor(q))
  /\ UNCHANGED <<vars, router, decisions, signals, known>>

\* A storage call of a handler raises: what was written before it stays.
StorageFails(q) ==
  /\ \/ stage[q] \in {"ingesting", "routed"}
     \/ stage[q] = "handling" /\ Sent(q).path # "ingest"
  /\ Respond(q, 500, {})
  /\ UNCHANGED <<vars, router, decisions, signals, known>>

-----------------------------------------------------------------------------

Handle(q) ==
  \/ GetRouter(q) \/ CacheHit(q) \/ CacheMiss(q) \/ UpsertSignal(q) \/ Answer(q)
  \/ LatestSignal(q) \/ Timeline(q) \/ Decisions(q)

\* What the server does for a request of its own accord.
Serve(q) ==
  Health(q) \/ RequireAuth(q) \/ EnforceRateLimit(q) \/ Handle(q) \/ RouterTimesOut(q)

Finished ==
  /\ \A q \in Request : stage[q] \in {"unsent", "answered"}
  /\ UNCHANGED allVars

ApiNext ==
  \/ Tick /\ UNCHANGED apiVars
  \/ \E q \in Request : Serve(q) \/ RouterReplies(q) \/ StorageFails(q)
  \/ Finished

ApiSpec == ApiInit /\ [][ApiNext]_allVars

\* The event loop and the thread pool do not rest while there is a request to
\* serve.  Nothing is assumed of the model's replies.
FairApiSpec == ApiSpec /\ WF_allVars(\E q \in Request : Serve(q))

-----------------------------------------------------------------------------

\* Every request is answered, whatever the model and the store do: the router
\* is asked under a timeout, and no step of the chain waits for another request.
EveryRequestIsAnswered == <>(\A q \in Request : stage[q] \in {"unsent", "answered"})

\* With keys configured, windows are kept for the configured tokens only, so
\* there are never more of them than keys; and what counts in the window of a
\* token are requests that were authorized with it.
WindowsOfKnownCallers ==
  env.keys # {} =>
    \A c \in Caller : hits[c] # <<>> \/ admitted[c] # <<>> =>
      /\ \E token \in env.keys : c = <<"tok", token>>
      /\ \E q \in Request :
           CallerOf(q) = c /\ pc[q] = "admitted" /\ status[q] \notin {401, 503}

\* Whatever the model replies, the log holds only verdicts the engine and the
\* tables can use: a valid verdict, a name, and a score from 0 to 1 or none at
\* all, which is what a NaN, that the range check lets through, leaves behind.
VerdictsWellFormed ==
  \A d \in decisions :
    d.verdict \in [verdict : Verdict, canonical_name : String \ {""},
                   is_global_target : BOOLEAN, similarity_score : Similarity \cup {None}]

\* The signal of an ingest is in the store, and no failure can follow.
Written(q) == stage[q] = "stored" \/ q \in Acknowledged

\* Another delivery of p's external row went to another record, or came from
\* another workspace: the two share one row, which is at one place only.
Displaced(p) ==
  /\ Sent(p).external_id # None
  /\ \E r \in Request :
       Written(r) /\ Sent(r).external_id = Sent(p).external_id /\ Place(r) # Place(p)

\* An ingest that was answered 200 can be read back by every later request: its
\* record has a signal, unless a delivery of the same external row displaced it,
\* and the decisions it was answered with are listed.
AcknowledgedIsReadable ==
  \A q \in Request : \A p \in known[q] : Place(p) = Place(q) =>
    /\ Sent(q).path = "signals" /\ status[q] = 404 => Displaced(p)
    /\ Sent(q).path = "decisions" /\ status[q] = 200 =>
         {d \in listed[p] : d.verdict.canonical_name = Sent(q).canonical_name}
           \subseteq listed[q]
=============================================================================
