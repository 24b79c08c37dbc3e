----------------------------- MODULE ApiProofs -----------------------------
(***************************************************************************)
(* Proofs about the HTTP API, for any settings, requests and replies: what *)
(* is proved of the limiter holds of it; it counts only callers it has     *)
(* authorized; it records only verdicts that pass validation; and an       *)
(* acknowledged ingest can be read back unless it was displaced.           *)
(***************************************************************************)
EXTENDS Api, RateLimitProofs

Stage == {"unsent", "arrived", "authorized", "handling", "ingesting", "routing", "routed",
          "stored", "answered"}

\* The shape of the server's state; a request without an answer has no status.
ApiTypeOK ==
  /\ env \in Environment
  /\ stage \in [Request -> Stage]
  /\ status \in [Request -> Nat]
  /\ listed \in [Request -> SUBSET decisions]
  /\ known \in [Request -> SUBSET Request]
  /\ \A q \in Request : stage[q] # "answered" => status[q] = 0

-----------------------------------------------------------------------------
(* The limiter.                                                             *)

LEMMA StepImplements ==
  ASSUME [ApiNext]_allVars
  PROVE  [Next]_vars
<1>1. ASSUME NEW q \in Request, EnforceRateLimit(q) PROVE [Next]_vars
  BY <1>1 DEF EnforceRateLimit, Next
<1>2. ASSUME NEW q \in Request, Health(q) \/ RequireAuth(q) \/ RouterTimesOut(q)
      PROVE UNCHANGED vars
  BY <1>2 DEF Health, RequireAuth, RouterTimesOut
<1>3. ASSUME NEW q \in Request, Handle(q) \/ RouterReplies(q) \/ StorageFails(q)
      PROVE UNCHANGED vars
  BY <1>3 DEF Handle, GetRouter, CacheHit, CacheMiss, UpsertSignal, Answer, LatestSignal,
              Timeline, Decisions, RouterReplies, StorageFails
<1>4. CASE Tick
  BY <1>4 DEF Next
<1>5. CASE Finished \/ UNCHANGED allVars
  BY <1>5 DEF Finished, allVars
<1> QED BY <1>1, <1>2, <1>3, <1>4, <1>5 DEF ApiNext, Serve

\* Every step of the server is a step of the limiter or none: what is proved of
\* RateLimit holds here.
LEMMA ApiKeepsLimiter == ApiSpec => Spec
<1>1. ApiInit => Init
  BY DEF ApiInit
<1>2. [ApiNext]_allVars => [Next]_vars
  BY StepImplements
<1> QED BY <1>1, <1>2, PTL DEF ApiSpec, Spec

\* The spacing of admissions, and the honesty of refusals, hold of the server.
THEOREM ApiIsLimited == ApiSpec => [](Spaced /\ RefusalsJustified /\ RetryAfterHonoured)
BY ApiKeepsLimiter, AdmissionsAreSpaced, NobodyIsThrottledUnjustly, RetryAfterIsHonest, PTL

-----------------------------------------------------------------------------
(* Verdicts.                                                                *)

LEMMA ScoreFacts ==
  ASSUME NEW json \in Json, IsScore(json)
  PROVE  Score(json) \in Similarity \cup {NaN}
<1>1. Number(Whole) \in Similarity /\ Number(0) \in Similarity
  BY DEF Number, Similarity, Whole
<1>2. CASE json[1] = "boolean"
  <2>1. PICK b \in BOOLEAN : json = <<"boolean", b>>
    BY <1>2 DEF Json, Null, NaN
  <2>2. json = Boolean(TRUE) \/ json = Boolean(FALSE)
    BY <2>1 DEF Boolean
  <2>3. Boolean(TRUE) # Boolean(FALSE)
    BY DEF Boolean
  <2>4. Score(json) = Number(Whole) \/ Score(json) = Number(0)
    BY <2>2, <2>3 DEF Score
  <2> QED BY <1>1, <2>4
<1>3. CASE json[1] # "boolean"
  <2>1. \A b : Boolean(b)[1] = "boolean"
    BY DEF Boolean
  <2>2. json # Boolean(TRUE) /\ json # Boolean(FALSE)
    BY <1>3, <2>1, Zenon
  <2>3. Score(json) = json
    BY <2>2, Zenon DEF Score
  <2>4. CASE json[1] = "nan"
    BY <2>3, <2>4 DEF Json, Null, NaN
  <2>5. CASE json[1] = "number" /\ ~(json[2] < 0 \/ json[2] > Whole)
    <3>1. PICK n \in Int : json = <<"number", n>>
      BY <2>5 DEF Json, Null, NaN
    <3>2. n \in 0..Whole
      BY <2>5, <3>1 DEF Whole
    <3> QED BY <2>3, <3>1, <3>2 DEF Similarity
  <2> QED BY <1>3, <2>4, <2>5 DEF IsScore
<1> QED BY <1>2, <1>3

\* _parse_verdict returns a verdict the engine can use, or raises.
LEMMA ParsedIsWellFormed ==
  ASSUME NEW raw \in ToolInput \cup {None}, ParseVerdict(raw) # None
  PROVE  ParseVerdict(raw) \in RoutingVerdict
<1>1. raw \in ToolInput /\ IsRoutingInput(raw)
  BY DEF ParseVerdict, IsRoutingInput
<1>2. raw.verdict[2] \in Verdict
  BY <1>1 DEF IsRoutingInput, Text
<1>3. raw.canonical_name[2] \in String \ {""}
  <2>1. raw.canonical_name \in Json /\ raw.canonical_name[1] = "text"
    BY <1>1 DEF IsRoutingInput, IsText, ToolInput
  <2>2. PICK t \in String : raw.canonical_name = <<"text", t>>
    BY <2>1 DEF Json, Null, NaN
  <2>3. raw.canonical_name[2] = t
    BY <2>2
  <2>4. raw.canonical_name[2] # ""
    BY <1>1 DEF IsRoutingInput, IsText
  <2> QED BY <2>3, <2>4
<1>4. raw.is_global_target[2] \in BOOLEAN
  <2>1. raw.is_global_target \in Json /\ raw.is_global_target[1] = "boolean"
    BY <1>1 DEF IsRoutingInput, ToolInput
  <2>2. PICK b \in BOOLEAN : raw.is_global_target = <<"boolean", b>>
    BY <2>1 DEF Json, Null, NaN
  <2>3. raw.is_global_target[2] = b
    BY <2>2
  <2> QED BY <2>3
<1>5. Score(raw.similarity_score) \in Similarity \cup {NaN}
  BY <1>1, ScoreFacts DEF IsRoutingInput, ToolInput
<1> QED BY <1>1, <1>2, <1>3, <1>4, <1>5 DEF ParseVerdict, RoutingVerdict

LEMMA VerdictFacts ==
  ASSUME NEW content, IsContent(content), Verdicts(content) # None
  PROVE  Verdicts(content) \in RoutingVerdict
<1>1. PICK i \in DOMAIN content : Verdicts(content) = ParseVerdict(content[i].input)
  BY DEF Verdicts
<1> QED BY <1>1, ParsedIsWellFormed DEF IsContent

\* What the table makes of it still has a score from 0 to 1, or none.
WellFormed ==
  [verdict : Verdict, canonical_name : String \ {""}, is_global_target : BOOLEAN,
   similarity_score : Similarity \cup {None}]

LEMMA RecordedFacts ==
  ASSUME NEW v \in RoutingVerdict
  PROVE  Recorded(v) \in WellFormed
BY DEF RoutingVerdict, WellFormed, Recorded

LEMMA DecisionsNext ==
  ASSUME [ApiNext]_allVars
  PROVE  UNCHANGED decisions \/ \E q \in Request : RouterReplies(q)
<1>1. ASSUME NEW q \in Request, Serve(q) \/ StorageFails(q) PROVE UNCHANGED decisions
  BY <1>1 DEF Serve, Health, RequireAuth, EnforceRateLimit, Handle, GetRouter, CacheHit, CacheMiss,
              UpsertSignal, Answer, LatestSignal, Timeline, Decisions, RouterTimesOut, StorageFails, apiVars
<1> QED BY <1>1 DEF ApiNext, Finished, allVars, apiVars

\* Whatever the model replies, only verdicts that passed validation are logged.
THEOREM RecordedVerdictsAreWellFormed == ApiSpec => []VerdictsWellFormed
<1>1. ApiInit => VerdictsWellFormed
  BY DEF ApiInit, VerdictsWellFormed
<1>2. VerdictsWellFormed /\ [ApiNext]_allVars => VerdictsWellFormed'
  <2> SUFFICES ASSUME VerdictsWellFormed, [ApiNext]_allVars PROVE VerdictsWellFormed'
    OBVIOUS
  <2>1. ASSUME NEW q \in Request, RouterReplies(q) PROVE VerdictsWellFormed'
    <3>1. PICK content \in Replies :
            \/ decisions' = decisions
            \/ /\ Verdicts(content) # None
               /\ decisions' = decisions \cup
                    {[workspace_key |-> Sent(q).workspace_key, pkey |-> Sent(q).pkey, by |-> q,
                      verdict |-> Recorded(Verdicts(content))]}
      BY <2>1 DEF RouterReplies
    <3>2. Verdicts(content) # None => Recorded(Verdicts(content)) \in WellFormed
      BY VerdictFacts, RecordedFacts, ApiAssumption DEF ApiAssumption
    <3> DEFINE d == [workspace_key |-> Sent(q).workspace_key, pkey |-> Sent(q).pkey, by |-> q,
                     verdict |-> Recorded(Verdicts(content))]
    <3>3. d.verdict = Recorded(Verdicts(content))
      OBVIOUS
    <3>4. \/ decisions' = decisions
          \/ Verdicts(content) # None /\ decisions' = decisions \cup {d}
      BY <3>1
    <3> HIDE DEF d
    <3> QED BY <3>2, <3>3, <3>4 DEF VerdictsWellFormed, WellFormed
  <2>2. CASE UNCHANGED decisions
    BY <2>2 DEF VerdictsWellFormed
  <2> QED BY <2>1, <2>2, DecisionsNext
<1> QED BY <1>1, <1>2, PTL DEF ApiSpec

-----------------------------------------------------------------------------
(* The chain: what a step of the server does to a request.                  *)

LEMMA ApiTypeInit ==
  ASSUME ApiAssumption, ApiInit
  PROVE  ApiTypeOK
BY DEF ApiAssumption, ApiInit, ApiTypeOK, Stage

LEMMA ApiTypeNext ==
  ASSUME ApiTypeOK, [ApiNext]_allVars
  PROVE  ApiTypeOK'
<1> USE DEF ApiTypeOK, Advance, Respond, Stage
<1>1. ASSUME NEW q \in Request, Health(q) PROVE ApiTypeOK'
  BY <1>1 DEF Health
<1>2. ASSUME NEW q \in Request, RequireAuth(q) PROVE ApiTypeOK'
  BY <1>2 DEF RequireAuth, Acknowledged
<1>3. ASSUME NEW q \in Request, EnforceRateLimit(q) PROVE ApiTypeOK'
  BY <1>3 DEF EnforceRateLimit, apiVars
<1>4. ASSUME NEW q \in Request, GetRouter(q) PROVE ApiTypeOK'
  BY <1>4 DEF GetRouter
<1>5. ASSUME NEW q \in Request, CacheHit(q) PROVE ApiTypeOK'
  BY <1>5 DEF CacheHit, CachedFor
<1>6. ASSUME NEW q \in Request, CacheMiss(q) PROVE ApiTypeOK'
  BY <1>6 DEF CacheMiss
<1>7. ASSUME NEW q \in Request, RouterReplies(q) PROVE ApiTypeOK'
  BY <1>7 DEF RouterReplies
<1>8. ASSUME NEW q \in Request, RouterTimesOut(q) \/ StorageFails(q) PROVE ApiTypeOK'
  BY <1>8 DEF RouterTimesOut, StorageFails
<1>9. ASSUME NEW q \in Request, UpsertSignal(q) \/ Answer(q) PROVE ApiTypeOK'
  BY <1>9 DEF UpsertSignal, Answer
<1>10. ASSUME NEW q \in Request, LatestSignal(q) \/ Timeline(q) PROVE ApiTypeOK'
  BY <1>10 DEF LatestSignal, Timeline
<1>11. ASSUME NEW q \in Request, Decisions(q) PROVE ApiTypeOK'
  BY <1>11 DEF Decisions, HistoryFor, CachedFor
<1>12. CASE UNCHANGED apiVars
  BY <1>12 DEF apiVars
<1> QED BY <1>1, <1>2, <1>3, <1>4, <1>5, <1>6, <1>7, <1>8, <1>9, <1>10, <1>11, <1>12
        DEF ApiNext, Serve, Handle, Finished, allVars

\* The shape of the state; and a request has no status before it is answered.
THEOREM ApiTypeCorrect == ApiSpec => []ApiTypeOK
BY ApiTypeInit, ApiTypeNext, ApiAssumption, PTL DEF ApiSpec

-----------------------------------------------------------------------------
(* Windows.  A request reaches the limiter only after require_auth, and has *)
(* been answered by nobody else when it does.                               *)

Behind == {"authorized", "handling", "ingesting", "routing", "routed", "stored"}

AuthorizedFirst ==
  \A q \in Request :
    /\ pc[q] # "idle" => stage[q] \notin {"unsent", "arrived"} /\ status[q] \notin {401, 503}
    /\ pc[q] # "idle" \/ stage[q] \in Behind => Authorized(q)

\* Only an admitted request opens a window.
WindowsAreOpened ==
  \A c \in Caller : hits[c] # <<>> \/ admitted[c] # <<>> =>
    \E q \in Request : CallerOf(q) = c /\ pc[q] = "admitted"

LEMMA AuthorizedNext ==
  ASSUME ApiTypeOK, TypeOK, AuthorizedFirst, [ApiNext]_allVars
  PROVE  AuthorizedFirst'
<1> USE DEF ApiTypeOK, AuthorizedFirst, Behind, Advance, Respond, Authorized
<1>1. ASSUME NEW q \in Request, Health(q) PROVE AuthorizedFirst'
  BY <1>1 DEF Health, vars
<1>2. ASSUME NEW q \in Request, RequireAuth(q) PROVE AuthorizedFirst'
  BY <1>2 DEF RequireAuth, vars
<1>3. ASSUME NEW q \in Request, EnforceRateLimit(q) PROVE AuthorizedFirst'
  <2>1. \A p \in Request : p # q => pc'[p] = pc[p] /\ stage'[p] = stage[p] /\ status'[p] = status[p]
    BY <1>3 DEF EnforceRateLimit, ReadClock, Admit, Refuse, TypeOK, apiVars
  <2>2. /\ env' = env /\ stage[q] = "authorized" /\ status[q] = 0
        /\ stage'[q] \in {"authorized", "handling", "answered"} /\ status'[q] \in {0, 429}
    BY <1>3 DEF EnforceRateLimit, apiVars
  <2> QED BY <2>1, <2>2
<1>4. ASSUME NEW q \in Request, Handle(q) PROVE AuthorizedFirst'
  BY <1>4 DEF Handle, GetRouter, CacheHit, CacheMiss, UpsertSignal, Answer, LatestSignal,
              Timeline, Decisions, vars
<1>5. ASSUME NEW q \in Request, RouterReplies(q) \/ RouterTimesOut(q) \/ StorageFails(q)
      PROVE AuthorizedFirst'
  BY <1>5 DEF RouterReplies, RouterTimesOut, StorageFails, vars
<1>6. CASE UNCHANGED apiVars /\ UNCHANGED pc
  BY <1>6 DEF apiVars
<1> QED BY <1>1, <1>2, <1>3, <1>4, <1>5, <1>6 DEF ApiNext, Serve, Tick, Finished, allVars, vars

LEMMA OpenedNext ==
  ASSUME RateLimitAssumption, LimitInv, WindowsAreOpened, [Next]_vars
  PROVE  WindowsAreOpened'
<1>1. SUFFICES ASSUME NEW c \in Caller, hits'[c] # <<>> \/ admitted'[c] # <<>>
               PROVE  \E q \in Request : CallerOf(q) = c /\ pc'[q] = "admitted"
  BY DEF WindowsAreOpened
<1>2. ASSUME NEW q \in Request, Admit(q) PROVE \E p \in Request : CallerOf(p) = c /\ pc'[p] = "admitted"
  <2>1. pc'[q] = "admitted" /\ \A p \in Request : pc[p] = "admitted" => pc'[p] = "admitted"
    BY <1>2 DEF Admit, LimitInv, TypeOK
  <2>2. CASE c = CallerOf(q)
    BY <2>1, <2>2
  <2>3. CASE c # CallerOf(q)
    <3>1. hits'[c] = hits[c] /\ admitted'[c] = admitted[c]
      BY <1>2, <2>3 DEF Admit, LimitInv, TypeOK
    <3> QED BY <1>1, <2>1, <3>1 DEF WindowsAreOpened
  <2> QED BY <2>2, <2>3
<1>3. ASSUME NEW q \in Request, Refuse(q) PROVE \E p \in Request : CallerOf(p) = c /\ pc'[p] = "admitted"
  <2>1. \A p \in Request : pc[p] = "admitted" => pc'[p] = "admitted"
    BY <1>3 DEF Refuse, LimitInv, TypeOK
  <2>2. admitted' = admitted
    BY <1>3 DEF Refuse
  <2>3. hits[c] # <<>> \/ hits'[c] = hits[c]
    <3>1. CASE c # CallerOf(q)
      BY <1>3, <3>1 DEF Refuse, LimitInv, TypeOK
    <3>2. CASE c = CallerOf(q)
      <4>1. PICK k \in 0..Len(hits[c]) : Len(Rest(hits[c], k)) >= Limit
        BY <1>3, <3>2 DEF Refuse
      <4>2. hits[c] \in Seq(Nat) /\ Limit \in Nat /\ Limit # 0
        BY DEF LimitInv, TypeOK, RateLimitAssumption
      <4>3. Len(hits[c]) # 0
        BY <4>1, <4>2, RestFacts
      <4> QED BY <4>3
    <3> QED BY <3>1, <3>2
  <2> QED BY <1>1, <2>1, <2>2, <2>3 DEF WindowsAreOpened
<1>4. ASSUME NEW q \in Request, ReadClock(q) PROVE \E p \in Request : CallerOf(p) = c /\ pc'[p] = "admitted"
  BY <1>1, <1>4 DEF ReadClock, WindowsAreOpened, LimitInv, TypeOK
<1>5. CASE UNCHANGED <<hits, admitted, pc>>
  BY <1>1, <1>5 DEF WindowsAreOpened
<1> QED BY <1>2, <1>3, <1>4, <1>5 DEF Next, Tick, Answered, vars

LEMMA OpenedByTheAuthorized ==
  ASSUME ApiAssumption, ApiTypeOK, AuthorizedFirst, WindowsAreOpened
  PROVE  WindowsOfKnownCallers
<1>1. SUFFICES ASSUME env.keys # {}, NEW c \in Caller, hits[c] # <<>> \/ admitted[c] # <<>>
               PROVE  /\ \E token \in env.keys : c = <<"tok", token>>
                      /\ \E q \in Request :
                           CallerOf(q) = c /\ pc[q] = "admitted" /\ status[q] \notin {401, 503}
  BY DEF WindowsOfKnownCallers
<1>2. PICK q \in Request : CallerOf(q) = c /\ pc[q] = "admitted"
  BY <1>1 DEF WindowsAreOpened
<1>3. ExtractBearer(Sent(q).authorization) \in env.keys /\ status[q] \notin {401, 503}
  BY <1>1, <1>2 DEF AuthorizedFirst, Authorized
<1>4. None \notin env.keys
  BY DEF ApiAssumption, ApiTypeOK, Environment
<1>5. c = <<"tok", ExtractBearer(Sent(q).authorization)>>
  BY <1>2, <1>3, <1>4 DEF ApiAssumption, CallerKey
<1> QED BY <1>2, <1>3, <1>5

\* With keys configured, the limiter keeps windows for configured tokens only,
\* and counts in them requests that were authorized with them.
THEOREM OnlyKnownCallersAreCounted == ApiSpec => []WindowsOfKnownCallers
<1>1. ApiInit => AuthorizedFirst /\ WindowsAreOpened
  BY RateLimitAssumption DEF ApiInit, Init, AuthorizedFirst, WindowsAreOpened, Behind
<1>2. ApiTypeOK /\ LimitInv /\ AuthorizedFirst /\ WindowsAreOpened /\ [ApiNext]_allVars
        => AuthorizedFirst' /\ WindowsAreOpened'
  BY AuthorizedNext, OpenedNext, StepImplements, RateLimitAssumption DEF LimitInv
<1>3. ApiSpec => []LimitInv
  BY ApiKeepsLimiter, LimitCorrect, PTL
<1>4. ApiTypeOK /\ AuthorizedFirst /\ WindowsAreOpened => WindowsOfKnownCallers
  BY OpenedByTheAuthorized, ApiAssumption
<1> QED BY <1>1, <1>2, <1>3, <1>4, ApiTypeCorrect, PTL DEF ApiSpec

-----------------------------------------------------------------------------
(* Reading back.  An answer of 200 is sent after the rows it speaks of are  *)
(* written; no decision is ever taken away, and no signal row either, but a *)
(* row with an external id is where its deliveries put it: in a workspace   *)
(* and at a pkey that one of them named.                                    *)

Delivers(r, s) == Written(r) /\ Sent(r).external_id = s.external_id

SignalsDelivered ==
  \A s \in signals :
    /\ s = [workspace_key |-> s.workspace_key, pkey |-> s.pkey, external_id |-> s.external_id]
    /\ \E r \in Request : Delivers(r, s) /\ Sent(r).workspace_key = s.workspace_key
    /\ \E r \in Request : Delivers(r, s) /\ Sent(r).pkey = s.pkey

\* A row without an external id stays as it was written.
StillThere(p) ==
  IF Sent(p).external_id = None THEN SignalOf(p) \in signals
  ELSE \E s \in signals : s.external_id = Sent(p).external_id

WritesPrecedeAnswers ==
  \A p \in Request :
    /\ stage[p] \in {"ingesting", "routing", "routed", "stored"} => Sent(p).path = "ingest"
    /\ stage[p] = "routed" \/ Written(p) => listed[p] \subseteq CachedFor(p)
    /\ Written(p) => StillThere(p)
    /\ known[p] \subseteq Acknowledged

ReadBackInv == SignalsDelivered /\ WritesPrecedeAnswers /\ AcknowledgedIsReadable

\* The row of a request that was not displaced is where the request put it.
LEMMA InPlace ==
  ASSUME SignalsDelivered, NEW p \in Request, Written(p), StillThere(p), ~Displaced(p)
  PROVE  \E s \in signals : <<s.workspace_key, s.pkey>> = Place(p)
<1>1. CASE Sent(p).external_id = None
  BY <1>1 DEF StillThere, SignalOf, Place
<1>2. CASE Sent(p).external_id # None
  <2>1. PICK s \in signals : s.external_id = Sent(p).external_id
    BY <1>2 DEF StillThere
  <2>2. PICK r \in Request : Delivers(r, s) /\ Sent(r).workspace_key = s.workspace_key
    BY DEF SignalsDelivered
  <2>3. PICK u \in Request : Delivers(u, s) /\ Sent(u).pkey = s.pkey
    BY DEF SignalsDelivered
  <2>4. Place(r) = Place(p) /\ Place(u) = Place(p)
    BY <1>2, <2>1, <2>2, <2>3 DEF Delivers, Displaced
  <2> QED BY <2>2, <2>3, <2>4 DEF Place
<1> QED BY <1>1, <1>2

\* No step takes back what was written, so who was displaced stays displaced.
LEMMA WrittenStays ==
  ASSUME ApiTypeOK, ReadBackInv, [ApiNext]_allVars, NEW r \in Request
  PROVE  /\ Written(r) => Written(r)'
         /\ Displaced(r) => Displaced(r)'
<1> USE DEF ApiTypeOK, ReadBackInv, WritesPrecedeAnswers, Written, Acknowledged, Advance, Respond
<1>1. ASSUME NEW q \in Request, Answer(q) PROVE \A u \in Request : Written(u) => Written(u)'
  BY <1>1 DEF Answer
<1>2. ASSUME NEW q \in Request,
             \/ Health(q) \/ RequireAuth(q) \/ EnforceRateLimit(q) \/ GetRouter(q) \/ CacheHit(q)
             \/ CacheMiss(q) \/ UpsertSignal(q) \/ LatestSignal(q) \/ Timeline(q) \/ Decisions(q)
             \/ RouterReplies(q) \/ RouterTimesOut(q) \/ StorageFails(q)
      PROVE  \A u \in Request : Written(u) => Written(u)'
  <2>1. /\ stage[q] \notin {"stored", "answered"}
        /\ \A u \in Request \ {q} : stage'[u] = stage[u] /\ status'[u] = status[u]
    BY <1>2 DEF Health, RequireAuth, EnforceRateLimit, GetRouter, CacheHit, CacheMiss, UpsertSignal,
                LatestSignal, Timeline, Decisions, RouterReplies, RouterTimesOut, StorageFails,
                apiVars
  <2>2. ~Written(q)
    BY <2>1
  <2> QED BY <2>1, <2>2
<1>3. ASSUME UNCHANGED apiVars PROVE \A u \in Request : Written(u) => Written(u)'
  <2>1. \A u \in Request : stage'[u] = stage[u] /\ status'[u] = status[u]
    BY <1>3 DEF apiVars
  <2> QED BY <2>1
<1>4. \A u \in Request : Written(u) => Written(u)'
  <2> HIDE DEF Written, Acknowledged, ApiTypeOK, ReadBackInv, WritesPrecedeAnswers
  <2>1. CASE \E q \in Request : Serve(q) \/ RouterReplies(q) \/ StorageFails(q)
    BY <1>1, <1>2, <2>1 DEF Serve, Handle
  <2>2. CASE Finished \/ UNCHANGED allVars \/ UNCHANGED apiVars
    <3>1. UNCHANGED apiVars
      BY <2>2 DEF Finished, allVars
    <3> QED BY <1>3, <3>1
  <2> QED BY <2>1, <2>2 DEF ApiNext
<1> HIDE DEF Written
<1> QED BY <1>4 DEF Displaced

\* The rows stay where deliveries put them, and stay.
LEMMA UpsertKeepsRows ==
  ASSUME ApiTypeOK, ReadBackInv, NEW q \in Request, UpsertSignal(q),
         \A r \in Request : Written(r) => Written(r)'
  PROVE  /\ SignalsDelivered'
         /\ \A p \in Request : Written(p) \/ p = q => StillThere(p)'
<1> DEFINE Moved(s) == [s EXCEPT !.pkey = Sent(q).pkey]
<1>1. Written(q)'
  BY DEF UpsertSignal, Advance, ApiTypeOK, Written
<1>2. /\ SignalOf(q) = [workspace_key |-> Sent(q).workspace_key, pkey |-> Sent(q).pkey,
                        external_id |-> Sent(q).external_id]
      /\ SignalOf(q).external_id = Sent(q).external_id
      /\ SignalOf(q).workspace_key = Sent(q).workspace_key /\ SignalOf(q).pkey = Sent(q).pkey
  BY DEF SignalOf
<1>3. \A s \in signals :
        /\ Moved(s) = [workspace_key |-> s.workspace_key, pkey |-> Sent(q).pkey,
                       external_id |-> s.external_id]
        /\ Moved(s).external_id = s.external_id /\ Moved(s).pkey = Sent(q).pkey
        /\ Moved(s).workspace_key = s.workspace_key
  <2>1. ASSUME NEW s \in signals
        PROVE  Moved(s) = [workspace_key |-> s.workspace_key, pkey |-> Sent(q).pkey,
                           external_id |-> s.external_id]
    <3>1. s = [workspace_key |-> s.workspace_key, pkey |-> s.pkey, external_id |-> s.external_id]
      BY DEF ReadBackInv, SignalsDelivered
    <3> QED BY <3>1
  <2> QED BY <2>1
<1>4. \/ SameExternal(q) = {} /\ signals' = signals \cup {SignalOf(q)}
      \/ SameExternal(q) # {} /\ signals' = (signals \ SameExternal(q))
                                              \cup {Moved(s) : s \in SameExternal(q)}
  BY DEF UpsertSignal
<1>5. \A s \in SameExternal(q) :
        s \in signals /\ Sent(q).external_id # None /\ s.external_id = Sent(q).external_id
  BY DEF SameExternal
<1> HIDE DEF Moved
<1>6. SignalsDelivered'
  <2>1. SUFFICES ASSUME NEW s \in signals'
                 PROVE  /\ s = [workspace_key |-> s.workspace_key, pkey |-> s.pkey,
                                external_id |-> s.external_id]
                        /\ \E r \in Request : Written(r)' /\ Sent(r).external_id = s.external_id
                                              /\ Sent(r).workspace_key = s.workspace_key
                        /\ \E r \in Request : Written(r)' /\ Sent(r).external_id = s.external_id
                                              /\ Sent(r).pkey = s.pkey
    BY DEF SignalsDelivered, Delivers
  <2>2. CASE s \in signals
    BY <2>2 DEF ReadBackInv, SignalsDelivered, Delivers
  <2>3. CASE s = SignalOf(q)
    BY <1>1, <1>2, <2>3
  <2>4. ASSUME NEW old \in SameExternal(q), s = Moved(old)
        PROVE  /\ s = [workspace_key |-> s.workspace_key, pkey |-> s.pkey,
                       external_id |-> s.external_id]
               /\ \E r \in Request : Written(r)' /\ Sent(r).external_id = s.external_id
                                     /\ Sent(r).workspace_key = s.workspace_key
               /\ \E r \in Request : Written(r)' /\ Sent(r).external_id = s.external_id
                                     /\ Sent(r).pkey = s.pkey
    <3>1. PICK r \in Request : Delivers(r, old) /\ Sent(r).workspace_key = old.workspace_key
      BY <1>5, <2>4 DEF ReadBackInv, SignalsDelivered
    <3> QED BY <1>1, <1>3, <1>5, <2>4, <3>1 DEF Delivers
  <2> QED BY <1>4, <2>1, <2>2, <2>3, <2>4
<1>7. ASSUME NEW p \in Request, Written(p) \/ p = q PROVE StillThere(p)'
  <2>1. CASE p = q
    <3>1. CASE SameExternal(q) = {}
      BY <1>2, <1>4, <2>1, <3>1 DEF StillThere
    <3>2. CASE SameExternal(q) # {}
      <4>1. PICK s \in SameExternal(q) : Moved(s) \in signals'
        BY <1>4, <3>2
      <4> QED BY <1>3, <1>5, <2>1, <4>1 DEF StillThere
    <3> QED BY <3>1, <3>2
  <2>2. CASE Written(p) /\ Sent(p).external_id = None
    <3>1. SignalOf(p) \in signals /\ SignalOf(p).external_id = None
      BY <2>2 DEF ReadBackInv, WritesPrecedeAnswers, StillThere, SignalOf
    <3>2. SignalOf(p) \notin SameExternal(q)
      BY <1>5, <3>1
    <3> QED BY <1>4, <2>2, <3>1, <3>2 DEF StillThere, SignalOf
  <2>3. CASE Written(p) /\ Sent(p).external_id # None
    <3>1. PICK s \in signals : s.external_id = Sent(p).external_id
      BY <2>3 DEF ReadBackInv, WritesPrecedeAnswers, StillThere
    <3>2. s \in signals' \/ Moved(s) \in signals'
      BY <1>4
    <3> QED BY <1>3, <2>3, <3>1, <3>2 DEF StillThere
  <2> QED BY <1>7, <2>1, <2>2, <2>3
<1> QED BY <1>6, <1>7

\* A step of q that writes no signal, and answers nothing it should not.
LEMMA StepReadsBack ==
  ASSUME ApiTypeOK, ApiTypeOK', ReadBackInv, [ApiNext]_allVars, NEW q \in Request,
         stage[q] # "answered", UNCHANGED signals, decisions \subseteq decisions',
         \A p \in Request \ {q} : /\ stage'[p] = stage[p] /\ status'[p] = status[p]
                                 /\ listed'[p] = listed[p] /\ known'[p] = known[p],
         known'[q] \subseteq Acknowledged,
         stage'[q] \in {"ingesting", "routing", "routed", "stored"} => Sent(q).path = "ingest",
         stage'[q] = "routed" \/ Written(q)' => listed'[q] \subseteq CachedFor(q)',
         Written(q)' => Written(q),
         \A p \in known'[q] : Place(p) = Place(q) =>
           /\ Sent(q).path = "signals" /\ status'[q] = 404 => Displaced(p)
           /\ Sent(q).path = "decisions" /\ status'[q] = 200 =>
                {d \in listed[p] : d.verdict.canonical_name = Sent(q).canonical_name}
                  \subseteq listed'[q]
  PROVE  ReadBackInv'
<1>1. \A r \in Request : (Written(r) => Written(r)') /\ (Displaced(r) => Displaced(r)')
  BY WrittenStays
<1>2. \A r \in Request : Written(r)' => Written(r)
  BY DEF Written, Acknowledged
<1>3. status[q] = 0 /\ q \notin Acknowledged /\ \A p \in Acknowledged : p # q /\ listed'[p] = listed[p]
  BY DEF ApiTypeOK, Acknowledged
<1>4. Acknowledged \subseteq Acknowledged'
  BY <1>3 DEF Acknowledged
<1>5. \A p \in Request : known'[p] \subseteq Acknowledged
  BY DEF ReadBackInv, WritesPrecedeAnswers
<1>6. SignalsDelivered'
  BY <1>1 DEF ReadBackInv, SignalsDelivered, Delivers
<1>7. WritesPrecedeAnswers'
  <2>1. \A p \in Request : Written(p)' => StillThere(p)'
    BY <1>2 DEF ReadBackInv, WritesPrecedeAnswers, StillThere
  <2>2. \A p \in Request :
          stage'[p] \in {"ingesting", "routing", "routed", "stored"} => Sent(p).path = "ingest"
    BY DEF ReadBackInv, WritesPrecedeAnswers
  <2>3. \A p \in Request : CachedFor(p) \subseteq CachedFor(p)'
    BY DEF CachedFor
  <2>4. \A p \in Request : stage'[p] = "routed" \/ Written(p)' => listed'[p] \subseteq CachedFor(p)'
    BY <1>2, <2>3 DEF ReadBackInv, WritesPrecedeAnswers
  <2> QED BY <1>4, <1>5, <2>1, <2>2, <2>4 DEF WritesPrecedeAnswers
<1>8. AcknowledgedIsReadable'
  <2>1. SUFFICES ASSUME NEW r \in Request, NEW p \in known'[r], Place(p) = Place(r)
                 PROVE  /\ Sent(r).path = "signals" /\ status'[r] = 404 => Displaced(p)'
                        /\ Sent(r).path = "decisions" /\ status'[r] = 200 =>
                             {d \in listed'[p] : d.verdict.canonical_name = Sent(r).canonical_name}
                               \subseteq listed'[r]
    BY DEF AcknowledgedIsReadable
  <2>2. p \in Request /\ listed'[p] = listed[p]
    BY <1>3, <1>5 DEF Acknowledged
  <2>3. CASE r = q
    BY <1>1, <2>1, <2>2, <2>3
  <2>4. CASE r # q
    BY <1>1, <2>1, <2>2, <2>4 DEF ReadBackInv, AcknowledgedIsReadable
  <2> QED BY <2>3, <2>4
<1> QED BY <1>6, <1>7, <1>8 DEF ReadBackInv

LEMMA ReadBackNext ==
  ASSUME ApiTypeOK, ApiTypeOK', ReadBackInv, [ApiNext]_allVars
  PROVE  ReadBackInv'
<1>1. \A r \in Request : (Written(r) => Written(r)') /\ (Displaced(r) => Displaced(r)')
  BY WrittenStays
<1> DEFINE Others(q) ==
      \A p \in Request \ {q} : /\ stage'[p] = stage[p] /\ status'[p] = status[p]
                              /\ listed'[p] = listed[p] /\ known'[p] = known[p]
<1>2. ASSUME NEW q \in Request, UpsertSignal(q) PROVE ReadBackInv'
  <2>1. SignalsDelivered' /\ \A p \in Request : Written(p) \/ p = q => StillThere(p)'
    BY <1>1, <1>2, UpsertKeepsRows
  <2>2. /\ UNCHANGED <<decisions, known, status, listed>> /\ stage[q] = "routed"
        /\ stage' = [stage EXCEPT ![q] = "stored"]
    BY <1>2 DEF UpsertSignal, Advance
  <2>3. \A p \in Request : Written(p)' => Written(p) \/ p = q
    BY <2>2 DEF ApiTypeOK, Written, Acknowledged
  <2>4. WritesPrecedeAnswers'
    BY <2>1, <2>2, <2>3 DEF ApiTypeOK, ReadBackInv, WritesPrecedeAnswers, Acknowledged, CachedFor
  <2>5. AcknowledgedIsReadable'
    <3>1. known' = known /\ status' = status /\ listed' = listed
      BY <2>2
    <3>2. \A r \in Request : known[r] \subseteq Request
      BY DEF ApiTypeOK
    <3> QED BY <1>1, <3>1, <3>2 DEF ReadBackInv, AcknowledgedIsReadable
  <2> QED BY <2>1, <2>4, <2>5 DEF ReadBackInv
<1>3. ASSUME NEW q \in Request,
             \/ Health(q) \/ RequireAuth(q) \/ EnforceRateLimit(q) \/ GetRouter(q) \/ CacheMiss(q)
             \/ RouterTimesOut(q) \/ StorageFails(q) \/ Timeline(q)
      PROVE  ReadBackInv'
  <2>1. /\ stage[q] # "answered" /\ UNCHANGED <<signals, decisions>> /\ Others(q)
        /\ known'[q] \in {known[q], Acknowledged}
    BY <1>3 DEF Health, RequireAuth, EnforceRateLimit, GetRouter, CacheMiss, RouterTimesOut,
                StorageFails, Timeline, Advance, Respond, ApiTypeOK, apiVars
  <2>2. /\ stage'[q] \in {"ingesting", "routing"} => Sent(q).path = "ingest"
        /\ stage'[q] \notin {"routed", "stored"}
        /\ status'[q] = 200 => Sent(q).path \in {"health", "timeline"}
        /\ status'[q] # 404
    BY <1>3 DEF Health, RequireAuth, EnforceRateLimit, GetRouter, CacheMiss, RouterTimesOut,
                StorageFails, Timeline, Advance, Respond, ApiTypeOK, apiVars, ReadBackInv,
                WritesPrecedeAnswers
  <2>3. ~Written(q)'
    BY <2>2 DEF Written, Acknowledged
  <2>4. known'[q] \subseteq Acknowledged
    BY <2>1 DEF ReadBackInv, WritesPrecedeAnswers
  <2> QED BY <2>1, <2>2, <2>3, <2>4, StepReadsBack
<1>4. ASSUME NEW q \in Request, CacheHit(q) \/ RouterReplies(q) PROVE ReadBackInv'
  <2>1. /\ stage[q] \in {"ingesting", "routing"} /\ UNCHANGED signals /\ Others(q)
        /\ decisions \subseteq decisions' /\ known'[q] = known[q]
        /\ stage'[q] \in {"routed", "answered"} /\ status'[q] \in {0, 500}
    BY <1>4 DEF CacheHit, RouterReplies, Respond, ApiTypeOK
  <2>2. Sent(q).path = "ingest" /\ known[q] \subseteq Acknowledged
    BY <2>1 DEF ReadBackInv, WritesPrecedeAnswers
  <2>3. stage'[q] = "routed" => listed'[q] \subseteq CachedFor(q)'
    <3>1. CASE CacheHit(q)
      BY <3>1 DEF CacheHit, CachedFor, ApiTypeOK
    <3>2. CASE RouterReplies(q)
      <4>1. PICK content \in Replies :
              \/ stage' = [stage EXCEPT ![q] = "answered"]
              \/ LET d == [workspace_key |-> Sent(q).workspace_key, pkey |-> Sent(q).pkey, by |-> q,
                           verdict |-> Recorded(Verdicts(content))]
                 IN  decisions' = decisions \cup {d} /\ listed' = [listed EXCEPT ![q] = {d}]
        BY <3>2 DEF RouterReplies, Respond
      <4>2. CASE stage' = [stage EXCEPT ![q] = "answered"]
        BY <4>2 DEF ApiTypeOK
      <4> DEFINE d == [workspace_key |-> Sent(q).workspace_key, pkey |-> Sent(q).pkey, by |-> q,
                       verdict |-> Recorded(Verdicts(content))]
      <4>3. <<d.workspace_key, d.pkey>> = Place(q)
        BY DEF Place
      <4>4. CASE decisions' = decisions \cup {d} /\ listed' = [listed EXCEPT ![q] = {d}]
        <5> HIDE DEF d
        <5> QED BY <4>3, <4>4 DEF CachedFor, ApiTypeOK
      <4> QED BY <4>1, <4>2, <4>4
    <3> QED BY <1>4, <3>1, <3>2
  <2>4. ~Written(q)'
    BY <2>1 DEF Written, Acknowledged
  <2> QED BY <2>1, <2>2, <2>3, <2>4, StepReadsBack
<1>5. ASSUME NEW q \in Request, Answer(q) PROVE ReadBackInv'
  <2>1. /\ stage[q] = "stored" /\ UNCHANGED <<signals, decisions, listed>> /\ Others(q)
        /\ known'[q] = known[q] /\ stage'[q] = "answered" /\ status'[q] = 200
    BY <1>5 DEF Answer, Respond, ApiTypeOK
  <2>2. /\ Sent(q).path = "ingest" /\ known[q] \subseteq Acknowledged
        /\ listed[q] \subseteq CachedFor(q) /\ Written(q)
    BY <2>1 DEF ReadBackInv, WritesPrecedeAnswers, Written
  <2>3. listed'[q] \subseteq CachedFor(q)'
    BY <2>1, <2>2 DEF CachedFor
  <2> QED BY <2>1, <2>2, <2>3, StepReadsBack
<1>6. ASSUME NEW q \in Request, LatestSignal(q) PROVE ReadBackInv'
  <2>1. /\ stage[q] = "handling" /\ UNCHANGED <<signals, decisions>> /\ Others(q)
        /\ known'[q] = known[q] /\ stage'[q] = "answered" /\ Sent(q).path = "signals"
        /\ status'[q] = 404 => ~\E s \in signals : <<s.workspace_key, s.pkey>> = Place(q)
    BY <1>6 DEF LatestSignal, Respond, ApiTypeOK
  <2>2. known[q] \subseteq Acknowledged
    BY DEF ReadBackInv, WritesPrecedeAnswers
  <2>3. ASSUME NEW p \in known[q], Place(p) = Place(q), status'[q] = 404 PROVE Displaced(p)
    <3>1. p \in Request /\ Written(p) /\ StillThere(p)
      BY <2>2 DEF Written, Acknowledged, ReadBackInv, WritesPrecedeAnswers
    <3> QED BY <2>1, <2>3, <3>1, InPlace DEF ReadBackInv
  <2>4. ~Written(q)'
    BY <2>1 DEF Written, Acknowledged
  <2> QED BY <2>1, <2>2, <2>3, <2>4, StepReadsBack
<1>7. ASSUME NEW q \in Request, Decisions(q) PROVE ReadBackInv'
  <2>1. /\ stage[q] = "handling" /\ UNCHANGED <<signals, decisions>> /\ Others(q)
        /\ known'[q] = known[q] /\ stage'[q] = "answered" /\ Sent(q).path = "decisions"
        /\ status'[q] = 200 /\ listed'[q] = HistoryFor(q)
    BY <1>7 DEF Decisions, Respond, ApiTypeOK
  <2>2. known[q] \subseteq Acknowledged
    BY DEF ReadBackInv, WritesPrecedeAnswers
  <2>3. ASSUME NEW p \in known[q], Place(p) = Place(q)
        PROVE  {d \in listed[p] : d.verdict.canonical_name = Sent(q).canonical_name}
                 \subseteq listed'[q]
    <3>1. p \in Request /\ Written(p)
      BY <2>2 DEF Written, Acknowledged
    <3>2. listed[p] \subseteq CachedFor(p)
      BY <3>1 DEF ReadBackInv, WritesPrecedeAnswers
    <3>3. CachedFor(p) = CachedFor(q)
      BY <2>3 DEF CachedFor
    <3> QED BY <2>1, <3>2, <3>3 DEF HistoryFor
  <2>4. ~Written(q)'
    BY <2>1 DEF Written, Acknowledged
  <2> QED BY <2>1, <2>2, <2>3, <2>4, StepReadsBack
<1>8. CASE UNCHANGED apiVars
  BY <1>8 DEF apiVars, ReadBackInv, SignalsDelivered, Delivers, Written, Acknowledged,
              WritesPrecedeAnswers, CachedFor, StillThere, AcknowledgedIsReadable, Displaced
<1>9. CASE \E q \in Request : Serve(q) \/ RouterReplies(q) \/ StorageFails(q)
  BY <1>2, <1>3, <1>4, <1>5, <1>6, <1>7, <1>9 DEF Serve, Handle
<1>10. CASE Finished \/ UNCHANGED allVars
  BY <1>8, <1>10 DEF Finished, allVars
<1> QED BY <1>8, <1>9, <1>10 DEF ApiNext

\* What was acknowledged can be read back by every later request, unless another
\* delivery of the same external row displaced it: the writes come before the
\* answer, whatever the requests in flight, and nothing takes them away.
THEOREM AcknowledgedCanBeRead == ApiSpec => []AcknowledgedIsReadable
<1>1. ApiInit => ReadBackInv
  BY DEF ApiInit, ReadBackInv, SignalsDelivered, WritesPrecedeAnswers, Written, Acknowledged,
         AcknowledgedIsReadable
<1>2. ApiTypeOK /\ ApiTypeOK' /\ ReadBackInv /\ [ApiNext]_allVars => ReadBackInv'
  BY ReadBackNext
<1>3. ReadBackInv => AcknowledgedIsReadable
  BY DEF ReadBackInv
<1> QED BY <1>1, <1>2, <1>3, ApiTypeCorrect, PTL DEF ApiSpec
=============================================================================
