----------------------------- MODULE RateLimit -----------------------------
(***************************************************************************)
(* The in-process rate limiter of the HTTP API (ratelimit.py).  FastAPI    *)
(* runs the dependency in a thread pool, so requests interleave between    *)
(* the two things it does: reading the clock, and the critical section     *)
(* that prunes the caller's window and decides.  A clock reading may thus  *)
(* be old when it is used.                                                 *)
(*                                                                         *)
(* Time is counted in ticks, Second of them to a second.  A limit of zero  *)
(* switches the limiter off and is not modelled.                           *)
(***************************************************************************)
EXTENDS Naturals, Sequences

CONSTANTS
  Request, Caller,
  CallerOf(_),   \* whose window a request counts in: its token, or its host
  Limit,         \* ZIPPER_RATE_LIMIT
  Window,        \* ZIPPER_RATE_WINDOW_S, in ticks
  Second,
  Stall,         \* most ticks between a request's clock reading and its critical section
  MaxTime        \* bound: the last tick

ASSUME RateLimitAssumption ==
  /\ \A q \in Request : CallerOf(q) \in Caller
  /\ Limit \in Nat \ {0} /\ Window \in Nat \ {0} /\ Second \in Nat \ {0}
  /\ Stall \in Nat /\ MaxTime \in Nat

VARIABLES
  clock,      \* time.monotonic()
  pc,         \* where each request stands
  now,        \* the reading each request took
  hits,       \* per caller, the deque of readings in its window
  answer,     \* for a refused request, Retry-After and the admissions before it
  admitted    \* history: every admission of a caller, its reading and its time

vars == <<clock, pc, now, hits, answer, admitted>>

Admission == [stamp : Nat, at : Nat]

NoAnswer == [retry_after |-> 0, seen |-> 0]

Init ==
  /\ clock = 0
  /\ pc = [q \in Request |-> "idle"]
  /\ now = [q \in Request |-> 0]
  /\ hits = [c \in Caller |-> <<>>]
  /\ answer = [q \in Request |-> NoAnswer]
  /\ admitted = [c \in Caller |-> <<>>]

Tick ==
  /\ clock < MaxTime
  /\ \A q \in Request : pc[q] = "timed" => clock < now[q] + Stall
  /\ clock' = clock + 1
  /\ UNCHANGED <<pc, now, hits, answer, admitted>>

ReadClock(q) ==
  /\ pc[q] = "idle"
  /\ now' = [now EXCEPT ![q] = clock]
  /\ pc' = [pc EXCEPT ![q] = "timed"]
  /\ UNCHANGED <<clock, hits, answer, admitted>>

\* Mutant: an entry as old as the window is kept.
PopsLate(b, n, k) ==
  /\ \A i \in 1..k : b[i] + Window < n
  /\ k < Len(b) => b[k + 1] + Window >= n

\* The loop drops the first k entries of deque b: it stops at the first one
\* still in the window, whatever stands behind it.
Pops(b, n, k) ==
  /\ \A i \in 1..k : b[i] + Window <= n
  /\ k < Len(b) => b[k + 1] + Window > n

Rest(b, k) == SubSeq(b, k + 1, Len(b))

\* Mutant: the request that reaches the limit is let through.
AdmitOneMore(q) ==
  LET c == CallerOf(q)
  IN  /\ pc[q] = "timed"
      /\ \E k \in 0..Len(hits[c]) :
           /\ Pops(hits[c], now[q], k) /\ Len(Rest(hits[c], k)) <= Limit
           /\ hits' = [hits EXCEPT ![c] = Append(Rest(@, k), now[q])]
      /\ admitted' = [admitted EXCEPT ![c] = Append(@, [stamp |-> now[q], at |-> clock])]
      /\ pc' = [pc EXCEPT ![q] = "admitted"]
      /\ UNCHANGED <<clock, now, answer>>

Admit(q) ==
  LET c == CallerOf(q)
  IN  /\ pc[q] = "timed"
      /\ \E k \in 0..Len(hits[c]) :
           /\ Pops(hits[c], now[q], k) /\ Len(Rest(hits[c], k)) < Limit
           /\ hits' = [hits EXCEPT ![c] = Append(Rest(@, k), now[q])]
      /\ admitted' = [admitted EXCEPT ![c] = Append(@, [stamp |-> now[q], at |-> clock])]
      /\ pc' = [pc EXCEPT ![q] = "admitted"]
      /\ UNCHANGED <<clock, now, answer>>

\* Mutant: int() instead of math.ceil().
RetryAfterFloor(head, n) ==
  LET left == (head + Window - n) \div Second IN IF left < 1 THEN 1 ELSE left

\* max(1, math.ceil(...)), in seconds.
RetryAfter(head, n) ==
  LET left == (head + Window - n + Second - 1) \div Second IN IF left < 1 THEN 1 ELSE left

\* The refusal leaves the pruned deque behind.
Refuse(q) ==
  LET c == CallerOf(q)
  IN  /\ pc[q] = "timed"
      /\ \E k \in 0..Len(hits[c]) :
           /\ Pops(hits[c], now[q], k) /\ Len(Rest(hits[c], k)) >= Limit
           /\ hits' = [hits EXCEPT ![c] = Rest(@, k)]
           /\ answer' = [answer EXCEPT ![q] =
                [retry_after |-> RetryAfter(hits[c][k + 1], now[q]), seen |-> Len(admitted[c])]]
      /\ pc' = [pc EXCEPT ![q] = "refused"]
      /\ UNCHANGED <<clock, now, admitted>>

Answered ==
  /\ \A q \in Request : pc[q] \in {"admitted", "refused"}
  /\ UNCHANGED vars

Next ==
  \/ Tick
  \/ \E q \in Request : ReadClock(q) \/ Admit(q) \/ Refuse(q)
  \/ Answered

Spec == Init /\ [][Next]_vars

-----------------------------------------------------------------------------

\* The shape of the state; no reading lies in the future, and no window holds
\* more than the limit.
TypeOK ==
  /\ clock \in Nat
  /\ pc \in [Request -> {"idle", "timed", "admitted", "refused"}]
  /\ now \in [Request -> Nat]
  /\ hits \in [Caller -> Seq(Nat)]
  /\ answer \in [Request -> [retry_after : Nat, seen : Nat]]
  /\ admitted \in [Caller -> Seq(Admission)]
  /\ \A q \in Request : now[q] <= clock
  /\ \A c \in Caller : Len(hits[c]) <= Limit

\* What the limiter holds callers to, whatever the threads do: of limit + 1
\* admissions of one caller the last comes at least a window, less the longest
\* stall of a thread, after the first.
Spaced ==
  \A c \in Caller : \A i \in DOMAIN admitted[c] :
    i + Limit \in DOMAIN admitted[c] =>
      admitted[c][i + Limit].at + Stall >= admitted[c][i].at + Window

\* Nobody is throttled for what others did, nor for requests of an earlier
\* window: the last limit admissions of a refused caller all came less than a
\* window before its clock reading, although the deque may be out of order.
RefusalsJustified ==
  \A q \in Request : pc[q] = "refused" =>
    LET log == admitted[CallerOf(q)]
        first == (answer[q].seen + 1) - Limit
    IN  /\ answer[q].seen >= Limit /\ answer[q].seen <= Len(log)
        /\ \A i \in first..answer[q].seen : log[i].at + Window > now[q]

\* The header tells the truth: a caller that waits as long as it was told, and
\* has had no request admitted in between, is not refused again.
RetryAfterHonoured ==
  \A p, q \in Request :
    /\ pc[p] = "refused" /\ pc[q] = "refused" /\ CallerOf(p) = CallerOf(q)
    /\ answer[p].seen = answer[q].seen
    => now[p] < now[q] + answer[q].retry_after * Second
=============================================================================
