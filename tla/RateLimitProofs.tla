-------------------------- MODULE RateLimitProofs --------------------------
(***************************************************************************)
(* Proofs about the rate limiter, for any number of requests and callers   *)
(* and any limit, window and stall.  The deque of a caller is a suffix of  *)
(* the caller's admissions; what was dropped from it is a window old.      *)
(***************************************************************************)
EXTENDS RateLimit, TLAPS

\* Deque b holds the readings of the admissions in log after the first gone.
IsSuffix(b, log, gone) ==
  /\ Len(b) = Len(log) - gone
  /\ \A i \in 1..Len(b) : b[i] = log[gone + i].stamp

\* The first gone admissions are at least a window old at time t.
AreOld(log, gone, t) ==
  \A i \in 1..gone : i \in 1..Len(log) /\ log[i].stamp + Window <= t

DequesAreSuffixes ==
  \A c \in Caller : \E gone \in Nat :
    IsSuffix(hits[c], admitted[c], gone) /\ AreOld(admitted[c], gone, clock)

\* No reading is older than the longest stall when it is used.
ReadingsFresh ==
  /\ \A q \in Request : pc[q] = "timed" => clock <= now[q] + Stall
  /\ \A c \in Caller : \A i \in DOMAIN admitted[c] :
       /\ admitted[c][i].stamp <= admitted[c][i].at
       /\ admitted[c][i].at <= admitted[c][i].stamp + Stall
       /\ admitted[c][i].at <= clock

\* Admissions are logged in the order they are made.
InOrder ==
  \A c \in Caller : \A i, j \in DOMAIN admitted[c] :
    i <= j => admitted[c][i].at <= admitted[c][j].at

LimitInv == TypeOK /\ DequesAreSuffixes /\ ReadingsFresh /\ InOrder

-----------------------------------------------------------------------------
(* The arithmetic of the header.                                            *)

LEMMA CeilingCovers ==
  ASSUME NEW a \in Nat, NEW s \in Nat \ {0}
  PROVE  /\ (a + s - 1) \div s \in Nat
         /\ a <= ((a + s - 1) \div s) * s
OBVIOUS

LEMMA RetryAfterCovers ==
  ASSUME RateLimitAssumption, NEW head \in Nat, NEW n \in Nat, head + Window > n
  PROVE  /\ RetryAfter(head, n) \in Nat
         /\ head + Window <= n + RetryAfter(head, n) * Second
<1> DEFINE a == head + Window - n
           left == (a + Second - 1) \div Second
<1>1. a \in Nat /\ a + n = head + Window
  BY DEF RateLimitAssumption
<1>2. left \in Nat /\ a <= left * Second
  BY <1>1, CeilingCovers DEF RateLimitAssumption
<1>3. left * Second \in Nat
  BY <1>2 DEF RateLimitAssumption
<1>4. RetryAfter(head, n) = IF left < 1 THEN 1 ELSE left
  BY DEF RetryAfter
<1> HIDE DEF left, a
<1>5. CASE left < 1
  <2>1. left = 0 /\ RetryAfter(head, n) = 1
    BY <1>2, <1>4, <1>5
  <2>2. a <= 0
    BY <1>2, <2>1 DEF RateLimitAssumption
  <2> QED BY <1>1, <2>1, <2>2 DEF RateLimitAssumption
<1>6. CASE ~(left < 1)
  BY <1>1, <1>2, <1>3, <1>4, <1>6 DEF RateLimitAssumption
<1> QED BY <1>5, <1>6

-----------------------------------------------------------------------------
(* The deque, as sequences.                                                 *)

LEMMA RestFacts ==
  ASSUME NEW b \in Seq(Nat), NEW k \in 0..Len(b)
  PROVE  /\ Rest(b, k) \in Seq(Nat)
         /\ Len(Rest(b, k)) = Len(b) - k
         /\ \A i \in 1..(Len(b) - k) : Rest(b, k)[i] = b[k + i]
BY DEF Rest

\* Pruning keeps the deque a suffix, and drops only what is a window old.
LEMMA PruneKeepsSuffix ==
  ASSUME Window \in Nat, NEW log, Len(log) \in Nat, NEW b \in Seq(Nat), NEW gone \in Nat,
         NEW t \in Nat, NEW n \in Nat, n <= t,
         IsSuffix(b, log, gone), AreOld(log, gone, t), NEW k \in 0..Len(b), Pops(b, n, k)
  PROVE  /\ IsSuffix(Rest(b, k), log, gone + k)
         /\ AreOld(log, gone + k, t)
         /\ k < Len(b) => b[k + 1] = log[gone + k + 1].stamp /\ b[k + 1] + Window > n
<1>1. /\ Len(b) \in Nat /\ Len(log) = gone + Len(b)
      /\ \A i \in 1..Len(b) : b[i] = log[gone + i].stamp /\ b[i] \in Nat
  BY DEF IsSuffix
<1>2. IsSuffix(Rest(b, k), log, gone + k)
  <2>1. ASSUME NEW i \in 1..(Len(b) - k) PROVE Rest(b, k)[i] = log[(gone + k) + i].stamp
    <3>1. k + i \in 1..Len(b) /\ gone + (k + i) = (gone + k) + i
      BY <1>1
    <3> QED BY <1>1, <3>1, RestFacts
  <2>2. Len(Rest(b, k)) = Len(b) - k
    BY RestFacts
  <2>3. Len(Rest(b, k)) = Len(log) - (gone + k)
    BY <1>1, <2>2
  <2> QED BY <2>1, <2>2, <2>3 DEF IsSuffix
<1>3. ASSUME NEW i \in 1..(gone + k) PROVE i \in 1..Len(log) /\ log[i].stamp + Window <= t
  <2>1. CASE i <= gone
    BY <2>1 DEF AreOld
  <2>2. CASE ~(i <= gone)
    <3> DEFINE j == i - gone
    <3>1. j \in 1..k /\ j \in 1..Len(b) /\ gone + j = i
      BY <1>1, <2>2
    <3> HIDE DEF j
    <3>2. b[j] + Window <= n
      BY <3>1 DEF Pops
    <3>3. b[j] = log[i].stamp /\ b[j] \in Nat
      BY <1>1, <3>1
    <3>4. log[i].stamp + Window <= t
      BY <3>2, <3>3
    <3> QED BY <1>1, <3>1, <3>4
  <2> QED BY <2>1, <2>2
<1>4. ASSUME k < Len(b) PROVE b[k + 1] = log[gone + k + 1].stamp /\ b[k + 1] + Window > n
  <2>1. k + 1 \in 1..Len(b) /\ gone + (k + 1) = gone + k + 1
    BY <1>1, <1>4
  <2> QED BY <1>1, <1>4, <2>1 DEF Pops
<1> QED BY <1>2, <1>3, <1>4 DEF AreOld

\* An admission joins both ends alike.
LEMMA AppendFacts ==
  ASSUME NEW S, NEW s \in Seq(S), NEW e \in S
  PROVE  /\ Append(s, e) \in Seq(S) /\ Len(s) \in Nat /\ Len(Append(s, e)) = Len(s) + 1
         /\ DOMAIN s = 1..Len(s) /\ DOMAIN Append(s, e) = 1..(Len(s) + 1)
         /\ \A i \in 1..Len(s) : Append(s, e)[i] = s[i] /\ s[i] \in S
         /\ Append(s, e)[Len(s) + 1] = e
OBVIOUS

LEMMA AppendKeepsSuffix ==
  ASSUME NEW log \in Seq(Admission), NEW b \in Seq(Nat), NEW gone \in Nat, NEW t,
         NEW e \in Admission, e.stamp \in Nat, IsSuffix(b, log, gone), AreOld(log, gone, t)
  PROVE  IsSuffix(Append(b, e.stamp), Append(log, e), gone) /\ AreOld(Append(log, e), gone, t)
<1>1. Len(b) \in Nat /\ Len(log) \in Nat /\ Len(log) = gone + Len(b)
  BY DEF IsSuffix
<1>2. ASSUME NEW i \in 1..(Len(b) + 1)
      PROVE  Append(b, e.stamp)[i] = Append(log, e)[gone + i].stamp
  <2>1. CASE i = Len(b) + 1
    BY <1>1, <2>1, AppendFacts
  <2>2. CASE i # Len(b) + 1
    <3>1. i \in 1..Len(b) /\ gone + i \in 1..Len(log)
      BY <1>1, <2>2
    <3> QED BY <3>1, AppendFacts DEF IsSuffix
  <2> QED BY <2>1, <2>2
<1>3. IsSuffix(Append(b, e.stamp), Append(log, e), gone)
  BY <1>1, <1>2, AppendFacts DEF IsSuffix
<1>4. AreOld(Append(log, e), gone, t)
  <2>1. ASSUME NEW i \in 1..gone
        PROVE  i \in 1..Len(Append(log, e)) /\ Append(log, e)[i].stamp + Window <= t
    <3>1. i \in 1..Len(log) /\ log[i].stamp + Window <= t
      BY DEF AreOld
    <3> QED BY <1>1, <3>1, AppendFacts
  <2> QED BY <2>1 DEF AreOld
<1> QED BY <1>3, <1>4

-----------------------------------------------------------------------------
(* What the critical section does, in these terms.                          *)

LEMMA Typing ==
  ASSUME RateLimitAssumption, LimitInv, NEW q \in Request
  PROVE  /\ CallerOf(q) \in Caller /\ clock \in Nat /\ now[q] \in Nat /\ now[q] <= clock
         /\ hits[CallerOf(q)] \in Seq(Nat) /\ Len(hits[CallerOf(q)]) <= Limit
         /\ admitted[CallerOf(q)] \in Seq(Admission)
         /\ Limit \in Nat \ {0} /\ Window \in Nat
BY DEF RateLimitAssumption, LimitInv, TypeOK

LEMMA Elements ==
  ASSUME NEW log \in Seq(Admission)
  PROVE  /\ Len(log) \in Nat /\ DOMAIN log = 1..Len(log)
         /\ \A i \in 1..Len(log) : log[i] \in Admission /\ log[i].stamp \in Nat /\ log[i].at \in Nat
<1>1. \A i \in 1..Len(log) : log[i] \in Admission
  OBVIOUS
<1> QED BY <1>1 DEF Admission

\* An admission's reading joins a pruned deque that is not full.
LEMMA AdmitFacts ==
  ASSUME RateLimitAssumption, LimitInv, NEW q \in Request, Admit(q)
  PROVE  LET c == CallerOf(q)
             e == [stamp |-> now[q], at |-> clock]
         IN  /\ e \in Admission
             /\ admitted' = [admitted EXCEPT ![c] = Append(admitted[c], e)]
             /\ \E b \in Seq(Nat), gone \in Nat :
                  /\ hits' = [hits EXCEPT ![c] = Append(b, now[q])] /\ Len(b) < Limit
                  /\ IsSuffix(b, admitted[c], gone) /\ AreOld(admitted[c], gone, clock)
<1> DEFINE c == CallerOf(q)
<1>1. PICK k \in 0..Len(hits[c]) :
        /\ Pops(hits[c], now[q], k) /\ Len(Rest(hits[c], k)) < Limit
        /\ hits' = [hits EXCEPT ![c] = Append(Rest(hits[c], k), now[q])]
  BY DEF Admit
<1>2. PICK gone \in Nat : IsSuffix(hits[c], admitted[c], gone) /\ AreOld(admitted[c], gone, clock)
  BY Typing DEF LimitInv, DequesAreSuffixes
<1>3. Len(admitted[c]) \in Nat
  BY Typing, Elements
<1>4. /\ IsSuffix(Rest(hits[c], k), admitted[c], gone + k)
      /\ AreOld(admitted[c], gone + k, clock)
  BY <1>1, <1>2, <1>3, Typing, PruneKeepsSuffix
<1>5. Rest(hits[c], k) \in Seq(Nat) /\ gone + k \in Nat
  BY Typing, RestFacts
<1>6. [stamp |-> now[q], at |-> clock] \in Admission
  BY Typing DEF Admission
<1>7. admitted' = [admitted EXCEPT ![c] = Append(admitted[c], [stamp |-> now[q], at |-> clock])]
  BY DEF Admit
<1> QED BY <1>1, <1>4, <1>5, <1>6, <1>7

\* A refusal finds the pruned deque full; its head is the oldest of the last
\* limit admissions.
LEMMA RefuseFacts ==
  ASSUME RateLimitAssumption, LimitInv, NEW q \in Request, Refuse(q)
  PROVE  LET c == CallerOf(q)
             head(gone) == admitted[c][gone + 1].stamp
         IN  \E b \in Seq(Nat), gone \in Nat :
               /\ hits' = [hits EXCEPT ![c] = b] /\ Len(b) = Limit
               /\ IsSuffix(b, admitted[c], gone) /\ AreOld(admitted[c], gone, clock)
               /\ head(gone) \in Nat /\ head(gone) + Window > now[q]
               /\ answer' = [answer EXCEPT ![q] =
                    [retry_after |-> RetryAfter(head(gone), now[q]), seen |-> Len(admitted[c])]]
<1> DEFINE c == CallerOf(q)
<1>1. PICK k \in 0..Len(hits[c]) :
        /\ Pops(hits[c], now[q], k) /\ Len(Rest(hits[c], k)) >= Limit
        /\ hits' = [hits EXCEPT ![c] = Rest(hits[c], k)]
        /\ answer' = [answer EXCEPT ![q] =
             [retry_after |-> RetryAfter(hits[c][k + 1], now[q]), seen |-> Len(admitted[c])]]
  BY DEF Refuse
<1>2. PICK gone \in Nat : IsSuffix(hits[c], admitted[c], gone) /\ AreOld(admitted[c], gone, clock)
  BY Typing DEF LimitInv, DequesAreSuffixes
<1>3. Len(admitted[c]) \in Nat
  BY Typing, Elements
<1>4. /\ IsSuffix(Rest(hits[c], k), admitted[c], gone + k)
      /\ AreOld(admitted[c], gone + k, clock)
      /\ k < Len(hits[c]) => /\ hits[c][k + 1] = admitted[c][gone + k + 1].stamp
                             /\ hits[c][k + 1] + Window > now[q]
  BY <1>1, <1>2, <1>3, Typing, PruneKeepsSuffix
<1>5. /\ Rest(hits[c], k) \in Seq(Nat) /\ gone + k \in Nat
      /\ Len(Rest(hits[c], k)) = Len(hits[c]) - k /\ Len(hits[c]) \in Nat
  <2>1. hits[c] \in Seq(Nat)
    BY Typing
  <2>2. Rest(hits[c], k) \in Seq(Nat) /\ Len(Rest(hits[c], k)) = Len(hits[c]) - k
    BY <2>1, RestFacts
  <2> QED BY <2>1, <2>2
<1>6. Len(Rest(hits[c], k)) = Limit /\ k < Len(hits[c]) /\ k + 1 \in 1..Len(hits[c])
  BY <1>1, <1>5, Typing
<1>7. hits[c][k + 1] \in Nat
  BY <1>6, Typing
<1> QED BY <1>1, <1>4, <1>5, <1>6, <1>7

-----------------------------------------------------------------------------
(* The invariant is inductive.                                              *)

LEMMA LimitInit == RateLimitAssumption /\ Init => LimitInv
<1> SUFFICES ASSUME RateLimitAssumption, Init PROVE LimitInv
  OBVIOUS
<1>1. TypeOK /\ ReadingsFresh /\ InOrder
  BY DEF RateLimitAssumption, Init, TypeOK, NoAnswer, ReadingsFresh, InOrder
<1>2. \A c \in Caller : IsSuffix(hits[c], admitted[c], 0) /\ AreOld(admitted[c], 0, clock)
  BY DEF Init, IsSuffix, AreOld
<1> QED BY <1>1, <1>2 DEF LimitInv, DequesAreSuffixes

LEMMA TypeNext ==
  ASSUME RateLimitAssumption, LimitInv, [Next]_vars
  PROVE  TypeOK'
<1>1. TypeOK /\ Limit \in Nat
  BY DEF LimitInv, RateLimitAssumption
<1>2. ASSUME NEW q \in Request, Admit(q) PROVE TypeOK'
  <2> DEFINE e == [stamp |-> now[q], at |-> clock]
             c == CallerOf(q)
  <2>1. e \in Admission /\ admitted' = [admitted EXCEPT ![c] = Append(admitted[c], e)]
    BY <1>2, AdmitFacts
  <2>2. admitted[c] \in Seq(Admission) /\ now[q] \in Nat /\ c \in Caller
    BY Typing
  <2>3. Append(admitted[c], e) \in Seq(Admission)
    BY <2>1, <2>2, AppendFacts
  <2>4. admitted' \in [Caller -> Seq(Admission)]
    BY <1>1, <2>1, <2>3 DEF TypeOK
  <2>5. PICK b \in Seq(Nat) : hits' = [hits EXCEPT ![c] = Append(b, now[q])] /\ Len(b) < Limit
    BY <1>2, AdmitFacts
  <2>6. /\ Append(b, now[q]) \in Seq(Nat) /\ Len(b) \in Nat
        /\ Len(Append(b, now[q])) = Len(b) + 1
    BY <2>2, AppendFacts
  <2>7. hits' \in [Caller -> Seq(Nat)] /\ \A x \in Caller : Len(hits'[x]) <= Limit
    BY <1>1, <2>2, <2>5, <2>6 DEF TypeOK
  <2> QED BY <1>1, <1>2, <2>4, <2>7 DEF TypeOK, Admit
<1>3. ASSUME NEW q \in Request, Refuse(q) PROVE TypeOK'
  <2> DEFINE c == CallerOf(q)
  <2>1. PICK b \in Seq(Nat), head \in Nat :
          /\ hits' = [hits EXCEPT ![c] = b] /\ Len(b) = Limit
          /\ head + Window > now[q]
          /\ answer' = [answer EXCEPT ![q] =
               [retry_after |-> RetryAfter(head, now[q]), seen |-> Len(admitted[c])]]
    BY <1>3, RefuseFacts
  <2>2. c \in Caller /\ now[q] \in Nat /\ Len(admitted[c]) \in Nat
    BY Typing, Elements
  <2>3. hits' \in [Caller -> Seq(Nat)] /\ \A x \in Caller : Len(hits'[x]) <= Limit
    BY <1>1, <2>1, <2>2 DEF TypeOK
  <2>4. RetryAfter(head, now[q]) \in Nat
    BY <2>1, <2>2, RetryAfterCovers
  <2>5. answer' \in [Request -> [retry_after : Nat, seen : Nat]]
    BY <1>1, <2>1, <2>2, <2>4 DEF TypeOK
  <2> QED BY <1>1, <1>3, <2>3, <2>5 DEF TypeOK, Refuse
<1>4. CASE Tick
  BY <1>1, <1>4 DEF TypeOK, Tick
<1>5. ASSUME NEW q \in Request, ReadClock(q) PROVE TypeOK'
  BY <1>1, <1>5 DEF TypeOK, ReadClock
<1>6. CASE UNCHANGED vars
  BY <1>1, <1>6 DEF TypeOK, vars
<1> QED BY <1>2, <1>3, <1>4, <1>5, <1>6 DEF Next, Answered

LEMMA SuffixNext ==
  ASSUME RateLimitAssumption, LimitInv, [Next]_vars
  PROVE  DequesAreSuffixes'
<1> DEFINE Kept(b, log, t) == \E gone \in Nat : IsSuffix(b, log, gone) /\ AreOld(log, gone, t)
<1>1. SUFFICES ASSUME NEW x \in Caller PROVE Kept(hits'[x], admitted'[x], clock')
  BY DEF DequesAreSuffixes
<1>2. Kept(hits[x], admitted[x], clock) /\ TypeOK
  BY DEF LimitInv, DequesAreSuffixes
<1>3. CASE UNCHANGED <<hits[x], admitted[x], clock>>
  BY <1>2, <1>3
<1>4. CASE Tick
  <2>1. PICK gone \in Nat : IsSuffix(hits[x], admitted[x], gone) /\ AreOld(admitted[x], gone, clock)
    BY <1>2
  <2>2. clock \in Nat /\ Window \in Nat /\ admitted[x] \in Seq(Admission)
        /\ clock' = clock + 1 /\ hits' = hits /\ admitted' = admitted
    BY <1>2, <1>4 DEF TypeOK, Tick, RateLimitAssumption
  <2>3. AreOld(admitted[x], gone, clock + 1)
    BY <2>1, <2>2, Elements DEF AreOld
  <2> QED BY <2>1, <2>2, <2>3
<1>5. ASSUME NEW q \in Request, Admit(q), CallerOf(q) = x
      PROVE  Kept(hits'[x], admitted'[x], clock')
  <2> DEFINE e == [stamp |-> now[q], at |-> clock]
  <2>1. PICK b \in Seq(Nat), gone \in Nat :
          /\ hits' = [hits EXCEPT ![x] = Append(b, now[q])]
          /\ IsSuffix(b, admitted[x], gone) /\ AreOld(admitted[x], gone, clock)
    BY <1>5, AdmitFacts
  <2>2. e \in Admission /\ admitted' = [admitted EXCEPT ![x] = Append(admitted[x], e)]
    BY <1>5, AdmitFacts
  <2>3. e.stamp = now[q] /\ now[q] \in Nat /\ admitted[x] \in Seq(Admission) /\ clock' = clock
    BY <1>2, <1>5, Typing DEF Admit
  <2>4. /\ IsSuffix(Append(b, e.stamp), Append(admitted[x], e), gone)
        /\ AreOld(Append(admitted[x], e), gone, clock)
    BY <2>1, <2>2, <2>3, AppendKeepsSuffix
  <2>5. hits'[x] = Append(b, e.stamp) /\ admitted'[x] = Append(admitted[x], e)
    BY <1>2, <2>1, <2>2, <2>3 DEF TypeOK
  <2> QED BY <2>3, <2>4, <2>5
<1>6. ASSUME NEW q \in Request, Refuse(q), CallerOf(q) = x
      PROVE  Kept(hits'[x], admitted'[x], clock')
  <2>1. PICK b \in Seq(Nat), gone \in Nat :
          /\ hits' = [hits EXCEPT ![x] = b]
          /\ IsSuffix(b, admitted[x], gone) /\ AreOld(admitted[x], gone, clock)
    BY <1>6, RefuseFacts
  <2>2. hits'[x] = b /\ admitted' = admitted /\ clock' = clock
    BY <1>2, <1>6, <2>1 DEF TypeOK, Refuse
  <2> QED BY <2>1, <2>2
<1>7. ASSUME NEW q \in Request, Admit(q) \/ Refuse(q), CallerOf(q) # x
      PROVE  UNCHANGED <<hits[x], admitted[x], clock>>
  BY <1>2, <1>7, Typing DEF Admit, Refuse, TypeOK
<1>8. CASE (\E q \in Request : ReadClock(q)) \/ UNCHANGED vars
  BY <1>3, <1>8 DEF ReadClock, vars
<1> QED BY <1>3, <1>4, <1>5, <1>6, <1>7, <1>8 DEF Next, Answered

\* Every admission of the next state is an old one, or the one just made.
LEMMA LogNext ==
  ASSUME RateLimitAssumption, LimitInv, [Next]_vars, NEW c \in Caller
  PROVE  \/ admitted'[c] = admitted[c] /\ clock \in Nat /\ clock' \in {clock, clock + 1}
         \/ \E q \in Request :
              /\ Admit(q) /\ CallerOf(q) = c /\ clock' = clock
              /\ DOMAIN admitted'[c] = 1..(Len(admitted[c]) + 1)
              /\ \A i \in 1..Len(admitted[c]) : admitted'[c][i] = admitted[c][i]
              /\ admitted'[c][Len(admitted[c]) + 1] = [stamp |-> now[q], at |-> clock]
<1>1. TypeOK
  BY DEF LimitInv
<1>2. ASSUME NEW q \in Request, Admit(q), CallerOf(q) = c
      PROVE  /\ clock' = clock
             /\ DOMAIN admitted'[c] = 1..(Len(admitted[c]) + 1)
             /\ \A i \in 1..Len(admitted[c]) : admitted'[c][i] = admitted[c][i]
             /\ admitted'[c][Len(admitted[c]) + 1] = [stamp |-> now[q], at |-> clock]
  <2> DEFINE e == [stamp |-> now[q], at |-> clock]
  <2>1. e \in Admission /\ admitted' = [admitted EXCEPT ![c] = Append(admitted[c], e)]
    BY <1>2, AdmitFacts
  <2>2. admitted[c] \in Seq(Admission) /\ admitted'[c] = Append(admitted[c], e)
    BY <1>1, <2>1 DEF TypeOK
  <2> QED BY <1>2, <2>1, <2>2, AppendFacts DEF Admit
<1>3. ASSUME NEW q \in Request, Admit(q), CallerOf(q) # c
      PROVE  admitted'[c] = admitted[c] /\ clock' = clock
  BY <1>1, <1>3, Typing DEF Admit, TypeOK
<1>4. CASE UNCHANGED <<admitted, clock>> \/ Tick
  BY <1>1, <1>4 DEF Tick, TypeOK
<1> QED BY <1>1, <1>2, <1>3, <1>4 DEF Next, Answered, vars, ReadClock, Refuse, TypeOK

LEMMA FreshNext ==
  ASSUME RateLimitAssumption, LimitInv, [Next]_vars
  PROVE  ReadingsFresh'
<1>1. ReadingsFresh /\ TypeOK /\ Stall \in Nat
  BY DEF LimitInv, RateLimitAssumption
<1>2. \A q \in Request : pc'[q] = "timed" => clock' <= now'[q] + Stall
  <2>1. SUFFICES ASSUME NEW q \in Request, pc'[q] = "timed" PROVE clock' <= now'[q] + Stall
    OBVIOUS
  <2>2. CASE Tick
    <3>1. clock < now[q] + Stall /\ clock \in Nat /\ now[q] \in Nat /\ clock' = clock + 1
          /\ now' = now
      BY <1>1, <2>1, <2>2 DEF Tick, TypeOK
    <3> QED BY <1>1, <3>1
  <2>3. ASSUME NEW p \in Request, ReadClock(p) PROVE clock' <= now'[q] + Stall
    BY <1>1, <2>1, <2>3 DEF ReadClock, TypeOK, ReadingsFresh
  <2>4. ASSUME NEW p \in Request, Admit(p) \/ Refuse(p) PROVE clock' <= now'[q] + Stall
    BY <1>1, <2>1, <2>4 DEF Admit, Refuse, TypeOK, ReadingsFresh
  <2>5. CASE UNCHANGED vars
    BY <1>1, <2>1, <2>5 DEF vars, ReadingsFresh
  <2> QED BY <2>2, <2>3, <2>4, <2>5 DEF Next, Answered
<1> DEFINE Fresh(e, t) == e.stamp <= e.at /\ e.at <= e.stamp + Stall /\ e.at <= t
<1>3. ASSUME NEW c \in Caller, NEW i \in DOMAIN admitted'[c]
      PROVE  Fresh(admitted'[c][i], clock')
  <2>1. admitted[c] \in Seq(Admission)
    BY <1>1 DEF TypeOK
  <2>2. \A j \in DOMAIN admitted[c] : Fresh(admitted[c][j], clock) /\ admitted[c][j].at \in Nat
    BY <1>1, <2>1, Elements DEF ReadingsFresh
  <2>3. CASE admitted'[c] = admitted[c] /\ clock \in Nat /\ clock' \in {clock, clock + 1}
    BY <2>2, <2>3
  <2>4. ASSUME NEW q \in Request, Admit(q), clock' = clock,
               DOMAIN admitted'[c] = 1..(Len(admitted[c]) + 1),
               \A j \in 1..Len(admitted[c]) : admitted'[c][j] = admitted[c][j],
               admitted'[c][Len(admitted[c]) + 1] = [stamp |-> now[q], at |-> clock]
        PROVE  Fresh(admitted'[c][i], clock')
    <3>1. Fresh([stamp |-> now[q], at |-> clock], clock)
      BY <1>1, <2>4, Typing DEF Admit, ReadingsFresh
    <3>2. Len(admitted[c]) \in Nat /\ DOMAIN admitted[c] = 1..Len(admitted[c])
      BY <2>1
    <3>3. CASE i = Len(admitted[c]) + 1
      BY <2>4, <3>1, <3>3
    <3>4. CASE i # Len(admitted[c]) + 1
      <4>1. i \in 1..Len(admitted[c])
        BY <2>4, <3>2, <3>4
      <4> QED BY <2>2, <2>4, <3>2, <4>1
    <3> QED BY <3>3, <3>4
  <2> QED BY <2>3, <2>4, LogNext
<1> QED BY <1>2, <1>3 DEF ReadingsFresh

LEMMA OrderNext ==
  ASSUME RateLimitAssumption, LimitInv, [Next]_vars
  PROVE  InOrder'
<1>1. SUFFICES ASSUME NEW c \in Caller, NEW i \in DOMAIN admitted'[c],
                      NEW j \in DOMAIN admitted'[c], i <= j
               PROVE  admitted'[c][i].at <= admitted'[c][j].at
  BY DEF InOrder
<1>2. admitted[c] \in Seq(Admission) /\ clock \in Nat
  BY DEF LimitInv, TypeOK
<1>3. \A k, m \in DOMAIN admitted[c] : k <= m => admitted[c][k].at <= admitted[c][m].at
  BY DEF LimitInv, InOrder
<1>4. \A k \in 1..Len(admitted[c]) : admitted[c][k].at <= clock
  BY <1>2, Elements DEF LimitInv, ReadingsFresh
<1>5. CASE admitted'[c] = admitted[c]
  BY <1>1, <1>3, <1>5
<1>6. ASSUME NEW q \in Request,
             DOMAIN admitted'[c] = 1..(Len(admitted[c]) + 1),
             \A k \in 1..Len(admitted[c]) : admitted'[c][k] = admitted[c][k],
             admitted'[c][Len(admitted[c]) + 1] = [stamp |-> now[q], at |-> clock]
      PROVE  admitted'[c][i].at <= admitted'[c][j].at
  <2>1. Len(admitted[c]) \in Nat /\ DOMAIN admitted[c] = 1..Len(admitted[c])
    BY <1>2
  <2>2. CASE j = Len(admitted[c]) + 1
    <3>1. admitted'[c][j].at = clock
      BY <1>6, <2>2
    <3>2. i = j \/ i \in 1..Len(admitted[c])
      BY <1>1, <1>6, <2>1, <2>2
    <3> QED BY <1>2, <1>4, <1>6, <3>1, <3>2
  <2>3. CASE j # Len(admitted[c]) + 1
    <3>1. i \in 1..Len(admitted[c]) /\ j \in 1..Len(admitted[c])
      BY <1>1, <1>6, <2>1, <2>3
    <3> QED BY <1>1, <1>3, <1>6, <2>1, <3>1
  <2> QED BY <2>2, <2>3
<1> QED BY <1>5, <1>6, LogNext

\* The shape of the state, and what it takes to know what a deque stands for.
THEOREM LimitCorrect == Spec => []LimitInv
<1>1. Init => LimitInv
  BY LimitInit, RateLimitAssumption
<1>2. LimitInv /\ [Next]_vars => LimitInv'
  BY TypeNext, SuffixNext, FreshNext, OrderNext, RateLimitAssumption DEF LimitInv
<1> QED BY <1>1, <1>2, PTL DEF Spec

\* No window holds more than the limit, and no reading lies in the future.
THEOREM LimiterTypeCorrect == Spec => []TypeOK
<1>1. LimitInv => TypeOK
  BY DEF LimitInv
<1> QED BY <1>1, LimitCorrect, PTL

-----------------------------------------------------------------------------
(* The limit.  When a request is admitted, the admission that is limit places *)
(* before it has been dropped from the deque, so it is a window old.          *)

LEMMA SpacedNext ==
  ASSUME RateLimitAssumption, LimitInv, Spaced, [Next]_vars
  PROVE  Spaced'
<1>1. SUFFICES ASSUME NEW c \in Caller, NEW i \in DOMAIN admitted'[c],
                      i + Limit \in DOMAIN admitted'[c]
               PROVE  admitted'[c][i + Limit].at + Stall >= admitted'[c][i].at + Window
  BY DEF Spaced
<1> DEFINE log == admitted[c]
           n == Len(log)
<1>2. clock \in Nat /\ Limit \in Nat /\ Limit # 0 /\ Window \in Nat /\ Stall \in Nat
  BY DEF LimitInv, TypeOK, RateLimitAssumption
<1>3. n \in Nat /\ DOMAIN log = 1..n
      /\ \A k \in 1..n : log[k].stamp \in Nat /\ log[k].at \in Nat
  <2>1. log \in Seq(Admission)
    BY DEF LimitInv, TypeOK
  <2> QED BY <2>1, Elements
<1>4. \A k \in DOMAIN log : k + Limit \in DOMAIN log => log[k + Limit].at + Stall >= log[k].at + Window
  BY DEF Spaced
<1> HIDE DEF log, n
<1>5. CASE admitted'[c] = log
  BY <1>1, <1>4, <1>5
<1>6. ASSUME NEW q \in Request, Admit(q), CallerOf(q) = c,
             DOMAIN admitted'[c] = 1..(n + 1),
             \A k \in 1..n : admitted'[c][k] = log[k],
             admitted'[c][n + 1] = [stamp |-> now[q], at |-> clock]
      PROVE  admitted'[c][i + Limit].at + Stall >= admitted'[c][i].at + Window
  <2>1. i \in 1..n /\ i + Limit \in 1..(n + 1)
    BY <1>1, <1>2, <1>3, <1>6
  <2>2. CASE i + Limit # n + 1
    <3>1. i + Limit \in 1..n
      BY <1>2, <1>3, <2>1, <2>2
    <3>2. admitted'[c][i] = log[i] /\ admitted'[c][i + Limit] = log[i + Limit]
      BY <1>6, <2>1, <3>1
    <3>3. log[i + Limit].at + Stall >= log[i].at + Window
      BY <1>3, <1>4, <2>1, <3>1
    <3> QED BY <3>2, <3>3
  <2>3. CASE i + Limit = n + 1
    <3>1. PICK b \in Seq(Nat), gone \in Nat :
            Len(b) < Limit /\ IsSuffix(b, log, gone) /\ AreOld(log, gone, clock)
      BY <1>6, AdmitFacts DEF log
    <3>2. i <= gone
      <4>1. Len(b) = n - gone /\ Len(b) \in Nat
        BY <3>1 DEF IsSuffix, n
      <4> QED BY <1>2, <1>3, <2>1, <2>3, <3>1, <4>1
    <3>3. log[i].stamp + Window <= clock
      BY <2>1, <3>1, <3>2 DEF AreOld
    <3>4. log[i].at <= log[i].stamp + Stall
      BY <1>3, <2>1 DEF LimitInv, ReadingsFresh, log
    <3>5. log[i].stamp \in Nat /\ log[i].at \in Nat
      BY <1>3, <2>1
    <3>6. admitted'[c][i] = log[i]
      BY <1>6, <2>1
    <3>7. admitted'[c][i + Limit].at = clock
      BY <1>6, <2>3
    <3>8. clock + Stall >= log[i].at + Window
      BY <1>2, <3>3, <3>4, <3>5
    <3> QED BY <3>6, <3>7, <3>8
  <2> QED BY <2>2, <2>3
<1> QED BY <1>5, <1>6, LogNext DEF log, n

\* Of limit + 1 admissions of a caller the last comes at least a window, less
\* the longest stall, after the first, for every number of threads.
THEOREM AdmissionsAreSpaced == Spec => []Spaced
<1>1. Init => Spaced
  BY DEF Init, Spaced
<1>2. LimitInv /\ Spaced /\ [Next]_vars => Spaced'
  BY SpacedNext, RateLimitAssumption
<1> QED BY <1>1, <1>2, LimitCorrect, PTL DEF Spec

-----------------------------------------------------------------------------
(* Refusals.                                                                *)

\* A refusal was decided, and its header computed, from the oldest of the last
\* limit admissions.
RefusedOn(n, retry_after, head) ==
  /\ head + Window > n
  /\ head + Window <= n + retry_after * Second

RefusalsHaveHead ==
  \A q \in Request : pc[q] = "refused" =>
    /\ answer[q].seen >= Limit /\ answer[q].seen <= Len(admitted[CallerOf(q)])
    /\ RefusedOn(now[q], answer[q].retry_after,
                 admitted[CallerOf(q)][(answer[q].seen + 1) - Limit].stamp)

LEMMA RefusalsNext ==
  ASSUME RateLimitAssumption, LimitInv, RefusalsHaveHead, [Next]_vars
  PROVE  RefusalsHaveHead'
<1>1. SUFFICES ASSUME NEW q \in Request, pc'[q] = "refused"
               PROVE  /\ answer'[q].seen >= Limit
                      /\ answer'[q].seen <= Len(admitted'[CallerOf(q)])
                      /\ RefusedOn(now'[q], answer'[q].retry_after,
                                   admitted'[CallerOf(q)][(answer'[q].seen + 1) - Limit].stamp)
  BY DEF RefusalsHaveHead
<1> DEFINE c == CallerOf(q)
           log == admitted[c]
<1>2. TypeOK /\ c \in Caller /\ now[q] \in Nat /\ Limit \in Nat \ {0} /\ Len(log) \in Nat
  BY Typing, Elements DEF LimitInv
<1>3. CASE Refuse(q)
  <2>1. PICK b \in Seq(Nat), gone \in Nat :
          /\ Len(b) = Limit /\ IsSuffix(b, log, gone)
          /\ log[gone + 1].stamp \in Nat /\ log[gone + 1].stamp + Window > now[q]
          /\ answer' = [answer EXCEPT ![q] =
               [retry_after |-> RetryAfter(log[gone + 1].stamp, now[q]), seen |-> Len(log)]]
    BY <1>3, RefuseFacts
  <2>2. gone + 1 = (Len(log) + 1) - Limit /\ Len(log) >= Limit
    <3>1. Len(log) - gone = Limit
      BY <2>1 DEF IsSuffix
    <3> HIDE DEF log
    <3> QED BY <1>2, <3>1
  <2>3. log[gone + 1].stamp + Window
          <= now[q] + RetryAfter(log[gone + 1].stamp, now[q]) * Second
    BY <1>2, <2>1, RetryAfterCovers
  <2>4. answer'[q].seen = Len(log) /\ answer'[q].retry_after = RetryAfter(log[gone + 1].stamp, now[q])
        /\ admitted' = admitted /\ now' = now
    BY <1>2, <1>3, <2>1 DEF TypeOK, Refuse
  <2>5. RefusedOn(now[q], RetryAfter(log[gone + 1].stamp, now[q]), log[gone + 1].stamp)
    BY <2>1, <2>3 DEF RefusedOn
  <2> QED BY <1>2, <2>2, <2>4, <2>5
<1>4. CASE ~Refuse(q)
  <2>1. pc[q] = "refused" /\ answer'[q] = answer[q] /\ now'[q] = now[q]
    BY <1>1, <1>2, <1>4 DEF Next, Tick, ReadClock, Admit, Refuse, Answered, vars, TypeOK
  <2>2. /\ answer[q].seen >= Limit /\ answer[q].seen <= Len(log) /\ answer[q].seen \in Nat
        /\ RefusedOn(now[q], answer[q].retry_after, log[(answer[q].seen + 1) - Limit].stamp)
    BY <1>2, <2>1 DEF RefusalsHaveHead, TypeOK
  <2>3. (answer[q].seen + 1) - Limit \in 1..Len(log)
    BY <1>2, <2>2
  <2>4. Len(admitted'[c]) >= Len(log) /\ \A i \in 1..Len(log) : admitted'[c][i] = log[i]
    <3>1. TypeOK'
      BY TypeNext
    <3>2. admitted'[c] \in Seq(Admission)
      BY <1>2, <3>1 DEF TypeOK
    <3>3. DOMAIN admitted'[c] = 1..Len(admitted'[c]) /\ Len(admitted'[c]) \in Nat
      BY <3>2, Elements
    <3>4. CASE admitted'[c] = log
      BY <1>2, <3>4
    <3>5. ASSUME DOMAIN admitted'[c] = 1..(Len(log) + 1),
                 \A i \in 1..Len(log) : admitted'[c][i] = log[i]
          PROVE  Len(admitted'[c]) >= Len(log)
      <4>1. Len(log) + 1 \in 1..Len(admitted'[c])
        BY <1>2, <3>3, <3>5
      <4> QED BY <1>2, <3>3, <4>1
    <3> QED BY <1>2, <3>4, <3>5, LogNext
  <2>5. answer'[q].seen <= Len(admitted'[c])
    <3>1. TypeOK'
      BY TypeNext
    <3>2. admitted'[c] \in Seq(Admission)
      BY <1>2, <3>1 DEF TypeOK
    <3>3. Len(admitted'[c]) \in Nat
      BY <3>2, Elements
    <3>4. answer[q].seen \in Nat /\ answer[q].seen <= Len(log) /\ Len(log) <= Len(admitted'[c])
      BY <2>2, <2>4
    <3>5. answer[q].seen <= Len(admitted'[c])
      BY <1>2, <3>3, <3>4
    <3> QED BY <2>1, <3>5
  <2>6. admitted'[c][(answer[q].seen + 1) - Limit] = log[(answer[q].seen + 1) - Limit]
    BY <2>3, <2>4
  <2> QED BY <2>1, <2>2, <2>5, <2>6
<1> QED BY <1>3, <1>4

\* Behind every refusal stands the reading at the head of a full deque.
THEOREM RefusalsHaveHeads == Spec => []RefusalsHaveHead
<1>1. Init => RefusalsHaveHead
  BY DEF Init, RefusalsHaveHead
<1>2. LimitInv /\ RefusalsHaveHead /\ [Next]_vars => RefusalsHaveHead'
  BY RefusalsNext, RateLimitAssumption
<1> QED BY <1>1, <1>2, LimitCorrect, PTL DEF Spec

LEMMA HeadJustifies ==
  ASSUME RateLimitAssumption, LimitInv, RefusalsHaveHead
  PROVE  RefusalsJustified
<1>1. SUFFICES ASSUME NEW q \in Request, pc[q] = "refused",
                      NEW i \in ((answer[q].seen + 1) - Limit)..answer[q].seen
               PROVE  /\ answer[q].seen >= Limit /\ answer[q].seen <= Len(admitted[CallerOf(q)])
                      /\ admitted[CallerOf(q)][i].at + Window > now[q]
  <2>1. RefusalsHaveHead => \A q \in Request : pc[q] = "refused" =>
          answer[q].seen >= Limit /\ answer[q].seen <= Len(admitted[CallerOf(q)])
    BY DEF RefusalsHaveHead
  <2> QED BY <2>1 DEF RefusalsJustified
<1> DEFINE log == admitted[CallerOf(q)]
           first == (answer[q].seen + 1) - Limit
<1>2. /\ answer[q].seen >= Limit /\ answer[q].seen <= Len(log)
      /\ RefusedOn(now[q], answer[q].retry_after, log[first].stamp)
  BY <1>1 DEF RefusalsHaveHead
<1>3. answer[q].seen \in Nat /\ now[q] \in Nat /\ Limit \in Nat /\ Limit # 0 /\ Window \in Nat
  BY DEF LimitInv, TypeOK, RateLimitAssumption
<1>4. Len(log) \in Nat /\ DOMAIN log = 1..Len(log)
      /\ \A k \in 1..Len(log) : log[k].stamp \in Nat /\ log[k].at \in Nat
  BY Typing, Elements
<1>5. CallerOf(q) \in Caller
  BY DEF RateLimitAssumption
<1>6. \A j, k \in 1..Len(log) : log[j].stamp <= log[j].at /\ (j <= k => log[j].at <= log[k].at)
  BY <1>4, <1>5 DEF LimitInv, ReadingsFresh, InOrder
<1> HIDE DEF log
<1>7. first \in 1..Len(log) /\ i \in 1..Len(log) /\ first <= i
  BY <1>1, <1>2, <1>3, <1>4
<1>8. log[first].stamp <= log[first].at /\ log[first].at <= log[i].at
      /\ log[first].stamp \in Nat /\ log[first].at \in Nat /\ log[i].at \in Nat
  BY <1>4, <1>6, <1>7
<1>9. log[first].stamp + Window > now[q]
  BY <1>2 DEF RefusedOn
<1>10. log[i].at + Window > now[q]
  BY <1>3, <1>8, <1>9
<1> QED BY <1>2, <1>10 DEF log

\* Whoever is refused had limit requests admitted less than a window before.
THEOREM NobodyIsThrottledUnjustly == Spec => []RefusalsJustified
BY RefusalsHaveHeads, LimitCorrect, HeadJustifies, RateLimitAssumption, PTL

LEMMA HeadHonoured ==
  ASSUME RateLimitAssumption, LimitInv, RefusalsHaveHead
  PROVE  RetryAfterHonoured
<1>1. SUFFICES ASSUME NEW p \in Request, NEW q \in Request, pc[p] = "refused", pc[q] = "refused",
                      CallerOf(p) = CallerOf(q), answer[p].seen = answer[q].seen
               PROVE  now[p] < now[q] + answer[q].retry_after * Second
  BY DEF RetryAfterHonoured
<1> DEFINE head == admitted[CallerOf(q)][(answer[q].seen + 1) - Limit].stamp
<1>2. head + Window > now[p] /\ head + Window <= now[q] + answer[q].retry_after * Second
  BY <1>1 DEF RefusalsHaveHead, RefusedOn
<1>3. now[p] \in Nat /\ now[q] \in Nat /\ Window \in Nat /\ Second \in Nat
      /\ answer[q].retry_after \in Nat
  BY DEF LimitInv, TypeOK, RateLimitAssumption
<1>4. answer[q].retry_after * Second \in Nat
  BY <1>3
<1>5. head \in Nat
  <2>1. /\ answer[q].seen \in Nat /\ answer[q].seen >= Limit
        /\ answer[q].seen <= Len(admitted[CallerOf(q)]) /\ Limit \in Nat /\ Limit # 0
    BY <1>1 DEF RefusalsHaveHead, LimitInv, TypeOK, RateLimitAssumption
  <2>2. Len(admitted[CallerOf(q)]) \in Nat
        /\ \A k \in 1..Len(admitted[CallerOf(q)]) : admitted[CallerOf(q)][k].stamp \in Nat
    BY Typing, Elements
  <2>3. (answer[q].seen + 1) - Limit \in 1..Len(admitted[CallerOf(q)])
    BY <2>1, <2>2
  <2> QED BY <2>2, <2>3
<1> HIDE DEF head
<1> QED BY <1>2, <1>3, <1>4, <1>5

\* A caller that waits out its Retry-After, with nothing admitted in between, is
\* not refused again.
THEOREM RetryAfterIsHonest == Spec => []RetryAfterHonoured
BY RefusalsHaveHeads, LimitCorrect, HeadHonoured, RateLimitAssumption, PTL

=============================================================================
