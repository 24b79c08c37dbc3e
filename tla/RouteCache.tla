----------------------------- MODULE RouteCache -----------------------------
(***************************************************************************)
(* What the README promises of routing, and nothing else: the decision for *)
(* a (record, source, column) is made once and then reused.  A write-once  *)
(* register per quad.                                                      *)
(***************************************************************************)
CONSTANTS Quads, Name, None

VARIABLE route

Init == route = [q \in Quads |-> None]

Decide(q, n) ==
  /\ route[q] = None
  /\ route' = [route EXCEPT ![q] = n]

Next == \E q \in Quads, n \in Name : Decide(q, n)

Spec == Init /\ [][Next]_route
=============================================================================
