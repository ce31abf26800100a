--------------------------- MODULE MCDecisionMemo ---------------------------
(* Two questions, two tenants and two principals: enough for a key to      *)
(* collide, for an entry to be evicted and for a decision to be another's. *)
EXTENDS DecisionMemo, TLC

CONSTANTS c1, c2, c3, s1, s2, p1, p2, q1, q2, own, other
=============================================================================
