--------------------------- MODULE CoalescerCalls ---------------------------
(* The calls of oidc_refresh that meet at a coalescer of _oidc.py, and the *)
(* name of an empty slot.                                                  *)
CONSTANTS Callers, NoFlight

ASSUME NoFlightAssumption == NoFlight \notin Callers
=============================================================================
