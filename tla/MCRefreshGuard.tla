--------------------------- MODULE MCRefreshGuard ---------------------------
(* Two threads and a coroutine that refresh, an oidc_refresh, and logins.  *)
EXTENDS RefreshGuard

CONSTANTS r1, r2, r3, x1, l1, l2
=============================================================================
