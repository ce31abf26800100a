--------------------------- MODULE MCSigningKeys ----------------------------
(* Two threads: one whose fetch the other may wait for.                    *)
EXTENDS SigningKeys

CONSTANTS t1, t2
=============================================================================
