--------------------------- MODULE MCAmqpConsumer ---------------------------
(* Two copies of one message, or two messages, and one lost connection:    *)
(* enough for a redelivery to race its first handler and for a duplicate.  *)
EXTENDS AmqpConsumer, TLC

CONSTANTS m1, m2, n1, n2
=============================================================================
