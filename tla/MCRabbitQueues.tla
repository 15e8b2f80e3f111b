--------------------------- MODULE MCRabbitQueues ---------------------------
(***************************************************************************)
(* RabbitQueues with a topic pattern that matches one of two keys.         *)
(***************************************************************************)
EXTENDS RabbitQueues

CONSTANTS k1, k2

MCKeys == {k1, k2}
MCPatterns == {{k1}}

=============================================================================
