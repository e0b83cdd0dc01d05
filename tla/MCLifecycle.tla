---------------------------- MODULE MCLifecycle ----------------------------
(***************************************************************************)
(* Lifecycle with two thread blocks and a clock of a few hours.            *)
(***************************************************************************)
EXTENDS Lifecycle

CONSTANTS t1, t2   \* thread blocks

MCThreads == {t1, t2}
=============================================================================
