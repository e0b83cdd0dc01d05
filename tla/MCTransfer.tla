----------------------------- MODULE MCTransfer -----------------------------
(***************************************************************************)
(* Transfer with two messages each way and everything that can go wrong.   *)
(***************************************************************************)
EXTENDS Transfer

CONSTANTS m1, m2   \* messages

MCMessages == {m1, m2}

AllFaults == {"refuse", "reset", "cut", "error", "chunked", "noKey"}
=============================================================================
