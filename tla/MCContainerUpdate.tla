------------------------- MODULE MCContainerUpdate -------------------------
(***************************************************************************)
(* ContainerUpdate on two containers and a few versions. The runs differ   *)
(* in the faults they let happen.                                          *)
(***************************************************************************)
EXTENDS ContainerUpdate, TLC

CONSTANTS news, forecast,   \* two channels' containers
          v1, v2            \* versions

MCFiles == {news, forecast}
MCContent == {v1, v2}

\* The faults the backup and the journal are there to mask.
MaskedFaults ==
    {"nandRead", "nandWrite", "misread", "sdSave", "journalOpen", "download"}

Symmetric == Permutations(MCFiles) \cup Permutations(MCContent)
=============================================================================
