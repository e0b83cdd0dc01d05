---------------------------- MODULE MCMenuTools ----------------------------
(***************************************************************************)
(* MenuTools on one container. The job's calls to the NAND fail for want   *)
(* of the volume only, its downloads for any reason.                       *)
(***************************************************************************)
EXTENDS MenuTools

CONSTANTS news,      \* a channel's container
          v1, v2     \* versions

MCFiles == {news}
MCContent == {v1, v2}
VolumeFaults == {"nandRead", "nandWrite", "restoreWrite", "flush", "download"}
=============================================================================
