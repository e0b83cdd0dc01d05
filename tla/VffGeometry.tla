---------------------------- MODULE VffGeometry ----------------------------
(***************************************************************************)
(* Where vff.cpp puts a FAT volume inside a VFF container: the header it   *)
(* accepts, the FATFS fields it fills in by hand, and the bytes each       *)
(* sector stands for. FatFs checks none of this, as it would on a mount of *)
(* its own.                                                                *)
(*                                                                         *)
(* A header is [vff, bigEndian, volume, cluster, size]: whether the magic  *)
(* and the endianness are the expected ones, volume_size, the cluster      *)
(* field, and the size of the whole file.                                  *)
(***************************************************************************)
EXTENDS Integers

SectorSize == 512     \* kSectorSize
SectorOffset == -480  \* kSectorOffset: sector 1 follows the 32-byte header
RootSectors == 8      \* n_rootdir entries of 32 bytes

AlignDown(n, alignment) == (n \div alignment) * alignment
AlignUp(n, alignment) == ((n + alignment - 1) \div alignment) * alignment

\* SectorRange: the bytes of one sector are inside the file.
InFile(sector, size) ==
    /\ sector # 0
    /\ sector * SectorSize + SectorOffset >= 0
    /\ sector * SectorSize + SectorOffset + SectorSize <= size

ClusterSize(h) == h.cluster * 16
WholeSectors(h) == h.cluster % 32 = 0
ClusterCount(h) == h.volume \div ClusterSize(h)

\* FAT12 has three bytes for two clusters, FAT16 two for each.
IsFat12(h) == ClusterCount(h) < 4085
TableSize(h) ==
    IF IsFat12(h) THEN ((ClusterCount(h) + 1) \div 2) * 3 ELSE ClusterCount(h) * 2

\* fs->fsize, the sectors of one FAT, and sysect, the first sector after the two
\* FATs and the root directory.
FatSectors(h) == AlignUp(TableSize(h), ClusterSize(h)) \div SectorSize
SystemSectors(h) == 1 + 2 * FatSectors(h) + RootSectors

\* PopulateFatFs without its look at the size of the system area.
AcceptsTiny(h) ==
    /\ h.size >= 32
    /\ h.vff /\ h.bigEndian
    /\ ClusterSize(h) # 0
    /\ h.volume <= h.size
    /\ ClusterCount(h) < 65525

\* Every header but the ones PopulateFatFs turns away.
Accepts(h) ==
    /\ h.size >= 32
    /\ h.vff /\ h.bigEndian
    /\ ClusterSize(h) # 0
    /\ h.volume <= h.size
    /\ ClusterCount(h) < 65525
    /\ SystemSectors(h) < ClusterCount(h)

\* What PopulateFatFs leaves in the FATFS; the two FATs begin at sector 1, and
\* csize is one sector whatever the cluster field says.
Geometry(h) ==
    [fat12    |-> IsFat12(h),
     fsize    |-> FatSectors(h),
     dirbase  |-> 1 + 2 * FatSectors(h),
     database |-> SystemSectors(h),
     n_fatent |-> ClusterCount(h) - SystemSectors(h) + 2]

Geometries ==
    [fat12 : BOOLEAN, fsize : Nat, dirbase : Nat, database : Nat, n_fatent : Nat]

(***************************************************************************)
(* The geometry makes a FAT volume of a file of that size: the regions     *)
(* follow one another, each FAT has room for an entry per cluster (the     *)
(* first two entries are reserved), and every sector FatFs can come to is  *)
(* in the file.                                                            *)
(***************************************************************************)
EntryBytes(g) == IF g.fat12 THEN (3 * g.n_fatent + 1) \div 2 ELSE 2 * g.n_fatent
LastSector(g) == g.database + (g.n_fatent - 2) - 1

Fits(g, size) ==
    /\ g.dirbase = 1 + 2 * g.fsize
    /\ g.database = g.dirbase + RootSectors
    /\ g.n_fatent >= 3
    /\ EntryBytes(g) <= g.fsize * SectorSize
    /\ \A sector \in {1, g.dirbase, g.database, LastSector(g)} : InFile(sector, size)
=============================================================================
