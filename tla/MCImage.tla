------------------------------ MODULE MCImage ------------------------------
(***************************************************************************)
(* Image with the containers at which vff.cpp's decisions turn.            *)
(***************************************************************************)
EXTENDS Image, TLC

CONSTANTS n1, n2   \* file names

MCNames == {n1, n2}
Symmetric == Permutations(MCNames)

\* A container of so many clusters, and the bytes after the last of them.
Container(clusters, cluster, rest) ==
    [vff |-> TRUE, bigEndian |-> TRUE, volume |-> clusters * cluster * 16 + rest,
     cluster |-> cluster, size |-> clusters * cluster * 16 + rest]

\* The smallest volume that is accepted and two it refuses, the largest and the smallest
\* of each FAT type, two sectors and half a sector to the cluster, and headers that are
\* refused.
MCHeaders ==
    {Container(8, 32, 0), Container(11, 32, 0), Container(12, 32, 0),
     Container(4084, 32, 0), Container(4085, 32, 0),
     Container(65524, 32, 511), Container(65525, 32, 0),
     Container(40, 64, 100), Container(40, 16, 0),
     [Container(100, 32, 0) EXCEPT !.cluster = 0],
     [Container(100, 32, 0) EXCEPT !.size = 51199]}
=============================================================================
