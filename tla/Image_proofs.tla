---------------------------- MODULE Image_proofs ----------------------------
(***************************************************************************)
(* Proofs about Image for any containers and any names of files: the two   *)
(* threads never make FatFs work on a buffer that is gone, and what it is  *)
(* told of a container with clusters of whole sectors is a FAT volume      *)
(* inside it, unless two Images exist.                                     *)
(***************************************************************************)
EXTENDS Image, TLAPS

-----------------------------------------------------------------------------
(***************************************************************************)
(* The geometry.                                                           *)
(***************************************************************************)

HeaderType ==
    [vff : BOOLEAN, bigEndian : BOOLEAN, volume : Nat, cluster : Nat, size : Nat]

\* Division of natural numbers.
LEMMA Division ==
    ASSUME NEW n \in Nat, NEW a \in Nat, a # 0
    PROVE  n \div a \in Nat /\ a * (n \div a) <= n /\ n < a * (n \div a) + a
OBVIOUS

RoundsUp(n, a) ==
    /\ n <= AlignUp(n, a) /\ AlignUp(n, a) \in Nat
    /\ \E k \in Nat : AlignUp(n, a) = k * a

\* Rounding up to a multiple loses nothing.
LEMMA RoundedUp ==
    ASSUME NEW n \in Nat, NEW a \in Nat, a # 0
    PROVE  RoundsUp(n, a)
<1> DEFINE k == (n + a - 1) \div a
<1>1. n + a - 1 \in Nat
  OBVIOUS
<1>2. k \in Nat /\ a * k <= n + a - 1 /\ n + a - 1 < a * k + a
  BY <1>1, Division
<1> HIDE DEF k
<1>3. k * a = a * k /\ a * k \in Nat
  BY <1>2
<1>4. AlignUp(n, a) = k * a
  BY DEF AlignUp, k
<1> QED
  BY <1>2, <1>3, <1>4 DEF RoundsUp

\* Nor does it to whole sectors.
LEMMA RoundedUpToSectors ==
    ASSUME NEW n \in Nat, NEW q \in Nat, q # 0
    PROVE  n <= (AlignUp(n, 512 * q) \div 512) * 512
<1>1. 512 * q \in Nat /\ 512 * q # 0
  OBVIOUS
<1>2. PICK k \in Nat : n <= AlignUp(n, 512 * q) /\ AlignUp(n, 512 * q) = k * (512 * q)
  <2>1. RoundsUp(n, 512 * q)
    BY <1>1, RoundedUp
  <2> QED
    BY <2>1 DEF RoundsUp
<1>3. k * q \in Nat /\ k * (512 * q) = 512 * (k * q)
  BY <1>2
<1>4. PICK j \in Nat : j = k * q
  BY <1>3
<1>5. (512 * j) \div 512 = j
  OBVIOUS
<1> QED
  BY <1>2, <1>3, <1>4, <1>5

\* What is filled in is made of natural numbers whatever the clusters are.
LEMMA HeaderNumbers ==
    ASSUME NEW h \in HeaderType, ClusterSize(h) # 0
    PROVE  /\ ClusterSize(h) \in Nat
           /\ ClusterCount(h) \in Nat /\ ClusterCount(h) * ClusterSize(h) <= h.volume
           /\ TableSize(h) \in Nat
           /\ FatSectors(h) \in Nat
<1>1. ClusterSize(h) \in Nat /\ h.volume \in Nat
  BY DEF HeaderType, ClusterSize
<1>2. ClusterCount(h) \in Nat /\ ClusterSize(h) * ClusterCount(h) <= h.volume
  BY <1>1, Division DEF ClusterCount
<1>3. TableSize(h) \in Nat
  BY <1>2 DEF TableSize
<1>4. AlignUp(TableSize(h), ClusterSize(h)) \in Nat
  BY <1>1, <1>3, RoundedUp DEF RoundsUp
<1>5. FatSectors(h) \in Nat
  BY <1>4 DEF FatSectors, SectorSize
<1>6. ClusterCount(h) * ClusterSize(h) = ClusterSize(h) * ClusterCount(h)
  BY <1>1, <1>2
<1> QED
  BY <1>1, <1>2, <1>3, <1>5, <1>6

\* No field is negative, for any header that is accepted.
LEMMA GeometryType ==
    ASSUME NEW h \in HeaderType, Accepts(h)
    PROVE  Geometry(h) \in Geometries
<1>1. ClusterCount(h) \in Nat /\ FatSectors(h) \in Nat
  BY HeaderNumbers DEF Accepts
<1>2. SystemSectors(h) = 9 + 2 * FatSectors(h) /\ SystemSectors(h) < ClusterCount(h)
  BY <1>1 DEF SystemSectors, RootSectors, Accepts
<1> QED
  BY <1>1, <1>2 DEF Geometry, Geometries, IsFat12

\* The FAT has room for an entry per cluster, where clusters are whole sectors.
LEMMA TableIsLargeEnough ==
    ASSUME NEW h \in HeaderType, ClusterSize(h) # 0, WholeSectors(h)
    PROVE  /\ ClusterCount(h) \in Nat /\ ClusterCount(h) * 512 <= h.volume
           /\ FatSectors(h) \in Nat
           /\ IsFat12(h) => 3 * ClusterCount(h) <= 2 * 512 * FatSectors(h)
           /\ ~IsFat12(h) => 2 * ClusterCount(h) <= 512 * FatSectors(h)
<1>1. PICK q \in Nat : h.cluster = 32 * q
  <2>1. h.cluster \in Nat /\ h.cluster % 32 = 0
    BY DEF HeaderType, WholeSectors
  <2> QED
    BY <2>1
<1>2. ClusterSize(h) = 512 * q /\ q # 0
  BY <1>1 DEF ClusterSize
<1>3. /\ ClusterCount(h) \in Nat /\ ClusterCount(h) * ClusterSize(h) <= h.volume
      /\ TableSize(h) \in Nat /\ FatSectors(h) \in Nat
  BY HeaderNumbers
<1>4. ClusterCount(h) * 512 <= h.volume
  <2>1. PICK c \in Nat : c = ClusterCount(h)
    BY <1>3
  <2>2. c * (512 * q) <= h.volume /\ h.volume \in Nat
    BY <1>2, <1>3, <2>1 DEF HeaderType
  <2>3. c * (512 * q) = (c * 512) * q /\ (c * 512) * q >= c * 512
    BY <1>2, <2>1
  <2> QED
    BY <2>1, <2>2, <2>3
<1>5. TableSize(h) <= FatSectors(h) * 512
  BY <1>2, <1>3, RoundedUpToSectors DEF FatSectors, SectorSize
<1>6. /\ IsFat12(h) => 3 * ClusterCount(h) <= 2 * TableSize(h)
      /\ ~IsFat12(h) => 2 * ClusterCount(h) = TableSize(h)
  BY <1>3 DEF TableSize
<1> QED
  BY <1>3, <1>4, <1>5, <1>6

\* What PopulateFatFs fills in for any header it accepts, if its clusters are whole
\* sectors, is a FAT volume inside the file: SectorRange never turns FatFs away in the
\* middle of a file it has been promised.
THEOREM AcceptedGeometryFits ==
    ASSUME NEW h \in HeaderType, WholeSectors(h), Accepts(h)
    PROVE  Fits(Geometry(h), h.size)
<1> DEFINE g == Geometry(h)
<1>1. /\ ClusterCount(h) \in Nat
      /\ FatSectors(h) \in Nat
      /\ IsFat12(h) => 3 * ClusterCount(h) <= 2 * 512 * FatSectors(h)
      /\ ~IsFat12(h) => 2 * ClusterCount(h) <= 512 * FatSectors(h)
  BY TableIsLargeEnough DEF Accepts
<1>2. SystemSectors(h) = 9 + 2 * FatSectors(h) /\ SystemSectors(h) < ClusterCount(h)
  BY <1>1 DEF SystemSectors, RootSectors, Accepts
<1>3. ClusterCount(h) * 512 <= h.size
  <2>1. ClusterCount(h) \in Nat /\ ClusterCount(h) * 512 <= h.volume
    BY TableIsLargeEnough DEF Accepts
  <2>2. h.volume \in Nat /\ h.size \in Nat
    BY DEF HeaderType
  <2>3. h.volume <= h.size
    BY DEF Accepts
  <2> QED
    BY <2>1, <2>2, <2>3
<1>5. /\ g.fat12 = IsFat12(h) /\ g.fsize = FatSectors(h)
      /\ g.dirbase = 1 + 2 * FatSectors(h) /\ g.database = SystemSectors(h)
      /\ g.n_fatent = ClusterCount(h) - SystemSectors(h) + 2
  BY DEF Geometry
<1> HIDE DEF g
<1>6. g.n_fatent \in Nat /\ g.n_fatent >= 3 /\ g.n_fatent <= ClusterCount(h) - 7
  BY <1>1, <1>2, <1>5
<1>7. EntryBytes(g) <= g.fsize * SectorSize
  <2>1. CASE IsFat12(h)
    <3>1. 3 * g.n_fatent + 1 <= 2 * (512 * FatSectors(h))
      BY <1>1, <1>6, <2>1
    <3>2. (3 * g.n_fatent + 1) \div 2 <= 512 * FatSectors(h)
      BY <1>1, <1>6, <3>1
    <3> QED
      BY <1>1, <1>5, <2>1, <3>2 DEF EntryBytes, SectorSize
  <2>2. CASE ~IsFat12(h)
    BY <1>1, <1>5, <1>6, <2>2 DEF EntryBytes, SectorSize
  <2> QED
    BY <2>1, <2>2
<1>8. LastSector(g) = ClusterCount(h) - 1
  BY <1>1, <1>2, <1>5 DEF LastSector
<1>9. \A sector \in {1, g.dirbase, g.database, LastSector(g)} :
          sector \in Nat /\ 1 <= sector /\ sector <= ClusterCount(h) - 1
  BY <1>1, <1>2, <1>5, <1>8
<1>10. h.size \in Nat
  BY DEF HeaderType
<1>11. ASSUME NEW sector \in {1, g.dirbase, g.database, LastSector(g)}
       PROVE  InFile(sector, h.size)
  BY <1>1, <1>3, <1>9, <1>10, <1>11 DEF InFile, SectorSize, SectorOffset
<1>12. g.dirbase = 1 + 2 * g.fsize /\ g.database = g.dirbase + RootSectors
  BY <1>1, <1>2, <1>5 DEF RootSectors
<1>13. Fits(g, h.size)
  BY <1>6, <1>7, <1>11, <1>12 DEF Fits
<1> QED
  BY <1>13 DEF g

\* Sectors of a volume that fits are in the file one and all: FatFs asks for none
\* but those between the first FAT and the last cluster.
LEMMA EverySectorInFile ==
    ASSUME NEW g \in Geometries, NEW size \in Nat, Fits(g, size),
           NEW sector \in 1 .. LastSector(g)
    PROVE  InFile(sector, size)
<1>1. LastSector(g) \in Int /\ InFile(LastSector(g), size)
  BY DEF Fits, LastSector, Geometries
<1> QED
  BY <1>1 DEF InFile, SectorSize, SectorOffset

-----------------------------------------------------------------------------
(***************************************************************************)
(* The two threads.                                                        *)
(***************************************************************************)

\* An Image in use was mounted from an accepted header, and as long as it is the only
\* one, what FatFs has been filled in with is the geometry of the buffer it works on.
VolumeIsMounted ==
    /\ mounted # None => image[mounted] \in {"mounting", "ok"}
    /\ \A u \in Users : image[u] # "none" =>
           stage[u] \in {"list", "apply", "verify", "deliver", "retire"}
    /\ \A u \in Users : image[u] = "ok" => Accepts(header[u])
    /\ (\E u \in Users : image[u] = "none") /\ Ready =>
           image[mounted] = "ok" /\ volume = Geometry(header[mounted])

\* A sector is found in the buffer of another thread's Image, or of one that is gone by
\* now, only when both threads had Images.
AccessIsKnown ==
    /\ \A u \in Users : access[u] # None => image[u] = "ok"
    /\ \A u \in Users : access[u] \notin {None, u} => shared
    /\ image[Tool] # "none" /\ stage[Job] # "idle" => shared

Inv == TypeOK /\ VolumeIsMounted /\ AccessIsKnown

\* Before anything has run there is no Image and nothing is registered.
LEMMA InvInit == Init => Inv
<1> SUFFICES ASSUME Init PROVE Inv
  OBVIOUS
<1>1. TypeOK
  BY DEF Init, TypeOK, Untouched, FileStates
<1>2. VolumeIsMounted
  BY ImageAssumption DEF Init, VolumeIsMounted, Ready
<1>3. AccessIsKnown
  BY ImageAssumption DEF Init, AccessIsKnown, Users
<1> QED
  BY <1>1, <1>2, <1>3 DEF Inv

\* Geometries of the containers there are.
LEMMA HeadersAre ==
    /\ Headers \subseteq HeaderType
    /\ \A h \in Headers : Accepts(h) => Geometry(h) \in Geometries
<1>1. Headers \subseteq HeaderType
  BY ImageAssumption DEF HeaderType
<1> QED
  BY <1>1, GeometryType

\* What a write astray leaves is still files.
LEMMA AstrayType ==
    ASSUME TypeOK, NEW b \in Users \cup {Gone}
    PROVE  /\ \A f \in Astray(b) : f \in [Users -> [Names -> FileStates]]
           /\ \A n \in Names, state \in FileStates :
                  Change(b, n, state) => files' \in [Users -> [Names -> FileStates]]
<1>1. \A f \in Astray(b) : f \in [Users -> [Names -> FileStates]]
  BY DEF Astray, TypeOK, FileStates
<1>2. ASSUME NEW n \in Names, NEW state \in FileStates, b # Gone
      PROVE  [files EXCEPT ![b][n] = state] \in [Users -> [Names -> FileStates]]
  BY <1>2 DEF TypeOK
<1> QED
  BY <1>1, <1>2 DEF Change

LEMMA ForgetType ==
    ASSUME TypeOK, NEW u \in Users, Forget(u) \/ UNCHANGED access
    PROVE  /\ access' \in [Users -> Users \cup {Gone, None}]
           /\ \A v \in Users : access'[v] = access[v] \/ (access[v] = u /\ access'[v] = Gone)
BY DEF TypeOK, Forget

\* The types survive every step of the two threads.
LEMMA TypeNext ==
    ASSUME Inv, [Next]_vars
    PROVE  TypeOK'
<1> USE ImageAssumption DEF Inv, TypeOK
<1>0. Untouched \in [Names -> FileStates]
  BY DEF Untouched, FileStates
<1>1. CASE ReadContainer
  <2>1. PICK h \in Headers, first \in {"list", "deliver", "retire"},
             names \in SUBSET Names \ {{}} :
            /\ stage' = [stage EXCEPT ![Job] = first]
            /\ header' = [header EXCEPT ![Job] = h]
            /\ units' = names /\ todo' = names
    BY <1>1 DEF ReadContainer
  <2>2. header' \in [Users -> Headers] /\ units' \subseteq Names /\ todo' \subseteq units'
    BY <2>1
  <2>3. stage' \in [Users -> {"idle", "list", "apply", "verify", "deliver", "retire", "commit"}]
    BY <2>1
  <2>4. files' \in [Users -> [Names -> FileStates]]
    BY <1>0, <1>1 DEF ReadContainer
  <2>5. all_ok' \in BOOLEAN /\ shared' \in BOOLEAN
    BY <1>1 DEF ReadContainer
  <2>6. open' = open /\ access' = access /\ refused' = {}
    BY <1>1 DEF ReadContainer
  <2> QED
    BY <1>1, <2>2, <2>3, <2>4, <2>5, <2>6 DEF ReadContainer
<1>2. CASE ReadMailbox
  <2>1. header' \in [Users -> Headers]
    BY <1>2 DEF ReadMailbox
  <2>2. files' \in [Users -> [Names -> FileStates]]
    BY <1>0, <1>2 DEF ReadMailbox
  <2> QED
    BY <1>2, <2>1, <2>2 DEF ReadMailbox, writeVars
<1>3. CASE Commit
  <2>1. access' \in [Users -> Users \cup {Gone, None}]
    BY <1>3, ForgetType DEF Commit, Users
  <2> QED
    BY <1>3, <2>1 DEF Commit, writeVars
<1>4. ASSUME NEW u \in Users, Construct(u) PROVE TypeOK'
  BY <1>4 DEF Construct, writeVars
<1>5. ASSUME NEW u \in Users, Claim(u) PROVE TypeOK'
  BY <1>5 DEF Claim, sessionVars, writeVars
<1>6. ASSUME NEW u \in Users, Mount(u) PROVE TypeOK'
  <2>1. Accepts(header[u]) => Geometry(header[u]) \in Geometries
    BY HeadersAre
  <2> QED
    BY <1>6, <2>1 DEF Mount, sessionVars, writeVars
<1>7. ASSUME NEW u \in Users, Destroy(u) PROVE TypeOK'
  <2>1. AfterImage(u) \in {"idle", "apply", "verify", "commit"}
    BY DEF AfterImage
  <2>2. access' \in [Users -> Users \cup {Gone, None}]
    BY <1>7, ForgetType DEF Destroy
  <2> QED
    BY <1>7, <2>1, <2>2 DEF Destroy, writeVars
<1>8. ASSUME NEW n \in Names, OpenUnit(n) PROVE TypeOK'
  <2>1. access[Job] \in Users \cup {Gone} /\ access' \in [Users -> Users \cup {Gone, None}]
    BY <1>8 DEF OpenUnit, WriteSector, Users
  <2>2. files' \in [Users -> [Names -> FileStates]]
    BY <1>8, <2>1, AstrayType DEF OpenUnit, FileStates
  <2>3. open' \in (Names \X (Users \cup {Gone})) \cup {None}
    BY <1>8, <2>1 DEF OpenUnit
  <2> QED
    BY <1>8, <2>1, <2>2, <2>3 DEF OpenUnit, sessionVars
<1>9. CASE WriteChunk \/ StoreUnit
  <2>1. /\ access[Job] \in Users \cup {Gone} /\ access' \in [Users -> Users \cup {Gone, None}]
        /\ open[1] \in Names /\ open[2] \in Users \cup {Gone}
    BY <1>9 DEF WriteChunk, StoreUnit, WriteSector, Users
  <2>2. files' \in [Users -> [Names -> FileStates]]
    <3>1. "stored" \in FileStates
      BY DEF FileStates
    <3>2. \/ files' = files \/ files' \in Astray(access[Job])
          \/ Change(access[Job], open[1], "stored")
      BY <1>9 DEF WriteChunk, StoreUnit
    <3> QED
      BY <2>1, <3>1, <3>2, AstrayType
  <2>3. open' \in (Names \X (Users \cup {Gone})) \cup {None} /\ todo' \subseteq todo
    BY <1>9, <2>1 DEF WriteChunk, StoreUnit
  <2> QED
    BY <1>9, <2>1, <2>2, <2>3 DEF WriteChunk, StoreUnit, sessionVars
<1>10. CASE UnitFails
  BY <1>10 DEF UnitFails, sessionVars
<1>11. ASSUME NEW n \in Names, DeleteFile(n) PROVE TypeOK'
  <2>1. access[Job] \in Users \cup {Gone} /\ access' \in [Users -> Users \cup {Gone, None}]
    BY <1>11 DEF DeleteFile, WriteSector, Users
  <2>2. files' \in [Users -> [Names -> FileStates]]
    BY <1>11, <2>1, AstrayType DEF DeleteFile, FileStates
  <2> QED
    BY <1>11, <2>1, <2>2 DEF DeleteFile, sessionVars
<1>12. ASSUME NEW n \in Names, DeleteFails(n) PROVE TypeOK'
  BY <1>12 DEF DeleteFails, sessionVars
<1>13. ASSUME NEW u \in Users, FindSector(u) \/ ReadSector(u) PROVE TypeOK'
  BY <1>13 DEF FindSector, ReadSector, Ready, sessionVars, writeVars
<1>14. CASE UNCHANGED vars
  BY <1>14 DEF vars, sessionVars, writeVars
<1> QED
  BY <1>1, <1>2, <1>3, <1>4, <1>5, <1>6, <1>7, <1>8, <1>9, <1>10, <1>11, <1>12, <1>13, <1>14
     DEF Next

\* Whichever thread is inside its constructor or its destructor, g_buf belongs to an
\* Image; and when one of two Images goes, it takes g_buf with it, so that what the
\* other has left in g_fatfs is not used before the next constructor empties it.
LEMMA MountedNext ==
    ASSUME Inv, [Next]_vars
    PROVE  VolumeIsMounted'
<1> USE ImageAssumption DEF Inv, TypeOK, VolumeIsMounted, Ready, Users
<1>1. CASE ReadContainer
  BY <1>1 DEF ReadContainer, writeVars
<1>2. CASE ReadMailbox
  BY <1>2 DEF ReadMailbox, writeVars
<1>3. CASE Commit
  BY <1>3 DEF Commit, writeVars
<1>4. ASSUME NEW u \in Users, Construct(u) PROVE VolumeIsMounted'
  BY <1>4 DEF Construct, writeVars
<1>5. ASSUME NEW u \in Users, Claim(u) PROVE VolumeIsMounted'
  BY <1>5 DEF Claim, sessionVars, writeVars
<1>6. ASSUME NEW u \in Users, Mount(u) PROVE VolumeIsMounted'
  BY <1>6 DEF Mount, sessionVars, writeVars
<1>7. ASSUME NEW u \in Users, Destroy(u) PROVE VolumeIsMounted'
  BY <1>7 DEF Destroy, writeVars
<1>8. ASSUME NEW n \in Names, OpenUnit(n) PROVE VolumeIsMounted'
  BY <1>8 DEF OpenUnit, sessionVars
<1>9. CASE WriteChunk \/ StoreUnit
  BY <1>9 DEF WriteChunk, StoreUnit, sessionVars
<1>10. CASE UnitFails
  BY <1>10 DEF UnitFails, sessionVars
<1>11. ASSUME NEW n \in Names, DeleteFile(n) PROVE VolumeIsMounted'
  BY <1>11 DEF DeleteFile, sessionVars
<1>12. ASSUME NEW n \in Names, DeleteFails(n) PROVE VolumeIsMounted'
  BY <1>12 DEF DeleteFails, sessionVars
<1>13. ASSUME NEW u \in Users, FindSector(u) \/ ReadSector(u) PROVE VolumeIsMounted'
  BY <1>13 DEF FindSector, ReadSector, sessionVars
<1>14. CASE UNCHANGED vars
  BY <1>14 DEF vars, sessionVars, writeVars
<1> QED
  BY <1>1, <1>2, <1>3, <1>4, <1>5, <1>6, <1>7, <1>8, <1>9, <1>10, <1>11, <1>12, <1>13, <1>14
     DEF Next

\* A buffer is found by the thread whose Image is mounted, or there are two of them.
LEMMA AccessNext ==
    ASSUME Inv, [Next]_vars
    PROVE  AccessIsKnown'
<1> USE ImageAssumption DEF Inv, TypeOK, VolumeIsMounted, AccessIsKnown, Ready, Users
<1>1. CASE ReadContainer
  <2>1. image[Job] = "none" /\ access[Job] = None /\ image' = image /\ access' = access
    BY <1>1 DEF ReadContainer
  <2>2. shared' = (image[Tool] # "none")
    BY <1>1 DEF ReadContainer
  <2> QED
    BY <2>1, <2>2
<1>2. CASE ReadMailbox
  BY <1>2 DEF ReadMailbox
<1>3. CASE Commit
  <2>1. image[Job] = "none" /\ access[Job] = None /\ UNCHANGED <<image, shared>>
    BY <1>3 DEF Commit
  <2>2. \A v \in Users : access'[v] = access[v] \/ (access[v] = Job /\ access'[v] = Gone)
    BY <1>3, ForgetType DEF Commit, Users
  <2>3. stage'[Job] = "idle"
    BY <1>3 DEF Commit
  <2> QED
    BY <2>1, <2>2, <2>3
<1>4. ASSUME NEW u \in Users, Construct(u) PROVE AccessIsKnown'
  BY <1>4 DEF Construct
<1>5. ASSUME NEW u \in Users, Claim(u) \/ Mount(u) PROVE AccessIsKnown'
  BY <1>5 DEF Claim, Mount, sessionVars
<1>6. ASSUME NEW u \in Users, Destroy(u) PROVE AccessIsKnown'
  <2>1. /\ access[u] = None /\ image' = [image EXCEPT ![u] = "none"] /\ shared' = shared
        /\ stage' = [stage EXCEPT ![u] = AfterImage(u)] /\ image[u] # "none"
    BY <1>6 DEF Destroy, Finished
  <2>2. \A v \in Users : access'[v] = access[v] \/ (access[v] = u /\ access'[v] = Gone)
    BY <1>6, ForgetType DEF Destroy
  <2>3. image'[Tool] # "none" /\ stage'[Job] # "idle" => image[Tool] # "none" /\ stage[Job] # "idle"
    BY <2>1
  <2> QED
    BY <2>1, <2>2, <2>3
<1>7. ASSUME NEW u \in Users, FindSector(u) PROVE AccessIsKnown'
  <2>1. /\ image[u] = "ok" /\ access' = [access EXCEPT ![u] = mounted]
        /\ mounted \in Users /\ image[mounted] # "none" /\ UNCHANGED <<image, stage, shared>>
    BY <1>7 DEF FindSector, sessionVars
  <2>2. mounted # u => shared
    BY <2>1
  <2> QED
    BY <2>1, <2>2
<1>8. CASE UNCHANGED <<image, stage, shared>> /\ \A v \in Users : access'[v] \in {access[v], None}
  BY <1>8
<1>9. ASSUME NEW u \in Users, ReadSector(u) PROVE AccessIsKnown'
  BY <1>8, <1>9 DEF ReadSector, sessionVars
<1>10. ASSUME NEW n \in Names, OpenUnit(n) \/ DeleteFile(n) \/ DeleteFails(n)
       PROVE  AccessIsKnown'
  BY <1>8, <1>10 DEF OpenUnit, DeleteFile, DeleteFails, WriteSector, sessionVars
<1>11. CASE WriteChunk \/ StoreUnit \/ UnitFails
  BY <1>8, <1>11 DEF WriteChunk, StoreUnit, UnitFails, WriteSector, sessionVars
<1>12. CASE UNCHANGED vars
  BY <1>8, <1>12 DEF vars, sessionVars
<1> QED
  BY <1>1, <1>2, <1>3, <1>4, <1>5, <1>6, <1>7, <1>9, <1>10, <1>11, <1>12 DEF Next

\* The inductive invariant of the two threads.
THEOREM InvHolds == Spec => []Inv
<1>1. Inv /\ [Next]_vars => Inv'
  BY TypeNext, MountedNext, AccessNext DEF Inv
<1> QED
  BY <1>1, InvInit, PTL DEF Spec

\* TypeOK, for any containers: no header that is accepted gives a field of the volume
\* a negative value.
THEOREM ImageTypeCorrect == Spec => []TypeOK
BY InvHolds, PTL DEF Inv

\* OnlySharedDangles: however the two threads' constructors, destructors and accesses
\* fall, g_buf is null or the buffer of an Image that has not been destroyed, and a
\* sector is never copied from or to a buffer that is gone unless both had Images.
THEOREM BufferOutlivesImage == Spec => []OnlySharedDangles
<1>1. Inv => OnlySharedDangles
  BY ImageAssumption DEF Inv, VolumeIsMounted, AccessIsKnown, OnlySharedDangles
<1> QED
  BY <1>1, InvHolds, PTL

\* VolumeFits: whenever FatFs answers and only one Image exists, every region it has
\* been told of is inside the buffer that disk_read and disk_write use, if clusters are
\* whole sectors.
THEOREM MountedVolumeFits == Spec => []VolumeFits
<1>1. ASSUME Inv PROVE VolumeFits
  <2>1. SUFFICES ASSUME \E u \in Users : image[u] = "none", Ready, WholeSectors(header[mounted])
                 PROVE  Fits(volume, header[mounted].size)
    BY DEF VolumeFits, FitsItsBuffer
  <2>2. mounted \in Users /\ header[mounted] \in HeaderType
    BY <1>1, <2>1, HeadersAre DEF Inv, TypeOK, Ready
  <2>3. Accepts(header[mounted]) /\ volume = Geometry(header[mounted])
    BY <1>1, <2>1, <2>2 DEF Inv, VolumeIsMounted
  <2> QED
    BY <2>1, <2>2, <2>3, AcceptedGeometryFits
<1> QED
  BY <1>1, InvHolds, PTL

-----------------------------------------------------------------------------
(***************************************************************************)
(* The job alone with its buffer.                                          *)
(***************************************************************************)

\* A file is open only while units are being stored.
OpenWhileApplying ==
    open # None => stage[Job] \in {"apply", "deliver"} /\ image[Job] = "ok"

\* What has become of the files so far, where those that were dealt with got this state
\* and those that were refused did not.
Progress(outcome) ==
    \A m \in Names :
        files[Job][m] = IF m \in units \ (todo \cup refused) THEN outcome
                        ELSE IF open = <<m, Job>> THEN "cut" ELSE "before"

\* As long as no other Image came into being, the job's own one has the globals to
\* itself, and the buffer is as far as the units that are left say.
JobIsAlone ==
    /\ image[Tool] = "none"
    /\ image[Job] \in {"mounting", "ok"} => mounted = Job
    /\ image[Job] = "ok" => volume # None

WorkIsKnown ==
    /\ stage[Job] = "commit" => all_ok
    /\ todo \cap refused = {}
    /\ stage[Job] \in {"list", "apply", "deliver", "verify"} => refused = {}
    /\ all_ok =>
        /\ open # None => \E m \in todo : open = <<m, Job>>
        /\ stage[Job] = "list" => todo = units
        /\ stage[Job] \in {"verify", "commit"} => todo = {}
        /\ stage[Job] \in {"list", "apply", "deliver", "verify"} => Progress("stored")
        /\ stage[Job] = "retire" => Progress("deleted")
        /\ stage[Job] = "commit" => (Progress("stored") /\ refused = {}) \/ Progress("deleted")

AloneInv ==
    /\ OpenWhileApplying
    /\ ~shared /\ stage[Job] # "idle" => JobIsAlone /\ WorkIsKnown

\* The file is closed before its Image goes, and after a failure.
LEMMA OpenNext ==
    ASSUME Inv, OpenWhileApplying, [Next]_vars
    PROVE  OpenWhileApplying'
<1> USE ImageAssumption DEF Inv, TypeOK, VolumeIsMounted, OpenWhileApplying, Users
<1>1. CASE ReadContainer
  BY <1>1 DEF ReadContainer, writeVars
<1>2. CASE ReadMailbox
  BY <1>2 DEF ReadMailbox, writeVars
<1>3. CASE Commit
  BY <1>3 DEF Commit, writeVars
<1>4. ASSUME NEW u \in Users, Construct(u) PROVE OpenWhileApplying'
  BY <1>4 DEF Construct, writeVars
<1>5. ASSUME NEW u \in Users, Claim(u) PROVE OpenWhileApplying'
  BY <1>5 DEF Claim, sessionVars, writeVars
<1>6. ASSUME NEW u \in Users, Mount(u) PROVE OpenWhileApplying'
  BY <1>6 DEF Mount, sessionVars, writeVars
<1>7. ASSUME NEW u \in Users, Destroy(u) PROVE OpenWhileApplying'
  BY <1>7 DEF Destroy, Finished, writeVars
<1>8. ASSUME NEW n \in Names, OpenUnit(n) PROVE OpenWhileApplying'
  BY <1>8 DEF OpenUnit, Applying, sessionVars
<1>9. CASE WriteChunk \/ StoreUnit
  BY <1>9 DEF WriteChunk, StoreUnit, Applying, sessionVars
<1>10. CASE UnitFails
  BY <1>10 DEF UnitFails
<1>11. ASSUME NEW n \in Names, DeleteFile(n) PROVE OpenWhileApplying'
  BY <1>11 DEF DeleteFile, sessionVars
<1>12. ASSUME NEW n \in Names, DeleteFails(n) PROVE OpenWhileApplying'
  BY <1>12 DEF DeleteFails, sessionVars
<1>13. ASSUME NEW u \in Users, FindSector(u) \/ ReadSector(u) PROVE OpenWhileApplying'
  BY <1>13 DEF FindSector, ReadSector, sessionVars, writeVars
<1>14. CASE UNCHANGED vars
  BY <1>14 DEF vars, sessionVars, writeVars
<1> QED
  BY <1>1, <1>2, <1>3, <1>4, <1>5, <1>6, <1>7, <1>8, <1>9, <1>10, <1>11, <1>12, <1>13, <1>14
     DEF Next

\* The tool stays out: it cannot construct an Image without the job having been shared,
\* and what the job mounts is the job's.
LEMMA StaysAlone ==
    ASSUME Inv, AloneInv, [Next]_vars, ~shared', stage'[Job] # "idle"
    PROVE  /\ JobIsAlone'
           /\ ReadContainer \/ (~shared /\ stage[Job] # "idle" /\ JobIsAlone /\ WorkIsKnown)
           /\ \A u \in Users : Construct(u) \/ Claim(u) \/ Mount(u) \/ Destroy(u) => u = Job
<1> USE ImageAssumption DEF Inv, TypeOK, VolumeIsMounted, Users
<1>1. CASE ReadContainer
  <2>1. stage[Job] = "idle" /\ image[Job] = "none" /\ image[Tool] = "none" /\ image' = image
    BY <1>1 DEF ReadContainer
  <2>2. \A u \in Users : ~Construct(u) /\ ~Claim(u) /\ ~Mount(u) /\ ~Destroy(u)
    <3>1. \A u \in Users : stage'[u] # stage[u] /\ u = Job => image'[u] = image[u]
      BY <2>1
    <3>2. \A u \in Users : Construct(u) \/ Claim(u) \/ Mount(u) \/ Destroy(u) => image'[u] # image[u]
      BY DEF Construct, Claim, Mount, Destroy, Finished
    <3> QED
      BY <2>1, <3>2
  <2> QED
    BY <1>1, <2>1, <2>2 DEF JobIsAlone
<1>2. CASE ~ReadContainer
  <2>1. ~shared /\ stage[Job] # "idle"
    <3>1. CASE ReadMailbox
      BY <3>1 DEF ReadMailbox
    <3>2. CASE Commit
      BY <3>2 DEF Commit
    <3>3. ASSUME NEW u \in Users, Construct(u) PROVE ~shared /\ stage[Job] # "idle"
      BY <3>3 DEF Construct
    <3>4. ASSUME NEW u \in Users, Claim(u) \/ Mount(u) PROVE ~shared /\ stage[Job] # "idle"
      BY <3>4 DEF Claim, Mount, sessionVars
    <3>5. ASSUME NEW u \in Users, Destroy(u) PROVE ~shared /\ stage[Job] # "idle"
      BY <3>5 DEF Destroy, Finished
    <3>6. CASE UNCHANGED <<stage, shared>>
      BY <3>6
    <3> QED
      BY <1>2, <3>1, <3>2, <3>3, <3>4, <3>5, <3>6
         DEF Next, OpenUnit, WriteChunk, StoreUnit, UnitFails, DeleteFile, DeleteFails,
             FindSector, ReadSector, vars, sessionVars
  <2>2. JobIsAlone /\ WorkIsKnown
    BY <2>1 DEF AloneInv
  <2>3. \A u \in Users : Construct(u) \/ Claim(u) \/ Mount(u) \/ Destroy(u) => u = Job
    BY <2>1, <2>2 DEF Construct, Claim, Mount, Destroy, Finished, JobIsAlone
  <2>4. JobIsAlone'
    <3> USE <2>2 DEF JobIsAlone
    <3>1. CASE Construct(Job)
      BY <3>1 DEF Construct
    <3>2. CASE Claim(Job)
      BY <3>2 DEF Claim
    <3>3. CASE Mount(Job)
      <4>1. Accepts(header[Job]) => Geometry(header[Job]) # None
        BY HeadersAre
      <4> QED
        BY <3>3, <4>1 DEF Mount
    <3>4. CASE Destroy(Job)
      BY <3>4 DEF Destroy
    <3>5. CASE UNCHANGED <<image, mounted, volume>>
      BY <3>5
    <3> QED
      BY <1>2, <2>3, <3>1, <3>2, <3>3, <3>4, <3>5
         DEF Next, ReadMailbox, Commit, OpenUnit, WriteChunk, StoreUnit, UnitFails,
             DeleteFile, DeleteFails, FindSector, ReadSector, vars
  <2> QED
    BY <2>1, <2>2, <2>3, <2>4
<1> QED
  BY <1>1, <1>2

\* What is stored, deleted or left of the units is what the job takes to have been.
LEMMA WorkNext ==
    ASSUME Inv, AloneInv, [Next]_vars, ~shared', stage'[Job] # "idle"
    PROVE  WorkIsKnown'
<1> USE ImageAssumption DEF Inv, TypeOK, Users
<1>1. CASE ReadContainer
  <2>1. open = None /\ open' = open
    BY <1>1 DEF ReadContainer, AloneInv, OpenWhileApplying
  <2>2. /\ stage'[Job] \in {"list", "deliver", "retire"} /\ all_ok' /\ todo' = units'
        /\ refused' = {}
    BY <1>1 DEF ReadContainer
  <2>3. files'[Job] = Untouched
    BY <1>1 DEF ReadContainer
  <2>4. \A m \in Names : files'[Job][m] = "before" /\ open' # <<m, Job>>
    <3>1. \A m \in Names : <<m, Job>> # None
      OBVIOUS
    <3> QED
      BY <2>1, <2>3, <3>1 DEF Untouched
  <2>5. Progress("stored")' /\ Progress("deleted")'
    BY <2>2, <2>4 DEF Progress
  <2> QED
    BY <2>1, <2>2, <2>5 DEF WorkIsKnown
<1>2. CASE ~ReadContainer
  <2>1. /\ ~shared /\ stage[Job] # "idle" /\ JobIsAlone /\ WorkIsKnown /\ OpenWhileApplying
        /\ \A u \in Users : Construct(u) \/ Claim(u) \/ Mount(u) \/ Destroy(u) => u = Job
        /\ access[Job] \in {Job, None}
    BY <1>2, StaysAlone DEF AloneInv, AccessIsKnown
  <2> USE <2>1
  <2>2. ASSUME UNCHANGED <<files[Job], units, writeVars, stage[Job]>>
        PROVE  WorkIsKnown'
    BY <2>2 DEF WorkIsKnown, Progress, writeVars
  <2>3. CASE ReadMailbox
    BY <2>2, <2>3 DEF ReadMailbox
  <2>4. CASE Commit
    BY <2>4 DEF Commit
  <2>5. CASE Construct(Job) \/ Claim(Job) \/ Mount(Job)
    BY <2>2, <2>5 DEF Construct, Claim, Mount, sessionVars
  <2>6. CASE Destroy(Job)
    <3>1. /\ stage'[Job] = AfterImage(Job)
          /\ UNCHANGED <<files, units, todo, open, all_ok, refused>>
          /\ image[Job] \in {"ok", "failed"}
          /\ stage[Job] \in {"apply", "deliver", "retire"} /\ image[Job] = "ok" =>
                 open = None /\ (todo = {} \/ ~all_ok)
      BY <2>6 DEF Destroy, Finished, writeVars
    <3>2. all_ok /\ (image[Job] = "failed" => stage[Job] = "list")
      BY <3>1 DEF AfterImage
    <3>3. stage[Job] \in {"list", "apply", "verify", "deliver", "retire"}
      BY <3>1 DEF VolumeIsMounted
    <3>4. open = None
      BY <3>1, <3>2 DEF OpenWhileApplying
    <3>5. /\ stage[Job] = "list" => todo = units /\ Progress("stored") /\ stage'[Job] = "apply"
          /\ stage[Job] = "apply" => todo = {} /\ Progress("stored") /\ stage'[Job] = "verify"
          /\ stage[Job] = "verify" => todo = {} /\ Progress("stored") /\ stage'[Job] = "commit"
          /\ stage[Job] = "deliver" => todo = {} /\ Progress("stored") /\ stage'[Job] = "commit"
          /\ stage[Job] = "retire" => todo = {} /\ Progress("deleted") /\ stage'[Job] = "commit"
      BY <3>1, <3>2 DEF AfterImage, WorkIsKnown
    <3>6. (Progress("stored") => Progress("stored")') /\ (Progress("deleted") => Progress("deleted")')
      BY <3>1 DEF Progress
    <3>7. /\ todo' \cap refused' = {}
          /\ stage[Job] # "retire" => refused' = {}
      BY <3>1, <3>3 DEF WorkIsKnown
    <3> QED
      BY <3>1, <3>2, <3>3, <3>4, <3>5, <3>6, <3>7 DEF WorkIsKnown
  <2>7. ASSUME NEW n \in Names, OpenUnit(n) PROVE WorkIsKnown'
    <3>1. /\ access[Job] = Job /\ open = None /\ open' = <<n, Job>> /\ n \in todo /\ all_ok
          /\ stage[Job] \in {"apply", "deliver"}
          /\ files'[Job] = [files[Job] EXCEPT ![n] = "cut"]
          /\ UNCHANGED <<stage, units, todo, all_ok, refused>>
      BY <2>7 DEF OpenUnit, Change, WriteSector, Applying, sessionVars
    <3>2. Progress("stored")
      BY <3>1 DEF WorkIsKnown
    <3>3. Progress("stored")'
      <4> SUFFICES ASSUME NEW m \in Names
                   PROVE  files'[Job][m] = IF m \in units \ (todo \cup refused) THEN "stored"
                                           ELSE IF open' = <<m, Job>> THEN "cut" ELSE "before"
        BY <3>1 DEF Progress
      <4>1. CASE m = n
        BY <3>1, <4>1
      <4>2. CASE m # n
        <5>1. open' # <<m, Job>> /\ open # <<m, Job>>
          BY <3>1, <4>2
        <5> QED
          BY <3>1, <3>2, <4>2, <5>1 DEF Progress
      <4> QED
        BY <4>1, <4>2
    <3> QED
      BY <3>1, <3>3 DEF WorkIsKnown
  <2>8. ASSUME WriteChunk \/ StoreUnit
        PROVE  /\ all_ok /\ stage[Job] \in {"apply", "deliver"} /\ access[Job] = Job
               /\ \E n \in todo : open = <<n, Job>>
               /\ InItsBuffer
    <3>1. /\ all_ok /\ stage[Job] \in {"apply", "deliver"} /\ open # None /\ access[Job] = Job
      BY <2>8 DEF WriteChunk, StoreUnit, WriteSector, Applying
    <3>2. PICK n \in todo : open = <<n, Job>>
      BY <3>1 DEF WorkIsKnown
    <3>3. open[1] = n /\ open[2] = Job
      BY <3>2
    <3>4. files[Job][n] = "cut"
      BY <3>1, <3>2 DEF WorkIsKnown, Progress
    <3> QED
      BY <3>1, <3>2, <3>3, <3>4 DEF InItsBuffer
  <2>9. CASE WriteChunk
    <3>1. files' = files /\ open' = open
      BY <2>8, <2>9 DEF WriteChunk
    <3> QED
      BY <2>2, <2>9, <3>1 DEF WriteChunk, sessionVars, writeVars
  <2>10. CASE StoreUnit
    <3>1. /\ all_ok /\ stage[Job] \in {"apply", "deliver"} /\ access[Job] = Job
          /\ UNCHANGED <<stage, units, all_ok, refused>> /\ open' = None
      BY <2>8, <2>10 DEF StoreUnit, sessionVars
    <3>2. PICK n \in todo : open = <<n, Job>>
      BY <2>8, <2>10
    <3>3. open[1] = n /\ open[2] = Job
      BY <3>2
    <3>4. files'[Job] = [files[Job] EXCEPT ![n] = "stored"] /\ todo' = todo \ {n}
      <4>1. Change(access[Job], open[1], "stored") /\ todo' = todo \ {open[1]}
        BY <2>8, <2>10 DEF StoreUnit
      <4>2. Change(Job, n, "stored")
        BY <3>1, <3>3, <4>1
      <4> QED
        BY <3>3, <4>1, <4>2 DEF Change
    <3>5. Progress("stored") /\ refused = {}
      BY <3>1 DEF WorkIsKnown
    <3>6. Progress("stored")'
      <4> SUFFICES ASSUME NEW m \in Names
                   PROVE  files'[Job][m] = IF m \in units \ (todo' \cup refused) THEN "stored"
                                           ELSE IF open' = <<m, Job>> THEN "cut" ELSE "before"
        BY <3>1 DEF Progress
      <4>1. CASE m = n
        BY <3>4, <3>5, <4>1
      <4>2. CASE m # n
        <5>1. open' # <<m, Job>> /\ open # <<m, Job>>
          BY <3>1, <3>2, <4>2
        <5> QED
          BY <3>4, <3>5, <4>2, <5>1 DEF Progress
      <4> QED
        BY <4>1, <4>2
    <3> QED
      BY <3>1, <3>6 DEF WorkIsKnown
  <2>11. CASE UnitFails
    BY <2>11 DEF UnitFails, Applying, WorkIsKnown, sessionVars
  <2>12. ASSUME NEW n \in Names, DeleteFile(n) PROVE WorkIsKnown'
    <3>1. /\ access[Job] = Job /\ stage[Job] = "retire" /\ n \in todo
          /\ files'[Job] = [files[Job] EXCEPT ![n] = "deleted"] /\ todo' = todo \ {n}
          /\ UNCHANGED <<stage, units, open, all_ok, refused>>
      BY <2>12 DEF DeleteFile, Change, WriteSector, Retiring, sessionVars
    <3>2. open = None
      BY <3>1 DEF OpenWhileApplying
    <3>3. ASSUME all_ok PROVE Progress("deleted")'
      <4>1. Progress("deleted") /\ n \notin refused
        BY <3>1, <3>3 DEF WorkIsKnown
      <4>2. \A m \in Names : open' # <<m, Job>>
        BY <3>1, <3>2
      <4> QED
        BY <3>1, <4>1, <4>2 DEF Progress
    <3> QED
      BY <3>1, <3>2, <3>3 DEF WorkIsKnown
  <2>13. ASSUME NEW n \in Names, DeleteFails(n) PROVE WorkIsKnown'
    <3>1. /\ stage[Job] = "retire" /\ n \in todo /\ todo' = todo \ {n}
          /\ refused' = refused \cup {n}
          /\ UNCHANGED <<files, stage, units, open, all_ok>>
      BY <2>13 DEF DeleteFails, Retiring, Ready, JobIsAlone, sessionVars
    <3>2. todo' \cup refused' = todo \cup refused /\ todo' \cap refused' = {}
      BY <3>1 DEF WorkIsKnown
    <3>3. Progress("deleted") => Progress("deleted")'
      BY <3>1, <3>2 DEF Progress
    <3>4. open = None
      BY <3>1 DEF OpenWhileApplying
    <3> QED
      BY <3>1, <3>2, <3>3, <3>4 DEF WorkIsKnown
  <2>14. ASSUME NEW u \in Users, FindSector(u) \/ ReadSector(u) PROVE WorkIsKnown'
    BY <2>2, <2>14 DEF FindSector, ReadSector, sessionVars
  <2>15. CASE UNCHANGED vars
    BY <2>2, <2>15 DEF vars, sessionVars
  <2> QED
    BY <1>2, <2>3, <2>4, <2>5, <2>6, <2>7, <2>9, <2>10, <2>11, <2>12, <2>13, <2>14, <2>15 DEF Next
<1> QED
  BY <1>1, <1>2

\* CompleteWhenAlone: as long as no other Image existed, the buffer that leaves for
\* NAND has every unit stored, or every message that was sent deleted but for those
\* f_unlink refuses, and is otherwise as it was read.
THEOREM AloneMeansComplete == Spec => []CompleteWhenAlone
<1>1. Init => AloneInv
  BY ImageAssumption DEF Init, AloneInv, OpenWhileApplying, Users
<1>2. ASSUME Inv, AloneInv, [Next]_vars PROVE AloneInv'
  <2>1. OpenWhileApplying'
    BY <1>2, OpenNext DEF AloneInv
  <2>2. ~shared' /\ stage'[Job] # "idle" => JobIsAlone' /\ WorkIsKnown'
    BY <1>2, StaysAlone, WorkNext
  <2> QED
    BY <2>1, <2>2 DEF AloneInv
<1>3. Inv /\ AloneInv => CompleteWhenAlone
  <2> SUFFICES ASSUME Inv, AloneInv, stage[Job] = "commit", ~shared PROVE Complete
    BY DEF CompleteWhenAlone
  <2>1. /\ all_ok /\ todo = {}
        /\ (Progress("stored") /\ refused = {}) \/ Progress("deleted")
    BY DEF AloneInv, WorkIsKnown
  <2>2. open = None
    BY DEF AloneInv, OpenWhileApplying
  <2>3. \A m \in Names : open # <<m, Job>>
    BY <2>2, ImageAssumption DEF Users
  <2> QED
    BY <2>1, <2>3 DEF Progress, Complete
<1> QED
  BY <1>1, <1>2, <1>3, InvHolds, PTL DEF Spec
=============================================================================
