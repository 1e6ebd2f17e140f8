----------------------------- MODULE FatGeometry -----------------------------
(***************************************************************************)
(* fs/fat/boot_sector.rs and the address arithmetic of low_level.rs: how   *)
(* clusters, FAT entries and byte ranges of a cluster become sectors and   *)
(* offsets of the volume, and the capacity check of the device under it.   *)
(* The states are a boot sector read from a disk and, once Root::new has   *)
(* accepted it, one access by the file system.                             *)
(***************************************************************************)
EXTENDS Integers

CONSTANTS SectorSizes,  \* the sector sizes try_from accepts
          BootSectors,  \* the boot sectors a disk may carry
          Volumes,      \* [size, count]: sector size and sector count of the device
          Wrap          \* 2^64: check_capacity adds sectors as u64

\* Sectors hold a whole number of FAT entries, and sector counts are u64.
ASSUME GeometryAssumption ==
    /\ \A s \in SectorSizes : s \in Nat \ {0} /\ s % 4 = 0
    /\ \A b \in BootSectors : /\ b.bytsPerSec \in Nat /\ b.secPerClus \in Nat /\ b.rsvdSecCnt \in Nat
                              /\ b.numFats \in Nat /\ b.totSec32 \in Nat /\ b.fatSz32 \in Nat
    /\ Wrap \in Nat /\ \A d \in Volumes : d.size \in Nat /\ d.count \in 0..Wrap

VARIABLES bs,      \* the boot sector, by its fields
          volume,
          status,  \* "new", an error, or "mounted"
          access   \* what the access touched: [kind, n, from, to, parts]
geometry == <<bs, volume, status, access>>

NoAccess == [kind |-> "none"]
IsPowerOfTwo(n) == n \in {1, 2, 4, 8, 16, 32, 64, 128}  \* of a u8

\* BootSector::try_from, then Root::new: the first check that fails. "magic" stands for
\* the fields that have one legal value: ok, or the first that has not.
Verdict ==
    IF bs.magic \in {"SignatureMismatch", "JmpBoot"} THEN bs.magic
    ELSE IF bs.bytsPerSec \notin SectorSizes THEN "BytsPerSec"
    ELSE IF ~IsPowerOfTwo(bs.secPerClus) THEN "SecPerClus"
    ELSE IF bs.rsvdSecCnt = 0 THEN "RsvdSecCnt"
    ELSE IF bs.fat16 THEN "FAT12/16"
    ELSE IF bs.magic \in {"FSVer", "FSInfo", "BootSig"} THEN bs.magic
    ELSE IF bs.bytsPerSec # volume.size THEN "BytsPerSec (mismatch)"
    ELSE IF volume.count < bs.totSec32 THEN "TotSec (mismatch)"
    ELSE "mounted"

FatAreaStart == bs.rsvdSecCnt
FatAreaSize == bs.fatSz32 * bs.numFats
DataAreaStart == FatAreaStart + FatAreaSize  \* no root directory area in FAT32
DataAreaSize == bs.totSec32 - DataAreaStart

\* Mutant: clusters counted from zero.
ClusterAvailableFromZero(n) == 2 <= n /\ n <= DataAreaSize \div bs.secPerClus + 2

IsClusterAvailable(n) == 2 <= n /\ n <= DataAreaSize \div bs.secPerClus + 1

FatEntryLocation(n) ==
    [sector |-> FatAreaStart + (n * 4) \div bs.bytsPerSec, offset |-> (n * 4) % bs.bytsPerSec]
ClusterLocation(n) == DataAreaStart + (n - 2) * bs.secPerClus
ClusterBytes == bs.bytsPerSec * bs.secPerClus

\* BufferedCluster::sector_range: the pieces <<sector, i, j>> of start..end-1.
SectorRange(start, end) ==
    LET size == bs.bytsPerSec
        ss == start \div size
        es == end \div size
        Piece(s) == <<s, IF s = ss THEN start % size ELSE 0, IF s = es THEN end % size ELSE size>>
    IN {p \in {Piece(s) : s \in ss..es} : p[2] < p[3]}

\* Block::check_capacity: the sum is a u64.
CheckCapacity(sector, len) ==
    (sector + ((IF len = 0 THEN 1 ELSE len) - 1) \div volume.size) % Wrap < volume.count

InitGeometry ==
    /\ bs \in BootSectors /\ volume \in Volumes
    /\ status = "new" /\ access = NoAccess

Mount ==
    /\ status = "new"
    /\ status' = Verdict
    /\ UNCHANGED <<bs, volume, access>>

\* What the format promises and try_from does not look at: the FAT has an entry for
\* every cluster, and the areas fit in the volume.
WellFormed ==
    /\ bs.numFats > 0 /\ DataAreaStart <= bs.totSec32
    /\ (DataAreaSize \div bs.secPerClus + 2) * 4 <= bs.fatSz32 * bs.bytsPerSec

\* BufferedFat::read and write of one entry.
AccessFat(n) ==
    /\ status = "mounted" /\ access = NoAccess /\ WellFormed /\ IsClusterAvailable(n)
    /\ LET l == FatEntryLocation(n)
       IN access' = [kind |-> "fat", n |-> n, from |-> 0, to |-> 4,
                     parts |-> {<<l.sector, l.offset, l.offset + 4>>}]
    /\ UNCHANGED <<bs, volume, status>>

\* BufferedCluster::read and write of a byte range.
AccessCluster(n, from, to) ==
    /\ status = "mounted" /\ access = NoAccess /\ WellFormed /\ IsClusterAvailable(n)
    /\ access' = [kind |-> "data", n |-> n, from |-> from, to |-> to,
                  parts |-> {<<ClusterLocation(n) + p[1], p[2], p[3]>> : p \in SectorRange(from, to)}]
    /\ UNCHANGED <<bs, volume, status>>

NextGeometry ==
    \/ Mount
    \/ \E n \in 2..(volume.count + 1) :
          \/ AccessFat(n)
          \/ \E to \in 0..ClusterBytes : \E from \in 0..to : AccessCluster(n, from, to)

SpecGeometry == InitGeometry /\ [][NextGeometry]_geometry
-----------------------------------------------------------------------------
\* Where byte number a of the volume's area of that access belongs.
Positions(parts) == UNION {{p[1] * bs.bytsPerSec + k : k \in p[2]..(p[3] - 1)} : p \in parts}

\* Access x touches the bytes that its number and range name, of full length, inside its
\* area, in pieces of one sector that check_capacity lets through.
TouchesItsOwn(x) ==
    LET base == IF x.kind = "fat" THEN FatAreaStart * bs.bytsPerSec + 4 * x.n
                ELSE DataAreaStart * bs.bytsPerSec + (x.n - 2) * ClusterBytes
        first == IF x.kind = "fat" THEN FatAreaStart ELSE DataAreaStart
        last == IF x.kind = "fat" THEN FatAreaStart + bs.fatSz32 ELSE bs.totSec32
    IN /\ Positions(x.parts) = (base + x.from)..(base + x.to - 1)
       /\ \A p \in x.parts :
             /\ first <= p[1] /\ p[1] < last
             /\ p[3] <= bs.bytsPerSec
             /\ CheckCapacity(p[1], bs.bytsPerSec)

\* Every access of the mounted file system touches exactly its own bytes: the FAT entry of n and
\* the range of cluster n are the slices of the first FAT and of the data area that
\* their number names, of full length, inside their area and inside the device,
\* which check_capacity therefore never refuses; no two clusters share a byte.
AccessExact == access.kind # "none" => TouchesItsOwn(access)

\* The exactness of accesses with what it rests on: a mounted volume has passed every check.
GeometryInv ==
    /\ bs \in BootSectors /\ volume \in Volumes
    /\ status = "mounted" => Verdict = "mounted"
    /\ AccessExact
=============================================================================
