------------------------------- MODULE FatTable -------------------------------
(***************************************************************************)
(* The file allocation table of libkosfat (fat.c) and the handlers of     *)
(* fs_fat.c and directory.c that change it: creating an entry, extending  *)
(* a file or a directory by whole clusters, truncating, unlinking and     *)
(* removing a directory.  Every handler runs under fat_mutex, so each is   *)
(* one atomic action; the FAT routines it calls are operators on a state  *)
(* record [fat, last, free] (the table, sb.last_alloc_cluster and          *)
(* sb.free_clusters) so that the loops of the code can be followed.        *)
(*                                                                         *)
(* FAT sectors are read through the FAT-sector cache, which FatCache      *)
(* shows to be invisible (with two or more slots); here a sector read      *)
(* fails only where fat_fatblock_read_nc's bound check refuses it.         *)
(* Directory entries are reduced to the first cluster they name.          *)
(***************************************************************************)
EXTENDS Naturals, Integers, FiniteSets

CONSTANTS FsType,       \* "FAT12", "FAT16" or "FAT32" (sb.fs_type)
          NumClusters,  \* sb.num_clusters: data clusters are 2..NumClusters+1
          BytesPerSec,  \* sb.bytes_per_sector (a small power of two here)
          Reserved,     \* sb.reserved_sectors
          FatSize,      \* sb.fat_size, in sectors
          Files,        \* names of regular files
          Dirs,         \* names of subdirectories
          MaxOrder,     \* largest cluster index a write seeks to
          MaxFaults,    \* bound on failed cluster-cache / dentry operations
          FaultSites,   \* which of those calls may fail
          EmptyFiles    \* whether the volume may hold size-0 files (cluster 0)

VARIABLES fat,      \* cluster -> FAT entry value (entries 0 and 1 included)
          last,     \* sb.last_alloc_cluster
          free,     \* sb.free_clusters
          dent,     \* name -> first cluster in its directory entry, or None
          faults,   \* failures injected so far
          spurious, \* an allocation has failed while a data cluster was free
          cut       \* clusters directory growth has cut out of a chain

vars == <<fat, last, free, dent, faults, spurious, cut>>

Clusters == 2..(NumClusters + 1)
EntsPerSec == BytesPerSec \div (CASE FsType = "FAT32" -> 4 [] OTHER -> 2)
Names == Files \cup Dirs
None == -2
HintUnknown == -1            \* FSInfo's 0xFFFFFFFF ("no hint")
U32Max == 2147483647          \* stands for 0xFFFFFFFF as a loop bound
Width == CASE FsType = "FAT12" -> 12 [] FsType = "FAT16" -> 16
                                     [] FsType = "FAT32" -> 28
EocMark == 2^Width - 1        \* 0x0FFF / 0xFFFF / 0x0FFFFFFF as stored
Media == 2^Width - 8          \* entry 0: media byte 0xF8 in the low bits

\* fat_write_fat keeps the low Width bits of a value (FAT32's top 4 bits
\* are preserved and not modelled).
Stored(v) == v % 2^Width

\* fat_is_eof
IsEof(v) == v >= 2^Width - 8

\* The byte offset of cluster cl's entry and its FAT sector (fat_read_fat,
\* fat_write_fat, fat_allocate_cluster).
ByteOff(cl) == CASE FsType = "FAT32" -> cl * 4
                 [] FsType = "FAT16" -> cl * 2
                 [] FsType = "FAT12" -> cl + cl \div 2
SecOf(cl) == Reserved + ByteOff(cl) \div BytesPerSec

\* fat_fatblock_read_nc refuses a sector number >= fat_size; the number it
\* is given counts from the start of the volume, not of the FAT.
SectorReadable(sn) == sn < FatSize

\* A FAT12 entry at the last byte of a sector needs the next sector too.
Straddles(cl) == FsType = "FAT12" /\ ByteOff(cl) % BytesPerSec = BytesPerSec - 1

\* Every entry of the FAT sectors that hold entries 0..NumClusters+1: on
\* FAT16/32 the entries past the last data cluster are slack in the last
\* such sector (the FAT12 search reads entries one at a time and never
\* reaches them).
Entries == IF FsType = "FAT12" THEN 0..(NumClusters + 1)
           ELSE 0..((SecOf(NumClusters + 1) - Reserved + 1) * EntsPerSec - 1)

EntryReadable(cl) == /\ cl \in Entries
                     /\ SectorReadable(SecOf(cl))
                     /\ Straddles(cl) => SectorReadable(SecOf(cl) + 1)

FreeCount(f) == Cardinality({c \in Clusters : f[c] = 0})
HasFree(f) == \E c \in Clusters : f[c] = 0

-----------------------------------------------------------------------------
(* The state the FAT routines transform.                                   *)
Cur == [fat |-> fat, last |-> last, free |-> free]

Found(st, cl) == [found |-> TRUE, cl |-> cl, err |-> "none", st |-> st]
Failed(st, err) == [found |-> FALSE, cl |-> None, err |-> err, st |-> st]

\* Mutant: the hint records the cluster after the one claimed.
RECURSIVE Scan1632LastPastClaim(_, _, _, _)
Scan1632LastPastClaim(st, i, bound, sn) ==
    LET e == (sn - Reserved) * EntsPerSec + (i % EntsPerSec)
        base == (sn - Reserved) * EntsPerSec
    IN
    IF i >= bound THEN Failed(st, "none")
    ELSE IF st.fat[e] = 0
         THEN Found([st EXCEPT !.fat[e] = EocMark, !.last = i + 1,
                               !.free = IF FsType = "FAT32" THEN @ - 1 ELSE @],
                    i)
    ELSE IF /\ i >= NumClusters + 2
            /\ \A k \in 0..(EntsPerSec - 1) : st.fat[base + k] # 0
         THEN Failed(st, "none")
    ELSE IF (i + 1) % EntsPerSec = 0 /\ i + 1 < NumClusters + 2
         THEN IF SectorReadable(sn + 1)
              THEN Scan1632LastPastClaim(st, i + 1, bound, sn + 1)
              ELSE Failed(st, "EIO")
    ELSE Scan1632LastPastClaim(st, i + 1, bound, sn)

(* The inner loop of the FAT16/FAT32 search.  sn is the sector in hand;  *)
(* the entry examined is at offset (i * size) mod bytes_per_sector in it,  *)
(* which is entry i until i runs past the last data cluster, where no new  *)
(* sector is read and the offset wraps around the last one.  A free entry *)
(* is claimed with an end-of-chain mark and i returned.  Past the last     *)
(* data cluster the entries repeat, so a sector without a free one means   *)
(* the loop runs on to bound without finding any.                          *)
RECURSIVE Scan1632(_, _, _, _)
Scan1632(st, i, bound, sn) ==
    LET e == (sn - Reserved) * EntsPerSec + (i % EntsPerSec)
        base == (sn - Reserved) * EntsPerSec
    IN
    IF i >= bound THEN Failed(st, "none")
    ELSE IF st.fat[e] = 0
         THEN Found([st EXCEPT !.fat[e] = EocMark, !.last = i,
                               !.free = IF FsType = "FAT32" THEN @ - 1 ELSE @],
                    i)
    ELSE IF /\ i >= NumClusters + 2
            /\ \A k \in 0..(EntsPerSec - 1) : st.fat[base + k] # 0
         THEN Failed(st, "none")
    ELSE IF (i + 1) % EntsPerSec = 0 /\ i + 1 < NumClusters + 2
         THEN IF SectorReadable(sn + 1) THEN Scan1632(st, i + 1, bound, sn + 1)
              ELSE Failed(st, "EIO")
    ELSE Scan1632(st, i + 1, bound, sn)

\* One pass: read the sector of the starting entry, then scan.
Pass1632(st, i, bound) ==
    IF ~SectorReadable(SecOf(i)) THEN Failed(st, "EIO")
    ELSE Scan1632(st, i, bound, SecOf(i))

\* The FAT12 search, one fat_read_fat per cluster.  A free cluster is
\* marked 0x0FFF and the loop goes on (there is no return); the wrap pass
\* runs up to the hint as it stands after the first pass.
RECURSIVE Scan12(_, _, _)
Scan12(st, i, pass) ==
    LET bound == IF pass = 1 THEN NumClusters + 2 ELSE st.last + 1 IN
    IF i >= bound
    THEN IF pass = 1 THEN Scan12(st, 2, 2) ELSE Failed(st, "ENOSPC")
    ELSE IF ~EntryReadable(i) THEN Failed(st, "EIO")
    ELSE IF st.fat[i] = 0
         THEN Scan12([st EXCEPT !.fat[i] = EocMark, !.last = i], i + 1, pass)
    ELSE Scan12(st, i + 1, pass)

\* sb.last_alloc_cluster + 1 in uint32_t arithmetic.
AllocStart(st) == IF st.last = HintUnknown THEN 0 ELSE st.last + 1

\* The pass whose result the allocation returns: a claim or an error ends it.
PassResult(st, p1, p2) ==
    IF p1.found \/ p1.err # "none" THEN p1
    ELSE IF p2.found \/ p2.err # "none" THEN p2
    ELSE Failed(st, "ENOSPC")

(* fat_allocate_cluster: FAT16/FAT32 search from the hint to the end, then *)
(* once from cluster 2 to the hint (exclusive); FAT12 as above.            *)
Allocate(st) ==
    IF FsType = "FAT12" THEN Scan12(st, AllocStart(st), 1)
    ELSE PassResult(st, Pass1632(st, AllocStart(st), NumClusters + 2),
                        Pass1632(st, 2, IF st.last = HintUnknown THEN U32Max
                                        ELSE st.last))

(* fat_erase_chain: until an end-of-chain value, read the link, write 0    *)
(* (its error is ignored) and count the cluster free.  A read that fails   *)
(* returns the error with the rest of the chain left alone.  depth bounds  *)
(* the walk; a cyclic chain would never end.                               *)
RECURSIVE EraseChain(_, _, _)
EraseChain(st, cl, depth) ==
    IF IsEof(cl) THEN [ok |-> TRUE, st |-> st]
    ELSE IF ~EntryReadable(cl) \/ depth = 0 THEN [ok |-> FALSE, st |-> st]
    ELSE EraseChain([st EXCEPT !.fat[cl] = 0, !.free = @ + 1],
                    st.fat[cl], depth - 1)

Erase(st, cl) == EraseChain(st, cl, NumClusters + 2)

\* An allocation that failed although a data cluster was free.
Spurious(st, a) == ~a.found /\ HasFree(st.fat)

(* advance_cluster with write set, from cluster cl at index clo to index  *)
(* order: follow each link; at an end-of-chain allocate a cluster, clear  *)
(* it (if that fails, free it again and return) and link it.  clearFails  *)
(* is the index of the iteration whose clear fails, 0 for none.  On       *)
(* success cl is the cluster reached, which the handle's cursor takes.    *)
\* Mutant: a failed clear returns without freeing the new cluster.
RECURSIVE Advance(_, _, _, _, _), AdvanceAlloc(_, _, _, _, _, _),
          AdvanceAllocNoFree(_, _, _, _, _, _)
AdvanceAllocNoFree(st, cl, clo, order, clearFails, a) ==
    IF ~a.found
    THEN [ok |-> FALSE, st |-> a.st, spur |-> Spurious(st, a), hit |-> FALSE]
    ELSE IF clearFails = clo + 1
         THEN [ok |-> FALSE, st |-> a.st, spur |-> FALSE, hit |-> TRUE]
    ELSE Advance([a.st EXCEPT !.fat[cl] = Stored(a.cl)], a.cl, clo + 1,
                 order, clearFails)

\* The end-of-chain branch of the loop, given the allocation's result a.
AdvanceAlloc(st, cl, clo, order, clearFails, a) ==
    IF ~a.found
    THEN [ok |-> FALSE, st |-> a.st, spur |-> Spurious(st, a), hit |-> FALSE]
    ELSE IF clearFails = clo + 1
         THEN [ok |-> FALSE, st |-> [a.st EXCEPT !.fat[a.cl] = 0],
               spur |-> FALSE, hit |-> TRUE]
    ELSE Advance([a.st EXCEPT !.fat[cl] = Stored(a.cl)], a.cl, clo + 1,
                 order, clearFails)

Advance(st, cl, clo, order, clearFails) ==
    IF clo >= order THEN [ok |-> TRUE, st |-> st, spur |-> FALSE, hit |-> FALSE, cl |-> cl]
    ELSE IF ~EntryReadable(cl)
         THEN [ok |-> FALSE, st |-> st, spur |-> FALSE, hit |-> FALSE]
    ELSE IF ~IsEof(st.fat[cl])
         THEN Advance(st, st.fat[cl], clo + 1, order, clearFails)
    ELSE AdvanceAlloc(st, cl, clo, order, clearFails, Allocate(st))

(* The choices of failure a handler may meet at a call site.               *)
MayFail(site) == IF site \in FaultSites /\ faults < MaxFaults
                    THEN BOOLEAN ELSE {FALSE}

Commit(st) == /\ fat' = st.fat
              /\ last' = st.last
              /\ free' = st.free

Count(failed) == faults' = faults + (IF failed THEN 1 ELSE 0)

(* fat_create_entry (from open with O_CREAT, and mkdir): the name must not *)
(* exist; allocate a cluster, clear it in the cluster cache, add the       *)
(* directory entry.  If the clear or the add fails the chain is erased.   *)
Create(n) ==
    LET a == Allocate(Cur) IN
    /\ dent[n] = None
    /\ spurious' = (spurious \/ Spurious(Cur, a))
    /\ IF ~a.found
       THEN Commit(a.st) /\ UNCHANGED <<dent, faults>>
       ELSE \E clearFails \in MayFail("clear"), addFails \in MayFail("add_dentry") :
              /\ ~(clearFails /\ addFails)
              /\ IF clearFails \/ addFails
                 THEN Commit(Erase(a.st, a.cl).st) /\ UNCHANGED dent
                 ELSE Commit(a.st) /\ dent' = [dent EXCEPT ![n] = a.cl]
              /\ Count(clearFails \/ addFails)
    /\ UNCHANGED cut

(* fs_fat_write after a seek to cluster index order of file f (the handle *)
(* starts at index 0 on open): advance_cluster(fd, order, 1).              *)
Extend(f, order) ==
    /\ dent[f] # None
    /\ \E clearFails \in {0} \cup (IF TRUE \in MayFail("clear")
                                      THEN 1..order ELSE {}) :
         LET r == Advance(Cur, dent[f], 0, order, clearFails) IN
         /\ Commit(r.st)
         /\ spurious' = (spurious \/ r.spur)
         /\ Count(r.hit)
    /\ UNCHANGED <<dent, cut>>

\* Mutant: the first cluster is not given an end-of-chain mark.
TruncateNoEoc(f) ==
    LET cl == dent[f]
        e == Erase(Cur, fat[cl])
    IN /\ cl # None
       /\ IF ~EntryReadable(cl) \/ IsEof(fat[cl]) THEN UNCHANGED <<fat, last, free>>
          ELSE Commit(e.st)
       /\ UNCHANGED <<dent, faults, spurious, cut>>

(* fs_fat_open with O_TRUNC on an existing file: read the first cluster's *)
(* link; unless it is end-of-chain, erase the rest of the chain and mark  *)
(* the first cluster end-of-chain (0x0FFFFFFF, truncated to the width).   *)
(* Each failure returns with what was done so far left in place.          *)
Truncate(f) ==
    LET cl == dent[f]
        e == Erase(Cur, fat[cl])
    IN /\ cl # None
       /\ IF ~EntryReadable(cl) \/ IsEof(fat[cl]) THEN UNCHANGED <<fat, last, free>>
          ELSE IF ~e.ok THEN Commit(e.st)
          ELSE Commit([e.st EXCEPT !.fat[cl] = Stored(268435455)])
       /\ UNCHANGED <<dent, faults, spurious, cut>>

\* Mutant: the chain is erased and the directory entry kept.
RemoveKeepsDentry(n) ==
    /\ dent[n] # None
    /\ Commit(Erase(Cur, dent[n]).st)
    /\ UNCHANGED <<dent, faults, spurious, cut>>

(* fs_fat_unlink / fs_fat_rmdir: erase the chain (an error is remembered   *)
(* but does not stop the handler), then erase the directory entry, which  *)
(* may fail and leave it in place.                                         *)
Remove(n) ==
    /\ dent[n] # None
    /\ \E eraseFails \in MayFail("erase_dentry") :
         /\ Commit(Erase(Cur, dent[n]).st)
         /\ dent' = IF eraseFails THEN dent ELSE [dent EXCEPT ![n] = None]
         /\ Count(eraseFails)
    /\ UNCHANGED <<spurious, cut>>

Unlink(f) == Remove(f)

Rmdir(d) == Remove(d)

\* The last cluster of the chain from cl, or None if a link cannot be read.
RECURSIVE LastOf(_, _, _)
LastOf(st, cl, depth) ==
    IF ~EntryReadable(cl) \/ depth = 0 THEN None
    ELSE IF IsEof(st.fat[cl]) THEN cl
    ELSE LastOf(st, st.fat[cl], depth - 1)

\* The clusters of the chain that starts at cl (depth bounds the walk).
RECURSIVE ChainFrom(_, _, _)
ChainFrom(f, cl, depth) ==
    IF depth = 0 \/ cl \notin Clusters THEN {}
    ELSE {cl} \cup (IF IsEof(f[cl]) THEN {} ELSE ChainFrom(f, f[cl], depth - 1))

\* The clusters of d's chain that link to cl.
PredOf(st, d, cl) == {p \in ChainFrom(st.fat, dent[d], NumClusters) : st.fat[p] = cl}

(* fat_get_free_dentry when directory d has no room left: allocate a      *)
(* cluster, link it after old, clear it; if the clear fails, free it and  *)
(* end the chain at old again.  old is updated only when the scan steps   *)
(* to the next cluster, so it is the last cluster when the scan ran off   *)
(* the chain's end, but the one before the last when the end-of-directory *)
(* mark lies in the last cluster with too few entries after it: then the *)
(* last cluster is cut out of the chain.  Which case arises depends on    *)
(* the entries, which this module does not hold.                          *)
GrowDir(d) ==
    LET lst == LastOf(Cur, dent[d], NumClusters + 2)
        a == Allocate(Cur)
    IN /\ dent[d] # None
       /\ IF lst = None THEN UNCHANGED <<fat, last, free, faults, spurious, cut>>
          ELSE /\ spurious' = (spurious \/ Spurious(Cur, a))
               /\ IF ~a.found THEN Commit(a.st) /\ UNCHANGED <<faults, cut>>
                  ELSE \E old \in {lst} \cup PredOf(Cur, d, lst),
                         clearFails \in MayFail("clear") :
                         /\ IF clearFails
                            THEN Commit([a.st EXCEPT !.fat[a.cl] = 0,
                                                     !.fat[old] = EocMark])
                            ELSE Commit([a.st EXCEPT !.fat[old] = Stored(a.cl)])
                         /\ cut' = IF old = lst THEN cut ELSE cut \cup {lst}
                         /\ Count(clearFails)
       /\ UNCHANGED dent

-----------------------------------------------------------------------------
\* The chain from cl stays within the data clusters and ends in an
\* end-of-chain mark.
RECURSIVE Terminates(_, _, _)
Terminates(f, cl, depth) ==
    /\ cl \in Clusters
    /\ depth > 0
    /\ IsEof(f[cl]) \/ Terminates(f, f[cl], depth - 1)

ChainOf(f, d, n) == IF d[n] = None THEN {} ELSE ChainFrom(f, d[n], NumClusters)

\* A volume as another system leaves it: every entry's chain well formed,
\* no two chains sharing a cluster and no allocated cluster outside one.
WellFormed(f, d) ==
    /\ \A n \in Names : d[n] \notin {None, 0} => Terminates(f, d[n], NumClusters)
    /\ \A m, n \in Names : m # n => ChainOf(f, d, m) \cap ChainOf(f, d, n) = {}
    /\ \A c \in Clusters : f[c] # 0 => \E n \in Names : c \in ChainOf(f, d, n)

Layout(links) == [e \in Entries |-> IF e = 0 THEN Media
                                    ELSE IF e = 1 THEN EocMark
                                    ELSE IF e \in Clusters THEN links[e]
                                    ELSE 0]

(* fat_read_boot: FAT12/16 volumes have no FSInfo, so the hint is 2 and   *)
(* the free count 0; FAT32 takes both from a valid FSInfo sector (the hint *)
(* may be "unknown"), leaves them 0 when the signatures are wrong, and    *)
(* takes hint 2 with count 0 when the volume names no FSInfo sector.      *)
CONSTANT InitHints  \* the FSInfo hints a FAT32 volume may carry

Init ==
    /\ dent \in [Names -> {None} \cup Clusters \cup (IF EmptyFiles THEN {0} ELSE {})]
    /\ \A d \in Dirs : dent[d] # 0
    /\ fat \in {Layout(l) : l \in [Clusters -> {0, EocMark} \cup Clusters]}
    /\ WellFormed(fat, dent)
    /\ IF FsType = "FAT32"
       THEN \/ last \in InitHints /\ free = FreeCount(fat)
            \/ last \in {0, 2} /\ free = 0
       ELSE last = 2 /\ free = 0
    /\ faults = 0
    /\ spurious = FALSE
    /\ cut = {}

Next ==
    \/ \E n \in Names : Create(n)
    \/ \E f \in Files, o \in 1..MaxOrder : Extend(f, o)
    \/ \E f \in Files : Truncate(f) \/ Unlink(f)
    \/ \E d \in Dirs : Rmdir(d) \/ GrowDir(d)

Spec == Init /\ [][Next]_vars

-----------------------------------------------------------------------------
TypeOK == /\ fat \in [Entries -> 0..EocMark]
          /\ dent \in [Names -> {None} \cup Entries \cup Nat]
          /\ last \in {HintUnknown} \cup 0..(NumClusters + 1)
          /\ faults \in 0..MaxFaults
          /\ spurious \in BOOLEAN
          /\ cut \subseteq Clusters

Chain(n) == ChainOf(fat, dent, n)

(* spec.md 8.5: no cluster belongs to two chains.  Breaking it takes an   *)
(* allocator that hands out a cluster still linked, or a handler that     *)
(* frees a chain some entry still names, followed by a new allocation.    *)
ChainsDisjoint ==
    \A m, n \in Names : m # n => Chain(m) \cap Chain(n) = {}

(* Every entry's chain stays inside the data clusters and ends in an      *)
(* end-of-chain mark: allocation only hands out data clusters, linking    *)
(* and truncation only write end-of-chain or a data cluster.              *)
ChainsWellFormed ==
    \A n \in Names : dent[n] \notin {None, 0} => Terminates(fat, dent[n], NumClusters)

(* No cluster is lost: an allocated data cluster belongs to some entry's  *)
(* chain once a handler returns, whatever its error paths did (the failed *)
(* clears and dentry adds of fat_create_entry, advance_cluster and        *)
(* fat_get_free_dentry), unless it is a last cluster that directory       *)
(* growth's stale old cut out of a directory (directory.c:954).           *)
NoLeak ==
    \A c \in Clusters : fat[c] # 0 => (\E n \in Names : c \in Chain(n)) \/ c \in cut

(* spec.md 4.4.2: clusters 0 and 1 are reserved; their entries (media     *)
(* byte and end-of-chain) are never written by a handler.                 *)
ReservedIntact == fat[0] = Media /\ fat[1] = EocMark

(* fat_allocate_cluster's comment: after the second pass "there really    *)
(* aren't any clusters left".  An allocation fails only when no data      *)
(* cluster is free.                                                        *)
NoSpuriousAllocFailure == ~spurious

(* spec.md 4.4.3: allocation decrements free_clusters and chain erasure   *)
(* increments it, so on FAT32 the FSInfo count moves exactly as the       *)
(* number of free clusters does, on every handler's every path.           *)
FreeCountTracks ==
    [][free' - free = FreeCount(fat') - FreeCount(fat)]_vars
================================================================================
