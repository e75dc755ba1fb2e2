-------------------------------- MODULE FatDir --------------------------------
(***************************************************************************)
(* One FAT directory as directory.c reads and writes it: 32-byte entries  *)
(* in the clusters of the directory's chain, long-name (VFAT) runs ahead  *)
(* of their short entry, and the scans fat_search_dir, fat_search_long,   *)
(* read_longname, fat_get_free_dentry, fat_add_long_entry and             *)
(* fat_erase_dentry.  The directory is a cluster-chained one (a           *)
(* subdirectory, or the root on FAT32); its callers are fs_fat.c's create *)
(* (open with O_CREAT) and unlink.                                         *)
(*                                                                         *)
(* An entry keeps what the scans tell apart: end of directory (name[0]    *)
(* 0), free (0xE5), a long-name entry (the long name it spells a part of, *)
(* its order and the last flag) or a short entry (its 8.3 name as a       *)
(* basis and a numeric tail, 0 for none).  Long names are model values    *)
(* spelt by a UTF-8 byte string, converted as ucs.c does (module Ucs).   *)
(***************************************************************************)
EXTENDS Integers, Sequences, FiniteSets, Ucs

CONSTANTS Max,        \* entries per cluster (bytes_per_cluster >> 5)
          NClus,      \* clusters 1..NClus; cluster 1 is the directory's first
          LongNames,  \* names that are not 8.3 components
          Utf8,       \* long name -> the bytes of the path component
          Basis,      \* long name -> the basis of its generated short name
          UserShort,  \* 8.3 names callers use, as <<basis, tail>>
          MaxTail     \* the largest numeric tail create_shortname tries

VARIABLES dslot,      \* cluster -> index -> entry
          nxt         \* the FAT entries of the clusters: 0 free, EOC last

vars == <<dslot, nxt>>

EOC == NClus + 1
Clus == 1..NClus
Idx == 0..(Max - 1)
First == 1

Eod == [t |-> "eod"]
Free == [t |-> "free", lfn |-> FALSE]
\* A long-name entry fat_erase_dentry freed: name[0] (its order byte) is
\* 0xE5, and its attribute still marks it a long-name entry.
Erased == [t |-> "free", lfn |-> TRUE]
Lfn(n, o, last) == [t |-> "lfn", n |-> n, o |-> o, last |-> last]
Short(s, fc) == [t |-> "short", s |-> s, fc |-> fc]   \* fc: the file's cluster

NoEnt == [k |-> "noent"]
EIO == [k |-> "eio"]
Found(c, i, lc, li) == [k |-> "found", c |-> c, i |-> i, lc |-> lc, li |-> li]

\* fat_add_dentry: the name in UCS-2 (longname_buf2, 256 units), its
\* length, and the long-name entries it takes (dents).
UcsName == [n \in LongNames |-> Utf8ToUcs2(Utf8[n], 256).out]
NameLen == [n \in LongNames |-> StrlenUcs2(UcsName[n])]
Ents(fn) == (NameLen[fn] + 12) \div 13

\* fat_search_long's l: strlen(fn), the length of the name in bytes.
ByteLen == [n \in LongNames |-> Len(Utf8[n])]

\* fs_fat_readdir: the units of a long name up to fat_strlen_ucs2, back in
\* UTF-8 through the 256 bytes of the dirent's name.
ReaddirName(n) == Ucs2ToUtf8(Prefix(UcsName[n], NameLen[n]), 256)

\* C's uint32_t comparison x >= y for a difference x of small numbers: a
\* negative x wraps to 2^32 + x, above every y the code compares it with.
UGe(x, y) == x < 0 \/ x >= y

Init == /\ dslot = [c \in Clus |-> [i \in Idx |-> Eod]]
        /\ nxt = [c \in Clus |-> IF c = First THEN EOC ELSE 0]

-----------------------------------------------------------------------------
(* fat_search_dir: the short entry named s, scanning cluster by cluster  *)
(* until the end-of-directory entry or the end of the chain.             *)
RECURSIVE SearchDir(_, _, _)
SearchDir(s, c, i) ==
    IF i = Max
    THEN IF nxt[c] = EOC THEN NoEnt ELSE SearchDir(s, nxt[c], 0)
    ELSE LET e == dslot[c][i] IN
         IF e.t = "eod" THEN NoEnt
         ELSE IF e.t = "short" /\ e.s = s THEN Found(c, i, 0, 0)
         ELSE SearchDir(s, c, i + 1)

(* read_longname: from the entry after i, the rest of a long-name run up *)
(* to its order-1 entry, following the chain; EIO on an end, a free or a *)
(* short entry.  It answers where the run ended and the names it spelt.  *)
RECURSIVE ReadLongname(_, _, _)
ReadLongname(c, i, ns) ==
    IF i >= Max
    THEN IF nxt[c] = EOC THEN [ok |-> FALSE]
         ELSE ReadLongname(nxt[c], 0, ns)
    ELSE LET e == dslot[c][i] IN
         IF e.t # "lfn" THEN [ok |-> FALSE]
         ELSE IF e.o = 1 THEN [ok |-> TRUE, c |-> c, i |-> i, ns |-> ns \cup {e.n}]
         ELSE ReadLongname(c, i + 1, ns \cup {e.n})

(* fat_search_long: the short entry after the long-name run spelling fn. *)
(* The answers are a set: when the run's last entry is the last of its   *)
(* cluster, the code reads entry i + 1 past the cluster buffer, whose     *)
(* bytes may or may not look like a used entry.  Lengths of entries are   *)
(* in UCS-2 units, the name's length l in bytes.  The index i is carried *)
(* from one cluster to the next as the code leaves it, never reset.      *)
RECURSIVE SearchLong(_, _, _, _)
SearchLong(fn, c, i, skip) ==
    IF i >= Max
    THEN IF nxt[c] = EOC THEN {NoEnt} ELSE SearchLong(fn, nxt[c], i, skip)
    ELSE LET e == dslot[c][i] IN
         IF skip > 0 THEN SearchLong(fn, c, i + 1, skip - 1)
         ELSE IF e.t = "eod" THEN {NoEnt}
         ELSE IF e.t # "lfn" \/ ~e.last THEN SearchLong(fn, c, i + 1, 0)
         ELSE IF ByteLen[fn] > e.o * 13 \/ NameLen[e.n] # ByteLen[fn]
         THEN SearchLong(fn, c, i + 1, e.o)
         ELSE LET R == IF e.o # 1 THEN ReadLongname(c, i + 1, {e.n})
                       ELSE [ok |-> TRUE, c |-> c, i |-> i, ns |-> {e.n}]
              IN IF ~R.ok THEN {EIO}
                 ELSE IF R.ns = {fn}
                 THEN IF R.i + 1 = Max
                      THEN {NoEnt, Found(R.c, Max, c, i)}
                      ELSE IF dslot[R.c][R.i + 1].t \in {"eod", "free"}
                      THEN {NoEnt}
                      ELSE {Found(R.c, R.i + 1, c, i)}
                 ELSE IF R.c # c
                 THEN IF nxt[R.c] = EOC THEN {NoEnt}
                      ELSE SearchLong(fn, nxt[R.c], R.i, 1)
                 ELSE SearchLong(fn, c, R.i + 1, 1)

(* fat_find_child / fat_find_dentry for one component: an 8.3 name goes  *)
(* to fat_search_dir, any other to fat_search_long.                       *)
Lookup(fn) == IF fn \in UserShort THEN {SearchDir(fn, First, 0)}
              ELSE SearchLong(fn, First, 0, 0)

-----------------------------------------------------------------------------
(* fat_get_free_dentry: num contiguous slots.  ct counts the free run,   *)
(* the end-of-directory slot included, and (sc, si) is where it began.   *)
(* At the end entry the room test is the code's unsigned                  *)
(* max - i - ct >= num.  old is the cluster before the one being read,    *)
(* moved only when the scan steps to the next cluster, as the code does. *)
(* The answer is a slot, or a request to grow the directory after old.   *)
RECURSIVE GetFreeDentry(_, _, _, _, _, _, _)
GetFreeDentry(num, c, i, ct, sc, si, old) ==
    IF i = Max
    THEN IF nxt[c] = EOC
         THEN [k |-> "alloc", old |-> c, ct |-> ct, c |-> sc, i |-> si]
         ELSE GetFreeDentry(num, nxt[c], 0, ct, sc, si, c)
    ELSE LET e == dslot[c][i]
             ct1 == ct + 1
             sc1 == IF ct1 = 1 THEN c ELSE sc
             si1 == IF ct1 = 1 THEN i ELSE si
         IN CASE e.t = "eod" ->
                   IF UGe(Max - i - ct1, num)
                   THEN [k |-> "at", c |-> sc1, i |-> si1]
                   ELSE [k |-> "alloc", old |-> old, ct |-> ct1, c |-> sc1, i |-> si1]
              [] e.t = "free" ->
                   IF ct1 = num THEN [k |-> "at", c |-> sc1, i |-> si1]
                   ELSE GetFreeDentry(num, c, i + 1, ct1, sc1, si1, old)
              [] OTHER -> GetFreeDentry(num, c, i + 1, 0, sc, si, old)

(* fat_add_long_entry: entries dents..1 of the name from slot (c, i) on, *)
(* the first with the last flag, then the short entry, following the     *)
(* FAT n.  At the end of the chain it stops and reports success with     *)
(* whatever it has written.                                               *)
RECURSIVE AddLongEntry(_, _, _, _, _, _, _, _)
AddLongEntry(d, n, fn, sn, fc, c, i, j) ==
    IF i < Max /\ j > 0
    THEN AddLongEntry([d EXCEPT ![c][i] = Lfn(fn, j, j = Ents(fn))],
                      n, fn, sn, fc, c, i + 1, j - 1)
    ELSE IF j = 0 /\ i < Max
    THEN [d EXCEPT ![c][i] = Short(sn, fc)]
    ELSE IF n[c] = EOC THEN d
    ELSE AddLongEntry(d, n, fn, sn, fc, n[c], 0, j)

\* create_shortname taking the first tail without asking fat_find_child2.
CreateShortnameNoCheck(fn) == 1

\* create_shortname whose last tail test lets one tail past the bound.
CreateShortnameNoBound(fn) ==
    LET free == {t \in 1..(MaxTail + 1) : SearchDir(<<Basis[fn], t>>, First, 0) = NoEnt}
    IN IF free = {} THEN 0 ELSE CHOOSE t \in free : \A u \in free : t <= u

(* create_shortname: the basis with the first numeric tail from 1 that   *)
(* fat_find_child2 (fat_search_dir) does not find; 0 when every tail up  *)
(* to the bound is taken (ENOSPC).                                        *)
CreateShortname(fn) ==
    LET free == {t \in 1..MaxTail : SearchDir(<<Basis[fn], t>>, First, 0) = NoEnt}
    IN IF free = {} THEN 0 ELSE CHOOSE t \in free : \A u \in free : t <= u

\* The long-name pass writing 0 (end of directory) instead of 0xE5.
RECURSIVE EraseLongEod(_, _, _)
EraseLongEod(d, c, i) ==
    IF i = Max
    THEN IF nxt[c] = EOC THEN d ELSE EraseLongEod(d, nxt[c], 0)
    ELSE IF d[c][i].t = "lfn"
         THEN EraseLongEod([d EXCEPT ![c][i] = Eod], c, i + 1)
         ELSE d

(* fat_erase_dentry's long-name pass: from (c, i) mark long-name entries  *)
(* free up to the first free one (the short entry, already freed); stop   *)
(* with EIO on an end, a short entry or the end of the chain, keeping    *)
(* what was marked.                                                       *)
RECURSIVE EraseLong(_, _, _)
EraseLong(d, c, i) ==
    IF i = Max
    THEN IF nxt[c] = EOC THEN d ELSE EraseLong(d, nxt[c], 0)
    ELSE IF d[c][i].t = "lfn"
         THEN EraseLong([d EXCEPT ![c][i] = Erased], c, i + 1)
         ELSE d

-----------------------------------------------------------------------------
Names == LongNames \cup UserShort

(* fat_get_free_dentry's alloc_another: the new cluster j is linked    *)
(* after old (fat_write_fat(old, j)) and cleared; the entries go to the  *)
(* start of j when no free run led up to the end, else where it began.  *)
AllocAnother(r, n0, j) ==
    [n |-> [n0 EXCEPT ![r.old] = j, ![j] = EOC],
     d |-> [dslot EXCEPT ![j] = [x \in Idx |-> Eod]],
     s |-> IF r.ct = 0 THEN <<j, 0>> ELSE <<r.c, r.i>>]

\* Where the entries go, and the directory and FAT they are written in.
Place(r, n0, j) == IF r.k = "alloc" THEN AllocAnother(r, n0, j)
                   ELSE [n |-> n0, d |-> dslot, s |-> <<r.c, r.i>>]

\* Create growing the directory from the FAT as read before the file's
\* cluster was taken.
CreateStaleFat(fn) ==
    /\ NoEnt \in Lookup(fn)
    /\ \E fc \in {c \in Clus : nxt[c] = 0} :
         LET long == fn \in LongNames
             tail == IF long THEN CreateShortname(fn) ELSE 1
             r == GetFreeDentry(IF long THEN Ents(fn) + 1 ELSE 1,
                                First, 0, 0, First, 0, First)
             n0 == [nxt EXCEPT ![fc] = EOC]
         IN /\ tail # 0
            /\ \E j \in IF r.k = "alloc" THEN {x \in Clus : nxt[x] = 0} ELSE {0} :
                 LET g == Place(r, n0, j)
                 IN /\ nxt' = g.n
                    /\ dslot' = IF long
                                THEN AddLongEntry(g.d, g.n, fn, <<Basis[fn], tail>>,
                                                  fc, g.s[1], g.s[2], Ents(fn))
                                ELSE [g.d EXCEPT ![g.s[1]][g.s[2]] = Short(fn, fc)]

(* fs_fat_open with O_CREAT on a missing name, through fat_create_entry:  *)
(* fat_find_child must answer ENOENT; the file's first cluster fc is     *)
(* allocated; fat_add_dentry then takes the short path (one slot) or the  *)
(* long path (create_shortname, dents + 1 slots, fat_add_long_entry).     *)
(* Growing the directory allocates a cluster j, links it after old and   *)
(* clears it.  Every failure (no cluster, no tail) undoes the allocation *)
(* of fc and leaves the state as it was, so it is no step here.          *)
Create(fn) ==
    /\ NoEnt \in Lookup(fn)
    /\ \E fc \in {c \in Clus : nxt[c] = 0} :
         LET long == fn \in LongNames
             tail == IF long THEN CreateShortname(fn) ELSE 1
             r == GetFreeDentry(IF long THEN Ents(fn) + 1 ELSE 1,
                                First, 0, 0, First, 0, First)
             n0 == [nxt EXCEPT ![fc] = EOC]
         IN /\ tail # 0
            /\ \E j \in IF r.k = "alloc" THEN {x \in Clus : n0[x] = 0} ELSE {0} :
                 LET g == Place(r, n0, j)
                 IN /\ nxt' = g.n
                    /\ dslot' = IF long
                                THEN AddLongEntry(g.d, g.n, fn, <<Basis[fn], tail>>,
                                                  fc, g.s[1], g.s[2], Ents(fn))
                                ELSE [g.d EXCEPT ![g.s[1]][g.s[2]] = Short(fn, fc)]

(* fs_fat_unlink: fat_find_dentry's entry must be a short one (a long-   *)
(* name entry's attribute has the volume-id bit: ENOENT); fat_erase_chain *)
(* frees the file's cluster, then fat_erase_dentry frees the short entry *)
(* and the long-name run.  What lies past a cluster buffer is unknown,   *)
(* so a lookup answered from there unlinks nothing here.                 *)
Unlink(fn) ==
    \E r \in Lookup(fn) :
        /\ r.k = "found"
        /\ r.i < Max
        /\ dslot[r.c][r.i].t = "short"
        /\ LET d1 == [dslot EXCEPT ![r.c][r.i] = Free]
           IN /\ nxt' = [nxt EXCEPT ![dslot[r.c][r.i].fc] = 0]
              /\ dslot' = IF r.lc = 0 THEN d1 ELSE EraseLong(d1, r.lc, r.li)

Next == \E fn \in Names : Create(fn) \/ Unlink(fn)

Spec == Init /\ [][Next]_vars

-----------------------------------------------------------------------------
(* The directory in chain order, the reference the properties read.      *)
RECURSIVE ChainFrom(_)
ChainFrom(c) == IF nxt[c] = EOC THEN <<c>> ELSE <<c>> \o ChainFrom(nxt[c])
Chain == ChainFrom(First)
NSlots == Len(Chain) * Max
At(k) == <<Chain[(k - 1) \div Max + 1], (k - 1) % Max>>
Ent(k) == dslot[At(k)[1]][At(k)[2]]
EodPos == LET E == {k \in 1..NSlots : Ent(k).t = "eod"}
          IN IF E = {} THEN NSlots + 1 ELSE CHOOSE k \in E : \A m \in E : k <= m
Used == {k \in 1..(EodPos - 1) : Ent(k).t = "short"}

MaxOrder == CHOOSE m \in {Ents(n) : n \in LongNames} : \A n \in LongNames : Ents(n) <= m
ShortNames == UserShort \cup {<<Basis[fn], t>> : fn \in LongNames, t \in 1..MaxTail}
Entry == {Eod, Free, Erased}
         \cup {Lfn(n, o, l) : n \in LongNames, o \in 1..MaxOrder, l \in BOOLEAN}
         \cup {Short(s, fc) : s \in ShortNames, fc \in Clus}

TypeOK == /\ dslot \in [Clus -> [Idx -> Entry]]
          /\ nxt \in [Clus -> 0..EOC]

(* Erasing never writes an end-of-directory entry and a directory only   *)
(* grows by cleared clusters linked at its end, so everything after the  *)
(* first end-of-directory entry, in chain order, is an end entry too:    *)
(* every scan that stops at the first one has seen every entry in use.   *)
EodTerminates == \A k \in EodPos..NSlots : Ent(k).t = "eod"

(* create_shortname picks a tail no short entry has, so no two short     *)
(* entries in use carry the same 8.3 name, whatever mix of 8.3 creates, *)
(* long-name creates and unlinks came before.                            *)
ShortNamesUnique == \A k1, k2 \in Used : Ent(k1).s = Ent(k2).s => k1 = k2

(* The file clusters of the entries in use are allocated, are not        *)
(* clusters of the directory and belong to one entry each: the           *)
(* allocations of fat_create_entry and of a growing directory never hand *)
(* out the same cluster, and unlink frees only the entry's own.           *)
FileClustersDisjoint ==
    /\ \A k \in Used : /\ nxt[Ent(k).fc] = EOC
                       /\ \A x \in DOMAIN Chain : Chain[x] # Ent(k).fc
    /\ \A k1, k2 \in Used : Ent(k1).fc = Ent(k2).fc => k1 = k2

\* The long names readdir meets: those of the runs before the end entry.
Listed == {Ent(k).n : k \in {k \in 1..(EodPos - 1) : Ent(k).t = "lfn"}}

(* fs_fat_readdir returns every long name in the directory as exactly    *)
(* the bytes it was created with, and fat_ucs2_to_utf8 is exact on every *)
(* bounded name and buffer size (a name cut short or a terminator past  *)
(* the buffer fails it).                                                 *)
EncodeExact ==
    /\ EncodeBounded
    /\ \A n \in Listed : ReaddirName(n) = [ok |-> TRUE, out |-> Utf8[n]]

(* A name readdir returns converts back, as open converts it, to the     *)
(* units stored in the directory, and fat_utf8_to_ucs2 gives back every *)
(* bounded name cut to olen - 1 units.                                   *)
DecodeExact ==
    /\ DecodeBounded
    /\ \A n \in Listed : Utf8ToUcs2(ReaddirName(n).out, 256).out = UcsName[n]

-----------------------------------------------------------------------------
(* What a lookup of a long name should answer: the short entry in use    *)
(* right after the name's whole run of long-name entries, the first such *)
(* in chain order.                                                        *)
RefLookup(fn) ==
    LET K == {k \in Used : \A j \in 1..Ents(fn) :
                               k - j >= 1 /\ Ent(k - j) = Lfn(fn, j, j = Ents(fn))}
    IN IF K = {} THEN [k |-> "noent", at |-> <<>>]
       ELSE [k |-> "found", at |-> At(CHOOSE k \in K : \A m \in K : k <= m)]
Answer(r) == [k |-> r.k, at |-> IF r.k = "found" THEN <<r.c, r.i>> ELSE <<>>]

(* fat_find_child on a long name (fat_search_long) finds exactly the     *)
(* file that name was created for, and reports ENOENT only when there is *)
(* none: it neither misses a file nor answers with another file's entry. *)
LookupAgrees == \A fn \in LongNames : {Answer(r) : r \in Lookup(fn)} = {RefLookup(fn)}

(* fat_search_long never answers with an entry outside the cluster it    *)
(* read: the short entry it returns lies within the directory.           *)
SearchInBounds == \A fn \in LongNames : \A r \in Lookup(fn) : r.k = "found" => r.i < Max

(* Every cluster holding directory entries is a cluster of the           *)
(* directory's chain: growing the directory never unlinks a cluster.     *)
DirClustersLinked ==
    \A x \in Clus : (\E i \in Idx : dslot[x][i] # Eod) => \E y \in DOMAIN Chain : Chain[y] = x

(* Every allocated cluster is the directory's or the file cluster of an  *)
(* entry in use: a create that reports success has written its entry.   *)
ClustersNamed ==
    \A x \in Clus : nxt[x] # 0 => \/ \E y \in DOMAIN Chain : Chain[y] = x
                                  \/ \E k \in Used : Ent(k).fc = x
====
