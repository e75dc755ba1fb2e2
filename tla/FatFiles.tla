------------------------------- MODULE FatFiles -------------------------------
(***************************************************************************)
(* The open-file table of fs_fat.c over one path: fs_fat_open (with       *)
(* O_CREAT and O_TRUNC), close, read, write, seek and unlink, each one    *)
(* atomic under fat_mutex.  A handle holds a detached copy of the file's  *)
(* directory entry (first cluster, size), a byte position, a cluster      *)
(* cursor (cluster, cluster_order) and the "seek pending" bit 0x80000000  *)
(* of its mode.  The FAT and its allocator are FatTable's operators; the  *)
(* cluster cache is taken as the store it refines (FatCache).             *)
(***************************************************************************)
EXTENDS Naturals, Integers, Sequences, FiniteSets

CONSTANTS Handles,         \* fh[] slots
          Bs,              \* bytes per cluster
          Byte,            \* byte values callers write
          MaxCount,        \* largest byte count of one read or write
          MaxPos,          \* largest position a seek sets
          MaxSize,         \* callers write no byte at or past this position
          OpenModes,       \* access modes callers open with
          UnlinkWhileOpen, \* callers may unlink the path while a handle is open
          InitSlack,       \* bytes past the end of the last cluster at mount
          InitHints,       \* values of FSInfo's allocation hint at mount
          NumClusters, FsType, BytesPerSec, Reserved, FatSize

VARIABLES fat, last, free,  \* the FAT and sb.last_alloc_cluster / free_clusters
          data,             \* cluster -> its bytes (0..Bs-1)
          dir,              \* the path's directory entry [used, cl, size]
          fh,               \* handle -> its fh[] slot
          ret               \* result of the last call

vars == <<fat, last, free, data, dir, fh, ret>>

FT == INSTANCE FatTable WITH Files <- {}, Dirs <- {}, MaxOrder <- 1, MaxFaults <- 0,
                             FaultSites <- {}, EmptyFiles <- FALSE, InitHints <- {},
                             dent <- [n \in {} |-> 0], faults <- 0, spurious <- FALSE,
                             cut <- {}

Zero == 0
Clusters == FT!Clusters
Offsets == 0..(Bs - 1)
ZeroCluster == [i \in Offsets |-> Zero]
Readable == {"R", "RW"}
Writable == {"W", "RW"}
MinOf(a, b) == IF a < b THEN a ELSE b

Result(h, op, err, d) == [h |-> h, op |-> op, err |-> err, data |-> d, n |-> Len(d)]
Ok(h, op) == Result(h, op, "none", <<>>)

Closed == [open |-> FALSE, mode |-> "R", ptr |-> 0, cl |-> 0, order |-> 0,
           seek |-> FALSE, dcl |-> 0, dsize |-> 0]

\* A freshly filled slot (the code after the "created" label).
Opened(m, ent) == [open |-> TRUE, mode |-> m, ptr |-> 0, cl |-> ent.cl, order |-> 0,
                   seek |-> FALSE, dcl |-> ent.cl, dsize |-> ent.size]

\* What the FAT routines act on.
Cur == [fat |-> fat, last |-> last, free |-> free, data |-> data]
Commit(st) == /\ fat' = st.fat /\ last' = st.last /\ free' = st.free
              /\ data' = st.data

(* advance_cluster's first step: moving backward restarts from the        *)
(* file's first cluster, and the handle keeps that even if the walk fails. *)
Rewound(hd, order) ==
    IF hd.order > order THEN [hd EXCEPT !.cl = hd.dcl, !.order = 0] ELSE hd

(* advance_cluster(fd, order, 0): follow links; at an end-of-chain value  *)
(* the cursor takes it and the call returns EDOM.                          *)
RECURSIVE Follow(_, _, _, _)
Follow(f, cl, clo, order) ==
    IF clo >= order THEN [err |-> "none", cl |-> cl, clo |-> clo]
    ELSE IF ~FT!EntryReadable(cl) THEN [err |-> "EIO", cl |-> cl, clo |-> clo]
    ELSE IF FT!IsEof(f[cl]) THEN [err |-> "EDOM", cl |-> f[cl], clo |-> clo]
    ELSE Follow(f, f[cl], clo + 1, order)

AdvanceRead(hd, order) ==
    LET h0 == Rewound(hd, order)
        r == Follow(fat, h0.cl, h0.order, order)
    IN [err |-> r.err,
        hd |-> IF r.err = "EIO" THEN h0
               ELSE [h0 EXCEPT !.cl = r.cl, !.order = r.clo, !.seek = FALSE]]

(* advance_cluster(fd, order, 1): FatTable's walk from the rewound      *)
(* cursor h0, with result r, which allocates at the end of the chain;     *)
(* every cluster it allocates is cleared (zeroed).                        *)
AdvanceWriteOf(st, h0, order, r) ==
    LET fresh == {c \in Clusters : st.fat[c] = 0 /\ r.st.fat[c] # 0}
    IN [ok |-> r.ok,
        st |-> [r.st EXCEPT !.data = [c \in Clusters |->
                                        IF c \in fresh THEN ZeroCluster ELSE @[c]]],
        hd |-> IF r.ok THEN [h0 EXCEPT !.cl = r.cl, !.order = order, !.seek = FALSE]
               ELSE h0]

AdvanceWriteFrom(st, h0, order) ==
    AdvanceWriteOf(st, h0, order, FT!Advance(st, h0.cl, h0.order, order, 0))

AdvanceWrite(st, hd, order) == AdvanceWriteFrom(st, Rewound(hd, order), order)

-----------------------------------------------------------------------------
(* fs_fat_open on a free slot h.  An existing entry is copied into the    *)
(* slot; with O_TRUNC and write access the chain after the first cluster  *)
(* is erased, the first cluster marked end-of-chain and cleared, and the  *)
(* entry written back with size 0.  A missing entry with O_CREAT goes     *)
(* through fat_create_entry.  Each failure returns NULL, leaving what the *)
(* FAT routines did in place.                                             *)
Open(h, m, trunc, creat) ==
    LET cl == dir.cl
        e == FT!Erase(Cur, fat[cl])
        a == FT!Allocate(Cur)
    IN
    /\ ~fh[h].open
    /\ IF dir.used /\ trunc /\ m \in Writable
       THEN IF ~FT!EntryReadable(cl)
            THEN ret' = Result(h, "open", "EIO", <<>>) /\ UNCHANGED <<fat, last, free, data, dir, fh>>
            ELSE IF ~FT!IsEof(fat[cl]) /\ ~e.ok
            THEN Commit(e.st) /\ ret' = Result(h, "open", "EIO", <<>>) /\ UNCHANGED <<dir, fh>>
            ELSE LET st == IF FT!IsEof(fat[cl]) THEN Cur
                           ELSE [e.st EXCEPT !.fat[cl] = FT!Stored(268435455)]
                 IN /\ Commit([st EXCEPT !.data[cl] = ZeroCluster])
                    /\ dir' = [dir EXCEPT !.size = 0]
                    /\ fh' = [fh EXCEPT ![h] = Opened(m, dir')]
                    /\ ret' = Ok(h, "open")
       ELSE IF dir.used
       THEN fh' = [fh EXCEPT ![h] = Opened(m, dir)] /\ ret' = Ok(h, "open")
            /\ UNCHANGED <<fat, last, free, data, dir>>
       ELSE IF ~creat
       THEN ret' = Result(h, "open", "ENOENT", <<>>) /\ UNCHANGED <<fat, last, free, data, dir, fh>>
       ELSE IF ~a.found
       THEN Commit(a.st) /\ ret' = Result(h, "open", "ENOSPC", <<>>) /\ UNCHANGED <<dir, fh>>
       ELSE /\ Commit([a.st EXCEPT !.data[a.cl] = ZeroCluster])
            /\ dir' = [used |-> TRUE, cl |-> a.cl, size |-> 0]
            /\ fh' = [fh EXCEPT ![h] = Opened(m, dir')]
            /\ ret' = Ok(h, "open")

\* fs_fat_close: the slot is free again; nothing is written back.
Close(h) ==
    /\ fh[h].open
    /\ fh' = [fh EXCEPT ![h] = Closed]
    /\ ret' = Ok(h, "close")
    /\ UNCHANGED <<fat, last, free, data, dir>>

\* fs_fat_seek64: any whence yields a position; the seek bit is set.
Seek(h, p) ==
    /\ fh[h].open
    /\ fh' = [fh EXCEPT ![h].ptr = p, ![h].seek = TRUE]
    /\ ret' = Ok(h, "seek")
    /\ UNCHANGED <<fat, last, free, data, dir>>

\* Mutant: the entry is left in use after its chain is erased.
UnlinkKeepsEntry ==
    /\ dir.used
    /\ UnlinkWhileOpen \/ \A h \in Handles : ~fh[h].open
    /\ Commit(FT!Erase(Cur, dir.cl).st)
    /\ ret' = Ok("path", "unlink")
    /\ UNCHANGED <<dir, fh>>

(* fs_fat_unlink: erase the chain, then mark the entry free.  The open-   *)
(* file table is not consulted.                                            *)
Unlink ==
    /\ dir.used
    /\ UnlinkWhileOpen \/ \A h \in Handles : ~fh[h].open
    /\ Commit(FT!Erase(Cur, dir.cl).st)
    /\ dir' = [dir EXCEPT !.used = FALSE]
    /\ ret' = Ok("path", "unlink")
    /\ UNCHANGED fh

(* The copy loop of fs_fat_read, from the cursor's cluster: take up to    *)
(* the end of the cluster; if more is wanted, follow the link (an end-of- *)
(* chain there is EIO); if the take ended exactly at the cluster's end,   *)
(* the cursor moves on to the link, end-of-chain or not.                  *)
RECURSIVE ReadLoop(_, _, _)
ReadLoop(hd, cnt, acc) ==
    LET bo == hd.ptr % Bs
        chunk == MinOf(cnt, Bs - bo)
        acc2 == acc \o [i \in 1..chunk |-> data[hd.cl][bo + i - 1]]
        hd2 == [hd EXCEPT !.ptr = @ + chunk]
    IN
    IF hd.cl \notin Clusters THEN [err |-> "EIO", hd |-> hd, acc |-> acc]
    ELSE IF cnt > Bs - bo
         THEN IF ~FT!EntryReadable(hd.cl) \/ FT!IsEof(fat[hd.cl])
              THEN [err |-> "EIO", hd |-> hd2, acc |-> acc2]
              ELSE ReadLoop([hd2 EXCEPT !.cl = fat[hd.cl], !.order = @ + 1],
                            cnt - chunk, acc2)
    ELSE IF chunk + bo = Bs
         THEN IF ~FT!EntryReadable(hd.cl) THEN [err |-> "EIO", hd |-> hd2, acc |-> acc2]
              ELSE [err |-> "none", acc |-> acc2,
                    hd |-> [hd2 EXCEPT !.cl = fat[hd.cl], !.order = @ + 1]]
    ELSE [err |-> "none", hd |-> hd2, acc |-> acc2]

(* fs_fat_read: refuse a handle without read access; return 0 at an end- *)
(* of-chain cursor or at the size in the handle's entry copy (before any  *)
(* pending seek is applied); clip the count to that size; apply a pending *)
(* seek (EDOM there is end of file); copy.                                 *)
Read(h, n) ==
    LET hd == fh[h]
        cnt == MinOf(n, hd.dsize - hd.ptr)
        adv == IF hd.seek THEN AdvanceRead(hd, hd.ptr \div Bs)
               ELSE [err |-> "none", hd |-> hd]
        r == ReadLoop(adv.hd, cnt, <<>>)
    IN
    /\ hd.open
    /\ IF hd.mode \notin Readable
       THEN ret' = Result(h, "read", "EBADF", <<>>) /\ UNCHANGED fh
       ELSE IF FT!IsEof(hd.cl) \/ hd.ptr >= hd.dsize
       THEN ret' = Ok(h, "read") /\ UNCHANGED fh
       ELSE IF adv.err = "EDOM"
       THEN fh' = [fh EXCEPT ![h] = adv.hd] /\ ret' = Ok(h, "read")
       ELSE IF adv.err # "none"
       THEN fh' = [fh EXCEPT ![h] = adv.hd] /\ ret' = Result(h, "read", adv.err, <<>>)
       ELSE /\ fh' = [fh EXCEPT ![h] = r.hd]
            /\ ret' = Result(h, "read", r.err, IF r.err = "none" THEN r.acc ELSE <<>>)
    /\ UNCHANGED <<fat, last, free, data, dir>>

(* The copy loop of fs_fat_write from byte k of d: store up to the end of *)
(* the cluster; if more remains, advance_cluster one cluster on (which    *)
(* allocates at the end of the chain); otherwise set the seek bit, so the *)
(* next write moves on only when it needs to.  a is that advance, from    *)
(* the stored state st2 and the moved handle hd2.                          *)
RECURSIVE WriteLoop(_, _, _, _)
WriteNext(d, k, chunk, a) ==
    IF ~a.ok THEN [ok |-> FALSE, st |-> a.st, hd |-> a.hd]
    ELSE WriteLoop(a.st, a.hd, d, k + chunk)

\* Mutant: a copy that ends on a cluster boundary leaves the seek bit clear.
WriteChunkNoSeekBit(st2, hd2, d, k, chunk, more) ==
    IF more THEN WriteNext(d, k, chunk, AdvanceWrite(st2, hd2, hd2.order + 1))
    ELSE [ok |-> TRUE, st |-> st2, hd |-> hd2]

WriteChunk(st2, hd2, d, k, chunk, more) ==
    IF more THEN WriteNext(d, k, chunk, AdvanceWrite(st2, hd2, hd2.order + 1))
    ELSE [ok |-> TRUE, st |-> st2, hd |-> [hd2 EXCEPT !.seek = TRUE]]

WriteLoop(st, hd, d, k) ==
    LET cnt == Len(d) - k + 1
        bo == hd.ptr % Bs
        chunk == MinOf(cnt, Bs - bo)
    IN
    IF hd.cl \notin Clusters THEN [ok |-> FALSE, st |-> st, hd |-> hd]
    ELSE WriteChunk([st EXCEPT !.data[hd.cl] =
                        [i \in Offsets |-> IF bo <= i /\ i < bo + chunk THEN d[k + i - bo]
                                           ELSE st.data[hd.cl][i]]],
                    [hd EXCEPT !.ptr = @ + chunk], d, k, chunk, cnt > Bs - bo)

(* fs_fat_write's tail, given the copy's result w: if the position passed *)
(* the size in the handle's entry copy or the handle is O_WRONLY, set that *)
(* size to the position and write the whole copy back to the entry.       *)
\* Mutant: the new size counts the bytes written twice.
WriteBackDoubleCount(h, d, w) ==
    LET grow == w.hd.ptr > w.hd.dsize \/ w.hd.mode = "W"
        hd3 == IF grow THEN [w.hd EXCEPT !.dsize = w.hd.ptr + Len(d)] ELSE w.hd
    IN
    IF ~w.ok
    THEN Commit(w.st) /\ fh' = [fh EXCEPT ![h] = w.hd]
         /\ ret' = Result(h, "write", "failed", <<>>) /\ UNCHANGED dir
    ELSE /\ Commit(w.st)
         /\ fh' = [fh EXCEPT ![h] = hd3]
         /\ dir' = IF grow THEN [used |-> TRUE, cl |-> hd3.dcl, size |-> hd3.dsize]
                   ELSE dir
         /\ ret' = [Result(h, "write", "none", <<>>) EXCEPT !.n = Len(d)]

WriteBack(h, d, w) ==
    LET grow == w.hd.ptr > w.hd.dsize \/ w.hd.mode = "W"
        hd3 == IF grow THEN [w.hd EXCEPT !.dsize = w.hd.ptr] ELSE w.hd
    IN
    IF ~w.ok
    THEN Commit(w.st) /\ fh' = [fh EXCEPT ![h] = w.hd]
         /\ ret' = Result(h, "write", "failed", <<>>) /\ UNCHANGED dir
    ELSE /\ Commit(w.st)
         /\ fh' = [fh EXCEPT ![h] = hd3]
         /\ dir' = IF grow THEN [used |-> TRUE, cl |-> hd3.dcl, size |-> hd3.dsize]
                   ELSE dir
         /\ ret' = [Result(h, "write", "none", <<>>) EXCEPT !.n = Len(d)]

\* fs_fat_write after a pending seek was applied, with that result adv.
WriteFrom(h, d, adv) ==
    IF ~adv.ok
    THEN Commit(adv.st) /\ fh' = [fh EXCEPT ![h] = adv.hd]
         /\ ret' = Result(h, "write", "failed", <<>>) /\ UNCHANGED dir
    ELSE WriteBack(h, d, WriteLoop(adv.st, adv.hd, d, 1))

(* fs_fat_write: refuse a handle without write access; apply a pending   *)
(* seek with allocation; copy; write the entry back.                       *)
Write(h, d) ==
    /\ fh[h].open
    /\ IF fh[h].mode \notin Writable
       THEN ret' = Result(h, "write", "EBADF", <<>>) /\ UNCHANGED <<fat, last, free, data, dir, fh>>
       ELSE WriteFrom(h, d, IF fh[h].seek THEN AdvanceWrite(Cur, fh[h], fh[h].ptr \div Bs)
                            ELSE [ok |-> TRUE, st |-> Cur, hd |-> fh[h]])

-----------------------------------------------------------------------------
\* The chain of a file of size sz: at least one cluster, then one per Bs bytes.
ChainLen(sz) == IF sz = 0 THEN 1 ELSE (sz + Bs - 1) \div Bs

(* A mounted volume: the path absent, or naming a file whose chain is the *)
(* clusters 2, 3, ... it needs; bytes past its end in the last cluster    *)
(* are InitSlack; every other cluster is free.                             *)
Init ==
    /\ \E used \in BOOLEAN, sz \in 0..MaxSize :
         LET k == IF used THEN ChainLen(sz) ELSE 0
             owned == 2..(k + 1)
         IN /\ k <= NumClusters
            /\ dir = [used |-> used, cl |-> IF used THEN 2 ELSE 0, size |-> IF used THEN sz ELSE 0]
            /\ fat = [e \in FT!Entries |->
                        IF e = 0 THEN FT!Media ELSE IF e = 1 THEN FT!EocMark
                        ELSE IF e \in owned THEN (IF e = k + 1 THEN FT!EocMark ELSE e + 1)
                        ELSE 0]
            /\ data \in [Clusters -> [Offsets -> Byte \cup {Zero}]]
            /\ \A c \in Clusters, i \in Offsets :
                 LET byteNo == (c - 2) * Bs + i IN
                 \/ c \in owned /\ byteNo < sz
                 \/ c \in owned /\ byteNo >= sz /\ data[c][i] \in InitSlack
                 \/ c \notin owned /\ data[c][i] = Zero
    /\ last \in InitHints
    /\ free = FT!FreeCount(fat)
    /\ fh = [h \in Handles |-> Closed]
    /\ ret = Ok("path", "none")

Next ==
    \/ Unlink
    \/ \E h \in Handles :
         \/ \E m \in OpenModes, t, c \in BOOLEAN : Open(h, m, t, c)
         \/ Close(h)
         \/ \E n \in 1..MaxCount : Read(h, n)
         \/ \E k \in 1..MaxCount, d \in [1..MaxCount -> Byte] :
              /\ fh[h].ptr + k <= MaxSize
              /\ Write(h, [i \in 1..k |-> d[i]])
         \/ \E p \in 0..MaxPos : Seek(h, p)

Spec == Init /\ [][Next]_vars

-----------------------------------------------------------------------------
TypeOK ==
    /\ dir \in [used : BOOLEAN, cl : {0} \cup FT!Entries, size : 0..MaxSize]
    /\ \A h \in Handles : fh[h].open =>
         /\ fh[h].mode \in OpenModes
         /\ fh[h].ptr \in 0..MaxSize \cup 0..MaxPos
         /\ fh[h].seek \in BOOLEAN
    /\ data \in [Clusters -> [Offsets -> Byte \cup {Zero}]]

\* The cluster k links after c (or the value met where the chain stops).
RECURSIVE Nth(_, _)
Nth(c, k) == IF k = 0 \/ c \notin Clusters THEN c ELSE Nth(fat[c], k - 1)

(* The path's entry names a chain that ends in an end-of-chain mark and   *)
(* has a cluster for every byte of the size it records.  fs_fat_write    *)
(* extends the chain (advance_cluster) before it raises the size and     *)
(* writes the entry back, O_TRUNC erases the chain past the first cluster *)
(* and zeroes the size, and unlink frees the chain with the entry.  Under *)
(* FatFiles_one_handle.cfg one handle does this in every mode, seeking    *)
(* past the end and across cluster boundaries; the configurations with a  *)
(* second handle, an unlink while open, or a full volume check the same  *)
(* statement against stale entry copies and retried writes.              *)
FileChainSound ==
    dir.used => /\ FT!Terminates(fat, dir.cl, NumClusters)
                /\ dir.size <= Bs * Cardinality(FT!ChainFrom(fat, dir.cl, NumClusters))

(* With no seek pending, a handle's cluster cursor is the cluster that   *)
(* holds its position: cluster_order is ptr / Bs and cluster is that     *)
(* link of the chain.  fs_fat_write relies on it to store at the cursor  *)
(* without advancing, after write, read and failed calls alike.          *)
CursorMatchesPtr ==
    \A h \in Handles :
        fh[h].open /\ ~fh[h].seek =>
            /\ fh[h].order = fh[h].ptr \div Bs
            /\ fh[h].cl = Nth(fh[h].dcl, fh[h].order)

\* The contents the directory entry and the FAT describe.
Lost == -1
FileBytes ==
    IF ~dir.used THEN <<>>
    ELSE [i \in 1..dir.size |-> LET c == Nth(dir.cl, (i - 1) \div Bs) IN
                                IF c \in Clusters THEN data[c][(i - 1) % Bs] ELSE Lost]

Abstract == INSTANCE ByteFile WITH
                exists <- dir.used, bytes <- FileBytes,
                hmode <- [h \in Handles |-> IF fh[h].open THEN fh[h].mode ELSE "closed"],
                pos <- [h \in Handles |-> fh[h].ptr]

(* spec.md 6.3: the calls give byte-stream I/O.  Every step of the VFS    *)
(* layer is a step of ByteFile: reads return the bytes last written at   *)
(* the position, all handles see one file, gaps read as zero, and unlink *)
(* of an open file is refused.                                            *)
Refinement == Abstract!Spec
================================================================================
