------------------------------- MODULE Ext2Vfs --------------------------------
(***************************************************************************)
(* The VFS layer of libkosext2fs (fs_ext2.c) over a flat root directory:  *)
(* the fh[] open-file table and the handlers open (O_CREAT, O_TRUNC,      *)
(* O_APPEND), close, read, write, seek, unlink, rename and link.  Every   *)
(* handler takes ext2_mutex at entry; its body runs atomically, since no  *)
(* other call can enter while the mutex is held (spec.md 5).  A thread    *)
(* that has called a handler is "waiting" until it holds the mutex, and   *)
(* returns to "idle" when the body ends with mutex_unlock.                 *)
(*                                                                         *)
(* The ext2 engine (the ext2_inode_ and ext2_dir_ calls) is not in the   *)
(* source tree; its calls are modelled from spec.md 4.3: an inode has a   *)
(* link count, a size and a map from logical block index to data block;   *)
(* the block bitmap is the set of used blocks.  Block contents are left   *)
(* out: the properties are about which blocks an inode owns.              *)
(***************************************************************************)
EXTENDS Naturals, Integers, FiniteSets

CONSTANTS Names,      \* entry names of the root directory
          NInodes,    \* inodes 1..NInodes besides the root
          NBlocks,    \* data blocks 1..NBlocks
          NFiles,     \* MAX_EXT2_FILES: fh[] slots 1..NFiles
          Bs,         \* block size in bytes
          NIdx,       \* logical block indices 0..NIdx-1 a file may map
          MaxCount,   \* largest byte count of one read or write
          MaxPos,     \* largest position a seek sets
          OpenModes,  \* mode words callers open with
          Threads     \* threads calling into the engine

VARIABLES dir,     \* name -> inode number, 0 when the name has no entry
          links,   \* inode -> i_links_count (0: free in the inode bitmap)
          size,    \* inode -> i_size
          bmap,    \* inode -> logical index -> block, 0 for none
          used,    \* the block bitmap: blocks in use
          fh,      \* slot -> [ino (fh[].inode_num), mode, ptr]
          owned,   \* slots the callers hold as open handles
          pc,      \* thread -> "idle", "waiting" or "relock"
          holder   \* the thread holding ext2_mutex, or NoThread

vars == <<dir, links, size, bmap, used, fh, owned, pc, holder>>

Inodes == 1..NInodes
Blocks == 1..NBlocks
Slots == 1..NFiles
Idx == 0..(NIdx - 1)
NoThread == "none"
MinOf(a, b) == IF a < b THEN a ELSE b
Least(S) == CHOOSE x \in S : \A y \in S : x <= y

(* A mode word: the access mode O_RDONLY (0), O_WRONLY or O_RDWR, and the *)
(* flags O_APPEND, O_TRUNC and O_CREAT.  O_DIR is left out: the root has  *)
(* no subdirectories in this model.                                       *)
Mode(acc, app, tr, cr) == [acc |-> acc, append |-> app, trunc |-> tr, creat |-> cr]
Accs == {"RDONLY", "WRONLY", "RDWR"}
ModeWords == {Mode(a, p, t, c) : a \in Accs, p, t, c \in BOOLEAN}
ZeroMode == Mode("RDONLY", FALSE, FALSE, FALSE)
ZeroMap == [k \in Idx |-> 0]
FreeSlot == [ino |-> 0, mode |-> ZeroMode, ptr |-> 0]

Init == /\ dir = [n \in Names |-> 0]
        /\ links = [i \in Inodes |-> 0]
        /\ size = [i \in Inodes |-> 0]
        /\ bmap = [i \in Inodes |-> ZeroMap]
        /\ used = {}
        /\ fh = [s \in Slots |-> FreeSlot]
        /\ owned = {}
        /\ pc = [t \in Threads |-> "idle"]
        /\ holder = NoThread

-----------------------------------------------------------------------------
(* Engine calls (spec.md 4.3.2, 4.3.3).  A block map and the bitmap move  *)
(* together as a record w = [map, used, ok].                               *)

\* ext2_inode_alloc_block: take the first free block and point index k at
\* it, whatever k pointed at before.
AllocBlock(w, k) ==
    IF k \notin Idx \/ Blocks \subseteq w.used THEN [w EXCEPT !.ok = FALSE]
    ELSE LET b == Least(Blocks \ w.used)
         IN [w EXCEPT !.map[k] = b, !.used = @ \cup {b}]

\* ext2_inode_read_block succeeds when the index is mapped; an unmapped
\* index is EINVAL.
Mapped(w, k) == k \in Idx /\ w.map[k] # 0

\* ext2_inode_free_all: every data block of the inode returns to the bitmap.
FreeAll(i) == used \ {bmap[i][k] : k \in Idx}

\* ext2_inode_deref: one link fewer; at zero the inode and its blocks are
\* freed.
Deref(i) ==
    IF links[i] = 1
    THEN /\ links' = [links EXCEPT ![i] = 0]
         /\ used' = FreeAll(i)
         /\ bmap' = [bmap EXCEPT ![i] = ZeroMap]
    ELSE /\ links' = [links EXCEPT ![i] = @ - 1]
         /\ UNCHANGED <<used, bmap>>

\* Some slot of fh[] names inode i (the EBUSY scans of unlink and rename).
InUse(i) == \E s \in Slots : fh[s].ino = i

-----------------------------------------------------------------------------
(* Handler framing: the calling thread holds the mutex for the body and   *)
(* releases it at return.                                                  *)
Call(t) == /\ pc[t] = "idle"
           /\ pc' = [pc EXCEPT ![t] = "waiting"]
           /\ UNCHANGED <<dir, links, size, bmap, used, fh, owned, holder>>

Enter(t) == pc[t] = "waiting" /\ holder = NoThread
Return(t) == pc' = [pc EXCEPT ![t] = "idle"] /\ UNCHANGED holder

-----------------------------------------------------------------------------
(* fs_ext2_open: reserve the lowest free slot, look the name up, create   *)
(* the file (create_empty_file) when it is missing and O_CREAT is set,    *)
(* truncate when O_TRUNC comes with O_WRONLY or O_RDWR, fill the slot.    *)
Truncating(m) == m.trunc /\ m.acc \in {"WRONLY", "RDWR"}

Opened(t, fd, i, m) ==
    /\ fh' = [fh EXCEPT ![fd] = [ino |-> i, mode |-> m, ptr |-> 0]]
    /\ owned' = owned \cup {fd}
    /\ Return(t)

Created(t, fd, n, m) ==
    LET i == Least({j \in Inodes : links[j] = 0})
    IN /\ dir' = [dir EXCEPT ![n] = i]
       /\ links' = [links EXCEPT ![i] = 1]
       /\ size' = [size EXCEPT ![i] = 0]
       /\ UNCHANGED <<bmap, used>>
       /\ Opened(t, fd, i, m)

Open(t, n, m) ==
    /\ Enter(t)
    /\ IF \A s \in Slots : fh[s].ino # 0
       THEN Return(t) /\ UNCHANGED <<dir, links, size, bmap, used, fh, owned>>       \* ENFILE
       ELSE LET fd == Least({s \in Slots : fh[s].ino = 0}) IN
            IF dir[n] = 0
            THEN IF m.creat /\ \E j \in Inodes : links[j] = 0
                 THEN Created(t, fd, n, m)
                 ELSE Return(t) /\ UNCHANGED <<dir, links, size, bmap, used, fh, owned>> \* ENOENT, ENOSPC
            ELSE /\ IF Truncating(m)
                    THEN /\ used' = FreeAll(dir[n])
                         /\ bmap' = [bmap EXCEPT ![dir[n]] = ZeroMap]
                         /\ size' = [size EXCEPT ![dir[n]] = 0]
                    ELSE UNCHANGED <<used, bmap, size>>
                 /\ UNCHANGED <<dir, links>>
                 /\ Opened(t, fd, dir[n], m)

(* fs_ext2_close: the slot is released only when its mode word is not    *)
(* zero.  The caller's handle is gone either way.                          *)
Close(t, s) ==
    /\ Enter(t)
    /\ fh' = IF fh[s].mode # ZeroMode THEN [fh EXCEPT ![s] = FreeSlot] ELSE fh
    /\ owned' = owned \ {s}
    /\ Return(t)
    /\ UNCHANGED <<dir, links, size, bmap, used>>

(* fs_ext2_read: clamp the count to the size (sz - ptr, a size_t that     *)
(* wraps to a huge count when ptr is past the end), then copy block by    *)
(* block; a block that is not mapped ends the call with -1, keeping the   *)
(* position reached so far.                                                *)
Huge == Bs * NIdx + 1   \* stands for 2^64 - (ptr - sz): more than any block holds
ReadCount(p, sz, n) == IF p + n <= sz THEN n ELSE IF sz >= p THEN sz - p ELSE Huge

RECURSIVE ReadLoop(_, _, _)
ReadLoop(m, p, cnt) ==
    IF cnt = 0 \/ ~Mapped([map |-> m], p \div Bs) THEN p
    ELSE ReadLoop(m, p + MinOf(cnt, Bs - (p % Bs)), cnt - MinOf(cnt, Bs - (p % Bs)))

Read(t, s, n) ==
    /\ Enter(t)
    /\ IF fh[s].mode.acc \notin {"RDONLY", "RDWR"}
       THEN UNCHANGED fh                                            \* EBADF
       ELSE fh' = [fh EXCEPT ![s].ptr =
                     ReadLoop(bmap[fh[s].ino], @, ReadCount(@, size[fh[s].ino], n))]
    /\ Return(t)
    /\ UNCHANGED <<dir, links, size, bmap, used, owned>>

(* fs_ext2_seek64 with SEEK_SET, SEEK_CUR or SEEK_END; callers keep the   *)
(* result in 0..MaxPos.                                                    *)
Seek(t, s, whence, off) ==
    LET p == CASE whence = "SET" -> off
               [] whence = "CUR" -> fh[s].ptr + off
               [] whence = "END" -> size[fh[s].ino] + off
    IN /\ Enter(t)
       /\ p \in 0..MaxPos
       /\ fh' = [fh EXCEPT ![s].ptr = p]
       /\ Return(t)
       /\ UNCHANGED <<dir, links, size, bmap, used, owned>>

(* fs_ext2_write.  With O_APPEND the position moves to the size first.   *)
(* A position past the size is filled up to: within the last block       *)
(* nothing is allocated; otherwise sz is moved to a block boundary by    *)
(* "sz &= (bs - 1); sz += bs" and blocks are allocated from index sz/bs  *)
(* until sz reaches the position, and the size becomes the position.     *)
(* Then the bytes go in: a partial first block must be mapped, later     *)
(* blocks are allocated where read_block answers EINVAL.  A failed       *)
(* allocation ends the call with -1, keeping the blocks and position     *)
(* reached so far.                                                        *)
RECURSIVE FillFrom(_, _, _)
FillFrom(w, sz, p) ==
    IF ~w.ok \/ sz >= p THEN w ELSE FillFrom(AllocBlock(w, sz \div Bs), sz + Bs, p)

Extend(w, sz, p) ==
    IF sz > 0 /\ (sz - 1) \div Bs = (p - 1) \div Bs
    THEN [w EXCEPT !.ok = Mapped(w, (p - 1) \div Bs)]
    ELSE IF sz % Bs # 0
         THEN IF Mapped(w, (sz - 1) \div Bs) THEN FillFrom(w, (sz % Bs) + Bs, p)
              ELSE [w EXCEPT !.ok = FALSE]
         ELSE FillFrom(w, sz, p)

\* The partial first block: c = [w, p, cnt] with w.ok.
FirstBlock(c) ==
    IF c.p % Bs = 0 THEN c
    ELSE IF ~Mapped(c.w, c.p \div Bs) THEN [c EXCEPT !.w.ok = FALSE]
    ELSE [c EXCEPT !.p = @ + MinOf(c.cnt, Bs - (c.p % Bs)),
                   !.cnt = @ - MinOf(c.cnt, Bs - (c.p % Bs))]

RECURSIVE CopyLoop(_), CopyStep(_, _)
CopyStep(c, w) ==
    IF ~w.ok THEN [c EXCEPT !.w.ok = FALSE]
    ELSE CopyLoop([c EXCEPT !.w = w, !.p = @ + MinOf(c.cnt, Bs), !.cnt = @ - MinOf(c.cnt, Bs)])
CopyLoop(c) ==
    IF ~c.w.ok \/ c.cnt = 0 THEN c
    ELSE CopyStep(c, IF Mapped(c.w, c.p \div Bs) THEN c.w ELSE AllocBlock(c.w, c.p \div Bs))

Commit(i, w) == bmap' = [bmap EXCEPT ![i] = w.map] /\ used' = w.used

\* After the fill: sz1 is the size so far, c the state after the copy.
WriteDone(s, i, sz1, c) ==
    /\ Commit(i, c.w)
    /\ fh' = [fh EXCEPT ![s].ptr = c.p]
    /\ size' = [size EXCEPT ![i] = IF c.w.ok /\ c.p > sz1 THEN c.p ELSE sz1]

WriteFrom(s, i, sz, p, n, e) ==
    IF ~e.ok
    THEN Commit(i, e) /\ fh' = [fh EXCEPT ![s].ptr = p] /\ UNCHANGED size
    ELSE WriteDone(s, i, IF p > sz THEN p ELSE sz,
                   CopyLoop(FirstBlock([w |-> e, p |-> p, cnt |-> n])))

WriteAt(s, i, sz, p, n) ==
    WriteFrom(s, i, sz, p, n,
              IF p > sz THEN Extend([map |-> bmap[i], used |-> used, ok |-> TRUE], sz, p)
              ELSE [map |-> bmap[i], used |-> used, ok |-> TRUE])

Write(t, s, n) ==
    /\ Enter(t)
    /\ IF fh[s].mode.acc \notin {"WRONLY", "RDWR"}
       THEN UNCHANGED <<fh, size, bmap, used>>                      \* EBADF
       ELSE WriteAt(s, fh[s].ino, size[fh[s].ino],
                    IF fh[s].mode.append THEN size[fh[s].ino] ELSE fh[s].ptr, n)
    /\ Return(t)
    /\ UNCHANGED <<dir, links, owned>>

\* Unlink without the EBUSY scan of fh[].
UnlinkNoBusy(t, n) ==
    /\ Enter(t)
    /\ IF dir[n] = 0
       THEN UNCHANGED <<dir, links, bmap, used>>
       ELSE dir' = [dir EXCEPT ![n] = 0] /\ Deref(dir[n])
    /\ Return(t)
    /\ UNCHANGED <<size, fh, owned>>

(* fs_ext2_unlink: a missing name is ENOENT; when this is the last link  *)
(* and some fh[] slot names the inode, EBUSY; otherwise the entry goes   *)
(* and the inode is dereferenced.                                         *)
Unlink(t, n) ==
    /\ Enter(t)
    /\ IF dir[n] = 0 \/ (links[dir[n]] = 1 /\ InUse(dir[n]))
       THEN UNCHANGED <<dir, links, bmap, used>>                    \* ENOENT, EBUSY
       ELSE dir' = [dir EXCEPT ![n] = 0] /\ Deref(dir[n])
    /\ Return(t)
    /\ UNCHANGED <<size, fh, owned>>

\* int_rename that drops the replaced entry without ext2_inode_deref.
IntRenameNoDeref(n1, n2) ==
    IF dir[n2] # 0 /\ InUse(dir[n2])
    THEN UNCHANGED <<dir, links, bmap, used>>
    ELSE /\ UNCHANGED <<links, bmap, used>>
         /\ dir' = [dir EXCEPT ![n2] = dir[n1], ![n1] = 0]

(* int_rename for a file within the root: an existing destination that  *)
(* an fh[] slot names is EBUSY; otherwise the destination entry is       *)
(* removed and its inode dereferenced, the source's inode is entered     *)
(* under the new name, and the source name's entry is removed.  Nothing  *)
(* compares the two names or their inodes.                                *)
IntRename(n1, n2) ==
    IF dir[n2] # 0 /\ InUse(dir[n2])
    THEN UNCHANGED <<dir, links, bmap, used>>                       \* EBUSY
    ELSE /\ IF dir[n2] # 0 THEN Deref(dir[n2]) ELSE UNCHANGED <<links, bmap, used>>
         /\ dir' = [dir EXCEPT ![n2] = dir[n1], ![n1] = 0]

(* fs_ext2_rename: a missing source is ENOENT.  Once the source's inode  *)
(* is in hand, whatever int_rename returns, the handler ends with        *)
(* mutex_lock where the earlier exits unlock: the thread blocks on the   *)
(* mutex it holds.                                                        *)
Rename(t, n1, n2) ==
    /\ Enter(t)
    /\ IF dir[n1] = 0
       THEN Return(t) /\ UNCHANGED <<dir, links, bmap, used>>      \* ENOENT
       ELSE /\ IntRename(n1, n2)
            /\ holder' = t
            /\ pc' = [pc EXCEPT ![t] = "relock"]
    /\ UNCHANGED <<size, fh, owned>>

\* Link without the EEXIST lookup of the new name.
LinkNoExist(t, n1, n2) ==
    /\ Enter(t)
    /\ IF dir[n1] = 0
       THEN UNCHANGED <<dir, links>>
       ELSE /\ dir' = [dir EXCEPT ![n2] = dir[n1]]
            /\ links' = [links EXCEPT ![dir[n1]] = @ + 1]
    /\ Return(t)
    /\ UNCHANGED <<size, bmap, used, fh, owned>>

(* fs_ext2_link: the new name gets the inode of the old one and the link *)
(* count goes up; a missing source is ENOENT, an existing name EEXIST.    *)
Link(t, n1, n2) ==
    /\ Enter(t)
    /\ IF dir[n1] = 0 \/ dir[n2] # 0
       THEN UNCHANGED <<dir, links>>                                \* ENOENT, EEXIST
       ELSE /\ dir' = [dir EXCEPT ![n2] = dir[n1]]
            /\ links' = [links EXCEPT ![dir[n1]] = @ + 1]
    /\ Return(t)
    /\ UNCHANGED <<size, bmap, used, fh, owned>>

-----------------------------------------------------------------------------
\* Seek arguments: absolute positions, and steps of one byte from the
\* current position or from the end.
SeekArgs == ({"SET"} \X (0..MaxPos)) \cup ({"CUR", "END"} \X {-1, 0, 1})

Run(t) ==
    \/ \E n \in Names, m \in OpenModes : Open(t, n, m)
    \/ \E s \in owned :
         \/ Close(t, s)
         \/ \E k \in 1..MaxCount : Read(t, s, k) \/ Write(t, s, k)
         \/ \E a \in SeekArgs : Seek(t, s, a[1], a[2])
    \/ \E n \in Names : Unlink(t, n)
    \/ \E n1, n2 \in Names : Rename(t, n1, n2) \/ Link(t, n1, n2)

Next == \E t \in Threads : Call(t) \/ Run(t)

Spec == Init /\ [][Next]_vars

(* A waiting call runs once the mutex is free: KOS threads that are      *)
(* ready are scheduled, and mutex_unlock wakes a waiter.                  *)
FairSpec == Spec /\ \A t \in Threads : WF_vars(Run(t))

-----------------------------------------------------------------------------
MaxLinks == Cardinality(Names)

TypeOK ==
    /\ dir \in [Names -> 0..NInodes]
    /\ links \in [Inodes -> 0..MaxLinks]
    /\ size \in [Inodes -> 0..(Bs * NIdx)]
    /\ bmap \in [Inodes -> [Idx -> 0..NBlocks]]
    /\ used \subseteq Blocks
    /\ fh \in [Slots -> [ino : 0..NInodes, mode : ModeWords, ptr : 0..(Bs * NIdx)]]
    /\ owned \subseteq Slots
    /\ pc \in [Threads -> {"idle", "waiting", "relock"}]
    /\ holder \in Threads \cup {NoThread}

(* spec.md 5: "the inode remains live until all handles close".  Every   *)
(* inode an fh[] slot names still has a link: unlink refuses the last    *)
(* link of an inode a slot names and rename refuses to replace one, and  *)
(* hard links, renames over a second link and re-created names do not   *)
(* get around the checks.                                                 *)
OpenFileLive == \A s \in Slots : fh[s].ino # 0 => links[fh[s].ino] >= 1

(* i_links_count counts the directory entries that name the inode, after *)
(* link, unlink, rename over an existing name and rename of a name onto  *)
(* itself or onto another link of its inode.                              *)
LinksMatchEntries == \A i \in Inodes : links[i] = Cardinality({n \in Names : dir[n] = i})

(* The block bitmap is exactly the blocks the inodes map, and no block   *)
(* is mapped twice: write's fill past the end, truncation, allocation    *)
(* failures in the middle of a write and the freeing of the last link    *)
(* neither leak a block nor hand one out twice.                           *)
BlocksOwned ==
    /\ used = UNION {{bmap[i][k] : k \in Idx} \ {0} : i \in Inodes}
    /\ \A i, j \in Inodes, k, l \in Idx :
         bmap[i][k] # 0 /\ bmap[i][k] = bmap[j][l] => i = j /\ k = l

(* A slot of fh[] is in use exactly while a caller holds it as an open   *)
(* handle: fs_ext2_close gives back the slot (and its inode reference)   *)
(* of every handle, whatever mode word it was opened with.               *)
SlotsHeld == \A s \in Slots : fh[s].ino # 0 <=> s \in owned

(* spec.md 5: every handler releases ext2_mutex at return, so every call *)
(* returns and no other thread waits on the mutex for ever.              *)
CallsReturn == \A t \in Threads : pc[t] = "waiting" ~> pc[t] = "idle"
====
