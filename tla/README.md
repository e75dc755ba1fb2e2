# TLA+ models of the KallistiOS FAT and ext2 filesystem engines

This directory holds TLA+ specifications of the filesystem engines in
`src/addons/libkosfat` (FAT12/16/32 with VFAT long names) and
`src/addons/libkosext2fs/fs_ext2.c` (the ext2 VFS layer). It also holds the
TLC configurations that check them. Every definition is translated from the C
source. `PROJECT.json` records:

- which lines each definition models (`map`);
- which runs exist and what they check;
- the mutants that show each property can fail;
- the hazards of the code.

## 1. The system

### Parts and how they interact

A call enters through the host VFS (`src/kernel/fs/fs.c`). Calls on a
descriptor go through its global `fd_table` of reference-counted `fs_hnd_t`
wrappers (handler, handler handle, `refcnt`), which no lock guards. The call
lands in a
handler of `fs_fat.c` or `fs_ext2.c`, which takes the engine's single mutex
(`fat_mutex` / `ext2_mutex`, `MUTEX_TYPE_NORMAL`) for the whole call. The
handler then works through these layers:

| Part (FAT engine) | Source | State | Operations |
|---|---|---|---|
| Block caches | `fatfs.c`, `fat.c` | two arrays of slot pointers (`bcache` for clusters, `fcache` for FAT sectors), each slot `{flags, block, data}`, MRU order by array position | read, clear, mark_dirty, write-back, eviction of index 0 |
| FAT table | `fat.c` | FAT entries (12/16/32 bit) in FAT sectors in `fcache`; `last_alloc_cluster`, `free_clusters` | `fat_read_fat`, `fat_write_fat`, `fat_allocate_cluster`, `fat_erase_chain` |
| Boot sector / FSInfo | `bpb.c` | superblock geometry, FAT type, FSInfo hints | `fat_read_boot`, `fat_write_fsinfo` |
| Directories | `directory.c` | 32-byte entries in directory clusters (or raw root sectors on FAT12/16), long-name runs | search, find, add (free-run allocation, short-name generation), erase, update |
| UCS-2 codec | `ucs.c` | none (pure functions) | UTF-8 <-> UCS-2, lower-casing |
| VFS layer | `fs_fat.c` | `fh[16]` open handles with cursor, cluster cursor, `cluster_order`, seek-dirty bit, dentry copy | open (with create and O_TRUNC), read, write, seek, close, unlink, mkdir, rmdir, readdir, stat, mount, sync |

| Part (ext2 engine) | Source | State | Operations |
|---|---|---|---|
| VFS layer | `fs_ext2.c` | `fh[]` with `inode_num`, mode, cursor, inode reference | open, close, read, write, seek, readdir, rename, unlink, mkdir, rmdir, link, symlink, readlink, stat, mount, sync |
| Engine internals | not in this repository | inodes, bitmaps, block cache | called from `fs_ext2.c` |

### Hard behaviours

- Write-back caching. A record's cached copy is authoritative while it is
  dirty. Evictions happen as a side effect of unrelated reads, and a failed
  write-back must keep the data.
- Several cache calls inside one handler while a pointer from an earlier call
  is still in use. Examples: the FAT12 entry straddling two sectors, and
  mkdir's `.`/`..`.
- Device errors in the middle of a multi-step update.
- Allocation wrap-around and per-type FAT entry encodings.
- Open handles that outlive the directory entries and chains they point into.
- Threads contending for one non-recursive mutex (ext2 rename re-locks it).

## 2. Plan

Modules in order of importance; composition noted where it exists.

1. **FatCache** (done). The two write-back caches, as an abstract record
   store. **BlockStore** is its abstract specification, which FatCache
   refines.
2. **FatTable** (done). FAT entries per type, the allocator with its
   last-allocated hint and wrap pass, and chain erase, over a few clusters.
   Files own chains.
   - Properties: chains pairwise disjoint; no cluster leaked; an allocation
     fails only when no cluster is free.
   - Expected violations: the FAT12 allocator that never returns, and the
     FAT-sector bound check.
3. **FatFiles** (done). The `fs_fat.c` handle table over FatTable chains: open with
   O_TRUNC, read/write through `advance_cluster`, seek, close, unlink.
   - The detailed cursor is shown to implement an abstract byte-stream file
     (refinement).
   - Expected violations: unlink of an open file (cross-linked chains), the
     read-at-EOC check, and O_WRONLY size truncation.
4. **FatDir** (done). One cluster-chained directory of a few slots per
   cluster, created into and unlinked from by 8.3 and long names.
   - Long-name search, short-name generation, free-run allocation with
     directory growth, add and erase.
   - Lookup checked against a reference reading of the entries.
   - The `i` that is never reset in `fat_search_long`, the read past the
     cluster, the unsigned free-run test and the stale `old` of
     `alloc_another`.
5. **Pure operators**:
   - FAT12 entry packing: read after write, including the straddle.
   - Short-name checksum against a rotate reference.
   - UCS codec round trip (done: **Ucs**, used by FatDir for long-name
     lengths).
   - FAT type selection of `fat_parse_boot`.
6. **Ext2Vfs** (done). Threads, `ext2_mutex`, the `fh` table and inode references.
   - rename's re-lock: a deadlock and a liveness failure.
   - close of O_RDONLY handles: slot and reference leak, EBUSY forever.
   - The engine calls it makes are modelled from spec.md, because that code
     is not in this repository.
7. **Ext2Tree** (done). mkdir, rmdir and rename's ancestor walk over a
   directory tree.
8. **FatReaddir** (done). A directory handle over FatDir: open with O_DIR,
   readdir, rewinddir and close, interleaved with creates and unlinks.
9. **HostFs** (done). The host VFS's descriptor table and wrapper reference
   counts: open, dup, dup2, close, `fs_fdtbl_destroy` and the calls through
   a descriptor, with threads interleaving at every read of `fd_table`.

## 3. Modules and runs

### FatCache / BlockStore

`FatCache.tla` models `fat_read_fatblock`, `fat_fatblock_mark_dirty` and
`fat_fatblock_cache_wb` from `fat.c`. The cluster cache in `fatfs.c`
(`fat_cluster_read`, `fat_cluster_mark_dirty`, `fat_cluster_cache_wb`) is the
same code line for line. `fat_cluster_clear` exists only in `fatfs.c`.

State:

- `cache` is the array of slot pointers; `cache[1]` is C index 0, the LRU.
- `block`, `flags` and `data` are the fields of each `fat_cache_t`.
- `disk` is the device.
- `bad` is the set of records whose I/O currently fails.
- `req` is the last request and its outcome.

The cache routines are operators from a cache state to a result
`[ok, p, st]`, where `p` is the slot the returned pointer points into. A
handler that makes several calls is therefore one atomic action, as it is
under `fat_mutex`. The handlers:

- `ReadRec`: `fat_read_fat`, `fat_cluster_read`.
- `WriteRec`: `fat_write_fat` FAT16/32 and `fat_update_dentry`, a
  read-modify-mark_dirty.
- `WriteStraddle`: the FAT12 two-sector case of `fat_write_fat`.
- `ClearRec`: the callers of `fat_cluster_clear`.
- `WriteBack`: `*_cache_wb`.

`Init` follows `fat_fs_init_ex`: flags 0, with block numbers and data
uninitialised, and therefore nondeterministic. `Fault`/`Repair` make the
device fail on a record. They stand for media errors and for the bound checks
of `*_read_nc`/`*_write_nc`.

`BlockStore.tla` is what a caller may rely on:

- a successful read returns the current value;
- a successful write or clear sets exactly its records;
- a failed request changes nothing;
- nothing else changes the contents.

`Refinement` checks `FatCache` against it with the mapping
`store <- View`: the cached copy if a slot holds the record, else the disk.

| Run | Config | Expect | Checks | Shows |
|---|---|---|---|---|
| `fcache_refines` | `FatCache_fcache.cfg` | pass | `TypeOK` (includes DIRTY implies VALID), `NoDuplicateBlock`, `Refinement` | The 2-slot FAT-sector cache, under every interleaving of reads, writes, straddling writes, flushes and one device fault, loses no write and returns no stale data. |

Two configurations reproduce defects recorded as hazards:

- `FatCache_bcache_clear.cfg` (fatfs.c:91): `fat_cluster_clear` on a
  cluster cached clean does not mark it dirty. Four steps (read, clear, two
  reads) bring the old contents back, and `Refinement` fails.
- `FatCache_fcache_oneslot.cfg` (fat.c:264): `fat_fs_init_ex` accepts
  `fcache_sz = 1`, and then a FAT12 straddling write never reaches its first
  sector.

Bounds:

- 3 records, so that sector n and n+1 exist and a third record can force an
  eviction.
- 2 values, enough to tell old contents from new.
- 2 slots, the smallest cache that evicts while a straddle holds a pointer.
- At most 1 device fault, which reaches every failure branch: failed
  eviction, failed read after a successful eviction, and a flush that stops
  early.

The run reaches about 29,000 distinct states in under a minute. Slots are
model values under symmetry: no constant names a slot, and `Init` takes every
ordering of them.

### FatTable

`FatTable.tla` models the file allocation table and every handler that
changes it. State:

- `fat`: the FAT entries of the sectors that hold entries 0..N+1. Entries 0
  and 1 are included. On FAT16/32 the slack entries after the last cluster in
  the last sector are included too.
- `last`, `free`: `sb.last_alloc_cluster` and `sb.free_clusters`.
  `HintUnknown` (-1) stands for FSInfo's 0xFFFFFFFF.
- `dent`: the first cluster each name's directory entry holds, or `None`.
  An empty file holds 0.
- `faults`: the number of failed calls injected so far.
- `spurious`: a history bit, set when an allocation failed while a data
  cluster was free.

The FAT routines are operators on a record `[fat, last, free]`. They follow
the loops of the code:

- `Scan1632`/`Pass1632`: the FAT16/32 sector scan, including its wrap
  inside the last sector.
- `Scan12`: the FAT12 loop, which does not return.
- `Allocate`: the hint pass, then the wrap pass bounded by the hint.
- `EraseChain`.
- `Advance`: `advance_cluster` with `write` set.

The handlers are atomic actions, as under `fat_mutex`:

- `Create`: `fat_create_entry`.
- `Extend`: the `advance_cluster` call of `fs_fat_write`.
- `Truncate`: O_TRUNC in `fs_fat_open`.
- `Unlink`/`Rmdir`: `Remove`.
- `GrowDir`: the `alloc_another` path of `fat_get_free_dentry`. Its `old`
  changes only when the scan steps to the next cluster. When the scan ran
  off the chain's end, `old` is the last cluster. When the end-of-directory
  mark lies in the last cluster with too few slots after it, `old` is the
  cluster before the last (`PredOf`). The new cluster is then linked after
  that one, and the last cluster is cut out of the chain (directory.c:954).
  The entries decide which case arises, and this module does not hold them,
  so both are offered. The history variable `cut` records the clusters lost
  this way.

A clear, a dentry add or a dentry erase may fail at most `MaxFaults` times,
at the sites `FaultSites` lists. `fat_read_fat`/`fat_write_fat` fail only
where the fatblock bound check refuses a sector. FatCache shows that the
cache itself is invisible. Rmdir's emptiness test is not modelled: a
directory's contents are not part of this model.

`Init` is a volume another system could leave behind (`WellFormed`):
- every chain is terminated;
- no two chains share a cluster;
- no cluster is allocated outside a chain.

The hint and count follow `fat_read_boot`: FSInfo values only with valid
signatures, and hint 2 without FSInfo.

| Run | Config | Expect | Checks | Shows |
|---|---|---|---|---|
| `fat32_table` | `FatTable_fat32.cfg` | pass | `TypeOK`, `ChainsDisjoint`, `ChainsWellFormed`, `NoLeak` | The FAT32 paths keep chains disjoint and terminated under every sequence of handlers, with one failed clear or dentry add. No cluster is lost except the last clusters that directory growth's stale `old` cuts off: `NoLeak` exempts exactly those (`cut`), so it still checks every error path of create, extend and growth. |

Seven more configurations reproduce defects that are recorded as hazards in
`PROJECT.json` rather than as runs (the run list is kept to one run per
question):

- `FatTable_fat12_alloc.cfg`: one FAT12 allocation marks every free
  cluster, `NoLeak` (fat.c:458).
- `FatTable_empty_file.cfg`: a size-0 file rewrites FAT[0] on unlink or
  write, `ReservedIntact` (fat.c:505).
- `FatTable_unknown_hint.cfg`: with hint 0xFFFFFFFF on a full volume, a
  slack entry past the last cluster is allocated, `ChainsWellFormed`
  (fat.c:396).
- `FatTable_alloc_wrap.cfg`: FAT16 after mount, the wrap pass never reaches
  the hinted cluster, so `NoSpuriousAllocFailure` fails (fat.c:447).
- `FatTable_fat_bound.cfg`: the last FAT sectors are refused by the bound
  check in `fat_fatblock_read_nc`, so allocation fails with EIO (fat.c:38).
- `FatTable_unlink_dentry.cfg`: a failed dentry erase after the chain was
  freed leads to a cross-link, `ChainsDisjoint` (fs_fat.c:1025).
- `FatTable_free_count.cfg`: a failed clear of a new cluster loses one from
  `free_clusters`, `FreeCountTracks` (fs_fat.c:185).

Bounds:

- 3 or 4 clusters, and sectors of 2 entries. Chains can then span sectors,
  and the scan's sector step and the last sector's slack both occur.
- One file and one directory. That is enough for two chains to collide.
- `MaxOrder` 2, so a write extends a chain by two clusters.
- One fault.

The pass run explores about 13,000 states in seconds. Every handler fires.

### FatFiles / ByteFile

`FatFiles.tla` models the open-file table of `fs_fat.c` over one path:
`fs_fat_open` (with O_CREAT and O_TRUNC), `fs_fat_close`, `fs_fat_read`,
`fs_fat_write`, `fs_fat_seek64` and `fs_fat_unlink`, each one atomic as under
`fat_mutex`. It composes FatTable: `FT == INSTANCE FatTable` supplies the FAT
state and its routines (`Allocate`, `Erase`, `Advance`, `EntryReadable`), and
FatFiles declares the same `fat`, `last`, `free`. State:

- `data`: cluster -> its bytes. The cluster cache is taken as the store it
  refines (FatCache shows that).
- `dir`: the path's directory entry `[used, cl, size]`.
- `fh`: handle -> its slot: `open`, the access `mode`, `ptr`, the cluster
  cursor `cl`/`order` (`cluster`, `cluster_order`), `seek` (the mode bit
  0x80000000) and the handle's private copy of the entry, `dcl`/`dsize`.
- `ret`: the result of the last call, for the refinement. A `VIEW` leaves it
  out of the state graph, since no step reads it.

`advance_cluster` is `AdvanceRead` (follow links; EDOM at the end) and
`AdvanceWrite` (FatTable's `Advance`, which allocates at the end; fresh
clusters are zeroed). The read and write copy loops are `ReadLoop` and
`WriteLoop`, cluster by cluster, with the code's order of store, pointer
update and advance. `Write` applies a pending seek, copies, and ends in
`WriteBack`, which writes the handle's whole entry copy back when the
position passed its size or the handle is O_WRONLY.

`ByteFile.tla` is what the calls promise (spec.md 6.3, "byte-stream I/O";
invariant 9; unlink "busy" on open handles): a byte sequence shared by every
handle, positions per handle, zero-filled gaps. `Refinement` checks
`ByteFile!Spec` under a mapping that reads the file's bytes through the FAT
chain (`FileBytes`).

Properties of the pass run:

- `FileChainSound`: the entry's chain ends in an end-of-chain mark and has a
  cluster for every byte of its size. In the pass run, one handle writes,
  truncates and unlinks; a second handle, an unlink while a file is open and
  a full volume are left to the configurations below, which find it
  violated.
- `CursorMatchesPtr`: with no seek pending, the cursor is the cluster that
  holds `ptr`.

| Run | Config | Expect | Checks | Shows |
|---|---|---|---|---|
| `fat_files` | `FatFiles_one_handle.cfg` | pass | `TypeOK`, `FileChainSound`, `CursorMatchesPtr` | One handle in every mode, over a 3-cluster FAT32 volume: every sequence of calls keeps the chain and the cursor sound. |
| `rewind_after_eof` | `FatFiles_rewind_eof.cfg` | violation | `Refinement` | Read to a cluster-aligned end, seek to 0, read: 0 bytes. |

Further configurations reproduce defects recorded as hazards:

- `FatFiles_unlink_open.cfg`: unlink is not refused; the open handle's
  write restores the entry naming a freed cluster, `FileChainSound`
  (fs_fat.c:1017).
- `FatFiles_wronly_size.cfg`: an O_WRONLY write at offset 0 cuts the file
  to the bytes written, `Refinement` (fs_fat.c:663).
- `FatFiles_append_after_read.cfg`: after a read to a cluster-aligned end,
  an append fails with EIO (fs_fat.c:519, 626).
- `FatFiles_trunc_while_open.cfg`: another handle still reads the bytes an
  O_TRUNC open removed (fs_fat.c:327).
- `FatFiles_enospc_retry.cfg`: a write that fails for want of a cluster
  leaves the cursor behind `ptr`; the retry overwrites earlier bytes and
  records a size the chain cannot hold (fs_fat.c:603).
- `FatFiles_slack.cfg`: a write after a seek past the end makes the old bytes
  past the end of the last cluster part of the file (fs_fat.c:579).

Bounds: clusters of 2 bytes, so a 4-byte file spans two clusters and
writes of 1 or 2 bytes start, end and cross cluster boundaries; 3 clusters
(1 for the space-exhaustion case); one byte value, because the properties
that the pass run checks do not depend on byte values (the refinement runs
do and still find their traces with it); seeks to 0..3. `UnlinkWhileOpen` is
FALSE in the pass run: the code does not refuse it, and
`FatFiles_unlink_open.cfg` shows what follows. The pass run explores about
38,000 states in under 10 seconds. Every action fires.

### FatDir

`FatDir.tla` models one directory as `directory.c` reads and writes it. The
directory is cluster-chained: a subdirectory, or the root on FAT32. The two
handlers that change it are:

- `Create(fn)`: `fs_fat_open` with `O_CREAT` through `fat_create_entry` and
  `fat_add_dentry`.
- `Unlink(fn)`: `fs_fat_unlink` with `fat_erase_dentry`.

State:

- `dslot`: cluster -> slot -> entry. An entry is one of:
  - end of directory (`name[0]` 0);
  - free (0xE5);
  - a long-name entry: the name it spells a part of, its order, and the
    last flag;
  - a short entry: its 8.3 name as `<<basis, tail>>`, and the file's first
    cluster.
- `nxt`: the FAT entries of clusters `1..NClus`: 0 free, `EOC` last.
  Directory clusters and file clusters come from this one pool, as they do
  from `fat_allocate_cluster`. Cluster 1 is the directory's first.

Each scan of the code is a `RECURSIVE` operator that follows the code's loop
and its index variables:

| Operator | Code |
|---|---|
| `SearchDir` | `fat_search_dir` |
| `ReadLongname` | `read_longname` |
| `SearchLong` | `fat_search_long`, with `i` carried from cluster to cluster as the code leaves it |
| `GetFreeDentry` | `fat_get_free_dentry`'s scan, with `ct`, the start of the run and `old` |
| `AllocAnother` | its `alloc_another` |
| `AddLongEntry` | `fat_add_long_entry` |
| `EraseLong` | `fat_erase_dentry`'s long-name pass |
| `CreateShortname` | `create_shortname`'s tail loop; the basis is the constant `Basis` |

A lookup whose long name ends in the last slot of a cluster reads past the
cluster buffer, and the bytes there are unknown. `SearchLong` therefore
answers a set: ENOENT, or a "found" at slot `Max`. `Create` proceeds when
ENOENT is among the answers. `Unlink` takes only answers inside the
directory.

Failures that undo themselves leave the state as it was, so they are no step:
no free cluster, no free tail, or a lookup that answers EIO or finds the
name. `Create` allocates the file's cluster before the directory grows, as
`fat_create_entry` does.

Properties (pass run):

- `EodTerminates`: in chain order, everything after the first end entry is
  an end entry. Every scan that stops there has seen every entry in use.
- `ShortNamesUnique`: no two short entries in use carry one 8.3 name,
  whether they came from 8.3 creates or generated tails.
- `FileClustersDisjoint`: the file cluster of each entry in use is
  allocated, is not a directory cluster, and is named by no other entry.

Reference (violation runs and reproductions):

- `LookupAgrees`: a long-name lookup answers the short entry right after the
  name's whole run, the first in chain order, or ENOENT when there is none.
- `DirClustersLinked`: every cluster holding entries is in the directory's
  chain.
- `SearchInBounds`: a lookup never answers with a slot outside the cluster.
- `ClustersNamed`: every allocated cluster is the directory's or some entry's
  file cluster.

| Run | Config | Expect | Checks | Shows |
|---|---|---|---|---|
| `fat_dir` | `FatDir_dir.cfg` | pass | `TypeOK`, `EodTerminates`, `ShortNamesUnique`, `FileClustersDisjoint`, `EncodeExact`, `DecodeExact` | Every sequence of creates and unlinks of three long names and three 8.3 names, over four clusters of four slots, keeps these three invariants, through the bugs below; the codec properties of Ucs are checked in the same run. |
| `fat_dir_lookup` | `FatDir_lookup.cfg` | violation | `LookupAgrees` | Two creates. a takes slots 0-2 of cluster 1. b's one long-name entry takes slot 3, and its short entry goes to cluster 4, which the directory grows into. The lookup of b reads the short entry at slot 4, past cluster 1's buffer (directory.c:308), and answers ENOENT or a wrong entry. The same property catches the byte/unit length mismatch (directory.c:213) and the index not reset per cluster (directory.c:240). |

More configurations reproduce defects recorded as hazards:

- `FatDir_lost_cluster.cfg`: `DirClustersLinked` fails. The steps are create
  a, create b (the directory grows), unlink B~1 and B~2, create a.
  `alloc_another` links the new cluster after cluster 1 instead of after
  cluster 4, and a is written into the cluster just cut off
  (directory.c:955).
- `FatDir_search_oob.cfg`: `SearchInBounds` fails after two creates,
  a then b: b's long-name entry fills slot 3 of cluster 1, its short entry
  goes to a new cluster, and the lookup of b reads past the cluster buffer
  (directory.c:308). `LookupAgrees` also fails on this trace.
- `FatDir_overlong.cfg`: `DecodeCanonical` fails: `fat_utf8_to_ucs2`
  accepts the overlong form C0 AF and decodes it to '/' (ucs.c:24).
- `FatDir_partial_entry.cfg`: the steps are create a, unlink of its alias
  B~1, then create a again. The unsigned `max - i - ct >= num` wraps and
  accepts two slots for three entries. `fat_add_long_entry` stops at the
  end of the chain and reports success with no short entry, and
  `ClustersNamed` fails on the new file's cluster (directory.c:865).

Bounds:

- 4 slots per cluster. A two-entry name and its short entry then fit in one
  cluster, and a run can also straddle two clusters.
- 4 clusters, shared between the directory and the files. The directory can
  grow twice, and allocation can run out.
- Names are byte strings (`MCUtf8`) converted by `Utf8ToUcs2`, as the
  code converts them. a is 14 ASCII bytes and c is 13 ASCII bytes and an
  e-acute (15 bytes, 14 units), so both take two entries and have the same
  UCS-2 length: a search for a passes the length test on c and fails the
  comparison, including across a cluster boundary. c's byte length differs
  from its unit length, which is what `fat_search_long`'s `strlen` misses.
- b takes one entry and is shorter, which exercises both length skips.
- All three share the basis "B". `MaxTail` 2 together with the 8.3 names
  "B~1" and "B~2" used directly reaches the ENOSPC of `create_shortname`.

The pass run reaches about 69,000 distinct states in about 35 seconds. It
sets `CHECK_DEADLOCK FALSE`, and the code justifies that: clusters leaked by
the partial write fill the volume. Every create then fails for want of a
cluster, and every unlink fails when no name is found inside the directory.

### FatReaddir

`FatReaddir` extends FatDir with one directory handle of `fs_fat.c`.
`MC_FatReaddir` takes MC_FatDir's names.

State:

- `hopen` is `fh[fd].opened`.
- `hcl` is `fh[fd].cluster`, with EOC standing for the 0x0FFFFFF8 the code
  stores at the end.
- `hptr` is `fh[fd].ptr >> 5` modulo the entries per cluster. Readdir reads
  only `ptr & (bs - 1)`, so this is all of ptr the code looks at.
- `ret`, `got` and `stay` are history: what the last step returned, the
  slots returned since the open or rewind, and the slots in use then and
  unchanged since.

Actions:

- `OpenDir` is `fs_fat_open` with O_DIR.
- `Readdir` is the whole of `fs_fat_readdir` under `fat_mutex`. `ReadEnt`
  is its do-while and `ReaddirNameOf` is `copy_shortname`/`copy_longname`.
- `Rewinddir` and `CloseDir` are `fs_fat_rewinddir` and `fs_fat_close`.
- `DirOp` is a FatDir create or unlink between two calls.

FatDir's erase writes `Erased` for a long-name entry: 0xE5 over its order
byte, with its attribute still that of a long name. Every scan of
`directory.c` tests the free mark first. Readdir tests the attribute first.

Properties:

- `ListedOnce`: no slot is returned twice between an open or rewind and
  the next.
- `EndMeansAll`: when readdir reports the end, every entry in use since
  the open or rewind, and left alone since, has been returned.
- `NamesExact`: the name returned is the one the entry was created under.

| Run | Config | Expect | Checks | Shows |
|---|---|---|---|---|
| `fat_readdir_relist` | `FatReaddir_relist.cfg` | violation | `ListedOnce` | Open, create a (slots 0-2), readdir (a), create 8.3 B into slot 3 (the directory grows), readdir (B), readdir: a again. The cursor moves to the next cluster only after a free or long-name entry (fs_fat.c:896). After an entry in use in a cluster's last slot, ptr wraps to the same cluster, and readdir lists it for ever. |

More configurations, not in the run list:

- `FatReaddir_names.cfg`: `NamesExact` fails. A long-named file is
  unlinked and an 8.3 entry follows its freed run. Readdir copies the freed
  entries with order byte 0xE5, which writes 13 units at `longname_buf[468]`
  (past its 256 units), and returns the 8.3 entry with an empty name
  (fs_fat.c:880).
- `FatReaddir_end.cfg` passes: `ReaddirTypeOK` and `EndMeansAll` hold.
  - Bounds: 3 clusters, names a and b, listings of up to 4 entries.
  - The check covers 696,022 states in about a minute.
  - At FatDir's own bounds it found no violation in 8.7 million states,
    but that search does not finish in reasonable time.
  - Readdir never reports the end early, even though it lists a cluster
    again.

### Ucs

`Ucs.tla` holds the conversions of `ucs.c` as `RECURSIVE` operators over
sequences of byte or unit values. Each follows the code's loop with its
indices `i` and `j`:

| Operator | Code |
|---|---|
| `Utf8Loop`, `Utf8ToUcs2` | `fat_utf8_to_ucs2`: stops at `olen - 1` units; fails on a truncated sequence, a bad continuation or a 4-byte lead; tests masks only |
| `Ucs2Loop`, `Ucs2ToUtf8` | `fat_ucs2_to_utf8`: one to three bytes per unit, after the room test `olen < j + n + 1` |
| `StrlenUcs2` | `fat_strlen_ucs2` |

The NUL the code writes is counted against `olen` and left out of the
result. The reference is RFC 3629's encoding of each code point of the
basic plane (`RefUtf8`). FatDir states the codec properties (their
bounded parts, `EncodeBounded` and `DecodeBounded`, are constant-level and
defined here), and they run as part of `fat_dir`:

- `EncodeExact`: for every name of at most `UcsLen` units drawn from
  `UcsUnits` (the boundaries 0, 127/128, 2047/2048 and 65535) and every
  `olen` up to `UcsOlen`, the encoder writes exactly the reference UTF-8
  when it and its terminator fit, and fails otherwise.
- `DecodeExact`: decoding the reference UTF-8 of such a name gives the name
  back, cut to `olen - 1` units.
- In the same two properties, on the directory's state: `fs_fat_readdir`
  (`ReaddirName`, a 256-byte buffer) returns every listed long name as the
  bytes it was created with, and those bytes decode back to the units
  stored.
- `DecodeCanonical` (reproduction only): every byte string the decoder
  accepts is the reference encoding of what it decoded. It fails, because
  overlong forms are accepted.

`fat_ucs2_tolower` is not modelled. FatDir's names already differ in lower
case, so case folding changes no comparison.

### Ext2Vfs

`Ext2Vfs.tla` models the VFS layer of `fs_ext2.c` over a flat root
directory: the `fh[]` table and the handlers `fs_ext2_open` (O_CREAT,
O_TRUNC, O_APPEND), `fs_ext2_close`, `fs_ext2_read`, `fs_ext2_write`,
`fs_ext2_seek64`, `fs_ext2_unlink`, `fs_ext2_rename` (with `int_rename`)
and `fs_ext2_link`. State:

- `dir`: name -> inode number (0: no entry), the root's entries.
- `links`, `size`, `bmap`: per inode, `i_links_count`, `i_size` and the
  logical-index -> block map. An inode with no links is free.
- `used`: the block bitmap.
- `fh`: slot -> `[ino, mode, ptr]`, `inode_num`, the mode word and the
  position. A mode word is the access mode plus O_APPEND, O_TRUNC and
  O_CREAT; O_RDONLY with no flags is the zero word.
- `owned`: the slots that callers hold as open handles.
- `pc`, `holder`: each calling thread is `idle`, `waiting` for
  `ext2_mutex`, or blocked in `relock`; `holder` is the mutex owner.

A thread's call is two steps. `Call` makes it wait. Then one handler action
runs the whole body under the mutex, as `fs_ext2_*` does, and returns.
Rename's body leaves the mutex held and the thread in `relock`.

The engine (`ext2_inode_*`, `ext2_dir_*`) is not in this repository, so its
calls are modelled from spec.md 4.3 and marked `spec_modelled` in the map:

- `AllocBlock`: the first free block, pointed at by the index whatever the
  index pointed at before.
- `Mapped`: `read_block` fails with EINVAL on an unmapped index.
- `FreeAll`.
- `Deref`: frees the inode and its blocks at zero links.

Block contents are left out; the properties are about which blocks an inode
owns.

`Write` keeps the code's order:

- O_APPEND moves the position to the size.
- `Extend` fills up to a position past the size. It first rounds with
  `sz &= (bs - 1); sz += bs`, then allocates block by block in `FillFrom`.
- `FirstBlock` handles a partial first block, which must be mapped.
- `CopyLoop` allocates where `read_block` answers EINVAL.
- Failures return with the position and blocks reached so far.

`Read` clamps the count with `sz - ptr`, which wraps past the end (`Huge`),
and stops at an unmapped block.

Properties:

- `OpenFileLive`: every inode an `fh[]` slot names still has a link.
  Unlink checks handles only for the last link, and rename refuses to
  replace a named inode.
- `LinksMatchEntries`: `i_links_count` equals the entries naming the
  inode, through link, unlink, rename over an existing name, and rename onto
  itself.
- `BlocksOwned`: the bitmap is exactly the mapped blocks, none mapped twice.
- `SlotsHeld`: a slot is in use exactly while a caller holds it.
- `CallsReturn`: every waiting call eventually returns.

| Run | Config | Expect | Checks | Shows |
|---|---|---|---|---|
| `ext2_handles` | `Ext2Vfs_handles.cfg` | pass | `TypeOK`, `OpenFileLive`, `LinksMatchEntries` | One thread, two names, two inodes, two slots, every handler, four mode words (the zero word O_RDONLY among them): handles never outlive the inode's links, and link counts stay exact. |
| `ext2_write_fill` | `Ext2Vfs_write_fill.cfg` | violation | `BlocksOwned` | A 3-byte file, seek to 5, write: index 1 is allocated again, its block leaks, index 2 stays unmapped, and the size becomes 5 (fs_ext2.c:402). |

The pass run uses `CHECK_DEADLOCK FALSE` because the code really stops: once a
rename has run, every thread waits on the mutex. Its bounds:

- Blocks of 2 bytes, 2 indices, 2 blocks, seeks to 0..3 and writes of 1 or
  2 bytes. Writes then start, end and cross block boundaries, and run out
  of blocks.
- Name symmetry.

The write-fill defect needs a file of more than one block, a seek past the
next boundary and a third index, so its run raises those bounds. The pass run
explores about 1.3 million states in about 2.5 minutes.

Also recorded as hazards:

- rename's re-lock (fs_ext2.c:937, already flagged in spec.md 9.1).
  `Ext2Vfs_rename_relock.cfg` reproduces it: after a rename of an existing
  name (any outcome of `int_rename`), the renaming thread and the other
  thread wait for ever, and `CallsReturn` fails.
- Close of an O_RDONLY handle keeps its slot and inode reference
  (fs_ext2.c:234). `Ext2Vfs_close_rdonly.cfg` reproduces it: open with the
  zero mode word, close, and `SlotsHeld` fails.
- `rename(a, a)` deletes `a`, since `int_rename` never compares the names.
  Link counts stay consistent, so no invariant here catches it.
- The wrapped read count copies past the caller's count.

### Ext2Tree

`Ext2Tree.tla` models the directory tree that `fs_ext2.c` builds:
`fs_ext2_mkdir`, `fs_ext2_rmdir`, open with O_CREAT (`create_empty_file`),
open and close (only which inodes `fh[]` names), `fs_ext2_unlink`,
`fs_ext2_link` and `fs_ext2_rename` with `int_rename`. File contents and
positions are left to Ext2Vfs. State:

- `kind`, `links`: per inode, file or directory, and `i_links_count`.
- `ent`: directory -> name -> inode, and `dotdot`: each directory's `..`.
- `open`: the inodes some `fh[]` slot names.
- `phase`, `walk`: `idle`; `walk` while rename climbs the `..` chain, with
  its locals in `walk`; `relock` once rename has returned, after which no
  handler can take the mutex (fs_ext2.c:937, as in Ext2Vfs).

A caller names a path by a directory that path resolution reaches (`Reach`)
and a last component. Mkdir is the exception. `fs_ext2_mkdir` is the only
handler without an ENOTDIR check on its parent (fs_ext2.c:1121-1147), so its
parent is any inode that path resolution reaches (`Resolvable`), files
included. The new inode takes the parent's kind. Each handler is one step; the ancestor walk is one step
per loop iteration (`WalkStep`), since it can loop. The engine is taken from
spec.md 4.3: `create_empty` gives a directory two links, `inode_deref` drops
one link and frees at zero, `dir_is_empty` looks at the entries. In-memory
inodes are taken as one per number, so the pointer comparisons of
`int_rename` compare inode numbers.

Properties:

- `TreeShape`: every reachable directory other than the root is named by
  exactly one entry, in the directory its `..` names; every live directory's
  `..` chain leads to the root (rename never made a directory its own
  ancestor).
- `DirLinkCounts`: a reachable directory has 2 links plus one per
  subdirectory.
- `FileLinkCounts`: a live file has one link per directory entry naming it.
- `RemovedDirsEmpty`: a directory nobody reaches holds no entries.
- `WalkEnds`: a rename that starts the ancestor walk leaves it.

| Run | Config | Expect | Checks | Shows |
|---|---|---|---|---|
| `ext2_tree` | `Ext2Tree_tree.cfg` | pass | `TypeOK`, `TreeShape`, `DirLinkCounts` | Two names, a root and three inodes: every sequence of mkdir (under a directory or a file), rmdir, create, open/close, link and unlink, then one rename (to the root, within a parent, into its own subtree, over files and empty directories), keeps the tree and the directories' link counts. |
| `ext2_walk_spin` | `Ext2Tree_walk_spin.cfg` | violation | `WalkEnds` | mkdir /a, mkdir /b, rename /b /a/b: the walk reaches the root and loops there, because `sinode_num` is never advanced (fs_ext2.c:761). |

The pass run explores about 40,000 states in about 12 seconds, and every
branch of the walk fires: EINVAL for a move into its own subtree, the break
for a move into the root, and the climb. Four inodes allow a directory with a
subdirectory and a third inode to move or remove. Name symmetry is used in
the pass run only; the liveness run has none.

Two configurations reproduce defects recorded as hazards:

- `Ext2Tree_rmdir_nonempty.cfg` (fs_ext2.c:1290): mkdir /a, mkdir /a/a and
  rmdir /a all succeed, because rmdir never checks that the directory is
  empty. `RemovedDirsEmpty` fails.
- `Ext2Tree_mkdir_file.cfg` (fs_ext2.c:1121): create /a, then mkdir /a/a.
  The file /a gets a second link with one name. The new inode has two links
  and no directory entry naming it. `FileLinkCounts` fails.

### HostFs

`HostFs` models `src/kernel/fs/fs.c`. `MC_HostFs` instantiates it.

State:

- `fdt` is `fd_table`.
- `heap` is the bounded pool of `fs_hnd_t` blocks. Each block is
  `[live, hnd, ref, pos]`. malloc takes a dead block and free kills it.
- `hopen` is the set of handler handles opened and not yet closed.
- `pc` and `loc` are each thread's position and locals.

Every call is cut where the unlocked code reads `fd_table` and later acts
on what it read ("XXX Not thread-safe!", fs.c:204). The steps are:

| Step | Code |
|---|---|
| `OpenFile`/`OpenRoot` (`Wrap`) | `fs_open`/`fs_hnd_open`/`fs_root_opendir`, then `fs_hnd_ref` of `fs_hnd_assign` |
| `Scan` | the scan for a free descriptor; EMFILE unrefs |
| `Store` | the store |
| `Dup`, `DupRef` | `fs_dup`'s check, then its re-read of `fd_table[oldfd]` |
| `Close`, `Unref`, `Clear` | `fs_map_hnd`, `fs_hnd_unref`, the clear |
| `Dup2`, `Dup2Set`, `Dup2Ref` | `fs_dup2`'s checks and close, its copy, and its re-read and ref |
| `Use`, `Call` | `fs_map_hnd`, then the handler call. On the root handle, `RootPos` moves (`fs_root_readdir`) or resets (`fs_rewinddir`, `fs_fstat`) the position |
| `Destroy` | `fs_fdtbl_destroy` in one step. It has no caller in the repository |

Two kinds of failure are modelled:

- A step that dereferences a freed wrapper goes to pc `uaf`.
- A failed `assert` goes to `abort`, and then no thread moves.

Properties:

- `RefsCounted`: every live wrapper's `refcnt` equals the descriptors
  naming it plus the references `fs_hnd_assign` holds unstored. It is at
  least 1, no descriptor names a freed wrapper, and no thread touches one.

| Run | Config | Expect | Checks | Shows |
|---|---|---|---|---|
| `host_fds` | `HostFs_fds.cfg` | pass | `TypeOK`, `RefsCounted` | One thread, 2 descriptors, 2 wrapper blocks, 2 handler handles, 1 mount: every sequence of open, root open, dup, dup2, close, destroy and calls keeps the counts exact (1,225 states), EMFILE and heap exhaustion included. |

Bounds:

- 2 descriptors and 2 blocks make EMFILE, dup onto a full table, dup2 over
  an open descriptor and the last reference going all happen.
- 1 mount lets root readdir reach its end.

The pass run has one thread, because the code's own comments say it is not
thread-safe. It uses `CHECK_DEADLOCK FALSE` because a failed assert halts
the kernel.

Repro configurations, not in the run list:

- `HostFs_race.cfg`, two threads. TLC finds `RefsCounted` violated.
  - Its shortest trace: `fs_fdtbl_destroy` frees a wrapper between the map
    and the unref of a close on another thread.
  - Without destroy, two opens both scan descriptor 0. The second store
    overwrites the first wrapper, which leaks with its handler handle open.
- `HostFs_dup2_self.cfg`. `fs_dup2(0, 0)` on an open descriptor fails the
  assert, and `NoAbort` fails. fs_dup2 never compares the two descriptors
  (fs.c:313): it closes fd 0, copies the now NULL slot into itself, and
  calls `fs_hnd_ref(NULL)`. POSIX returns the descriptor unchanged.

## 4. Fairness

The FAT, cache and host VFS properties are safety properties and assume no fairness.
`FairSpec` of Ext2Vfs adds weak fairness of each thread's `Run`: a waiting
call whose mutex is free runs. Nothing in `Call` is fair, because a thread
may stay idle. The code justifies this:

- Handler bodies are atomic, so the mutex is free in every state of the
  model except after rename.
- A KOS mutex hands the lock to a waiter once it is free and the thread is
  scheduled.

Under this fairness, `CallsReturn` fails only because of rename's re-lock.

`FairSpec` of Ext2Tree has weak fairness of `WalkStep` only. The walk runs
on the thread that holds `ext2_mutex` and waits on nothing, so it keeps
running. Callers are not fair, because nobody has to call.

## 5. Not modelled, and why

- Host VFS `fs.c`: `fs_open_handle` (the same `fs_hnd_assign` as `fs_open`);
  the failure paths of `fs_hnd_open` (realpath, name-manager lookup, a
  handler's open, or malloc failing leave no state behind); handlers with no
  close function (`fs_hnd_unref` then keeps the wrapper); and the path
  calls (rename, unlink, mkdir, rmdir, link, symlink, readlink, stat,
  chdir), which hand the path to a handler or to the thread's cwd and keep
  no state of fs.c. `fs_write` on descriptors 1 and 2 goes to dbgio
  without reading `fd_table`; the model treats it like any other call.
- Network, keyboard, BIOS font, libc helpers, utils and examples: not part of
  the filesystem engines.
- Timestamps, `dbglog`, and the byte layout of names in directory entries
  (beyond what the planned properties tell apart).
- Read-only mounts in FatCache. `fat_write_fat` returns `-EROFS` before
  touching the cache, and a read-only mount never dirties a slot.
- `fat_fs_sync`'s three stages and `fat_fs_shutdown` (planned with
  FatTable).
- ext2: symlink, readlink, readdir, stat and fcntl. Ext2Vfs and Ext2Tree are
  separate: file contents over a flat directory, and the tree without
  contents.
- ext2: read-only mounts and O_DIR.
- FAT directories: the FAT12/16 fixed root region and its sector count,
  `fat_find_dentry`'s walk over several path components (FatDir is one
  directory), mkdir/rmdir and `fat_is_dir_empty`, `fat_get_dentry` and
  `fat_update_dentry` (copies of one entry), the short-name checksum (the
  code computes it but never checks it), and device errors while scanning.
- FAT readdir: the listing of the FAT12/16 root region (the same loop over
  sectors instead of clusters), several directory handles at once, and the
  stat, fstat and fcntl calls on a handle. Readdir's `cluster_order` and
  dirent fields other than the name are also left out.
- ext2: engine I/O errors, and the engine's in-memory inode reference counts
  and their write-back.
