------------------------------- MODULE FatCache -------------------------------
(***************************************************************************)
(* The two write-back caches of libkosfat: the FAT-sector cache (fcache,  *)
(* fat.c) and the cluster cache (bcache, fatfs.c).  Both are the same     *)
(* code over a different record: an array of N pointers to slots, index 0 *)
(* the least recently used, a lookup from the MRU end, eviction of slot 0  *)
(* with write-back if dirty, and a flush from the MRU end that stops at   *)
(* the first device error.                                                 *)
(*                                                                         *)
(* The cache operations are operators from a cache state to a result, so *)
(* that a caller that makes several of them under the engine mutex (a     *)
(* FAT12 entry straddling two sectors, read-modify-mark_dirty) is one     *)
(* atomic action.  The device may fail on any record in "bad".            *)
(***************************************************************************)
EXTENDS Naturals, Sequences, FiniteSets

CONSTANTS Blocks,     \* record numbers (a subset of Nat: sector n+1 follows n)
          Slots,      \* the fat_cache_t objects of one cache
          Vals,       \* abstract record contents
          Zero,       \* contents after memset(0)
          MaxFaults   \* bound on device faults injected in a behaviour

VARIABLES cache,   \* fs->fcache / fs->bcache: cache[1] is C index 0 (LRU)
          block,   \* slot -> fat_cache_t.block
          flags,   \* slot -> fat_cache_t.flags, a subset of {VALID, DIRTY}
          data,    \* slot -> fat_cache_t.data
          disk,    \* record -> contents on the block device
          bad,     \* records on which device I/O currently fails
          faults,  \* number of device faults injected so far
          req      \* the last caller request and its outcome (history)

vars == <<cache, block, flags, data, disk, bad, faults, req>>

VALID == "VALID"
DIRTY == "DIRTY"

\* The part of the state the cache operators transform.
Cur == [cache |-> cache, block |-> block, flags |-> flags, data |-> data,
        disk |-> disk]

Commit(st) == /\ cache' = st.cache
              /\ block' = st.block
              /\ flags' = st.flags
              /\ data' = st.data
              /\ disk' = st.disk

Highest(S) == CHOOSE i \in S : \A j \in S : j <= i
Lowest(S) == CHOOSE i \in S : \A j \in S : i <= j

(* make_mru: move the pointer at index i to the MRU end, shifting the ones *)
(* above it down.  Nothing to do for the MRU slot itself.                   *)
MakeMru(st, i) ==
    LET c == st.cache IN
    IF i >= Len(c) THEN st
    ELSE [st EXCEPT !.cache = SubSeq(c, 1, i - 1) \o SubSeq(c, i + 1, Len(c))
                               \o <<c[i]>>]

\* A lookup that starts one below the MRU end (used to test NoDuplicateBlock).
LookupSkipMru(st, b) ==
    LET hits == {i \in 1..(Len(st.cache) - 1) :
                    st.block[st.cache[i]] = b /\ st.flags[st.cache[i]] # {}}
    IN IF hits = {} THEN 0 ELSE Highest(hits)

(* The lookup loop shared by read, clear and mark_dirty: the first index, *)
(* from the MRU end, whose slot holds b with non-zero flags; 0 if none.   *)
Lookup(st, b) ==
    LET hits == {i \in 1..Len(st.cache) :
                    st.block[st.cache[i]] = b /\ st.flags[st.cache[i]] # {}}
    IN IF hits = {} THEN 0 ELSE Highest(hits)

(* Write the LRU slot back if it is dirty.  A failed write leaves it dirty. *)
Evict(st) ==
    LET v == st.cache[1] IN
    IF DIRTY \notin st.flags[v] THEN [ok |-> TRUE, st |-> st]
    ELSE IF st.block[v] \in bad THEN [ok |-> FALSE, st |-> st]
    ELSE [ok |-> TRUE, st |-> [st EXCEPT !.disk[st.block[v]] = st.data[v]]]

\* A read that drops the LRU slot without writing it back (used to test
\* Refinement).
ReadBlockNoWb(st, b) ==
    LET i == Lookup(st, b)
        v == st.cache[1]
    IN IF i # 0 THEN [ok |-> TRUE, p |-> st.cache[i], st |-> MakeMru(st, i)]
       ELSE IF b \in bad THEN [ok |-> FALSE, p |-> v,
                               st |-> [st EXCEPT !.flags[v] = {}]]
       ELSE [ok |-> TRUE, p |-> v,
             st |-> MakeMru([st EXCEPT !.block[v] = b, !.flags[v] = {VALID},
                                       !.data[v] = st.disk[b]], 1)]

\* A read whose failure path clears only the VALID bit, as "mark it as
\* invalid" might be written (used to test TypeOK: DIRTY implies VALID).
ReadBlockClearValidOnly(st, b) ==
    LET i == Lookup(st, b)
        v == st.cache[1]
        e == Evict(st)
    IN IF i # 0 THEN [ok |-> TRUE, p |-> st.cache[i], st |-> MakeMru(st, i)]
       ELSE IF ~e.ok THEN [ok |-> FALSE, p |-> v, st |-> st]
       ELSE IF b \in bad THEN [ok |-> FALSE, p |-> v,
                               st |-> [e.st EXCEPT !.flags[v] = @ \ {VALID}]]
       ELSE [ok |-> TRUE, p |-> v,
             st |-> MakeMru([e.st EXCEPT !.block[v] = b, !.flags[v] = {VALID},
                                         !.data[v] = e.st.disk[b]], 1)]

(* fat_read_fatblock / fat_cluster_read: a hit is made MRU; a miss evicts  *)
(* slot 0 (failing with EIO if its write-back fails), then reads b into it; *)
(* a failed read leaves the slot with flags 0 and returns EIO.  p is the   *)
(* slot whose data the returned pointer points into.                        *)
ReadBlock(st, b) ==
    LET i == Lookup(st, b)
        v == st.cache[1]
        e == Evict(st)
    IN IF i # 0 THEN [ok |-> TRUE, p |-> st.cache[i], st |-> MakeMru(st, i)]
       ELSE IF ~e.ok THEN [ok |-> FALSE, p |-> v, st |-> st]
       ELSE IF b \in bad THEN [ok |-> FALSE, p |-> v,
                               st |-> [e.st EXCEPT !.flags[v] = {}]]
       ELSE [ok |-> TRUE, p |-> v,
             st |-> MakeMru([e.st EXCEPT !.block[v] = b, !.flags[v] = {VALID},
                                         !.data[v] = e.st.disk[b]], 1)]

(* fat_cluster_clear: like a read, but a miss claims slot 0 as VALID|DIRTY *)
(* without reading, and the data is zeroed in both cases.  A hit keeps its *)
(* flags as they were.                                                      *)
ClusterClear(st, b) ==
    LET i == Lookup(st, b)
        v == st.cache[1]
        e == Evict(st)
    IN IF i # 0
       THEN [ok |-> TRUE, p |-> st.cache[i],
             st |-> [MakeMru(st, i) EXCEPT !.data[st.cache[i]] = Zero]]
       ELSE IF ~e.ok THEN [ok |-> FALSE, p |-> v, st |-> st]
       ELSE [ok |-> TRUE, p |-> v,
             st |-> MakeMru([e.st EXCEPT !.block[v] = b,
                                         !.flags[v] = {VALID, DIRTY},
                                         !.data[v] = Zero], 1)]

(* fat_fatblock_mark_dirty / fat_cluster_mark_dirty: set DIRTY on the slot *)
(* holding b and make it MRU; -EINVAL (no change) if b is not cached.      *)
MarkDirty(st, b) ==
    LET i == Lookup(st, b) IN
    IF i = 0 THEN st
    ELSE MakeMru([st EXCEPT !.flags[st.cache[i]] = @ \cup {DIRTY}], i)

(* fat_fatblock_cache_wb / fat_cluster_cache_wb: from the MRU end down,    *)
(* write each dirty slot and clear DIRTY; stop at the first failing write. *)
CacheWb(st) ==
    LET D == {i \in 1..Len(st.cache) : DIRTY \in st.flags[st.cache[i]]}
        F == {i \in D : st.block[st.cache[i]] \in bad}
        stop == IF F = {} THEN 0 ELSE Highest(F)
        W == {i \in D : i > stop}
        writers(b) == {i \in W : st.block[st.cache[i]] = b}
    IN [ok |-> F = {},
        st |-> [st EXCEPT
                  !.disk = [b \in Blocks |->
                              IF writers(b) = {} THEN st.disk[b]
                              ELSE st.data[st.cache[Lowest(writers(b))]]],
                  !.flags = [s \in Slots |->
                              IF \E i \in W : st.cache[i] = s
                                 THEN st.flags[s] \ {DIRTY}
                                 ELSE st.flags[s]]]]

-----------------------------------------------------------------------------
(* fat_fs_init_ex: every slot is malloc'ed with flags 0; its block number  *)
(* and data are never initialised, so they are whatever the heap held.     *)
Init == /\ cache \in {s \in [1..Cardinality(Slots) -> Slots] :
                         \A i, j \in DOMAIN s : i # j => s[i] # s[j]}
        /\ block \in [Slots -> Blocks]
        /\ flags = [s \in Slots |-> {}]
        /\ data \in [Slots -> Vals]
        /\ disk \in [Blocks -> Vals]
        /\ bad = {}
        /\ faults = 0
        /\ req = [op |-> "none", blks |-> {}, val |-> Zero, ok |-> FALSE]

Request(op, blks, val, ok) == req' = [op |-> op, blks |-> blks, val |-> val,
                                      ok |-> ok]

(* fat_read_fat (and every read-only caller of fat_cluster_read): read the *)
(* record and return what the slot holds.                                   *)
ReadRec(b) ==
    LET r == ReadBlock(Cur, b) IN
    /\ Commit(r.st)
    /\ Request("read", {b}, r.st.data[r.p], r.ok)
    /\ UNCHANGED <<bad, faults>>

(* fat_write_fat for FAT16, FAT32 and a FAT12 entry within one sector, and *)
(* fat_update_dentry: read the record, store into the buffer, mark it      *)
(* dirty (whose -EINVAL is ignored); a failed read returns its error.      *)
WriteRec(b, v) ==
    LET r == ReadBlock(Cur, b) IN
    /\ IF r.ok THEN Commit(MarkDirty([r.st EXCEPT !.data[r.p] = v], b))
               ELSE Commit(r.st)
    /\ Request("write", {b}, v, r.ok)
    /\ UNCHANGED <<bad, faults>>

(* fat_write_fat, FAT12 entry whose offset is the last byte of sector b:   *)
(* read b, then read b+1 while still holding the pointer into b, store the *)
(* two halves through both pointers, mark both dirty.                       *)
WriteStraddle(b, v) ==
    LET r1 == ReadBlock(Cur, b)
        r2 == ReadBlock(r1.st, b + 1)
        st == [[r2.st EXCEPT !.data[r1.p] = v] EXCEPT !.data[r2.p] = v]
    IN /\ b + 1 \in Blocks
       /\ IF ~r1.ok THEN Commit(r1.st)
          ELSE IF ~r2.ok THEN Commit(r2.st)
          ELSE Commit(MarkDirty(MarkDirty(st, b), b + 1))
       /\ Request("write", {b, b + 1}, v, r1.ok /\ r2.ok)
       /\ UNCHANGED <<bad, faults>>

(* fat_cluster_clear as called by fat_create_entry and advance_cluster.    *)
ClearRec(b) ==
    LET r == ClusterClear(Cur, b) IN
    /\ Commit(r.st)
    /\ Request("clear", {b}, Zero, r.ok)
    /\ UNCHANGED <<bad, faults>>

(* fat_fatblock_cache_wb / fat_cluster_cache_wb (from fat_fs_sync).        *)
WriteBack ==
    /\ Commit(CacheWb(Cur).st)
    /\ UNCHANGED <<bad, faults, req>>

(* The device starts failing I/O on record b, or recovers.                 *)
Fault(b) == /\ faults < MaxFaults
            /\ bad' = bad \cup {b}
            /\ faults' = faults + 1
            /\ UNCHANGED <<cache, block, flags, data, disk, req>>

Repair(b) == /\ b \in bad
             /\ bad' = bad \ {b}
             /\ UNCHANGED <<cache, block, flags, data, disk, faults, req>>

Device == \E b \in Blocks : Fault(b) \/ Repair(b)

\* The FAT-sector cache: its callers in fat.c read, write and straddle.
NextFat == \/ \E b \in Blocks : ReadRec(b)
           \/ \E b \in Blocks, v \in Vals : WriteRec(b, v) \/ WriteStraddle(b, v)
           \/ WriteBack
           \/ Device

\* The cluster cache: its callers read, update in place and clear clusters.
NextCluster == \/ \E b \in Blocks : ReadRec(b) \/ ClearRec(b)
               \/ \E b \in Blocks, v \in Vals : WriteRec(b, v)
               \/ WriteBack
               \/ Device

SpecFat == Init /\ [][NextFat]_vars
SpecCluster == Init /\ [][NextCluster]_vars

-----------------------------------------------------------------------------
TypeOK == /\ cache \in Seq(Slots) /\ Len(cache) = Cardinality(Slots)
          /\ block \in [Slots -> Blocks]
          /\ flags \in [Slots -> {{}, {VALID}, {VALID, DIRTY}}]
          /\ data \in [Slots -> Vals]
          /\ disk \in [Blocks -> Vals]
          /\ bad \subseteq Blocks
          /\ faults \in 0..MaxFaults

(* The contents a caller sees: the cached copy if a slot holds the record, *)
(* else the device's.                                                       *)
View == [b \in Blocks |->
           IF \E s \in Slots : block[s] = b /\ flags[s] # {}
              THEN data[CHOOSE s \in Slots : block[s] = b /\ flags[s] # {}]
              ELSE disk[b]]

(* spec.md 8.1: at most one slot holds a given record.  The lookup loops   *)
(* of read, clear and mark_dirty must see every slot for this to hold, or  *)
(* a miss loads a second copy and the two diverge.                          *)
NoDuplicateBlock ==
    \A s, t \in Slots : (s # t /\ flags[s] # {} /\ flags[t] # {})
                           => block[s] # block[t]

Abstract == INSTANCE BlockStore WITH store <- View

(* The cache is invisible to its callers: a successful read returns the   *)
(* last value written, a failed request has no effect, and no eviction,   *)
(* write-back or device fault changes what a caller sees.  Breaking it    *)
(* takes a dirty record evicted, failed or cleared across several calls.  *)
Refinement == Abstract!Spec
================================================================================
