------------------------------ MODULE FatReaddir ------------------------------
(***************************************************************************)
(* A directory handle of fs_fat.c over the directory of module FatDir:    *)
(* fs_fat_open with O_DIR, fs_fat_readdir, fs_fat_rewinddir and           *)
(* fs_fat_close, interleaved (each whole, under fat_mutex) with creates   *)
(* and unlinks in the same directory.                                      *)
(*                                                                         *)
(* The handle's cursor is fh[fd].cluster and fh[fd].ptr.  Readdir reads   *)
(* the entry at ptr & (bs - 1) of the cluster, so for a cluster-chained   *)
(* directory only ptr modulo the entries per cluster matters: hptr is     *)
(* that index.  The end of the directory is the cluster value             *)
(* 0x0FFFFFF8, which fat_is_eof answers: EOC here.  got and stay are      *)
(* history: the slots returned since the handle was opened or rewound,    *)
(* and those whose entry has been in use and unchanged since then.        *)
(***************************************************************************)
EXTENDS FatDir, Functions

CONSTANT MaxGot   \* the longest listing followed after an open or rewind

VARIABLES hopen,  \* fh[fd].opened, for a handle opened with O_DIR
          hcl,    \* fh[fd].cluster
          hptr,   \* fh[fd].ptr >> 5, modulo Max
          ret,    \* what the step just taken returned on the handle
          got,    \* the slots it returned since the open or rewind, in order
          stay    \* slots in use at the open or rewind, unchanged since

rvars == <<hopen, hcl, hptr, ret, got, stay>>
allvars == <<dslot, nxt, hopen, hcl, hptr, ret, got, stay>>

NoRet == [k |-> "none"]

\* The slots of the directory's chain holding a short entry in use.
InUse == {At(k) : k \in Used}

FInit == /\ Init
         /\ hopen = FALSE
         /\ hcl = EOC
         /\ hptr = 0
         /\ ret = NoRet
         /\ got = <<>>
         /\ stay = {}

-----------------------------------------------------------------------------
(* The name fs_fat_readdir builds for the short entry e.  With no long-  *)
(* name entry met in the call it is the 8.3 name (copy_shortname).        *)
(* Otherwise it is what copy_longname left in longname_buf, cleared at    *)
(* the start of the call: each live long-name entry of name n and order  *)
(* o fills part o of n; a freed one fills nothing inside the buffer.      *)
(* The whole run of one name gives that name, no live entry the empty    *)
(* name, anything else a mix of parts.                                     *)
ReaddirNameOf(e, hl, ns) ==
    LET N == {p[1] : p \in ns}
    IN IF ~hl THEN [k |-> "short", s |-> e.s]
       ELSE IF ns = {} THEN [k |-> "empty"]
       ELSE IF \E n \in N : ns = {<<n, o>> : o \in 1..Ents(n)}
       THEN [k |-> "long", n |-> CHOOSE n \in N : TRUE]
       ELSE [k |-> "mixed"]

(* fs_fat_readdir's do-while from entry i of cluster c: ptr moves past    *)
(* each entry read.  A long-name entry, live or freed (the attribute is   *)
(* tested before name[0]), is copied out; a freed one has order byte     *)
(* 0xE5, so copy_longname writes at unit ((0xE5 - 1) & 0x3F) * 13 = 468, *)
(* past the 256 of longname_buf (oob).  The end-of-directory entry sets  *)
(* the cluster to 0x0FFFFFF8.  After a free or long-name entry that ends *)
(* its cluster the FAT is followed, and its end is reported with the     *)
(* cluster left as it is.  A short entry is returned; the cursor is not  *)
(* moved to the next cluster, whatever ptr has wrapped to.               *)
RECURSIVE ReadEnt(_, _, _, _, _)
ReadEnt(c, i, hl, ns, oob) ==
    LET e == dslot[c][i]
        i1 == (i + 1) % Max
        lfn == e.t = "lfn" \/ (e.t = "free" /\ e.lfn)
        hl1 == hl \/ lfn
        ns1 == IF e.t = "lfn" THEN ns \cup {<<e.n, e.o>>} ELSE ns
        oob1 == oob \/ (e.t = "free" /\ e.lfn)
    IN CASE e.t = "eod" ->
              [k |-> "end", cl |-> EOC, ptr |-> i1, oob |-> oob1]
         [] e.t \in {"free", "lfn"} ->
              IF i1 # 0 THEN ReadEnt(c, i1, hl1, ns1, oob1)
              ELSE IF nxt[c] = EOC
                   THEN [k |-> "end", cl |-> c, ptr |-> i1, oob |-> oob1]
                   ELSE ReadEnt(nxt[c], 0, hl1, ns1, oob1)
         [] OTHER ->
              [k |-> "ent", cl |-> c, ptr |-> i1, oob |-> oob1, at |-> <<c, i>>,
               name |-> ReaddirNameOf(e, hl1, ns1)]

\* fs_fat_open on the directory with O_DIR: the handle starts at the
\* directory's first cluster (fat_find_dentry and the checks are FatDir's).
OpenDir == /\ ~hopen
           /\ hopen' = TRUE
           /\ hcl' = First
           /\ hptr' = 0
           /\ ret' = NoRet
           /\ got' = <<>>
           /\ stay' = InUse
           /\ UNCHANGED vars

\* fs_fat_rewinddir: back to the first cluster and ptr 0.
Rewinddir == /\ hopen
             /\ hcl' = First
             /\ hptr' = 0
             /\ got' = <<>>
             /\ stay' = InUse
             /\ ret' = NoRet
             /\ UNCHANGED hopen
             /\ UNCHANGED vars

\* fs_fat_close.
CloseDir == /\ hopen
            /\ hopen' = FALSE
            /\ ret' = NoRet
            /\ UNCHANGED <<hcl, hptr, got, stay>>
            /\ UNCHANGED vars

(* fs_fat_readdir: at a cluster value fat_is_eof accepts it returns NULL *)
(* at once; otherwise the do-while, and the cursor and the dirent it     *)
(* leaves.                                                                *)
Readdir ==
    /\ hopen
    /\ Len(got) < MaxGot
    /\ IF hcl = EOC
       THEN /\ ret' = [k |-> "end", oob |-> FALSE]
            /\ UNCHANGED <<hcl, hptr, got>>
       ELSE LET r == ReadEnt(hcl, hptr, FALSE, {}, FALSE)
            IN /\ hcl' = r.cl
               /\ hptr' = r.ptr
               /\ ret' = r
               /\ got' = IF r.k = "ent" THEN Append(got, r.at) ELSE got
    /\ UNCHANGED <<hopen, stay>>
    /\ UNCHANGED vars

\* A create or unlink between two calls on the handle.
DirOp == /\ \E fn \in Names : Create(fn) \/ Unlink(fn)
         /\ stay' = {p \in stay : dslot'[p[1]][p[2]] = dslot[p[1]][p[2]] /\ p \in InUse'}
         /\ ret' = NoRet
         /\ UNCHANGED <<hopen, hcl, hptr, got>>

FNext == OpenDir \/ Rewinddir \/ CloseDir \/ Readdir \/ DirOp

FSpec == FInit /\ [][FNext]_allvars

-----------------------------------------------------------------------------
Slots == Clus \X Idx

ReaddirTypeOK ==
    /\ hopen \in BOOLEAN
    /\ hcl \in Clus \cup {EOC}
    /\ hptr \in Idx
    /\ got \in Seq(Slots) /\ Len(got) <= MaxGot
    /\ stay \subseteq Slots

(* The name a short entry was created under: the long name whose whole   *)
(* run of entries lies right before it in chain order, else its 8.3      *)
(* name.                                                                   *)
CreatedName(at) ==
    LET k == CHOOSE k \in Used : At(k) = at
        L == {n \in LongNames : \A j \in 1..Ents(n) :
                                   k - j >= 1 /\ Ent(k - j) = Lfn(n, j, j = Ents(n))}
    IN IF L = {} THEN [k |-> "short", s |-> Ent(k).s]
       ELSE [k |-> "long", n |-> CHOOSE n \in L : TRUE]

(* fs_fat_readdir never returns a slot twice between an open or rewind  *)
(* and the next: the cursor only moves forward through the chain, also  *)
(* past an entry in use in the last slot of a cluster.                   *)
ListedOnce == IsInjective(got)

(* When fs_fat_readdir reports the end of the directory, every entry in  *)
(* use since the open or rewind and left alone since has been returned.  *)
EndMeansAll == ret.k = "end" => \A p \in stay : \E x \in 1..Len(got) : got[x] = p

(* The dirent fs_fat_readdir returns carries the name the entry was      *)
(* created under, whatever unlinks left freed long-name entries before  *)
(* it.                                                                     *)
NamesExact == ret.k = "ent" /\ ret.at \in InUse => ret.name = CreatedName(ret.at)
====
