------------------------------- MODULE Ext2Tree -------------------------------
(***************************************************************************)
(* The directory tree of libkosext2fs as fs_ext2.c changes it: mkdir,     *)
(* rmdir, create (open with O_CREAT), open and close, unlink, link and    *)
(* rename with int_rename's ancestor walk.  Each handler runs under       *)
(* ext2_mutex; the ancestor walk is a loop inside rename and is one step  *)
(* per iteration here, with the mutex held throughout.  A caller names a  *)
(* path by its parent directory (one the path resolution reaches) and    *)
(* the last component.                                                     *)
(*                                                                         *)
(* The engine is modelled from spec.md 4.3: a directory made by           *)
(* create_empty has links_count 2 and a ".." entry; inode_deref takes one *)
(* link and frees the inode at zero; inode_get hands out one in-memory    *)
(* inode per number, so the pointer comparisons of int_rename compare     *)
(* inode numbers.                                                          *)
(***************************************************************************)
EXTENDS Naturals, FiniteSets

CONSTANTS Names,    \* entry names
          NInodes,  \* inodes 1..NInodes; 1 is the root directory
          MaxLinks  \* bound of a link count (a bound on link's use)

VARIABLES kind,     \* inode -> "file" or "dir" (meaningful while links > 0)
          ent,      \* inode -> name -> inode number, 0 for no entry
          dotdot,   \* directory -> the inode its ".." entry names
          links,    \* inode -> i_links_count
          open,     \* inodes some fh[] slot names
          phase,    \* "idle", "walk" (rename's ancestor walk) or "relock"
          walk      \* rename's locals while it walks

vars == <<kind, ent, dotdot, links, open, phase, walk>>

Root == 1
Ino == 1..NInodes
NoEnt == [n \in Names |-> 0]
Least(S) == CHOOSE x \in S : \A y \in S : x <= y
AnyName == CHOOSE n \in Names : TRUE

Live == {i \in Ino : links[i] > 0}
IsDir(i) == kind[i] = "dir"

\* The inodes path resolution reaches from the root: it descends through
\* directories only (inode_by_path answers ENOTDIR at an inner file), and
\* the last component may be a file.
RECURSIVE ReachFrom(_)
ReachFrom(S) ==
    LET S2 == S \cup ({ent[d][n] : d \in {x \in S : IsDir(x)}, n \in Names} \ {0})
    IN IF S2 = S THEN S ELSE ReachFrom(S2)
Resolvable == ReachFrom({Root})
Reach == {d \in Resolvable : IsDir(d)}

\* The root directory of a freshly made file system.
Init == /\ kind = [i \in Ino |-> IF i = Root THEN "dir" ELSE "file"]
        /\ ent = [i \in Ino |-> NoEnt]
        /\ dotdot = [i \in Ino |-> IF i = Root THEN Root ELSE 0]
        /\ links = [i \in Ino |-> IF i = Root THEN 2 ELSE 0]
        /\ open = {}
        /\ phase = "idle"
        /\ walk = [src |-> 0, p1 |-> 0, n1 |-> AnyName, p2 |-> 0,
                   n2 |-> AnyName, cur |-> 0]

Idle == phase = "idle"

\* ext2_inode_alloc: the first free inode.
FreeIno == {i \in Ino : links[i] = 0}

-----------------------------------------------------------------------------
\* Mutant: mkdir forgetting the parent's extra link.
MkdirNoParentLink(p, n) ==
    /\ Idle
    /\ IF ent[p][n] # 0 \/ FreeIno = {}
       THEN UNCHANGED <<kind, ent, dotdot, links>>
       ELSE LET i == Least(FreeIno)
            IN /\ kind' = [kind EXCEPT ![i] = kind[p]]
               /\ ent' = [ent EXCEPT ![i] = NoEnt, ![p][n] = i]
               /\ dotdot' = [dotdot EXCEPT ![i] = p]
               /\ links' = [links EXCEPT ![i] = 2]
    /\ UNCHANGED <<open, phase, walk>>

(* fs_ext2_mkdir: EEXIST when the name is taken; otherwise a new inode   *)
(* with "." and ".." (ext2_dir_create_empty, links 2), an entry in the   *)
(* parent, and one more link on the parent for the child's "..".  The    *)
(* parent is whatever inode_by_path resolves, with no ENOTDIR check: a   *)
(* file parent has the entry added to its data, and the new inode takes  *)
(* the parent's i_mode.                                                    *)
Mkdir(p, n) ==
    /\ Idle
    /\ IF ent[p][n] # 0 \/ FreeIno = {}
       THEN UNCHANGED <<kind, ent, dotdot, links>>                  \* EEXIST, ENOSPC
       ELSE LET i == Least(FreeIno)
            IN /\ kind' = [kind EXCEPT ![i] = kind[p]]
               /\ ent' = [ent EXCEPT ![i] = NoEnt, ![p][n] = i]
               /\ dotdot' = [dotdot EXCEPT ![i] = p]
               /\ links' = [links EXCEPT ![i] = 2, ![p] = @ + 1]
    /\ UNCHANGED <<open, phase, walk>>

\* Mutant: rmdir without the check that the entry is a directory.
RmdirNoPerm(p, n) ==
    /\ Idle
    /\ LET i == ent[p][n] IN
       IF i = 0 \/ i \in open
       THEN UNCHANGED <<ent, links>>
       ELSE /\ ent' = [ent EXCEPT ![p][n] = 0]
            /\ links' = [links EXCEPT ![i] = @ - 1, ![p] = @ - 1]
    /\ UNCHANGED <<kind, dotdot, open, phase, walk>>

(* fs_ext2_rmdir: ENOENT, EPERM for a file, EBUSY when an fh[] slot     *)
(* names it; otherwise the entry goes, the inode is dereferenced once,   *)
(* and the parent loses the link of the child's "..".  Nothing checks    *)
(* that the directory is empty.                                           *)
Rmdir(p, n) ==
    /\ Idle
    /\ LET i == ent[p][n] IN
       IF i = 0 \/ ~IsDir(i) \/ i \in open
       THEN UNCHANGED <<ent, links>>                                \* ENOENT, EPERM, EBUSY
       ELSE /\ ent' = [ent EXCEPT ![p][n] = 0]
            /\ links' = [links EXCEPT ![i] = @ - 1, ![p] = @ - 1]
    /\ UNCHANGED <<kind, dotdot, open, phase, walk>>

(* fs_ext2_open with O_CREAT of a missing name (create_empty_file): a    *)
(* new file with one link and an entry in the parent, held open.         *)
Create(p, n) ==
    /\ Idle
    /\ ent[p][n] = 0
    /\ IF FreeIno = {}
       THEN UNCHANGED <<kind, ent, links, open>>                    \* ENOSPC
       ELSE LET i == Least(FreeIno)
            IN /\ kind' = [kind EXCEPT ![i] = "file"]
               /\ ent' = [ent EXCEPT ![p][n] = i]
               /\ links' = [links EXCEPT ![i] = 1]
               /\ open' = open \cup {i}
    /\ UNCHANGED <<dotdot, phase, walk>>

(* fs_ext2_open of an existing file, or of a directory with O_DIR, and   *)
(* fs_ext2_close: the handle's slot names the inode until close.  A      *)
(* caller keeps at most one handle per inode.                             *)
Open(p, n) ==
    /\ Idle
    /\ ent[p][n] \notin {0} \cup open
    /\ open' = open \cup {ent[p][n]}
    /\ UNCHANGED <<kind, ent, dotdot, links, phase, walk>>

Close(i) ==
    /\ Idle
    /\ open' = open \ {i}
    /\ UNCHANGED <<kind, ent, dotdot, links, phase, walk>>

(* fs_ext2_unlink: ENOENT, EPERM for a directory, EBUSY for the last     *)
(* link of an inode a slot names; otherwise the entry goes and the inode *)
(* is dereferenced.                                                       *)
Unlink(p, n) ==
    /\ Idle
    /\ LET i == ent[p][n] IN
       IF i = 0 \/ IsDir(i) \/ (links[i] = 1 /\ i \in open)
       THEN UNCHANGED <<ent, links>>                                \* ENOENT, EPERM, EBUSY
       ELSE /\ ent' = [ent EXCEPT ![p][n] = 0]
            /\ links' = [links EXCEPT ![i] = @ - 1]
    /\ UNCHANGED <<kind, dotdot, open, phase, walk>>

(* fs_ext2_link: ENOENT, EPERM for a directory, EEXIST for a taken name; *)
(* otherwise a second entry and one more link.                            *)
Link(p1, n1, p2, n2) ==
    /\ Idle
    /\ LET i == ent[p1][n1] IN
       IF i = 0 \/ IsDir(i) \/ ent[p2][n2] # 0
       THEN UNCHANGED <<ent, links>>                                \* ENOENT, EPERM, EEXIST
       ELSE /\ links[i] < MaxLinks                                   \* bound
            /\ ent' = [ent EXCEPT ![p2][n2] = i]
            /\ links' = [links EXCEPT ![i] = @ + 1]
    /\ UNCHANGED <<kind, dotdot, open, phase, walk>>

-----------------------------------------------------------------------------
B(c) == IF c THEN 1 ELSE 0
Empty(d) == \A n \in Names : ent[d][n] = 0

(* The real work of int_rename: a replaced destination entry goes and   *)
(* its inode is dereferenced (the new parent losing the link of a        *)
(* replaced directory's ".."), the source entry is added in the new      *)
(* parent and removed from the old one, and a moved directory's ".." is  *)
(* redirected, one link moving from the old parent to the new.           *)
RenameWork(f, p1, n1, p2, n2) ==
    LET d == ent[p2][n2]
        isdir == d # 0 /\ IsDir(d)
        isfile == ~IsDir(f)
    IN /\ ent' = [ent EXCEPT ![p2][n2] = f, ![p1][n1] = 0]
       /\ dotdot' = IF isfile THEN dotdot ELSE [dotdot EXCEPT ![f] = p2]
       /\ links' = [i \in Ino |-> links[i] - B(i = d) - B(isdir /\ i = p2)
                                  - B(~isfile /\ i = p1) + B(~isfile /\ i = p2)]

\* Mutant: rename without the ancestor walk.
RenameNoWalk(p1, n1, p2, n2) ==
    /\ Idle
    /\ LET f == ent[p1][n1]
           d == ent[p2][n2]
       IN IF f = 0
          THEN UNCHANGED <<ent, dotdot, links, phase, walk>>
          ELSE IF d # 0 /\ \/ IsDir(d) /\ ~IsDir(f)
                           \/ IsDir(d) /\ ~Empty(d)
                           \/ d \in open
          THEN /\ phase' = "relock"
               /\ UNCHANGED <<ent, dotdot, links, walk>>
          ELSE /\ RenameWork(f, p1, n1, p2, n2)
               /\ phase' = "relock"
               /\ UNCHANGED walk
    /\ UNCHANGED <<kind, open>>

(* fs_ext2_rename and the checks of int_rename before its ancestor walk: *)
(* ENOENT for a missing source (the mutex released); otherwise           *)
(* int_rename runs and fs_ext2_rename ends with mutex_lock whatever it   *)
(* returned.  A destination directory is refused to a file source        *)
(* (EISDIR) and when not empty (ENOTEMPTY), a destination an fh[] slot   *)
(* names with EBUSY.  A directory moving to another parent starts the    *)
(* walk up the new parent's ".." chain.                                   *)
Rename(p1, n1, p2, n2) ==
    /\ Idle
    /\ LET f == ent[p1][n1]
           d == ent[p2][n2]
       IN IF f = 0
          THEN UNCHANGED <<ent, dotdot, links, phase, walk>>        \* ENOENT
          ELSE IF d # 0 /\ \/ IsDir(d) /\ ~IsDir(f)
                           \/ IsDir(d) /\ ~Empty(d)
                           \/ d \in open
          THEN /\ phase' = "relock"                                 \* EISDIR, ENOTEMPTY, EBUSY
               /\ UNCHANGED <<ent, dotdot, links, walk>>
          ELSE IF IsDir(f) /\ p2 # p1
          THEN /\ phase' = "walk"
               /\ walk' = [src |-> f, p1 |-> p1, n1 |-> n1, p2 |-> p2,
                           n2 |-> n2, cur |-> p2]
               /\ UNCHANGED <<ent, dotdot, links>>
          ELSE /\ RenameWork(f, p1, n1, p2, n2)
               /\ phase' = "relock"
               /\ UNCHANGED walk
    /\ UNCHANGED <<kind, open>>

(* One iteration of int_rename's ancestor walk: EINVAL when the current *)
(* directory is the source; the walk ends when the current directory's  *)
(* ".." names sinode_num, which is set once to the destination parent   *)
(* and never advanced; otherwise it moves up to the "..".                *)
WalkStep ==
    /\ phase = "walk"
    /\ LET c == walk.cur IN
       IF c = walk.src
       THEN /\ phase' = "relock"                                    \* EINVAL
            /\ UNCHANGED <<ent, dotdot, links, walk>>
       ELSE IF dotdot[c] = walk.p2
       THEN /\ RenameWork(walk.src, walk.p1, walk.n1, walk.p2, walk.n2)
            /\ phase' = "relock"
            /\ UNCHANGED walk
       ELSE /\ walk' = [walk EXCEPT !.cur = dotdot[c]]
            /\ UNCHANGED <<ent, dotdot, links, phase>>
    /\ UNCHANGED <<kind, open>>

Next ==
    \/ \E p \in Resolvable, n \in Names : Mkdir(p, n)
    \/ \E p \in Reach, n \in Names :
          Rmdir(p, n) \/ Create(p, n) \/ Open(p, n) \/ Unlink(p, n)
    \/ \E i \in open : Close(i)
    \/ \E p1, p2 \in Reach, n1, n2 \in Names : Link(p1, n1, p2, n2) \/ Rename(p1, n1, p2, n2)
    \/ WalkStep

Spec == Init /\ [][Next]_vars

(* The walk runs on the thread that holds ext2_mutex and waits on nothing. *)
FairSpec == Spec /\ WF_vars(WalkStep)

-----------------------------------------------------------------------------
TypeOK ==
    /\ kind \in [Ino -> {"file", "dir"}]
    /\ ent \in [Ino -> [Names -> 0..NInodes]]
    /\ dotdot \in [Ino -> 0..NInodes]
    /\ links \in [Ino -> Nat]
    /\ open \subseteq Live
    /\ phase \in {"idle", "walk", "relock"}

RECURSIVE Up(_, _)
Up(d, k) == IF k = 0 THEN d ELSE Up(dotdot[d], k - 1)

(* The directories form a tree, whatever sequence of mkdir, rmdir and    *)
(* rename made them: each directory path resolution reaches, other than *)
(* the root, is named by exactly one entry of a reachable directory, the *)
(* one its ".." names; and the ".." chain of every live directory leads *)
(* to the root, so rename never made a directory its own ancestor.       *)
TreeShape ==
    /\ \A d \in Reach \ {Root} :
          /\ dotdot[d] \in Reach
          /\ {<<q, n>> \in Reach \X Names : ent[q][n] = d}
                = {<<dotdot[d], n>> : n \in {m \in Names : ent[dotdot[d]][m] = d}}
          /\ Cardinality({n \in Names : ent[dotdot[d]][n] = d}) = 1
    /\ \A d \in Live : IsDir(d) => Up(d, NInodes) = Root

(* i_links_count of a directory as mkdir, rmdir and rename keep it: a    *)
(* reachable directory has two links ("." and its name) and one per     *)
(* subdirectory's "..".                                                    *)
DirLinkCounts ==
    \A d \in Reach :
        links[d] = 2 + Cardinality({n \in Names : ent[d][n] # 0 /\ IsDir(ent[d][n])})

(* i_links_count of a file as link, unlink and rename keep it: a live    *)
(* file has one link per directory entry naming it.                      *)
FileLinkCounts ==
    \A i \in Live : ~IsDir(i) =>
        links[i] = Cardinality({<<q, n>> \in Live \X Names : IsDir(q) /\ ent[q][n] = i})

(* A directory that path resolution no longer reaches holds no entries:  *)
(* rmdir and rename remove only empty directories (POSIX rmdir answers  *)
(* ENOTEMPTY), so no file or directory is left hanging below one.        *)
RemovedDirsEmpty == \A d \in Live \ Reach : IsDir(d) => Empty(d)

(* int_rename's ancestor walk ends: a rename that starts walking the     *)
(* destination's ".." chain leaves the walk, with EINVAL or by breaking  *)
(* at the root, and so releases the caller.                               *)
WalkEnds == phase = "walk" ~> phase # "walk"
====
