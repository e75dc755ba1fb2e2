-------------------------------- MODULE HostFs --------------------------------
(***************************************************************************)
(* The host VFS of KallistiOS (src/kernel/fs/fs.c): the global fd_table,  *)
(* the fs_hnd_t wrappers it points at (handler, handler-internal handle,  *)
(* refcnt) and the calls that change them: fs_open (through fs_hnd_open  *)
(* and fs_hnd_assign), fs_dup, fs_dup2, fs_close, fs_fdtbl_destroy, and   *)
(* the calls that go through a descriptor to its handler.                 *)
(*                                                                         *)
(* No lock guards any of it ("XXX Not thread-safe!"), so each call is cut *)
(* into steps at the points where it reads shared state and later acts on *)
(* what it read; pc and loc are a thread's position and locals.  A        *)
(* wrapper is a block of a bounded heap: malloc hands out a free one and  *)
(* free returns it.  The root directory handle (handler NULL) keeps its  *)
(* readdir position in hnd, which the model calls pos.                   *)
(***************************************************************************)
EXTENDS Naturals, FiniteSets

CONSTANTS Threads,   \* threads calling into fs.c
          NFd,       \* FD_SETSIZE: descriptors 0..NFd-1
          Wrappers,  \* heap blocks malloc can return for an fs_hnd_t
          Hnds,      \* handles a VFS handler's open can return
          NMounts,   \* VFS handlers in the name manager's list
          Null,      \* NULL
          RootH      \* the handler of the root directory handle (NULL)

VARIABLES fdt,    \* fd_table: descriptor -> wrapper or Null
          heap,   \* wrapper -> [live, hnd, ref, pos]
          hopen,  \* handler handles opened and not yet closed
          pc,     \* thread -> its position in the call it is making
          loc     \* thread -> its locals [w, fd, old, op, cont]

vars == <<fdt, heap, hopen, pc, loc>>

Fds == 0..(NFd - 1)
Ops == {"readdir", "rewinddir", "fstat", "io"}
Dead == [live |-> FALSE, hnd |-> RootH, ref |-> 0, pos |-> 0]
Idle == [w |-> Null, fd |-> 0, old |-> 0, op |-> "io", cont |-> "idle"]
Least(S) == CHOOSE x \in S : \A y \in S : x <= y

Init == /\ fdt = [f \in Fds |-> Null]
        /\ heap = [w \in Wrappers |-> Dead]
        /\ hopen = {}
        /\ pc = [t \in Threads |-> "idle"]
        /\ loc = [t \in Threads |-> Idle]

Live(w) == w # Null /\ heap[w].live
Goto(t, p, l) == pc' = [pc EXCEPT ![t] = p] /\ loc' = [loc EXCEPT ![t] = l]
Done(t) == Goto(t, "idle", Idle)

\* A step that dereferences a wrapper already freed: the thread is lost
\* in undefined behaviour.
Fault(t) == pc' = [pc EXCEPT ![t] = "uaf"] /\ UNCHANGED <<fdt, heap, hopen, loc>>

\* A failed assert() stops the kernel.
Abort(t) == pc' = [pc EXCEPT ![t] = "abort"] /\ UNCHANGED <<fdt, heap, hopen, loc>>

\* fs_hnd_ref.
Ref(w) == [heap EXCEPT ![w].ref = @ + 1]

\* fs_hnd_unref on st = [heap, hopen]: at refcnt 0 the handler's close is
\* called (the root handle has none) and the wrapper is freed.
DropRef(st, w) ==
    IF st.heap[w].ref = 1
    THEN [heap |-> [st.heap EXCEPT ![w] = Dead], hopen |-> st.hopen \ {st.heap[w].hnd}]
    ELSE [st EXCEPT !.heap[w].ref = @ - 1]

Mem == [heap |-> heap, hopen |-> hopen]
Unrefd(w) == heap' = DropRef(Mem, w).heap /\ hopen' = DropRef(Mem, w).hopen

-----------------------------------------------------------------------------
(* fs_open: fs_hnd_open resolves the path, calls the handler's open and  *)
(* wraps what it returns in a new fs_hnd_t (the root "/" opened with     *)
(* O_DIR gets a wrapper with no handler); fs_hnd_assign then takes the   *)
(* first reference before it looks for a descriptor.  A handler that     *)
(* returns NULL, or a malloc that fails (the handler handle is closed    *)
(* again), leaves nothing behind.                                         *)
Wrap(t, h) ==
    \E w \in Wrappers :
        /\ ~heap[w].live
        /\ heap' = [heap EXCEPT ![w] = [live |-> TRUE, hnd |-> h, ref |-> 1, pos |-> 0]]
        /\ Goto(t, "scan", [Idle EXCEPT !.w = w])
        /\ UNCHANGED fdt

OpenFile(t) == \E h \in Hnds \ hopen : Wrap(t, h) /\ hopen' = hopen \cup {h}

OpenRoot(t) == Wrap(t, RootH) /\ UNCHANGED hopen

(* fs_hnd_assign's scan for the first free descriptor.  With none free   *)
(* it drops the reference it took (EMFILE).                                *)
ScanNoUnref(t) ==
    IF \E f \in Fds : fdt[f] = Null
    THEN /\ Goto(t, "store", [loc[t] EXCEPT !.fd = Least({f \in Fds : fdt[f] = Null})])
         /\ UNCHANGED <<fdt, heap, hopen>>
    ELSE Done(t) /\ UNCHANGED <<fdt, heap, hopen>>

Scan(t) ==
    IF \E f \in Fds : fdt[f] = Null
    THEN /\ Goto(t, "store", [loc[t] EXCEPT !.fd = Least({f \in Fds : fdt[f] = Null})])
         /\ UNCHANGED <<fdt, heap, hopen>>
    ELSE IF ~Live(loc[t].w) THEN Fault(t)
    ELSE /\ Unrefd(loc[t].w)
         /\ Done(t)
         /\ UNCHANGED fdt

\* fs_hnd_assign's store into the descriptor the scan found.
Store(t) == /\ fdt' = [fdt EXCEPT ![loc[t].fd] = loc[t].w]
            /\ Done(t)
            /\ UNCHANGED <<heap, hopen>>

(* fs_dup: the descriptor is checked, then fd_table[oldfd] is read again *)
(* and handed to fs_hnd_assign, which references it.                      *)
Dup(t, f) == /\ fdt[f] # Null
             /\ Goto(t, "dupref", [Idle EXCEPT !.fd = f])
             /\ UNCHANGED <<fdt, heap, hopen>>

DupRef(t) ==
    LET w == fdt[loc[t].fd] IN
    IF w = Null THEN Abort(t)
    ELSE IF ~Live(w) THEN Fault(t)
    ELSE /\ heap' = Ref(w)
         /\ Goto(t, "scan", [Idle EXCEPT !.w = w])
         /\ UNCHANGED <<fdt, hopen>>

(* fs_close: fs_map_hnd reads the wrapper, fs_hnd_unref drops it, and    *)
(* only then is the descriptor cleared.  cont is where the thread goes   *)
(* on: back to the caller, or on with fs_dup2.                            *)
Close(t, f) == /\ fdt[f] # Null
               /\ Goto(t, "unref", [Idle EXCEPT !.w = fdt[f], !.fd = f])
               /\ UNCHANGED <<fdt, heap, hopen>>

Unref(t) == IF ~Live(loc[t].w) THEN Fault(t)
            ELSE /\ Unrefd(loc[t].w)
                 /\ Goto(t, "clear", loc[t])
                 /\ UNCHANGED fdt

Clear(t) == /\ fdt' = [fdt EXCEPT ![loc[t].fd] = Null]
            /\ IF loc[t].cont = "dup2set"
               THEN Goto(t, "dup2set", [loc[t] EXCEPT !.cont = "idle"])
               ELSE Done(t)
            /\ UNCHANGED <<heap, hopen>>

(* fs_dup2: both descriptors are checked, an open newfd is closed (the    *)
(* steps of fs_close), fd_table[oldfd] is copied into it, and then        *)
(* fd_table[newfd] is read again and referenced.  Nothing compares oldfd *)
(* with newfd.                                                             *)
Dup2(t, o, n) ==
    /\ fdt[o] # Null
    /\ IF fdt[n] # Null
       THEN Goto(t, "unref", [Idle EXCEPT !.w = fdt[n], !.fd = n, !.old = o,
                                          !.cont = "dup2set"])
       ELSE Goto(t, "dup2set", [Idle EXCEPT !.fd = n, !.old = o])
    /\ UNCHANGED <<fdt, heap, hopen>>

Dup2Set(t) == /\ fdt' = [fdt EXCEPT ![loc[t].fd] = fdt[loc[t].old]]
              /\ Goto(t, "dup2ref", loc[t])
              /\ UNCHANGED <<heap, hopen>>

Dup2Ref(t) ==
    LET w == fdt[loc[t].fd] IN
    IF w = Null THEN Abort(t)
    ELSE IF ~Live(w) THEN Fault(t)
    ELSE heap' = Ref(w) /\ Done(t) /\ UNCHANGED <<fdt, hopen>>

(* The calls through a descriptor (fs_read, fs_write, fs_seek, fs_tell,  *)
(* fs_total, fs_readdir, fs_rewinddir, fs_fstat, fs_ioctl, fs_fcntl,     *)
(* fs_mmap, fs_complete): fs_map_hnd reads the wrapper, then the call    *)
(* goes through h->handler with h->hnd.  A file handler's calls change  *)
(* nothing of fs.c.                                                       *)
Use(t, f, op) == /\ fdt[f] # Null
                 /\ Goto(t, "call", [Idle EXCEPT !.w = fdt[f], !.op = op])
                 /\ UNCHANGED <<fdt, heap, hopen>>

\* fs_root_readdir without its stop at the end of the handler list.
RootReaddirNoEnd(p) == p + 1

\* fs_root_readdir: the position counts the handlers already listed and
\* moves on while one remains.
RootReaddir(p) == IF p < NMounts THEN p + 1 ELSE p

\* The root handle's position after fs_readdir, fs_rewinddir or fs_fstat
\* (both of which reset it); every other call on it is EINVAL.
RootPos(p, op) == CASE op = "readdir" -> RootReaddir(p)
                    [] op \in {"rewinddir", "fstat"} -> 0
                    [] OTHER -> p

Call(t) ==
    LET w == loc[t].w IN
    IF ~Live(w) THEN Fault(t)
    ELSE /\ heap' = IF heap[w].hnd = RootH
                    THEN [heap EXCEPT ![w].pos = RootPos(@, loc[t].op)] ELSE heap
         /\ Done(t)
         /\ UNCHANGED <<fdt, hopen>>

(* fs_fdtbl_destroy: every descriptor in turn is unreferenced and        *)
(* cleared.                                                                *)
RECURSIVE DropAll(_, _)
DropAll(F, st) ==
    IF F = {} THEN st
    ELSE LET f == Least(F)
         IN DropAll(F \ {f}, IF fdt[f] = Null THEN st ELSE DropRef(st, fdt[f]))

Destroy(t) ==
    /\ \E f \in Fds : fdt[f] # Null
    /\ heap' = DropAll(Fds, Mem).heap
    /\ hopen' = DropAll(Fds, Mem).hopen
    /\ fdt' = [f \in Fds |-> Null]
    /\ UNCHANGED <<pc, loc>>

-----------------------------------------------------------------------------
Call0(t) ==
    \/ OpenFile(t) \/ OpenRoot(t) \/ Destroy(t)
    \/ \E f \in Fds : \/ Dup(t, f) \/ Close(t, f)
                     \/ \E op \in Ops : Use(t, f, op)
                     \/ \E n \in Fds : Dup2(t, f, n)

Step(t) ==
    CASE pc[t] = "idle"    -> Call0(t)
      [] pc[t] = "scan"    -> Scan(t)
      [] pc[t] = "store"   -> Store(t)
      [] pc[t] = "dupref"  -> DupRef(t)
      [] pc[t] = "unref"   -> Unref(t)
      [] pc[t] = "clear"   -> Clear(t)
      [] pc[t] = "dup2set" -> Dup2Set(t)
      [] pc[t] = "dup2ref" -> Dup2Ref(t)
      [] pc[t] = "call"    -> Call(t)
      [] OTHER             -> FALSE

\* A failed assertion stops every thread.
Next == /\ \A t \in Threads : pc[t] # "abort"
        /\ \E t \in Threads : Step(t)

Spec == Init /\ [][Next]_vars

-----------------------------------------------------------------------------
PCs == {"idle", "scan", "store", "dupref", "unref", "clear", "dup2set", "dup2ref",
        "call", "uaf", "abort"}

TypeOK ==
    /\ fdt \in [Fds -> Wrappers \cup {Null}]
    /\ heap \in [Wrappers -> [live : BOOLEAN, hnd : Hnds \cup {RootH},
                              ref : 0..(NFd + Cardinality(Threads)), pos : 0..NMounts]]
    /\ hopen \subseteq Hnds
    /\ pc \in [Threads -> PCs]
    /\ loc \in [Threads -> [w : Wrappers \cup {Null}, fd : Fds, old : Fds, op : Ops,
                            cont : {"idle", "dup2set"}]]

\* A descriptor some thread has just unreferenced or just written, whose
\* count does not yet match fd_table.
Pending(f) == \E t \in Threads : pc[t] \in {"clear", "dup2ref"} /\ loc[t].fd = f
Named(w) == {f \in Fds : fdt[f] = w /\ ~Pending(f)}
Held(w) == {t \in Threads : pc[t] \in {"scan", "store"} /\ loc[t].w = w}

(* fs_hnd_ref/fs_hnd_unref keep each wrapper's refcnt equal to the       *)
(* descriptors that name it plus the references fs_hnd_assign has taken  *)
(* and not yet stored, and at least 1 while the wrapper is allocated; no *)
(* descriptor names a freed wrapper and no call touches one.  Open, dup, *)
(* dup2 onto a descriptor of the same file, EMFILE and close all keep    *)
(* the count.                                                             *)
RefsCounted ==
    /\ \A t \in Threads : pc[t] # "uaf"
    /\ \A f \in Fds : fdt[f] # Null /\ ~Pending(f) => Live(fdt[f])
    /\ \A w \in Wrappers :
         heap[w].live => /\ heap[w].ref >= 1
                         /\ heap[w].ref = Cardinality(Named(w)) + Cardinality(Held(w))

(* fs_hnd_ref's assert(ref) never fails: dup2 never references an empty  *)
(* descriptor.                                                             *)
NoAbort == \A t \in Threads : pc[t] # "abort"
====
