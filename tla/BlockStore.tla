------------------------------ MODULE BlockStore ------------------------------
(***************************************************************************)
(* What a write-back record cache of the FAT engine promises its callers  *)
(* (spec.md 4.2): the cache is invisible.  The store is the contents the  *)
(* callers see; req is the last request a caller made and its outcome.   *)
(*                                                                         *)
(*   - a read that succeeds returns the record's current contents;        *)
(*   - a write (or clear) that succeeds sets exactly the records it names; *)
(*   - a request that fails changes nothing;                              *)
(*   - no other step (eviction, write-back, device faults) changes the    *)
(*     contents.                                                           *)
(***************************************************************************)
CONSTANTS Blocks,   \* record numbers (FAT sectors or clusters)
          Vals,     \* abstract record contents
          Zero      \* the contents of a record after memset(0)

VARIABLES store, req

Ops == {"none", "read", "write", "clear"}

Requests == [op : Ops, blks : SUBSET Blocks, val : Vals, ok : BOOLEAN]

NoReq == [op |-> "none", blks |-> {}, val |-> Zero, ok |-> FALSE]

\* The contents after request r: a successful write or clear sets the
\* records it names to its value, anything else leaves the store alone.
Apply(s, r) ==
    [b \in Blocks |-> IF r.ok /\ r.op \in {"write", "clear"} /\ b \in r.blks
                        THEN r.val ELSE s[b]]

Init == /\ store \in [Blocks -> Vals]
        /\ req = NoReq

Serve(r) == /\ r.op # "none"
            /\ r.op = "clear" => r.val = Zero
            /\ (r.op = "read" /\ r.ok) => \A b \in r.blks : store[b] = r.val
            /\ req' = r
            /\ store' = Apply(store, r)

Next == \E r \in Requests : Serve(r)

Spec == Init /\ [][Next]_<<store, req>>
================================================================================
