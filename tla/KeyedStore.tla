----------------------------- MODULE KeyedStore -----------------------------
(***************************************************************************)
(* What fuse_node_store.c expects of entries_vdir: a key has the value it  *)
(* was last given, until it is removed.                                    *)
(***************************************************************************)
CONSTANTS
  Keys,  \* file names in the vdir
  Vals,  \* tree nodes
  NULL   \* no tree node

VARIABLE store

Init == store = [k \in Keys |-> NULL]

Insert(k, v) == store' = [store EXCEPT ![k] = v]

Remove(k) == store' = [store EXCEPT ![k] = NULL]

Next == \E k \in Keys : Remove(k) \/ \E v \in Vals : Insert(k, v)

Spec == Init /\ [][Next]_store

=============================================================================
