------------------------------ MODULE HashMap ------------------------------
(***************************************************************************)
(* The hash map behind entries_vdir (hashmap.c): an array of chains, the   *)
(* number n_buckets that decides when the array doubles and for how many   *)
(* keys hashmap_get_keys has room, and the operations the store uses.      *)
(*                                                                         *)
(* Who calls holds entries_lock, so that an operation is one step.  A      *)
(* chain is the sequence of its entries.  The hash kept in an entry is the *)
(* hash of its key.  Failures of malloc end the process                    *)
(* (HM_EXIT_ON_ALLOC_FAIL) and are left out, and so is the walk through    *)
(* all chains that HM_DONTTRUSTHASH would add.                             *)
(***************************************************************************)
EXTENDS Integers, SequencesExt

CONSTANTS
  Keys, Vals, NULL,
  Hash,          \* fnv1a_hash of each key
  InitCapacity,  \* HM_DEFAULT_HASHMAP_SIZE
  MaxCount       \* where an instance stops inserting

ASSUME HashMapAssumption ==
  /\ Hash \in [Keys -> Nat]
  /\ InitCapacity \in Nat \ {0}
  /\ MaxCount \in Nat
  /\ NULL \notin Vals

VARIABLES
  capacity,  \* hm->capacity
  buckets,   \* hm->buckets
  n_buckets  \* hm->n_buckets

vars == <<capacity, buckets, n_buckets>>

Bucket == [key : Keys, val : Vals]

index(k, cap) == Hash[k] % cap

\* Where in a chain the key is, 0 when it is not there.
position(chain, k) ==
  IF \E i \in 1 .. Len(chain) : chain[i].key = k
    THEN CHOOSE i \in 1 .. Len(chain) :
           chain[i].key = k /\ \A j \in 1 .. i - 1 : chain[j].key # k
    ELSE 0

hashmap_get(k) ==
  LET chain == buckets[index(k, capacity)]
      i     == position(chain, k)
  IN  IF i = 0 THEN NULL ELSE chain[i].val

\* What a walk through all chains meets, one chain after the other.
entries(bs, cap) ==
  LET upto[i \in 0 .. cap] ==
        IF i = 0 THEN <<>> ELSE upto[i - 1] \o bs[i - 1]
  IN  upto[cap]

hashmap_get_keys ==
  LET es == entries(buckets, capacity)
  IN  [i \in 1 .. Len(es) |-> es[i].key]

-----------------------------------------------------------------------------

\* One more than now would be above HM_HASHMAP_MAX_LOAD, 0.70.
overloaded == 10 * (n_buckets + 1) > 7 * capacity

\* What calloc gives.
no_chains(cap) == [i \in 0 .. cap - 1 |-> <<>>]

\* An entry goes to the end of the chain that its hash names.
linked(bs, e, cap) == [bs EXCEPT ![index(e.key, cap)] = Append(@, e)]

\* The head of each chain is moved and what hangs on it is not.
rehashed_heads(bs, old, new) ==
  LET heads == [i \in 0 .. old - 1 |->
                  IF bs[i] = <<>> THEN <<>> ELSE <<Head(bs[i])>>]
      es    == entries(heads, old)
      upto[j \in 0 .. Len(es)] ==
        IF j = 0 THEN no_chains(new) ELSE linked(upto[j - 1], es[j], new)
  IN  upto[Len(es)]

\* Every entry is moved, in the order of the walk.
rehashed(bs, old, new) ==
  LET es == entries(bs, old)
      upto[j \in 0 .. Len(es)] ==
        IF j = 0 THEN no_chains(new) ELSE linked(upto[j - 1], es[j], new)
  IN  upto[Len(es)]

\* Only the first entry of the chain is compared with the key.
chained_blindly(chain, k, v) ==
  IF chain # <<>> /\ chain[1].key = k
    THEN [chain EXCEPT ![1].val = v]
    ELSE Append(chain, [key |-> k, val |-> v])

\* A key that is there gets another value; a new one goes to the end.
chained(chain, k, v) ==
  LET i == position(chain, k)
  IN  IF i # 0 THEN [chain EXCEPT ![i].val = v]
               ELSE Append(chain, [key |-> k, val |-> v])

\* The count goes up before the key is looked for.
hashmap_insert(k, v) ==
  LET cap == IF overloaded THEN 2 * capacity ELSE capacity
      bs  == IF overloaded THEN rehashed(buckets, capacity, cap) ELSE buckets
  IN  /\ n_buckets < MaxCount
      /\ capacity' = cap
      /\ n_buckets' = n_buckets + 1
      /\ buckets' = [bs EXCEPT ![index(k, cap)] = chained(@, k, v)]

\* The count goes down whether or not the key was there.
hashmap_remove_counting(k) ==
  /\ buckets' = [buckets EXCEPT ![index(k, capacity)] =
                   IF position(@, k) = 0 THEN @ ELSE RemoveAt(@, position(@, k))]
  /\ n_buckets' = n_buckets - 1
  /\ UNCHANGED capacity

\* Unlinks the first entry with that key; without one nothing happens.
hashmap_remove(k) ==
  LET i     == index(k, capacity)
      found == position(buckets[i], k)
  IN  /\ found # 0
      /\ buckets' = [buckets EXCEPT ![i] = RemoveAt(@, found)]
      /\ n_buckets' = n_buckets - 1
      /\ UNCHANGED capacity

hashmap_new ==
  /\ capacity = InitCapacity
  /\ buckets = no_chains(InitCapacity)
  /\ n_buckets = 0

Next ==
  \E k \in Keys : hashmap_remove(k) \/ \E v \in Vals : hashmap_insert(k, v)

Spec == hashmap_new /\ [][Next]_vars

-----------------------------------------------------------------------------
(* What the store relies on *)

\* Every variable has its type: the count, a size_t, never passes below zero.
TypeOK ==
  /\ capacity \in Nat \ {0}
  /\ buckets \in [0 .. capacity - 1 -> Seq(Bucket)]
  /\ n_buckets \in Nat

\* hashmap_get_keys allocates n_buckets places and then writes one for every
\* entry it meets: there are never more of these, although the count and the
\* chains are kept by different code.
KeysFit == Len(hashmap_get_keys) <= n_buckets

\* The walk over all chains, by which load_root_node_tree attaches the nodes,
\* meets each key that hashmap_get finds, and meets it once: no note is left
\* out and none is attached twice.
KeysOnce ==
  /\ ToSet(hashmap_get_keys) = {k \in Keys : hashmap_get(k) # NULL}
  /\ IsInjective(hashmap_get_keys)

Map == INSTANCE KeyedStore WITH store <- [k \in Keys |-> hashmap_get(k)]

\* However keys collide and whenever the array grows, lookups are those of a
\* plain map (entries_vdir as NodeTree has it).
IsAMap == Map!Spec

=============================================================================
