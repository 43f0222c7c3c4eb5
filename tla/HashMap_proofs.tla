--------------------------- MODULE HashMap_proofs ---------------------------
(***************************************************************************)
(* The hash map is a map, its keys are met once each, and there is room    *)
(* for them, for any keys, values and hashes.                              *)
(*                                                                         *)
(* An array is proper when every entry is in the chain its hash names and  *)
(* no chain has a key twice.  What matters of a proper array is the set of *)
(* its entries: the operations are first described on chains, then on this *)
(* set.  The walk through all chains and the growing of the array are      *)
(* functions on intervals of numbers; a number for which they went wrong   *)
(* would have a least one below which they do not.                         *)
(***************************************************************************)
EXTENDS HashMap, SequenceTheorems, FiniteSetTheorems, NaturalsInduction,
        WellFoundedInduction, TLAPS

\* A set of numbers that is not empty has a least element.
LEMMA LeastNumber ==
  ASSUME NEW S \in SUBSET Nat, S # {}
  PROVE  \E m \in S : \A n \in S : m <= n
  <1> DEFINE R == OpToRel(<, Nat)
  <1>1. IsWellFoundedOn(R, Nat)
    BY NatLessThanWellFounded
  <1>2. \A x, y \in Nat : <<y, x>> \notin R => x <= y
    BY Zenon, SMT DEF OpToRel
  <1> HIDE DEF R
  <1>3. PICK x \in S : \A y \in S : <<y, x>> \notin R
    BY <1>1, WFMin
  <1> QED
    BY <1>2, <1>3

\* What holds of 0, and of a number if it holds of the one before, holds of all
\* numbers up to n.
LEMMA UpTo ==
  ASSUME NEW n \in Nat, NEW S, 0 \in S, \A i \in 1 .. n : i - 1 \in S => i \in S
  PROVE  \A i \in 0 .. n : i \in S
  <1> DEFINE Bad == {i \in 0 .. n : i \notin S}
  <1>1. SUFFICES ASSUME Bad # {} PROVE FALSE
    OBVIOUS
  <1>2. PICK m \in Bad : \A i \in Bad : m <= i
    <2>1. Bad \in SUBSET Nat
      OBVIOUS
    <2> HIDE DEF Bad
    <2> QED
      BY <1>1, <2>1, LeastNumber
  <1>3. m \in 1 .. n /\ m \notin S
    BY <1>2
  <1>4. m - 1 \in 0 .. n /\ ~(m <= m - 1)
    BY <1>3
  <1>5. m - 1 \in S
    BY <1>2, <1>4
  <1> QED
    BY <1>3, <1>5

\* Each key has a place in each array.
LEMMA IndexIn ==
  ASSUME NEW cap \in Nat \ {0}, NEW k \in Keys
  PROVE  index(k, cap) \in 0 .. cap - 1
  <1>1. Hash[k] \in Nat
    BY HashMapAssumption
  <1> QED
    BY <1>1 DEF index

-----------------------------------------------------------------------------
(* Chains *)

\* b is in the chain.
Has(chain, b) == \E j \in 1 .. Len(chain) : chain[j] = b

\* No key is there twice.
Once(chain) ==
  \A i, j \in 1 .. Len(chain) : chain[i].key = chain[j].key => i = j

\* The search finds the key, if it is there.
LEMMA PositionFinds ==
  ASSUME NEW chain \in Seq(Bucket), NEW k
  PROVE  /\ position(chain, k) \in 0 .. Len(chain)
         /\ position(chain, k) # 0 =>
              /\ position(chain, k) \in 1 .. Len(chain)
              /\ chain[position(chain, k)].key = k
         /\ position(chain, k) = 0 =>
              \A i \in 1 .. Len(chain) : chain[i].key # k
  <1> DEFINE S == {i \in 1 .. Len(chain) : chain[i].key = k}
  <1>0. Len(chain) \in Nat
    OBVIOUS
  <1>1. CASE S = {}
    BY <1>0, <1>1 DEF position
  <1>2. CASE S # {}
    <2>1. PICK m \in S : \A n \in S : m <= n
      <3>1. S \in SUBSET Nat
        BY <1>0
      <3> HIDE DEF S
      <3> QED
        BY <1>2, <3>1, LeastNumber
    <2>2. /\ m \in 1 .. Len(chain) /\ chain[m].key = k
          /\ \A j \in 1 .. m - 1 : chain[j].key # k
      BY <1>0, <2>1
    <2>3. /\ position(chain, k) \in 1 .. Len(chain)
          /\ chain[position(chain, k)].key = k
      BY <2>2 DEF position
    <2> QED
      BY <1>0, <2>3
  <1> QED
    BY <1>1, <1>2

\* An entry with a new key at the end of a chain.
LEMMA AppendedChain ==
  ASSUME NEW chain \in Seq(Bucket), Once(chain), NEW e \in Bucket,
         \A j \in 1 .. Len(chain) : chain[j].key # e.key
  PROVE  /\ Append(chain, e) \in Seq(Bucket)
         /\ Once(Append(chain, e))
         /\ \A b : Has(Append(chain, e), b) <=> b = e \/ Has(chain, b)
  <1> DEFINE new == Append(chain, e)
  <1>1. /\ new \in Seq(Bucket) /\ Len(new) = Len(chain) + 1 /\ Len(chain) \in Nat
        /\ new[Len(chain) + 1] = e
        /\ \A j \in 1 .. Len(chain) : new[j] = chain[j]
    BY AppendProperties
  <1> HIDE DEF new
  <1>2. \A j \in 1 .. Len(new) :
          j \in 1 .. Len(chain) \/ j = Len(chain) + 1
    BY <1>1
  <1>3. Once(new)
    BY <1>1, <1>2 DEF Once
  <1>4. ASSUME NEW b PROVE Has(new, b) <=> b = e \/ Has(chain, b)
    <2>1. ASSUME Has(chain, b) PROVE Has(new, b)
      BY <1>1, <2>1 DEF Has
    <2>2. Has(new, e)
      BY <1>1 DEF Has
    <2>3. ASSUME Has(new, b) PROVE b = e \/ Has(chain, b)
      BY <1>1, <1>2, <2>3 DEF Has
    <2> QED
      BY <2>1, <2>2, <2>3
  <1> QED
    BY <1>1, <1>3, <1>4 DEF new

\* A key gets a value.
LEMMA ChainedChain ==
  ASSUME NEW chain \in Seq(Bucket), Once(chain), NEW k \in Keys, NEW v \in Vals
  PROVE  /\ chained(chain, k, v) \in Seq(Bucket)
         /\ Once(chained(chain, k, v))
         /\ \A b : Has(chained(chain, k, v), b) <=>
                     \/ b = [key |-> k, val |-> v]
                     \/ (Has(chain, b) /\ b.key # k)
  <1> DEFINE e == [key |-> k, val |-> v]
             i == position(chain, k)
  <1>0. e \in Bucket /\ e.key = k /\ Len(chain) \in Nat
    BY DEF Bucket
  <1>1. CASE i = 0
    <2>1. \A j \in 1 .. Len(chain) : chain[j].key # k
      BY <1>1, PositionFinds
    <2>2. chained(chain, k, v) = Append(chain, e)
      BY <1>1 DEF chained
    <2>3. \A b : Has(chain, b) => b.key # k
      BY <2>1 DEF Has
    <2> HIDE DEF e
    <2>4. /\ Append(chain, e) \in Seq(Bucket)
          /\ Once(Append(chain, e))
          /\ \A b : Has(Append(chain, e), b) <=> b = e \/ Has(chain, b)
      BY <1>0, <2>1, AppendedChain
    <2> QED
      BY <2>2, <2>3, <2>4 DEF e
  <1>2. CASE i # 0
    <2> DEFINE new == [chain EXCEPT ![i].val = v]
    <2>1. i \in 1 .. Len(chain) /\ chain[i].key = k
      BY <1>2, PositionFinds
    <2>2. chained(chain, k, v) = new
      BY <1>2 DEF chained
    <2> HIDE DEF i
    <2>3. chain[i] \in Bucket
      BY <2>1
    <2>4. [chain[i] EXCEPT !.val = v] = e
      BY <2>1, <2>3 DEF Bucket
    <2>5. new = [chain EXCEPT ![i] = e]
      BY <2>4
    <2> HIDE DEF new, e
    <2>6. /\ new \in Seq(Bucket) /\ Len(new) = Len(chain)
          /\ \A j \in 1 .. Len(chain) : new[j] = IF j = i THEN e ELSE chain[j]
      BY <1>0, <2>1, <2>5, ExceptSeq
    <2>7. \A j \in 1 .. Len(chain) : new[j].key = chain[j].key
      BY <1>0, <2>1, <2>6
    <2>8. Once(new)
      BY <2>6, <2>7 DEF Once
    <2>9. ASSUME NEW b PROVE Has(new, b) <=> (b = e \/ (Has(chain, b) /\ b.key # k))
      <3>1. Has(new, e)
        BY <2>1, <2>6 DEF Has
      <3>2. ASSUME Has(new, b), b # e PROVE Has(chain, b) /\ b.key # k
        <4>1. PICK j \in 1 .. Len(chain) : new[j] = b
          BY <2>6, <3>2 DEF Has
        <4>2. j # i /\ chain[j] = b
          BY <2>6, <3>2, <4>1
        <4> QED
          BY <2>1, <4>2 DEF Has, Once
      <3>3. ASSUME Has(chain, b), b.key # k PROVE Has(new, b)
        <4>1. PICK j \in 1 .. Len(chain) : chain[j] = b
          BY <3>3 DEF Has
        <4>2. j # i
          BY <2>1, <3>3, <4>1
        <4> QED
          BY <2>6, <4>1, <4>2 DEF Has
      <3> QED
        BY <3>1, <3>2, <3>3
    <2> QED
      BY <2>2, <2>6, <2>8, <2>9 DEF e
  <1> QED
    BY <1>1, <1>2

\* A key goes.
LEMMA ShortenedChain ==
  ASSUME NEW chain \in Seq(Bucket), Once(chain), NEW i \in 1 .. Len(chain)
  PROVE  /\ RemoveAt(chain, i) \in Seq(Bucket)
         /\ Once(RemoveAt(chain, i))
         /\ \A b : Has(RemoveAt(chain, i), b) <=>
                     Has(chain, b) /\ b.key # chain[i].key
  <1> DEFINE n == Len(chain)
             new == RemoveAt(chain, i)
             s == SubSeq(chain, 1, i - 1)
             t == SubSeq(chain, i + 1, n)
  <1>0. n \in Nat /\ i \in Nat /\ i >= 1 /\ i <= n
    OBVIOUS
  <1>1. /\ s \in Seq(Bucket) /\ Len(s) = i - 1
        /\ \A j \in 1 .. i - 1 : s[j] = chain[j]
    <2>1. \A j \in 1 .. i - 1 : chain[j] \in Bucket
      BY <1>0, ElementOfSeq
    <2>2. 1 \in Int /\ i - 1 \in Int
      BY <1>0
    <2>3. /\ s \in Seq(Bucket)
          /\ Len(s) = IF 1 <= i - 1 THEN (i - 1) - 1 + 1 ELSE 0
          /\ \A j \in 1 .. (i - 1) - 1 + 1 : s[j] = chain[1 + j - 1]
      BY <2>1, <2>2, SubSeqProperties
    <2> HIDE DEF s
    <2> QED
      BY <1>0, <2>3
  <1>2. /\ t \in Seq(Bucket) /\ Len(t) = n - i
        /\ \A j \in 1 .. n - i : t[j] = chain[i + j]
    <2>1. \A j \in i + 1 .. n : chain[j] \in Bucket
      BY <1>0, ElementOfSeq
    <2>2. i + 1 \in Int /\ n \in Int
      BY <1>0
    <2> HIDE DEF n
    <2>3. /\ t \in Seq(Bucket)
          /\ Len(t) = IF i + 1 <= n THEN n - (i + 1) + 1 ELSE 0
          /\ \A j \in 1 .. n - (i + 1) + 1 : t[j] = chain[(i + 1) + j - 1]
      BY <2>1, <2>2, SubSeqProperties
    <2> HIDE DEF t
    <2> QED
      BY <1>0, <2>3
  <1>3. /\ new \in Seq(Bucket) /\ Len(new) = n - 1
        /\ \A j \in 1 .. n - 1 :
             new[j] = IF j < i THEN chain[j] ELSE chain[j + 1]
    <2>1. new = s \o t
      BY DEF RemoveAt
    <2> HIDE DEF s, t, new, n
    <2>2. /\ s \o t \in Seq(Bucket) /\ Len(s \o t) = Len(s) + Len(t)
          /\ \A j \in 1 .. Len(s) + Len(t) :
               (s \o t)[j] = IF j <= Len(s) THEN s[j] ELSE t[j - Len(s)]
      BY <1>1, <1>2, ConcatProperties
    <2>3. Len(s) + Len(t) = n - 1
      BY <1>0, <1>1, <1>2
    <2>4. ASSUME NEW j \in 1 .. n - 1
          PROVE  new[j] = IF j < i THEN chain[j] ELSE chain[j + 1]
      <3>1. CASE j < i
        BY <1>0, <1>1, <2>1, <2>2, <2>3, <3>1
      <3>2. CASE ~(j < i)
        <4>1. j - (i - 1) \in 1 .. n - i /\ i + (j - (i - 1)) = j + 1
          BY <1>0, <3>2
        <4> QED
          BY <1>0, <1>1, <1>2, <2>1, <2>2, <2>3, <3>2, <4>1
      <3> QED
        BY <3>1, <3>2
    <2> QED
      BY <2>1, <2>2, <2>3, <2>4
  <1> HIDE DEF new, s, t, n
  <1> DEFINE old(j) == IF j < i THEN j ELSE j + 1
  <1>4. \A j \in 1 .. n - 1 :
          /\ old(j) \in 1 .. n /\ old(j) # i /\ new[j] = chain[old(j)]
          /\ \A m \in 1 .. n - 1 : old(j) = old(m) => j = m
    BY <1>0, <1>3
  <1>5. \A j \in 1 .. n : j # i => \E m \in 1 .. n - 1 : old(m) = j
    <2> TAKE j \in 1 .. n
    <2>1. CASE j < i
      BY <1>0, <2>1
    <2>2. CASE j > i
      <3>1. j - 1 \in 1 .. n - 1 /\ old(j - 1) = j
        BY <1>0, <2>2
      <3> QED
        BY <3>1
    <2> QED
      BY <1>0, <2>1, <2>2
  <1> HIDE DEF old
  <1>6. Once(new)
    BY <1>3, <1>4 DEF Once, n
  <1>7. ASSUME NEW b
        PROVE  Has(new, b) <=> Has(chain, b) /\ b.key # chain[i].key
    <2>1. ASSUME Has(new, b) PROVE Has(chain, b) /\ b.key # chain[i].key
      <3>1. PICK j \in 1 .. n - 1 : new[j] = b
        BY <1>3, <2>1 DEF Has
      <3>2. chain[old(j)] = b /\ old(j) \in 1 .. n /\ old(j) # i
        BY <1>4, <3>1
      <3> QED
        BY <3>2 DEF Has, Once, n
    <2>2. ASSUME Has(chain, b), b.key # chain[i].key PROVE Has(new, b)
      <3>1. PICK j \in 1 .. n : chain[j] = b
        BY <2>2 DEF Has, n
      <3>2. j # i
        BY <2>2, <3>1
      <3>3. PICK m \in 1 .. n - 1 : old(m) = j
        BY <1>5, <3>2
      <3> QED
        BY <1>3, <1>4, <3>1, <3>3 DEF Has
    <2> QED
      BY <2>1, <2>2
  <1> QED
    BY <1>3, <1>6, <1>7 DEF new

-----------------------------------------------------------------------------
(* Arrays of chains *)

\* b is in one of the chains.
In(bs, cap, b) == \E i \in 0 .. cap - 1 : Has(bs[i], b)

Content(bs, cap) == {b \in Bucket : In(bs, cap, b)}

\* Chains in which every entry is where its hash says, and no key is twice.
Proper(bs, cap) ==
  /\ bs \in [0 .. cap - 1 -> Seq(Bucket)]
  /\ \A i \in 0 .. cap - 1 :
       Once(bs[i]) /\ \A j \in 1 .. Len(bs[i]) : index(bs[i][j].key, cap) = i

\* An entry of a proper array is in the chain of its key.
LEMMA InItsChain ==
  ASSUME NEW cap \in Nat \ {0}, NEW bs, Proper(bs, cap), NEW b, In(bs, cap, b)
  PROVE  /\ b \in Bucket
         /\ index(b.key, cap) \in 0 .. cap - 1
         /\ Has(bs[index(b.key, cap)], b)
  <1>1. PICK i \in 0 .. cap - 1 : Has(bs[i], b)
    BY DEF In
  <1>2. PICK j \in 1 .. Len(bs[i]) : bs[i][j] = b
    BY <1>1 DEF Has
  <1>3. bs[i] \in Seq(Bucket)
    BY DEF Proper
  <1>4. b \in Bucket
    BY <1>2, <1>3, ElementOfSeq
  <1>5. index(b.key, cap) = i
    BY <1>2 DEF Proper
  <1> QED
    BY <1>1, <1>4, <1>5

\* A proper array has no key twice.
LEMMA KeysDiffer ==
  ASSUME NEW cap \in Nat \ {0}, NEW bs, Proper(bs, cap),
         NEW b \in Content(bs, cap), NEW c \in Content(bs, cap), b.key = c.key
  PROVE  b = c
  <1> DEFINE i == index(b.key, cap)
  <1>1. i \in 0 .. cap - 1 /\ Has(bs[i], b) /\ Has(bs[i], c)
    BY InItsChain DEF Content
  <1>2. Once(bs[i])
    BY <1>1 DEF Proper
  <1> HIDE DEF i
  <1> QED
    BY <1>1, <1>2 DEF Has, Once

\* One chain is replaced.
LEMMA ReplacedChain ==
  ASSUME NEW cap \in Nat \ {0}, NEW bs, Proper(bs, cap),
         NEW i \in 0 .. cap - 1, NEW chain \in Seq(Bucket), Once(chain),
         \A b : Has(chain, b) => index(b.key, cap) = i
  PROVE  /\ Proper([bs EXCEPT ![i] = chain], cap)
         /\ \A b : In([bs EXCEPT ![i] = chain], cap, b) <=>
                     \/ Has(chain, b)
                     \/ In(bs, cap, b) /\ index(b.key, cap) # i
  <1> DEFINE cs == [bs EXCEPT ![i] = chain]
  <1>1. bs \in [0 .. cap - 1 -> Seq(Bucket)]
    BY DEF Proper
  <1>2. /\ cs \in [0 .. cap - 1 -> Seq(Bucket)]
        /\ cs[i] = chain
        /\ \A j \in 0 .. cap - 1 : j # i => cs[j] = bs[j]
    BY <1>1
  <1> HIDE DEF cs
  <1>3. \A j \in 1 .. Len(chain) : index(chain[j].key, cap) = i
    BY DEF Has
  <1>4. Proper(cs, cap)
    <2>1. ASSUME NEW j \in 0 .. cap - 1
          PROVE  Once(cs[j]) /\ \A m \in 1 .. Len(cs[j]) :
                                  index(cs[j][m].key, cap) = j
      <3>1. CASE j = i
        BY <3>1, <1>2, <1>3
      <3>2. CASE j # i
        BY <3>2, <1>2 DEF Proper
      <3> QED
        BY <3>1, <3>2
    <2> QED
      BY <1>2, <2>1 DEF Proper
  <1>5. ASSUME NEW b
        PROVE  In(cs, cap, b) <=> \/ Has(chain, b)
                                  \/ In(bs, cap, b) /\ index(b.key, cap) # i
    <2>1. ASSUME Has(chain, b) PROVE In(cs, cap, b)
      BY <1>2, <2>1 DEF In
    <2>2. ASSUME In(bs, cap, b), index(b.key, cap) # i PROVE In(cs, cap, b)
      <3>1. /\ index(b.key, cap) \in 0 .. cap - 1
            /\ Has(bs[index(b.key, cap)], b)
        BY <2>2, InItsChain
      <3> QED
        BY <1>2, <2>2, <3>1 DEF In
    <2>3. ASSUME In(cs, cap, b), ~Has(chain, b)
          PROVE  In(bs, cap, b) /\ index(b.key, cap) # i
      <3>1. /\ index(b.key, cap) \in 0 .. cap - 1
            /\ Has(cs[index(b.key, cap)], b)
        BY <1>4, <2>3, InItsChain
      <3>2. index(b.key, cap) # i
        BY <1>2, <2>3, <3>1
      <3> QED
        BY <1>2, <3>1, <3>2 DEF In
    <2> QED
      BY <2>1, <2>2, <2>3
  <1> QED
    BY <1>4, <1>5 DEF cs

\* A key gets a value in its chain.
Put(bs, cap, k, v) == [bs EXCEPT ![index(k, cap)] = chained(@, k, v)]

LEMMA Inserts ==
  ASSUME NEW cap \in Nat \ {0}, NEW bs, Proper(bs, cap),
         NEW k \in Keys, NEW v \in Vals
  PROVE  /\ Proper(Put(bs, cap, k, v), cap)
         /\ Content(Put(bs, cap, k, v), cap)
              = {b \in Content(bs, cap) : b.key # k}
                  \cup {[key |-> k, val |-> v]}
  <1> DEFINE cs == Put(bs, cap, k, v)
             i == index(k, cap)
             chain == chained(bs[i], k, v)
             e == [key |-> k, val |-> v]
  <1>1. /\ i \in 0 .. cap - 1 /\ bs[i] \in Seq(Bucket) /\ Once(bs[i])
        /\ \A b : Has(bs[i], b) => index(b.key, cap) = i
        /\ bs \in [0 .. cap - 1 -> Seq(Bucket)]
    BY IndexIn DEF Proper, Has
  <1>2. cs = [bs EXCEPT ![i] = chain]
    BY <1>1 DEF Put
  <1> HIDE DEF cs
  <1>3. /\ chain \in Seq(Bucket) /\ Once(chain)
        /\ \A b : Has(chain, b) <=> (b = e \/ (Has(bs[i], b) /\ b.key # k))
    <2> HIDE DEF i
    <2> QED
      BY <1>1, ChainedChain
  <1>4. e \in Bucket /\ e.key = k
    BY DEF Bucket
  <1> HIDE DEF chain, e
  <1>5. \A b : Has(chain, b) => index(b.key, cap) = i
    BY <1>1, <1>3, <1>4
  <1>6. /\ Proper(cs, cap)
        /\ \A b : In(cs, cap, b) <=> \/ Has(chain, b)
                                     \/ In(bs, cap, b) /\ index(b.key, cap) # i
    <2> HIDE DEF i
    <2>1. /\ Proper([bs EXCEPT ![i] = chain], cap)
          /\ \A b : In([bs EXCEPT ![i] = chain], cap, b) <=>
                      \/ Has(chain, b)
                      \/ In(bs, cap, b) /\ index(b.key, cap) # i
      BY <1>1, <1>3, <1>5, ReplacedChain
    <2> QED
      BY <1>2, <2>1
  <1>7. ASSUME NEW b \in Bucket
        PROVE  In(cs, cap, b) <=> (b = e \/ (In(bs, cap, b) /\ b.key # k))
    <2>1. In(bs, cap, b) /\ index(b.key, cap) = i => Has(bs[i], b)
      BY InItsChain
    <2>2. Has(bs[i], b) => In(bs, cap, b)
      BY <1>1 DEF In
    <2> QED
      BY <1>3, <1>4, <1>6, <2>1, <2>2
  <1> QED
    BY <1>4, <1>6, <1>7 DEF Content, e, cs

\* A key is unlinked.
LEMMA Removes ==
  ASSUME NEW cap \in Nat \ {0}, NEW bs, Proper(bs, cap), NEW k \in Keys, NEW cs,
         position(bs[index(k, cap)], k) # 0,
         cs = [bs EXCEPT ![index(k, cap)] =
                 RemoveAt(@, position(bs[index(k, cap)], k))]
  PROVE  /\ Proper(cs, cap)
         /\ Content(cs, cap) = {b \in Content(bs, cap) : b.key # k}
         /\ \E b \in Content(bs, cap) : b.key = k
  <1> DEFINE i == index(k, cap)
             found == position(bs[i], k)
             chain == RemoveAt(bs[i], found)
  <1>1. /\ i \in 0 .. cap - 1 /\ bs[i] \in Seq(Bucket) /\ Once(bs[i])
        /\ \A b : Has(bs[i], b) => index(b.key, cap) = i
        /\ bs \in [0 .. cap - 1 -> Seq(Bucket)]
    BY IndexIn DEF Proper, Has
  <1>2. cs = [bs EXCEPT ![i] = chain] /\ found # 0
    BY <1>1
  <1> HIDE DEF i
  <1>3. found \in 1 .. Len(bs[i]) /\ bs[i][found].key = k
    BY <1>1, <1>2, PositionFinds
  <1> HIDE DEF found
  <1>4. /\ chain \in Seq(Bucket) /\ Once(chain)
        /\ \A b : Has(chain, b) <=> (Has(bs[i], b) /\ b.key # k)
    BY <1>1, <1>3, ShortenedChain
  <1> HIDE DEF chain
  <1>5. \A b : Has(chain, b) => index(b.key, cap) = i
    BY <1>1, <1>4
  <1>6. /\ Proper(cs, cap)
        /\ \A b : In(cs, cap, b) <=> \/ Has(chain, b)
                                     \/ In(bs, cap, b) /\ index(b.key, cap) # i
    <2>1. /\ Proper([bs EXCEPT ![i] = chain], cap)
          /\ \A b : In([bs EXCEPT ![i] = chain], cap, b) <=>
                      \/ Has(chain, b)
                      \/ In(bs, cap, b) /\ index(b.key, cap) # i
      BY <1>1, <1>4, <1>5, ReplacedChain
    <2> QED
      BY <1>2, <2>1
  <1>7. ASSUME NEW b \in Bucket
        PROVE  In(cs, cap, b) <=> In(bs, cap, b) /\ b.key # k
    <2>1. In(bs, cap, b) /\ index(b.key, cap) = i => Has(bs[i], b)
      BY InItsChain
    <2>2. Has(bs[i], b) => In(bs, cap, b)
      BY <1>1 DEF In
    <2>3. b.key = k => index(b.key, cap) = i
      BY DEF i
    <2> QED
      BY <1>4, <1>6, <2>1, <2>2, <2>3
  <1>8. bs[i][found] \in Content(bs, cap)
    <2>1. In(bs, cap, bs[i][found])
      BY <1>1, <1>3 DEF In, Has
    <2> QED
      BY <2>1, InItsChain DEF Content
  <1> QED
    BY <1>3, <1>6, <1>7, <1>8 DEF Content

\* An entry with a new key is moved into a larger array.
LEMMA Links ==
  ASSUME NEW cap \in Nat \ {0}, NEW bs, Proper(bs, cap), NEW e \in Bucket,
         \A b \in Content(bs, cap) : b.key # e.key
  PROVE  /\ Proper(linked(bs, e, cap), cap)
         /\ Content(linked(bs, e, cap), cap) = Content(bs, cap) \cup {e}
  <1> DEFINE i == index(e.key, cap)
             chain == Append(bs[i], e)
             cs == linked(bs, e, cap)
  <1>0. e.key \in Keys
    BY DEF Bucket
  <1>1. /\ i \in 0 .. cap - 1 /\ bs[i] \in Seq(Bucket) /\ Once(bs[i])
        /\ \A b : Has(bs[i], b) => index(b.key, cap) = i
        /\ bs \in [0 .. cap - 1 -> Seq(Bucket)]
    BY <1>0, IndexIn DEF Proper, Has
  <1>2. cs = [bs EXCEPT ![i] = chain]
    BY <1>1 DEF linked
  <1>3. \A b : Has(bs[i], b) => b \in Content(bs, cap)
    BY <1>1, InItsChain DEF In, Content
  <1>4. \A j \in 1 .. Len(bs[i]) : bs[i][j].key # e.key
    BY <1>3 DEF Has
  <1>5. /\ chain \in Seq(Bucket) /\ Once(chain)
        /\ \A b : Has(chain, b) <=> b = e \/ Has(bs[i], b)
    <2> HIDE DEF i
    <2> QED
      BY <1>1, <1>4, AppendedChain
  <1> HIDE DEF chain, cs
  <1>6. \A b : Has(chain, b) => index(b.key, cap) = i
    BY <1>1, <1>5
  <1>7. /\ Proper(cs, cap)
        /\ \A b : In(cs, cap, b) <=> \/ Has(chain, b)
                                     \/ In(bs, cap, b) /\ index(b.key, cap) # i
    <2> HIDE DEF i
    <2> QED
      BY <1>1, <1>2, <1>5, <1>6, ReplacedChain
  <1>8. ASSUME NEW b \in Bucket
        PROVE  In(cs, cap, b) <=> b = e \/ In(bs, cap, b)
    <2>1. In(bs, cap, b) /\ index(b.key, cap) = i => Has(bs[i], b)
      BY InItsChain
    <2>2. Has(bs[i], b) => In(bs, cap, b)
      BY <1>1 DEF In
    <2> QED
      BY <1>5, <1>7, <2>1, <2>2
  <1> QED
    BY <1>7, <1>8 DEF Content, cs

-----------------------------------------------------------------------------
(* The walk and the growing of the array *)

\* Two chains without a key in common, one behind the other.
LEMMA JoinedChains ==
  ASSUME NEW s \in Seq(Bucket), Once(s), NEW t \in Seq(Bucket), Once(t),
         \A b, c : Has(s, b) /\ Has(t, c) => b.key # c.key
  PROVE  /\ s \o t \in Seq(Bucket)
         /\ Once(s \o t)
         /\ \A b : Has(s \o t, b) <=> Has(s, b) \/ Has(t, b)
  <1> DEFINE st == s \o t
             m == Len(s)
             n == Len(t)
  <1>1. /\ m \in Nat /\ n \in Nat /\ st \in Seq(Bucket) /\ Len(st) = m + n
        /\ \A i \in 1 .. m + n : st[i] = IF i <= m THEN s[i] ELSE t[i - m]
    BY ConcatProperties
  <1> HIDE DEF st
  <1>2. \A i \in 1 .. m : i \in 1 .. m + n /\ st[i] = s[i]
    BY <1>1
  <1>3. \A i \in 1 .. n : i + m \in 1 .. m + n /\ st[i + m] = t[i]
    BY <1>1
  <1>4. \A i \in 1 .. m + n :
          \/ i \in 1 .. m /\ st[i] = s[i] /\ Has(s, st[i])
          \/ i - m \in 1 .. n /\ st[i] = t[i - m] /\ Has(t, st[i])
    <2> TAKE i \in 1 .. m + n
    <2>1. CASE i <= m
      BY <1>1, <2>1 DEF Has
    <2>2. CASE ~(i <= m)
      <3>1. i - m \in 1 .. n /\ st[i] = t[i - m]
        BY <1>1, <2>2
      <3> QED
        BY <3>1 DEF Has
    <2> QED
      BY <2>1, <2>2
  <1>5. ASSUME NEW i \in 1 .. m + n, NEW j \in 1 .. m + n,
               st[i].key = st[j].key
        PROVE  i = j
    <2>1. CASE i \in 1 .. m /\ j \in 1 .. m
      BY <1>2, <1>5, <2>1 DEF Once
    <2>2. CASE i - m \in 1 .. n /\ j - m \in 1 .. n
      <3>1. st[i] = t[i - m] /\ st[j] = t[j - m]
        BY <1>1, <2>2
      <3>2. i - m = j - m
        BY <1>5, <2>2, <3>1 DEF Once
      <3> QED
        BY <1>1, <3>2
    <2> QED
      BY <1>4, <1>5, <2>1, <2>2
  <1>6. Once(st)
    BY <1>1, <1>5 DEF Once
  <1>7. ASSUME NEW b PROVE Has(st, b) <=> Has(s, b) \/ Has(t, b)
    <2>1. ASSUME Has(st, b) PROVE Has(s, b) \/ Has(t, b)
      BY <1>1, <1>4, <2>1 DEF Has
    <2>2. ASSUME Has(s, b) PROVE Has(st, b)
      BY <1>1, <1>2, <2>2 DEF Has
    <2>3. ASSUME Has(t, b) PROVE Has(st, b)
      BY <1>1, <1>3, <2>3 DEF Has
    <2> QED
      BY <2>1, <2>2, <2>3
  <1> QED
    BY <1>1, <1>6, <1>7 DEF st

\* s is what a walk through the first n chains has met.
Walked(bs, n, s) ==
  s \in Seq(Bucket) /\ Once(s) /\ \A b : Has(s, b) <=> In(bs, n, b)

LEMMA WalksOn ==
  ASSUME NEW cap \in Nat \ {0}, NEW bs, Proper(bs, cap),
         NEW n \in 1 .. cap, NEW s, Walked(bs, n - 1, s)
  PROVE  Walked(bs, n, s \o bs[n - 1])
  <1> DEFINE t == bs[n - 1]
  <1>1. /\ n - 1 \in 0 .. cap - 1 /\ t \in Seq(Bucket) /\ Once(t)
        /\ \A b : Has(t, b) => index(b.key, cap) = n - 1
    BY DEF Proper, Has
  <1>2. ASSUME NEW b, Has(s, b) PROVE index(b.key, cap) # n - 1
    <2>1. PICK c \in 0 .. (n - 1) - 1 : Has(bs[c], b)
      BY <1>2 DEF Walked, In
    <2>2. c \in 0 .. cap - 1 /\ c # n - 1
      OBVIOUS
    <2> QED
      BY <2>1, <2>2 DEF Proper, Has
  <1> HIDE DEF t
  <1>3. \A b, c : Has(s, b) /\ Has(t, c) => b.key # c.key
    BY <1>1, <1>2
  <1>4. /\ s \o t \in Seq(Bucket) /\ Once(s \o t)
        /\ \A b : Has(s \o t, b) <=> Has(s, b) \/ Has(t, b)
    BY <1>1, <1>3, JoinedChains DEF Walked
  <1>5. ASSUME NEW b PROVE In(bs, n, b) <=> In(bs, n - 1, b) \/ Has(t, b)
    BY DEF In, t
  <1> QED
    BY <1>4, <1>5 DEF Walked, t

\* The walk meets every entry, and none twice.
LEMMA EntriesMetOnce ==
  ASSUME NEW cap \in Nat \ {0}, NEW bs, Proper(bs, cap)
  PROVE  Walked(bs, cap, entries(bs, cap))
  <1> DEFINE Step(f) == [i \in 0 .. cap |->
                           IF i = 0 THEN <<>> ELSE f[i - 1] \o bs[i - 1]]
             Part(n, g) == \A i \in 0 .. n :
                             g[i] = IF i = 0 THEN <<>> ELSE g[i - 1] \o bs[i - 1]
             S == {n \in 0 .. cap : \E g : Part(n, g)}
  <1>1. 0 \in S
    <2>1. Part(0, [i \in 0 .. 0 |-> <<>>])
      OBVIOUS
    <2> HIDE DEF Part
    <2> QED
      BY <2>1
  <1>2. ASSUME NEW n \in 1 .. cap, n - 1 \in S
        PROVE  n \in S
    <2>1. PICK g : Part(n - 1, g)
      BY <1>2
    <2> DEFINE h == [i \in 0 .. n |-> IF i < n THEN g[i]
                                      ELSE g[n - 1] \o bs[n - 1]]
    <2>2. ASSUME NEW i \in 0 .. n
          PROVE  h[i] = IF i = 0 THEN <<>> ELSE h[i - 1] \o bs[i - 1]
      <3>1. CASE i = n
        BY <3>1
      <3>2. CASE i # n
        <4>1. i \in 0 .. n - 1 /\ h[i] = g[i] /\ (i # 0 => h[i - 1] = g[i - 1])
          BY <3>2
        <4> HIDE DEF h
        <4> QED
          BY <2>1, <4>1
      <3> QED
        BY <3>1, <3>2
    <2> HIDE DEF h
    <2>3. Part(n, h)
      BY <2>2
    <2> HIDE DEF Part
    <2> QED
      BY <2>3
  <1>3. cap \in S
    <2> HIDE DEF S
    <2>1. \A i \in 0 .. cap : i \in S
      BY <1>1, <1>2, UpTo
    <2> QED
      BY <2>1
  <1>4. PICK g : Part(cap, g)
    BY <1>3
  <1>5. [i \in 0 .. cap |-> g[i]] = Step([i \in 0 .. cap |-> g[i]])
    BY <1>4
  <1> DEFINE upto == CHOOSE f : f = Step(f)
  <1>6. upto = Step(upto)
    BY <1>5
  <1>7. entries(bs, cap) = upto[cap]
    BY DEF entries
  <1> HIDE DEF upto
  <1>8. /\ upto[0] = <<>>
        /\ \A i \in 1 .. cap : upto[i] = upto[i - 1] \o bs[i - 1]
    BY <1>6
  <1> DEFINE W == {n \in Nat : Walked(bs, n, upto[n])}
  <1>9. 0 \in W
    <2>1. <<>> \in Seq(Bucket) /\ Once(<<>>) /\ \A b : ~Has(<<>>, b)
      BY DEF Once, Has
    <2>2. \A b : ~In(bs, 0, b)
      BY DEF In
    <2> QED
      BY <1>8, <2>1, <2>2 DEF Walked
  <1>10. ASSUME NEW n \in 1 .. cap, n - 1 \in W
         PROVE  n \in W
    <2>1. Walked(bs, n - 1, upto[n - 1])
      BY <1>10
    <2>2. Walked(bs, n, upto[n - 1] \o bs[n - 1])
      BY <2>1, WalksOn
    <2>3. upto[n] = upto[n - 1] \o bs[n - 1]
      BY <1>8
    <2>4. Walked(bs, n, upto[n])
      BY <2>2, <2>3
    <2> QED
      BY <2>4
  <1>11. cap \in W
    <2> HIDE DEF W
    <2>1. \A i \in 0 .. cap : i \in W
      BY <1>9, <1>10, UpTo
    <2> QED
      BY <2>1
  <1> QED
    BY <1>7, <1>11

\* Growing the array keeps every entry.
LEMMA GrowingKeepsEntries ==
  ASSUME NEW old \in Nat \ {0}, NEW bs, Proper(bs, old), NEW new \in Nat \ {0}
  PROVE  /\ Proper(rehashed(bs, old, new), new)
         /\ Content(rehashed(bs, old, new), new) = Content(bs, old)
  <1> DEFINE es == entries(bs, old)
             N == Len(es)
             Step(f) == [j \in 0 .. N |->
                           IF j = 0 THEN no_chains(new)
                           ELSE linked(f[j - 1], es[j], new)]
             Part(n, g) == \A j \in 0 .. n :
                             g[j] = IF j = 0 THEN no_chains(new)
                                    ELSE linked(g[j - 1], es[j], new)
             S == {n \in 0 .. N : \E g : Part(n, g)}
  <1>0. /\ es \in Seq(Bucket) /\ Once(es) /\ N \in Nat
        /\ \A b : Has(es, b) <=> In(bs, old, b)
    <2>1. Walked(bs, old, es)
      BY EntriesMetOnce
    <2> HIDE DEF es
    <2> QED
      BY <2>1 DEF Walked
  <1>r. rehashed(bs, old, new) = (CHOOSE f : f = Step(f))[N]
    BY DEF rehashed
  <1> HIDE DEF es
  <1>1. 0 \in S
    <2>1. Part(0, [i \in 0 .. 0 |-> no_chains(new)])
      OBVIOUS
    <2>2. 0 \in 0 .. N
      BY <1>0
    <2> HIDE DEF Part, N
    <2> QED
      BY <2>1, <2>2
  <1>2. ASSUME NEW n \in 1 .. N, n - 1 \in S
        PROVE  n \in S
    <2>1. PICK g : Part(n - 1, g)
      BY <1>2
    <2> DEFINE h == [i \in 0 .. n |-> IF i < n THEN g[i]
                                      ELSE linked(g[n - 1], es[n], new)]
    <2>0. n \in Nat /\ n >= 1
      BY <1>0
    <2>2. ASSUME NEW i \in 0 .. n
          PROVE  h[i] = IF i = 0 THEN no_chains(new)
                        ELSE linked(h[i - 1], es[i], new)
      <3>1. CASE i = n
        BY <2>0, <3>1
      <3>2. CASE i # n
        <4>1. i \in 0 .. n - 1 /\ h[i] = g[i] /\ (i # 0 => h[i - 1] = g[i - 1])
          BY <2>0, <3>2
        <4> HIDE DEF h
        <4> QED
          BY <2>1, <4>1
      <3> QED
        BY <3>1, <3>2
    <2> HIDE DEF h
    <2>3. Part(n, h)
      BY <2>2
    <2>4. n \in 0 .. N
      BY <1>0
    <2> HIDE DEF Part, N
    <2> QED
      BY <2>3, <2>4
  <1>3. N \in S
    <2> HIDE DEF S, N
    <2>1. \A i \in 0 .. N : i \in S
      BY <1>0, <1>1, <1>2, UpTo
    <2> QED
      BY <1>0, <2>1
  <1>4. PICK g : Part(N, g)
    BY <1>3
  <1>5. [j \in 0 .. N |-> g[j]] = Step([j \in 0 .. N |-> g[j]])
    BY <1>0, <1>4
  <1> DEFINE upto == CHOOSE f : f = Step(f)
  <1>6. upto = Step(upto)
    BY <1>5
  <1>7. rehashed(bs, old, new) = upto[N]
    BY <1>r
  <1> HIDE DEF upto
  <1>8. /\ upto[0] = no_chains(new)
        /\ \A j \in 1 .. N : upto[j] = linked(upto[j - 1], es[j], new)
    BY <1>0, <1>6
  <1> DEFINE Met(n) == {es[j] : j \in 1 .. n}
             W == {n \in 0 .. N : /\ Proper(upto[n], new)
                                  /\ Content(upto[n], new) = Met(n)}
  <1>9. 0 \in W
    <2> DEFINE cs == no_chains(new)
    <2>1. /\ cs \in [0 .. new - 1 -> Seq(Bucket)]
          /\ \A i \in 0 .. new - 1 : cs[i] = <<>>
      BY DEF no_chains
    <2> HIDE DEF cs
    <2>2. Proper(cs, new)
      BY <2>1 DEF Proper, Once
    <2>3. Content(cs, new) = {} /\ Met(0) = {}
      BY <2>1 DEF Content, In, Has
    <2> QED
      BY <1>0, <1>8, <2>2, <2>3 DEF cs
  <1>10. ASSUME NEW n \in 1 .. N, n - 1 \in W
         PROVE  n \in W
    <2>1. /\ Proper(upto[n - 1], new) /\ Content(upto[n - 1], new) = Met(n - 1)
          /\ n \in 0 .. N
      BY <1>0, <1>10
    <2>2. es[n] \in Bucket
      BY <1>0
    <2>3. \A b \in Met(n - 1) : b.key # es[n].key
      BY <1>0 DEF Once
    <2>4. Met(n) = Met(n - 1) \cup {es[n]}
      BY <1>0
    <2> HIDE DEF Met
    <2>5. /\ Proper(linked(upto[n - 1], es[n], new), new)
          /\ Content(linked(upto[n - 1], es[n], new), new)
               = Content(upto[n - 1], new) \cup {es[n]}
      BY <2>1, <2>2, <2>3, Links
    <2> QED
      BY <1>8, <2>1, <2>4, <2>5
  <1>11. N \in W
    <2> HIDE DEF W, N
    <2>1. \A i \in 0 .. N : i \in W
      BY <1>0, <1>9, <1>10, UpTo
    <2> QED
      BY <1>0, <2>1
  <1>12. Met(N) = Content(bs, old)
    <2>1. \A b : b \in Met(N) <=> Has(es, b)
      BY DEF Has
    <2>2. \A b : In(bs, old, b) => b \in Bucket
      BY InItsChain
    <2> QED
      BY <1>0, <2>1, <2>2 DEF Content
  <1> QED
    BY <1>7, <1>11, <1>12

-----------------------------------------------------------------------------
(* The map *)

\* The state invariant: the array is proper, and n_buckets counts its entries,
\* or more where a value was set twice.
IInv ==
  /\ capacity \in Nat \ {0}
  /\ Proper(buckets, capacity)
  /\ n_buckets \in Nat
  /\ IsFiniteSet(Content(buckets, capacity))
  /\ Cardinality(Content(buckets, capacity)) <= n_buckets

LEMMA InitIInv == hashmap_new => IInv
  <1> SUFFICES ASSUME hashmap_new PROVE IInv
    OBVIOUS
  <1>1. capacity \in Nat \ {0} /\ n_buckets = 0
    BY HashMapAssumption DEF hashmap_new
  <1>2. /\ buckets \in [0 .. capacity - 1 -> Seq(Bucket)]
        /\ \A i \in 0 .. capacity - 1 : buckets[i] = <<>>
    BY <1>1 DEF hashmap_new, no_chains
  <1>3. Proper(buckets, capacity)
    BY <1>2 DEF Proper, Once
  <1>4. Content(buckets, capacity) = {}
    BY <1>2 DEF Content, In, Has
  <1> QED
    BY <1>1, <1>3, <1>4, FS_EmptySet DEF IInv

\* What an insertion does to the entries.
LEMMA InsertStep ==
  ASSUME IInv, NEW k \in Keys, NEW v \in Vals, hashmap_insert(k, v)
  PROVE  /\ capacity' \in Nat \ {0}
         /\ Proper(buckets', capacity')
         /\ Content(buckets', capacity')
              = {b \in Content(buckets, capacity) : b.key # k}
                  \cup {[key |-> k, val |-> v]}
         /\ n_buckets' = n_buckets + 1
  <1> DEFINE cap == IF overloaded THEN 2 * capacity ELSE capacity
             bs  == IF overloaded THEN rehashed(buckets, capacity, cap)
                                  ELSE buckets
  <1>1. /\ capacity' = cap /\ n_buckets' = n_buckets + 1
        /\ buckets' = [bs EXCEPT ![index(k, cap)] = chained(@, k, v)]
    BY DEF hashmap_insert
  <1>2. capacity \in Nat \ {0} /\ Proper(buckets, capacity)
    BY DEF IInv
  <1>3. cap \in Nat \ {0}
    BY <1>2
  <1>4. /\ Proper(bs, cap)
        /\ Content(bs, cap) = Content(buckets, capacity)
    <2>1. CASE overloaded
      <3>1. bs = rehashed(buckets, capacity, cap)
        BY <2>1
      <3> HIDE DEF cap, bs
      <3> QED
        BY <1>2, <1>3, <3>1, GrowingKeepsEntries
    <2>2. CASE ~overloaded
      BY <1>2, <2>2
    <2> QED
      BY <2>1, <2>2
  <1> HIDE DEF cap, bs
  <1>5. /\ Proper(Put(bs, cap, k, v), cap)
        /\ Content(Put(bs, cap, k, v), cap)
             = {b \in Content(bs, cap) : b.key # k}
                 \cup {[key |-> k, val |-> v]}
    BY <1>3, <1>4, Inserts
  <1>6. buckets' = Put(bs, cap, k, v)
    BY <1>1 DEF Put
  <1> QED
    BY <1>1, <1>3, <1>4, <1>5, <1>6

\* What a removal does to them.
LEMMA RemoveStep ==
  ASSUME IInv, NEW k \in Keys, hashmap_remove(k)
  PROVE  /\ capacity' = capacity
         /\ Proper(buckets', capacity')
         /\ Content(buckets', capacity')
              = {b \in Content(buckets, capacity) : b.key # k}
         /\ \E b \in Content(buckets, capacity) : b.key = k
         /\ n_buckets' = n_buckets - 1
  <1>1. capacity \in Nat \ {0} /\ Proper(buckets, capacity)
    BY DEF IInv
  <1> DEFINE cs == [buckets EXCEPT ![index(k, capacity)] =
                      RemoveAt(@, position(buckets[index(k, capacity)], k))]
  <1>2. /\ position(buckets[index(k, capacity)], k) # 0
        /\ buckets' = cs
        /\ capacity' = capacity /\ n_buckets' = n_buckets - 1
    BY DEF hashmap_remove
  <1>3. /\ Proper(cs, capacity)
        /\ Content(cs, capacity) = {b \in Content(buckets, capacity) : b.key # k}
        /\ \E b \in Content(buckets, capacity) : b.key = k
    BY <1>1, <1>2, Removes
  <1> HIDE DEF cs
  <1> QED
    BY <1>2, <1>3

LEMMA NextIInv == IInv /\ [Next]_vars => IInv'
  <1> SUFFICES ASSUME IInv, [Next]_vars PROVE IInv'
    OBVIOUS
  <1> DEFINE C == Content(buckets, capacity)
             D == Content(buckets', capacity')
  <1>0. /\ capacity \in Nat \ {0} /\ Proper(buckets, capacity)
        /\ n_buckets \in Nat /\ IsFiniteSet(C) /\ Cardinality(C) \in Nat
        /\ Cardinality(C) <= n_buckets
    BY FS_CardinalityType DEF IInv
  <1>1. ASSUME NEW k \in Keys, NEW v \in Vals, hashmap_insert(k, v)
        PROVE  IInv'
    <2> DEFINE e == [key |-> k, val |-> v]
               kept == {b \in C : b.key # k}
    <2>1. /\ capacity' \in Nat \ {0} /\ Proper(buckets', capacity')
          /\ D = kept \cup {e} /\ n_buckets' = n_buckets + 1
      BY <1>1, InsertStep
    <2> HIDE DEF C, D, e
    <2>2. /\ IsFiniteSet(kept) /\ Cardinality(kept) \in Nat
          /\ Cardinality(kept) <= Cardinality(C)
      <3>1. kept \in SUBSET C
        OBVIOUS
      <3> HIDE DEF kept
      <3> QED
        BY <1>0, <3>1, FS_Subset, FS_CardinalityType
    <2> HIDE DEF kept
    <2>3. /\ IsFiniteSet(kept \cup {e})
          /\ \/ Cardinality(kept \cup {e}) = Cardinality(kept)
             \/ Cardinality(kept \cup {e}) = Cardinality(kept) + 1
      BY <2>2, FS_AddElement
    <2>4. IsFiniteSet(D) /\ Cardinality(D) <= n_buckets'
      BY <1>0, <2>1, <2>2, <2>3
    <2> QED
      BY <1>0, <2>1, <2>4 DEF IInv, D
  <1>2. ASSUME NEW k \in Keys, hashmap_remove(k)
        PROVE  IInv'
    <2>1. /\ capacity' = capacity /\ Proper(buckets', capacity')
          /\ D = {b \in C : b.key # k} /\ n_buckets' = n_buckets - 1
          /\ \E b \in C : b.key = k
      BY <1>2, RemoveStep
    <2>2. PICK b \in C : b.key = k
      BY <2>1
    <2>3. \A c \in C : c.key = k => c = b
      BY <1>0, <2>2, KeysDiffer
    <2>4. D = C \ {b}
      BY <2>1, <2>2, <2>3
    <2> HIDE DEF C, D
    <2>5. IsFiniteSet(D) /\ Cardinality(D) = Cardinality(C) - 1
      BY <1>0, <2>2, <2>4, FS_RemoveElement
    <2>6. n_buckets' \in Nat /\ Cardinality(D) <= n_buckets'
      <3>1. Cardinality(D) \in Nat
        BY <2>5, FS_CardinalityType
      <3> QED
        BY <1>0, <2>1, <2>5, <3>1
    <2> QED
      BY <1>0, <2>1, <2>5, <2>6 DEF IInv, D
  <1>3. CASE UNCHANGED vars
    BY <1>3 DEF IInv, vars
  <1> QED
    BY <1>1, <1>2, <1>3 DEF Next

LEMMA IInvHolds == Spec => []IInv
  BY InitIInv, NextIInv, PTL DEF Spec

\* Every variable keeps its type, and n_buckets, a size_t, never passes below
\* zero: hashmap_remove takes one off only when it has unlinked an entry, and no
\* entry is there that was not counted.
THEOREM CountStaysANumber == Spec => []TypeOK
  <1>1. IInv => TypeOK
    BY DEF IInv, TypeOK, Proper
  <1> QED
    BY <1>1, IInvHolds, PTL

\* A lookup finds what is among the entries.
LEMMA LookupFinds ==
  ASSUME IInv, NEW k \in Keys
  PROVE  /\ \A b \in Content(buckets, capacity) :
              b.key = k => hashmap_get(k) = b.val
         /\ (\A b \in Content(buckets, capacity) : b.key # k) =>
              hashmap_get(k) = NULL
  <1> DEFINE i == index(k, capacity)
             chain == buckets[i]
             p == position(chain, k)
  <1>1. /\ capacity \in Nat \ {0} /\ Proper(buckets, capacity)
        /\ i \in 0 .. capacity - 1
    BY IndexIn DEF IInv
  <1>2. chain \in Seq(Bucket) /\ Once(chain)
    BY <1>1 DEF Proper
  <1>3. hashmap_get(k) = IF p = 0 THEN NULL ELSE chain[p].val
    BY DEF hashmap_get
  <1>4. \A b \in Content(buckets, capacity) : b.key = k => Has(chain, b)
    BY <1>1, InItsChain DEF Content
  <1>5. \A b : Has(chain, b) => b \in Content(buckets, capacity)
    <2>1. \A b : Has(chain, b) => In(buckets, capacity, b)
      BY <1>1 DEF In
    <2> QED
      BY <1>1, <2>1, InItsChain DEF Content
  <1> HIDE DEF chain
  <1>6. /\ p # 0 => p \in 1 .. Len(chain) /\ chain[p].key = k
        /\ p = 0 => \A j \in 1 .. Len(chain) : chain[j].key # k
    BY <1>2, PositionFinds
  <1> HIDE DEF p
  <1>7. ASSUME NEW b \in Content(buckets, capacity), b.key = k
        PROVE  hashmap_get(k) = b.val
    <2>1. PICK j \in 1 .. Len(chain) : chain[j] = b
      BY <1>4, <1>7 DEF Has
    <2>2. p # 0 /\ p = j
      BY <1>2, <1>6, <1>7, <2>1 DEF Once
    <2> QED
      BY <1>3, <2>1, <2>2
  <1>8. ASSUME \A b \in Content(buckets, capacity) : b.key # k
        PROVE  hashmap_get(k) = NULL
    <2>1. p = 0
      BY <1>5, <1>6, <1>8 DEF Has
    <2> QED
      BY <1>3, <2>1
  <1> QED
    BY <1>7, <1>8

\* The keys that the walk copies are those of the entries, in its order.
LEMMA KeysOfWalk ==
  ASSUME IInv
  PROVE  \E es \in Seq(Bucket) :
           /\ Once(es)
           /\ \A b : Has(es, b) <=> b \in Content(buckets, capacity)
           /\ Len(hashmap_get_keys) = Len(es)
           /\ DOMAIN hashmap_get_keys = 1 .. Len(es)
           /\ \A i \in 1 .. Len(es) : hashmap_get_keys[i] = es[i].key
  <1> DEFINE es == entries(buckets, capacity)
  <1>1. capacity \in Nat \ {0} /\ Proper(buckets, capacity)
    BY DEF IInv
  <1>2. Walked(buckets, capacity, es)
    BY <1>1, EntriesMetOnce
  <1>3. hashmap_get_keys = [i \in 1 .. Len(es) |-> es[i].key]
    BY DEF hashmap_get_keys
  <1> HIDE DEF es
  <1>4. /\ es \in Seq(Bucket) /\ Once(es)
        /\ \A b : Has(es, b) <=> In(buckets, capacity, b)
    BY <1>2 DEF Walked
  <1>5. \A b : In(buckets, capacity, b) => b \in Bucket
    BY <1>1, InItsChain
  <1>6. \A b : Has(es, b) <=> b \in Content(buckets, capacity)
    BY <1>4, <1>5 DEF Content
  <1>7. Len(es) \in Nat
    BY <1>4
  <1>8. Len(hashmap_get_keys) = Len(es)
    BY <1>3, <1>7
  <1> QED
    BY <1>3, <1>4, <1>6, <1>8

\* hashmap_get_keys has room for every key it meets.
THEOREM KeysFitTheirArray == Spec => []KeysFit
  <1>1. ASSUME IInv PROVE KeysFit
    <2>1. PICK es \in Seq(Bucket) :
            /\ Once(es)
            /\ \A b : Has(es, b) <=> b \in Content(buckets, capacity)
            /\ Len(hashmap_get_keys) = Len(es)
      BY <1>1, KeysOfWalk
    <2> DEFINE C == Content(buckets, capacity)
    <2>2. Len(es) \in Nat /\ es \in [1 .. Len(es) -> Bucket]
      OBVIOUS
    <2>3. es \in Bijection(1 .. Len(es), C)
      <3>1. \A i \in 1 .. Len(es) : es[i] \in C
        BY <2>1 DEF Has
      <3>2. \A b \in C : \E i \in 1 .. Len(es) : es[i] = b
        BY <2>1 DEF Has
      <3>3. \A i, j \in 1 .. Len(es) : es[i] = es[j] => i = j
        BY <2>1 DEF Once
      <3> HIDE DEF C
      <3>4. es \in [1 .. Len(es) -> C]
        BY <2>2, <3>1
      <3> QED
        BY <3>2, <3>3, <3>4 DEF Bijection, Injection, Surjection, IsInjective
    <2>4. Cardinality(C) = Len(es)
      <3> HIDE DEF C
      <3>1. ExistsBijection(1 .. Len(es), C)
        BY <2>3 DEF ExistsBijection
      <3> QED
        BY <2>2, <3>1, FS_CountingElements
    <2> QED
      BY <1>1, <2>1, <2>4 DEF IInv, KeysFit
  <1> QED
    BY <1>1, IInvHolds, PTL

\* load_root_node_tree, which walks over the keys, attaches every node of the
\* map, and each once.
THEOREM KeysAreMetOnce == Spec => []KeysOnce
  <1>1. ASSUME IInv PROVE KeysOnce
    <2> DEFINE keys == hashmap_get_keys
               C == Content(buckets, capacity)
    <2>1. PICK es \in Seq(Bucket) :
            /\ Once(es)
            /\ \A b : Has(es, b) <=> b \in C
            /\ DOMAIN keys = 1 .. Len(es)
            /\ \A i \in 1 .. Len(es) : keys[i] = es[i].key
      BY <1>1, KeysOfWalk
    <2>2. \A b \in C : b \in Bucket /\ b.key \in Keys /\ b.val # NULL
      BY HashMapAssumption DEF Content, Bucket
    <2>3. \A k \in Keys : hashmap_get(k) # NULL <=> \E b \in C : b.key = k
      <3>1. \A k \in Keys : /\ \A b \in C : b.key = k => hashmap_get(k) = b.val
                            /\ (\A b \in C : b.key # k) => hashmap_get(k) = NULL
        BY <1>1, LookupFinds
      <3> QED
        BY <2>2, <3>1
    <2> HIDE DEF keys, C
    <2>4. IsInjective(keys)
      BY <2>1 DEF IsInjective, Once
    <2>5. ToSet(keys) = {k \in Keys : hashmap_get(k) # NULL}
      <3>1. ASSUME NEW k \in ToSet(keys)
            PROVE  k \in Keys /\ hashmap_get(k) # NULL
        <4>1. PICK i \in 1 .. Len(es) : k = es[i].key
          BY <2>1 DEF ToSet
        <4>2. es[i] \in C
          BY <2>1 DEF Has
        <4> QED
          BY <2>2, <2>3, <4>1, <4>2
      <3>2. ASSUME NEW k \in Keys, hashmap_get(k) # NULL
            PROVE  k \in ToSet(keys)
        <4>1. PICK b \in C : b.key = k
          BY <2>3, <3>2
        <4>2. PICK i \in 1 .. Len(es) : es[i] = b
          BY <2>1, <4>1 DEF Has
        <4>3. keys[i] = k /\ i \in DOMAIN keys
          BY <2>1, <4>1, <4>2
        <4> QED
          BY <4>3 DEF ToSet
      <3> QED
        BY <3>1, <3>2
    <2> QED
      BY <2>4, <2>5 DEF KeysOnce, keys
  <1> QED
    BY <1>1, IInvHolds, PTL

\* Whatever collides and whenever the array grows, lookups are those of a map.
THEOREM LookupsAreThoseOfAMap == Spec => IsAMap
  <1>1. ASSUME hashmap_new PROVE Map!Init
    <2>1. IInv
      BY <1>1, InitIInv
    <2>2. Content(buckets, capacity) = {}
      <3>1. capacity \in Nat \ {0}
        BY <2>1 DEF IInv
      <3>2. \A i \in 0 .. capacity - 1 : buckets[i] = <<>>
        BY <1>1, <3>1 DEF hashmap_new, no_chains
      <3> QED
        BY <3>2 DEF Content, In, Has
    <2>3. \A k \in Keys : hashmap_get(k) = NULL
      BY <2>1, <2>2, LookupFinds
    <2> QED
      BY <2>3 DEF Map!Init
  <1>2. IInv => \A k \in Keys :
          /\ \A b \in Content(buckets, capacity) :
               b.key = k => hashmap_get(k) = b.val
          /\ (\A b \in Content(buckets, capacity) : b.key # k) =>
               hashmap_get(k) = NULL
    BY LookupFinds
  <1>3. IInv' => (\A k \in Keys :
          /\ \A b \in Content(buckets, capacity) :
               b.key = k => hashmap_get(k) = b.val
          /\ (\A b \in Content(buckets, capacity) : b.key # k) =>
               hashmap_get(k) = NULL)'
    BY <1>2, PTL
  <1>4. ASSUME IInv, [Next]_vars
        PROVE  [Map!Next]_([k \in Keys |-> hashmap_get(k)])
    <2> DEFINE C == Content(buckets, capacity)
               D == Content(buckets', capacity')
               store == [k \in Keys |-> hashmap_get(k)]
               after == [k \in Keys |-> hashmap_get(k)']
    <2>1. IInv'
      BY <1>4, NextIInv
    <2>2. \A k \in Keys :
            /\ \A b \in C : b.key = k => store[k] = b.val
            /\ (\A b \in C : b.key # k) => store[k] = NULL
      BY <1>2, <1>4
    <2>3. \A k \in Keys :
            /\ \A b \in D : b.key = k => after[k] = b.val
            /\ (\A b \in D : b.key # k) => after[k] = NULL
      BY <1>3, <2>1
    <2>4. /\ store = [k \in Keys |-> store[k]]
          /\ after = [k \in Keys |-> after[k]]
      OBVIOUS
    <2>5. ASSUME NEW k \in Keys, NEW v \in Vals, hashmap_insert(k, v)
          PROVE  after = [store EXCEPT ![k] = v]
      <3> DEFINE e == [key |-> k, val |-> v]
      <3>1. D = {b \in C : b.key # k} \cup {e} /\ e.key = k /\ e.val = v
        BY <1>4, <2>5, InsertStep
      <3> HIDE DEF C, D, e, store, after
      <3>2. after[k] = v
        BY <2>3, <3>1
      <3>3. \A j \in Keys : j # k => after[j] = store[j]
        BY <2>2, <2>3, <3>1
      <3> QED
        BY <2>4, <3>2, <3>3
    <2>6. ASSUME NEW k \in Keys, hashmap_remove(k)
          PROVE  after = [store EXCEPT ![k] = NULL]
      <3>1. D = {b \in C : b.key # k}
        BY <1>4, <2>6, RemoveStep
      <3> HIDE DEF C, D, store, after
      <3>2. after[k] = NULL
        BY <2>3, <3>1
      <3>3. \A j \in Keys : j # k => after[j] = store[j]
        BY <2>2, <2>3, <3>1
      <3> QED
        BY <2>4, <3>2, <3>3
    <2>7. CASE Next
      <3>1. \/ \E k \in Keys : store' = [store EXCEPT ![k] = NULL]
            \/ \E k \in Keys, v \in Vals : store' = [store EXCEPT ![k] = v]
        BY <2>5, <2>6, <2>7 DEF Next
      <3> QED
        BY <3>1 DEF Map!Next, Map!Insert, Map!Remove
    <2>8. CASE UNCHANGED vars
      BY <2>8 DEF vars, hashmap_get, index
    <2> QED
      BY <1>4, <2>7, <2>8
  <1> QED
    BY <1>1, <1>4, IInvHolds, PTL DEF Spec, IsAMap, Map!Spec

=============================================================================
