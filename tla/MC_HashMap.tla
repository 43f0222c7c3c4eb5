----------------------------- MODULE MC_HashMap -----------------------------
(* A small instance of HashMap for TLC. *)
EXTENDS HashMap

CONSTANTS k1, k2, k3, k4, k5, node, other

Keys_five == {k1, k2, k3, k4, k5}

\* k1 and k3 have one hash; k2 shares their chain in an array of 2 and not in
\* one of 4; k5 shares that of k2 until the array has 8.
Hash_colliding ==
  [k \in Keys_five |-> CASE k = k1 -> 0 [] k = k3 -> 0 [] k = k2 -> 2
                         [] k = k5 -> 6 [] k = k4 -> 1]
=============================================================================
