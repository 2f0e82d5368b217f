------------------------------- MODULE Merkle -------------------------------
(***************************************************************************)
(* The tree of hashes over the leaves of a block.  A digest is the pair it *)
(* was computed from, a leaf the transaction itself.                       *)
(***************************************************************************)
EXTENDS Integers, Sequences

hashThem(a, b) == [left |-> a, right |-> b]

(* Mutant: the second child of a pair is never looked at.                  *)
getHashedParents_FirstOnly(children) ==
  [i \in 1 .. (Len(children) + 1) \div 2 |-> hashThem(children[2*i - 1], children[2*i - 1])]

(* A child without a sibling is hashed with itself.                        *)
getHashedParents(children) ==
  [i \in 1 .. (Len(children) + 1) \div 2 |->
     hashThem(children[2*i - 1], IF 2*i <= Len(children) THEN children[2*i] ELSE children[2*i - 1])]

(* One round before the loop, also for a single leaf, and iterations until *)
(* a single digest is left: fewer than there are leaves.  (For no leaf the *)
(* loop does not end; no block has none.)                                  *)
Round(current) == IF Len(current) = 1 THEN current ELSE getHashedParents(current)

root(values) ==
  LET current[n \in 0 .. Len(values)] ==
        IF n = 0 THEN getHashedParents(values) ELSE Round(current[n - 1])
  IN  current[Len(values)][1]
=============================================================================
