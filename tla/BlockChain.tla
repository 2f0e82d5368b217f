---------------------------- MODULE BlockChain ----------------------------
(***************************************************************************)
(* The member functions of class BlockChain that the node calls, over the  *)
(* sequence of blocks it holds.  A call can return, throw an exception or, *)
(* where the code has undefined behaviour, end the process, so a check     *)
(* yields the set of its possible outcomes.                                *)
(***************************************************************************)
EXTENDS Block, SequencesExt

CONSTANT EmptyBack   \* what reading back() of an empty vector can do in the build

ASSUME BlockChainAssumption ==
  EmptyBack \subseteq {"accept", "reject", "throw", "crash"} /\ EmptyBack # {}

Outcome == {"valid", "invalid", "throw", "crash"}

(* What the comparisons with a recomputed hash and root, and the other     *)
(* checks of validateBlock, can come to.                                   *)
Verdict(b, ok) ==
  {IF b.blockHash = h /\ b.merkleRoot = r /\ ok THEN "valid" ELSE "invalid" :
     h \in HashesOf(b), r \in RootsOf(b)}

(* Mutants: the comparison of the timestamps is not strict; is left out.   *)
Newer_OrEqual(b, last) == b.timestamp >= last.timestamp
Newer_Ignored(b, last) == TRUE

Newer(b, last) == b.timestamp > last.timestamp

(* validateBlock computes all four checks before it combines them, so an   *)
(* exception of the third comes before any "false" of the others.  On an   *)
(* empty chain the block to compare with is *back() of an empty vector.    *)
validateBlock(chain, b) ==
  IF chain = <<>>
  THEN UNION {CASE o = "accept" -> IF b.timestamp = NoTime THEN {"throw"} ELSE Verdict(b, TRUE)
                [] o = "reject" -> {"invalid"}
                [] OTHER        -> {o} : o \in EmptyBack}
  ELSE IF NoTime \in {Last(chain).timestamp, b.timestamp} THEN {"throw"}
  ELSE Verdict(b, Newer(b, Last(chain)) /\ b.prevHash = Last(chain).blockHash)

-----------------------------------------------------------------------------
InSequence(c) == \A i, j \in DOMAIN c : i < j => c[i].timestamp <= c[j].timestamp
Linked(c) == \A i \in DOMAIN c : i > 1 => c[i].prevHash = c[i - 1].blockHash

(* isValid when the loop counter, which nothing initialises, starts at     *)
(* "first" (0-based): the blocks before it are not looked at.  When no     *)
(* block is, end() - 1 of an empty vector makes the copy of the hashes     *)
(* throw a length error.                                                   *)
isValidFrom(chain, first) ==
  LET seen == SubSeq(chain, first + 1, Len(chain))
      passes(b)  == TRUE \in isValid(b) /\ b.timestamp # NoTime
      reached(k) == \A l \in 1 .. k - 1 : passes(seen[l])
  IN  {o \in Outcome :
         \/ /\ o = "invalid"
            /\ \E k \in DOMAIN seen : reached(k) /\ FALSE \in isValid(seen[k])
         \/ /\ o = "throw"
            /\ \E k \in DOMAIN seen :
                 reached(k) /\ TRUE \in isValid(seen[k]) /\ seen[k].timestamp = NoTime
         \/ /\ reached(Len(seen) + 1)
            /\ o = IF seen = <<>> THEN "throw"
                   ELSE IF InSequence(seen) /\ Linked(seen) THEN "valid" ELSE "invalid"}

isValidChain(chain) == UNION {isValidFrom(chain, i) : i \in 0 .. Len(chain)}

-----------------------------------------------------------------------------
(* The transactions of a chain, block after block, each block's coinbase   *)
(* after its data: what both sendBackToPool and removeFromPool collect.    *)
BlockTransactions(b) == Append(b.data, b.datum)
ChainTransactions(c) == FlattenSeq([i \in DOMAIN c |-> BlockTransactions(c[i])])
=============================================================================
