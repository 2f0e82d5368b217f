----------------------------- MODULE NodeClaims -----------------------------
(***************************************************************************)
(* What the comments and documents of the repository say of the node, as   *)
(* properties that the code does not have.  Each is checked by a run of    *)
(* its own, which ends in a counterexample.                                *)
(***************************************************************************)
EXTENDS MCNode

(* No thread is inside an update of the balance or of the pool.            *)
AtRest == /\ running
          /\ pc["server"] = "listen"
          /\ pc["txn"] \in {"idle", "sleep", "clear", "fill", "draw", "at", "record"}
          /\ pc["miner"] \in {"idle", "pow", "tip"}

(* Node.h:104 with LongestChain.txt:20: a transaction leaves the pool only *)
(* for a block.                                                            *)
NothingLost ==
  AtRest => \A i \in DOMAIN transactions :
    \/ Contains(pool, transactions[i])
    \/ \E j \in DOMAIN blocks : Contains(blocks[j].data, transactions[i])

(* Node.h:78 with Node.cpp:87: the transactions of a block that was not    *)
(* added go back to the pool, but for those the chain has.                 *)
SentBack ==
  AtRest => \A i \in DOMAIN candidateblock.data :
    \/ Contains(pool, candidateblock.data[i])
    \/ Contains(ChainTransactions(chain), candidateblock.data[i])

(* Node.h:31 with 131, LongestChain.txt:18: a received chain that is valid *)
(* and longer, and mismatches no further than Config.h allows, replaces    *)
(* the chain.                                                              *)
LongestReplaces ==
  pc["server"] = "chainBack" =>
    \/ Len(candidatechain) <= Len(oldchain)
    \/ "valid" \notin isValidFrom(candidatechain, 0)
    \/ Len(candidatechain) - Len(LongestCommonPrefix({oldchain, candidatechain}))
         > LONGEST_CHAIN_MISMATCH

(* BlockChain.h:41 with 48: a block on the chain has the hash and the      *)
(* merkle root that were computed again to validate it.                    *)
HashesRight ==
  \A i \in DOMAIN chain : /\ chain[i].blockHash = hash(chain[i])
                          /\ chain[i].merkleRoot = computeMerkleRoot(chain[i])

(* LongestChain.txt:1: a block that extends the chain is appended to it,   *)
(* here: one that passes every check in the form in which it was sent.     *)
ExtensionAccepted ==
  pc["server"] = "validate" /\ "valid" \in validateBlock(chain, buffer.m_b)
  => "valid" \in validateBlock(chain, block["server"])

(* BlockChain.h:48 with 53: a block is added to the chain after it has     *)
(* been validated against it, so the blocks stay linked.                   *)
ChainLinked == Linked(chain)
=============================================================================
