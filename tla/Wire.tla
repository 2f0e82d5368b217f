-------------------------------- MODULE Wire --------------------------------
(***************************************************************************)
(* Node computes with what Json::read returns and with the leaves of a     *)
(* merkle tree instead of its root.  Here the codec and the tree run on    *)
(* the messages and blocks of a running node, and must say the same.       *)
(***************************************************************************)
EXTENDS NodeLedger, Json, Merkle

(* What the node sends and what it was sent.                               *)
OnTheWire == {buffer} \cup UNION {{outgoing[th][i] : i \in DOMAIN outgoing[th]} : th \in Senders}

(* Reading back the text of a message gives what Node takes for it: every  *)
(* block that arrives has lost its coinbase and nothing else, so that its  *)
(* hash is still right and its merkle root is not; and a text that is cut  *)
(* off, or a coinbase whose garbage port is not 0, gives nothing at all.   *)
WireAgrees ==
  \A m \in OnTheWire : ReadBack(IF m = EmptyMessage THEN FirstPart ELSE write(m)) = read_message(m)

(* The lists of leaves that validateBlock can come to compare, for blocks  *)
(* kept, blocks received, blocks received and stripped of their coinbase,  *)
(* and the block of the miner once it has been made.                       *)
Made == {"candidate", "keep", "test", "validatePlace", "place", "validate", "push"}
Blocks ==
  {chain[i] : i \in DOMAIN chain} \cup {blocks[i] : i \in DOMAIN blocks}
  \cup {block[th] : th \in {th \in Updaters : th = "miner" => pc[th] \in Made}} \cup {buffer.m_b}

LeafLists == {b.merkleRoot : b \in {b \in Blocks : b.merkleRoot # <<>>}}
             \cup {computeMerkleRoot(b) : b \in Blocks}

(* A merkle root commits to the transactions and to their order: no two    *)
(* lists of leaves in play have one root, though the tree gives a list     *)
(* and the list with its odd last leaf doubled the same one.               *)
RootsCommit == \A r1, r2 \in LeafLists : root(r1) = root(r2) => r1 = r2
=============================================================================
