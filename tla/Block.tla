------------------------------- MODULE Block -------------------------------
(***************************************************************************)
(* The values the node computes with: Transaction, CoinbaseTransaction,    *)
(* Block, Message and what Json makes of them on the way through the wire. *)
(*                                                                         *)
(* Data abstractions.  A timestamp is a natural number, NoTime the empty   *)
(* string.  SHA-512 is injective: a hash is the list of the headers that   *)
(* lead to it, the empty string the empty list, and a merkle root is the   *)
(* list of the leaves of its tree; but a hash is computed by way of a file *)
(* that others may write meanwhile, and may then be the hash of something  *)
(* else.  Amounts are counted in thousandths.  Difficulty and nonce, which *)
(* no check of the node reads separately, are the one number pow: 0 in a   *)
(* genesis block, 1 in a mined one.  The second copy of the header (m_bh), *)
(* which nothing but operator== reads, is left out.                        *)
(***************************************************************************)
EXTENDS Integers, Sequences

CONSTANTS
  ACCOUNT,        \* initial balance of a node (Config.h)
  SizeCount,      \* how many values a size_t has
  Draws,          \* bound: what the generator draws for a random amount
  Garbage,        \* the values an uninitialised number of an object can hold
  SpoiledHashes,  \* what sha512 may return for a header, and hashThem for a
  SpoiledRoots    \* tree, in place of the hash when another call overlaps

ASSUME ValuesAssumption ==
  /\ ACCOUNT \in Nat /\ SizeCount \in Nat /\ SizeCount > ACCOUNT
  /\ Draws \subseteq 0 .. ACCOUNT
  /\ Garbage \subseteq Int /\ Garbage # {}

NoTime == 0
Thousandths == 1000
COINBASE_AMOUNT == Thousandths * (ACCOUNT \div 1000)

(* A port is an unsigned short, 16 bits wide.                              *)
PortCount == 65536
Port      == 0 .. PortCount - 1

(* Mutant: a port is kept as wide as the number it came from.              *)
ToPort_Wide(n) == n

ToPort(n) == n % PortCount

(* Of an index, which is unsigned, -1 stands for the largest value: adding *)
(* 1 to it gives 0.                                                        *)
Transaction ==
  [ID : Int, timestamp : Nat, from : Port, to : Port, amount : Int]

BlockHeader ==
  [index : Int, merkleRoot : Seq(Transaction), timestamp : Nat, pow : Int]

Hash == Seq(BlockHeader)
NoHash == <<>>

Block ==
  [index : Int, prevHash : Hash, blockHash : Hash, merkleRoot : Seq(Transaction),
   timestamp : Nat, pow : Int, datum : Transaction, data : Seq(Transaction)]

ASSUME SpoiledAssumption ==
  /\ \A h \in SpoiledHashes : h \in Hash /\ h # NoHash
  /\ \A r \in SpoiledRoots : r \in Seq(Transaction) /\ r # <<>>

(* No call of sha512 overlaps another.                                     *)
HashesHold == SpoiledHashes = {} /\ SpoiledRoots = {}

-----------------------------------------------------------------------------
(* Transactions.  m_ID starts at 0 and each constructor increments it.     *)

(* A random amount: the difference is taken in size_t, not in double.      *)
RandomAmount(n) == (n - ACCOUNT \div 2) % SizeCount
Amounts == {RandomAmount(n) : n \in Draws}

NewTransaction(from, to, amount, time) ==
  [ID |-> 1, timestamp |-> time, from |-> from, to |-> to, amount |-> amount]

NewCoinbase(to, time) == NewTransaction(0, to, COINBASE_AMOUNT, time)

(* Transaction() {} initialises ID and timestamp and nothing else.         *)
DefaultTransaction(garbage) ==
  [ID |-> 0, timestamp |-> NoTime, from |-> ToPort(garbage), to |-> ToPort(garbage),
   amount |-> garbage]

-----------------------------------------------------------------------------
(* Blocks.                                                                 *)

computeMerkleRoot(b) == Append(b.data, b.datum)

hash(b) ==
  Append(b.prevHash, [index |-> b.index, merkleRoot |-> b.merkleRoot,
                      timestamp |-> b.timestamp, pow |-> b.pow])

(* What the two computations may return.                                   *)
RootsOf(b)  == {computeMerkleRoot(b)} \cup SpoiledRoots
HashesOf(b) == {hash(b)} \cup SpoiledHashes

isValid(b) == {b.blockHash = h : h \in HashesOf(b)}

(* The block with the merkle root, then the hash, that are computed for it.*)
Sealed(b) ==
  UNION {{[rooted EXCEPT !.blockHash = h] : h \in HashesOf(rooted)} :
         rooted \in {[b EXCEPT !.merkleRoot = r] : r \in RootsOf(b)}}

(* Block(): an empty block; its uninitialised numbers are never read.      *)
EmptyBlock ==
  [index |-> 0, prevHash |-> NoHash, blockHash |-> NoHash, merkleRoot |-> <<>>,
   timestamp |-> NoTime, pow |-> 0, datum |-> DefaultTransaction(0), data |-> <<>>]

makeGenesisBlock(garbage, time) ==
  Sealed([EmptyBlock EXCEPT !.timestamp = time, !.datum = DefaultTransaction(garbage)])

(* The constructor mineBlock uses.  It increments an index that nothing    *)
(* has initialised.                                                        *)
MinedBlock(garbage, prevHash, port, data, time) ==
  Sealed([EmptyBlock EXCEPT !.index = garbage + 1, !.prevHash = prevHash,
                            !.datum = NewCoinbase(port, time), !.data = data,
                            !.timestamp = time, !.pow = 1])

-----------------------------------------------------------------------------
(* Messages: a header and a body with room for each of the three kinds.    *)

Message ==
  [head : {"TRANSACTION", "BLOCK", "BLOCKCHAIN", "NONE"},
   m_t : Transaction, m_b : Block, m_bc : Seq(Block)]

EmptyMessage ==
  [head |-> "NONE", m_t |-> DefaultTransaction(0), m_b |-> EmptyBlock, m_bc |-> <<>>]

TransactionMessage(t) == [EmptyMessage EXCEPT !.head = "TRANSACTION", !.m_t = t]
BlockMessage(b)       == [EmptyMessage EXCEPT !.head = "BLOCK", !.m_b = b]
ChainMessage(c)       == [EmptyMessage EXCEPT !.head = "BLOCKCHAIN", !.m_bc = c]

-----------------------------------------------------------------------------
(* Json::read of what Json::write produced.  A set of results: the empty   *)
(* set when it throws, several when an uninitialised number decides.       *)

(* Mutant: the fields are copied into the object.                          *)
CastToCoinbase_Copies(t) == IF t.from # 0 THEN {} ELSE {t}

(* CoinbaseTransaction(const Transaction&) refuses a transaction that is   *)
(* not from port 0; otherwise it builds a temporary from the fields and    *)
(* drops it, which leaves the object itself default-constructed.           *)
CastToCoinbase(t) ==
  IF t.from # 0 THEN {} ELSE {DefaultTransaction(g) : g \in Garbage}

read_b(b) == {[b EXCEPT !.datum = t] : t \in CastToCoinbase(b.datum)}

read_bb(c) ==
  {[i \in 1 .. Len(c) |-> [c[i] EXCEPT !.datum = f[i]]] :
     f \in {f \in [1 .. Len(c) -> UNION {CastToCoinbase(c[i].datum) : i \in 1 .. Len(c)}] :
              \A i \in 1 .. Len(c) : f[i] \in CastToCoinbase(c[i].datum)}}

read_message(m) ==
  CASE m.head = "TRANSACTION" -> {m}
    [] m.head = "BLOCK"       -> {[m EXCEPT !.m_b = b] : b \in read_b(m.m_b)}
    [] m.head = "BLOCKCHAIN"  -> {[m EXCEPT !.m_bc = c] : c \in read_bb(m.m_bc)}
    [] OTHER                  -> {}

(* A body that was destroyed before it is read: strings and vectors are    *)
(* empty, and the memory of the numbers is in use for something else.      *)
EmptiedTransactions ==
  [ID : Garbage, timestamp : {NoTime}, from : {ToPort(g) : g \in Garbage},
   to : {ToPort(g) : g \in Garbage}, amount : Garbage]

EmptiedBlock(i, p, t) == [EmptyBlock EXCEPT !.index = i, !.pow = p, !.datum = t]
EmptiedBlocks == {EmptiedBlock(i, p, t) : i \in Garbage, p \in Garbage, t \in EmptiedTransactions}

-----------------------------------------------------------------------------
(* The text of a message that was cut, followed by what an earlier message *)
(* left in the buffer, can be read when both are of one kind: its first    *)
(* fields are the new ones.  Fields are written in the order below; the    *)
(* one that the cut falls in is taken to come whole from either side.      *)
Part(n, k, new, old) == IF n <= k THEN new ELSE old

SplicedTransactions(t, u) ==
  {[ID        |-> Part(1, k, t.ID, u.ID),
    timestamp |-> Part(2, k, t.timestamp, u.timestamp),
    from      |-> Part(3, k, t.from, u.from),
    to        |-> Part(4, k, t.to, u.to),
    amount    |-> u.amount] : k \in 0 .. 4}

SplicedLists(s, r) ==
  {SubSeq(s, 1, k) \o SubSeq(r, j, Len(r)) : k \in 0 .. Len(s), j \in 1 .. Len(r) + 1}

SplicedBlocks(b, c) ==
  {[index      |-> Part(1, k, b.index, c.index),
    prevHash   |-> Part(2, k, b.prevHash, c.prevHash),
    blockHash  |-> Part(3, k, b.blockHash, c.blockHash),
    merkleRoot |-> Part(4, k, b.merkleRoot, c.merkleRoot),
    timestamp  |-> Part(5, k, b.timestamp, c.timestamp),
    pow        |-> Part(6, k, b.pow, c.pow),
    datum      |-> c.datum,
    data       |-> c.data] : k \in 0 .. 6}
  \cup {[b EXCEPT !.data = s] : s \in SplicedLists(b.data, c.data)}

Spliced(m, old) ==
  IF m.head # old.head THEN {}
  ELSE CASE m.head = "TRANSACTION" -> {TransactionMessage(t) : t \in SplicedTransactions(m.m_t, old.m_t)}
         [] m.head = "BLOCK"       -> {BlockMessage(b) : b \in SplicedBlocks(m.m_b, old.m_b)}
         [] m.head = "BLOCKCHAIN"  -> {ChainMessage(c) : c \in SplicedLists(m.m_bc, old.m_bc)}
         [] OTHER                  -> {}
=============================================================================
