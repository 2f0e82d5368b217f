------------------------------- MODULE Lemmas -------------------------------
(***************************************************************************)
(* The lemmas that the proofs about the node and about std::set_difference *)
(* rest on: two facts about natural numbers, the values the node computes  *)
(* with, and the sequences it keeps them in.                               *)
(***************************************************************************)
EXTENDS BlockChain, SetDifference, SequenceTheorems, WellFoundedInduction, TLAPS

-----------------------------------------------------------------------------
(* Natural numbers.  Two facts stand in for the induction theorems of the  *)
(* library, whose operator parameter the provers used here cannot          *)
(* instantiate: a least counterexample exists, and a recursion over an     *)
(* interval has a solution.                                                *)

(* A set of natural numbers that is not empty has a least element.  It     *)
(* turns an invariant of a loop of the code, such as the one of            *)
(* std::set_difference, into the absence of a first iteration that breaks  *)
(* it.                                                                     *)
LEMMA LeastElement ==
  ASSUME NEW T \in SUBSET Nat, T # {}
  PROVE  \E x \in T : \A y \in T : x <= y
<1>1. PICK x \in T : \A y \in T : ~(<<y, x>> \in OpToRel(<, Nat))
  BY WFMin, NatLessThanWellFounded
<1>2. \A y \in T : x <= y
  <2>1. TAKE y \in T
  <2>2. x \in Nat /\ y \in Nat
    OBVIOUS
  <2>3. ~(y < x)
    BY <1>1, <2>2, Zenon DEF OpToRel
  <2>4. QED
    BY <2>2, <2>3
<1>3. QED
  BY <1>2

(* The function f on 0 .. N has the value "start" at 0 and continues by    *)
(* the step.                                                               *)
Solves(f, N, V, start, step) ==
  /\ f \in [0 .. N -> V]
  /\ f[0] = start
  /\ \A n \in 1 .. N : f[n] = step[<<n, f[n - 1]>>]

(* A function on 0 .. N can be defined by its value at 0 and by a step: so *)
(* the state after n iterations of a loop of the code, written as a        *)
(* recursive function, satisfies the equation it is written with.          *)
LEMMA RecursionExists ==
  ASSUME NEW V, NEW N \in Nat, NEW start \in V, NEW step \in [Nat \X V -> V]
  PROVE  \E f : Solves(f, N, V, start, step)
<1> DEFINE Good(m, f) == /\ f \in [0 .. m -> V]
                         /\ f[0] = start
                         /\ \A n \in 1 .. m : f[n] = step[<<n, f[n - 1]>>]
           Bad == {m \in 0 .. N : ~ \E f : Good(m, f)}
<1>1. SUFFICES ASSUME Bad # {} PROVE FALSE
  <2>1. N \in 0 .. N
    OBVIOUS
  <2>2. PICK f : Good(N, f)
    BY <1>1, <2>1
  <2>3. Solves(f, N, V, start, step)
    BY <2>2 DEF Solves
  <2>4. QED
    BY <2>3
<1>2. Bad \in SUBSET Nat
  OBVIOUS
<1>3. PICK m \in Bad : \A y \in Bad : m <= y
  BY <1>1, <1>2, LeastElement
<1>4. m \in Nat /\ m \in 0 .. N
  OBVIOUS
<1>5. m # 0
  <2>1. Good(0, [k \in 0 .. 0 |-> start])
    OBVIOUS
  <2>2. QED
    BY <2>1
<1>6. m - 1 \in 0 .. N /\ m - 1 < m
  BY <1>4, <1>5
<1>7. m - 1 \notin Bad
  <2>1. CASE m - 1 \in Bad
    <3>1. m <= m - 1
      BY <1>3, <2>1
    <3>2. QED
      BY <3>1, <1>6, <1>4
  <2>2. QED
    BY <2>1
<1>8. PICK f : Good(m - 1, f)
  BY <1>6, <1>7
<1> DEFINE g == [k \in 0 .. m |-> IF k = m THEN step[<<m, f[m - 1]>>] ELSE f[k]]
<1>9. f[m - 1] \in V
  BY <1>8, <1>4, <1>5
<1>10. g \in [0 .. m -> V]
  <2>1. ASSUME NEW k \in 0 .. m PROVE g[k] \in V
    <3>1. CASE k = m
      <4>1. <<m, f[m - 1]>> \in Nat \X V
        BY <1>4, <1>9
      <4>2. QED
        BY <3>1, <4>1
    <3>2. CASE k # m
      <4>1. k \in 0 .. m - 1
        BY <3>2, <1>4
      <4>2. f[k] \in V
        BY <4>1, <1>8
      <4>3. QED
        BY <3>2, <4>2
    <3>3. QED
      BY <3>1, <3>2
  <2>2. QED
    BY <2>1
<1>11. g[0] = start
  BY <1>8, <1>4, <1>5
<1>12. \A n \in 1 .. m : g[n] = step[<<n, g[n - 1]>>]
  <2>1. TAKE n \in 1 .. m
  <2>2. n \in Nat /\ n - 1 \in 0 .. m - 1 /\ n - 1 # m /\ n - 1 \in 0 .. m
    BY <1>4
  <2>3. g[n - 1] = f[n - 1]
    BY <2>2
  <2>4. CASE n = m
    <3>1. m \in 0 .. m /\ m - 1 \in 0 .. m /\ m - 1 # m
      BY <1>4
    <3>2. g[m] = step[<<m, f[m - 1]>>] /\ g[m - 1] = f[m - 1]
      BY <3>1
    <3>3. QED
      BY <2>4, <3>2
  <2>5. CASE n # m
    <3>1. n \in 1 .. m - 1 /\ n \in 0 .. m
      BY <2>5, <1>4
    <3>2. f[n] = step[<<n, f[n - 1]>>]
      BY <3>1, <1>8
    <3>3. g[n] = f[n]
      BY <3>1, <2>5
    <3>4. QED
      BY <3>2, <3>3, <2>3
  <2>6. QED
    BY <2>4, <2>5
<1>13. Good(m, g)
  BY <1>10, <1>11, <1>12
<1>14. QED
  BY <1>13, <1>4

-----------------------------------------------------------------------------
(* Values: the types of the transactions, blocks and messages the node     *)
(* makes and reads, and the few facts about their fields that the          *)
(* invariants of the node rest on.                                         *)

(* A number that an unsigned short has taken fits; one that fits is kept.  *)
LEMMA PortType ==
  /\ 0 \in Port /\ Port \subseteq Nat
  /\ \A n \in Int : ToPort(n) \in Port
  /\ \A n \in Port : ToPort(n) = n
<1>1. PortCount \in Nat \ {0}
  BY DEF PortCount
<1>2. ASSUME NEW count \in Nat \ {0}, NEW n \in Int PROVE n % count \in 0 .. count - 1
  OBVIOUS
<1>3. ASSUME NEW count \in Nat \ {0}, NEW n \in 0 .. count - 1 PROVE n % count = n
  OBVIOUS
<1>4. 0 \in Port /\ Port \subseteq Nat
  BY <1>1 DEF Port
<1>5. \A n \in Int : ToPort(n) \in Port
  BY <1>1, <1>2 DEF Port, ToPort
<1>6. \A n \in Port : ToPort(n) = n
  BY <1>1, <1>3 DEF Port, ToPort
<1>7. QED
  BY <1>4, <1>5, <1>6

(* A random amount is what a size_t can hold.                              *)
LEMMA AmountsType == Amounts \subseteq Nat
<1>1. ASSUME NEW n \in Nat PROVE RandomAmount(n) \in Nat
  <2>1. SizeCount \in Nat \ {0} /\ n - ACCOUNT \div 2 \in Int
    BY ValuesAssumption
  <2>2. ASSUME NEW count \in Nat \ {0}, NEW k \in Int PROVE k % count \in Nat
    OBVIOUS
  <2> QED BY <2>1, <2>2 DEF RandomAmount
<1> QED BY <1>1, ValuesAssumption DEF Amounts

(* Transaction() yields a transaction; its timestamp is the empty string,  *)
(* and its number has not been incremented.                                *)
LEMMA DefaultTransactionType ==
  ASSUME NEW g \in Int
  PROVE  /\ DefaultTransaction(g) \in Transaction
         /\ DefaultTransaction(g).timestamp = NoTime /\ DefaultTransaction(g).ID = 0
BY PortType DEF DefaultTransaction, Transaction, NoTime

(* The constructor of Transaction, and what it stores.                     *)
LEMMA NewTransactionType ==
  ASSUME NEW from \in Port, NEW to \in Port, NEW amount \in Int, NEW time \in Nat
  PROVE  /\ NewTransaction(from, to, amount, time) \in Transaction
         /\ NewTransaction(from, to, amount, time).ID = 1
         /\ NewTransaction(from, to, amount, time).from = from
         /\ NewTransaction(from, to, amount, time).to = to
         /\ NewTransaction(from, to, amount, time).timestamp = time
BY DEF NewTransaction, Transaction

(* A coinbase of now or later: from nobody, to the miner, with a time.     *)
LEMMA NewCoinbaseType ==
  ASSUME NEW to \in Port, NEW time \in Nat \ {0}
  PROVE  /\ NewCoinbase(to, time) \in Transaction
         /\ NewCoinbase(to, time).from = 0
         /\ NewCoinbase(to, time).to = to
         /\ NewCoinbase(to, time).timestamp # NoTime
<1>1. COINBASE_AMOUNT \in Int
  BY ValuesAssumption DEF COINBASE_AMOUNT, Thousandths
<1>2. QED
  BY <1>1, NewTransactionType, PortType DEF NewCoinbase, NoTime

(* Block(): an empty block is a block.                                     *)
LEMMA EmptyBlockType ==
  /\ EmptyBlock \in Block /\ EmptyBlock.pow = 0 /\ EmptyBlock.data = <<>>
  /\ EmptyBlock.prevHash = <<>> /\ EmptyBlock.merkleRoot = <<>>
  /\ EmptyBlock.blockHash = NoHash /\ EmptyBlock.datum.timestamp = NoTime
<1>1. DefaultTransaction(0) \in Transaction /\ DefaultTransaction(0).timestamp = NoTime
  BY DefaultTransactionType
<1>2. QED
  BY <1>1 DEF EmptyBlock, Block, Hash, NoHash, NoTime

(* What the two computations return is a hash, and a root, that is not     *)
(* empty, whatever overlaps; when nothing does it is the one of the block. *)
LEMMA HashesType ==
  ASSUME NEW b \in Block
  PROVE  /\ \A h \in HashesOf(b) : h \in Hash /\ h # NoHash
         /\ \A r \in RootsOf(b) : r \in Seq(Transaction) /\ r # <<>>
         /\ HashesHold => HashesOf(b) = {hash(b)} /\ RootsOf(b) = {Append(b.data, b.datum)}
<1> DEFINE header == [index |-> b.index, merkleRoot |-> b.merkleRoot,
                      timestamp |-> b.timestamp, pow |-> b.pow]
<1>1. hash(b) \in Hash /\ hash(b) # NoHash
  <2>1. b.prevHash \in Seq(BlockHeader) /\ header \in BlockHeader
    BY DEF Block, Hash, BlockHeader
  <2> HIDE DEF header
  <2>2. Append(b.prevHash, header) \in Seq(BlockHeader) /\ Append(b.prevHash, header) # <<>>
    BY <2>1, AppendProperties
  <2> QED BY <2>2 DEF hash, Hash, NoHash, header
<1>2. Append(b.data, b.datum) \in Seq(Transaction) /\ Append(b.data, b.datum) # <<>>
  <2>1. b.data \in Seq(Transaction) /\ b.datum \in Transaction
    BY DEF Block
  <2> QED BY <2>1, AppendProperties
<1> QED BY <1>1, <1>2, SpoiledAssumption DEF HashesOf, RootsOf, computeMerkleRoot, HashesHold

(* Sealing a block sets its merkle root and its hash and nothing else, and *)
(* both are ones that can be computed for it again.                        *)
LEMMA SealedType ==
  ASSUME NEW b \in Block, NEW s \in Sealed(b)
  PROVE  /\ s \in Block
         /\ s.merkleRoot \in RootsOf(s) /\ s.blockHash \in HashesOf(s)
         /\ s.pow = b.pow /\ s.data = b.data /\ s.datum = b.datum /\ s.index = b.index
         /\ s.prevHash = b.prevHash /\ s.timestamp = b.timestamp
<1>1. PICK rooted \in {[b EXCEPT !.merkleRoot = r] : r \in RootsOf(b)} :
        s \in {[rooted EXCEPT !.blockHash = h] : h \in HashesOf(rooted)}
  BY DEF Sealed
<1>2. PICK r \in RootsOf(b) : rooted = [b EXCEPT !.merkleRoot = r]
  BY <1>1
<1>3. r \in Seq(Transaction)
  BY HashesType
<1>4. /\ rooted \in Block /\ rooted.merkleRoot = r /\ rooted.index = b.index
      /\ rooted.pow = b.pow /\ rooted.data = b.data /\ rooted.datum = b.datum
      /\ rooted.prevHash = b.prevHash /\ rooted.timestamp = b.timestamp
  BY <1>2, <1>3 DEF Block
<1>5. PICK h \in HashesOf(rooted) : s = [rooted EXCEPT !.blockHash = h]
  BY <1>1
<1>6. h \in Hash
  BY <1>4, HashesType
<1>7. /\ s \in Block /\ s.merkleRoot = r /\ s.blockHash = h /\ s.index = b.index
      /\ s.pow = b.pow /\ s.data = b.data /\ s.datum = b.datum
      /\ s.prevHash = b.prevHash /\ s.timestamp = b.timestamp
  BY <1>4, <1>5, <1>6 DEF Block
<1>8. RootsOf(s) = RootsOf(b)
  BY <1>7 DEF RootsOf, computeMerkleRoot
<1>9. HashesOf(s) = HashesOf(rooted)
  BY <1>4, <1>7 DEF HashesOf, hash
<1> QED BY <1>7, <1>8, <1>9, <1>2

(* makeGenesisBlock: no predecessor, no data, and a coinbase nobody has    *)
(* initialised as the only leaf of the merkle tree.                        *)
LEMMA GenesisType ==
  ASSUME NEW g \in Int, NEW time \in Nat, NEW s \in makeGenesisBlock(g, time)
  PROVE  /\ s \in Block
         /\ s.pow = 0 /\ s.data = <<>> /\ s.datum = DefaultTransaction(g)
         /\ s.timestamp = time
         /\ s.merkleRoot \in RootsOf(s) /\ s.blockHash \in HashesOf(s)
         /\ HashesHold => s.merkleRoot = <<DefaultTransaction(g)>>
<1> DEFINE b == [EmptyBlock EXCEPT !.timestamp = time, !.datum = DefaultTransaction(g)]
<1>1. /\ b \in Block /\ b.pow = 0 /\ b.data = <<>> /\ b.datum = DefaultTransaction(g)
      /\ b.timestamp = time
  BY EmptyBlockType, DefaultTransactionType DEF Block
<1>2. s \in Sealed(b)
  BY DEF makeGenesisBlock
<1> HIDE DEF b
<1>3. /\ s \in Block /\ s.pow = 0 /\ s.data = <<>> /\ s.datum = DefaultTransaction(g)
      /\ s.timestamp = time
      /\ s.merkleRoot \in RootsOf(s) /\ s.blockHash \in HashesOf(s)
  BY <1>1, <1>2, SealedType
<1>4. HashesHold => s.merkleRoot = Append(<<>>, DefaultTransaction(g))
  BY <1>3, HashesType
<1>5. Append(<<>>, DefaultTransaction(g)) = <<DefaultTransaction(g)>>
  OBVIOUS
<1>6. QED
  BY <1>3, <1>4, <1>5

(* The block of mineBlock: its coinbase is the last leaf of its tree.      *)
LEMMA MinedBlockType ==
  ASSUME NEW g \in Int, NEW prevHash \in Hash, NEW port \in Port,
         NEW data \in Seq(Transaction), NEW time \in Nat \ {0},
         NEW s \in MinedBlock(g, prevHash, port, data, time)
  PROVE  /\ s \in Block
         /\ s.pow = 1 /\ s.data = data /\ s.datum = NewCoinbase(port, time)
         /\ s.prevHash = prevHash /\ s.timestamp = time
         /\ s.merkleRoot \in RootsOf(s) /\ s.blockHash \in HashesOf(s)
         /\ HashesHold => s.merkleRoot = Append(data, NewCoinbase(port, time))
<1> DEFINE b == [EmptyBlock EXCEPT !.index = g + 1, !.prevHash = prevHash,
                                   !.datum = NewCoinbase(port, time), !.data = data,
                                   !.timestamp = time, !.pow = 1]
<1>1. NewCoinbase(port, time) \in Transaction
  BY NewCoinbaseType
<1>2. /\ b \in Block /\ b.pow = 1 /\ b.data = data /\ b.datum = NewCoinbase(port, time)
      /\ b.prevHash = prevHash /\ b.timestamp = time
  <2> DEFINE c == [EmptyBlock EXCEPT !.index = g + 1, !.prevHash = prevHash]
             d == [c EXCEPT !.datum = NewCoinbase(port, time), !.data = data]
             f == [d EXCEPT !.timestamp = time]
             e == [f EXCEPT !.pow = 1]
  <2>1. c \in Block /\ c.prevHash = prevHash
    <3>1. ASSUME NEW n \in Int
          PROVE  /\ [EmptyBlock EXCEPT !.index = n, !.prevHash = prevHash] \in Block
                 /\ [EmptyBlock EXCEPT !.index = n, !.prevHash = prevHash].prevHash = prevHash
      BY EmptyBlockType DEF Block
    <3>2. g + 1 \in Int
      OBVIOUS
    <3>3. QED
      BY <3>1, <3>2
  <2>2. /\ d \in Block /\ d.data = data /\ d.datum = NewCoinbase(port, time)
        /\ d.prevHash = prevHash
    <3> HIDE DEF c
    <3>1. QED
      BY <1>1, <2>1 DEF Block
  <2>3. /\ e \in Block /\ e.pow = 1 /\ e.data = data /\ e.datum = NewCoinbase(port, time)
        /\ e.prevHash = prevHash /\ e.timestamp = time
    <3> HIDE DEF d
    <3>1. /\ f \in Block /\ f.data = data /\ f.datum = NewCoinbase(port, time)
          /\ f.prevHash = prevHash /\ f.timestamp = time
      BY <2>2 DEF Block
    <3> HIDE DEF f
    <3>2. QED
      BY SMTT(30), <3>1 DEF Block
  <2>4. b = e
    OBVIOUS
  <2>5. QED
    BY <2>3, <2>4
<1>3. s \in Sealed(b)
  BY DEF MinedBlock
<1> HIDE DEF b
<1>4. QED
  BY SMTT(30), <1>2, <1>3, SealedType, HashesType

(* The hash of a block ends in its header.                                 *)
LEMMA HashEnds ==
  ASSUME NEW b \in Block
  PROVE  /\ hash(b) # NoHash
         /\ Last(hash(b)).merkleRoot = b.merkleRoot /\ Last(hash(b)).pow = b.pow
<1> DEFINE header == [index |-> b.index, merkleRoot |-> b.merkleRoot,
                      timestamp |-> b.timestamp, pow |-> b.pow]
<1>1. b.prevHash \in Seq(BlockHeader) /\ header \in BlockHeader
  BY DEF Block, Hash, BlockHeader
<1>2. header.merkleRoot = b.merkleRoot /\ header.pow = b.pow
  OBVIOUS
<1> HIDE DEF header
<1>3. Append(b.prevHash, header) # <<>> /\ Last(Append(b.prevHash, header)) = header
  BY <1>1, AppendProperties DEF Last
<1>4. hash(b) = Append(b.prevHash, header)
  BY DEF hash, header
<1> QED BY <1>2, <1>3, <1>4 DEF NoHash

-----------------------------------------------------------------------------
(* The constructors of Message.                                            *)
LEMMA MessageTypes ==
  /\ EmptyMessage \in Message /\ EmptyMessage.head = "NONE" /\ EmptyMessage.m_b = EmptyBlock
  /\ \A t \in Transaction : /\ TransactionMessage(t) \in Message
                            /\ TransactionMessage(t).head = "TRANSACTION"
                            /\ TransactionMessage(t).m_t = t /\ TransactionMessage(t).m_b = EmptyBlock
  /\ \A b \in Block : /\ BlockMessage(b) \in Message
                      /\ BlockMessage(b).head = "BLOCK" /\ BlockMessage(b).m_b = b
  /\ \A c \in Seq(Block) : /\ ChainMessage(c) \in Message
                           /\ ChainMessage(c).head = "BLOCKCHAIN"
                           /\ ChainMessage(c).m_bc = c /\ ChainMessage(c).m_b = EmptyBlock
<1>1. EmptyMessage \in Message /\ EmptyMessage.head = "NONE" /\ EmptyMessage.m_b = EmptyBlock
  <2>1. DefaultTransaction(0) \in Transaction /\ EmptyBlock \in Block
    BY DefaultTransactionType, EmptyBlockType
  <2>2. QED
    BY <2>1 DEF EmptyMessage, Message
<1>2. QED
  BY <1>1 DEF Message, TransactionMessage, BlockMessage, ChainMessage

(* A coinbase that has been read has no time.                              *)
LEMMA CastType ==
  ASSUME NEW t \in Transaction, NEW c \in CastToCoinbase(t)
  PROVE  c \in Transaction /\ c.timestamp = NoTime /\ c.ID = 0
BY ValuesAssumption, DefaultTransactionType DEF CastToCoinbase

(* A block that has been read has lost its coinbase and nothing else.      *)
LEMMA ReadBlockType ==
  ASSUME NEW b \in Block, NEW r \in read_b(b)
  PROVE  /\ r \in Block /\ r.datum.timestamp = NoTime /\ r.datum.ID = 0
         /\ r.pow = b.pow /\ r.merkleRoot = b.merkleRoot /\ r.data = b.data
         /\ r.blockHash = b.blockHash
<1>1. PICK t \in CastToCoinbase(b.datum) : r = [b EXCEPT !.datum = t]
  BY DEF read_b
<1>2. b.datum \in Transaction
  BY DEF Block
<1>3. t \in Transaction /\ t.timestamp = NoTime /\ t.ID = 0
  BY <1>2, CastType
<1>4. QED
  BY <1>1, <1>3 DEF Block

(* A chain that has been read is a chain.                                  *)
LEMMA ReadChainType ==
  ASSUME NEW c \in Seq(Block), NEW r \in read_bb(c)
  PROVE  r \in Seq(Block)
<1> DEFINE casts == UNION {CastToCoinbase(c[i].datum) : i \in 1 .. Len(c)}
<1>1. PICK f \in [1 .. Len(c) -> casts] : r = [i \in 1 .. Len(c) |-> [c[i] EXCEPT !.datum = f[i]]]
  BY DEF read_bb
<1>2. ASSUME NEW i \in 1 .. Len(c) PROVE [c[i] EXCEPT !.datum = f[i]] \in Block
  <2>1. PICK j \in 1 .. Len(c) : f[i] \in CastToCoinbase(c[j].datum)
    BY <1>1
  <2>2. c[i] \in Block /\ c[j] \in Block
    OBVIOUS
  <2>3. c[j].datum \in Transaction
    BY <2>2 DEF Block
  <2>4. f[i] \in Transaction
    BY <2>1, <2>3, CastType
  <2>5. QED
    BY <2>2, <2>4 DEF Block
<1>3. Len(c) \in Nat
  OBVIOUS
<1>4. QED
  BY <1>1, <1>2, <1>3

(* A message that has been read is a message of the same kind.             *)
LEMMA ReadMessageType ==
  ASSUME NEW m \in Message, NEW r \in read_message(m)
  PROVE  /\ r \in Message /\ r.head = m.head
         /\ m.head = "TRANSACTION" => r = m
         /\ m.head = "BLOCK" => r.m_b \in read_b(m.m_b)
<1>1. m.m_b \in Block /\ m.m_bc \in Seq(Block)
  BY DEF Message
<1>2. CASE m.head = "TRANSACTION"
  BY <1>2 DEF read_message
<1>3. CASE m.head = "BLOCK"
  <2>1. PICK b \in read_b(m.m_b) : r = [m EXCEPT !.m_b = b]
    BY <1>3 DEF read_message
  <2>2. b \in Block
    BY <1>1, ReadBlockType
  <2>3. QED
    BY <1>3, <2>1, <2>2 DEF Message
<1>4. CASE m.head = "BLOCKCHAIN"
  <2>1. PICK c \in read_bb(m.m_bc) : r = [m EXCEPT !.m_bc = c]
    BY <1>4 DEF read_message
  <2>2. c \in Seq(Block)
    BY <1>1, ReadChainType
  <2>3. QED
    BY <1>4, <2>1, <2>2 DEF Message
<1>5. m.head = "NONE" => FALSE
  BY DEF read_message
<1>6. QED
  BY <1>2, <1>3, <1>4, <1>5 DEF Message

(* What is left of a body that has been destroyed has the types of the     *)
(* fields; a block has no time, no hash, no root and no data.              *)
LEMMA EmptiedType ==
  /\ \A t \in EmptiedTransactions : t \in Transaction /\ t.timestamp = NoTime
  /\ \A b \in EmptiedBlocks :
       /\ b \in Block /\ b.data = <<>> /\ b.merkleRoot = <<>> /\ b.blockHash = NoHash
       /\ b.timestamp = NoTime /\ b.datum.timestamp = NoTime
<1>1. ASSUME NEW t \in EmptiedTransactions PROVE t \in Transaction /\ t.timestamp = NoTime
  <2>1. \A g \in Garbage : g \in Int /\ ToPort(g) \in Port
    BY ValuesAssumption, PortType
  <2>2. {ToPort(g) : g \in Garbage} \subseteq Port /\ Garbage \subseteq Int /\ NoTime \in Nat
    BY <2>1 DEF NoTime
  <2> QED BY <2>2 DEF EmptiedTransactions, Transaction
<1>2. ASSUME NEW b \in EmptiedBlocks
      PROVE  /\ b \in Block /\ b.data = <<>> /\ b.merkleRoot = <<>> /\ b.blockHash = NoHash
             /\ b.timestamp = NoTime /\ b.datum.timestamp = NoTime
  <2>1. PICK i \in Garbage, p \in Garbage, t \in EmptiedTransactions :
          b = EmptiedBlock(i, p, t)
    BY DEF EmptiedBlocks
  <2>2. i \in Int /\ p \in Int /\ t \in Transaction /\ t.timestamp = NoTime
    BY <1>1, ValuesAssumption
  <2>3. EmptyBlock.timestamp = NoTime
    BY DEF EmptyBlock
  <2>4. ASSUME NEW e \in Block
        PROVE  /\ [e EXCEPT !.index = i, !.pow = p, !.datum = t] \in Block
               /\ [e EXCEPT !.index = i, !.pow = p, !.datum = t].data = e.data
               /\ [e EXCEPT !.index = i, !.pow = p, !.datum = t].merkleRoot = e.merkleRoot
               /\ [e EXCEPT !.index = i, !.pow = p, !.datum = t].blockHash = e.blockHash
               /\ [e EXCEPT !.index = i, !.pow = p, !.datum = t].timestamp = e.timestamp
               /\ [e EXCEPT !.index = i, !.pow = p, !.datum = t].datum = t
    BY <2>2 DEF Block
  <2> QED BY <2>1, <2>2, <2>3, <2>4, EmptyBlockType DEF EmptiedBlock
<1> QED BY <1>1, <1>2

-----------------------------------------------------------------------------
(* Messages that were cut and continue with the rest of an older one.      *)

(* A piece of one sequence behind a piece of another.                      *)
LEMMA SplicedListType ==
  ASSUME NEW S, NEW s \in Seq(S), NEW r \in Seq(S), NEW l \in SplicedLists(s, r)
  PROVE  l \in Seq(S) /\ \A i \in DOMAIN l : \/ \E j \in DOMAIN s : l[i] = s[j]
                                            \/ \E j \in DOMAIN r : l[i] = r[j]
<1>1. PICK k \in 0 .. Len(s), j \in 1 .. Len(r) + 1 : l = SubSeq(s, 1, k) \o SubSeq(r, j, Len(r))
  <2> DEFINE piece(n, l1) == SubSeq(s, 1, n) \o SubSeq(r, l1, Len(r))
  <2>1. SplicedLists(s, r) = {piece(n, l1) : n \in 0 .. Len(s), l1 \in 1 .. Len(r) + 1}
    BY DEF SplicedLists
  <2> HIDE DEF piece
  <2>2. \E n \in 0 .. Len(s), l1 \in 1 .. Len(r) + 1 : l = piece(n, l1)
    BY <2>1
  <2> QED BY <2>2 DEF piece
<1> DEFINE front == SubSeq(s, 1, k)
           rest  == SubSeq(r, j, Len(r))
<1>2. Len(s) \in Nat /\ Len(r) \in Nat /\ DOMAIN s = 1 .. Len(s) /\ DOMAIN r = 1 .. Len(r)
  OBVIOUS
<1>3. /\ front \in Seq(S) /\ Len(front) = k /\ \A i \in 1 .. k : front[i] = s[i]
  BY <1>2, SubSeqProperties
<1>4. /\ rest \in Seq(S) /\ Len(rest) = Len(r) + 1 - j
      /\ \A i \in 1 .. Len(r) + 1 - j : rest[i] = r[j + i - 1]
  BY <1>2, SubSeqProperties
<1> HIDE DEF front, rest
<1>5. /\ front \o rest \in Seq(S) /\ DOMAIN (front \o rest) = 1 .. k + (Len(r) + 1 - j)
      /\ \A i \in 1 .. k : (front \o rest)[i] = front[i]
      /\ \A i \in k + 1 .. k + (Len(r) + 1 - j) : (front \o rest)[i] = rest[i - k]
  <2>1. front \in Seq(S) /\ rest \in Seq(S)
    BY <1>3, <1>4
  <2>2. /\ front \o rest \in Seq(S) /\ Len(front \o rest) = Len(front) + Len(rest)
        /\ \A i \in 1 .. Len(front) + Len(rest) :
             (front \o rest)[i] = IF i <= Len(front) THEN front[i] ELSE rest[i - Len(front)]
    BY <2>1, ConcatProperties
  <2>3. DOMAIN (front \o rest) = 1 .. Len(front \o rest)
    BY <2>2
  <2> QED BY SMTT(30), <1>2, <1>3, <1>4, <2>2, <2>3
<1>6. l = front \o rest
  BY <1>1 DEF front, rest
<1>7. ASSUME NEW i \in DOMAIN l
      PROVE  \/ \E n \in DOMAIN s : l[i] = s[n]
             \/ \E n \in DOMAIN r : l[i] = r[n]
  <2>1. CASE i \in 1 .. k
    BY <1>2, <1>3, <1>5, <1>6, <2>1
  <2>2. CASE i \in k + 1 .. k + (Len(r) + 1 - j)
    <3>1. i - k \in 1 .. Len(r) + 1 - j /\ j + (i - k) - 1 \in DOMAIN r
      BY <1>2, <2>2
    <3> QED BY <1>4, <1>5, <1>6, <2>2, <3>1
  <2> QED BY SMTT(30), <1>2, <1>5, <1>6, <2>1, <2>2
<1> QED BY <1>5, <1>6, <1>7

(* A spliced transaction has each of its fields from one of the two.       *)
LEMMA SplicedTransactionType ==
  ASSUME NEW t \in Transaction, NEW u \in Transaction, NEW r \in SplicedTransactions(t, u)
  PROVE  r \in Transaction
<1>1. PICK k \in 0 .. 4 : r = [ID        |-> Part(1, k, t.ID, u.ID),
                              timestamp |-> Part(2, k, t.timestamp, u.timestamp),
                              from      |-> Part(3, k, t.from, u.from),
                              to        |-> Part(4, k, t.to, u.to),
                              amount    |-> u.amount]
  BY DEF SplicedTransactions
<1> QED BY <1>1 DEF Part, Transaction

(* So has a spliced block; its data are spliced only when all before them  *)
(* is of the new one, and its coinbase never is.                           *)
LEMMA SplicedBlockType ==
  ASSUME NEW b \in Block, NEW c \in Block, NEW r \in SplicedBlocks(b, c)
  PROVE  /\ r \in Block
         /\ r.blockHash \in {b.blockHash, c.blockHash}
         /\ r.merkleRoot \in {b.merkleRoot, c.merkleRoot}
         /\ r.datum \in {b.datum, c.datum}
         /\ r.data = c.data \/ r.data \in SplicedLists(b.data, c.data)
<1>1. CASE \E k \in 0 .. 6 :
        r = [index      |-> Part(1, k, b.index, c.index),
             prevHash   |-> Part(2, k, b.prevHash, c.prevHash),
             blockHash  |-> Part(3, k, b.blockHash, c.blockHash),
             merkleRoot |-> Part(4, k, b.merkleRoot, c.merkleRoot),
             timestamp  |-> Part(5, k, b.timestamp, c.timestamp),
             pow        |-> Part(6, k, b.pow, c.pow),
             datum      |-> c.datum,
             data       |-> c.data]
  BY <1>1 DEF Part, Block
<1>2. CASE \E s \in SplicedLists(b.data, c.data) : r = [b EXCEPT !.data = s]
  <2>1. PICK s \in SplicedLists(b.data, c.data) : r = [b EXCEPT !.data = s]
    BY <1>2
  <2>2. b.data \in Seq(Transaction) /\ c.data \in Seq(Transaction)
    BY DEF Block
  <2>3. s \in Seq(Transaction)
    BY <2>2, SplicedListType
  <2> QED BY <2>1, <2>3 DEF Block
<1> QED BY <1>1, <1>2 DEF SplicedBlocks

(* A spliced message is of the one kind that the two are of.               *)
LEMMA SplicedType ==
  ASSUME NEW m \in Message, NEW old \in Message, NEW r \in Spliced(m, old)
  PROVE  /\ r \in Message /\ r.head = m.head /\ m.head = old.head
         /\ \/ /\ m.head = "TRANSACTION"
               /\ \E t \in SplicedTransactions(m.m_t, old.m_t) : t \in Transaction /\ r = TransactionMessage(t)
            \/ /\ m.head = "BLOCK"
               /\ \E b \in SplicedBlocks(m.m_b, old.m_b) : b \in Block /\ r = BlockMessage(b)
            \/ /\ m.head = "BLOCKCHAIN"
               /\ \E c \in SplicedLists(m.m_bc, old.m_bc) : c \in Seq(Block) /\ r = ChainMessage(c)
<1>1. /\ m.m_t \in Transaction /\ m.m_b \in Block /\ m.m_bc \in Seq(Block)
      /\ old.m_t \in Transaction /\ old.m_b \in Block /\ old.m_bc \in Seq(Block)
      /\ m.head \in {"TRANSACTION", "BLOCK", "BLOCKCHAIN", "NONE"}
  BY DEF Message
<1>2. m.head = old.head
  BY Zenon DEF Spliced
<1>3. CASE m.head = "TRANSACTION"
  <2>1. PICK t \in SplicedTransactions(m.m_t, old.m_t) : r = TransactionMessage(t)
    BY <1>2, <1>3 DEF Spliced
  <2>2. t \in Transaction
    BY <1>1, SplicedTransactionType
  <2> QED BY <1>2, <1>3, <2>1, <2>2, MessageTypes
<1>4. CASE m.head = "BLOCK"
  <2>1. PICK b \in SplicedBlocks(m.m_b, old.m_b) : r = BlockMessage(b)
    BY <1>2, <1>4 DEF Spliced
  <2>2. b \in Block
    BY <1>1, SplicedBlockType
  <2> QED BY <1>2, <1>4, <2>1, <2>2, MessageTypes
<1>5. CASE m.head = "BLOCKCHAIN"
  <2>1. PICK c \in SplicedLists(m.m_bc, old.m_bc) : r = ChainMessage(c)
    BY <1>2, <1>5 DEF Spliced
  <2>2. c \in Seq(Block)
    BY <1>1, SplicedListType
  <2> QED BY <1>2, <1>5, <2>1, <2>2, MessageTypes
<1>6. CASE m.head = "NONE"
  BY <1>2, <1>6 DEF Spliced
<1> QED BY <1>1, <1>3, <1>4, <1>5, <1>6

-----------------------------------------------------------------------------
(* Sequences: the loop of std::set_difference, the transactions of a       *)
(* chain, and the validation of a block against a chain.                   *)

(* One iteration keeps the cursors positive and copies only elements of    *)
(* the first sequence.                                                     *)
LEMMA LoopStepType ==
  ASSUME NEW a \in Seq(Transaction), NEW b \in Seq(Transaction), NEW l \in Loop(a)
  PROVE  LoopStep(a, b, l) \in Loop(a)
<1> DEFINE elements == {a[n] : n \in DOMAIN a}
<1>1. l.i \in Nat \ {0} /\ l.j \in Nat \ {0} /\ l.kept \in Seq(elements) /\ l.thrown \in BOOLEAN
  BY DEF Loop
<1>2. l.i \in DOMAIN a => Append(l.kept, a[l.i]) \in Seq(elements)
  <2>1. ASSUME l.i \in DOMAIN a PROVE a[l.i] \in elements
    BY <2>1
  <2>2. QED
    BY <2>1, <1>1, AppendProperties
<1> HIDE DEF elements
<1>3. Loop(a) = [i : Nat \ {0}, j : Nat \ {0}, kept : Seq(elements), thrown : BOOLEAN]
  BY DEF Loop, elements
<1>4. /\ [l EXCEPT !.thrown = TRUE] \in Loop(a)
      /\ \A n \in Nat \ {0} : [l EXCEPT !.j = n] \in Loop(a)
      /\ \A m, n \in Nat \ {0} : [l EXCEPT !.i = m, !.j = n] \in Loop(a)
      /\ \A n \in Nat \ {0}, k \in Seq(elements) : [l EXCEPT !.i = n, !.kept = k] \in Loop(a)
  <2>1. l \in [i : Nat \ {0}, j : Nat \ {0}, kept : Seq(elements), thrown : BOOLEAN]
    BY <1>3
  <2>2. QED
    BY <2>1, <1>3
<1>5. l.i + 1 \in Nat \ {0} /\ l.j + 1 \in Nat \ {0}
  BY <1>1
<1>6. QED
  BY <1>2, <1>4, <1>5 DEF LoopStep

(* The recursive function by which the end of the loop is defined exists,  *)
(* so it satisfies the equation it is written with; its values are states  *)
(* of the loop.                                                            *)
LEMMA LoopEndRuns ==
  ASSUME NEW a \in Seq(Transaction), NEW b \in Seq(Transaction)
  PROVE  \E after \in [0 .. Len(a) + Len(b) -> Loop(a)] :
           /\ after[0] = LoopStart
           /\ \A k \in 1 .. Len(a) + Len(b) : after[k] = LoopStep(a, b, after[k - 1])
           /\ LoopEnd(a, b) = after[Len(a) + Len(b)]
<1> DEFINE N == Len(a) + Len(b)
           Equation(g) == g = [k \in 0 .. N |-> IF k = 0 THEN LoopStart
                                                ELSE LoopStep(a, b, g[k - 1])]
           after == CHOOSE g : Equation(g)
           step == [p \in Nat \X Loop(a) |-> LoopStep(a, b, p[2])]
<1>1. N \in Nat
  OBVIOUS
<1>2. LoopStart \in Loop(a)
  <2>1. <<>> \in Seq({a[n] : n \in DOMAIN a})
    OBVIOUS
  <2>2. QED
    BY <2>1 DEF LoopStart, Loop
<1>3. step \in [Nat \X Loop(a) -> Loop(a)]
  <2>1. ASSUME NEW p \in Nat \X Loop(a) PROVE LoopStep(a, b, p[2]) \in Loop(a)
    BY LoopStepType
  <2>2. QED
    BY <2>1
<1>4. \E f : Solves(f, N, Loop(a), LoopStart, step)
  <2> HIDE DEF N, step
  <2>1. QED
    BY <1>1, <1>2, <1>3, RecursionExists
<1>5. PICK f \in [0 .. N -> Loop(a)] :
        f[0] = LoopStart /\ \A n \in 1 .. N : f[n] = step[<<n, f[n - 1]>>]
  BY <1>4 DEF Solves
<1>6. \A n \in 1 .. N : f[n] = LoopStep(a, b, f[n - 1])
  <2>1. TAKE n \in 1 .. N
  <2>2. n \in Nat /\ n - 1 \in 0 .. N
    BY <1>1
  <2>3. <<n, f[n - 1]>> \in Nat \X Loop(a)
    BY <2>2, <1>5
  <2>4. QED
    BY <1>5, <2>3
<1> HIDE DEF step, N
<1>7. Equation(f)
  BY <1>1, <1>5, <1>6
<1>8. Equation(after)
  <2> HIDE DEF Equation
  <2>1. QED
    BY <1>7
<1> HIDE DEF after
<1>9. after[0] = LoopStart /\ \A k \in 1 .. N : after[k] = LoopStep(a, b, after[k - 1])
  BY <1>1, <1>8
<1>10. \A k \in 0 .. N : after[k] \in Loop(a)
  <2> DEFINE Bad == {k \in 0 .. N : after[k] \notin Loop(a)}
  <2>1. SUFFICES ASSUME Bad # {} PROVE FALSE
    OBVIOUS
  <2>2. PICK k \in Bad : \A y \in Bad : k <= y
    <3>1. Bad \in SUBSET Nat
      BY <1>1
    <3>2. QED
      BY <2>1, <3>1, LeastElement
  <2>3. k \in 1 .. N
    BY <1>1, <1>2, <1>9
  <2>4. k - 1 \in 0 .. N /\ ~(k <= k - 1)
    BY <1>1, <2>3
  <2>5. after[k - 1] \in Loop(a)
    BY <2>2, <2>4
  <2>6. QED
    BY <1>9, <2>3, <2>5, LoopStepType
<1>11. after \in [0 .. N -> Loop(a)]
  BY <1>8, <1>10
<1>12. LoopEnd(a, b) = after[N]
  BY DEF LoopEnd, after, N
<1>13. QED
  BY <1>9, <1>11, <1>12 DEF N

(* The difference consists of elements of the first sequence.              *)
LEMMA DifferenceOfFirst ==
  ASSUME NEW a \in Seq(Transaction), NEW b \in Seq(Transaction)
  PROVE  Difference(a, b) \in Seq({a[n] : n \in DOMAIN a})
<1> DEFINE elements == {a[n] : n \in DOMAIN a}
           l == LoopEnd(a, b)
<1>1. l \in Loop(a)
  <2>1. PICK after \in [0 .. Len(a) + Len(b) -> Loop(a)] : l = after[Len(a) + Len(b)]
    BY LoopEndRuns
  <2>2. Len(a) + Len(b) \in 0 .. Len(a) + Len(b)
    OBVIOUS
  <2>3. QED
    BY <2>1, <2>2
<1>2. l.i \in Nat \ {0} /\ l.kept \in Seq(elements)
  BY <1>1 DEF Loop
<1>3. SubSeq(a, l.i, Len(a)) \in Seq(elements)
  <2>1. \A n \in l.i .. Len(a) : a[n] \in elements
    BY <1>2
  <2>2. l.i \in Int /\ Len(a) \in Int
    BY <1>2
  <2> HIDE DEF elements, l
  <2>3. QED
    BY <2>1, <2>2, SubSeqProperties
<1>4. Difference(a, b) = l.kept \o SubSeq(a, l.i, Len(a))
  BY DEF Difference
<1>5. QED
  <2> HIDE DEF elements, l
  <2>1. Difference(a, b) \in Seq(elements)
    BY <1>2, <1>3, <1>4, ConcatProperties
  <2>2. QED
    BY <2>1 DEF elements

(* So it is a sequence of transactions.                                    *)
LEMMA DifferenceType ==
  ASSUME NEW a \in Seq(Transaction), NEW b \in Seq(Transaction)
  PROVE  Difference(a, b) \in Seq(Transaction)
<1>1. {a[n] : n \in DOMAIN a} \subseteq Transaction
  OBVIOUS
<1>2. QED
  BY <1>1, DifferenceOfFirst, SeqMonotonic

(* What the first cursor of the loop has passed was kept, or its time is   *)
(* in the second sequence; an iteration, whichever way it goes, leaves it  *)
(* so.                                                                     *)
Passed(a, b, l) ==
  \A n \in DOMAIN a : n < l.i => a[n].timestamp \in TimesOf(b) \/ Contains(l.kept, a[n])

LEMMA StepPasses ==
  ASSUME NEW a \in Seq(Transaction), NEW b \in Seq(Transaction), NEW l \in Loop(a),
         Passed(a, b, l)
  PROVE  Passed(a, b, LoopStep(a, b, l))
<1> DEFINE r == LoopStep(a, b, l)
<1>1. /\ l \in [i : Nat \ {0}, j : Nat \ {0}, kept : Seq({a[n] : n \in DOMAIN a}), thrown : BOOLEAN]
      /\ l.i \in Nat /\ l.kept \in Seq({a[n] : n \in DOMAIN a})
      /\ DOMAIN a = 1 .. Len(a) /\ Len(a) \in Nat
  BY DEF Loop
<1>2. CASE r.i = l.i /\ r.kept = l.kept
  BY <1>2 DEF Passed
<1>3. CASE l.i \in DOMAIN a /\ r.i = l.i + 1 /\ r.kept = Append(l.kept, a[l.i])
  <2>1. /\ \A m \in 1 .. Len(l.kept) : m \in 1 .. Len(r.kept) /\ r.kept[m] = l.kept[m]
        /\ Len(r.kept) \in 1 .. Len(r.kept) /\ r.kept[Len(r.kept)] = a[l.i]
    <3>1. a[l.i] \in {a[n] : n \in DOMAIN a}
      BY <1>3
    <3> HIDE DEF r
    <3> QED BY <1>1, <1>3, <3>1, AppendProperties
  <2>2. \A e : Contains(l.kept, e) => Contains(r.kept, e)
    BY <2>1 DEF Contains
  <2>3. Contains(r.kept, a[l.i])
    BY <2>1 DEF Contains
  <2>4. ASSUME NEW n \in DOMAIN a, n < r.i
        PROVE  a[n].timestamp \in TimesOf(b) \/ Contains(r.kept, a[n])
    <3>1. n < l.i \/ n = l.i
      BY <1>1, <1>3, <2>4
    <3> HIDE DEF r
    <3> QED BY <2>2, <2>3, <2>4, <3>1 DEF Passed
  <2> QED BY <2>4 DEF Passed
<1>4. CASE /\ l.i \in DOMAIN a /\ l.j \in DOMAIN b /\ a[l.i].timestamp = b[l.j].timestamp
           /\ r.i = l.i + 1 /\ r.kept = l.kept
  <2>1. a[l.i].timestamp \in TimesOf(b)
    BY <1>4 DEF TimesOf
  <2>2. ASSUME NEW n \in DOMAIN a, n < r.i
        PROVE  a[n].timestamp \in TimesOf(b) \/ Contains(r.kept, a[n])
    <3>1. n < l.i \/ n = l.i
      BY <1>1, <1>4, <2>2
    <3> HIDE DEF r
    <3> QED BY <1>4, <2>1, <3>1 DEF Passed
  <2> QED BY <2>2 DEF Passed
<1>5. \/ r.i = l.i /\ r.kept = l.kept
      \/ l.i \in DOMAIN a /\ r.i = l.i + 1 /\ r.kept = Append(l.kept, a[l.i])
      \/ /\ l.i \in DOMAIN a /\ l.j \in DOMAIN b /\ a[l.i].timestamp = b[l.j].timestamp
         /\ r.i = l.i + 1 /\ r.kept = l.kept
  <2>1. CASE l.thrown \/ l.i \notin DOMAIN a \/ l.j \notin DOMAIN b
    BY <2>1 DEF LoopStep
  <2>2. CASE ~(l.thrown \/ l.i \notin DOMAIN a \/ l.j \notin DOMAIN b)
    <3>1. a[l.i] \in Transaction /\ b[l.j] \in Transaction
      BY <2>2
    <3>2. a[l.i].timestamp \in Nat /\ b[l.j].timestamp \in Nat
      BY <3>1 DEF Transaction
    <3>3. CASE Uncomparable(a[l.i], b[l.j])
      BY <1>1, <2>2, <3>3 DEF LoopStep
    <3>4. CASE ~Uncomparable(a[l.i], b[l.j]) /\ Precedes(a[l.i], b[l.j])
      BY <1>1, <2>2, <3>4 DEF LoopStep
    <3>5. CASE ~Uncomparable(a[l.i], b[l.j]) /\ ~Precedes(a[l.i], b[l.j]) /\ Precedes(b[l.j], a[l.i])
      BY <1>1, <2>2, <3>5 DEF LoopStep
    <3>6. CASE ~Uncomparable(a[l.i], b[l.j]) /\ ~Precedes(a[l.i], b[l.j]) /\ ~Precedes(b[l.j], a[l.i])
      <4>1. r.i = l.i + 1 /\ r.kept = l.kept
        BY <1>1, <2>2, <3>6 DEF LoopStep
      <4>2. a[l.i].timestamp = b[l.j].timestamp
        BY <3>2, <3>6 DEF Precedes
      <4> HIDE DEF r
      <4> QED BY <2>2, <4>1, <4>2
    <3> HIDE DEF r
    <3> QED BY <3>3, <3>4, <3>5, <3>6
  <2> QED BY <2>1, <2>2
<1>6. Passed(a, b, r)
  <2>1. CASE r.i = l.i /\ r.kept = l.kept
    BY <1>2, <2>1
  <2>2. CASE l.i \in DOMAIN a /\ r.i = l.i + 1 /\ r.kept = Append(l.kept, a[l.i])
    BY <1>3, <2>2
  <2>3. CASE /\ l.i \in DOMAIN a /\ l.j \in DOMAIN b /\ a[l.i].timestamp = b[l.j].timestamp
             /\ r.i = l.i + 1 /\ r.kept = l.kept
    BY <1>4, <2>3
  <2> HIDE DEF r
  <2> QED BY <1>5, <2>1, <2>2, <2>3
<1> HIDE DEF r
<1> QED BY <1>6 DEF r

(* So whatever has a time that the second sequence lacks is in the         *)
(* difference, though neither sequence is sorted.                          *)
LEMMA DifferenceKeeps ==
  ASSUME NEW a \in Seq(Transaction), NEW b \in Seq(Transaction),
         NEW n \in DOMAIN a, a[n].timestamp \notin TimesOf(b)
  PROVE  Contains(Difference(a, b), a[n])
<1> DEFINE N == Len(a) + Len(b)
           l == LoopEnd(a, b)
           rest == SubSeq(a, l.i, Len(a))
<1>1. PICK after \in [0 .. N -> Loop(a)] :
        /\ after[0] = LoopStart
        /\ \A k \in 1 .. N : after[k] = LoopStep(a, b, after[k - 1])
        /\ l = after[N]
  BY LoopEndRuns
<1>2. N \in Nat
  OBVIOUS
<1>3. Difference(a, b) = l.kept \o rest
  BY DEF Difference
<1> HIDE DEF N, l
<1>4. \A k \in 0 .. N : Passed(a, b, after[k])
  <2> DEFINE Bad == {k \in 0 .. N : ~Passed(a, b, after[k])}
  <2>1. SUFFICES ASSUME Bad # {} PROVE FALSE
    OBVIOUS
  <2>2. PICK k \in Bad : \A y \in Bad : k <= y
    <3>1. Bad \in SUBSET Nat
      BY <1>2
    <3> QED BY <2>1, <3>1, LeastElement
  <2>3. k # 0
    <3>1. Passed(a, b, LoopStart)
      BY DEF Passed, LoopStart
    <3> QED BY <1>1, <2>2, <3>1
  <2>4. k \in 1 .. N /\ k - 1 \in 0 .. N /\ ~(k <= k - 1)
    BY <1>2, <2>2, <2>3
  <2>5. Passed(a, b, after[k - 1]) /\ after[k - 1] \in Loop(a)
    BY <1>1, <2>2, <2>4
  <2>6. Passed(a, b, LoopStep(a, b, after[k - 1]))
    BY <2>5, StepPasses
  <2> QED BY <1>1, <2>2, <2>4, <2>6
<1>5. Passed(a, b, l) /\ l \in Loop(a)
  BY <1>1, <1>2, <1>4
<1>6. /\ l.i \in Nat \ {0} /\ l.kept \in Seq({a[m] : m \in DOMAIN a})
      /\ n \in Nat /\ n \in 1 .. Len(a) /\ Len(a) \in Nat
  BY <1>5 DEF Loop
<1>7. l.kept \in Seq(Transaction)
  <2>1. {a[m] : m \in DOMAIN a} \subseteq Transaction
    OBVIOUS
  <2> QED BY <1>6, <2>1, SeqMonotonic
<1> HIDE DEF rest
<1>8. CASE n < l.i
  <2>1. Contains(l.kept, a[n])
    BY <1>5, <1>8 DEF Passed
  <2>2. PICK m \in 1 .. Len(l.kept) : l.kept[m] = a[n]
    BY <2>1 DEF Contains
  <2>3. rest \in Seq(Transaction)
    BY <1>6, SubSeqProperties DEF rest
  <2>4. m \in 1 .. Len(l.kept \o rest) /\ (l.kept \o rest)[m] = a[n]
    BY <1>7, <2>2, <2>3, ConcatProperties
  <2> QED BY <1>3, <2>4 DEF Contains
<1>9. CASE n >= l.i
  <2> DEFINE at == n - l.i + 1
  <2>1. at \in 1 .. Len(a) - l.i + 1 /\ l.i + at - 1 = n
    BY <1>6, <1>9
  <2>2. /\ rest \in Seq(Transaction) /\ Len(rest) = Len(a) - l.i + 1
        /\ \A m \in 1 .. Len(a) - l.i + 1 : rest[m] = a[l.i + m - 1]
    <3>1. l.i <= Len(a) + 1
      BY <1>6, <1>9
    <3> QED BY <1>6, <3>1, SubSeqProperties DEF rest
  <2>3. at \in 1 .. Len(rest) /\ rest[at] = a[n]
    BY <2>1, <2>2
  <2> HIDE DEF at
  <2>4. Len(l.kept) + at \in 1 .. Len(l.kept \o rest) /\ (l.kept \o rest)[Len(l.kept) + at] = a[n]
    <3>1. ASSUME NEW s \in Seq(Transaction), NEW t \in Seq(Transaction), NEW m \in 1 .. Len(t)
          PROVE  Len(s) + m \in 1 .. Len(s \o t) /\ (s \o t)[Len(s) + m] = t[m]
      <4>1. /\ Len(s) \in Nat /\ Len(t) \in Nat
            /\ Len(s) + m \in 1 .. Len(s) + Len(t) /\ ~(Len(s) + m <= Len(s))
            /\ (Len(s) + m) - Len(s) = m
        OBVIOUS
      <4> QED BY <4>1, ConcatProperties
    <3> QED BY <1>7, <2>2, <2>3, <3>1
  <2> QED BY <1>3, <2>4 DEF Contains
<1> QED BY <1>6, <1>8, <1>9

(* When the first elements cannot be compared, the call throws.            *)
LEMMA ThrowsAtOnce ==
  ASSUME NEW a \in Seq(Transaction), NEW b \in Seq(Transaction),
         a # <<>>, b # <<>>, Uncomparable(a[1], b[1])
  PROVE  Throws(a, b)
<1> DEFINE N == Len(a) + Len(b)
<1>1. PICK after \in [0 .. N -> Loop(a)] :
        /\ after[0] = LoopStart
        /\ \A k \in 1 .. N : after[k] = LoopStep(a, b, after[k - 1])
        /\ LoopEnd(a, b) = after[N]
  BY LoopEndRuns
<1>2. N \in Nat /\ N >= 1 /\ 1 \in DOMAIN a /\ 1 \in DOMAIN b
  OBVIOUS
<1> HIDE DEF N
<1>3. after[1].thrown = TRUE
  <2>1. after[1] = LoopStep(a, b, LoopStart)
    BY <1>1, <1>2
  <2>2. LoopStart.i = 1 /\ LoopStart.j = 1 /\ LoopStart.thrown = FALSE
    BY DEF LoopStart
  <2>3. LoopStep(a, b, LoopStart) = [LoopStart EXCEPT !.thrown = TRUE]
    BY <1>2, <2>2 DEF LoopStep
  <2>4. QED
    BY <2>1, <2>3 DEF LoopStart
<1>4. \A k \in 1 .. N : after[k].thrown = TRUE
  <2> DEFINE Bad == {k \in 1 .. N : after[k].thrown # TRUE}
  <2>1. SUFFICES ASSUME Bad # {} PROVE FALSE
    OBVIOUS
  <2>2. PICK k \in Bad : \A y \in Bad : k <= y
    <3>1. Bad \in SUBSET Nat
      BY <1>2
    <3>2. QED
      BY <2>1, <3>1, LeastElement
  <2>3. k \in 1 .. N /\ k # 1 /\ k - 1 \in 1 .. N /\ ~(k <= k - 1)
    BY SMTT(30), <1>2, <1>3
  <2>4. after[k - 1].thrown = TRUE
    BY <2>2, <2>3
  <2>5. after[k] = LoopStep(a, b, after[k - 1])
    BY <1>1, <2>3
  <2>6. after[k] = after[k - 1]
    <3> DEFINE q == after[k - 1]
    <3>1. q.thrown
      BY <2>4
    <3> HIDE DEF q
    <3>2. LoopStep(a, b, q) = q
      BY ONLY <3>1 DEF LoopStep
    <3>3. QED
      BY <2>5, <3>2 DEF q
  <2>7. QED
    BY <2>4, <2>6
<1>5. QED
  BY <1>1, <1>2, <1>4 DEF Throws

-----------------------------------------------------------------------------
(* The transactions of a block: its coinbase comes last, and first when    *)
(* there is nothing else.                                                  *)
LEMMA BlockTransactionsType ==
  ASSUME NEW b \in Block
  PROVE  /\ BlockTransactions(b) \in Seq(Transaction)
         /\ BlockTransactions(b) # <<>>
         /\ b.data = <<>> => BlockTransactions(b)[1] = b.datum
<1>1. b.data \in Seq(Transaction) /\ b.datum \in Transaction
  BY DEF Block
<1>2. QED
  BY <1>1, AppendProperties DEF BlockTransactions

(* The transactions of a chain are transactions; those of a chain that     *)
(* starts with a block without data start with the coinbase of that block. *)
LEMMA ChainTransactionsType ==
  ASSUME NEW c \in Seq(Block)
  PROVE  /\ ChainTransactions(c) \in Seq(Transaction)
         /\ c # <<>> /\ c[1].data = <<>> =>
              ChainTransactions(c) # <<>> /\ ChainTransactions(c)[1] = c[1].datum
<1> DEFINE seqs == [i \in DOMAIN c |-> BlockTransactions(c[i])]
           V == Seq(Transaction)
<1>1. Len(c) \in Nat /\ DOMAIN c = 1 .. Len(c)
  OBVIOUS
<1>2. \A i \in 1 .. Len(c) : seqs[i] = BlockTransactions(c[i]) /\ c[i] \in Block
  OBVIOUS
<1>3. \A i \in 1 .. Len(c) : seqs[i] \in V
  BY <1>2, BlockTransactionsType
<1>4. seqs \in Seq(V) /\ Len(seqs) = Len(c)
  <2>1. seqs = [i \in 1 .. Len(c) |-> BlockTransactions(c[i])]
    BY <1>1
  <2>2. \A i \in 1 .. Len(c) : BlockTransactions(c[i]) \in V
    BY <1>2, <1>3
  <2>3. QED
    BY <1>1, <2>1, <2>2
<1>5. ChainTransactions(c) = FlattenSeq(seqs)
  BY DEF ChainTransactions
<1>6. CASE c = <<>>
  <2>1. Len(seqs) = 0
    BY <1>4, <1>6
  <2>2. seqs = <<>>
    BY <1>4, <2>1
  <2>3. FlattenSeq(seqs) = seqs
    BY <2>1 DEF FlattenSeq
  <2>4. ChainTransactions(c) = <<>>
    <3> HIDE DEF seqs
    <3>1. QED
      BY <1>5, <2>2, <2>3
  <2>5. <<>> \in Seq(Transaction)
    OBVIOUS
  <2> HIDE DEF V, seqs
  <2>6. QED
    BY <1>6, <2>4, <2>5
<1>7. CASE c # <<>>
  <2> DEFINE N == Len(c)
             Equation(g) == g = [i \in 1 .. N |-> IF i = 1 THEN seqs[i] ELSE g[i - 1] \o seqs[i]]
             flatten == CHOOSE g : Equation(g)
             step == [p \in Nat \X V |-> IF p[1] + 1 \in 1 .. N THEN p[2] \o seqs[p[1] + 1] ELSE p[2]]
  <2>1. N \in Nat /\ N >= 1 /\ N - 1 \in Nat
    BY <1>7
  <2>2. FlattenSeq(seqs) = flatten[N]
    <3>1. Len(seqs) # 0 /\ Len(seqs) = N
      BY <1>4, <2>1
    <3> HIDE DEF seqs, N
    <3>2. QED
      BY <3>1 DEF FlattenSeq
  <2> HIDE DEF seqs
  <2>3. step \in [Nat \X V -> V]
    <3>1. ASSUME NEW p \in Nat \X V
          PROVE  (IF p[1] + 1 \in 1 .. N THEN p[2] \o seqs[p[1] + 1] ELSE p[2]) \in V
      BY <1>3
    <3>2. QED
      BY <3>1
  <2>4. seqs[1] \in V
    BY <1>3, <2>1
  <2>5. PICK f : Solves(f, N - 1, V, seqs[1], step)
    <3> HIDE DEF N, V, step
    <3>1. QED
      BY <2>1, <2>3, <2>4, RecursionExists
  <2>6. /\ f \in [0 .. N - 1 -> V] /\ f[0] = seqs[1]
        /\ \A n \in 1 .. N - 1 : f[n] = step[<<n, f[n - 1]>>]
    BY <2>5 DEF Solves
  <2>7. \A n \in 1 .. N - 1 : f[n] = f[n - 1] \o seqs[n + 1]
    <3>1. TAKE n \in 1 .. N - 1
    <3>2. n \in Nat /\ n - 1 \in 0 .. N - 1 /\ n + 1 \in 1 .. N
      BY <2>1
    <3>3. f[n - 1] \in V
      BY <2>6, <3>2
    <3>4. QED
      BY <2>6, <3>2, <3>3
  <2> HIDE DEF step, N, V
  <2>8. Equation([i \in 1 .. N |-> f[i - 1]])
    <3> DEFINE g == [i \in 1 .. N |-> f[i - 1]]
    <3>1. \A i \in 1 .. N : g[i] = IF i = 1 THEN seqs[i] ELSE g[i - 1] \o seqs[i]
      <4>1. TAKE i \in 1 .. N
      <4>2. g[i] = f[i - 1]
        OBVIOUS
      <4>3. CASE i = 1
        BY <2>6, <4>2, <4>3
      <4>4. CASE i # 1
        <5>1. i - 1 \in 1 .. N - 1 /\ i - 1 \in 1 .. N /\ (i - 1) + 1 = i
          BY <2>1, <4>4
        <5>2. f[i - 1] = f[(i - 1) - 1] \o seqs[i]
          BY <2>7, <5>1
        <5>3. g[i - 1] = f[(i - 1) - 1]
          BY <5>1
        <5>4. QED
          BY <4>2, <4>4, <5>2, <5>3
      <4>5. QED
        BY <4>3, <4>4
    <3>2. g = [i \in 1 .. N |-> g[i]]
      OBVIOUS
    <3> HIDE DEF g
    <3>3. Equation(g)
      BY <3>1, <3>2
    <3>4. QED
      BY <3>3 DEF g
  <2>9. Equation(flatten)
    <3> HIDE DEF Equation
    <3>1. QED
      BY <2>8
  <2> HIDE DEF flatten
  <2>10. /\ flatten[1] = seqs[1]
         /\ \A i \in 2 .. N : flatten[i] = flatten[i - 1] \o seqs[i]
    <3>1. \A i \in 1 .. N : flatten[i] = IF i = 1 THEN seqs[i] ELSE flatten[i - 1] \o seqs[i]
      BY <2>9
    <3>2. 1 \in 1 .. N /\ \A i \in 2 .. N : i \in 1 .. N /\ i # 1
      BY <2>1
    <3>3. QED
      BY <3>1, <3>2
  <2> HIDE DEF Equation
  <2> DEFINE Start(s) == s \in V /\ s # <<>> /\ s[1] = seqs[1][1]
  <2>11. Start(seqs[1])
    <3>1. c[1] \in Block /\ seqs[1] = BlockTransactions(c[1])
      BY <1>2, <2>1 DEF N
    <3>2. QED
      BY <2>4, <3>1, BlockTransactionsType
  <2>12. \A i \in 1 .. N : Start(flatten[i])
    <3> DEFINE Bad == {k \in 1 .. N : ~Start(flatten[k])}
    <3>1. SUFFICES ASSUME Bad # {} PROVE FALSE
      OBVIOUS
    <3>2. PICK k \in Bad : \A y \in Bad : k <= y
      <4>1. Bad \in SUBSET Nat
        BY <2>1
      <4>2. QED
        BY <3>1, <4>1, LeastElement
    <3>3. k \in 2 .. N /\ k - 1 \in 1 .. N /\ ~(k <= k - 1)
      BY <2>1, <2>10, <2>11
    <3>4. Start(flatten[k - 1])
      BY <3>2, <3>3
    <3>5. seqs[k] \in Seq(Transaction)
      BY <1>3, <3>3 DEF N, V
    <3>6. flatten[k] = flatten[k - 1] \o seqs[k]
      BY <2>10, <3>3
    <3>7. Start(flatten[k - 1] \o seqs[k])
      <4>1. ASSUME NEW s \in Seq(Transaction), NEW t \in Seq(Transaction), s # <<>>
            PROVE  s \o t \in Seq(Transaction) /\ s \o t # <<>> /\ (s \o t)[1] = s[1]
        BY <4>1, ConcatProperties
      <4>2. QED
        BY <3>4, <3>5, <4>1 DEF V
    <3>8. QED
      BY <3>6, <3>7
  <2>13. Start(flatten[N])
    BY <2>1, <2>12
  <2>14. c[1] \in Block /\ seqs[1] = BlockTransactions(c[1])
    BY <1>2, <2>1 DEF N
  <2>15. QED
    BY <1>5, <2>2, <2>13, <2>14, BlockTransactionsType DEF V
<1>8. QED
  BY <1>6, <1>7

-----------------------------------------------------------------------------
(* validateBlock ends in one of the outcomes a call can have.              *)
LEMMA ValidateBlockOutcome ==
  ASSUME NEW c \in Seq(Block), NEW b \in Block
  PROVE  validateBlock(c, b) \subseteq Outcome
<1>1. \A ok : Verdict(b, ok) \subseteq Outcome
  BY DEF Verdict, Outcome
<1>2. CASE c = <<>>
  <2>1. \A o \in EmptyBack : o \in {"accept", "reject", "throw", "crash"}
    BY BlockChainAssumption
  <2>2. {"throw"} \subseteq Outcome /\ {"invalid"} \subseteq Outcome /\ {"crash"} \subseteq Outcome
    BY DEF Outcome
  <2>3. QED
    BY <1>1, <1>2, <2>1, <2>2 DEF validateBlock
<1>3. CASE c # <<>>
  BY <1>1, <1>3 DEF validateBlock, Outcome
<1>4. QED
  BY <1>2, <1>3

(* A block that passes has a hash and a root that can be computed for it,  *)
(* and extends the last block of a chain that is not empty.                *)
LEMMA ValidBlock ==
  ASSUME NEW c \in Seq(Block), NEW b \in Block, "valid" \in validateBlock(c, b)
  PROVE  /\ b.merkleRoot \in RootsOf(b) /\ b.blockHash \in HashesOf(b)
         /\ b.timestamp # NoTime
         /\ c # <<>> => /\ b.prevHash = Last(c).blockHash
                        /\ b.timestamp > Last(c).timestamp
<1>1. \A ok : "valid" \in Verdict(b, ok) => ok /\ b.merkleRoot \in RootsOf(b) /\ b.blockHash \in HashesOf(b)
  BY DEF Verdict
<1>2. CASE c = <<>>
  <2>1. \A o \in EmptyBack : o \in {"accept", "reject", "throw", "crash"}
    BY BlockChainAssumption
  <2>2. PICK o \in EmptyBack :
          "valid" \in CASE o = "accept" -> IF b.timestamp = NoTime THEN {"throw"} ELSE Verdict(b, TRUE)
                        [] o = "reject" -> {"invalid"}
                        [] OTHER        -> {o}
    BY <1>2 DEF validateBlock
  <2>3. o = "accept" /\ b.timestamp # NoTime
    BY <2>1, <2>2
  <2>4. "valid" \in Verdict(b, TRUE)
    BY <2>2, <2>3
  <2>5. QED
    BY <1>1, <1>2, <2>3, <2>4
<1>3. CASE c # <<>>
  <2> DEFINE ok == Newer(b, Last(c)) /\ b.prevHash = Last(c).blockHash
  <2>1. validateBlock(c, b) = {"throw"} \/ validateBlock(c, b) = Verdict(b, ok)
    BY <1>3 DEF validateBlock
  <2>2. ok /\ b.merkleRoot \in RootsOf(b) /\ b.blockHash \in HashesOf(b)
    <3> HIDE DEF ok
    <3>1. "valid" \in Verdict(b, ok)
      BY <2>1
    <3>2. QED
      BY <1>1, <3>1
  <2>3. b.timestamp # NoTime
    <3>1. validateBlock(c, b) # {"throw"}
      OBVIOUS
    <3>2. QED
      BY <1>3, <3>1 DEF validateBlock
  <2>4. QED
    BY <2>2, <2>3 DEF Newer
<1>4. QED
  BY <1>2, <1>3

(* isValid ends in one of three ways, and throws when the chain is empty.  *)
LEMMA IsValidChainOutcome ==
  ASSUME NEW c \in Seq(Block)
  PROVE  /\ isValidChain(c) \subseteq {"valid", "invalid", "throw"}
         /\ c = <<>> => isValidChain(c) \subseteq {"throw"}
<1>1. ASSUME NEW i PROVE isValidFrom(c, i) \subseteq {"valid", "invalid", "throw"}
  BY DEF isValidFrom
<1>2. ASSUME c = <<>> PROVE isValidFrom(c, 0) \subseteq {"throw"}
  <2>1. SubSeq(c, 0 + 1, Len(c)) = <<>>
    BY <1>2
  <2>2. ASSUME NEW o \in isValidFrom(c, 0) PROVE o = "throw"
    <3> DEFINE seen == SubSeq(c, 0 + 1, Len(c))
    <3>1. seen = <<>> /\ DOMAIN seen = {} /\ Len(seen) = 0
      BY <2>1
    <3> HIDE DEF seen
    <3>2. o = IF seen = <<>> THEN "throw"
              ELSE IF InSequence(seen) /\ Linked(seen) THEN "valid" ELSE "invalid"
      BY <3>1 DEF isValidFrom, seen
    <3> QED BY <3>1, <3>2
  <2> QED BY <2>2
<1>3. ASSUME c = <<>> PROVE isValidChain(c) \subseteq {"throw"}
  <2>1. 0 .. Len(c) = {0}
    BY <1>3
  <2> QED BY <1>2, <1>3, <2>1 DEF isValidChain
<1> QED BY <1>1, <1>3 DEF isValidChain

(* A sequence is a prefix of itself, and of itself with one more element.  *)
LEMMA AppendIsExtension ==
  ASSUME NEW S, NEW s \in Seq(S), NEW e \in S
  PROVE  IsPrefix(s, s) /\ IsPrefix(s, Append(s, e))
<1>1. /\ Len(s) \in Nat /\ Len(Append(s, e)) = Len(s) + 1
      /\ \A i \in 1 .. Len(s) : Append(s, e)[i] = s[i]
      /\ Append(s, e) \in Seq(S)
  BY AppendProperties
<1>2. SubSeq(s, 1, Len(s)) = SubSeq(Append(s, e), 1, Len(s))
  <2> DEFINE t == Append(s, e)
  <2>1. t \in Seq(S) /\ Len(t) = Len(s) + 1 /\ \A i \in 1 .. Len(s) : t[i] = s[i]
    BY <1>1
  <2> HIDE DEF t
  <2>2. SubSeq(s, 1, Len(s)) = [i \in 1 .. Len(s) |-> s[i]]
    BY <1>1
  <2>3. SubSeq(t, 1, Len(s)) = [i \in 1 .. Len(s) |-> t[i]]
    BY <1>1, <2>1
  <2>4. QED
    BY <2>1, <2>2, <2>3 DEF t
<1>3. QED
  BY <1>1, <1>2 DEF IsPrefix
=============================================================================
