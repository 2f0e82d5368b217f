----------------------------- MODULE NodeProofs -----------------------------
(***************************************************************************)
(* What a node's members and its chain and pool can hold, for every value  *)
(* of the constants.  First the types, action by action; then one          *)
(* inductive invariant and what follows from it.                           *)
(***************************************************************************)
EXTENDS Node, Lemmas

(* push_back, also when an element is lost, yields a sequence.             *)
LEMMA PushedType ==
  ASSUME NEW S, NEW th, NEW v \in Seq(S), NEW e \in S, NEW r \in Pushed(th, v, <<e>>)
  PROVE  r \in Seq(S) /\ (r = Append(v, e) \/ r = v)
<1>1. <<e>> \in Seq(S) /\ SubSeq(<<e>>, 2, Len(<<e>>)) = <<>> /\ v \o <<e>> = Append(v, e) /\ v \o <<>> = v
  OBVIOUS
<1>2. r = v \o <<e>> \/ r = v \o SubSeq(<<e>>, 2, Len(<<e>>))
  BY DEF Pushed
<1>3. QED
  BY <1>1, <1>2

(* The clock moves on, or is set back to a time after the start.           *)
LEMMA LaterType ==
  ASSUME TypeOK
  PROVE  Later \subseteq Nat \ {0}
BY DEF TypeOK, Later

(* What the peers send is made of transactions and of blocks.              *)
LEMMA PeerDataType ==
  ASSUME TypeOK
  PROVE  PeerTransactions \subseteq Transaction /\ PeerGenesis \subseteq Block /\ PeerBases \subseteq Block
<1>1. /\ now \in Nat \ {0} /\ chain \in Seq(Block)
      /\ Peers \subseteq Port \ {0} /\ Me \in Port \ {0} /\ Amounts \subseteq Nat /\ Garbage \subseteq Int
  BY NodeAssumption, ValuesAssumption, AmountsType DEF TypeOK
<1>2. PeerTransactions \subseteq Transaction
  <2>1. ASSUME NEW p \in Peers, NEW to \in Peers \cup {Me}, NEW amount \in Amounts, NEW time \in {1, now}
        PROVE  NewTransaction(p, to, amount, time) \in Transaction
    <3>1. p \in Port /\ to \in Port /\ amount \in Int /\ time \in Nat
      BY <1>1
    <3>2. QED
      BY <3>1, NewTransactionType
  <2>2. QED
    BY <2>1 DEF PeerTransactions
<1>3. PeerGenesis \subseteq Block
  BY <1>1, GenesisType DEF PeerGenesis
<1>4. PeerBases \subseteq Block
  BY <1>1, <1>3 DEF PeerBases
<1>5. QED
  BY <1>2, <1>3, <1>4

(* The blocks that peers mine are blocks that mineBlock makes.             *)
LEMMA PeerMinedType ==
  ASSUME TypeOK, NEW base \in PeerBases, NEW b \in PeerMined(base)
  PROVE  /\ b \in Block
         /\ \E g \in Int, h \in Hash, p \in Port, d \in Seq(Transaction), t \in Nat \ {0} :
              b \in MinedBlock(g, h, p, d, t)
<1>1. now \in Nat \ {0} /\ Peers \subseteq Port /\ Garbage \subseteq Int
  BY NodeAssumption, ValuesAssumption DEF TypeOK
<1>2. PICK g \in Garbage, p \in Peers,
           data \in {<<>>} \cup {<<t>> : t \in {t \in PeerTransactions : t.timestamp = now}} :
        b \in MinedBlock(g, base.blockHash, p, data, now)
  <2> DEFINE results(g, p, data) == MinedBlock(g, base.blockHash, p, data, now)
             bodies == {<<>>} \cup {<<t>> : t \in {t \in PeerTransactions : t.timestamp = now}}
  <2>1. PeerMined(base) = UNION {results(g, p, data) : g \in Garbage, p \in Peers, data \in bodies}
    BY DEF PeerMined
  <2> HIDE DEF results, bodies
  <2>2. \E g \in Garbage, p \in Peers, data \in bodies : b \in results(g, p, data)
    BY <2>1
  <2> QED BY <2>2 DEF results, bodies
<1>3. g \in Int /\ p \in Port /\ base.blockHash \in Hash /\ now \in Nat \ {0}
  BY <1>1, PeerDataType DEF Block
<1>4. data \in Seq(Transaction)
  <2>1. <<>> \in Seq(Transaction) /\ \A t \in PeerTransactions : <<t>> \in Seq(Transaction)
    BY PeerDataType
  <2>2. data = <<>> \/ \E t \in PeerTransactions : data = <<t>>
    OBVIOUS
  <2>3. QED
    BY <2>1, <2>2
<1>5. b \in Block
  BY <1>2, <1>3, <1>4, MinedBlockType
<1>6. QED
  BY <1>2, <1>3, <1>4, <1>5

(* The peers send messages.                                                *)
LEMMA PeerMessagesType ==
  ASSUME TypeOK
  PROVE  PeerMessages \subseteq Message
<1>1. PeerTransactions \subseteq Transaction /\ PeerGenesis \subseteq Block /\ PeerBases \subseteq Block
  BY PeerDataType
<1>2. ASSUME NEW base \in PeerBases PROVE PeerMined(base) \subseteq Block
  BY PeerMinedType
<1>3. ASSUME NEW m \in PeerMessages PROVE m \in Message
  <2>1. CASE \E t \in PeerTransactions : m = TransactionMessage(t)
    BY <1>1, <2>1, MessageTypes
  <2>2. CASE \E b \in PeerGenesis \cup UNION {PeerMined(base) : base \in PeerBases} : m = BlockMessage(b)
    <3>1. PICK b \in PeerGenesis \cup UNION {PeerMined(base) : base \in PeerBases} : m = BlockMessage(b)
      BY <2>2
    <3>2. b \in Block
      BY <1>1, <1>2
    <3>3. BlockMessage(b) \in Message
      BY <3>2, MessageTypes
    <3>4. QED
      BY <3>1, <3>3
  <2>3. CASE m = ChainMessage(<<>>)
    <3>1. <<>> \in Seq(Block)
      OBVIOUS
    <3>2. QED
      BY <2>3, <3>1, MessageTypes
  <2>4. CASE \E base \in PeerBases : m = ChainMessage(<<base>>)
    <3>1. \A base \in PeerBases : <<base>> \in Seq(Block)
      BY <1>1
    <3>2. QED
      BY <2>4, <3>1, MessageTypes
  <2>5. CASE \E base \in PeerBases : \E b \in PeerMined(base) : m = ChainMessage(<<base, b>>)
    <3>1. \A base \in PeerBases : \A b \in PeerMined(base) : <<base, b>> \in Seq(Block)
      BY <1>1, <1>2
    <3>2. QED
      BY <2>5, <3>1, MessageTypes
  <2>6. QED
    BY <2>1, <2>2, <2>3, <2>4, <2>5 DEF PeerMessages
<1>4. QED
  BY <1>3

(* What the server takes from the network: a message of a peer, one whose  *)
(* end is of an older message, or what the buffer held before.             *)
LEMMA ReceivedType ==
  ASSUME TypeOK, NEW m \in Received
  PROVE  m \in Message
<1>1. buffer \in Message
  BY DEF TypeOK
<1>2. \A p \in PeerMessages : \A r \in Spliced(p, buffer) : r \in Message
  BY <1>1, PeerMessagesType, SplicedType
<1>3. QED
  BY <1>1, <1>2, PeerMessagesType, MessageTypes DEF Received

-----------------------------------------------------------------------------
(* The steps of updatePortList and of a broadcast.                         *)
LEMMA BroadcastTypes ==
  ASSUME TypeOK, NEW th \in Senders,
         ClearPortList(th) \/ FillPortList(th) \/ Record(th) \/ ChainMsg(th)
  PROVE  TypeOK'
<1>0. th \in Threads
  BY DEF Senders, Threads
<1>1. CASE ClearPortList(th)
  BY <1>0, <1>1 DEF ClearPortList, At, Goto, TypeOK, Steps, account, books, mail, ledger, updates, rounds
<1>2. CASE FillPortList(th)
  <2>1. PICK found \in PortScans : portList' = portList \o found
    BY <1>2 DEF FillPortList
  <2>2. portList' \in Seq(Peers)
    <3>1. portList \in Seq(Peers) /\ found \in Seq(Peers)
      BY NodeAssumption DEF TypeOK
    <3>2. QED
      BY <2>1, <3>1
  <2>3. pc' \in [Threads -> Steps] /\ running' \in BOOLEAN
    BY <1>0, <1>2 DEF FillPortList, Goto, TypeOK, Steps
  <2>4. QED
    BY <1>2, <2>2, <2>3 DEF FillPortList, TypeOK, account, books, mail, ledger, updates, rounds
<1>3. CASE Record(th)
  <2>1. outMsgs' \in Seq(Message)
    <3>1. outgoing[th] \in Seq(Message) /\ outMsgs \in Seq(Message)
      BY DEF TypeOK
    <3>2. \/ outMsgs' = outMsgs \o outgoing[th]
          \/ outMsgs' = outMsgs \o SubSeq(outgoing[th], 2, Len(outgoing[th]))
      BY <1>3 DEF Record, Pushed
    <3>3. SubSeq(outgoing[th], 2, Len(outgoing[th])) \in Seq(Message)
      BY <3>1, SubSeqProperties
    <3>4. QED
      BY <3>1, <3>2, <3>3, ConcatProperties
  <2>2. outgoing' \in [Senders -> Seq(Message)]
    BY <1>3 DEF Record, TypeOK
  <2>3. pc' \in [Threads -> Steps]
    BY <1>3 DEF Record, TypeOK, Steps, Threads, Senders
  <2>4. QED
    BY <1>3, <2>1, <2>2, <2>3 DEF Record, TypeOK, account, ports, books, ledger, updates, rounds
<1>4. CASE ChainMsg(th)
  <2>1. outgoing' \in [Senders -> Seq(Message)]
    <3>1. Append(outgoing[th], ChainMessage(chain)) \in Seq(Message)
      BY MessageTypes DEF TypeOK
    <3>2. QED
      BY <1>4, <3>1 DEF ChainMsg, TypeOK
  <2>2. QED
    BY <1>0, <1>4, <2>1 DEF ChainMsg, At, Goto, TypeOK, Steps, account, ports, books, ledger, updates, rounds
<1>5. QED
  BY <1>1, <1>2, <1>3, <1>4

-----------------------------------------------------------------------------
(* The update of the balance, the pool and the list of transactions.       *)
LEMMA HandlerTypes ==
  ASSUME TypeOK, NEW th \in Handlers,
         Load(th) \/ Store(th) \/ PoolTx(th) \/ RecordTx(th)
  PROVE  TypeOK'
<1>0. th \in Threads /\ tx[th] \in Transaction /\ loaded[th] \in Int
  BY DEF Handlers, Threads, TypeOK
<1>1. CASE Load(th)
  BY <1>0, <1>1 DEF Load, At, Goto, TypeOK, Steps, ports, books, mail, ledger, updates, rounds
<1>2. CASE Store(th)
  <2>1. tx[th].amount \in Int
    BY <1>0 DEF Transaction
  <2>2. balance' \in Int
    BY <1>0, <1>2, <2>1 DEF Store
  <2>3. QED
    BY <1>0, <1>2, <2>2 DEF Store, At, Goto, TypeOK, Steps, ports, books, mail, ledger, updates, rounds
<1>3. CASE PoolTx(th)
  <2>1. pool' \in Seq(Transaction)
    BY <1>0, <1>3, PushedType DEF PoolTx, TypeOK
  <2>2. QED
    BY <1>0, <1>3, <2>1 DEF PoolTx, At, Goto, TypeOK, Steps, account, ports, books, mail, updates, rounds
<1>4. CASE RecordTx(th)
  <2>1. transactions' \in Seq(Transaction)
    BY <1>0, <1>4, PushedType DEF RecordTx, TypeOK
  <2>2. outgoing' \in [Senders -> Seq(Message)]
    <3>1. th = "txn" => <<TransactionMessage(tx["txn"])>> \in Seq(Message)
      BY <1>0, MessageTypes
    <3>2. QED
      BY <1>4, <3>1 DEF RecordTx, TypeOK
  <2>3. QED
    BY ZenonT(60), <1>0, <1>4, <2>1, <2>2
       DEF RecordTx, At, Goto, TypeOK, Steps, account, ports, ledger, updates, rounds
<1>5. QED
  BY <1>1, <1>2, <1>3, <1>4

(* The thread of makeSleepTransaction.                                     *)
LEMMA TxnTypes ==
  ASSUME TypeOK, TSleep \/ TDraw \/ TAt
  PROVE  TypeOK'
<1>0. "txn" \in Threads /\ "txn" \in Handlers
  BY DEF Threads, Handlers
<1>1. CASE TSleep
  <2>1. now' \in Nat \ {0}
    BY <1>1, LaterType DEF TSleep
  <2>2. QED
    BY <1>0, <1>1, <2>1 DEF TSleep, At, Goto, TypeOK, Steps, account, ports, books, mail, ledger, updates
<1>2. CASE TDraw
  <2>1. index' \in Nat
    BY <1>2 DEF TDraw, TypeOK
  <2>2. pc' \in [Threads -> Steps] /\ running' \in BOOLEAN
    BY <1>0, <1>2 DEF TDraw, Raise, Dies, Goto, TypeOK, Steps
  <2>3. QED
    BY <1>2, <2>1, <2>2 DEF TDraw, TypeOK, account, books, mail, ledger, updates, rounds
<1>3. CASE TAt
  <2>1. tx' \in [Handlers -> Transaction]
    <3>1. CASE index \notin DOMAIN portList
      BY <1>3, <3>1 DEF TAt, TypeOK
    <3>2. CASE index \in DOMAIN portList
      <4>1. PICK amount \in Amounts :
              tx' = [tx EXCEPT !["txn"] = NewTransaction(Me, portList[index], amount, now)]
        BY <1>3, <3>2 DEF TAt
      <4>2. portList[index] \in Peers
        BY <3>2 DEF TypeOK
      <4>3. Me \in Port /\ portList[index] \in Port /\ amount \in Int /\ now \in Nat
        BY <4>2, NodeAssumption, AmountsType DEF TypeOK
      <4>4. NewTransaction(Me, portList[index], amount, now) \in Transaction
        BY <4>3, NewTransactionType
      <4>5. QED
        BY <4>1, <4>4 DEF TypeOK
    <3>3. QED
      BY <3>1, <3>2
  <2>2. pc' \in [Threads -> Steps] /\ running' \in BOOLEAN
    BY <1>0, <1>3 DEF TAt, Raise, Dies, Goto, TypeOK, Steps
  <2>3. QED
    BY <1>3, <2>1, <2>2 DEF TAt, TypeOK, ports, books, mail, ledger, updates, rounds
<1>4. QED
  BY <1>1, <1>2, <1>3

-----------------------------------------------------------------------------
(* The broadcast of a block, whose first message it is.                    *)
LEMMA BlockMsgType ==
  ASSUME TypeOK, NEW th \in Updaters, BlockMsg(th)
  PROVE  outgoing' \in [Senders -> Seq(Message)]
<1>1. BlockMessage(block[th]) \in Message
  BY MessageTypes DEF TypeOK
<1>2. <<BlockMessage(block[th])>> \in Seq(Message)
  BY <1>1
<1>3. QED
  BY <1>2 DEF BlockMsg, TypeOK

(* m_candidateblock and m_blocks.                                          *)
LEMMA BookkeepTypes ==
  ASSUME TypeOK, NEW th \in Updaters, Bookkeep(th)
  PROVE  TypeOK'
<1>0. th \in Threads /\ block[th] \in Block /\ blocks \in Seq(Block)
  BY DEF Updaters, Threads, TypeOK
<1>1. CASE Candidate(th)
  <2>1. pc' \in [Threads -> Steps] /\ running' \in BOOLEAN
    BY <1>0, <1>1 DEF Candidate, Goto, TypeOK, Steps
  <2>2. candidateblock' \in Block
    BY <1>0, <1>1 DEF Candidate
  <2>3. QED
    BY <1>1, <2>1, <2>2 DEF Candidate, TypeOK, account, ports, mail, ledger, updates, rounds
<1>2. CASE Keep(th)
  <2>1. blocks' \in Seq(Block)
    BY <1>0, <1>2, PushedType DEF Keep
  <2>2. outgoing' \in [Senders -> Seq(Message)]
    BY <1>2, BlockMsgType DEF Keep, TypeOK
  <2>3. pc' \in [Threads -> Steps] /\ running' \in BOOLEAN
    BY <1>0, <1>2 DEF Keep, Goto, TypeOK, Steps, Updaters
  <2>4. QED
    BY <1>2, <2>1, <2>2, <2>3 DEF Keep, TypeOK, account, ports, ledger, updates, rounds
<1>3. CASE Reset(th)
  <2>1. pc' \in [Threads -> Steps] /\ running' \in BOOLEAN
    BY <1>0, <1>3 DEF Reset, Goto, TypeOK, Steps
  <2>2. candidateblock' \in Block
    BY <1>3, EmptyBlockType DEF Reset
  <2>3. QED
    BY <1>3, <2>1, <2>2 DEF Reset, TypeOK, account, ports, mail, ledger, updates, rounds
<1>4. QED
  BY <1>1, <1>2, <1>3 DEF Bookkeep

-----------------------------------------------------------------------------
(* updateChain(const Block&).  Its callers go on in steps of their own.    *)
LEMMA AfterType ==
  ASSUME NEW th \in Updaters
  PROVE  AfterTrue(th) \in Steps /\ AfterFalse(th) \in Steps
BY DEF AfterTrue, AfterFalse, Steps, Updaters

(* A thread goes on in one of the steps, or ends.                          *)
LEMMA StepTaken ==
  ASSUME TypeOK, NEW th \in Threads, NEW step \in Steps, Goto(th, step) \/ Raise(th) \/ Dies
  PROVE  pc' \in [Threads -> Steps] /\ running' \in BOOLEAN
<1>1. "listen" \in Steps
  BY DEF Steps
<1>2. pc \in [Threads -> Steps] /\ running \in BOOLEAN
  BY DEF TypeOK
<1>3. QED
  BY <1>1, <1>2 DEF Goto, Raise, Dies

(* The steps of updateChain.                                               *)
LEMMA UpdateChainTypes ==
  ASSUME TypeOK, NEW th \in Updaters, UpdateChain(th)
  PROVE  TypeOK'
<1>0. /\ th \in Threads /\ block[th] \in Block /\ difference[th] \in Seq(Transaction)
      /\ chain \in Seq(Block) /\ pool \in Seq(Transaction)
  BY DEF Updaters, Threads, TypeOK
<1>1. CASE TestEmpty(th)
  <2>1. \/ Goto(th, "validate") \/ Goto(th, "validatePlace") \/ Goto(th, AfterFalse(th))
    BY <1>1 DEF TestEmpty
  <2>2. pc' \in [Threads -> Steps] /\ running' \in BOOLEAN
    <3>1. {"validate", "validatePlace", AfterFalse(th)} \subseteq Steps
      BY AfterType DEF Steps
    <3>2. QED
      BY <1>0, <2>1, <3>1, StepTaken
  <2>3. QED
    BY <1>1, <2>2 DEF TestEmpty, TypeOK, account, ports, books, mail, ledger, updates, rounds
<1>2. CASE ValidatePlace(th)
  <2>1. PICK o \in validateBlock(chain, block[th]) :
          CASE o = "valid"   -> Goto(th, "place")
            [] o = "invalid" -> Goto(th, AfterTrue(th))
            [] o = "throw"   -> Raise(th)
            [] o = "crash"   -> Dies
    BY <1>2 DEF ValidatePlace
  <2>2. o \in Outcome
    BY <1>0, ValidateBlockOutcome
  <2>3. pc' \in [Threads -> Steps] /\ running' \in BOOLEAN
    <3>1. Goto(th, "place") \/ Goto(th, AfterTrue(th)) \/ Raise(th) \/ Dies
      BY <2>1, <2>2 DEF Outcome
    <3>2. {"place", AfterTrue(th)} \subseteq Steps
      BY AfterType DEF Steps
    <3>3. QED
      BY <1>0, <3>1, <3>2, StepTaken
  <2>4. QED
    BY <1>2, <2>3 DEF ValidatePlace, TypeOK, account, ports, books, mail, ledger, updates, rounds
<1>3. CASE Validate(th)
  <2>1. PICK o \in validateBlock(chain, block[th]) :
          CASE o = "valid"   -> Goto(th, "push")
            [] o = "invalid" -> Goto(th, "sendBack")
            [] o = "throw"   -> Raise(th)
            [] o = "crash"   -> Dies
    BY <1>3 DEF Validate
  <2>2. o \in Outcome
    BY <1>0, ValidateBlockOutcome
  <2>3. pc' \in [Threads -> Steps] /\ running' \in BOOLEAN
    BY ZenonT(60), <1>0, <2>1, <2>2 DEF Outcome, Goto, Raise, Dies, TypeOK, Steps
  <2>4. QED
    BY <1>3, <2>3 DEF Validate, TypeOK, account, ports, books, mail, ledger, updates, rounds
<1>4. CASE Place(th) \/ Push(th)
  <2>1. chain' \in Seq(Block)
    BY <1>0, <1>4, PushedType DEF Place, Push
  <2>2. pc' \in [Threads -> Steps] /\ running' \in BOOLEAN
    <3>1. {"remove", AfterTrue(th)} \subseteq Steps
      BY AfterType DEF Steps
    <3>2. QED
      BY <1>0, <1>4, <3>1, StepTaken DEF Place, Push
  <2>3. QED
    BY <1>4, <2>1, <2>2 DEF Place, Push, TypeOK, account, ports, books, mail, updates, rounds
<1>5. CASE RemoveFromPool(th)
  <2>1. Difference(pool, BlockTransactions(block[th])) \in Seq(Transaction)
    BY <1>0, BlockTransactionsType, DifferenceType
  <2>2. difference' \in [Updaters -> Seq(Transaction)]
    BY <1>5, <2>1 DEF RemoveFromPool, TypeOK
  <2>3. pc' \in [Threads -> Steps] /\ running' \in BOOLEAN
    BY <1>0, <1>5 DEF RemoveFromPool, Goto, Raise, Dies, TypeOK, Steps
  <2>4. QED
    BY <1>5, <2>2, <2>3 DEF RemoveFromPool, TypeOK, account, ports, books, mail, ledger, rounds
<1>6. CASE Assign(th)
  <2>1. <<>> \in Seq(Transaction)
    OBVIOUS
  <2>2. QED
    BY <1>0, <1>6, <2>1, AfterType DEF Assign, At, Goto, TypeOK, account, ports, books, mail, rounds
<1>7. CASE SendBack(th)
  <2>1. pool \o Difference(BlockTransactions(block[th]), ChainTransactions(chain)) \in Seq(Transaction)
    BY <1>0, BlockTransactionsType, ChainTransactionsType, DifferenceType
  <2>2. pool' \in Seq(Transaction)
    BY <1>0, <1>7, <2>1 DEF SendBack
  <2>3. pc' \in [Threads -> Steps] /\ running' \in BOOLEAN
    <3>1. Raise(th) \/ Goto(th, AfterFalse(th))
      BY <1>7 DEF SendBack
    <3>2. QED
      BY <1>0, <3>1, AfterType, StepTaken
  <2>4. QED
    BY <1>7, <2>2, <2>3 DEF SendBack, TypeOK, account, ports, books, mail, updates, rounds
<1>8. QED
  BY <1>1, <1>2, <1>3, <1>4, <1>5, <1>6, <1>7 DEF UpdateChain

-----------------------------------------------------------------------------
(* The thread of main.                                                     *)
LEMMA MainTypes ==
  ASSUME TypeOK, MGenesis
  PROVE  TypeOK'
<1>0. "main" \in Threads /\ "main" \in Updaters
  BY DEF Threads, Updaters
<1>1. now' \in Nat \ {0}
  BY LaterType DEF MGenesis
<1>2. PICK g \in Garbage : \E genesis \in makeGenesisBlock(g, now') :
        block' = [block EXCEPT !["main"] = genesis]
  BY DEF MGenesis
<1>3. g \in Int /\ now' \in Nat
  BY <1>1, ValuesAssumption
<1>4. \A genesis \in makeGenesisBlock(g, now') : genesis \in Block
  BY <1>3, GenesisType
<1>5. block' \in [Updaters -> Block]
  BY <1>2, <1>4 DEF TypeOK
<1>6. QED
  BY <1>0, <1>1, <1>5 DEF MGenesis, At, Goto, TypeOK, Steps, account, ports, books, mail, ledger

(* The thread of mineBlock.                                                *)
LEMMA MinerTypes ==
  ASSUME TypeOK, BMine \/ BTip \/ BTake \/ BEmpty \/ BAnnounce
  PROVE  TypeOK'
<1>0. /\ "miner" \in Threads /\ "miner" \in Updaters
      /\ block["miner"] \in Block /\ pool \in Seq(Transaction) /\ chain \in Seq(Block)
      /\ now \in Nat \ {0}
  BY DEF Threads, Updaters, TypeOK
<1>1. CASE BMine
  <2>1. now' \in Nat \ {0}
    BY <1>1, LaterType DEF BMine
  <2>2. QED
    BY <1>0, <1>1, <2>1 DEF BMine, At, Goto, TypeOK, Steps, account, ports, books, mail, ledger, updates
<1>2. CASE BTip
  <2>1. ASSUME NEW h \in Hash PROVE [block["miner"] EXCEPT !.prevHash = h] \in Block
    BY <1>0 DEF Block
  <2>2. NoHash \in Hash /\ (chain # <<>> => Last(chain).blockHash \in Hash)
    <3>1. chain # <<>> => Last(chain) \in Block
      BY <1>0 DEF Last
    <3>2. QED
      BY <3>1 DEF NoHash, Hash, Block
  <2>3. block' = block \/ \E h \in Hash : block' = [block EXCEPT !["miner"].prevHash = h]
    BY <1>2, <2>2 DEF BTip
  <2>4. block' \in [Updaters -> Block]
    BY <1>0, <2>1, <2>3 DEF TypeOK
  <2>5. pc' \in [Threads -> Steps] /\ running' \in BOOLEAN
    BY <1>0, <1>2 DEF BTip, Goto, Dies, TypeOK, Steps
  <2>6. QED
    BY <1>2, <2>4, <2>5 DEF BTip, TypeOK, account, ports, books, mail, ledger, rounds
<1>3. CASE BTake
  <2>1. [block["miner"] EXCEPT !.data = pool] \in Block
    BY <1>0 DEF Block
  <2>2. block' \in [Updaters -> Block]
    BY <1>3, <2>1 DEF BTake, TypeOK
  <2>3. QED
    BY <1>0, <1>3, <2>2 DEF BTake, At, Goto, TypeOK, Steps, account, ports, books, mail, ledger, rounds
<1>4. CASE BEmpty
  <2>1. PICK g \in Garbage :
          \E b \in MinedBlock(g, block["miner"].prevHash, Me, block["miner"].data, now) :
            block' = [block EXCEPT !["miner"] = b]
    BY <1>4 DEF BEmpty
  <2>2. /\ g \in Int /\ Me \in Port /\ now \in Nat \ {0}
        /\ block["miner"].prevHash \in Hash /\ block["miner"].data \in Seq(Transaction)
    BY <1>0, NodeAssumption, ValuesAssumption DEF Block
  <2>3. \A b \in MinedBlock(g, block["miner"].prevHash, Me, block["miner"].data, now) : b \in Block
    BY <2>2, MinedBlockType
  <2>4. block' \in [Updaters -> Block]
    BY <1>0, <2>1, <2>3 DEF TypeOK
  <2>5. pool' \in Seq(Transaction)
    BY <1>4 DEF BEmpty
  <2>6. QED
    BY <1>0, <1>4, <2>4, <2>5
       DEF BEmpty, At, Goto, TypeOK, Steps, account, ports, books, mail, rounds
<1>5. CASE BAnnounce
  <2>1. outgoing' \in [Senders -> Seq(Message)]
    BY <1>0, <1>5, BlockMsgType DEF BAnnounce
  <2>2. QED
    BY <1>0, <1>5, <2>1 DEF BAnnounce, At, Goto, TypeOK, Steps, account, ports, books, ledger, updates, rounds
<1>6. QED
  BY <1>1, <1>2, <1>3, <1>4, <1>5

-----------------------------------------------------------------------------
(* What the server takes from the network, and what it makes of it.        *)
LEMMA ReceivedTypes ==
  ASSUME TypeOK, NEW m \in Received, NEW msg \in read_message(m)
  PROVE  /\ m \in Message /\ msg \in Message /\ Append(inMsgs, msg) \in Seq(Message)
         /\ \A t \in Decoded(msg.m_t, EmptiedTransactions) : t \in Transaction
         /\ \A b \in Decoded(msg.m_b, EmptiedBlocks) : b \in Block
         /\ \A c \in Decoded(msg.m_bc, {<<>>}) : c \in Seq(Block)
<1>1. m \in Message
  BY ReceivedType
<1>2. msg \in Message
  BY <1>1, ReadMessageType
<1>3. msg.m_t \in Transaction /\ msg.m_b \in Block /\ msg.m_bc \in Seq(Block) /\ <<>> \in Seq(Block)
  BY <1>2 DEF Message
<1>4. Append(inMsgs, msg) \in Seq(Message)
  BY <1>2 DEF TypeOK
<1>5. QED
  BY <1>1, <1>2, <1>3, <1>4, EmptiedType DEF Decoded

(* The thread of Peer2Peer::server: the messages.                          *)
LEMMA ReceiveTypes ==
  ASSUME TypeOK, SReceive
  PROVE  TypeOK'
<1>0. "server" \in Threads /\ "server" \in Handlers /\ "server" \in Updaters
  BY DEF Threads, Handlers, Updaters
<1>1. PICK m \in Received :
        SUnreadable(m) \/ SDecodeCrash(m) \/ STransaction(m) \/ SBlock(m) \/ SChain(m)
  BY DEF SReceive
<1>2. m \in Message
  BY ReceivedType
<1>3. CASE SUnreadable(m)
  <2>1. pc' \in [Threads -> Steps] /\ running' \in BOOLEAN
    BY <1>0, <1>3 DEF SUnreadable, Raise, Goto, Dies, TypeOK, Steps
  <2>2. QED
    BY <1>2, <1>3, <2>1 DEF SUnreadable, TypeOK, account, ports, books, ledger, updates, rounds
<1>4. CASE SDecodeCrash(m)
  <2>1. inMsgs' \in Seq(Message)
    BY <1>4, ReceivedTypes DEF SDecodeCrash
  <2>2. QED
    BY <1>2, <1>4, <2>1 DEF SDecodeCrash, Dies, TypeOK, account, ports, books, ledger, updates, rounds
<1>5. CASE STransaction(m)
  <2>1. inMsgs' \in Seq(Message) /\ tx' \in [Handlers -> Transaction]
    <3>1. PICK msg \in read_message(m) :
            /\ inMsgs' = Append(inMsgs, msg)
            /\ \E t \in Decoded(msg.m_t, EmptiedTransactions) : tx' = [tx EXCEPT !["server"] = t]
      BY <1>5 DEF STransaction
    <3>2. inMsgs' \in Seq(Message) /\ \A t \in Decoded(msg.m_t, EmptiedTransactions) : t \in Transaction
      BY <3>1, ReceivedTypes
    <3>3. QED
      BY <1>0, <3>1, <3>2 DEF TypeOK
  <2>2. pc' \in [Threads -> Steps] /\ running' \in BOOLEAN
    BY <1>0, <1>5 DEF STransaction, Goto, TypeOK, Steps
  <2>3. QED
    BY <1>2, <1>5, <2>1, <2>2 DEF STransaction, TypeOK, ports, books, ledger, updates, rounds
<1>6. CASE SBlock(m)
  <2>1. inMsgs' \in Seq(Message) /\ block' \in [Updaters -> Block]
    <3>1. PICK msg \in read_message(m) :
            /\ inMsgs' = Append(inMsgs, msg)
            /\ \E b \in Decoded(msg.m_b, EmptiedBlocks) : block' = [block EXCEPT !["server"] = b]
      BY <1>6 DEF SBlock
    <3>2. inMsgs' \in Seq(Message) /\ \A b \in Decoded(msg.m_b, EmptiedBlocks) : b \in Block
      BY <3>1, ReceivedTypes
    <3>3. QED
      BY <1>0, <3>1, <3>2 DEF TypeOK
  <2>2. pc' \in [Threads -> Steps] /\ running' \in BOOLEAN
    BY <1>0, <1>6 DEF SBlock, Goto, TypeOK, Steps
  <2>3. QED
    BY <1>2, <1>6, <2>1, <2>2 DEF SBlock, TypeOK, account, ports, books, ledger, rounds
<1>7. CASE SChain(m)
  <2>1. inMsgs' \in Seq(Message) /\ candidatechain' \in Seq(Block) /\ oldchain' \in Seq(Block)
    BY <1>7, ReceivedTypes DEF SChain, TypeOK
  <2>2. pc' \in [Threads -> Steps] /\ running' \in BOOLEAN
    BY <1>0, <1>7 DEF SChain, Goto, TypeOK, Steps
  <2>3. QED
    BY <1>2, <1>7, <2>1, <2>2 DEF SChain, TypeOK, account, ports, ledger, rounds
<1>8. QED
  BY <1>1, <1>3, <1>4, <1>5, <1>6, <1>7

(* The thread of Peer2Peer::server: the handlers.                          *)
LEMMA ServerTypes ==
  ASSUME TypeOK,
         SChainTest \/ SChainLength \/ SChainRemove \/ SChainAssign \/ SChainBack
  PROVE  TypeOK'
<1>0. /\ "server" \in Threads /\ "server" \in Updaters /\ block["server"] \in Block
      /\ chain \in Seq(Block) /\ pool \in Seq(Transaction) /\ candidatechain \in Seq(Block)
  BY DEF Threads, Updaters, TypeOK
<1>1. CASE SChainTest
  <2>1. PICK o \in isValidChain(chain) :
          CASE o = "valid"   -> Goto("server", "chainLength")
            [] o = "invalid" -> Goto("server", "chainBack")
            [] o = "throw"   -> Raise("server")
    BY <1>1 DEF SChainTest
  <2>2. o \in {"valid", "invalid", "throw"}
    BY <1>0, IsValidChainOutcome
  <2>3. pc' \in [Threads -> Steps] /\ running' \in BOOLEAN
    BY ZenonT(60), <1>0, <2>1, <2>2 DEF Goto, Raise, Dies, TypeOK, Steps
  <2>4. QED
    BY <1>1, <2>3 DEF SChainTest, TypeOK, account, ports, books, mail, ledger, updates, rounds
<1>2. CASE SChainLength
  <2>1. pc' \in [Threads -> Steps] /\ running' \in BOOLEAN
    BY <1>0, <1>2 DEF SChainLength, Goto, Dies, TypeOK, Steps
  <2>2. QED
    BY <1>2, <2>1 DEF SChainLength, TypeOK, account, ports, books, mail, ledger, updates, rounds
<1>3. CASE SChainRemove
  BY <1>0, <1>3 DEF SChainRemove, At, Goto, TypeOK, Steps, account, ports, books, mail, ledger, rounds
<1>4. CASE SChainAssign
  <2>1. <<>> \in Seq(Transaction)
    OBVIOUS
  <2>2. QED
    BY <1>0, <1>4, <2>1 DEF SChainAssign, At, Goto, TypeOK, Steps, account, ports, books, mail, rounds
<1>5. CASE SChainBack
  <2>1. pool \o Difference(ChainTransactions(candidatechain), ChainTransactions(chain)) \in Seq(Transaction)
    BY <1>0, ChainTransactionsType, DifferenceType
  <2>2. pool' \in Seq(Transaction) /\ candidatechain' \in Seq(Block)
    <3>1. <<>> \in Seq(Block)
      OBVIOUS
    <3>2. QED
      BY <1>0, <1>5, <2>1, <3>1 DEF SChainBack
  <2>3. QED
    BY <1>0, <1>5, <2>2 DEF SChainBack, Goto, TypeOK, Steps, account, ports, mail, updates, rounds
<1>6. QED
  BY <1>1, <1>2, <1>3, <1>4, <1>5

-----------------------------------------------------------------------------
(* Next, with the steps that several threads have taken together.          *)
LEMMA NextCases ==
  ASSUME Next
  PROVE  \/ \E th \in Senders : ClearPortList(th) \/ FillPortList(th) \/ Record(th)
         \/ \E th \in Senders \ {"txn"} : ChainMsg(th)
         \/ \E th \in Handlers : Load(th) \/ Store(th) \/ PoolTx(th) \/ RecordTx(th)
         \/ TSleep \/ TDraw \/ TAt
         \/ \E th \in Updaters : UpdateChain(th) \/ Bookkeep(th)
         \/ MGenesis
         \/ BMine \/ BTip \/ BTake \/ BEmpty \/ BAnnounce
         \/ SReceive
         \/ SChainTest \/ SChainLength \/ SChainRemove \/ SChainAssign \/ SChainBack
         \/ DataRace
<1>1. /\ "main" \in Senders \ {"txn"} /\ "miner" \in Senders \ {"txn"} /\ "txn" \in Senders
      /\ "main" \in Updaters /\ "miner" \in Updaters /\ "server" \in Updaters
  BY DEF Senders, Updaters
<1>2. CASE Main
  BY <1>1, <1>2 DEF Main, Broadcast
<1>3. CASE Server
  BY <1>1, <1>3 DEF Server
<1>4. CASE Txn
  BY <1>1, <1>4 DEF Txn
<1>5. CASE Miner
  BY <1>1, <1>5 DEF Miner, Broadcast
<1>6. QED
  BY <1>2, <1>3, <1>4, <1>5 DEF Next

(* A node that has just started.                                           *)
LEMMA InitTypes ==
  ASSUME Init
  PROVE  TypeOK
<1>1. DefaultTransaction(0) \in Transaction /\ EmptyBlock \in Block /\ EmptyMessage \in Message
  BY DefaultTransactionType, EmptyBlockType, MessageTypes
<1>2. Thousandths * ACCOUNT \in Int /\ portList \in Seq(Peers)
  BY ValuesAssumption, NodeAssumption DEF Init, Thousandths
<1>3. pc \in [Threads -> Steps]
  BY DEF Init, Threads, Steps
<1>4. QED
  BY <1>1, <1>2, <1>3 DEF Init, TypeOK

(* Every step of every thread.                                             *)
LEMMA NextTypes ==
  ASSUME TypeOK, Next
  PROVE  TypeOK'
<1>1. CASE DataRace
  BY <1>1 DEF DataRace, Dies, TypeOK, account, ports, books, mail, ledger, updates, rounds
<1>2. QED
  BY <1>1, NextCases, BroadcastTypes, HandlerTypes, TxnTypes, BookkeepTypes, UpdateChainTypes,
     MainTypes, MinerTypes, ReceiveTypes, ServerTypes

(* Every member and local of a running node has a value of its type.       *)
THEOREM TypeCorrect == Spec => []TypeOK
<1>1. TypeOK /\ UNCHANGED vars => TypeOK'
  BY DEF TypeOK, vars, account, ports, books, mail, ledger, updates, rounds
<1>2. TypeOK /\ [Next]_vars => TypeOK'
  BY <1>1, NextTypes
<1>3. Init => TypeOK
  BY InitTypes
<1>4. QED
  BY <1>2, <1>3, PTL DEF Spec

-----------------------------------------------------------------------------
(* What holds whatever overlapped calls of sha512 return: at the steps     *)
(* behind the test of the empty chain there is a chain, a block that is    *)
(* placed without that test claims to be a genesis block, and a block that *)
(* is about to be pushed, or has been, extends a block of the chain.       *)
AfterTest == {"validate", "push", "remove", "assign", "sendBack",
              "chainLength", "chainRemove", "chainAssign", "chainBack"}
Placing   == {"validatePlace", "place"}

Ordered ==
  \A th \in Updaters : /\ pc[th] \in AfterTest => chain # <<>>
                       /\ pc[th] \in Placing => block[th].pow = 0

Extends(b, last) == b.prevHash = last.blockHash /\ b.timestamp > last.timestamp
Extending ==
  /\ \A th \in Updaters : pc[th] = "push" => \E j \in DOMAIN chain : Extends(block[th], chain[j])
  /\ \A i \in DOMAIN chain : chain[i].pow = 1 =>
       \E j \in DOMAIN chain : j < i /\ Extends(chain[i], chain[j])

Base == TypeOK /\ Ordered /\ Extending

(* The steps of which this, or the invariant below, says something: the    *)
(* server has a received block at "candidate", the miner one of its own.   *)
Critical == AfterTest \cup Placing \cup {"test", "load", "store", "poolTx"}
Harmless(th, step) ==
  /\ step \notin Critical
  /\ th = "server" => step # "candidate"
  /\ th = "miner" => step \notin {"candidate", "keep"}

(* A thread goes on to a step of no interest and leaves the chain, the     *)
(* pool and what is being handled alone.                                   *)
Quiet ==
  /\ UNCHANGED <<chain, pool, block, difference, tx, buffer, inMsgs>>
  /\ \A th \in Threads : pc'[th] = pc[th] \/ Harmless(th, pc'[th])

(* What the callers of updateChain do next is of no interest.              *)
LEMMA AfterHarmless ==
  ASSUME NEW th \in Updaters
  PROVE  Harmless(th, AfterTrue(th)) /\ Harmless(th, AfterFalse(th))
BY DEF AfterTrue, AfterFalse, Harmless, Critical, AfterTest, Placing, Updaters

(* What one thread does to the control, as seen by all.                    *)
LEMMA OneMoves ==
  ASSUME TypeOK, NEW th \in Threads, NEW step, Goto(th, step) \/ Raise(th) \/ Dies
  PROVE  /\ \A other \in Threads \ {th} : pc'[other] = pc[other]
         /\ pc'[th] \in {pc[th], step, "listen"}
         /\ Goto(th, step) => pc'[th] = step
         /\ Raise(th) \/ Dies => pc'[th] = pc[th] \/ (th = "server" /\ pc'[th] = "listen")
<1>1. pc \in [Threads -> Steps]
  BY DEF TypeOK
<1>2. QED
  BY <1>1 DEF Goto, Raise, Dies

(* So it is quiet when the step it goes on to is.                          *)
LEMMA MovesQuietly ==
  ASSUME TypeOK, NEW th \in Threads, NEW step, Goto(th, step) \/ Raise(th) \/ Dies,
         Goto(th, step) => Harmless(th, step)
  PROVE  \A other \in Threads : pc'[other] = pc[other] \/ Harmless(other, pc'[other])
<1>1. \A other : Harmless(other, "listen")
  BY DEF Harmless, Critical, AfterTest, Placing
<1>2. QED
  BY <1>1, OneMoves

(* Broadcasting is quiet.                                                  *)
LEMMA BroadcastQuiet ==
  ASSUME TypeOK, NEW th \in Senders,
         ClearPortList(th) \/ FillPortList(th) \/ Record(th) \/ ChainMsg(th)
  PROVE  Quiet
<1>0. th \in Threads /\ pc \in [Threads -> Steps]
  BY DEF TypeOK, Senders, Threads
<1>1. UNCHANGED <<chain, pool, block, difference, tx, buffer, inMsgs>>
  BY DEF ClearPortList, FillPortList, Record, ChainMsg, account, mail, ledger, updates
<1>2. \A step \in {"fill", "clear", "draw", "chainMessage", "record", "join", "sleep", "pow"} :
        \A other : Harmless(other, step)
  BY DEF Harmless, Critical, AfterTest, Placing
<1>3. CASE ClearPortList(th) \/ FillPortList(th) \/ ChainMsg(th)
  <2>1. \E step \in {"fill", "clear", "draw", "chainMessage", "record"} : Goto(th, step)
    BY <1>3 DEF ClearPortList, FillPortList, ChainMsg
  <2>2. QED
    BY <1>0, <1>1, <1>2, <2>1, MovesQuietly DEF Quiet
<1>4. CASE Record(th)
  <2>1. \A other \in Threads : pc'[other] = pc[other] \/ pc'[other] \in {"join", "sleep", "pow"}
    <3>1. CASE th = "main"
      <4>1. pc' = [pc EXCEPT !["main"] = "join", !["txn"] = "sleep", !["miner"] = "pow"]
        BY <1>4, <3>1 DEF Record
      <4>2. QED
        BY <1>0, <4>1
    <3>2. CASE th = "txn"
      <4>1. pc' = [pc EXCEPT !["txn"] = "sleep"]
        BY <1>4, <3>2 DEF Record
      <4>2. QED
        BY <1>0, <4>1
    <3>3. CASE th = "miner"
      <4>1. pc' = [pc EXCEPT !["miner"] = "pow"]
        BY <1>4, <3>3 DEF Record
      <4>2. QED
        BY <1>0, <4>1
    <3>4. QED
      BY <3>1, <3>2, <3>3 DEF Senders
  <2>2. QED
    BY <1>1, <1>2, <2>1 DEF Quiet
<1>5. QED
  BY <1>3, <1>4

(* The sleep of txn, its record, the puzzle, the announcement, the reset   *)
(* of a candidate, and the end of the process are quiet.                   *)
LEMMA OthersQuiet ==
  ASSUME TypeOK,
         \/ TSleep \/ TDraw \/ BMine \/ BAnnounce \/ DataRace
         \/ \E th \in Handlers : RecordTx(th)
         \/ \E th \in Updaters : Reset(th)
  PROVE  Quiet
<1>0. "txn" \in Threads /\ "miner" \in Threads /\ \A th \in Handlers \cup Updaters : th \in Threads
  BY DEF Handlers, Updaters, Threads
<1>1. UNCHANGED <<chain, pool, block, difference, tx, buffer, inMsgs>>
  BY DEF TSleep, TDraw, BMine, BAnnounce, DataRace, RecordTx, Reset, account, mail, ledger, updates
<1>2. \A step \in {"clear", "at", "tip", "listen", "pow"} : \A other : Harmless(other, step)
  BY DEF Harmless, Critical, AfterTest, Placing
<1>3. \A other : other # "miner" => Harmless(other, "keep")
  BY DEF Harmless, Critical, AfterTest, Placing
<1>4. \A other \in Threads : pc'[other] = pc[other] \/ Harmless(other, pc'[other])
  <2>1. CASE TSleep \/ TDraw
    <3>1. \E step \in {"clear", "at"} : Goto("txn", step) \/ Raise("txn") \/ Dies
      BY <2>1 DEF TSleep, TDraw
    <3>2. QED
      BY <1>0, <1>2, <3>1, MovesQuietly
  <2>2. CASE BMine \/ BAnnounce
    <3>1. \E step \in {"clear", "tip"} : Goto("miner", step)
      BY <2>2 DEF BMine, BAnnounce
    <3>2. QED
      BY <1>0, <1>2, <3>1, MovesQuietly
  <2>3. CASE DataRace
    BY <2>3 DEF DataRace, Dies
  <2>4. ASSUME NEW th \in Handlers, RecordTx(th)
        PROVE  \A other \in Threads : pc'[other] = pc[other] \/ Harmless(other, pc'[other])
    <3>1. \E step \in {"clear", "listen"} : Goto(th, step)
      BY <2>4 DEF RecordTx
    <3>2. QED
      BY <1>0, <1>2, <3>1, MovesQuietly
  <2>5. ASSUME NEW th \in Updaters, Reset(th)
        PROVE  \A other \in Threads : pc'[other] = pc[other] \/ Harmless(other, pc'[other])
    <3>1. Goto(th, IF th = "miner" THEN "pow" ELSE "keep")
      BY <2>5 DEF Reset
    <3>2. Harmless(th, IF th = "miner" THEN "pow" ELSE "keep")
      BY <1>2, <1>3
    <3>3. QED
      BY <1>0, <3>1, <3>2, MovesQuietly
  <2>6. QED
    BY <2>1, <2>2, <2>3, <2>4, <2>5
<1>5. QED
  BY <1>1, <1>4 DEF Quiet

-----------------------------------------------------------------------------
(* Base is kept by a step that leaves the chain alone and leads a thread   *)
(* nowhere that Base speaks of,                                            *)
LEMMA UnguardedStep ==
  ASSUME Base, TypeOK', chain' = chain,
         \A th \in Updaters : \/ pc'[th] = pc[th] /\ block'[th] = block[th]
                              \/ pc'[th] \notin AfterTest \cup Placing
  PROVE  Base'
<1>1. Ordered'
  BY DEF Base, Ordered
<1>2. Extending'
  <2>1. \A th \in Updaters : pc'[th] = "push" => pc[th] = "push" /\ block'[th] = block[th]
    BY DEF AfterTest
  <2>2. QED
    BY <2>1 DEF Base, Extending, Extends
<1>3. QED
  BY <1>1, <1>2 DEF Base

(* and by one that leads a thread where it is right to be.                 *)
LEMMA GuardedStep ==
  ASSUME Base, TypeOK', UNCHANGED <<chain, block>>, NEW th \in Updaters,
         \A other \in Threads \ {th} : pc'[other] = pc[other],
         pc'[th] \in AfterTest => chain # <<>>,
         pc'[th] \in Placing => block[th].pow = 0,
         pc'[th] = "push" => \E j \in DOMAIN chain : Extends(block[th], chain[j])
  PROVE  Base'
<1>0. Updaters \subseteq Threads
  BY DEF Updaters, Threads
<1>1. Ordered'
  BY <1>0 DEF Base, Ordered
<1>2. Extending'
  BY <1>0 DEF Base, Extending, Extends
<1>3. QED
  BY <1>1, <1>2 DEF Base

(* A quiet step is of the first kind.                                      *)
LEMMA QuietBase ==
  ASSUME Base, TypeOK', Quiet
  PROVE  Base'
<1>1. \A th \in Updaters : pc'[th] = pc[th] \/ pc'[th] \notin AfterTest \cup Placing
  BY DEF Quiet, Harmless, Critical, Updaters, Threads
<1>2. QED
  BY <1>1, UnguardedStep DEF Quiet

(* addBlock: the chain keeps its blocks, and grows by the block or, when   *)
(* two threads add at once, perhaps not at all.                            *)
LEMMA ChainGrows ==
  ASSUME TypeOK, NEW th \in Updaters, Place(th) \/ Push(th)
  PROVE  /\ chain' = chain \/ chain' = Append(chain, block[th])
         /\ \A i \in DOMAIN chain : i \in DOMAIN chain' /\ chain'[i] = chain[i]
         /\ \A i \in DOMAIN chain' : \/ i \in DOMAIN chain
                                     \/ /\ chain'[i] = block[th]
                                        /\ \A j \in DOMAIN chain : j < i
         /\ chain' # <<>> => chain'[1] = IF chain = <<>> THEN block[th] ELSE chain[1]
         /\ chain # <<>> => chain' # <<>>
<1>1. chain \in Seq(Block) /\ block[th] \in Block
  BY DEF TypeOK
<1>2. chain' = chain \/ chain' = Append(chain, block[th])
  <2>1. chain' \in Pushed(th, chain, <<block[th]>>)
    BY DEF Place, Push
  <2>2. chain' \in Seq(Block) /\ (chain' = Append(chain, block[th]) \/ chain' = chain)
    BY <1>1, <2>1, PushedType
  <2>3. QED
    BY <2>2
<1>3. CASE chain' = chain
  BY <1>1, <1>3
<1>4. CASE chain' = Append(chain, block[th])
  <2>1. /\ DOMAIN chain = 1 .. Len(chain) /\ DOMAIN chain' = 1 .. Len(chain) + 1 /\ Len(chain) \in Nat
        /\ \A i \in 1 .. Len(chain) : chain'[i] = chain[i]
        /\ chain'[Len(chain) + 1] = block[th]
    BY <1>1, <1>4, AppendProperties
  <2>2. \A i \in DOMAIN chain' : i \in DOMAIN chain \/ i = Len(chain) + 1
    BY <2>1
  <2>3. chain' # <<>>
    BY <1>1, <1>4, AppendProperties
  <2>4. chain'[1] = IF chain = <<>> THEN block[th] ELSE chain[1]
    <3>1. CASE chain = <<>>
      BY <2>1, <3>1
    <3>2. CASE chain # <<>>
      <4>1. 1 \in 1 .. Len(chain)
        BY <1>1, <3>2
      <4>2. QED
        BY <2>1, <3>2, <4>1
    <3>3. QED
      BY <3>1, <3>2
  <2>5. QED
    BY <1>2, <2>1, <2>2, <2>3, <2>4
<1>5. QED
  BY <1>2, <1>3, <1>4

(* Where the two ends of addBlock lead.                                    *)
LEMMA GrowControl ==
  ASSUME TypeOK, NEW th \in Updaters, Place(th) \/ Push(th)
  PROVE  /\ UNCHANGED <<pool, block, difference, tx, buffer, inMsgs>>
         /\ \A other \in Threads \ {th} : pc'[other] = pc[other]
         /\ \/ Place(th) /\ pc[th] = "place" /\ pc'[th] = AfterTrue(th)
            \/ Push(th) /\ pc[th] = "push" /\ pc'[th] = "remove"
<1>1. th \in Threads /\ pc \in [Threads -> Steps]
  BY DEF TypeOK, Updaters, Threads
<1>2. UNCHANGED <<pool, block, difference, tx, buffer, inMsgs>>
  BY DEF Place, Push, account, mail, updates
<1>3. CASE Place(th)
  BY <1>1, <1>2, <1>3 DEF Place, At, Goto
<1>4. CASE Push(th)
  BY <1>1, <1>2, <1>4 DEF Push, At, Goto
<1>5. QED
  BY <1>3, <1>4

(* A chain that grows by a placed or a pushed block.                       *)
LEMMA GrowBase ==
  ASSUME Base, TypeOK', NEW th \in Updaters, Place(th) \/ Push(th)
  PROVE  Base'
<1>0. TypeOK /\ Updaters \subseteq Threads
  BY DEF Base, Updaters, Threads
<1>1. /\ block' = block /\ \A other \in Updaters \ {th} : pc'[other] = pc[other]
      /\ \/ pc[th] = "place" /\ pc'[th] = AfterTrue(th)
         \/ pc[th] = "push" /\ pc'[th] = "remove"
  BY <1>0, GrowControl
<1>2. AfterTrue(th) \notin AfterTest \cup Placing
  BY AfterHarmless DEF Harmless, Critical
<1>3. /\ \A i \in DOMAIN chain : i \in DOMAIN chain' /\ chain'[i] = chain[i]
      /\ \A i \in DOMAIN chain' : \/ i \in DOMAIN chain
                                  \/ chain'[i] = block[th] /\ \A j \in DOMAIN chain : j < i
      /\ chain # <<>> => chain' # <<>>
  BY <1>0, ChainGrows
<1>4. Ordered'
  <2>1. ASSUME NEW other \in Updaters
        PROVE  /\ pc'[other] \in AfterTest => pc[other] \in AfterTest
               /\ pc'[other] \in Placing => pc[other] \in Placing
    BY <1>1, <1>2 DEF AfterTest, Placing
  <2>2. QED
    BY <1>1, <1>3, <2>1 DEF Base, Ordered
<1>5. ASSUME NEW other \in Updaters, pc'[other] = "push"
      PROVE  \E j \in DOMAIN chain' : Extends(block'[other], chain'[j])
  <2>1. pc[other] = "push"
    BY <1>1, <1>2, <1>5 DEF AfterTest
  <2>2. PICK j \in DOMAIN chain : Extends(block[other], chain[j])
    BY <2>1 DEF Base, Extending
  <2>3. j \in DOMAIN chain' /\ chain'[j] = chain[j] /\ block'[other] = block[other]
    BY <1>1, <1>3
  <2>4. QED
    BY <2>2, <2>3
<1>6. ASSUME NEW i \in DOMAIN chain', chain'[i].pow = 1
      PROVE  \E j \in DOMAIN chain' : j < i /\ Extends(chain'[i], chain'[j])
  <2>1. CASE i \in DOMAIN chain
    <3>1. chain'[i] = chain[i]
      BY <1>3, <2>1
    <3>2. PICK j \in DOMAIN chain : j < i /\ Extends(chain[i], chain[j])
      BY <1>6, <2>1, <3>1 DEF Base, Extending
    <3>3. j \in DOMAIN chain' /\ chain'[j] = chain[j]
      BY <1>3
    <3>4. QED
      BY <3>1, <3>2, <3>3
  <2>2. CASE i \notin DOMAIN chain
    <3>1. chain'[i] = block[th] /\ \A j \in DOMAIN chain : j < i
      BY <1>3, <2>2
    <3>2. pc[th] = "push"
      BY <1>1, <1>6, <3>1 DEF Base, Ordered, Placing
    <3>3. PICK j \in DOMAIN chain : Extends(block[th], chain[j])
      BY <3>2 DEF Base, Extending
    <3>4. j \in DOMAIN chain' /\ chain'[j] = chain[j]
      BY <1>3
    <3>5. QED
      BY <3>1, <3>3, <3>4
  <2>3. QED
    BY <2>1, <2>2
<1>7. Extending'
  BY <1>5, <1>6 DEF Extending, Extends
<1>8. QED
  BY <1>4, <1>7 DEF Base

(* Where the test of the empty chain leads,                                *)
LEMMA TestControl ==
  ASSUME TypeOK, NEW th \in Updaters, TestEmpty(th)
  PROVE  /\ UNCHANGED <<chain, pool, block, difference, tx, buffer, inMsgs>> /\ pc[th] = "test"
         /\ \A other \in Threads \ {th} : pc'[other] = pc[other]
         /\ \/ pc'[th] = "validate" /\ chain # <<>>
            \/ /\ pc'[th] = "validatePlace" /\ block[th].pow = 0
               /\ HashesHold => \E g \in Garbage : block[th].merkleRoot = <<DefaultTransaction(g)>>
            \/ pc'[th] = AfterFalse(th)
<1>1. /\ th \in Threads /\ pc \in [Threads -> Steps] /\ now \in Nat /\ Garbage \subseteq Int
  BY ValuesAssumption DEF TypeOK, Updaters, Threads
<1>2. UNCHANGED <<chain, pool, block, difference, tx, buffer, inMsgs>> /\ pc[th] = "test"
  BY DEF TestEmpty, At, account, mail, ledger, updates
<1>3. CASE chain # <<>> /\ Goto(th, "validate")
  BY <1>1, <1>2, <1>3, OneMoves
<1>4. CASE \E g \in Garbage : \E genesis \in makeGenesisBlock(g, now) :
             IF /\ block[th].index = genesis.index
                /\ block[th].prevHash = genesis.prevHash
                /\ block[th].merkleRoot = genesis.merkleRoot
                /\ block[th].pow = genesis.pow
             THEN Goto(th, "validatePlace")
             ELSE Goto(th, AfterFalse(th))
  <2>0. PICK g \in Garbage : \E genesis \in makeGenesisBlock(g, now) :
          \/ /\ block[th].merkleRoot = genesis.merkleRoot /\ block[th].pow = genesis.pow
             /\ Goto(th, "validatePlace")
          \/ Goto(th, AfterFalse(th))
    BY <1>4
  <2>1. PICK genesis \in makeGenesisBlock(g, now) :
          \/ /\ block[th].merkleRoot = genesis.merkleRoot /\ block[th].pow = genesis.pow
             /\ Goto(th, "validatePlace")
          \/ Goto(th, AfterFalse(th))
    BY <2>0
  <2>2. genesis.pow = 0 /\ (HashesHold => genesis.merkleRoot = <<DefaultTransaction(g)>>)
    <3>1. g \in Int /\ now \in Nat
      BY <1>1
    <3>2. QED
      BY <3>1, GenesisType
  <2>3. CASE Goto(th, AfterFalse(th))
    BY <1>1, <1>2, <2>3, OneMoves
  <2>4. CASE /\ block[th].merkleRoot = genesis.merkleRoot /\ block[th].pow = genesis.pow
             /\ Goto(th, "validatePlace")
    <3>1. block[th].pow = 0
      BY <2>2, <2>4
    <3>2. HashesHold => block[th].merkleRoot = <<DefaultTransaction(g)>>
      BY <2>2, <2>4
    <3>3. QED
      BY <1>1, <1>2, <2>4, <3>1, <3>2, OneMoves
  <2>5. QED
    BY <2>1, <2>3, <2>4
<1>5. QED
  BY <1>3, <1>4 DEF TestEmpty

(* where the validation behind it,                                         *)
LEMMA ValidatePlaceControl ==
  ASSUME TypeOK, NEW th \in Updaters, ValidatePlace(th)
  PROVE  /\ UNCHANGED <<chain, pool, block, difference, tx, buffer, inMsgs>>
         /\ pc[th] = "validatePlace"
         /\ \A other \in Threads \ {th} : pc'[other] = pc[other]
         /\ \/ pc'[th] = "place" /\ "valid" \in validateBlock(chain, block[th])
            \/ pc'[th] = pc[th] \/ Harmless(th, pc'[th])
<1>1. th \in Threads /\ pc \in [Threads -> Steps] /\ block[th] \in Block /\ chain \in Seq(Block)
  BY DEF TypeOK, Updaters, Threads
<1>2. UNCHANGED <<chain, pool, block, difference, tx, buffer, inMsgs>> /\ pc[th] = "validatePlace"
  BY DEF ValidatePlace, At, account, mail, ledger, updates
<1>3. PICK o \in validateBlock(chain, block[th]) :
        CASE o = "valid"   -> Goto(th, "place")
          [] o = "invalid" -> Goto(th, AfterTrue(th))
          [] o = "throw"   -> Raise(th)
          [] o = "crash"   -> Dies
  BY DEF ValidatePlace
<1>4. o \in {"valid", "invalid", "throw", "crash"}
  BY <1>1, ValidateBlockOutcome DEF Outcome
<1>5. Harmless(th, AfterTrue(th)) /\ Harmless(th, "listen")
  BY AfterHarmless DEF Harmless, Critical, AfterTest, Placing
<1>6. CASE o = "valid"
  BY <1>1, <1>2, <1>3, <1>6, OneMoves
<1>7. CASE o = "invalid"
  BY <1>1, <1>2, <1>3, <1>5, <1>7, OneMoves
<1>8. CASE o = "throw"
  <2>1. Raise(th)
    BY <1>3, <1>8
  <2>2. pc'[th] = pc[th] \/ pc'[th] = "listen"
    BY <1>1, <2>1, OneMoves
  <2>3. \A other \in Threads \ {th} : pc'[other] = pc[other]
    BY <1>1, <2>1, OneMoves
  <2>4. QED
    BY <1>2, <1>5, <2>2, <2>3
<1>9. CASE o = "crash"
  BY <1>1, <1>2, <1>3, <1>9 DEF Dies
<1>10. QED
  BY <1>4, <1>6, <1>7, <1>8, <1>9

(* and where the validation of a block to be pushed.                       *)
LEMMA ValidateControl ==
  ASSUME TypeOK, NEW th \in Updaters, Validate(th)
  PROVE  /\ UNCHANGED <<chain, pool, block, difference, tx, buffer, inMsgs>>
         /\ pc[th] = "validate"
         /\ \A other \in Threads \ {th} : pc'[other] = pc[other]
         /\ \/ pc'[th] = "push" /\ "valid" \in validateBlock(chain, block[th])
            \/ pc'[th] = "sendBack"
            \/ pc'[th] = pc[th] \/ Harmless(th, pc'[th])
<1>1. th \in Threads /\ pc \in [Threads -> Steps] /\ block[th] \in Block /\ chain \in Seq(Block)
  BY DEF TypeOK, Updaters, Threads
<1>2. UNCHANGED <<chain, pool, block, difference, tx, buffer, inMsgs>> /\ pc[th] = "validate"
  BY DEF Validate, At, account, mail, ledger, updates
<1>3. PICK o \in validateBlock(chain, block[th]) :
        CASE o = "valid"   -> Goto(th, "push")
          [] o = "invalid" -> Goto(th, "sendBack")
          [] o = "throw"   -> Raise(th)
          [] o = "crash"   -> Dies
  BY DEF Validate
<1>4. o \in {"valid", "invalid", "throw", "crash"}
  BY <1>1, ValidateBlockOutcome DEF Outcome
<1>5. Harmless(th, "listen")
  BY DEF Harmless, Critical, AfterTest, Placing
<1>6. CASE o = "valid"
  BY <1>1, <1>2, <1>3, <1>6, OneMoves
<1>7. CASE o = "invalid"
  BY <1>1, <1>2, <1>3, <1>7, OneMoves
<1>8. CASE o = "throw"
  <2>1. Raise(th)
    BY <1>3, <1>8
  <2>2. pc'[th] = pc[th] \/ pc'[th] = "listen"
    BY <1>1, <2>1, OneMoves
  <2>3. \A other \in Threads \ {th} : pc'[other] = pc[other]
    BY <1>1, <2>1, OneMoves
  <2>4. QED
    BY <1>2, <1>5, <2>2, <2>3
<1>9. CASE o = "crash"
  BY <1>1, <1>2, <1>3, <1>9 DEF Dies
<1>10. QED
  BY <1>4, <1>6, <1>7, <1>8, <1>9

(* The removal, and the return, of transactions.                           *)
LEMMA PoolControl ==
  ASSUME TypeOK, NEW th \in Updaters, RemoveFromPool(th) \/ Assign(th) \/ SendBack(th)
  PROVE  /\ UNCHANGED <<chain, block, tx, buffer, inMsgs>>
         /\ pc[th] \in {"remove", "assign", "sendBack"}
         /\ \A other \in Threads \ {th} : pc'[other] = pc[other]
         /\ pc'[th] = "assign" \/ pc'[th] = pc[th] \/ Harmless(th, pc'[th])
<1>1. th \in Threads /\ pc \in [Threads -> Steps]
  BY DEF TypeOK, Updaters, Threads
<1>2. UNCHANGED <<chain, block, tx, buffer, inMsgs>> /\ pc[th] \in {"remove", "assign", "sendBack"}
  BY DEF RemoveFromPool, Assign, SendBack, At, account, mail, ledger, updates
<1>3. \E step \in {"assign", AfterTrue(th), AfterFalse(th)} : Goto(th, step) \/ Raise(th)
  BY DEF RemoveFromPool, Assign, SendBack
<1>4. Harmless(th, AfterTrue(th)) /\ Harmless(th, AfterFalse(th)) /\ Harmless(th, "listen")
  BY AfterHarmless DEF Harmless, Critical, AfterTest, Placing
<1>5. QED
  BY <1>1, <1>2, <1>3, <1>4, OneMoves

(* The steps of updateChain keep Base.                                     *)
LEMMA UpdateChainBase ==
  ASSUME Base, TypeOK', NEW th \in Updaters, UpdateChain(th)
  PROVE  Base'
<1>0. TypeOK /\ chain \in Seq(Block) /\ block[th] \in Block
  BY DEF Base, TypeOK
<1>1. \A step : Harmless(th, step) => step \notin AfterTest \cup Placing /\ step # "push"
  BY DEF Harmless, Critical, AfterTest
<1>2. CASE TestEmpty(th)
  BY <1>0, <1>1, <1>2, TestControl, AfterHarmless, GuardedStep DEF AfterTest, Placing
<1>3. CASE ValidatePlace(th)
  <2>1. block[th].pow = 0
    BY <1>0, <1>3, ValidatePlaceControl DEF Base, Ordered, Placing
  <2>2. QED
    BY <1>0, <1>1, <1>3, <2>1, ValidatePlaceControl, GuardedStep DEF AfterTest, Placing
<1>4. CASE Validate(th)
  <2>1. chain # <<>>
    BY <1>0, <1>4, ValidateControl DEF Base, Ordered, AfterTest
  <2>2. "valid" \in validateBlock(chain, block[th]) => \E j \in DOMAIN chain : Extends(block[th], chain[j])
    <3>1. Len(chain) \in DOMAIN chain
      BY <1>0, <2>1
    <3>2. "valid" \in validateBlock(chain, block[th]) => Extends(block[th], Last(chain))
      BY <1>0, <2>1, ValidBlock DEF Extends
    <3>3. QED
      BY <3>1, <3>2 DEF Last
  <2>3. QED
    BY <1>0, <1>1, <1>4, <2>1, <2>2, ValidateControl, GuardedStep DEF AfterTest, Placing
<1>5. CASE Place(th) \/ Push(th)
  BY <1>5, GrowBase
<1>6. CASE RemoveFromPool(th) \/ Assign(th) \/ SendBack(th)
  <2>1. chain # <<>>
    BY <1>0, <1>6, PoolControl DEF Base, Ordered, AfterTest
  <2>2. QED
    BY <1>0, <1>1, <1>6, <2>1, PoolControl, GuardedStep DEF AfterTest, Placing
<1>7. QED
  BY <1>2, <1>3, <1>4, <1>5, <1>6 DEF UpdateChain

(* manageChain goes on only when there is a chain.                         *)
LEMMA ManageChainControl ==
  ASSUME Base, SChainTest \/ SChainLength \/ SChainRemove \/ SChainAssign \/ SChainBack
  PROVE  /\ UNCHANGED <<chain, block, tx, buffer, inMsgs>>
         /\ \A other \in Threads \ {"server"} : pc'[other] = pc[other]
         /\ \/ pc'["server"] \in {pc["server"], "listen"}
            \/ /\ pc'["server"] \in {"chainLength", "chainBack", "chainRemove", "chainAssign"}
               /\ chain # <<>>
<1>1. /\ "server" \in Threads /\ "server" \in Updaters /\ TypeOK
      /\ pc \in [Threads -> Steps] /\ chain \in Seq(Block)
  BY DEF Base, TypeOK, Updaters, Threads
<1>2. UNCHANGED <<chain, block, tx, buffer, inMsgs>>
  BY DEF SChainTest, SChainLength, SChainRemove, SChainAssign, SChainBack, account, mail, ledger, updates
<1>3. CASE SChainTest
  <2>1. PICK o \in isValidChain(chain) :
          CASE o = "valid"   -> Goto("server", "chainLength")
            [] o = "invalid" -> Goto("server", "chainBack")
            [] o = "throw"   -> Raise("server")
    BY <1>3 DEF SChainTest
  <2>2. o \in {"valid", "invalid", "throw"} /\ (chain = <<>> => o = "throw")
    BY <1>1, IsValidChainOutcome
  <2>3. CASE o = "throw"
    BY <1>1, <1>2, <2>1, <2>3, OneMoves
  <2>4. CASE o = "valid"
    BY <1>1, <1>2, <2>1, <2>2, <2>4, OneMoves
  <2>5. CASE o = "invalid"
    BY <1>1, <1>2, <2>1, <2>2, <2>5, OneMoves
  <2>6. QED
    BY <2>2, <2>3, <2>4, <2>5
<1>4. CASE SChainLength \/ SChainRemove \/ SChainAssign \/ SChainBack
  <2>1. chain # <<>>
    BY <1>1, <1>4 DEF SChainLength, SChainRemove, SChainAssign, SChainBack, At, Base, Ordered, AfterTest
  <2>2. \E step \in {"chainBack", "chainRemove", "chainAssign", "listen"} : Goto("server", step) \/ Dies
    BY <1>4 DEF SChainLength, SChainRemove, SChainAssign, SChainBack
  <2>3. QED
    BY <1>1, <1>2, <2>1, <2>2, OneMoves
<1>5. QED
  BY <1>3, <1>4

(* Where the other steps lead: the handling of a transaction, the making   *)
(* of a block, the books, and the server when it has read a message.       *)
LEMMA OtherControl ==
  ASSUME TypeOK,
         \/ TAt \/ \E th \in Handlers : Load(th) \/ Store(th) \/ PoolTx(th)
         \/ MGenesis \/ BTip \/ BTake \/ BEmpty
         \/ \E th \in Updaters : Candidate(th) \/ Keep(th)
         \/ SReceive
  PROVE  /\ chain' = chain
         /\ \A th \in Updaters : \/ pc'[th] = pc[th] /\ block'[th] = block[th]
                                 \/ pc'[th] \notin AfterTest \cup Placing
<1>0. /\ pc \in [Threads -> Steps] /\ block \in [Updaters -> Block]
      /\ \A th \in Updaters \cup Handlers : th \in Threads
      /\ {"main", "miner", "server"} = Updaters /\ {"main", "miner", "server", "txn"} = Threads
  BY DEF TypeOK, Updaters, Handlers, Threads
<1>1. chain' = chain
  BY DEF TAt, Load, Store, PoolTx, MGenesis, BTip, BTake, BEmpty, Candidate, Keep, SReceive,
         SUnreadable, SDecodeCrash, STransaction, SBlock, SChain, ledger
<1> DEFINE Free == {"load", "store", "poolTx", "recordTx", "test", "take", "empty", "candidate",
                    "keep", "clear", "listen", "chainTest"}
<1>2. \A step \in Free : step \notin AfterTest \cup Placing
  BY DEF AfterTest, Placing
<1> HIDE DEF Free
<1>3. CASE TAt \/ \E th \in Handlers : Load(th) \/ Store(th) \/ PoolTx(th)
  <2>1. block' = block
    BY <1>3 DEF TAt, Load, Store, PoolTx, updates
  <2>2. \E th \in Handlers : \E step \in Free : Goto(th, step) \/ Raise(th) \/ Dies
    <3>1. CASE TAt
      BY <3>1 DEF TAt, Free, Handlers
    <3>2. CASE \E th \in Handlers : Load(th) \/ Store(th) \/ PoolTx(th)
      BY <3>2 DEF Load, Store, PoolTx, Free
    <3>3. QED
      BY <1>3, <3>1, <3>2
  <2>3. QED
    BY <1>0, <1>1, <1>2, <2>1, <2>2, OneMoves DEF Free
<1>4. CASE MGenesis
  <2>1. Goto("main", "test") /\ \A th \in Updaters \ {"main"} : block'[th] = block[th]
    BY <1>0, <1>4 DEF MGenesis
  <2>2. QED
    BY <1>0, <1>1, <1>2, <2>1, OneMoves DEF Free
<1>5. CASE BTip \/ BTake \/ BEmpty
  <2>1. \A th \in Updaters \ {"miner"} : block'[th] = block[th]
    BY <1>0, <1>5 DEF BTip, BTake, BEmpty
  <2>2. \/ \E step \in {"take", "empty", "candidate"} : Goto("miner", step)
        \/ Dies /\ block' = block
    BY <1>5 DEF BTip, BTake, BEmpty
  <2>3. CASE Dies /\ block' = block
    BY <1>1, <2>3 DEF Dies
  <2>4. CASE \E step \in {"take", "empty", "candidate"} : Goto("miner", step)
    BY <1>0, <1>1, <1>2, <2>1, <2>4, OneMoves DEF Free
  <2>5. QED
    BY <2>2, <2>3, <2>4
<1>6. CASE \E th \in Updaters : Candidate(th) \/ Keep(th)
  <2>1. block' = block
    BY <1>6 DEF Candidate, Keep, updates
  <2>2. PICK th \in Updaters : \E step \in {"test", "keep", "clear", "listen"} : Goto(th, step)
    BY <1>6 DEF Candidate, Keep, Updaters
  <2>3. QED
    BY <1>0, <1>1, <1>2, <2>1, <2>2, OneMoves DEF Free
<1>7. CASE SReceive
  <2>1. PICK m \in Received :
          SUnreadable(m) \/ SDecodeCrash(m) \/ STransaction(m) \/ SBlock(m) \/ SChain(m)
    BY <1>7 DEF SReceive
  <2>2. \A th \in Updaters \ {"server"} : block'[th] = block[th]
    BY <1>0, <2>1 DEF SUnreadable, SDecodeCrash, STransaction, SBlock, SChain, updates
  <2>3. \/ Dies /\ block' = block
        \/ \E step \in {"listen", "load", "poolTx", "candidate", "chainTest"} : Goto("server", step)
    BY <2>1 DEF SUnreadable, SDecodeCrash, STransaction, SBlock, SChain, Raise, updates
  <2>4. CASE Dies /\ block' = block
    BY <1>1, <2>4 DEF Dies
  <2>5. CASE \E step \in {"listen", "load", "poolTx", "candidate", "chainTest"} : Goto("server", step)
    BY <1>0, <1>1, <1>2, <2>2, <2>5, OneMoves DEF Free
  <2>6. QED
    BY <2>3, <2>4, <2>5
<1>8. QED
  BY <1>3, <1>4, <1>5, <1>6, <1>7

(* Every step keeps Base.                                                  *)
LEMMA NextBase ==
  ASSUME Base, Next
  PROVE  Base'
<1>0. TypeOK /\ TypeOK' /\ "server" \in Updaters
  BY NextTypes DEF Base, Updaters
<1>1. CASE \E th \in Senders : \/ ClearPortList(th) \/ FillPortList(th) \/ Record(th)
                               \/ ChainMsg(th)
  BY <1>0, <1>1, BroadcastQuiet, QuietBase
<1>2. CASE \/ TSleep \/ TDraw \/ BMine \/ BAnnounce \/ DataRace
           \/ \E th \in Handlers : RecordTx(th)
           \/ \E th \in Updaters : Reset(th)
  BY <1>0, <1>2, OthersQuiet, QuietBase
<1>3. CASE \/ TAt \/ \E th \in Handlers : Load(th) \/ Store(th) \/ PoolTx(th)
           \/ MGenesis \/ BTip \/ BTake \/ BEmpty
           \/ \E th \in Updaters : Candidate(th) \/ Keep(th)
           \/ SReceive
  BY <1>0, <1>3, OtherControl, UnguardedStep
<1>4. CASE \E th \in Updaters : UpdateChain(th)
  BY <1>0, <1>4, UpdateChainBase
<1>5. CASE SChainTest \/ SChainLength \/ SChainRemove \/ SChainAssign \/ SChainBack
  <2>1. /\ UNCHANGED <<chain, block>> /\ \A other \in Threads \ {"server"} : pc'[other] = pc[other]
        /\ \/ pc'["server"] = pc["server"] \/ pc'["server"] = "listen"
           \/ pc'["server"] \in AfterTest \ {"push"} /\ chain # <<>>
    BY <1>5, ManageChainControl DEF AfterTest
  <2>2. CASE pc'["server"] = pc["server"]
    <3>1. \A th \in Updaters : pc'[th] = pc[th] /\ block'[th] = block[th]
      BY <2>1, <2>2 DEF Updaters, Threads
    <3>2. QED
      BY <1>0, <2>1, <3>1, UnguardedStep
  <2>3. CASE pc'["server"] = "listen" \/ (pc'["server"] \in AfterTest \ {"push"} /\ chain # <<>>)
    BY <1>0, <2>1, <2>3, GuardedStep DEF AfterTest, Placing
  <2>4. QED
    BY <2>1, <2>2, <2>3
<1>6. QED
  BY <1>1, <1>2, <1>3, <1>4, <1>5, NextCases DEF Bookkeep

(* A node that has just started.                                           *)
LEMMA InitBase ==
  ASSUME Init
  PROVE  Base
<1>1. \A th \in Updaters : pc[th] \in {"start", "listen", "idle"}
  BY DEF Init, Updaters, Threads
<1>2. Ordered
  BY <1>1 DEF Ordered, AfterTest, Placing
<1>3. Extending
  BY <1>1 DEF Init, Extending
<1>4. QED
  BY <1>2, <1>3, InitTypes DEF Base

(* Base holds in every state a node reaches, whatever the hashes are.      *)
THEOREM Founded == Spec => []Base
<1>1. Base /\ UNCHANGED vars => Base'
  <2>1. Base /\ UNCHANGED vars => TypeOK' /\ UNCHANGED <<chain, block, pc>>
    BY DEF Base, TypeOK, vars, account, ports, books, mail, ledger, updates, rounds
  <2>2. QED
    BY <2>1, UnguardedStep
<1>2. Base /\ [Next]_vars => Base'
  BY <1>1, NextBase
<1>3. QED
  BY <1>2, InitBase, PTL DEF Spec

(* Every mined block of the chain extends a block that is before it there, *)
(* and is younger, whatever the clock and the other threads do and         *)
(* whatever overlapped calls of sha512 return.                             *)
THEOREM AlwaysExtends == Spec => []MinedExtends
<1>1. Base => MinedExtends
  <2>1. SUFFICES ASSUME Base, NEW i \in DOMAIN chain, chain[i].pow = 1
                 PROVE  \E j \in 1 .. i - 1 : /\ chain[i].prevHash = chain[j].blockHash
                                              /\ chain[i].timestamp > chain[j].timestamp
    BY DEF MinedExtends
  <2>2. PICK j \in DOMAIN chain : j < i /\ Extends(chain[i], chain[j])
    BY <2>1 DEF Base, Extending
  <2>3. j \in 1 .. i - 1
    <3>1. chain \in Seq(Block)
      BY <2>1 DEF Base, TypeOK
    <3>2. DOMAIN chain = 1 .. Len(chain) /\ Len(chain) \in Nat
      BY <3>1
    <3>3. QED
      BY <2>2, <3>2
  <2>4. QED
    BY <2>2, <2>3 DEF Extends
<1>2. QED
  BY <1>1, Founded, PTL

(* Only addBlock changes the chain, and only at its end.                   *)
LEMMA ChainSteps ==
  ASSUME Next, chain' # chain
  PROVE  \E th \in Updaters : Place(th) \/ Push(th)
<1>1. \A th : UpdateChain(th) => chain' = chain \/ Place(th) \/ Push(th)
  BY DEF UpdateChain, TestEmpty, ValidatePlace, Validate, RemoveFromPool, Assign, SendBack, ledger
<1>2. \A th : ClearPortList(th) \/ FillPortList(th) \/ Record(th) \/ ChainMsg(th) => chain' = chain
  BY DEF ClearPortList, FillPortList, Record, ChainMsg, ledger
<1>3. \A th : Load(th) \/ Store(th) \/ PoolTx(th) \/ RecordTx(th) => chain' = chain
  BY DEF Load, Store, PoolTx, RecordTx, ledger
<1>4. \A th : Bookkeep(th) => chain' = chain
  BY DEF Bookkeep, Candidate, Keep, Reset, ledger
<1>5. TSleep \/ TDraw \/ TAt \/ MGenesis => chain' = chain
  BY DEF TSleep, TDraw, TAt, MGenesis, ledger
<1>6. BMine \/ BTip \/ BTake \/ BEmpty \/ BAnnounce => chain' = chain
  BY DEF BMine, BTip, BTake, BEmpty, BAnnounce, ledger
<1>7. SReceive => chain' = chain
  BY DEF SReceive, SUnreadable, SDecodeCrash, STransaction, SBlock, SChain, ledger
<1>8. SChainTest \/ SChainLength \/ SChainRemove \/ SChainAssign \/ SChainBack => chain' = chain
  BY DEF SChainTest, SChainLength, SChainRemove, SChainAssign, SChainBack, ledger
<1>9. DataRace => chain' = chain
  BY DEF DataRace, ledger
<1>10. QED
  BY <1>1, <1>2, <1>3, <1>4, <1>5, <1>6, <1>7, <1>8, <1>9, NextCases

(* The chain only ever grows at its end: updateChain of a received chain   *)
(* declares a variable instead of replacing the chain.                     *)
THEOREM OnlyGrows == Spec => AppendOnly
<1>1. Base /\ [Next]_vars => [IsPrefix(chain, chain')]_vars
  <2>1. SUFFICES ASSUME Base, Next PROVE IsPrefix(chain, chain')
    OBVIOUS
  <2>2. TypeOK /\ chain \in Seq(Block) /\ \A th \in Updaters : block[th] \in Block
    BY <2>1 DEF Base, TypeOK
  <2>3. CASE chain' = chain
    <3>1. EmptyBlock \in Block
      BY EmptyBlockType
    <3>2. QED
      BY <2>2, <2>3, <3>1, AppendIsExtension
  <2>4. CASE chain' # chain
    <3>1. PICK th \in Updaters : Place(th) \/ Push(th)
      BY <2>1, <2>4, ChainSteps
    <3>2. chain' = Append(chain, block[th])
      BY <2>2, <2>4, <3>1, ChainGrows
    <3>3. QED
      BY <2>2, <3>2, AppendIsExtension
  <2>5. QED
    BY <2>3, <2>4
<1>2. QED
  BY <1>1, Founded, PTL DEF Spec, AppendOnly

(* A step that leads the thread it belongs to elsewhere, or ends it, leads *)
(* no thread to the assignment of the pool;                                *)
LEMMA MovesElsewhere ==
  ASSUME TypeOK, NEW th \in Threads, NEW other, NEW step, step # "assign",
         Goto(other, step) \/ Raise(other) \/ Dies, pc[th] # "assign"
  PROVE  pc'[th] # "assign"
<1>1. pc \in [Threads -> Steps]
  BY DEF TypeOK
<1> QED BY <1>1 DEF Goto, Raise, Dies

(* only removeFromPool does.                                               *)
LEMMA RemovalSteps ==
  ASSUME TypeOK, Next, NEW th \in Updaters, pc[th] # "assign", pc'[th] = "assign"
  PROVE  RemoveFromPool(th)
<1>0. /\ th \in Threads /\ pc \in [Threads -> Steps]
      /\ ~(\E other, step :
             step # "assign" /\ (Goto(other, step) \/ Raise(other) \/ Dies))
  <2>1. th \in Threads /\ pc \in [Threads -> Steps]
    BY DEF Updaters, Threads, TypeOK
  <2> QED BY <2>1, MovesElsewhere
<1>1. ASSUME NEW x, ClearPortList(x) \/ FillPortList(x) \/ ChainMsg(x) PROVE FALSE
  BY <1>0, <1>1 DEF ClearPortList, FillPortList, ChainMsg
<1>2. ASSUME NEW x \in Senders, Record(x) PROVE FALSE
  BY <1>0, <1>2 DEF Record, Senders
<1>3. ASSUME NEW x, Load(x) \/ Store(x) \/ PoolTx(x) \/ RecordTx(x) PROVE FALSE
  BY <1>0, <1>3 DEF Load, Store, PoolTx, RecordTx
<1>4. ASSUME NEW x \in Updaters, Bookkeep(x) PROVE FALSE
  BY <1>0, <1>4 DEF Bookkeep, Candidate, Keep, Reset, Updaters
<1>5. ~(TSleep \/ TDraw \/ TAt \/ MGenesis)
  BY <1>0 DEF TSleep, TDraw, TAt, MGenesis
<1>6. ~(BMine \/ BTip \/ BTake \/ BEmpty \/ BAnnounce)
  BY <1>0 DEF BMine, BTip, BTake, BEmpty, BAnnounce
<1>7. ~SReceive
  BY <1>0 DEF SReceive, SUnreadable, SDecodeCrash, STransaction, SBlock, SChain
<1>8. ~(SChainTest \/ SChainLength \/ SChainRemove \/ SChainAssign \/ SChainBack)
  <2>1. isValidChain(chain) \subseteq {"valid", "invalid", "throw"}
    BY IsValidChainOutcome DEF TypeOK
  <2>2. ~SChainTest
    BY <1>0, <2>1 DEF SChainTest
  <2>3. ~SChainLength
    BY <1>0 DEF SChainLength
  <2>4. ~SChainRemove /\ ~SChainAssign /\ ~SChainBack
    BY <1>0 DEF SChainRemove, SChainAssign, SChainBack
  <2> QED BY <2>2, <2>3, <2>4
<1>9. ~DataRace
  BY <1>0 DEF DataRace
<1>10. ASSUME NEW x \in Updaters, UpdateChain(x) PROVE RemoveFromPool(th)
  <2>1. AfterTrue(x) # "assign" /\ AfterFalse(x) # "assign"
    BY DEF AfterTrue, AfterFalse, Updaters
  <2>2. ~(TestEmpty(x) \/ Place(x) \/ Push(x))
    BY <1>0, <2>1 DEF TestEmpty, Place, Push
  <2>3. ~(ValidatePlace(x) \/ Validate(x))
    <3>1. validateBlock(chain, block[x]) \subseteq {"valid", "invalid", "throw", "crash"}
      BY <1>10, ValidateBlockOutcome DEF TypeOK, Outcome
    <3> QED BY <1>0, <2>1, <3>1 DEF ValidatePlace, Validate
  <2>4. ~(Assign(x) \/ SendBack(x))
    BY <1>0, <2>1 DEF Assign, SendBack
  <2>5. RemoveFromPool(x)
    BY <1>10, <2>2, <2>3, <2>4 DEF UpdateChain
  <2>6. x = th
    <3>1. Goto(x, "assign")
      BY <1>0, <2>5 DEF RemoveFromPool
    <3> QED BY <1>0, <3>1 DEF Goto
  <2> QED BY <2>5, <2>6
<1> QED BY <1>1, <1>2, <1>3, <1>4, <1>5, <1>6, <1>7, <1>8, <1>9, <1>10, NextCases

(* removeFromPool keeps what the block does not have, in a pool of any     *)
(* order and length.                                                       *)
THEOREM KeepsTheOthers == Spec => RemovalKeepsOthers
<1> DEFINE Kept(th) ==
             \A n \in DOMAIN pool :
               pool[n].timestamp \notin TimesOf(BlockTransactions(block[th]))
               => Contains(difference'[th], pool[n])
           Keeps == \A th \in Updaters : pc[th] = "remove" /\ pc'[th] = "assign" => Kept(th)
<1>1. ASSUME TypeOK, Next, NEW th \in Updaters, pc[th] = "remove", pc'[th] = "assign"
      PROVE  Kept(th)
  <2>1. /\ RemoveFromPool(th)
        /\ pool \in Seq(Transaction) /\ block[th] \in Block
        /\ difference \in [Updaters -> Seq(Transaction)]
        /\ th \in Threads /\ pc \in [Threads -> Steps]
    BY <1>1, RemovalSteps DEF TypeOK, Updaters, Threads
  <2>2. BlockTransactions(block[th]) \in Seq(Transaction)
    BY <2>1, BlockTransactionsType
  <2>3. difference'[th] = Difference(pool, BlockTransactions(block[th]))
    <3>1. ~Raise(th)
      BY <1>1, <2>1 DEF Raise, Goto, Dies
    <3> QED BY <2>1, <3>1 DEF RemoveFromPool
  <2> QED BY <2>1, <2>2, <2>3, DifferenceKeeps
<1>2. TypeOK /\ [Next]_vars => [Keeps]_vars
  BY <1>1
<1>3. RemovalKeepsOthers <=> [][Keeps]_vars
  BY DEF RemovalKeepsOthers
<1> QED BY <1>2, <1>3, TypeCorrect, PTL DEF Spec

-----------------------------------------------------------------------------
(* What holds as long as a hash is the hash of what it was computed for.   *)
(*                                                                         *)
(* The hash of a block that peers send tells one of two things about its   *)
(* merkle root: the last leaf, the coinbase, has a time, or it is the only *)
(* leaf, of a genesis block.                                               *)
Honest(h) ==
  /\ h # NoHash
  /\ LET root == Last(h).merkleRoot
     IN  \/ root # <<>> /\ Last(root).timestamp # NoTime
         \/ Last(h).pow = 0 /\ Len(root) = 1

Foreign(b)     == b.datum.timestamp = NoTime /\ (b.blockHash = NoHash \/ Honest(b.blockHash))
Bare(b)        == b.pow = 0 /\ b.data = <<>>
MinedHere(b)   == b.datum.from = 0 /\ b.datum.to = Me /\ b.datum.timestamp # NoTime
GenesisLike(b) == b.data = <<>> /\ b.datum.timestamp = NoTime

(* What a thread may handle at a step.  What the server has received has a *)
(* coinbase without a time, so that only a genesis block can pass; what    *)
(* the miner has made carries its own coinbase; what is placed on an empty *)
(* chain is a genesis block; and a transaction is known until it is in the *)
(* pool.                                                                   *)
Ready(th, step) ==
  /\ th \in Updaters /\ step = "validatePlace" =>
       \E g \in Garbage : block[th].merkleRoot = <<DefaultTransaction(g)>>
  /\ th \in Updaters /\ step = "place" => GenesisLike(block[th])
  /\ th = "server" /\ step \in {"candidate", "test", "validatePlace", "validate"} =>
       Foreign(block["server"])
  /\ th = "server" /\ step \in {"place", "push"} => Bare(block["server"])
  /\ th = "miner" /\ step \in {"candidate", "keep", "test", "validatePlace", "place", "validate", "push"} =>
       MinedHere(block["miner"])
  /\ th \in Handlers /\ step \in {"load", "store", "poolTx"} => Known(tx[th])

(* What is kept from step to step: the buffer holds what a peer has sent,  *)
(* main's block is a genesis block, and the chain starts with one, holds   *)
(* no block of another node, and only known transactions.                  *)
Stock ==
  /\ buffer.head = "BLOCK" => Honest(buffer.m_b.blockHash)
  /\ Bare(block["main"])
  /\ chain # <<>> => GenesisLike(chain[1])
  /\ OwnBlocksOnly
  /\ PoolKnown

Readiness == \A th \in Threads : Ready(th, pc[th])

IInv == Base /\ Readiness /\ Stock

-----------------------------------------------------------------------------
(* A thread is ready for a step of no interest.                            *)
LEMMA HarmlessReady ==
  ASSUME NEW th, NEW step, Harmless(th, step)
  PROVE  Ready(th, step)
<1>1. step \notin {"validatePlace", "place", "test", "validate", "push", "load", "store", "poolTx"}
  BY DEF Harmless, Critical, AfterTest, Placing
<1>2. QED
  BY <1>1 DEF Harmless, Ready

(* What is known stays known: messages are only added.                     *)
LEMMA StillKnown ==
  ASSUME TypeOK, NEW msg \in Message, inMsgs' = inMsgs \/ inMsgs' = Append(inMsgs, msg)
  PROVE  \A t : Known(t) => Known(t)'
<1>1. SUFFICES ASSUME NEW t, Known(t) PROVE Known(t)'
  OBVIOUS
<1>2. CASE t.from = Me
  BY <1>2 DEF Known
<1>3. CASE t.from # Me
  <2>1. PICK i \in DOMAIN inMsgs :
          inMsgs[i].head = "TRANSACTION" /\ t \in Decoded(inMsgs[i].m_t, EmptiedTransactions)
    BY <1>1, <1>3 DEF Known
  <2>2. i \in DOMAIN inMsgs' /\ inMsgs'[i] = inMsgs[i]
    <3>1. inMsgs \in Seq(Message) /\ DOMAIN inMsgs = 1 .. Len(inMsgs)
      BY DEF TypeOK
    <3>2. DOMAIN Append(inMsgs, msg) = 1 .. Len(inMsgs) + 1 /\ Append(inMsgs, msg)[i] = inMsgs[i]
      BY <3>1, AppendProperties
    <3>3. QED
      BY <3>1, <3>2
  <2>3. QED
    BY <2>1, <2>2 DEF Known
<1>4. QED
  BY <1>2, <1>3

(* What one thread does leaves the others ready.                           *)
LEMMA OthersReady ==
  ASSUME Readiness, NEW th \in Threads,
         \A other \in Threads \ {th} : pc'[other] = pc[other],
         \A other \in Updaters \ {th} : block'[other] = block[other],
         \A other \in Handlers \ {th} : tx'[other] = tx[other],
         \A t : Known(t) => Known(t)',
         Ready(th, pc[th])'
  PROVE  Readiness'
<1>1. SUFFICES ASSUME NEW other \in Threads \ {th} PROVE Ready(other, pc[other])'
  BY DEF Readiness
<1>2. Ready(other, pc[other]) /\ pc'[other] = pc[other]
  BY DEF Readiness
<1>3. /\ other \in Updaters => block'[other] = block[other]
      /\ other \in Handlers => tx'[other] = tx[other]
  OBVIOUS
<1>4. "server" \in Updaters /\ "miner" \in Updaters
  BY DEF Updaters
<1>5. QED
  BY <1>2, <1>3, <1>4 DEF Ready, Foreign, Bare, MinedHere, GenesisLike

(* A quiet step keeps the invariant.                                       *)
LEMMA QuietIInv ==
  ASSUME IInv, Base', Quiet
  PROVE  IInv'
<1>1. \A t : Known(t) => Known(t)'
  BY DEF Quiet, Known
<1>2. Readiness'
  <2>1. SUFFICES ASSUME NEW th \in Threads PROVE Ready(th, pc[th])'
    BY DEF Readiness
  <2>2. Ready(th, pc'[th])
    BY HarmlessReady DEF Quiet, IInv, Readiness
  <2>3. UNCHANGED <<block, tx>>
    BY DEF Quiet
  <2>4. QED
    BY <1>1, <2>2, <2>3 DEF Ready, Foreign, Bare, MinedHere, GenesisLike
<1>3. Stock'
  BY <1>1 DEF IInv, Stock, Quiet, Bare, GenesisLike, OwnBlocksOnly, OwnBlock, PoolKnown, AllKnown
<1>4. QED
  BY <1>2, <1>3 DEF IInv

(* So does the step of one thread that is ready for the next one, when it  *)
(* leaves only what is known in the pool.                                  *)
LEMMA ReadyStep ==
  ASSUME IInv, Base', NEW th \in Updaters, UNCHANGED <<chain, block, tx, buffer, inMsgs>>,
         \A other \in Threads \ {th} : pc'[other] = pc[other],
         Ready(th, pc'[th]),
         AllKnown(pool'), \A other \in Updaters : AllKnown(difference'[other])
  PROVE  IInv'
<1>0. th \in Threads
  BY DEF Updaters, Threads
<1>1. \A t : Known(t) => Known(t)'
  BY DEF Known
<1>2. Ready(th, pc[th])'
  BY <1>1 DEF Ready, Foreign, Bare, MinedHere, GenesisLike
<1>3. Readiness'
  BY <1>0, <1>1, <1>2, OthersReady DEF IInv
<1>4. PoolKnown'
  BY <1>1 DEF IInv, Stock, PoolKnown, AllKnown
<1>5. Stock'
  BY <1>4 DEF IInv, Stock, Bare, GenesisLike, OwnBlocksOnly, OwnBlock
<1>6. QED
  BY <1>3, <1>5 DEF IInv

(* The same of a step that leaves the pool alone.                          *)
LEMMA ControlStep ==
  ASSUME IInv, Base', NEW th \in Updaters,
         UNCHANGED <<chain, pool, block, difference, tx, buffer, inMsgs>>,
         \A other \in Threads \ {th} : pc'[other] = pc[other],
         Ready(th, pc'[th])
  PROVE  IInv'
<1>1. AllKnown(pool') /\ \A other \in Updaters : AllKnown(difference'[other])
  BY DEF IInv, Stock, PoolKnown
<1>2. QED
  BY <1>1, ReadyStep

-----------------------------------------------------------------------------
(* updateChain: a block that passes the test of an empty chain has the     *)
(* merkle root of a genesis block.                                         *)
LEMMA TestEmptyStep ==
  ASSUME HashesHold, IInv, Base', NEW th \in Updaters, TestEmpty(th)
  PROVE  IInv'
<1>0. TypeOK /\ th \in Threads
  BY DEF IInv, Base, Updaters, Threads
<1>1. /\ UNCHANGED <<chain, pool, block, difference, tx, buffer, inMsgs>> /\ pc[th] = "test"
      /\ \A other \in Threads \ {th} : pc'[other] = pc[other]
      /\ \/ pc'[th] = "validate" /\ chain # <<>>
         \/ /\ pc'[th] = "validatePlace" /\ block[th].pow = 0
            /\ HashesHold => \E g \in Garbage : block[th].merkleRoot = <<DefaultTransaction(g)>>
         \/ pc'[th] = AfterFalse(th)
  BY <1>0, TestControl
<1>2. Ready(th, "test")
  BY <1>0, <1>1 DEF IInv, Readiness
<1>3. Ready(th, pc'[th])
  <2>1. CASE pc'[th] = "validate"
    BY <1>2, <2>1 DEF Ready
  <2>2. CASE pc'[th] = "validatePlace" /\ \E g \in Garbage : block[th].merkleRoot = <<DefaultTransaction(g)>>
    BY <1>2, <2>2 DEF Ready
  <2>3. CASE pc'[th] = AfterFalse(th)
    BY <2>3, AfterHarmless, HarmlessReady
  <2>4. QED
    BY <1>1, <2>1, <2>2, <2>3
<1>4. QED
  BY <1>1, <1>3, ControlStep

(* The last leaf of an appended merkle root is the coinbase.               *)
LEMMA LastLeaf ==
  ASSUME NEW b \in Block, b.merkleRoot = Append(b.data, b.datum)
  PROVE  /\ b.merkleRoot # <<>> /\ Last(b.merkleRoot) = b.datum
         /\ Len(b.merkleRoot) = 1 => b.data = <<>> /\ b.datum = b.merkleRoot[1]
<1> DEFINE s == b.data
           d == b.datum
<1>1. s \in Seq(Transaction) /\ d \in Transaction
  BY DEF Block
<1> HIDE DEF s, d
<1>2. /\ Append(s, d) # <<>> /\ Last(Append(s, d)) = d
      /\ Len(Append(s, d)) = Len(s) + 1 /\ Append(s, d)[Len(s) + 1] = d
      /\ Len(s) \in Nat /\ (Len(s) = 0 => s = <<>>)
  BY <1>1, AppendProperties DEF Last
<1>3. b.merkleRoot = Append(s, d)
  BY DEF s, d
<1>4. QED
  BY <1>2, <1>3 DEF s, d

(* A block that passes has the hash and the root that belong to it.        *)
LEMMA PassesHonestly ==
  ASSUME HashesHold, NEW c \in Seq(Block), NEW b \in Block, "valid" \in validateBlock(c, b)
  PROVE  b.merkleRoot = Append(b.data, b.datum) /\ b.blockHash = hash(b)
BY ValidBlock, HashesType

(* A received block that passes the validation is a genesis block: the     *)
(* merkle root of any other one ends in the coinbase that was lost.        *)
LEMMA ServerPasses ==
  ASSUME HashesHold, NEW c \in Seq(Block), NEW b \in Block, Foreign(b), "valid" \in validateBlock(c, b)
  PROVE  Bare(b)
<1>1. b.merkleRoot = Append(b.data, b.datum) /\ b.blockHash = hash(b)
  BY PassesHonestly
<1>2. /\ b.merkleRoot # <<>> /\ Last(b.merkleRoot) = b.datum
      /\ Len(b.merkleRoot) = 1 => b.data = <<>>
  BY <1>1, LastLeaf
<1>3. /\ b.blockHash # NoHash
      /\ Last(b.blockHash).merkleRoot = b.merkleRoot /\ Last(b.blockHash).pow = b.pow
  BY <1>1, HashEnds
<1>4. QED
  BY <1>2, <1>3 DEF Foreign, Honest, Bare

(* updateChain on an empty chain: what is validated there and placed is    *)
(* shaped like a genesis block.                                            *)
LEMMA ValidatePlaceStep ==
  ASSUME HashesHold, IInv, Base', NEW th \in Updaters, ValidatePlace(th)
  PROVE  IInv'
<1>0. TypeOK /\ th \in Threads /\ block[th] \in Block /\ chain \in Seq(Block)
  BY DEF IInv, Base, TypeOK, Updaters, Threads
<1>1. /\ UNCHANGED <<chain, pool, block, difference, tx, buffer, inMsgs>>
      /\ pc[th] = "validatePlace"
      /\ \A other \in Threads \ {th} : pc'[other] = pc[other]
      /\ \/ pc'[th] = "place" /\ "valid" \in validateBlock(chain, block[th])
         \/ pc'[th] = pc[th] \/ Harmless(th, pc'[th])
  BY <1>0, ValidatePlaceControl
<1>2. Ready(th, "validatePlace")
  BY <1>0, <1>1 DEF IInv, Readiness
<1>3. CASE pc'[th] = "place" /\ "valid" \in validateBlock(chain, block[th])
  <2>1. PICK g \in Garbage : block[th].merkleRoot = <<DefaultTransaction(g)>>
    BY <1>2 DEF Ready
  <2>2. block[th].merkleRoot = Append(block[th].data, block[th].datum)
    BY <1>0, <1>3, PassesHonestly
  <2>3. /\ Len(<<DefaultTransaction(g)>>) = 1 /\ <<DefaultTransaction(g)>>[1] = DefaultTransaction(g)
        /\ DefaultTransaction(g).timestamp = NoTime
    BY DefaultTransactionType, ValuesAssumption
  <2>4. GenesisLike(block[th])
    BY <1>0, <2>1, <2>2, <2>3, LastLeaf DEF GenesisLike
  <2>5. th = "server" => Bare(block["server"])
    BY <1>0, <1>2, <1>3, ServerPasses DEF Ready
  <2>6. Ready(th, "place")
    BY <1>2, <2>4, <2>5 DEF Ready
  <2>7. QED
    BY <1>1, <1>3, <2>6, ControlStep
<1>4. CASE pc'[th] = pc[th] \/ Harmless(th, pc'[th])
  BY <1>1, <1>2, <1>4, HarmlessReady, ControlStep
<1>5. QED
  BY <1>1, <1>3, <1>4

(* updateChain on a chain that is not empty.                               *)
LEMMA ValidateStep ==
  ASSUME HashesHold, IInv, Base', NEW th \in Updaters, Validate(th)
  PROVE  IInv'
<1>0. TypeOK /\ th \in Threads /\ block[th] \in Block /\ chain \in Seq(Block)
  BY DEF IInv, Base, TypeOK, Updaters, Threads
<1>1. /\ UNCHANGED <<chain, pool, block, difference, tx, buffer, inMsgs>>
      /\ pc[th] = "validate"
      /\ \A other \in Threads \ {th} : pc'[other] = pc[other]
      /\ \/ pc'[th] = "push" /\ "valid" \in validateBlock(chain, block[th])
         \/ pc'[th] = "sendBack"
         \/ pc'[th] = pc[th] \/ Harmless(th, pc'[th])
  BY <1>0, ValidateControl
<1>2. Ready(th, "validate")
  BY <1>0, <1>1 DEF IInv, Readiness
<1>3. CASE pc'[th] = "push" /\ "valid" \in validateBlock(chain, block[th])
  <2>1. th = "server" => Bare(block["server"])
    BY <1>0, <1>2, <1>3, ServerPasses DEF Ready
  <2>2. Ready(th, "push")
    BY <1>2, <2>1 DEF Ready
  <2>3. QED
    BY <1>1, <1>3, <2>2, ControlStep
<1>4. CASE pc'[th] = "sendBack"
  <2>1. Ready(th, "sendBack")
    BY DEF Ready
  <2>2. QED
    BY <1>1, <1>4, <2>1, ControlStep
<1>5. CASE pc'[th] = pc[th] \/ Harmless(th, pc'[th])
  BY <1>1, <1>2, <1>5, HarmlessReady, ControlStep
<1>6. QED
  BY <1>1, <1>3, <1>4, <1>5

(* addBlock: what the chain grows by is a genesis block, or mined here.    *)
LEMMA GrowStep ==
  ASSUME IInv, Base', NEW th \in Updaters, Place(th) \/ Push(th)
  PROVE  IInv'
<1>0. TypeOK /\ th \in Threads /\ chain \in Seq(Block) /\ th \in {"main", "server", "miner"}
  BY DEF IInv, Base, TypeOK, Updaters, Threads
<1>1. /\ UNCHANGED <<pool, block, difference, tx, buffer, inMsgs>>
      /\ \A other \in Threads \ {th} : pc'[other] = pc[other]
      /\ \/ Place(th) /\ pc[th] = "place" /\ pc'[th] = AfterTrue(th)
         \/ Push(th) /\ pc[th] = "push" /\ pc'[th] = "remove"
  BY <1>0, GrowControl
<1>2. /\ \A i \in DOMAIN chain : i \in DOMAIN chain' /\ chain'[i] = chain[i]
      /\ \A i \in DOMAIN chain' : i \in DOMAIN chain \/ chain'[i] = block[th]
      /\ chain' # <<>> => chain'[1] = IF chain = <<>> THEN block[th] ELSE chain[1]
  BY <1>0, ChainGrows
<1>3. Ready(th, pc[th])
  BY <1>0 DEF IInv, Readiness
<1>4. OwnBlock(block[th]) /\ AllKnown(block[th].data)
  <2>1. CASE th = "main"
    BY <2>1 DEF IInv, Stock, Bare, OwnBlock, AllKnown
  <2>2. CASE th = "server"
    BY <1>1, <1>3, <2>2 DEF Ready, Bare, OwnBlock, AllKnown
  <2>3. CASE th = "miner"
    BY <1>1, <1>3, <2>3 DEF Ready, MinedHere, OwnBlock, IInv, Stock, PoolKnown
  <2>4. QED
    BY <1>0, <2>1, <2>2, <2>3
<1>5. chain = <<>> => GenesisLike(block[th])
  BY <1>1, <1>3 DEF Ready, IInv, Base, Ordered, AfterTest
<1>6. \A t : Known(t) => Known(t)'
  BY <1>1 DEF Known
<1>7. Readiness'
  <2>1. Ready(th, pc'[th])
    <3>1. Ready(th, "remove")
      BY DEF Ready
    <3>2. QED
      BY <1>1, <3>1, AfterHarmless, HarmlessReady
  <2>2. Ready(th, pc[th])'
    BY <1>1, <1>6, <2>1 DEF Ready, Foreign, Bare, MinedHere, GenesisLike
  <2>3. QED
    BY <1>0, <1>1, <1>6, <2>2, OthersReady DEF IInv
<1>8. OwnBlocksOnly'
  BY <1>2, <1>4 DEF IInv, Stock, OwnBlocksOnly, OwnBlock
<1>9. PoolKnown'
  <2>1. \A i \in DOMAIN chain' : AllKnown(chain'[i].data)
    BY <1>2, <1>4 DEF IInv, Stock, PoolKnown
  <2>2. QED
    BY <1>1, <1>6, <2>1 DEF IInv, Stock, PoolKnown, AllKnown
<1>10. Stock'
  BY <1>1, <1>2, <1>5, <1>8, <1>9 DEF IInv, Stock, Bare, GenesisLike
<1>11. QED
  BY <1>7, <1>10 DEF IInv

-----------------------------------------------------------------------------
(* The pool is replaced by elements of the pool it was computed from.      *)
LEMMA RemoveStep ==
  ASSUME IInv, Base', NEW th \in Updaters, RemoveFromPool(th) \/ Assign(th)
  PROVE  IInv'
<1>0. /\ TypeOK /\ th \in Threads /\ block[th] \in Block
      /\ pool \in Seq(Transaction) /\ difference \in [Updaters -> Seq(Transaction)]
  BY DEF IInv, Base, TypeOK, Updaters, Threads
<1>1. /\ UNCHANGED <<chain, block, tx, buffer, inMsgs>>
      /\ \A other \in Threads \ {th} : pc'[other] = pc[other]
      /\ pc'[th] = "assign" \/ pc'[th] = pc[th] \/ Harmless(th, pc'[th])
  BY <1>0, PoolControl
<1>2. Ready(th, pc'[th])
  <2>1. Ready(th, "assign") /\ Ready(th, pc[th])
    BY <1>0 DEF Ready, IInv, Readiness
  <2>2. QED
    BY <1>1, <2>1, HarmlessReady
<1>3. AllKnown(pool) /\ (\A other \in Updaters : AllKnown(difference[other])) /\ AllKnown(<<>>)
  BY DEF IInv, Stock, PoolKnown, AllKnown
<1>4. CASE RemoveFromPool(th)
  <2> DEFINE d == Difference(pool, BlockTransactions(block[th]))
  <2>1. d \in Seq({pool[n] : n \in DOMAIN pool})
    BY <1>0, BlockTransactionsType, DifferenceOfFirst
  <2>2. \A i \in DOMAIN d : d[i] \in {pool[n] : n \in DOMAIN pool}
    <3> HIDE DEF d
    <3>1. QED
      BY <2>1
  <2>3. AllKnown(d)
    BY <1>3, <2>2 DEF AllKnown
  <2> HIDE DEF d
  <2>4. pool' = pool /\ (difference' = difference \/ difference' = [difference EXCEPT ![th] = d])
    BY <1>4 DEF RemoveFromPool, ledger, d
  <2>5. AllKnown(pool') /\ \A other \in Updaters : AllKnown(difference'[other])
    BY <1>0, <1>3, <2>3, <2>4
  <2>6. QED
    BY <1>1, <1>2, <2>5, ReadyStep
<1>5. CASE Assign(th)
  <2>1. pool' = difference[th] /\ difference' = [difference EXCEPT ![th] = <<>>]
    BY <1>5 DEF Assign
  <2>2. AllKnown(pool') /\ \A other \in Updaters : AllKnown(difference'[other])
    BY <1>0, <1>3, <2>1
  <2>3. QED
    BY <1>1, <1>2, <2>2, ReadyStep
<1>6. QED
  BY <1>4, <1>5

(* sendBackToPool throws as soon as there is something to send back: the   *)
(* first transaction of the chain has no time.                             *)
LEMMA NothingSentBack ==
  ASSUME IInv, chain # <<>>, NEW rejected \in Seq(Transaction), rejected # <<>>
  PROVE  Throws(rejected, ChainTransactions(chain))
<1>1. chain \in Seq(Block) /\ chain[1].data = <<>> /\ chain[1].datum.timestamp = NoTime
  BY DEF IInv, Base, TypeOK, Stock, GenesisLike
<1>2. /\ ChainTransactions(chain) \in Seq(Transaction) /\ ChainTransactions(chain) # <<>>
      /\ ChainTransactions(chain)[1] = chain[1].datum
  BY <1>1, ChainTransactionsType
<1>3. Uncomparable(rejected[1], ChainTransactions(chain)[1])
  BY <1>1, <1>2 DEF Uncomparable
<1>4. QED
  BY <1>2, <1>3, ThrowsAtOnce

(* So a rejected block changes the pool in no way.                         *)
LEMMA SendBackStep ==
  ASSUME IInv, Base', NEW th \in Updaters, SendBack(th)
  PROVE  IInv'
<1>0. /\ TypeOK /\ th \in Threads /\ chain # <<>> /\ block[th] \in Block
      /\ pc \in [Threads -> Steps]
  BY DEF SendBack, At, IInv, Base, TypeOK, Ordered, AfterTest, Updaters, Threads
<1>1. BlockTransactions(block[th]) \in Seq(Transaction) /\ BlockTransactions(block[th]) # <<>>
  BY <1>0, BlockTransactionsType
<1>2. Throws(BlockTransactions(block[th]), ChainTransactions(chain))
  BY <1>0, <1>1, NothingSentBack
<1>3. pool' = pool /\ difference' = difference
  BY <1>2 DEF SendBack, updates
<1>4. /\ UNCHANGED <<chain, block, tx, buffer, inMsgs>>
      /\ \A other \in Threads \ {th} : pc'[other] = pc[other]
      /\ pc'[th] = "assign" \/ pc'[th] = pc[th] \/ Harmless(th, pc'[th])
  BY <1>0, PoolControl
<1>5. Ready(th, pc'[th])
  <2>1. Ready(th, "assign") /\ Ready(th, pc[th])
    BY <1>0 DEF Ready, IInv, Readiness
  <2>2. QED
    BY <1>4, <2>1, HarmlessReady
<1>6. QED
  BY <1>3, <1>4, <1>5, ControlStep

(* And neither does a rejected chain.                                      *)
LEMMA ChainBackStep ==
  ASSUME IInv, SChainBack
  PROVE  pool' = pool
<1>0. "server" \in Updaters
  BY DEF Updaters
<1>1. chain # <<>> /\ candidatechain \in Seq(Block) /\ chain \in Seq(Block) /\ pool \in Seq(Transaction)
  BY <1>0 DEF SChainBack, At, IInv, Base, TypeOK, Ordered, AfterTest
<1> DEFINE rejected == ChainTransactions(candidatechain)
<1>2. rejected \in Seq(Transaction) /\ ChainTransactions(chain) \in Seq(Transaction)
  BY <1>1, ChainTransactionsType
<1>3. CASE rejected = <<>>
  <2>1. Difference(rejected, ChainTransactions(chain)) \in Seq({rejected[n] : n \in DOMAIN rejected})
    BY <1>2, DifferenceOfFirst
  <2>2. {rejected[n] : n \in DOMAIN rejected} = {}
    BY <1>3
  <2>3. \A s \in Seq({}) : s = <<>>
    OBVIOUS
  <2>4. Difference(rejected, ChainTransactions(chain)) = <<>>
    BY <2>1, <2>2, <2>3
  <2>5. pool \o <<>> = pool
    BY <1>1
  <2>6. QED
    BY <2>4, <2>5 DEF SChainBack
<1>4. CASE rejected # <<>>
  <2>1. Throws(rejected, ChainTransactions(chain))
    BY <1>1, <1>2, <1>4, NothingSentBack
  <2>2. QED
    BY <2>1 DEF SChainBack
<1>5. QED
  BY <1>3, <1>4

(* The rest of manageChain.                                                *)
LEMMA ManageChainStep ==
  ASSUME IInv, Base', SChainTest \/ SChainLength \/ SChainRemove \/ SChainAssign \/ SChainBack
  PROVE  IInv'
<1>0. /\ "server" \in Threads /\ "server" \in Updaters
      /\ pool \in Seq(Transaction) /\ difference \in [Updaters -> Seq(Transaction)]
  BY DEF IInv, Base, TypeOK, Updaters, Threads
<1>1. /\ UNCHANGED <<chain, block, tx, buffer, inMsgs>>
      /\ \A other \in Threads \ {"server"} : pc'[other] = pc[other]
      /\ pc'["server"] \in {pc["server"], "listen", "chainLength", "chainBack", "chainRemove", "chainAssign"}
  BY ManageChainControl DEF IInv
<1>2. Ready("server", pc'["server"])
  <2>1. \A step \in {"listen", "chainLength", "chainBack", "chainRemove", "chainAssign"} : Ready("server", step)
    BY DEF Ready
  <2>2. Ready("server", pc["server"])
    BY <1>0 DEF IInv, Readiness
  <2>3. QED
    BY <1>1, <2>1, <2>2
<1>3. \/ pool' = pool /\ difference' = difference
      \/ pool' = pool /\ difference' = [difference EXCEPT !["server"] = pool]
      \/ pool' = difference["server"] /\ difference' = [difference EXCEPT !["server"] = <<>>]
  <2>1. CASE SChainBack
    BY <2>1, ChainBackStep DEF SChainBack, updates
  <2>2. CASE SChainTest \/ SChainLength \/ SChainRemove \/ SChainAssign
    BY <2>2 DEF SChainTest, SChainLength, SChainRemove, SChainAssign, ledger, updates
  <2>3. QED
    BY <2>1, <2>2
<1>4. AllKnown(pool) /\ (\A th \in Updaters : AllKnown(difference[th])) /\ AllKnown(<<>>)
  BY DEF IInv, Stock, PoolKnown, AllKnown
<1>5. AllKnown(pool') /\ \A th \in Updaters : AllKnown(difference'[th])
  BY <1>0, <1>3, <1>4
<1>6. QED
  BY <1>0, <1>1, <1>2, <1>5, ReadyStep

(* sendBlock, mineBlock and manageBlock take a block on.                   *)
LEMMA BookStep ==
  ASSUME IInv, Base', NEW th \in Updaters, Candidate(th) \/ Keep(th)
  PROVE  IInv'
<1>0. TypeOK /\ th \in Threads /\ th \in {"main", "miner", "server"}
  BY DEF IInv, Base, Updaters, Threads
<1>1. UNCHANGED <<chain, pool, block, difference, tx, buffer, inMsgs>>
  BY DEF Candidate, Keep, account, mail, ledger, updates
<1>2. PICK step \in {"test", "keep", "clear", "listen"} : Goto(th, step)
  BY <1>0 DEF Candidate, Keep
<1>3. pc'[th] = step /\ \A other \in Threads \ {th} : pc'[other] = pc[other]
  BY <1>0, <1>2, OneMoves
<1>4. Ready(th, pc[th]) /\ pc[th] \in {"candidate", "keep"} /\ (th = "server" /\ pc[th] = "keep" => step = "listen")
  <2>1. pc[th] \in {"candidate", "keep"}
    BY DEF Candidate, Keep, At
  <2>2. th = "server" /\ pc[th] = "keep" => pc'[th] = "listen"
    <3>1. SUFFICES ASSUME th = "server", pc[th] = "keep" PROVE pc'[th] = "listen"
      OBVIOUS
    <3>2. Goto(th, "listen")
      BY <3>1 DEF Candidate, Keep, At
    <3>3. QED
      BY <1>0, <3>2, OneMoves
  <2>3. QED
    BY <1>0, <1>3, <2>1, <2>2 DEF IInv, Readiness
<1>5. Ready(th, step)
  BY <1>0, <1>4 DEF Ready, Handlers, Updaters
<1>6. QED
  BY <1>1, <1>3, <1>5, ControlStep

-----------------------------------------------------------------------------
(* A transaction is made here, or known, until it is in the pool.          *)
LEMMA MakeTransactionStep ==
  ASSUME IInv, Base', TAt
  PROVE  IInv'
<1>0. /\ TypeOK /\ "txn" \in Threads /\ "txn" \in Handlers /\ "txn" \notin Updaters
      /\ tx \in [Handlers -> Transaction]
  BY DEF IInv, Base, TypeOK, Updaters, Handlers, Threads
<1>1. UNCHANGED <<chain, pool, block, difference, buffer, inMsgs>>
  BY DEF TAt, mail, ledger, updates
<1>2. \A t : Known(t) => Known(t)'
  BY <1>1 DEF Known
<1>3. CASE tx' = tx /\ (Raise("txn") \/ Dies)
  <2>1. \A other \in Threads : pc'[other] = pc[other]
    BY <1>0, <1>3, OneMoves
  <2>2. Quiet
    BY <1>1, <1>3, <2>1 DEF Quiet
  <2>3. QED
    BY <2>2, QuietIInv
<1>4. CASE /\ Goto("txn", "load")
           /\ \E amount \in Amounts :
                tx' = [tx EXCEPT !["txn"] = NewTransaction(Me, portList[index], amount, now)]
  <2>1. PICK amount \in Amounts :
          tx' = [tx EXCEPT !["txn"] = NewTransaction(Me, portList[index], amount, now)]
    BY <1>4
  <2>2. /\ pc'["txn"] = "load" /\ \A other \in Threads \ {"txn"} : pc'[other] = pc[other]
        /\ \A other \in Handlers \ {"txn"} : tx'[other] = tx[other]
    BY <1>0, <1>4, <2>1, OneMoves
  <2>3. tx'["txn"] = NewTransaction(Me, portList[index], amount, now)
    BY <1>0, <2>1
  <2>4. tx'["txn"].from = Me
    BY <2>3 DEF NewTransaction
  <2>5. Known(tx["txn"])'
    BY <2>4 DEF Known
  <2>6. Ready("txn", pc["txn"])'
    BY <1>0, <2>2, <2>5 DEF Ready
  <2>7. Readiness'
    BY <1>0, <1>1, <1>2, <2>2, <2>6, OthersReady DEF IInv
  <2>8. Stock'
    BY <1>1, <1>2 DEF IInv, Stock, Bare, GenesisLike, OwnBlocksOnly, OwnBlock, PoolKnown, AllKnown
  <2>9. QED
    BY <2>7, <2>8 DEF IInv
<1>5. QED
  BY <1>3, <1>4 DEF TAt

(* The steps that handle it.                                               *)
LEMMA HandleStep ==
  ASSUME IInv, Base', NEW th \in Handlers, Load(th) \/ Store(th) \/ PoolTx(th)
  PROVE  IInv'
<1>0. /\ TypeOK /\ th \in Threads /\ pool \in Seq(Transaction) /\ tx[th] \in Transaction
      /\ th \in {"server", "txn"}
  BY DEF IInv, Base, TypeOK, Handlers, Threads
<1>1. UNCHANGED <<chain, block, difference, tx, buffer, inMsgs>>
  BY DEF Load, Store, PoolTx, account, mail, ledger, updates
<1>2. \A t : Known(t) => Known(t)'
  BY <1>1 DEF Known
<1>3. /\ pc[th] \in {"load", "store", "poolTx"} /\ pc'[th] \in {"store", "poolTx", "recordTx"}
      /\ \A other \in Threads \ {th} : pc'[other] = pc[other]
  <2>1. PICK step \in {"store", "poolTx", "recordTx"} : Goto(th, step)
    BY DEF Load, Store, PoolTx
  <2>2. pc[th] \in {"load", "store", "poolTx"}
    BY DEF Load, Store, PoolTx, At
  <2>3. QED
    BY <1>0, <2>1, <2>2, OneMoves
<1>4. Known(tx[th])
  BY <1>0, <1>3 DEF IInv, Readiness, Ready
<1>5. Ready(th, pc[th])'
  BY <1>0, <1>1, <1>2, <1>3, <1>4 DEF Ready, Updaters
<1>6. Readiness'
  BY <1>0, <1>1, <1>2, <1>3, <1>5, OthersReady DEF IInv
<1>7. AllKnown(pool)'
  <2>1. CASE Load(th) \/ Store(th)
    BY <1>2, <2>1 DEF Load, Store, ledger, IInv, Stock, PoolKnown, AllKnown
  <2>2. CASE PoolTx(th)
    <3> DEFINE t == tx[th]
    <3>1. pool' \in Pushed(th, pool, <<t>>) /\ pool \in Seq(Transaction) /\ t \in Transaction /\ Known(t)
      BY <1>0, <1>4, <2>2 DEF PoolTx
    <3> HIDE DEF t
    <3>2. pool' \in Seq(Transaction) /\ (pool' = Append(pool, t) \/ pool' = pool)
      BY <3>1, PushedType
    <3>3. /\ DOMAIN pool = 1 .. Len(pool) /\ Len(pool) \in Nat
          /\ \A i \in 1 .. Len(pool) : Append(pool, t)[i] = pool[i]
          /\ Append(pool, t)[Len(pool) + 1] = t
          /\ DOMAIN Append(pool, t) = 1 .. Len(pool) + 1
      BY <3>1, AppendProperties
    <3>4. \A i \in 1 .. Len(pool) + 1 : i \in 1 .. Len(pool) \/ i = Len(pool) + 1
      BY <3>3
    <3>5. \A i \in DOMAIN pool' : pool'[i] = t \/ (i \in DOMAIN pool /\ pool'[i] = pool[i])
      BY <3>2, <3>3, <3>4
    <3>6. QED
      BY <1>2, <3>1, <3>5 DEF IInv, Stock, PoolKnown, AllKnown
  <2>3. QED
    BY <2>1, <2>2
<1>8. PoolKnown'
  BY <1>1, <1>2, <1>7 DEF IInv, Stock, PoolKnown, AllKnown
<1>9. Stock'
  BY <1>1, <1>8 DEF IInv, Stock, Bare, GenesisLike, OwnBlocksOnly, OwnBlock
<1>10. QED
  BY <1>6, <1>9 DEF IInv

-----------------------------------------------------------------------------
(* main makes a genesis block,                                             *)
LEMMA GenesisStep ==
  ASSUME IInv, Base', MGenesis
  PROVE  IInv'
<1>0. /\ TypeOK /\ block \in [Updaters -> Block] /\ now' \in Nat
      /\ "main" \in Threads /\ "main" \in Updaters /\ "main" \notin Handlers
      /\ "miner" \in Updaters
  BY DEF IInv, Base, TypeOK, Updaters, Handlers, Threads
<1>1. UNCHANGED <<chain, pool, difference, tx, buffer, inMsgs>>
  BY DEF MGenesis, account, mail, ledger
<1>2. \A t : Known(t) => Known(t)'
  BY <1>1 DEF Known
<1>3. PICK g \in Garbage : \E genesis \in makeGenesisBlock(g, now') :
        block' = [block EXCEPT !["main"] = genesis]
  BY DEF MGenesis
<1>4. PICK genesis \in makeGenesisBlock(g, now') : block' = [block EXCEPT !["main"] = genesis]
  BY <1>3
<1>5. Bare(block'["main"]) /\ \A other \in Updaters \ {"main"} : block'[other] = block[other]
  <2>1. g \in Int
    BY ValuesAssumption
  <2>2. genesis.pow = 0 /\ genesis.data = <<>>
    BY <1>0, <2>1, GenesisType
  <2>3. QED
    BY <1>0, <1>4, <2>2 DEF Bare
<1>6. pc'["main"] = "test" /\ \A other \in Threads \ {"main"} : pc'[other] = pc[other]
  BY <1>0, OneMoves DEF MGenesis
<1>7. Ready("main", pc["main"])'
  BY <1>0, <1>6 DEF Ready
<1>8. Readiness'
  BY <1>0, <1>1, <1>2, <1>5, <1>6, <1>7, OthersReady DEF IInv
<1>9. block'["miner"] = block["miner"]
  BY <1>0, <1>5
<1>10. Stock'
  BY <1>1, <1>2, <1>5, <1>9 DEF IInv, Stock, Bare, GenesisLike, OwnBlocksOnly, OwnBlock, PoolKnown, AllKnown
<1>11. QED
  BY <1>8, <1>10 DEF IInv

(* and the miner a block of the pool, which it empties, with a coinbase of *)
(* its own.                                                                *)
LEMMA MineStep ==
  ASSUME IInv, Base', BTip \/ BTake \/ BEmpty
  PROVE  IInv'
<1>0. /\ TypeOK /\ block \in [Updaters -> Block] /\ block["miner"] \in Block /\ now \in Nat \ {0}
      /\ "miner" \in Threads /\ "miner" \in Updaters /\ "miner" \notin Handlers
      /\ "main" \in Updaters /\ Me \in Port \ {0}
  BY NodeAssumption DEF IInv, Base, TypeOK, Updaters, Handlers, Threads
<1>1. UNCHANGED <<chain, difference, tx, buffer, inMsgs>>
  BY DEF BTip, BTake, BEmpty, account, mail, ledger
<1>2. \A t : Known(t) => Known(t)'
  BY <1>1 DEF Known
<1>3. /\ \A other \in Updaters \ {"miner"} : block'[other] = block[other]
      /\ \A other \in Threads \ {"miner"} : pc'[other] = pc[other]
      /\ pool' = pool \/ pool' = <<>>
  <2>1. \A other \in Updaters \ {"miner"} : block'[other] = block[other]
    BY <1>0 DEF BTip, BTake, BEmpty
  <2>2. \E step \in {"take", "empty", "candidate"} : Goto("miner", step) \/ Dies
    BY DEF BTip, BTake, BEmpty
  <2>3. pool' = pool \/ pool' = <<>>
    BY DEF BTip, BTake, BEmpty, ledger
  <2>4. QED
    BY <1>0, <2>1, <2>2, <2>3, OneMoves
<1>4. AllKnown(block'["miner"].data) /\ Ready("miner", pc["miner"])'
  <2>1. CASE BTip
    <3>1. block'["miner"].data = block["miner"].data
      BY <1>0, <2>1 DEF BTip, Block
    <3>2. pc["miner"] = "tip" /\ (Goto("miner", "take") \/ Dies)
      BY <2>1 DEF BTip, At
    <3>3. pc'["miner"] \in {"tip", "take"}
      BY <1>0, <3>2, OneMoves DEF Dies
    <3>4. QED
      BY <1>0, <3>1, <3>3 DEF Ready, IInv, Stock, PoolKnown
  <2>2. CASE BTake
    <3>1. block' = [block EXCEPT !["miner"].data = pool] /\ Goto("miner", "empty")
      BY <2>2 DEF BTake
    <3>2. block'["miner"].data = pool
      BY <1>0, <3>1 DEF Block
    <3>3. pc'["miner"] = "empty"
      BY <1>0, <3>1, OneMoves
    <3>4. QED
      BY <1>0, <3>2, <3>3 DEF Ready, IInv, Stock, PoolKnown
  <2>3. CASE BEmpty
    <3> DEFINE h == block["miner"].prevHash
               d == block["miner"].data
    <3>1. PICK g \in Garbage : \E b \in MinedBlock(g, h, Me, d, now) : block' = [block EXCEPT !["miner"] = b]
      BY <2>3 DEF BEmpty
    <3>2. g \in Int /\ Me \in Port /\ h \in Hash /\ d \in Seq(Transaction)
      BY <1>0, ValuesAssumption DEF Block
    <3>3. AllKnown(d)
      BY DEF IInv, Stock, PoolKnown
    <3> HIDE DEF h, d
    <3>4. PICK b \in MinedBlock(g, h, Me, d, now) : block' = [block EXCEPT !["miner"] = b]
      BY <3>1
    <3>5. b.data = d /\ b.datum = NewCoinbase(Me, now)
      BY <1>0, <3>2, MinedBlockType
    <3>6. block'["miner"] = b
      BY <1>0, <3>4
    <3>7. MinedHere(block'["miner"])
      <4> DEFINE c == NewCoinbase(Me, now)
      <4>1. c.from = 0 /\ c.to = Me /\ c.timestamp # NoTime
        BY <1>0, NewCoinbaseType
      <4>2. block'["miner"].datum = c
        BY <3>5, <3>6
      <4> HIDE DEF c
      <4>3. QED
        BY <4>1, <4>2 DEF MinedHere
    <3>8. pc'["miner"] = "candidate"
      BY <1>0, <2>3, OneMoves DEF BEmpty
    <3>9. QED
      BY <1>0, <3>3, <3>5, <3>6, <3>7, <3>8 DEF Ready, MinedHere
  <2>4. QED
    BY <2>1, <2>2, <2>3
<1>5. Readiness'
  BY <1>0, <1>1, <1>2, <1>3, <1>4, OthersReady DEF IInv
<1>6. PoolKnown'
  <2>1. AllKnown(<<>>)
    BY DEF AllKnown
  <2>2. AllKnown(pool') /\ \A i \in DOMAIN chain : AllKnown(chain[i].data)
    BY <1>3, <2>1 DEF IInv, Stock, PoolKnown
  <2>3. QED
    BY <1>1, <1>2, <1>4, <2>2 DEF IInv, Stock, PoolKnown, AllKnown
<1>7. block'["main"] = block["main"]
  BY <1>0, <1>3
<1>8. Stock'
  BY <1>1, <1>6, <1>7 DEF IInv, Stock, Bare, GenesisLike, OwnBlocksOnly, OwnBlock
<1>9. QED
  BY <1>5, <1>8 DEF IInv

-----------------------------------------------------------------------------
(* A block that a peer sends has an honest hash: the merkle root under it  *)
(* is that of a genesis block, or ends in the coinbase of its miner.       *)
LEMMA PeerBlocksHonest ==
  ASSUME HashesHold, TypeOK, NEW m \in PeerMessages, m.head = "BLOCK"
  PROVE  m \in Message /\ Honest(m.m_b.blockHash)
<1>1. m \in Message
  BY PeerMessagesType
<1>2. PICK b \in PeerGenesis \cup UNION {PeerMined(base) : base \in PeerBases} : m = BlockMessage(b)
  BY DEF PeerMessages, TransactionMessage, ChainMessage, EmptyMessage
<1>3. m.m_b = b
  BY <1>2 DEF BlockMessage, EmptyMessage
<1>4. CASE b \in PeerGenesis
  <2>1. PICK g \in Garbage : b \in makeGenesisBlock(g, 1)
    BY <1>4 DEF PeerGenesis
  <2>2. g \in Int /\ 1 \in Nat
    BY ValuesAssumption
  <2>3. b \in Block /\ b.pow = 0 /\ b.merkleRoot = <<DefaultTransaction(g)>> /\ b.blockHash \in HashesOf(b)
    BY <2>1, <2>2, GenesisType
  <2>4. b.blockHash = hash(b)
    BY <2>3, HashesType
  <2>5. Len(b.merkleRoot) = 1
    BY <2>3
  <2>6. QED
    BY <1>1, <1>3, <2>3, <2>4, <2>5, HashEnds DEF Honest
<1>5. CASE \E base \in PeerBases : b \in PeerMined(base)
  <2>1. PICK g \in Int, h \in Hash, p \in Port, d \in Seq(Transaction), t \in Nat \ {0} :
          b \in MinedBlock(g, h, p, d, t)
    BY <1>5, PeerMinedType
  <2>2. b \in Block /\ b.merkleRoot = Append(d, NewCoinbase(p, t)) /\ b.blockHash \in HashesOf(b)
    BY <2>1, MinedBlockType
  <2>3. b.blockHash = hash(b)
    BY <2>2, HashesType
  <2>4. b.merkleRoot # <<>> /\ Last(b.merkleRoot).timestamp # NoTime
    <3> DEFINE c == NewCoinbase(p, t)
    <3>1. c \in Transaction /\ c.timestamp # NoTime
      BY NewCoinbaseType
    <3> HIDE DEF c
    <3>2. Append(d, c) # <<>> /\ Last(Append(d, c)) = c
      BY <3>1, AppendProperties DEF Last
    <3>3. QED
      BY <2>2, <3>1, <3>2 DEF c
  <2>5. QED
    BY <1>1, <1>3, <2>2, <2>3, <2>4, HashEnds DEF Honest
<1>6. QED
  BY <1>2, <1>4, <1>5

(* So has a block that is received, also when its end is that of another.  *)
LEMMA ReceivedHonest ==
  ASSUME HashesHold, IInv, NEW m \in Received, m.head = "BLOCK"
  PROVE  Honest(m.m_b.blockHash)
<1>0. TypeOK /\ buffer \in Message /\ (buffer.head = "BLOCK" => Honest(buffer.m_b.blockHash))
  BY DEF IInv, Base, TypeOK, Stock
<1>1. CASE m = EmptyMessage
  BY <1>1, MessageTypes
<1>2. CASE m \in PeerMessages
  BY <1>0, <1>2, PeerBlocksHonest
<1>3. CASE \E p \in PeerMessages : m \in Spliced(p, buffer)
  <2>1. PICK p \in PeerMessages : m \in Spliced(p, buffer)
    BY <1>3
  <2>2. p \in Message
    BY <1>0, PeerMessagesType
  <2>3. p.head = "BLOCK" /\ buffer.head = "BLOCK"
    BY <1>0, <2>1, <2>2, SplicedType
  <2>4. PICK b \in SplicedBlocks(p.m_b, buffer.m_b) : m = BlockMessage(b)
    BY <1>0, <2>1, <2>2, <2>3, SplicedType
  <2>5. b.blockHash \in {p.m_b.blockHash, buffer.m_b.blockHash}
    BY <1>0, <2>2, SplicedBlockType DEF Message
  <2>6. m.m_b = b
    BY <2>4 DEF BlockMessage, EmptyMessage
  <2>7. QED
    BY <1>0, <2>3, <2>5, <2>6, PeerBlocksHonest
<1>4. QED
  BY <1>0, <1>1, <1>2, <1>3 DEF Received

(* What read_b and decode leave of a block.                                *)
LEMMA BodyForeign ==
  ASSUME HashesHold, IInv, NEW m \in Received, m.head = "BLOCK",
         NEW msg \in read_message(m), NEW b \in Decoded(msg.m_b, EmptiedBlocks)
  PROVE  Foreign(b)
<1>0. TypeOK
  BY DEF IInv, Base
<1>1. m \in Message /\ m.m_b \in Block
  BY <1>0, ReceivedType DEF Message
<1>2. msg.m_b \in read_b(m.m_b)
  BY <1>1, ReadMessageType
<1>3. msg.m_b.datum.timestamp = NoTime /\ msg.m_b.blockHash = m.m_b.blockHash
  BY <1>1, <1>2, ReadBlockType
<1>4. b = msg.m_b \/ b \in EmptiedBlocks
  BY DEF Decoded
<1>5. QED
  BY <1>3, <1>4, EmptiedType, ReceivedHonest DEF Foreign

(* A transaction that is received is known from then on.                   *)
LEMMA BodyKnown ==
  ASSUME IInv, NEW m \in Received, m.head = "TRANSACTION",
         NEW msg \in read_message(m), NEW t \in Decoded(msg.m_t, EmptiedTransactions),
         inMsgs' = Append(inMsgs, msg)
  PROVE  \A s : s = t => Known(s)'
<1>1. inMsgs \in Seq(Message) /\ m \in Message
  BY ReceivedType DEF IInv, Base, TypeOK
<1>2. msg \in Message /\ msg.head = "TRANSACTION"
  BY <1>1, ReadMessageType
<1>3. Len(inMsgs) + 1 \in DOMAIN inMsgs' /\ inMsgs'[Len(inMsgs) + 1] = msg
  BY <1>1, <1>2, AppendProperties
<1>4. QED
  BY <1>2, <1>3 DEF Known

(* The server reads a message.                                             *)
LEMMA ReceiveStep ==
  ASSUME HashesHold, IInv, Base', SReceive
  PROVE  IInv'
<1>0. /\ TypeOK /\ tx \in [Handlers -> Transaction] /\ block \in [Updaters -> Block]
      /\ "server" \in Threads /\ "server" \in Handlers /\ "server" \in Updaters
      /\ "miner" \in Updaters /\ "main" \in Updaters
  BY DEF IInv, Base, TypeOK, Updaters, Handlers, Threads
<1>1. PICK m \in Received :
        SUnreadable(m) \/ SDecodeCrash(m) \/ STransaction(m) \/ SBlock(m) \/ SChain(m)
  BY DEF SReceive
<1>2. UNCHANGED <<chain, pool, difference>> /\ buffer' = m
  BY <1>1 DEF SUnreadable, SDecodeCrash, STransaction, SBlock, SChain, ledger, updates
<1>3. \A t : Known(t) => Known(t)'
  <2>1. inMsgs' = inMsgs \/ \E msg \in read_message(m) : inMsgs' = Append(inMsgs, msg)
    BY <1>1 DEF SUnreadable, SDecodeCrash, STransaction, SBlock, SChain
  <2>2. \A msg \in read_message(m) : msg \in Message
    BY <1>0, ReceivedTypes
  <2>3. CASE inMsgs' = inMsgs
    BY <2>3 DEF Known
  <2>4. QED
    BY <1>0, <2>1, <2>2, <2>3, StillKnown
<1>4. /\ \A other \in Updaters \ {"server"} : block'[other] = block[other]
      /\ \A other \in Handlers \ {"server"} : tx'[other] = tx[other]
      /\ \A other \in Threads \ {"server"} : pc'[other] = pc[other]
  <2>1. /\ \A other \in Updaters \ {"server"} : block'[other] = block[other]
        /\ \A other \in Handlers \ {"server"} : tx'[other] = tx[other]
    BY <1>0, <1>1 DEF SUnreadable, SDecodeCrash, STransaction, SBlock, SChain, account, updates
  <2>2. \E step \in {"listen", "load", "poolTx", "candidate", "chainTest"} :
          Goto("server", step) \/ Raise("server") \/ Dies
    BY <1>1 DEF SUnreadable, SDecodeCrash, STransaction, SBlock, SChain
  <2>3. QED
    BY <1>0, <2>1, <2>2, OneMoves
<1>5. Ready("server", pc["server"])'
  <2>1. CASE SUnreadable(m) \/ SDecodeCrash(m)
    <3>1. Raise("server") \/ Dies
      BY <2>1 DEF SUnreadable, SDecodeCrash
    <3>2. pc["server"] = "listen"
      BY DEF SReceive, At
    <3>3. pc'["server"] = "listen"
      BY <1>0, <3>1, <3>2, OneMoves
    <3>4. QED
      BY <3>3 DEF Ready
  <2>2. CASE STransaction(m)
    <3>0. PICK msg \in read_message(m) :
            /\ inMsgs' = Append(inMsgs, msg)
            /\ \E t \in Decoded(msg.m_t, EmptiedTransactions) :
                 /\ tx' = [tx EXCEPT !["server"] = t]
                 /\ Goto("server", IF t.to = Me THEN "load" ELSE "poolTx")
      BY <2>2 DEF STransaction
    <3>1. PICK t \in Decoded(msg.m_t, EmptiedTransactions) :
            /\ tx' = [tx EXCEPT !["server"] = t]
            /\ Goto("server", IF t.to = Me THEN "load" ELSE "poolTx")
      BY <3>0
    <3>2. \A s : s = t => Known(s)'
      BY <2>2, <3>0, BodyKnown DEF STransaction
    <3>3. tx'["server"] = t
      BY <1>0, <3>1
    <3>4. Known(tx["server"])'
      BY <3>2, <3>3
    <3>5. pc'["server"] \in {"load", "poolTx"}
      BY <1>0, <3>1, OneMoves
    <3>6. QED
      BY <3>4, <3>5 DEF Ready
  <2>3. CASE SBlock(m)
    <3>0. PICK msg \in read_message(m) :
            \E b \in Decoded(msg.m_b, EmptiedBlocks) : block' = [block EXCEPT !["server"] = b]
      BY <2>3 DEF SBlock
    <3>1. PICK b \in Decoded(msg.m_b, EmptiedBlocks) : block' = [block EXCEPT !["server"] = b]
      BY <3>0
    <3>2. block'["server"] = b
      BY <1>0, <3>1
    <3>3. Foreign(block'["server"])
      BY <2>3, <3>2, BodyForeign DEF SBlock
    <3>4. pc'["server"] = "candidate"
      BY <1>0, <2>3, OneMoves DEF SBlock
    <3>5. QED
      BY <3>3, <3>4 DEF Ready, Foreign
  <2>4. CASE SChain(m)
    <3>1. pc'["server"] = "chainTest"
      BY <1>0, <2>4, OneMoves DEF SChain
    <3>2. QED
      BY <3>1 DEF Ready
  <2>5. QED
    BY <1>1, <2>1, <2>2, <2>3, <2>4
<1>6. Readiness'
  BY <1>0, <1>3, <1>4, <1>5, OthersReady DEF IInv
<1>7. buffer'.head = "BLOCK" => Honest(buffer'.m_b.blockHash)
  BY <1>2, ReceivedHonest
<1>8. block'["main"] = block["main"] /\ block'["miner"] = block["miner"]
  BY <1>0, <1>4
<1>9. Stock'
  BY <1>2, <1>3, <1>7, <1>8
     DEF IInv, Stock, Bare, GenesisLike, OwnBlocksOnly, OwnBlock, PoolKnown, AllKnown
<1>10. QED
  BY <1>6, <1>9 DEF IInv

-----------------------------------------------------------------------------
(* A node that has just started.                                           *)
LEMMA InitIInv ==
  ASSUME Init, Base
  PROVE  IInv
<1>1. \A th \in Threads : pc[th] \in {"start", "listen", "idle"}
  BY DEF Init, Threads
<1>2. Readiness
  BY <1>1 DEF Readiness, Ready
<1>3. \A th \in Updaters : block[th] = EmptyBlock /\ difference[th] = <<>>
  BY DEF Init
<1>4. "main" \in Updaters /\ "miner" \in Updaters
  BY DEF Updaters
<1>5. Stock
  BY <1>3, <1>4, EmptyBlockType
     DEF Init, Stock, Bare, OwnBlocksOnly, PoolKnown, AllKnown, EmptyMessage
<1>6. QED
  BY <1>2, <1>5 DEF IInv

(* Every step keeps the invariant.                                         *)
LEMMA NextIInv ==
  ASSUME HashesHold, IInv, Next
  PROVE  IInv'
<1>1. Base' /\ TypeOK /\ TypeOK'
  BY NextBase DEF IInv, Base
<1>2. CASE \E th \in Senders : \/ ClearPortList(th) \/ FillPortList(th) \/ Record(th)
                               \/ ChainMsg(th)
  BY <1>1, <1>2, BroadcastQuiet, QuietIInv
<1>3. CASE \/ TSleep \/ TDraw \/ BMine \/ BAnnounce \/ DataRace
           \/ \E th \in Handlers : RecordTx(th)
           \/ \E th \in Updaters : Reset(th)
  BY <1>1, <1>3, OthersQuiet, QuietIInv
<1>4. CASE TAt \/ \E th \in Handlers : Load(th) \/ Store(th) \/ PoolTx(th)
  BY <1>1, <1>4, MakeTransactionStep, HandleStep
<1>5. CASE \E th \in Updaters : UpdateChain(th)
  <2>1. PICK th \in Updaters : UpdateChain(th)
    BY <1>5
  <2>2. QED
    BY <1>1, <2>1, TestEmptyStep, ValidatePlaceStep, ValidateStep, GrowStep, RemoveStep, SendBackStep
       DEF UpdateChain
<1>6. CASE MGenesis \/ BTip \/ BTake \/ BEmpty
  BY <1>1, <1>6, GenesisStep, MineStep
<1>7. CASE \E th \in Updaters : Candidate(th) \/ Keep(th)
  BY <1>1, <1>7, BookStep
<1>8. CASE SReceive
  BY <1>1, <1>8, ReceiveStep
<1>9. CASE SChainTest \/ SChainLength \/ SChainRemove \/ SChainAssign \/ SChainBack
  BY <1>1, <1>9, ManageChainStep
<1>10. QED
  BY <1>2, <1>3, <1>4, <1>5, <1>6, <1>7, <1>8, <1>9, NextCases DEF Bookkeep

(* A step that changes nothing keeps the invariant.                        *)
LEMMA StutterIInv ==
  ASSUME IInv, UNCHANGED vars
  PROVE  IInv'
<1>1. TypeOK' /\ UNCHANGED <<chain, pool, block, difference, tx, buffer, inMsgs, pc>>
  BY DEF IInv, Base, TypeOK, vars, account, ports, books, mail, ledger, updates, rounds
<1>2. Base'
  BY <1>1, UnguardedStep DEF IInv
<1>3. QED
  BY <1>1, <1>2, QuietIInv DEF Quiet

(* When no call of sha512 overlaps another the invariant holds in every    *)
(* state a node reaches.                                                   *)
THEOREM Inductive ==
  ASSUME HashesHold
  PROVE  Spec => []IInv
<1>1. IInv /\ [Next]_vars => IInv'
  BY NextIInv, StutterIInv
<1>2. Init => Base
  BY InitBase
<1>3. Init => IInv
  BY <1>2, InitIInv
<1>4. QED
  BY <1>1, <1>3, PTL DEF Spec

-----------------------------------------------------------------------------
(* No block that another node has mined is ever adopted: the chain holds   *)
(* genesis blocks and what mineBlock of this node has made.  (When calls   *)
(* of sha512 overlap a block of another node may pass by accident.)        *)
THEOREM NeverAdopts ==
  ASSUME HashesHold
  PROVE  Spec => []OwnBlocksOnly
<1>1. IInv => OwnBlocksOnly
  BY DEF IInv, Stock
<1>2. QED
  BY <1>1, Inductive, PTL

(* Nothing enters the pool, or a block of this node, that was not made     *)
(* here or received in a transaction message.                              *)
THEOREM PoolOfKnown ==
  ASSUME HashesHold
  PROVE  Spec => []PoolKnown
<1>1. IInv => PoolKnown
  BY DEF IInv, Stock
<1>2. QED
  BY <1>1, Inductive, PTL
=============================================================================
