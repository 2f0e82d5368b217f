-------------------------------- MODULE Node --------------------------------
(***************************************************************************)
(* One running process: the singleton Node and the four threads that share *)
(* its members without a lock.                                             *)
(*   main    makes the genesis block, then starts txn and miner            *)
(*   server  handles one message of the network after the other            *)
(*   txn     sleeps, makes a transaction and broadcasts it, for ever       *)
(*   miner   solves the puzzle, makes a block of the pool, for ever        *)
(* A step is one access to a shared member, or a run of statements of one  *)
(* thread of which at most one touches what another thread can touch.  The *)
(* network is open: the peers may send whatever such a program sends.      *)
(***************************************************************************)
EXTENDS BlockChain, SetDifference, FiniteSets

CONSTANTS
  Me, Peers,      \* m_port, and the ports of the other nodes
  PortScans,      \* what a scan of the ports can find, in the order of Config.h
  DecodeRef,      \* what reading through Message::decode's dangling result yields
  FallsBack,      \* TRUE iff the local clock may be set back
  LONGEST_CHAIN_MISMATCH,
  RaceCorrupts,   \* TRUE iff two threads at one container may corrupt it
  Sends,          \* bound: the kinds of message the peers send
  MaxReceived,    \* bound: messages the server reads
  MaxMade,        \* bound: transactions the node makes
  MaxMined        \* bound: puzzles the node solves

ASSUME NodeAssumption ==
  /\ Me \in Port \ {0} /\ Peers \subseteq Port \ {0, Me}
  /\ PortScans \subseteq Seq(Peers)
  /\ DecodeRef \subseteq {"body", "emptied", "crash"} /\ DecodeRef # {}
  /\ FallsBack \in BOOLEAN /\ RaceCorrupts \in BOOLEAN
  /\ LONGEST_CHAIN_MISMATCH \in Nat
  /\ Sends \subseteq {"TRANSACTION", "BLOCK", "BLOCKCHAIN"}
  /\ MaxReceived \in Nat /\ MaxMade \in Nat /\ MaxMined \in Nat

VARIABLES
  running,         \* FALSE once the process has ended
  now,             \* the local clock
  pc,              \* what each thread does next
  balance, portList, chain, pool, candidateblock, candidatechain,
  transactions, blocks, inMsgs, outMsgs,     \* the members of Node
  buffer,          \* server: the receive buffer, never cleared
  oldchain,        \* server: validateChain's copy of the chain
  tx,              \* server, txn: the transaction being handled
  loaded,          \* server, txn: the balance as read for an update
  index,           \* txn: the position drawn in portList
  block,           \* main, server, miner: the block being handled
  difference,      \* main, server, miner: removeFromPool's local result
  outgoing,        \* main, txn, miner: messages broadcast, not yet recorded
  made, mined      \* rounds of txn and miner so far

Threads  == {"main", "server", "txn", "miner"}
Handlers == {"server", "txn"}            \* threads that handle a transaction
Updaters == {"main", "server", "miner"}  \* threads that handle a block
Senders  == {"main", "txn", "miner"}     \* threads that broadcast

account == <<balance, loaded, tx>>
ports   == <<portList, index>>
books   == <<transactions, blocks, candidateblock, candidatechain>>
mail    == <<inMsgs, outMsgs, buffer, outgoing>>
ledger  == <<chain, pool>>
updates == <<block, difference, oldchain>>
rounds  == <<now, made, mined>>
vars == <<running, pc, account, ports, books, mail, ledger, updates, rounds>>

-----------------------------------------------------------------------------
(* Control.                                                                *)

At(th, step) == running /\ pc[th] = step
Goto(th, step) == pc' = [pc EXCEPT ![th] = step] /\ UNCHANGED running
Dies == running' = FALSE /\ UNCHANGED pc

(* An exception: Peer2Peer::server catches it; nothing catches it in main, *)
(* in makeSleepTransaction or in mineBlock, where it ends the process.     *)
Raise(th) == IF th = "server" THEN Goto(th, "listen") ELSE Dies

(* Two threads at the same container, one of them writing: undefined.      *)
Access ==
  { [write |-> {"poolTx", "assign", "sendBack", "chainAssign", "chainBack", "empty"},
     read  |-> {"take", "remove", "chainRemove"}],                   \* m_unconfirmedPool
    [write |-> {"place", "push"},
     read  |-> {"test", "validatePlace", "validate", "sendBack", "tip", "chainMessage",
                "chainTest", "chainLength", "chainBack"}],           \* m_blockchain
    [write |-> {"recordTx"}, read |-> {}],                           \* m_transactions
    [write |-> {"candidate", "reset"}, read |-> {}],                 \* m_candidateblock
    [write |-> {"keep"}, read |-> {}],                               \* m_blocks
    [write |-> {"record"}, read |-> {}],                             \* m_outMsgs
    [write |-> {"clear", "fill"}, read |-> {"draw", "at"}] }         \* m_portList

Writes(a, th)  == pc[th] \in a.write
Touches(a, th) == Writes(a, th) \/ pc[th] \in a.read

(* push_back into a container that another thread writes may lose what it  *)
(* pushes; that it may corrupt the container is DataRace.                  *)
Pushed(th, v, s) ==
  {v \o s} \cup
  (IF \E a \in Access : Writes(a, th) /\ \E other \in Threads \ {th} : Writes(a, other)
   THEN {v \o SubSeq(s, 2, Len(s))} ELSE {})

DataRace ==
  /\ running /\ RaceCorrupts
  /\ \E th \in Threads : \E other \in Threads \ {th} :
       \E a \in Access : Writes(a, th) /\ Touches(a, other)
  /\ Dies
  /\ UNCHANGED <<account, ports, books, mail, ledger, updates, rounds>>

(* The clock after a wait.                                                 *)
Later == {now + 1} \cup (IF FallsBack THEN 1 .. now ELSE {})

-----------------------------------------------------------------------------
(* updatePortList: clear the list, then push what the scan finds.  Called  *)
(* by makeTransaction and, in getPortList, by every broadcast.             *)

ClearPortList(th) ==
  /\ At(th, "clear")
  /\ portList' = <<>>
  /\ Goto(th, "fill")
  /\ UNCHANGED <<account, index, books, mail, ledger, updates, rounds>>

FillPortList(th) ==
  /\ At(th, "fill")
  /\ \E found \in PortScans : portList' = portList \o found
  /\ Goto(th, CASE outgoing[th] = <<>> -> "draw"
                [] Len(outgoing[th]) = 1 /\ th # "txn" -> "chainMessage"
                [] OTHER -> "record")
  /\ UNCHANGED <<account, index, books, mail, ledger, updates, rounds>>

(* m_outMsgs.push_back after the broadcasts; main then starts the threads. *)
Record(th) ==
  /\ At(th, "record")
  /\ outMsgs' \in Pushed(th, outMsgs, outgoing[th])
  /\ outgoing' = [outgoing EXCEPT ![th] = <<>>]
  /\ pc' = CASE th = "main"  -> [pc EXCEPT !["main"] = "join", !["txn"] = "sleep", !["miner"] = "pow"]
             [] th = "txn"   -> [pc EXCEPT !["txn"] = "sleep"]
             [] th = "miner" -> [pc EXCEPT !["miner"] = "pow"]
  /\ UNCHANGED <<running, account, ports, books, inMsgs, buffer, ledger, updates, rounds>>

-----------------------------------------------------------------------------
(* The balance, the pool and the list of transactions: the tail of         *)
(* makeTransaction and the whole of manageTransaction.                     *)

Load(th) ==
  /\ At(th, "load")
  /\ loaded' = [loaded EXCEPT ![th] = balance]
  /\ Goto(th, "store")
  /\ UNCHANGED <<balance, tx, ports, books, mail, ledger, updates, rounds>>

(* Mutant: payments are added and receipts are subtracted.                 *)
Store_Swapped(th) ==
  /\ At(th, "store")
  /\ balance' = IF th = "txn" THEN loaded[th] + tx[th].amount ELSE loaded[th] - tx[th].amount
  /\ Goto(th, "poolTx")
  /\ UNCHANGED <<loaded, tx, ports, books, mail, ledger, updates, rounds>>

Store(th) ==
  /\ At(th, "store")
  /\ balance' = IF th = "txn" THEN loaded[th] - tx[th].amount ELSE loaded[th] + tx[th].amount
  /\ Goto(th, "poolTx")
  /\ UNCHANGED <<loaded, tx, ports, books, mail, ledger, updates, rounds>>

PoolTx(th) ==
  /\ At(th, "poolTx")
  /\ pool' \in Pushed(th, pool, <<tx[th]>>)
  /\ Goto(th, "recordTx")
  /\ UNCHANGED <<account, ports, books, mail, chain, updates, rounds>>

RecordTx(th) ==
  /\ At(th, "recordTx")
  /\ transactions' \in Pushed(th, transactions, <<tx[th]>>)
  /\ IF th = "txn"
     THEN /\ outgoing' = [outgoing EXCEPT !["txn"] = <<TransactionMessage(tx["txn"])>>]
          /\ Goto(th, "clear")
     ELSE Goto(th, "listen") /\ UNCHANGED outgoing
  /\ UNCHANGED <<account, ports, blocks, candidateblock, candidatechain, inMsgs, outMsgs, buffer,
                 ledger, updates, rounds>>

-----------------------------------------------------------------------------
(* The thread of makeSleepTransaction.                                     *)

TSleep ==
  /\ At("txn", "sleep") /\ made < MaxMade
  /\ made' = made + 1
  /\ now' \in Later
  /\ Goto("txn", "clear")
  /\ UNCHANGED <<account, ports, books, mail, ledger, updates, mined>>

(* N(0, size() - 1) on an empty list wraps, and at() then throws.          *)
TDraw ==
  /\ At("txn", "draw")
  /\ \/ /\ portList = <<>>
        /\ Raise("txn") /\ UNCHANGED index
     \/ /\ index' \in DOMAIN portList
        /\ Goto("txn", "at")
  /\ UNCHANGED <<account, portList, books, mail, ledger, updates, rounds>>

TAt ==
  /\ At("txn", "at")
  /\ \/ /\ index \notin DOMAIN portList
        /\ Raise("txn") /\ UNCHANGED tx
     \/ /\ index \in DOMAIN portList
        /\ \E amount \in Amounts :
             tx' = [tx EXCEPT !["txn"] = NewTransaction(Me, portList[index], amount, now)]
        /\ Goto("txn", "load")
  /\ UNCHANGED <<balance, loaded, ports, books, mail, ledger, updates, rounds>>

Txn == \/ TSleep \/ TDraw \/ TAt
       \/ ClearPortList("txn") \/ FillPortList("txn") \/ Record("txn")

-----------------------------------------------------------------------------
(* m_candidateblock and m_blocks: sendBlock and mineBlock set the one and  *)
(* then append to the other, manageBlock does so before and after          *)
(* updateChain; mineBlock and manageBlock reset the candidate that failed. *)

BlockMsg(th) == outgoing' = [outgoing EXCEPT ![th] = <<BlockMessage(block[th])>>]

Candidate(th) ==
  /\ At(th, "candidate")
  /\ candidateblock' = block[th]
  /\ Goto(th, IF th = "server" THEN "test" ELSE "keep")
  /\ UNCHANGED <<account, ports, transactions, blocks, candidatechain, mail, ledger, updates, rounds>>

(* main goes on with the message of the block.                             *)
Keep(th) ==
  /\ At(th, "keep")
  /\ blocks' \in Pushed(th, blocks, <<block[th]>>)
  /\ IF th = "main" THEN BlockMsg(th) ELSE UNCHANGED outgoing
  /\ Goto(th, CASE th = "main" -> "clear" [] th = "miner" -> "test" [] th = "server" -> "listen")
  /\ UNCHANGED <<account, ports, transactions, candidateblock, candidatechain, inMsgs, outMsgs,
                 buffer, ledger, updates, rounds>>

(* Mutant: nothing leads on from a block that was not added.               *)
Reset_MinerOnly(th) ==
  /\ th = "miner" /\ At(th, "reset")
  /\ candidateblock' = EmptyBlock
  /\ Goto(th, "pow")
  /\ UNCHANGED <<account, ports, transactions, blocks, candidatechain, mail, ledger, updates, rounds>>

(* Mutant: the miner ignores the result of updateChain.                    *)
Reset_Announces(th) ==
  /\ At(th, "reset")
  /\ candidateblock' = EmptyBlock
  /\ Goto(th, IF th = "miner" THEN "announce" ELSE "keep")
  /\ UNCHANGED <<account, ports, transactions, blocks, candidatechain, mail, ledger, updates, rounds>>

Reset(th) ==
  /\ At(th, "reset")
  /\ candidateblock' = EmptyBlock
  /\ Goto(th, IF th = "miner" THEN "pow" ELSE "keep")
  /\ UNCHANGED <<account, ports, transactions, blocks, candidatechain, mail, ledger, updates, rounds>>

Bookkeep(th) == Candidate(th) \/ Keep(th) \/ Reset(th)

-----------------------------------------------------------------------------
(* updateChain(const Block&), called by main, by manageBlock and by        *)
(* mineBlock.  It returns true, false, or raises.                          *)

(* What its caller does next: main ignores the result.                     *)
AfterTrue(th)  == CASE th = "main" -> "candidate" [] th = "miner" -> "announce" [] th = "server" -> "keep"
AfterFalse(th) == IF th = "main" THEN "candidate" ELSE "reset"

(* A genesis block made on the spot is what an empty chain compares with.  *)
TestEmpty(th) ==
  /\ At(th, "test")
  /\ \/ /\ chain # <<>>
        /\ Goto(th, "validate")
     \/ /\ chain = <<>>
        /\ \E g \in Garbage : \E genesis \in makeGenesisBlock(g, now) :
             IF /\ block[th].index = genesis.index
                /\ block[th].prevHash = genesis.prevHash
                /\ block[th].merkleRoot = genesis.merkleRoot
                /\ block[th].pow = genesis.pow
             THEN Goto(th, "validatePlace")
             ELSE Goto(th, AfterFalse(th))
  /\ UNCHANGED <<account, ports, books, mail, ledger, updates, rounds>>

(* addBlock of the first case: its result is ignored.                      *)
ValidatePlace(th) ==
  /\ At(th, "validatePlace")
  /\ \E o \in validateBlock(chain, block[th]) :
       CASE o = "valid"   -> Goto(th, "place")
         [] o = "invalid" -> Goto(th, AfterTrue(th))
         [] o = "throw"   -> Raise(th)
         [] o = "crash"   -> Dies
  /\ UNCHANGED <<account, ports, books, mail, ledger, updates, rounds>>

Place(th) ==
  /\ At(th, "place")
  /\ chain' \in Pushed(th, chain, <<block[th]>>)
  /\ Goto(th, AfterTrue(th))
  /\ UNCHANGED <<account, ports, books, mail, pool, updates, rounds>>

(* Mutant: the verdict of validateBlock is ignored.                        *)
Validate_Accepts(th) ==
  /\ At(th, "validate")
  /\ \E o \in validateBlock(chain, block[th]) :
       CASE o \in {"valid", "invalid"} -> Goto(th, "push")
         [] o = "throw"   -> Raise(th)
         [] o = "crash"   -> Dies
  /\ UNCHANGED <<account, ports, books, mail, ledger, updates, rounds>>

Validate(th) ==
  /\ At(th, "validate")
  /\ \E o \in validateBlock(chain, block[th]) :
       CASE o = "valid"   -> Goto(th, "push")
         [] o = "invalid" -> Goto(th, "sendBack")
         [] o = "throw"   -> Raise(th)
         [] o = "crash"   -> Dies
  /\ UNCHANGED <<account, ports, books, mail, ledger, updates, rounds>>

Push(th) ==
  /\ At(th, "push")
  /\ chain' \in Pushed(th, chain, <<block[th]>>)
  /\ Goto(th, "remove")
  /\ UNCHANGED <<account, ports, books, mail, pool, updates, rounds>>

RemoveFromPool(th) ==
  /\ At(th, "remove")
  /\ LET confirmed == BlockTransactions(block[th])
     IN  IF Throws(pool, confirmed)
         THEN Raise(th) /\ UNCHANGED difference
         ELSE /\ difference' = [difference EXCEPT ![th] = Difference(pool, confirmed)]
              /\ Goto(th, "assign")
  /\ UNCHANGED <<account, ports, books, mail, ledger, block, oldchain, rounds>>

Assign(th) ==
  /\ At(th, "assign")
  /\ pool' = difference[th]
  /\ difference' = [difference EXCEPT ![th] = <<>>]
  /\ Goto(th, AfterTrue(th))
  /\ UNCHANGED <<account, ports, books, mail, chain, block, oldchain, rounds>>

SendBack(th) ==
  /\ At(th, "sendBack")
  /\ LET rejected == BlockTransactions(block[th])
         confirmed == ChainTransactions(chain)
     IN  IF Throws(rejected, confirmed)
         THEN Raise(th) /\ UNCHANGED pool
         ELSE /\ pool' = pool \o Difference(rejected, confirmed)
              /\ Goto(th, AfterFalse(th))
  /\ UNCHANGED <<account, ports, books, mail, chain, updates, rounds>>

UpdateChain(th) ==
  \/ TestEmpty(th) \/ ValidatePlace(th) \/ Place(th)
  \/ Validate(th) \/ Push(th) \/ RemoveFromPool(th) \/ Assign(th) \/ SendBack(th)

-----------------------------------------------------------------------------
(* Broadcast of a block (BlockMsg) and then of the chain: the tail of      *)
(* sendBlock and of mineBlock.                                             *)

ChainMsg(th) ==
  /\ At(th, "chainMessage")
  /\ outgoing' = [outgoing EXCEPT ![th] = Append(outgoing[th], ChainMessage(chain))]
  /\ Goto(th, "clear")
  /\ UNCHANGED <<account, ports, books, inMsgs, outMsgs, buffer, ledger, updates, rounds>>

Broadcast(th) == ChainMsg(th) \/ ClearPortList(th) \/ FillPortList(th) \/ Record(th)

-----------------------------------------------------------------------------
(* The thread of main after the server has been started.                   *)

MGenesis ==
  /\ At("main", "start")
  /\ now' \in Later
  /\ \E g \in Garbage : \E genesis \in makeGenesisBlock(g, now') :
       block' = [block EXCEPT !["main"] = genesis]
  /\ Goto("main", "test")
  /\ UNCHANGED <<account, ports, books, mail, ledger, difference, oldchain, made, mined>>

(* Then sendBlock, whatever updateChain has returned.                      *)
Main == MGenesis \/ UpdateChain("main") \/ Broadcast("main")

-----------------------------------------------------------------------------
(* The thread of mineBlock.                                                *)

BMine ==
  /\ At("miner", "pow") /\ mined < MaxMined
  /\ mined' = mined + 1
  /\ now' \in Later
  /\ Goto("miner", "tip")
  /\ UNCHANGED <<account, ports, books, mail, ledger, updates, made>>

(* getLatestBlockHash.                                                     *)
BTip ==
  /\ At("miner", "tip")
  /\ \/ /\ chain # <<>>
        /\ block' = [block EXCEPT !["miner"].prevHash = Last(chain).blockHash]
        /\ Goto("miner", "take")
     \/ /\ chain = <<>>
        /\ \/ "crash" \in EmptyBack /\ Dies /\ UNCHANGED block
           \/ /\ EmptyBack # {"crash"}
              /\ block' = [block EXCEPT !["miner"].prevHash = NoHash]
              /\ Goto("miner", "take")
  /\ UNCHANGED <<account, ports, books, mail, ledger, difference, oldchain, rounds>>

BTake ==
  /\ At("miner", "take")
  /\ block' = [block EXCEPT !["miner"].data = pool]
  /\ Goto("miner", "empty")
  /\ UNCHANGED <<account, ports, books, mail, ledger, difference, oldchain, rounds>>

BEmpty ==
  /\ At("miner", "empty")
  /\ pool' = <<>>
  /\ \E g \in Garbage :
       \E b \in MinedBlock(g, block["miner"].prevHash, Me, block["miner"].data, now) :
         block' = [block EXCEPT !["miner"] = b]
  /\ Goto("miner", "candidate")
  /\ UNCHANGED <<account, ports, books, mail, chain, difference, oldchain, rounds>>

BAnnounce ==
  /\ At("miner", "announce")
  /\ BlockMsg("miner")
  /\ Goto("miner", "clear")
  /\ UNCHANGED <<account, ports, books, inMsgs, outMsgs, buffer, ledger, updates, rounds>>

Miner == \/ BMine \/ BTip \/ BTake \/ BEmpty
         \/ UpdateChain("miner") \/ BAnnounce \/ Broadcast("miner")

-----------------------------------------------------------------------------
(* What the peers may send: transactions, made when they started or just   *)
(* now; their genesis block, or ours if they took it, and a block mined on *)
(* it just now with at most one transaction; the chain of the two, and the *)
(* empty chain of a peer whose genesis block was not placed.               *)
PeerTransactions ==
  {t \in {NewTransaction(p, to, amount, time) :
            p \in Peers, to \in Peers \cup {Me}, amount \in Amounts, time \in {1, now}} :
     t.from # t.to}

PeerGenesis == UNION {makeGenesisBlock(g, 1) : g \in Garbage}

PeerBases == PeerGenesis \cup (IF chain = <<>> THEN {} ELSE {Head(chain)})

PeerMined(base) ==
  UNION {MinedBlock(g, base.blockHash, p, data, now) :
           g \in Garbage, p \in Peers,
           data \in {<<>>} \cup {<<t>> : t \in {t \in PeerTransactions : t.timestamp = now}}}

PeerMessages ==
  {m \in {TransactionMessage(t) : t \in PeerTransactions}
         \cup {BlockMessage(b) : b \in PeerGenesis \cup UNION {PeerMined(base) : base \in PeerBases}}
         \cup {ChainMessage(c) :
                 c \in {<<>>} \cup UNION {{<<base>>} \cup {<<base, b>> : b \in PeerMined(base)} :
                                          base \in PeerBases}} :
     m.head \in Sends}

(* What recv leaves in the buffer, which is not cleared: a message; only   *)
(* the first part of one, with the rest of what was there before behind it *)
(* or as something that is not JSON (EmptyMessage); or, when the           *)
(* connection was the probe of a port scan, what was there before.         *)
Received == PeerMessages \cup {EmptyMessage, buffer} \cup UNION {Spliced(m, buffer) : m \in PeerMessages}

(* What decode's result, a reference to a dead object, holds when it is    *)
(* read: the part of the message, or what is left of it.                   *)
Decoded(part, emptied) == (IF "body" \in DecodeRef THEN {part} ELSE {})
                          \cup (IF "emptied" \in DecodeRef THEN emptied ELSE {})

-----------------------------------------------------------------------------
(* The thread of Peer2Peer::server: receive, parse, record, decode and     *)
(* dispatch (all local to the thread), then the handler step by step.      *)

SUnreadable(m) ==
  /\ buffer' = m
  /\ read_message(m) = {}
  /\ Raise("server")
  /\ UNCHANGED <<account, ports, books, inMsgs, outMsgs, outgoing, ledger, updates, rounds>>

SDecodeCrash(m) ==
  /\ buffer' = m
  /\ "crash" \in DecodeRef
  /\ \E msg \in read_message(m) : inMsgs' = Append(inMsgs, msg)
  /\ Dies
  /\ UNCHANGED <<account, ports, books, outMsgs, outgoing, ledger, updates, rounds>>

(* manageTransaction: the balance only when it is addressed to this port.  *)
STransaction(m) ==
  /\ buffer' = m
  /\ m.head = "TRANSACTION"
  /\ \E msg \in read_message(m) :
       /\ inMsgs' = Append(inMsgs, msg)
       /\ \E t \in Decoded(msg.m_t, EmptiedTransactions) :
            /\ tx' = [tx EXCEPT !["server"] = t]
            /\ Goto("server", IF t.to = Me THEN "load" ELSE "poolTx")
  /\ UNCHANGED <<balance, loaded, ports, books, outMsgs, outgoing, ledger, updates, rounds>>

SBlock(m) ==
  /\ buffer' = m
  /\ m.head = "BLOCK"
  /\ \E msg \in read_message(m) :
       /\ inMsgs' = Append(inMsgs, msg)
       /\ \E b \in Decoded(msg.m_b, EmptiedBlocks) : block' = [block EXCEPT !["server"] = b]
  /\ Goto("server", "candidate")
  /\ UNCHANGED <<account, ports, books, outMsgs, outgoing, ledger, difference, oldchain, rounds>>

(* manageChain, with validateChain's copy of the chain of this node.       *)
SChain(m) ==
  /\ buffer' = m
  /\ m.head = "BLOCKCHAIN"
  /\ \E msg \in read_message(m) :
       /\ inMsgs' = Append(inMsgs, msg)
       /\ candidatechain' \in Decoded(msg.m_bc, {<<>>})
  /\ oldchain' = chain
  /\ Goto("server", "chainTest")
  /\ UNCHANGED <<account, ports, transactions, blocks, candidateblock, outMsgs, outgoing,
                 ledger, block, difference, rounds>>

(* validateChain tests m_blockchain: "BlockChain(newchain);" only declares *)
(* a variable, so the chain that is tested is the node's own.              *)
SChainTest ==
  /\ At("server", "chainTest")
  /\ \E o \in isValidChain(chain) :
       CASE o = "valid"   -> Goto("server", "chainLength")
         [] o = "invalid" -> Goto("server", "chainBack")
         [] o = "throw"   -> Raise("server")
  /\ UNCHANGED <<account, ports, books, mail, ledger, updates, rounds>>

(* The length test, and the comparison of the two chains block by block,   *)
(* which runs past the end of a new chain that is a prefix of the old one. *)
SChainLength ==
  /\ At("server", "chainLength")
  /\ LET matching == Len(LongestCommonPrefix({oldchain, candidatechain}))
         overrun  == matching = Len(candidatechain) /\ matching < Len(oldchain)
     IN  IF Len(chain) <= Len(oldchain)
         THEN Goto("server", "chainBack")
         ELSE \/ IF Len(candidatechain) - matching > LONGEST_CHAIN_MISMATCH
                 THEN Goto("server", "chainBack")
                 ELSE Goto("server", "chainRemove")
              \/ overrun /\ Dies
  /\ UNCHANGED <<account, ports, books, mail, ledger, updates, rounds>>

(* removeFromPool of the raw chain of the variable declared on the line    *)
(* before, which is empty: nothing is compared, the difference is the pool.*)
SChainRemove ==
  /\ At("server", "chainRemove")
  /\ difference' = [difference EXCEPT !["server"] = pool]
  /\ Goto("server", "chainAssign")
  /\ UNCHANGED <<account, ports, books, mail, ledger, block, oldchain, rounds>>

SChainAssign ==
  /\ At("server", "chainAssign")
  /\ pool' = difference["server"]
  /\ difference' = [difference EXCEPT !["server"] = <<>>]
  /\ Goto("server", "listen")
  /\ UNCHANGED <<account, ports, books, mail, chain, block, oldchain, rounds>>

(* Mutant: "BlockChain(oldchain);" switches back to the copy.              *)
SChainBack_Restores ==
  /\ At("server", "chainBack")
  /\ chain' = oldchain
  /\ Goto("server", "listen")
  /\ UNCHANGED <<account, ports, books, mail, pool, updates, rounds>>

SChainBack ==
  /\ At("server", "chainBack")
  /\ LET rejected == ChainTransactions(candidatechain)
         confirmed == ChainTransactions(chain)
     IN  IF Throws(rejected, confirmed)
         THEN UNCHANGED <<pool, candidatechain>>
         ELSE /\ pool' = pool \o Difference(rejected, confirmed)
              /\ candidatechain' = <<>>
  /\ Goto("server", "listen")
  /\ UNCHANGED <<account, ports, transactions, blocks, candidateblock, mail, chain, updates, rounds>>

SReceive == /\ At("server", "listen") /\ Len(inMsgs) < MaxReceived
            /\ \E m \in Received :
                 \/ SUnreadable(m) \/ SDecodeCrash(m)
                 \/ STransaction(m) \/ SBlock(m) \/ SChain(m)

Server == \/ SReceive
          \/ UpdateChain("server")
          \/ SChainTest \/ SChainLength \/ SChainRemove \/ SChainAssign \/ SChainBack

-----------------------------------------------------------------------------
Init ==
  /\ running = TRUE /\ now = 1 /\ made = 0 /\ mined = 0
  /\ pc = [th \in Threads |-> CASE th = "main" -> "start" [] th = "server" -> "listen" [] OTHER -> "idle"]
  /\ balance = Thousandths * ACCOUNT /\ portList \in PortScans
  /\ chain = <<>> /\ pool = <<>>
  /\ candidateblock = EmptyBlock /\ candidatechain = <<>>
  /\ transactions = <<>> /\ blocks = <<>> /\ inMsgs = <<>> /\ outMsgs = <<>>
  /\ buffer = EmptyMessage /\ oldchain = <<>> /\ index = 0
  /\ tx = [th \in Handlers |-> DefaultTransaction(0)] /\ loaded = [th \in Handlers |-> 0]
  /\ block = [th \in Updaters |-> EmptyBlock] /\ difference = [th \in Updaters |-> <<>>]
  /\ outgoing = [th \in Senders |-> <<>>]

Next == \/ Main \/ Server \/ Txn \/ Miner
        \/ \E th \in Updaters : Bookkeep(th)
        \/ \E th \in Handlers : Load(th) \/ Store(th) \/ PoolTx(th) \/ RecordTx(th)
        \/ DataRace

Spec == Init /\ [][Next]_vars

-----------------------------------------------------------------------------
(* Every member and local holds a value of its C++ type, whatever the      *)
(* uninitialised numbers are and whatever races with the hash file; in     *)
(* particular a port stays 16 bits wide.                                   *)
Steps == {"idle", "start", "sleep", "pow", "listen", "join", "draw", "at", "load", "store",
          "poolTx", "recordTx", "clear", "fill", "record", "chainMessage",
          "test", "validatePlace", "place", "validate", "push", "remove", "assign", "sendBack",
          "candidate", "keep", "reset", "announce", "tip", "take", "empty",
          "chainTest", "chainLength", "chainRemove", "chainAssign", "chainBack"}

TypeOK ==
  /\ running \in BOOLEAN
  /\ now \in Nat \ {0} /\ made \in Nat /\ mined \in Nat
  /\ pc \in [Threads -> Steps]
  /\ balance \in Int /\ loaded \in [Handlers -> Int] /\ tx \in [Handlers -> Transaction]
  /\ portList \in Seq(Peers) /\ index \in Nat
  /\ chain \in Seq(Block) /\ oldchain \in Seq(Block) /\ candidatechain \in Seq(Block)
  /\ pool \in Seq(Transaction) /\ transactions \in Seq(Transaction)
  /\ candidateblock \in Block /\ blocks \in Seq(Block) /\ block \in [Updaters -> Block]
  /\ difference \in [Updaters -> Seq(Transaction)]
  /\ inMsgs \in Seq(Message) /\ outMsgs \in Seq(Message) /\ buffer \in Message
  /\ outgoing \in [Senders -> Seq(Message)]

(* Node.h:82: a block that was added takes its transactions out of the     *)
(* pool, and no others: what has none of their times stays, wherever it is *)
(* in a pool that nobody sorts.  (That it takes all of its own out is not  *)
(* so: the two sequences are merged as if they were sorted.)               *)
RemovalKeepsOthers ==
  [][\A th \in Updaters : pc[th] = "remove" /\ pc'[th] = "assign" =>
       \A n \in DOMAIN pool :
         pool[n].timestamp \notin TimesOf(BlockTransactions(block[th]))
         => Contains(difference'[th], pool[n])]_vars

(* The chain holds genesis blocks and blocks this node has mined, nothing  *)
(* else: no block that another node mined is ever adopted, because the     *)
(* coinbase that Json::read_b rebuilds is not the one the merkle root was  *)
(* computed from.                                                          *)
OwnBlock(b) == b.pow = 0 \/ (b.datum.from = 0 /\ b.datum.to = Me /\ b.datum.timestamp # NoTime)
OwnBlocksOnly == \A i \in DOMAIN chain : OwnBlock(chain[i])

(* The chain only ever grows at its end, whatever arrives: no received     *)
(* chain replaces it ("BlockChain(newchain);" of updateChain does not).    *)
AppendOnly == [][IsPrefix(chain, chain')]_vars

(* Every transaction on its way through the pool, and from there into a    *)
(* block of this node, was made here or came in a transaction message:     *)
(* none comes out of a received block or chain.  (Came in: as it was, or   *)
(* as what decode left of it.)                                             *)
Known(t) == \/ t.from = Me
            \/ \E i \in DOMAIN inMsgs :
                 inMsgs[i].head = "TRANSACTION" /\ t \in Decoded(inMsgs[i].m_t, EmptiedTransactions)
AllKnown(s) == \A i \in DOMAIN s : Known(s[i])
PoolKnown == /\ AllKnown(pool) /\ AllKnown(block["miner"].data)
             /\ \A th \in Updaters : AllKnown(difference[th])
             /\ \A i \in DOMAIN chain : AllKnown(chain[i].data)

(* The sums of the parts of a sequence of numbers.                         *)
SumsOf(a) ==
  LET sums[k \in 0 .. Len(a)] ==
        IF k = 0 THEN {0} ELSE sums[k - 1] \cup {x + a[k] : x \in sums[k - 1]}
  IN  sums[Len(a)]

(* What the messages up to the one in hand were worth to this node, and    *)
(* what the recorded payments and the one in hand cost it.                 *)
Worth(m)   == IF m.head = "TRANSACTION" /\ m.m_t.to = Me THEN m.m_t.amount ELSE 0
Cost(t)    == IF t.from = Me THEN t.amount ELSE 0
Handled    == Len(inMsgs) - (IF pc["server"] \in {"load", "store"} THEN 1 ELSE 0)
Receipts   == [i \in 1 .. Handled |-> Worth(inMsgs[i])]
Payments   == [i \in DOMAIN transactions |-> Cost(transactions[i])]
              \o (IF pc["txn"] \in {"poolTx", "recordTx"} THEN <<tx["txn"].amount>> ELSE <<>>)

(* m_transactions has lost no payment: it holds as many as were begun, but *)
(* for one that is still to be recorded.                                   *)
OwnRecords == {i \in DOMAIN transactions : transactions[i].from = Me}
Unrecorded ==
  IF /\ pc["txn"] \in {"clear", "fill", "draw", "at", "load", "store", "poolTx", "recordTx"}
     /\ outgoing["txn"] = <<>>
  THEN 1 ELSE 0
AllRecorded == Cardinality(OwnRecords) + Unrecorded = made

(* The balance is the account plus some of the receipts less some of the   *)
(* payments: two threads may lose an update of each other, but an update   *)
(* is lost as a whole, and none is counted twice or before it is made.     *)
BalanceOfSome ==
  AllRecorded =>
    \E r \in SumsOf(Receipts), p \in SumsOf(Payments) : balance = Thousandths * ACCOUNT + r - p

(* A mined block on the chain extends a block that was there before it,    *)
(* and is younger than that block even when the clock is set back.         *)
MinedExtends ==
  \A i \in DOMAIN chain : chain[i].pow = 1 =>
    \E j \in 1 .. i - 1 : /\ chain[i].prevHash = chain[j].blockHash
                           /\ chain[i].timestamp > chain[j].timestamp

(* As long as no block of a peer has been read, the chain is one that the  *)
(* node's own isValid accepts, whatever else arrives and however the       *)
(* threads interleave: what is pushed was validated against the very last  *)
(* block.  When sha512 can be raced it is one that isValid may accept:     *)
(* every hash in it is one the node can compute again.                     *)
NoBlockRead == \A i \in DOMAIN inMsgs : inMsgs[i].head # "BLOCK"
ChainValid == NoBlockRead /\ chain # <<>> => "valid" \in isValidFrom(chain, 0)

(* Until then a mined block that has been announced is on the chain.       *)
Announced(m) == m.head = "BLOCK" /\ m.m_b.pow = 1 => Contains(chain, m.m_b)
AnnouncedOnChain ==
  NoBlockRead =>
    /\ \A i \in DOMAIN outMsgs : Announced(outMsgs[i])
    /\ \A th \in Senders : \A i \in DOMAIN outgoing[th] : Announced(outgoing[th][i])
=============================================================================
