-------------------------- MODULE NodeChainProofs --------------------------
(***************************************************************************)
(* What holds of the chain of a node, for every value of the constants.    *)
(* First: a node keeps the promise of Ledger.  The refinement mapping      *)
(* leaves chain and running as they are; heard is what the list of         *)
(* received messages tells.  Then: until a block of a peer has been read,  *)
(* the chain is valid and holds every mined block that was announced.      *)
(***************************************************************************)
EXTENDS NodeProofs, NodeLedger

(* Nothing happens after the stop.                                         *)
LEMMA NextRuns ==
  ASSUME Next
  PROVE  running
<1>1. \A th : UpdateChain(th) => running
  BY DEF UpdateChain, TestEmpty, ValidatePlace, Place, Validate, Push, RemoveFromPool, Assign, SendBack, At
<1>2. \A th : ClearPortList(th) \/ FillPortList(th) \/ Record(th) \/ ChainMsg(th) => running
  BY DEF ClearPortList, FillPortList, Record, ChainMsg, At
<1>3. \A th : Load(th) \/ Store(th) \/ PoolTx(th) \/ RecordTx(th) => running
  BY DEF Load, Store, PoolTx, RecordTx, At
<1>4. \A th : Bookkeep(th) => running
  BY DEF Bookkeep, Candidate, Keep, Reset, At
<1>5. TSleep \/ TDraw \/ TAt \/ MGenesis => running
  BY DEF TSleep, TDraw, TAt, MGenesis, At
<1>6. BMine \/ BTip \/ BTake \/ BEmpty \/ BAnnounce \/ SReceive => running
  BY DEF BMine, BTip, BTake, BEmpty, BAnnounce, SReceive, At
<1>7. SChainTest \/ SChainLength \/ SChainRemove \/ SChainAssign \/ SChainBack => running
  BY DEF SChainTest, SChainLength, SChainRemove, SChainAssign, SChainBack, At
<1>8. DataRace => running
  BY DEF DataRace
<1>9. QED
  BY <1>1, <1>2, <1>3, <1>4, <1>5, <1>6, <1>7, <1>8, NextCases

(* A message that has been recorded stays recorded.                        *)
LEMMA MessagesKept ==
  ASSUME TypeOK, Next
  PROVE  \A i \in DOMAIN inMsgs : i \in DOMAIN inMsgs' /\ inMsgs'[i] = inMsgs[i]
<1>1. inMsgs' = inMsgs \/ \E m : inMsgs' = Append(inMsgs, m)
  <2>1. \A th : UpdateChain(th) => inMsgs' = inMsgs
    BY DEF UpdateChain, TestEmpty, ValidatePlace, Place, Validate, Push, RemoveFromPool, Assign,
           SendBack, mail
  <2>2. \A th : ClearPortList(th) \/ FillPortList(th) \/ Record(th) \/ ChainMsg(th) => inMsgs' = inMsgs
    BY DEF ClearPortList, FillPortList, Record, ChainMsg, mail
  <2>3. \A th : Load(th) \/ Store(th) \/ PoolTx(th) \/ RecordTx(th) => inMsgs' = inMsgs
    BY DEF Load, Store, PoolTx, RecordTx, mail
  <2>4. \A th : Bookkeep(th) => inMsgs' = inMsgs
    BY DEF Bookkeep, Candidate, Keep, Reset, mail
  <2>5. TSleep \/ TDraw \/ TAt \/ MGenesis => inMsgs' = inMsgs
    BY DEF TSleep, TDraw, TAt, MGenesis, mail
  <2>6. BMine \/ BTip \/ BTake \/ BEmpty \/ BAnnounce => inMsgs' = inMsgs
    BY DEF BMine, BTip, BTake, BEmpty, BAnnounce, mail
  <2>7. SReceive => inMsgs' = inMsgs \/ \E m : inMsgs' = Append(inMsgs, m)
    BY DEF SReceive, SUnreadable, SDecodeCrash, STransaction, SBlock, SChain
  <2>8. SChainTest \/ SChainLength \/ SChainRemove \/ SChainAssign \/ SChainBack => inMsgs' = inMsgs
    BY DEF SChainTest, SChainLength, SChainRemove, SChainAssign, SChainBack, mail
  <2>9. DataRace => inMsgs' = inMsgs
    BY DEF DataRace, mail
  <2>10. QED
    BY <2>1, <2>2, <2>3, <2>4, <2>5, <2>6, <2>7, <2>8, <2>9, NextCases
<1>2. inMsgs \in Seq(Message)
  BY DEF TypeOK
<1>3. CASE inMsgs' = inMsgs
  BY <1>3
<1>4. ASSUME NEW m, inMsgs' = Append(inMsgs, m)
      PROVE  \A i \in DOMAIN inMsgs : i \in DOMAIN inMsgs' /\ inMsgs'[i] = inMsgs[i]
  BY <1>2, <1>4
<1>5. QED
  BY <1>1, <1>3, <1>4

(* So what has been heard of stays so.                                     *)
LEMMA Remembers ==
  ASSUME TypeOK, Next
  PROVE  Heard \subseteq Heard'
BY MessagesKept DEF Heard

(* addBlock touches neither the messages nor the process.                  *)
LEMMA AddQuiet ==
  ASSUME Next, chain' # chain
  PROVE  UNCHANGED <<Heard, running>>
<1>1. PICK th \in Updaters : Place(th) \/ Push(th)
  BY ChainSteps
<1>2. UNCHANGED <<inMsgs, running>>
  BY <1>1 DEF Place, Push, Goto, mail
<1>3. QED
  BY <1>2 DEF Heard

(* What is added is own, follows an older block, and is accounted for.     *)
LEMMA AddIsPromised ==
  ASSUME IInv, IInv', Next, chain' # chain
  PROVE  Promise!AddBlock
<1>1. PICK th \in Updaters : Place(th) \/ Push(th)
  BY ChainSteps
<1>2. chain' = Append(chain, block[th])
  BY <1>1, ChainGrows DEF IInv, Base
<1>3. chain \in Seq(Block) /\ block[th] \in Block /\ chain' \in Seq(Block)
  BY DEF IInv, Base, TypeOK
<1>4. /\ chain' # <<>> /\ Len(chain') = Len(chain) + 1 /\ Len(chain) \in Nat
      /\ DOMAIN chain = 1 .. Len(chain) /\ DOMAIN chain' = 1 .. Len(chain')
      /\ chain'[Len(chain')] = block[th]
      /\ \A i \in DOMAIN chain : chain'[i] = chain[i]
  BY <1>2, <1>3, AppendProperties
<1>5. Len(chain') \in DOMAIN chain'
  BY <1>4
<1>6. Promise!Own(block[th])
  <2>1. OwnBlock(chain'[Len(chain')])
    BY <1>5 DEF IInv, Stock, OwnBlocksOnly, OwnBlock
  <2>2. QED
    BY <1>4, <2>1 DEF OwnBlock, Promise!Own
<1>7. Promise!Follows(block[th])
  <2>1. SUFFICES ASSUME block[th].pow = 1
                 PROVE  \E j \in DOMAIN chain : Extends(block[th], chain[j])
    BY DEF Promise!Follows, Extends
  <2>2. PICK j \in DOMAIN chain' : j < Len(chain') /\ Extends(chain'[Len(chain')], chain'[j])
    BY <1>4, <1>5, <2>1 DEF IInv, Base, Extending, Extends
  <2>3. j \in DOMAIN chain
    BY <1>4, <2>2
  <2>4. QED
    BY <1>4, <2>2, <2>3
<1>8. Promise!Accounted(block[th])
  <2>1. (\A i \in DOMAIN chain : AllKnown(chain[i].data))'
    BY DEF IInv, Stock, PoolKnown
  <2>2. inMsgs' = inMsgs
    BY <1>1 DEF Place, Push, mail
  <2>3. AllKnown(block[th].data)
    <3>1. \A i \in DOMAIN chain' : AllKnown(chain'[i].data)
      BY <2>1, <2>2 DEF AllKnown, Known
    <3>2. QED
      BY <1>4, <1>5, <3>1
  <2>4. ASSUME NEW t, Known(t)
        PROVE  t.from = Me \/ t \in Heard
    BY <2>4 DEF Known, Heard
  <2>5. QED
    BY <2>3, <2>4 DEF AllKnown, Promise!Accounted
<1>9. running /\ UNCHANGED <<Heard, running>>
  BY NextRuns, AddQuiet
<1>10. QED
  BY <1>2, <1>4, <1>6, <1>7, <1>8, <1>9 DEF Promise!AddBlock

(* Whatever its threads and its peers do, a node keeps an append-only      *)
(* ledger of its own blocks, each of which follows an older one, and of    *)
(* transactions that come from somewhere, as long as no call of sha512     *)
(* overlaps another.                                                       *)
THEOREM NodeKeepsLedger ==
  ASSUME HashesHold
  PROVE  Spec => KeepsLedger
<1>1. Init => Promise!Init
  BY DEF Init, Promise!Init, Heard
<1>2. IInv /\ IInv' /\ [Next]_vars => [Promise!Next]_(Promise!vars)
  <2>1. ASSUME IInv, IInv', Next, chain' # chain
        PROVE  Promise!Next
    BY <2>1, AddIsPromised DEF Promise!Next
  <2>2. ASSUME IInv, IInv', Next, chain' = chain
        PROVE  Promise!Next
    <3>1. running' \in BOOLEAN
      BY <2>2 DEF IInv, Base, TypeOK
    <3>2. running /\ Heard \subseteq Heard'
      BY <2>2, NextRuns, Remembers DEF IInv, Base
    <3>3. QED
      BY <2>2, <3>1, <3>2 DEF Promise!Next, Promise!Hear
  <2>3. UNCHANGED vars => UNCHANGED Promise!vars
    BY DEF vars, ledger, mail, Promise!vars, Heard
  <2>4. QED
    BY <2>1, <2>2, <2>3
<1>3. QED
  BY <1>1, <1>2, Inductive, PTL DEF Spec, KeepsLedger, Promise!Spec

-----------------------------------------------------------------------------
(* Until a block of a peer has been read.  Then the chain belongs to main  *)
(* and, after it, to the miner; with a second thread in updateChain a push *)
(* can be lost, or follow a block that is no longer the last.              *)

Sound(b) == b.blockHash \in HashesOf(b) /\ b.timestamp # NoTime
SoundChain(c) == (\A i \in DOMAIN c : Sound(c[i])) /\ InSequence(c) /\ Linked(c)

(* The server and txn stay out of updateChain, and out of its callers.     *)
BlockSteps == {"candidate", "keep", "reset", "test", "validatePlace", "place", "validate", "push",
               "remove", "assign", "sendBack"}
Aside == \A th \in {"server", "txn"} : pc[th] \notin BlockSteps

(* main is alone with the chain, which is empty, until it has placed its   *)
(* genesis block or failed to.                                             *)
MainFirst ==
  /\ block["main"].pow = 0
  /\ pc["main"] # "join" => pc["txn"] = "idle" /\ pc["miner"] = "idle"
  /\ pc["main"] \in {"start", "test", "validatePlace", "place"} => chain = <<>>
  /\ pc["main"] \notin {"validate", "push", "remove", "assign", "sendBack"}
  /\ pc["main"] \in {"test", "validatePlace", "place"} => Sound(block["main"])

(* From then on the miner is: its block is never taken for a genesis       *)
(* block, still extends the last one when it is pushed, and is there after.*)
MinerAlone ==
  /\ pc["miner"] \notin {"validatePlace", "place"}
  /\ pc["miner"] \in {"candidate", "keep", "test"} => block["miner"].pow = 1
  /\ pc["miner"] = "push" => Sound(block["miner"]) /\ Extends(block["miner"], Last(chain))
  /\ pc["miner"] \in {"remove", "assign", "announce"} => Contains(chain, block["miner"])

AllAnnounced(s) == \A i \in DOMAIN s : Announced(s[i])
Announcing == AllAnnounced(outMsgs) /\ \A th \in Senders : AllAnnounced(outgoing[th])

Undisturbed == Aside /\ MainFirst /\ MinerAlone /\ SoundChain(chain) /\ Announcing

(* A chain whose blocks are sound, ordered and linked is one that isValid  *)
(* may accept when its counter starts at 0.                                *)
LEMMA SoundIsValid ==
  ASSUME NEW c \in Seq(Block), c # <<>>, SoundChain(c)
  PROVE  "valid" \in isValidFrom(c, 0)
<1>1. SubSeq(c, 0 + 1, Len(c)) = c
  OBVIOUS
<1> DEFINE seen == SubSeq(c, 0 + 1, Len(c))
           passes(b) == TRUE \in isValid(b) /\ b.timestamp # NoTime
<1>2. \A l \in 1 .. (Len(seen) + 1) - 1 : passes(seen[l])
  <2>1. seen = c /\ \A l \in 1 .. (Len(c) + 1) - 1 : l \in DOMAIN c
    BY <1>1
  <2>2. \A l \in DOMAIN c : TRUE \in isValid(c[l]) /\ c[l].timestamp # NoTime
    BY DEF SoundChain, Sound, isValid
  <2> QED BY <2>1, <2>2
<1>3. seen # <<>> /\ InSequence(seen) /\ Linked(seen)
  BY <1>1 DEF SoundChain
<1> HIDE DEF seen, passes
<1>4. "valid" \in {o \in Outcome :
         \/ /\ o = "invalid"
            /\ \E k \in DOMAIN seen : (\A l \in 1 .. k - 1 : passes(seen[l])) /\ FALSE \in isValid(seen[k])
         \/ /\ o = "throw"
            /\ \E k \in DOMAIN seen :
                 /\ \A l \in 1 .. k - 1 : passes(seen[l])
                 /\ TRUE \in isValid(seen[k]) /\ seen[k].timestamp = NoTime
         \/ /\ \A l \in 1 .. (Len(seen) + 1) - 1 : passes(seen[l])
            /\ o = IF seen = <<>> THEN "throw"
                   ELSE IF InSequence(seen) /\ Linked(seen) THEN "valid" ELSE "invalid"}
  BY <1>2, <1>3 DEF Outcome
<1> QED BY <1>4 DEF isValidFrom, seen, passes

(* A block that extends the last one keeps the chain sound.                *)
LEMMA SoundAppend ==
  ASSUME NEW c \in Seq(Block), NEW b \in Block, SoundChain(c), Sound(b),
         c # <<>> => Extends(b, Last(c))
  PROVE  SoundChain(Append(c, b))
<1> DEFINE d == Append(c, b)
<1>1. /\ DOMAIN c = 1 .. Len(c) /\ Len(c) \in Nat /\ DOMAIN d = 1 .. Len(c) + 1
      /\ \A i \in 1 .. Len(c) : d[i] = c[i]
      /\ d[Len(c) + 1] = b
  BY AppendProperties, LenProperties
<1>2. \A i \in DOMAIN d : i \in DOMAIN c \/ i = Len(c) + 1
  BY <1>1
<1>3. /\ \A i \in DOMAIN c : c[i].timestamp \in Nat /\ c[i].timestamp <= c[Len(c)].timestamp
      /\ b.timestamp \in Nat
  <2>1. \A i \in DOMAIN c : c[i] \in Block
    OBVIOUS
  <2>2. \A i \in DOMAIN c : i = Len(c) \/ (i < Len(c) /\ Len(c) \in DOMAIN c)
    BY <1>1
  <2>3. \A i \in DOMAIN c : c[i].timestamp \in Nat
    BY <2>1 DEF Block
  <2>4. \A i \in DOMAIN c : c[i].timestamp <= c[Len(c)].timestamp
    <3>1. SUFFICES ASSUME NEW i \in DOMAIN c
                   PROVE  c[i].timestamp <= c[Len(c)].timestamp
      OBVIOUS
    <3>2. CASE i = Len(c)
      BY <2>3, <3>2
    <3>3. CASE i < Len(c) /\ Len(c) \in DOMAIN c
      BY <3>3 DEF SoundChain, InSequence
    <3> QED BY <2>2, <3>2, <3>3
  <2>5. b.timestamp \in Nat
    BY DEF Block
  <2> QED BY <2>3, <2>4, <2>5
<1>4. c # <<>> => /\ Len(c) \in DOMAIN c
                  /\ b.timestamp > c[Len(c)].timestamp /\ b.prevHash = c[Len(c)].blockHash
  BY <1>1 DEF Extends, Last
<1> HIDE DEF d
<1>5. \A i \in DOMAIN d : Sound(d[i])
  BY <1>1, <1>2 DEF SoundChain
<1>6. InSequence(d)
  <2> SUFFICES ASSUME NEW i \in DOMAIN d, NEW j \in DOMAIN d, i < j
               PROVE  d[i].timestamp <= d[j].timestamp
    BY DEF InSequence
  <2>1. i \in DOMAIN c
    BY <1>1
  <2>2. CASE j \in DOMAIN c
    BY <1>1, <2>1, <2>2 DEF SoundChain, InSequence
  <2>3. CASE j = Len(c) + 1
    <3>1. c # <<>>
      BY <1>1, <2>1
    <3> QED BY <1>1, <1>3, <1>4, <2>1, <2>3, <3>1
  <2> QED BY <1>2, <2>2, <2>3
<1>7. Linked(d)
  <2> SUFFICES ASSUME NEW i \in DOMAIN d, i > 1
               PROVE  d[i].prevHash = d[i - 1].blockHash
    BY DEF Linked
  <2>1. i - 1 \in DOMAIN c
    BY <1>1
  <2>2. CASE i \in DOMAIN c
    BY <1>1, <2>1, <2>2 DEF SoundChain, Linked
  <2>3. CASE i = Len(c) + 1
    <3>1. c # <<>> /\ i - 1 = Len(c)
      BY <1>1, <2>1, <2>3
    <3> QED BY <1>1, <1>4, <2>3, <3>1
  <2> QED BY <1>2, <2>2, <2>3
<1> QED BY <1>5, <1>6, <1>7 DEF SoundChain, d

(* With no other thread at the chain a push is not lost.                   *)
LEMMA PushLands ==
  ASSUME TypeOK, Undisturbed, NEW th \in {"main", "miner"}, Place(th) \/ Push(th)
  PROVE  chain' = Append(chain, block[th])
<1>1. /\ chain' \in Pushed(th, chain, <<block[th]>>) /\ pc[th] \in {"place", "push"}
      /\ chain \in Seq(Block) /\ block[th] \in Block
  BY DEF Place, Push, At, TypeOK, Updaters
<1>2. \A other \in Threads \ {th} : pc[other] \notin {"place", "push"}
  <2>1. th = "main" => pc["txn"] = "idle" /\ pc["miner"] = "idle"
    BY <1>1 DEF Undisturbed, MainFirst
  <2>2. th = "miner" => pc["main"] = "join"
    BY <1>1 DEF Undisturbed, MainFirst
  <2> QED BY <2>1, <2>2 DEF Undisturbed, Aside, BlockSteps, Threads
<1>3. ~ \E a \in Access : Writes(a, th) /\ \E other \in Threads \ {th} : Writes(a, other)
  BY <1>1, <1>2 DEF Access, Writes
<1>4. chain' = chain \o <<block[th]>>
  BY <1>1, <1>3 DEF Pushed
<1> QED BY <1>1, <1>4

(* What has been announced is what was, or was about to be.                *)
LEMMA PushedElements ==
  ASSUME NEW S, NEW th, NEW v \in Seq(S), NEW s \in Seq(S), AllAnnounced(v), AllAnnounced(s),
         NEW r \in Pushed(th, v, s)
  PROVE  AllAnnounced(r)
<1>1. r = v \o s \/ r = v \o SubSeq(s, 2, Len(s))
  BY DEF Pushed
<1>2. \A t \in Seq(S) : AllAnnounced(t) => AllAnnounced(v \o t)
  BY DEF AllAnnounced
<1>3. SubSeq(s, 2, Len(s)) \in Seq(S) /\ AllAnnounced(SubSeq(s, 2, Len(s)))
  BY DEF AllAnnounced
<1> QED BY <1>1, <1>2, <1>3

-----------------------------------------------------------------------------
(* A step of server or of txn that stays out of updateChain.               *)
LEMMA AsideStep ==
  ASSUME Undisturbed, UNCHANGED chain,
         \A th \in {"main", "miner"} : pc'[th] = pc[th] /\ block'[th] = block[th],
         pc'["txn"] = pc["txn"] \/ (pc["txn"] # "idle" /\ pc'["txn"] \notin BlockSteps),
         pc'["server"] = pc["server"] \/ pc'["server"] \notin BlockSteps,
         Announcing'
  PROVE  Undisturbed'
<1>1. Aside'
  BY DEF Undisturbed, Aside
<1>2. MainFirst'
  BY DEF Undisturbed, MainFirst
<1>3. MinerAlone'
  BY DEF Undisturbed, MinerAlone
<1> QED BY <1>1, <1>2, <1>3 DEF Undisturbed

(* A step of the miner: what it needs to know of its block is for the step *)
(* to show.                                                                *)
LEMMA MinerStep ==
  ASSUME TypeOK, Undisturbed, pc["miner"] # "idle",
         \A other \in Threads \ {"miner"} : pc'[other] = pc[other],
         block'["main"] = block["main"], MinerAlone', SoundChain(chain)', Announcing'
  PROVE  Undisturbed'
<1>1. pc["main"] = "join" /\ block["main"].pow = 0
  BY DEF Undisturbed, MainFirst
<1>2. \A th \in {"server", "txn", "main"} : pc'[th] = pc[th]
  BY DEF Threads
<1>3. MainFirst' /\ Aside'
  BY <1>1, <1>2 DEF Undisturbed, MainFirst, Aside
<1> QED BY <1>3 DEF Undisturbed

(* A step of main while it is alone.                                       *)
LEMMA MainStep ==
  ASSUME TypeOK, Undisturbed, pc["main"] # "join",
         \A other \in Threads \ {"main"} : pc'[other] = pc[other],
         MainFirst', SoundChain(chain)', Announcing'
  PROVE  Undisturbed'
<1>1. pc["miner"] = "idle"
  BY DEF Undisturbed, MainFirst
<1>2. \A th \in {"server", "txn", "miner"} : pc'[th] = pc[th]
  BY DEF Threads
<1>3. MinerAlone' /\ Aside'
  BY <1>1, <1>2 DEF Undisturbed, MinerAlone, Aside
<1> QED BY <1>3 DEF Undisturbed

(* Broadcasting, the last of which ends main's time alone.                 *)
LEMMA BroadcastUndisturbed ==
  ASSUME TypeOK, Undisturbed, NEW th \in Senders,
         ClearPortList(th) \/ FillPortList(th) \/ Record(th) \/ (ChainMsg(th) /\ th # "txn")
  PROVE  Undisturbed'
<1>1. /\ UNCHANGED <<chain, block>> /\ pc[th] \in {"clear", "fill", "record", "chainMessage"}
      /\ th \in {"main", "txn", "miner"}
  BY DEF ClearPortList, FillPortList, Record, ChainMsg, ledger, updates, At, Senders
<1>2. Announcing'
  <2>1. outMsgs \in Seq(Message) /\ outgoing \in [Senders -> Seq(Message)]
    BY DEF TypeOK
  <2>2. AllAnnounced(outMsgs) /\ \A s \in Senders : AllAnnounced(outgoing[s])
    BY DEF Undisturbed, Announcing
  <2>3. \A m : Announced(m)' <=> Announced(m)
    BY <1>1 DEF Announced
  <2>4. CASE ClearPortList(th) \/ FillPortList(th)
    BY <2>2, <2>4, <1>1 DEF ClearPortList, FillPortList, mail, Announcing, AllAnnounced, Announced
  <2>5. CASE Record(th)
    <3>1. outMsgs' \in Pushed(th, outMsgs, outgoing[th]) /\ outgoing' = [outgoing EXCEPT ![th] = <<>>]
      BY <2>5 DEF Record
    <3>2. AllAnnounced(outMsgs')
      BY <2>1, <2>2, <3>1, PushedElements
    <3>3. \A s \in Senders : AllAnnounced(outgoing'[s])
      BY <2>1, <2>2, <3>1 DEF AllAnnounced
    <3> QED BY <1>1, <3>2, <3>3 DEF Announcing, AllAnnounced, Announced
  <2>6. CASE ChainMsg(th)
    <3> DEFINE m == ChainMessage(chain)
    <3>1. UNCHANGED outMsgs /\ outgoing' = [outgoing EXCEPT ![th] = Append(outgoing[th], m)]
      BY <2>6 DEF ChainMsg
    <3>2. m \in Message /\ Announced(m)
      BY MessageTypes DEF Announced, ChainMessage, TypeOK, EmptyMessage
    <3>3. AllAnnounced(Append(outgoing[th], m))
      BY <2>1, <2>2, <3>2 DEF AllAnnounced
    <3> HIDE DEF m
    <3>4. \A s \in Senders : AllAnnounced(outgoing'[s])
      BY <2>1, <2>2, <3>1, <3>3
    <3> QED BY <1>1, <2>2, <3>1, <3>4 DEF Announcing, AllAnnounced, Announced
  <2> QED BY <2>4, <2>5, <2>6
<1> HIDE DEF Announcing
<1>3. CASE Record(th) /\ th = "main"
  <2>1. pc' = [pc EXCEPT !["main"] = "join", !["txn"] = "sleep", !["miner"] = "pow"]
    BY <1>3 DEF Record
  <2>2. /\ pc'["main"] = "join" /\ pc'["txn"] = "sleep" /\ pc'["miner"] = "pow"
        /\ pc'["server"] = pc["server"]
    BY <2>1 DEF TypeOK, Threads
  <2> QED BY <1>1, <1>2, <2>2 DEF Undisturbed, Aside, MainFirst, MinerAlone, BlockSteps
<1>4. CASE ~(Record(th) /\ th = "main")
  <2>1. PICK step \in {"fill", "draw", "chainMessage", "record", "sleep", "pow", "clear"} :
          pc' = [pc EXCEPT ![th] = step]
    <3>1. CASE ClearPortList(th) \/ ChainMsg(th)
      BY <3>1 DEF ClearPortList, ChainMsg, Goto
    <3>2. CASE FillPortList(th)
      <4> DEFINE to == CASE outgoing[th] = <<>> -> "draw"
                         [] Len(outgoing[th]) = 1 /\ th # "txn" -> "chainMessage"
                         [] OTHER -> "record"
      <4>1. to \in {"draw", "chainMessage", "record"}
        OBVIOUS
      <4>2. pc' = [pc EXCEPT ![th] = to]
        BY <3>2 DEF FillPortList, Goto
      <4> HIDE DEF to
      <4> QED BY <4>1, <4>2
    <3>3. CASE Record(th)
      BY <1>1, <1>4, <3>3 DEF Record
    <3> QED BY <3>1, <3>2, <3>3
  <2>2. pc'[th] = step /\ \A other \in Threads \ {th} : pc'[other] = pc[other]
    BY <1>1, <2>1 DEF TypeOK, Threads
  <2>3. CASE th = "main"
    <3>1. pc["main"] # "join" /\ MainFirst'
      BY <1>1, <2>2, <2>3 DEF Undisturbed, MainFirst, Threads
    <3>2. SoundChain(chain)'
      BY <1>1 DEF Undisturbed
    <3> QED BY <1>2, <2>2, <2>3, <3>1, <3>2, MainStep
  <2>4. CASE th = "miner"
    <3>1. pc["miner"] # "idle" /\ MinerAlone'
      BY <1>1, <2>2, <2>4 DEF MinerAlone
    <3>2. SoundChain(chain)' /\ block'["main"] = block["main"]
      BY <1>1 DEF Undisturbed
    <3> QED BY <1>2, <2>2, <2>4, <3>1, <3>2, MinerStep
  <2>5. CASE th = "txn"
    <3>1. /\ pc["txn"] # "idle" /\ pc'["txn"] \notin BlockSteps
          /\ \A other \in {"main", "miner", "server"} : pc'[other] = pc[other]
      BY <1>1, <2>2, <2>5 DEF BlockSteps, Threads
    <3> QED BY <1>1, <1>2, <3>1, AsideStep
  <2> QED BY <1>1, <2>3, <2>4, <2>5
<1> QED BY <1>3, <1>4

(* The announcements are what they were.                                   *)
LEMMA SameAnnounced ==
  ASSUME Undisturbed, UNCHANGED <<chain, outMsgs, outgoing>>
  PROVE  Announcing'
BY DEF Undisturbed, Announcing, AllAnnounced, Announced

(* What is on the chain stays on it, so what has been announced is there.  *)
LEMMA GrownAnnounced ==
  ASSUME TypeOK, Undisturbed, NEW b \in Block, chain' = Append(chain, b), UNCHANGED <<outMsgs, outgoing>>
  PROVE  /\ Announcing'
         /\ Contains(chain, b)'
<1>1. chain \in Seq(Block)
  BY DEF TypeOK
<1>2. \A e : Contains(chain, e) => Contains(chain, e)'
  <2> SUFFICES ASSUME NEW e, NEW i \in 1 .. Len(chain), chain[i] = e
               PROVE  \E j \in 1 .. Len(chain') : chain'[j] = e
    BY DEF Contains
  <2>1. i \in 1 .. Len(chain') /\ chain'[i] = e
    BY <1>1, AppendProperties
  <2> QED BY <2>1
<1>3. Contains(chain, b)'
  <2>1. /\ Len(chain') \in 1 .. Len(chain') /\ chain'[Len(chain')] = b
    BY <1>1, AppendProperties
  <2> QED BY <2>1 DEF Contains
<1>4. \A m : Announced(m) => Announced(m)'
  BY <1>2 DEF Announced
<1> QED BY <1>3, <1>4 DEF Undisturbed, Announcing, AllAnnounced

(* A block that starts to be announced.                                    *)
LEMMA SentAnnounced ==
  ASSUME TypeOK, Undisturbed, NEW th \in Senders, NEW m, Announced(m),
         UNCHANGED <<chain, outMsgs>>, outgoing' = [outgoing EXCEPT ![th] = <<m>>]
  PROVE  Announcing'
<1>1. \A i \in DOMAIN <<m>> : Announced(<<m>>[i])
  OBVIOUS
<1>2. \A s \in Senders : outgoing'[s] = outgoing[s] \/ outgoing'[s] = <<m>>
  BY DEF TypeOK
<1>3. \A s \in Senders : \A i \in DOMAIN outgoing'[s] : Announced(outgoing'[s][i])
  BY <1>1, <1>2 DEF Undisturbed, Announcing, AllAnnounced
<1>4. \A e : Announced(e)' <=> Announced(e)
  BY DEF Announced
<1> QED BY <1>3, <1>4 DEF Undisturbed, Announcing, AllAnnounced

(* The handlers of a transaction, and the thread that makes transactions.  *)
LEMMA TransactionUndisturbed ==
  ASSUME TypeOK, Undisturbed,
         \/ TSleep \/ TDraw \/ TAt
         \/ \E th \in Handlers : Load(th) \/ Store(th) \/ PoolTx(th) \/ RecordTx(th)
  PROVE  Undisturbed'
<1>1. CASE TSleep \/ TDraw \/ TAt
  <2>1. /\ UNCHANGED <<chain, block, outMsgs, outgoing>> /\ pc["txn"] # "idle"
        /\ Goto("txn", "clear") \/ Goto("txn", "at") \/ Goto("txn", "load") \/ Dies
    BY <1>1 DEF TSleep, TDraw, TAt, ledger, updates, mail, At, Raise
  <2>2. /\ \A th \in {"main", "miner", "server"} : pc'[th] = pc[th]
        /\ pc'["txn"] = pc["txn"] \/ pc'["txn"] \notin BlockSteps
    BY <2>1 DEF TypeOK, Threads, Goto, Dies, BlockSteps
  <2> QED BY <2>1, <2>2, SameAnnounced, AsideStep
<1>2. ASSUME NEW th \in Handlers, Load(th) \/ Store(th) \/ PoolTx(th) \/ RecordTx(th)
      PROVE  Undisturbed'
  <2>1. /\ UNCHANGED <<chain, block, outMsgs>> /\ pc[th] # "idle"
        /\ \E step : pc' = [pc EXCEPT ![th] = step] /\ step \notin BlockSteps
    BY <1>2 DEF Load, Store, PoolTx, RecordTx, ledger, updates, mail, At, Goto, BlockSteps
  <2>2. /\ \A other \in {"main", "miner"} : pc'[other] = pc[other]
        /\ pc'["txn"] = pc["txn"] \/ (pc["txn"] # "idle" /\ pc'["txn"] \notin BlockSteps)
        /\ pc'["server"] = pc["server"] \/ pc'["server"] \notin BlockSteps
    BY <2>1 DEF TypeOK, Threads, Handlers
  <2>3. Announcing'
    <3>1. CASE UNCHANGED outgoing
      BY <2>1, <3>1, SameAnnounced
    <3>2. CASE outgoing' = [outgoing EXCEPT !["txn"] = <<TransactionMessage(tx["txn"])>>]
      <4> DEFINE m == TransactionMessage(tx["txn"])
      <4>1. m.head # "BLOCK"
        BY DEF TransactionMessage, EmptyMessage
      <4>2. Announced(m) /\ outgoing' = [outgoing EXCEPT !["txn"] = <<m>>] /\ "txn" \in Senders
        BY <3>2, <4>1 DEF Announced, m, Senders
      <4> QED BY <2>1, <4>2, SentAnnounced
    <3>3. UNCHANGED outgoing \/ outgoing' = [outgoing EXCEPT !["txn"] = <<TransactionMessage(tx["txn"])>>]
      BY <1>2 DEF Load, Store, PoolTx, RecordTx, mail
    <3> QED BY <3>1, <3>2, <3>3
  <2> QED BY <2>1, <2>2, <2>3, AsideStep
<1> QED BY <1>1, <1>2

(* The server, as long as what it reads is not a block.                    *)
LEMMA ServerUndisturbed ==
  ASSUME Base, Undisturbed, NoBlockRead',
         SReceive \/ SChainTest \/ SChainLength \/ SChainRemove \/ SChainAssign \/ SChainBack
  PROVE  Undisturbed'
<1>0. TypeOK /\ "server" \in Threads
  BY DEF Base, Threads
<1>1. \A step \in {"listen", "load", "poolTx", "chainTest", "chainLength", "chainRemove",
                   "chainAssign", "chainBack"} : step \notin BlockSteps
  BY DEF BlockSteps
<1>2. CASE SReceive
  <2>1. PICK m \in Received : \/ SUnreadable(m) \/ SDecodeCrash(m)
                              \/ STransaction(m) \/ SBlock(m) \/ SChain(m)
    BY <1>2 DEF SReceive
  <2>2. ~SBlock(m)
    <3> SUFFICES ASSUME SBlock(m) PROVE FALSE
      OBVIOUS
    <3>1. PICK msg \in read_message(m) : inMsgs' = Append(inMsgs, msg)
      BY DEF SBlock
    <3>2. m.head = "BLOCK" /\ m \in Message
      BY <1>0, <2>1, ReceivedType DEF SBlock
    <3>3. msg.head = "BLOCK" /\ msg \in Message
      BY <3>2, ReadMessageType
    <3>4. inMsgs \in Seq(Message)
      BY <1>0 DEF TypeOK
    <3>5. Len(inMsgs') \in DOMAIN inMsgs' /\ inMsgs'[Len(inMsgs')] = msg
      BY <3>1, <3>3, <3>4, AppendProperties
    <3> QED BY <3>3, <3>5 DEF NoBlockRead
  <2>3. UNCHANGED <<chain, block, outMsgs, outgoing>>
    BY <2>1, <2>2 DEF SUnreadable, SDecodeCrash, STransaction, SChain, ledger, updates
  <2>4. \/ Raise("server") \/ Dies
        \/ \E step \in {"load", "poolTx", "chainTest"} : Goto("server", step)
    BY <2>1, <2>2 DEF SUnreadable, SDecodeCrash, STransaction, SChain
  <2>5. /\ \A th \in {"main", "miner", "txn"} : pc'[th] = pc[th]
        /\ pc'["server"] = pc["server"] \/ pc'["server"] \notin BlockSteps
    BY <1>0, <1>1, <2>4, OneMoves DEF Threads
  <2> QED BY <2>3, <2>5, SameAnnounced, AsideStep
<1>3. CASE SChainTest \/ SChainLength \/ SChainRemove \/ SChainAssign \/ SChainBack
  <2>1. UNCHANGED <<chain, block, outMsgs, outgoing>>
    BY <1>3 DEF SChainTest, SChainLength, SChainRemove, SChainAssign, SChainBack, ledger, updates, mail
  <2>2. /\ \A th \in {"main", "miner", "txn"} : pc'[th] = pc[th]
        /\ pc'["server"] = pc["server"] \/ pc'["server"] \notin BlockSteps
    BY <1>1, <1>3, ManageChainControl DEF Threads
  <2> QED BY <2>1, <2>2, SameAnnounced, AsideStep
<1> QED BY <1>2, <1>3

-----------------------------------------------------------------------------
(* main makes its genesis block and hands it to updateChain, which takes   *)
(* it for one; then it announces it, added or not.                         *)
LEMMA MainUndisturbed ==
  ASSUME TypeOK, Undisturbed, MGenesis \/ UpdateChain("main") \/ Bookkeep("main")
  PROVE  Undisturbed'
<1>0. /\ "main" \in Threads /\ "main" \in Updaters /\ "main" \in Senders
      /\ {"txn", "miner"} \subseteq Threads \ {"main"}
      /\ pc \in [Threads -> Steps] /\ block \in [Updaters -> Block] /\ block["main"] \in Block
      /\ outgoing \in [Senders -> Seq(Message)] /\ chain \in Seq(Block)
      /\ SoundChain(chain)
  BY DEF Threads, Updaters, Senders, TypeOK, Undisturbed
<1>1. CASE MGenesis
  <2>1. PICK g \in Garbage : \E genesis \in makeGenesisBlock(g, now') :
          block' = [block EXCEPT !["main"] = genesis]
    BY <1>1 DEF MGenesis
  <2>2. PICK genesis \in makeGenesisBlock(g, now') : block' = [block EXCEPT !["main"] = genesis]
    BY <2>1
  <2>3. block'["main"].pow = 0 /\ Sound(block'["main"])
    <3>1. now' \in Nat /\ now' # 0 /\ g \in Int
      BY <1>1, LaterType, ValuesAssumption DEF MGenesis
    <3>2. genesis.pow = 0 /\ genesis.timestamp = now' /\ genesis.blockHash \in HashesOf(genesis)
      <4>1. \A t \in Nat : \A b \in makeGenesisBlock(g, t) :
              b.pow = 0 /\ b.timestamp = t /\ b.blockHash \in HashesOf(b)
        BY SMTT(30), <3>1, GenesisType
      <4> QED BY <3>1, <4>1
    <3>3. Sound(genesis)
      BY <3>1, <3>2 DEF Sound, NoTime
    <3>4. block'["main"] = genesis
      BY <1>0, <2>2
    <3> QED BY <3>2, <3>3, <3>4
  <2>4. UNCHANGED <<chain, outMsgs, outgoing>> /\ pc["main"] = "start" /\ Goto("main", "test")
    BY <1>1 DEF MGenesis, ledger, mail, At
  <2>5. pc'["main"] = "test" /\ \A other \in Threads \ {"main"} : pc'[other] = pc[other]
    BY <1>0, <2>4, OneMoves
  <2>6. MainFirst'
    BY <1>0, <2>3, <2>4, <2>5 DEF Undisturbed, MainFirst
  <2>7. SoundChain(chain)' /\ Announcing'
    BY <1>0, <2>4, SameAnnounced
  <2> QED BY <2>4, <2>5, <2>6, <2>7, MainStep
<1>2. CASE TestEmpty("main") \/ ValidatePlace("main")
  <2>1. /\ UNCHANGED <<chain, block, outMsgs, outgoing>>
        /\ pc["main"] \in {"test", "validatePlace"} /\ chain = <<>> /\ Sound(block["main"])
    BY <1>2 DEF TestEmpty, ValidatePlace, At, ledger, updates, mail, Undisturbed, MainFirst
  <2>2. /\ \A other \in Threads \ {"main"} : pc'[other] = pc[other]
        /\ pc'["main"] \in {"test", "validatePlace", "place", "candidate"}
    <3>1. CASE TestEmpty("main")
      BY <1>0, <2>1, <3>1, TestControl DEF AfterFalse
    <3>2. CASE ValidatePlace("main")
      <4>1. PICK o \in validateBlock(chain, block["main"]) :
              CASE o = "valid"   -> Goto("main", "place")
                [] o = "invalid" -> Goto("main", AfterTrue("main"))
                [] o = "throw"   -> Raise("main")
                [] o = "crash"   -> Dies
        BY <3>2 DEF ValidatePlace
      <4>2. o \in {"valid", "invalid", "throw", "crash"}
        BY <1>0, ValidateBlockOutcome DEF Outcome
      <4>3. Goto("main", "place") \/ Goto("main", "candidate") \/ Dies
        BY <4>1, <4>2 DEF Raise, AfterTrue
      <4> QED BY <1>0, <2>1, <4>3, OneMoves DEF Dies
    <3> QED BY <1>2, <3>1, <3>2
  <2>3. MainFirst'
    BY <1>0, <2>1, <2>2 DEF Undisturbed, MainFirst, Sound
  <2>4. SoundChain(chain)' /\ Announcing'
    BY <1>0, <2>1, SameAnnounced
  <2> QED BY <2>1, <2>2, <2>3, <2>4, MainStep
<1>3. CASE Place("main")
  <2>1. /\ block' = block /\ pc["main"] = "place" /\ pc'["main"] = "candidate"
        /\ \A other \in Threads \ {"main"} : pc'[other] = pc[other]
    BY <1>0, <1>3, GrowControl DEF AfterTrue, Place, At
  <2>2. UNCHANGED <<outMsgs, outgoing>> /\ chain' = Append(chain, block["main"])
    BY <1>3, PushLands DEF Place, mail
  <2>3. chain = <<>> /\ Sound(block["main"])
    BY <2>1 DEF Undisturbed, MainFirst
  <2>4. SoundChain(chain)' /\ Announcing'
    <3>1. SoundChain(Append(chain, block["main"]))
      BY <1>0, <2>3, SoundAppend
    <3> QED BY <1>0, <2>2, <3>1, GrownAnnounced
  <2>5. MainFirst'
    BY <1>0, <2>1 DEF Undisturbed, MainFirst
  <2> QED BY <2>1, <2>4, <2>5, MainStep
<1>4. CASE Bookkeep("main")
  <2>1. /\ UNCHANGED <<chain, block, outMsgs>> /\ pc["main"] \in {"candidate", "keep", "reset"}
        /\ \E step \in {"keep", "clear"} : Goto("main", step)
    BY <1>4 DEF Bookkeep, Candidate, Keep, Reset, At, ledger, updates, mail
  <2>2. pc'["main"] \in {"keep", "clear"} /\ \A other \in Threads \ {"main"} : pc'[other] = pc[other]
    BY <1>0, <2>1, OneMoves
  <2>3. MainFirst'
    BY <1>0, <2>1, <2>2 DEF Undisturbed, MainFirst
  <2>4. Announcing'
    <3>1. Announced(BlockMessage(block["main"]))
      <4>1. block["main"].pow = 0
        BY DEF Undisturbed, MainFirst
      <4> QED BY <1>0, <4>1, MessageTypes DEF Announced
    <3>2. \/ UNCHANGED outgoing
          \/ outgoing' = [outgoing EXCEPT !["main"] = <<BlockMessage(block["main"])>>]
      BY <1>4 DEF Bookkeep, Candidate, Keep, Reset, BlockMsg, mail
    <3> QED BY <1>0, <2>1, <3>1, <3>2, SameAnnounced, SentAnnounced
  <2>5. SoundChain(chain)'
    BY <1>0, <2>1
  <2> QED BY <2>1, <2>2, <2>3, <2>4, <2>5, MainStep
<1>5. ~Validate("main") /\ ~Push("main") /\ ~RemoveFromPool("main") /\ ~Assign("main") /\ ~SendBack("main")
  BY DEF Undisturbed, MainFirst, Validate, Push, RemoveFromPool, Assign, SendBack, At
<1> QED BY <1>1, <1>2, <1>3, <1>4, <1>5 DEF UpdateChain

(* A step of the miner that leaves the chain and its announcements alone.  *)
LEMMA MinerQuiet ==
  ASSUME TypeOK, Undisturbed, pc["miner"] # "idle",
         \A other \in Threads \ {"miner"} : pc'[other] = pc[other],
         block'["main"] = block["main"], UNCHANGED <<chain, outMsgs, outgoing>>, MinerAlone'
  PROVE  Undisturbed'
<1>1. SoundChain(chain)' /\ Announcing'
  BY SameAnnounced DEF Undisturbed
<1> QED BY <1>1, MinerStep

(* What the miner makes is never taken for a genesis block; so it is       *)
(* compared with the last block, which is still the last one when it is    *)
(* pushed; and only then is it announced.                                  *)
LEMMA MinerUndisturbed ==
  ASSUME Base, Undisturbed,
         \/ BMine \/ BTip \/ BTake \/ BEmpty \/ BAnnounce
         \/ UpdateChain("miner") \/ Bookkeep("miner")
  PROVE  Undisturbed'
<1>0. /\ TypeOK /\ "miner" \in Threads /\ "miner" \in Updaters /\ "miner" \in Senders
      /\ pc \in [Threads -> Steps] /\ block \in [Updaters -> Block] /\ block["miner"] \in Block
      /\ chain \in Seq(Block) /\ pool \in Seq(Transaction) /\ SoundChain(chain)
  BY DEF Threads, Updaters, Senders, Base, TypeOK, Undisturbed
<1>1. CASE BMine \/ BTip \/ BTake
  <2>1. /\ UNCHANGED <<chain, outMsgs, outgoing>> /\ pc["miner"] \in {"pow", "tip", "take"}
        /\ (\E step \in {"tip", "take", "empty"} : Goto("miner", step)) \/ Dies
        /\ block'["main"] = block["main"]
    BY <1>0, <1>1 DEF BMine, BTip, BTake, At, ledger, mail, updates, Updaters
  <2>2. /\ pc'["miner"] \in {"pow", "tip", "take", "empty"}
        /\ \A other \in Threads \ {"miner"} : pc'[other] = pc[other]
    BY <1>0, <2>1, OneMoves DEF Dies
  <2>3. MinerAlone'
    BY <2>2 DEF MinerAlone
  <2> QED BY <1>0, <2>1, <2>2, <2>3, MinerQuiet
<1>2. CASE BEmpty
  <2>1. UNCHANGED <<chain, outMsgs, outgoing>> /\ pc["miner"] = "empty" /\ Goto("miner", "candidate")
    BY <1>2 DEF BEmpty, At, mail
  <2>2. PICK g \in Garbage :
          \E b \in MinedBlock(g, block["miner"].prevHash, Me, block["miner"].data, now) :
            block' = [block EXCEPT !["miner"] = b]
    BY <1>2 DEF BEmpty
  <2>3. PICK b \in MinedBlock(g, block["miner"].prevHash, Me, block["miner"].data, now) :
          block' = [block EXCEPT !["miner"] = b]
    BY <2>2
  <2>4. block'["main"] = block["main"] /\ block'["miner"].pow = 1
    <3>1. /\ g \in Int /\ Me \in Port /\ now \in Nat \ {0}
          /\ block["miner"].prevHash \in Hash /\ block["miner"].data \in Seq(Transaction)
      BY <1>0, ValuesAssumption, NodeAssumption DEF TypeOK, Block
    <3>2. b.pow = 1
      BY <3>1, MinedBlockType
    <3> QED BY <1>0, <2>3, <3>2 DEF Updaters
  <2>5. pc'["miner"] = "candidate" /\ \A other \in Threads \ {"miner"} : pc'[other] = pc[other]
    BY <1>0, <2>1, OneMoves
  <2>6. MinerAlone'
    BY <2>4, <2>5 DEF MinerAlone
  <2> QED BY <1>0, <2>1, <2>4, <2>5, <2>6, MinerQuiet
<1>3. CASE Bookkeep("miner")
  <2>1. /\ UNCHANGED <<chain, block, outMsgs, outgoing>>
        /\ \/ pc["miner"] \in {"candidate", "keep"} /\ \E step \in {"keep", "test"} : Goto("miner", step)
           \/ pc["miner"] = "reset" /\ Goto("miner", "pow")
    BY <1>3 DEF Bookkeep, Candidate, Keep, Reset, At, ledger, updates, mail
  <2>2. /\ \A other \in Threads \ {"miner"} : pc'[other] = pc[other]
        /\ \/ pc["miner"] \in {"candidate", "keep"} /\ pc'["miner"] \in {"keep", "test"}
           \/ pc'["miner"] = "pow"
    BY <1>0, <2>1, OneMoves
  <2>3. MinerAlone'
    BY <2>1, <2>2 DEF Undisturbed, MinerAlone
  <2> QED BY <1>0, <2>1, <2>2, <2>3, MinerQuiet
<1>4. CASE TestEmpty("miner")
  <2>1. /\ UNCHANGED <<chain, block, outMsgs, outgoing>> /\ pc["miner"] = "test"
        /\ block["miner"].pow = 1
    BY <1>4 DEF TestEmpty, At, ledger, updates, mail, Undisturbed, MinerAlone
  <2>2. /\ \A other \in Threads \ {"miner"} : pc'[other] = pc[other]
        /\ pc'["miner"] \in {"validate", "reset"}
    BY <1>0, <1>4, <2>1, TestControl DEF AfterFalse
  <2>3. MinerAlone'
    BY <2>2 DEF MinerAlone
  <2> QED BY <1>0, <2>1, <2>2, <2>3, MinerQuiet
<1>5. CASE Validate("miner")
  <2>1. UNCHANGED <<chain, block, outMsgs, outgoing>> /\ pc["miner"] = "validate" /\ chain # <<>>
    BY <1>0, <1>5 DEF Validate, At, ledger, updates, mail, Base, Ordered, AfterTest
  <2>2. PICK o \in validateBlock(chain, block["miner"]) :
          CASE o = "valid"   -> Goto("miner", "push")
            [] o = "invalid" -> Goto("miner", "sendBack")
            [] o = "throw"   -> Raise("miner")
            [] o = "crash"   -> Dies
    BY <1>5 DEF Validate
  <2>3. o \in {"valid", "invalid", "throw", "crash"}
    BY <1>0, ValidateBlockOutcome DEF Outcome
  <2>4. Goto("miner", "push") \/ Goto("miner", "sendBack") \/ Dies
    BY <2>2, <2>3 DEF Raise
  <2>5. /\ \A other \in Threads \ {"miner"} : pc'[other] = pc[other]
        /\ pc'["miner"] \in {"push", "sendBack", "validate"}
    BY <1>0, <2>1, <2>4, OneMoves DEF Dies
  <2>6. pc'["miner"] = "push" => Sound(block["miner"]) /\ Extends(block["miner"], Last(chain))
    <3>1. SUFFICES ASSUME o = "valid"
                   PROVE  Sound(block["miner"]) /\ Extends(block["miner"], Last(chain))
      <4>1. o = "invalid" => pc'["miner"] = "sendBack"
        BY <1>0, <2>2, OneMoves
      <4>2. o \in {"throw", "crash"} => pc' = pc
        BY <2>2 DEF Raise, Dies
      <4> QED BY <2>1, <2>3, <4>1, <4>2
    <3>2. "valid" \in validateBlock(chain, block["miner"])
      BY <3>1
    <3> QED BY <1>0, <2>1, <3>2, ValidBlock DEF Sound, Extends
  <2>7. MinerAlone'
    BY <2>1, <2>5, <2>6 DEF MinerAlone, Sound, Extends
  <2> QED BY <1>0, <2>1, <2>5, <2>7, MinerQuiet
<1>6. CASE Push("miner")
  <2>1. /\ block' = block /\ pc["miner"] = "push" /\ pc'["miner"] = "remove"
        /\ \A other \in Threads \ {"miner"} : pc'[other] = pc[other]
    BY <1>0, <1>6, GrowControl DEF Push, At
  <2>2. UNCHANGED <<outMsgs, outgoing>> /\ chain' = Append(chain, block["miner"])
    BY <1>0, <1>6, PushLands DEF Push, mail
  <2>3. Sound(block["miner"]) /\ Extends(block["miner"], Last(chain))
    BY <2>1 DEF Undisturbed, MinerAlone
  <2>4. SoundChain(chain)'
    <3>1. SoundChain(Append(chain, block["miner"]))
      BY <1>0, <2>3, SoundAppend
    <3> QED BY <2>2, <3>1
  <2>5. Announcing' /\ Contains(chain', block["miner"])
    BY <1>0, <2>2, GrownAnnounced
  <2>6. MinerAlone'
    BY <2>1, <2>5 DEF MinerAlone
  <2> QED BY <1>0, <2>1, <2>4, <2>5, <2>6, MinerStep
<1>7. CASE RemoveFromPool("miner") \/ Assign("miner")
  <2>1. /\ UNCHANGED <<chain, block, outMsgs, outgoing>> /\ pc["miner"] \in {"remove", "assign"}
        /\ Goto("miner", "assign") \/ Goto("miner", "announce") \/ Dies
    BY <1>7 DEF RemoveFromPool, Assign, At, ledger, mail, Raise, AfterTrue
  <2>2. /\ \A other \in Threads \ {"miner"} : pc'[other] = pc[other]
        /\ pc'["miner"] \in {"remove", "assign", "announce"}
    BY <1>0, <2>1, OneMoves DEF Dies
  <2>3. MinerAlone'
    BY <2>1, <2>2 DEF Undisturbed, MinerAlone
  <2> QED BY <1>0, <2>1, <2>2, <2>3, MinerQuiet
<1>8. CASE SendBack("miner")
  <2>1. /\ UNCHANGED <<chain, block, outMsgs, outgoing>> /\ pc["miner"] = "sendBack"
        /\ Goto("miner", "reset") \/ Dies
    BY <1>8 DEF SendBack, At, updates, mail, Raise, AfterFalse
  <2>2. /\ \A other \in Threads \ {"miner"} : pc'[other] = pc[other]
        /\ pc'["miner"] \in {"sendBack", "reset"}
    BY <1>0, <2>1, OneMoves DEF Dies
  <2>3. MinerAlone'
    BY <2>2 DEF MinerAlone
  <2> QED BY <1>0, <2>1, <2>2, <2>3, MinerQuiet
<1>9. CASE BAnnounce
  <2>1. /\ UNCHANGED <<chain, block, outMsgs>> /\ pc["miner"] = "announce" /\ Goto("miner", "clear")
        /\ outgoing' = [outgoing EXCEPT !["miner"] = <<BlockMessage(block["miner"])>>]
    BY <1>9 DEF BAnnounce, At, BlockMsg, ledger, updates
  <2>2. pc'["miner"] = "clear" /\ \A other \in Threads \ {"miner"} : pc'[other] = pc[other]
    BY <1>0, <2>1, OneMoves
  <2>3. MinerAlone'
    BY <2>2 DEF MinerAlone
  <2>4. Announcing'
    <3>1. Announced(BlockMessage(block["miner"]))
      BY <1>0, <2>1, MessageTypes DEF Announced, Undisturbed, MinerAlone
    <3> QED BY <1>0, <2>1, <3>1, SentAnnounced
  <2>5. SoundChain(chain)'
    BY <1>0, <2>1
  <2> QED BY <1>0, <2>1, <2>2, <2>3, <2>4, <2>5, MinerStep
<1>10. ~ValidatePlace("miner") /\ ~Place("miner")
  BY DEF Undisturbed, MinerAlone, ValidatePlace, Place, At
<1> QED BY <1>1, <1>2, <1>3, <1>4, <1>5, <1>6, <1>7, <1>8, <1>9, <1>10 DEF UpdateChain

-----------------------------------------------------------------------------
(* The chain is undisturbed until a block has been read.                   *)
LEMMA NextUndisturbed ==
  ASSUME Base, Next, Undisturbed, NoBlockRead'
  PROVE  Undisturbed'
<1>0. TypeOK
  BY DEF Base
<1>1. ~UpdateChain("server") /\ ~Bookkeep("server")
  BY DEF UpdateChain, TestEmpty, ValidatePlace, Place, Validate, Push, RemoveFromPool, Assign,
         SendBack, Bookkeep, Candidate, Keep, Reset, At, Undisturbed, Aside, BlockSteps
<1>2. CASE \E th \in Updaters : UpdateChain(th) \/ Bookkeep(th)
  BY <1>0, <1>1, <1>2, MainUndisturbed, MinerUndisturbed DEF Updaters
<1>3. CASE \/ \E th \in Senders : ClearPortList(th) \/ FillPortList(th) \/ Record(th)
           \/ \E th \in Senders \ {"txn"} : ChainMsg(th)
  BY <1>0, <1>3, BroadcastUndisturbed
<1>4. CASE DataRace
  <2>1. UNCHANGED <<chain, block, pc, outMsgs, outgoing>>
    BY <1>4 DEF DataRace, Dies, ledger, updates, mail
  <2> QED BY <2>1, SameAnnounced, AsideStep
<1> QED BY <1>0, <1>2, <1>3, <1>4, NextCases, TransactionUndisturbed, ServerUndisturbed,
           MainUndisturbed, MinerUndisturbed

(* A message that has been read stays read.                                *)
LEMMA ReadBefore ==
  ASSUME TypeOK, Next, NoBlockRead'
  PROVE  NoBlockRead
BY MessagesKept DEF NoBlockRead

(* A node that has just started.                                           *)
LEMMA InitUndisturbed ==
  ASSUME Init
  PROVE  Undisturbed
<1>1. Aside /\ MainFirst /\ MinerAlone
  BY EmptyBlockType DEF Init, Aside, MainFirst, MinerAlone, BlockSteps, Threads, Updaters, EmptyBlock
<1>2. SoundChain(chain) /\ Announcing
  BY DEF Init, SoundChain, InSequence, Linked, Announcing, AllAnnounced, Senders
<1> QED BY <1>1, <1>2 DEF Undisturbed

(* A block can be lost, or follow one that is no longer the last, only     *)
(* after a block of a peer has been read; this needs no assumption about   *)
(* the hashes.                                                             *)
THEOREM UndisturbedUntilRead == Spec => [](NoBlockRead => Undisturbed)
<1> DEFINE Alone == NoBlockRead => Undisturbed
<1>1. Init => Alone
  BY InitUndisturbed
<1>2. Base /\ Alone /\ [Next]_vars => Alone'
  <2>1. ASSUME Base, Alone, Next, NoBlockRead'
        PROVE  Undisturbed'
    BY <2>1, ReadBefore, NextUndisturbed DEF Base
  <2>2. ASSUME Alone, UNCHANGED vars
        PROVE  Alone'
    <3>1. UNCHANGED <<pc, chain, block, inMsgs, outMsgs, outgoing>>
      BY <2>2 DEF vars, ledger, updates, mail
    <3>2. (NoBlockRead' <=> NoBlockRead) /\ (Undisturbed => Undisturbed')
      BY <3>1 DEF NoBlockRead, Undisturbed, Aside, MainFirst, MinerAlone, SoundChain, Sound,
                  InSequence, Linked, Extends, Announcing, AllAnnounced, Announced
    <3> QED BY <2>2, <3>2
  <2> QED BY <2>1, <2>2
<1> HIDE DEF Alone
<1>3. Spec => []Alone
  BY <1>1, <1>2, Founded, PTL DEF Spec
<1> QED BY <1>3 DEF Alone

(* As long as no block of a peer has been read the chain is one that the   *)
(* node's own isValid accepts, or, when calls of sha512 overlap, may       *)
(* accept: no hash in it is one that the node could not compute again.     *)
THEOREM ValidUntilRead == Spec => []ChainValid
<1>1. Base /\ (NoBlockRead => Undisturbed) => ChainValid
  BY SoundIsValid DEF Base, TypeOK, Undisturbed, ChainValid
<1> QED BY <1>1, Founded, UndisturbedUntilRead, PTL

(* ... and a mined block that has been announced is on the chain.          *)
THEOREM OnChainUntilRead == Spec => []AnnouncedOnChain
<1>1. (NoBlockRead => Undisturbed) => AnnouncedOnChain
  BY DEF Undisturbed, Announcing, AllAnnounced, AnnouncedOnChain
<1> QED BY <1>1, UndisturbedUntilRead, PTL
=============================================================================
