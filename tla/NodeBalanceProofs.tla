------------------------- MODULE NodeBalanceProofs -------------------------
(***************************************************************************)
(* The balance of a node, for every value of the constants: whatever the   *)
(* two threads that change it do to each other, it is the account plus     *)
(* some of the receipts less some of the payments.  (Not when a received   *)
(* transaction is destroyed before it is read: then the amount that is     *)
(* added is whatever the memory holds.)                                    *)
(***************************************************************************)
EXTENDS NodeProofs, FiniteSetTheorems

-----------------------------------------------------------------------------
(* Sums of parts of a sequence.                                            *)

(* The recursive function in SumsOf satisfies its equation.                *)
LEMMA SumsRun ==
  ASSUME NEW a \in Seq(Int)
  PROVE  \E sums \in [0 .. Len(a) -> SUBSET Int] :
           /\ sums[0] = {0}
           /\ \A k \in 1 .. Len(a) : sums[k] = sums[k - 1] \cup {x + a[k] : x \in sums[k - 1]}
           /\ SumsOf(a) = sums[Len(a)]
<1> DEFINE N == Len(a)
           V == SUBSET Int
           Equation(g) == g = [k \in 0 .. N |-> IF k = 0 THEN {0}
                                                ELSE g[k - 1] \cup {x + a[k] : x \in g[k - 1]}]
           sums == CHOOSE g : Equation(g)
           step == [p \in Nat \X V |-> IF p[1] \in 1 .. N THEN p[2] \cup {x + a[p[1]] : x \in p[2]} ELSE {}]
<1>1. N \in Nat /\ {0} \in V /\ \A k \in 1 .. N : a[k] \in Int
  OBVIOUS
<1>2. step \in [Nat \X V -> V]
  <2>1. ASSUME NEW p \in Nat \X V, p[1] \in 1 .. N
        PROVE  p[2] \cup {x + a[p[1]] : x \in p[2]} \in V
    BY <1>1, <2>1
  <2> QED BY <2>1
<1>3. \E f : Solves(f, N, V, {0}, step)
  <2> HIDE DEF N, step, V
  <2> QED BY <1>1, <1>2, RecursionExists
<1>4. PICK f \in [0 .. N -> V] : f[0] = {0} /\ \A n \in 1 .. N : f[n] = step[<<n, f[n - 1]>>]
  BY <1>3 DEF Solves
<1>5. \A n \in 1 .. N : f[n] = f[n - 1] \cup {x + a[n] : x \in f[n - 1]}
  <2>1. TAKE n \in 1 .. N
  <2>2. n \in Nat /\ n - 1 \in 0 .. N
    BY <1>1
  <2>3. <<n, f[n - 1]>> \in Nat \X V
    BY <2>2, <1>4
  <2>4. \A p \in Nat \X V : p[1] \in 1 .. N => step[p] = p[2] \cup {x + a[p[1]] : x \in p[2]}
    OBVIOUS
  <2> HIDE DEF step
  <2>5. step[<<n, f[n - 1]>>] = f[n - 1] \cup {x + a[n] : x \in f[n - 1]}
    <3> DEFINE p == <<n, f[n - 1]>>
    <3>1. p[1] = n /\ p[2] = f[n - 1]
      OBVIOUS
    <3>2. step[p] = p[2] \cup {x + a[p[1]] : x \in p[2]}
      BY <2>3, <2>4, <3>1
    <3> QED BY <3>1, <3>2
  <2> QED BY <1>4, <2>5
<1> HIDE DEF step, N, V
<1>6. Equation(f)
  <2>1. \A k \in 0 .. N : k # 0 => k \in 1 .. N
    BY <1>1
  <2>2. f = [k \in 0 .. N |-> f[k]] /\ f[0] = {0}
    BY <1>4
  <2>3. \A k \in 0 .. N : f[k] = IF k = 0 THEN {0} ELSE f[k - 1] \cup {x + a[k] : x \in f[k - 1]}
    BY <1>5, <2>1, <2>2, Zenon
  <2> QED BY <2>2, <2>3, Zenon
<1>7. Equation(sums)
  <2> HIDE DEF Equation
  <2> QED BY <1>6
<1> HIDE DEF sums
<1>8. /\ sums[0] = {0}
      /\ \A k \in 1 .. N : sums[k] = sums[k - 1] \cup {x + a[k] : x \in sums[k - 1]}
  <2>1. \A k \in 0 .. N : sums[k] = IF k = 0 THEN {0}
                                    ELSE sums[k - 1] \cup {x + a[k] : x \in sums[k - 1]}
    BY <1>7
  <2>2. 0 \in 0 .. N /\ \A k \in 1 .. N : k \in 0 .. N /\ k # 0
    BY <1>1
  <2> HIDE DEF Equation
  <2>3. sums[0] = {0}
    BY <2>1, <2>2
  <2>4. ASSUME NEW k \in 1 .. N
        PROVE  sums[k] = sums[k - 1] \cup {x + a[k] : x \in sums[k - 1]}
    <3>1. k \in 0 .. N /\ k # 0
      BY <2>2
    <3> QED BY <2>1, <3>1, Zenon
  <2> QED BY <2>3, <2>4
<1>9. \A k \in 0 .. N : sums[k] \in V
  <2> DEFINE Bad == {k \in 0 .. N : sums[k] \notin V}
  <2>1. SUFFICES ASSUME Bad # {} PROVE FALSE
    OBVIOUS
  <2>2. PICK k \in Bad : \A y \in Bad : k <= y
    <3>1. Bad \in SUBSET Nat
      BY <1>1
    <3> HIDE DEF Bad
    <3> QED BY <2>1, <3>1, LeastElement
  <2>3. k \in 1 .. N /\ k - 1 \in 0 .. N /\ ~(k <= k - 1)
    <3>1. k \in 0 .. N /\ sums[k] \notin V
      BY <2>2
    <3>2. k # 0
      BY <1>1, <1>8, <3>1
    <3> QED BY <1>1, <3>1, <3>2
  <2>4. sums[k - 1] \in V /\ a[k] \in Int
    BY <1>1, <2>2, <2>3
  <2>5. sums[k] = sums[k - 1] \cup {x + a[k] : x \in sums[k - 1]}
    BY <1>8, <2>3
  <2> QED BY <2>2, <2>4, <2>5 DEF V
<1>10. sums \in [0 .. N -> V]
  BY <1>7, <1>9
<1>11. SumsOf(a) = sums[N]
  BY DEF SumsOf, sums, N
<1> QED BY <1>8, <1>10, <1>11 DEF N, V

(* One number more: it is left out of a part or added.                     *)
LEMMA SumsAppend ==
  ASSUME NEW a \in Seq(Int), NEW e \in Int
  PROVE  SumsOf(Append(a, e)) = SumsOf(a) \cup {x + e : x \in SumsOf(a)}
<1> DEFINE c == Append(a, e)
           N == Len(a)
<1>1. /\ c \in Seq(Int) /\ N \in Nat /\ Len(c) = N + 1
      /\ c[N + 1] = e /\ \A i \in 1 .. N : c[i] = a[i]
  BY AppendProperties
<1>2. PICK f \in [0 .. N -> SUBSET Int] :
        /\ f[0] = {0}
        /\ \A k \in 1 .. N : f[k] = f[k - 1] \cup {x + a[k] : x \in f[k - 1]}
        /\ SumsOf(a) = f[N]
  BY SumsRun
<1> HIDE DEF c
<1>3. PICK g \in [0 .. Len(c) -> SUBSET Int] :
        /\ g[0] = {0}
        /\ \A k \in 1 .. Len(c) : g[k] = g[k - 1] \cup {x + c[k] : x \in g[k - 1]}
        /\ SumsOf(c) = g[Len(c)]
  BY <1>1, SumsRun
<1> HIDE DEF N
<1> DEFINE Bad == {k \in 0 .. N : g[k] # f[k]}
<1>4. Bad = {}
  <2>1. SUFFICES ASSUME Bad # {} PROVE FALSE
    OBVIOUS
  <2>2. PICK k \in Bad : \A y \in Bad : k <= y
    <3>1. Bad \in SUBSET Nat
      BY <1>1
    <3> HIDE DEF Bad
    <3> QED BY <2>1, <3>1, LeastElement
  <2>3. k \in 1 .. N /\ k - 1 \in 0 .. N /\ ~(k <= k - 1) /\ k \in 1 .. Len(c)
    <3>1. k \in 0 .. N /\ g[k] # f[k]
      BY <2>2
    <3>2. k # 0
      BY <1>2, <1>3, <3>1
    <3> QED BY <1>1, <3>1, <3>2
  <2>4. g[k - 1] = f[k - 1] /\ c[k] = a[k]
    BY <1>1, <2>2, <2>3
  <2>5. /\ f[k] = f[k - 1] \cup {x + a[k] : x \in f[k - 1]}
        /\ g[k] = g[k - 1] \cup {x + c[k] : x \in g[k - 1]}
    BY <1>2, <1>3, <2>3
  <2>6. g[k] = f[k]
    BY <2>4, <2>5
  <2> QED BY <2>2, <2>6
<1>5. g[N] = f[N] /\ N + 1 \in 1 .. Len(c) /\ (N + 1) - 1 = N
  BY <1>1, <1>4
<1>6. g[N + 1] = g[N] \cup {x + c[N + 1] : x \in g[N]}
  BY <1>3, <1>5
<1> QED BY <1>1, <1>2, <1>3, <1>5, <1>6 DEF c

(* The sums are integers,                                                  *)
LEMMA SumsTypes ==
  ASSUME NEW a \in Seq(Int)
  PROVE  SumsOf(a) \subseteq Int
<1>1. PICK f \in [0 .. Len(a) -> SUBSET Int] : SumsOf(a) = f[Len(a)]
  BY SumsRun
<1>2. Len(a) \in 0 .. Len(a)
  OBVIOUS
<1> QED BY <1>1, <1>2

(* and of no numbers there is one, 0.                                      *)
LEMMA SumsEmpty == SumsOf(<<>>) = {0}
<1>1. <<>> \in Seq(Int) /\ Len(<<>>) = 0
  OBVIOUS
<1> QED BY <1>1, SumsRun

(* Nothing is lost by one number more, and a number 0 changes nothing.     *)
LEMMA SumsGrow ==
  ASSUME NEW a \in Seq(Int), NEW e \in Int
  PROVE  /\ SumsOf(a) \subseteq SumsOf(Append(a, e))
         /\ \A x \in SumsOf(a) : x + e \in SumsOf(Append(a, e))
         /\ e = 0 => SumsOf(Append(a, e)) = SumsOf(a)
<1>1. SumsOf(Append(a, e)) = SumsOf(a) \cup {x + e : x \in SumsOf(a)} /\ SumsOf(a) \subseteq Int
  BY SumsAppend, SumsTypes
<1>2. e = 0 => \A x \in SumsOf(a) : x + e = x
  BY <1>1
<1> QED BY <1>1, <1>2

-----------------------------------------------------------------------------
(* The inductive invariant.                                                *)

(* Everything the balance may be.                                          *)
Opening == Thousandths * ACCOUNT
Sums == {Opening + r - p : r \in SumsOf(Receipts), p \in SumsOf(Payments)}

(* No payment is recorded that was not begun.                              *)
Recorded == Cardinality(OwnRecords) + Unrecorded <= made

(* The steps of the balance, the pool and the list of transactions.        *)
HandlerSteps == {"load", "store", "poolTx", "recordTx"}

(* What the threads have in hand: the server a payment of somebody else,   *)
(* and to this node as long as the balance is still to be changed; txn,    *)
(* which main has started, a payment of this node, and nothing to          *)
(* broadcast before it is recorded.                                        *)
InHand ==
  /\ buffer.head = "TRANSACTION" => buffer.m_t.from # Me
  /\ pc["server"] \in HandlerSteps => tx["server"].from # Me
  /\ pc["server"] \in {"load", "store"} =>
       inMsgs # <<>> /\ tx["server"].amount = Worth(inMsgs[Len(inMsgs)])
  /\ pc["main"] # "join" => pc["txn"] = "idle"
  /\ pc["txn"] \in HandlerSteps => tx["txn"].from = Me
  /\ pc["txn"] \in HandlerSteps \cup {"idle", "sleep", "draw", "at"} => outgoing["txn"] = <<>>
  /\ pc["txn"] = "record" => outgoing["txn"] # <<>>

(* The balance, and the balance as a thread has read it to change it.      *)
Summed ==
  AllRecorded => /\ balance \in Sums
                 /\ \A th \in Handlers : pc[th] = "store" => loaded[th] \in Sums

Balanced == TypeOK /\ Recorded /\ InHand /\ Summed

-----------------------------------------------------------------------------
(* The sequences of which the sums are taken.                              *)

(* Every number in them is an integer.                                     *)
LEMMA OpeningType == Opening \in Int
BY ValuesAssumption DEF Opening, Thousandths

(* What a message is worth,                                                *)
LEMMA WorthType ==
  ASSUME NEW m \in Message
  PROVE  Worth(m) \in Int
<1>1. m.m_t.amount \in Int
  BY DEF Message, Transaction
<1> QED BY <1>1 DEF Worth

(* what a transaction costs,                                               *)
LEMMA CostType ==
  ASSUME NEW t \in Transaction
  PROVE  Cost(t) \in Int
<1>1. t.amount \in Int
  BY DEF Transaction
<1> QED BY <1>1 DEF Cost

(* so the receipts are a sequence of integers,                             *)
LEMMA ReceiptsType ==
  ASSUME TypeOK, InHand
  PROVE  /\ Handled \in Nat /\ Handled <= Len(inMsgs)
         /\ Receipts \in Seq(Int) /\ Len(Receipts) = Handled
         /\ \A i \in 1 .. Handled : Receipts[i] = Worth(inMsgs[i])
<1>1. inMsgs \in Seq(Message) /\ Len(inMsgs) \in Nat /\ (inMsgs # <<>> => Len(inMsgs) >= 1)
  BY DEF TypeOK
<1>2. Handled \in Nat /\ Handled <= Len(inMsgs)
  <2>1. CASE pc["server"] \in {"load", "store"}
    <3>1. inMsgs # <<>>
      BY <2>1 DEF InHand
    <3> QED BY <1>1, <2>1, <3>1 DEF Handled
  <2>2. CASE pc["server"] \notin {"load", "store"}
    BY <1>1, <2>2 DEF Handled
  <2> QED BY <2>1, <2>2
<1>3. \A i \in 1 .. Handled : inMsgs[i] \in Message
  BY <1>1, <1>2
<1>4. \A i \in 1 .. Handled : Worth(inMsgs[i]) \in Int
  BY <1>3, WorthType
<1> HIDE DEF Handled
<1>5. Receipts \in Seq(Int) /\ Len(Receipts) = Handled
  BY <1>2, <1>4 DEF Receipts
<1> QED BY <1>2, <1>5 DEF Receipts

(* What is recorded, and the payment of txn after it.                      *)
Costs == [i \in DOMAIN transactions |-> Cost(transactions[i])]

(* and so are the payments.                                                *)
LEMMA PaymentsType ==
  ASSUME TypeOK
  PROVE  /\ Costs \in Seq(Int) /\ Len(Costs) = Len(transactions)
         /\ pc["txn"] \in {"poolTx", "recordTx"} =>
              tx["txn"].amount \in Int /\ Payments = Append(Costs, tx["txn"].amount)
         /\ pc["txn"] \notin {"poolTx", "recordTx"} => Payments = Costs
         /\ Payments \in Seq(Int)
<1>1. transactions \in Seq(Transaction) /\ tx["txn"] \in Transaction
  BY DEF TypeOK, Handlers
<1>2. tx["txn"].amount \in Int
  BY <1>1 DEF Transaction
<1>3. \A i \in DOMAIN transactions : Cost(transactions[i]) \in Int
  BY <1>1, CostType
<1>4. Costs \in Seq(Int) /\ Len(Costs) = Len(transactions)
  BY <1>1, <1>3 DEF Costs
<1>5. Costs \o <<>> = Costs /\ Costs \o <<tx["txn"].amount>> = Append(Costs, tx["txn"].amount)
  BY <1>2, <1>4
<1>6. Payments = Costs \o (IF pc["txn"] \in {"poolTx", "recordTx"} THEN <<tx["txn"].amount>> ELSE <<>>)
  BY DEF Payments, Costs
<1>7. Append(Costs, tx["txn"].amount) \in Seq(Int)
  BY <1>2, <1>4
<1> QED BY <1>2, <1>4, <1>5, <1>6, <1>7

(* What is counted is finite.                                              *)
LEMMA CountTypes ==
  ASSUME TypeOK
  PROVE  /\ IsFiniteSet(OwnRecords) /\ Cardinality(OwnRecords) \in Nat
         /\ Unrecorded \in {0, 1} /\ made \in Nat
<1>1. transactions \in Seq(Transaction) /\ made \in Nat
  BY DEF TypeOK
<1>2. Len(transactions) \in Nat /\ OwnRecords \in SUBSET (1 .. Len(transactions))
  BY <1>1 DEF OwnRecords
<1>3. IsFiniteSet(1 .. Len(transactions))
  BY <1>2, FS_Interval
<1>4. IsFiniteSet(OwnRecords)
  BY <1>2, <1>3, FS_Subset
<1>5. Cardinality(OwnRecords) \in Nat
  BY <1>4, FS_CardinalityType
<1> QED BY <1>1, <1>4, <1>5 DEF Unrecorded

(* What was a sum is one still when the parts are sums still.              *)
LEMMA SumsCarry ==
  ASSUME SumsOf(Receipts) \subseteq SumsOf(Receipts'),
         SumsOf(Payments) \subseteq SumsOf(Payments')
  PROVE  Sums \subseteq Sums'
BY DEF Sums

(* A step that changes neither the balance nor what a thread has read.     *)
LEMMA SummedCarry ==
  ASSUME Balanced, UNCHANGED <<balance, loaded>>,
         \A th \in Handlers : pc'[th] = "store" => pc[th] = "store",
         AllRecorded' => AllRecorded,
         SumsOf(Receipts) \subseteq SumsOf(Receipts'),
         SumsOf(Payments) \subseteq SumsOf(Payments')
  PROVE  Summed'
<1>1. Sums \subseteq Sums'
  BY SumsCarry
<1> QED BY <1>1 DEF Balanced, Summed

-----------------------------------------------------------------------------
(* The steps that have nothing to do with the balance.                     *)

(* A thread other than txn that stays away from the balance, and starts no *)
(* thread.                                                                 *)
LEMMA StillBalanced ==
  ASSUME Balanced, TypeOK',
         UNCHANGED <<balance, loaded, tx, inMsgs, transactions, made, buffer>>,
         outgoing'["txn"] = outgoing["txn"],
         \A th \in Threads :
           \/ pc'[th] = pc[th]
           \/ /\ th # "txn"
              /\ pc[th] \notin HandlerSteps \cup {"join"} /\ pc'[th] \notin HandlerSteps \cup {"join"}
  PROVE  Balanced'
<1>0. "txn" \in Threads /\ "server" \in Threads /\ "main" \in Threads /\ \A th \in Handlers : th \in Threads
  BY DEF Threads, Handlers
<1>1. pc'["txn"] = pc["txn"]
  BY <1>0
<1>2. /\ pc'["server"] \in {"load", "store"} <=> pc["server"] \in {"load", "store"}
      /\ pc'["server"] \in HandlerSteps <=> pc["server"] \in HandlerSteps
      /\ pc'["main"] = "join" <=> pc["main"] = "join"
      /\ \A th \in Handlers : pc'[th] = "store" => pc[th] = "store"
  BY <1>0, <1>1 DEF HandlerSteps
<1>3. Handled' = Handled /\ Unrecorded' = Unrecorded /\ OwnRecords' = OwnRecords
  BY <1>1, <1>2 DEF Handled, Unrecorded, OwnRecords
<1>4. Receipts' = Receipts /\ Payments' = Payments
  BY <1>1, <1>3 DEF Receipts, Payments
<1>5. Recorded' /\ (AllRecorded' => AllRecorded)
  BY <1>3 DEF Balanced, Recorded, AllRecorded
<1>6. InHand'
  BY <1>1, <1>2 DEF Balanced, InHand
<1>7. Summed'
  BY <1>2, <1>4, <1>5, SummedCarry
<1> QED BY <1>5, <1>6, <1>7 DEF Balanced

(* Everything main, the miner and the server do with blocks and chains.    *)
LEMMA OthersBalanced ==
  ASSUME Balanced, TypeOK',
         \/ \E th \in Senders \ {"txn"} : ClearPortList(th) \/ FillPortList(th) \/ ChainMsg(th)
         \/ Record("miner")
         \/ \E th \in Updaters : UpdateChain(th) \/ Bookkeep(th)
         \/ MGenesis
         \/ BMine \/ BTip \/ BTake \/ BEmpty \/ BAnnounce
         \/ SChainTest \/ SChainLength \/ SChainRemove \/ SChainAssign \/ SChainBack
         \/ DataRace
  PROVE  Balanced'
<1> DEFINE Away(th) ==
      \/ pc'[th] = pc[th]
      \/ /\ th # "txn"
         /\ pc[th] \notin HandlerSteps \cup {"join"} /\ pc'[th] \notin HandlerSteps \cup {"join"}
<1>0. pc \in [Threads -> Steps] /\ outgoing \in [Senders -> Seq(Message)]
  BY DEF Balanced, TypeOK
<1>1. ASSUME NEW th \in Threads \ {"txn"}, NEW step,
             pc[th] \notin HandlerSteps \cup {"join"}, step \notin HandlerSteps \cup {"join"},
             pc' = [pc EXCEPT ![th] = step]
      PROVE  \A other \in Threads : Away(other)
  BY <1>0, <1>1
<1>2. /\ \A th \in Senders \ {"txn"} : th \in Threads \ {"txn"}
      /\ \A th \in Updaters : th \in Threads \ {"txn"}
      /\ "main" \in Threads \ {"txn"} /\ "miner" \in Threads \ {"txn"} /\ "server" \in Threads \ {"txn"}
  BY DEF Senders, Updaters, Threads
<1>3. CASE \E th \in Senders \ {"txn"} : ClearPortList(th) \/ FillPortList(th) \/ ChainMsg(th)
  <2>1. PICK th \in Senders \ {"txn"} : ClearPortList(th) \/ FillPortList(th) \/ ChainMsg(th)
    BY <1>3
  <2>2. UNCHANGED <<balance, loaded, tx, inMsgs, transactions, made, buffer>>
    BY <2>1 DEF ClearPortList, FillPortList, ChainMsg, account, books, mail, rounds
  <2>3. outgoing'["txn"] = outgoing["txn"]
    BY <1>0, <2>1 DEF ClearPortList, FillPortList, ChainMsg, mail, Senders
  <2>4. pc[th] \in {"clear", "fill", "chainMessage"}
    BY <2>1 DEF ClearPortList, FillPortList, ChainMsg, At
  <2>5. \E step \in {"fill", "draw", "chainMessage", "record", "clear"} : pc' = [pc EXCEPT ![th] = step]
    BY <2>1 DEF ClearPortList, FillPortList, ChainMsg, Goto
  <2>6. \A other \in Threads : Away(other)
    BY <1>1, <1>2, <2>4, <2>5 DEF HandlerSteps
  <2> QED BY <2>2, <2>3, <2>6, StillBalanced
<1>4. CASE Record("miner")
  <2>1. UNCHANGED <<balance, loaded, tx, inMsgs, transactions, made, buffer>>
    BY <1>4 DEF Record, account, books, rounds
  <2>2. outgoing'["txn"] = outgoing["txn"]
    BY <1>0, <1>4 DEF Record, Senders
  <2>3. pc["miner"] = "record" /\ pc' = [pc EXCEPT !["miner"] = "pow"]
    BY <1>4 DEF Record, At
  <2>4. \A other \in Threads : Away(other)
    BY <1>1, <1>2, <2>3 DEF HandlerSteps
  <2> QED BY <2>1, <2>2, <2>4, StillBalanced
<1>5. CASE \E th \in Updaters : UpdateChain(th)
  <2>1. PICK th \in Updaters : UpdateChain(th)
    BY <1>5
  <2>2. UNCHANGED <<balance, loaded, tx, inMsgs, transactions, made, buffer, outgoing>>
    BY <2>1 DEF UpdateChain, TestEmpty, ValidatePlace, Place, Validate, Push, RemoveFromPool,
                Assign, SendBack, account, books, mail, rounds
  <2>3. pc[th] \in {"test", "validatePlace", "place", "validate", "push", "remove", "assign", "sendBack"}
    BY <2>1 DEF UpdateChain, TestEmpty, ValidatePlace, Place, Validate, Push, RemoveFromPool,
                Assign, SendBack, At
  <2>4. \/ pc' = pc
        \/ \E step \in {"validate", "validatePlace", "place", "push", "sendBack", "remove", "assign",
                        "listen", AfterTrue(th), AfterFalse(th)} : pc' = [pc EXCEPT ![th] = step]
    <3>1. block[th] \in Block /\ chain \in Seq(Block)
      BY DEF Balanced, TypeOK
    <3>2. CASE TestEmpty(th)
      BY <3>2 DEF TestEmpty, Goto
    <3>3. CASE ValidatePlace(th) \/ Validate(th)
      <4>1. \A o \in validateBlock(chain, block[th]) : o \in Outcome
        BY <3>1, ValidateBlockOutcome
      <4> QED BY <3>3, <4>1 DEF ValidatePlace, Validate, Outcome, Goto, Raise, Dies
    <3>4. CASE Place(th) \/ Push(th) \/ RemoveFromPool(th) \/ Assign(th) \/ SendBack(th)
      BY <3>4 DEF Place, Push, RemoveFromPool, Assign, SendBack, Goto, Raise, Dies
    <3> QED BY <2>1, <3>2, <3>3, <3>4 DEF UpdateChain
  <2>5. AfterTrue(th) \notin HandlerSteps \cup {"join"} /\ AfterFalse(th) \notin HandlerSteps \cup {"join"}
    BY <2>1 DEF AfterTrue, AfterFalse, HandlerSteps, Updaters
  <2>6. \A other \in Threads : Away(other)
    BY <1>1, <1>2, <2>3, <2>4, <2>5 DEF HandlerSteps
  <2> QED BY <2>2, <2>6, StillBalanced
<1>6. CASE \E th \in Updaters : Bookkeep(th)
  <2>1. PICK th \in Updaters : Bookkeep(th)
    BY <1>6
  <2>2. UNCHANGED <<balance, loaded, tx, inMsgs, transactions, made, buffer>>
    BY <2>1 DEF Bookkeep, Candidate, Keep, Reset, account, mail, rounds
  <2>3. outgoing'["txn"] = outgoing["txn"]
    BY <1>0, <2>1 DEF Bookkeep, Candidate, Keep, Reset, BlockMsg, mail, Senders, Updaters
  <2>4. /\ pc[th] \in {"candidate", "keep", "reset"}
        /\ \E step \in {"test", "keep", "clear", "listen", "pow"} : pc' = [pc EXCEPT ![th] = step]
    BY <2>1 DEF Bookkeep, Candidate, Keep, Reset, At, Goto, Updaters
  <2>5. \A other \in Threads : Away(other)
    BY <1>1, <1>2, <2>4 DEF HandlerSteps
  <2> QED BY <2>2, <2>3, <2>5, StillBalanced
<1>7. CASE MGenesis
  <2>1. /\ UNCHANGED <<balance, loaded, tx, inMsgs, transactions, made, buffer, outgoing>>
        /\ pc["main"] = "start" /\ pc' = [pc EXCEPT !["main"] = "test"]
    BY <1>7 DEF MGenesis, account, books, mail, At, Goto
  <2>2. \A other \in Threads : Away(other)
    BY <1>1, <1>2, <2>1 DEF HandlerSteps
  <2> QED BY <2>1, <2>2, StillBalanced
<1>8. CASE BMine \/ BTip \/ BTake \/ BEmpty \/ BAnnounce
  <2>1. UNCHANGED <<balance, loaded, tx, inMsgs, transactions, made, buffer>>
    BY <1>8 DEF BMine, BTip, BTake, BEmpty, BAnnounce, account, books, mail, rounds
  <2>2. outgoing'["txn"] = outgoing["txn"]
    BY <1>0, <1>8 DEF BMine, BTip, BTake, BEmpty, BAnnounce, BlockMsg, mail, Senders
  <2>3. pc["miner"] \in {"pow", "tip", "take", "empty", "announce"}
    BY <1>8 DEF BMine, BTip, BTake, BEmpty, BAnnounce, At
  <2>4. pc' = pc \/ \E step \in {"tip", "take", "empty", "candidate", "clear"} :
                      pc' = [pc EXCEPT !["miner"] = step]
    BY <1>8 DEF BMine, BTip, BTake, BEmpty, BAnnounce, Goto, Dies
  <2>5. \A other \in Threads : Away(other)
    BY <1>1, <1>2, <2>3, <2>4 DEF HandlerSteps
  <2> QED BY <2>1, <2>2, <2>5, StillBalanced
<1>9. CASE SChainTest \/ SChainLength \/ SChainRemove \/ SChainAssign \/ SChainBack
  <2>1. UNCHANGED <<balance, loaded, tx, inMsgs, transactions, made, buffer, outgoing>>
    BY <1>9 DEF SChainTest, SChainLength, SChainRemove, SChainAssign, SChainBack, account, books,
                mail, rounds
  <2>2. pc["server"] \in {"chainTest", "chainLength", "chainRemove", "chainAssign", "chainBack"}
    BY <1>9 DEF SChainTest, SChainLength, SChainRemove, SChainAssign, SChainBack, At
  <2>3. pc' = pc \/ \E step \in {"listen", "chainLength", "chainBack", "chainRemove",
                                 "chainAssign"} : pc' = [pc EXCEPT !["server"] = step]
    <3>1. CASE SChainTest
      <4>1. \A o \in isValidChain(chain) : o \in {"valid", "invalid", "throw"}
        BY IsValidChainOutcome DEF Balanced, TypeOK
      <4> QED BY <3>1, <4>1 DEF SChainTest, Goto, Raise
    <3>2. CASE SChainLength
      BY <3>2 DEF SChainLength, Goto, Dies
    <3>3. CASE SChainRemove \/ SChainAssign \/ SChainBack
      BY <3>3 DEF SChainRemove, SChainAssign, SChainBack, Goto
    <3> QED BY <1>9, <3>1, <3>2, <3>3
  <2>4. \A other \in Threads : Away(other)
    BY <1>1, <1>2, <2>2, <2>3 DEF HandlerSteps
  <2> QED BY <2>1, <2>4, StillBalanced
<1>10. CASE DataRace
  <2>1. UNCHANGED <<balance, loaded, tx, inMsgs, transactions, made, buffer, outgoing, pc>>
    BY <1>10 DEF DataRace, Dies, account, books, mail, rounds
  <2> QED BY <2>1, StillBalanced
<1> QED BY <1>3, <1>4, <1>5, <1>6, <1>7, <1>8, <1>9, <1>10

(* main starts txn, which has nothing in hand then.                        *)
LEMMA StartStep ==
  ASSUME Balanced, TypeOK', Record("main")
  PROVE  Balanced'
<1>0. pc \in [Threads -> Steps] /\ outgoing \in [Senders -> Seq(Message)]
  BY DEF Balanced, TypeOK
<1>1. /\ UNCHANGED <<balance, loaded, tx, inMsgs, transactions, made, buffer>>
      /\ outgoing'["txn"] = outgoing["txn"]
      /\ pc["main"] = "record"
      /\ pc' = [pc EXCEPT !["main"] = "join", !["txn"] = "sleep", !["miner"] = "pow"]
  BY <1>0 DEF Record, At, account, books, rounds, Senders
<1>2. pc["txn"] = "idle" /\ pc'["txn"] = "sleep" /\ pc'["server"] = pc["server"] /\ pc'["main"] = "join"
  <2>1. pc["txn"] = "idle"
    BY <1>1 DEF Balanced, InHand
  <2>2. DOMAIN pc = Threads /\ "txn" \in Threads /\ "server" \in Threads /\ "main" \in Threads
    BY <1>0 DEF Threads
  <2> QED BY <1>1, <2>1, <2>2
<1>3. Handled' = Handled /\ Unrecorded' = Unrecorded /\ OwnRecords' = OwnRecords
  BY <1>1, <1>2 DEF Handled, Unrecorded, OwnRecords
<1>4. Receipts' = Receipts /\ Payments' = Payments
  BY <1>1, <1>2, <1>3 DEF Receipts, Payments
<1>5. Recorded' /\ (AllRecorded' => AllRecorded)
  BY <1>1, <1>3 DEF Balanced, Recorded, AllRecorded
<1>6. InHand'
  BY <1>1, <1>2 DEF Balanced, InHand, HandlerSteps
<1>7. Summed'
  BY <1>1, <1>2, <1>4, <1>5, SummedCarry DEF Handlers
<1> QED BY <1>5, <1>6, <1>7 DEF Balanced

-----------------------------------------------------------------------------
(* A payment of this node, from the sleep before it to its announcement.   *)

(* What txn does before it changes the balance, and after it has recorded  *)
(* the payment.                                                            *)
LEMMA PreparingStep ==
  ASSUME Balanced, TypeOK',
         TSleep \/ TDraw \/ TAt \/ ClearPortList("txn") \/ FillPortList("txn") \/ Record("txn")
  PROVE  Balanced'
<1>0. /\ pc \in [Threads -> Steps] /\ outgoing \in [Senders -> Seq(Message)]
      /\ tx \in [Handlers -> Transaction] /\ DOMAIN pc = Threads
      /\ "txn" \in Threads /\ "server" \in Threads /\ "main" \in Threads
      /\ "txn" \in Handlers /\ "server" \in Handlers /\ "txn" \in Senders
  BY DEF Balanced, TypeOK, Threads, Handlers, Senders
<1>1. UNCHANGED <<balance, loaded, inMsgs, transactions, buffer>> /\ tx'["server"] = tx["server"]
  BY <1>0 DEF TSleep, TDraw, TAt, ClearPortList, FillPortList, Record, account, books, mail
<1>2. /\ pc'["server"] = pc["server"] /\ pc'["main"] = pc["main"]
      /\ pc["txn"] \notin {"poolTx", "recordTx", "idle"}
      /\ pc'["txn"] \notin {"poolTx", "recordTx", "idle", "store"}
  <2>1. pc["txn"] \in {"sleep", "draw", "at", "clear", "fill", "record"}
    BY DEF TSleep, TDraw, TAt, ClearPortList, FillPortList, Record, At
  <2>2. pc' = pc \/ \E step \in {"clear", "at", "load", "fill", "draw", "record", "sleep"} :
                      pc' = [pc EXCEPT !["txn"] = step]
    <3>1. CASE TSleep \/ TDraw \/ TAt \/ ClearPortList("txn") \/ Record("txn")
      BY <3>1 DEF TSleep, TDraw, TAt, ClearPortList, Record, Goto, Raise, Dies
    <3>2. CASE FillPortList("txn")
      BY <3>2 DEF FillPortList, Goto
    <3> QED BY <3>1, <3>2
  <2> QED BY <1>0, <2>1, <2>2
<1>3. Handled' = Handled /\ OwnRecords' = OwnRecords
  BY <1>1, <1>2 DEF Handled, OwnRecords
<1>4. Receipts' = Receipts /\ Payments' = Payments
  BY <1>1, <1>2, <1>3 DEF Receipts, Payments
(* One payment more is begun when it is one more that is to be recorded.   *)
<1>5. /\ \/ made' = made /\ Unrecorded' = Unrecorded
         \/ made' = made + 1 /\ Unrecorded = 0 /\ Unrecorded' = 1
      /\ pc'["txn"] \in HandlerSteps => tx'["txn"].from = Me
      /\ pc'["txn"] \in HandlerSteps \cup {"idle", "sleep", "draw", "at"} => outgoing'["txn"] = <<>>
      /\ pc'["txn"] = "record" => outgoing'["txn"] # <<>>
  <2>1. CASE TSleep
    <3>1. /\ pc["txn"] = "sleep" /\ pc'["txn"] = "clear" /\ made' = made + 1
          /\ outgoing["txn"] = <<>> /\ outgoing' = outgoing
      BY <1>0, <2>1 DEF TSleep, At, Goto, mail, Balanced, InHand
    <3> QED BY <3>1 DEF Unrecorded, HandlerSteps
  <2>2. CASE TDraw
    <3>1. /\ pc["txn"] = "draw" /\ pc'["txn"] \in {"draw", "at"} /\ made' = made
          /\ outgoing["txn"] = <<>> /\ outgoing' = outgoing
      BY <1>0, <2>2 DEF TDraw, At, Goto, Raise, Dies, mail, rounds, Balanced, InHand
    <3> QED BY <3>1 DEF Unrecorded, HandlerSteps
  <2>3. CASE TAt
    <3>1. pc["txn"] = "at" /\ made' = made /\ outgoing["txn"] = <<>> /\ outgoing' = outgoing
      BY <1>0, <2>3 DEF TAt, At, mail, rounds, Balanced, InHand
    <3>2. \/ pc'["txn"] = "at"
          \/ pc'["txn"] = "load" /\ tx'["txn"].from = Me
      <4>1. CASE index \notin DOMAIN portList
        BY <2>3, <3>1, <4>1 DEF TAt, Raise, Dies
      <4>2. CASE index \in DOMAIN portList
        <5>1. PICK amount \in Amounts :
                tx' = [tx EXCEPT !["txn"] = NewTransaction(Me, portList[index], amount, now)]
          BY <2>3, <4>2 DEF TAt
        <5>2. portList[index] \in Port /\ Me \in Port /\ now \in Nat
          <6>1. portList \in Seq(Peers) /\ now \in Nat
            BY DEF Balanced, TypeOK
          <6>2. portList[index] \in Peers
            BY <4>2, <6>1
          <6> QED BY <6>1, <6>2, NodeAssumption
        <5>3. tx'["txn"].from = Me
          <6>1. NewTransaction(Me, portList[index], amount, now).from = Me
            BY DEF NewTransaction
          <6> QED BY <1>0, <5>1, <6>1
        <5> QED BY <1>0, <2>3, <4>2, <5>3 DEF TAt, Goto
      <4> QED BY <4>1, <4>2
    <3> QED BY <3>1, <3>2 DEF Unrecorded, HandlerSteps
  <2>4. CASE ClearPortList("txn")
    <3>1. pc["txn"] = "clear" /\ pc'["txn"] = "fill" /\ made' = made /\ outgoing' = outgoing
      BY <1>0, <2>4 DEF ClearPortList, At, Goto, mail, rounds
    <3> QED BY <3>1 DEF Unrecorded, HandlerSteps
  <2>5. CASE FillPortList("txn")
    <3>1. /\ pc["txn"] = "fill" /\ made' = made /\ outgoing' = outgoing
          /\ pc'["txn"] = IF outgoing["txn"] = <<>> THEN "draw" ELSE "record"
      BY <1>0, <2>5 DEF FillPortList, At, Goto, mail, rounds
    <3> QED BY <3>1 DEF Unrecorded, HandlerSteps
  <2>6. CASE Record("txn")
    <3>1. /\ pc["txn"] = "record" /\ pc'["txn"] = "sleep" /\ made' = made
          /\ outgoing["txn"] # <<>> /\ outgoing'["txn"] = <<>>
      BY <1>0, <2>6 DEF Record, At, rounds, Balanced, InHand
    <3> QED BY <3>1 DEF Unrecorded, HandlerSteps
  <2> QED BY <2>1, <2>2, <2>3, <2>4, <2>5, <2>6
<1>6. Recorded' /\ (AllRecorded' => AllRecorded)
  <2>1. Cardinality(OwnRecords) \in Nat /\ made \in Nat /\ Unrecorded \in Nat
    BY CountTypes DEF Balanced
  <2> QED BY <1>3, <1>5, <2>1 DEF Balanced, Recorded, AllRecorded
<1>7. InHand'
  BY <1>1, <1>2, <1>5 DEF Balanced, InHand
<1>8. Summed'
  BY <1>1, <1>2, <1>4, <1>6, SummedCarry DEF Handlers
<1> QED BY <1>6, <1>7, <1>8 DEF Balanced

-----------------------------------------------------------------------------
(* The update of the balance.                                              *)

(* The balance is read as it is.                                           *)
LEMMA LoadStep ==
  ASSUME Balanced, TypeOK', NEW th \in Handlers, Load(th)
  PROVE  Balanced'
<1>0. /\ pc \in [Threads -> Steps] /\ loaded \in [Handlers -> Int] /\ th \in Threads
      /\ "txn" \in Threads /\ "server" \in Threads /\ "main" \in Threads /\ Handlers \subseteq Threads
      /\ th \in {"server", "txn"} /\ DOMAIN pc = Threads
  BY DEF Balanced, TypeOK, Threads, Handlers
<1>1. /\ UNCHANGED <<balance, tx, inMsgs, transactions, made, buffer, outgoing>>
      /\ pc[th] = "load" /\ pc' = [pc EXCEPT ![th] = "store"]
      /\ loaded' = [loaded EXCEPT ![th] = balance]
  BY DEF Load, At, Goto, books, mail, rounds
<1>2. /\ (pc'["server"] = pc["server"] \/ (pc["server"] = "load" /\ pc'["server"] = "store"))
      /\ (pc'["txn"] = pc["txn"] \/ (pc["txn"] = "load" /\ pc'["txn"] = "store"))
      /\ pc'["main"] = pc["main"]
  <2>1. CASE th = "server"
    BY <1>0, <1>1, <2>1
  <2>2. CASE th = "txn"
    BY <1>0, <1>1, <2>2
  <2> QED BY <1>0, <2>1, <2>2
<1>3. Handled' = Handled /\ Unrecorded' = Unrecorded /\ OwnRecords' = OwnRecords
  BY <1>1, <1>2 DEF Handled, Unrecorded, OwnRecords
<1>4. Receipts' = Receipts /\ Payments' = Payments
  BY <1>1, <1>2, <1>3 DEF Receipts, Payments
<1>5. Recorded' /\ (AllRecorded' => AllRecorded)
  BY <1>1, <1>3 DEF Balanced, Recorded, AllRecorded
<1>6. InHand'
  BY <1>1, <1>2 DEF Balanced, InHand, HandlerSteps
<1>7. Summed'
  <2>1. Sums' = Sums
    BY <1>4 DEF Sums
  <2>2. ASSUME NEW other \in Handlers, pc'[other] = "store"
        PROVE  \/ loaded'[other] = balance
               \/ loaded'[other] = loaded[other] /\ pc[other] = "store"
    BY <1>0, <1>1, <2>2
  <2> QED BY <1>1, <1>5, <2>1, <2>2 DEF Balanced, Summed
<1> QED BY <1>5, <1>6, <1>7 DEF Balanced

(* A payment is subtracted from the balance as it was read.                *)
LEMMA PayStep ==
  ASSUME Balanced, TypeOK', Store("txn")
  PROVE  Balanced'
<1>0. /\ pc \in [Threads -> Steps] /\ DOMAIN pc = Threads
      /\ "txn" \in Threads /\ "server" \in Threads /\ "main" \in Threads
      /\ "txn" \in Handlers /\ Handlers = {"server", "txn"}
  BY DEF Balanced, TypeOK, Threads, Handlers
<1>1. /\ UNCHANGED <<loaded, tx, inMsgs, transactions, made, buffer, outgoing>>
      /\ pc["txn"] = "store" /\ pc' = [pc EXCEPT !["txn"] = "poolTx"]
      /\ balance' = loaded["txn"] - tx["txn"].amount
  BY DEF Store, At, Goto, books, mail, rounds
<1>2. pc'["server"] = pc["server"] /\ pc'["txn"] = "poolTx" /\ pc'["main"] = pc["main"]
  BY <1>0, <1>1
<1>3. Handled' = Handled /\ Unrecorded' = Unrecorded /\ OwnRecords' = OwnRecords
  BY <1>1, <1>2 DEF Handled, Unrecorded, OwnRecords
<1>4. Recorded' /\ (AllRecorded' => AllRecorded)
  BY <1>1, <1>3 DEF Balanced, Recorded, AllRecorded
<1>5. InHand'
  BY <1>1, <1>2 DEF Balanced, InHand, HandlerSteps
<1>6. Receipts' = Receipts
  BY <1>1, <1>3 DEF Receipts
<1>7. /\ Costs \in Seq(Int) /\ tx["txn"].amount \in Int
      /\ Payments = Costs /\ Payments' = Append(Costs, tx["txn"].amount)
  <2>1. Costs \in Seq(Int) /\ Payments = Costs
    BY <1>1, PaymentsType DEF Balanced
  <2>2. tx["txn"].amount \in Int
    BY <1>0 DEF Balanced, TypeOK, Transaction
  <2>3. Payments' = Costs \o <<tx["txn"].amount>>
    BY <1>1, <1>2 DEF Payments, Costs
  <2> QED BY <2>1, <2>2, <2>3
<1>8. Sums \subseteq Sums'
  BY <1>6, <1>7, SumsGrow, SumsCarry
<1>9. \A x \in Sums : x - tx["txn"].amount \in Sums'
  <2>1. TAKE x \in Sums
  <2>2. PICK r \in SumsOf(Receipts), p \in SumsOf(Payments) : x = Opening + r - p
    BY DEF Sums
  <2>3. r \in Int /\ p \in Int /\ Opening \in Int
    BY ReceiptsType, PaymentsType, SumsTypes, OpeningType DEF Balanced
  <2>4. p + tx["txn"].amount \in SumsOf(Payments')
    BY <1>7, SumsGrow
  <2>5. x - tx["txn"].amount = Opening + r - (p + tx["txn"].amount)
    BY <1>7, <2>2, <2>3
  <2> QED BY <1>6, <2>4, <2>5 DEF Sums
<1>10. Summed'
  <2>1. AllRecorded' => loaded["txn"] \in Sums
    BY <1>0, <1>1, <1>4 DEF Balanced, Summed
  <2>2. AllRecorded' => balance' \in Sums'
    BY <1>1, <1>9, <2>1
  <2>3. AllRecorded' => \A th \in Handlers : pc'[th] = "store" => loaded'[th] \in Sums'
    BY <1>0, <1>1, <1>2, <1>4, <1>8 DEF Balanced, Summed
  <2> QED BY <2>2, <2>3 DEF Summed
<1> QED BY <1>4, <1>5, <1>10 DEF Balanced

(* A receipt is added to the balance as it was read.                       *)
LEMMA EarnStep ==
  ASSUME Balanced, TypeOK', Store("server")
  PROVE  Balanced'
<1>0. /\ pc \in [Threads -> Steps] /\ DOMAIN pc = Threads
      /\ "txn" \in Threads /\ "server" \in Threads /\ "main" \in Threads
      /\ "server" \in Handlers /\ Handlers = {"server", "txn"}
  BY DEF Balanced, TypeOK, Threads, Handlers
<1>1. /\ UNCHANGED <<loaded, tx, inMsgs, transactions, made, buffer, outgoing>>
      /\ pc["server"] = "store" /\ pc' = [pc EXCEPT !["server"] = "poolTx"]
      /\ balance' = loaded["server"] + tx["server"].amount
  BY DEF Store, At, Goto, books, mail, rounds
<1>2. pc'["server"] = "poolTx" /\ pc'["txn"] = pc["txn"] /\ pc'["main"] = pc["main"]
  BY <1>0, <1>1
<1>3. Unrecorded' = Unrecorded /\ OwnRecords' = OwnRecords
  BY <1>1, <1>2 DEF Unrecorded, OwnRecords
<1>4. Recorded' /\ (AllRecorded' => AllRecorded)
  BY <1>1, <1>3 DEF Balanced, Recorded, AllRecorded
<1>5. InHand'
  BY <1>1, <1>2 DEF Balanced, InHand, HandlerSteps
<1>6. Payments' = Payments
  BY <1>1, <1>2 DEF Payments
<1> DEFINE amount == tx["server"].amount
<1>7. /\ Receipts \in Seq(Int) /\ amount \in Int
      /\ Receipts' = Append(Receipts, amount)
  <2>1. /\ Receipts \in Seq(Int) /\ Len(Receipts) = Handled /\ Handled \in Nat
        /\ \A i \in 1 .. Handled : Receipts[i] = Worth(inMsgs[i])
    BY ReceiptsType DEF Balanced
  <2>2. amount \in Int
    BY <1>0 DEF Balanced, TypeOK, Transaction
  <2>3. Len(inMsgs) \in Nat /\ Handled = Len(inMsgs) - 1 /\ Handled' = Len(inMsgs)
    BY <1>1, <1>2 DEF Handled, Balanced, TypeOK
  <2>4. Worth(inMsgs[Len(inMsgs)]) = amount
    BY <1>1 DEF Balanced, InHand
  <2>5. Receipts' = [i \in 1 .. Len(inMsgs) |-> Worth(inMsgs[i])]
    BY <1>1, <2>3 DEF Receipts
  <2>6. Receipts' \in Seq(Int) /\ Len(Receipts') = Len(inMsgs)
    <3>1. inMsgs \in Seq(Message)
      BY DEF Balanced, TypeOK
    <3>2. \A i \in 1 .. Len(inMsgs) : Worth(inMsgs[i]) \in Int
      BY <3>1, WorthType
    <3> QED BY <2>3, <2>5, <3>2
  <2> HIDE DEF amount
  <2>7. \A i \in 1 .. Len(inMsgs) : Receipts'[i] = Append(Receipts, amount)[i]
    BY <2>1, <2>2, <2>3, <2>4, <2>5
  <2>8. Append(Receipts, amount) \in Seq(Int) /\ Len(Append(Receipts, amount)) = Len(inMsgs)
    BY <2>1, <2>2, <2>3
  <2>9. Receipts' = Append(Receipts, amount)
    BY <2>6, <2>7, <2>8, SeqEqual
  <2> QED BY <2>1, <2>2, <2>9
<1>8. Sums \subseteq Sums'
  BY <1>6, <1>7, SumsGrow, SumsCarry
<1>9. \A x \in Sums : x + amount \in Sums'
  <2>1. TAKE x \in Sums
  <2>2. PICK r \in SumsOf(Receipts), p \in SumsOf(Payments) : x = Opening + r - p
    BY DEF Sums
  <2>3. r \in Int /\ p \in Int /\ Opening \in Int
    BY ReceiptsType, PaymentsType, SumsTypes, OpeningType DEF Balanced
  <2>4. r + amount \in SumsOf(Receipts')
    BY <1>7, SumsGrow
  <2>5. x + amount = Opening + (r + amount) - p
    BY <1>7, <2>2, <2>3
  <2> QED BY <1>6, <2>4, <2>5 DEF Sums
<1>10. Summed'
  <2>1. AllRecorded' => loaded["server"] \in Sums
    BY <1>0, <1>1, <1>4 DEF Balanced, Summed
  <2>2. AllRecorded' => balance' \in Sums'
    BY <1>1, <1>9, <2>1
  <2>3. AllRecorded' => \A th \in Handlers : pc'[th] = "store" => loaded'[th] \in Sums'
    BY <1>0, <1>1, <1>2, <1>4, <1>8 DEF Balanced, Summed
  <2> QED BY <2>2, <2>3 DEF Summed
<1> QED BY <1>4, <1>5, <1>10 DEF Balanced

-----------------------------------------------------------------------------
(* The pool and the list of transactions.                                  *)

(* The pool holds one transaction more; nothing else has changed.          *)
LEMMA PoolTxStep ==
  ASSUME Balanced, TypeOK', NEW th \in Handlers, PoolTx(th)
  PROVE  Balanced'
<1>0. /\ pc \in [Threads -> Steps] /\ th \in Threads /\ DOMAIN pc = Threads
      /\ "txn" \in Threads /\ "server" \in Threads /\ "main" \in Threads /\ Handlers \subseteq Threads
      /\ th \in {"server", "txn"}
  BY DEF Balanced, TypeOK, Threads, Handlers
<1>1. /\ UNCHANGED <<balance, loaded, tx, inMsgs, transactions, made, buffer, outgoing>>
      /\ pc[th] = "poolTx" /\ pc' = [pc EXCEPT ![th] = "recordTx"]
  BY DEF PoolTx, At, Goto, account, books, mail, rounds
<1>2. /\ (pc'["server"] = pc["server"] \/ (pc["server"] = "poolTx" /\ pc'["server"] = "recordTx"))
      /\ (pc'["txn"] = pc["txn"] \/ (pc["txn"] = "poolTx" /\ pc'["txn"] = "recordTx"))
      /\ pc'["main"] = pc["main"]
      /\ \A other \in Handlers : pc'[other] = "store" => pc[other] = "store"
  <2>1. CASE th = "server"
    BY <1>0, <1>1, <2>1
  <2>2. CASE th = "txn"
    BY <1>0, <1>1, <2>2
  <2> QED BY <1>0, <2>1, <2>2
<1>3. Handled' = Handled /\ Unrecorded' = Unrecorded /\ OwnRecords' = OwnRecords
  BY <1>1, <1>2 DEF Handled, Unrecorded, OwnRecords
<1>4. Receipts' = Receipts /\ Payments' = Payments
  BY <1>1, <1>2, <1>3 DEF Receipts, Payments
<1>5. Recorded' /\ (AllRecorded' => AllRecorded)
  BY <1>1, <1>3 DEF Balanced, Recorded, AllRecorded
<1>6. InHand'
  BY <1>1, <1>2 DEF Balanced, InHand, HandlerSteps
<1>7. Summed'
  BY <1>1, <1>2, <1>4, <1>5, SummedCarry
<1> QED BY <1>5, <1>6, <1>7 DEF Balanced

(* One transaction more in the list.                                       *)
LEMMA OneMoreRecord ==
  ASSUME TypeOK, NEW t \in Transaction, transactions' = Append(transactions, t)
  PROVE  /\ Costs' = Append(Costs, Cost(t))
         /\ t.from # Me => OwnRecords' = OwnRecords
         /\ t.from = Me => Cardinality(OwnRecords') = Cardinality(OwnRecords) + 1
<1> DEFINE n == Len(transactions)
<1>1. transactions \in Seq(Transaction) /\ n \in Nat
  BY DEF TypeOK
<1>2. /\ transactions' \in Seq(Transaction) /\ DOMAIN transactions = 1 .. n
      /\ DOMAIN transactions' = 1 .. n + 1 /\ Len(transactions') = n + 1
      /\ transactions'[n + 1] = t
      /\ \A i \in 1 .. n : transactions'[i] = transactions[i]
  BY <1>1, AppendProperties
<1> HIDE DEF n
<1>3. Costs' = Append(Costs, Cost(t))
  <2>1. Costs \in Seq(Int) /\ Len(Costs) = n /\ Cost(t) \in Int
    BY PaymentsType, CostType DEF n
  <2>2. Append(Costs, Cost(t)) \in Seq(Int) /\ Len(Append(Costs, Cost(t))) = n + 1
    BY <1>1, <2>1
  <2>3. Costs' = [i \in 1 .. n + 1 |-> Cost(transactions'[i])]
    BY <1>2 DEF Costs
  <2>4. \A i \in 1 .. n + 1 : Costs'[i] = Append(Costs, Cost(t))[i]
    <3>1. TAKE i \in 1 .. n + 1
    <3>2. CASE i = n + 1
      BY <1>1, <1>2, <2>1, <2>3, <3>2
    <3>3. CASE i # n + 1
      <4>1. i \in 1 .. n
        BY <1>1, <3>3
      <4>2. Costs[i] = Cost(transactions[i])
        BY <1>2, <4>1 DEF Costs
      <4>3. Append(Costs, Cost(t))[i] = Costs[i]
        BY <2>1, <4>1
      <4> QED BY <1>2, <2>3, <4>1, <4>2, <4>3
    <3> QED BY <3>2, <3>3
  <2>5. Costs' \in Seq(Int) /\ Len(Costs') = n + 1
    <3> DEFINE k == n + 1
    <3>1. k \in Nat /\ Len(transactions') = k /\ Costs' = [i \in 1 .. k |-> Cost(transactions'[i])]
      BY <1>1, <1>2, <2>3
    <3> HIDE DEF k
    <3>2. \A i \in 1 .. k : transactions'[i] \in Transaction
      <4>1. transactions' \in Seq(Transaction) /\ Len(transactions') = k
        BY <1>2, <3>1
      <4> QED BY <4>1, ElementOfSeq
    <3>3. \A i \in 1 .. k : Cost(transactions'[i]) \in Int
      BY <3>2, CostType
    <3>4. Costs' \in Seq(Int) /\ Len(Costs') = k
      BY <3>1, <3>3
    <3> QED BY <3>4 DEF k
  <2> QED BY <2>2, <2>4, <2>5, SeqEqual
<1>4. OwnRecords' = {i \in 1 .. n + 1 : transactions'[i].from = Me}
  BY <1>2 DEF OwnRecords
<1>5. OwnRecords = {i \in 1 .. n : transactions'[i].from = Me}
  BY <1>2 DEF OwnRecords
<1>6. t.from # Me => OwnRecords' = OwnRecords
  BY <1>1, <1>2, <1>4, <1>5
<1>7. t.from = Me => OwnRecords' = OwnRecords \cup {n + 1} /\ n + 1 \notin OwnRecords
  BY <1>1, <1>2, <1>4, <1>5
<1>8. t.from = Me => Cardinality(OwnRecords') = Cardinality(OwnRecords) + 1
  BY <1>7, CountTypes, FS_AddElement
<1> QED BY <1>3, <1>6, <1>8

(* The payment in hand is recorded, or it is the first that is lost.       *)
LEMMA RecordPaymentStep ==
  ASSUME Balanced, TypeOK', RecordTx("txn")
  PROVE  Balanced'
<1>0. /\ pc \in [Threads -> Steps] /\ DOMAIN pc = Threads /\ outgoing \in [Senders -> Seq(Message)]
      /\ "txn" \in Threads /\ "server" \in Threads /\ "main" \in Threads /\ "txn" \in Senders
      /\ Handlers = {"server", "txn"} /\ tx["txn"] \in Transaction
      /\ transactions \in Seq(Transaction)
  BY DEF Balanced, TypeOK, Threads, Handlers, Senders
<1>1. /\ UNCHANGED <<balance, loaded, tx, inMsgs, made, buffer>>
      /\ pc["txn"] = "recordTx" /\ pc' = [pc EXCEPT !["txn"] = "clear"]
      /\ outgoing' = [outgoing EXCEPT !["txn"] = <<TransactionMessage(tx["txn"])>>]
      /\ transactions' \in Pushed("txn", transactions, <<tx["txn"]>>)
  BY DEF RecordTx, At, Goto, account, rounds
<1>2. /\ pc'["server"] = pc["server"] /\ pc'["txn"] = "clear" /\ pc'["main"] = pc["main"]
      /\ outgoing'["txn"] # <<>> /\ outgoing["txn"] = <<>> /\ tx["txn"].from = Me
  BY <1>0, <1>1 DEF Balanced, InHand, HandlerSteps
<1>3. InHand'
  BY <1>1, <1>2 DEF Balanced, InHand, HandlerSteps
<1>4. Unrecorded = 1 /\ Unrecorded' = 0
  BY <1>1, <1>2 DEF Unrecorded
<1>5. Cardinality(OwnRecords) \in Nat /\ made \in Nat
  BY CountTypes DEF Balanced
<1>6. Receipts' = Receipts
  BY <1>1, <1>2 DEF Receipts, Handled
<1>7. CASE transactions' = Append(transactions, tx["txn"])
  <2>1. Cardinality(OwnRecords') = Cardinality(OwnRecords) + 1 /\ Costs' = Append(Costs, tx["txn"].amount)
    BY <1>0, <1>2, <1>7, OneMoreRecord DEF Balanced, Cost
  <2>2. Recorded' /\ (AllRecorded' => AllRecorded)
    BY <1>1, <1>4, <1>5, <2>1 DEF Balanced, Recorded, AllRecorded
  <2>3. Payments' = Payments
    <3>1. Payments = Append(Costs, tx["txn"].amount) /\ tx["txn"].amount \in Int /\ Costs \in Seq(Int)
      BY <1>1, PaymentsType DEF Balanced
    <3>2. Payments' = Costs' \o <<>>
      BY <1>2 DEF Payments, Costs
    <3>3. Append(Costs, tx["txn"].amount) \o <<>> = Append(Costs, tx["txn"].amount)
      BY <3>1
    <3> QED BY <2>1, <3>1, <3>2, <3>3
  <2>4. Summed'
    BY <1>0, <1>1, <1>2, <1>6, <2>2, <2>3, SummedCarry
  <2> QED BY <1>3, <2>2, <2>4 DEF Balanced
<1>8. CASE transactions' = transactions
  <2>1. OwnRecords' = OwnRecords
    BY <1>8 DEF OwnRecords
  <2>2. Recorded' /\ ~ AllRecorded'
    BY <1>1, <1>4, <1>5, <2>1 DEF Balanced, Recorded, AllRecorded
  <2> QED BY <1>3, <2>2 DEF Balanced, Summed
<1>9. /\ transactions' \in Seq(Transaction)
      /\ transactions' = Append(transactions, tx["txn"]) \/ transactions' = transactions
  <2>1. tx["txn"] \in Transaction /\ transactions \in Seq(Transaction)
    BY <1>0
  <2>2. transactions' \in Pushed("txn", transactions, <<tx["txn"]>>)
    BY <1>1
  <2> QED BY <2>1, <2>2, PushedType
<1> QED BY <1>7, <1>8, <1>9

(* A transaction of somebody else in the list costs this node nothing.     *)
LEMMA RecordReceiptStep ==
  ASSUME Balanced, TypeOK', RecordTx("server")
  PROVE  Balanced'
<1>0. /\ pc \in [Threads -> Steps] /\ DOMAIN pc = Threads
      /\ "txn" \in Threads /\ "server" \in Threads /\ "main" \in Threads
      /\ Handlers = {"server", "txn"} /\ tx["server"] \in Transaction
      /\ transactions \in Seq(Transaction)
  BY DEF Balanced, TypeOK, Threads, Handlers
<1>1. /\ UNCHANGED <<balance, loaded, tx, inMsgs, made, buffer, outgoing>>
      /\ pc["server"] = "recordTx" /\ pc' = [pc EXCEPT !["server"] = "listen"]
      /\ transactions' \in Pushed("server", transactions, <<tx["server"]>>)
  BY DEF RecordTx, At, Goto, account, rounds
<1>2. /\ pc'["server"] = "listen" /\ pc'["txn"] = pc["txn"] /\ pc'["main"] = pc["main"]
      /\ tx["server"].from # Me
  BY <1>0, <1>1 DEF Balanced, InHand, HandlerSteps
<1>3. InHand'
  BY <1>1, <1>2 DEF Balanced, InHand, HandlerSteps
<1>4. Receipts' = Receipts
  BY <1>1, <1>2 DEF Receipts, Handled
<1>5. OwnRecords' = OwnRecords /\ SumsOf(Payments') = SumsOf(Payments)
  <2>1. CASE transactions' = transactions
    BY <1>1, <1>2, <2>1 DEF OwnRecords, Payments
  <2>2. CASE transactions' = Append(transactions, tx["server"])
    <3>1. OwnRecords' = OwnRecords /\ Costs' = Append(Costs, 0)
      BY <1>0, <1>2, <2>2, OneMoreRecord DEF Balanced, Cost
    <3>2. Costs \in Seq(Int) /\ Append(Costs, 0) \in Seq(Int) /\ SumsOf(Append(Costs, 0)) = SumsOf(Costs)
      <4>1. Costs \in Seq(Int) /\ 0 \in Int
        BY PaymentsType DEF Balanced
      <4> QED BY <4>1, SumsGrow
    <3>3. CASE pc["txn"] \in {"poolTx", "recordTx"}
      <4> DEFINE e == tx["txn"].amount
      <4>1. e \in Int /\ Payments = Append(Costs, e)
        BY <3>3, PaymentsType DEF Balanced
      <4>2. Payments' = Costs' \o <<e>>
        BY <1>1, <1>2, <3>3 DEF Payments, Costs
      <4> HIDE DEF e
      <4>3. Payments' = Append(Append(Costs, 0), e)
        BY <3>1, <3>2, <4>1, <4>2
      <4>4. /\ SumsOf(Append(Costs, e)) = SumsOf(Costs) \cup {x + e : x \in SumsOf(Costs)}
            /\ SumsOf(Append(Append(Costs, 0), e)) =
                 SumsOf(Append(Costs, 0)) \cup {x + e : x \in SumsOf(Append(Costs, 0))}
        BY <3>2, <4>1, SumsAppend
      <4> QED BY <3>1, <3>2, <4>1, <4>3, <4>4
    <3>4. CASE pc["txn"] \notin {"poolTx", "recordTx"}
      <4>1. Payments = Costs
        BY <3>4, PaymentsType DEF Balanced
      <4>2. Payments' = Costs' \o <<>>
        BY <1>2, <3>4 DEF Payments, Costs
      <4>3. Payments' = Append(Costs, 0)
        BY <3>1, <3>2, <4>2
      <4> QED BY <3>1, <3>2, <4>1, <4>3
    <3> QED BY <3>3, <3>4
  <2>3. /\ transactions' \in Seq(Transaction)
        /\ transactions' = Append(transactions, tx["server"]) \/ transactions' = transactions
    BY <1>0, <1>1, PushedType
  <2> QED BY <2>1, <2>2, <2>3
<1>6. Unrecorded' = Unrecorded
  BY <1>1, <1>2 DEF Unrecorded
<1>7. Recorded' /\ (AllRecorded' => AllRecorded)
  BY <1>1, <1>5, <1>6 DEF Balanced, Recorded, AllRecorded
<1>8. Summed'
  BY <1>0, <1>1, <1>2, <1>4, <1>5, <1>7, SummedCarry
<1> QED BY <1>3, <1>7, <1>8 DEF Balanced

-----------------------------------------------------------------------------
(* What the server receives.                                               *)

(* A payment that arrives, whole or spliced of two, is one of somebody     *)
(* else.                                                                   *)
LEMMA ArrivingPayment ==
  ASSUME Balanced, NEW m \in Received
  PROVE  /\ m.head = "TRANSACTION" => m.m_t.from # Me
         /\ m.head = "TRANSACTION" => read_message(m) = {m}
<1>1. ASSUME NEW n \in PeerMessages, n.head = "TRANSACTION"
      PROVE  n.m_t.from # Me
  <2>1. \A t \in PeerTransactions : t.from # Me
    <3>1. ASSUME NEW p \in Peers, NEW to \in Peers \cup {Me}, NEW amount \in Amounts, NEW time \in {1, now}
          PROVE  NewTransaction(p, to, amount, time).from # Me
      BY NodeAssumption DEF NewTransaction
    <3> QED BY <3>1 DEF PeerTransactions
  <2>2. \E t \in PeerTransactions : n = TransactionMessage(t)
    <3>1. \/ \E t \in PeerTransactions : n = TransactionMessage(t)
          \/ \E b : n = BlockMessage(b)
          \/ \E c : n = ChainMessage(c)
      BY Zenon DEF PeerMessages
    <3>2. /\ \A b : BlockMessage(b).head # "TRANSACTION"
          /\ \A c : ChainMessage(c).head # "TRANSACTION"
      BY DEF BlockMessage, ChainMessage, EmptyMessage
    <3> QED BY <1>1, <3>1, <3>2
  <2>3. \A t : TransactionMessage(t).m_t = t
    BY DEF TransactionMessage, EmptyMessage
  <2> QED BY <2>1, <2>2, <2>3
<1>2. buffer.head = "TRANSACTION" => buffer.m_t.from # Me
  BY DEF Balanced, InHand
<1>3. ASSUME m.head = "TRANSACTION" PROVE m.m_t.from # Me
  <2>1. CASE m \in {EmptyMessage, buffer}
    BY <1>2, <1>3, <2>1, MessageTypes
  <2>2. CASE m \in PeerMessages
    BY <1>1, <1>3, <2>2
  <2>3. CASE \E n \in PeerMessages : m \in Spliced(n, buffer)
    <3>1. PICK n \in PeerMessages : m \in Spliced(n, buffer)
      BY <2>3
    <3>2. n.head = "TRANSACTION" /\ buffer.head = "TRANSACTION"
      BY <1>3, <3>1 DEF Spliced, TransactionMessage, BlockMessage, ChainMessage, EmptyMessage
    <3>3. \E t \in SplicedTransactions(n.m_t, buffer.m_t) : m = TransactionMessage(t)
      BY <3>1, <3>2 DEF Spliced
    <3>4. \A t \in SplicedTransactions(n.m_t, buffer.m_t) : t.from \in {n.m_t.from, buffer.m_t.from}
      BY DEF SplicedTransactions, Part
    <3>5. \A t : TransactionMessage(t).m_t = t
      BY DEF TransactionMessage, EmptyMessage
    <3> QED BY <1>1, <1>2, <3>2, <3>3, <3>4, <3>5
  <2> QED BY <2>1, <2>2, <2>3 DEF Received
<1> QED BY <1>3 DEF read_message

(* The server records a message before it handles it: a receipt counts     *)
(* only once it has been added to the balance.                             *)
LEMMA MessageStep ==
  ASSUME "emptied" \notin DecodeRef, Balanced, TypeOK', SReceive
  PROVE  Balanced'
<1>0. /\ pc \in [Threads -> Steps] /\ DOMAIN pc = Threads
      /\ "txn" \in Threads /\ "server" \in Threads /\ "main" \in Threads
      /\ Handlers = {"server", "txn"} /\ tx \in [Handlers -> Transaction]
      /\ inMsgs \in Seq(Message)
  BY DEF Balanced, TypeOK, Threads, Handlers
<1>1. PICK m \in Received : SUnreadable(m) \/ SDecodeCrash(m) \/ STransaction(m) \/ SBlock(m) \/ SChain(m)
  BY DEF SReceive
<1>2. /\ UNCHANGED <<balance, loaded, transactions, made, outgoing>>
      /\ tx'["txn"] = tx["txn"] /\ buffer' = m
  BY <1>0, <1>1 DEF SUnreadable, SDecodeCrash, STransaction, SBlock, SChain, account, books, rounds
<1>3. pc["server"] = "listen"
  BY DEF SReceive, At
<1>4. inMsgs' = inMsgs \/ \E msg \in Message : inMsgs' = Append(inMsgs, msg)
  <2>1. \A msg \in read_message(m) : msg \in Message
    BY ReceivedTypes DEF Balanced
  <2> QED BY <1>1, <2>1 DEF SUnreadable, SDecodeCrash, STransaction, SBlock, SChain
<1>5. \/ pc' = [pc EXCEPT !["server"] = "load"]
      \/ \E step \in {"listen", "poolTx", "candidate", "chainTest"} : pc' = [pc EXCEPT !["server"] = step]
      \/ pc' = pc
  BY <1>1 DEF SUnreadable, SDecodeCrash, STransaction, SBlock, SChain, Goto, Raise, Dies
<1>6. /\ pc'["txn"] = pc["txn"] /\ pc'["main"] = pc["main"]
      /\ pc'["server"] \in {"load", "listen", "poolTx", "candidate", "chainTest"}
  BY <1>0, <1>3, <1>5
(* A message with a payment is the last one of m_inMsgs.                   *)
<1>7. pc'["server"] \in {"load", "poolTx"} =>
        /\ tx'["server"].from # Me
        /\ inMsgs' = Append(inMsgs, m) /\ m \in Message /\ m.head = "TRANSACTION"
        /\ tx'["server"].amount = m.m_t.amount
        /\ pc'["server"] = "load" => m.m_t.to = Me
  <2>1. CASE STransaction(m)
    <3>1. m.head = "TRANSACTION" /\ m.m_t.from # Me /\ read_message(m) = {m} /\ m \in Message
      BY <2>1, ArrivingPayment, ReceivedType DEF STransaction, Balanced
    <3>2. Decoded(m.m_t, EmptiedTransactions) \subseteq {m.m_t}
      BY DEF Decoded
    <3>3. /\ inMsgs' = Append(inMsgs, m)
          /\ tx' = [tx EXCEPT !["server"] = m.m_t]
          /\ Goto("server", IF m.m_t.to = Me THEN "load" ELSE "poolTx")
      <4>1. PICK msg \in read_message(m) :
              /\ inMsgs' = Append(inMsgs, msg)
              /\ \E t \in Decoded(msg.m_t, EmptiedTransactions) :
                   /\ tx' = [tx EXCEPT !["server"] = t]
                   /\ Goto("server", IF t.to = Me THEN "load" ELSE "poolTx")
        BY <2>1 DEF STransaction
      <4>2. msg = m
        BY <3>1
      <4>3. PICK t \in Decoded(m.m_t, EmptiedTransactions) :
              /\ tx' = [tx EXCEPT !["server"] = t]
              /\ Goto("server", IF t.to = Me THEN "load" ELSE "poolTx")
        BY <4>1, <4>2
      <4>4. t = m.m_t
        BY <3>2
      <4> QED BY <4>1, <4>2, <4>3, <4>4
    <3> QED BY <1>0, <3>1, <3>3 DEF Goto
  <2>2. CASE SUnreadable(m)
    BY <1>0, <1>3, <2>2 DEF SUnreadable, Goto, Raise, Dies
  <2>3. CASE SDecodeCrash(m)
    BY <1>0, <1>3, <2>3 DEF SDecodeCrash, Dies
  <2>4. CASE SBlock(m)
    BY <1>0, <1>3, <2>4 DEF SBlock, Goto
  <2>5. CASE SChain(m)
    BY <1>0, <1>3, <2>5 DEF SChain, Goto
  <2> QED BY <1>1, <2>1, <2>2, <2>3, <2>4, <2>5
<1>8. OwnRecords' = OwnRecords /\ Unrecorded' = Unrecorded /\ Payments' = Payments
  BY <1>2, <1>6 DEF OwnRecords, Unrecorded, Payments
<1>9. Recorded' /\ (AllRecorded' => AllRecorded)
  BY <1>2, <1>8 DEF Balanced, Recorded, AllRecorded
<1>10. InHand'
  <2>1. m.head = "TRANSACTION" => m.m_t.from # Me
    BY ArrivingPayment
  <2>2. pc'["server"] = "load" =>
          inMsgs' # <<>> /\ tx'["server"].amount = Worth(inMsgs'[Len(inMsgs')])
    <3>1. SUFFICES ASSUME pc'["server"] = "load"
                   PROVE  inMsgs' # <<>> /\ tx'["server"].amount = Worth(inMsgs'[Len(inMsgs')])
      OBVIOUS
    <3>2. Worth(m) = m.m_t.amount
      BY <1>7, <3>1 DEF Worth
    <3>3. inMsgs' # <<>> /\ inMsgs'[Len(inMsgs')] = m
      BY <1>0, <1>7, <3>1, AppendProperties
    <3> QED BY <1>7, <3>1, <3>2, <3>3
  <2> QED BY <1>2, <1>6, <1>7, <2>1, <2>2 DEF Balanced, InHand, HandlerSteps
<1>11. SumsOf(Receipts) \subseteq SumsOf(Receipts')
  <2>1. /\ Receipts \in Seq(Int) /\ Len(Receipts) = Handled /\ Handled = Len(inMsgs)
        /\ \A i \in 1 .. Handled : Receipts[i] = Worth(inMsgs[i])
    BY <1>3, ReceiptsType DEF Balanced, Handled
  <2>2. CASE Handled' = Handled
    <3>1. \A i \in 1 .. Handled : inMsgs'[i] = inMsgs[i]
      BY <1>0, <1>4, <2>1, AppendProperties
    <3>2. Receipts' = Receipts
      BY <2>2, <3>1 DEF Receipts
    <3> QED BY <3>2
  <2>3. CASE Handled' # Handled
    <3>1. PICK msg \in Message : inMsgs' = Append(inMsgs, msg)
      <4>1. inMsgs' # inMsgs
        <5>1. SUFFICES ASSUME inMsgs' = inMsgs PROVE FALSE
          OBVIOUS
        <5>2. pc'["server"] \in {"load", "store"}
          BY <1>3, <2>3, <5>1 DEF Handled
        <5>3. inMsgs' = Append(inMsgs, m) /\ m \in Message
          BY <1>6, <1>7, <5>2
        <5>4. Len(inMsgs') = Len(inMsgs) + 1 /\ Len(inMsgs) \in Nat
          BY <1>0, <5>3, AppendProperties
        <5> QED BY <5>1, <5>4
      <4> QED BY <1>4, <4>1
    <3>2. /\ Len(inMsgs') = Len(inMsgs) + 1 /\ Len(inMsgs) \in Nat
          /\ inMsgs'[Len(inMsgs) + 1] = msg /\ \A i \in 1 .. Len(inMsgs) : inMsgs'[i] = inMsgs[i]
      BY <1>0, <3>1, AppendProperties
    <3>3. Handled' = Len(inMsgs) + 1
      <4>1. Handled' = Len(inMsgs') \/ Handled' = Len(inMsgs') - 1
        BY <3>2 DEF Handled
      <4> QED BY <2>1, <2>3, <3>2, <4>1
    <3>4. Worth(msg) \in Int
      BY WorthType
    <3>5. Receipts' = Append(Receipts, Worth(msg))
      <4> DEFINE n == Len(inMsgs)
                 more == Append(Receipts, Worth(msg))
      <4>1. Receipts' = [i \in 1 .. n + 1 |-> Worth(inMsgs'[i])]
        BY <3>3 DEF Receipts
      <4>2. /\ more \in Seq(Int) /\ Len(more) = n + 1 /\ more[n + 1] = Worth(msg)
            /\ \A i \in 1 .. n : more[i] = Receipts[i]
        BY <2>1, <3>4, AppendProperties
      <4> HIDE DEF n, more
      <4>3. ASSUME NEW i \in 1 .. n + 1 PROVE Receipts'[i] = more[i] /\ Receipts'[i] \in Int
        <5>1. CASE i = n + 1
          BY <3>2, <3>4, <4>1, <4>2, <5>1 DEF n
        <5>2. CASE i # n + 1
          <6>1. i \in 1 .. n
            BY <3>2, <5>2 DEF n
          <6>2. Receipts'[i] = Worth(inMsgs[i]) /\ Receipts[i] = Worth(inMsgs[i]) /\ Receipts[i] \in Int
            BY <2>1, <3>2, <4>1, <6>1 DEF n
          <6> QED BY <4>2, <6>1, <6>2
        <5> QED BY <5>1, <5>2
      <4>4. Receipts' \in Seq(Int) /\ Len(Receipts') = n + 1
        <5>1. n + 1 \in Nat
          BY <3>2 DEF n
        <5> QED BY <4>1, <4>3, <5>1
      <4>5. Receipts' = more
        BY <4>2, <4>3, <4>4, SeqEqual
      <4> QED BY <4>5 DEF more
    <3> QED BY <2>1, <3>4, <3>5, SumsGrow
  <2> QED BY <2>2, <2>3
<1>12. Summed'
  BY <1>0, <1>2, <1>6, <1>8, <1>9, <1>11, SummedCarry
<1> QED BY <1>9, <1>10, <1>12 DEF Balanced

-----------------------------------------------------------------------------
(* A node that has just started has its account.                           *)
LEMMA InitBalanced ==
  ASSUME Init
  PROVE  Balanced
<1>1. TypeOK
  BY InitTypes
<1>2. /\ pc["main"] = "start" /\ pc["server"] = "listen" /\ pc["txn"] = "idle"
      /\ transactions = <<>> /\ inMsgs = <<>> /\ made = 0 /\ balance = Opening
      /\ outgoing["txn"] = <<>> /\ buffer.head # "TRANSACTION"
  BY MessageTypes DEF Init, Threads, Senders, Opening
<1>3. InHand
  BY <1>2 DEF InHand, HandlerSteps
<1>4. OwnRecords = {} /\ Unrecorded = 0
  BY <1>2 DEF OwnRecords, Unrecorded
<1>5. Recorded
  BY <1>2, <1>4, FS_EmptySet DEF Recorded
<1>6. Receipts = <<>> /\ Payments = <<>>
  <2>1. Handled = 0
    BY <1>2 DEF Handled
  <2>2. Payments = <<>> \o <<>>
    BY <1>2 DEF Payments
  <2> QED BY <2>1, <2>2 DEF Receipts
<1>7. balance \in Sums
  <2>1. Opening \in Int /\ Opening = Opening + 0 - 0
    BY OpeningType
  <2>2. 0 \in SumsOf(Receipts) /\ 0 \in SumsOf(Payments)
    BY <1>6, SumsEmpty
  <2>3. Opening + 0 - 0 \in Sums
    BY <2>2 DEF Sums
  <2> QED BY <1>2, <2>1, <2>3
<1>8. Summed
  BY <1>2, <1>7 DEF Summed, Handlers
<1> QED BY <1>1, <1>3, <1>5, <1>8 DEF Balanced

(* Every step keeps it.                                                    *)
LEMMA NextBalanced ==
  ASSUME "emptied" \notin DecodeRef, Balanced, Next
  PROVE  Balanced'
<1>1. TypeOK'
  BY NextTypes DEF Balanced
<1>2. CASE \E th \in Handlers : Load(th) \/ Store(th) \/ PoolTx(th) \/ RecordTx(th)
  BY <1>1, <1>2, LoadStep, PayStep, EarnStep, PoolTxStep, RecordPaymentStep, RecordReceiptStep
     DEF Handlers
<1>3. CASE \E th \in Senders : ClearPortList(th) \/ FillPortList(th) \/ Record(th)
  BY <1>1, <1>3, OthersBalanced, StartStep, PreparingStep DEF Senders
<1>4. CASE \/ \E th \in Senders \ {"txn"} : ChainMsg(th)
           \/ \E th \in Updaters : UpdateChain(th) \/ Bookkeep(th)
           \/ MGenesis
           \/ BMine \/ BTip \/ BTake \/ BEmpty \/ BAnnounce
           \/ SChainTest \/ SChainLength \/ SChainRemove \/ SChainAssign \/ SChainBack
           \/ DataRace
  BY <1>1, <1>4, OthersBalanced
<1>5. CASE TSleep \/ TDraw \/ TAt \/ SReceive
  BY <1>1, <1>5, PreparingStep, MessageStep
<1> QED BY <1>2, <1>3, <1>4, <1>5, NextCases

(* As long as m_transactions has lost no payment, the balance is the       *)
(* account plus some of the receipts less some of the payments: of the     *)
(* server's and txn's unlocked updates of m_balance one may undo another,  *)
(* but as a whole, and none is counted twice.  That decode's result still  *)
(* holds the transaction is assumed.                                       *)
THEOREM BalanceIsOfSome ==
  ASSUME "emptied" \notin DecodeRef
  PROVE  Spec => []BalanceOfSome
<1>1. Balanced /\ UNCHANGED vars => Balanced'
  <2>1. SUFFICES ASSUME Balanced, UNCHANGED vars PROVE Balanced'
    OBVIOUS
  <2>2. UNCHANGED <<balance, loaded, tx, inMsgs, transactions, made, buffer, outgoing, pc>>
    BY <2>1 DEF vars, account, books, mail, rounds
  <2>3. TypeOK'
    BY <2>1 DEF Balanced, TypeOK, vars, account, ports, books, mail, ledger, updates, rounds
  <2> QED BY <2>1, <2>2, <2>3, StillBalanced
<1>2. Balanced /\ [Next]_vars => Balanced'
  BY <1>1, NextBalanced
<1>3. Balanced => BalanceOfSome
  BY DEF Balanced, Summed, Sums, Opening, BalanceOfSome
<1>4. Init => Balanced
  BY InitBalanced
<1> QED BY <1>2, <1>3, <1>4, PTL DEF Spec
=============================================================================
