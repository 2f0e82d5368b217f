-------------------------------- MODULE Json --------------------------------
(***************************************************************************)
(* The namespace Json: how a message becomes a text and is read back.  The *)
(* text of an object holds the texts of the objects inside it as strings,  *)
(* each parsed on its own when it is reached.  A text is abstracted to the *)
(* document it parses to.  What can fail is a set of results, empty when   *)
(* an exception is thrown.  The copy of the header (m_bh) is left out, as  *)
(* in Block.                                                               *)
(***************************************************************************)
EXTENDS Block

(* json_spirit: a text parses to the document it was written from; the     *)
(* first part of one does not parse.                                       *)
Text(document) == [text |-> document]
FirstPart      == [cut |-> TRUE]
parse(text)    == IF "text" \in DOMAIN text THEN {text.text} ELSE {}

(* Transactions.  The ports are 16 bits wide when they are read.           *)
TransactionObject(t) == [key \in {"ID", "timestamp", "from", "to", "amount"} |-> t[key]]

(* Mutant: the two ports are taken for each other.                         *)
read_t_Swapped(document) ==
  [ID |-> document.ID, timestamp |-> document.timestamp,
   from |-> ToPort(document.to), to |-> ToPort(document.from), amount |-> document.amount]

read_t(document) ==
  [ID |-> document.ID, timestamp |-> document.timestamp,
   from |-> ToPort(document.from), to |-> ToPort(document.to), amount |-> document.amount]

read_tt(array) == [i \in DOMAIN array |-> read_t(array[i])]

(* Blocks.  The coinbase and the list of transactions are texts inside.    *)
BlockObject(b) ==
  [index |-> b.index, prevHash |-> b.prevHash, blockHash |-> b.blockHash,
   merkleRoot |-> b.merkleRoot, timestamp |-> b.timestamp, pow |-> b.pow,
   datum |-> Text(TransactionObject(b.datum)),
   data  |-> Text([i \in DOMAIN b.data |-> TransactionObject(b.data[i])])]

BlocksOf(document) ==
  {[index |-> document.index, prevHash |-> document.prevHash, blockHash |-> document.blockHash,
    merkleRoot |-> document.merkleRoot, timestamp |-> document.timestamp, pow |-> document.pow,
    datum |-> t, data |-> tt] :
     t  \in UNION {CastToCoinbase(read_t(datum)) : datum \in parse(document.datum)},
     tt \in {read_tt(data) : data \in parse(document.data)}}

(* The first block that cannot be read ends the reading of a chain.        *)
ChainsOf(array) ==
  {bb \in [DOMAIN array -> UNION {BlocksOf(array[i]) : i \in DOMAIN array}] :
     \A i \in DOMAIN array : bb[i] \in BlocksOf(array[i])}

(* Messages.                                                               *)
write(m) ==
  Text(CASE m.head = "TRANSACTION" -> [header |-> m.head, transaction |-> Text(TransactionObject(m.m_t))]
         [] m.head = "BLOCK"       -> [header |-> m.head, block |-> Text(BlockObject(m.m_b))]
         [] m.head = "BLOCKCHAIN"  ->
              [header |-> m.head,
               blockchain |-> Text([i \in DOMAIN m.m_bc |-> BlockObject(m.m_bc[i])])])

MessagesOf(document) ==
  CASE document.header = "TRANSACTION" ->
         {TransactionMessage(read_t(t)) : t \in parse(document.transaction)}
    [] document.header = "BLOCK" ->
         {BlockMessage(b) : b \in UNION {BlocksOf(d) : d \in parse(document.block)}}
    [] document.header = "BLOCKCHAIN" ->
         {ChainMessage(bb) : bb \in UNION {ChainsOf(a) : a \in parse(document.blockchain)}}

ReadBack(text) == UNION {MessagesOf(document) : document \in parse(text)}
=============================================================================
