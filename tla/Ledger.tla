------------------------------- MODULE Ledger -------------------------------
(***************************************************************************)
(* What a node promises of its chain, whatever its threads and its peers   *)
(* do: blocks are only ever added at the end; each is a genesis block or   *)
(* one that this node has mined; a mined one follows an older block of the *)
(* chain; and no transaction in it comes from nowhere, that is, each was   *)
(* made here or has been heard of from a peer.  Nothing follows the stop.  *)
(***************************************************************************)
EXTENDS Integers, SequencesExt

CONSTANT Me        \* the port of the node, to which its coinbases pay

VARIABLES chain, heard, running
vars == <<chain, heard, running>>

Own(b) == b.pow = 0 \/ (b.datum.from = 0 /\ b.datum.to = Me)

Follows(b) == b.pow = 1 => \E i \in DOMAIN chain : /\ b.prevHash = chain[i].blockHash
                                                   /\ b.timestamp > chain[i].timestamp

Accounted(b) == \A i \in DOMAIN b.data : b.data[i].from = Me \/ b.data[i] \in heard

Init == chain = <<>> /\ heard = {} /\ running = TRUE

AddBlock ==
  /\ running /\ chain' # <<>>
  /\ LET b == chain'[Len(chain')]
     IN  chain' = Append(chain, b) /\ Own(b) /\ Follows(b) /\ Accounted(b)
  /\ UNCHANGED <<heard, running>>

(* The process may end over the message that it hears.                     *)
Hear == /\ running /\ running' \in BOOLEAN
        /\ heard \subseteq heard'
        /\ UNCHANGED chain

Stop == running /\ running' = FALSE /\ UNCHANGED <<chain, heard>>

Next == AddBlock \/ Hear \/ Stop

Spec == Init /\ [][Next]_vars
=============================================================================
