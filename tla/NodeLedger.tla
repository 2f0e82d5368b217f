----------------------------- MODULE NodeLedger -----------------------------
(***************************************************************************)
(* Node seen as a ledger, and the progress of its threads.                 *)
(***************************************************************************)
EXTENDS Node

(* What the node has heard of: the transactions of the messages it has     *)
(* recorded, as they came or as what decode left of them.                  *)
Heard == UNION {Decoded(inMsgs[i].m_t, EmptiedTransactions) :
                i \in {i \in DOMAIN inMsgs : inMsgs[i].head = "TRANSACTION"}}

Promise == INSTANCE Ledger WITH heard <- Heard

(* Four threads that write the chain and the pool without a lock, a clock  *)
(* that may be set back and peers that send anything implement the ledger. *)
KeepsLedger == Promise!Spec

-----------------------------------------------------------------------------
(* Where a thread waits: for its start, its sleep, a puzzle, a connection. *)
Waiting == {"idle", "sleep", "pow", "listen", "join"}

Work(th) ==
  /\ pc[th] \notin Waiting
  /\ \/ th = "main" /\ Main
     \/ th = "server" /\ Server
     \/ th = "txn" /\ Txn
     \/ th = "miner" /\ Miner
     \/ th \in Updaters /\ Bookkeep(th)
     \/ th \in Handlers /\ (Load(th) \/ Store(th) \/ PoolTx(th) \/ RecordTx(th))

(* The four threads share no lock: one that does not wait gets its turns.  *)
FairSpec == Spec /\ \A th \in Threads : WF_vars(Work(th))

(* No thread stays half-way in what it does: through every verdict, every  *)
(* exception and every early return it comes back to where it waits, or    *)
(* the process ends.                                                       *)
RoundsEnd == \A th \in Threads : (pc[th] \notin Waiting) ~> (pc[th] \in Waiting \/ ~running)
=============================================================================
