----------------------------- MODULE MCNetwork ------------------------------
(* Network at the size TLC explores: two processes, one of them with two   *)
(* threads that broadcast, and two ports, of which one may be taken by     *)
(* another program: then the second process finds no port.                 *)
EXTENDS Network

CONSTANTS a, b

TwoProcesses == {a, b}
TwoThreads   == {"txn", "miner"}
Homes        == [txn |-> a, miner |-> a]
Payer        == {"txn"}
TwoPorts     == <<8080, 8081>>
=============================================================================
