----------------------------- MODULE MCTempFile -----------------------------
(* TempFile at the size TLC explores: the server and the miner of one node *)
(* and a thread of another node that was started in the same directory.   *)
EXTENDS TempFile

TwoProcesses == [server |-> 1, miner |-> 1, neighbour |-> 2]
OneSolver    == {"miner"}
ThreeCallers == DOMAIN TwoProcesses
OneText      == {<<"a", "b", "a">>}
TwoNonces    == {<<"c">>, <<"b", "c">>}
Winners      == {<<"b", "c">>, <<"c", "b", "a">>}
=============================================================================
