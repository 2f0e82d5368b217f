------------------------------- MODULE MCNode -------------------------------
(* Node at the size TLC explores: this node on port 1, a peer on port 2.   *)
EXTENDS Wire

OnePeer  == {<<2>>}
AnyScan  == {<<>>, <<2>>}
Unsigned == {0, -1}

(* The hash of a file that another call has just truncated, in the two     *)
(* roles that a hash has.                                                  *)
EmptyFileHash == {<<[index |-> 0, merkleRoot |-> <<>>, timestamp |-> NoTime, pow |-> 0]>>}
EmptyFileRoot == {<<[DefaultTransaction(0) EXCEPT !.ID = 2]>>}
=============================================================================
