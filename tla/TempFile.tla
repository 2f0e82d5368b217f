------------------------------ MODULE TempFile ------------------------------
(***************************************************************************)
(* sha512(const string&): every call, of every thread and of every process *)
(* started in one directory, writes its string to the one tempfile.txt,    *)
(* opens the file again and hashes what it reads.  powSolver calls it in a *)
(* loop.  A hash is named by the string that went into it.                 *)
(***************************************************************************)
EXTENDS Integers, Sequences

CONSTANTS
  Callers,     \* the threads that call sha512
  Solvers,     \* those of them that run powSolver
  home,        \* the process of each caller
  Chars,       \* what a string is made of
  Texts,       \* the strings that are hashed: leaves, nodes and headers
  Nonces,      \* those that powSolver hashes
  Wins,        \* the strings whose hash is at most TARGET
  BUFLEN,      \* characters one read may return
  OpenFails    \* TRUE iff an open of the file can fail

ASSUME TempFileAssumption ==
  /\ Solvers \subseteq Callers
  /\ home \in [Callers -> {home[c] : c \in Callers}]
  /\ Texts \subseteq Seq(Chars) /\ Nonces \subseteq Seq(Chars) /\ Texts \cap Nonces = {}
  /\ Wins \subseteq Seq(Chars)
  /\ BUFLEN \in Nat \ {0}
  /\ OpenFails \in BOOLEAN

VARIABLES
  dead,        \* the processes that have ended
  exists,      \* the file exists
  file,        \* what is in it
  pc,          \* what each caller does next
  text,        \* the string it was given
  got,         \* what it has read so far
  alone,       \* history: nothing has disturbed its call
  nonce        \* powSolver: the last nonce accepted, and whether its call was alone

disk  == <<exists, file>>
calls == <<text, got, alone>>
vars == <<dead, disk, pc, calls, nonce>>

NoNonce == [text |-> <<>>, alone |-> FALSE]

Runs(c) == home[c] \notin dead
At(c, step) == Runs(c) /\ pc[c] = step
Goto(c, step) == pc' = [pc EXCEPT ![c] = step]

(* Callers between their call and its result.                              *)
Busy(c) == Runs(c) /\ pc[c] \in {"open", "write", "reopen", "read"}

Smaller(a, b) == IF a <= b THEN a ELSE b

(* Writing at the start of a file that another handle may have filled.     *)
Overwritten(old, s) == s \o SubSeq(old, Len(s) + 1, Len(old))

(* What one read returns of f when g has been read.                        *)
Chunk(f, g) == SubSeq(f, Len(g) + 1, Smaller(Len(g) + BUFLEN, Len(f)))

-----------------------------------------------------------------------------
(* Inside powSolver, that is at "draw", nothing but nonces is hashed.       *)
Call(c) ==
  /\ At(c, "idle") \/ At(c, "draw")
  /\ \E s \in (IF pc[c] = "idle" THEN Texts ELSE {}) \cup (IF c \in Solvers THEN Nonces ELSE {}) :
       text' = [text EXCEPT ![c] = s]
  /\ alone' = [d \in Callers |-> d = c /\ \A other \in Callers : ~Busy(other)]
  /\ Goto(c, "open")
  /\ UNCHANGED <<dead, disk, got, nonce>>

(* Mutant: the file keeps what it held.                                    *)
Open_Keeps(c) ==
  /\ At(c, "open")
  /\ \/ /\ exists' = TRUE /\ UNCHANGED file
        /\ Goto(c, "write") /\ UNCHANGED alone
     \/ /\ OpenFails
        /\ alone' = [alone EXCEPT ![c] = FALSE]
        /\ Goto(c, "reopen") /\ UNCHANGED disk
  /\ UNCHANGED <<dead, text, got, nonce>>

(* ofstream file(...): creates or truncates; if that fails, goes on.       *)
Open(c) ==
  /\ At(c, "open")
  /\ \/ /\ exists' = TRUE /\ file' = <<>>
        /\ Goto(c, "write") /\ UNCHANGED alone
     \/ /\ OpenFails
        /\ alone' = [alone EXCEPT ![c] = FALSE]
        /\ Goto(c, "reopen") /\ UNCHANGED disk
  /\ UNCHANGED <<dead, text, got, nonce>>

(* file << str stays in the buffer of the stream until close().            *)
Write(c) ==
  /\ At(c, "write")
  /\ file' = Overwritten(file, text[c])
  /\ Goto(c, "reopen")
  /\ UNCHANGED <<dead, exists, calls, nonce>>

(* Mutant: without a file the function tries again.                        *)
Reopen_Waits(c) ==
  /\ At(c, "reopen")
  /\ exists /\ Goto(c, "read") /\ UNCHANGED <<dead, disk, calls, nonce>>

(* fopen; without a file the process ends.                                 *)
Reopen(c) ==
  /\ At(c, "reopen")
  /\ \/ exists /\ Goto(c, "read") /\ UNCHANGED dead
     \/ /\ ~exists \/ OpenFails
        /\ dead' = dead \cup {home[c]} /\ UNCHANGED pc
  /\ UNCHANGED <<disk, calls, nonce>>

(* Mutant: the position in the file is not kept between two reads.         *)
Read_Again(c) ==
  /\ At(c, "read")
  /\ LET chunk == SubSeq(file, 1, Smaller(BUFLEN, Len(file)))
     IN  /\ got' = [got EXCEPT ![c] = @ \o chunk]
         /\ Goto(c, IF Len(got[c]) > 2 THEN "done" ELSE "read")
  /\ UNCHANGED <<dead, disk, text, alone, nonce>>

(* Mutant: the whole buffer is hashed, not what the read has returned.     *)
Read_WholeBuffer(c) ==
  /\ At(c, "read")
  /\ LET chunk == Chunk(file, got[c])
     IN  /\ got' = [got EXCEPT ![c] = @ \o chunk \o [i \in 1 .. BUFLEN - Len(chunk) |-> "?"]]
         /\ Goto(c, IF chunk = <<>> THEN "done" ELSE "read")
  /\ UNCHANGED <<dead, disk, text, alone, nonce>>

(* One turn of the read loop, which ends when nothing is left to read.     *)
Read(c) ==
  /\ At(c, "read")
  /\ LET chunk == Chunk(file, got[c])
     IN  /\ got' = [got EXCEPT ![c] = @ \o chunk]
         /\ Goto(c, IF chunk = <<>> THEN "done" ELSE "read")
  /\ UNCHANGED <<dead, disk, text, alone, nonce>>

(* The caller has its result; the locals of the call are gone.             *)
Leave(c, step) ==
  /\ Goto(c, step)
  /\ text' = [text EXCEPT ![c] = <<>>] /\ got' = [got EXCEPT ![c] = <<>>]
  /\ alone' = [alone EXCEPT ![c] = FALSE]

Return(c) ==
  /\ At(c, "done") /\ text[c] \notin Nonces
  /\ Leave(c, "idle")
  /\ UNCHANGED <<dead, disk, nonce>>

(* Mutant: hashes above the target are taken.                              *)
Judge_Above(c) ==
  /\ At(c, "done") /\ text[c] \in Nonces
  /\ \/ /\ got[c] \in Wins
        /\ Leave(c, "draw") /\ UNCHANGED nonce
     \/ /\ got[c] \notin Wins
        /\ nonce' = [nonce EXCEPT ![c] = [text |-> text[c], alone |-> alone[c]]]
        /\ Leave(c, "idle")
  /\ UNCHANGED <<dead, disk>>

(* powSolver: a hash above the target means another nonce.                 *)
Judge(c) ==
  /\ At(c, "done") /\ text[c] \in Nonces
  /\ \/ /\ got[c] \notin Wins
        /\ Leave(c, "draw") /\ UNCHANGED nonce
     \/ /\ got[c] \in Wins
        /\ nonce' = [nonce EXCEPT ![c] = [text |-> text[c], alone |-> alone[c]]]
        /\ Leave(c, "idle")
  /\ UNCHANGED <<dead, disk>>

-----------------------------------------------------------------------------
Init == /\ dead = {} /\ exists = FALSE /\ file = <<>>
        /\ pc = [c \in Callers |-> "idle"]
        /\ text = [c \in Callers |-> <<>>] /\ got = [c \in Callers |-> <<>>]
        /\ alone = [c \in Callers |-> FALSE]
        /\ nonce = [c \in Solvers |-> NoNonce]

Inside(c) == Open(c) \/ Write(c) \/ Reopen(c) \/ Read(c)
Next == \E c \in Callers : Call(c) \/ Inside(c) \/ Return(c) \/ Judge(c)

Spec == Init /\ [][Next]_vars

(* A thread inside the function is never blocked, so it gets its turns.    *)
FairSpec == Spec /\ \A c \in Callers : WF_vars(Inside(c))

-----------------------------------------------------------------------------
TypeOK ==
  /\ dead \subseteq {home[c] : c \in Callers}
  /\ exists \in BOOLEAN /\ file \in Seq(Chars)
  /\ pc \in [Callers -> {"idle", "draw", "open", "write", "reopen", "read", "done"}]
  /\ text \in [Callers -> Seq(Chars)] /\ got \in [Callers -> Seq(Chars)]
  /\ alone \in [Callers -> BOOLEAN]
  /\ nonce \in [Solvers -> [text : Seq(Chars), alone : BOOLEAN]]

(* The calls of sha512, seen from outside.                                 *)
Oracle == INSTANCE HashOracle WITH
  status  <- [c \in Callers |-> IF ~Runs(c) THEN "gone"
                                ELSE CASE pc[c] \in {"idle", "draw"} -> "idle"
                                       [] pc[c] = "done" -> "answered"
                                       [] OTHER          -> "asked"],
  asked   <- text,
  trusted <- alone,
  answer  <- [c \in Callers |-> IF At(c, "done") THEN got[c] ELSE <<>>]

(* sha512 returns the hash of the string it was given, as Utility.h says,  *)
(* as long as no other call overlaps and the file opens (HashesHold in     *)
(* Block); overlapped, it may return the hash of something else.           *)
HashesWhatItWasGiven == Oracle!Spec

(* However the calls overlap, nothing is hashed that no one wrote: every   *)
(* character that went into a hash stands where one of the strings has it, *)
(* whichever caller wrote it and whatever was truncated in between.        *)
NothingInvented ==
  \A c \in Callers : \A i \in DOMAIN got[c] :
    \E s \in Texts \cup Nonces : i \in DOMAIN s /\ s[i] = got[c][i]

(* A nonce that powSolver accepts solves the puzzle, unless another call   *)
(* overlapped the one that hashed it; then nobody finds out.               *)
SolutionsSolve ==
  \A c \in Solvers : nonce[c].alone => nonce[c].text \in Wins

(* Every call returns or ends its process, although other callers may      *)
(* write to the file that its loop is reading for ever.                    *)
EveryCallEnds ==
  \A c \in Callers : (pc[c] = "open") ~> (pc[c] = "done" \/ ~Runs(c))
=============================================================================
