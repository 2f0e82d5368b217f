----------------------------- MODULE HashOracle -----------------------------
(***************************************************************************)
(* What sha512(const string&) promises its callers: a call returns, and    *)
(* one that was undisturbed from beginning to end returns the hash of the  *)
(* string it was given.  A call is disturbed when another one overlaps it, *)
(* or when its file cannot be opened; then the string whose hash comes     *)
(* back is anything.  A hash is named by the string it is the hash of.     *)
(***************************************************************************)
EXTENDS Sequences

CONSTANTS Callers,   \* the threads, of all processes in one directory
          Chars      \* what a string is made of

VARIABLES status, asked, trusted, answer
vars == <<status, asked, trusted, answer>>

Busy(c) == status[c] = "asked"

Init == /\ status = [c \in Callers |-> "idle"]
        /\ asked = [c \in Callers |-> <<>>]
        /\ trusted = [c \in Callers |-> FALSE]
        /\ answer = [c \in Callers |-> <<>>]

Ask(c) ==
  /\ status[c] = "idle"
  /\ status' = [status EXCEPT ![c] = "asked"]
  /\ asked'[c] \in Seq(Chars) /\ asked' = [asked EXCEPT ![c] = asked'[c]]
  /\ trusted' = [d \in Callers |-> d = c /\ \A other \in Callers : ~Busy(other)]
  /\ UNCHANGED answer

Spoil(c) ==
  /\ Busy(c)
  /\ trusted' = [trusted EXCEPT ![c] = FALSE]
  /\ UNCHANGED <<status, asked, answer>>

Answer(c) ==
  /\ Busy(c)
  /\ status' = [status EXCEPT ![c] = "answered"]
  /\ answer'[c] \in Seq(Chars) /\ answer' = [answer EXCEPT ![c] = answer'[c]]
  /\ trusted[c] => answer'[c] = asked[c]
  /\ UNCHANGED <<asked, trusted>>

Take(c) ==
  /\ status[c] = "answered"
  /\ status' = [status EXCEPT ![c] = "idle"]
  /\ asked' = [asked EXCEPT ![c] = <<>>]
  /\ trusted' = [trusted EXCEPT ![c] = FALSE]
  /\ answer' = [answer EXCEPT ![c] = <<>>]

(* A call that finds no file ends its process and all threads of it.       *)
Exit(c) ==
  /\ Busy(c)
  /\ \E gone \in SUBSET Callers :
       /\ c \in gone
       /\ status' = [d \in Callers |-> IF d \in gone THEN "gone" ELSE status[d]]
       /\ answer' = [d \in Callers |-> IF d \in gone THEN <<>> ELSE answer[d]]
  /\ UNCHANGED <<asked, trusted>>

Next == \E c \in Callers : Ask(c) \/ Spoil(c) \/ Answer(c) \/ Take(c) \/ Exit(c)

Spec == Init /\ [][Next]_vars
=============================================================================
