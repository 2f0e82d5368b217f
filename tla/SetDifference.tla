--------------------------- MODULE SetDifference ---------------------------
(***************************************************************************)
(* std::set_difference over two sequences of transactions, as removeFromPool*)
(* and sendBackToPool of the node use it: the comparison is operator< of   *)
(* Transaction, which orders by timestamp alone and throws on an empty     *)
(* timestamp, and nobody sorts the sequences.  The state of the loop after *)
(* k iterations is a function of k: both cursors, what has been copied,    *)
(* and whether a comparison has thrown.                                    *)
(***************************************************************************)
EXTENDS Block

(* operator< on timestamps; time_from_string throws on an empty one.       *)
Precedes(s, t) == s.timestamp < t.timestamp
Uncomparable(s, t) == s.timestamp = NoTime \/ t.timestamp = NoTime

(* The times by which a sequence is compared.                              *)
TimesOf(s) == {s[n].timestamp : n \in DOMAIN s}

Loop(a) == [i : Nat \ {0}, j : Nat \ {0}, kept : Seq({a[n] : n \in DOMAIN a}), thrown : BOOLEAN]

LoopStart == [i |-> 1, j |-> 1, kept |-> <<>>, thrown |-> FALSE]

LoopStep(a, b, l) ==
  IF l.thrown \/ l.i \notin DOMAIN a \/ l.j \notin DOMAIN b THEN l
  ELSE IF Uncomparable(a[l.i], b[l.j]) THEN [l EXCEPT !.thrown = TRUE]
  ELSE IF Precedes(a[l.i], b[l.j])
       THEN [l EXCEPT !.i = l.i + 1, !.kept = Append(l.kept, a[l.i])]
  ELSE IF Precedes(b[l.j], a[l.i]) THEN [l EXCEPT !.j = l.j + 1]
  ELSE [l EXCEPT !.i = l.i + 1, !.j = l.j + 1]

(* Every iteration moves a cursor, so this many of them are enough.        *)
LoopEnd(a, b) ==
  LET after[k \in 0 .. Len(a) + Len(b)] ==
        IF k = 0 THEN LoopStart ELSE LoopStep(a, b, after[k - 1])
  IN  after[Len(a) + Len(b)]

Throws(a, b) == LoopEnd(a, b).thrown

(* Mutants: what the loop copied is overwritten by the rest; the two       *)
(* ranges are swapped in the call.                                         *)
Difference_RestOnly(a, b) == SubSeq(a, LoopEnd(a, b).i, Len(a))
Difference_Swapped(a, b) ==
  LET l == LoopEnd(b, a) IN l.kept \o SubSeq(b, l.i, Len(b))

(* What was copied, then the rest of a once b is exhausted.                *)
Difference(a, b) ==
  LET l == LoopEnd(a, b) IN l.kept \o SubSeq(a, l.i, Len(a))
=============================================================================
