--------------------------- MODULE TempFileProofs ---------------------------
(***************************************************************************)
(* What TempFile promises for any number of callers, any strings and any   *)
(* length of the read: an undisturbed call hashes its own string (so the   *)
(* module implements HashOracle), a nonce that powSolver accepts in such a *)
(* call solves the puzzle, and nothing is hashed that no one wrote.        *)
(***************************************************************************)
EXTENDS TempFile, SequenceTheorems, TLAPS

Strings == Texts \cup Nonces

(* Every character stands where one of the strings has it.                 *)
FromStrings(s) == \A i \in DOMAIN s : \E t \in Strings : i \in DOMAIN t /\ t[i] = s[i]

(* No other call is open while an undisturbed one is.                      *)
Exclusive ==
  \A c, d \in Callers : alone[c] /\ Busy(c) /\ Busy(d) => c = d

(* What an undisturbed call finds in the file at each of its steps.        *)
Undisturbed(c) ==
  /\ At(c, "write") => exists /\ file = <<>> /\ got[c] = <<>>
  /\ At(c, "reopen") => exists /\ file = text[c] /\ got[c] = <<>>
  /\ At(c, "read") => /\ exists /\ file = text[c]
                      /\ Len(got[c]) <= Len(text[c])
                      /\ \A i \in 1 .. Len(got[c]) : got[c][i] = text[c][i]
  /\ At(c, "done") => got[c] = text[c]

(* A call starts with nothing read, on one of the strings.                 *)
Fresh ==
  \A c \in Callers :
    /\ pc[c] \in {"idle", "draw", "open", "write", "reopen"} => got[c] = <<>>
    /\ pc[c] \notin {"idle", "draw"} => text[c] \in Strings

IInv == /\ TypeOK /\ Exclusive /\ Fresh
        /\ \A c \in Callers : alone[c] => Undisturbed(c)
        /\ FromStrings(file) /\ NothingInvented
        /\ SolutionsSolve

-----------------------------------------------------------------------------
(* The strings are sequences of characters.                                *)
LEMMA StringsType == Strings \subseteq Seq(Chars)
BY TempFileAssumption DEF Strings

(* Writing over an empty file leaves what was written; over any other, a   *)
(* string whose characters come from the two.                              *)
LEMMA OverwrittenProperties ==
  ASSUME NEW old \in Seq(Chars), NEW s \in Seq(Chars)
  PROVE  /\ Overwritten(old, s) \in Seq(Chars)
         /\ old = <<>> => Overwritten(old, s) = s
         /\ \A i \in DOMAIN Overwritten(old, s) :
              \/ i \in DOMAIN s /\ Overwritten(old, s)[i] = s[i]
              \/ i \in DOMAIN old /\ Overwritten(old, s)[i] = old[i]
<1> DEFINE rest == SubSeq(old, Len(s) + 1, Len(old))
<1>1. /\ Len(s) \in Nat /\ Len(old) \in Nat
      /\ DOMAIN s = 1 .. Len(s) /\ DOMAIN old = 1 .. Len(old)
  BY LenProperties
<1>2. \A i \in Len(s) + 1 .. Len(old) : old[i] \in Chars
  <2> SUFFICES ASSUME NEW i \in Len(s) + 1 .. Len(old) PROVE old[i] \in Chars
    OBVIOUS
  <2>1. i \in 1 .. Len(old)
    BY <1>1
  <2> QED BY <2>1, ElementOfSeq
<1>3. /\ rest \in Seq(Chars)
      /\ Len(rest) = IF Len(s) + 1 <= Len(old) THEN Len(old) - (Len(s) + 1) + 1 ELSE 0
      /\ \A i \in 1 .. Len(old) - (Len(s) + 1) + 1 : rest[i] = old[Len(s) + 1 + i - 1]
  <2>1. Len(s) + 1 \in Int /\ Len(old) \in Int
    BY <1>1
  <2> QED BY <1>2, <2>1, SubSeqProperties
<1> HIDE DEF rest
<1>4. /\ s \o rest \in Seq(Chars)
      /\ Len(s \o rest) = Len(s) + Len(rest)
      /\ \A i \in 1 .. Len(s) + Len(rest) :
           (s \o rest)[i] = IF i <= Len(s) THEN s[i] ELSE rest[i - Len(s)]
  BY <1>3, ConcatProperties
<1>5. DOMAIN (s \o rest) = 1 .. Len(s) + Len(rest)
  BY <1>4, LenProperties
<1>6. old = <<>> => s \o rest = s
  <2> SUFFICES ASSUME old = <<>> PROVE s \o rest = s
    OBVIOUS
  <2>1. Len(old) = 0
    OBVIOUS
  <2>2. rest = <<>>
    BY <1>1, <2>1, SubSeqEmpty DEF rest
  <2> QED BY <2>2, ConcatEmptySeq
<1>7. ASSUME NEW i \in DOMAIN (s \o rest)
      PROVE  \/ i \in DOMAIN s /\ (s \o rest)[i] = s[i]
             \/ i \in DOMAIN old /\ (s \o rest)[i] = old[i]
  <2>1. CASE i <= Len(s)
    BY <1>1, <1>4, <1>5, <2>1
  <2>2. CASE ~(i <= Len(s))
    <3> DEFINE ls == Len(s)
               lo == Len(old)
               lr == Len(rest)
    <3>0. /\ ls \in Nat /\ lo \in Nat /\ i \in 1 .. ls + lr /\ ~(i <= ls)
          /\ lr = IF ls + 1 <= lo THEN lo - (ls + 1) + 1 ELSE 0
      BY <1>1, <1>3, <1>5, <2>2
    <3> HIDE DEF ls, lo, lr
    <3>1a. i - ls \in 1 .. lo - (ls + 1) + 1 /\ i \in 1 .. lo
      BY <3>0
    <3>1. /\ i - Len(s) \in 1 .. Len(old) - (Len(s) + 1) + 1
          /\ i \in 1 .. Len(old)
      BY <3>1a DEF ls, lo
    <3>2. rest[i - Len(s)] = old[Len(s) + 1 + (i - Len(s)) - 1]
      BY <1>3, <3>1
    <3>3. Len(s) + 1 + (i - Len(s)) - 1 = i
      BY <1>1, <3>1
    <3> QED BY <1>1, <1>4, <1>5, <2>2, <3>1, <3>2, <3>3
  <2> QED BY <2>1, <2>2
<1> QED BY <1>4, <1>6, <1>7 DEF Overwritten, rest

(* What one read appends to what has been read: characters of the file,    *)
(* each at its own place; none only when the reader is at its end.         *)
LEMMA ChunkProperties ==
  ASSUME NEW f \in Seq(Chars), NEW g \in Seq(Chars)
  PROVE  /\ g \o Chunk(f, g) \in Seq(Chars)
         /\ \A i \in DOMAIN (g \o Chunk(f, g)) :
              \/ i \in DOMAIN g /\ (g \o Chunk(f, g))[i] = g[i]
              \/ i \in DOMAIN f /\ (g \o Chunk(f, g))[i] = f[i]
         /\ Len(g) <= Len(f) => Len(g \o Chunk(f, g)) <= Len(f)
         /\ \A i \in 1 .. Len(g) : (g \o Chunk(f, g))[i] = g[i]
         /\ Chunk(f, g) = <<>> => g \o Chunk(f, g) = g /\ Len(g) >= Len(f)
<1> DEFINE chunk == Chunk(f, g)
           last == Smaller(Len(g) + BUFLEN, Len(f))
<1>1. /\ Len(g) \in Nat /\ Len(f) \in Nat /\ BUFLEN \in Nat \ {0}
      /\ DOMAIN g = 1 .. Len(g) /\ DOMAIN f = 1 .. Len(f)
  BY LenProperties, TempFileAssumption
<1>2. last \in Nat /\ last <= Len(f) /\ (Len(g) < Len(f) => last > Len(g))
  BY <1>1 DEF Smaller
<1>2a. chunk = SubSeq(f, Len(g) + 1, last)
  BY DEF Chunk
<1> HIDE DEF last, chunk
<1>3. \A i \in Len(g) + 1 .. last : f[i] \in Chars
  <2> SUFFICES ASSUME NEW i \in Len(g) + 1 .. last PROVE f[i] \in Chars
    OBVIOUS
  <2>1. i \in 1 .. Len(f)
    BY <1>1, <1>2
  <2> QED BY <2>1, ElementOfSeq
<1>4. /\ chunk \in Seq(Chars)
      /\ Len(chunk) = IF Len(g) + 1 <= last THEN last - (Len(g) + 1) + 1 ELSE 0
      /\ \A i \in 1 .. last - (Len(g) + 1) + 1 : chunk[i] = f[Len(g) + 1 + i - 1]
  <2>1. Len(g) + 1 \in Int /\ last \in Int
    BY <1>1, <1>2
  <2> QED BY <1>3, <2>1, <1>2a, SubSeqProperties
<1>5. /\ g \o chunk \in Seq(Chars)
      /\ Len(g \o chunk) = Len(g) + Len(chunk)
      /\ \A i \in 1 .. Len(g) + Len(chunk) :
           (g \o chunk)[i] = IF i <= Len(g) THEN g[i] ELSE chunk[i - Len(g)]
  BY <1>4, ConcatProperties
<1>6. DOMAIN (g \o chunk) = 1 .. Len(g) + Len(chunk)
  BY <1>5, LenProperties
<1>7. ASSUME NEW i \in DOMAIN (g \o chunk)
      PROVE  \/ i \in DOMAIN g /\ (g \o chunk)[i] = g[i]
             \/ i \in DOMAIN f /\ (g \o chunk)[i] = f[i]
  <2>1. CASE i <= Len(g)
    BY <1>1, <1>5, <1>6, <2>1
  <2>2. CASE ~(i <= Len(g))
    <3>1. /\ i - Len(g) \in 1 .. last - (Len(g) + 1) + 1
          /\ i \in 1 .. Len(f)
      BY <1>1, <1>2, <1>4, <1>6, <2>2
    <3>2. chunk[i - Len(g)] = f[Len(g) + 1 + (i - Len(g)) - 1]
      BY <1>4, <3>1
    <3>3. Len(g) + 1 + (i - Len(g)) - 1 = i
      BY <1>1, <3>1
    <3> QED BY <1>1, <1>5, <1>6, <2>2, <3>1, <3>2, <3>3
  <2> QED BY <2>1, <2>2
<1>8. Len(g) <= Len(f) => Len(g \o chunk) <= Len(f)
  BY <1>1, <1>2, <1>4, <1>5
<1>9. \A i \in 1 .. Len(g) : (g \o chunk)[i] = g[i]
  BY <1>1, <1>4, <1>5, LenProperties
<1>10. Len(chunk) = 0 => Len(g) >= Len(f)
  <2> DEFINE lg == Len(g)
             lf == Len(f)
             lc == Len(chunk)
  <2>1. /\ lg \in Nat /\ lf \in Nat /\ last \in Nat /\ (lg < lf => last > lg)
        /\ lc = IF lg + 1 <= last THEN last - (lg + 1) + 1 ELSE 0
    BY <1>1, <1>2, <1>4
  <2> HIDE DEF lg, lf, lc
  <2>2. lc = 0 => lg >= lf
    BY <2>1
  <2> QED BY <2>2 DEF lg, lf, lc
<1>11. chunk = <<>> => g \o chunk = g /\ Len(g) >= Len(f)
  <2> SUFFICES ASSUME chunk = <<>> PROVE g \o chunk = g /\ Len(g) >= Len(f)
    OBVIOUS
  <2>1. Len(chunk) = 0
    BY EmptySeq
  <2>2. g \o chunk = g
    BY ConcatEmptySeq
  <2> QED BY <1>10, <2>1, <2>2
<1> QED BY <1>5, <1>7, <1>8, <1>9, <1>11 DEF chunk

-----------------------------------------------------------------------------
LEMMA InitIInv == Init => IInv
<1> SUFFICES ASSUME Init PROVE IInv
  OBVIOUS
<1> USE DEF Init
<1>1. TypeOK
  BY EmptySeq DEF TypeOK, NoNonce
<1>2. \A c \in Callers : ~alone[c] /\ pc[c] = "idle" /\ got[c] = <<>>
  OBVIOUS
<1>3. Exclusive /\ Fresh /\ (\A c \in Callers : alone[c] => Undisturbed(c))
  BY <1>2 DEF Exclusive, Fresh
<1>4. DOMAIN <<>> = {}
  OBVIOUS
<1>5. FromStrings(file) /\ NothingInvented
  BY <1>4 DEF FromStrings, NothingInvented
<1>6. SolutionsSolve
  BY DEF SolutionsSolve, NoNonce
<1> QED BY <1>1, <1>3, <1>5, <1>6 DEF IInv

LEMMA CallIInv ==
  ASSUME IInv, NEW c \in Callers, Call(c)
  PROVE  IInv'
<1> USE DEF IInv, Call, At, Goto, Runs, TypeOK, disk
<1>1. PICK s \in Strings : text' = [text EXCEPT ![c] = s]
  BY DEF Strings
<1>2. s \in Seq(Chars)
  BY StringsType
<1>3. TypeOK'
  BY <1>1, <1>2
<1>4. \A d \in Callers : alone'[d] => d = c /\ \A other \in Callers : ~Busy(other)
  OBVIOUS
<1>5. \A d \in Callers : d # c => (Busy(d)' <=> Busy(d))
  BY DEF Busy
<1>6. Exclusive'
  BY <1>4, <1>5 DEF Exclusive
<1>7. Fresh'
  BY <1>1 DEF Fresh
<1>8. (\A d \in Callers : alone[d] => Undisturbed(d))'
  BY <1>4 DEF Undisturbed
<1>9. FromStrings(file)' /\ NothingInvented' /\ SolutionsSolve'
  BY DEF FromStrings, NothingInvented, SolutionsSolve
<1> QED BY <1>3, <1>6, <1>7, <1>8, <1>9

LEMMA OpenIInv ==
  ASSUME IInv, NEW c \in Callers, Open(c)
  PROVE  IInv'
<1> USE DEF IInv, Open, At, Goto, Runs, TypeOK, disk
<1>1. TypeOK'
  BY ZenonT(60), EmptySeq
<1>2. \A d \in Callers : (alone'[d] => alone[d]) /\ (Busy(d)' => Busy(d))
  BY DEF Busy
<1>3. Exclusive'
  BY <1>2 DEF Exclusive
<1>4. Fresh'
  BY DEF Fresh
<1>5. ASSUME NEW d \in Callers, alone'[d] PROVE Undisturbed(d)'
  <2>1. CASE d = c
    BY <1>5, <2>1 DEF Undisturbed, Fresh
  <2>2. CASE d # c
    <3>1. Busy(c) /\ ~Busy(d)
      BY <1>2, <1>5, <2>2 DEF Exclusive, Busy
    <3>2. pc'[d] = pc[d]
      BY <2>2
    <3> QED BY <1>2, <1>5, <2>2, <3>1, <3>2 DEF Undisturbed, Busy
  <2> QED BY <2>1, <2>2
<1>6. FromStrings(file)' /\ NothingInvented' /\ SolutionsSolve'
  <2>1. DOMAIN <<>> = {}
    OBVIOUS
  <2>2. FromStrings(file)'
    BY <2>1 DEF FromStrings
  <2> QED BY <2>2 DEF NothingInvented, SolutionsSolve
<1> QED BY <1>1, <1>3, <1>4, <1>5, <1>6

LEMMA WriteIInv ==
  ASSUME IInv, NEW c \in Callers, Write(c)
  PROVE  IInv'
<1> USE DEF IInv, Write, At, Goto, Runs, TypeOK, calls
<1>0. text[c] \in Seq(Chars) /\ text[c] \in Strings /\ file \in Seq(Chars)
  BY DEF Fresh
<1> DEFINE new == Overwritten(file, text[c])
<1>1. /\ new \in Seq(Chars)
      /\ file = <<>> => new = text[c]
      /\ \A i \in DOMAIN new : \/ i \in DOMAIN text[c] /\ new[i] = text[c][i]
                               \/ i \in DOMAIN file /\ new[i] = file[i]
  BY <1>0, OverwrittenProperties
<1> HIDE DEF new
<1>2. file' = new
  BY DEF new
<1>3. TypeOK'
  BY <1>1, <1>2
<1>4. \A d \in Callers : (alone'[d] => alone[d]) /\ (Busy(d)' => Busy(d))
  BY DEF Busy
<1>5. Exclusive'
  BY <1>4 DEF Exclusive
<1>6. Fresh'
  BY DEF Fresh
<1>7. ASSUME NEW d \in Callers, alone'[d] PROVE Undisturbed(d)'
  <2>1. CASE d = c
    BY <1>1, <1>2, <1>7, <2>1 DEF Undisturbed
  <2>2. CASE d # c
    <3>1. Busy(c) /\ ~Busy(d)
      BY <1>4, <1>7, <2>2 DEF Exclusive, Busy
    <3>2. pc'[d] = pc[d]
      BY <2>2
    <3> QED BY <1>4, <1>7, <2>2, <3>1, <3>2 DEF Undisturbed, Busy
  <2> QED BY <2>1, <2>2
<1>8. FromStrings(file)'
  BY <1>0, <1>1, <1>2 DEF FromStrings
<1>9. NothingInvented' /\ SolutionsSolve'
  BY DEF NothingInvented, SolutionsSolve
<1> QED BY <1>3, <1>5, <1>6, <1>7, <1>8, <1>9

LEMMA ReopenIInv ==
  ASSUME IInv, NEW c \in Callers, Reopen(c)
  PROVE  IInv'
<1> USE DEF IInv, Reopen, At, Goto, Runs, TypeOK, disk, calls
<1>1. TypeOK'
  OBVIOUS
<1>2. /\ \A d \in Callers : (alone'[d] => alone[d]) /\ (Busy(d)' => Busy(d))
      /\ \A d \in Callers : Runs(d)' => Runs(d)
  BY DEF Busy
<1>3. Exclusive'
  BY <1>2 DEF Exclusive
<1>4. Fresh'
  BY DEF Fresh
<1>5. ASSUME NEW d \in Callers, alone'[d] PROVE Undisturbed(d)'
  <2>1. CASE d = c
    <3>1. got[c] = <<>> /\ Len(got[c]) = 0 /\ Len(text[c]) \in Nat
      BY EmptySeq, LenProperties DEF Fresh
    <3> QED BY <1>5, <2>1, <3>1 DEF Undisturbed
  <2>2. CASE d # c
    <3>1. pc'[d] = pc[d]
      BY <2>2
    <3> QED BY <1>2, <1>5, <3>1 DEF Undisturbed
  <2> QED BY <2>1, <2>2
<1>6. FromStrings(file)' /\ NothingInvented' /\ SolutionsSolve'
  BY DEF FromStrings, NothingInvented, SolutionsSolve
<1> QED BY <1>1, <1>3, <1>4, <1>5, <1>6

LEMMA ReadIInv ==
  ASSUME IInv, NEW c \in Callers, Read(c)
  PROVE  IInv'
<1> DEFINE chunk == Chunk(file, got[c])
           new   == got[c] \o chunk
<1>0. got[c] \in Seq(Chars) /\ file \in Seq(Chars)
  BY DEF IInv, TypeOK
<1>1. /\ new \in Seq(Chars)
      /\ \A i \in DOMAIN new : \/ i \in DOMAIN got[c] /\ new[i] = got[c][i]
                               \/ i \in DOMAIN file /\ new[i] = file[i]
      /\ Len(got[c]) <= Len(file) => Len(new) <= Len(file)
      /\ chunk = <<>> => new = got[c] /\ Len(got[c]) >= Len(file)
  BY <1>0, ChunkProperties
<1>2. /\ got' = [got EXCEPT ![c] = new]
      /\ pc' = [pc EXCEPT ![c] = IF chunk = <<>> THEN "done" ELSE "read"]
      /\ At(c, "read")
      /\ UNCHANGED <<dead, exists, file, text, alone, nonce>>
  BY DEF Read, Goto, disk
<1> HIDE DEF chunk, new
<1> USE DEF IInv, At, Runs, TypeOK
<1>3. TypeOK'
  BY <1>1, <1>2
<1>4. \A d \in Callers : (alone'[d] => alone[d]) /\ (Busy(d)' => Busy(d))
  BY <1>2 DEF Busy
<1>5. Exclusive'
  BY <1>4 DEF Exclusive
<1>6. Fresh'
  BY <1>2 DEF Fresh
<1>7. ASSUME NEW d \in Callers, alone'[d] PROVE Undisturbed(d)'
  <2>1. CASE d = c
    <3>1. /\ file = text[c] /\ Len(got[c]) <= Len(text[c])
          /\ \A i \in 1 .. Len(got[c]) : got[c][i] = text[c][i]
          /\ exists
      BY <1>2, <1>7, <2>1 DEF Undisturbed
    <3>2. /\ Len(got[c]) \in Nat /\ Len(text[c]) \in Nat /\ Len(new) \in Nat
          /\ DOMAIN got[c] = 1 .. Len(got[c]) /\ DOMAIN new = 1 .. Len(new)
      BY <1>1, LenProperties
    <3>3. CASE chunk = <<>>
      <4>1. new = got[c] /\ Len(got[c]) = Len(text[c])
        BY <1>1, <3>1, <3>2, <3>3
      <4>2. got[c] \in Seq(Chars) /\ text[c] \in Seq(Chars)
        OBVIOUS
      <4>3. got[c] = text[c]
        BY <3>1, <4>1, <4>2, SeqEqual
      <4> QED BY <1>2, <2>1, <3>3, <4>1, <4>3 DEF Undisturbed
    <3>4. CASE chunk # <<>>
      <4>1. \A i \in 1 .. Len(new) : new[i] = text[c][i]
        BY <1>1, <3>1, <3>2
      <4>2. Len(new) <= Len(text[c])
        BY <1>1, <3>1
      <4> QED BY <1>2, <2>1, <3>1, <3>4, <4>1, <4>2 DEF Undisturbed
    <3> QED BY <3>3, <3>4
  <2>2. CASE d # c
    <3>1. pc'[d] = pc[d] /\ got'[d] = got[d]
      BY <1>2, <2>2
    <3> QED BY <1>2, <1>7, <3>1 DEF Undisturbed
  <2> QED BY <2>1, <2>2
<1>8. NothingInvented'
  <2>1. \A i \in DOMAIN new : \E t \in Strings : i \in DOMAIN t /\ t[i] = new[i]
    BY <1>1, <1>2 DEF FromStrings, NothingInvented, Strings
  <2> QED BY <1>2, <2>1 DEF NothingInvented, Strings
<1>9. FromStrings(file)' /\ SolutionsSolve'
  BY <1>2 DEF FromStrings, SolutionsSolve
<1> QED BY <1>3, <1>5, <1>6, <1>7, <1>8, <1>9

(* The step by which a caller takes its result.                            *)
LEMMA LeaveIInv ==
  ASSUME IInv, NEW c \in Callers, At(c, "done"), NEW step \in {"idle", "draw"},
         Leave(c, step), UNCHANGED <<dead, disk>>,
         SolutionsSolve', nonce' \in [Solvers -> [text : Seq(Chars), alone : BOOLEAN]]
  PROVE  IInv'
<1> USE DEF IInv, Leave, At, Goto, Runs, TypeOK, disk
<1>1. TypeOK'
  BY EmptySeq
<1>2. \A d \in Callers : (alone'[d] => alone[d] /\ d # c) /\ (Busy(d)' => Busy(d))
  BY DEF Busy
<1>3. Exclusive'
  BY <1>2 DEF Exclusive
<1>4. Fresh'
  BY DEF Fresh
<1>5. ASSUME NEW d \in Callers, alone'[d] PROVE Undisturbed(d)'
  <2>1. d # c /\ alone[d]
    BY <1>2, <1>5
  <2>2. pc'[d] = pc[d] /\ got'[d] = got[d] /\ text'[d] = text[d]
    BY <2>1
  <2> QED BY <2>1, <2>2 DEF Undisturbed
<1>6. FromStrings(file)' /\ NothingInvented'
  <2>1. DOMAIN <<>> = {}
    OBVIOUS
  <2> QED BY <2>1 DEF FromStrings, NothingInvented
<1> QED BY <1>1, <1>3, <1>4, <1>5, <1>6

LEMMA JudgeIInv ==
  ASSUME IInv, NEW c \in Callers, Judge(c)
  PROVE  IInv'
<1> USE DEF Judge
<1>1. CASE got[c] \notin Wins /\ Leave(c, "draw") /\ UNCHANGED nonce
  <2>1. SolutionsSolve' /\ nonce' \in [Solvers -> [text : Seq(Chars), alone : BOOLEAN]]
    BY <1>1 DEF IInv, SolutionsSolve, TypeOK
  <2> QED BY <1>1, <2>1, LeaveIInv
<1>2. CASE /\ got[c] \in Wins /\ Leave(c, "idle")
           /\ nonce' = [nonce EXCEPT ![c] = [text |-> text[c], alone |-> alone[c]]]
  <2>1. text[c] \in Seq(Chars) /\ alone[c] \in BOOLEAN
    BY DEF IInv, TypeOK
  <2>2. nonce' \in [Solvers -> [text : Seq(Chars), alone : BOOLEAN]]
    BY <1>2, <2>1 DEF IInv, TypeOK
  <2>3. alone[c] => text[c] \in Wins
    BY <1>2 DEF IInv, Undisturbed
  <2>4. SolutionsSolve'
    BY <1>2, <2>1, <2>3 DEF IInv, SolutionsSolve, TypeOK
  <2> QED BY <1>2, <2>2, <2>4, LeaveIInv
<1> QED BY <1>1, <1>2

LEMMA NextIInv == IInv /\ [Next]_vars => IInv'
<1> SUFFICES ASSUME IInv, [Next]_vars PROVE IInv'
  OBVIOUS
<1>1. ASSUME NEW c \in Callers, Call(c) PROVE IInv'
  BY <1>1, CallIInv
<1>2. ASSUME NEW c \in Callers, Inside(c) PROVE IInv'
  BY <1>2, OpenIInv, WriteIInv, ReopenIInv, ReadIInv DEF Inside
<1>3. ASSUME NEW c \in Callers, Return(c) PROVE IInv'
  <2>1. SolutionsSolve' /\ nonce' \in [Solvers -> [text : Seq(Chars), alone : BOOLEAN]]
    BY <1>3 DEF IInv, SolutionsSolve, TypeOK, Return
  <2> QED BY <1>3, <2>1, LeaveIInv DEF Return
<1>4. ASSUME NEW c \in Callers, Judge(c) PROVE IInv'
  BY <1>4, JudgeIInv
<1>5. CASE UNCHANGED vars
  BY <1>5 DEF vars, disk, calls, IInv, TypeOK, Exclusive, Busy, Runs, Fresh, Undisturbed, At,
              FromStrings, NothingInvented, SolutionsSolve
<1> QED BY <1>1, <1>2, <1>3, <1>4, <1>5 DEF Next

LEMMA SpecIInv == Spec => []IInv
BY InitIInv, NextIInv, PTL DEF Spec

(* Every variable keeps its type, whoever overlaps whom.                   *)
THEOREM TempFileTypeCorrect == Spec => []TypeOK
<1>1. IInv => TypeOK
  BY DEF IInv
<1> QED BY <1>1, SpecIInv, PTL

(* Nothing is hashed that no one wrote: a mixture of the strings at worst. *)
THEOREM HashesNothingInvented == Spec => []NothingInvented
<1>1. IInv => NothingInvented
  BY DEF IInv
<1> QED BY <1>1, SpecIInv, PTL

(* A nonce accepted in an undisturbed call solves the puzzle.              *)
THEOREM AcceptedNoncesSolve == Spec => []SolutionsSolve
<1>1. IInv => SolutionsSolve
  BY DEF IInv
<1> QED BY <1>1, SpecIInv, PTL

-----------------------------------------------------------------------------
(* The refinement of HashOracle, action by action.                         *)

LEMMA StatusBusy ==
  ASSUME TypeOK, NEW d \in Callers
  PROVE  Oracle!Busy(d) <=> Busy(d)
BY DEF TypeOK, Oracle!Busy, Busy, Runs

LEMMA InitOracle == Init => Oracle!Init
BY DEF Init, Oracle!Init, Runs, At

LEMMA CallOracle ==
  ASSUME IInv, NEW c \in Callers, Call(c)
  PROVE  Oracle!Ask(c)
<1> USE DEF IInv, Call, At, Goto, Runs, TypeOK, disk
<1>1. PICK s \in Strings : text' = [text EXCEPT ![c] = s]
  BY DEF Strings
<1>2. text'[c] \in Seq(Chars) /\ text' = [text EXCEPT ![c] = text'[c]]
  BY <1>1, StringsType
<1>3. \A d \in Callers : Oracle!Busy(d) <=> Busy(d)
  BY StatusBusy
<1> QED BY <1>2, <1>3 DEF Oracle!Ask

LEMMA OpenOracle ==
  ASSUME IInv, NEW c \in Callers, Open(c)
  PROVE  Oracle!Spoil(c) \/ UNCHANGED Oracle!vars
BY DEF IInv, Open, At, Goto, Runs, TypeOK, disk, Oracle!Spoil, Oracle!Busy, Oracle!vars

LEMMA WriteOracle ==
  ASSUME IInv, NEW c \in Callers, Write(c)
  PROVE  UNCHANGED Oracle!vars
BY DEF IInv, Write, At, Goto, Runs, TypeOK, calls, Oracle!vars

LEMMA ReopenOracle ==
  ASSUME IInv, NEW c \in Callers, Reopen(c)
  PROVE  Oracle!Exit(c) \/ UNCHANGED Oracle!vars
<1> USE DEF IInv, Reopen, At, Goto, Runs, TypeOK, disk, calls
<1>1. CASE exists /\ Goto(c, "read") /\ UNCHANGED dead
  BY <1>1 DEF Oracle!vars
<1>2. CASE dead' = dead \cup {home[c]} /\ UNCHANGED pc
  <2> DEFINE gone == {d \in Callers : home[d] \in dead'}
  <2>1. gone \in SUBSET Callers /\ c \in gone
    BY <1>2
  <2> QED BY <1>2, <2>1 DEF Oracle!Exit, Oracle!Busy
<1> QED BY <1>1, <1>2

LEMMA ReadOracle ==
  ASSUME IInv, NEW c \in Callers, Read(c)
  PROVE  Oracle!Answer(c) \/ UNCHANGED Oracle!vars
<1> DEFINE chunk == Chunk(file, got[c])
           new   == got[c] \o chunk
<1>1. /\ got' = [got EXCEPT ![c] = new]
      /\ pc' = [pc EXCEPT ![c] = IF chunk = <<>> THEN "done" ELSE "read"]
      /\ At(c, "read")
      /\ UNCHANGED <<dead, exists, file, text, alone, nonce>>
  BY DEF Read, Goto, disk
<1>2. IInv'
  BY ReadIInv
<1> HIDE DEF chunk, new
<1> USE DEF IInv, At, Runs, TypeOK
<1>3. CASE chunk = <<>>
  <2>1. got'[c] \in Seq(Chars) /\ At(c, "done")'
    BY <1>1, <1>2, <1>3
  <2>2. alone[c] => got'[c] = text[c]
    BY <1>1, <1>2, <2>1 DEF Undisturbed
  <2> QED BY <1>1, <1>3, <2>1, <2>2 DEF Oracle!Answer, Oracle!Busy
<1>4. CASE chunk # <<>>
  BY <1>1, <1>4 DEF Oracle!vars
<1> QED BY <1>3, <1>4

LEMMA LeaveOracle ==
  ASSUME IInv, NEW c \in Callers, At(c, "done"), NEW step \in {"idle", "draw"},
         Leave(c, step), UNCHANGED dead
  PROVE  Oracle!Take(c)
BY DEF IInv, Leave, At, Goto, Runs, TypeOK, Oracle!Take

(* Every behaviour of the calls through the file is one the oracle allows: *)
(* an undisturbed call returns the hash of its own string.                 *)
THEOREM ImplementsOracle == Spec => HashesWhatItWasGiven
<1>1. IInv /\ [Next]_vars => [Oracle!Next]_(Oracle!vars)
  <2> SUFFICES ASSUME IInv, [Next]_vars PROVE Oracle!Next \/ UNCHANGED Oracle!vars
    OBVIOUS
  <2>1. ASSUME NEW c \in Callers, Call(c) PROVE Oracle!Next
    BY <2>1, CallOracle DEF Oracle!Next
  <2>2. ASSUME NEW c \in Callers, Inside(c) PROVE Oracle!Next \/ UNCHANGED Oracle!vars
    BY <2>2, OpenOracle, WriteOracle, ReopenOracle, ReadOracle DEF Inside, Oracle!Next
  <2>3. ASSUME NEW c \in Callers, Return(c) PROVE Oracle!Next
    BY <2>3, LeaveOracle DEF Return, Oracle!Next
  <2>4. ASSUME NEW c \in Callers, Judge(c) PROVE Oracle!Next
    BY <2>4, LeaveOracle DEF Judge, Oracle!Next
  <2>5. CASE UNCHANGED vars
    BY <2>5 DEF vars, disk, calls, Oracle!vars, Runs, At
  <2> QED BY <2>1, <2>2, <2>3, <2>4, <2>5 DEF Next
<1> QED BY <1>1, InitOracle, SpecIInv, PTL DEF Spec, Oracle!Spec, HashesWhatItWasGiven
=============================================================================
