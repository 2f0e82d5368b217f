----------------------------- MODULE WireProofs -----------------------------
(***************************************************************************)
(* Why Node may compute with leaves in place of a merkle root, and with    *)
(* messages in place of their texts: for every value of the constants.     *)
(***************************************************************************)
EXTENDS NodeProofs, Wire

-----------------------------------------------------------------------------
(* The tree of Merkle, over leaves of any kind.  A list is a sequence with *)
(* an element; the tree cannot tell a list from one whose end is doubled,  *)
(* and a list whose last element occurs once is not of that kind.          *)
IsList(s)     == s # <<>> /\ s \in Seq({s[i] : i \in DOMAIN s})
UniqueLast(s) == \A i \in 1 .. Len(s) - 1 : s[i] # s[Len(s)]

(* getHashedParents halves a list, rounding up.                            *)
LEMMA ParentsType ==
  ASSUME NEW s, IsList(s)
  PROVE  /\ IsList(getHashedParents(s))
         /\ Len(s) \in Nat \ {0} /\ Len(getHashedParents(s)) \in Nat \ {0}
         /\ 2 * Len(getHashedParents(s)) \in {Len(s), Len(s) + 1}
         /\ \A i \in 1 .. Len(getHashedParents(s)) :
              /\ 2*i - 1 \in 1 .. Len(s)
              /\ getHashedParents(s)[i] =
                   hashThem(s[2*i - 1], IF 2*i <= Len(s) THEN s[2*i] ELSE s[2*i - 1])
<1> DEFINE p == getHashedParents(s)
           half == (Len(s) + 1) \div 2
           pair(i) == hashThem(s[2*i - 1], IF 2*i <= Len(s) THEN s[2*i] ELSE s[2*i - 1])
<1>1. Len(s) \in Nat \ {0}
  BY DEF IsList
<1>2. half \in Nat \ {0} /\ 2 * half \in {Len(s), Len(s) + 1}
  <2>1. ASSUME NEW n \in Nat \ {0}
        PROVE  (n + 1) \div 2 \in Nat \ {0} /\ 2 * ((n + 1) \div 2) \in {n, n + 1}
    OBVIOUS
  <2>2. QED
    BY <1>1, <2>1
<1>3. p = [i \in 1 .. half |-> pair(i)]
  BY DEF getHashedParents
<1> HIDE DEF half, pair
<1>4. p \in Seq({p[i] : i \in 1 .. half}) /\ Len(p) = half /\ DOMAIN p = 1 .. half
  <2> DEFINE R == {p[j] : j \in 1 .. half}
  <2> HIDE DEF p
  <2>1. p = [i \in 1 .. half |-> p[i]] /\ \A i \in 1 .. half : p[i] \in R
    BY <1>3
  <2> HIDE DEF R
  <2>2. p \in [1 .. half -> R]
    BY ONLY <2>1
  <2>3. p \in Seq(R) /\ Len(p) = half /\ DOMAIN p = 1 .. half
    BY ONLY <1>2, <2>2
  <2>4. QED
    BY <2>3 DEF R
<1>5. IsList(p)
  <2>1. p # <<>>
    BY <1>2, <1>4
  <2> HIDE DEF p
  <2>2. QED
    BY <1>4, <2>1 DEF IsList
<1>6. ASSUME NEW i \in 1 .. half
      PROVE  2*i - 1 \in 1 .. Len(s) /\ p[i] = pair(i)
  BY <1>1, <1>2, <1>3
<1>7. QED
  BY <1>1, <1>2, <1>4, <1>5, <1>6 DEF pair

(* A digest tells what it was computed from.                               *)
LEMMA HashTells ==
  ASSUME NEW a, NEW b, NEW c, NEW d, hashThem(a, b) = hashThem(c, d)
  PROVE  a = c /\ b = d
BY DEF hashThem

(* Two lists are equal when they are equal element by element.             *)
LEMMA SameList ==
  ASSUME NEW s, NEW t, IsList(s), IsList(t), Len(s) = Len(t),
         \A i \in 1 .. Len(s) : s[i] = t[i]
  PROVE  s = t
BY DEF IsList

(* One round up the tree tells two lists apart.                            *)
LEMMA ParentsTell ==
  ASSUME NEW s, NEW t, IsList(s), IsList(t), UniqueLast(s), UniqueLast(t),
         getHashedParents(s) = getHashedParents(t)
  PROVE  s = t
<1> DEFINE p == Len(getHashedParents(s))
           second(l, i) == IF 2*i <= Len(l) THEN l[2*i] ELSE l[2*i - 1]
<1>1. /\ Len(s) \in Nat \ {0} /\ Len(t) \in Nat \ {0} /\ p \in Nat \ {0}
      /\ 2*p \in {Len(s), Len(s) + 1} /\ 2*p \in {Len(t), Len(t) + 1}
  BY ParentsType
<1>2. ASSUME NEW i \in 1 .. p
      PROVE  s[2*i - 1] = t[2*i - 1] /\ second(s, i) = second(t, i)
  <2>1. hashThem(s[2*i - 1], second(s, i)) = hashThem(t[2*i - 1], second(t, i))
    BY ParentsType
  <2>2. QED
    BY <2>1, HashTells
<1>3. s[2*p - 1] = t[2*p - 1] /\ second(s, p) = second(t, p)
  BY <1>1, <1>2
<1> HIDE DEF p
<1>4. Len(s) = Len(t)
  <2>1. CASE Len(s) = 2*p - 1 /\ Len(t) = 2*p
    <3>1. t[2*p - 1] = t[2*p] /\ 2*p - 1 \in 1 .. Len(t) - 1
      BY <1>1, <1>3, <2>1
    <3>2. QED
      BY <2>1, <3>1 DEF UniqueLast
  <2>2. CASE Len(t) = 2*p - 1 /\ Len(s) = 2*p
    <3>1. s[2*p - 1] = s[2*p] /\ 2*p - 1 \in 1 .. Len(s) - 1
      BY <1>1, <1>3, <2>2
    <3>2. QED
      BY <2>2, <3>1 DEF UniqueLast
  <2>3. QED
    BY <1>1, <2>1, <2>2
<1>5. ASSUME NEW j \in 1 .. Len(s)
      PROVE  s[j] = t[j]
  <2>1. PICK i \in Nat : 2*i \in {j, j + 1}
    <3>1. (j + 1) \div 2 \in Nat /\ 2 * ((j + 1) \div 2) \in {j, j + 1}
      <4>1. j \in Nat
        BY <1>1
      <4>2. QED
        BY <4>1
    <3>2. QED
      BY <3>1
  <2>2. i \in 1 .. p
    BY <1>1, <2>1
  <2>3. s[2*i - 1] = t[2*i - 1] /\ second(s, i) = second(t, i)
    BY <1>2, <2>2
  <2>4. CASE j = 2*i
    BY <1>1, <1>4, <2>3, <2>4
  <2>5. CASE j = 2*i - 1
    BY <2>3, <2>5
  <2>6. QED
    BY <1>1, <2>1, <2>2, <2>4, <2>5
<1>6. QED
  BY <1>4, <1>5, SameList

(* The last digest of a round occurs once if the last element did.         *)
LEMMA ParentsUnique ==
  ASSUME NEW s, IsList(s), UniqueLast(s)
  PROVE  UniqueLast(getHashedParents(s))
<1> DEFINE p == Len(getHashedParents(s))
           second(i) == IF 2*i <= Len(s) THEN s[2*i] ELSE s[2*i - 1]
<1>1. /\ Len(s) \in Nat \ {0} /\ p \in Nat \ {0} /\ 2*p \in {Len(s), Len(s) + 1}
      /\ \A i \in 1 .. p : getHashedParents(s)[i] = hashThem(s[2*i - 1], second(i))
  BY ParentsType
<1>2. SUFFICES ASSUME NEW i \in 1 .. p - 1, getHashedParents(s)[i] = getHashedParents(s)[p]
               PROVE  FALSE
  BY DEF UniqueLast
<1>3. second(i) = second(p)
  <2>1. hashThem(s[2*i - 1], second(i)) = hashThem(s[2*p - 1], second(p))
    <3>1. i \in 1 .. p /\ p \in 1 .. p
      BY <1>1
    <3> HIDE DEF second, p
    <3>2. /\ getHashedParents(s)[i] = hashThem(s[2*i - 1], second(i))
          /\ getHashedParents(s)[p] = hashThem(s[2*p - 1], second(p))
      BY ONLY <1>1, <3>1
    <3>3. QED
      BY <1>2, <3>2
  <2>2. QED
    BY <2>1, HashTells
<1> HIDE DEF p
<1>4. i \in Nat /\ i >= 1 /\ i <= p - 1
  BY <1>1
<1>5. second(i) = s[2*i] /\ 2*i \in 1 .. Len(s) - 1
  BY <1>1, <1>4
<1>6. second(p) = s[Len(s)]
  <2>1. CASE Len(s) = 2*p
    BY <1>1, <2>1
  <2>2. CASE Len(s) = 2*p - 1
    BY <1>1, <2>2
  <2>3. QED
    BY <1>1, <2>1, <2>2
<1>7. QED
  BY <1>3, <1>5, <1>6 DEF UniqueLast

(* The loop of root: what is there after n iterations.                     *)
LEMMA RootRuns ==
  ASSUME NEW values, IsList(values)
  PROVE  \E current :
           /\ current[0] = getHashedParents(values)
           /\ \A n \in 1 .. Len(values) : current[n] = Round(current[n - 1])
           /\ root(values) = current[Len(values)][1]
<1> DEFINE N == Len(values)
           start == getHashedParents(values)
           Equation(g) == g = [n \in 0 .. N |-> IF n = 0 THEN start ELSE Round(g[n - 1])]
           Good(m, f) == /\ DOMAIN f = 0 .. m
                         /\ f[0] = start
                         /\ \A n \in 1 .. m : f[n] = Round(f[n - 1])
           Bad == {m \in 0 .. N : ~ \E f : Good(m, f)}
           current == CHOOSE g : Equation(g)
<1>1. N \in Nat
  BY ParentsType
<1> HIDE DEF N, start
<1>2. Bad = {}
  <2>1. SUFFICES ASSUME Bad # {} PROVE FALSE
    OBVIOUS
  <2>2. PICK m \in Bad : \A y \in Bad : m <= y
    <3>1. Bad \in SUBSET Nat
      BY <1>1
    <3>2. QED
      BY <2>1, <3>1, LeastElement
  <2>3. m \in 1 .. N
    <3>1. Good(0, [k \in 0 .. 0 |-> start])
      OBVIOUS
    <3>2. m # 0
      BY <3>1
    <3>3. QED
      BY <1>1, <3>2
  <2>4. m - 1 \in 0 .. N /\ m - 1 \notin Bad /\ m \in Nat
    BY <1>1, <2>2, <2>3
  <2>5. PICK f : Good(m - 1, f)
    BY <2>4
  <2> DEFINE g == [k \in 0 .. m |-> IF k = m THEN Round(f[m - 1]) ELSE f[k]]
  <2>6. Good(m, g)
    <3>1. DOMAIN g = 0 .. m /\ g[0] = start
      BY <2>3, <2>4, <2>5
    <3>2. ASSUME NEW n \in 1 .. m PROVE g[n] = Round(g[n - 1])
      <4>1. n \in 0 .. m /\ n - 1 \in 0 .. m - 1 /\ n - 1 \in 0 .. m /\ n - 1 # m
        BY <2>4
      <4>2. g[n - 1] = f[n - 1]
        BY <4>1
      <4>3. CASE n = m
        BY <4>1, <4>2, <4>3
      <4>4. CASE n # m
        <5>1. n \in 1 .. m - 1
          BY <2>4, <4>4
        <5>2. f[n] = Round(f[n - 1]) /\ g[n] = f[n]
          BY <2>5, <4>1, <4>4, <5>1
        <5>3. QED
          BY <4>2, <5>2
      <4>5. QED
        BY <4>3, <4>4
    <3> HIDE DEF g
    <3>3. QED
      BY <3>1, <3>2
  <2>7. QED
    BY <2>6
<1>3. PICK f : Good(N, f)
  <2>1. N \in 0 .. N /\ N \notin Bad
    BY <1>1, <1>2
  <2>2. QED
    BY <2>1
<1>4. Equation([n \in 0 .. N |-> f[n]])
  <2> DEFINE g == [n \in 0 .. N |-> f[n]]
  <2>1. \A n \in 0 .. N : g[n] = IF n = 0 THEN start ELSE Round(g[n - 1])
    <3>1. TAKE n \in 0 .. N
    <3>2. CASE n = 0
      BY <1>3, <3>2
    <3>3. CASE n # 0
      <4>1. n \in 1 .. N /\ n - 1 \in 0 .. N
        BY <1>1, <3>3
      <4>2. QED
        BY <1>3, <3>3, <4>1
    <3>4. QED
      BY <3>2, <3>3
  <2>2. g = [n \in 0 .. N |-> g[n]]
    OBVIOUS
  <2> HIDE DEF g
  <2>3. Equation(g)
    BY <2>1, <2>2
  <2>4. QED
    BY <2>3 DEF g
<1>5. Equation(current)
  <2> HIDE DEF Equation
  <2>1. QED
    BY <1>4
<1> HIDE DEF current
<1>6. current[0] = start /\ \A n \in 1 .. N : current[n] = Round(current[n - 1])
  BY <1>1, <1>5
<1>7. root(values) = current[N][1]
  BY DEF root, current, N, start
<1>8. QED
  BY <1>6, <1>7 DEF N, start

(* A climb from the leaves to the root: a round at each of h levels.       *)
Climbs(values, h, level) ==
  /\ h \in Nat \ {0}
  /\ level[0] = values
  /\ \A k \in 1 .. h : level[k] = getHashedParents(level[k - 1])
  /\ Len(level[h]) = 1 /\ level[h][1] = root(values)

(* root climbs: there are iterations enough to get to a single digest, and *)
(* none goes on from there.                                                *)
LEMMA RootClimbs ==
  ASSUME NEW values, IsList(values)
  PROVE  \E h, level : Climbs(values, h, level)
<1> DEFINE N == Len(values)
<1>1. PICK current :
        /\ current[0] = getHashedParents(values)
        /\ \A n \in 1 .. N : current[n] = Round(current[n - 1])
        /\ root(values) = current[N][1]
  BY RootRuns
<1>2. N \in Nat \ {0}
  BY ParentsType
<1> HIDE DEF N
<1> DEFINE Shrunk(n) == /\ IsList(current[n]) /\ Len(current[n]) \in Nat \ {0}
                        /\ Len(current[n]) = 1 \/ Len(current[n]) + n <= N
<1>3. \A n \in 0 .. N : Shrunk(n)
  <2> DEFINE Bad == {n \in 0 .. N : ~Shrunk(n)}
  <2>1. SUFFICES ASSUME Bad # {} PROVE FALSE
    OBVIOUS
  <2>2. PICK n \in Bad : \A y \in Bad : n <= y
    <3>1. Bad \in SUBSET Nat
      BY <1>2
    <3>2. QED
      BY <2>1, <3>1, LeastElement
  <2>3. n # 0
    <3>1. /\ IsList(getHashedParents(values)) /\ Len(getHashedParents(values)) \in Nat \ {0}
          /\ 2 * Len(getHashedParents(values)) \in {N, N + 1}
      BY ParentsType DEF N
    <3>2. Shrunk(0)
      BY <1>1, <1>2, <3>1
    <3>3. QED
      BY <3>2
  <2>4. n \in 1 .. N /\ n - 1 \in 0 .. N /\ ~(n <= n - 1)
    BY <1>2, <2>3
  <2>5. Shrunk(n - 1)
    BY <2>2, <2>4
  <2>6. current[n] = Round(current[n - 1])
    BY <1>1, <2>4
  <2>7. CASE Len(current[n - 1]) = 1
    BY <2>5, <2>6, <2>7 DEF Round
  <2>8. CASE Len(current[n - 1]) # 1
    <3>1. current[n] = getHashedParents(current[n - 1])
      BY <2>6, <2>8 DEF Round
    <3>2. /\ IsList(current[n]) /\ Len(current[n]) \in Nat \ {0}
          /\ 2 * Len(current[n]) \in {Len(current[n - 1]), Len(current[n - 1]) + 1}
      BY <2>5, <3>1, ParentsType
    <3>3. Len(current[n]) = 1 \/ Len(current[n]) + n <= N
      <4>1. ASSUME NEW before \in Nat, NEW after \in Nat, before # 0, before # 1, after # 0,
                   2 * after = before \/ 2 * after = before + 1
            PROVE  after <= before - 1
        BY ONLY <4>1
      <4>2. Len(current[n]) <= Len(current[n - 1]) - 1
        BY <2>5, <2>8, <3>2, <4>1
      <4>3. Len(current[n - 1]) + (n - 1) <= N
        BY <2>5, <2>8
      <4>4. QED
        BY <1>2, <2>4, <2>5, <3>2, <4>2, <4>3
    <3>4. QED
      BY <3>2, <3>3
  <2>9. QED
    BY <2>7, <2>8
<1> DEFINE Done == {n \in 0 .. N : Len(current[n]) = 1}
<1>4. N \in Done
  <2>1. N \in 0 .. N /\ Shrunk(N)
    BY <1>2, <1>3
  <2>2. QED
    BY <1>2, <2>1
<1>5. PICK first \in Done : \A n \in Done : first <= n
  <2>1. Done \in SUBSET Nat
    BY <1>2
  <2>2. QED
    BY <1>4, <2>1, LeastElement
<1>6. \A n \in first .. N : current[n] = current[first]
  <2> DEFINE Bad == {n \in first .. N : current[n] # current[first]}
  <2>1. SUFFICES ASSUME Bad # {} PROVE FALSE
    OBVIOUS
  <2>2. PICK n \in Bad : \A y \in Bad : n <= y
    <3>1. Bad \in SUBSET Nat
      BY <1>2, <1>5
    <3>2. QED
      BY <2>1, <3>1, LeastElement
  <2>3. n \in 1 .. N /\ n - 1 \in first .. N /\ ~(n <= n - 1)
    <3>1. n # first
      BY <2>2
    <3>2. QED
      BY <1>2, <1>5, <3>1
  <2>4. current[n - 1] = current[first]
    BY <2>2, <2>3
  <2>5. current[n] = current[n - 1]
    BY <1>1, <1>5, <2>3, <2>4 DEF Round
  <2>6. QED
    BY <2>4, <2>5
<1> DEFINE h == first + 1
           level == [k \in 0 .. h |-> IF k = 0 THEN values ELSE current[k - 1]]
<1>7. first \in Nat /\ first <= N /\ Len(current[first]) = 1
  BY <1>2, <1>5
<1>8. \A k \in 1 .. h : level[k] = getHashedParents(level[k - 1])
  <2>1. TAKE k \in 1 .. h
  <2>2. level[k] = current[k - 1]
    BY <1>7
  <2>3. CASE k = 1
    BY <1>1, <1>7, <2>2, <2>3
  <2>4. CASE k # 1
    <3>1. k - 1 \in 1 .. N /\ k - 2 \in 0 .. N /\ k - 2 < first /\ (k - 1) - 1 = k - 2
      BY <1>2, <1>7, <2>4
    <3>2. level[k - 1] = current[k - 2]
      <4>1. k - 1 \in 0 .. h /\ k - 1 # 0
        BY <1>7, <2>4
      <4>2. QED
        BY <3>1, <4>1
    <3>3. Len(current[k - 2]) # 1
      BY <1>5, <1>7, <3>1
    <3>4. current[k - 1] = Round(current[k - 2])
      BY <1>1, <3>1
    <3>5. QED
      BY <2>2, <3>2, <3>3, <3>4 DEF Round
  <2>5. QED
    BY <2>3, <2>4
<1>9. level[0] = values /\ level[h] = current[first]
  <2>1. 0 \in 0 .. h /\ h \in 0 .. h /\ h # 0 /\ h - 1 = first
    BY <1>7
  <2>2. QED
    BY <2>1
<1>10. root(values) = current[first][1]
  <2>1. N \in first .. N
    BY <1>2, <1>7
  <2>2. QED
    BY <1>1, <1>6, <2>1
<1>11. h \in Nat \ {0}
  BY <1>7
<1> HIDE DEF level, h
<1>12. Climbs(values, h, level)
  BY <1>7, <1>8, <1>9, <1>10, <1>11 DEF Climbs
<1>13. QED
  BY <1>12

(* Every level of the climb is a list whose last element occurs once.      *)
LEMMA LevelsUnique ==
  ASSUME NEW values, NEW h, NEW level, IsList(values), UniqueLast(values),
         Climbs(values, h, level)
  PROVE  \A k \in 0 .. h : IsList(level[k]) /\ UniqueLast(level[k])
<1> DEFINE Fine(k) == IsList(level[k]) /\ UniqueLast(level[k])
           Bad == {k \in 0 .. h : ~Fine(k)}
<1>1. SUFFICES ASSUME Bad # {} PROVE FALSE
  OBVIOUS
<1>2. h \in Nat
  BY DEF Climbs
<1>3. PICK k \in Bad : \A y \in Bad : k <= y
  <2>1. Bad \in SUBSET Nat
    BY <1>2
  <2>2. QED
    BY <1>1, <2>1, LeastElement
<1>4. k # 0
  BY <1>3 DEF Climbs
<1>5. k \in 1 .. h /\ k - 1 \in 0 .. h /\ ~(k <= k - 1)
  BY <1>2, <1>4
<1>6. Fine(k - 1)
  BY <1>3, <1>5
<1>7. level[k] = getHashedParents(level[k - 1])
  BY <1>5 DEF Climbs
<1>8. QED
  BY <1>6, <1>7, ParentsType, ParentsUnique

(* Two lists of leaves with one root are one list, here with the lower     *)
(* tree named first: going down from the root, the levels agree; and the   *)
(* leaves of a tree are no level of a higher one, which holds digests.     *)
LEMMA LowerRootTells ==
  ASSUME NEW s, NEW t, IsList(s), IsList(t), UniqueLast(s), UniqueLast(t),
         NEW i, NEW ls, NEW j, NEW lt, Climbs(s, i, ls), Climbs(t, j, lt), i <= j,
         \A a, b : s[1] # hashThem(a, b),
         root(s) = root(t)
  PROVE  s = t
<1>1. i \in Nat \ {0} /\ j \in Nat \ {0}
  BY DEF Climbs
<1>2. \A k \in 0 .. i : ls[i - k] = lt[j - k]
  <2> DEFINE Bad == {k \in 0 .. i : ls[i - k] # lt[j - k]}
  <2>1. SUFFICES ASSUME Bad # {} PROVE FALSE
    OBVIOUS
  <2>2. PICK k \in Bad : \A y \in Bad : k <= y
    <3>1. Bad \in SUBSET Nat
      BY <1>1
    <3>2. QED
      BY <2>1, <3>1, LeastElement
  <2>3. k # 0
    <3>1. IsList(ls[i]) /\ IsList(lt[j])
      BY <1>1, LevelsUnique
    <3>2. Len(ls[i]) = 1 /\ Len(lt[j]) = 1 /\ ls[i][1] = lt[j][1]
      BY DEF Climbs
    <3>3. ls[i] = lt[j]
      BY <3>1, <3>2, SameList
    <3>4. i - 0 = i /\ j - 0 = j
      BY <1>1
    <3>5. QED
      BY <2>2, <3>3, <3>4
  <2>4. k \in 1 .. i /\ k - 1 \in 0 .. i /\ ~(k <= k - 1)
    BY <1>1, <2>3
  <2>5. ls[i - (k - 1)] = lt[j - (k - 1)]
    BY <2>2, <2>4
  <2>6. /\ i - (k - 1) \in 1 .. i /\ (i - (k - 1)) - 1 = i - k /\ i - k \in 0 .. i
        /\ j - (k - 1) \in 1 .. j /\ (j - (k - 1)) - 1 = j - k /\ j - k \in 0 .. j
    BY <1>1, <2>4
  <2>7. getHashedParents(ls[i - k]) = getHashedParents(lt[j - k])
    BY <2>5, <2>6 DEF Climbs
  <2>8. ls[i - k] = lt[j - k]
    <3>1. /\ IsList(ls[i - k]) /\ UniqueLast(ls[i - k])
          /\ IsList(lt[j - k]) /\ UniqueLast(lt[j - k])
      BY <2>6, LevelsUnique
    <3>2. QED
      BY <2>7, <3>1, ParentsTell
  <2>9. QED
    BY <2>2, <2>8
<1>3. ls[0] = lt[j - i] /\ j - i \in 0 .. j
  <2>1. i \in 0 .. i /\ i - i = 0 /\ j - i \in 0 .. j
    BY <1>1
  <2>2. QED
    BY <1>2, <2>1
<1>4. j = i
  <2>1. SUFFICES ASSUME j # i PROVE FALSE
    OBVIOUS
  <2>2. j - i \in 1 .. j /\ (j - i) - 1 \in 0 .. j
    BY <1>1, <2>1
  <2>3. s = getHashedParents(lt[(j - i) - 1]) /\ IsList(lt[(j - i) - 1])
    BY <1>3, <2>2, LevelsUnique DEF Climbs
  <2>4. 1 \in 1 .. Len(getHashedParents(lt[(j - i) - 1]))
    BY <2>3, ParentsType
  <2>5. \E a, b : s[1] = hashThem(a, b)
    BY <2>3, <2>4, ParentsType
  <2>6. QED
    BY <2>5
<1>5. j - i = 0
  BY <1>1, <1>4
<1>6. QED
  BY <1>3, <1>5 DEF Climbs

(* No transaction is a digest.                                             *)
LEMMA LeafNoDigest ==
  ASSUME NEW t \in Transaction, NEW a, NEW b
  PROVE  t # hashThem(a, b)
<1>1. "left" \in DOMAIN [left |-> a, right |-> b] /\ "left" \notin DOMAIN t
  BY DEF Transaction
<1>2. QED
  BY <1>1 DEF hashThem

(* The root of Merkle commits to its leaves: two lists of transactions,    *)
(* each with a last one that occurs once, are the same if their roots are. *)
THEOREM RootTells ==
  ASSUME NEW s \in Seq(Transaction), NEW t \in Seq(Transaction), s # <<>>, t # <<>>,
         UniqueLast(s), UniqueLast(t), root(s) = root(t)
  PROVE  s = t
<1>1. ASSUME NEW l \in Seq(Transaction), l # <<>>
      PROVE  IsList(l) /\ \A a, b : l[1] # hashThem(a, b)
  <2>1. l \in Seq({l[i] : i \in DOMAIN l})
    <3>1. l = [i \in 1 .. Len(l) |-> l[i]] /\ Len(l) \in Nat /\ DOMAIN l = 1 .. Len(l)
      OBVIOUS
    <3>2. \A i \in 1 .. Len(l) : l[i] \in {l[k] : k \in DOMAIN l}
      BY <3>1
    <3> DEFINE R == {l[k] : k \in DOMAIN l}
    <3>3. l \in [1 .. Len(l) -> R]
      BY <3>1, <3>2
    <3> HIDE DEF R
    <3>4. l \in Seq(R)
      BY ONLY <3>1, <3>3
    <3>5. QED
      BY <3>4 DEF R
  <2>2. IsList(l) /\ Len(l) \in Nat \ {0}
    BY <1>1, <2>1, ParentsType DEF IsList
  <2>3. l[1] \in Transaction
    BY <2>2
  <2>4. QED
    BY <2>2, <2>3, LeafNoDigest
<1>2. IsList(s) /\ IsList(t) /\ (\A a, b : s[1] # hashThem(a, b)) /\ \A a, b : t[1] # hashThem(a, b)
  BY <1>1
<1>3. PICK i, ls : Climbs(s, i, ls)
  BY <1>2, RootClimbs
<1>4. PICK j, lt : Climbs(t, j, lt)
  BY <1>2, RootClimbs
<1>5. i <= j \/ j <= i
  BY <1>3, <1>4 DEF Climbs
<1>6. QED
  BY <1>2, <1>3, <1>4, <1>5, LowerRootTells

-----------------------------------------------------------------------------
(* The codec of Json.                                                      *)

(* A text parses to its document, and the first part of one to none.       *)
LEMMA ParseText ==
  /\ \A document : parse(Text(document)) = {document}
  /\ parse(FirstPart) = {}
<1>1. ASSUME NEW document PROVE parse(Text(document)) = {document}
  BY DEF parse, Text
<1>2. parse(FirstPart) = {}
  BY DEF parse, FirstPart
<1>3. QED
  BY <1>1, <1>2

(* A transaction comes back as it was written: a port fits into the 16     *)
(* bits it is read with.                                                   *)
LEMMA ReadTransaction ==
  ASSUME NEW t \in Transaction
  PROVE  read_t(TransactionObject(t)) = t
<1>1. ToPort(t.from) = t.from /\ ToPort(t.to) = t.to
  BY PortType DEF Transaction
<1>2. read_t(TransactionObject(t)) =
        [ID |-> t.ID, timestamp |-> t.timestamp, from |-> t.from, to |-> t.to, amount |-> t.amount]
  BY <1>1 DEF read_t, TransactionObject
<1>3. QED
  BY <1>2 DEF Transaction

(* A list of them, element by element.                                     *)
LEMMA ReadTransactions ==
  ASSUME NEW d \in Seq(Transaction)
  PROVE  read_tt([i \in DOMAIN d |-> TransactionObject(d[i])]) = d
<1>1. \A i \in DOMAIN d : d[i] \in Transaction
  OBVIOUS
<1>2. read_tt([i \in DOMAIN d |-> TransactionObject(d[i])])
        = [i \in DOMAIN d |-> read_t(TransactionObject(d[i]))]
  BY DEF read_tt
<1>3. [i \in DOMAIN d |-> read_t(TransactionObject(d[i]))] = [i \in DOMAIN d |-> d[i]]
  BY <1>1, ReadTransaction
<1>4. d = [i \in DOMAIN d |-> d[i]]
  OBVIOUS
<1>5. QED
  BY <1>2, <1>3, <1>4

(* A block comes back without its coinbase, or not at all.                 *)
LEMMA ReadBlock ==
  ASSUME NEW b \in Block
  PROVE  BlocksOf(BlockObject(b)) = read_b(b)
<1> DEFINE o == BlockObject(b)
           rebuilt(t) == [index |-> b.index, prevHash |-> b.prevHash, blockHash |-> b.blockHash,
                       merkleRoot |-> b.merkleRoot, timestamp |-> b.timestamp, pow |-> b.pow,
                       datum |-> t, data |-> b.data]
           casts == CastToCoinbase(b.datum)
<1>1. /\ o.index = b.index /\ o.prevHash = b.prevHash /\ o.blockHash = b.blockHash
      /\ o.merkleRoot = b.merkleRoot /\ o.timestamp = b.timestamp /\ o.pow = b.pow
      /\ o.datum = Text(TransactionObject(b.datum))
      /\ o.data = Text([i \in DOMAIN b.data |-> TransactionObject(b.data[i])])
  BY DEF BlockObject
<1>2. b.datum \in Transaction /\ b.data \in Seq(Transaction)
  BY DEF Block
<1>3. UNION {CastToCoinbase(read_t(datum)) : datum \in parse(o.datum)} = casts
  <2>1. parse(o.datum) = {TransactionObject(b.datum)}
    BY <1>1, ParseText
  <2>2. read_t(TransactionObject(b.datum)) = b.datum
    BY <1>2, ReadTransaction
  <2>3. QED
    BY <2>1, <2>2
<1>4. {read_tt(data) : data \in parse(o.data)} = {b.data}
  <2>1. parse(o.data) = {[i \in DOMAIN b.data |-> TransactionObject(b.data[i])]}
    BY <1>1, ParseText
  <2>2. QED
    BY <1>2, <2>1, ReadTransactions
<1> HIDE DEF o, casts
<1>5. BlocksOf(o) = {rebuilt(t) : t \in casts}
  <2>1. BlocksOf(o) = {[index |-> o.index, prevHash |-> o.prevHash, blockHash |-> o.blockHash,
                        merkleRoot |-> o.merkleRoot, timestamp |-> o.timestamp, pow |-> o.pow,
                        datum |-> t, data |-> tt] : t \in casts, tt \in {b.data}}
    BY <1>3, <1>4 DEF BlocksOf
  <2>2. QED
    BY <1>1, <2>1
<1>6. \A t : [b EXCEPT !.datum = t] = rebuilt(t)
  BY DEF Block
<1>7. read_b(b) = {rebuilt(t) : t \in casts}
  <2> HIDE DEF rebuilt
  <2>1. QED
    BY <1>6 DEF read_b, casts
<1>8. QED
  BY <1>5, <1>7 DEF o

(* So does each block of a chain, or the chain not at all.                 *)
LEMMA ReadChain ==
  ASSUME NEW c \in Seq(Block)
  PROVE  ChainsOf([i \in DOMAIN c |-> BlockObject(c[i])]) = read_bb(c)
<1> DEFINE N == Len(c)
           array == [i \in DOMAIN c |-> BlockObject(c[i])]
           casts == UNION {CastToCoinbase(c[i].datum) : i \in 1 .. N}
           every == UNION {BlocksOf(array[i]) : i \in DOMAIN array}
           with(f) == [i \in 1 .. N |-> [c[i] EXCEPT !.datum = f[i]]]
<1>1. DOMAIN array = 1 .. N /\ \A i \in 1 .. N : c[i] \in Block /\ BlocksOf(array[i]) = read_b(c[i])
  <2>1. DOMAIN c = 1 .. N /\ \A i \in 1 .. N : c[i] \in Block
    OBVIOUS
  <2>2. \A i \in 1 .. N : array[i] = BlockObject(c[i])
    BY <2>1
  <2>3. QED
    BY <2>1, <2>2, ReadBlock
<1>2. ChainsOf(array) = {bb \in [1 .. N -> every] : \A i \in 1 .. N : bb[i] \in read_b(c[i])}
  BY <1>1 DEF ChainsOf
<1>3. read_bb(c) = {with(f) : f \in {f \in [1 .. N -> casts] : \A i \in 1 .. N : f[i] \in CastToCoinbase(c[i].datum)}}
  BY DEF read_bb
<1>4. \A i \in 1 .. N : read_b(c[i]) \subseteq every
  BY <1>1
<1>5. \A i \in 1 .. N : CastToCoinbase(c[i].datum) \subseteq casts
  OBVIOUS
<1> HIDE DEF array, every, casts, N
<1>6. ASSUME NEW bb \in ChainsOf(array) PROVE bb \in read_bb(c)
  <2>1. bb \in [1 .. N -> every] /\ \A i \in 1 .. N : bb[i] \in read_b(c[i])
    BY <1>2
  <2> DEFINE f == [i \in 1 .. N |-> bb[i].datum]
  <2>2. ASSUME NEW i \in 1 .. N
        PROVE  f[i] \in CastToCoinbase(c[i].datum) /\ bb[i] = [c[i] EXCEPT !.datum = f[i]]
    <3>1. PICK t \in CastToCoinbase(c[i].datum) : bb[i] = [c[i] EXCEPT !.datum = t]
      BY <2>1 DEF read_b
    <3>2. bb[i].datum = t
      BY <1>1, <3>1 DEF Block
    <3>3. QED
      BY <3>1, <3>2
  <2>3. bb = with(f)
    <3>1. bb = [i \in 1 .. N |-> bb[i]]
      BY <2>1
    <3> HIDE DEF f
    <3>2. QED
      BY <2>2, <3>1
  <2>4. f \in [1 .. N -> casts]
    BY <1>5, <2>2
  <2> HIDE DEF f, with
  <2>5. QED
    BY <1>3, <2>2, <2>3, <2>4
<1>7. ASSUME NEW bb \in read_bb(c) PROVE bb \in ChainsOf(array)
  <2>1. PICK f \in [1 .. N -> casts] :
          bb = with(f) /\ \A i \in 1 .. N : f[i] \in CastToCoinbase(c[i].datum)
    BY <1>3
  <2>2. \A i \in 1 .. N : bb[i] \in read_b(c[i])
    BY <2>1 DEF read_b
  <2>3. bb \in [1 .. N -> every]
    <3>1. bb = [i \in 1 .. N |-> bb[i]]
      BY <2>1
    <3>2. QED
      BY <1>4, <2>2, <3>1
  <2>4. QED
    BY <1>2, <2>2, <2>3
<1>8. QED
  BY <1>6, <1>7 DEF array

(* A message that a constructor has made: nothing but its header and body. *)
Framed(m) ==
  m \in {EmptyMessage, TransactionMessage(m.m_t), BlockMessage(m.m_b), ChainMessage(m.m_bc)}

(* Json::read of what Json::write made of such a message returns what Node *)
(* takes it to return, for every message there can be.                     *)
THEOREM CodecAgrees ==
  ASSUME NEW m \in Message, Framed(m)
  PROVE  ReadBack(IF m = EmptyMessage THEN FirstPart ELSE write(m)) = read_message(m)
<1>0. \A S : UNION {MessagesOf(document) : document \in {S}} = MessagesOf(S)
  OBVIOUS
<1>1. CASE m = EmptyMessage
  <2>1. ReadBack(FirstPart) = {}
    BY ParseText DEF ReadBack
  <2>2. read_message(m) = {}
    BY <1>1, MessageTypes DEF read_message
  <2>3. QED
    BY <1>1, <2>1, <2>2
<1>2. ASSUME NEW t \in Transaction, m = TransactionMessage(t)
      PROVE  ReadBack(write(m)) = read_message(m) /\ m # EmptyMessage
  <2>1. m.head = "TRANSACTION" /\ m.m_t = t
    BY <1>2, MessageTypes DEF TransactionMessage, Message
  <2> DEFINE d == [header |-> "TRANSACTION", transaction |-> Text(TransactionObject(t))]
  <2>2. write(m) = Text(d)
    BY <2>1 DEF write
  <2>3. ReadBack(write(m)) = MessagesOf(d)
    BY <1>0, <2>2, ParseText DEF ReadBack
  <2>4. MessagesOf(d) = {TransactionMessage(read_t(o)) : o \in parse(Text(TransactionObject(t)))}
    BY DEF MessagesOf
  <2>5. MessagesOf(d) = {m}
    BY <1>2, <2>4, ParseText, ReadTransaction
  <2>6. read_message(m) = {m} /\ m # EmptyMessage
    BY <2>1, MessageTypes DEF read_message
  <2>7. QED
    BY <2>3, <2>5, <2>6
<1>3. ASSUME NEW b \in Block, m = BlockMessage(b)
      PROVE  ReadBack(write(m)) = read_message(m) /\ m # EmptyMessage
  <2>1. m.head = "BLOCK" /\ m.m_b = b /\ m \in Message
    BY <1>3, MessageTypes
  <2> DEFINE d == [header |-> "BLOCK", block |-> Text(BlockObject(b))]
  <2>2. write(m) = Text(d)
    BY <2>1 DEF write
  <2>3. ReadBack(write(m)) = MessagesOf(d)
    BY <1>0, <2>2, ParseText DEF ReadBack
  <2>4. MessagesOf(d) = {BlockMessage(r) : r \in UNION {BlocksOf(o) : o \in parse(Text(BlockObject(b)))}}
    BY DEF MessagesOf
  <2>5. UNION {BlocksOf(o) : o \in parse(Text(BlockObject(b)))} = read_b(b)
    BY ParseText, ReadBlock
  <2>6. read_message(m) = {[m EXCEPT !.m_b = r] : r \in read_b(b)}
    BY <2>1 DEF read_message
  <2>7. ASSUME NEW r PROVE [m EXCEPT !.m_b = r] = BlockMessage(r)
    BY <1>3, MessageTypes DEF BlockMessage, Message
  <2> HIDE DEF d
  <2>8. read_message(m) = {BlockMessage(r) : r \in read_b(b)}
    BY <2>6, <2>7
  <2>9. m # EmptyMessage
    BY <2>1, MessageTypes
  <2>10. QED
    BY <2>3, <2>4, <2>5, <2>8, <2>9
<1>4. ASSUME NEW c \in Seq(Block), m = ChainMessage(c)
      PROVE  ReadBack(write(m)) = read_message(m) /\ m # EmptyMessage
  <2>1. m.head = "BLOCKCHAIN" /\ m.m_bc = c /\ m \in Message
    BY <1>4, MessageTypes DEF ChainMessage, Message
  <2> DEFINE a == [i \in DOMAIN c |-> BlockObject(c[i])]
             d == [header |-> "BLOCKCHAIN", blockchain |-> Text(a)]
  <2>2. write(m) = Text(d)
    BY <2>1 DEF write
  <2>3. ReadBack(write(m)) = MessagesOf(d)
    BY <1>0, <2>2, ParseText DEF ReadBack
  <2>4. MessagesOf(d) = {ChainMessage(r) : r \in UNION {ChainsOf(o) : o \in parse(Text(a))}}
    BY DEF MessagesOf
  <2>5. UNION {ChainsOf(o) : o \in parse(Text(a))} = read_bb(c)
    BY ParseText, ReadChain
  <2>6. read_message(m) = {[m EXCEPT !.m_bc = r] : r \in read_bb(c)}
    BY <2>1 DEF read_message
  <2>7. ASSUME NEW r PROVE [m EXCEPT !.m_bc = r] = ChainMessage(r)
    BY <1>4, MessageTypes DEF ChainMessage, Message
  <2> HIDE DEF d
  <2>8. read_message(m) = {ChainMessage(r) : r \in read_bb(c)}
    BY <2>6, <2>7
  <2>9. m # EmptyMessage
    BY <2>1, MessageTypes
  <2>10. QED
    BY <2>3, <2>4, <2>5, <2>8, <2>9
<1>5. m.m_t \in Transaction /\ m.m_b \in Block /\ m.m_bc \in Seq(Block)
  BY DEF Message
<1>6. QED
  BY <1>1, <1>2, <1>3, <1>4, <1>5 DEF Framed

-----------------------------------------------------------------------------
(* Every message that the node holds has been made by a constructor.       *)
Enclosed == /\ Framed(buffer)
            /\ \A th \in Senders : \A i \in DOMAIN outgoing[th] : Framed(outgoing[th][i])

(* What the constructors make is framed.                                   *)
LEMMA FramedMessages ==
  /\ Framed(EmptyMessage)
  /\ \A t \in Transaction : Framed(TransactionMessage(t))
  /\ \A b \in Block : Framed(BlockMessage(b))
  /\ \A c \in Seq(Block) : Framed(ChainMessage(c))
BY MessageTypes DEF Framed

(* And so is what arrives.                                                 *)
LEMMA FramedReceived ==
  ASSUME TypeOK, Framed(buffer), NEW m \in Received
  PROVE  Framed(m)
<1>1. CASE m \in {EmptyMessage, buffer}
  BY <1>1, FramedMessages
<1>2. CASE m \in PeerMessages
  <2>1. PeerTransactions \subseteq Transaction /\ PeerGenesis \subseteq Block /\ PeerBases \subseteq Block
    BY PeerDataType
  <2>2. ASSUME NEW base \in PeerBases PROVE PeerMined(base) \subseteq Block
    BY PeerMinedType
  <2>3. CASE \E t \in PeerTransactions : m = TransactionMessage(t)
    BY <2>1, <2>3, FramedMessages
  <2>4. CASE \E b \in PeerGenesis \cup UNION {PeerMined(base) : base \in PeerBases} : m = BlockMessage(b)
    BY <2>1, <2>2, <2>4, FramedMessages
  <2>5. CASE m = ChainMessage(<<>>)
    <3>1. <<>> \in Seq(Block)
      OBVIOUS
    <3>2. QED
      BY <2>5, <3>1, FramedMessages
  <2>6. CASE \E base \in PeerBases : m = ChainMessage(<<base>>)
    <3>1. \A base \in PeerBases : <<base>> \in Seq(Block)
      BY <2>1
    <3>2. QED
      BY <2>6, <3>1, FramedMessages
  <2>7. CASE \E base \in PeerBases : \E b \in PeerMined(base) : m = ChainMessage(<<base, b>>)
    <3>1. \A base \in PeerBases : \A b \in PeerMined(base) : <<base, b>> \in Seq(Block)
      BY <2>1, <2>2
    <3>2. QED
      BY <2>7, <3>1, FramedMessages
  <2>8. QED
    BY <1>2, <2>3, <2>4, <2>5, <2>6, <2>7 DEF PeerMessages
<1>3. CASE \E p \in PeerMessages : m \in Spliced(p, buffer)
  <2>1. PICK p \in PeerMessages : m \in Spliced(p, buffer)
    BY <1>3
  <2>2. p \in Message /\ buffer \in Message
    BY PeerMessagesType DEF TypeOK
  <2>3. \/ \E t \in Transaction : m = TransactionMessage(t)
        \/ \E b \in Block : m = BlockMessage(b)
        \/ \E c \in Seq(Block) : m = ChainMessage(c)
    BY <2>1, <2>2, SplicedType
  <2>4. QED
    BY <2>3, FramedMessages
<1>4. QED
  BY <1>1, <1>2, <1>3 DEF Received

(* The steps that write the receive buffer and the messages to broadcast.  *)
LEMMA MailSteps ==
  ASSUME TypeOK, Next
  PROVE  /\ buffer' = buffer \/ (SReceive /\ buffer' \in Received)
         /\ \/ outgoing' = outgoing
            \/ \E th \in Senders : \/ outgoing' = [outgoing EXCEPT ![th] = <<>>]
                                   \/ ChainMsg(th)
                                   \/ th \in Updaters /\ BlockMsg(th)
            \/ outgoing' = [outgoing EXCEPT !["txn"] = <<TransactionMessage(tx["txn"])>>]
<1>0. {"main", "miner"} \subseteq Senders \cap Updaters
  BY DEF Senders, Updaters
<1>1. ASSUME NEW th \in Senders, ClearPortList(th) \/ FillPortList(th) \/ Record(th) \/ ChainMsg(th)
      PROVE  /\ buffer' = buffer
             /\ outgoing' = outgoing \/ outgoing' = [outgoing EXCEPT ![th] = <<>>] \/ ChainMsg(th)
  BY <1>1 DEF ClearPortList, FillPortList, Record, ChainMsg, mail
<1>2. ASSUME NEW th \in Handlers, Load(th) \/ Store(th) \/ PoolTx(th) \/ RecordTx(th)
      PROVE  /\ buffer' = buffer
             /\ \/ outgoing' = outgoing
                \/ outgoing' = [outgoing EXCEPT !["txn"] = <<TransactionMessage(tx["txn"])>>]
  BY <1>2 DEF Load, Store, PoolTx, RecordTx, mail
<1>3. ASSUME NEW th \in Updaters, UpdateChain(th)
      PROVE  buffer' = buffer /\ outgoing' = outgoing
  BY <1>3 DEF UpdateChain, TestEmpty, ValidatePlace, Place, Validate, Push, RemoveFromPool, Assign,
              SendBack, mail
<1>4. ASSUME NEW th \in Updaters, Bookkeep(th)
      PROVE  /\ buffer' = buffer
             /\ outgoing' = outgoing \/ (th \in Senders /\ BlockMsg(th))
  BY <1>0, <1>4 DEF Bookkeep, Candidate, Keep, Reset, mail
<1>5. CASE TSleep \/ TDraw \/ TAt \/ MGenesis
  BY <1>5 DEF TSleep, TDraw, TAt, MGenesis, mail
<1>6. CASE BMine \/ BTip \/ BTake \/ BEmpty \/ BAnnounce
  BY <1>0, <1>6 DEF BMine, BTip, BTake, BEmpty, BAnnounce, mail
<1>7. CASE SReceive
  BY <1>7 DEF SReceive, SUnreadable, SDecodeCrash, STransaction, SBlock, SChain
<1>8. CASE SChainTest \/ SChainLength \/ SChainRemove \/ SChainAssign \/ SChainBack \/ DataRace
  BY <1>8 DEF SChainTest, SChainLength, SChainRemove, SChainAssign, SChainBack, DataRace, mail
<1>9. QED
  BY <1>1, <1>2, <1>3, <1>4, <1>5, <1>6, <1>7, <1>8, NextCases

(* Every step keeps the messages framed.                                   *)
LEMMA StillEnclosed ==
  ASSUME TypeOK, Enclosed, Next
  PROVE  Enclosed'
<1> DEFINE Good(s) == \A i \in DOMAIN s : Framed(s[i])
<1>1. Framed(buffer')
  BY MailSteps, FramedReceived DEF Enclosed
<1>2. /\ outgoing \in [Senders -> Seq(Message)] /\ block \in [Updaters -> Block]
      /\ chain \in Seq(Block) /\ tx["txn"] \in Transaction
  BY DEF TypeOK, Handlers
<1>3. \A th \in Senders : Good(outgoing[th])
  BY DEF Enclosed
<1>4. Good(<<>>) /\ \A m : Framed(m) => Good(<<m>>)
  OBVIOUS
<1> HIDE DEF Good
<1>5. ASSUME NEW th \in Senders, NEW s, Good(s), outgoing' = [outgoing EXCEPT ![th] = s]
      PROVE  \A other \in Senders : Good(outgoing'[other])
  BY <1>2, <1>3, <1>5
<1>6. \A other \in Senders : Good(outgoing'[other])
  <2>1. CASE outgoing' = outgoing
    BY <1>3, <2>1
  <2>2. CASE \E th \in Senders : outgoing' = [outgoing EXCEPT ![th] = <<>>]
    BY <1>4, <1>5, <2>2
  <2>3. ASSUME NEW th \in Senders, ChainMsg(th)
        PROVE  \A other \in Senders : Good(outgoing'[other])
    <3> DEFINE m == ChainMessage(chain)
               s == outgoing[th]
    <3>1. Framed(m) /\ s \in Seq(Message) /\ m \in Message /\ Good(s)
      BY <1>2, <1>3, FramedMessages, MessageTypes
    <3>2. outgoing' = [outgoing EXCEPT ![th] = Append(s, m)]
      BY <2>3 DEF ChainMsg
    <3> HIDE DEF m, s
    <3>3. Good(Append(s, m))
      <4>1. ASSUME NEW i \in DOMAIN Append(s, m)
            PROVE  (i \in DOMAIN s /\ Append(s, m)[i] = s[i]) \/ Append(s, m)[i] = m
        BY <3>1, AppendProperties
      <4>2. QED
        BY <3>1, <4>1 DEF Good
    <3>4. QED
      BY <1>5, <3>2, <3>3
  <2>4. ASSUME NEW th \in Senders, th \in Updaters, BlockMsg(th)
        PROVE  \A other \in Senders : Good(outgoing'[other])
    <3>1. Framed(BlockMessage(block[th]))
      BY <1>2, <2>4, FramedMessages
    <3>2. QED
      BY <1>4, <1>5, <2>4, <3>1 DEF BlockMsg
  <2>5. CASE outgoing' = [outgoing EXCEPT !["txn"] = <<TransactionMessage(tx["txn"])>>]
    <3>1. Framed(TransactionMessage(tx["txn"])) /\ "txn" \in Senders
      BY <1>2, FramedMessages DEF Senders
    <3>2. QED
      BY <1>4, <1>5, <2>5, <3>1
  <2>6. QED
    BY <2>1, <2>2, <2>3, <2>4, <2>5, MailSteps
<1>7. QED
  BY <1>1, <1>6 DEF Enclosed, Good

(* Whatever a node sends or was sent, reading the text of it back gives    *)
(* what Node takes it to give: the codec and the model of it agree.        *)
THEOREM CodecAsModelled == Spec => []WireAgrees
<1>1. Init => TypeOK /\ Enclosed
  BY InitTypes, FramedMessages DEF Init, Enclosed
<1>2. TypeOK /\ Enclosed /\ [Next]_vars => (TypeOK /\ Enclosed)'
  <2>1. CASE UNCHANGED vars
    BY <2>1 DEF TypeOK, Enclosed, vars, account, ports, books, mail, ledger, updates, rounds
  <2>2. QED
    BY <2>1, StillEnclosed, NextTypes
<1>3. TypeOK /\ Enclosed => WireAgrees
  <2>1. SUFFICES ASSUME TypeOK, Enclosed, NEW m \in OnTheWire
                 PROVE  ReadBack(IF m = EmptyMessage THEN FirstPart ELSE write(m)) = read_message(m)
    BY DEF WireAgrees
  <2>2. m = buffer \/ \E th \in Senders : \E i \in DOMAIN outgoing[th] : m = outgoing[th][i]
    BY DEF OnTheWire
  <2>3. m \in Message /\ Framed(m)
    BY <2>1, <2>2 DEF TypeOK, Enclosed
  <2>4. QED
    BY <2>3, CodecAgrees
<1>4. QED
  BY <1>1, <1>2, <1>3, PTL DEF Spec

-----------------------------------------------------------------------------
(* A payment has a time and somebody pays it; what decode has destroyed    *)
(* has no time.  The coinbase of a mined block has a time and comes from   *)
(* nobody; that of a genesis block, and of one that has been read, has no  *)
(* time.  A block of this node may hold a transaction without a time, but  *)
(* its coinbase has one; a received block may have lost its coinbase, but  *)
(* its transactions are payments.  So the last leaf of a tree is of        *)
(* another kind than the leaves before it.                                 *)
Paid(t)    == t.timestamp # NoTime /\ t.from # 0
Pooled(t)  == t.timestamp = NoTime \/ t.from # 0
AllPaid(s) == \A i \in DOMAIN s : Paid(s[i])

Apart(s, e) == \/ AllPaid(s) /\ e.timestamp = NoTime
               \/ (\A i \in DOMAIN s : Pooled(s[i])) /\ ~Pooled(e)

Leafed(b) == Apart(b.data, b.datum)
Rooted(b) == b.merkleRoot # <<>> =>
               \E s \in Seq(Transaction), e \in Transaction : Apart(s, e) /\ b.merkleRoot = Append(s, e)
Plain(b)  == AllPaid(b.data) /\ ~Paid(b.datum) /\ Rooted(b)

PaidMail == /\ buffer.head = "TRANSACTION" => Paid(buffer.m_t)
            /\ \A i \in DOMAIN inMsgs : inMsgs[i].head = "TRANSACTION" => Paid(inMsgs[i].m_t)
Held     == Plain(block["main"]) /\ Plain(block["server"]) /\ Plain(buffer.m_b) /\ Rooted(block["miner"])
Stored   == /\ \A i \in DOMAIN chain : Leafed(chain[i]) /\ Rooted(chain[i])
            /\ \A i \in DOMAIN blocks : Leafed(blocks[i]) /\ Rooted(blocks[i])

Distinct == PaidMail /\ Held /\ Stored

(* A plain block has its coinbase for a last leaf that is of another kind. *)
LEMMA PlainLeafed ==
  ASSUME NEW b, Plain(b)
  PROVE  Leafed(b) /\ Rooted(b)
BY DEF Plain, Leafed, Apart, AllPaid, Paid, Pooled

(* A list with such a last element tells where it ends.                    *)
LEMMA ApartUnique ==
  ASSUME NEW s \in Seq(Transaction), NEW e \in Transaction, Apart(s, e)
  PROVE  /\ Append(s, e) \in Seq(Transaction) /\ Append(s, e) # <<>>
         /\ UniqueLast(Append(s, e))
<1>1. /\ DOMAIN s = 1 .. Len(s) /\ Len(s) \in Nat
      /\ \A i \in 1 .. Len(s) : Append(s, e)[i] = s[i]
      /\ Append(s, e)[Len(s) + 1] = e /\ Len(Append(s, e)) = Len(s) + 1
      /\ Append(s, e) \in Seq(Transaction)
  BY AppendProperties
<1>2. \A i \in 1 .. Len(s) : s[i] # e
  BY <1>1 DEF Apart, AllPaid, Paid, Pooled
<1>3. UniqueLast(Append(s, e))
  BY <1>1, <1>2 DEF UniqueLast
<1>4. QED
  BY <1>1, <1>3

(* An empty block, and one whose body has been destroyed, have no leaves.  *)
LEMMA EmptyPlain == Plain(EmptyBlock) /\ \A b \in EmptiedBlocks : Plain(b)
<1>1. EmptyBlock.data = <<>> /\ EmptyBlock.merkleRoot = <<>> /\ EmptyBlock.datum.timestamp = NoTime
  BY DefaultTransactionType DEF EmptyBlock
<1>2. QED
  BY <1>1, EmptiedType DEF Plain, AllPaid, Paid, Rooted

(* The blocks that main and the peers make.                                *)
LEMMA MadePlain ==
  ASSUME HashesHold
  PROVE  /\ \A g \in Int, time \in Nat : \A b \in makeGenesisBlock(g, time) : Plain(b)
         /\ \A g \in Int, h \in Hash, p \in Port, d \in Seq(Transaction), time \in Nat \ {0} :
              AllPaid(d) => \A b \in MinedBlock(g, h, p, d, time) : Plain(b)
<1>1. ASSUME NEW g \in Int, NEW time \in Nat, NEW b \in makeGenesisBlock(g, time)
      PROVE  Plain(b)
  <2> DEFINE e == DefaultTransaction(g)
  <2>1. b.data = <<>> /\ b.datum = e /\ b.merkleRoot = <<e>>
    BY GenesisType
  <2>2. e \in Transaction /\ e.timestamp = NoTime
    BY DefaultTransactionType
  <2> HIDE DEF e
  <2>3. AllPaid(<<>>) /\ Apart(<<>>, e) /\ <<>> \in Seq(Transaction) /\ <<e>> = Append(<<>>, e)
    BY <2>2 DEF AllPaid, Apart
  <2>4. Rooted(b)
    BY <2>1, <2>2, <2>3 DEF Rooted
  <2>5. QED
    BY <2>1, <2>2, <2>3, <2>4 DEF Plain, Paid
<1>2. ASSUME NEW g \in Int, NEW h \in Hash, NEW p \in Port, NEW d \in Seq(Transaction),
             NEW time \in Nat \ {0}, AllPaid(d), NEW b \in MinedBlock(g, h, p, d, time)
      PROVE  Plain(b)
  <2> DEFINE e == NewCoinbase(p, time)
  <2>1. b.data = d /\ b.datum = e /\ b.merkleRoot = Append(d, e)
    BY MinedBlockType
  <2>2. e \in Transaction /\ e.from = 0 /\ e.timestamp # NoTime
    BY NewCoinbaseType
  <2> HIDE DEF e
  <2>3. Apart(d, e)
    BY <1>2, <2>2 DEF Apart, AllPaid, Paid, Pooled
  <2>4. Rooted(b)
    BY <2>1, <2>2, <2>3 DEF Rooted
  <2>5. QED
    BY <1>2, <2>1, <2>2, <2>4 DEF Plain, Paid
<1>3. QED
  BY <1>1, <1>2

(* What arrives: payments, and blocks with a tree of their own.            *)
LEMMA PeersPay ==
  ASSUME HashesHold, TypeOK
  PROVE  /\ \A t \in PeerTransactions : Paid(t)
         /\ \A b \in PeerGenesis : Plain(b)
         /\ \A base \in PeerBases : \A b \in PeerMined(base) : Plain(b)
<1>1. /\ now \in Nat \ {0} /\ Peers \subseteq Port \ {0} /\ Me \in Port
      /\ Garbage \subseteq Int /\ Amounts \subseteq Nat
  BY NodeAssumption, ValuesAssumption, AmountsType DEF TypeOK
<1>2. ASSUME NEW t \in PeerTransactions PROVE Paid(t)
  <2>1. PICK p \in Peers, to \in Peers \cup {Me}, amount \in Amounts, time \in {1, now} :
          t = NewTransaction(p, to, amount, time)
    BY DEF PeerTransactions
  <2>2. p \in Port /\ p # 0 /\ to \in Port /\ amount \in Int /\ time \in Nat /\ time # 0
    BY <1>1
  <2>3. t.timestamp = time /\ t.from = p
    BY <2>1, <2>2, NewTransactionType
  <2>4. QED
    BY <2>2, <2>3 DEF Paid, NoTime
<1>3. ASSUME NEW b \in PeerGenesis PROVE Plain(b)
  <2>1. PICK g \in Garbage : b \in makeGenesisBlock(g, 1)
    BY DEF PeerGenesis
  <2>2. g \in Int /\ 1 \in Nat
    BY <1>1
  <2>3. QED
    BY <2>1, <2>2, MadePlain
<1>4. ASSUME NEW base \in PeerBases, NEW b \in PeerMined(base) PROVE Plain(b)
  <2> DEFINE results(g, p, data) == MinedBlock(g, base.blockHash, p, data, now)
             bodies == {<<>>} \cup {<<t>> : t \in {t \in PeerTransactions : t.timestamp = now}}
  <2>1. PICK g \in Garbage, p \in Peers, data \in bodies : b \in results(g, p, data)
    <3>1. PeerMined(base) = UNION {results(g, p, data) : g \in Garbage, p \in Peers, data \in bodies}
      BY DEF PeerMined
    <3> HIDE DEF results, bodies
    <3> QED BY <3>1
  <2>2. g \in Int /\ p \in Port /\ base.blockHash \in Hash
    BY <1>1, PeerDataType DEF Block
  <2>3. data \in Seq(Transaction) /\ AllPaid(data)
    <3>1. <<>> \in Seq(Transaction) /\ \A t \in PeerTransactions : <<t>> \in Seq(Transaction)
      BY PeerDataType
    <3>2. AllPaid(<<>>) /\ \A t \in PeerTransactions : AllPaid(<<t>>)
      BY <1>2 DEF AllPaid
    <3>3. data = <<>> \/ \E t \in PeerTransactions : data = <<t>>
      OBVIOUS
    <3>4. QED
      BY <3>1, <3>2, <3>3
  <2>4. QED
    BY <1>1, <2>1, <2>2, <2>3, MadePlain
<1>5. QED
  BY <1>2, <1>3, <1>4

(* What a message may bring.                                               *)
Brings(m) == Plain(m.m_b) /\ (m.head = "TRANSACTION" => Paid(m.m_t))

(* So do the messages of the peers.                                        *)
LEMMA PeersBring ==
  ASSUME HashesHold, TypeOK, NEW m \in PeerMessages
  PROVE  Brings(m)
<1>1. PeerTransactions \subseteq Transaction /\ PeerGenesis \subseteq Block /\ PeerBases \subseteq Block
  BY PeerDataType
<1>2. ASSUME NEW base \in PeerBases PROVE PeerMined(base) \subseteq Block
  BY PeerMinedType
<1>3. CASE \E t \in PeerTransactions : m = TransactionMessage(t)
  BY <1>1, <1>3, MessageTypes, EmptyPlain, PeersPay DEF Brings
<1>4. CASE \E b \in PeerGenesis \cup UNION {PeerMined(base) : base \in PeerBases} : m = BlockMessage(b)
  <2>1. PICK b \in PeerGenesis \cup UNION {PeerMined(base) : base \in PeerBases} : m = BlockMessage(b)
    BY <1>4
  <2>2. b \in Block /\ Plain(b)
    BY <1>1, <1>2, PeersPay
  <2>3. QED
    BY <2>1, <2>2, MessageTypes DEF Brings
<1>5. CASE \E c : m = ChainMessage(c)
  <2>1. m.head = "BLOCKCHAIN" /\ m.m_b = EmptyBlock
    BY <1>5, MessageTypes, ZenonT(30) DEF ChainMessage, Message
  <2>2. QED
    BY <2>1, EmptyPlain DEF Brings
<1>6. QED
  BY <1>3, <1>4, <1>5 DEF PeerMessages

(* Splicing mixes payments with payments, and blocks with blocks.          *)
LEMMA SplicedBrings ==
  ASSUME NEW m \in Message, NEW old \in Message, Brings(m), Brings(old), NEW r \in Spliced(m, old)
  PROVE  Brings(r)
<1>0. /\ m.m_t \in Transaction /\ m.m_b \in Block /\ old.m_t \in Transaction /\ old.m_b \in Block
      /\ m.head = old.head
  BY SplicedType DEF Message
<1>1. CASE m.head = "TRANSACTION"
  <2>1. PICK t \in SplicedTransactions(m.m_t, old.m_t) : t \in Transaction /\ r = TransactionMessage(t)
    BY <1>1, SplicedType
  <2>2. Paid(m.m_t) /\ Paid(old.m_t)
    BY <1>0, <1>1 DEF Brings
  <2>3. t.timestamp \in {m.m_t.timestamp, old.m_t.timestamp} /\ t.from \in {m.m_t.from, old.m_t.from}
    BY <2>1 DEF SplicedTransactions, Part
  <2>4. Paid(t)
    BY <2>2, <2>3 DEF Paid
  <2>5. QED
    BY <2>1, <2>4, MessageTypes, EmptyPlain DEF Brings
<1>2. CASE m.head = "BLOCK"
  <2>1. PICK b \in SplicedBlocks(m.m_b, old.m_b) : b \in Block /\ r = BlockMessage(b)
    BY <1>2, SplicedType
  <2>2. Plain(m.m_b) /\ Plain(old.m_b)
    BY DEF Brings
  <2>3. /\ b.merkleRoot \in {m.m_b.merkleRoot, old.m_b.merkleRoot}
        /\ b.datum \in {m.m_b.datum, old.m_b.datum}
        /\ b.data = old.m_b.data \/ b.data \in SplicedLists(m.m_b.data, old.m_b.data)
    BY <1>0, <2>1, SplicedBlockType
  <2>4. AllPaid(b.data)
    <3>1. m.m_b.data \in Seq(Transaction) /\ old.m_b.data \in Seq(Transaction)
      BY <1>0 DEF Block
    <3>2. ASSUME NEW l \in SplicedLists(m.m_b.data, old.m_b.data) PROVE AllPaid(l)
      <4>1. \A i \in DOMAIN l : \/ \E j \in DOMAIN m.m_b.data : l[i] = m.m_b.data[j]
                               \/ \E j \in DOMAIN old.m_b.data : l[i] = old.m_b.data[j]
        BY <3>1, <3>2, SplicedListType, SMTT(30)
      <4>2. QED
        BY <2>2, <4>1 DEF Plain, AllPaid
    <3>3. QED
      BY <2>2, <2>3, <3>2 DEF Plain
  <2>5. Plain(b)
    BY <2>2, <2>3, <2>4 DEF Plain, Rooted
  <2>6. QED
    BY <2>1, <2>5, MessageTypes DEF Brings
<1>3. CASE m.head = "BLOCKCHAIN"
  <2>1. PICK c \in Seq(Block) : r = ChainMessage(c)
    BY <1>3, SplicedType
  <2>2. QED
    BY <2>1, MessageTypes, EmptyPlain DEF Brings
<1>4. QED
  BY <1>1, <1>2, <1>3, SplicedType

(* And so does whatever reaches the receive buffer.                        *)
LEMMA ReceivedBrings ==
  ASSUME HashesHold, TypeOK, Distinct, NEW m \in Received
  PROVE  m \in Message /\ Brings(m)
<1>0. m \in Message /\ buffer \in Message
  BY ReceivedType DEF TypeOK
<1>1. Brings(buffer)
  BY DEF Brings, Distinct, PaidMail, Held
<1>2. Brings(EmptyMessage)
  BY MessageTypes, EmptyPlain DEF Brings
<1>3. ASSUME NEW p \in PeerMessages, m \in Spliced(p, buffer) PROVE Brings(m)
  <2>1. p \in Message /\ Brings(p)
    BY PeerMessagesType, PeersBring
  <2>2. QED
    BY <1>0, <1>1, <1>3, <2>1, SplicedBrings
<1>4. QED
  BY <1>0, <1>1, <1>2, <1>3, PeersBring DEF Received

(* The steps that write the messages and the blocks a node holds.          *)
LEMMA HeldSteps ==
  ASSUME Next
  PROVE  /\ inMsgs' = inMsgs \/ SReceive
         /\ block' = block \/ MGenesis \/ BTip \/ BTake \/ BEmpty \/ SReceive
         /\ blocks' = blocks \/ \E th \in Updaters : Keep(th)
<1>1. \A th : ClearPortList(th) \/ FillPortList(th) \/ Record(th) \/ ChainMsg(th) => UNCHANGED <<inMsgs, block, blocks>>
  BY DEF ClearPortList, FillPortList, Record, ChainMsg, mail, updates, books
<1>2. \A th : Load(th) \/ Store(th) \/ PoolTx(th) \/ RecordTx(th) => UNCHANGED <<inMsgs, block, blocks>>
  BY DEF Load, Store, PoolTx, RecordTx, mail, updates, books
<1>3. \A th : UpdateChain(th) => UNCHANGED <<inMsgs, block, blocks>>
  BY DEF UpdateChain, TestEmpty, ValidatePlace, Place, Validate, Push, RemoveFromPool, Assign,
         SendBack, mail, updates, books
<1>4. \A th : Candidate(th) \/ Reset(th) => UNCHANGED <<inMsgs, block, blocks>>
  BY DEF Candidate, Reset, mail, updates
<1>5. \A th : Keep(th) => UNCHANGED <<inMsgs, block>>
  BY DEF Keep, updates
<1>6. TSleep \/ TDraw \/ TAt \/ BMine \/ BAnnounce => UNCHANGED <<inMsgs, block, blocks>>
  BY DEF TSleep, TDraw, TAt, BMine, BAnnounce, mail, updates, books
<1>7. MGenesis \/ BTip \/ BTake \/ BEmpty => UNCHANGED <<inMsgs, blocks>>
  BY DEF MGenesis, BTip, BTake, BEmpty, mail, books
<1>8. SReceive => UNCHANGED blocks
  BY DEF SReceive, SUnreadable, SDecodeCrash, STransaction, SBlock, SChain, books
<1>9. SChainTest \/ SChainLength \/ SChainRemove \/ SChainAssign \/ SChainBack \/ DataRace
        => UNCHANGED <<inMsgs, block, blocks>>
  BY DEF SChainTest, SChainLength, SChainRemove, SChainAssign, SChainBack, DataRace,
         mail, updates, books
<1>10. QED
  BY <1>1, <1>2, <1>3, <1>4, <1>5, <1>6, <1>7, <1>8, <1>9, NextCases DEF Bookkeep

-----------------------------------------------------------------------------
(* Each part is kept.  First the messages: what arrives is paid.           *)
LEMMA StillPaidMail ==
  ASSUME HashesHold, TypeOK, Distinct, Next
  PROVE  PaidMail'
<1>0. inMsgs \in Seq(Message)
  BY DEF TypeOK
<1>1. buffer'.head = "TRANSACTION" => Paid(buffer'.m_t)
  BY MailSteps, ReceivedBrings DEF Distinct, PaidMail, Brings
<1>2. CASE inMsgs' = inMsgs
  BY <1>1, <1>2 DEF Distinct, PaidMail
<1>3. CASE SReceive
  <2>1. PICK m \in Received :
          SUnreadable(m) \/ SDecodeCrash(m) \/ STransaction(m) \/ SBlock(m) \/ SChain(m)
    BY <1>3 DEF SReceive
  <2>2. m \in Message /\ (m.head = "TRANSACTION" => Paid(m.m_t))
    BY ReceivedBrings DEF Brings
  <2>3. inMsgs' = inMsgs \/ \E msg \in read_message(m) : inMsgs' = Append(inMsgs, msg)
    BY <2>1 DEF SUnreadable, SDecodeCrash, STransaction, SBlock, SChain
  <2>4. ASSUME NEW msg \in read_message(m), inMsgs' = Append(inMsgs, msg),
               NEW i \in DOMAIN inMsgs', inMsgs'[i].head = "TRANSACTION"
        PROVE  Paid(inMsgs'[i].m_t)
    <3>1. msg \in Message /\ msg.head = m.head /\ (m.head = "TRANSACTION" => msg = m)
      BY <2>2, ReadMessageType
    <3>2. inMsgs'[i] = msg \/ (i \in DOMAIN inMsgs /\ inMsgs'[i] = inMsgs[i])
      BY <1>0, <2>4, <3>1, AppendProperties
    <3>3. QED
      BY <2>2, <2>4, <3>1, <3>2 DEF Distinct, PaidMail
  <2>5. QED
    BY <1>1, <1>2, <2>3, <2>4 DEF PaidMail
<1>4. QED
  BY <1>2, <1>3, HeldSteps

(* What is known has been paid, or has no time any more: no coinbase of a  *)
(* mined block is.                                                         *)
LEMMA KnownPooled ==
  ASSUME PaidMail, NEW t, Known(t)
  PROVE  Pooled(t)
<1>1. CASE t.from = Me
  BY <1>1, NodeAssumption DEF Pooled
<1>2. ASSUME NEW i \in DOMAIN inMsgs, inMsgs[i].head = "TRANSACTION",
             t \in Decoded(inMsgs[i].m_t, EmptiedTransactions)
      PROVE  Pooled(t)
  <2>1. t = inMsgs[i].m_t \/ t \in EmptiedTransactions
    BY <1>2 DEF Decoded
  <2>2. Paid(inMsgs[i].m_t)
    BY <1>2 DEF PaidMail
  <2>3. QED
    BY <2>1, <2>2, EmptiedType DEF Paid, Pooled
<1>3. QED
  BY <1>1, <1>2 DEF Known

(* A block that the miner makes of what it took out of the pool.           *)
LEMMA MinedRooted ==
  ASSUME HashesHold, TypeOK, PaidMail, NEW d \in Seq(Transaction), AllKnown(d),
         NEW g \in Int, NEW h \in Hash, NEW b \in MinedBlock(g, h, Me, d, now)
  PROVE  Rooted(b)
<1> DEFINE e == NewCoinbase(Me, now)
<1>1. now \in Nat \ {0} /\ Me \in Port
  BY NodeAssumption DEF TypeOK
<1>2. b.merkleRoot = Append(d, e)
  BY <1>1, MinedBlockType
<1>3. e \in Transaction /\ ~Pooled(e)
  BY <1>1, NewCoinbaseType DEF Pooled
<1> HIDE DEF e
<1>4. Apart(d, e)
  BY <1>3, KnownPooled DEF Apart, AllKnown
<1>5. QED
  BY <1>2, <1>3, <1>4 DEF Rooted

(* The blocks of the threads and of the buffer.                            *)
LEMMA StillHeld ==
  ASSUME HashesHold, IInv, Distinct, Next
  PROVE  Held'
<1>0. /\ TypeOK /\ block \in [Updaters -> Block] /\ pool \in Seq(Transaction)
      /\ now \in Nat \ {0} /\ Me \in Port /\ Garbage \subseteq Int
      /\ "main" \in Updaters /\ "miner" \in Updaters /\ "server" \in Updaters
  BY NodeAssumption, ValuesAssumption DEF IInv, Base, TypeOK, Updaters
<1>1. Plain(block["main"]) /\ Plain(block["server"]) /\ Rooted(block["miner"])
  BY DEF Distinct, Held
<1>2. Plain(buffer'.m_b)
  BY <1>0, MailSteps, ReceivedBrings DEF Distinct, Held, Brings
<1>3. ASSUME NEW th \in Updaters, NEW b, block' = [block EXCEPT ![th] = b],
             IF th = "miner" THEN Rooted(b) ELSE Plain(b)
      PROVE  Held'
  BY <1>0, <1>1, <1>2, <1>3 DEF Held
<1>4. CASE block' = block
  BY <1>1, <1>2, <1>4 DEF Held
<1>5. CASE MGenesis
  <2>1. \A t \in Nat : \A g \in Garbage : \A b \in makeGenesisBlock(g, t) : Plain(b)
    BY <1>0, MadePlain
  <2>2. now' \in Nat
    BY <1>0, <1>5, LaterType DEF MGenesis
  <2>3. \E g \in Garbage : \E b \in makeGenesisBlock(g, now') : block' = [block EXCEPT !["main"] = b]
    BY <1>5 DEF MGenesis
  <2>4. PICK b : block' = [block EXCEPT !["main"] = b] /\ Plain(b)
    BY <2>1, <2>2, <2>3
  <2>5. QED
    BY <1>0, <1>3, <2>4
<1> DEFINE mine == block["miner"]
<1>6. mine \in Block /\ Rooted(mine)
  BY <1>0, <1>1
<1>7. CASE BTip
  <2>1. block' = block \/ \E h : block' = [block EXCEPT !["miner"] = [mine EXCEPT !.prevHash = h]]
    BY <1>7 DEF BTip
  <2> HIDE DEF mine
  <2>2. \A h : Rooted([mine EXCEPT !.prevHash = h])
    BY <1>6 DEF Rooted, Block
  <2>3. QED
    BY <1>0, <1>3, <1>4, <2>1, <2>2
<1>8. CASE BTake
  <2>1. block' = [block EXCEPT !["miner"] = [mine EXCEPT !.data = pool]]
    BY <1>8 DEF BTake
  <2> HIDE DEF mine
  <2>2. Rooted([mine EXCEPT !.data = pool])
    BY <1>6 DEF Rooted, Block
  <2>3. QED
    BY <1>0, <1>3, <2>1, <2>2
<1>9. CASE BEmpty
  <2>0. PICK g \in Garbage : \E b \in MinedBlock(g, mine.prevHash, Me, mine.data, now) :
                                block' = [block EXCEPT !["miner"] = b]
    BY <1>9 DEF BEmpty
  <2>1. PICK b \in MinedBlock(g, mine.prevHash, Me, mine.data, now) :
          block' = [block EXCEPT !["miner"] = b]
    BY <2>0
  <2>2. AllKnown(mine.data)
    BY DEF IInv, Stock, PoolKnown
  <2> HIDE DEF mine
  <2>3. mine.prevHash \in Hash /\ mine.data \in Seq(Transaction) /\ g \in Int
    BY <1>0, <1>6 DEF Block
  <2>4. Rooted(b)
    BY <1>0, <2>2, <2>3, MinedRooted DEF Distinct
  <2>5. QED
    BY <1>0, <1>3, <2>1, <2>4
<1>10. CASE SReceive
  <2>1. PICK m \in Received :
          SUnreadable(m) \/ SDecodeCrash(m) \/ STransaction(m) \/ SBlock(m) \/ SChain(m)
    BY <1>10 DEF SReceive
  <2>2. CASE SBlock(m)
    <3>1. m \in Message /\ Plain(m.m_b) /\ m.m_b \in Block
      BY <1>0, ReceivedBrings DEF Message, Brings
    <3>2. PICK msg \in read_message(m) :
            \E b \in Decoded(msg.m_b, EmptiedBlocks) : block' = [block EXCEPT !["server"] = b]
      BY <2>2 DEF SBlock
    <3>3. PICK b \in Decoded(msg.m_b, EmptiedBlocks) : block' = [block EXCEPT !["server"] = b]
      BY <3>2
    <3>4. msg.m_b \in read_b(m.m_b)
      BY <2>2, <3>1, ReadMessageType DEF SBlock
    <3>5. msg.m_b.data = m.m_b.data /\ msg.m_b.merkleRoot = m.m_b.merkleRoot /\ msg.m_b.datum.timestamp = NoTime
      BY <3>1, <3>4, ReadBlockType
    <3>6. Plain(msg.m_b)
      BY <3>1, <3>5 DEF Plain, Rooted, Paid
    <3>7. Plain(b)
      BY <3>6, EmptyPlain DEF Decoded
    <3>8. QED
      BY <1>0, <1>3, <3>3, <3>7
  <2>3. QED
    BY <1>4, <2>1, <2>2 DEF SUnreadable, SDecodeCrash, STransaction, SChain, updates
<1>11. QED
  BY <1>4, <1>5, <1>7, <1>8, <1>9, <1>10, HeldSteps

(* The block that a thread adds to the chain or to m_blocks.               *)
LEMMA HandledLeafed ==
  ASSUME IInv, Distinct, NEW th \in Updaters, th = "miner" => pc[th] \in Made
  PROVE  block[th] \in Block /\ Leafed(block[th]) /\ Rooted(block[th])
<1>0. block[th] \in Block
  BY DEF IInv, Base, TypeOK
<1>1. CASE th \in {"main", "server"}
  BY <1>0, <1>1, PlainLeafed DEF Distinct, Held
<1>2. CASE th = "miner"
  <2>1. MinedHere(block["miner"]) /\ AllKnown(block["miner"].data)
    BY <1>2 DEF IInv, Readiness, Ready, Stock, PoolKnown, Made, Threads, Updaters
  <2>2. Leafed(block["miner"])
    BY <2>1, KnownPooled DEF Distinct, MinedHere, AllKnown, Leafed, Apart, Pooled
  <2>3. QED
    BY <1>0, <1>2, <2>2 DEF Distinct, Held
<1>3. QED
  BY <1>1, <1>2 DEF Updaters

(* The blocks that are kept.                                               *)
LEMMA StillStored ==
  ASSUME IInv, Distinct, Next
  PROVE  Stored'
<1>0. TypeOK /\ blocks \in Seq(Block)
  BY DEF IInv, Base, TypeOK
<1>1. ASSUME NEW th \in Updaters, Place(th) \/ Push(th) \/ Keep(th)
      PROVE  block[th] \in Block /\ Leafed(block[th]) /\ Rooted(block[th])
  BY <1>1, HandledLeafed DEF Place, Push, Keep, At, Made
<1>2. ASSUME NEW i \in DOMAIN chain' PROVE Leafed(chain'[i]) /\ Rooted(chain'[i])
  <2>1. CASE chain' = chain
    BY <2>1 DEF Distinct, Stored
  <2>2. ASSUME NEW th \in Updaters, Place(th) \/ Push(th)
        PROVE  Leafed(chain'[i]) /\ Rooted(chain'[i])
    <3>1. chain'[i] = block[th] \/ (i \in DOMAIN chain /\ chain'[i] = chain[i])
      BY <1>0, <2>2, ChainGrows
    <3>2. QED
      BY <1>1, <2>2, <3>1 DEF Distinct, Stored
  <2>3. QED
    BY <2>1, <2>2, ChainSteps
<1>3. ASSUME NEW i \in DOMAIN blocks' PROVE Leafed(blocks'[i]) /\ Rooted(blocks'[i])
  <2>1. CASE blocks' = blocks
    BY <2>1 DEF Distinct, Stored
  <2>2. ASSUME NEW th \in Updaters, Keep(th)
        PROVE  Leafed(blocks'[i]) /\ Rooted(blocks'[i])
    <3> DEFINE b == block[th]
    <3>1. b \in Block /\ blocks' \in Pushed(th, blocks, <<b>>) /\ Leafed(b) /\ Rooted(b)
      BY <1>1, <2>2 DEF Keep
    <3> HIDE DEF b
    <3>2. blocks' = Append(blocks, b) \/ blocks' = blocks
      <4>1. blocks' \in Seq(Block) /\ (blocks' = Append(blocks, b) \/ blocks' = blocks)
        BY <1>0, <3>1, PushedType
      <4>2. QED
        BY <4>1
    <3>3. /\ DOMAIN blocks = 1 .. Len(blocks) /\ Len(blocks) \in Nat
          /\ \A n \in 1 .. Len(blocks) : Append(blocks, b)[n] = blocks[n]
          /\ Append(blocks, b)[Len(blocks) + 1] = b
          /\ DOMAIN Append(blocks, b) = 1 .. Len(blocks) + 1
      BY <1>0, <3>1, AppendProperties
    <3>4. blocks'[i] = b \/ (i \in DOMAIN blocks /\ blocks'[i] = blocks[i])
      BY <3>2, <3>3
    <3>5. QED
      BY <3>1, <3>4 DEF Distinct, Stored
  <2>3. QED
    BY <2>1, <2>2, HeldSteps
<1>4. QED
  BY <1>2, <1>3 DEF Stored

(* The invariant holds in every state a node reaches.                      *)
LEMMA AlwaysDistinct ==
  ASSUME HashesHold
  PROVE  Spec => [](IInv /\ Distinct)
<1>1. ASSUME Init PROVE IInv /\ Distinct
  <2>1. "main" \in Updaters /\ "server" \in Updaters /\ "miner" \in Updaters
    BY DEF Updaters
  <2>2. Held
    BY <1>1, <2>1, EmptyPlain, PlainLeafed, MessageTypes DEF Init, Held
  <2>3. PaidMail /\ Stored
    BY <1>1, MessageTypes DEF Init, PaidMail, Stored
  <2>4. QED
    BY <1>1, <2>2, <2>3, InitBase, InitIInv DEF Distinct
<1>2. ASSUME IInv, Distinct, [Next]_vars PROVE (IInv /\ Distinct)'
  <2>1. CASE UNCHANGED vars
    <3>1. UNCHANGED <<buffer, inMsgs, chain, blocks, block>>
      BY <2>1 DEF vars, books, mail, ledger, updates
    <3>2. PaidMail' /\ Held' /\ Stored'
      BY <1>2, <3>1 DEF Distinct, PaidMail, Held, Stored
    <3>3. QED
      BY <1>2, <2>1, <3>2, StutterIInv DEF Distinct
  <2>2. CASE Next
    <3>1. TypeOK
      BY <1>2 DEF IInv, Base
    <3>2. QED
      BY <1>2, <2>2, <3>1, NextIInv, StillPaidMail, StillHeld, StillStored DEF Distinct
  <2>3. QED
    BY <1>2, <2>1, <2>2
<1>3. Init => IInv /\ Distinct
  BY <1>1
<1>4. IInv /\ Distinct /\ [Next]_vars => (IInv /\ Distinct)'
  BY <1>2
<1>5. QED
  BY <1>3, <1>4, PTL DEF Spec

(* The merkle roots of two blocks in play, as received or as recomputed,   *)
(* are the same only if the leaves are: so the node may be modelled with   *)
(* leaves in place of roots, although the tree doubles an odd last leaf.   *)
THEOREM RootsAlwaysCommit ==
  ASSUME HashesHold
  PROVE  Spec => []RootsCommit
<1>1. ASSUME IInv, Distinct, NEW b \in Blocks PROVE b \in Block /\ Leafed(b) /\ Rooted(b)
  <2>1. TypeOK /\ chain \in Seq(Block) /\ blocks \in Seq(Block) /\ buffer.m_b \in Block
    BY <1>1 DEF IInv, Base, TypeOK, Message
  <2>2. CASE \/ \E i \in DOMAIN chain : b = chain[i]
             \/ \E i \in DOMAIN blocks : b = blocks[i]
    BY <1>1, <2>1, <2>2 DEF Distinct, Stored
  <2>3. CASE \E th \in Updaters : (th = "miner" => pc[th] \in Made) /\ b = block[th]
    BY <1>1, <2>3, HandledLeafed
  <2>4. CASE b = buffer.m_b
    BY <1>1, <2>1, <2>4, PlainLeafed DEF Distinct, Held
  <2>5. QED
    BY <2>2, <2>3, <2>4 DEF Blocks
<1>2. ASSUME IInv, Distinct, NEW r \in LeafLists
      PROVE  r \in Seq(Transaction) /\ r # <<>> /\ UniqueLast(r)
  <2>1. PICK b \in Blocks : (r = b.merkleRoot /\ r # <<>>) \/ r = computeMerkleRoot(b)
    BY DEF LeafLists
  <2>2. b \in Block /\ Leafed(b) /\ Rooted(b)
    BY <1>1, <1>2
  <2>3. CASE r = b.merkleRoot /\ r # <<>>
    BY <2>2, <2>3, ApartUnique DEF Rooted
  <2>4. CASE r = computeMerkleRoot(b)
    <3>1. b.data \in Seq(Transaction) /\ b.datum \in Transaction /\ r = Append(b.data, b.datum)
      BY <2>2, <2>4 DEF computeMerkleRoot, Block
    <3>2. QED
      BY <2>2, <3>1, ApartUnique DEF Leafed
  <2>5. QED
    BY <2>1, <2>3, <2>4
<1>3. IInv /\ Distinct => RootsCommit
  BY <1>2, RootTells DEF RootsCommit
<1>4. QED
  BY <1>3, AlwaysDistinct, PTL
=============================================================================
