------------------------------- MODULE ClaudeProofs -------------------------------
(***************************************************************************)
(* The safety properties of the turns that Claude answers.  ClaudeTurns:   *)
(* for any turns and models, and a cache of any size.  ClaudeStream (the   *)
(* last part): for messages of any number of blocks and deltas.            *)
(***************************************************************************)
EXTENDS ClaudeTurns, ClaudeStream, FiniteSetTheorems, FunctionTheorems, SequenceTheorems,
        WellFoundedInduction, TLAPS

(***************************************************************************)
(* Recursive functions over the positions of a sequence.  What holds for   *)
(* all numbers is shown by looking at the least one it would fail for.     *)
(***************************************************************************)
LEMMA LeastNumber ==
  ASSUME NEW T \in SUBSET Nat, T # {}
  PROVE  \E n \in T : \A m \in T : n <= m
<1>1. IsWellFoundedOn(OpToRel(<, Nat), Nat)
  BY NatLessThanWellFounded
<1>2. PICK n \in T : \A m \in T : ~(<<m, n>> \in OpToRel(<, Nat))
  BY <1>1, WFMin
<1>3. \A m \in T : ~(m < n)
  BY <1>2 DEF OpToRel
<1>4. T \subseteq Nat
  OBVIOUS
<1>5. \A m \in T : n <= m
  BY <1>3, <1>4
<1>6. QED
  BY <1>5

(* A set of numbers that holds 0 and with each number the next one, up to N.*)
LEMMA UpTo ==
  ASSUME NEW N \in Nat, NEW T, 0 \in T, \A n \in 0 .. N - 1 : n \in T => n + 1 \in T
  PROVE  \A n \in 0 .. N : n \in T
<1> DEFINE bad == {n \in 0 .. N : n \notin T}
<1>1. SUFFICES ASSUME bad # {} PROVE FALSE
  OBVIOUS
<1>2. bad \in SUBSET Nat
  OBVIOUS
<1>3. PICK n \in bad : \A m \in bad : n <= m
  BY <1>1, <1>2, LeastNumber
<1>4. n \in 0 .. N /\ n # 0 /\ n - 1 \in 0 .. N - 1 /\ (n - 1) + 1 = n
  BY <1>3
<1>5. n - 1 \in T
  BY <1>3, <1>4
<1>6. n \in T
  BY <1>4, <1>5
<1>7. QED
  BY <1>3, <1>6

Follow(f, N, base, step) == f = [n \in 0 .. N |-> IF n = 0 THEN base ELSE step[<<f[n - 1], n>>]]

LEMMA FollowExists ==
  ASSUME NEW S, NEW base \in S, NEW step \in [S \X Nat -> S], NEW N \in Nat
  PROVE  \E f : Follow(f, N, base, step)
<1> DEFINE T == {n \in Nat : \E f \in [0 .. n -> S] : Follow(f, n, base, step)}
<1>1. 0 \in T
  <2>1. [n \in 0 .. 0 |-> base] \in [0 .. 0 -> S]
    OBVIOUS
  <2>2. Follow([n \in 0 .. 0 |-> base], 0, base, step)
    BY DEF Follow
  <2>3. QED
    BY <2>1, <2>2
<1>2. ASSUME NEW n \in Nat, n \in T PROVE n + 1 \in T
  <2>1. PICK f \in [0 .. n -> S] : Follow(f, n, base, step)
    BY <1>2
  <2> DEFINE g == [k \in 0 .. n + 1 |-> IF k = n + 1 THEN step[<<f[n], n + 1>>] ELSE f[k]]
  <2>2. n \in 0 .. n /\ f[n] \in S /\ step[<<f[n], n + 1>>] \in S
    OBVIOUS
  <2>3. g \in [0 .. n + 1 -> S]
    BY <2>2
  <2>4. ASSUME NEW k \in 0 .. n + 1 PROVE g[k] = IF k = 0 THEN base ELSE step[<<g[k - 1], k>>]
    <3>1. CASE k = n + 1
      <4>1. k # 0 /\ k - 1 = n /\ n \in 0 .. n + 1 /\ n # n + 1
        BY <3>1
      <4>2. g[k - 1] = f[n] /\ g[k] = step[<<f[n], n + 1>>]
        BY <3>1, <4>1
      <4>3. QED
        BY <3>1, <4>1, <4>2
    <3>2. CASE k # n + 1
      <4>1. k \in 0 .. n /\ g[k] = f[k]
        BY <3>2
      <4>2. f[k] = IF k = 0 THEN base ELSE step[<<f[k - 1], k>>]
        BY <2>1, <4>1 DEF Follow
      <4>3. CASE k = 0
        BY <4>1, <4>2, <4>3
      <4>4. CASE k # 0
        <5>1. k - 1 \in 0 .. n + 1 /\ k - 1 # n + 1
          BY <4>1, <4>4
        <5>2. g[k - 1] = f[k - 1]
          BY <5>1
        <5>3. QED
          BY <4>1, <4>2, <4>4, <5>2
      <4>5. QED
        BY <4>3, <4>4
    <3>3. QED
      BY <3>1, <3>2
  <2>5. g = [k \in 0 .. n + 1 |-> g[k]]
    BY <2>3
  <2> HIDE DEF g
  <2>6. g = [k \in 0 .. n + 1 |-> IF k = 0 THEN base ELSE step[<<g[k - 1], k>>]]
    BY <2>4, <2>5
  <2>7. Follow(g, n + 1, base, step)
    BY <2>6 DEF Follow
  <2>8. QED
    BY <2>3, <2>7
<1> HIDE DEF T
<1>3. N \in T
  BY <1>1, <1>2, UpTo
<1>4. QED
  BY <1>3 DEF T

LEMMA FollowTyped ==
  ASSUME NEW S, NEW base \in S, NEW step \in [S \X Nat -> S], NEW N \in Nat, NEW f, Follow(f, N, base, step)
  PROVE  f \in [0 .. N -> S]
<1> DEFINE T == {n \in 0 .. N : f[n] \in S}
<1>1. \A n \in 0 .. N : f[n] = IF n = 0 THEN base ELSE step[<<f[n - 1], n>>]
  BY DEF Follow
<1>2. 0 \in T
  <2>1. 0 \in 0 .. N
    OBVIOUS
  <2>2. QED
    BY <1>1, <2>1
<1>3. ASSUME NEW n \in 0 .. N - 1, n \in T PROVE n + 1 \in T
  <2>1. n + 1 \in 0 .. N /\ n + 1 # 0 /\ (n + 1) - 1 = n /\ n + 1 \in Nat
    OBVIOUS
  <2>2. f[n + 1] = step[<<f[n], n + 1>>]
    BY <1>1, <2>1
  <2>3. f[n] \in S
    BY <1>3
  <2>4. step[<<f[n], n + 1>>] \in S
    BY <2>1, <2>3
  <2>5. QED
    BY <2>1, <2>2, <2>4
<1>4. \A n \in 0 .. N : f[n] \in S
  BY <1>2, <1>3, UpTo
<1>5. f = [n \in 0 .. N |-> f[n]]
  BY DEF Follow
<1>6. QED
  BY <1>4, <1>5

(***************************************************************************)
(* The sum of the bytes of a sequence of entries.                          *)
(***************************************************************************)
Weighed(E) == \A e \in E : e.bytes \in Nat

LEMMA SumsFacts ==
  ASSUME NEW E, Weighed(E), NEW s \in Seq(E)
  PROVE  /\ Sums(s) \in [0 .. Len(s) -> Nat]
         /\ Sums(s)[0] = 0
         /\ \A n \in 1 .. Len(s) : Sums(s)[n] = Sums(s)[n - 1] + s[n].bytes
<1> DEFINE step == [p \in Nat \X Nat |-> p[1] + (IF p[2] \in 1 .. Len(s) THEN s[p[2]].bytes ELSE 0)]
<1>1. Len(s) \in Nat /\ \A n \in 1 .. Len(s) : s[n].bytes \in Nat
  BY DEF Weighed
<1>2. step \in [Nat \X Nat -> Nat] /\ \A a, n \in Nat : step[<<a, n>>] = a + (IF n \in 1 .. Len(s) THEN s[n].bytes ELSE 0)
  BY <1>1
<1> HIDE DEF step
<1>3. PICK f : Follow(f, Len(s), 0, step)
  BY <1>1, <1>2, FollowExists
<1>4. f \in [0 .. Len(s) -> Nat]
  BY <1>1, <1>2, <1>3, FollowTyped
<1>5. \A n \in 0 .. Len(s) : n # 0 => step[<<f[n - 1], n>>] = f[n - 1] + s[n].bytes
  <2>1. ASSUME NEW n \in 0 .. Len(s), n # 0 PROVE step[<<f[n - 1], n>>] = f[n - 1] + s[n].bytes
    <3>1. n \in Nat /\ n \in 1 .. Len(s) /\ n - 1 \in 0 .. Len(s)
      BY <1>1, <2>1
    <3>2. f[n - 1] \in Nat
      BY <1>4, <3>1
    <3>3. QED
      BY <1>2, <3>1, <3>2
  <2>2. QED
    BY <2>1
<1>6. f = [n \in 0 .. Len(s) |-> IF n = 0 THEN 0 ELSE f[n - 1] + s[n].bytes]
  BY <1>3, <1>5 DEF Follow
<1>7. Sums(s) = [n \in 0 .. Len(s) |-> IF n = 0 THEN 0 ELSE Sums(s)[n - 1] + s[n].bytes]
  BY <1>6 DEF Sums
<1> DEFINE g == Sums(s)
<1>8. g = [n \in 0 .. Len(s) |-> IF n = 0 THEN 0 ELSE g[n - 1] + s[n].bytes]
  BY <1>7
<1> HIDE DEF g
<1>9. g[0] = 0 /\ \A n \in 1 .. Len(s) : g[n] = g[n - 1] + s[n].bytes
  <2>1. 0 \in 0 .. Len(s) /\ 1 .. Len(s) \subseteq 0 .. Len(s) /\ 0 \notin 1 .. Len(s)
    BY <1>1
  <2>2. \A n \in 0 .. Len(s) : g[n] = IF n = 0 THEN 0 ELSE g[n - 1] + s[n].bytes
    BY <1>8
  <2>3. QED
    BY <2>1, <2>2
<1>10. g \in [0 .. Len(s) -> Nat]
  <2> DEFINE T == {n \in 0 .. Len(s) : g[n] \in Nat}
  <2>1. 0 \in T
    BY <1>1, <1>9
  <2>2. ASSUME NEW n \in 0 .. Len(s) - 1, n \in T PROVE n + 1 \in T
    <3>1. n + 1 \in 1 .. Len(s) /\ (n + 1) - 1 = n
      BY <1>1
    <3>2. g[n + 1] = g[n] + s[n + 1].bytes
      BY <1>9, <3>1
    <3>3. QED
      BY <1>1, <2>2, <3>1, <3>2
  <2>3. \A n \in 0 .. Len(s) : g[n] \in Nat
    BY <1>1, <2>1, <2>2, UpTo
  <2>4. g = [n \in 0 .. Len(s) |-> g[n]]
    BY <1>8
  <2>5. QED
    BY <2>3, <2>4
<1>11. QED
  BY <1>9, <1>10 DEF g

(* A stretch of one sequence that is found in another adds the same.        *)
Stretch(s, i, t, j, n) ==
  /\ {i, j, n} \subseteq Nat
  /\ i + n <= Len(s) /\ j + n <= Len(t)
  /\ \A k \in 1 .. n : s[i + k] = t[j + k]

LEMMA SumsOfStretch ==
  ASSUME NEW E, Weighed(E), NEW s \in Seq(E), NEW t \in Seq(E), NEW i, NEW j, NEW n, Stretch(s, i, t, j, n)
  PROVE  Sums(s)[i + n] - Sums(s)[i] = Sums(t)[j + n] - Sums(t)[j]
<1>0. /\ i \in Nat /\ j \in Nat /\ n \in Nat
      /\ i + n <= Len(s) /\ j + n <= Len(t)
      /\ \A k \in 1 .. n : s[i + k] = t[j + k]
  BY DEF Stretch
<1> DEFINE f == Sums(s)
           g == Sums(t)
           T == {k \in 0 .. n : f[i + k] - f[i] = g[j + k] - g[j]}
<1>1. /\ f \in [0 .. Len(s) -> Nat] /\ \A k \in 1 .. Len(s) : f[k] = f[k - 1] + s[k].bytes
      /\ g \in [0 .. Len(t) -> Nat] /\ \A k \in 1 .. Len(t) : g[k] = g[k - 1] + t[k].bytes
      /\ Len(s) \in Nat /\ Len(t) \in Nat
  BY SumsFacts
<1>2. \A k \in 1 .. Len(s) : s[k].bytes \in Nat
  BY DEF Weighed
<1> HIDE DEF f, g
<1>3. 0 \in T
  <2>1. i \in 0 .. Len(s) /\ j \in 0 .. Len(t)
    BY <1>0, <1>1
  <2>2. f[i] \in Nat /\ g[j] \in Nat
    BY <1>1, <2>1
  <2>3. i + 0 = i /\ j + 0 = j /\ 0 \in 0 .. n
    BY <1>0
  <2>4. f[i] - f[i] = 0 /\ g[j] - g[j] = 0
    BY <2>2
  <2>5. QED
    BY <2>3, <2>4
<1>4. ASSUME NEW k \in 0 .. n - 1, k \in T PROVE k + 1 \in T
  <2>0. k \in Nat /\ k + 1 <= n /\ Len(s) \in Nat /\ Len(t) \in Nat
    BY <1>0, <1>1
  <2>1. /\ i + (k + 1) \in 1 .. Len(s) /\ (i + (k + 1)) - 1 = i + k /\ i + k \in 0 .. Len(s) /\ i \in 0 .. Len(s)
        /\ j + (k + 1) \in 1 .. Len(t) /\ (j + (k + 1)) - 1 = j + k /\ j + k \in 0 .. Len(t) /\ j \in 0 .. Len(t)
        /\ k + 1 \in 1 .. n
    <3>1. i + (k + 1) <= i + n /\ j + (k + 1) <= j + n
      BY <1>0, <2>0
    <3>2. i + (k + 1) <= Len(s) /\ j + (k + 1) <= Len(t)
      BY <1>0, <1>1, <2>0, <3>1
    <3>3. QED
      BY <1>0, <2>0, <3>2
  <2>2. /\ f[i + (k + 1)] = f[i + k] + s[i + (k + 1)].bytes
        /\ g[j + (k + 1)] = g[j + k] + t[j + (k + 1)].bytes
    BY <1>1, <2>1
  <2>3. s[i + (k + 1)] = t[j + (k + 1)] /\ s[i + (k + 1)].bytes \in Nat
    BY <1>0, <1>2, <2>1
  <2>4. f[i + k] \in Nat /\ g[j + k] \in Nat /\ f[i] \in Nat /\ g[j] \in Nat
    BY <1>1, <2>1
  <2>5. f[i + k] - f[i] = g[j + k] - g[j]
    BY <1>4
  <2>6. f[i + (k + 1)] - f[i] = g[j + (k + 1)] - g[j]
    <3>1. PICK a, b, c, d, e : /\ a = f[i + k] /\ b = f[i] /\ c = g[j + k] /\ d = g[j]
                              /\ e = s[i + (k + 1)].bytes
      OBVIOUS
    <3>2. a \in Nat /\ b \in Nat /\ c \in Nat /\ d \in Nat /\ e \in Nat /\ a - b = c - d
      BY <2>3, <2>4, <2>5, <3>1
    <3>3. (a + e) - b = (c + e) - d
      BY <3>2
    <3>4. f[i + (k + 1)] = a + e /\ g[j + (k + 1)] = c + e
      BY <2>2, <2>3, <3>1
    <3>5. QED
      BY <3>1, <3>3, <3>4
  <2>7. QED
    BY <2>1, <2>6
<1>5. \A k \in 0 .. n : k \in T
  <2> HIDE DEF T
  <2>1. QED
    BY <1>0, <1>3, <1>4, UpTo
<1>6. n \in T
  BY <1>0, <1>5
<1>7. QED
  BY <1>6 DEF f, g

LEMMA TotalFacts ==
  ASSUME NEW E, Weighed(E), NEW s \in Seq(E)
  PROVE  /\ Total(s) \in Nat
         /\ Len(s) = 0 => Total(s) = 0
BY SumsFacts DEF Total

LEMMA TotalAppend ==
  ASSUME NEW E, Weighed(E), NEW s \in Seq(E), NEW e \in E
  PROVE  Total(Append(s, e)) = Total(s) + e.bytes
<1> DEFINE t == Append(s, e)
<1>1. /\ t \in Seq(E) /\ Len(s) \in Nat /\ Len(t) = Len(s) + 1
      /\ \A k \in 1 .. Len(s) : t[k] = s[k]
      /\ t[Len(s) + 1] = e
  BY AppendProperties
<1> HIDE DEF t
<1>2. /\ Sums(t)[0] = 0 /\ Sums(s)[0] = 0 /\ Sums(s)[Len(s)] \in Nat /\ Sums(t)[Len(s)] \in Nat
      /\ Sums(t)[Len(s) + 1] = Sums(t)[(Len(s) + 1) - 1] + t[Len(s) + 1].bytes
  <2>1. /\ Sums(t) \in [0 .. Len(t) -> Nat] /\ Sums(t)[0] = 0
        /\ \A n \in 1 .. Len(t) : Sums(t)[n] = Sums(t)[n - 1] + t[n].bytes
    BY <1>1, SumsFacts
  <2>2. Sums(s) \in [0 .. Len(s) -> Nat] /\ Sums(s)[0] = 0
    BY SumsFacts
  <2>3. QED
    BY <1>1, <2>1, <2>2
<1>3. Sums(t)[Len(s)] - Sums(t)[0] = Sums(s)[Len(s)] - Sums(s)[0]
  <2>1. PICK z \in Nat, n \in Nat : z = 0 /\ n = Len(s)
    BY <1>1
  <2>2. Stretch(t, z, s, z, n)
    BY <1>1, <2>1 DEF Stretch
  <2>3. Sums(t)[z + n] - Sums(t)[z] = Sums(s)[z + n] - Sums(s)[z]
    BY <1>1, <2>2, SumsOfStretch
  <2>4. z + n = n
    BY <2>1
  <2>5. QED
    BY <2>1, <2>3, <2>4
<1>4. Sums(t)[Len(s)] = Sums(s)[Len(s)]
  BY <1>2, <1>3
<1>5. (Len(s) + 1) - 1 = Len(s)
  BY <1>1
<1>6. QED
  BY <1>1, <1>2, <1>4, <1>5 DEF Total, t

(* A sequence cut in two.                                                   *)
LEMMA TotalOfCut ==
  ASSUME NEW E, Weighed(E), NEW s \in Seq(E), NEW n \in 0 .. Len(s)
  PROVE  /\ SubSeq(s, 1, n) \in Seq(E) /\ Total(SubSeq(s, 1, n)) = Sums(s)[n]
         /\ SubSeq(s, n + 1, Len(s)) \in Seq(E) /\ Len(SubSeq(s, n + 1, Len(s))) = Len(s) - n
         /\ Total(SubSeq(s, n + 1, Len(s))) = Total(s) - Sums(s)[n]
<1> DEFINE a == SubSeq(s, 1, n)
           b == SubSeq(s, n + 1, Len(s))
<1>1. Len(s) \in Nat /\ n \in Nat /\ \A k \in 1 .. Len(s) : s[k] \in E
  OBVIOUS
<1>2. a \in Seq(E) /\ Len(a) = n /\ \A k \in 1 .. n : a[k] = s[k]
  BY <1>1
<1>3. b \in Seq(E) /\ Len(b) = Len(s) - n /\ \A k \in 1 .. Len(s) - n : b[k] = s[n + k]
  BY <1>1
<1> HIDE DEF a, b
<1>4. /\ Sums(s)[0] = 0 /\ Sums(s)[n] \in Nat /\ Sums(s)[Len(s)] \in Nat
      /\ Sums(a)[0] = 0 /\ Sums(a)[n] \in Nat /\ Sums(b)[0] = 0 /\ Sums(b)[Len(s) - n] \in Nat
  <2>1. Sums(s) \in [0 .. Len(s) -> Nat] /\ Sums(s)[0] = 0
    BY SumsFacts
  <2>2. Sums(a) \in [0 .. n -> Nat] /\ Sums(a)[0] = 0
    BY <1>2, SumsFacts
  <2>3. Sums(b) \in [0 .. Len(s) - n -> Nat] /\ Sums(b)[0] = 0
    BY <1>3, SumsFacts
  <2>4. /\ 0 \in 0 .. Len(s) /\ n \in 0 .. Len(s) /\ Len(s) \in 0 .. Len(s) /\ n \in 0 .. n
        /\ Len(s) - n \in 0 .. Len(s) - n
    BY <1>1
  <2>5. QED
    BY <2>1, <2>2, <2>3, <2>4
<1>5. Sums(a)[n] - Sums(a)[0] = Sums(s)[n] - Sums(s)[0]
  <2>1. PICK z \in Nat : z = 0
    OBVIOUS
  <2>2. Stretch(a, z, s, z, n)
    BY <1>1, <1>2, <2>1 DEF Stretch
  <2>3. Sums(a)[z + n] - Sums(a)[z] = Sums(s)[z + n] - Sums(s)[z]
    BY <1>2, <2>2, SumsOfStretch
  <2>4. z + n = n
    BY <1>1, <2>1
  <2>5. QED
    BY <2>1, <2>3, <2>4
<1>6. Sums(b)[Len(s) - n] - Sums(b)[0] = Sums(s)[Len(s)] - Sums(s)[n]
  <2>1. PICK z \in Nat, m \in Nat, e \in Nat : z = 0 /\ m = Len(s) - n /\ e = Len(s)
    <3>1. Len(s) - n \in Nat
      BY <1>1
    <3>2. QED
      BY <1>1, <3>1
  <2>2. Stretch(b, z, s, n, m)
    BY <1>1, <1>3, <2>1 DEF Stretch
  <2>3. Sums(b)[z + m] - Sums(b)[z] = Sums(s)[n + m] - Sums(s)[n]
    BY <1>3, <2>2, SumsOfStretch
  <2>4. z + m = m /\ n + m = e
    BY <1>1, <2>1
  <2>5. QED
    BY <2>1, <2>3, <2>4
<1>8. Sums(a)[n] = Sums(s)[n] /\ Sums(b)[Len(s) - n] = Sums(s)[Len(s)] - Sums(s)[n]
  BY <1>4, <1>5, <1>6
<1>9. QED
  BY <1>2, <1>3, <1>8 DEF Total, a, b

LEMMA RemoveAtFacts ==
  ASSUME NEW E, NEW s \in Seq(E), NEW n \in 1 .. Len(s)
  PROVE  /\ RemoveAt(s, n) \in Seq(E) /\ Len(RemoveAt(s, n)) = Len(s) - 1
         /\ \A k \in 1 .. Len(s) - 1 : RemoveAt(s, n)[k] = s[IF k < n THEN k ELSE k + 1]
<1> DEFINE a == SubSeq(s, 1, n - 1)
           b == SubSeq(s, n + 1, Len(s))
<1>1. Len(s) \in Nat /\ n \in Nat /\ \A k \in 1 .. Len(s) : s[k] \in E
  OBVIOUS
<1>2. a \in Seq(E) /\ Len(a) = n - 1 /\ \A k \in 1 .. n - 1 : a[k] = s[k]
  BY <1>1
<1>3. b \in Seq(E) /\ Len(b) = Len(s) - n /\ \A k \in 1 .. Len(s) - n : b[k] = s[n + k]
  BY <1>1
<1>4. RemoveAt(s, n) = a \o b
  BY DEF RemoveAt
<1> HIDE DEF a, b
<1>5. /\ a \o b \in Seq(E) /\ Len(a \o b) = Len(a) + Len(b)
      /\ \A k \in 1 .. Len(a) + Len(b) : (a \o b)[k] = IF k <= Len(a) THEN a[k] ELSE b[k - Len(a)]
  BY <1>2, <1>3, ConcatProperties
<1>6. Len(a) + Len(b) = Len(s) - 1
  BY <1>1, <1>2, <1>3
<1>7. ASSUME NEW k \in 1 .. Len(s) - 1 PROVE (a \o b)[k] = s[IF k < n THEN k ELSE k + 1]
  <2>1. CASE k < n
    <3>1. k <= Len(a) /\ k \in 1 .. n - 1
      BY <1>1, <1>2, <2>1
    <3>2. QED
      BY <1>2, <1>5, <1>6, <2>1, <3>1
  <2>2. CASE ~(k < n)
    <3>1. ~(k <= Len(a)) /\ k - Len(a) \in 1 .. Len(s) - n /\ n + (k - Len(a)) = k + 1
      BY <1>1, <1>2, <2>2
    <3>2. QED
      BY <1>3, <1>5, <1>6, <2>2, <3>1
  <2>3. QED
    BY <2>1, <2>2
<1>8. QED
  BY <1>4, <1>5, <1>6, <1>7

LEMMA TotalRemoveAt ==
  ASSUME NEW E, Weighed(E), NEW s \in Seq(E), NEW n \in 1 .. Len(s)
  PROVE  Total(RemoveAt(s, n)) = Total(s) - s[n].bytes
<1> DEFINE r == RemoveAt(s, n)
           m == Len(s) - n
<1>1. /\ r \in Seq(E) /\ Len(r) = Len(s) - 1
      /\ \A k \in 1 .. Len(s) - 1 : r[k] = s[IF k < n THEN k ELSE k + 1]
  BY RemoveAtFacts
<1>2. Len(s) \in Nat /\ n \in Nat /\ m \in Nat
  OBVIOUS
<1> HIDE DEF r
<1>3. /\ Sums(s)[0] = 0 /\ Sums(s)[n - 1] \in Nat /\ Sums(s)[Len(s)] \in Nat /\ Sums(s)[n] \in Nat
      /\ Sums(s)[n] = Sums(s)[n - 1] + s[n].bytes /\ s[n].bytes \in Nat
  <2>1. /\ Sums(s) \in [0 .. Len(s) -> Nat] /\ Sums(s)[0] = 0
        /\ \A k \in 1 .. Len(s) : Sums(s)[k] = Sums(s)[k - 1] + s[k].bytes
    BY SumsFacts
  <2>2. s[n].bytes \in Nat
    BY DEF Weighed
  <2>3. n - 1 \in 0 .. Len(s) /\ n \in 0 .. Len(s) /\ Len(s) \in 0 .. Len(s)
    BY <1>2
  <2>4. QED
    BY <2>1, <2>2, <2>3
<1>4. /\ Sums(r)[0] = 0 /\ Sums(r)[n - 1] \in Nat /\ Sums(r)[Len(s) - 1] \in Nat
  <2>1. Sums(r) \in [0 .. Len(s) - 1 -> Nat] /\ Sums(r)[0] = 0
    BY <1>1, SumsFacts
  <2>2. n - 1 \in 0 .. Len(s) - 1 /\ Len(s) - 1 \in 0 .. Len(s) - 1
    BY <1>2
  <2>3. QED
    BY <2>1, <2>2
<1>5. Sums(r)[n - 1] - Sums(r)[0] = Sums(s)[n - 1] - Sums(s)[0]
  <2>1. PICK z \in Nat, p \in Nat : z = 0 /\ p = n - 1
    <3>1. n - 1 \in Nat
      BY <1>2
    <3>2. QED
      BY <3>1
  <2>2. Stretch(r, z, s, z, p)
    BY <1>1, <1>2, <2>1 DEF Stretch
  <2>3. Sums(r)[z + p] - Sums(r)[z] = Sums(s)[z + p] - Sums(s)[z]
    BY <1>1, <2>2, SumsOfStretch
  <2>4. z + p = p
    BY <2>1
  <2>5. QED
    BY <2>1, <2>3, <2>4
<1>6. Sums(r)[Len(s) - 1] - Sums(r)[n - 1] = Sums(s)[Len(s)] - Sums(s)[n]
  <2>1. PICK p \in Nat, d \in Nat, e \in Nat : p = n - 1 /\ d = Len(s) - 1 /\ e = Len(s)
    <3>1. n - 1 \in Nat /\ Len(s) - 1 \in Nat
      BY <1>2
    <3>2. QED
      BY <1>2, <3>1
  <2>2. ASSUME NEW k \in 1 .. m PROVE r[p + k] = s[n + k]
    <3>1. p + k \in 1 .. Len(s) - 1 /\ ~(p + k < n) /\ (p + k) + 1 = n + k
      BY <1>2, <2>1
    <3>2. QED
      BY <1>1, <3>1
  <2>3. p + m = d /\ n + m = e
    BY <1>2, <2>1
  <2>4. Stretch(r, p, s, n, m)
    BY <1>1, <1>2, <2>1, <2>2, <2>3 DEF Stretch
  <2>5. Sums(r)[p + m] - Sums(r)[p] = Sums(s)[n + m] - Sums(s)[n]
    BY <1>1, <2>4, SumsOfStretch
  <2>6. QED
    BY <2>1, <2>3, <2>5
<1>8. Sums(r)[Len(s) - 1] = Sums(s)[Len(s)] - s[n].bytes
  <2>1. PICK a, b, c, d, e, w : /\ a = Sums(r)[n - 1] /\ b = Sums(r)[Len(s) - 1] /\ c = Sums(s)[n - 1]
                              /\ d = Sums(s)[n] /\ e = Sums(s)[Len(s)] /\ w = s[n].bytes
    OBVIOUS
  <2>2. {a, b, c, d, e, w} \subseteq Nat /\ a - 0 = c - 0 /\ b - a = e - d /\ d = c + w
    BY <1>3, <1>4, <1>5, <1>6, <2>1
  <2>3. b = e - w
    BY <2>2
  <2>4. QED
    BY <2>1, <2>3
<1>9. QED
  BY <1>1, <1>8 DEF Total, r

(***************************************************************************)
(* The cache.                                                              *)
(***************************************************************************)
Items == [turn : Turns, whole : BOOLEAN]
Keys == ({"snapshot", "replay"} \X Turns) \cup ({"adapted"} \X Nat)
Values == [model : Models, input : Seq(Items)] \cup {"empty", "whole", "true"}
Entries == [key : Keys, value : Values, bytes : Nat]
Caches == [entries : Seq(Entries), bytes : Nat]

(* No key is held twice, and the counter is exact.                          *)
Exact(c) ==
  /\ c \in Caches /\ c.bytes = Total(c.entries)
  /\ \A i, j \in 1 .. Len(c.entries) : c.entries[i].key = c.entries[j].key => i = j

Good(c) == Exact(c) /\ Len(c.entries) <= MaxEntries /\ c.bytes <= MaxBytes

(* What is found in a cache.                                                *)
Holds(c, key, value) ==
  \E i \in 1 .. Len(c.entries) : c.entries[i].key = key /\ c.entries[i].value = value

LEMMA EntriesWeighed == Weighed(Entries)
BY DEF Weighed, Entries

LEMMA CacheFields ==
  ASSUME NEW c \in Caches
  PROVE  c.entries \in Seq(Entries) /\ Len(c.entries) \in Nat /\ c.bytes \in Nat
         /\ DOMAIN c.entries = 1 .. Len(c.entries)
BY DEF Caches

LEMMA MakeCache ==
  ASSUME NEW entries \in Seq(Entries), NEW bytes \in Nat
  PROVE  /\ [entries |-> entries, bytes |-> bytes] \in Caches
         /\ [entries |-> entries, bytes |-> bytes].entries = entries
         /\ [entries |-> entries, bytes |-> bytes].bytes = bytes
BY DEF Caches

LEMMA GoodIsWithinBudget ==
  ASSUME NEW c, Good(c) PROVE WithinBudget(c)
<1>1. c \in Caches /\ DOMAIN c.entries = 1 .. Len(c.entries)
  BY CacheFields DEF Good, Exact
<1>2. QED
  BY <1>1 DEF Good, Exact, WithinBudget

LEMMA Position ==
  ASSUME NEW c \in Caches, NEW key, Has(c, key)
  PROVE  \E i \in 1 .. Len(c.entries) : c.entries[i].key = key /\ i = CHOOSE j \in At(c, key) : TRUE
BY CacheFields DEF Has, At

LEMMA FoundIsHeld ==
  ASSUME NEW c \in Caches, NEW key, Has(c, key)
  PROVE  Holds(c, key, Value(c, key))
<1>1. PICK i \in 1 .. Len(c.entries) : c.entries[i].key = key /\ i = CHOOSE j \in At(c, key) : TRUE
  BY Position
<1>2. Value(c, key) = c.entries[i].value
  BY <1>1 DEF Value, Entry
<1>3. QED
  BY <1>1, <1>2 DEF Holds

LEMMA DropFacts ==
  ASSUME NEW c, Exact(c), NEW key
  PROVE  /\ Exact(Drop(c, key))
         /\ Len(Drop(c, key).entries) <= Len(c.entries) /\ Drop(c, key).bytes <= c.bytes
         /\ \A i \in 1 .. Len(Drop(c, key).entries) : Drop(c, key).entries[i].key # key
         /\ \A k, v : Holds(Drop(c, key), k, v) => Holds(c, k, v)
         /\ Has(c, key) => /\ Len(Drop(c, key).entries) = Len(c.entries) - 1
                          /\ Drop(c, key).bytes = c.bytes - Entry(c, key).bytes
                          /\ Entry(c, key) \in Entries /\ Entry(c, key).key = key
                          /\ Holds(c, key, Entry(c, key).value)
<1>1. /\ c \in Caches /\ c.entries \in Seq(Entries) /\ Len(c.entries) \in Nat /\ c.bytes \in Nat
      /\ DOMAIN c.entries = 1 .. Len(c.entries) /\ c.bytes = Total(c.entries)
      /\ \A i, j \in 1 .. Len(c.entries) : c.entries[i].key = c.entries[j].key => i = j
  BY CacheFields DEF Exact
<1>2. CASE ~Has(c, key)
  <2>1. Drop(c, key) = c
    BY <1>2 DEF Drop
  <2>2. \A i \in 1 .. Len(c.entries) : c.entries[i].key # key
    BY <1>1, <1>2 DEF Has, At
  <2>3. QED
    BY <1>1, <1>2, <2>1, <2>2
<1>3. CASE Has(c, key)
  <2>1. PICK i \in 1 .. Len(c.entries) : c.entries[i].key = key /\ i = CHOOSE j \in At(c, key) : TRUE
    BY <1>1, <1>3, Position
  <2> DEFINE r == RemoveAt(c.entries, i)
             w == c.entries[i].bytes
  <2>2. Entry(c, key) = c.entries[i] /\ c.entries[i] \in Entries /\ w \in Nat
    BY <1>1, <2>1, EntriesWeighed DEF Entry, Weighed
  <2>3. Drop(c, key) = [entries |-> r, bytes |-> c.bytes - w]
    BY <1>3, <2>1, <2>2 DEF Drop
  <2>4. /\ r \in Seq(Entries) /\ Len(r) = Len(c.entries) - 1
        /\ \A k \in 1 .. Len(c.entries) - 1 : r[k] = c.entries[IF k < i THEN k ELSE k + 1]
    BY <1>1, RemoveAtFacts
  <2>5. Total(r) = c.bytes - w /\ Total(r) \in Nat
    BY <1>1, <2>4, EntriesWeighed, TotalRemoveAt, TotalFacts
  <2> HIDE DEF r, w
  <2>6. Drop(c, key) \in Caches /\ Drop(c, key).entries = r /\ Drop(c, key).bytes = Total(r)
    BY <2>3, <2>4, <2>5, MakeCache
  <2>7. \A k \in 1 .. Len(r) : \E j \in 1 .. Len(c.entries) :
           r[k] = c.entries[j] /\ j # i /\ j = IF k < i THEN k ELSE k + 1
    <3>1. ASSUME NEW k \in 1 .. Len(r)
          PROVE  (IF k < i THEN k ELSE k + 1) \in 1 .. Len(c.entries) /\ (IF k < i THEN k ELSE k + 1) # i
                 /\ k \in 1 .. Len(c.entries) - 1
      BY <1>1, <2>4
    <3>2. QED
      BY <2>4, <3>1
  <2>8. \A k, l \in 1 .. Len(r) : r[k].key = r[l].key => k = l
    <3> SUFFICES ASSUME NEW k \in 1 .. Len(r), NEW l \in 1 .. Len(r), r[k].key = r[l].key PROVE k = l
      OBVIOUS
    <3>1. PICK j \in 1 .. Len(c.entries) : r[k] = c.entries[j] /\ j = IF k < i THEN k ELSE k + 1
      BY <2>7
    <3>2. PICK m \in 1 .. Len(c.entries) : r[l] = c.entries[m] /\ m = IF l < i THEN l ELSE l + 1
      BY <2>7
    <3>3. j = m
      BY <1>1, <3>1, <3>2
    <3>4. k \in Int /\ l \in Int /\ i \in Int
      OBVIOUS
    <3>5. QED
      BY <3>1, <3>2, <3>3, <3>4
  <2>9. \A k \in 1 .. Len(r) : r[k].key # key
    BY <1>1, <2>1, <2>7
  <2>10. \A k, v : Holds(Drop(c, key), k, v) => Holds(c, k, v)
    BY <2>6, <2>7 DEF Holds
  <2>11. Holds(c, key, Entry(c, key).value)
    BY <2>1, <2>2 DEF Holds
  <2>12. Exact(Drop(c, key))
    BY <2>6, <2>8 DEF Exact
  <2>13. Len(r) <= Len(c.entries) /\ Total(r) <= c.bytes
    BY <1>1, <2>2, <2>4, <2>5
  <2>14. Drop(c, key).bytes = c.bytes - Entry(c, key).bytes /\ Entry(c, key).key = key
    BY <2>1, <2>2, <2>5, <2>6 DEF w
  <2>15. QED
    BY <2>2, <2>4, <2>6, <2>9, <2>10, <2>11, <2>12, <2>13, <2>14
<1>4. QED
  BY <1>2, <1>3

LEMMA AppendFacts ==
  ASSUME NEW c, Exact(c), NEW e \in Entries,
         \A i \in 1 .. Len(c.entries) : c.entries[i].key # e.key
  PROVE  LET d == [entries |-> Append(c.entries, e), bytes |-> c.bytes + e.bytes] IN
         /\ Exact(d) /\ Len(d.entries) = Len(c.entries) + 1 /\ d.bytes = c.bytes + e.bytes
         /\ \A k, v : Holds(d, k, v) =>
              (k = e.key /\ v = e.value) \/ (k # e.key /\ Holds(c, k, v))
<1> DEFINE s == Append(c.entries, e)
           d == [entries |-> s, bytes |-> c.bytes + e.bytes]
<1>1. /\ c \in Caches /\ c.entries \in Seq(Entries) /\ Len(c.entries) \in Nat /\ c.bytes \in Nat
      /\ c.bytes = Total(c.entries)
      /\ \A i, j \in 1 .. Len(c.entries) : c.entries[i].key = c.entries[j].key => i = j
  BY CacheFields DEF Exact
<1>2. e.bytes \in Nat
  BY EntriesWeighed DEF Weighed
<1>3. /\ s \in Seq(Entries) /\ Len(s) = Len(c.entries) + 1
      /\ \A i \in 1 .. Len(c.entries) : s[i] = c.entries[i]
      /\ s[Len(c.entries) + 1] = e
  BY <1>1, AppendProperties
<1>4. Total(s) = c.bytes + e.bytes /\ c.bytes + e.bytes \in Nat
  BY <1>1, <1>2, EntriesWeighed, TotalAppend
<1> HIDE DEF s
<1>5. d \in Caches /\ d.entries = s /\ d.bytes = c.bytes + e.bytes
  BY <1>3, <1>4, MakeCache
<1> HIDE DEF d
<1>6. \A i \in 1 .. Len(s) : i \in 1 .. Len(c.entries) \/ i = Len(c.entries) + 1
  BY <1>1, <1>3
<1>7. \A i, j \in 1 .. Len(s) : s[i].key = s[j].key => i = j
  BY <1>1, <1>3, <1>6
<1>8. Exact(d)
  BY <1>4, <1>5, <1>7 DEF Exact
<1>9. ASSUME NEW k, NEW v, Holds(d, k, v)
      PROVE  (k = e.key /\ v = e.value) \/ (k # e.key /\ Holds(c, k, v))
  <2>1. PICK i \in 1 .. Len(s) : s[i].key = k /\ s[i].value = v
    BY <1>5, <1>9 DEF Holds
  <2>2. CASE i \in 1 .. Len(c.entries)
    BY <1>3, <2>1, <2>2 DEF Holds
  <2>3. CASE i = Len(c.entries) + 1
    BY <1>3, <2>1, <2>3
  <2>4. QED
    BY <1>6, <2>2, <2>3
<1>10. QED
  BY <1>3, <1>5, <1>8, <1>9 DEF d, s

(* The loop of put() ends, at the latest when the cache is empty, and within*)
(* the budget.                                                              *)
LEMMA EvictFacts ==
  ASSUME NEW c, Exact(c)
  PROVE  Good(Evict(c)) /\ \A k, v : Holds(Evict(c), k, v) => Holds(c, k, v)
<1> DEFINE n == Len(c.entries)
           rest(k) == SubSeq(c.entries, k + 1, Len(c.entries))
           left(k) == [entries |-> SubSeq(c.entries, k + 1, Len(c.entries)),
                       bytes |-> c.bytes - Total(SubSeq(c.entries, 1, k))]
           fits(k) == Len(left(k).entries) <= MaxEntries /\ left(k).bytes <= MaxBytes
           T == {k \in 0 .. n : fits(k)}
<1>1. /\ c \in Caches /\ c.entries \in Seq(Entries) /\ n \in Nat /\ c.bytes \in Nat
      /\ c.bytes = Total(c.entries)
      /\ \A i, j \in 1 .. n : c.entries[i].key = c.entries[j].key => i = j
  BY CacheFields DEF Exact
<1>2. ASSUME NEW k \in 0 .. n
      PROVE  /\ left(k).entries = rest(k) /\ left(k).bytes = Total(rest(k)) /\ left(k) \in Caches
             /\ rest(k) \in Seq(Entries) /\ Len(rest(k)) = n - k
  <2>1. /\ Total(SubSeq(c.entries, 1, k)) = Sums(c.entries)[k]
        /\ rest(k) \in Seq(Entries) /\ Len(rest(k)) = n - k
        /\ Total(rest(k)) = Total(c.entries) - Sums(c.entries)[k]
    BY <1>1, EntriesWeighed, TotalOfCut
  <2>2. Total(rest(k)) \in Nat
    BY <2>1, EntriesWeighed, TotalFacts
  <2>3. c.bytes - Total(SubSeq(c.entries, 1, k)) = Total(rest(k))
    BY <1>1, <2>1
  <2> HIDE DEF n
  <2>4. left(k) = [entries |-> rest(k), bytes |-> Total(rest(k))]
    BY <2>3
  <2> HIDE DEF left, rest
  <2>5. QED
    BY <2>1, <2>2, <2>4, MakeCache
<1>3. n \in T
  <2>1. n \in 0 .. n /\ n - n = 0
    BY <1>1
  <2>2. left(n).entries = rest(n) /\ left(n).bytes = Total(rest(n)) /\ rest(n) \in Seq(Entries) /\ Len(rest(n)) = n - n
    BY <1>2, <2>1
  <2> HIDE DEF left, rest
  <2>3. Len(left(n).entries) = 0 /\ left(n).bytes = 0
    BY <2>1, <2>2, EntriesWeighed, TotalFacts
  <2>4. QED
    BY <2>1, <2>3, CacheAssumption
<1> HIDE DEF n, left, rest
<1>4. PICK m \in T : \A k \in T : m <= k
  <2>1. T \in SUBSET Nat
    BY <1>1
  <2>2. QED
    BY <1>3, <2>1, LeastNumber
<1>5. \E k \in 0 .. n : fits(k) /\ \A j \in 0 .. k - 1 : ~fits(j)
  <2>1. m \in 0 .. n /\ fits(m)
    BY <1>4
  <2>2. \A j \in 0 .. m - 1 : j \in 0 .. n /\ ~(m <= j)
    BY <1>1, <2>1
  <2>3. QED
    BY <1>4, <2>1, <2>2
<1>6. PICK k \in 0 .. n : fits(k) /\ Evict(c) = left(k)
  <2>1. Evict(c) = left(CHOOSE k \in 0 .. n : fits(k) /\ \A j \in 0 .. k - 1 : ~fits(j))
    BY DEF Evict, left, n
  <2>2. QED
    BY <1>5, <2>1
<1>7. /\ Evict(c) \in Caches /\ Evict(c).entries = rest(k) /\ Evict(c).bytes = Total(rest(k))
      /\ rest(k) \in Seq(Entries) /\ Len(rest(k)) = n - k
      /\ Len(rest(k)) <= MaxEntries /\ Total(rest(k)) <= MaxBytes
  BY <1>2, <1>6
<1>8. \A i \in 1 .. n - k : k + i \in 1 .. n /\ rest(k)[i] = c.entries[k + i]
  BY <1>1 DEF rest, n
<1>9. \A i, j \in 1 .. n - k : rest(k)[i].key = rest(k)[j].key => i = j
  <2> SUFFICES ASSUME NEW i \in 1 .. n - k, NEW j \in 1 .. n - k, rest(k)[i].key = rest(k)[j].key PROVE i = j
    OBVIOUS
  <2>1. k + i = k + j
    BY <1>1, <1>8
  <2>2. QED
    BY <1>1, <2>1
<1>10. \A key, v : Holds(Evict(c), key, v) => Holds(c, key, v)
  BY <1>7, <1>8 DEF Holds, n
<1>11. QED
  BY <1>7, <1>9, <1>10 DEF Good, Exact

LEMMA PutFacts ==
  ASSUME NEW c, Good(c), NEW key \in Keys, NEW value \in Values, NEW bytes \in Nat
  PROVE  /\ Good(Put(c, key, value, bytes))
         /\ \A k, v : Holds(Put(c, key, value, bytes), k, v) =>
              (k = key /\ v = value) \/ (k # key /\ Holds(c, k, v))
<1> DEFINE rest == Drop(c, key)
           e == [key |-> key, value |-> value, bytes |-> bytes]
           d == [entries |-> Append(rest.entries, e), bytes |-> rest.bytes + e.bytes]
<1>1. /\ Exact(c) /\ Exact(rest) /\ Len(rest.entries) <= Len(c.entries) /\ rest.bytes <= c.bytes
      /\ \A i \in 1 .. Len(rest.entries) : rest.entries[i].key # key
      /\ \A k, v : Holds(rest, k, v) => Holds(c, k, v)
  BY DropFacts DEF Good
<1>2. rest \in Caches /\ c \in Caches
  BY <1>1 DEF Exact
<1>3. \A v : ~Holds(rest, key, v)
  BY <1>1 DEF Holds
<1> HIDE DEF rest
<1>4. CASE bytes > MaxBytes
  <2>1. Put(c, key, value, bytes) = rest
    BY <1>4 DEF Put, rest
  <2>2. Good(rest)
    <3>1. /\ Len(rest.entries) \in Nat /\ Len(c.entries) \in Nat /\ rest.bytes \in Nat /\ c.bytes \in Nat
          /\ MaxEntries \in Nat /\ MaxBytes \in Nat
      BY <1>2, CacheFields, CacheAssumption
    <3>2. Len(rest.entries) <= MaxEntries /\ rest.bytes <= MaxBytes
      BY <1>1, <3>1 DEF Good
    <3>3. QED
      BY <1>1, <3>2 DEF Good
  <2>3. QED
    BY <1>1, <1>3, <2>1, <2>2
<1>5. CASE ~(bytes > MaxBytes)
  <2>1. e \in Entries /\ e.key = key /\ e.value = value /\ e.bytes = bytes
    BY DEF Entries
  <2>2. Put(c, key, value, bytes) = Evict(d)
    BY <1>5 DEF Put, rest
  <2> HIDE DEF e
  <2>3. /\ Exact(d)
        /\ \A k, v : Holds(d, k, v) => (k = e.key /\ v = e.value) \/ (k # e.key /\ Holds(rest, k, v))
    BY <1>1, <2>1, AppendFacts
  <2> HIDE DEF d
  <2>4. Good(Evict(d)) /\ \A k, v : Holds(Evict(d), k, v) => Holds(d, k, v)
    BY <2>3, EvictFacts
  <2>5. QED
    BY <1>1, <2>1, <2>2, <2>3, <2>4
<1>6. QED
  BY <1>4, <1>5

LEMMA TouchFacts ==
  ASSUME NEW c, Good(c), NEW key
  PROVE  Good(Touch(c, key)) /\ \A k, v : Holds(Touch(c, key), k, v) => Holds(c, k, v)
<1>1. CASE ~Has(c, key)
  BY <1>1 DEF Touch
<1>2. CASE Has(c, key)
  <2> DEFINE rest == Drop(c, key)
             e == Entry(c, key)
             d == [entries |-> Append(rest.entries, e), bytes |-> rest.bytes + e.bytes]
  <2>1. /\ Exact(c) /\ Exact(rest) /\ Len(rest.entries) = Len(c.entries) - 1 /\ rest.bytes = c.bytes - e.bytes
        /\ \A i \in 1 .. Len(rest.entries) : rest.entries[i].key # key
        /\ \A k, v : Holds(rest, k, v) => Holds(c, k, v)
        /\ e \in Entries /\ e.key = key /\ Holds(c, key, e.value)
    BY <1>2, DropFacts DEF Good
  <2>2. c \in Caches /\ c.bytes \in Nat /\ e.bytes \in Nat /\ Len(c.entries) \in Nat
    BY <2>1, CacheFields, EntriesWeighed DEF Exact, Weighed
  <2>3. Touch(c, key) = [c EXCEPT !.entries = Append(rest.entries, e)]
    BY <1>2 DEF Touch
  <2> HIDE DEF rest, e
  <2>4. Touch(c, key) = d
    <3>1. rest.bytes + e.bytes = c.bytes
      BY <2>1, <2>2
    <3>2. QED
      BY <2>2, <2>3, <3>1 DEF Caches
  <2>5. /\ Exact(d) /\ Len(d.entries) = Len(rest.entries) + 1 /\ d.bytes = rest.bytes + e.bytes
        /\ \A k, v : Holds(d, k, v) => (k = e.key /\ v = e.value) \/ (k # e.key /\ Holds(rest, k, v))
    BY <2>1, AppendFacts
  <2> HIDE DEF d
  <2>6. Len(d.entries) = Len(c.entries) /\ d.bytes = c.bytes
    BY <2>1, <2>2, <2>5
  <2>7. Good(d)
    BY <2>5, <2>6 DEF Good
  <2>8. QED
    BY <2>1, <2>4, <2>5, <2>7
<1>3. QED
  BY <1>1, <1>2

LEMMA TouchAllFacts ==
  ASSUME NEW c, Good(c), NEW keys, Len(keys) \in Nat
  PROVE  Good(TouchAll(c, keys)) /\ \A k, v : Holds(TouchAll(c, keys), k, v) => Holds(c, k, v)
<1> DEFINE N == Len(keys)
           S == {x \in Caches : Good(x) /\ \A k, v : Holds(x, k, v) => Holds(c, k, v)}
           step == [p \in S \X Nat |-> Touch(p[1], keys[p[2]])]
<1>1. c \in S
  BY DEF Good, Exact
<1>2. \A x \in S : \A key : Touch(x, key) \in S
  <2> SUFFICES ASSUME NEW x \in S, NEW key PROVE Touch(x, key) \in S
    OBVIOUS
  <2>1. Good(Touch(x, key)) /\ \A k, v : Holds(Touch(x, key), k, v) => Holds(x, k, v)
    BY TouchFacts
  <2>2. Touch(x, key) \in Caches
    BY <2>1 DEF Good, Exact
  <2>3. QED
    BY <2>1, <2>2
<1> HIDE DEF S
<1>3. step \in [S \X Nat -> S] /\ \A x \in S, n \in Nat : step[<<x, n>>] = Touch(x, keys[n])
  BY <1>2
<1> HIDE DEF step
<1>4. PICK f : Follow(f, N, c, step)
  BY <1>1, <1>3, FollowExists
<1>5. f \in [0 .. N -> S]
  BY <1>1, <1>3, <1>4, FollowTyped
<1>6. \A n \in 0 .. N : n # 0 => step[<<f[n - 1], n>>] = Touch(f[n - 1], keys[n])
  <2>1. ASSUME NEW n \in 0 .. N, n # 0 PROVE step[<<f[n - 1], n>>] = Touch(f[n - 1], keys[n])
    <3>1. n \in Nat /\ n - 1 \in 0 .. N
      BY <2>1
    <3>2. f[n - 1] \in S
      BY <1>5, <3>1
    <3>3. QED
      BY <1>3, <3>1, <3>2
  <2>2. QED
    BY <2>1
<1>7. f = [n \in 0 .. N |-> IF n = 0 THEN c ELSE Touch(f[n - 1], keys[n])]
  BY <1>4, <1>6 DEF Follow
<1>8. PICK g : g = [n \in 0 .. N |-> IF n = 0 THEN c ELSE Touch(g[n - 1], keys[n])] /\ TouchAll(c, keys) = g[N]
  BY <1>7 DEF TouchAll
<1>9. N \in Nat
  OBVIOUS
<1> HIDE DEF N
<1>10. \A n \in 0 .. N : g[n] = IF n = 0 THEN c ELSE Touch(g[n - 1], keys[n])
  BY <1>8
<1> DEFINE T == {n \in 0 .. N : g[n] \in S}
<1>11. 0 \in T
  <2>1. 0 \in 0 .. N
    BY <1>9
  <2>2. QED
    BY <1>1, <1>10, <2>1
<1>12. ASSUME NEW n \in 0 .. N - 1, n \in T PROVE n + 1 \in T
  <2>1. n + 1 \in 0 .. N /\ n + 1 # 0 /\ (n + 1) - 1 = n
    BY <1>9
  <2>2. g[n + 1] = Touch(g[n], keys[n + 1])
    BY <1>10, <2>1
  <2>3. QED
    BY <1>2, <1>12, <2>1, <2>2
<1>13. \A n \in 0 .. N : n \in T
  <2> HIDE DEF T
  <2>1. QED
    BY <1>9, <1>11, <1>12, UpTo
<1>14. g[N] \in S
  BY <1>9, <1>13
<1>15. QED
  BY <1>8, <1>14 DEF S

(***************************************************************************)
(* The inductive invariant.                                                *)
(***************************************************************************)
Ends == {"completed", "incomplete", "failed"}
TurnRecords ==
  [stage : Stages, model : Models \cup {"none", "absent", "foreign"}, prev : Turns \cup {0}, carry : Seq(Items),
   generate : BOOLEAN, attempt : {0, 1}, aborted : BOOLEAN, res : {"open", "head", "gone", "ended"},
   ends : Seq(Ends), saw : {"nothing", "partial", "whole"}, input : Seq(Items), replayed : SUBSET Turns]

Settled == {"ending", "done"}
Early == {"idle", "decoding", "auth", "fetch", "refresh"}

(* How far the response of a turn has got, and what was sent on it.         *)
EndOk(t) ==
  /\ Len(t.ends) <= 1
  /\ t.res = "open" => t.saw = "nothing"
  /\ t.res = "ended" => t.stage = "done" /\ (t.saw # "nothing" => Len(t.ends) = 1)
  /\ t.stage \notin Settled => t.ends = <<>>
  /\ t.stage \in Early => t.saw = "nothing" /\ t.res # "head"
  /\ (t.stage = "ending" /\ t.res = "head") => Len(t.ends) = 1
  /\ t.stage = "idle" => t.res = "open"

(* A turn that has come to its end and whose handle, if it is still there,  *)
(* holds all of it.                                                         *)
Sealed(p) == turn[p].stage \in Settled /\ \A v : Holds(cache, Replay(p), v) => v = "whole"

(* An item is of a turn that has arrived, a whole one of a sealed turn.     *)
Vouched(s) == \A i \in DOMAIN s : turn[s[i].turn].stage # "idle" /\ (s[i].whole => Sealed(s[i].turn))

Thought(t) == {item.turn : item \in {h \in ToSet(t.input) : turn[h.turn].generate /\ h.whole}}

(* A turn that runs has the history it continues, and the thinking of it.   *)
Continues(t) ==
  t.stage \in Running =>
    /\ t.model \in Models
    /\ t.prev # 0 => /\ turn[t.prev].stage \in Settled
                     /\ t.input = Append(turn[t.prev].input, Item(t.prev, TRUE))
                     /\ t.model = turn[t.prev].model
    /\ t.replayed = Thought(t)

TurnOk(r) ==
  /\ turn[r] \in TurnRecords /\ EndOk(turn[r])
  /\ Vouched(turn[r].input) /\ Vouched(turn[r].carry)
  /\ turn[r].saw = "whole" => Sealed(r)
  /\ Continues(turn[r])

(* A snapshot is what its turn was asked, and what the turn answered.       *)
Shot(t, p) == [model |-> t.model, input |-> Append(t.input, Item(p, TRUE))]

SnapshotOk(p) ==
  \A v : Holds(cache, Snapshot(p), v) => Sealed(p) /\ v = Shot(turn[p], p) /\ turn[p].model \in Models

(* A handle is filled before the terminal frame is sent.                    *)
ReplayOk(p) ==
  \A v : Holds(cache, Replay(p), v) =>
    /\ turn[p].stage \in {"streaming", "terminal", "ending", "done"}
    /\ turn[p].stage \in {"terminal", "ending"} => v = "whole"

IInv ==
  /\ Good(cache) /\ adapted \in Nat
  /\ turn = [r \in Turns |-> turn[r]]
  /\ \A r \in Turns : TurnOk(r) /\ SnapshotOk(r) /\ ReplayOk(r)

LEMMA InitIInv == Init => IInv
<1> SUFFICES ASSUME Init PROVE IInv
  OBVIOUS
<1>1. cache = EmptyCache /\ adapted = 0 /\ turn = [r \in Turns |-> NoTurn]
  BY DEF Init
<1>2. EmptyCache \in Caches /\ EmptyCache.entries = <<>> /\ EmptyCache.bytes = 0 /\ Len(EmptyCache.entries) = 0
  BY DEF EmptyCache, Caches
<1>3. Total(<<>>) = 0
  <2>1. <<>> \in Seq(Entries) /\ Len(<<>>) = 0
    OBVIOUS
  <2>2. QED
    BY <2>1, EntriesWeighed, TotalFacts
<1>4. Good(cache)
  BY <1>1, <1>2, <1>3, CacheAssumption DEF Good, Exact
<1>5. \A k, v : ~Holds(cache, k, v)
  BY <1>1, <1>2 DEF Holds
<1>6. NoTurn \in TurnRecords
  BY DEF NoTurn, TurnRecords, Stages
<1>7. EndOk(NoTurn) /\ Vouched(NoTurn.input) /\ Vouched(NoTurn.carry) /\ NoTurn.saw # "whole" /\ Continues(NoTurn)
  BY DEF NoTurn, EndOk, Vouched, Continues, Running
<1>8. QED
  BY <1>1, <1>4, <1>5, <1>6, <1>7 DEF IInv, TurnOk, SnapshotOk, ReplayOk

(***************************************************************************)
(* What one turn may do without disturbing the others.                     *)
(***************************************************************************)
Forward(t, u) ==
  /\ t.stage \in Settled => u.stage \in Settled /\ u.input = t.input /\ u.model = t.model
  /\ t.stage # "idle" => u.stage # "idle" /\ u.generate = t.generate

(* Nothing enters the cache in the name of another turn.                    *)
OthersKeep(r) ==
  \A p \in Turns \ {r} : \A v :
    /\ Holds(cache', Snapshot(p), v) => Holds(cache, Snapshot(p), v)
    /\ Holds(cache', Replay(p), v) => Holds(cache, Replay(p), v)

(* The handle of r, now that r is y.                                        *)
OwnHandle(r, y) ==
  \A v : Holds(cache', Replay(r), v) =>
    /\ y.stage \in {"streaming", "terminal", "ending", "done"}
    /\ y.stage \in {"terminal", "ending"} => v = "whole"
    /\ turn[r].stage \in Settled => Holds(cache, Replay(r), v)

OwnSnapshot(r, y) ==
  \A v : Holds(cache', Snapshot(r), v) =>
    \/ Holds(cache, Snapshot(r), v)
    \/ y.stage \in Settled /\ v = Shot(y, r) /\ y.model \in Models /\ \A w : Holds(cache', Replay(r), w) => w = "whole"

Shown(r, y) ==
  y.saw = "whole" => \/ turn[r].saw = "whole"
                     \/ y.stage \in Settled /\ \A w : Holds(cache', Replay(r), w) => w = "whole"

Move(r, y) ==
  /\ y \in TurnRecords /\ EndOk(y) /\ Forward(turn[r], y)
  /\ Vouched(y.input) /\ Vouched(y.carry) /\ Continues(y)
  /\ OthersKeep(r) /\ OwnHandle(r, y) /\ OwnSnapshot(r, y) /\ Shown(r, y)

LEMMA ItemOf ==
  ASSUME NEW s \in Seq(Items), NEW i \in DOMAIN s
  PROVE  s[i] \in Items /\ s[i].turn \in Turns /\ s[i].whole \in BOOLEAN
<1>1. s[i] \in Items
  OBVIOUS
<1>2. QED
  BY <1>1 DEF Items

LEMMA SealedStays ==
  ASSUME IInv, NEW p \in Turns, Sealed(p), Forward(turn[p], turn'[p]),
         \A v : Holds(cache', Replay(p), v) => Holds(cache, Replay(p), v)
  PROVE  Sealed(p)'
BY DEF Sealed, Forward

LEMMA VouchedStays ==
  ASSUME NEW s \in Seq(Items), Vouched(s),
         \A p \in Turns : Forward(turn[p], turn'[p]) /\ (Sealed(p) => Sealed(p)')
  PROVE  Vouched(s)'
<1>1. \A i \in DOMAIN s : s[i].turn \in Turns
  BY ItemOf
<1>2. QED
  BY <1>1 DEF Vouched, Forward

LEMMA ThoughtStays ==
  ASSUME NEW t, t.input \in Seq(Items), Vouched(t.input), \A p \in Turns : Forward(turn[p], turn'[p])
  PROVE  Thought(t)' = Thought(t)
<1>1. \A h \in ToSet(t.input) : \E i \in DOMAIN t.input : h = t.input[i]
  BY DEF ToSet
<1>2. \A h \in ToSet(t.input) : h.turn \in Turns /\ turn[h.turn].stage # "idle"
  BY <1>1, ItemOf DEF Vouched
<1>3. \A h \in ToSet(t.input) : turn'[h.turn].generate = turn[h.turn].generate
  BY <1>2 DEF Forward
<1>4. QED
  BY <1>3 DEF Thought

LEMMA ContinuesStays ==
  ASSUME NEW t \in TurnRecords, Vouched(t.input), Continues(t), \A p \in Turns : Forward(turn[p], turn'[p])
  PROVE  Continues(t)'
<1>1. t.prev # 0 => t.prev \in Turns
  BY DEF TurnRecords
<1>2. t.input \in Seq(Items)
  BY DEF TurnRecords
<1>3. Thought(t)' = Thought(t)
  BY <1>2, ThoughtStays
<1>4. QED
  BY <1>1, <1>3 DEF Continues, Forward

LEMMA Fields ==
  ASSUME NEW t \in TurnRecords
  PROVE  /\ t.stage \in Stages /\ t.prev \in Turns \cup {0} /\ t.carry \in Seq(Items) /\ t.input \in Seq(Items)
         /\ t.ends \in Seq(Ends) /\ t.replayed \subseteq Turns /\ t.generate \in BOOLEAN /\ t.aborted \in BOOLEAN
         /\ t.res \in {"open", "head", "gone", "ended"} /\ t.saw \in {"nothing", "partial", "whole"}
         /\ t.attempt \in {0, 1} /\ t.model \in Models \cup {"none", "absent", "foreign"}
BY DEF TurnRecords

LEMMA MoveKeeps ==
  ASSUME IInv, NEW r \in Turns, NEW y, Become(r, y), Good(cache'), adapted' \in Nat, Move(r, y)
  PROVE  IInv'
<1>1. turn' = [q \in Turns |-> IF q = r THEN y ELSE turn[q]]
  BY DEF IInv, Become
<1>2. turn'[r] = y /\ \A q \in Turns \ {r} : turn'[q] = turn[q]
  BY <1>1
<1>3. \A q \in Turns : Forward(turn[q], turn'[q])
  BY <1>2 DEF Move, Forward
<1>4. \A p \in Turns : Sealed(p) => Sealed(p)'
  <2> SUFFICES ASSUME NEW p \in Turns, Sealed(p) PROVE Sealed(p)'
    OBVIOUS
  <2>1. \A v : Holds(cache', Replay(p), v) => Holds(cache, Replay(p), v)
    BY DEF Move, OthersKeep, OwnHandle, Sealed
  <2>2. QED
    BY <1>3, <2>1, SealedStays
<1>5. ASSUME NEW s \in Seq(Items), Vouched(s) PROVE Vouched(s)'
  BY <1>3, <1>4, <1>5, VouchedStays
<1>6. ASSUME NEW t \in TurnRecords, Vouched(t.input), Continues(t) PROVE Continues(t)'
  BY <1>3, <1>6, ContinuesStays
<1>7. ASSUME NEW q \in Turns PROVE TurnOk(q)'
  <2>1. CASE q = r
    <3>1. /\ y \in TurnRecords /\ EndOk(y) /\ y.input \in Seq(Items) /\ y.carry \in Seq(Items)
          /\ Vouched(y.input) /\ Vouched(y.carry) /\ Continues(y)
      BY Fields DEF Move
    <3>2. Vouched(y.input)' /\ Vouched(y.carry)' /\ Continues(y)'
      BY <1>5, <1>6, <3>1
    <3>3. y.saw = "whole" => Sealed(r)'
      <4>1. turn[r].saw = "whole" => Sealed(r)
        BY DEF IInv, TurnOk
      <4>2. QED
        BY <1>2, <1>4, <4>1 DEF Move, Shown, Sealed
    <3>4. QED
      BY <1>2, <2>1, <3>1, <3>2, <3>3 DEF TurnOk
  <2>2. CASE q # r
    <3>1. TurnOk(q) /\ turn'[q] = turn[q] /\ turn[q].input \in Seq(Items) /\ turn[q].carry \in Seq(Items)
      BY <1>2, <2>2, Fields DEF IInv, TurnOk
    <3>2. QED
      BY <1>4, <1>5, <1>6, <3>1 DEF TurnOk
  <2>3. QED
    BY <2>1, <2>2
<1>8. ASSUME NEW p \in Turns PROVE SnapshotOk(p)'
  <2> SUFFICES ASSUME NEW v, Holds(cache', Snapshot(p), v)
               PROVE  Sealed(p)' /\ v = Shot(turn'[p], p) /\ turn'[p].model \in Models
    BY DEF SnapshotOk
  <2>1. CASE Holds(cache, Snapshot(p), v)
    <3>1. Sealed(p) /\ v = Shot(turn[p], p) /\ turn[p].model \in Models
      BY <2>1 DEF IInv, SnapshotOk
    <3>2. turn'[p].input = turn[p].input /\ turn'[p].model = turn[p].model
      BY <1>3, <3>1 DEF Sealed, Forward
    <3>3. QED
      BY <1>4, <3>1, <3>2 DEF Shot
  <2>2. CASE ~Holds(cache, Snapshot(p), v)
    <3>1. p = r
      BY <2>2 DEF Move, OthersKeep
    <3>2. /\ y.stage \in Settled /\ v = Shot(y, r) /\ y.model \in Models
          /\ \A w : Holds(cache', Replay(r), w) => w = "whole"
      BY <2>2, <3>1 DEF Move, OwnSnapshot
    <3>3. QED
      BY <1>2, <3>1, <3>2 DEF Sealed
  <2>3. QED
    BY <2>1, <2>2
<1>9. ASSUME NEW p \in Turns PROVE ReplayOk(p)'
  <2>1. CASE p = r
    BY <1>2, <2>1 DEF Move, OwnHandle, ReplayOk
  <2>2. CASE p # r
    BY <1>2, <2>2 DEF IInv, Move, OthersKeep, ReplayOk
  <2>3. QED
    BY <2>1, <2>2
<1>10. turn' = [q \in Turns |-> turn'[q]]
  BY <1>1
<1>11. QED
  BY <1>7, <1>8, <1>9, <1>10 DEF IInv

(* Most steps of a turn put nothing into the cache.                         *)
Loses == Good(cache') /\ \A k, v : Holds(cache', k, v) => Holds(cache, k, v)

Late == {"streaming", "terminal", "ending", "done"}

Steady(t, y) ==
  /\ y \in TurnRecords /\ EndOk(y) /\ Forward(t, y)
  /\ t.stage \in Late => y.stage \in Late
  /\ y.stage \in {"terminal", "ending"} => t.stage \in {"terminal", "ending"}
  /\ y.saw = "whole" => t.saw = "whole" \/ (y.stage \in Settled /\ t.stage \in {"terminal", "decoding"})

LEMMA SteadyMove ==
  ASSUME IInv, NEW r \in Turns, NEW y, Become(r, y), adapted' \in Nat, Loses, Steady(turn[r], y),
         Vouched(y.input), Vouched(y.carry), Continues(y)
  PROVE  IInv'
<1>1. ReplayOk(r)
  BY DEF IInv
<1>2. \A k, v : Holds(cache', k, v) => Holds(cache, k, v)
  BY DEF Loses
<1>3. OthersKeep(r)
  BY <1>2 DEF OthersKeep
<1>4. OwnHandle(r, y)
  BY <1>1, <1>2 DEF OwnHandle, ReplayOk, Steady, Late
<1>5. OwnSnapshot(r, y)
  BY <1>2 DEF OwnSnapshot
<1>6. Shown(r, y)
  BY <1>1, <1>2 DEF Shown, Steady, ReplayOk
<1>7. Move(r, y)
  BY <1>3, <1>4, <1>5, <1>6 DEF Move, Steady
<1>8. QED
  BY <1>7, MoveKeeps DEF Loses

LEMMA Idles == ASSUME IInv, UNCHANGED cache PROVE Loses
BY DEF Loses, IInv

(* A turn that runs on with the history it has.                             *)
LEMMA ContinuesOn ==
  ASSUME NEW t, NEW y, Continues(t),
         y.stage \in Running => /\ t.stage \in Running /\ y.model = t.model /\ y.prev = t.prev
                                /\ y.input = t.input /\ y.replayed = t.replayed
  PROVE  Continues(y)
BY DEF Continues, Thought

LEMMA EmptyVouched == Vouched(<<>>)
BY DEF Vouched

LEMMA OverFacts ==
  ASSUME NEW t \in TurnRecords
  PROVE  /\ Over(t) \in TurnRecords /\ Over(t).stage = "done" /\ Over(t).prev = 0 /\ Over(t).carry = <<>>
         /\ Over(t).res = t.res /\ Over(t).ends = t.ends /\ Over(t).saw = t.saw /\ Over(t).input = t.input
         /\ Over(t).model = t.model /\ Over(t).generate = t.generate
<1>1. <<>> \in Seq(Items) /\ {} \in SUBSET Turns /\ "done" \in Stages
  BY DEF Stages
<1>2. Over(t).stage = "done" /\ Over(t).prev = 0 /\ Over(t).carry = <<>>
  BY DEF Over, TurnRecords
<1>3. Over(t) \in TurnRecords
  BY <1>1 DEF Over, TurnRecords
<1>4. Over(t).res = t.res /\ Over(t).ends = t.ends /\ Over(t).saw = t.saw /\ Over(t).input = t.input
  BY DEF Over, TurnRecords
<1>5. Over(t).model = t.model /\ Over(t).generate = t.generate
  BY DEF Over, TurnRecords
<1>6. QED
  BY <1>2, <1>3, <1>4, <1>5

LEMMA HttpErrorFacts ==
  ASSUME NEW t \in TurnRecords, EndOk(t), t.stage \notin Settled
  PROVE  /\ HttpError(t) \in TurnRecords /\ EndOk(HttpError(t)) /\ HttpError(t).stage = "done"
         /\ HttpError(t).carry = <<>> /\ HttpError(t).saw = t.saw /\ HttpError(t).input = t.input
         /\ HttpError(t).model = t.model /\ HttpError(t).generate = t.generate
<1> DEFINE o == Over(t)
           h == HttpError(t)
<1>1. /\ o \in TurnRecords /\ o.stage = "done" /\ o.carry = <<>>
      /\ o.res = t.res /\ o.ends = t.ends /\ o.saw = t.saw /\ o.input = t.input
      /\ o.model = t.model /\ o.generate = t.generate
  BY OverFacts
<1>2. t.ends = <<>> /\ Len(t.ends) = 0
  BY DEF EndOk
<1>3. h = CASE t.res = "open" -> [o EXCEPT !.res = "ended"]
            [] t.res = "head" -> [o EXCEPT !.res = "ended", !.ends = Append(@, "failed")]
            [] OTHER -> o
  BY DEF HttpError
<1> HIDE DEF o, h
<1>4. CASE t.res = "open"
  <2>1. h = [o EXCEPT !.res = "ended"]
    BY <1>3, <1>4
  <2>2. /\ h \in TurnRecords /\ h.stage = "done" /\ h.carry = <<>> /\ h.res = "ended" /\ h.ends = <<>>
        /\ h.saw = t.saw /\ h.input = t.input /\ h.model = t.model /\ h.generate = t.generate
    BY <1>1, <1>2, <2>1 DEF TurnRecords
  <2>3. t.saw = "nothing"
    BY <1>4 DEF EndOk
  <2>4. EndOk(h)
    BY <2>2, <2>3 DEF EndOk, Settled, Early
  <2>5. QED
    BY <2>2, <2>4 DEF h
<1>5. CASE t.res = "head"
  <2>1. h = [o EXCEPT !.res = "ended", !.ends = Append(@, "failed")]
    BY <1>3, <1>5
  <2>2. Append(o.ends, "failed") \in Seq(Ends) /\ Len(Append(o.ends, "failed")) = 1
    BY <1>1, <1>2 DEF Ends
  <2>3. /\ h \in TurnRecords /\ h.stage = "done" /\ h.carry = <<>> /\ h.res = "ended"
        /\ h.ends = Append(o.ends, "failed")
        /\ h.saw = t.saw /\ h.input = t.input /\ h.model = t.model /\ h.generate = t.generate
    BY <1>1, <2>1, <2>2 DEF TurnRecords
  <2>4. EndOk(h)
    BY <2>2, <2>3 DEF EndOk, Settled, Early
  <2>5. QED
    BY <2>3, <2>4 DEF h
<1>6. CASE t.res \notin {"open", "head"}
  <2>1. h = o
    BY <1>3, <1>6
  <2>2. t.res = "gone"
    BY <1>6, Fields DEF EndOk, Settled
  <2>3. EndOk(h)
    BY <1>1, <1>2, <2>1, <2>2 DEF EndOk, Settled, Early
  <2>4. QED
    BY <1>1, <2>1, <2>3 DEF h
<1>7. QED
  BY <1>4, <1>5, <1>6

(* Wherever a turn is ended by an error.                                    *)
LEMMA Fails ==
  ASSUME IInv, NEW r \in Turns, turn[r].stage \notin {"idle", "ending", "done"}, Become(r, HttpError(turn[r])),
         adapted' \in Nat, Loses
  PROVE  IInv'
<1> DEFINE t == turn[r]
<1>1. t \in TurnRecords /\ EndOk(t) /\ t.stage \notin Settled /\ Vouched(t.input) /\ TurnOk(r)
  BY DEF IInv, TurnOk, Settled
<1>2. PICK h : h = HttpError(t)
  OBVIOUS
<1>3. /\ h \in TurnRecords /\ EndOk(h) /\ h.stage = "done" /\ h.carry = <<>> /\ h.saw = t.saw
      /\ h.input = t.input /\ h.model = t.model /\ h.generate = t.generate
  BY <1>1, <1>2, HttpErrorFacts
<1>4. Become(r, h)
  BY <1>2
<1> HIDE DEF t
<1>5. Vouched(h.input) /\ Vouched(h.carry)
  BY <1>1, <1>3, EmptyVouched
<1>6. Continues(h)
  BY <1>3 DEF Continues, Running
<1>7. Steady(t, h)
  BY <1>1, <1>3 DEF Steady, Forward, Settled, Late
<1>8. QED
  BY <1>4, <1>5, <1>6, <1>7, SteadyMove DEF t

(***************************************************************************)
(* The actions.                                                            *)
(***************************************************************************)
LEMMA AuthorizedKeeps == ASSUME IInv, NEW r \in Turns, Authorized(r) PROVE IInv'
<1> DEFINE t == turn[r]
<1>1. /\ t \in TurnRecords /\ EndOk(t) /\ Vouched(t.input) /\ Vouched(t.carry) /\ Continues(t)
      /\ t.stage \in {"auth", "refresh"} /\ adapted' \in Nat /\ Loses
  BY Idles DEF IInv, TurnOk, Authorized
<1>2. CASE Become(r, HttpError(t))
  BY <1>1, <1>2, Fails
<1>3. CASE Become(r, [t EXCEPT !.stage = "fetch"])
  <2>1. PICK y : y = [t EXCEPT !.stage = "fetch"]
    OBVIOUS
  <2>2. /\ y \in TurnRecords /\ y.stage = "fetch" /\ y.res = t.res /\ y.ends = t.ends /\ y.saw = t.saw
        /\ y.input = t.input /\ y.carry = t.carry /\ y.model = t.model /\ y.prev = t.prev
        /\ y.replayed = t.replayed /\ y.generate = t.generate
    BY <1>1, <2>1 DEF TurnRecords, Stages
  <2>3. Become(r, y)
    BY <1>3, <2>1
  <2> HIDE DEF t
  <2>4. EndOk(y)
    BY <1>1, <2>2 DEF EndOk, Settled, Early
  <2>5. Steady(t, y)
    BY <1>1, <2>2, <2>4 DEF Steady, Forward, Settled, Late
  <2>6. Continues(y) /\ Vouched(y.input) /\ Vouched(y.carry)
    BY <1>1, <2>2, ContinuesOn DEF Running
  <2>7. QED
    BY <1>1, <2>3, <2>5, <2>6, SteadyMove DEF t
<1>4. QED
  BY <1>2, <1>3 DEF Authorized

LEMMA KeyFacts ==
  ASSUME NEW r \in Turns
  PROVE  /\ Replay(r) \in Keys /\ Snapshot(r) \in Keys /\ Replay(r) # Snapshot(r)
         /\ \A p : Replay(p) # Snapshot(r) /\ Snapshot(p) # Replay(r)
         /\ \A p : Replay(p) = Replay(r) => p = r
         /\ \A p : Snapshot(p) = Snapshot(r) => p = r
BY DEF Keys, Replay, Snapshot

(* Something is put into the handle of a turn that has not ended.           *)
LEMMA HandleMove ==
  ASSUME IInv, NEW r \in Turns, NEW y, Become(r, y), adapted' \in Nat, turn[r].stage \notin Settled,
         NEW value \in {"empty", "whole"}, NEW bytes \in Nat, cache' = Put(cache, Replay(r), value, bytes),
         y.stage = "streaming" \/ (y.stage = "terminal" /\ value = "whole"),
         y \in TurnRecords, EndOk(y), Forward(turn[r], y), Vouched(y.input), Vouched(y.carry), Continues(y),
         y.saw = turn[r].saw
  PROVE  IInv'
<1>1. Replay(r) \in Keys /\ value \in Values /\ Good(cache)
  BY KeyFacts DEF Values, IInv
<1>2. /\ Good(cache')
      /\ \A k, v : Holds(cache', k, v) => (k = Replay(r) /\ v = value) \/ (k # Replay(r) /\ Holds(cache, k, v))
  BY <1>1, PutFacts
<1>3. OthersKeep(r)
  BY <1>2, KeyFacts DEF OthersKeep
<1>4. OwnHandle(r, y) /\ OwnSnapshot(r, y)
  BY <1>2, KeyFacts DEF OwnHandle, OwnSnapshot
<1>5. Move(r, y)
  BY <1>3, <1>4 DEF Move, Shown
<1>6. QED
  BY <1>2, <1>5, MoveKeeps

(* A turn leaves its snapshot.                                              *)
LEMMA SnapshotMove ==
  ASSUME IInv, NEW r \in Turns, NEW y, Become(r, y), adapted' \in Nat, NEW c, Good(c),
         \A k, v : Holds(c, k, v) => Holds(cache, k, v),
         NEW bytes \in Nat, cache' = Put(c, Snapshot(r), Shot(y, r), bytes),
         y.stage \in Settled, y.model \in Models,
         \A w : Holds(cache, Replay(r), w) => w = "whole",
         y \in TurnRecords, EndOk(y), Forward(turn[r], y), Vouched(y.input), Vouched(y.carry), Continues(y)
  PROVE  IInv'
<1>1. Snapshot(r) \in Keys /\ Shot(y, r) \in Values
  <2>1. Item(r, TRUE) \in Items
    BY DEF Item, Items
  <2>2. Append(y.input, Item(r, TRUE)) \in Seq(Items)
    <3>1. y.input \in Seq(Items)
      BY Fields
    <3>2. QED
      BY <2>1, <3>1, AppendProperties
  <2>3. QED
    BY <2>2, KeyFacts DEF Values, Shot
<1>2. /\ Good(cache')
      /\ \A k, v : Holds(cache', k, v) => (k = Snapshot(r) /\ v = Shot(y, r)) \/ (k # Snapshot(r) /\ Holds(c, k, v))
  <2>1. PICK value : value = Shot(y, r)
    OBVIOUS
  <2>2. QED
    BY <1>1, <2>1, PutFacts
<1>3. /\ \A k, v : Holds(cache', k, v) /\ k # Snapshot(r) => Holds(cache, k, v)
      /\ \A v : Holds(cache', Snapshot(r), v) => v = Shot(y, r)
  BY <1>2
<1>4. OthersKeep(r)
  BY <1>3, KeyFacts DEF OthersKeep
<1>5. \A w : Holds(cache', Replay(r), w) => Holds(cache, Replay(r), w) /\ w = "whole"
  BY <1>3, KeyFacts
<1>6. OwnHandle(r, y)
  BY <1>5 DEF OwnHandle, Settled
<1>7. OwnSnapshot(r, y) /\ Shown(r, y)
  BY <1>3, <1>5 DEF OwnSnapshot, Shown
<1>8. Move(r, y)
  BY <1>4, <1>6, <1>7 DEF Move
<1>9. QED
  BY <1>2, <1>8, MoveKeeps

LEMMA FetchedKeeps == ASSUME IInv, NEW r \in Turns, Fetched(r) PROVE IInv'
<1> DEFINE t == turn[r]
<1>1. /\ t \in TurnRecords /\ EndOk(t) /\ Vouched(t.input) /\ Vouched(t.carry) /\ Continues(t)
      /\ t.stage = "fetch" /\ adapted' \in Nat
  BY DEF IInv, TurnOk, Fetched
<1>2. CASE Become(r, HttpError(t)) /\ UNCHANGED cache
  BY <1>1, <1>2, Idles, Fails
<1>3. CASE Become(r, [t EXCEPT !.stage = "refresh", !.attempt = 1]) /\ UNCHANGED cache
  <2>1. PICK y : y = [t EXCEPT !.stage = "refresh", !.attempt = 1]
    OBVIOUS
  <2>2. /\ y \in TurnRecords /\ y.stage = "refresh" /\ y.res = t.res /\ y.ends = t.ends /\ y.saw = t.saw
        /\ y.input = t.input /\ y.carry = t.carry /\ y.model = t.model /\ y.prev = t.prev
        /\ y.replayed = t.replayed /\ y.generate = t.generate
    BY <1>1, <2>1 DEF TurnRecords, Stages
  <2>3. Become(r, y) /\ Loses
    BY <1>3, <2>1, Idles
  <2> HIDE DEF t
  <2>4. EndOk(y)
    BY <1>1, <2>2 DEF EndOk, Settled, Early
  <2>5. Steady(t, y)
    BY <1>1, <2>2, <2>4 DEF Steady, Forward, Settled, Late
  <2>6. Continues(y) /\ Vouched(y.input) /\ Vouched(y.carry)
    BY <1>1, <2>2, ContinuesOn DEF Running
  <2>7. QED
    BY <1>1, <2>3, <2>5, <2>6, SteadyMove DEF t
<1>4. CASE Become(r, [t EXCEPT !.stage = "streaming"]) /\ cache' = Put(cache, Replay(r), "empty", 1)
  <2>1. PICK y : y = [t EXCEPT !.stage = "streaming"]
    OBVIOUS
  <2>2. /\ y \in TurnRecords /\ y.stage = "streaming" /\ y.res = t.res /\ y.ends = t.ends /\ y.saw = t.saw
        /\ y.input = t.input /\ y.carry = t.carry /\ y.model = t.model /\ y.prev = t.prev
        /\ y.replayed = t.replayed /\ y.generate = t.generate
    BY <1>1, <2>1 DEF TurnRecords, Stages
  <2>3. Become(r, y)
    BY <1>4, <2>1
  <2> HIDE DEF t
  <2>4. EndOk(y)
    BY <1>1, <2>2 DEF EndOk, Settled, Early
  <2>5. Forward(t, y) /\ t.stage \notin Settled
    BY <1>1, <2>2 DEF Forward, Settled
  <2>6. Continues(y) /\ Vouched(y.input) /\ Vouched(y.carry)
    BY <1>1, <2>2, ContinuesOn DEF Running
  <2>7. PICK value \in {"empty", "whole"}, bytes \in Nat : value = "empty" /\ bytes = 1
    OBVIOUS
  <2>8. QED
    BY <1>1, <1>4, <2>2, <2>3, <2>4, <2>5, <2>6, <2>7, HandleMove DEF t
<1>5. QED
  BY <1>2, <1>3, <1>4 DEF Fetched

LEMMA StartedKeeps == ASSUME IInv, NEW r \in Turns, Started(r) PROVE IInv'
<1> DEFINE t == turn[r]
<1>1. /\ t \in TurnRecords /\ EndOk(t) /\ Vouched(t.input) /\ Vouched(t.carry) /\ Continues(t)
      /\ t.stage = "streaming" /\ t.res = "open" /\ adapted' \in Nat /\ Loses
  BY Idles DEF IInv, TurnOk, Started
<1>2. PICK y : y = [t EXCEPT !.res = "head", !.saw = "partial"]
  OBVIOUS
<1>3. /\ y \in TurnRecords /\ y.stage = "streaming" /\ y.res = "head" /\ y.ends = t.ends /\ y.saw = "partial"
      /\ y.input = t.input /\ y.carry = t.carry /\ y.model = t.model /\ y.prev = t.prev
      /\ y.replayed = t.replayed /\ y.generate = t.generate
  BY <1>1, <1>2 DEF TurnRecords, Stages
<1>4. Become(r, y)
  BY <1>2 DEF Started
<1> HIDE DEF t
<1>5. EndOk(y)
  BY <1>1, <1>3 DEF EndOk, Settled, Early
<1>6. Steady(t, y)
  BY <1>1, <1>3, <1>5 DEF Steady, Forward, Settled, Late
<1>7. Continues(y) /\ Vouched(y.input) /\ Vouched(y.carry)
  BY <1>1, <1>3, ContinuesOn
<1>8. QED
  BY <1>1, <1>4, <1>6, <1>7, SteadyMove DEF t

LEMMA StoppedKeeps == ASSUME IInv, NEW r \in Turns, Stopped(r) PROVE IInv'
<1> DEFINE t == turn[r]
<1>1. /\ t \in TurnRecords /\ EndOk(t) /\ Vouched(t.input) /\ Vouched(t.carry) /\ Continues(t)
      /\ t.stage = "streaming" /\ t.res # "open" /\ adapted' \in Nat
  BY DEF IInv, TurnOk, Stopped
<1>2. PICK y : y = [t EXCEPT !.stage = "terminal"]
  OBVIOUS
<1>3. /\ y \in TurnRecords /\ y.stage = "terminal" /\ y.res = t.res /\ y.ends = t.ends /\ y.saw = t.saw
      /\ y.input = t.input /\ y.carry = t.carry /\ y.model = t.model /\ y.prev = t.prev
      /\ y.replayed = t.replayed /\ y.generate = t.generate
  BY <1>1, <1>2 DEF TurnRecords, Stages
<1>4. Become(r, y)
  BY <1>2 DEF Stopped
<1> HIDE DEF t
<1>5. EndOk(y)
  BY <1>1, <1>3 DEF EndOk, Settled, Early
<1>6. Forward(t, y) /\ t.stage \notin Settled
  BY <1>1, <1>3 DEF Forward, Settled
<1>7. Continues(y) /\ Vouched(y.input) /\ Vouched(y.carry)
  BY <1>1, <1>3, ContinuesOn DEF Running
<1>8. PICK value \in {"empty", "whole"}, bytes \in Nat : value = "whole" /\ cache' = Put(cache, Replay(r), value, bytes)
  BY CacheAssumption DEF Stopped
<1>9. QED
  BY <1>1, <1>3, <1>4, <1>5, <1>6, <1>7, <1>8, HandleMove DEF t

LEMMA StreamFailsKeeps == ASSUME IInv, NEW r \in Turns, StreamFails(r) PROVE IInv'
BY Idles, Fails DEF StreamFails, IInv

LEMMA AbortSettlesKeeps == ASSUME IInv, NEW r \in Turns, AbortSettles(r) PROVE IInv'
BY Idles, Fails DEF AbortSettles, IInv

LEMMA CompletedKeeps == ASSUME IInv, NEW r \in Turns, Completed(r) PROVE IInv'
<1> DEFINE t == turn[r]
<1>1. /\ t \in TurnRecords /\ EndOk(t) /\ Vouched(t.input) /\ Vouched(t.carry) /\ Continues(t)
      /\ t.stage = "terminal" /\ adapted' \in Nat /\ ReplayOk(r) /\ Good(cache)
  BY DEF IInv, TurnOk, Completed
<1>2. PICK end \in {"completed", "incomplete"} :
        /\ Become(r, [t EXCEPT !.stage = "ending", !.saw = IF t.res = "head" THEN "whole" ELSE @,
                        !.ends = IF t.res = "head" THEN Append(@, end) ELSE @])
        /\ cache' = IF end = "completed"
                    THEN Put(cache, Snapshot(r), [model |-> t.model, input |-> SnapshotInput(r)], SnapshotBytes(t.input))
                    ELSE cache
  BY DEF Completed
<1>3. PICK y : y = [t EXCEPT !.stage = "ending", !.saw = IF t.res = "head" THEN "whole" ELSE @,
                      !.ends = IF t.res = "head" THEN Append(@, end) ELSE @]
  OBVIOUS
<1>4. t.ends = <<>> /\ t.ends \in Seq(Ends) /\ Len(t.ends) = 0
  BY <1>1, Fields DEF EndOk, Settled
<1>5. Append(t.ends, end) \in Seq(Ends) /\ Len(Append(t.ends, end)) = 1
  BY <1>4 DEF Ends
<1>6. /\ y.stage = "ending" /\ y.res = t.res /\ y.input = t.input /\ y.carry = t.carry
      /\ y.model = t.model /\ y.prev = t.prev /\ y.replayed = t.replayed /\ y.generate = t.generate
      /\ y.ends = (IF t.res = "head" THEN Append(t.ends, end) ELSE t.ends)
      /\ y.saw = (IF t.res = "head" THEN "whole" ELSE t.saw)
  BY <1>1, <1>3 DEF TurnRecords
<1>7. y \in TurnRecords
  BY <1>1, <1>3, <1>5 DEF TurnRecords, Stages
<1>8. Become(r, y)
  BY <1>2, <1>3
<1>9. cache' = IF end = "completed" THEN Put(cache, Snapshot(r), Shot(y, r), SnapshotBytes(t.input)) ELSE cache
  BY <1>2, <1>6 DEF Shot, SnapshotInput
<1> HIDE DEF t
<1>10. EndOk(y)
  <2>1. t.res # "ended" /\ (t.res = "open" => t.saw = "nothing")
    BY <1>1 DEF EndOk
  <2>2. QED
    BY <1>4, <1>5, <1>6, <2>1 DEF EndOk, Settled, Early
<1>11. Forward(t, y)
  BY <1>1, <1>6 DEF Forward, Settled
<1>12. Continues(y) /\ Vouched(y.input) /\ Vouched(y.carry)
  BY <1>1, <1>6, ContinuesOn DEF Running
<1>13. CASE end = "completed"
  <2>1. PICK bytes \in Nat : bytes = SnapshotBytes(t.input)
    <3>1. t.input \in Seq(Items)
      BY <1>1, Fields
    <3>2. 1 + Len(t.input) \in Nat
      BY <3>1
    <3>3. QED
      BY <3>2 DEF SnapshotBytes
  <2>2. y.model \in Models /\ y.stage \in Settled
    BY <1>1, <1>6 DEF Continues, Running, Settled
  <2>3. \A w : Holds(cache, Replay(r), w) => w = "whole"
    BY <1>1 DEF ReplayOk, t
  <2>4. cache' = Put(cache, Snapshot(r), Shot(y, r), bytes)
    BY <1>9, <1>13, <2>1
  <2>5. QED
    BY <1>1, <1>7, <1>8, <1>10, <1>11, <1>12, <2>2, <2>3, <2>4, SnapshotMove DEF t
<1>14. CASE end = "incomplete"
  <2>1. Loses
    BY <1>9, <1>14, Idles
  <2>2. Steady(t, y)
    BY <1>1, <1>6, <1>7, <1>10, <1>11 DEF Steady, Settled, Late
  <2>3. QED
    BY <1>1, <1>8, <1>12, <2>1, <2>2, SteadyMove DEF t
<1>15. QED
  BY <1>13, <1>14

LEMMA EndedKeeps == ASSUME IInv, NEW r \in Turns, Ended(r) PROVE IInv'
<1> DEFINE t == turn[r]
<1>1. /\ t \in TurnRecords /\ EndOk(t) /\ Vouched(t.input) /\ Vouched(t.carry) /\ Continues(t)
      /\ t.stage = "ending" /\ adapted' \in Nat /\ Loses
  BY Idles DEF IInv, TurnOk, Ended
<1>2. PICK o : o = Over(t)
  OBVIOUS
<1>3. /\ o \in TurnRecords /\ o.stage = "done" /\ o.carry = <<>> /\ o.res = t.res /\ o.ends = t.ends
      /\ o.saw = t.saw /\ o.input = t.input /\ o.model = t.model /\ o.generate = t.generate
  BY <1>1, <1>2, OverFacts
<1>4. PICK y : y = [o EXCEPT !.res = IF @ = "head" THEN "ended" ELSE @]
  OBVIOUS
<1>5. /\ y \in TurnRecords /\ y.stage = "done" /\ y.carry = <<>>
      /\ y.res = (IF t.res = "head" THEN "ended" ELSE t.res) /\ y.ends = t.ends
      /\ y.saw = t.saw /\ y.input = t.input /\ y.model = t.model /\ y.generate = t.generate
  BY <1>3, <1>4 DEF TurnRecords
<1>6. Become(r, y)
  BY <1>2, <1>4 DEF Ended
<1> HIDE DEF t
<1>7. EndOk(y)
  BY <1>1, <1>5 DEF EndOk, Settled, Early
<1>8. Steady(t, y)
  BY <1>1, <1>5, <1>7 DEF Steady, Forward, Settled, Late
<1>9. Continues(y) /\ Vouched(y.input) /\ Vouched(y.carry)
  BY <1>1, <1>5, EmptyVouched DEF Continues, Running
<1>10. QED
  BY <1>1, <1>6, <1>8, <1>9, SteadyMove DEF t

LEMMA TimeoutKeeps == ASSUME IInv, NEW r \in Turns, Timeout(r) PROVE IInv'
<1> DEFINE t == turn[r]
<1>1. /\ t \in TurnRecords /\ EndOk(t) /\ Vouched(t.input) /\ Vouched(t.carry) /\ Continues(t)
      /\ adapted' \in Nat /\ Loses
  BY Idles DEF IInv, TurnOk, Timeout
<1>2. PICK y : y = [t EXCEPT !.aborted = TRUE]
  OBVIOUS
<1>3. /\ y \in TurnRecords /\ y.stage = t.stage /\ y.res = t.res /\ y.ends = t.ends /\ y.saw = t.saw
      /\ y.input = t.input /\ y.carry = t.carry /\ y.model = t.model /\ y.prev = t.prev
      /\ y.replayed = t.replayed /\ y.generate = t.generate
  BY <1>1, <1>2 DEF TurnRecords
<1>4. Become(r, y)
  BY <1>2 DEF Timeout
<1> HIDE DEF t
<1>5. EndOk(y)
  BY <1>1, <1>3 DEF EndOk
<1>6. Steady(t, y)
  BY <1>1, <1>3, <1>5 DEF Steady, Forward
<1>7. Continues(y) /\ Vouched(y.input) /\ Vouched(y.carry)
  BY <1>1, <1>3, ContinuesOn
<1>8. QED
  BY <1>1, <1>4, <1>6, <1>7, SteadyMove DEF t

LEMMA ClientLeavesKeeps == ASSUME IInv, NEW r \in Turns, ClientLeaves(r) PROVE IInv'
<1> DEFINE t == turn[r]
<1>1. /\ t \in TurnRecords /\ EndOk(t) /\ Vouched(t.input) /\ Vouched(t.carry) /\ Continues(t)
      /\ t.stage \in Running \cup {"decoding"} /\ adapted' \in Nat /\ Loses
  BY Idles DEF IInv, TurnOk, ClientLeaves
<1>2. PICK y : y = [t EXCEPT !.res = "gone", !.aborted = t.stage # "decoding"]
  OBVIOUS
<1>3. /\ y \in TurnRecords /\ y.stage = t.stage /\ y.res = "gone" /\ y.ends = t.ends /\ y.saw = t.saw
      /\ y.input = t.input /\ y.carry = t.carry /\ y.model = t.model /\ y.prev = t.prev
      /\ y.replayed = t.replayed /\ y.generate = t.generate
  BY <1>1, <1>2 DEF TurnRecords
<1>4. Become(r, y)
  BY <1>2 DEF ClientLeaves
<1> HIDE DEF t
<1>5. EndOk(y)
  BY <1>1, <1>3 DEF EndOk, Running
<1>6. Steady(t, y)
  BY <1>1, <1>3, <1>5 DEF Steady, Forward
<1>7. Continues(y) /\ Vouched(y.input) /\ Vouched(y.carry)
  BY <1>1, <1>3, ContinuesOn
<1>8. QED
  BY <1>1, <1>4, <1>6, <1>7, SteadyMove DEF t

LEMMA CloseKeeps == ASSUME IInv, Close PROVE IInv'
<1>1. /\ turn' = [r \in Turns |-> [turn[r] EXCEPT !.aborted = @ \/ turn[r].stage \in Running]]
      /\ cache' = cache /\ adapted' = adapted
  BY DEF Close
<1>2. ASSUME NEW q \in Turns
      PROVE  LET t == turn[q]  y == turn'[q] IN
             /\ y \in TurnRecords /\ y.stage = t.stage /\ y.res = t.res /\ y.ends = t.ends /\ y.saw = t.saw
             /\ y.input = t.input /\ y.carry = t.carry /\ y.model = t.model /\ y.prev = t.prev
             /\ y.replayed = t.replayed /\ y.generate = t.generate
  <2>1. turn[q] \in TurnRecords
    BY DEF IInv, TurnOk
  <2>2. PICK t : t = turn[q]
    OBVIOUS
  <2>3. PICK y : y = [t EXCEPT !.aborted = @ \/ t.stage \in Running]
    OBVIOUS
  <2>4. /\ y \in TurnRecords /\ y.stage = t.stage /\ y.res = t.res /\ y.ends = t.ends /\ y.saw = t.saw
        /\ y.input = t.input /\ y.carry = t.carry /\ y.model = t.model /\ y.prev = t.prev
        /\ y.replayed = t.replayed /\ y.generate = t.generate
    BY <2>1, <2>2, <2>3 DEF TurnRecords
  <2>5. turn'[q] = y
    BY <1>1, <2>2, <2>3
  <2>6. QED
    BY <2>2, <2>4, <2>5
<1>3. \A q \in Turns : Forward(turn[q], turn'[q])
  BY <1>2 DEF Forward
<1>4. \A p \in Turns : Sealed(p) => Sealed(p)'
  BY <1>1, <1>3, SealedStays
<1>5. ASSUME NEW q \in Turns PROVE TurnOk(q)'
  <2>1. TurnOk(q) /\ turn[q] \in TurnRecords /\ turn[q].input \in Seq(Items) /\ turn[q].carry \in Seq(Items)
    BY Fields DEF IInv, TurnOk
  <2>2. PICK t, y : t = turn[q] /\ y = turn'[q]
    OBVIOUS
  <2>3. /\ y \in TurnRecords /\ y.stage = t.stage /\ y.res = t.res /\ y.ends = t.ends /\ y.saw = t.saw
        /\ y.input = t.input /\ y.carry = t.carry /\ y.model = t.model /\ y.prev = t.prev
        /\ y.replayed = t.replayed /\ y.generate = t.generate
    BY <1>2, <2>2
  <2>4. /\ t \in TurnRecords /\ EndOk(t) /\ Vouched(t.input) /\ Vouched(t.carry) /\ Continues(t)
        /\ t.input \in Seq(Items) /\ t.carry \in Seq(Items) /\ (t.saw = "whole" => Sealed(q))
    BY <2>1, <2>2 DEF TurnOk
  <2>5. Continues(y) /\ EndOk(y)
    BY <2>3, <2>4, ContinuesOn DEF EndOk
  <2>6. Vouched(y.input) /\ Vouched(y.carry) /\ y.input \in Seq(Items) /\ y.carry \in Seq(Items)
    BY <2>3, <2>4
  <2>7. Vouched(y.input)' /\ Vouched(y.carry)'
    BY <1>3, <1>4, <2>6, VouchedStays
  <2>8. Continues(y)'
    BY <1>3, <2>3, <2>5, <2>6, ContinuesStays
  <2>9. y.saw = "whole" => Sealed(q)'
    BY <1>4, <2>3, <2>4
  <2>10. QED
    BY <2>2, <2>3, <2>5, <2>7, <2>8, <2>9 DEF TurnOk
<1>6. ASSUME NEW q \in Turns PROVE SnapshotOk(q)' /\ ReplayOk(q)'
  <2>1. SnapshotOk(q) /\ ReplayOk(q)
    BY DEF IInv
  <2>2. ReplayOk(q)'
    BY <1>1, <1>2, <2>1 DEF ReplayOk
  <2>3. turn'[q].model = turn[q].model /\ turn'[q].input = turn[q].input
    BY <1>2
  <2>4. SnapshotOk(q)'
    BY <1>1, <1>4, <2>1, <2>3 DEF SnapshotOk, Shot
  <2>5. QED
    BY <2>2, <2>4
<1>7. turn' = [q \in Turns |-> turn'[q]]
  BY <1>1
<1>8. QED
  BY <1>1, <1>5, <1>6, <1>7 DEF IInv

LEMMA AdaptKeeps == ASSUME IInv, Adapt PROVE IInv'
<1>1. /\ adapted' = adapted + 1 /\ adapted' \in Nat /\ turn' = turn
      /\ cache' = Put(cache, <<"adapted", adapted'>>, "true", 1)
  BY DEF Adapt, IInv
<1>2. /\ Good(cache')
      /\ \A k, v : Holds(cache', k, v) => k = <<"adapted", adapted'>> \/ Holds(cache, k, v)
  <2>1. PICK key \in Keys, value \in Values, bytes \in Nat :
          key = <<"adapted", adapted'>> /\ value = "true" /\ bytes = 1
    BY <1>1 DEF Keys, Values
  <2>2. Good(cache) /\ cache' = Put(cache, key, value, bytes)
    BY <1>1, <2>1 DEF IInv
  <2>3. /\ Good(cache')
        /\ \A k, v : Holds(cache', k, v) => (k = key /\ v = value) \/ (k # key /\ Holds(cache, k, v))
    BY <2>2, PutFacts
  <2>4. QED
    BY <2>1, <2>3
<1>3. \A p, v : /\ Holds(cache', Snapshot(p), v) => Holds(cache, Snapshot(p), v)
                /\ Holds(cache', Replay(p), v) => Holds(cache, Replay(p), v)
  BY <1>2 DEF Snapshot, Replay
<1>4. \A q \in Turns : Forward(turn[q], turn'[q])
  BY <1>1 DEF Forward
<1>5. \A p \in Turns : Sealed(p) => Sealed(p)'
  BY <1>3, <1>4, SealedStays
<1>6. ASSUME NEW q \in Turns PROVE TurnOk(q)'
  <2>1. PICK t : t = turn[q]
    OBVIOUS
  <2>2. /\ t \in TurnRecords /\ EndOk(t) /\ Vouched(t.input) /\ Vouched(t.carry) /\ Continues(t)
        /\ (t.saw = "whole" => Sealed(q)) /\ t.input \in Seq(Items) /\ t.carry \in Seq(Items)
    BY <2>1, Fields DEF IInv, TurnOk
  <2>3. Vouched(t.input)' /\ Vouched(t.carry)'
    BY <1>4, <1>5, <2>2, VouchedStays
  <2>4. Continues(t)'
    BY <1>4, <2>2, ContinuesStays
  <2>5. QED
    BY <1>1, <1>5, <2>1, <2>2, <2>3, <2>4 DEF TurnOk
<1>7. ASSUME NEW q \in Turns PROVE SnapshotOk(q)' /\ ReplayOk(q)'
  <2>1. SnapshotOk(q) /\ ReplayOk(q)
    BY DEF IInv
  <2>2. QED
    BY <1>1, <1>3, <1>5, <2>1 DEF SnapshotOk, ReplayOk
<1>8. QED
  BY <1>1, <1>2, <1>6, <1>7 DEF IInv

LEMMA ArriveKeeps == ASSUME IInv, NEW r \in Turns, Arrive(r) PROVE IInv'
<1>1. /\ turn[r] \in TurnRecords /\ turn[r].stage = "idle" /\ adapted' \in Nat /\ Loses
      /\ \A q \in Turns : turn[q].saw # "nothing" => turn[q].stage # "idle"
      /\ \A q \in Turns : turn[q].saw = "whole" => Sealed(q)
  BY Idles DEF IInv, TurnOk, Arrive, EndOk, Early
<1>2. PICK model \in Models \cup {"absent", "foreign"}, prev \in Known \cup {0}, said \in Histories, generate \in BOOLEAN :
        LET t == [NoTurn EXCEPT !.model = model, !.prev = prev, !.generate = generate,
                                !.carry = [i \in DOMAIN said |-> Item(said[i], turn[said[i]].saw = "whole")]] IN
        /\ prev = 0 \/ said = <<>>
        /\ prev # 0 \/ model # "absent"
        /\ Become(r, IF closed THEN HttpError(t) ELSE [t EXCEPT !.stage = "decoding"])
  BY Zenon DEF Arrive
<1> DEFINE carried == [i \in DOMAIN said |-> Item(said[i], turn[said[i]].saw = "whole")]
<1>3. PICK n \in Nat : said \in [1 .. n -> Known]
  BY DEF Histories
<1>4. \A i \in 1 .. n : said[i] \in Turns /\ turn[said[i]].saw # "nothing"
  BY <1>3 DEF Known
<1>5. carried \in Seq(Items) /\ DOMAIN carried = 1 .. n
  <2>1. \A i \in 1 .. n : carried[i] \in Items
    BY <1>3, <1>4 DEF Item, Items
  <2>2. carried \in [1 .. n -> Items]
    BY <1>3, <2>1
  <2>3. QED
    BY <2>2
<1>6. Vouched(carried)
  <2>1. \A i \in 1 .. n : carried[i].turn = said[i] /\ carried[i].whole = (turn[said[i]].saw = "whole")
    BY <1>3 DEF Item
  <2> HIDE DEF carried
  <2>2. ASSUME NEW i \in DOMAIN carried
        PROVE  turn[carried[i].turn].stage # "idle" /\ (carried[i].whole => Sealed(carried[i].turn))
    <3>1. carried[i].turn = said[i] /\ said[i] \in Turns /\ turn[said[i]].saw # "nothing"
      BY <1>4, <1>5, <2>1
    <3>2. carried[i].whole => turn[said[i]].saw = "whole"
      BY <1>5, <2>1
    <3>3. QED
      BY <1>1, <3>1, <3>2
  <2>3. QED
    BY <2>2 DEF Vouched
<1> HIDE DEF carried
<1>7. PICK t : t = [NoTurn EXCEPT !.model = model, !.prev = prev, !.generate = generate, !.carry = carried]
  OBVIOUS
<1>8. /\ t \in TurnRecords /\ t.stage = "idle" /\ t.res = "open" /\ t.ends = <<>> /\ t.saw = "nothing"
      /\ t.input = <<>> /\ t.carry = carried
  <2>1. prev \in Turns \cup {0} /\ <<>> \in Seq(Items) /\ <<>> \in Seq(Ends)
    BY DEF Known
  <2>2. QED
    BY <1>5, <1>7, <2>1 DEF NoTurn, TurnRecords, Stages
<1>9. Become(r, IF closed THEN HttpError(t) ELSE [t EXCEPT !.stage = "decoding"])
  BY <1>2, <1>7 DEF carried
<1>10. EndOk(t) /\ Vouched(t.input) /\ Vouched(t.carry)
  BY <1>6, <1>8, EmptyVouched DEF EndOk, Settled, Early
<1>11. CASE closed
  <2>1. PICK y : y = HttpError(t)
    OBVIOUS
  <2>2. /\ y \in TurnRecords /\ EndOk(y) /\ y.stage = "done" /\ y.carry = <<>> /\ y.saw = "nothing" /\ y.input = <<>>
    BY <1>8, <1>10, <2>1, HttpErrorFacts DEF Settled
  <2>3. Become(r, y)
    BY <1>9, <1>11, <2>1
  <2>4. Continues(y) /\ Vouched(y.input) /\ Vouched(y.carry) /\ Steady(turn[r], y)
    BY <1>1, <2>2, EmptyVouched DEF Continues, Running, Steady, Forward, Settled, Late
  <2>5. QED
    BY <1>1, <2>3, <2>4, SteadyMove
<1>12. CASE ~closed
  <2>1. PICK y : y = [t EXCEPT !.stage = "decoding"]
    OBVIOUS
  <2>2. /\ y \in TurnRecords /\ y.stage = "decoding" /\ y.res = "open" /\ y.ends = <<>> /\ y.saw = "nothing"
        /\ y.input = t.input /\ y.carry = t.carry
    BY <1>8, <2>1 DEF TurnRecords, Stages
  <2>3. Become(r, y)
    BY <1>9, <1>12, <2>1
  <2>4. EndOk(y)
    BY <2>2 DEF EndOk, Settled, Early
  <2>5. Continues(y) /\ Vouched(y.input) /\ Vouched(y.carry)
    BY <1>10, <2>2 DEF Continues, Running
  <2>6. Steady(turn[r], y)
    BY <1>1, <2>2, <2>4 DEF Steady, Forward, Settled, Late
  <2>7. QED
    BY <1>1, <2>3, <2>5, <2>6, SteadyMove
<1>13. QED
  BY <1>11, <1>12

(***************************************************************************)
(* Dispatch(): what is found in the cache.                                 *)
(***************************************************************************)
LEMMA HeldKey ==
  ASSUME NEW c, Good(c), NEW k, NEW v, Holds(c, k, v)
  PROVE  k \in Keys
<1>1. c.entries \in Seq(Entries)
  BY CacheFields DEF Good, Exact
<1>2. PICK i \in 1 .. Len(c.entries) : c.entries[i].key = k
  BY DEF Holds
<1>3. c.entries[i] \in Entries
  BY <1>1
<1>4. QED
  BY <1>2, <1>3 DEF Entries

(* The snapshot that is found is of a turn that has ended.                  *)
LEMMA FoundSnapshot ==
  ASSUME IInv, NEW p \in Turns \cup {0}, Has(cache, Snapshot(p))
  PROVE  /\ p \in Turns /\ Sealed(p) /\ turn[p].model \in Models
         /\ Value(cache, Snapshot(p)) = Shot(turn[p], p)
<1>1. Good(cache) /\ cache \in Caches
  BY DEF IInv, Good, Exact
<1>2. Holds(cache, Snapshot(p), Value(cache, Snapshot(p)))
  BY <1>1, FoundIsHeld
<1>3. Snapshot(p) \in Keys
  BY <1>1, <1>2, HeldKey
<1>4. p \in Turns
  BY <1>3 DEF Keys, Snapshot
<1>5. QED
  BY <1>2, <1>4 DEF IInv, SnapshotOk

LEMMA DestinationFacts ==
  ASSUME IInv, NEW r \in Turns
  PROVE  Destination(turn[r]) \in Models \cup {"parent"}
<1>1. turn[r].prev \in Turns \cup {0}
  BY Fields DEF IInv, TurnOk
<1>2. ASSUME Has(cache, Snapshot(turn[r].prev)) PROVE Value(cache, Snapshot(turn[r].prev)).model \in Models
  <2>1. PICK p : p = turn[r].prev
    OBVIOUS
  <2>2. Value(cache, Snapshot(p)) = Shot(turn[p], p) /\ turn[p].model \in Models
    BY <1>1, <1>2, <2>1, FoundSnapshot
  <2>3. Shot(turn[p], p).model = turn[p].model
    BY DEF Shot
  <2>4. QED
    BY <2>1, <2>2, <2>3
<1>3. QED
  BY <1>2 DEF Destination

LEMMA FullInputFacts ==
  ASSUME IInv, NEW r \in Turns, NEW model, HasContinuation(turn[r], model)
  PROVE  /\ FullInput(turn[r]) \in Seq(Items) /\ Vouched(FullInput(turn[r]))
         /\ turn[r].prev # 0 =>
              /\ turn[turn[r].prev].stage \in Settled /\ model = turn[turn[r].prev].model
              /\ FullInput(turn[r]) = Append(turn[turn[r].prev].input, Item(turn[r].prev, TRUE))
<1>1. /\ turn[r].prev \in Turns \cup {0} /\ turn[r].carry \in Seq(Items) /\ Vouched(turn[r].carry)
  BY Fields DEF IInv, TurnOk
<1>2. CASE turn[r].prev = 0
  BY <1>1, <1>2 DEF FullInput
<1>3. CASE turn[r].prev # 0
  <2>1. PICK p : p = turn[r].prev
    OBVIOUS
  <2>2. Has(cache, Snapshot(p)) /\ Value(cache, Snapshot(p)).model = model
    BY <1>3, <2>1 DEF HasContinuation
  <2>3. p \in Turns /\ Sealed(p) /\ Value(cache, Snapshot(p)) = Shot(turn[p], p)
    BY <1>1, <2>1, <2>2, FoundSnapshot
  <2>4. model = turn[p].model /\ Value(cache, Snapshot(p)).input = Append(turn[p].input, Item(p, TRUE))
    <3>1. Shot(turn[p], p).model = turn[p].model /\ Shot(turn[p], p).input = Append(turn[p].input, Item(p, TRUE))
      BY DEF Shot
    <3>2. QED
      BY <2>2, <2>3, <3>1
  <2>5. FullInput(turn[r]) = Append(turn[p].input, Item(p, TRUE))
    BY <1>3, <2>1, <2>4 DEF FullInput
  <2>6. turn[p].input \in Seq(Items) /\ Vouched(turn[p].input)
    BY <2>3, Fields DEF IInv, TurnOk
  <2>7. /\ Item(p, TRUE) \in Items /\ Item(p, TRUE).turn = p
        /\ turn[p].stage \in Settled /\ turn[p].stage # "idle"
    BY <2>3 DEF Item, Items, Sealed, Settled
  <2>8. PICK s \in Seq(Items), e \in Items : s = turn[p].input /\ e = Item(p, TRUE)
    BY <2>6, <2>7
  <2>9. /\ Append(s, e) \in Seq(Items) /\ Len(Append(s, e)) = Len(s) + 1
        /\ \A i \in 1 .. Len(s) : Append(s, e)[i] = s[i]
        /\ Append(s, e)[Len(s) + 1] = e
    BY AppendProperties
  <2>10. Vouched(Append(s, e))
    <3> SUFFICES ASSUME NEW i \in DOMAIN Append(s, e)
                 PROVE  /\ turn[Append(s, e)[i].turn].stage # "idle"
                        /\ Append(s, e)[i].whole => Sealed(Append(s, e)[i].turn)
      BY DEF Vouched
    <3>1. i \in 1 .. Len(s) \/ i = Len(s) + 1
      BY <2>6, <2>8, <2>9
    <3>2. CASE i \in 1 .. Len(s)
      <4>1. Append(s, e)[i] = s[i] /\ i \in DOMAIN s
        BY <2>9, <3>2
      <4>2. QED
        BY <2>6, <2>8, <4>1 DEF Vouched
    <3>3. CASE i = Len(s) + 1
      BY <2>3, <2>7, <2>8, <2>9, <3>3
    <3>4. QED
      BY <3>1, <3>2, <3>3
  <2>11. QED
    BY <2>1, <2>4, <2>5, <2>7, <2>8, <2>9, <2>10
<1>4. QED
  BY <1>2, <1>3

LEMMA UsedFacts ==
  ASSUME IInv, NEW t, FullInput(t) \in Seq(Items)
  PROVE  Good(Used(t)) /\ \A k, v : Holds(Used(t), k, v) => Holds(cache, k, v)
<1> DEFINE keys == [i \in DOMAIN FullInput(t) |-> Replay(FullInput(t)[i].turn)]
<1>1. PICK c : c = IF t.prev # 0 THEN Touch(cache, Snapshot(t.prev)) ELSE cache
  OBVIOUS
<1>2. Good(c) /\ \A k, v : Holds(c, k, v) => Holds(cache, k, v)
  BY <1>1, TouchFacts DEF IInv
<1>3. Len(keys) \in Nat
  <2>1. PICK n \in Nat : DOMAIN FullInput(t) = 1 .. n
    BY LenProperties
  <2>2. DOMAIN keys = 1 .. n
    BY <2>1
  <2>3. \A s, m : DOMAIN s = 1 .. m /\ m \in Nat => Len(s) = m
    OBVIOUS
  <2>4. QED
    BY <2>2, <2>3
<1>4. Used(t) = TouchAll(c, keys)
  BY <1>1 DEF Used
<1> HIDE DEF keys
<1>5. QED
  BY <1>2, <1>3, <1>4, TouchAllFacts

(* What is given back is what the history says is there.                    *)
LEMMA ReplayedFacts ==
  ASSUME IInv, NEW t, FullInput(t) \in Seq(Items), Vouched(FullInput(t)), Replayable(t)
  PROVE  Replayed(t) = {item.turn : item \in {h \in ToSet(FullInput(t)) : turn[h.turn].generate /\ h.whole}}
<1>1. ASSUME NEW h \in Handles(t)
      PROVE  (Has(cache, Replay(h.turn)) /\ Value(cache, Replay(h.turn)) = "whole") <=> h.whole
  <2>1. h \in ToSet(FullInput(t)) /\ h.whole \in BOOLEAN /\ (h.whole => Sealed(h.turn))
    <3>1. PICK i \in DOMAIN FullInput(t) : h = FullInput(t)[i]
      BY <1>1 DEF Handles, ToSet
    <3>2. QED
      BY <1>1, <3>1, ItemOf DEF Vouched, Handles
  <2>2. Has(cache, Replay(h.turn)) /\ (Value(cache, Replay(h.turn)) = "whole" => h.whole)
    BY <1>1 DEF Replayable
  <2>3. cache \in Caches
    BY DEF IInv, Good, Exact
  <2>4. Holds(cache, Replay(h.turn), Value(cache, Replay(h.turn)))
    BY <2>2, <2>3, FoundIsHeld
  <2>5. QED
    BY <2>1, <2>2, <2>4 DEF Sealed
<1>2. {h \in Handles(t) : Has(cache, Replay(h.turn)) /\ Value(cache, Replay(h.turn)) = "whole"}
        = {h \in ToSet(FullInput(t)) : turn[h.turn].generate /\ h.whole}
  BY <1>1 DEF Handles
<1>3. QED
  BY <1>2 DEF Replayed

LEMMA DispatchKeeps == ASSUME IInv, NEW r \in Turns, Dispatch(r) PROVE IInv'
<1> DEFINE t == turn[r]
           model == Destination(t)
           s == FullInput(t)
<1>1. /\ t \in TurnRecords /\ EndOk(t) /\ Vouched(t.input) /\ Vouched(t.carry) /\ Continues(t)
      /\ t.stage = "decoding" /\ adapted' \in Nat /\ ReplayOk(r) /\ Good(cache)
  BY DEF IInv, TurnOk, Dispatch
<1>2. t.ends = <<>> /\ t.saw = "nothing" /\ t.res \in {"open", "gone"} /\ t.stage \notin {"idle", "ending", "done"}
  BY <1>1, Fields DEF EndOk, Settled, Early
<1>3. \A w : ~Holds(cache, Replay(r), w)
  BY <1>1 DEF ReplayOk
<1>4. CASE model = "parent" /\ t.prev # 0
  BY <1>1, <1>2, <1>4, Idles, Fails DEF Dispatch
<1>5. CASE model = "parent" /\ t.prev = 0
  <2>1. PICK o : o = Over(t)
    OBVIOUS
  <2>2. /\ o \in TurnRecords /\ o.carry = <<>> /\ o.res = t.res /\ o.ends = t.ends
        /\ o.saw = t.saw /\ o.input = t.input /\ o.generate = t.generate
    BY <1>1, <2>1, OverFacts
  <2>3. PICK y : y = [o EXCEPT !.stage = "native"]
    OBVIOUS
  <2>4. /\ y \in TurnRecords /\ y.stage = "native" /\ y.carry = <<>> /\ y.res = t.res /\ y.ends = t.ends
        /\ y.saw = t.saw /\ y.input = t.input /\ y.generate = t.generate
    BY <2>2, <2>3 DEF TurnRecords, Stages
  <2>5. Become(r, y) /\ Loses
    BY <1>5, <2>1, <2>3, Idles DEF Dispatch
  <2> HIDE DEF t, model
  <2>6. EndOk(y)
    BY <1>2, <2>4 DEF EndOk, Settled, Early
  <2>7. Steady(t, y)
    BY <1>1, <1>2, <2>4, <2>6 DEF Steady, Forward, Settled, Late
  <2>8. Continues(y) /\ Vouched(y.input) /\ Vouched(y.carry)
    BY <1>1, <2>4, EmptyVouched DEF Continues, Running
  <2>9. QED
    BY <1>1, <2>5, <2>7, <2>8, SteadyMove DEF t
<1>6. CASE model # "parent" /\ ~HasContinuation(t, model)
  <2>1. Become(r, HttpError(t)) /\ cache' = Touch(cache, Snapshot(t.prev))
    BY <1>6 DEF Dispatch
  <2>2. Loses
    BY <1>1, <2>1, TouchFacts DEF Loses
  <2>3. QED
    BY <1>1, <1>2, <2>1, <2>2, Fails
<1>7. CASE model # "parent" /\ HasContinuation(t, model)
  <2>1. model \in Models
    BY <1>7, DestinationFacts
  <2>2. /\ s \in Seq(Items) /\ Vouched(s)
        /\ t.prev # 0 => /\ turn[t.prev].stage \in Settled /\ model = turn[t.prev].model
                         /\ s = Append(turn[t.prev].input, Item(t.prev, TRUE))
    BY <1>7, FullInputFacts
  <2>3. CASE ~t.generate
    <3>1. /\ Become(r, [Over(t) EXCEPT !.model = model, !.input = s,
                          !.res = IF @ = "open" THEN "ended" ELSE @,
                          !.saw = IF t.res = "open" THEN "whole" ELSE @,
                          !.ends = IF t.res = "open" THEN <<"completed">> ELSE @])
          /\ cache' = Put(Touch(cache, Snapshot(t.prev)), Snapshot(r),
                          [model |-> model, input |-> Append(s, Item(r, TRUE))], SnapshotBytes(s))
      BY <1>7, <2>3 DEF Dispatch
    <3>2. PICK o : o = Over(t)
      OBVIOUS
    <3>3. /\ o \in TurnRecords /\ o.stage = "done" /\ o.carry = <<>> /\ o.res = t.res /\ o.ends = t.ends
          /\ o.saw = t.saw /\ o.generate = t.generate
      BY <1>1, <3>2, OverFacts
    <3>4. PICK y : y = [o EXCEPT !.model = model, !.input = s,
                          !.res = IF @ = "open" THEN "ended" ELSE @,
                          !.saw = IF t.res = "open" THEN "whole" ELSE @,
                          !.ends = IF t.res = "open" THEN <<"completed">> ELSE @]
      OBVIOUS
    <3>5. <<"completed">> \in Seq(Ends) /\ Len(<<"completed">>) = 1
      BY DEF Ends
    <3> HIDE DEF t, model, s
    <3>6. /\ y.stage = "done" /\ y.carry = <<>> /\ y.model = model /\ y.input = s /\ y.generate = t.generate
          /\ y.res = (IF t.res = "open" THEN "ended" ELSE t.res)
          /\ y.saw = (IF t.res = "open" THEN "whole" ELSE t.saw)
          /\ y.ends = (IF t.res = "open" THEN <<"completed">> ELSE t.ends)
      BY <3>3, <3>4 DEF TurnRecords
    <3>7. y \in TurnRecords
      BY <2>1, <2>2, <3>3, <3>4, <3>5 DEF TurnRecords
    <3>8. Become(r, y)
      BY <3>1, <3>2, <3>4
    <3>9. EndOk(y)
      BY <1>2, <3>5, <3>6 DEF EndOk, Settled, Early
    <3>10. /\ Good(Touch(cache, Snapshot(t.prev)))
           /\ \A k, v : Holds(Touch(cache, Snapshot(t.prev)), k, v) => Holds(cache, k, v)
      BY <1>1, TouchFacts
    <3>11. PICK c : c = Touch(cache, Snapshot(t.prev))
      OBVIOUS
    <3>12. PICK bytes \in Nat : bytes = SnapshotBytes(s)
      <4>1. Len(s) \in Nat
        BY <2>2
      <4>2. 1 + Len(s) \in Nat
        BY <4>1
      <4>3. QED
        BY <4>2 DEF SnapshotBytes
    <3>13. cache' = Put(c, Snapshot(r), Shot(y, r), bytes)
      BY <3>1, <3>6, <3>11, <3>12 DEF Shot
    <3>14. /\ y.stage \in Settled /\ y.model \in Models /\ Forward(t, y)
           /\ Vouched(y.input) /\ Vouched(y.carry) /\ Continues(y)
      BY <1>1, <2>1, <2>2, <3>6, EmptyVouched DEF Settled, Forward, Continues, Running
    <3>15. QED
      BY <1>1, <1>3, <3>7, <3>8, <3>9, <3>10, <3>11, <3>12, <3>13, <3>14, SnapshotMove DEF t
  <2>4. CASE t.generate /\ ~Replayable(t)
    <3>1. Become(r, HttpError(t)) /\ cache' = Used(t)
      BY <1>7, <2>4 DEF Dispatch
    <3>2. Loses
      BY <2>2, <3>1, UsedFacts DEF Loses
    <3>3. QED
      BY <1>1, <1>2, <3>1, <3>2, Fails
  <2>5. CASE t.generate /\ Replayable(t)
    <3>1. /\ Become(r, [t EXCEPT !.stage = "auth", !.carry = <<>>, !.model = model, !.input = s, !.replayed = Replayed(t)])
          /\ cache' = Used(t)
      BY <1>7, <2>5 DEF Dispatch
    <3>2. Loses
      BY <2>2, <3>1, UsedFacts DEF Loses
    <3>3. Replayed(t) = {item.turn : item \in {h \in ToSet(s) : turn[h.turn].generate /\ h.whole}}
      BY <2>2, <2>5, ReplayedFacts
    <3>4. Replayed(t) \subseteq Turns
      <4>1. \A h \in ToSet(s) : h.turn \in Turns
        BY <2>2, ItemOf DEF ToSet
      <4>2. QED
        BY <3>3, <4>1
    <3>5. PICK replays : replays = Replayed(t)
      OBVIOUS
    <3>6. PICK y : y = [t EXCEPT !.stage = "auth", !.carry = <<>>, !.model = model, !.input = s, !.replayed = replays]
      OBVIOUS
    <3>7. Become(r, y)
      BY <3>1, <3>5, <3>6
    <3> HIDE DEF t, model, s
    <3>8. <<>> \in Seq(Items) /\ "auth" \in Stages /\ replays \in SUBSET Turns
      BY <3>4, <3>5 DEF Stages
    <3>9. y \in TurnRecords
      BY <1>1, <2>1, <2>2, <3>6, <3>8 DEF TurnRecords
    <3>10. /\ y.stage = "auth" /\ y.carry = <<>> /\ y.model = model /\ y.input = s /\ y.replayed = replays
           /\ y.prev = t.prev /\ y.res = t.res /\ y.ends = t.ends /\ y.saw = t.saw /\ y.generate = t.generate
      BY <1>1, <3>6 DEF TurnRecords
    <3>11. EndOk(y)
      BY <1>2, <3>10 DEF EndOk, Settled, Early
    <3>12. Steady(t, y)
      BY <1>1, <1>2, <3>9, <3>10, <3>11 DEF Steady, Forward, Settled, Late
    <3>13. Thought(y) = replays
      BY <3>3, <3>5, <3>10 DEF Thought
    <3>14. Continues(y)
      BY <2>1, <2>2, <3>10, <3>13 DEF Continues
    <3>15. Vouched(y.input) /\ Vouched(y.carry)
      BY <2>2, <3>10, EmptyVouched
    <3>16. QED
      BY <1>1, <3>2, <3>7, <3>12, <3>14, <3>15, SteadyMove DEF t
  <2>6. QED
    BY <2>3, <2>4, <2>5
<1>8. QED
  BY <1>4, <1>5, <1>6, <1>7

(* A step that changes nothing.                                             *)
LEMMA StutterKeeps == ASSUME IInv, UNCHANGED vars PROVE IInv'
<1>1. cache' = cache /\ turn' = turn /\ adapted' = adapted
  BY DEF vars
<1>2. \A q \in Turns : Forward(turn[q], turn'[q]) /\ (Sealed(q) => Sealed(q)')
  BY <1>1 DEF Forward, Sealed
<1>3. ASSUME NEW q \in Turns PROVE TurnOk(q)'
  <2>1. PICK t : t = turn[q]
    OBVIOUS
  <2>2. /\ t \in TurnRecords /\ EndOk(t) /\ Vouched(t.input) /\ Vouched(t.carry) /\ Continues(t)
        /\ (t.saw = "whole" => Sealed(q)) /\ t.input \in Seq(Items) /\ t.carry \in Seq(Items)
    BY <2>1, Fields DEF IInv, TurnOk
  <2>3. Vouched(t.input)' /\ Vouched(t.carry)' /\ Continues(t)'
    BY <1>2, <2>2, VouchedStays, ContinuesStays
  <2>4. QED
    BY <1>1, <1>2, <2>1, <2>2, <2>3 DEF TurnOk
<1>4. ASSUME NEW q \in Turns PROVE SnapshotOk(q)' /\ ReplayOk(q)'
  BY <1>1, <1>2 DEF IInv, SnapshotOk, ReplayOk
<1>5. QED
  BY <1>1, <1>3, <1>4 DEF IInv

LEMMA NextIInv == IInv /\ [Next]_vars => IInv'
<1> SUFFICES ASSUME IInv, [Next]_vars PROVE IInv'
  OBVIOUS
<1>1. ASSUME NEW r \in Turns, Arrive(r) PROVE IInv'
  BY <1>1, ArriveKeeps
<1>2. ASSUME NEW r \in Turns, Step(r) PROVE IInv'
  BY <1>2, DispatchKeeps, AuthorizedKeeps, FetchedKeeps, StartedKeeps, StoppedKeeps, StreamFailsKeeps,
     CompletedKeeps, EndedKeeps, AbortSettlesKeeps DEF Step
<1>3. ASSUME NEW r \in Turns, Timeout(r) \/ ClientLeaves(r) PROVE IInv'
  BY <1>3, TimeoutKeeps, ClientLeavesKeeps
<1>4. CASE Adapt \/ Close
  BY <1>4, AdaptKeeps, CloseKeeps
<1>5. CASE UNCHANGED vars
  BY <1>5, StutterKeeps
<1>6. QED
  BY <1>1, <1>2, <1>3, <1>4, <1>5 DEF Next

(* Snapshots and handles are those of turns that have come to their end,    *)
(* and a turn that runs has the history it continues.                       *)
THEOREM Invariance == Spec => []IInv
<1>1. Init => IInv
  BY InitIInv
<1>2. IInv /\ [Next]_vars => IInv'
  BY NextIInv
<1>3. QED
  BY <1>1, <1>2, PTL DEF Spec

(* claude-cache.ts: whatever is put, replaced, touched or evicted, and in   *)
(* whatever order the turns do it, the entries and bytes stay within the    *)
(* budget and the counter is the sum of what is held.                       *)
THEOREM BudgetHolds == Spec => []CacheWithinBudget
<1>1. IInv => CacheWithinBudget
  BY GoodIsWithinBudget DEF IInv, CacheWithinBudget
<1>2. QED
  BY <1>1, Invariance, PTL

(* codex-gateway.ts and foldHistory(): no turn is sent to Claude with less  *)
(* than the history it refers to, with another model's, or with thinking    *)
(* that the client does not have.                                           *)
THEOREM FailsClosed == Spec => []ContinuationFailsClosed
<1>1. IInv => ContinuationFailsClosed
  BY DEF IInv, TurnOk, Continues, Thought, ContinuationFailsClosed
<1>2. QED
  BY <1>1, Invariance, PTL

(* streamClaude() and httpError(): a stream that was begun ends with one    *)
(* last frame, whatever races with it.                                      *)
THEOREM EndsOnce == Spec => []OneEnd
<1>1. IInv => OneEnd
  BY DEF IInv, TurnOk, EndOk, OneEnd
<1>2. QED
  BY <1>1, Invariance, PTL

-----------------------------------------------------------------------------
(***************************************************************************)
(* The translation of a stream.  Numbers in their order.                   *)
(***************************************************************************)
LEMMA Counted ==
  ASSUME NEW n \in Nat, NEW S, NEW f \in [1 .. n -> S], \A x \in S : \E i \in 1 .. n : f[i] = x,
         \A i, j \in 1 .. n : f[i] = f[j] => i = j
  PROVE  IsFiniteSet(S) /\ Cardinality(S) = n
<1>1. f \in Bijection(1 .. n, S)
  BY Fun_IsBij
<1>2. ExistsBijection(1 .. n, S)
  BY <1>1 DEF ExistsBijection
<1>3. QED
  BY <1>2, FS_CountingElements, FS_NatBijection

LEMMA EnumerationExists ==
  ASSUME NEW N \in Nat, NEW S \in SUBSET (1 .. N)
  PROVE  \E n \in Nat : \E s \in [1 .. n -> S] : ToSet(s) = S /\ Ordered(s)
<1> DEFINE Low(k) == {i \in S : i <= k}
           T == {k \in 0 .. N : \E n \in Nat : \E s \in [1 .. n -> Low(k)] : ToSet(s) = Low(k) /\ Ordered(s)}
<1>0. \A i \in S : i \in Int /\ 1 <= i /\ i <= N
  OBVIOUS
<1>1. 0 \in T
  <2>1. \A i \in S : ~(i <= 0)
    BY <1>0
  <2>2. Low(0) = {}
    BY <2>1
  <2>3. 1 .. 0 = {}
    OBVIOUS
  <2>4. PICK s : s = [i \in 1 .. 0 |-> 0]
    OBVIOUS
  <2>5. DOMAIN s = {} /\ s \in [1 .. 0 -> Low(0)]
    BY <2>2, <2>3, <2>4
  <2>6. ToSet(s) = Low(0) /\ Ordered(s)
    BY <2>2, <2>5 DEF ToSet, Ordered
  <2>7. 0 \in Nat /\ 0 \in 0 .. N
    OBVIOUS
  <2>8. QED
    BY <2>5, <2>6, <2>7
<1>2. ASSUME NEW k \in 0 .. N - 1, k \in T PROVE k + 1 \in T
  <2>1. PICK n \in Nat : \E s \in [1 .. n -> Low(k)] : ToSet(s) = Low(k) /\ Ordered(s)
    BY <1>2
  <2>2. PICK s \in [1 .. n -> Low(k)] : ToSet(s) = Low(k) /\ Ordered(s)
    BY <2>1
  <2>3. k + 1 \in 0 .. N /\ k \in Nat
    OBVIOUS
  <2>4. CASE k + 1 \notin S
    <3>1. Low(k + 1) = Low(k)
      <4>1. \A i \in S : i <= k + 1 <=> i <= k
        BY <1>0, <2>3, <2>4
      <4>2. QED
        BY <4>1
    <3>2. QED
      BY <2>2, <2>3, <3>1
  <2>5. CASE k + 1 \in S
    <3>1. Low(k + 1) = Low(k) \cup {k + 1} /\ \A i \in Low(k) : i < k + 1
      <4>1. \A i \in S : (i <= k + 1) <=> (i <= k \/ i = k + 1)
        BY <1>0, <2>3
      <4>2. \A i \in S : i <= k => i < k + 1
        BY <1>0, <2>3
      <4>3. k + 1 <= k + 1
        BY <2>3
      <4>4. QED
        BY <2>5, <4>1, <4>2, <4>3
    <3>2. PICK t : t = [i \in 1 .. n + 1 |-> IF i = n + 1 THEN k + 1 ELSE s[i]]
      OBVIOUS
    <3>3. \A i \in 1 .. n + 1 : i \in 1 .. n \/ i = n + 1
      OBVIOUS
    <3> HIDE DEF Low
    <3>4. /\ DOMAIN t = 1 .. n + 1 /\ t[n + 1] = k + 1
          /\ \A i \in 1 .. n : t[i] = s[i] /\ s[i] \in Low(k) /\ i # n + 1 /\ i \in 1 .. n + 1
      BY <3>2
    <3>5. t \in [1 .. n + 1 -> Low(k + 1)]
      BY <3>1, <3>2, <3>3, <3>4
    <3>6. ToSet(t) = Low(k + 1)
      <4>1. \A x \in Low(k) : \E i \in 1 .. n : s[i] = x
        BY <2>2 DEF ToSet
      <4>2. \A x \in Low(k + 1) : x \in ToSet(t)
        BY <3>1, <3>4, <4>1 DEF ToSet
      <4>3. \A x \in ToSet(t) : x \in Low(k + 1)
        BY <3>5 DEF ToSet
      <4>4. QED
        BY <4>2, <4>3
    <3>7. Ordered(t)
      <4> SUFFICES ASSUME NEW a \in 1 .. n + 1, NEW b \in 1 .. n + 1, a < b PROVE t[a] < t[b]
        BY <3>4 DEF Ordered
      <4>1. a \in 1 .. n
        OBVIOUS
      <4>2. CASE b = n + 1
        BY <3>1, <3>4, <4>1, <4>2
      <4>3. CASE b \in 1 .. n
        BY <2>2, <3>4, <4>1, <4>3 DEF Ordered
      <4>4. QED
        BY <3>3, <4>2, <4>3
    <3>8. QED
      BY <2>3, <3>5, <3>6, <3>7
  <2>6. QED
    BY <2>4, <2>5
<1>3. N \in T
  <2> HIDE DEF T
  <2>1. QED
    BY <1>1, <1>2, UpTo
<1>4. Low(N) = S
  BY <1>0
<1>5. QED
  BY <1>3, <1>4

LEMMA InOrderFacts ==
  ASSUME NEW N \in Nat, NEW S \in SUBSET (1 .. N)
  PROVE  /\ Cardinality(S) \in Nat /\ InOrder(S) \in [1 .. Cardinality(S) -> S]
         /\ ToSet(InOrder(S)) = S /\ Ordered(InOrder(S))
<1>0. \A i \in S : i \in Int
  OBVIOUS
<1>1. PICK n \in Nat : \E s \in [1 .. n -> S] : ToSet(s) = S /\ Ordered(s)
  BY EnumerationExists
<1>2. PICK s \in [1 .. n -> S] : ToSet(s) = S /\ Ordered(s)
  BY <1>1
<1>3. \A x \in S : \E i \in 1 .. n : s[i] = x
  BY <1>2 DEF ToSet
<1>4. \A i, j \in 1 .. n : s[i] = s[j] => i = j
  <2> SUFFICES ASSUME NEW i \in 1 .. n, NEW j \in 1 .. n, s[i] = s[j] PROVE i = j
    OBVIOUS
  <2>1. s[i] \in Int /\ s[j] \in Int
    BY <1>0
  <2>2. ~(i < j) /\ ~(j < i)
    BY <1>2, <2>1 DEF Ordered
  <2>3. QED
    BY <2>2
<1>5. Cardinality(S) = n
  BY <1>3, <1>4, Counted
<1>6. \E r \in [1 .. Cardinality(S) -> S] : ToSet(r) = S /\ Ordered(r)
  BY <1>2, <1>5
<1>7. QED
  BY <1>5, <1>6 DEF InOrder

(* The place of a number is how many there are up to it.                    *)
LEMMA PlaceIsRank ==
  ASSUME NEW N \in Nat, NEW S \in SUBSET (1 .. N), NEW n \in 1 .. Cardinality(S)
  PROVE  n = Cardinality({i \in S : i <= InOrder(S)[n]})
<1>0. \A i \in S : i \in Int
  OBVIOUS
<1>1. PICK s : s = InOrder(S)
  OBVIOUS
<1>2. Cardinality(S) \in Nat /\ s \in [1 .. Cardinality(S) -> S] /\ ToSet(s) = S /\ Ordered(s)
  BY <1>1, InOrderFacts
<1> DEFINE U == {i \in S : i <= s[n]}
           f == [m \in 1 .. n |-> s[m]]
<1>3. \A m \in 1 .. Cardinality(S) : s[m] \in S /\ s[m] \in Int
  BY <1>0, <1>2
<1>4. \A m \in 1 .. n : m \in 1 .. Cardinality(S) /\ s[m] <= s[n]
  <2> SUFFICES ASSUME NEW m \in 1 .. n PROVE m \in 1 .. Cardinality(S) /\ s[m] <= s[n]
    OBVIOUS
  <2>1. m \in 1 .. Cardinality(S) /\ (m < n \/ m = n)
    BY <1>2
  <2>2. QED
    BY <1>2, <1>3, <2>1 DEF Ordered
<1>5. f \in [1 .. n -> U]
  BY <1>3, <1>4
<1>6. \A x \in U : \E m \in 1 .. n : f[m] = x
  <2> SUFFICES ASSUME NEW x \in U PROVE \E m \in 1 .. n : f[m] = x
    OBVIOUS
  <2>1. PICK m \in 1 .. Cardinality(S) : s[m] = x
    BY <1>2 DEF ToSet
  <2>2. ~(n < m)
    BY <1>2, <1>3, <2>1 DEF Ordered
  <2>3. m \in 1 .. n
    BY <1>2, <2>2
  <2>4. QED
    BY <2>1, <2>3
<1>7. \A i, j \in 1 .. n : f[i] = f[j] => i = j
  <2> SUFFICES ASSUME NEW i \in 1 .. n, NEW j \in 1 .. n, f[i] = f[j] PROVE i = j
    OBVIOUS
  <2>1. s[i] = s[j] /\ i \in 1 .. Cardinality(S) /\ j \in 1 .. Cardinality(S)
    BY <1>4
  <2>2. ~(i < j) /\ ~(j < i)
    BY <1>2, <1>3, <2>1 DEF Ordered
  <2>3. QED
    BY <2>2
<1>8. n \in Nat
  BY <1>2
<1> HIDE DEF U, f
<1>9. Cardinality(U) = n
  BY <1>5, <1>6, <1>7, <1>8, Counted
<1>10. QED
  BY <1>1, <1>9 DEF U

(***************************************************************************)
(* The inductive invariant.  A block that takes an output_index has as     *)
(* many as there are such blocks up to it, and what is streamed are the    *)
(* texts before the first tool call: up to there every block that takes an *)
(* index is a text, and no text is ever left out of the response, so the   *)
(* index given early is the place the item has in the end.                 *)
(***************************************************************************)
Takers(b, k) == {i \in 1 .. k : TakesOutput(b[i].type)}
Rank(b, k) == Cardinality(Takers(b, k))
Streamed(b) == {i \in DOMAIN b : b[i].streamed}

BeforeCalls(b, i) == b[i].type = "text" /\ \A j \in 1 .. i : b[j].type # "tool_use"

WellFormed(b, next, seen) ==
  /\ b \in Seq(Block) /\ Len(b) <= MaxBlocks
  /\ next = Rank(b, Len(b)) + 1
  /\ seen \in BOOLEAN /\ (seen <=> \E i \in 1 .. Len(b) : b[i].type = "tool_use")
  /\ \A i \in 1 .. Len(b) : TakesOutput(b[i].type) => b[i].outputIndex = Rank(b, i)
  /\ \A i \in 1 .. Len(b) : b[i].streamed <=> BeforeCalls(b, i)

Opening == <<Reasoning, "reasoning", 0>>
Spot(b, i) == <<i, "text", b[i].outputIndex>>
Spots(b) == {Spot(b, i) : i \in Streamed(b)}

Told(b, i) == IF i \in Streamed(b) THEN b[i].text ELSE 0

Framed ==
  /\ phase \in {"awaiting_start", "streaming", "finished", "failed"}
  /\ deltas \in [1 .. MaxBlocks -> Nat]
  /\ phase = "awaiting_start" => blocks = <<>>
  /\ phase # "finished" => added \cup done \subseteq {Opening} \cup Spots(blocks)
  /\ phase = "streaming" => done = {Opening} /\ added = {Opening} \cup Spots(blocks)
  /\ phase \in {"awaiting_start", "streaming"} => \A i \in 1 .. MaxBlocks : deltas[i] = Told(blocks, i)
  /\ phase = "finished" => ItemsKeepTheirPlace /\ EndIsWhole

StreamInv == WellFormed(blocks, nextOutput, toolSeen) /\ Framed

-----------------------------------------------------------------------------
(* Ranks.                                                                   *)
LEMMA RankType ==
  ASSUME NEW b, NEW k \in Nat
  PROVE  IsFiniteSet(Takers(b, k)) /\ Rank(b, k) \in Nat /\ Rank(b, k) <= k
<1>1. IsFiniteSet(1 .. k) /\ Cardinality(1 .. k) = k
  BY FS_Interval
<1>2. Takers(b, k) \in SUBSET (1 .. k)
  BY DEF Takers
<1>3. IsFiniteSet(Takers(b, k)) /\ Cardinality(Takers(b, k)) <= k
  BY <1>1, <1>2, FS_Subset
<1>4. QED
  BY <1>3, FS_CardinalityType DEF Rank

LEMMA RankStep ==
  ASSUME NEW b, NEW k \in Nat
  PROVE  Rank(b, k + 1) = IF TakesOutput(b[k + 1].type) THEN Rank(b, k) + 1 ELSE Rank(b, k)
<1>1. \A i \in 1 .. k + 1 : i \in 1 .. k \/ i = k + 1
  OBVIOUS
<1>2. 1 .. k \subseteq 1 .. k + 1 /\ k + 1 \in 1 .. k + 1 /\ k + 1 \notin 1 .. k
  OBVIOUS
<1>3. CASE TakesOutput(b[k + 1].type)
  <2>1. Takers(b, k + 1) = Takers(b, k) \cup {k + 1} /\ k + 1 \notin Takers(b, k)
    BY <1>1, <1>2, <1>3 DEF Takers
  <2>2. QED
    BY <1>3, <2>1, RankType, FS_AddElement DEF Rank
<1>4. CASE ~TakesOutput(b[k + 1].type)
  <2>1. Takers(b, k + 1) = Takers(b, k)
    BY <1>1, <1>2, <1>4 DEF Takers
  <2>2. QED
    BY <1>4, <2>1 DEF Rank
<1>5. QED
  BY <1>3, <1>4

(* Of two blocks the later one has the greater rank, if it takes an index.  *)
LEMMA RankGrows ==
  ASSUME NEW b, NEW i \in Nat, NEW j \in Nat, i < j, TakesOutput(b[j].type)
  PROVE  Rank(b, i) < Rank(b, j)
<1>1. IsFiniteSet(Takers(b, j)) /\ Rank(b, i) \in Nat /\ Rank(b, j) \in Nat
  BY RankType
<1>2. \A m \in 1 .. i : m \in 1 .. j
  OBVIOUS
<1>3. Takers(b, i) \in SUBSET Takers(b, j)
  BY <1>2 DEF Takers
<1>4. j \in 1 .. j /\ j \notin 1 .. i
  OBVIOUS
<1>5. j \in Takers(b, j) /\ j \notin Takers(b, i)
  BY <1>4 DEF Takers
<1>6. Cardinality(Takers(b, i)) <= Cardinality(Takers(b, j))
  BY <1>1, <1>3, FS_Subset
<1>7. Cardinality(Takers(b, j)) # Cardinality(Takers(b, i))
  BY <1>1, <1>3, <1>5, FS_Subset
<1>8. QED
  BY <1>1, <1>6, <1>7 DEF Rank

LEMMA RankSame ==
  ASSUME NEW b, NEW c, NEW k \in Nat, \A i \in 1 .. k : b[i].type = c[i].type
  PROVE  Rank(b, k) = Rank(c, k)
<1>1. Takers(b, k) = Takers(c, k)
  BY DEF Takers
<1>2. QED
  BY <1>1 DEF Rank

(***************************************************************************)
(* The blocks.                                                             *)
(***************************************************************************)
LEMMA EmptyWellFormed == WellFormed(<<>>, 1, FALSE)
<1>1. <<>> \in Seq(Block) /\ Len(<<>>) = 0
  OBVIOUS
<1>2. Rank(<<>>, 0) = 0
  <2>1. Rank(<<>>, 0) \in Nat /\ Rank(<<>>, 0) <= 0
    BY RankType
  <2>2. QED
    BY <2>1
<1>3. 0 <= MaxBlocks
  BY BoundsAssumption
<1>4. \A i \in 1 .. 0 : FALSE
  OBVIOUS
<1>5. QED
  BY <1>1, <1>2, <1>3, <1>4 DEF WellFormed

LEMMA BlockFacts ==
  ASSUME NEW b \in Seq(Block)
  PROVE  /\ Len(b) \in Nat /\ DOMAIN b = 1 .. Len(b)
         /\ \A i \in 1 .. Len(b) :
              /\ b[i] \in Block /\ b[i].type \in Types /\ b[i].streamed \in BOOLEAN
              /\ b[i].open \in BOOLEAN /\ b[i].text \in 0 .. MaxDeltas /\ b[i].text \in Nat
<1>1. Len(b) \in Nat /\ DOMAIN b = 1 .. Len(b) /\ \A i \in 1 .. Len(b) : b[i] \in Block
  OBVIOUS
<1>2. MaxDeltas \in Nat
  BY BoundsAssumption
<1>3. QED
  BY <1>1, <1>2 DEF Block

(* A step that changes neither the type of a block nor how it is shown.     *)
LEMMA SameShape ==
  ASSUME NEW b, NEW c, NEW next, NEW seen, WellFormed(b, next, seen),
         c \in Seq(Block), Len(c) = Len(b),
         \A i \in 1 .. Len(b) : /\ c[i].type = b[i].type /\ c[i].streamed = b[i].streamed
                                /\ c[i].outputIndex = b[i].outputIndex
  PROVE  WellFormed(c, next, seen) /\ Streamed(c) = Streamed(b) /\ Spots(c) = Spots(b)
<1>1. b \in Seq(Block) /\ Len(b) \in Nat /\ DOMAIN b = 1 .. Len(b) /\ DOMAIN c = 1 .. Len(b)
  BY DEF WellFormed
<1>2. \A k \in 0 .. Len(b) : Rank(c, k) = Rank(b, k)
  <2> SUFFICES ASSUME NEW k \in 0 .. Len(b) PROVE Rank(c, k) = Rank(b, k)
    OBVIOUS
  <2>1. k \in Nat /\ \A i \in 1 .. k : i \in 1 .. Len(b)
    BY <1>1
  <2>2. \A i \in 1 .. k : c[i].type = b[i].type
    BY <2>1
  <2>3. QED
    BY <2>1, <2>2, RankSame
<1>3. Len(b) \in 0 .. Len(b) /\ \A i \in 1 .. Len(b) : i \in 0 .. Len(b)
  BY <1>1
<1>4. \A i \in 1 .. Len(b) : BeforeCalls(c, i) <=> BeforeCalls(b, i)
  <2> SUFFICES ASSUME NEW i \in 1 .. Len(b) PROVE BeforeCalls(c, i) <=> BeforeCalls(b, i)
    OBVIOUS
  <2>1. \A j \in 1 .. i : j \in 1 .. Len(b)
    BY <1>1
  <2>2. QED
    BY <2>1 DEF BeforeCalls
<1>5. WellFormed(c, next, seen)
  BY <1>1, <1>2, <1>3, <1>4 DEF WellFormed
<1>6. Streamed(c) = Streamed(b)
  BY <1>1 DEF Streamed
<1>7. \A i \in Streamed(b) : i \in 1 .. Len(b)
  BY <1>1 DEF Streamed
<1>8. QED
  BY <1>5, <1>6, <1>7 DEF Spots, Spot

LEMMA NewBlock ==
  ASSUME NEW b, NEW next, NEW seen, WellFormed(b, next, seen), Len(b) < MaxBlocks,
         NEW x \in Block, x.outputIndex = IF TakesOutput(x.type) THEN next ELSE 0,
         x.streamed <=> (x.type = "text" /\ ~seen),
         NEW seen2 \in BOOLEAN, seen2 <=> (seen \/ x.type = "tool_use")
  PROVE  /\ WellFormed(Append(b, x), IF TakesOutput(x.type) THEN next + 1 ELSE next, seen2)
         /\ Streamed(Append(b, x)) = Streamed(b) \cup (IF x.streamed THEN {Len(b) + 1} ELSE {})
         /\ \A i \in 1 .. Len(b) : Append(b, x)[i] = b[i]
         /\ Append(b, x)[Len(b) + 1] = x
<1> DEFINE L == Len(b)
<1>1. PICK c : c = Append(b, x)
  OBVIOUS
<1>2. b \in Seq(Block) /\ L \in Nat /\ DOMAIN b = 1 .. L
  BY DEF WellFormed
<1>3. /\ c \in Seq(Block) /\ Len(c) = L + 1 /\ DOMAIN c = 1 .. L + 1
      /\ c[L + 1] = x /\ \A i \in 1 .. L : c[i] = b[i]
  BY <1>1, <1>2, AppendProperties
<1>4. \A i \in 1 .. L + 1 : i \in 1 .. L \/ i = L + 1
  BY <1>2
<1>5. L + 1 \in 1 .. L + 1 /\ L + 1 \in Nat /\ \A i \in 1 .. L : i \in 1 .. L + 1 /\ i # L + 1
  BY <1>2
<1>6. \A k \in 0 .. L : Rank(c, k) = Rank(b, k)
  <2> SUFFICES ASSUME NEW k \in 0 .. L PROVE Rank(c, k) = Rank(b, k)
    OBVIOUS
  <2>1. k \in Nat /\ \A i \in 1 .. k : i \in 1 .. L
    BY <1>2
  <2>2. \A i \in 1 .. k : c[i].type = b[i].type
    BY <1>3, <2>1
  <2>3. QED
    BY <2>1, <2>2, RankSame
<1>7. Rank(c, L + 1) = IF TakesOutput(x.type) THEN Rank(b, L) + 1 ELSE Rank(b, L)
  <2>1. L \in 0 .. L
    BY <1>2
  <2>2. Rank(c, L) = Rank(b, L)
    BY <1>6, <2>1
  <2>3. Rank(c, L + 1) = IF TakesOutput(c[L + 1].type) THEN Rank(c, L) + 1 ELSE Rank(c, L)
    BY <1>2, RankStep
  <2>4. QED
    BY <1>3, <2>2, <2>3
<1>8. next = Rank(b, L) + 1 /\ Rank(b, L) \in Nat
  BY <1>2, RankType DEF WellFormed
<1>9. \A i \in 1 .. L : BeforeCalls(c, i) <=> BeforeCalls(b, i)
  <2> SUFFICES ASSUME NEW i \in 1 .. L PROVE BeforeCalls(c, i) <=> BeforeCalls(b, i)
    OBVIOUS
  <2>1. \A j \in 1 .. i : j \in 1 .. L
    BY <1>2
  <2>2. QED
    BY <1>3, <2>1 DEF BeforeCalls
<1>10. seen <=> \E i \in 1 .. L : b[i].type = "tool_use"
  BY DEF WellFormed
<1>11. x.streamed <=> BeforeCalls(c, L + 1)
  <2>1. x.type = "text" => x.type # "tool_use"
    OBVIOUS
  <2>2. (\A j \in 1 .. L + 1 : c[j].type # "tool_use") <=> (x.type # "tool_use" /\ \A j \in 1 .. L : b[j].type # "tool_use")
    BY <1>3, <1>4, <1>5
  <2>3. QED
    BY <1>3, <1>10, <2>1, <2>2 DEF BeforeCalls
<1>12. seen2 <=> \E i \in 1 .. L + 1 : c[i].type = "tool_use"
  BY <1>3, <1>4, <1>5, <1>10
<1>13. \A i \in 1 .. L + 1 : TakesOutput(c[i].type) => c[i].outputIndex = Rank(c, i)
  <2> SUFFICES ASSUME NEW i \in 1 .. L + 1, TakesOutput(c[i].type) PROVE c[i].outputIndex = Rank(c, i)
    OBVIOUS
  <2>1. CASE i \in 1 .. L
    <3>1. i \in 0 .. L
      BY <1>2, <2>1
    <3>2. QED
      BY <1>3, <1>6, <2>1, <3>1 DEF WellFormed
  <2>2. CASE i = L + 1
    BY <1>3, <1>7, <1>8, <2>2
  <2>3. QED
    BY <1>4, <2>1, <2>2
<1>14. \A i \in 1 .. L + 1 : c[i].streamed <=> BeforeCalls(c, i)
  <2> SUFFICES ASSUME NEW i \in 1 .. L + 1 PROVE c[i].streamed <=> BeforeCalls(c, i)
    OBVIOUS
  <2>1. CASE i \in 1 .. L
    BY <1>3, <1>9, <2>1 DEF WellFormed
  <2>2. CASE i = L + 1
    BY <1>3, <1>11, <2>2
  <2>3. QED
    BY <1>4, <2>1, <2>2
<1>15. L + 1 <= MaxBlocks
  BY <1>2, BoundsAssumption
<1>16. (IF TakesOutput(x.type) THEN next + 1 ELSE next) = Rank(c, L + 1) + 1
  BY <1>7, <1>8
<1>17. WellFormed(c, IF TakesOutput(x.type) THEN next + 1 ELSE next, seen2)
  <2> HIDE DEF L
  <2>1. QED
    BY <1>3, <1>12, <1>13, <1>14, <1>15, <1>16 DEF WellFormed
<1>18. Streamed(c) = Streamed(b) \cup (IF x.streamed THEN {L + 1} ELSE {})
  BY <1>2, <1>3, <1>4, <1>5 DEF Streamed
<1>19. QED
  BY <1>1, <1>3, <1>17, <1>18

(***************************************************************************)
(* What was shown early has its place.                                     *)
(***************************************************************************)
LEMMA StreamedFacts ==
  ASSUME NEW b, NEW next, NEW seen, WellFormed(b, next, seen), NEW i \in Streamed(b)
  PROVE  /\ i \in 1 .. Len(b) /\ i \in Nat /\ 1 <= i
         /\ b[i].type = "text" /\ TakesOutput(b[i].type)
         /\ \A j \in 1 .. i : b[j].type # "tool_use"
         /\ b[i].outputIndex = Rank(b, i) /\ Rank(b, i) \in Nat /\ 1 <= Rank(b, i)
<1>1. b \in Seq(Block) /\ Len(b) \in Nat /\ DOMAIN b = 1 .. Len(b)
  BY DEF WellFormed
<1>2. i \in 1 .. Len(b) /\ b[i].streamed
  BY <1>1 DEF Streamed
<1>3. i \in Nat /\ 1 <= i /\ 0 < i
  BY <1>2
<1>4. b[i].type = "text" /\ \A j \in 1 .. i : b[j].type # "tool_use"
  BY <1>2 DEF WellFormed, BeforeCalls
<1>5. TakesOutput(b[i].type)
  BY <1>4 DEF TakesOutput
<1>6. b[i].outputIndex = Rank(b, i)
  BY <1>2, <1>5 DEF WellFormed
<1>7. Rank(b, i) \in Nat /\ Rank(b, 0) \in Nat
  BY <1>3, RankType
<1>8. Rank(b, 0) < Rank(b, i)
  BY <1>3, <1>5, RankGrows
<1>9. 1 <= Rank(b, i)
  BY <1>7, <1>8
<1>10. QED
  BY <1>2, <1>3, <1>4, <1>5, <1>6, <1>7, <1>9

LEMMA SpotsApart ==
  ASSUME NEW b, NEW next, NEW seen, WellFormed(b, next, seen),
         NEW x \in {Opening} \cup Spots(b), NEW y \in {Opening} \cup Spots(b)
  PROVE  (x[1] = y[1]) = (x[3] = y[3])
<1>1. Opening[1] = 0 /\ Opening[3] = 0
  BY DEF Opening, Reasoning
<1>2. \A i \in Streamed(b) : Spot(b, i)[1] = i /\ Spot(b, i)[3] = Rank(b, i) /\ i # 0 /\ Rank(b, i) # 0
  <2> SUFFICES ASSUME NEW i \in Streamed(b)
               PROVE Spot(b, i)[1] = i /\ Spot(b, i)[3] = Rank(b, i) /\ i # 0 /\ Rank(b, i) # 0
    OBVIOUS
  <2>1. b[i].outputIndex = Rank(b, i) /\ i \in Nat /\ 1 <= i /\ Rank(b, i) \in Nat /\ 1 <= Rank(b, i)
    BY StreamedFacts
  <2>2. i # 0 /\ Rank(b, i) # 0
    BY <2>1
  <2>3. QED
    BY <2>1, <2>2 DEF Spot
<1>3. \A i, j \in Streamed(b) : Rank(b, i) = Rank(b, j) => i = j
  <2> SUFFICES ASSUME NEW i \in Streamed(b), NEW j \in Streamed(b), Rank(b, i) = Rank(b, j) PROVE i = j
    OBVIOUS
  <2>1. /\ i \in Nat /\ TakesOutput(b[i].type) /\ Rank(b, i) \in Nat
        /\ j \in Nat /\ TakesOutput(b[j].type) /\ Rank(b, j) \in Nat
    BY StreamedFacts
  <2>2. ~(i < j)
    <3>1. i < j => Rank(b, i) < Rank(b, j)
      BY <2>1, RankGrows
    <3>2. QED
      BY <2>1, <3>1
  <2>3. ~(j < i)
    <3>1. j < i => Rank(b, j) < Rank(b, i)
      BY <2>1, RankGrows
    <3>2. QED
      BY <2>1, <3>1
  <2>4. QED
    BY <2>1, <2>2, <2>3
<1>4. x = Opening \/ \E i \in Streamed(b) : x = Spot(b, i)
  BY DEF Spots
<1>5. y = Opening \/ \E i \in Streamed(b) : y = Spot(b, i)
  BY DEF Spots
<1>6. QED
  BY <1>1, <1>2, <1>3, <1>4, <1>5

(* What a whole message is answered with.                                   *)
LEMMA ContentFacts ==
  ASSUME WellFormed(blocks, nextOutput, toolSeen)
  PROVE  /\ ToSet(Content) \in SUBSET (1 .. Len(blocks)) /\ Ordered(Content)
         /\ \A i \in ToSet(Content) : Incomplete => blocks[i].type = "text"
         /\ \A i \in 1 .. Len(blocks) : (~Incomplete \/ blocks[i].type = "text") => i \in ToSet(Content)
<1>1. /\ blocks \in Seq(Block) /\ Len(blocks) \in Nat /\ DOMAIN blocks = 1 .. Len(blocks)
      /\ \A i \in 1 .. Len(blocks) : blocks[i].type \in Types
  BY BlockFacts DEF WellFormed
<1> DEFINE Those(types) == {i \in DOMAIN blocks : blocks[i].type \in types}
<1>2. \A types : ToSet(InOrder(Those(types))) = Those(types) /\ Ordered(InOrder(Those(types)))
  <2> SUFFICES ASSUME NEW types
               PROVE ToSet(InOrder(Those(types))) = Those(types) /\ Ordered(InOrder(Those(types)))
    OBVIOUS
  <2>1. Those(types) \in SUBSET (1 .. Len(blocks))
    BY <1>1
  <2> HIDE DEF Those
  <2>2. QED
    BY <1>1, <2>1, InOrderFacts
<1>3. CASE Incomplete
  <2>1. Content = InOrder(Those({"text"}))
    BY <1>3 DEF Content, Of
  <2>2. ToSet(Content) = Those({"text"}) /\ Ordered(Content)
    <3> HIDE DEF Those
    <3>1. QED
      BY <1>2, <2>1
  <2>3. QED
    BY <1>1, <1>3, <2>2
<1>4. CASE ~Incomplete
  <2>1. Content = InOrder(Those(Types))
    BY <1>4 DEF Content, Of
  <2>2. ToSet(Content) = Those(Types) /\ Ordered(Content)
    <3> HIDE DEF Those
    <3>1. QED
      BY <1>2, <2>1
  <2>3. QED
    BY <1>1, <1>4, <2>2
<1>5. QED
  BY <1>3, <1>4

LEMMA OutputFacts ==
  ASSUME WellFormed(blocks, nextOutput, toolSeen)
  PROVE  /\ ToSet(Output) = {i \in ToSet(Content) : blocks[i].type # "thinking"} /\ Ordered(Output)
         /\ Len(Output) \in Nat /\ DOMAIN Output = 1 .. Len(Output)
         /\ \A n \in 1 .. Len(Output) : Output[n] \in ToSet(Output)
         /\ \A m, n \in 1 .. Len(Output) : Output[m] = Output[n] => m = n
         /\ \A i \in ToSet(Output) : /\ i \in 1 .. Len(blocks) /\ (Incomplete => blocks[i].type = "text")
                                     /\ \E n \in 1 .. Len(Output) : Output[n] = i
         /\ \A i \in Streamed(blocks) : /\ i \in ToSet(Output) /\ blocks[i].outputIndex \in 1 .. Len(Output)
                                     /\ Output[blocks[i].outputIndex] = i
<1>1. /\ blocks \in Seq(Block) /\ Len(blocks) \in Nat /\ DOMAIN blocks = 1 .. Len(blocks)
      /\ \A i \in 1 .. Len(blocks) : blocks[i].type \in Types
  BY BlockFacts DEF WellFormed
<1>2. PICK S : S = {i \in ToSet(Content) : blocks[i].type # "thinking"}
  OBVIOUS
<1>3. PICK out : out = Output
  OBVIOUS
<1>4. S \in SUBSET (1 .. Len(blocks)) /\ out = InOrder(S)
  BY <1>2, <1>3, ContentFacts DEF Output
<1>5. Cardinality(S) \in Nat /\ out \in [1 .. Cardinality(S) -> S] /\ ToSet(out) = S /\ Ordered(out)
  BY <1>1, <1>4, InOrderFacts
<1>6. Len(out) = Cardinality(S) /\ DOMAIN out = 1 .. Len(out)
  <2>1. out \in Seq(S)
    BY <1>5
  <2>2. Len(out) \in Nat /\ DOMAIN out = 1 .. Len(out) /\ DOMAIN out = 1 .. Cardinality(S)
    BY <1>5, <2>1
  <2>3. QED
    BY <1>5, <2>2
<1>7. \A n \in 1 .. Len(out) : out[n] \in S /\ out[n] \in Int
  <2>1. \A i \in S : i \in Int
    BY <1>4
  <2>2. QED
    BY <1>5, <1>6, <2>1
<1>8. \A m, n \in 1 .. Len(out) : out[m] = out[n] => m = n
  <2> SUFFICES ASSUME NEW m \in 1 .. Len(out), NEW n \in 1 .. Len(out), out[m] = out[n] PROVE m = n
    OBVIOUS
  <2>1. ~(m < n) /\ ~(n < m)
    BY <1>5, <1>6, <1>7 DEF Ordered
  <2>2. QED
    BY <2>1, <1>5, <1>6
<1>9. \A i \in S : /\ i \in 1 .. Len(blocks) /\ (Incomplete => blocks[i].type = "text")
                   /\ \E n \in 1 .. Len(out) : out[n] = i
  <2>1. \A i \in S : \E n \in 1 .. Len(out) : out[n] = i
    BY <1>5, <1>6 DEF ToSet
  <2>2. \A i \in S : i \in ToSet(Content)
    BY <1>2
  <2>3. QED
    BY <1>4, <2>1, <2>2, ContentFacts
<1>10. \A i \in Streamed(blocks) : /\ i \in S /\ blocks[i].outputIndex \in 1 .. Len(out)
                                /\ out[blocks[i].outputIndex] = i
  <2> SUFFICES ASSUME NEW i \in Streamed(blocks)
               PROVE  /\ i \in S /\ blocks[i].outputIndex \in 1 .. Len(out)
                      /\ out[blocks[i].outputIndex] = i
    OBVIOUS
  <2>1. /\ i \in 1 .. Len(blocks) /\ blocks[i].type = "text" /\ blocks[i].outputIndex = Rank(blocks, i)
        /\ \A j \in 1 .. i : blocks[j].type # "tool_use"
    BY StreamedFacts
  <2>2. i \in ToSet(Content)
    BY <2>1, ContentFacts
  <2>3. i \in S
    BY <1>2, <2>1, <2>2
  <2>4. PICK n \in 1 .. Len(out) : out[n] = i
    BY <1>9, <2>3
  <2>5. n = Cardinality({j \in S : j <= i})
    <3>1. n \in 1 .. Cardinality(S)
      BY <1>6
    <3>2. n = Cardinality({j \in S : j <= InOrder(S)[n]})
      BY <1>1, <1>4, <3>1, PlaceIsRank
    <3>3. QED
      BY <1>4, <2>4, <3>2
  <2>6. {j \in S : j <= i} = Takers(blocks, i)
    <3>1. ASSUME NEW j \in S, j <= i PROVE j \in Takers(blocks, i)
      <4>1. j \in 1 .. Len(blocks) /\ blocks[j].type # "thinking" /\ j \in Int
        BY <1>2, <1>4, <3>1
      <4>2. j \in 1 .. i
        BY <2>1, <3>1, <4>1
      <4>3. blocks[j].type \in {"text", "tool_use"}
        BY <1>1, <4>1 DEF Types
      <4>4. QED
        BY <4>2, <4>3 DEF Takers, TakesOutput
    <3>2. ASSUME NEW j \in Takers(blocks, i) PROVE j \in S /\ j <= i
      <4>1. j \in 1 .. i /\ TakesOutput(blocks[j].type)
        BY <3>2 DEF Takers
      <4>2. blocks[j].type = "text"
        BY <2>1, <4>1 DEF TakesOutput
      <4>3. j \in 1 .. Len(blocks) /\ j <= i
        BY <1>1, <2>1, <4>1
      <4>4. j \in ToSet(Content)
        BY <4>2, <4>3, ContentFacts
      <4>5. QED
        BY <1>2, <4>2, <4>3, <4>4
    <3>3. QED
      BY <3>1, <3>2
  <2>7. n = blocks[i].outputIndex
    BY <2>1, <2>5, <2>6 DEF Rank
  <2>8. QED
    BY <2>3, <2>4, <2>7
<1>11. QED
  BY <1>2, <1>3, <1>5, <1>6, <1>7, <1>8, <1>9, <1>10

(***************************************************************************)
(* The steps.                                                              *)
(***************************************************************************)
LEMMA InitStreamInv == StreamInit => StreamInv
<1> SUFFICES ASSUME StreamInit PROVE StreamInv
  OBVIOUS
<1>1. WellFormed(blocks, nextOutput, toolSeen)
  BY EmptyWellFormed DEF StreamInit
<1>2. deltas \in [1 .. MaxBlocks -> Nat] /\ \A i \in 1 .. MaxBlocks : deltas[i] = Told(blocks, i)
  BY DEF StreamInit, Told, Streamed
<1>3. Framed
  BY <1>2 DEF StreamInit, Framed
<1>4. QED
  BY <1>1, <1>3 DEF StreamInv

LEMMA MessageStartStep == StreamInv /\ MessageStart => StreamInv'
<1> SUFFICES ASSUME StreamInv, MessageStart PROVE StreamInv'
  OBVIOUS
<1>1. WellFormed(blocks, nextOutput, toolSeen)'
  BY DEF StreamInv, MessageStart
<1>2. blocks = <<>> /\ blocks' = <<>> /\ phase' = "streaming" /\ deltas' \in [1 .. MaxBlocks -> Nat]
  BY DEF StreamInv, Framed, MessageStart
<1>3. Streamed(<<>>) = {}
  BY DEF Streamed
<1>4. Spots(<<>>) = {}
  BY <1>3 DEF Spots
<1>5. added' = {Opening} /\ done' = {Opening}
  BY DEF MessageStart, Opening
<1>6. \A i \in 1 .. MaxBlocks : deltas'[i] = Told(blocks', i)
  BY DEF StreamInv, Framed, MessageStart
<1>7. Framed'
  BY <1>2, <1>3, <1>4, <1>5, <1>6 DEF Framed
<1>8. QED
  BY <1>1, <1>7 DEF StreamInv

LEMMA BlockStartStep ==
  ASSUME StreamInv, NEW type \in Types, NEW call \in CallIds, BlockStart(type, call)
  PROVE  StreamInv'
<1> DEFINE L == Len(blocks)
<1>1. PICK x : x = [type |-> type, open |-> TRUE, streamed |-> IsStreamed(type), text |-> 0,
                    outputIndex |-> IF TakesOutput(type) THEN nextOutput ELSE 0, call |-> call]
  OBVIOUS
<1>2. /\ x.type = type /\ x.open = TRUE /\ x.streamed = IsStreamed(type) /\ x.text = 0
      /\ x.outputIndex = (IF TakesOutput(type) THEN nextOutput ELSE 0) /\ x.call = call
  BY <1>1
<1>3. WellFormed(blocks, nextOutput, toolSeen) /\ phase = "streaming" /\ L < MaxBlocks
  BY DEF StreamInv, BlockStart
<1>4. blocks \in Seq(Block) /\ L \in Nat /\ DOMAIN blocks = 1 .. L /\ toolSeen \in BOOLEAN
  BY <1>3 DEF WellFormed
<1>5. nextOutput \in 0 .. MaxBlocks
  <2>1. nextOutput = Rank(blocks, L) + 1 /\ Rank(blocks, L) \in Nat /\ Rank(blocks, L) <= L
    BY <1>3, <1>4, RankType DEF WellFormed
  <2>2. QED
    BY <1>3, <1>4, <2>1, BoundsAssumption
<1>6. x \in Block
  <2>1. 0 \in 0 .. MaxDeltas /\ 0 \in 0 .. MaxBlocks
    BY BoundsAssumption
  <2>2. IsStreamed(type) \in BOOLEAN
    BY <1>4 DEF IsStreamed
  <2>3. (IF TakesOutput(type) THEN nextOutput ELSE 0) \in 0 .. MaxBlocks
    BY <1>5, <2>1
  <2>4. QED
    BY <1>1, <2>1, <2>2, <2>3 DEF Block
<1>7. blocks' = Append(blocks, x) /\ nextOutput' = (IF TakesOutput(x.type) THEN nextOutput + 1 ELSE nextOutput)
  BY <1>1, <1>2 DEF BlockStart
<1>8. toolSeen' \in BOOLEAN /\ (toolSeen' <=> (toolSeen \/ x.type = "tool_use"))
  BY <1>2, <1>4 DEF BlockStart
<1>9. x.streamed <=> (x.type = "text" /\ ~toolSeen)
  BY <1>2 DEF IsStreamed
<1>10. x.outputIndex = (IF TakesOutput(x.type) THEN nextOutput ELSE 0)
  BY <1>2
<1>11. /\ WellFormed(Append(blocks, x), IF TakesOutput(x.type) THEN nextOutput + 1 ELSE nextOutput, toolSeen')
       /\ Streamed(Append(blocks, x)) = Streamed(blocks) \cup (IF x.streamed THEN {L + 1} ELSE {})
       /\ \A i \in 1 .. L : Append(blocks, x)[i] = blocks[i]
       /\ Append(blocks, x)[L + 1] = x
  BY <1>3, <1>6, <1>8, <1>9, <1>10, NewBlock
<1>12. WellFormed(blocks, nextOutput, toolSeen)'
  BY <1>7, <1>11
<1>13. /\ Streamed(blocks') = Streamed(blocks) \cup (IF x.streamed THEN {L + 1} ELSE {})
       /\ \A i \in 1 .. L : blocks'[i] = blocks[i]
       /\ blocks'[L + 1] = x
  BY <1>7, <1>11
<1>14. \A i \in Streamed(blocks) : i \in 1 .. L
  BY <1>4 DEF Streamed
<1>15. Spots(blocks') = Spots(blocks) \cup (IF x.streamed THEN {<<L + 1, "text", nextOutput>>} ELSE {})
  <2>1. \A i \in Streamed(blocks) : Spot(blocks', i) = Spot(blocks, i)
    BY <1>13, <1>14 DEF Spot
  <2>2. x.streamed => Spot(blocks', L + 1) = <<L + 1, "text", nextOutput>>
    BY <1>2, <1>9, <1>13 DEF Spot, TakesOutput
  <2>3. QED
    BY <1>13, <2>1, <2>2 DEF Spots
<1>16. added' = added \cup (IF x.streamed THEN {<<L + 1, "text", nextOutput>>} ELSE {})
  BY <1>2 DEF BlockStart
<1>17. phase' = phase /\ done' = done /\ deltas' = deltas
  BY DEF BlockStart
<1>18. \A i \in 1 .. MaxBlocks : deltas'[i] = Told(blocks', i)
  <2> SUFFICES ASSUME NEW i \in 1 .. MaxBlocks PROVE deltas'[i] = Told(blocks', i)
    OBVIOUS
  <2>1. deltas'[i] = Told(blocks, i)
    BY <1>3, <1>17 DEF StreamInv, Framed
  <2>2. L + 1 \notin Streamed(blocks)
    BY <1>4, <1>14
  <2>3. QED
    BY <1>2, <1>13, <1>14, <2>1, <2>2 DEF Told
<1>19. Framed'
  <2>1. added = {Opening} \cup Spots(blocks) /\ done = {Opening} /\ deltas \in [1 .. MaxBlocks -> Nat]
    BY <1>3 DEF StreamInv, Framed
  <2>2. added' = {Opening} \cup Spots(blocks')
    BY <1>15, <1>16, <2>1
  <2>3. QED
    BY <1>3, <1>17, <1>18, <2>1, <2>2 DEF Framed
<1>20. QED
  BY <1>12, <1>19 DEF StreamInv

(* The frames stay as they are, and so does what they say of the blocks.    *)
LEMMA FramesKept ==
  ASSUME StreamInv, phase # "finished", phase' \in {"streaming", "failed"},
         phase' = "streaming" => phase = "streaming",
         Spots(blocks') = Spots(blocks), added' = added, done' = done,
         deltas' \in [1 .. MaxBlocks -> Nat],
         phase' = "streaming" => \A i \in 1 .. MaxBlocks : deltas'[i] = Told(blocks', i)
  PROVE  Framed'
<1>1. added \cup done \subseteq {Opening} \cup Spots(blocks)
  BY DEF StreamInv, Framed
<1>2. phase' = "streaming" => done = {Opening} /\ added = {Opening} \cup Spots(blocks)
  BY DEF StreamInv, Framed
<1>3. QED
  BY <1>1, <1>2 DEF Framed

LEMMA TextDeltaStep ==
  ASSUME StreamInv, NEW i \in 1 .. MaxBlocks, TextDelta(i)
  PROVE  StreamInv'
<1> DEFINE L == Len(blocks)
<1>1. WellFormed(blocks, nextOutput, toolSeen) /\ phase = "streaming"
  BY DEF StreamInv, TextDelta
<1>2. blocks \in Seq(Block) /\ L \in Nat /\ DOMAIN blocks = 1 .. L /\ i \in 1 .. L
  BY <1>1 DEF WellFormed, TextDelta
<1>3. blocks[i] \in Block /\ blocks[i].text \in Nat /\ blocks[i].text < MaxDeltas /\ blocks[i].streamed \in BOOLEAN
  BY <1>2, BlockFacts DEF TextDelta
<1>4. PICK x : x = [blocks[i] EXCEPT !.text = @ + 1]
  OBVIOUS
<1>5. x \in Block
  <2>1. blocks[i].text + 1 \in 0 .. MaxDeltas
    BY <1>3, BoundsAssumption
  <2>2. QED
    BY <1>3, <1>4, <2>1 DEF Block
<1>6. /\ x.type = blocks[i].type /\ x.streamed = blocks[i].streamed
      /\ x.outputIndex = blocks[i].outputIndex /\ x.text = blocks[i].text + 1
  BY <1>3, <1>4 DEF Block
<1>7. blocks' = [blocks EXCEPT ![i] = x]
  BY <1>4 DEF TextDelta
<1>8. blocks' \in Seq(Block) /\ Len(blocks') = L /\ \A k \in 1 .. L : blocks'[k] = IF k = i THEN x ELSE blocks[k]
  BY <1>2, <1>5, <1>7
<1>9. \A k \in 1 .. L : /\ blocks'[k].type = blocks[k].type /\ blocks'[k].streamed = blocks[k].streamed
                        /\ blocks'[k].outputIndex = blocks[k].outputIndex
  BY <1>6, <1>8
<1>10. WellFormed(blocks', nextOutput, toolSeen) /\ Streamed(blocks') = Streamed(blocks) /\ Spots(blocks') = Spots(blocks)
  BY <1>1, <1>8, <1>9, SameShape
<1>11. /\ phase' = phase /\ added' = added /\ done' = done
       /\ nextOutput' = nextOutput /\ toolSeen' = toolSeen
       /\ deltas' = IF blocks[i].streamed THEN [deltas EXCEPT ![i] = @ + 1] ELSE deltas
  BY DEF TextDelta
<1>12. deltas \in [1 .. MaxBlocks -> Nat] /\ \A k \in 1 .. MaxBlocks : deltas[k] = Told(blocks, k)
  BY <1>1 DEF StreamInv, Framed
<1>13. i \in Streamed(blocks) <=> blocks[i].streamed
  BY <1>2 DEF Streamed
<1>14. deltas' \in [1 .. MaxBlocks -> Nat]
  BY <1>11, <1>12
<1>15. \A k \in 1 .. MaxBlocks : deltas'[k] = Told(blocks', k)
  <2> SUFFICES ASSUME NEW k \in 1 .. MaxBlocks PROVE deltas'[k] = Told(blocks', k)
    OBVIOUS
  <2>1. CASE k = i
    BY <1>2, <1>6, <1>8, <1>10, <1>11, <1>12, <1>13, <2>1 DEF Told
  <2>2. CASE k # i
    <3>1. deltas'[k] = deltas[k]
      BY <1>11, <1>12, <2>2
    <3>2. k \in Streamed(blocks) => k \in 1 .. L
      BY <1>2 DEF Streamed
    <3>3. QED
      BY <1>8, <1>10, <1>12, <2>2, <3>1, <3>2 DEF Told
  <2>3. QED
    BY <2>1, <2>2
<1>16. Framed'
  BY <1>1, <1>10, <1>11, <1>14, <1>15, FramesKept
<1>17. QED
  BY <1>10, <1>11, <1>16 DEF StreamInv

LEMMA BlockStopStep ==
  ASSUME StreamInv, NEW i \in 1 .. MaxBlocks, BlockStop(i)
  PROVE  StreamInv'
<1> DEFINE L == Len(blocks)
<1>1. WellFormed(blocks, nextOutput, toolSeen) /\ phase = "streaming"
  BY DEF StreamInv, BlockStop
<1>2. blocks \in Seq(Block) /\ L \in Nat /\ DOMAIN blocks = 1 .. L /\ i \in 1 .. L
  BY <1>1 DEF WellFormed, BlockStop
<1>3. blocks[i] \in Block
  BY <1>2
<1>4. PICK x : x = [blocks[i] EXCEPT !.open = FALSE]
  OBVIOUS
<1>5. x \in Block
  BY <1>3, <1>4 DEF Block
<1>6. /\ x.type = blocks[i].type /\ x.streamed = blocks[i].streamed
      /\ x.outputIndex = blocks[i].outputIndex /\ x.text = blocks[i].text
  BY <1>3, <1>4 DEF Block
<1>7. blocks' = [blocks EXCEPT ![i] = x]
  BY <1>4 DEF BlockStop
<1>8. blocks' \in Seq(Block) /\ Len(blocks') = L /\ \A k \in 1 .. L : blocks'[k] = IF k = i THEN x ELSE blocks[k]
  BY <1>2, <1>5, <1>7
<1>9. \A k \in 1 .. L : /\ blocks'[k].type = blocks[k].type /\ blocks'[k].streamed = blocks[k].streamed
                        /\ blocks'[k].outputIndex = blocks[k].outputIndex /\ blocks'[k].text = blocks[k].text
  BY <1>6, <1>8
<1>10. WellFormed(blocks', nextOutput, toolSeen) /\ Streamed(blocks') = Streamed(blocks) /\ Spots(blocks') = Spots(blocks)
  BY <1>1, <1>8, <1>9, SameShape
<1>11. /\ phase' = phase /\ added' = added /\ done' = done /\ deltas' = deltas
       /\ nextOutput' = nextOutput /\ toolSeen' = toolSeen
  BY DEF BlockStop, client
<1>12. deltas \in [1 .. MaxBlocks -> Nat] /\ \A k \in 1 .. MaxBlocks : deltas[k] = Told(blocks, k)
  BY <1>1 DEF StreamInv, Framed
<1>13. \A k \in 1 .. MaxBlocks : deltas'[k] = Told(blocks', k)
  <2>1. \A k \in Streamed(blocks) : k \in 1 .. L
    BY <1>2 DEF Streamed
  <2>2. QED
    BY <1>9, <1>10, <1>11, <1>12, <2>1 DEF Told
<1>14. Framed'
  BY <1>1, <1>10, <1>11, <1>12, <1>13, FramesKept
<1>15. QED
  BY <1>10, <1>11, <1>14 DEF StreamInv

LEMMA QuietStep ==
  ASSUME StreamInv, Fail \/ \E reason \in StopReasons \ {"none"} : MessageDelta(reason)
  PROVE  StreamInv'
<1>1. /\ blocks' = blocks /\ added' = added /\ done' = done /\ deltas' = deltas
      /\ nextOutput' = nextOutput /\ toolSeen' = toolSeen
  BY DEF Fail, MessageDelta, client
<1>2. /\ phase # "finished" /\ phase' \in {"streaming", "failed"}
      /\ (phase' = "streaming" => phase = "streaming")
  BY DEF Fail, MessageDelta
<1>3. deltas' \in [1 .. MaxBlocks -> Nat]
  BY <1>1 DEF StreamInv, Framed
<1>4. phase' = "streaming" => \A i \in 1 .. MaxBlocks : deltas'[i] = Told(blocks', i)
  BY <1>1, <1>2 DEF StreamInv, Framed
<1>5. Framed'
  BY <1>1, <1>2, <1>3, <1>4, FramesKept
<1>6. QED
  BY <1>1, <1>5 DEF StreamInv

(* The terminal frames name the items that were shown where they were shown.*)
LEMMA MessageStopStep ==
  ASSUME StreamInv, MessageStop
  PROVE  StreamInv'
<1>1. PICK out : out = Output
  OBVIOUS
<1> DEFINE P(n) == <<out[n], blocks[out[n]].type, n>>
           K == Len(out)
           B == Len(blocks)
<1>2. WellFormed(blocks, nextOutput, toolSeen) /\ phase = "streaming"
  BY DEF StreamInv, MessageStop
<1>3. blocks \in Seq(Block) /\ B \in Nat /\ DOMAIN blocks = 1 .. B /\ B <= MaxBlocks
  BY <1>2 DEF WellFormed
<1>4. \A i \in 1 .. B : blocks[i].streamed \in BOOLEAN /\ blocks[i].text \in Nat
  BY <1>3, BlockFacts
<1>5. /\ ToSet(out) = {i \in ToSet(Content) : blocks[i].type # "thinking"} /\ Ordered(out)
      /\ K \in Nat /\ DOMAIN out = 1 .. K
      /\ \A n \in 1 .. K : out[n] \in ToSet(out)
      /\ \A m, n \in 1 .. K : out[m] = out[n] => m = n
      /\ \A i \in ToSet(out) : /\ i \in 1 .. B /\ (Incomplete => blocks[i].type = "text")
                               /\ \E n \in 1 .. K : out[n] = i
      /\ \A i \in Streamed(blocks) : /\ i \in ToSet(out) /\ blocks[i].outputIndex \in 1 .. K
                                  /\ out[blocks[i].outputIndex] = i
  BY <1>1, <1>2, OutputFacts
<1>6. /\ added = {Opening} \cup Spots(blocks) /\ done = {Opening}
      /\ deltas \in [1 .. MaxBlocks -> Nat] /\ \A i \in 1 .. MaxBlocks : deltas[i] = Told(blocks, i)
  BY <1>2 DEF StreamInv, Framed
<1>7. \A i \in ToSet(out) : i \in Streamed(blocks) <=> blocks[i].streamed
  BY <1>3, <1>5 DEF Streamed
<1>8. PICK shown : shown = {i \in ToSet(out) : blocks[i].streamed}
  OBVIOUS
<1>9. /\ phase' = "finished" /\ blocks' = blocks /\ nextOutput' = nextOutput /\ toolSeen' = toolSeen
      /\ stopReason' = stopReason
      /\ added' = added \cup {P(n) : n \in {m \in DOMAIN out : out[m] \notin shown}}
      /\ done' = done \cup {P(n) : n \in DOMAIN out}
      /\ deltas' = [i \in 1 .. MaxBlocks |-> IF i \in ToSet(out) \ shown THEN blocks[i].text ELSE deltas[i]]
      /\ final' = out /\ committed' = Content
  BY <1>1, <1>8 DEF MessageStop
<1>10. shown = Streamed(blocks)
  BY <1>5, <1>7, <1>8
<1>11. Spots(blocks) = {P(n) : n \in {m \in 1 .. K : out[m] \in shown}}
  <2>1. \A i \in Streamed(blocks) : Spot(blocks, i) = P(blocks[i].outputIndex)
    <3> SUFFICES ASSUME NEW i \in Streamed(blocks) PROVE Spot(blocks, i) = P(blocks[i].outputIndex)
      OBVIOUS
    <3>1. blocks[i].type = "text"
      BY <1>2, StreamedFacts
    <3>2. QED
      BY <1>5, <3>1 DEF Spot
  <2>2. \A n \in 1 .. K : out[n] \in shown => n = blocks[out[n]].outputIndex
    <3> SUFFICES ASSUME NEW n \in 1 .. K, out[n] \in shown PROVE n = blocks[out[n]].outputIndex
      OBVIOUS
    <3>1. blocks[out[n]].outputIndex \in 1 .. K /\ out[blocks[out[n]].outputIndex] = out[n]
      BY <1>5, <1>10
    <3>2. QED
      BY <1>5, <3>1
  <2>3. \A y \in Spots(blocks) : y \in {P(n) : n \in {m \in 1 .. K : out[m] \in shown}}
    <3> HIDE DEF P
    <3> SUFFICES ASSUME NEW y \in Spots(blocks) PROVE \E n \in {m \in 1 .. K : out[m] \in shown} : y = P(n)
      OBVIOUS
    <3>1. PICK i \in Streamed(blocks) : y = Spot(blocks, i)
      BY DEF Spots
    <3>2. y = P(blocks[i].outputIndex) /\ blocks[i].outputIndex \in 1 .. K /\ out[blocks[i].outputIndex] = i
      BY <1>5, <2>1, <3>1
    <3>3. QED
      BY <1>10, <3>1, <3>2
  <2>4. \A n \in {m \in 1 .. K : out[m] \in shown} : P(n) \in Spots(blocks)
    <3> HIDE DEF P
    <3> SUFFICES ASSUME NEW n \in 1 .. K, out[n] \in shown PROVE P(n) \in Spots(blocks)
      OBVIOUS
    <3>1. out[n] \in Streamed(blocks) /\ P(n) = Spot(blocks, out[n])
      BY <1>10, <2>1, <2>2
    <3>2. QED
      BY <3>1 DEF Spots
  <2>5. QED
    BY <2>3, <2>4
<1>12. done' = {Opening} \cup {P(n) : n \in 1 .. K}
  BY <1>5, <1>6, <1>9
<1>13. added' = done'
  <2>1. added' = {Opening} \cup {P(n) : n \in {m \in 1 .. K : out[m] \in shown}}
                         \cup {P(n) : n \in {m \in 1 .. K : out[m] \notin shown}}
    BY <1>5, <1>6, <1>9, <1>11
  <2>2. QED
    BY <1>12, <2>1
<1>14. Opening[1] = 0 /\ Opening[3] = 0 /\ Opening = <<Reasoning, "reasoning", 0>>
  BY DEF Opening, Reasoning
<1>15. \A n \in 1 .. K : P(n)[1] = out[n] /\ P(n)[2] = blocks[out[n]].type /\ P(n)[3] = n /\ n # 0 /\ out[n] # 0
  <2> SUFFICES ASSUME NEW n \in 1 .. K
               PROVE  P(n)[1] = out[n] /\ P(n)[2] = blocks[out[n]].type /\ P(n)[3] = n /\ n # 0 /\ out[n] # 0
    OBVIOUS
  <2>1. out[n] \in 1 .. B
    BY <1>5
  <2>2. n # 0 /\ out[n] # 0
    BY <2>1, <1>3, <1>5
  <2>3. QED
    BY <2>2
<1> HIDE DEF P
<1>16. ItemsKeepTheirPlace'
  <2> SUFFICES ASSUME NEW x \in done', NEW y \in done' PROVE (x[1] = y[1]) = (x[3] = y[3])
    BY <1>13 DEF ItemsKeepTheirPlace
  <2>1. x = Opening \/ \E n \in 1 .. K : x = P(n)
    BY <1>12
  <2>2. y = Opening \/ \E n \in 1 .. K : y = P(n)
    BY <1>12
  <2>3. QED
    BY <1>5, <1>14, <1>15, <2>1, <2>2
<1>17. Cardinality(done') = K + 1
  <2> DEFINE items == {P(n) : n \in 1 .. K}
             f == [n \in 1 .. K |-> P(n)]
  <2>1. f \in [1 .. K -> items] /\ \A y \in items : \E n \in 1 .. K : f[n] = y
    OBVIOUS
  <2>2. \A m, n \in 1 .. K : f[m] = f[n] => m = n
    BY <1>15
  <2>3. Opening \notin items
    BY <1>14, <1>15
  <2> HIDE DEF items, f
  <2>4. IsFiniteSet(items) /\ Cardinality(items) = K
    BY <1>5, <2>1, <2>2, Counted
  <2>5. done' = items \cup {Opening}
    BY <1>12 DEF items
  <2>6. QED
    BY <2>3, <2>4, <2>5, FS_AddElement
<1>18. \A i \in ToSet(out) : i \in 1 .. MaxBlocks /\ deltas'[i] = blocks[i].text
  <2> SUFFICES ASSUME NEW i \in ToSet(out) PROVE i \in 1 .. MaxBlocks /\ deltas'[i] = blocks[i].text
    OBVIOUS
  <2>1. i \in 1 .. B /\ i \in 1 .. MaxBlocks
    BY <1>3, <1>5, BoundsAssumption
  <2>2. i \in shown => deltas[i] = blocks[i].text
    BY <1>6, <1>10, <2>1 DEF Told
  <2>3. QED
    BY <1>9, <2>1, <2>2
<1>19. deltas' \in [1 .. MaxBlocks -> Nat]
  <2>1. \A i \in ToSet(out) : blocks[i].text \in Nat
    BY <1>4, <1>5
  <2>2. QED
    BY <1>6, <1>9, <2>1
<1>20. TerminalIsWhole'
  <2>1. \A x \in done' \ {<<Reasoning, "reasoning", 0>>} : x[3] \in DOMAIN final' /\ final'[x[3]] = x[1]
    BY <1>5, <1>9, <1>12, <1>14, <1>15
  <2>2. Cardinality(done') = Len(final') + 1
    BY <1>9, <1>17
  <2>3. \A i \in ToSet(final') : blocks'[i].type = "text" => deltas'[i] = blocks'[i].text
    BY <1>9, <1>18
  <2>4. ToSet(final') = {i \in ToSet(committed') : blocks'[i].type # "thinking"}
    BY <1>5, <1>9
  <2>5. Ordered(final') /\ Ordered(committed')
    BY <1>2, <1>5, <1>9, ContentFacts
  <2>6. QED
    BY <1>13, <2>1, <2>2, <2>3, <2>4, <2>5 DEF TerminalIsWhole
<1>21. CallsOnlyWhenWhole'
  <2> SUFFICES ASSUME NEW x \in done', x[2] = "tool_use"
               PROVE  ~Incomplete /\ \A i \in DOMAIN blocks : ~blocks[i].open
    BY <1>9, <1>13 DEF CallsOnlyWhenWhole, Incomplete
  <2>1. Opening[2] = "reasoning"
    BY DEF Opening
  <2>2. PICK n \in 1 .. K : x = P(n)
    BY <1>12, <2>1
  <2>3. blocks[out[n]].type = "tool_use" /\ out[n] \in ToSet(out)
    BY <1>5, <1>15, <2>2
  <2>4. ~Incomplete
    BY <1>5, <2>3
  <2>5. \A i \in DOMAIN blocks : ~blocks[i].open
    BY DEF MessageStop, Valid
  <2>6. QED
    BY <2>4, <2>5
<1>22. Framed'
  BY <1>9, <1>16, <1>19, <1>20, <1>21 DEF Framed, EndIsWhole
<1>23. QED
  BY <1>2, <1>9, <1>22 DEF StreamInv

LEMMA NextStreamInv == StreamInv /\ [StreamNext]_streamVars => StreamInv'
<1> SUFFICES ASSUME StreamInv, [StreamNext]_streamVars PROVE StreamInv'
  OBVIOUS
<1>1. CASE MessageStart
  BY <1>1, MessageStartStep
<1>2. CASE MessageStop
  BY <1>2, MessageStopStep
<1>3. CASE Fail \/ \E reason \in StopReasons \ {"none"} : MessageDelta(reason)
  BY <1>3, QuietStep
<1>4. CASE \E type \in Types, call \in CallIds : BlockStart(type, call)
  BY <1>4, BlockStartStep
<1>5. CASE \E i \in 1 .. MaxBlocks : TextDelta(i) \/ BlockStop(i)
  BY <1>5, TextDeltaStep, BlockStopStep
<1>6. CASE UNCHANGED streamVars
  BY <1>6 DEF streamVars, client, StreamInv, Framed, ItemsKeepTheirPlace, EndIsWhole, TerminalIsWhole,
              CallsOnlyWhenWhole, Incomplete
<1>7. QED
  BY <1>1, <1>2, <1>3, <1>4, <1>5, <1>6 DEF StreamNext

-----------------------------------------------------------------------------
(* The inductive invariant of the translation.                              *)
THEOREM StreamInvariance == StreamSpec => []StreamInv
<1>1. StreamInit => StreamInv
  BY InitStreamInv
<1>2. StreamInv /\ [StreamNext]_streamVars => StreamInv'
  BY NextStreamInv
<1>3. QED
  BY <1>1, <1>2, PTL DEF StreamSpec

(* However many blocks there are, and whichever of them the response holds  *)
(* in the end, all frames about an item name one place and no two items     *)
(* share one: the output_index handed out while the text streams            *)
(* (claude-stream.ts) is the place the item has in the terminal response.   *)
THEOREM PlacesHold == StreamSpec => []ItemsKeepTheirPlace
<1>1. StreamInv => ItemsKeepTheirPlace
  <2> SUFFICES ASSUME StreamInv PROVE ItemsKeepTheirPlace
    OBVIOUS
  <2>1. CASE phase = "finished"
    BY <2>1 DEF StreamInv, Framed
  <2>2. CASE phase # "finished"
    <3>1. WellFormed(blocks, nextOutput, toolSeen)
      BY DEF StreamInv
    <3>2. added \cup done \subseteq {Opening} \cup Spots(blocks)
      BY <2>2 DEF StreamInv, Framed
    <3>3. QED
      BY <3>1, <3>2, SpotsApart DEF ItemsKeepTheirPlace
  <2>3. QED
    BY <2>1, <2>2
<1>2. QED
  BY <1>1, StreamInvariance, PTL

(* A client is told of an end, and given calls to execute, only for a       *)
(* message that is whole, and then of all of it (emitTerminal()).           *)
THEOREM EndsWhole == StreamSpec => []EndIsWhole
<1>1. StreamInv => EndIsWhole
  <2> SUFFICES ASSUME StreamInv PROVE EndIsWhole
    OBVIOUS
  <2>1. CASE phase = "finished"
    BY <2>1 DEF StreamInv, Framed
  <2>2. CASE phase # "finished"
    <3>1. added \cup done \subseteq {Opening} \cup Spots(blocks)
      BY <2>2 DEF StreamInv, Framed
    <3>2. \A x \in added \cup done : x[2] # "tool_use"
      BY <3>1 DEF Spots, Spot, Opening
    <3>3. QED
      BY <2>2, <3>2 DEF EndIsWhole, TerminalIsWhole, CallsOnlyWhenWhole
  <2>3. QED
    BY <2>1, <2>2
<1>2. QED
  BY <1>1, StreamInvariance, PTL

=================================================================================
