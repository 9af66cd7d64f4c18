---------------------------- MODULE Driver_proofs ----------------------------
(***************************************************************************)
(* Proofs about Driver: the cache directory with two writers, the indices  *)
(* of the callbacks, the filters and what stops Mull, for any program, any *)
(* options and any outcome of the tests.                                   *)
(***************************************************************************)
EXTENDS Driver, SequenceTheorems, WellFoundedInduction, TLAPS

-----------------------------------------------------------------------------
(* Induction over the natural numbers, with the property given as a set.   *)

\* A set of natural numbers has a least one.
LEMMA LeastNatural ==
  ASSUME NEW T \in SUBSET Nat, T # {}
  PROVE  \E x \in T : \A y \in T : x <= y
<1>1. \E x \in T : \A y \in T : ~(<< y, x >> \in OpToRel(<, Nat))
  BY WFMin, NatLessThanWellFounded, Zenon
<1>2. \A x, y \in Nat : y < x => << y, x >> \in OpToRel(<, Nat)
  BY Zenon DEF OpToRel
<1>3. \E x \in T : \A y \in T : ~(y < x)
  BY <1>1, <1>2, Zenon
<1> QED BY <1>3

\* What holds of 0 and of n + 1 whenever it holds of n.
LEMMA SetInduction ==
  ASSUME NEW P, 0 \in P, \A n \in Nat : n \in P => n + 1 \in P
  PROVE  \A n \in Nat : n \in P
<1> SUFFICES ASSUME NEW n \in Nat, n \notin P PROVE FALSE
  OBVIOUS
<1> DEFINE T == Nat \ P
<1>1. T \in SUBSET Nat /\ T # {}
  OBVIOUS
<1>2. PICK x \in T : \A y \in T : x <= y
  BY <1>1, LeastNatural
<1>3. x # 0 /\ x - 1 \in Nat /\ x - 1 \in P
  BY <1>2
<1>4. (x - 1) + 1 \in P
  BY <1>3
<1> QED BY <1>4

-----------------------------------------------------------------------------
(* Keep: what a filter leaves of a sequence.                               *)

\* The recursion of Keep.
KeptUpTo(k, s, S, n) ==
  /\ k[0] = << >>
  /\ \A i \in 1 .. n : k[i] = IF s[i] \in S THEN Append(k[i - 1], s[i]) ELSE k[i - 1]

\* There is a function that satisfies it, and Keep is its last value.
LEMMA KeepIsRecursive ==
  ASSUME NEW X, NEW s \in Seq(X), NEW S
  PROVE  \E k \in [0 .. Len(s) -> Seq(X)] :
           KeptUpTo(k, s, S, Len(s)) /\ Keep(s, S) = k[Len(s)]
<1>1. Len(s) \in Nat /\ \A i \in 1 .. Len(s) : s[i] \in X
  OBVIOUS
<1> DEFINE P == {n \in Nat : n <= Len(s) => \E k \in [0 .. n -> Seq(X)] : KeptUpTo(k, s, S, n)}
<1>2. 0 \in P
  <2>1. [i \in 0 .. 0 |-> << >>] \in [0 .. 0 -> Seq(X)]
    OBVIOUS
  <2>2. KeptUpTo([i \in 0 .. 0 |-> << >>], s, S, 0)
    BY DEF KeptUpTo
  <2> QED BY <2>1, <2>2
<1>3. ASSUME NEW n \in Nat, n \in P PROVE n + 1 \in P
  <2> SUFFICES ASSUME n + 1 <= Len(s)
               PROVE  \E k \in [0 .. n + 1 -> Seq(X)] : KeptUpTo(k, s, S, n + 1)
    OBVIOUS
  <2>1. PICK k \in [0 .. n -> Seq(X)] : KeptUpTo(k, s, S, n)
    BY <1>1, <1>3
  <2> DEFINE v == IF s[n + 1] \in S THEN Append(k[n], s[n + 1]) ELSE k[n]
             h == [i \in 0 .. n + 1 |-> IF i = n + 1 THEN v ELSE k[i]]
  <2>2. s[n + 1] \in X /\ k[n] \in Seq(X)
    BY <1>1, <2>1
  <2>3. v \in Seq(X)
    BY <2>2
  <2> HIDE DEF v
  <2>4. h \in [0 .. n + 1 -> Seq(X)]
    BY <2>1, <2>3
  <2>5. h[n + 1] = v /\ \A i \in 0 .. n : h[i] = k[i]
    OBVIOUS
  <2> HIDE DEF h
  <2>6. KeptUpTo(h, s, S, n + 1)
    <3>1. h[0] = << >>
      BY <2>1, <2>5 DEF KeptUpTo
    <3>2. ASSUME NEW i \in 1 .. n + 1
          PROVE  h[i] = IF s[i] \in S THEN Append(h[i - 1], s[i]) ELSE h[i - 1]
      <4>1. CASE i = n + 1
        BY <2>5, <4>1 DEF v
      <4>2. CASE i # n + 1
        <5>1. i \in 1 .. n /\ i - 1 \in 0 .. n /\ i \in 0 .. n
          BY <4>2
        <5> QED BY <2>1, <2>5, <5>1 DEF KeptUpTo
      <4> QED BY <4>1, <4>2
    <3> QED BY <3>1, <3>2 DEF KeptUpTo
  <2> QED BY <2>4, <2>6
<1>4. Len(s) \in P
  <2> HIDE DEF P
  <2> QED BY <1>1, <1>2, <1>3, SetInduction
<1>5. PICK k \in [0 .. Len(s) -> Seq(X)] : KeptUpTo(k, s, S, Len(s))
  BY <1>1, <1>4
<1> DEFINE Fix(f) == f = [i \in 0 .. Len(s) |->
                            IF i = 0 THEN << >>
                            ELSE IF s[i] \in S THEN Append(f[i - 1], s[i]) ELSE f[i - 1]]
           F == CHOOSE f : Fix(f)
<1>6. Fix(k)
  <2>1. ASSUME NEW i \in 0 .. Len(s)
        PROVE  k[i] = IF i = 0 THEN << >>
                      ELSE IF s[i] \in S THEN Append(k[i - 1], s[i]) ELSE k[i - 1]
    <3>1. i = 0 \/ i \in 1 .. Len(s)
      BY <1>1
    <3> QED BY <1>5, <3>1 DEF KeptUpTo
  <2>2. k = [i \in 0 .. Len(s) |-> k[i]]
    BY <1>5
  <2> QED BY <2>1, <2>2, Zenon
<1>7. Fix(F)
  <2> HIDE DEF Fix
  <2> QED BY <1>6
<1>8. Keep(s, S) = F[Len(s)]
  BY DEF Keep
<1>9. /\ DOMAIN F = 0 .. Len(s)
      /\ F[0] = << >>
      /\ \A i \in 1 .. Len(s) :
           F[i] = IF s[i] \in S THEN Append(F[i - 1], s[i]) ELSE F[i - 1]
  <2>1. PICK f : f = F /\ Fix(f)
    BY <1>7
  <2> HIDE DEF F
  <2>2. f = [i \in 0 .. Len(s) |->
               IF i = 0 THEN << >>
               ELSE IF s[i] \in S THEN Append(f[i - 1], s[i]) ELSE f[i - 1]]
    BY <2>1
  <2>3. DOMAIN f = 0 .. Len(s) /\ f[0] = << >>
    BY <1>1, <2>2
  <2>4. ASSUME NEW i \in 1 .. Len(s)
        PROVE  f[i] = IF s[i] \in S THEN Append(f[i - 1], s[i]) ELSE f[i - 1]
    <3>1. i \in 0 .. Len(s) /\ i # 0
      BY <1>1
    <3>2. \A j \in 0 .. Len(s) :
            f[j] = IF j = 0 THEN << >>
                   ELSE IF s[j] \in S THEN Append(f[j - 1], s[j]) ELSE f[j - 1]
      BY <2>2, Zenon
    <3> QED BY <3>1, <3>2, Zenon
  <2> QED BY <2>1, <2>3, <2>4
<1> HIDE DEF F
<1> DEFINE Q == {n \in Nat : n <= Len(s) => F[n] = k[n]}
<1>10. 0 \in Q
  BY <1>5, <1>9 DEF KeptUpTo
<1>11. ASSUME NEW n \in Nat, n \in Q PROVE n + 1 \in Q
  <2> SUFFICES ASSUME n + 1 <= Len(s) PROVE F[n + 1] = k[n + 1]
    OBVIOUS
  <2>1. n + 1 \in 1 .. Len(s) /\ (n + 1) - 1 = n /\ F[n] = k[n]
    BY <1>1, <1>11
  <2>2. F[n + 1] = IF s[n + 1] \in S THEN Append(F[n], s[n + 1]) ELSE F[n]
    BY <1>9, <2>1
  <2>3. k[n + 1] = IF s[n + 1] \in S THEN Append(k[n], s[n + 1]) ELSE k[n]
    BY <1>5, <2>1 DEF KeptUpTo
  <2> QED BY <2>1, <2>2, <2>3
<1>12. Len(s) \in Q
  <2> HIDE DEF Q
  <2> QED BY <1>1, <1>10, <1>11, SetInduction
<1>13. Keep(s, S) = k[Len(s)]
  BY <1>1, <1>8, <1>12
<1> QED BY <1>5, <1>13

\* q has the elements of the first n of s that are in S, g says from where.
Picks(g, q, s, S, n) ==
  /\ g \in [1 .. Len(q) -> 1 .. n]
  /\ \A i, j \in 1 .. Len(q) : i < j => g[i] < g[j]
  /\ \A j \in 1 .. Len(q) : q[j] = s[g[j]] /\ s[g[j]] \in S
  /\ \A i \in 1 .. n : s[i] \in S => \E j \in 1 .. Len(q) : g[j] = i

\* Keep leaves the elements that are in S, all of them, in their order.
LEMMA KeepPicks ==
  ASSUME NEW X, NEW s \in Seq(X), NEW S
  PROVE  Keep(s, S) \in Seq(X) /\ \E g : Picks(g, Keep(s, S), s, S, Len(s))
<1>1. Len(s) \in Nat /\ \A i \in 1 .. Len(s) : s[i] \in X
  OBVIOUS
<1>2. PICK k \in [0 .. Len(s) -> Seq(X)] :
        KeptUpTo(k, s, S, Len(s)) /\ Keep(s, S) = k[Len(s)]
  BY KeepIsRecursive
<1> DEFINE P == {n \in Nat : n <= Len(s) => \E g : Picks(g, k[n], s, S, n)}
<1>3. 0 \in P
  <2>1. k[0] = << >> /\ Len(<< >>) = 0
    BY <1>2 DEF KeptUpTo
  <2>2. [j \in 1 .. 0 |-> 0] \in [1 .. 0 -> 1 .. 0]
    OBVIOUS
  <2>3. Picks([j \in 1 .. 0 |-> 0], << >>, s, S, 0)
    BY <2>1, <2>2 DEF Picks
  <2> QED BY <2>1, <2>3
<1>4. ASSUME NEW n \in Nat, n \in P PROVE n + 1 \in P
  <2> SUFFICES ASSUME n + 1 <= Len(s) PROVE \E g : Picks(g, k[n + 1], s, S, n + 1)
    OBVIOUS
  <2>1. PICK g : Picks(g, k[n], s, S, n)
    BY <1>1, <1>4
  <2>2. n + 1 \in 1 .. Len(s) /\ (n + 1) - 1 = n /\ s[n + 1] \in X
    BY <1>1
  <2>3. k[n + 1] = IF s[n + 1] \in S THEN Append(k[n], s[n + 1]) ELSE k[n]
    BY <1>2, <2>2 DEF KeptUpTo
  <2>4. PICK q \in Seq(X) : q = k[n] /\ Len(q) \in Nat
    BY <1>1, <1>2
  <2>5. CASE s[n + 1] \notin S
    <3>1. \A i \in 1 .. n + 1 : s[i] \in S => i \in 1 .. n
      BY <2>5
    <3>2. g \in [1 .. Len(q) -> 1 .. n + 1]
      BY <2>1, <2>4 DEF Picks
    <3>3. Picks(g, q, s, S, n + 1)
      BY <2>1, <2>4, <3>1, <3>2 DEF Picks
    <3> QED BY <2>3, <2>4, <2>5, <3>3
  <2>6. CASE s[n + 1] \in S
    <3> DEFINE r == Append(q, s[n + 1])
               h == [j \in 1 .. Len(q) + 1 |-> IF j = Len(q) + 1 THEN n + 1 ELSE g[j]]
    <3>1. /\ Len(r) = Len(q) + 1 /\ r[Len(q) + 1] = s[n + 1]
          /\ \A j \in 1 .. Len(q) : r[j] = q[j]
      BY <2>2, <2>4
    <3>2. /\ \A j \in 1 .. Len(q) : g[j] \in 1 .. n /\ q[j] = s[g[j]] /\ s[g[j]] \in S
          /\ \A i, j \in 1 .. Len(q) : i < j => g[i] < g[j]
          /\ \A i \in 1 .. n : s[i] \in S => \E j \in 1 .. Len(q) : g[j] = i
      BY <2>1, <2>4 DEF Picks
    <3>3. h \in [1 .. Len(r) -> 1 .. n + 1]
      BY <2>4, <3>1, <3>2
    <3>4. h[Len(q) + 1] = n + 1 /\ \A j \in 1 .. Len(q) : h[j] = g[j]
      BY <2>4
    <3> HIDE DEF h, r
    <3>5. \A i, j \in 1 .. Len(r) : i < j => h[i] < h[j]
      BY <2>4, <3>1, <3>2, <3>4
    <3>6. \A j \in 1 .. Len(r) : r[j] = s[h[j]] /\ s[h[j]] \in S
      <4> TAKE j \in 1 .. Len(r)
      <4>1. CASE j = Len(q) + 1
        BY <2>6, <3>1, <3>4, <4>1
      <4>2. CASE j # Len(q) + 1
        <5>1. j \in 1 .. Len(q)
          BY <2>4, <3>1, <4>2
        <5> QED BY <3>1, <3>2, <3>4, <5>1
      <4> QED BY <4>1, <4>2
    <3>7. \A i \in 1 .. n + 1 : s[i] \in S => \E j \in 1 .. Len(r) : h[j] = i
      <4> TAKE i \in 1 .. n + 1
      <4> HAVE s[i] \in S
      <4>1. CASE i = n + 1
        <5>1. Len(q) + 1 \in 1 .. Len(r)
          BY <2>4, <3>1
        <5> QED BY <3>4, <4>1, <5>1
      <4>2. CASE i # n + 1
        <5>1. PICK j \in 1 .. Len(q) : g[j] = i
          BY <3>2, <4>2
        <5>2. j \in 1 .. Len(r)
          BY <2>4, <3>1
        <5> QED BY <3>4, <5>1, <5>2
      <4> QED BY <4>1, <4>2
    <3>8. Picks(h, r, s, S, n + 1)
      BY <3>3, <3>5, <3>6, <3>7 DEF Picks
    <3>9. k[n + 1] = r
      BY <2>3, <2>4, <2>6 DEF r
    <3> QED BY <3>8, <3>9
  <2> QED BY <2>5, <2>6
<1>5. Len(s) \in P
  <2> HIDE DEF P
  <2> QED BY <1>1, <1>3, <1>4, SetInduction
<1>6. k[Len(s)] \in Seq(X) /\ \E g : Picks(g, k[Len(s)], s, S, Len(s))
  BY <1>1, <1>2, <1>5
<1> QED BY <1>2, <1>6

\* The elements that are left.
LEMMA KeepRange ==
  ASSUME NEW X, NEW s \in Seq(X), NEW S
  PROVE  /\ Keep(s, S) \in Seq(X) /\ Range(Keep(s, S)) = Range(s) \cap S
         /\ \A j \in 1 .. Len(Keep(s, S)) : Keep(s, S)[j] \in Range(s) \cap S
<1>1. PICK q \in Seq(X) : q = Keep(s, S)
  BY KeepPicks
<1>2. PICK g : Picks(g, q, s, S, Len(s))
  BY <1>1, KeepPicks
<1>3. Len(q) \in Nat /\ Len(s) \in Nat /\ DOMAIN q = 1 .. Len(q) /\ DOMAIN s = 1 .. Len(s)
  BY LenProperties
<1>4. ASSUME NEW j \in 1 .. Len(q) PROVE q[j] \in Range(s) \cap S
  <2>1. g[j] \in 1 .. Len(s) /\ q[j] = s[g[j]] /\ q[j] \in S
    BY <1>2 DEF Picks
  <2>2. g[j] \in DOMAIN s
    BY <1>3, <2>1, Zenon
  <2> QED BY <2>1, <2>2 DEF Range
<1>5. ASSUME NEW x \in Range(s) \cap S PROVE x \in Range(q)
  <2>1. PICK i \in DOMAIN s : x = s[i]
    BY DEF Range
  <2>2. i \in 1 .. Len(s)
    BY <1>3, <2>1, Zenon
  <2>3. PICK j \in 1 .. Len(q) : g[j] = i
    BY <1>2, <1>5, <2>1, <2>2 DEF Picks
  <2>4. q[j] = x
    BY <1>2, <2>1, <2>3 DEF Picks
  <2>5. j \in DOMAIN q
    BY <1>3, <2>3, Zenon
  <2> QED BY <2>4, <2>5 DEF Range
<1>6. Range(q) \subseteq Range(s) \cap S
  <2> SUFFICES ASSUME NEW j \in DOMAIN q PROVE q[j] \in Range(s) \cap S
    BY DEF Range
  <2>1. j \in 1 .. Len(q)
    BY <1>3, Zenon
  <2> QED BY <1>4, <2>1
<1>7. Range(q) = Range(s) \cap S
  BY <1>5, <1>6
<1> QED BY <1>1, <1>4, <1>7

\* Keep one element at a time.
LEMMA KeepAppend ==
  ASSUME NEW X, NEW s \in Seq(X), NEW x \in X, NEW S
  PROVE  Keep(Append(s, x), S) = IF x \in S THEN Append(Keep(s, S), x) ELSE Keep(s, S)
<1> DEFINE t == Append(s, x)
<1>1. /\ t \in Seq(X) /\ Len(t) = Len(s) + 1 /\ Len(s) \in Nat /\ t[Len(s) + 1] = x
      /\ \A i \in 1 .. Len(s) : t[i] = s[i]
  OBVIOUS
<1> HIDE DEF t
<1>2. PICK k \in [0 .. Len(s) -> Seq(X)] :
        KeptUpTo(k, s, S, Len(s)) /\ Keep(s, S) = k[Len(s)]
  BY KeepIsRecursive
<1>3. PICK h \in [0 .. Len(t) -> Seq(X)] :
        KeptUpTo(h, t, S, Len(t)) /\ Keep(t, S) = h[Len(t)]
  BY <1>1, KeepIsRecursive
<1> DEFINE P == {n \in Nat : n <= Len(s) => h[n] = k[n]}
<1>4. 0 \in P
  BY <1>2, <1>3 DEF KeptUpTo
<1>5. ASSUME NEW n \in Nat, n \in P PROVE n + 1 \in P
  <2> SUFFICES ASSUME n + 1 <= Len(s) PROVE h[n + 1] = k[n + 1]
    OBVIOUS
  <2>1. /\ n + 1 \in 1 .. Len(s) /\ n + 1 \in 1 .. Len(t) /\ (n + 1) - 1 = n
        /\ h[n] = k[n]
    BY <1>1, <1>5
  <2>2. k[n + 1] = IF s[n + 1] \in S THEN Append(k[n], s[n + 1]) ELSE k[n]
    BY <1>2, <2>1 DEF KeptUpTo
  <2>3. h[n + 1] = IF t[n + 1] \in S THEN Append(h[n], t[n + 1]) ELSE h[n]
    BY <1>3, <2>1 DEF KeptUpTo
  <2>4. t[n + 1] = s[n + 1]
    BY <1>1, <2>1
  <2> QED BY <2>1, <2>2, <2>3, <2>4
<1>6. Len(s) \in P
  <2> HIDE DEF P
  <2> QED BY <1>1, <1>4, <1>5, SetInduction
<1>7. h[Len(s)] = k[Len(s)]
  BY <1>1, <1>6
<1>8. Len(t) \in 1 .. Len(t) /\ Len(t) - 1 = Len(s) /\ t[Len(t)] = x
  BY <1>1
<1>9. h[Len(t)] = IF x \in S THEN Append(h[Len(s)], x) ELSE h[Len(s)]
  BY <1>3, <1>8 DEF KeptUpTo
<1> QED BY <1>2, <1>3, <1>7, <1>9 DEF t

\* Nothing is left of nothing.
LEMMA KeepEmpty == \A S : Keep(<< >>, S) = << >>
<1> TAKE S
<1>1. << >> \in Seq({}) /\ Len(<< >>) = 0
  OBVIOUS
<1>2. PICK k \in [0 .. Len(<< >>) -> Seq({})] :
        KeptUpTo(k, << >>, S, Len(<< >>)) /\ Keep(<< >>, S) = k[Len(<< >>)]
  BY <1>1, KeepIsRecursive
<1> QED BY <1>1, <1>2 DEF KeptUpTo

\* Only what S says about the elements matters.
LEMMA KeepSame ==
  ASSUME NEW X, NEW s \in Seq(X), NEW S, NEW T,
         \A i \in 1 .. Len(s) : s[i] \in S <=> s[i] \in T
  PROVE  Keep(s, S) = Keep(s, T)
<1>1. Len(s) \in Nat
  OBVIOUS
<1>2. PICK k \in [0 .. Len(s) -> Seq(X)] :
        KeptUpTo(k, s, S, Len(s)) /\ Keep(s, S) = k[Len(s)]
  BY KeepIsRecursive
<1>3. PICK h \in [0 .. Len(s) -> Seq(X)] :
        KeptUpTo(h, s, T, Len(s)) /\ Keep(s, T) = h[Len(s)]
  BY KeepIsRecursive
<1> DEFINE P == {n \in Nat : n <= Len(s) => h[n] = k[n]}
<1>4. 0 \in P
  BY <1>2, <1>3 DEF KeptUpTo
<1>5. ASSUME NEW n \in Nat, n \in P PROVE n + 1 \in P
  <2> SUFFICES ASSUME n + 1 <= Len(s) PROVE h[n + 1] = k[n + 1]
    OBVIOUS
  <2>1. n + 1 \in 1 .. Len(s) /\ (n + 1) - 1 = n /\ h[n] = k[n]
    BY <1>1, <1>5
  <2>2. k[n + 1] = IF s[n + 1] \in S THEN Append(k[n], s[n + 1]) ELSE k[n]
    BY <1>2, <2>1 DEF KeptUpTo
  <2>3. h[n + 1] = IF s[n + 1] \in T THEN Append(h[n], s[n + 1]) ELSE h[n]
    BY <1>3, <2>1 DEF KeptUpTo
  <2> QED BY <2>1, <2>2, <2>3
<1>6. Len(s) \in P
  <2> HIDE DEF P
  <2> QED BY <1>1, <1>4, <1>5, SetInduction
<1> QED BY <1>1, <1>2, <1>3, <1>6

\* Append at the end of the second of two sequences.
LEMMA ConcatAppend ==
  ASSUME NEW X, NEW a \in Seq(X), NEW b \in Seq(X), NEW x \in X
  PROVE  a \o b \in Seq(X) /\ a \o Append(b, x) = Append(a \o b, x)
<1>1. PICK c \in Seq(X) : c = a \o b
  BY ConcatProperties
<1>2. PICK t \in Seq(X) : t = Append(b, x)
  BY AppendProperties
<1>3. PICK l \in Seq(X) : l = a \o t
  BY ConcatProperties
<1>4. PICK r \in Seq(X) : r = Append(c, x)
  BY AppendProperties
<1>5. Len(a) \in Nat /\ Len(b) \in Nat
  OBVIOUS
<1>6. /\ Len(t) = Len(b) + 1 /\ t[Len(b) + 1] = x
      /\ \A i \in 1 .. Len(b) : t[i] = b[i]
  BY <1>2
<1>7. /\ Len(c) = Len(a) + Len(b)
      /\ \A i \in 1 .. Len(a) : c[i] = a[i]
      /\ \A i \in Len(a) + 1 .. Len(a) + Len(b) : c[i] = b[i - Len(a)]
  BY <1>1
<1>8. /\ Len(l) = Len(a) + Len(t)
      /\ \A i \in 1 .. Len(a) : l[i] = a[i]
      /\ \A i \in Len(a) + 1 .. Len(a) + Len(t) : l[i] = t[i - Len(a)]
  BY <1>3
<1>9. /\ Len(r) = Len(c) + 1 /\ r[Len(c) + 1] = x
      /\ \A i \in 1 .. Len(c) : r[i] = c[i]
  BY <1>4
<1>10. Len(l) = Len(r) /\ \A i \in 1 .. Len(l) : l[i] = r[i]
  <2>1. Len(l) = Len(r) /\ Len(l) = Len(a) + Len(b) + 1
    BY <1>5, <1>6, <1>7, <1>8, <1>9
  <2> SUFFICES ASSUME NEW i \in 1 .. Len(l) PROVE l[i] = r[i]
    BY <2>1
  <2>2. CASE i \in 1 .. Len(a)
    <3>1. i \in 1 .. Len(c)
      BY <1>5, <1>7, <2>2
    <3> QED BY <1>7, <1>8, <1>9, <2>2, <3>1
  <2>3. CASE i \in Len(a) + 1 .. Len(a) + Len(b)
    <3>1. /\ i \in 1 .. Len(c) /\ i \in Len(a) + 1 .. Len(a) + Len(t)
          /\ i - Len(a) \in 1 .. Len(b)
      BY <1>5, <1>6, <1>7, <2>3
    <3>2. l[i] = t[i - Len(a)] /\ r[i] = c[i] /\ c[i] = b[i - Len(a)]
      BY <1>7, <1>8, <1>9, <2>3, <3>1
    <3> QED BY <1>6, <3>1, <3>2
  <2>4. CASE i = Len(a) + Len(b) + 1
    <3>1. /\ i = Len(c) + 1 /\ i \in Len(a) + 1 .. Len(a) + Len(t)
          /\ i - Len(a) = Len(b) + 1
      BY <1>5, <1>6, <1>7, <2>4
    <3>2. l[i] = t[Len(b) + 1]
      BY <1>8, <3>1
    <3> QED BY <1>6, <1>9, <3>1, <3>2
  <2>5. i \in 1 .. Len(a) \/ i \in Len(a) + 1 .. Len(a) + Len(b) \/ i = Len(a) + Len(b) + 1
    BY <1>5, <2>1
  <2> QED BY <2>2, <2>3, <2>4, <2>5
<1>11. l = r
  BY <1>10, SeqEqual
<1> QED BY <1>1, <1>2, <1>3, <1>4, <1>11, Zenon

\* Keep of a sequence after another.
LEMMA KeepConcat ==
  ASSUME NEW X, NEW s \in Seq(X), NEW S
  PROVE  \A t \in Seq(X) : Keep(s \o t, S) = Keep(s, S) \o Keep(t, S)
<1> DEFINE P == {n \in Nat : \A t \in Seq(X) :
                   Len(t) = n => Keep(s \o t, S) = Keep(s, S) \o Keep(t, S)}
<1>1. \A t \in Seq(X) : Keep(t, S) \in Seq(X)
  BY KeepPicks
<1>2. 0 \in P
  <2> SUFFICES ASSUME NEW t \in Seq(X), Len(t) = 0
               PROVE  Keep(s \o t, S) = Keep(s, S) \o Keep(t, S)
    OBVIOUS
  <2>1. t = << >>
    BY EmptySeq
  <2>2. Keep(t, S) = << >>
    BY <2>1, KeepEmpty
  <2>3. s \o t = s /\ Keep(s, S) \o << >> = Keep(s, S)
    BY <1>1, <2>1, ConcatEmptySeq
  <2> QED BY <2>2, <2>3
<1>3. ASSUME NEW n \in Nat, n \in P PROVE n + 1 \in P
  <2> SUFFICES ASSUME NEW t \in Seq(X), Len(t) = n + 1
               PROVE  Keep(s \o t, S) = Keep(s, S) \o Keep(t, S)
    OBVIOUS
  <2>0. \A u \in Seq(X) : Len(u) = n => Keep(s \o u, S) = Keep(s, S) \o Keep(u, S)
    BY <1>3
  <2> HIDE DEF P
  <2>1. PICK u \in Seq(X), x \in X : t = Append(u, x)
    <3>1. t # << >>
      OBVIOUS
    <3> QED BY <3>1, SequenceEmptyOrAppend
  <2>2. Len(u) = n
    BY <2>1
  <2>3. Keep(s \o u, S) = Keep(s, S) \o Keep(u, S)
    BY <2>0, <2>2
  <2>4. PICK v \in Seq(X) : v = s \o u /\ s \o t = Append(v, x)
    <3>1. s \o u \in Seq(X) /\ s \o Append(u, x) = Append(s \o u, x)
      BY ConcatAppend
    <3> QED BY <2>1, <3>1, Zenon
  <2>5. Keep(s \o t, S) = IF x \in S THEN Append(Keep(v, S), x) ELSE Keep(v, S)
    <3>1. Keep(Append(v, x), S) = IF x \in S THEN Append(Keep(v, S), x) ELSE Keep(v, S)
      BY KeepAppend
    <3> QED BY <2>4, <3>1, Zenon
  <2>6. Keep(t, S) = IF x \in S THEN Append(Keep(u, S), x) ELSE Keep(u, S)
    BY <2>1, KeepAppend
  <2>7. Append(Keep(s, S) \o Keep(u, S), x) = Keep(s, S) \o Append(Keep(u, S), x)
    <3>1. PICK a \in Seq(X), b \in Seq(X) : a = Keep(s, S) /\ b = Keep(u, S)
      BY <1>1
    <3>2. a \o b \in Seq(X) /\ a \o Append(b, x) = Append(a \o b, x)
      BY ConcatAppend
    <3> QED BY <3>1, <3>2, Zenon
  <2>8. Keep(v, S) = Keep(s, S) \o Keep(u, S)
    BY <2>3, <2>4, Zenon
  <2> QED BY <2>5, <2>6, <2>7, <2>8, Zenon
<1>4. \A n \in Nat : n \in P
  <2> HIDE DEF P
  <2> QED BY <1>2, <1>3, SetInduction
<1>5. \A t \in Seq(X) : Len(t) \in Nat
  OBVIOUS
<1> QED BY <1>4, <1>5

\* No element comes twice if none did.
LEMMA KeepInjective ==
  ASSUME NEW X, NEW s \in Seq(X), NEW S,
         \A i, j \in 1 .. Len(s) : s[i] = s[j] => i = j
  PROVE  \A i, j \in 1 .. Len(Keep(s, S)) : Keep(s, S)[i] = Keep(s, S)[j] => i = j
<1>1. PICK q \in Seq(X) : q = Keep(s, S)
  BY KeepPicks
<1>2. PICK g : Picks(g, q, s, S, Len(s))
  BY <1>1, KeepPicks
<1>3. Len(q) \in Nat /\ Len(s) \in Nat
  OBVIOUS
<1> SUFFICES ASSUME NEW i \in 1 .. Len(q), NEW j \in 1 .. Len(q), q[i] = q[j] PROVE i = j
  BY <1>1
<1>4. g[i] \in 1 .. Len(s) /\ g[j] \in 1 .. Len(s) /\ s[g[i]] = s[g[j]]
  BY <1>2 DEF Picks
<1>5. g[i] = g[j] /\ g[i] \in Nat
  BY <1>3, <1>4
<1>6. (i < j => g[i] < g[j]) /\ (j < i => g[j] < g[i])
  BY <1>2 DEF Picks
<1> QED BY <1>3, <1>5, <1>6

-----------------------------------------------------------------------------
(* The cache directory.                                                    *)

CacheType ==
  /\ worker \in [Module -> {"get", "put", "write", "done"}]
  /\ file \in [Module -> {"absent", "whole", "mine", "theirs"}]
  /\ other \in [Module -> {"idle", "writing", "done", "died"}]

\* A truncated file has a writer that is at work or was killed, and there is no
\* file only as long as nobody has written one.
FileInv(m) ==
  /\ file[m] = "mine" => worker[m] = "write"
  /\ file[m] = "theirs" => other[m] \in {"writing", "died"}
  /\ file[m] = "absent" => worker[m] \in {"get", "put"} /\ other[m] = "idle"

CacheInv == CacheType /\ (useOnDiskCache => \A m \in Module : FileInv(m))

\* The initial state: a file may be there, finished or not.
LEMMA CacheInit == Init => CacheInv
BY DEF Init, CacheInv, CacheType, FileInv

\* The steps that leave the worker, the file and the other Mull alone.
LEMMA CacheUntouched ==
  ASSUME CacheInv, UNCHANGED << useOnDiskCache, worker, file, other >>
  PROVE  CacheInv'
BY DEF CacheInv, CacheType, FileInv

\* The steps of the search leave the program, the options and the cache alone.
LEMMA SearchLeaves ==
  ASSUME Search
  PROVE  UNCHANGED << config, functions, offset, compilation >>
BY DEF Search, FindTests, LoadInstrumentedProgram, RunTest, TestedAll,
   MergeReachableFunctions, MergedAll, FilterFunctions, SelectInstructions,
   SearchMutationPoints, SearchedMutator, SearchedFunction, FoundAll, FilterMutations, FilteredAll

\* Every step preserves the invariant of the cache.
LEMMA CacheStep == CacheInv /\ [Next]_vars => CacheInv'
<1> SUFFICES ASSUME CacheInv, [Next]_vars PROVE CacheInv'
  OBVIOUS
<1>1. ASSUME NEW m \in Module, GetObject(m) PROVE CacheInv'
  BY <1>1 DEF GetObject, CacheInv, CacheType, FileInv, config
<1>2. ASSUME NEW m \in Module, PutNothing(m) PROVE CacheInv'
  BY <1>2 DEF PutNothing, CacheInv, CacheType, FileInv, config
<1>3. ASSUME NEW m \in Module, OpenFile(m) PROVE CacheInv'
  BY <1>3 DEF OpenFile, CacheInv, CacheType, FileInv, config
<1>4. ASSUME NEW m \in Module, CloseFile(m) PROVE CacheInv'
  BY <1>4 DEF CloseFile, CacheInv, CacheType, FileInv, config
<1>5. ASSUME NEW m \in Module, OtherOpens(m) PROVE CacheInv'
  BY <1>5 DEF OtherOpens, OtherStep, CacheInv, CacheType, FileInv, config
<1>6. ASSUME NEW m \in Module, OtherCloses(m) PROVE CacheInv'
  BY <1>6 DEF OtherCloses, OtherStep, CacheInv, CacheType, FileInv, config
<1>7. ASSUME NEW m \in Module, OtherDies(m) PROVE CacheInv'
  BY <1>7 DEF OtherDies, OtherStep, CacheInv, CacheType, FileInv, config
<1>8. ASSUME NEW m \in Module, WriteFails(m) PROVE CacheInv'
  BY <1>8, CacheUntouched DEF WriteFails, config, compilation
<1>9. CASE RecordFunctions \/ StartCompilation \/ CompiledAll
  BY <1>9, CacheUntouched
     DEF RecordFunctions, StartCompilation, CompiledAll, config, compilation
<1>10. CASE Search
  BY <1>10, SearchLeaves, CacheUntouched DEF config, compilation
<1>11. CASE Ended \/ UNCHANGED vars
  BY <1>11, CacheUntouched DEF Ended, vars, config, compilation
<1> QED
  BY <1>1, <1>2, <1>3, <1>4, <1>5, <1>6, <1>7, <1>8, <1>9, <1>10, <1>11
     DEF Next, Compilation, OtherMull

\* Two Mulls that write the same files of the cache at any time, each possibly
\* reading what the other has not finished, leave whole files behind when neither
\* is killed (ObjectCache::putObjectOnDisk), for any number of modules.
THEOREM CacheCorrect == Spec => []CacheIsWhole
<1>1. CacheInv => CacheIsWhole
  BY DEF CacheInv, CacheType, FileInv, CacheIsWhole
<1> QED BY CacheInit, CacheStep, <1>1, PTL DEF Spec

-----------------------------------------------------------------------------
(* The indices of the callbacks.                                           *)

\* The functions that have a body, in all modules.
Defined == Fn \ Declaration

\* A module's definitions are functions of the program, and all that have a body.
LEMMA DefinitionsAre ==
  ASSUME NEW m \in Module
  PROVE  /\ Definitions(m) \in Seq(Fn) /\ Definitions(m) # << Null >>
         /\ \A f \in Range(FunctionList[m]) : f \in Defined => f \in Range(Definitions(m))
<1>1. FunctionList[m] \in Seq(Fn) /\ Null \notin Fn
  BY DriverAssumption
<1>2. /\ Definitions(m) \in Seq(Fn)
      /\ Range(Definitions(m)) = Range(FunctionList[m]) \cap Defined
      /\ \A j \in 1 .. Len(Definitions(m)) : Definitions(m)[j] \in Fn
  BY <1>1, KeepRange DEF Definitions, Defined
<1>3. Definitions(m) # << Null >>
  <2> SUFFICES ASSUME Definitions(m) = << Null >> PROVE FALSE
    OBVIOUS
  <2>1. Len(<< Null >>) = 1 /\ << Null >>[1] = Null
    OBVIOUS
  <2> QED BY <1>1, <1>2, <2>1
<1> QED BY <1>2, <1>3

\* The definitions of m are in `functions`, from the offset that m was given.
Placed(m) ==
  /\ offset[m] + Len(Definitions(m)) <= Len(functions)
  /\ \A k \in 1 .. Len(Definitions(m)) : functions[offset[m] + k] = Definitions(m)[k]

Recording ==
  IF phase = "record"
  THEN at <= Len(Modules) + 1 /\ \A i \in 1 .. at - 1 : Placed(Modules[i])
  ELSE \A m \in Module : Placed(m)

\* An object has the module's callbacks, or it is half a file of the other Mull.
ObjectInv(m) ==
  /\ worker[m] # "get" =>
       objects[m] = Definitions(m) \/ (objects[m] = << Null >> /\ other[m] # "idle")
  /\ phase \notin {"record", "compile", "stopped"} => worker[m] = "done"
  /\ phase \in {"test", "merge", "functions", "search"} => objects[m] # << Null >>

IndexInv ==
  /\ functions \in Seq(Fn \cup {Null})
  /\ offset \in [Module -> Nat]
  /\ at \in Nat \ {0}
  /\ DOMAIN objects = Module
  /\ Recording
  /\ \A m \in Module : ObjectInv(m)

\* The initial state.
LEMMA IndexInit == Init => IndexInv
<1> SUFFICES ASSUME Init PROVE IndexInv
  OBVIOUS
<1>1. functions \in Seq(Fn \cup {Null}) /\ at = 1 /\ phase = "record"
  BY DEF Init
<1>2. Len(Modules) \in Nat
  BY DriverAssumption
<1>3. Recording
  BY <1>1, <1>2 DEF Recording
<1>4. offset \in [Module -> Nat] /\ DOMAIN objects = Module
  BY DEF Init
<1>5. ASSUME NEW m \in Module PROVE ObjectInv(m)
  BY DEF Init, ObjectInv
<1> QED BY <1>1, <1>3, <1>4, <1>5 DEF IndexInv

\* What the steps after the recording leave as it is.
LEMMA RecordingKept ==
  ASSUME IndexInv, phase # "record", phase' # "record", UNCHANGED << functions, offset >>
  PROVE  /\ functions' \in Seq(Fn \cup {Null}) /\ offset' \in [Module -> Nat]
         /\ Recording'
BY DEF IndexInv, Recording, Placed

\* The next module's functions go to the end of the list.
LEMMA RecordFunctionsKeeps ==
  ASSUME IndexInv, RecordFunctions
  PROVE  IndexInv'
<1> DEFINE m == Modules[at]
           d == Definitions(m)
<1>1. /\ Modules \in Seq(Module) /\ Len(Modules) \in Nat /\ IsInjective(Modules)
      /\ DOMAIN Modules = 1 .. Len(Modules)
  BY DriverAssumption, LenProperties
<1>2. /\ functions \in Seq(Fn \cup {Null}) /\ offset \in [Module -> Nat]
      /\ at \in Nat \ {0} /\ phase = "record" /\ at <= Len(Modules)
      /\ phase' = "record" /\ at' = at + 1
      /\ offset' = [offset EXCEPT ![m] = Len(functions)]
      /\ functions' = functions \o d /\ UNCHANGED compilation
      /\ \A i \in 1 .. at - 1 : Placed(Modules[i])
  BY DEF IndexInv, RecordFunctions, Recording
<1>3. at \in 1 .. Len(Modules) /\ m \in Module
  BY <1>1, <1>2
<1>4. d \in Seq(Fn \cup {Null}) /\ \A n \in Module : Definitions(n) \in Seq(Fn)
  <2>1. \A n \in Module : Definitions(n) \in Seq(Fn)
    BY DefinitionsAre
  <2>2. d \in Seq(Fn)
    BY <1>3, <2>1
  <2> QED BY <2>1, <2>2
<1> HIDE DEF d
<1>5. /\ functions' \in Seq(Fn \cup {Null}) /\ Len(functions') = Len(functions) + Len(d)
      /\ \A i \in 1 .. Len(functions) : functions'[i] = functions[i]
      /\ \A k \in 1 .. Len(d) : functions'[Len(functions) + k] = d[k]
      /\ Len(functions) \in Nat /\ Len(d) \in Nat
  BY <1>2, <1>4
<1>6. /\ offset' \in [Module -> Nat] /\ offset'[m] = Len(functions)
      /\ \A n \in Module \ {m} : offset'[n] = offset[n]
  BY <1>2, <1>3, <1>5
<1>7. ASSUME NEW i \in 1 .. at' - 1 PROVE Placed(Modules[i])'
  <2>1. i \in 1 .. Len(Modules) /\ Modules[i] \in Module /\ (i = at \/ i \in 1 .. at - 1)
    BY <1>1, <1>2
  <2>2. CASE i = at
    <3>1. offset'[Modules[i]] = Len(functions) /\ Definitions(Modules[i]) = d
      BY <1>6, <2>2 DEF d
    <3> HIDE DEF m
    <3>2. offset'[Modules[i]] + Len(d) <= Len(functions')
      BY <1>5, <3>1
    <3> QED BY <1>5, <3>1, <3>2 DEF Placed
  <2>3. CASE i \in 1 .. at - 1
    <3>1. Modules[i] # m
      <4>1. i \in DOMAIN Modules /\ at \in DOMAIN Modules /\ i # at
        <5>1. i # at
          BY <1>2, <2>3
        <5> QED BY <1>1, <1>3, <2>1, <5>1, Zenon
      <4> QED BY <1>1, <4>1 DEF IsInjective
    <3> DEFINE n == Modules[i]
               e == Definitions(n)
    <3>2. n \in Module \ {m} /\ Placed(n)
      BY <1>2, <2>1, <2>3, <3>1
    <3>3. Len(e) \in Nat /\ offset[n] \in Nat
      BY <1>2, <1>4, <3>2
    <3>4. /\ offset[n] + Len(e) <= Len(functions)
          /\ \A k \in 1 .. Len(e) : functions[offset[n] + k] = e[k]
      BY <3>2 DEF Placed
    <3>5. offset'[n] = offset[n]
      BY <1>6, <3>2
    <3> HIDE DEF e, n, m
    <3>6. PICK z \in Nat : z = Len(functions) /\ Len(functions') >= z
      BY <1>5
    <3>7. offset'[n] + Len(e) <= Len(functions')
      <4>1. offset[n] + Len(e) <= z /\ Len(functions') \in Nat
        BY <1>5, <3>4, <3>6
      <4> QED BY <3>3, <3>5, <3>6, <4>1
    <3>8. ASSUME NEW k \in 1 .. Len(e) PROVE functions'[offset'[n] + k] = e[k]
      <4>1. offset[n] + k \in 1 .. z
        <5>1. offset[n] + Len(e) <= z
          BY <3>4, <3>6
        <5> QED BY <3>3, <5>1
      <4>2. functions'[offset[n] + k] = functions[offset[n] + k]
        BY <1>5, <3>6, <4>1
      <4> QED BY <3>4, <3>5, <4>2
    <3> QED BY <3>7, <3>8 DEF Placed, e, n
  <2> QED BY <2>1, <2>2, <2>3
<1>8. Recording'
  BY <1>1, <1>2, <1>7 DEF Recording
<1>9. ASSUME NEW n \in Module PROVE ObjectInv(n)'
  BY <1>2 DEF IndexInv, ObjectInv, compilation
<1> QED BY <1>2, <1>5, <1>6, <1>8, <1>9 DEF IndexInv, compilation

\* The steps of the compilation.
LEMMA CompilationKeeps ==
  ASSUME CacheInv, IndexInv, Compilation \/ OtherMull
  PROVE  IndexInv'
<1>1. CASE RecordFunctions
  BY <1>1, RecordFunctionsKeeps
<1>2. CASE StartCompilation
  <2>1. /\ phase = "record" /\ at > Len(Modules) /\ phase' = "compile" /\ at' = 1
        /\ UNCHANGED << functions, offset, compilation >>
    BY <1>2 DEF StartCompilation
  <2>2. /\ Modules \in Seq(Module) /\ Len(Modules) \in Nat /\ at \in Nat \ {0}
        /\ DOMAIN Modules = 1 .. Len(Modules)
    BY DriverAssumption, LenProperties DEF IndexInv
  <2>3. ASSUME NEW m \in Module PROVE Placed(m)
    <3>1. PICK i \in DOMAIN Modules : m = Modules[i]
      BY DEF Module, Range
    <3>2. i \in 1 .. Len(Modules)
      BY <2>2, <3>1, Zenon
    <3>3. i \in 1 .. at - 1
      BY <2>1, <2>2, <3>2
    <3> QED BY <2>1, <3>1, <3>3 DEF IndexInv, Recording
  <2>4. Recording'
    BY <2>1, <2>3 DEF Recording, Placed
  <2>5. ASSUME NEW m \in Module PROVE ObjectInv(m)'
    BY <2>1 DEF IndexInv, ObjectInv, compilation
  <2> QED BY <2>1, <2>4, <2>5 DEF IndexInv, compilation
<1>3. ASSUME NEW m \in Module, GetObject(m) PROVE IndexInv'
  <2>1. /\ phase = "compile" /\ phase' = phase /\ worker[m] = "get"
        /\ UNCHANGED << functions, offset, at, other >>
    BY <1>3 DEF GetObject
  <2>2. PICK o : /\ objects' = [objects EXCEPT ![m] = o]
                 /\ o = Definitions(m) \/ (o = << Null >> /\ other[m] # "idle")
    <3>1. CASE objects' = [objects EXCEPT ![m] = InsertCallbacks(m)]
      BY <3>1 DEF InsertCallbacks
    <3>2. CASE /\ useOnDiskCache /\ file[m] # "absent"
               /\ objects' = [objects EXCEPT ![m] =
                                IF file[m] = "whole" THEN InsertCallbacks(m) ELSE << Null >>]
      <4>1. file[m] # "whole" => other[m] # "idle"
        BY <2>1, <3>2 DEF CacheInv, CacheType, FileInv
      <4> QED BY <3>2, <4>1 DEF InsertCallbacks
    <3> QED BY <1>3, <3>1, <3>2 DEF GetObject
  <2>3. PICK p \in {"put", "done"} : worker' = [worker EXCEPT ![m] = p]
    BY <1>3 DEF GetObject
  <2>4. ASSUME NEW n \in Module PROVE ObjectInv(n)'
    <3>1. ObjectInv(n) /\ DOMAIN objects = Module /\ DOMAIN worker = Module
      BY DEF IndexInv, CacheInv, CacheType
    <3>2. CASE n = m
      BY <2>1, <2>2, <3>1, <3>2 DEF ObjectInv
    <3>3. CASE n # m
      BY <2>1, <2>2, <2>3, <3>1, <3>3 DEF ObjectInv
    <3> QED BY <3>2, <3>3
  <2>5. Recording' /\ functions' \in Seq(Fn \cup {Null}) /\ offset' \in [Module -> Nat]
    BY <2>1, RecordingKept
  <2>6. DOMAIN objects' = Module
    BY <2>2 DEF IndexInv
  <2> QED BY <2>1, <2>4, <2>5, <2>6 DEF IndexInv
<1>4. ASSUME NEW m \in Module, PutNothing(m) \/ OpenFile(m) \/ CloseFile(m) PROVE IndexInv'
  <2>1. /\ phase = "compile" /\ phase' = phase /\ worker[m] # "get"
        /\ UNCHANGED << functions, offset, at, other, objects >>
    BY <1>4 DEF PutNothing, OpenFile, CloseFile
  <2>2. PICK p \in {"write", "done"} : worker' = [worker EXCEPT ![m] = p]
    BY <1>4 DEF PutNothing, OpenFile, CloseFile
  <2>3. ASSUME NEW n \in Module PROVE ObjectInv(n)'
    <3>1. ObjectInv(n) /\ DOMAIN worker = Module
      BY DEF IndexInv, CacheInv, CacheType
    <3> QED BY <2>1, <2>2, <3>1 DEF ObjectInv
  <2>4. Recording' /\ functions' \in Seq(Fn \cup {Null}) /\ offset' \in [Module -> Nat]
    BY <2>1, RecordingKept
  <2> QED BY <2>1, <2>3, <2>4 DEF IndexInv
<1>5. ASSUME NEW m \in Module, WriteFails(m) PROVE IndexInv'
  <2>1. /\ phase = "compile" /\ phase' = "stopped"
        /\ UNCHANGED << functions, offset, at, compilation >>
    BY <1>5 DEF WriteFails, Stop
  <2>2. ASSUME NEW n \in Module PROVE ObjectInv(n)'
    BY <2>1 DEF IndexInv, ObjectInv, compilation
  <2>3. Recording' /\ functions' \in Seq(Fn \cup {Null}) /\ offset' \in [Module -> Nat]
    BY <2>1, RecordingKept
  <2> QED BY <2>1, <2>2, <2>3 DEF IndexInv, compilation
<1>6. CASE CompiledAll
  <2>1. /\ phase = "compile" /\ phase' = "find" /\ \A m \in Module : worker[m] = "done"
        /\ UNCHANGED << functions, offset, at, compilation >>
    BY <1>6 DEF CompiledAll
  <2>2. ASSUME NEW n \in Module PROVE ObjectInv(n)'
    BY <2>1 DEF IndexInv, ObjectInv, compilation
  <2>3. Recording' /\ functions' \in Seq(Fn \cup {Null}) /\ offset' \in [Module -> Nat]
    BY <2>1, RecordingKept
  <2> QED BY <2>1, <2>2, <2>3 DEF IndexInv, compilation
<1>7. CASE OtherMull
  <2>1. PICK m \in Module, to \in {"writing", "done", "died"} :
          /\ other' = [other EXCEPT ![m] = to]
          /\ phase = "compile"
          /\ UNCHANGED << phase, functions, offset, at, worker, objects >>
    BY <1>7 DEF OtherMull, OtherOpens, OtherCloses, OtherDies, OtherStep
  <2>2. ASSUME NEW n \in Module PROVE ObjectInv(n)'
    <3>1. ObjectInv(n) /\ DOMAIN other = Module
      BY DEF IndexInv, CacheInv, CacheType
    <3> QED BY <2>1, <3>1 DEF ObjectInv
  <2>3. Recording' /\ functions' \in Seq(Fn \cup {Null}) /\ offset' \in [Module -> Nat]
    BY <2>1, RecordingKept
  <2> QED BY <2>1, <2>2, <2>3 DEF IndexInv
<1> QED BY <1>1, <1>2, <1>3, <1>4, <1>5, <1>6, <1>7 DEF Compilation

\* The phases of the search, in their order.
SearchPhase == {"find", "load", "test", "merge", "functions", "search", "mutations", "run",
                "stopped"}

\* How a step of the search moves.
LEMMA SearchMoves ==
  ASSUME IndexInv, Search
  PROVE  /\ phase \in SearchPhase \ {"run", "stopped"} /\ phase' \in SearchPhase
         /\ at' \in Nat \ {0}
         /\ phase' \in {"test", "merge", "functions", "search"} =>
              \/ phase \in {"test", "merge", "functions", "search"}
              \/ \A m \in Module : objects[m] # << Null >>
<1>1. at \in Nat \ {0}
  BY DEF IndexInv
<1>2. CASE FindTests \/ LoadInstrumentedProgram
  BY <1>1, <1>2 DEF FindTests, LoadInstrumentedProgram, Stop, SearchPhase
<1>3. CASE RunTest \/ TestedAll \/ MergeReachableFunctions \/ MergedAll
  BY <1>1, <1>3 DEF RunTest, TestedAll, MergeReachableFunctions, MergedAll, SearchPhase
<1>4. CASE FilterFunctions \/ SelectInstructions
  <2>1. /\ phase = "functions"
        /\ \/ phase' = "stopped" /\ at' = at
           \/ phase' = phase /\ at' = at + 1
           \/ phase' = "search" /\ at' = 1
    BY <1>4 DEF FilterFunctions, SelectInstructions, Stop
  <2> QED BY <1>1, <2>1 DEF SearchPhase
<1>5. CASE SearchMutationPoints \/ SearchedMutator \/ SearchedFunction \/ FoundAll
  BY <1>1, <1>5 DEF SearchMutationPoints, SearchedMutator, SearchedFunction, FoundAll, SearchPhase
<1>6. CASE FilterMutations \/ FilteredAll
  <2>1. /\ phase = "mutations"
        /\ \/ phase' = "stopped" /\ at' = at
           \/ phase' = phase /\ at' = at + 1
           \/ phase' = "run" /\ at' = at
    BY <1>6 DEF FilterMutations, FilteredAll, Stop
  <2> QED BY <1>1, <2>1 DEF SearchPhase
<1> QED BY <1>2, <1>3, <1>4, <1>5, <1>6 DEF Search

\* Every step preserves the invariant of the indices.
LEMMA IndexStep == CacheInv /\ IndexInv /\ [Next]_vars => IndexInv'
<1> SUFFICES ASSUME CacheInv, IndexInv, [Next]_vars PROVE IndexInv'
  OBVIOUS
<1>1. CASE Compilation \/ OtherMull
  BY <1>1, CompilationKeeps
<1>2. CASE Search
  <2>1. UNCHANGED << functions, offset, compilation >>
    BY <1>2, SearchLeaves
  <2>2. /\ phase \in SearchPhase \ {"run", "stopped"} /\ phase' \in SearchPhase
        /\ at' \in Nat \ {0}
        /\ phase' \in {"test", "merge", "functions", "search"} =>
             \/ phase \in {"test", "merge", "functions", "search"}
             \/ \A m \in Module : objects[m] # << Null >>
    BY <1>2, SearchMoves
  <2>3. phase \notin {"record", "compile", "stopped"} /\ phase' \notin {"record", "compile"}
    BY <2>2 DEF SearchPhase
  <2>4. ASSUME NEW m \in Module PROVE ObjectInv(m)'
    <3>1. ObjectInv(m)
      BY DEF IndexInv
    <3> QED BY <2>1, <2>2, <2>3, <3>1 DEF ObjectInv, compilation
  <2>5. Recording' /\ functions' \in Seq(Fn \cup {Null}) /\ offset' \in [Module -> Nat]
    BY <2>1, <2>3, RecordingKept
  <2> QED BY <2>1, <2>2, <2>4, <2>5 DEF IndexInv, compilation
<1>3. CASE Ended \/ UNCHANGED vars
  <2>1. UNCHANGED << phase, functions, offset, at, compilation >>
    BY <1>3 DEF Ended, vars
  <2>2. ASSUME NEW m \in Module PROVE ObjectInv(m)' /\ (Placed(m) => Placed(m)')
    BY <2>1 DEF IndexInv, ObjectInv, Placed, compilation
  <2>3. Recording'
    <3>1. \A i \in 1 .. at - 1 : Placed(Modules[i]) => Placed(Modules[i])'
      BY <2>1 DEF Placed
    <3> QED BY <2>1, <2>2, <3>1 DEF IndexInv, Recording
  <2> QED BY <2>1, <2>2, <2>3 DEF IndexInv, compilation
<1> QED BY <1>1, <1>2, <1>3 DEF Next

\* An index is the right one for whichever module has the function.
LEMMA RecordedIs ==
  ASSUME IndexInv, phase \in {"test", "merge", "functions", "search"},
         NEW n \in Module, NEW f \in Range(objects[n])
  PROVE  Recorded(f) = f
<1> DEFINE m == CHOOSE m \in Module : f \in Range(objects[m])
           k == CHOOSE k \in DOMAIN objects[m] : objects[m][k] = f
<1>1. m \in Module /\ f \in Range(objects[m])
  OBVIOUS
<1>2. k \in DOMAIN objects[m] /\ objects[m][k] = f
  <2> HIDE DEF m
  <2> QED BY <1>1 DEF Range
<1> HIDE DEF m, k
<1>3. objects[m] = Definitions(m) /\ Placed(m)
  BY <1>1 DEF IndexInv, ObjectInv, Recording
<1>4. /\ Definitions(m) \in Seq(Fn) /\ offset[m] \in Nat
      /\ functions \in Seq(Fn \cup {Null}) /\ Len(functions) \in Nat
  BY <1>1, DefinitionsAre DEF IndexInv
<1>5. DOMAIN Definitions(m) = 1 .. Len(Definitions(m)) /\ Len(Definitions(m)) \in Nat
  BY <1>4, LenProperties
<1>6. k \in 1 .. Len(Definitions(m)) /\ k \in Nat
  <2>1. k \in 1 .. Len(Definitions(m))
    BY <1>2, <1>3, <1>5, Zenon
  <2> QED BY <1>5, <2>1
<1>7. /\ offset[m] + Len(Definitions(m)) <= Len(functions)
      /\ functions[offset[m] + k] = f
  BY <1>2, <1>3, <1>6 DEF Placed
<1>8. (k - 1) + offset[m] < Len(functions) /\ (k - 1) + offset[m] + 1 = offset[m] + k
  BY <1>4, <1>5, <1>6, <1>7
<1>9. Recorded(f) = IF (k - 1) + offset[m] < Len(functions)
                    THEN functions[(k - 1) + offset[m] + 1] ELSE Null
  BY DEF Recorded, m, k
<1> QED BY <1>7, <1>8, <1>9

\* The invariants so far hold in every reachable state.
LEMMA IndexInvariance == Spec => [](CacheInv /\ IndexInv)
<1>1. Init => CacheInv /\ IndexInv
  BY CacheInit, IndexInit
<1>2. CacheInv /\ IndexInv /\ [Next]_vars => (CacheInv /\ IndexInv)'
  BY CacheStep, IndexStep
<1> QED BY <1>1, <1>2, PTL DEF Spec

\* The index that a callback passes names its own function, whatever modules there
\* are and in whatever order their functions were recorded, whether the object was
\* compiled or found in the cache.
THEOREM CallbacksNameTheCalleeHolds == Spec => []CallbacksNameTheCallee
<1>1. IndexInv => CallbacksNameTheCallee
  BY RecordedIs DEF CallbacksNameTheCallee
<1> QED BY <1>1, IndexInvariance, PTL

-----------------------------------------------------------------------------
(* The invariant of the search.                                            *)

Hits == Test \X Nat
ReachedFn == [fn : Defined, test : Test, distance : Nat]
UnderTest == [fn : Defined, tests : Seq(Hits), selected : Seq(Instruction)]
Change == UNION {Range(LowLevel[m]) : m \in Range(Mutators)}
MutationPoint ==
  [mutator : Range(Mutators), instruction : Instruction, change : Change, fn : Defined,
   tests : Seq(Hits)]

PipelineType ==
  /\ mutatorAt \in Nat \ {0} /\ instructionAt \in Nat \ {0}
  /\ tests \in Seq(Test)
  /\ ran \in Seq(UNION {Outcome[t] : t \in Test})
  /\ reachable \in Seq(ReachedFn)
  /\ under \in Seq(UnderTest)
  /\ points \in Seq(MutationPoint)

\* The tests that have f in the sequence q, with the distances.
HitsIn(q, f) ==
  LET of == Keep(q, {r \in ReachedFn : r.fn = f})
  IN  [k \in DOMAIN of |-> << of[k].test, of[k].distance >>]

\* What the tests did is what is in reachableFunctions.
TestedInv ==
  /\ Len(ran) <= Len(tests)
  /\ \A i \in 1 .. Len(ran) : ran[i] \in Outcome[tests[i]]
  /\ \A f \in Fn : HitsIn(reachable, f) = ReachedBy(f)

\* FirstReached, in a sequence q of what was reached.
IsFirst(q, i, f) ==
  /\ i \in 1 .. Len(q) /\ q[i].fn = f
  /\ \A j \in 1 .. i - 1 : q[j].fn # f
First(q, f) ==
  CHOOSE i \in DOMAIN q : q[i].fn = f /\ \A j \in 1 .. i - 1 : q[j].fn # f

\* u has the functions of S among the first n in q, each once, in the order of their
\* first occurrence, with all their tests.
UnderIs(u, q, n, S) ==
  /\ \A a \in 1 .. Len(u) :
       /\ First(q, u[a].fn) \in 1 .. n /\ IsFirst(q, First(q, u[a].fn), u[a].fn)
       /\ u[a].fn \in S
       /\ u[a].tests = HitsIn(SubSeq(q, 1, n), u[a].fn)
  /\ \A a, b \in 1 .. Len(u) : a < b => First(q, u[a].fn) < First(q, u[b].fn)
  /\ \A i \in 1 .. n : q[i].fn \in S => \E a \in 1 .. Len(u) : u[a].fn = q[i].fn

\* The functions that the first n filters let through.
Passing(n) == {f \in Fn : \A i \in 1 .. n : ~LocationSkipped(functionFilters[i], f)}

Located == {x \in Instruction : ~IsNull(x)}

\* The e-th instruction of the a-th function and the c-th mutator are done when the
\* h-th of the b-th and the d-th is next.
Searched(a, c, e, b, d, h) == a < b \/ (a = b /\ (c < d \/ (c = d /\ e < h)))

\* Where the point x comes from.
ComesFrom(x, u, b, d, h) ==
  \E a \in 1 .. Len(u), c \in 1 .. Len(Mutators) : \E e \in 1 .. Len(u[a].selected) :
    /\ Searched(a, c, e, b, d, h)
    /\ x.fn = u[a].fn /\ x.tests = u[a].tests
    /\ x.instruction = u[a].selected[e]
    /\ x.mutator = Mutators[c] /\ Key(x) \in CanMutate

\* p has a point for each mutation of the instructions that are done.
SearchIs(p, u, b, d, h) ==
  /\ \A i \in 1 .. Len(p) : ComesFrom(p[i], u, b, d, h)
  /\ \A a \in 1 .. Len(u), c \in 1 .. Len(Mutators) : \A e \in 1 .. Len(u[a].selected) :
       Searched(a, c, e, b, d, h) =>
         \A g : << Mutators[c], u[a].selected[e], g >> \in CanMutate =>
           \E i \in 1 .. Len(p) : /\ Key(p[i]) = << Mutators[c], u[a].selected[e], g >>
                                 /\ p[i].fn = u[a].fn

\* No point comes twice, and they are in the order of their functions.
OrderIs(p, q) ==
  /\ \A i, j \in 1 .. Len(p) : Key(p[i]) = Key(p[j]) => i = j
  /\ \A i, j \in 1 .. Len(p) : i < j => First(q, p[i].fn) <= First(q, p[j].fn)

\* The mutations of located instructions in functions that are let through, which the
\* first n filters do not skip.
Asked(n) ==
  {w \in Fn \X CanMutate :
     /\ w[1] \in Passing(2) /\ w[2][2] \in Range(Instructions[w[1]]) /\ ~IsNull(w[2][2])
     /\ \A i \in 1 .. n :
          ~PointSkipped(mutationFilters[i], [mutator |-> w[2][1], instruction |-> w[2][2]])}

IsReached(q, f) == \E i \in 1 .. Len(q) : q[i].fn = f

\* p has exactly the points of W whose functions are reached.
PointsAre(p, q, W) ==
  /\ \A i \in 1 .. Len(p) :
       /\ << p[i].fn, Key(p[i]) >> \in W /\ IsReached(q, p[i].fn)
       /\ p[i].tests = HitsIn(q, p[i].fn)
  /\ \A w \in W :
       IsReached(q, w[1]) => \E i \in 1 .. Len(p) : Key(p[i]) = w[2] /\ p[i].fn = w[1]
  /\ OrderIs(p, q)

\* What each step of Driver::Run finds.
BeforeTests ==
  phase \in {"record", "compile", "find", "load"} =>
    ran = << >> /\ reachable = << >> /\ under = << >> /\ points = << >>
Testing == phase = "test" => under = << >> /\ points = << >> /\ Len(ran) = at - 1
Merging ==
  phase = "merge" =>
    /\ at <= Len(reachable) + 1 /\ points = << >>
    /\ UnderIs(under, reachable, at - 1, Fn)
    /\ \A a \in 1 .. Len(under) : under[a].selected = << >>
Filtering ==
  phase = "functions" =>
    /\ at <= Len(functionFilters) + 1 /\ points = << >>
    /\ UnderIs(under, reachable, Len(reachable), Passing(at - 1))
    /\ \A a \in 1 .. Len(under) : under[a].selected = << >>
Searching ==
  phase = "search" =>
    /\ at <= Len(under) + 1 /\ mutatorAt <= Len(Mutators) + 1
    /\ at = Len(under) + 1 => mutatorAt = 1
    /\ at <= Len(under) /\ mutatorAt <= Len(Mutators)
         => instructionAt <= Len(under[at].selected) + 1
    /\ at = Len(under) + 1 \/ mutatorAt = Len(Mutators) + 1 => instructionAt = 1
    /\ UnderIs(under, reachable, Len(reachable), Passing(2))
    /\ \A a \in 1 .. Len(under) :
         under[a].selected = Keep(Instructions[under[a].fn], Located)
    /\ SearchIs(points, under, at, mutatorAt, instructionAt)
    /\ OrderIs(points, reachable)
FilteringPoints ==
  /\ phase = "mutations" =>
       at <= Len(mutationFilters) + 1 /\ PointsAre(points, reachable, Asked(at - 1))
  /\ phase = "run" => PointsAre(points, reachable, Asked(Len(mutationFilters)))
Counters ==
  /\ phase \in {"compile", "find", "load"} => at = 1
  /\ phase # "search" => mutatorAt = 1 /\ instructionAt = 1
\* The points that the AST filter has asked about could be asked about.
Answered ==
  phase = "mutations" /\ info /\ ast /\ at > 3 =>
    \A i \in 1 .. Len(points) : ~Unanswerable(points[i])

PipelineInv ==
  /\ PipelineType /\ TestedInv /\ BeforeTests /\ Testing /\ Merging /\ Filtering
  /\ Searching /\ FilteringPoints /\ Counters

\* Why Mull has stopped.
StopInv == why = Null \/ (phase = "stopped" /\ StopsAreExplained)


-----------------------------------------------------------------------------
(* The hits of a function in reachableFunctions.                           *)

Of(f) == {r \in ReachedFn : r.fn = f}

\* k has the entries for f in q, and h is made from them.
HitsFrom(k, h, q, f) ==
  /\ k \in Seq(ReachedFn) /\ h \in Seq(Hits)
  /\ k = Keep(q, Of(f)) /\ h = HitsIn(q, f) /\ Len(h) = Len(k)
  /\ \A i \in 1 .. Len(k) : h[i] = << k[i].test, k[i].distance >>

\* HitsIn is a sequence of tests and distances, one for each entry that is kept.
LEMMA HitsAre ==
  ASSUME NEW q \in Seq(ReachedFn), NEW f
  PROVE  \E k, h : HitsFrom(k, h, q, f)
<1>1. PICK p \in Seq(ReachedFn) : p = Keep(q, Of(f))
  BY KeepPicks
<1>2. DOMAIN p = 1 .. Len(p) /\ Len(p) \in Nat /\ \A k \in 1 .. Len(p) : p[k] \in ReachedFn
  BY LenProperties, ElementOfSeq
<1>3. HitsIn(q, f) = [k \in 1 .. Len(p) |-> << p[k].test, p[k].distance >>]
  BY <1>1, <1>2, Zenon DEF HitsIn, Of
<1>4. \A k \in 1 .. Len(p) : << p[k].test, p[k].distance >> \in Hits
  BY <1>2 DEF ReachedFn, Hits
<1>5. PICK n \in Nat : n = Len(p)
  BY <1>2
<1>6. PICK h : h = [k \in 1 .. n |-> << p[k].test, p[k].distance >>]
  OBVIOUS
<1>7. h \in [1 .. n -> Hits] /\ \A k \in 1 .. n : h[k] = << p[k].test, p[k].distance >>
  BY <1>4, <1>5, <1>6
<1>8. h \in Seq(Hits) /\ Len(h) = n
  BY <1>7
<1>9. Len(h) = Len(p) /\ \A k \in 1 .. Len(p) : h[k] = << p[k].test, p[k].distance >>
  BY <1>5, <1>7, <1>8, Zenon
<1>10. h = HitsIn(q, f)
  BY <1>3, <1>5, <1>6, Zenon
<1> QED BY <1>1, <1>8, <1>9, <1>10, Zenon DEF HitsFrom

\* Hits of nothing.
LEMMA HitsEmpty == \A f : HitsIn(<< >>, f) = << >>
<1> TAKE f
<1>1. PICK q \in Seq(ReachedFn) : q = << >>
  BY EmptySeq, Zenon
<1>2. PICK k, h : HitsFrom(k, h, q, f)
  BY HitsAre
<1>3. k = << >>
  BY <1>1, <1>2, KeepEmpty, Zenon DEF HitsFrom
<1>4. h \in Seq(Hits) /\ Len(h) = 0
  BY <1>2, <1>3 DEF HitsFrom
<1>5. h = << >>
  BY <1>4, EmptySeq
<1> QED BY <1>1, <1>2, <1>5, Zenon DEF HitsFrom

\* Hits in a sequence after another.
LEMMA HitsConcat ==
  ASSUME NEW q \in Seq(ReachedFn), NEW b \in Seq(ReachedFn), NEW f
  PROVE  HitsIn(q \o b, f) = HitsIn(q, f) \o HitsIn(b, f)
<1>1. Keep(q \o b, Of(f)) = Keep(q, Of(f)) \o Keep(b, Of(f))
  BY KeepConcat
<1>2. PICK c \in Seq(ReachedFn) : c = q \o b
  BY ConcatProperties
<1>3. PICK kq \in Seq(ReachedFn), hq \in Seq(Hits) :
        /\ kq = Keep(q, Of(f)) /\ hq = HitsIn(q, f) /\ Len(hq) = Len(kq)
        /\ \A i \in 1 .. Len(kq) : hq[i] = << kq[i].test, kq[i].distance >>
  <2>1. PICK k0, h0 : HitsFrom(k0, h0, q, f)
    BY HitsAre
  <2> QED BY <2>1, Zenon DEF HitsFrom
<1>4. PICK kb \in Seq(ReachedFn), hb \in Seq(Hits) :
        /\ kb = Keep(b, Of(f)) /\ hb = HitsIn(b, f) /\ Len(hb) = Len(kb)
        /\ \A i \in 1 .. Len(kb) : hb[i] = << kb[i].test, kb[i].distance >>
  <2>1. PICK k0, h0 : HitsFrom(k0, h0, b, f)
    BY HitsAre
  <2> QED BY <2>1, Zenon DEF HitsFrom
<1>5. PICK kc \in Seq(ReachedFn), hc \in Seq(Hits) :
        /\ kc = Keep(c, Of(f)) /\ hc = HitsIn(c, f) /\ Len(hc) = Len(kc)
        /\ \A i \in 1 .. Len(kc) : hc[i] = << kc[i].test, kc[i].distance >>
  <2>1. PICK k0, h0 : HitsFrom(k0, h0, c, f)
    BY HitsAre
  <2> QED BY <2>1, Zenon DEF HitsFrom
<1>6. kc = kq \o kb
  BY <1>1, <1>2, <1>3, <1>4, <1>5, Zenon
<1>7. /\ Len(kq) \in Nat /\ Len(kb) \in Nat /\ Len(kc) = Len(kq) + Len(kb)
      /\ \A i \in 1 .. Len(kq) : kc[i] = kq[i]
      /\ \A i \in Len(kq) + 1 .. Len(kq) + Len(kb) : kc[i] = kb[i - Len(kq)]
  BY <1>6
<1>8. PICK d \in Seq(Hits) : d = hq \o hb
  BY ConcatProperties
<1>9. /\ Len(d) = Len(hq) + Len(hb)
      /\ \A i \in 1 .. Len(hq) : d[i] = hq[i]
      /\ \A i \in Len(hq) + 1 .. Len(hq) + Len(hb) : d[i] = hb[i - Len(hq)]
  BY <1>8
<1>10. ASSUME NEW i \in 1 .. Len(hc) PROVE hc[i] = d[i]
  <2>1. CASE i \in 1 .. Len(kq)
    <3>1. i \in 1 .. Len(kc)
      BY <1>7, <2>1
    <3>2. kc[i] = kq[i] /\ d[i] = hq[i]
      BY <1>3, <1>7, <1>9, <2>1
    <3> QED BY <1>3, <1>5, <2>1, <3>1, <3>2
  <2>2. CASE i \in Len(kq) + 1 .. Len(kq) + Len(kb)
    <3>1. i \in 1 .. Len(kc) /\ i - Len(kq) \in 1 .. Len(kb)
      BY <1>7, <2>2
    <3>2. hc[i] = << kc[i].test, kc[i].distance >> /\ kc[i] = kb[i - Len(kq)]
      BY <1>5, <1>7, <2>2, <3>1
    <3>3. hb[i - Len(kq)] = << kb[i - Len(kq)].test, kb[i - Len(kq)].distance >>
      BY <1>4, <3>1
    <3>4. d[i] = hb[i - Len(kq)]
      BY <1>3, <1>4, <1>9, <2>2
    <3> QED BY <3>2, <3>3, <3>4
  <2>3. i \in 1 .. Len(kq) \/ i \in Len(kq) + 1 .. Len(kq) + Len(kb)
    BY <1>5, <1>7
  <2> QED BY <2>1, <2>2, <2>3
<1>11. hc = d
  <2>1. Len(hc) = Len(d)
    BY <1>3, <1>4, <1>5, <1>7, <1>9
  <2> QED BY <1>10, <2>1, SeqEqual
<1> QED BY <1>2, <1>3, <1>4, <1>5, <1>8, <1>11, Zenon

\* Hits when one entry is added.
LEMMA HitsAppend ==
  ASSUME NEW q \in Seq(ReachedFn), NEW r \in ReachedFn, NEW f
  PROVE  HitsIn(Append(q, r), f) =
           IF r.fn = f THEN Append(HitsIn(q, f), << r.test, r.distance >>) ELSE HitsIn(q, f)
<1>1. PICK a \in Seq(ReachedFn) : a = Append(q, r)
  BY AppendProperties
<1>2. PICK k \in Seq(ReachedFn), h \in Seq(Hits) :
        /\ k = Keep(q, Of(f)) /\ h = HitsIn(q, f) /\ Len(h) = Len(k)
        /\ \A i \in 1 .. Len(k) : h[i] = << k[i].test, k[i].distance >>
  <2>1. PICK k0, h0 : HitsFrom(k0, h0, q, f)
    BY HitsAre
  <2> QED BY <2>1, Zenon DEF HitsFrom
<1>3. PICK l \in Seq(ReachedFn), g \in Seq(Hits) :
        /\ l = Keep(a, Of(f)) /\ g = HitsIn(a, f) /\ Len(g) = Len(l)
        /\ \A i \in 1 .. Len(l) : g[i] = << l[i].test, l[i].distance >>
  <2>1. PICK k0, h0 : HitsFrom(k0, h0, a, f)
    BY HitsAre
  <2> QED BY <2>1, Zenon DEF HitsFrom
<1>4. l = IF r.fn = f THEN Append(k, r) ELSE k
  <2>1. l = IF r \in Of(f) THEN Append(k, r) ELSE k
    <3>1. Keep(Append(q, r), Of(f)) =
            IF r \in Of(f) THEN Append(Keep(q, Of(f)), r) ELSE Keep(q, Of(f))
      BY KeepAppend
    <3> QED BY <1>1, <1>2, <1>3, <3>1, Zenon
  <2> QED BY <2>1 DEF Of
<1>5. Len(k) \in Nat /\ << r.test, r.distance >> \in Hits
  BY DEF ReachedFn, Hits
<1>6. CASE r.fn = f
  <2>1. PICK x \in Hits : x = << r.test, r.distance >>
    BY <1>5
  <2>2. PICK d \in Seq(Hits) : d = Append(h, x)
    BY AppendProperties
  <2>3. Len(d) = Len(h) + 1 /\ d[Len(h) + 1] = x /\ \A i \in 1 .. Len(h) : d[i] = h[i]
    BY <2>2
  <2>4. Len(l) = Len(k) + 1 /\ l[Len(k) + 1] = r /\ \A i \in 1 .. Len(k) : l[i] = k[i]
    BY <1>4, <1>6
  <2>5. ASSUME NEW i \in 1 .. Len(g) PROVE g[i] = d[i]
    <3>1. i \in 1 .. Len(l) /\ (i = Len(k) + 1 \/ i \in 1 .. Len(k))
      BY <1>3, <1>5, <2>4
    <3>2. CASE i = Len(k) + 1
      BY <1>2, <1>3, <2>1, <2>3, <2>4, <3>1, <3>2
    <3>3. CASE i \in 1 .. Len(k)
      BY <1>2, <1>3, <2>3, <2>4, <3>1, <3>3
    <3> QED BY <3>1, <3>2, <3>3
  <2>6. g = d
    <3>1. Len(g) = Len(d)
      BY <1>2, <1>3, <2>3, <2>4
    <3> QED BY <2>5, <3>1, SeqEqual
  <2> QED BY <1>1, <1>2, <1>3, <1>6, <2>1, <2>2, <2>6, Zenon
<1>7. CASE r.fn # f
  <2>1. l = k
    BY <1>4, <1>7
  <2>2. g = h
    <3>1. Len(g) = Len(h) /\ \A i \in 1 .. Len(g) : g[i] = h[i]
      BY <1>2, <1>3, <2>1
    <3> QED BY <3>1, SeqEqual
  <2> QED BY <1>1, <1>2, <1>3, <1>7, <2>2, Zenon
<1> QED BY <1>6, <1>7

\* Hits when no entry, or just one, is about f.
LEMMA HitsOfOne ==
  ASSUME NEW b \in Seq(ReachedFn), NEW f
  PROVE  /\ (\A i \in 1 .. Len(b) : b[i].fn # f) => HitsIn(b, f) = << >>
         /\ \A k \in 1 .. Len(b) :
              (b[k].fn = f /\ \A i \in 1 .. Len(b) : b[i].fn = f => i = k)
                => /\ HitsIn(b, f) \in Seq(Hits) /\ Len(HitsIn(b, f)) = 1
                   /\ HitsIn(b, f)[1] = << b[k].test, b[k].distance >>
<1>1. PICK q \in Seq(ReachedFn), h \in Seq(Hits) :
        /\ q = Keep(b, Of(f)) /\ h = HitsIn(b, f) /\ Len(h) = Len(q)
        /\ \A i \in 1 .. Len(q) : h[i] = << q[i].test, q[i].distance >>
  <2>1. PICK k0, h0 : HitsFrom(k0, h0, b, f)
    BY HitsAre
  <2> QED BY <2>1, Zenon DEF HitsFrom
<1>2. PICK g : Picks(g, q, b, Of(f), Len(b))
  BY <1>1, KeepPicks
<1>3. Len(q) \in Nat /\ Len(b) \in Nat /\ \A i \in 1 .. Len(b) : b[i] \in ReachedFn
  OBVIOUS
<1>4. /\ \A i \in 1 .. Len(q) : g[i] \in 1 .. Len(b) /\ q[i] = b[g[i]] /\ b[g[i]].fn = f
      /\ \A i, j \in 1 .. Len(q) : i < j => g[i] < g[j]
      /\ \A i \in 1 .. Len(b) : b[i].fn = f => \E j \in 1 .. Len(q) : g[j] = i
  BY <1>2, <1>3 DEF Picks, Of
<1>5. ASSUME \A i \in 1 .. Len(b) : b[i].fn # f PROVE h = << >>
  <2>1. Len(h) = 0
    BY <1>1, <1>3, <1>4, <1>5
  <2> QED BY <2>1, EmptySeq
<1>6. ASSUME NEW k \in 1 .. Len(b), b[k].fn = f, \A i \in 1 .. Len(b) : b[i].fn = f => i = k
      PROVE  Len(h) = 1 /\ h[1] = << b[k].test, b[k].distance >>
  <2>1. \A i \in 1 .. Len(q) : g[i] = k
    BY <1>4, <1>6
  <2>2. Len(q) >= 1
    BY <1>3, <1>4, <1>6
  <2>3. Len(q) <= 1
    <3> SUFFICES ASSUME Len(q) > 1 PROVE FALSE
      BY <1>3
    <3>1. 1 \in 1 .. Len(q) /\ 2 \in 1 .. Len(q)
      BY <1>3
    <3>2. g[1] < g[2] /\ g[1] = k /\ g[2] = k
      BY <1>4, <2>1, <3>1
    <3> QED BY <1>3, <3>2
  <2>4. Len(q) = 1 /\ 1 \in 1 .. Len(q)
    <3>1. PICK n \in Nat : n = Len(q)
      BY <1>3
    <3>2. n >= 1 /\ n <= 1
      BY <2>2, <2>3, <3>1
    <3> QED BY <3>1, <3>2
  <2>5. q[1] = b[k]
    BY <1>4, <2>1, <2>4
  <2> QED BY <1>1, <2>4, <2>5
<1> QED BY <1>1, <1>5, <1>6

-----------------------------------------------------------------------------
(* What the tests reach.                                                   *)

Indices(n) == [i \in 1 .. n |-> i]

\* They are a sequence.
LEMMA IndicesAre ==
  ASSUME NEW n \in Nat, NEW X, \A i \in 1 .. n : i \in X
  PROVE  Indices(n) \in Seq(X) /\ Len(Indices(n)) = n /\ \A i \in 1 .. n : Indices(n)[i] = i
<1>1. PICK y : y = Indices(n)
  OBVIOUS
<1>2. y \in [1 .. n -> X] /\ \A i \in 1 .. n : y[i] = i
  BY <1>1 DEF Indices
<1>3. y \in Seq(X) /\ Len(y) = n
  BY <1>2
<1> QED BY <1>1, <1>2, <1>3, Zenon

\* One more index.
LEMMA KeepIndices ==
  ASSUME NEW n \in Nat, NEW T
  PROVE  Keep(Indices(n + 1), T) =
           IF n + 1 \in T THEN Append(Keep(Indices(n), T), n + 1) ELSE Keep(Indices(n), T)
<1>1. n + 1 \in 1 .. n + 1 /\ \A i \in 1 .. n : i \in 1 .. n + 1
  OBVIOUS
<1>2. PICK X : X = 1 .. n + 1
  OBVIOUS
<1>3. PICK k \in Nat : k = n + 1
  OBVIOUS
<1>4. PICK m \in X : m = n + 1
  BY <1>1, <1>2
<1>5. PICK y \in Seq(X) : y = Indices(n) /\ Len(y) = n /\ \A i \in 1 .. n : y[i] = i
  BY <1>1, <1>2, IndicesAre, Zenon
<1>6. PICK v \in Seq(X) : v = Indices(k) /\ Len(v) = k /\ \A i \in 1 .. k : v[i] = i
  BY <1>2, <1>3, IndicesAre, Zenon
<1>7. Keep(Append(y, m), T) = IF m \in T THEN Append(Keep(y, T), m) ELSE Keep(y, T)
  BY KeepAppend
<1>8. v = Append(y, m)
  <2>1. PICK w \in Seq(X) : w = Append(y, m)
    BY AppendProperties
  <2>2. Len(w) = n + 1 /\ w[n + 1] = m /\ \A i \in 1 .. n : w[i] = y[i]
    BY <1>5, <1>4, <2>1
  <2>3. \A i \in 1 .. n + 1 : i \in 1 .. n \/ i = n + 1
    OBVIOUS
  <2>4. Len(v) = Len(w) /\ \A i \in 1 .. Len(v) : v[i] = w[i]
    BY <1>5, <1>6, <1>4, <1>3, <2>2, <2>3
  <2>5. v = w
    BY <2>4, SeqEqual
  <2> QED BY <2>1, <2>5, Zenon
<1> QED BY <1>5, <1>6, <1>7, <1>8, <1>4, <1>3, Zenon

\* The tests, among the first n, whose outcome in rn reaches f.
Reaching(rn, n, f) == Keep(Indices(n), {i \in 1 .. n : Reaches(rn[i], f)})

\* ReachedBy for the tests ts with the outcomes rn.
HitsBy(ts, rn, f) ==
  LET reaching == Keep([i \in DOMAIN rn |-> i], {i \in DOMAIN rn : Reaches(rn[i], f)})
  IN [k \in DOMAIN reaching |-> << ts[reaching[k]], DistanceOf(rn[reaching[k]], f) >>]

\* h is ReachedBy(f) for the tests ts with the outcomes rn, and r the tests it is from.
ReachedFrom(r, h, ts, rn, f) ==
  /\ r \in Seq(1 .. Len(rn)) /\ r = Reaching(rn, Len(rn), f)
  /\ h = [k \in 1 .. Len(r) |-> << ts[r[k]], DistanceOf(rn[r[k]], f) >>]

\* ReachedBy, in these words, for any tests and outcomes.
LEMMA ReachingIs ==
  ASSUME NEW X, NEW rn \in Seq(X), NEW ts, NEW f
  PROVE  \E r : ReachedFrom(r, HitsBy(ts, rn, f), ts, rn, f)
<1>1. DOMAIN rn = 1 .. Len(rn) /\ Len(rn) \in Nat
  BY LenProperties
<1>2. Indices(Len(rn)) \in Seq(1 .. Len(rn))
  BY <1>1 DEF Indices
<1>3. Reaching(rn, Len(rn), f) \in Seq(1 .. Len(rn))
  BY <1>2, KeepPicks DEF Reaching
<1>4. PICK r \in Seq(1 .. Len(rn)) : r = Reaching(rn, Len(rn), f) /\ DOMAIN r = 1 .. Len(r)
  BY <1>3, LenProperties
<1>5. r = Keep([i \in DOMAIN rn |-> i], {i \in DOMAIN rn : Reaches(rn[i], f)})
  BY <1>1, <1>4, Zenon DEF Reaching, Indices
<1>6. HitsBy(ts, rn, f) = [k \in DOMAIN r |-> << ts[r[k]], DistanceOf(rn[r[k]], f) >>]
  BY <1>5, Zenon DEF HitsBy
<1> QED BY <1>4, <1>6, Zenon DEF ReachedFrom

\* Before the first test.
LEMMA ReachingEmpty ==
  ASSUME NEW r, NEW h, NEW ts, NEW f, ReachedFrom(r, h, ts, << >>, f)
  PROVE  h = << >>
<1>1. /\ r \in Seq(1 .. 0)
      /\ h = [k \in 1 .. Len(r) |-> << ts[r[k]], DistanceOf(<< >>[r[k]], f) >>]
  BY DEF ReachedFrom
<1>2. Len(r) = 0
  <2>1. Len(r) \in Nat /\ \A i \in 1 .. Len(r) : r[i] \in 1 .. 0
    BY <1>1
  <2>2. \A i \in 1 .. Len(r) : FALSE
    BY <2>1
  <2> QED BY <2>1, <2>2
<1> QED BY <1>1, <1>2

\* One more test.
LEMMA ReachingStep ==
  ASSUME NEW X, NEW rn \in Seq(X), NEW o \in X, NEW ts, NEW f, NEW r, NEW h, NEW q, NEW g,
         ReachedFrom(r, h, ts, rn, f), ReachedFrom(q, g, ts, Append(rn, o), f)
  PROVE  g = IF Reaches(o, f) THEN Append(h, << ts[Len(rn) + 1], DistanceOf(o, f) >>) ELSE h
<1>1. PICK n \in Nat : n = Len(rn)
  OBVIOUS
<1>2. PICK z \in Seq(X) : z = Append(rn, o)
  BY AppendProperties
<1>3. /\ z = Append(rn, o) /\ Len(z) = n + 1 /\ z[n + 1] = o
      /\ \A i \in 1 .. n : z[i] = rn[i]
  BY <1>2, <1>1
<1> DEFINE S == {i \in 1 .. n : Reaches(rn[i], f)}
           T == {i \in 1 .. n + 1 : Reaches(z[i], f)}
<1>4. /\ r \in Seq(1 .. n) /\ r = Keep(Indices(n), S)
      /\ h = [k \in 1 .. Len(r) |-> << ts[r[k]], DistanceOf(rn[r[k]], f) >>]
  BY <1>1, Zenon DEF ReachedFrom, Reaching
<1>5. /\ q \in Seq(1 .. n + 1) /\ q = Keep(Indices(n + 1), T)
      /\ g = [k \in 1 .. Len(q) |-> << ts[q[k]], DistanceOf(z[q[k]], f) >>]
  BY <1>3, Zenon DEF ReachedFrom, Reaching
<1> HIDE DEF S, T
<1>6. PICK y \in Seq(1 .. n + 1) :
        y = Indices(n) /\ Len(y) = n /\ \A i \in 1 .. n : y[i] = i
  <2>1. \A i \in 1 .. n : i \in 1 .. n + 1
    OBVIOUS
  <2> QED BY <2>1, IndicesAre, Zenon
<1>7. q = IF n + 1 \in T THEN Append(Keep(y, T), n + 1) ELSE Keep(y, T)
  BY <1>5, <1>6, KeepIndices, Zenon
<1>8. Keep(y, T) = r
  <2>1. \A i \in 1 .. Len(y) : y[i] \in S <=> y[i] \in T
    <3>2. \A i \in 1 .. n : i \in S <=> i \in T
      BY <1>3 DEF S, T
    <3> QED BY <1>6, <3>2, Zenon
  <2>2. Keep(y, S) = Keep(y, T)
    BY <2>1, KeepSame
  <2> QED BY <1>4, <1>6, <2>2, Zenon
<1>9. n + 1 \in T <=> Reaches(o, f)
  BY <1>3 DEF T
<1>10. \A k \in 1 .. Len(r) : r[k] \in 1 .. n /\ z[r[k]] = rn[r[k]]
  BY <1>3, <1>4
<1>11. PICK l \in Nat : l = Len(r)
  BY <1>4
<1>12. CASE Reaches(o, f)
  <2>1. q = Append(r, n + 1)
    BY <1>7, <1>8, <1>9, <1>12
  <2>2. Len(q) = l + 1 /\ q[l + 1] = n + 1 /\ \A k \in 1 .. l : q[k] = r[k]
    BY <1>4, <1>11, <2>1
  <2>3. PICK H : H = {<< ts[i], DistanceOf(z[i], f) >> : i \in 1 .. n + 1}
    OBVIOUS
  <2>4. PICK x \in H : x = << ts[n + 1], DistanceOf(o, f) >>
    <3>1. n + 1 \in 1 .. n + 1
      OBVIOUS
    <3> QED BY <1>3, <2>3, <3>1
  <2>5. \A k \in 1 .. l : << ts[r[k]], DistanceOf(rn[r[k]], f) >> \in H
    <3> TAKE k \in 1 .. l
    <3>1. r[k] \in 1 .. n + 1 /\ z[r[k]] = rn[r[k]]
      BY <1>10, <1>11
    <3> QED BY <2>3, <3>1
  <2>6. h \in [1 .. l -> H] /\ \A k \in 1 .. l : h[k] = << ts[r[k]], DistanceOf(rn[r[k]], f) >>
    <3>1. h = [k \in 1 .. l |-> << ts[r[k]], DistanceOf(rn[r[k]], f) >>]
      BY <1>4, <1>11
    <3> QED BY <2>5, <3>1
  <2>7. /\ \A k \in 1 .. l : << ts[q[k]], DistanceOf(z[q[k]], f) >> = h[k]
        /\ << ts[q[l + 1]], DistanceOf(z[q[l + 1]], f) >> = x
    <3>1. << ts[q[l + 1]], DistanceOf(z[q[l + 1]], f) >> = x
      BY <1>3, <2>2, <2>4
    <3>2. ASSUME NEW k \in 1 .. l PROVE << ts[q[k]], DistanceOf(z[q[k]], f) >> = h[k]
      <4>1. q[k] = r[k] /\ z[r[k]] = rn[r[k]]
        BY <1>10, <1>11, <2>2
      <4> QED BY <2>6, <4>1
    <3> QED BY <3>1, <3>2
  <2>8. /\ g \in [1 .. l + 1 -> H] /\ g[l + 1] = x /\ \A k \in 1 .. l : g[k] = h[k]
    <3>1. g = [k \in 1 .. l + 1 |-> << ts[q[k]], DistanceOf(z[q[k]], f) >>]
      BY <1>5, <2>2
    <3>2. \A k \in 1 .. l + 1 : k \in 1 .. l \/ k = l + 1
      OBVIOUS
    <3>3. \A k \in 1 .. l + 1 : << ts[q[k]], DistanceOf(z[q[k]], f) >> \in H
      BY <2>4, <2>6, <2>7, <3>2
    <3>4. \A k \in 1 .. l + 1 : g[k] = << ts[q[k]], DistanceOf(z[q[k]], f) >>
      BY <3>1
    <3>5. g \in [1 .. l + 1 -> H]
      BY <3>1, <3>3
    <3>6. l + 1 \in 1 .. l + 1 /\ \A k \in 1 .. l : k \in 1 .. l + 1
      OBVIOUS
    <3> QED BY <2>7, <3>4, <3>5, <3>6
  <2>9. h \in Seq(H) /\ Len(h) = l /\ g \in Seq(H) /\ Len(g) = l + 1
    <3>1. h \in Seq(H) /\ Len(h) = l
      <4>1. h \in [1 .. l -> H]
        BY <2>6
      <4> QED BY <4>1
    <3>2. PICK m \in Nat : m = l + 1
      OBVIOUS
    <3>3. g \in [1 .. m -> H]
      BY <2>8, <3>2
    <3>4. g \in Seq(H) /\ Len(g) = m
      BY <3>3
    <3> QED BY <3>1, <3>2, <3>4
  <2>10. PICK d \in Seq(H) : d = Append(h, x)
    BY <2>9, AppendProperties
  <2>11. Len(d) = l + 1 /\ d[l + 1] = x /\ \A k \in 1 .. l : d[k] = h[k]
    BY <2>9, <2>10
  <2>12. g = d
    <3>1. Len(g) = Len(d) /\ \A k \in 1 .. Len(g) : g[k] = d[k]
      <4>1. \A k \in 1 .. l + 1 : k \in 1 .. l \/ k = l + 1
        OBVIOUS
      <4> QED BY <2>8, <2>9, <2>11, <4>1
    <3> QED BY <2>9, <3>1, SeqEqual
  <2> QED BY <1>1, <1>12, <2>4, <2>10, <2>12, Zenon
<1>13. CASE ~Reaches(o, f)
  <2>1. q = r
    BY <1>7, <1>8, <1>9, <1>13
  <2>2. \A k \in 1 .. Len(r) : << ts[q[k]], DistanceOf(z[q[k]], f) >> =
                               << ts[r[k]], DistanceOf(rn[r[k]], f) >>
    BY <1>10, <2>1
  <2>3. g = h
    BY <1>4, <1>5, <2>1, <2>2, Zenon
  <2> QED BY <1>13, <2>3
<1> QED BY <1>12, <1>13

\* A concatenation with one element.
LEMMA ConcatOne ==
  ASSUME NEW X, NEW a \in Seq(X), NEW b \in Seq(X), Len(b) = 1
  PROVE  a \o b = Append(a, b[1])
<1>1. PICK c \in Seq(X) : c = a \o b
  BY ConcatProperties
<1>2. /\ Len(c) = Len(a) + 1 /\ c[Len(a) + 1] = b[1]
      /\ \A i \in 1 .. Len(a) : c[i] = a[i]
  <2>1. /\ Len(a \o b) = Len(a) + Len(b)
        /\ \A i \in 1 .. Len(a) + Len(b) :
             (a \o b)[i] = IF i <= Len(a) THEN a[i] ELSE b[i - Len(a)]
    BY ConcatProperties
  <2>2. PICK n \in Nat : n = Len(a)
    OBVIOUS
  <2>3. /\ Len(c) = n + 1
        /\ \A i \in 1 .. n + 1 : c[i] = IF i <= n THEN a[i] ELSE b[i - n]
    BY <1>1, <2>1, <2>2
  <2>4. c[n + 1] = b[1] /\ \A i \in 1 .. n : c[i] = a[i]
    BY <2>3
  <2> QED BY <2>2, <2>3, <2>4
<1>3. b[1] \in X
  OBVIOUS
<1>4. PICK d \in Seq(X) : d = Append(a, b[1])
  BY <1>3, AppendProperties
<1>5. /\ Len(d) = Len(a) + 1 /\ d[Len(a) + 1] = b[1]
      /\ \A i \in 1 .. Len(a) : d[i] = a[i]
  BY <1>3, <1>4
<1>6. PICK n \in Nat : n = Len(a)
  OBVIOUS
<1>7. ASSUME NEW i \in 1 .. n + 1 PROVE c[i] = d[i]
  <2>1. i = n + 1 \/ i \in 1 .. n
    OBVIOUS
  <2> QED BY <1>2, <1>5, <1>6, <2>1
<1>8. Len(c) = n + 1 /\ Len(d) = n + 1
  BY <1>2, <1>5, <1>6
<1>9. c = d
  BY <1>7, <1>8, SeqEqual
<1> QED BY <1>1, <1>4, <1>9, Zenon

\* ReachedBy before the first test.
LEMMA HitsByNone == \A ts, f : HitsBy(ts, << >>, f) = << >>
<1> TAKE ts, f
<1>1. << >> \in Seq({})
  OBVIOUS
<1>2. \E r : ReachedFrom(r, HitsBy(ts, << >>, f), ts, << >>, f)
  BY <1>1, ReachingIs
<1> QED BY <1>2, ReachingEmpty

\* ReachedBy after one more test.
LEMMA HitsByStep ==
  ASSUME NEW X, NEW rn \in Seq(X), NEW o \in X, NEW ts, NEW f
  PROVE  HitsBy(ts, Append(rn, o), f) =
           IF Reaches(o, f)
           THEN Append(HitsBy(ts, rn, f), << ts[Len(rn) + 1], DistanceOf(o, f) >>)
           ELSE HitsBy(ts, rn, f)
<1>1. PICK r : ReachedFrom(r, HitsBy(ts, rn, f), ts, rn, f)
  BY ReachingIs
<1>2. PICK z \in Seq(X) : z = Append(rn, o)
  BY AppendProperties
<1>3. PICK q : ReachedFrom(q, HitsBy(ts, z, f), ts, z, f)
  BY ReachingIs
<1>4. ReachedFrom(q, HitsBy(ts, z, f), ts, Append(rn, o), f)
  BY <1>2, <1>3, Zenon
<1>5. HitsBy(ts, z, f) =
        IF Reaches(o, f)
        THEN Append(HitsBy(ts, rn, f), << ts[Len(rn) + 1], DistanceOf(o, f) >>)
        ELSE HitsBy(ts, rn, f)
  BY <1>1, <1>4, ReachingStep
<1> QED BY <1>2, <1>5, Zenon

-----------------------------------------------------------------------------
(* mergeReachableFunctions and filterFunctions.                            *)

\* There is one first position.
LEMMA FirstIs ==
  ASSUME NEW q \in Seq(ReachedFn), NEW i, NEW f, IsFirst(q, i, f)
  PROVE  First(q, f) = i
<1>1. DOMAIN q = 1 .. Len(q) /\ Len(q) \in Nat
  BY LenProperties
<1>2. PICK k : k = First(q, f)
  OBVIOUS
<1>3. i \in 1 .. Len(q) /\ q[i].fn = f /\ \A j \in 1 .. i - 1 : q[j].fn # f
  BY DEF IsFirst
<1>4. i \in DOMAIN q
  BY <1>1, <1>3, Zenon
<1>5. k \in DOMAIN q /\ q[k].fn = f /\ \A j \in 1 .. k - 1 : q[j].fn # f
  BY <1>2, <1>3, <1>4, Zenon DEF First
<1>6. k \in 1 .. Len(q)
  BY <1>1, <1>5, Zenon
<1>7. k = i
  BY <1>1, <1>3, <1>5, <1>6
<1> QED BY <1>2, <1>7

\* A function that is reached has a first position.
LEMMA FirstExists ==
  ASSUME NEW q \in Seq(ReachedFn), NEW f, IsReached(q, f)
  PROVE  IsFirst(q, First(q, f), f)
<1> DEFINE T == {i \in 1 .. Len(q) : q[i].fn = f}
<1>1. Len(q) \in Nat
  OBVIOUS
<1>2. T \in SUBSET Nat /\ T # {}
  BY <1>1 DEF IsReached
<1>3. PICK i \in T : \A j \in T : i <= j
  BY <1>2, LeastNatural
<1>4. IsFirst(q, i, f)
  BY <1>1, <1>3 DEF IsFirst
<1> QED BY <1>4, FirstIs

\* The next entry of reachableFunctions.
LEMMA MergeOne ==
  ASSUME NEW q \in Seq(ReachedFn), NEW n \in Nat, n + 1 <= Len(q),
         NEW u \in Seq(UnderTest), UnderIs(u, q, n, Fn),
         \A a \in 1 .. Len(u) : u[a].selected = << >>
  PROVE  LET v == AddReachable(u, q[n + 1])
         IN  /\ v \in Seq(UnderTest) /\ UnderIs(v, q, n + 1, Fn)
             /\ \A a \in 1 .. Len(v) : v[a].selected = << >>
<1>1. PICK r \in ReachedFn : r = q[n + 1]
  OBVIOUS
<1>2. PICK p \in Seq(ReachedFn) : p = SubSeq(q, 1, n)
  <2>1. 1 \in Int /\ n \in Int /\ \A i \in 1 .. n : q[i] \in ReachedFn
    OBVIOUS
  <2> QED BY <2>1, SubSeqProperties
<1>3. SubSeq(q, 1, n + 1) = Append(p, r)
  <2>1. /\ 1 \in 1 .. Len(q) /\ n + 1 \in 1 .. Len(q) /\ (n + 1) - 1 = n
    OBVIOUS
  <2>2. SubSeq(q, 1, n + 1) = SubSeq(q, 1, (n + 1) - 1) \o << q[n + 1] >>
    BY <2>1, SubSeqRecursiveSecond
  <2>3. Append(p, r) = p \o << r >>
    BY AppendIsConcat
  <2> QED BY <1>1, <1>2, <2>1, <2>2, <2>3, Zenon
<1>4. PICK x \in Hits : x = << r.test, r.distance >>
  BY DEF ReachedFn, Hits
<1>5. \A f : HitsIn(SubSeq(q, 1, n + 1), f) =
               IF r.fn = f THEN Append(HitsIn(p, f), x) ELSE HitsIn(p, f)
  <2> TAKE f
  <2>1. HitsIn(Append(p, r), f) =
          IF r.fn = f THEN Append(HitsIn(p, f), << r.test, r.distance >>) ELSE HitsIn(p, f)
    BY HitsAppend
  <2> QED BY <1>3, <1>4, <2>1, Zenon
<1>6. PICK m \in Nat : m = Len(u) /\ DOMAIN u = 1 .. m
  BY LenProperties
<1>7. /\ \A a \in 1 .. m :
           /\ First(q, u[a].fn) \in 1 .. n /\ IsFirst(q, First(q, u[a].fn), u[a].fn)
           /\ u[a].fn \in Fn /\ u[a].tests = HitsIn(p, u[a].fn)
      /\ \A a, b \in 1 .. m : a < b => First(q, u[a].fn) < First(q, u[b].fn)
      /\ \A i \in 1 .. n : q[i].fn \in Fn => \E a \in 1 .. m : u[a].fn = q[i].fn
  BY <1>2, <1>6 DEF UnderIs
<1>8. /\ \A a \in 1 .. m : u[a] \in UnderTest /\ u[a].selected = << >>
      /\ Defined \subseteq Fn
  BY <1>6 DEF Defined
<1>9. CASE \E i \in DOMAIN u : u[i].fn = r.fn
  <2> DEFINE W(a) == IF u[a].fn = r.fn THEN [u[a] EXCEPT !.tests = Append(@, x)] ELSE u[a]
  <2>1. PICK v : v = [a \in 1 .. m |-> W(a)]
    OBVIOUS
  <2>2. v = AddReachable(u, q[n + 1])
    BY <1>1, <1>4, <1>6, <1>9, <2>1, Zenon DEF AddReachable
  <2>3. ASSUME NEW a \in 1 .. m
        PROVE  /\ v[a] \in UnderTest /\ v[a].fn = u[a].fn /\ v[a].selected = << >>
               /\ v[a].tests = HitsIn(SubSeq(q, 1, n + 1), u[a].fn)
    <3>1. v[a] = W(a)
      BY <2>1
    <3>2. u[a] \in UnderTest /\ u[a].selected = << >> /\ u[a].tests = HitsIn(p, u[a].fn)
      BY <1>7, <1>8
    <3>3. CASE u[a].fn = r.fn
      <4>1. v[a] = [u[a] EXCEPT !.tests = Append(u[a].tests, x)]
        BY <3>1, <3>3
      <4>2. PICK t \in Seq(Hits) : t = Append(u[a].tests, x)
        BY <3>2, AppendProperties DEF UnderTest
      <4>3. /\ v[a] \in UnderTest /\ v[a].fn = u[a].fn /\ v[a].selected = u[a].selected
            /\ v[a].tests = t
        BY <3>2, <4>1, <4>2 DEF UnderTest
      <4>4. HitsIn(SubSeq(q, 1, n + 1), u[a].fn) = Append(HitsIn(p, u[a].fn), x)
        BY <1>5, <3>3
      <4> QED BY <3>2, <4>2, <4>3, <4>4
    <3>4. CASE u[a].fn # r.fn
      <4>1. v[a] = u[a]
        BY <3>1, <3>4
      <4>2. HitsIn(SubSeq(q, 1, n + 1), u[a].fn) = HitsIn(p, u[a].fn)
        BY <1>5, <3>4
      <4> QED BY <3>2, <4>1, <4>2
    <3> QED BY <3>3, <3>4
  <2> HIDE DEF W
  <2>4. v \in [1 .. m -> UnderTest]
    BY <2>1, <2>3
  <2>5. v \in Seq(UnderTest) /\ Len(v) = m
    BY <2>4
  <2>6. ASSUME NEW i \in 1 .. n + 1, q[i].fn \in Fn
        PROVE  \E a \in 1 .. m : v[a].fn = q[i].fn
    <3>1. CASE i \in 1 .. n
      BY <1>7, <2>3, <2>6, <3>1
    <3>2. CASE i = n + 1
      <4>1. PICK a \in DOMAIN u : u[a].fn = r.fn
        BY <1>9
      <4>2. a \in 1 .. m
        BY <1>6, <4>1, Zenon
      <4> QED BY <1>1, <2>3, <3>2, <4>1, <4>2
    <3> QED BY <3>1, <3>2
  <2>7. \A a \in 1 .. m : First(q, v[a].fn) \in 1 .. n + 1
    <3>1. \A a \in 1 .. m : First(q, u[a].fn) \in 1 .. n + 1
      BY <1>7
    <3> QED BY <2>3, <3>1
  <2>8. UnderIs(v, q, n + 1, Fn)
    BY <1>7, <2>3, <2>5, <2>6, <2>7 DEF UnderIs
  <2> QED BY <2>2, <2>3, <2>5, <2>8
<1>10. CASE ~ \E i \in DOMAIN u : u[i].fn = r.fn
  <2>1. \A a \in 1 .. m : u[a].fn # r.fn
    BY <1>6, <1>10, Zenon
  <2>2. r.fn \in Defined /\ r.fn \in Fn
    BY <1>8 DEF ReachedFn
  <2>3. \A i \in 1 .. n : q[i].fn # r.fn
    BY <1>7, <2>1, <2>2
  <2>4. IsFirst(q, n + 1, r.fn)
    BY <1>1, <2>3 DEF IsFirst
  <2>5. First(q, r.fn) = n + 1
    BY <2>4, FirstIs
  <2>6. HitsIn(p, r.fn) = << >>
    <3>1. Len(p) = n /\ \A i \in 1 .. n : p[i] = q[i]
      BY <1>2
    <3>2. \A i \in 1 .. Len(p) : p[i].fn # r.fn
      BY <2>3, <3>1
    <3> QED BY <3>2, HitsOfOne
  <2>7. HitsIn(SubSeq(q, 1, n + 1), r.fn) = Append(<< >>, x)
    BY <1>5, <2>6
  <2>8. PICK t \in Seq(Hits) : t = << x >> /\ t = Append(<< >>, x)
    <3>1. << >> \in Seq(Hits)
      OBVIOUS
    <3>2. Append(<< >>, x) \in Seq(Hits) /\ Append(<< >>, x) = << x >>
      BY <3>1, AppendProperties
    <3> QED BY <3>2
  <2>9. PICK e \in UnderTest : e = [fn |-> r.fn, tests |-> t, selected |-> << >>]
    <3>1. << >> \in Seq(Instruction)
      OBVIOUS
    <3> QED BY <2>2, <3>1 DEF UnderTest
  <2>10. PICK v \in Seq(UnderTest) : v = Append(u, e)
    BY AppendProperties
  <2>11. v = AddReachable(u, q[n + 1])
    BY <1>1, <1>4, <1>10, <2>8, <2>9, <2>10, Zenon DEF AddReachable
  <2>12. Len(v) = m + 1 /\ v[m + 1] = e /\ \A a \in 1 .. m : v[a] = u[a]
    BY <1>6, <2>10
  <2>13. e.fn = r.fn /\ e.tests = HitsIn(SubSeq(q, 1, n + 1), r.fn) /\ e.selected = << >>
    BY <2>7, <2>8, <2>9
  <2>14. ASSUME NEW a \in 1 .. m + 1
         PROVE  /\ First(q, v[a].fn) \in 1 .. n + 1 /\ IsFirst(q, First(q, v[a].fn), v[a].fn)
                /\ v[a].fn \in Fn /\ v[a].tests = HitsIn(SubSeq(q, 1, n + 1), v[a].fn)
                /\ v[a].selected = << >>
    <3>1. CASE a \in 1 .. m
      <4>1. v[a] = u[a] /\ First(q, u[a].fn) \in 1 .. n + 1
        BY <1>7, <2>12, <3>1
      <4>2. u[a].tests = HitsIn(SubSeq(q, 1, n + 1), u[a].fn)
        BY <1>5, <1>7, <2>1, <3>1
      <4> QED BY <1>7, <1>8, <3>1, <4>1, <4>2
    <3>2. CASE a = m + 1
      <4>1. v[a] = e /\ n + 1 \in 1 .. n + 1
        BY <2>12, <3>2
      <4> QED BY <2>2, <2>4, <2>5, <2>13, <4>1
    <3> QED BY <3>1, <3>2
  <2>15. ASSUME NEW a \in 1 .. m + 1, NEW b \in 1 .. m + 1, a < b
         PROVE  First(q, v[a].fn) < First(q, v[b].fn)
    <3>1. a \in 1 .. m
      BY <2>15
    <3>2. CASE b \in 1 .. m
      BY <1>7, <2>12, <2>15, <3>1, <3>2
    <3>3. CASE b = m + 1
      <4>1. First(q, v[b].fn) = n + 1
        BY <2>5, <2>12, <2>13, <3>3
      <4>2. First(q, v[a].fn) \in 1 .. n
        BY <1>7, <2>12, <3>1
      <4> QED BY <4>1, <4>2
    <3> QED BY <3>2, <3>3
  <2>16. ASSUME NEW i \in 1 .. n + 1, q[i].fn \in Fn
         PROVE  \E a \in 1 .. m + 1 : v[a].fn = q[i].fn
    <3>1. CASE i \in 1 .. n
      <4>1. PICK a \in 1 .. m : u[a].fn = q[i].fn
        BY <1>7, <2>16, <3>1
      <4>2. a \in 1 .. m + 1 /\ v[a].fn = q[i].fn
        BY <2>12, <4>1
      <4> QED BY <4>2
    <3>2. CASE i = n + 1
      <4>1. m + 1 \in 1 .. m + 1 /\ v[m + 1].fn = q[i].fn
        BY <1>1, <2>12, <2>13, <3>2
      <4> QED BY <4>1
    <3> QED BY <3>1, <3>2
  <2>17. UnderIs(v, q, n + 1, Fn)
    BY <2>12, <2>14, <2>15, <2>16 DEF UnderIs
  <2> QED BY <2>11, <2>12, <2>14, <2>17
<1> QED BY <1>9, <1>10

\* K picks the entries of u whose functions are in T.
PicksFunctions(K, u, T) == \A a \in 1 .. Len(u) : u[a] \in K <=> u[a].fn \in T

\* v has entries of u.
DrawnFrom(v, u) == \A b \in 1 .. Len(v) : \E a \in 1 .. Len(u) : v[b] = u[a]

\* A filter over functionsUnderTest.
LEMMA UnderKeep ==
  ASSUME NEW q, NEW n \in Nat, NEW S, NEW T, T \subseteq S,
         NEW u \in Seq(UnderTest), UnderIs(u, q, n, S),
         NEW K, PicksFunctions(K, u, T)
  PROVE  /\ Keep(u, K) \in Seq(UnderTest) /\ UnderIs(Keep(u, K), q, n, T)
         /\ DrawnFrom(Keep(u, K), u)
<1>1. \A a \in 1 .. Len(u) : u[a] \in K <=> u[a].fn \in T
  BY DEF PicksFunctions
<1>2. PICK v \in Seq(UnderTest) : v = Keep(u, K)
  BY KeepPicks
<1>3. PICK g : Picks(g, v, u, K, Len(u))
  BY <1>2, KeepPicks
<1>4. Len(u) \in Nat /\ Len(v) \in Nat
  OBVIOUS
<1>5. /\ \A b \in 1 .. Len(v) : g[b] \in 1 .. Len(u) /\ v[b] = u[g[b]] /\ u[g[b]] \in K
      /\ \A b, c \in 1 .. Len(v) : b < c => g[b] < g[c]
      /\ \A a \in 1 .. Len(u) : u[a] \in K => \E b \in 1 .. Len(v) : g[b] = a
  BY <1>3 DEF Picks
<1>6. /\ \A a \in 1 .. Len(u) :
           /\ First(q, u[a].fn) \in 1 .. n /\ IsFirst(q, First(q, u[a].fn), u[a].fn)
           /\ u[a].fn \in S /\ u[a].tests = HitsIn(SubSeq(q, 1, n), u[a].fn)
      /\ \A a, b \in 1 .. Len(u) : a < b => First(q, u[a].fn) < First(q, u[b].fn)
      /\ \A i \in 1 .. n : q[i].fn \in S => \E a \in 1 .. Len(u) : u[a].fn = q[i].fn
  BY DEF UnderIs
<1>7. ASSUME NEW b \in 1 .. Len(v)
      PROVE  /\ First(q, v[b].fn) \in 1 .. n /\ IsFirst(q, First(q, v[b].fn), v[b].fn)
             /\ v[b].fn \in T /\ v[b].tests = HitsIn(SubSeq(q, 1, n), v[b].fn)
  BY <1>1, <1>5, <1>6
<1>8. ASSUME NEW b \in 1 .. Len(v), NEW c \in 1 .. Len(v), b < c
      PROVE  First(q, v[b].fn) < First(q, v[c].fn)
  <2>1. g[b] \in 1 .. Len(u) /\ g[c] \in 1 .. Len(u) /\ g[b] < g[c]
    BY <1>5, <1>8
  <2> QED BY <1>5, <1>6, <2>1
<1>9. ASSUME NEW i \in 1 .. n, q[i].fn \in T
      PROVE  \E b \in 1 .. Len(v) : v[b].fn = q[i].fn
  <2>1. PICK a \in 1 .. Len(u) : u[a].fn = q[i].fn
    BY <1>6, <1>9
  <2>2. PICK b \in 1 .. Len(v) : g[b] = a
    BY <1>1, <1>5, <1>9, <2>1
  <2> QED BY <1>5, <2>1, <2>2
<1>10. UnderIs(v, q, n, T)
  BY <1>7, <1>8, <1>9 DEF UnderIs
<1>11. DrawnFrom(v, u)
  BY <1>5 DEF DrawnFrom
<1> QED BY <1>2, <1>10, <1>11

-----------------------------------------------------------------------------
(* SearchMutationPointsTask and filterMutations.                           *)

\* A filter over mutationPoints.
LEMMA PointsKeep ==
  ASSUME NEW q, NEW W, NEW Z, Z \subseteq W,
         NEW p \in Seq(MutationPoint), PointsAre(p, q, W),
         NEW K, \A i \in 1 .. Len(p) : p[i] \in K <=> << p[i].fn, Key(p[i]) >> \in Z,
         \A w \in Z : w = << w[1], w[2] >>
  PROVE  Keep(p, K) \in Seq(MutationPoint) /\ PointsAre(Keep(p, K), q, Z)
<1>1. PICK r \in Seq(MutationPoint) : r = Keep(p, K)
  BY KeepPicks
<1>2. PICK g : Picks(g, r, p, K, Len(p))
  BY <1>1, KeepPicks
<1>3. Len(p) \in Nat /\ Len(r) \in Nat
  OBVIOUS
<1>4. /\ \A b \in 1 .. Len(r) : g[b] \in 1 .. Len(p) /\ r[b] = p[g[b]] /\ p[g[b]] \in K
      /\ \A b, c \in 1 .. Len(r) : b < c => g[b] < g[c]
      /\ \A a \in 1 .. Len(p) : p[a] \in K => \E b \in 1 .. Len(r) : g[b] = a
  BY <1>2 DEF Picks
<1>5. /\ \A i \in 1 .. Len(p) :
           /\ << p[i].fn, Key(p[i]) >> \in W /\ IsReached(q, p[i].fn)
           /\ p[i].tests = HitsIn(q, p[i].fn)
      /\ \A w \in W :
           IsReached(q, w[1]) => \E i \in 1 .. Len(p) : Key(p[i]) = w[2] /\ p[i].fn = w[1]
      /\ \A i, j \in 1 .. Len(p) : Key(p[i]) = Key(p[j]) => i = j
      /\ \A i, j \in 1 .. Len(p) : i < j => First(q, p[i].fn) <= First(q, p[j].fn)
  BY DEF PointsAre, OrderIs
<1>6. ASSUME NEW i \in 1 .. Len(r)
      PROVE  /\ << r[i].fn, Key(r[i]) >> \in Z /\ IsReached(q, r[i].fn)
             /\ r[i].tests = HitsIn(q, r[i].fn)
  <2>1. g[i] \in 1 .. Len(p) /\ r[i] = p[g[i]] /\ p[g[i]] \in K
    BY <1>4
  <2> QED BY <1>5, <2>1
<1>7. ASSUME NEW w \in Z, IsReached(q, w[1])
      PROVE  \E i \in 1 .. Len(r) : Key(r[i]) = w[2] /\ r[i].fn = w[1]
  <2>1. PICK i \in 1 .. Len(p) : Key(p[i]) = w[2] /\ p[i].fn = w[1]
    BY <1>5, <1>7
  <2>2. << p[i].fn, Key(p[i]) >> = w
    BY <2>1, Zenon
  <2>3. p[i] \in K
    BY <2>2
  <2>4. PICK b \in 1 .. Len(r) : g[b] = i
    BY <1>4, <2>3
  <2>5. r[b] = p[i]
    BY <1>4, <2>4
  <2> QED BY <2>1, <2>4, <2>5
<1>8. ASSUME NEW i \in 1 .. Len(r), NEW j \in 1 .. Len(r), Key(r[i]) = Key(r[j])
      PROVE  i = j
  <2>1. g[i] \in 1 .. Len(p) /\ g[j] \in 1 .. Len(p) /\ r[i] = p[g[i]] /\ r[j] = p[g[j]]
    BY <1>4
  <2>2. g[i] = g[j]
    BY <1>5, <1>8, <2>1
  <2>3. (i < j => g[i] < g[j]) /\ (j < i => g[j] < g[i])
    BY <1>4
  <2> QED BY <1>3, <2>1, <2>2, <2>3
<1>9. ASSUME NEW i \in 1 .. Len(r), NEW j \in 1 .. Len(r), i < j
      PROVE  First(q, r[i].fn) <= First(q, r[j].fn)
  <2>1. /\ g[i] \in 1 .. Len(p) /\ g[j] \in 1 .. Len(p) /\ r[i] = p[g[i]] /\ r[j] = p[g[j]]
        /\ g[i] < g[j]
    BY <1>4, <1>9
  <2> QED BY <1>5, <2>1
<1>10. PointsAre(r, q, Z)
  BY <1>6, <1>7, <1>8, <1>9 DEF PointsAre, OrderIs
<1> QED BY <1>1, <1>10

\* What the assumptions say of one mutation.
LEMMA MutationIs ==
  ASSUME NEW k \in CanMutate
  PROVE  /\ k = << k[1], k[2], k[3] >> /\ k[1] \in Range(Mutators) /\ k[2] \in Instruction
         /\ k[3] \in Range(LowLevel[k[1]])
<1>1. PICK m \in Range(Mutators) : k \in {m} \X Instruction \X Range(LowLevel[m])
  BY DriverAssumption
<1>2. k = << k[1], k[2], k[3] >> /\ k[1] = m /\ k[2] \in Instruction
      /\ k[3] \in Range(LowLevel[m])
  BY <1>1
<1> QED BY <1>1, <1>2

\* Getting the mutations of one instruction by one mutator.
LEMMA MutationsAre ==
  ASSUME NEW u \in UnderTest, NEW m \in Range(Mutators), NEW x \in Instruction
  PROVE  \E p \in Seq(MutationPoint) :
           /\ p = Mutations(m, x, u)
           /\ \A i \in 1 .. Len(p) :
                /\ p[i].fn = u.fn /\ p[i].tests = u.tests /\ p[i].mutator = m
                /\ p[i].instruction = x
                /\ << m, x, p[i].change >> \in CanMutate
           /\ \A i, j \in 1 .. Len(p) : p[i].change = p[j].change => i = j
           /\ \A g : << m, x, g >> \in CanMutate => \E i \in 1 .. Len(p) : p[i].change = g
<1>1. PICK X : X = Range(LowLevel[m])
  OBVIOUS
<1>2. PICK s \in Seq(X) : s = LowLevel[m] /\ IsInjective(s)
  BY <1>1, DriverAssumption
<1>3. PICK C : C = {c \in X : << m, x, c >> \in CanMutate}
  OBVIOUS
<1>4. PICK k \in Seq(X) : k = Keep(s, C)
  BY KeepPicks
<1>5. /\ Range(k) = Range(s) \cap C
      /\ \A j \in 1 .. Len(k) : k[j] \in Range(s) \cap C
  BY <1>4, KeepRange
<1>6. \A i, j \in 1 .. Len(k) : k[i] = k[j] => i = j
  <2>1. DOMAIN s = 1 .. Len(s)
    BY LenProperties
  <2>2. \A i, j \in 1 .. Len(s) : s[i] = s[j] => i = j
    BY <1>2, <2>1, Zenon DEF IsInjective
  <2>3. \A i, j \in 1 .. Len(Keep(s, C)) : Keep(s, C)[i] = Keep(s, C)[j] => i = j
    BY <2>2, KeepInjective
  <2> QED BY <1>4, <2>3, Zenon
<1>7. PICK l \in Nat : l = Len(k) /\ DOMAIN k = 1 .. l
  BY LenProperties
<1> DEFINE e(i) == [mutator |-> m, instruction |-> x, change |-> k[i], fn |-> u.fn,
                    tests |-> u.tests]
<1>8. PICK p : p = [i \in DOMAIN k |-> e(i)]
  OBVIOUS
<1>9. p = Mutations(m, x, u)
  BY <1>1, <1>2, <1>3, <1>4, <1>8, Zenon DEF Mutations
<1>10. X \subseteq Change
  BY <1>1 DEF Change
<1>11. ASSUME NEW i \in 1 .. l
       PROVE  /\ p[i] = e(i) /\ e(i) \in MutationPoint
              /\ p[i].fn = u.fn /\ p[i].tests = u.tests /\ p[i].mutator = m
              /\ p[i].instruction = x /\ p[i].change = k[i]
  <2>1. i \in DOMAIN k
    BY <1>7, Zenon
  <2>2. p[i] = e(i)
    BY <1>8, <2>1, Zenon
  <2>3. k[i] \in Change /\ u.fn \in Defined /\ u.tests \in Seq(Hits)
    BY <1>7, <1>10 DEF UnderTest
  <2>4. e(i) \in MutationPoint
    BY <2>3 DEF MutationPoint
  <2> QED BY <2>2, <2>4
<1>12. p \in Seq(MutationPoint) /\ Len(p) = l
  <2>1. p = [i \in 1 .. l |-> e(i)]
    BY <1>7, <1>8, Zenon
  <2>2. \A i \in 1 .. l : e(i) \in MutationPoint
    BY <1>11
  <2> HIDE DEF e
  <2>3. p \in [1 .. l -> MutationPoint]
    BY <2>1, <2>2
  <2> QED BY <2>3
<1>13. ASSUME NEW i \in 1 .. Len(p)
       PROVE  /\ p[i].fn = u.fn /\ p[i].tests = u.tests /\ p[i].mutator = m
              /\ p[i].instruction = x /\ << m, x, p[i].change >> \in CanMutate
  <2>1. i \in 1 .. l /\ k[i] \in C
    BY <1>5, <1>7, <1>12
  <2>2. << m, x, k[i] >> \in CanMutate
    BY <1>3, <2>1
  <2> QED BY <1>11, <2>1, <2>2
<1>14. ASSUME NEW i \in 1 .. Len(p), NEW j \in 1 .. Len(p), p[i].change = p[j].change
       PROVE  i = j
  <2>1. i \in 1 .. l /\ j \in 1 .. l
    BY <1>12
  <2>2. k[i] = k[j]
    BY <1>11, <1>14, <2>1
  <2> QED BY <1>6, <1>7, <2>1, <2>2
<1>15. ASSUME NEW g, << m, x, g >> \in CanMutate
       PROVE  \E i \in 1 .. Len(p) : p[i].change = g
  <2>1. g \in X
    <3>1. PICK y \in CanMutate : y = << m, x, g >>
      BY <1>15
    <3>2. y[3] \in Range(LowLevel[y[1]])
      BY MutationIs
    <3>3. y[3] = g /\ y[1] = m
      BY <3>1
    <3> QED BY <1>1, <3>2, <3>3
  <2>2. g \in Range(s) /\ g \in C
    BY <1>1, <1>2, <1>3, <1>15, <2>1
  <2>3. g \in Range(k)
    BY <1>5, <2>2
  <2>4. PICK i \in DOMAIN k : g = k[i]
    BY <2>3 DEF Range
  <2>5. i \in 1 .. l
    BY <1>7, <2>4, Zenon
  <2> QED BY <1>11, <1>12, <2>4, <2>5
<1> QED BY <1>9, <1>12, <1>13, <1>14, <1>15

\* The instructions that are selected in a function under test.
SelectedIs(u) ==
  \A a \in 1 .. Len(u) : u[a].selected = Keep(Instructions[u[a].fn], Located)

\* They are instructions of that function with a location, each once.
LEMMA SelectedAre ==
  ASSUME NEW u \in Seq(UnderTest), SelectedIs(u), NEW a \in 1 .. Len(u)
  PROVE  /\ u[a] \in UnderTest /\ u[a].fn \in Fn
         /\ Range(u[a].selected) = Range(Instructions[u[a].fn]) \cap Located
         /\ \A i, j \in 1 .. Len(u[a].selected) :
              u[a].selected[i] = u[a].selected[j] => i = j
<1>1. u[a] \in UnderTest
  OBVIOUS
<1>2. PICK f \in Fn : f = u[a].fn
  BY <1>1 DEF UnderTest, Defined
<1>3. PICK s \in Seq(Instruction) : s = Instructions[f] /\ IsInjective(s)
  BY DriverAssumption
<1>4. u[a].selected = Keep(s, Located)
  BY <1>2, <1>3 DEF SelectedIs
<1>5. Range(Keep(s, Located)) = Range(s) \cap Located
  BY KeepRange
<1>6. DOMAIN s = 1 .. Len(s)
  BY LenProperties
<1>7. \A i, j \in 1 .. Len(s) : s[i] = s[j] => i = j
  BY <1>3, <1>6, Zenon DEF IsInjective
<1>8. \A i, j \in 1 .. Len(Keep(s, Located)) :
        Keep(s, Located)[i] = Keep(s, Located)[j] => i = j
  BY <1>7, KeepInjective
<1>9. Range(u[a].selected) = Range(Instructions[u[a].fn]) \cap Located
  BY <1>2, <1>3, <1>4, <1>5, Zenon
<1>10. \A i, j \in 1 .. Len(u[a].selected) : u[a].selected[i] = u[a].selected[j] => i = j
  BY <1>4, <1>8, Zenon
<1> QED BY <1>1, <1>2, <1>9, <1>10

\* The next instruction for the next mutator and function.
LEMMA SearchOne ==
  ASSUME NEW q \in Seq(ReachedFn), NEW S,
         NEW u \in Seq(UnderTest), UnderIs(u, q, Len(q), S), SelectedIs(u),
         NEW p \in Seq(MutationPoint), NEW b \in 1 .. Len(u), NEW d \in 1 .. Len(Mutators),
         NEW z \in 1 .. Len(u[b].selected),
         SearchIs(p, u, b, d, z), OrderIs(p, q)
  PROVE  LET r == p \o Mutations(Mutators[d], u[b].selected[z], u[b])
         IN  r \in Seq(MutationPoint) /\ SearchIs(r, u, b, d, z + 1) /\ OrderIs(r, q)
<1>1. /\ Len(Mutators) \in Nat /\ Mutators[d] \in Range(Mutators)
      /\ \A c \in 1 .. Len(Mutators) : Mutators[c] = Mutators[d] => c = d
  <2>1. Mutators \in Seq(Range(Mutators)) /\ IsInjective(Mutators)
    BY DriverAssumption
  <2>2. DOMAIN Mutators = 1 .. Len(Mutators) /\ Len(Mutators) \in Nat
    BY <2>1, LenProperties
  <2>3. \A c \in 1 .. Len(Mutators) : Mutators[c] = Mutators[d] => c = d
    BY <2>1, <2>2, Zenon DEF IsInjective
  <2>4. Mutators[d] \in Range(Mutators)
    BY <2>2, Zenon DEF Range
  <2> QED BY <2>2, <2>3, <2>4
<1>2. PICK m \in Range(Mutators) : m = Mutators[d]
  BY <1>1
<1>3. PICK w \in UnderTest : w = u[b]
  OBVIOUS
<1>16. /\ \A a \in 1 .. Len(u) : u[a].selected \in Seq(Instruction) /\ Len(u[a].selected) \in Nat
       /\ \A a \in 1 .. Len(u) : \A i, j \in 1 .. Len(u[a].selected) :
            u[a].selected[i] = u[a].selected[j] => i = j
       /\ \A a \in 1 .. Len(u) : \A i \in 1 .. Len(u[a].selected) :
            u[a].selected[i] \in Range(Instructions[u[a].fn])
  <2> SUFFICES ASSUME NEW a \in 1 .. Len(u)
               PROVE  /\ u[a].selected \in Seq(Instruction) /\ Len(u[a].selected) \in Nat
                      /\ \A i, j \in 1 .. Len(u[a].selected) :
                           u[a].selected[i] = u[a].selected[j] => i = j
                      /\ \A i \in 1 .. Len(u[a].selected) :
                           u[a].selected[i] \in Range(Instructions[u[a].fn])
    OBVIOUS
  <2>1. u[a] \in UnderTest
    OBVIOUS
  <2>2. PICK t \in Seq(Instruction) : t = u[a].selected
    BY <2>1 DEF UnderTest
  <2>3. DOMAIN t = 1 .. Len(t) /\ Len(t) \in Nat
    BY LenProperties
  <2>4. \A i \in 1 .. Len(t) : t[i] \in Range(t)
    BY <2>3, Zenon DEF Range
  <2>5. Range(u[a].selected) = Range(Instructions[u[a].fn]) \cap Located
    BY SelectedAre
  <2>6. \A i, j \in 1 .. Len(u[a].selected) : u[a].selected[i] = u[a].selected[j] => i = j
    BY SelectedAre
  <2>7. \A i \in 1 .. Len(t) : t[i] \in Range(Instructions[u[a].fn])
    BY <2>2, <2>4, <2>5
  <2> QED BY <2>2, <2>3, <2>6, <2>7, Zenon
<1>17. PICK y \in Instruction : y = u[b].selected[z]
  BY <1>16
<1>4. PICK e \in Seq(MutationPoint) :
        /\ e = Mutations(m, y, w)
        /\ \A i \in 1 .. Len(e) :
             /\ e[i].fn = w.fn /\ e[i].tests = w.tests /\ e[i].mutator = m
             /\ e[i].instruction = y /\ << m, y, e[i].change >> \in CanMutate
        /\ \A i, j \in 1 .. Len(e) : e[i].change = e[j].change => i = j
        /\ \A g : << m, y, g >> \in CanMutate => \E i \in 1 .. Len(e) : e[i].change = g
  BY MutationsAre
<1>5. PICK k \in Nat, l \in Nat : k = Len(p) /\ l = Len(e)
  OBVIOUS
<1>6. PICK r \in Seq(MutationPoint) : r = p \o e
  BY ConcatProperties
<1>7. /\ Len(r) = k + l /\ \A i \in 1 .. k : r[i] = p[i]
      /\ \A i \in 1 .. l : r[k + i] = e[i]
  BY <1>5, <1>6
<1>8. \A i \in 1 .. k + l : i \in 1 .. k \/ \E j \in 1 .. l : i = k + j
  <2> TAKE i \in 1 .. k + l
  <2>1. CASE i <= k
    BY <2>1
  <2>2. CASE i > k
    <3>1. i - k \in 1 .. l /\ i = k + (i - k)
      BY <2>2
    <3> QED BY <3>1
  <2> QED BY <2>1, <2>2
<1>9. /\ \A a \in 1 .. Len(u) : First(q, u[a].fn) \in Nat /\ u[a].fn \in Fn
      /\ \A a, c \in 1 .. Len(u) : a < c => First(q, u[a].fn) < First(q, u[c].fn)
  <2>1. Len(q) \in Nat
    OBVIOUS
  <2>2. \A a \in 1 .. Len(u) : First(q, u[a].fn) \in 1 .. Len(q)
    BY DEF UnderIs
  <2>3. \A a \in 1 .. Len(u) : u[a].fn \in Fn
    BY SelectedAre
  <2>4. \A a, c \in 1 .. Len(u) : a < c => First(q, u[a].fn) < First(q, u[c].fn)
    BY DEF UnderIs
  <2> QED BY <2>1, <2>2, <2>3, <2>4
<1>10. \A i \in 1 .. l : Key(e[i]) = << m, y, e[i].change >>
  BY <1>4, <1>5 DEF Key
\* Where an earlier point comes from.
<1>11. ASSUME NEW i \in 1 .. k PROVE ComesFrom(p[i], u, b, d, z)
  BY <1>5 DEF SearchIs
<1>12. ASSUME NEW i \in 1 .. k, NEW j \in 1 .. l PROVE Key(p[i]) # Key(e[j])
  <2> SUFFICES ASSUME Key(p[i]) = Key(e[j]) PROVE FALSE
    OBVIOUS
  <2>1. PICK a \in 1 .. Len(u), c \in 1 .. Len(Mutators) :
          \E f \in 1 .. Len(u[a].selected) :
             /\ Searched(a, c, f, b, d, z) /\ p[i].instruction = u[a].selected[f]
             /\ p[i].mutator = Mutators[c]
    BY <1>11, Zenon DEF ComesFrom
  <2>2. PICK f \in 1 .. Len(u[a].selected) :
          /\ Searched(a, c, f, b, d, z) /\ p[i].instruction = u[a].selected[f]
          /\ p[i].mutator = Mutators[c]
    BY <2>1
  <2>3. p[i].mutator = m /\ p[i].instruction = y
    BY <1>10 DEF Key
  <2>4. c = d
    BY <1>1, <1>2, <2>2, <2>3
  <2>5. a < b \/ (a = b /\ f < z)
    BY <1>1, <2>2, <2>4 DEF Searched
  <2>6. CASE a = b /\ f < z
    <3>1. f = z
      BY <1>16, <1>17, <2>2, <2>3, <2>6
    <3> QED BY <1>16, <2>6, <3>1
  <2>7. CASE a < b
    <3>3. u[a].selected[f] \in Range(Instructions[u[a].fn])
      BY <1>16
    <3>4. u[b].selected[z] \in Range(Instructions[u[b].fn])
      BY <1>16
    <3>1. /\ y \in Range(Instructions[u[a].fn])
          /\ y \in Range(Instructions[u[b].fn])
      BY <1>17, <2>2, <2>3, <3>3, <3>4, Zenon
    <3>2. u[a].fn = u[b].fn
      <4>1. u[a].fn \in Fn /\ u[b].fn \in Fn
        BY <1>9
      <4>2. \A f0, g \in Fn : f0 # g => Range(Instructions[f0]) \cap Range(Instructions[g]) = {}
        BY DriverAssumption
      <4> QED BY <3>1, <4>1, <4>2
    <3> QED BY <1>9, <2>7, <3>2
  <2> QED BY <2>5, <2>6, <2>7
<1>13. SearchIs(r, u, b, d, z + 1)
  <2>1. ASSUME NEW i \in 1 .. k + l PROVE ComesFrom(r[i], u, b, d, z + 1)
    <3>1. CASE i \in 1 .. k
      <4>1. ComesFrom(p[i], u, b, d, z)
        BY <1>11, <3>1
      <4>2. \A a \in 1 .. Len(u), c \in 1 .. Len(Mutators) : \A f \in 1 .. Len(u[a].selected) :
              Searched(a, c, f, b, d, z) => Searched(a, c, f, b, d, z + 1)
        BY <1>1, <1>16 DEF Searched
      <4>3. r[i] = p[i]
        BY <1>7, <3>1
      <4>4. ComesFrom(p[i], u, b, d, z + 1)
        BY <4>1, <4>2, Zenon DEF ComesFrom
      <4> QED BY <4>3, <4>4, Zenon
    <3>2. CASE \E j \in 1 .. l : i = k + j
      <4>1. PICK j \in 1 .. l : i = k + j
        BY <3>2
      <4>2. r[i] = e[j]
        BY <1>7, <4>1
      <4>3. /\ e[j].fn = u[b].fn /\ e[j].tests = u[b].tests /\ e[j].mutator = Mutators[d]
            /\ e[j].instruction = u[b].selected[z] /\ Key(e[j]) \in CanMutate
        <5>1. /\ e[j].fn = w.fn /\ e[j].tests = w.tests /\ e[j].mutator = m
              /\ e[j].instruction = y /\ << m, y, e[j].change >> \in CanMutate
          BY <1>4, <1>5
        <5>2. Key(e[j]) = << m, y, e[j].change >>
          BY <1>10
        <5> QED BY <1>2, <1>3, <1>17, <5>1, <5>2, Zenon
      <4>4. Searched(b, d, z, b, d, z + 1)
        BY <1>1, <1>16 DEF Searched
      <4>5. ComesFrom(e[j], u, b, d, z + 1)
        BY <4>3, <4>4, Zenon DEF ComesFrom
      <4> QED BY <4>2, <4>5, Zenon
    <3> QED BY <1>8, <3>1, <3>2
  <2>2. ASSUME NEW a \in 1 .. Len(u), NEW c \in 1 .. Len(Mutators),
               NEW f \in 1 .. Len(u[a].selected), Searched(a, c, f, b, d, z + 1),
               NEW g, << Mutators[c], u[a].selected[f], g >> \in CanMutate
        PROVE  \E i \in 1 .. k + l :
                 /\ Key(r[i]) = << Mutators[c], u[a].selected[f], g >>
                 /\ r[i].fn = u[a].fn
    <3>1. CASE Searched(a, c, f, b, d, z)
      <4>1. PICK i \in 1 .. Len(p) : /\ Key(p[i]) = << Mutators[c], u[a].selected[f], g >>
                                     /\ p[i].fn = u[a].fn
        BY <2>2, <3>1, Zenon DEF SearchIs
      <4>2. i \in 1 .. k
        BY <1>5, Zenon
      <4>3. i \in 1 .. k + l /\ r[i] = p[i]
        BY <1>7, <4>2
      <4> QED BY <4>1, <4>3, Zenon
    <3>2. CASE ~Searched(a, c, f, b, d, z)
      <4>1. a = b /\ c = d /\ f = z
        BY <1>1, <1>16, <2>2, <3>2 DEF Searched
      <4>2. << m, y, g >> \in CanMutate
        BY <1>2, <1>17, <2>2, <4>1
      <4>3. PICK j \in 1 .. l : e[j].change = g
        BY <1>4, <1>5, <4>2
      <4>4. /\ Key(e[j]) = << Mutators[c], u[a].selected[f], g >>
            /\ e[j].fn = u[a].fn
        BY <1>2, <1>3, <1>4, <1>5, <1>10, <1>17, <4>1, <4>3
      <4>5. k + j \in 1 .. k + l /\ r[k + j] = e[j]
        BY <1>7
      <4> QED BY <4>4, <4>5, Zenon
    <3> QED BY <3>1, <3>2
  <2> QED BY <1>7, <2>1, <2>2 DEF SearchIs
<1>14. ASSUME NEW h \in 1 .. l PROVE r[k + h].fn = u[b].fn
  <2>1. e[h].fn = u[b].fn
    BY <1>3, <1>4, <1>5
  <2>2. r[k + h] = e[h]
    BY <1>7
  <2> QED BY <2>1, <2>2
<1>15. OrderIs(r, q)
  <2>1. /\ \A i, j \in 1 .. k : Key(p[i]) = Key(p[j]) => i = j
        /\ \A i, j \in 1 .. k : i < j => First(q, p[i].fn) <= First(q, p[j].fn)
    BY <1>5 DEF OrderIs
  <2>2. ASSUME NEW i \in 1 .. k + l, NEW j \in 1 .. k + l, Key(r[i]) = Key(r[j]) PROVE i = j
    <3>1. CASE i \in 1 .. k /\ j \in 1 .. k
      BY <1>7, <2>1, <2>2, <3>1
    <3>2. CASE i \in 1 .. k /\ \E h \in 1 .. l : j = k + h
      <4>1. PICK h \in 1 .. l : j = k + h
        BY <3>2
      <4>2. Key(p[i]) = Key(e[h])
        BY <1>7, <2>2, <3>2, <4>1
      <4> QED BY <1>12, <3>2, <4>2
    <3>3. CASE (\E h \in 1 .. l : i = k + h) /\ j \in 1 .. k
      <4>1. PICK h \in 1 .. l : i = k + h
        BY <3>3
      <4>2. Key(p[j]) = Key(e[h])
        BY <1>7, <2>2, <3>3, <4>1
      <4> QED BY <1>12, <3>3, <4>2
    <3>4. CASE (\E h \in 1 .. l : i = k + h) /\ (\E h \in 1 .. l : j = k + h)
      <4>1. PICK h \in 1 .. l, g \in 1 .. l : i = k + h /\ j = k + g
        BY <3>4
      <4>2. Key(e[h]) = Key(e[g])
        BY <1>7, <2>2, <4>1
      <4>3. e[h].change = e[g].change
        BY <1>10, <4>2
      <4>4. h = g
        BY <1>4, <1>5, <4>3
      <4> QED BY <4>1, <4>4
    <3> QED BY <1>8, <3>1, <3>2, <3>3, <3>4
  <2>3. ASSUME NEW i \in 1 .. k + l, NEW j \in 1 .. k + l, i < j
        PROVE  First(q, r[i].fn) <= First(q, r[j].fn)
    <3>1. CASE j \in 1 .. k
      <4>1. i \in 1 .. k
        BY <2>3, <3>1
      <4> QED BY <1>7, <2>1, <2>3, <3>1, <4>1
    <3>2. CASE \E h \in 1 .. l : j = k + h
      <4>1. r[j].fn = u[b].fn
        BY <1>14, <3>2
      <4>2. CASE i \in 1 .. k
        <5>1. PICK a \in 1 .. Len(u) : (a < b \/ a = b) /\ p[i].fn = u[a].fn
          BY <1>11, <4>2 DEF ComesFrom, Searched
        <5>2. a < b \/ a = b
          BY <5>1
        <5>3. r[i].fn = u[a].fn
          BY <1>7, <4>2, <5>1
        <5>4. /\ First(q, u[a].fn) \in Nat /\ First(q, u[b].fn) \in Nat
              /\ a < b => First(q, u[a].fn) < First(q, u[b].fn)
          BY <1>9
        <5>5. First(q, u[a].fn) <= First(q, u[b].fn)
          BY <5>2, <5>4
        <5> QED BY <4>1, <5>3, <5>5
      <4>3. CASE \E h \in 1 .. l : i = k + h
        <5>1. r[i].fn = u[b].fn
          BY <1>14, <4>3
        <5>2. First(q, u[b].fn) \in Nat
          BY <1>9
        <5> QED BY <4>1, <5>1, <5>2
      <4> QED BY <1>8, <4>2, <4>3
    <3> QED BY <1>8, <3>1, <3>2
  <2> QED BY <1>7, <2>2, <2>3 DEF OrderIs
<1> QED BY <1>2, <1>3, <1>4, <1>6, <1>13, <1>15, <1>17, Zenon

\* After the last function, the points are the mutations of the selected instructions.
LEMMA SearchDone ==
  ASSUME NEW q \in Seq(ReachedFn), NEW S, NEW W,
         W = {w \in Fn \X CanMutate :
                /\ w[1] \in S /\ w[2][2] \in Range(Instructions[w[1]]) /\ ~IsNull(w[2][2])},
         NEW u \in Seq(UnderTest), UnderIs(u, q, Len(q), S), SelectedIs(u),
         NEW p \in Seq(MutationPoint), SearchIs(p, u, Len(u) + 1, 1, 1), OrderIs(p, q)
  PROVE  PointsAre(p, q, W)
<1>1. Len(Mutators) \in Nat /\ Range(Mutators) = {Mutators[c] : c \in 1 .. Len(Mutators)}
  <2>1. DOMAIN Mutators = 1 .. Len(Mutators) /\ Len(Mutators) \in Nat
    BY DriverAssumption, LenProperties
  <2> QED BY <2>1, Zenon DEF Range
<1>2. Len(u) \in Nat /\ Len(q) \in Nat
  OBVIOUS
<1>3. SubSeq(q, 1, Len(q)) = q
  BY SubSeqFull
<1>4. ASSUME NEW a \in 1 .. Len(u)
      PROVE  /\ u[a].fn \in Fn /\ u[a].fn \in S /\ IsReached(q, u[a].fn)
             /\ u[a].tests = HitsIn(q, u[a].fn)
             /\ Range(u[a].selected) = Range(Instructions[u[a].fn]) \cap Located
  <2>1. /\ u[a].fn \in S /\ IsFirst(q, First(q, u[a].fn), u[a].fn)
        /\ u[a].tests = HitsIn(q, u[a].fn)
    BY <1>3 DEF UnderIs
  <2>2. IsReached(q, u[a].fn)
    BY <2>1 DEF IsFirst, IsReached
  <2>3. u[a].fn \in Fn /\ Range(u[a].selected) = Range(Instructions[u[a].fn]) \cap Located
    BY SelectedAre
  <2> QED BY <2>1, <2>2, <2>3
<1>5. ASSUME NEW i \in 1 .. Len(p)
      PROVE  /\ << p[i].fn, Key(p[i]) >> \in W /\ IsReached(q, p[i].fn)
             /\ p[i].tests = HitsIn(q, p[i].fn)
  <2>0. ComesFrom(p[i], u, Len(u) + 1, 1, 1)
    BY DEF SearchIs
  <2>6. PICK a \in 1 .. Len(u) : \E f \in 1 .. Len(u[a].selected) :
          /\ p[i].fn = u[a].fn /\ p[i].tests = u[a].tests
          /\ p[i].instruction = u[a].selected[f] /\ Key(p[i]) \in CanMutate
    BY <2>0, Zenon DEF ComesFrom
  <2>9. u[a] \in UnderTest
    OBVIOUS
  <2>7. PICK t \in Seq(Instruction) : t = u[a].selected
    BY <2>9 DEF UnderTest
  <2>8. DOMAIN t = 1 .. Len(t)
    BY LenProperties
  <2>1. /\ p[i].fn = u[a].fn /\ p[i].tests = u[a].tests
        /\ p[i].instruction \in Range(u[a].selected) /\ Key(p[i]) \in CanMutate
    BY <2>6, <2>7, <2>8, Zenon DEF Range
  <2>2. Key(p[i])[2] = p[i].instruction
    BY DEF Key
  <2>3. p[i].instruction \in Range(Instructions[p[i].fn]) /\ ~IsNull(p[i].instruction)
    BY <1>4, <2>1 DEF Located
  <2>4. PICK k \in CanMutate : k = Key(p[i]) /\ k[2] = p[i].instruction
    BY <2>1, <2>2
  <2>5. << p[i].fn, k >> \in W
    BY <1>4, <2>1, <2>3, <2>4
  <2> QED BY <1>4, <2>1, <2>4, <2>5
<1>6. ASSUME NEW w \in W, IsReached(q, w[1])
      PROVE  \E i \in 1 .. Len(p) : Key(p[i]) = w[2] /\ p[i].fn = w[1]
  <2>1. PICK f \in Fn, k \in CanMutate :
          /\ f = w[1] /\ k = w[2] /\ f \in S /\ k[2] \in Range(Instructions[f])
          /\ ~IsNull(k[2])
    OBVIOUS
  <2>2. k[1] \in Range(Mutators) /\ k[2] \in Instruction /\ k = << k[1], k[2], k[3] >>
    BY MutationIs
  <2>3. PICK a \in 1 .. Len(u) : u[a].fn = f
    BY <1>6, <2>1 DEF IsReached, UnderIs
  <2>4. PICK c \in 1 .. Len(Mutators) : k[1] = Mutators[c]
    BY <1>1, <2>2
  <2>5. k[2] \in Range(u[a].selected)
    BY <1>4, <2>1, <2>2, <2>3 DEF Located
  <2>14. u[a] \in UnderTest
    OBVIOUS
  <2>6. PICK t \in Seq(Instruction) : t = u[a].selected
    BY <2>14 DEF UnderTest
  <2>7. DOMAIN t = 1 .. Len(t)
    BY LenProperties
  <2>8. PICK h \in 1 .. Len(u[a].selected) : k[2] = u[a].selected[h]
    BY <2>5, <2>6, <2>7, Zenon DEF Range
  <2>9. Searched(a, c, h, Len(u) + 1, 1, 1)
    BY <1>2 DEF Searched
  <2>10. PICK x, g : x = u[a].selected[h] /\ g = k[3]
    OBVIOUS
  <2>11. << Mutators[c], x, g >> = k
    BY <2>2, <2>4, <2>8, <2>10
  <2>12. << Mutators[c], u[a].selected[h], g >> \in CanMutate
    BY <2>10, <2>11
  <2>13. \E i \in 1 .. Len(p) : /\ Key(p[i]) = << Mutators[c], u[a].selected[h], g >>
                                /\ p[i].fn = u[a].fn
    BY <2>9, <2>12, Zenon DEF SearchIs
  <2> QED BY <2>1, <2>3, <2>10, <2>11, <2>13
<1> QED BY <1>5, <1>6 DEF PointsAre

-----------------------------------------------------------------------------
(* The invariant of the search, step by step.                              *)

\* The options do not change, nor what the filters say.
LEMMA FiltersKept ==
  ASSUME UNCHANGED config
  PROVE  /\ mutationFilters' = mutationFilters
         /\ \A filter, x : LocationSkipped(filter, x)' <=> LocationSkipped(filter, x)
         /\ \A filter, p : PointSkipped(filter, p)' <=> PointSkipped(filter, p)
         /\ Passing(2)' = Passing(2)
<1>1. filePath' = filePath /\ info' = info /\ ast' = ast
  BY DEF config
<1>2. \A filter, x : LocationSkipped(filter, x)' <=> LocationSkipped(filter, x)
  BY <1>1 DEF LocationSkipped, PathSkipped
<1>3. \A filter, p : PointSkipped(filter, p)' <=> PointSkipped(filter, p)
  BY <1>2 DEF PointSkipped
<1>4. mutationFilters' = mutationFilters
  BY <1>1 DEF mutationFilters
<1>5. Passing(2)' = Passing(2)
  BY <1>2 DEF Passing
<1> QED BY <1>2, <1>3, <1>4, <1>5

\* What the tests did is not forgotten.
LEMMA TestedKept ==
  ASSUME TestedInv, UNCHANGED << tests, ran, reachable >>
  PROVE  TestedInv'
BY DEF TestedInv, ReachedBy

\* The initial state.
LEMMA PipelineInit == Init => PipelineInv /\ StopInv
<1> SUFFICES ASSUME Init PROVE PipelineInv /\ StopInv
  OBVIOUS
<1>1. /\ phase = "record" /\ mutatorAt = 1 /\ instructionAt = 1 /\ tests = << >> /\ ran = << >>
      /\ reachable = << >> /\ under = << >> /\ points = << >> /\ why = Null
  BY DEF Init
<1>2. PipelineType
  BY <1>1 DEF PipelineType
<1>3. TestedInv
  <2>1. \A f \in Fn : HitsIn(reachable, f) = ReachedBy(f)
    <3> TAKE f \in Fn
    <3>1. HitsIn(reachable, f) = << >>
      BY <1>1, HitsEmpty
    <3>2. ReachedBy(f) = << >>
      BY <1>1, HitsByNone DEF ReachedBy, HitsBy
    <3> QED BY <3>1, <3>2
  <2>2. Len(ran) = 0 /\ Len(tests) = 0
    BY <1>1
  <2> QED BY <2>1, <2>2 DEF TestedInv
<1>4. /\ BeforeTests /\ Testing /\ Merging /\ Filtering /\ Searching /\ FilteringPoints
      /\ Counters
  BY <1>1 DEF BeforeTests, Testing, Merging, Filtering, Searching, FilteringPoints, Counters
<1> QED BY <1>1, <1>2, <1>3, <1>4 DEF PipelineInv, StopInv

\* A step that leaves the search where it is.
LEMMA PipelineQuiet ==
  ASSUME PipelineInv, UNCHANGED << config, phase, at, mutatorAt, instructionAt, pipeline >>
  PROVE  PipelineInv'
<1>1. /\ phase' = phase /\ at' = at /\ mutatorAt' = mutatorAt /\ instructionAt' = instructionAt /\ tests' = tests /\ ran' = ran
      /\ reachable' = reachable /\ under' = under /\ points' = points
  BY DEF pipeline
<1>2. /\ mutationFilters' = mutationFilters /\ Passing(2)' = Passing(2)
      /\ \A filter, x : LocationSkipped(filter, x)' <=> LocationSkipped(filter, x)
      /\ \A filter, p : PointSkipped(filter, p)' <=> PointSkipped(filter, p)
  BY FiltersKept
<1>3. Passing(at - 1)' = Passing(at - 1)
  BY <1>1, <1>2 DEF Passing
<1>4. /\ Asked(at - 1)' = Asked(at - 1)
      /\ Asked(Len(mutationFilters))' = Asked(Len(mutationFilters))
  BY <1>1, <1>2 DEF Asked
<1>5. PipelineType' /\ BeforeTests' /\ Testing' /\ Merging' /\ Counters'
  BY <1>1 DEF PipelineInv, PipelineType, BeforeTests, Testing, Merging, Counters
<1>6. Filtering' /\ Searching' /\ FilteringPoints'
  BY <1>1, <1>2, <1>3, <1>4 DEF PipelineInv, Filtering, Searching, FilteringPoints
<1>7. TestedInv'
  BY <1>1, TestedKept DEF PipelineInv
<1> QED BY <1>5, <1>6, <1>7 DEF PipelineInv

\* The steps before the tests are found.
LEMMA PipelineBefore ==
  ASSUME PipelineInv, Compilation \/ OtherMull
  PROVE  PipelineInv'
<1>1. /\ phase \in {"record", "compile"} /\ UNCHANGED << mutatorAt, instructionAt, pipeline >>
      /\ phase' \in {"record", "compile", "find", "stopped"}
      /\ phase' = "find" => phase = "compile" /\ at' = at
      /\ phase' = "compile" => at' = 1 \/ (phase = "compile" /\ at' = at)
  <2>1. CASE Compilation
    BY <2>1 DEF search, Compilation, RecordFunctions, StartCompilation, GetObject, PutNothing,
       OpenFile, CloseFile, WriteFails, CompiledAll, Stop
  <2>2. CASE OtherMull
    BY <2>2 DEF search, OtherMull, OtherOpens, OtherCloses, OtherDies, OtherStep
  <2> QED BY <2>1, <2>2
<1>2. /\ mutatorAt' = mutatorAt /\ instructionAt' = instructionAt /\ tests' = tests /\ ran' = ran
      /\ reachable' = reachable /\ under' = under /\ points' = points
  BY <1>1 DEF pipeline
<1>3. PipelineType' /\ BeforeTests' /\ Counters'
  BY <1>1, <1>2 DEF PipelineInv, PipelineType, BeforeTests, Counters
<1>4. Testing' /\ Merging' /\ Filtering' /\ Searching' /\ FilteringPoints'
  BY <1>1 DEF Testing, Merging, Filtering, Searching, FilteringPoints
<1>5. TestedInv'
  BY <1>2, TestedKept DEF PipelineInv
<1> QED BY <1>3, <1>4, <1>5 DEF PipelineInv

\* The tests are found.
LEMMA PipelineFind ==
  ASSUME PipelineInv, FindTests
  PROVE  PipelineInv'
<1>1. /\ phase = "find" /\ tests' \in TestLists /\ phase' \in {"mutations", "load"}
      /\ UNCHANGED << config, mutatorAt, instructionAt, at, ran, reachable, under, points >>
  BY DEF search, FindTests
<1>2. /\ ran = << >> /\ reachable = << >> /\ under = << >> /\ points = << >> /\ at = 1
      /\ mutatorAt = 1 /\ instructionAt = 1
  BY <1>1 DEF PipelineInv, BeforeTests, Counters
<1>3. tests' \in Seq(Test)
  BY <1>1, DriverAssumption
<1>4. PipelineType'
  BY <1>1, <1>3 DEF PipelineInv, PipelineType
<1>5. TestedInv'
  <2>1. ASSUME NEW f \in Fn PROVE HitsIn(reachable, f)' = ReachedBy(f)'
    <3>1. HitsIn(reachable', f) = << >>
      BY <1>1, <1>2, HitsEmpty
    <3>2. ReachedBy(f)' = HitsBy(tests', ran', f)
      BY DEF ReachedBy, HitsBy
    <3>3. HitsBy(tests', ran', f) = << >>
      BY <1>1, <1>2, HitsByNone
    <3> QED BY <3>1, <3>2, <3>3
  <2>2. Len(ran') = 0 /\ Len(tests') \in Nat
    BY <1>1, <1>2, <1>3
  <2> QED BY <2>1, <2>2 DEF TestedInv
<1>6. PointsAre(points', reachable', Asked(at - 1)')
  <2>1. Len(points') = 0 /\ Len(reachable') = 0
    BY <1>1, <1>2
  <2>2. \A f : ~IsReached(reachable', f)
    BY <2>1 DEF IsReached
  <2> QED BY <2>1, <2>2 DEF PointsAre, OrderIs
<1>7. at' <= Len(mutationFilters') + 1
  BY <1>1, <1>2 DEF mutationFilters
<1>8. FilteringPoints'
  BY <1>1, <1>6, <1>7 DEF FilteringPoints
<1>9. BeforeTests' /\ Testing' /\ Merging' /\ Filtering' /\ Searching' /\ Counters'
  BY <1>1, <1>2 DEF BeforeTests, Testing, Merging, Filtering, Searching, Counters
<1> QED BY <1>4, <1>5, <1>8, <1>9 DEF PipelineInv

\* The program is loaded, or not.
LEMMA PipelineLoad ==
  ASSUME PipelineInv, LoadInstrumentedProgram
  PROVE  PipelineInv'
<1>1. /\ phase = "load" /\ phase' \in {"stopped", "test"}
      /\ UNCHANGED << mutatorAt, instructionAt, at, pipeline >>
  BY DEF search, LoadInstrumentedProgram, Stop
<1>2. /\ tests' = tests /\ ran' = ran /\ reachable' = reachable /\ under' = under
      /\ points' = points /\ mutatorAt' = mutatorAt /\ instructionAt' = instructionAt /\ at' = at
  BY <1>1 DEF pipeline
<1>3. ran = << >> /\ under = << >> /\ points = << >> /\ at = 1 /\ mutatorAt = 1 /\ instructionAt = 1
  BY <1>1 DEF PipelineInv, BeforeTests, Counters
<1>4. PipelineType' /\ TestedInv'
  BY <1>2, TestedKept DEF PipelineInv, PipelineType
<1>5. Testing'
  BY <1>2, <1>3 DEF Testing
<1>6. /\ BeforeTests' /\ Merging' /\ Filtering' /\ Searching' /\ FilteringPoints'
      /\ Counters'
  BY <1>1, <1>2, <1>3
     DEF BeforeTests, Merging, Filtering, Searching, FilteringPoints, Counters
<1> QED BY <1>4, <1>5, <1>6 DEF PipelineInv

\* A function with a body is seen as itself.
LEMMA RecordedDefined ==
  ASSUME IndexInv, phase = "test", NEW f \in Defined
  PROVE  Recorded(f) = f
<1>1. PICK m \in Module : f \in Range(FunctionList[m])
  BY DEF Defined, Fn
<1>2. f \in Range(Definitions(m))
  BY <1>1, DefinitionsAre
<1>3. objects[m] = Definitions(m)
  BY DEF IndexInv, ObjectInv
<1> QED BY <1>1, <1>2, <1>3, RecordedIs

\* What one test adds to reachableFunctions.
LEMMA RunTestAdds ==
  ASSUME IndexInv, phase = "test", NEW t \in Test, NEW o \in Outcome[t],
         o.status = "Passed", o.reached # << >>
  PROVE  \E b \in Seq(ReachedFn) :
           /\ b = [i \in 1 .. Len(o.reached) - 1 |->
                     [fn |-> Recorded(o.reached[i + 1].fn), test |-> t,
                      distance |-> o.reached[i + 1].distance]]
           /\ \A f \in Fn :
                HitsIn(b, f) \in Seq(Hits)
                /\ IF Reaches(o, f)
                   THEN Len(HitsIn(b, f)) = 1 /\ HitsIn(b, f)[1] = << t, DistanceOf(o, f) >>
                   ELSE HitsIn(b, f) = << >>
<1>1. /\ o.reached \in Seq([fn : Fn \ Declaration, distance : Nat])
      /\ \A i, j \in DOMAIN o.reached : o.reached[i].fn = o.reached[j].fn => i = j
  BY DriverAssumption
<1>2. PICK r \in Seq([fn : Defined, distance : Nat]) : r = o.reached
  BY <1>1 DEF Defined
<1>3. PICK n \in Nat : Len(r) = n + 1 /\ DOMAIN r = 1 .. n + 1
  <2>1. Len(r) \in Nat \ {0} /\ DOMAIN r = 1 .. Len(r)
    BY <1>2, EmptySeq, LenProperties
  <2>2. PICK n \in Nat : Len(r) = n + 1
    <3>1. Len(r) - 1 \in Nat /\ Len(r) = (Len(r) - 1) + 1
      BY <2>1
    <3> QED BY <3>1
  <2> QED BY <2>1, <2>2
<1>4. \A i \in 1 .. n + 1 : r[i].fn \in Defined /\ r[i].distance \in Nat
  <2>1. \A i \in 1 .. Len(r) : r[i] \in [fn : Defined, distance : Nat]
    BY ElementOfSeq
  <2> QED BY <1>3, <2>1
<1>5. \A i, j \in 1 .. n + 1 : r[i].fn = r[j].fn => i = j
  BY <1>1, <1>2, <1>3, Zenon
<1> DEFINE e(i) == [fn |-> Recorded(r[i + 1].fn), test |-> t, distance |-> r[i + 1].distance]
<1>6. PICK b : b = [i \in 1 .. n |-> e(i)]
  OBVIOUS
<1>7. ASSUME NEW i \in 1 .. n
      PROVE  /\ b[i] \in ReachedFn /\ b[i].fn = r[i + 1].fn /\ b[i].test = t
             /\ b[i].distance = r[i + 1].distance
  <2>1. i + 1 \in 1 .. n + 1
    OBVIOUS
  <2>2. r[i + 1].fn \in Defined /\ r[i + 1].distance \in Nat
    BY <1>4, <2>1
  <2>3. Recorded(r[i + 1].fn) = r[i + 1].fn
    BY <2>2, RecordedDefined
  <2>4. b[i] = [fn |-> r[i + 1].fn, test |-> t, distance |-> r[i + 1].distance]
    BY <1>6, <2>3
  <2> QED BY <2>2, <2>4 DEF ReachedFn
<1>8. b = [i \in 1 .. Len(o.reached) - 1 |->
             [fn |-> Recorded(o.reached[i + 1].fn), test |-> t,
              distance |-> o.reached[i + 1].distance]]
  <2>1. Len(o.reached) - 1 = n
    BY <1>2, <1>3
  <2> QED BY <1>2, <1>6, <2>1, Zenon
<1> HIDE DEF e
<1>9. b \in Seq(ReachedFn) /\ Len(b) = n
  <2>1. b \in [1 .. n -> ReachedFn]
    BY <1>6, <1>7
  <2> QED BY <2>1
<1>10. ASSUME NEW f \in Fn
       PROVE  /\ HitsIn(b, f) \in Seq(Hits)
              /\ IF Reaches(o, f)
                 THEN Len(HitsIn(b, f)) = 1 /\ HitsIn(b, f)[1] = << t, DistanceOf(o, f) >>
                 ELSE HitsIn(b, f) = << >>
  <2>1. HitsIn(b, f) \in Seq(Hits)
    <3>1. PICK k, h : HitsFrom(k, h, b, f)
      BY <1>9, HitsAre
    <3> QED BY <3>1 DEF HitsFrom
  <2>2. CASE Reaches(o, f)
    <3>1. PICK j \in 1 .. n + 1 : j # 1 /\ r[j].fn = f
      <4>1. PICK j \in DOMAIN r \ {1} : r[j].fn = f
        BY <1>2, <2>2 DEF Reaches
      <4>2. j \in 1 .. n + 1
        BY <1>3, <4>1, Zenon
      <4> QED BY <4>1, <4>2
    <3>2. PICK i \in 1 .. n : j = i + 1
      <4>1. j - 1 \in 1 .. n /\ j = (j - 1) + 1
        BY <3>1
      <4> QED BY <4>1
    <3>3. b[i].fn = f /\ b[i].test = t /\ b[i].distance = r[j].distance
      BY <1>7, <3>1, <3>2
    <3>4. ASSUME NEW k \in 1 .. n, b[k].fn = f PROVE k = i
      <4>1. r[k + 1].fn = r[j].fn /\ k + 1 \in 1 .. n + 1
        BY <1>7, <3>1, <3>4
      <4>2. k + 1 = j
        BY <1>5, <4>1
      <4> QED BY <3>2, <4>2
    <3>5. Len(HitsIn(b, f)) = 1 /\ HitsIn(b, f)[1] = << b[i].test, b[i].distance >>
      BY <1>9, <3>3, <3>4, HitsOfOne
    <3>6. DistanceOf(o, f) = r[j].distance
      <4>1. DistanceOf(o, f) = r[CHOOSE c \in DOMAIN r : r[c].fn = f].distance
        BY <1>2 DEF DistanceOf
      <4>2. PICK k : k = CHOOSE c \in DOMAIN r : r[c].fn = f
        OBVIOUS
      <4>3. j \in DOMAIN r
        BY <1>3, Zenon
      <4>4. k \in DOMAIN r /\ r[k].fn = f
        BY <3>1, <4>2, <4>3
      <4>5. k \in 1 .. n + 1
        BY <1>3, <4>4, Zenon
      <4>6. k = j
        BY <1>5, <3>1, <4>4, <4>5
      <4> QED BY <4>1, <4>2, <4>6, Zenon
    <3> QED BY <2>1, <2>2, <3>3, <3>5, <3>6
  <2>3. CASE ~Reaches(o, f)
    <3>1. ASSUME NEW i \in 1 .. n, b[i].fn = f PROVE FALSE
      <4>1. r[i + 1].fn = f /\ i + 1 \in 1 .. n + 1 /\ i + 1 # 1
        BY <1>7, <3>1
      <4>2. i + 1 \in DOMAIN r \ {1}
        BY <1>3, <4>1, Zenon
      <4> QED BY <1>2, <2>3, <4>1, <4>2 DEF Reaches
    <3>2. HitsIn(b, f) = << >>
      BY <1>9, <3>1, HitsOfOne
    <3> QED BY <2>1, <2>3, <3>2
  <2> QED BY <2>2, <2>3
<1> QED BY <1>8, <1>9, <1>10

\* The next test runs.
LEMMA PipelineRun ==
  ASSUME IndexInv, PipelineInv, RunTest
  PROVE  PipelineInv'
<1> DEFINE Y == UNION {Outcome[t] : t \in Test}
<1>1. /\ phase = "test" /\ at <= Len(tests) /\ phase' = phase /\ at' = at + 1
      /\ UNCHANGED << mutatorAt, instructionAt, tests, under, points >>
  BY DEF search, RunTest
<1>2. PICK o \in Outcome[tests[at]] :
        /\ ran' = Append(ran, o)
        /\ reachable' =
             IF o.status # "Passed" \/ o.reached = << >> THEN reachable
             ELSE reachable \o [i \in 1 .. Len(o.reached) - 1 |->
                                  [fn |-> Recorded(o.reached[i + 1].fn),
                                   test |-> tests[at],
                                   distance |-> o.reached[i + 1].distance]]
  BY DEF RunTest
<1>3. /\ tests \in Seq(Test) /\ ran \in Seq(Y) /\ reachable \in Seq(ReachedFn)
      /\ under = << >> /\ points = << >> /\ mutatorAt = 1 /\ instructionAt = 1
  BY <1>1 DEF PipelineInv, PipelineType, Testing, Counters
<1> HIDE DEF Y
<1>4. at \in Nat \ {0} /\ Len(ran) = at - 1 /\ Len(tests) \in Nat
  BY <1>1, <1>3 DEF PipelineInv, Testing, IndexInv
<1>5. PICK t \in Test : t = tests[at]
  BY <1>1, <1>3, <1>4
<1>6. o \in Y /\ o \in Outcome[t]
  BY <1>2, <1>5 DEF Y
<1>7. PICK n \in Nat : Len(ran) = n /\ at = n + 1
  BY <1>4
<1>8. /\ ran' \in Seq(Y) /\ Len(ran') = n + 1 /\ ran'[n + 1] = o
      /\ \A i \in 1 .. n : ran'[i] = ran[i]
  BY <1>2, <1>3, <1>6, <1>7
<1>9. /\ reachable' \in Seq(ReachedFn)
      /\ \A f \in Fn : HitsIn(reachable', f) =
           IF Reaches(o, f) THEN Append(HitsIn(reachable, f), << t, DistanceOf(o, f) >>)
           ELSE HitsIn(reachable, f)
  <2>1. CASE o.status # "Passed" \/ o.reached = << >>
    <3>1. \A f : ~Reaches(o, f)
      BY <2>1 DEF Reaches
    <3> QED BY <1>2, <1>3, <2>1, <3>1
  <2>2. CASE o.status = "Passed" /\ o.reached # << >>
    <3>1. PICK b \in Seq(ReachedFn) :
            /\ b = [i \in 1 .. Len(o.reached) - 1 |->
                      [fn |-> Recorded(o.reached[i + 1].fn), test |-> t,
                       distance |-> o.reached[i + 1].distance]]
            /\ \A f \in Fn :
                 HitsIn(b, f) \in Seq(Hits)
                 /\ IF Reaches(o, f)
                    THEN Len(HitsIn(b, f)) = 1 /\ HitsIn(b, f)[1] = << t, DistanceOf(o, f) >>
                    ELSE HitsIn(b, f) = << >>
      BY <1>1, <1>6, <2>2, RunTestAdds
    <3>2. reachable' = reachable \o b
      BY <1>2, <1>5, <2>2, <3>1, Zenon
    <3>3. reachable' \in Seq(ReachedFn)
      BY <1>3, <3>2, ConcatProperties
    <3>4. ASSUME NEW f \in Fn
          PROVE  HitsIn(reachable', f) =
                   IF Reaches(o, f)
                   THEN Append(HitsIn(reachable, f), << t, DistanceOf(o, f) >>)
                   ELSE HitsIn(reachable, f)
      <4>1. PICK q \in Seq(ReachedFn) : q = reachable
        BY <1>3
      <4>2. HitsIn(q \o b, f) = HitsIn(q, f) \o HitsIn(b, f)
        BY HitsConcat
      <4>3. PICK h \in Seq(Hits) : h = HitsIn(q, f)
        <5>1. PICK k, h : HitsFrom(k, h, q, f)
          BY HitsAre
        <5> QED BY <5>1 DEF HitsFrom
      <4>4. PICK g \in Seq(Hits) : g = HitsIn(b, f)
        BY <3>1
      <4>5. HitsIn(reachable', f) = h \o g
        BY <3>2, <4>1, <4>2, <4>3, <4>4, Zenon
      <4>6. CASE Reaches(o, f)
        <5>1. Len(g) = 1 /\ g[1] = << t, DistanceOf(o, f) >>
          BY <3>1, <4>4, <4>6
        <5>2. h \o g = Append(h, g[1])
          BY <5>1, ConcatOne
        <5> QED BY <4>1, <4>3, <4>5, <4>6, <5>1, <5>2, Zenon
      <4>7. CASE ~Reaches(o, f)
        <5>1. g = << >>
          BY <3>1, <4>4, <4>7
        <5>2. h \o << >> = h
          BY ConcatEmptySeq
        <5> QED BY <4>1, <4>3, <4>5, <4>7, <5>1, <5>2, Zenon
      <4> QED BY <4>6, <4>7
    <3> QED BY <3>3, <3>4
  <2> QED BY <2>1, <2>2
<1>10. TestedInv'
  <2>1. Len(ran') <= Len(tests')
    BY <1>1, <1>4, <1>7, <1>8
  <2>2. ASSUME NEW i \in 1 .. Len(ran') PROVE ran'[i] \in Outcome[tests'[i]]
    <3>1. i \in 1 .. n \/ i = n + 1
      BY <1>8
    <3>2. CASE i \in 1 .. n
      BY <1>1, <1>7, <1>8, <3>2 DEF PipelineInv, TestedInv
    <3>3. CASE i = n + 1
      BY <1>1, <1>2, <1>7, <1>8, <3>3
    <3> QED BY <3>1, <3>2, <3>3
  <2>3. ASSUME NEW f \in Fn PROVE HitsIn(reachable', f) = ReachedBy(f)'
    <3>1. PICK rn \in Seq(Y) : rn = ran
      BY <1>3
    <3>2. HitsBy(tests, Append(rn, o), f) =
            IF Reaches(o, f)
            THEN Append(HitsBy(tests, rn, f), << tests[Len(rn) + 1], DistanceOf(o, f) >>)
            ELSE HitsBy(tests, rn, f)
      BY <1>6, HitsByStep
    <3>3. HitsBy(tests, rn, f) = ReachedBy(f) /\ ReachedBy(f)' = HitsBy(tests', ran', f)
      BY <3>1 DEF HitsBy, ReachedBy
    <3>4. HitsIn(reachable, f) = ReachedBy(f)
      BY DEF PipelineInv, TestedInv
    <3>5. tests[Len(rn) + 1] = t
      BY <1>5, <1>7, <3>1
    <3>6. ReachedBy(f)' = HitsBy(tests, Append(rn, o), f)
      BY <1>1, <1>2, <3>1, <3>3, Zenon
    <3>7. HitsIn(reachable', f) =
            IF Reaches(o, f) THEN Append(HitsIn(reachable, f), << t, DistanceOf(o, f) >>)
            ELSE HitsIn(reachable, f)
      BY <1>9
    <3> QED BY <3>2, <3>3, <3>4, <3>5, <3>6, <3>7, Zenon
  <2> QED BY <2>1, <2>2, <2>3 DEF TestedInv
<1>11. PipelineType'
  BY <1>1, <1>8, <1>9 DEF PipelineInv, PipelineType, Y
<1>12. Testing'
  BY <1>1, <1>3, <1>7, <1>8 DEF Testing
<1>13. /\ BeforeTests' /\ Merging' /\ Filtering' /\ Searching' /\ FilteringPoints'
       /\ Counters'
  BY <1>1, <1>3 DEF BeforeTests, Merging, Filtering, Searching, FilteringPoints, Counters
<1> QED BY <1>10, <1>11, <1>12, <1>13 DEF PipelineInv

\* The tests have run, or the functions are merged.
LEMMA PipelineTested ==
  ASSUME IndexInv, PipelineInv, TestedAll \/ MergedAll
  PROVE  PipelineInv'
<1>1. /\ phase \in {"test", "merge"} /\ at' = 1 /\ UNCHANGED << mutatorAt, instructionAt, pipeline >>
      /\ phase' = IF phase = "test" THEN "merge" ELSE "functions"
      /\ phase = "merge" => at > Len(reachable)
  BY DEF search, TestedAll, MergedAll
<1>2. /\ tests' = tests /\ ran' = ran /\ reachable' = reachable /\ under' = under
      /\ points' = points /\ mutatorAt' = mutatorAt /\ instructionAt' = instructionAt
  BY <1>1 DEF pipeline
<1>3. /\ reachable \in Seq(ReachedFn) /\ Len(reachable) \in Nat /\ mutatorAt = 1 /\ instructionAt = 1
      /\ at \in Nat
  BY <1>1 DEF PipelineInv, PipelineType, Counters, IndexInv
<1>4. PipelineType' /\ TestedInv'
  BY <1>2, TestedKept DEF PipelineInv, PipelineType
<1>5. CASE phase = "test"
  <2>1. under = << >> /\ points = << >> /\ Len(under) = 0
    BY <1>5 DEF PipelineInv, Testing
  <2>2. UnderIs(under, reachable, 0, Fn)
    BY <2>1 DEF UnderIs
  <2>3. Merging'
    BY <1>1, <1>2, <1>3, <2>1, <2>2 DEF Merging
  <2>4. /\ BeforeTests' /\ Testing' /\ Filtering' /\ Searching' /\ FilteringPoints'
        /\ Counters'
    BY <1>1, <1>2, <1>3, <1>5
       DEF BeforeTests, Testing, Filtering, Searching, FilteringPoints, Counters
  <2> QED BY <1>4, <2>3, <2>4 DEF PipelineInv
<1>6. CASE phase = "merge"
  <2>1. /\ at <= Len(reachable) + 1 /\ points = << >>
        /\ UnderIs(under, reachable, at - 1, Fn)
        /\ \A a \in 1 .. Len(under) : under[a].selected = << >>
    BY <1>6 DEF PipelineInv, Merging
  <2>2. at - 1 = Len(reachable)
    BY <1>1, <1>3, <1>6, <2>1
  <2>3. Passing(at - 1)' = Fn
    BY <1>1 DEF Passing
  <2>4. UnderIs(under', reachable', Len(reachable'), Passing(at - 1)')
    BY <1>2, <2>1, <2>2, <2>3
  <2>5. at' <= Len(functionFilters) + 1
    BY <1>1 DEF functionFilters
  <2>6. Filtering'
    BY <1>2, <2>1, <2>4, <2>5 DEF Filtering
  <2>7. /\ BeforeTests' /\ Testing' /\ Merging' /\ Searching' /\ FilteringPoints'
        /\ Counters'
    BY <1>1, <1>2, <1>3, <1>6
       DEF BeforeTests, Testing, Merging, Searching, FilteringPoints, Counters
  <2> QED BY <1>4, <2>6, <2>7 DEF PipelineInv
<1> QED BY <1>1, <1>5, <1>6

\* The next entry is merged.
LEMMA PipelineMerge ==
  ASSUME IndexInv, PipelineInv, MergeReachableFunctions
  PROVE  PipelineInv'
<1>1. /\ phase = "merge" /\ at <= Len(reachable) /\ phase' = phase /\ at' = at + 1
      /\ under' = AddReachable(under, reachable[at])
      /\ UNCHANGED << mutatorAt, instructionAt, tests, ran, reachable, points >>
  BY DEF search, MergeReachableFunctions
<1>2. /\ reachable \in Seq(ReachedFn) /\ under \in Seq(UnderTest) /\ points = << >>
      /\ UnderIs(under, reachable, at - 1, Fn) /\ at \in Nat \ {0} /\ mutatorAt = 1 /\ instructionAt = 1
      /\ \A a \in 1 .. Len(under) : under[a].selected = << >>
  BY <1>1 DEF PipelineInv, PipelineType, Merging, Counters, IndexInv
<1>3. PICK q \in Seq(ReachedFn), u \in Seq(UnderTest) : q = reachable /\ u = under
  BY <1>2
<1>4. PICK n \in Nat : n = at - 1 /\ at = n + 1 /\ Len(q) \in Nat
  BY <1>2
<1>5. n + 1 <= Len(q) /\ UnderIs(u, q, n, Fn) /\ \A a \in 1 .. Len(u) : u[a].selected = << >>
  BY <1>1, <1>2, <1>3, <1>4
<1>6. PICK v : v = AddReachable(u, q[n + 1])
  OBVIOUS
<1>7. /\ v \in Seq(UnderTest) /\ UnderIs(v, q, n + 1, Fn)
      /\ \A a \in 1 .. Len(v) : v[a].selected = << >>
  BY <1>5, <1>6, MergeOne
<1>8. v = under' /\ reachable' = q /\ at' - 1 = n + 1 /\ points' = << >>
  BY <1>1, <1>2, <1>3, <1>4, <1>6
<1>9. at' <= Len(reachable') + 1
  BY <1>1, <1>3, <1>4, <1>8
<1>10. Merging'
  BY <1>7, <1>8, <1>9 DEF Merging
<1>11. PipelineType' /\ TestedInv'
  BY <1>1, <1>7, <1>8, TestedKept DEF PipelineInv, PipelineType
<1>12. /\ BeforeTests' /\ Testing' /\ Filtering' /\ Searching' /\ FilteringPoints'
       /\ Counters'
  BY <1>1, <1>2 DEF BeforeTests, Testing, Filtering, Searching, FilteringPoints, Counters
<1> QED BY <1>10, <1>11, <1>12 DEF PipelineInv

\* The next filter over the functions.
LEMMA PipelineFilter ==
  ASSUME IndexInv, PipelineInv, FilterFunctions
  PROVE  PipelineInv'
<1>1. /\ phase = "functions" /\ at <= Len(functionFilters)
      /\ UNCHANGED << config, mutatorAt, instructionAt, tests, ran, reachable, points >>
  BY DEF search, FilterFunctions
<1>2. /\ reachable \in Seq(ReachedFn) /\ under \in Seq(UnderTest) /\ points = << >>
      /\ UnderIs(under, reachable, Len(reachable), Passing(at - 1))
      /\ at \in Nat \ {0} /\ mutatorAt = 1 /\ instructionAt = 1
      /\ \A a \in 1 .. Len(under) : under[a].selected = << >>
  BY <1>1 DEF PipelineInv, PipelineType, Filtering, Counters, IndexInv
<1>3. TestedInv'
  BY <1>1, TestedKept DEF PipelineInv
<1>4. CASE phase' = "stopped" /\ under' = under
  <2>1. PipelineType'
    BY <1>1, <1>4 DEF PipelineInv, PipelineType
  <2>2. /\ BeforeTests' /\ Testing' /\ Merging' /\ Filtering' /\ Searching'
        /\ FilteringPoints' /\ Counters'
    BY <1>1, <1>2, <1>4
       DEF BeforeTests, Testing, Merging, Filtering, Searching, FilteringPoints, Counters
  <2> QED BY <1>3, <2>1, <2>2 DEF PipelineInv
<1>5. ASSUME NEW filter, filter = functionFilters[at], phase' = phase, at' = at + 1,
             under' = Keep(under, {u \in Range(under) : ~LocationSkipped(filter, u.fn)})
      PROVE  PipelineInv'
  <2>1. PICK K : K = {u \in Range(under) : ~LocationSkipped(filter, u.fn)}
    OBVIOUS
  <2>2. PICK S : S = Passing(at - 1)
    OBVIOUS
  <2>3. PICK T : T = {f \in S : ~LocationSkipped(filter, f)}
    OBVIOUS
  <2>4. T = Passing(at - 1)'
    <3>1. \A g, x : LocationSkipped(g, x)' <=> LocationSkipped(g, x)
      BY <1>1, FiltersKept
    <3>2. \A i \in 1 .. at' - 1 : i \in 1 .. at - 1 \/ i = at
      BY <1>2, <1>5
    <3>3. at \in 1 .. at' - 1 /\ \A i \in 1 .. at - 1 : i \in 1 .. at' - 1
      BY <1>2, <1>5
    <3> QED BY <1>5, <2>2, <2>3, <3>1, <3>2, <3>3 DEF Passing
  <2>5. PICK q \in Seq(ReachedFn), u \in Seq(UnderTest) : q = reachable /\ u = under
    BY <1>2
  <2>6. PICK n \in Nat : n = Len(q)
    OBVIOUS
  <2>7. T \subseteq S /\ UnderIs(u, q, n, S)
    BY <1>2, <2>2, <2>3, <2>5, <2>6
  <2>8. ASSUME NEW a \in 1 .. Len(u) PROVE u[a] \in K <=> u[a].fn \in T
    <3>1. u[a].fn \in S
      BY <2>7 DEF UnderIs
    <3>2. DOMAIN u = 1 .. Len(u)
      BY LenProperties
    <3>3. u[a] \in Range(under)
      BY <2>5, <3>2, Zenon DEF Range
    <3> QED BY <2>1, <2>3, <3>1, <3>3
  <2>9. PICK v : v = Keep(u, K)
    OBVIOUS
  <2>10. v \in Seq(UnderTest) /\ UnderIs(v, q, n, T) /\ DrawnFrom(v, u)
    <3>1. PicksFunctions(K, u, T)
      BY <2>8 DEF PicksFunctions
    <3>2. T \subseteq S
      BY <2>7
    <3>3. UnderIs(u, q, n, S)
      BY <2>7
    <3>4. /\ Keep(u, K) \in Seq(UnderTest) /\ UnderIs(Keep(u, K), q, n, T)
          /\ DrawnFrom(Keep(u, K), u)
      BY <3>1, <3>2, <3>3, UnderKeep
    <3> QED BY <2>9, <3>4, Zenon
  <2>11. v = under' /\ q = reachable' /\ points' = << >>
    BY <1>1, <1>2, <1>5, <2>1, <2>5, <2>9
  <2>12. \A b \in 1 .. Len(v) : v[b].selected = << >>
    BY <1>2, <2>5, <2>10 DEF DrawnFrom
  <2>13. at' <= Len(functionFilters) + 1
    <3>1. PICK z \in Nat : z = Len(functionFilters)
      BY DEF functionFilters
    <3> QED BY <1>1, <1>2, <1>5, <3>1
  <2>14. Filtering'
    BY <2>4, <2>6, <2>10, <2>11, <2>12, <2>13 DEF Filtering
  <2>15. PipelineType'
    BY <1>1, <2>10, <2>11 DEF PipelineInv, PipelineType
  <2>16. /\ BeforeTests' /\ Testing' /\ Merging' /\ Searching' /\ FilteringPoints'
         /\ Counters'
    BY <1>1, <1>2, <1>5
       DEF BeforeTests, Testing, Merging, Searching, FilteringPoints, Counters
  <2> QED BY <1>3, <2>14, <2>15, <2>16 DEF PipelineInv
<1>6. \/ phase' = "stopped" /\ under' = under
      \/ /\ phase' = phase /\ at' = at + 1
         /\ under' = Keep(under, {u \in Range(under) :
                                    ~LocationSkipped(functionFilters[at], u.fn)})
  BY DEF FilterFunctions, Stop
<1> QED BY <1>4, <1>5, <1>6

\* The instructions are selected.
LEMMA PipelineSelect ==
  ASSUME IndexInv, PipelineInv, SelectInstructions
  PROVE  PipelineInv'
<1>1. /\ phase = "functions" /\ at > Len(functionFilters) /\ phase' = "search" /\ at' = 1
      /\ under' = [i \in DOMAIN under |->
                     [under[i] EXCEPT !.selected = @ \o
                        Keep(Instructions[under[i].fn], Located)]]
      /\ UNCHANGED << config, mutatorAt, instructionAt, tests, ran, reachable, points >>
  BY DEF search, SelectInstructions, Located
<1>2. /\ reachable \in Seq(ReachedFn) /\ under \in Seq(UnderTest) /\ points = << >>
      /\ UnderIs(under, reachable, Len(reachable), Passing(at - 1))
      /\ at \in Nat \ {0} /\ mutatorAt = 1 /\ instructionAt = 1 /\ at <= Len(functionFilters) + 1
      /\ \A a \in 1 .. Len(under) : under[a].selected = << >>
  BY <1>1 DEF PipelineInv, PipelineType, Filtering, Counters, IndexInv
<1>3. at - 1 = 2 /\ Passing(2)' = Passing(2)
  <2>1. Len(functionFilters) = 2
    BY DEF functionFilters
  <2> QED BY <1>1, <1>2, <2>1, FiltersKept
<1>4. PICK q \in Seq(ReachedFn), u \in Seq(UnderTest) : q = reachable /\ u = under
  BY <1>2
<1>5. PICK m \in Nat : m = Len(u) /\ DOMAIN u = 1 .. m
  BY LenProperties
<1>6. PICK v : v = under'
  OBVIOUS
<1>7. v = [i \in 1 .. m |->
             [u[i] EXCEPT !.selected = @ \o Keep(Instructions[u[i].fn], Located)]]
  BY <1>1, <1>4, <1>5, <1>6, Zenon
<1>8. ASSUME NEW a \in 1 .. m
      PROVE  /\ v[a] \in UnderTest /\ v[a].fn = u[a].fn /\ v[a].tests = u[a].tests
             /\ v[a].selected = Keep(Instructions[v[a].fn], Located)
  <2>1. u[a] \in UnderTest /\ u[a].selected = << >>
    BY <1>2, <1>4, <1>5
  <2>2. PICK f \in Fn : f = u[a].fn
    BY <2>1 DEF UnderTest, Defined
  <2>3. Instructions[f] \in Seq(Instruction)
    BY DriverAssumption
  <2>4. PICK s \in Seq(Instruction) : s = Keep(Instructions[f], Located)
    BY <2>3, KeepPicks
  <2>5. v[a] = [u[a] EXCEPT !.selected = u[a].selected \o s]
    BY <1>7, <2>2, <2>4
  <2>6. u[a].selected \o s = s
    BY <2>1, ConcatEmptySeq
  <2>7. v[a] = [u[a] EXCEPT !.selected = s]
    BY <2>5, <2>6
  <2>8. /\ v[a] \in UnderTest /\ v[a].fn = u[a].fn /\ v[a].tests = u[a].tests
        /\ v[a].selected = s
    BY <2>1, <2>7 DEF UnderTest
  <2> QED BY <2>2, <2>4, <2>8
<1>9. v \in Seq(UnderTest) /\ Len(v) = m
  <2>1. v \in [1 .. m -> UnderTest]
    BY <1>7, <1>8
  <2> QED BY <2>1
<1>10. UnderIs(v, q, Len(q), Passing(2))
  <2>1. UnderIs(u, q, Len(q), Passing(2))
    BY <1>2, <1>3, <1>4
  <2> QED BY <1>5, <1>8, <1>9, <2>1 DEF UnderIs
<1>17. \A a \in 1 .. Len(v) : Len(v[a].selected) \in Nat
  <2> TAKE a \in 1 .. Len(v)
  <2>1. v[a] \in UnderTest
    BY <1>9
  <2>2. PICK t \in Seq(Instruction) : t = v[a].selected
    BY <2>1 DEF UnderTest
  <2> QED BY <2>2
<1>11. /\ SearchIs(points', v, 1, 1, 1) /\ OrderIs(points', reachable')
  <2>1. Len(points') = 0
    BY <1>1, <1>2
  <2>2. \A a \in 1 .. Len(v), c \in 1 .. Len(Mutators) :
          \A e \in 1 .. Len(v[a].selected) : ~Searched(a, c, e, 1, 1, 1)
    <3>1. Len(Mutators) \in Nat
      BY DriverAssumption
    <3> QED BY <1>9, <1>17, <3>1 DEF Searched
  <2> QED BY <2>1, <2>2 DEF SearchIs, OrderIs
<1>12. at' <= Len(under') + 1 /\ mutatorAt' <= Len(Mutators) + 1 /\ mutatorAt' = 1
       /\ instructionAt' = 1
  <2>1. Len(Mutators) \in Nat
    BY DriverAssumption
  <2> QED BY <1>1, <1>2, <1>6, <1>9, <2>1
<1>13. \A a \in 1 .. Len(v) : v[a].selected = Keep(Instructions[v[a].fn], Located)
  BY <1>8, <1>9
<1>18. 1 <= Len(v) => 1 <= Len(v[1].selected) + 1
  <2>1. 1 <= Len(v) => 1 \in 1 .. Len(v)
    BY <1>9
  <2> QED BY <1>17, <2>1
<1>14. Searching'
  BY <1>1, <1>3, <1>4, <1>6, <1>10, <1>11, <1>12, <1>13, <1>18 DEF Searching
<1>15. PipelineType' /\ TestedInv'
  BY <1>1, <1>6, <1>9, TestedKept DEF PipelineInv, PipelineType
<1>16. /\ BeforeTests' /\ Testing' /\ Merging' /\ Filtering' /\ FilteringPoints'
       /\ Counters'
  BY <1>1 DEF BeforeTests, Testing, Merging, Filtering, FilteringPoints, Counters
<1> QED BY <1>14, <1>15, <1>16 DEF PipelineInv

\* The search for points.
LEMMA PipelineSearch ==
  ASSUME IndexInv, PipelineInv, SearchMutationPoints \/ SearchedMutator \/ SearchedFunction
         \/ FoundAll
  PROVE  PipelineInv'
<1>1. phase = "search" /\ UNCHANGED << config, tests, ran, reachable, under >>
  BY DEF SearchMutationPoints, SearchedMutator, SearchedFunction, FoundAll, pipeline
<1>2. /\ reachable \in Seq(ReachedFn) /\ under \in Seq(UnderTest)
      /\ points \in Seq(MutationPoint) /\ at \in Nat \ {0} /\ mutatorAt \in Nat \ {0}
      /\ instructionAt \in Nat \ {0}
      /\ at <= Len(under) + 1 /\ mutatorAt <= Len(Mutators) + 1
      /\ at = Len(under) + 1 => mutatorAt = 1
      /\ at <= Len(under) /\ mutatorAt <= Len(Mutators)
           => instructionAt <= Len(under[at].selected) + 1
      /\ at = Len(under) + 1 \/ mutatorAt = Len(Mutators) + 1 => instructionAt = 1
      /\ UnderIs(under, reachable, Len(reachable), Passing(2)) /\ SelectedIs(under)
      /\ SearchIs(points, under, at, mutatorAt, instructionAt)
      /\ OrderIs(points, reachable)
  BY <1>1 DEF PipelineInv, PipelineType, Searching, IndexInv, SelectedIs
<1>3. /\ TestedInv' /\ Passing(2)' = Passing(2)
      /\ Len(under) \in Nat /\ Len(Mutators) \in Nat
  BY <1>1, <1>2, TestedKept, FiltersKept, DriverAssumption DEF PipelineInv
<1>7. \A a \in 1 .. Len(under) : Len(under[a].selected) \in Nat
  <2> SUFFICES ASSUME NEW a \in 1 .. Len(under) PROVE Len(under[a].selected) \in Nat
    OBVIOUS
  <2>1. under[a] \in UnderTest
    BY <1>2
  <2>2. PICK t \in Seq(Instruction) : t = under[a].selected
    BY <2>1 DEF UnderTest
  <2> QED BY <2>2
<1>4. CASE SearchMutationPoints
  <2>1. /\ at <= Len(under) /\ mutatorAt <= Len(Mutators) /\ phase' = phase /\ at' = at
        /\ instructionAt <= Len(under[at].selected)
        /\ points' = points \o Mutations(Mutators[mutatorAt],
                                         under[at].selected[instructionAt], under[at])
        /\ mutatorAt' = mutatorAt /\ instructionAt' = instructionAt + 1
    BY <1>4 DEF SearchMutationPoints
  <2>2. PICK q \in Seq(ReachedFn), u \in Seq(UnderTest), p \in Seq(MutationPoint) :
          q = reachable /\ u = under /\ p = points
    BY <1>2
  <2>3. PICK b \in 1 .. Len(u), d \in 1 .. Len(Mutators) : b = at /\ d = mutatorAt
    BY <1>2, <1>3, <2>1, <2>2
  <2>4. PICK S : S = Passing(2)
    OBVIOUS
  <2>0. PICK z \in 1 .. Len(u[b].selected) : z = instructionAt
    BY <1>2, <1>7, <2>1, <2>2, <2>3
  <2>5. /\ UnderIs(u, q, Len(q), S) /\ SelectedIs(u) /\ SearchIs(p, u, b, d, z)
        /\ OrderIs(p, q)
    BY <1>2, <2>0, <2>2, <2>3, <2>4
  <2>6. PICK r : r = p \o Mutations(Mutators[d], u[b].selected[z], u[b])
    OBVIOUS
  <2>7. r \in Seq(MutationPoint) /\ SearchIs(r, u, b, d, z + 1) /\ OrderIs(r, q)
    BY <2>5, <2>6, SearchOne
  <2>8. /\ r = points' /\ at' = b /\ mutatorAt' = d /\ instructionAt' = z + 1
        /\ under' = u /\ reachable' = q
    BY <1>1, <2>0, <2>1, <2>2, <2>3, <2>6
  <2>9. /\ at' <= Len(under') + 1 /\ mutatorAt' <= Len(Mutators) + 1
        /\ at' # Len(under') + 1 /\ mutatorAt' # Len(Mutators) + 1
        /\ mutatorAt' \in Nat \ {0} /\ instructionAt' \in Nat \ {0}
        /\ instructionAt' <= Len(under'[at'].selected) + 1
    <3>1. PICK n \in Nat : n = Len(under[at].selected)
      BY <1>2, <1>3, <1>7, <2>1
    <3>2. Len(under'[at'].selected) = n
      BY <1>1, <2>1, <3>1, Zenon
    <3>3. instructionAt' <= n + 1 /\ instructionAt' \in Nat \ {0}
      BY <1>2, <2>1, <3>1
    <3>4. PICK k \in Nat, l \in Nat : k = Len(u) /\ l = Len(Mutators)
      BY <1>3, <2>2, Zenon
    <3>5. b <= k + 1 /\ d <= l + 1 /\ b # k + 1 /\ d # l + 1 /\ d \in Nat \ {0}
      BY <3>4
    <3> QED BY <2>8, <3>2, <3>3, <3>4, <3>5, Zenon
  <2>10. Searching'
    BY <1>1, <1>2, <1>3, <2>7, <2>8, <2>9 DEF Searching, SelectedIs
  <2>11. PipelineType'
    BY <1>1, <2>7, <2>8, <2>9 DEF PipelineInv, PipelineType
  <2>12. /\ BeforeTests' /\ Testing' /\ Merging' /\ Filtering' /\ FilteringPoints'
         /\ Counters'
    BY <1>1, <2>1 DEF BeforeTests, Testing, Merging, Filtering, FilteringPoints, Counters
  <2> QED BY <1>3, <2>10, <2>11, <2>12 DEF PipelineInv
<1>8. ASSUME NEW x \in Nat \ {0}, NEW y \in Nat \ {0}, NEW z \in Nat \ {0},
             x = at', y = mutatorAt', z = instructionAt', phase' = phase, points' = points,
             x <= Len(under) + 1, y <= Len(Mutators) + 1, x = Len(under) + 1 => y = 1, z = 1,
             \A a \in 1 .. Len(under), c \in 1 .. Len(Mutators) :
               \A e \in 1 .. Len(under[a].selected) :
                 Searched(a, c, e, x, y, z)
                   <=> Searched(a, c, e, at, mutatorAt, instructionAt)
      PROVE  PipelineInv'
  <2>1. PICK u \in Seq(UnderTest), p \in Seq(MutationPoint) : u = under /\ p = points
    BY <1>2
  <2>9. SearchIs(p, u, at, mutatorAt, instructionAt)
    BY <1>2, <2>1
  <2>10. \A a \in 1 .. Len(u), c \in 1 .. Len(Mutators) : \A e \in 1 .. Len(u[a].selected) :
           Searched(a, c, e, x, y, z) <=> Searched(a, c, e, at, mutatorAt, instructionAt)
    BY <1>8, <2>1
  <2>2. \A i \in 1 .. Len(p) : ComesFrom(p[i], u, x, y, z)
    <3> TAKE i \in 1 .. Len(p)
    <3>1. ComesFrom(p[i], u, at, mutatorAt, instructionAt)
      BY <2>9, Zenon DEF SearchIs
    <3> QED BY <2>10, <3>1, Zenon DEF ComesFrom
  <2>3. SearchIs(p, u, x, y, z)
    BY <2>2, <2>9, <2>10, Zenon DEF SearchIs
  <2>4. u = under' /\ p = points'
    BY <1>1, <1>8, <2>1
  <2>5. x <= Len(under) => z <= Len(under[x].selected) + 1
    BY <1>7, <1>8
  <2>6. Searching'
    BY <1>1, <1>2, <1>3, <1>8, <2>1, <2>3, <2>4, <2>5 DEF Searching, SelectedIs
  <2>7. PipelineType'
    BY <1>1, <1>8 DEF PipelineInv, PipelineType
  <2>8. /\ BeforeTests' /\ Testing' /\ Merging' /\ Filtering' /\ FilteringPoints'
        /\ Counters'
    BY <1>1, <1>8 DEF BeforeTests, Testing, Merging, Filtering, FilteringPoints, Counters
  <2> QED BY <1>3, <2>6, <2>7, <2>8 DEF PipelineInv
<1>9. CASE SearchedMutator
  <2>1. /\ at <= Len(under) /\ mutatorAt <= Len(Mutators) /\ phase' = phase /\ at' = at
        /\ instructionAt > Len(under[at].selected) /\ points' = points
        /\ mutatorAt' = mutatorAt + 1 /\ instructionAt' = 1
    BY <1>9 DEF SearchedMutator, pipeline
  <2>2. \A a \in 1 .. Len(under), c \in 1 .. Len(Mutators) :
          \A e \in 1 .. Len(under[a].selected) :
            Searched(a, c, e, at', mutatorAt', instructionAt')
              <=> Searched(a, c, e, at, mutatorAt, instructionAt)
    <3> TAKE a \in 1 .. Len(under), c \in 1 .. Len(Mutators)
    <3> TAKE e \in 1 .. Len(under[a].selected)
    <3>1. a = at => e < instructionAt
      BY <1>2, <1>7, <2>1
    <3> QED BY <1>2, <1>3, <2>1, <3>1 DEF Searched
  <2>3. /\ at' \in Nat \ {0} /\ mutatorAt' \in Nat \ {0} /\ instructionAt' \in Nat \ {0}
        /\ at' <= Len(under) + 1 /\ mutatorAt' <= Len(Mutators) + 1
        /\ at' # Len(under) + 1
    BY <1>2, <1>3, <2>1
  <2> QED BY <1>8, <2>1, <2>2, <2>3
<1>5. CASE SearchedFunction
  <2>1. /\ at <= Len(under) /\ mutatorAt > Len(Mutators) /\ phase' = phase
        /\ at' = at + 1 /\ mutatorAt' = 1 /\ instructionAt' = instructionAt
        /\ points' = points
    BY <1>5 DEF SearchedFunction, pipeline
  <2>2. mutatorAt = Len(Mutators) + 1 /\ instructionAt = 1
    BY <1>2, <1>3, <2>1
  <2>3. \A a \in 1 .. Len(under), c \in 1 .. Len(Mutators) :
          \A e \in 1 .. Len(under[a].selected) :
            Searched(a, c, e, at', mutatorAt', instructionAt')
              <=> Searched(a, c, e, at, mutatorAt, instructionAt)
    <3> TAKE a \in 1 .. Len(under), c \in 1 .. Len(Mutators)
    <3> TAKE e \in 1 .. Len(under[a].selected)
    <3>1. c < mutatorAt /\ ~(c < 1) /\ a \in Nat /\ ~(e < 1)
      BY <1>3, <1>7, <2>2
    <3> QED BY <1>2, <2>1, <2>2, <3>1 DEF Searched
  <2>4. /\ at' \in Nat \ {0} /\ mutatorAt' \in Nat \ {0} /\ instructionAt' \in Nat \ {0}
        /\ at' <= Len(under) + 1 /\ mutatorAt' <= Len(Mutators) + 1
        /\ mutatorAt' = 1 /\ instructionAt' = 1
    BY <1>2, <1>3, <2>1, <2>2
  <2> QED BY <1>8, <2>1, <2>3, <2>4
<1>6. CASE FoundAll
  <2>1. /\ at > Len(under) /\ phase' = "mutations" /\ at' = 1 /\ points' = points
        /\ mutatorAt' = mutatorAt /\ instructionAt' = instructionAt
    BY <1>6 DEF FoundAll, pipeline, search
  <2>2. at = Len(under) + 1 /\ mutatorAt = 1 /\ instructionAt = 1
    BY <1>2, <1>3, <2>1
  <2>3. PICK q \in Seq(ReachedFn), u \in Seq(UnderTest), p \in Seq(MutationPoint) :
          q = reachable /\ u = under /\ p = points
    BY <1>2
  <2>4. PICK S : S = Passing(2)
    OBVIOUS
  <2>5. PICK W : W = {w \in Fn \X CanMutate :
                        /\ w[1] \in S /\ w[2][2] \in Range(Instructions[w[1]])
                        /\ ~IsNull(w[2][2])}
    OBVIOUS
  <2>6. PointsAre(p, q, W)
    <3>1. UnderIs(u, q, Len(q), S) /\ SelectedIs(u)
      BY <1>2, <2>3, <2>4
    <3>2. SearchIs(p, u, Len(u) + 1, 1, 1) /\ OrderIs(p, q)
      BY <1>2, <2>2, <2>3
    <3> QED BY <2>5, <3>1, <3>2, SearchDone
  <2>7. Asked(at - 1)' = W
    <3>1. 1 .. at' - 1 = {}
      BY <2>1
    <3> QED BY <1>3, <2>4, <2>5, <3>1 DEF Asked
  <2>8. at' <= Len(mutationFilters') + 1
    BY <2>1 DEF mutationFilters
  <2>9. FilteringPoints'
    BY <1>1, <2>1, <2>3, <2>6, <2>7, <2>8 DEF FilteringPoints
  <2>10. PipelineType'
    BY <1>1, <2>1 DEF PipelineInv, PipelineType
  <2>11. /\ BeforeTests' /\ Testing' /\ Merging' /\ Filtering' /\ Searching' /\ Counters'
    BY <2>1, <2>2 DEF BeforeTests, Testing, Merging, Filtering, Searching, Counters
  <2> QED BY <1>3, <2>9, <2>10, <2>11 DEF PipelineInv
<1> QED BY <1>4, <1>5, <1>6, <1>9

\* The next filter over the points.
LEMMA PipelineFilterPoints ==
  ASSUME IndexInv, PipelineInv, FilterMutations
  PROVE  PipelineInv'
<1>1. /\ phase = "mutations" /\ at <= Len(mutationFilters)
      /\ UNCHANGED << config, mutatorAt, instructionAt, tests, ran, reachable, under >>
  BY DEF search, FilterMutations
<1>2. /\ reachable \in Seq(ReachedFn) /\ points \in Seq(MutationPoint)
      /\ PointsAre(points, reachable, Asked(at - 1))
      /\ at \in Nat \ {0} /\ mutatorAt = 1 /\ instructionAt = 1
  BY <1>1 DEF PipelineInv, PipelineType, FilteringPoints, Counters, IndexInv
<1>3. TestedInv'
  BY <1>1, TestedKept DEF PipelineInv
<1>4. CASE phase' = "stopped" /\ points' = points
  <2>1. PipelineType'
    BY <1>1, <1>4 DEF PipelineInv, PipelineType
  <2>2. /\ BeforeTests' /\ Testing' /\ Merging' /\ Filtering' /\ Searching'
        /\ FilteringPoints' /\ Counters'
    BY <1>1, <1>2, <1>4
       DEF BeforeTests, Testing, Merging, Filtering, Searching, FilteringPoints, Counters
  <2> QED BY <1>3, <2>1, <2>2 DEF PipelineInv
<1>5. ASSUME NEW filter, filter = mutationFilters[at], phase' = phase, at' = at + 1,
             points' = Keep(points, {p \in Range(points) : ~PointSkipped(filter, p)})
      PROVE  PipelineInv'
  <2>1. PICK K : K = {p \in Range(points) : ~PointSkipped(filter, p)}
    OBVIOUS
  <2>2. PICK W : W = Asked(at - 1)
    OBVIOUS
  <2>3. PICK Z : Z = {w \in W : ~PointSkipped(filter, [mutator |-> w[2][1],
                                                       instruction |-> w[2][2]])}
    OBVIOUS
  <2>4. Z = Asked(at - 1)'
    <3>1. /\ \A g, x : PointSkipped(g, x)' <=> PointSkipped(g, x)
          /\ mutationFilters' = mutationFilters /\ Passing(2)' = Passing(2)
      BY <1>1, FiltersKept
    <3>2. \A i \in 1 .. at' - 1 : i \in 1 .. at - 1 \/ i = at
      BY <1>2, <1>5
    <3>3. at \in 1 .. at' - 1 /\ \A i \in 1 .. at - 1 : i \in 1 .. at' - 1
      BY <1>2, <1>5
    <3> QED BY <1>5, <2>2, <2>3, <3>1, <3>2, <3>3 DEF Asked
  <2>5. PICK q \in Seq(ReachedFn), p \in Seq(MutationPoint) : q = reachable /\ p = points
    BY <1>2
  <2>6. Z \subseteq W /\ PointsAre(p, q, W)
    BY <1>2, <2>2, <2>3, <2>5
  <2>7. ASSUME NEW i \in 1 .. Len(p)
        PROVE  p[i] \in K <=> << p[i].fn, Key(p[i]) >> \in Z
    <3>1. << p[i].fn, Key(p[i]) >> \in W
      BY <2>6 DEF PointsAre
    <3>2. DOMAIN p = 1 .. Len(p)
      BY LenProperties
    <3>3. p[i] \in Range(points)
      BY <2>5, <3>2, Zenon DEF Range
    <3>4. PICK y : y = [mutator |-> p[i].mutator, instruction |-> p[i].instruction]
      OBVIOUS
    <3>5. PointSkipped(filter, p[i]) <=> PointSkipped(filter, y)
      <4>1. y.instruction = p[i].instruction /\ Identifier(y) = Identifier(p[i])
        BY <3>4 DEF Identifier
      <4> QED BY <4>1 DEF PointSkipped
    <3>6. /\ << p[i].fn, Key(p[i]) >>[2][1] = p[i].mutator
          /\ << p[i].fn, Key(p[i]) >>[2][2] = p[i].instruction
      BY DEF Key
    <3>7. << p[i].fn, Key(p[i]) >> \in Z <=> ~PointSkipped(filter, y)
      BY <2>3, <3>1, <3>4, <3>6, Zenon
    <3> QED BY <2>1, <3>3, <3>5, <3>7
  <2>8. \A w \in Z : w = << w[1], w[2] >>
    BY <2>2, <2>3 DEF Asked
  <2>9. Keep(p, K) \in Seq(MutationPoint) /\ PointsAre(Keep(p, K), q, Z)
    BY <2>6, <2>7, <2>8, PointsKeep
  <2>10. Keep(p, K) = points' /\ q = reachable'
    BY <1>1, <1>5, <2>1, <2>5
  <2>11. at' <= Len(mutationFilters') + 1
    <3>1. PICK z \in Nat : z = Len(mutationFilters)
      BY DEF mutationFilters
    <3>2. mutationFilters' = mutationFilters
      BY <1>1, FiltersKept
    <3>3. at' <= z + 1
      BY <1>1, <1>2, <1>5, <3>1
    <3> QED BY <3>1, <3>2, <3>3
  <2>12. FilteringPoints'
    BY <1>1, <1>5, <2>4, <2>9, <2>10, <2>11 DEF FilteringPoints
  <2>13. PipelineType'
    BY <1>1, <2>9, <2>10 DEF PipelineInv, PipelineType
  <2>14. /\ BeforeTests' /\ Testing' /\ Merging' /\ Filtering' /\ Searching' /\ Counters'
    BY <1>1, <1>2, <1>5 DEF BeforeTests, Testing, Merging, Filtering, Searching, Counters
  <2> QED BY <1>3, <2>12, <2>13, <2>14 DEF PipelineInv
<1>6. \/ phase' = "stopped" /\ points' = points
      \/ /\ phase' = phase /\ at' = at + 1
         /\ points' = Keep(points, {p \in Range(points) :
                                      ~PointSkipped(mutationFilters[at], p)})
  BY DEF FilterMutations, Stop
<1> QED BY <1>4, <1>5, <1>6

\* The points are filtered.
LEMMA PipelineDone ==
  ASSUME IndexInv, PipelineInv, FilteredAll
  PROVE  PipelineInv'
<1>1. /\ phase = "mutations" /\ at > Len(mutationFilters) /\ phase' = "run"
      /\ UNCHANGED << config, mutatorAt, instructionAt, at, pipeline >>
  BY DEF search, FilteredAll
<1>2. /\ tests' = tests /\ ran' = ran /\ reachable' = reachable /\ under' = under
      /\ points' = points /\ mutatorAt' = mutatorAt /\ instructionAt' = instructionAt /\ mutatorAt = 1 /\ instructionAt = 1
  BY <1>1 DEF pipeline, PipelineInv, Counters
<1>3. at <= Len(mutationFilters) + 1 /\ PointsAre(points, reachable, Asked(at - 1))
  BY <1>1 DEF PipelineInv, FilteringPoints
<1>4. PICK n \in Nat : n = Len(mutationFilters)
  BY DEF mutationFilters
<1>5. at - 1 = n
  BY <1>1, <1>3, <1>4 DEF IndexInv
<1>6. /\ mutationFilters' = mutationFilters /\ Passing(2)' = Passing(2)
      /\ \A g, x : PointSkipped(g, x)' <=> PointSkipped(g, x)
  BY <1>1, FiltersKept
<1>7. Asked(Len(mutationFilters))' = Asked(at - 1)
  BY <1>4, <1>5, <1>6 DEF Asked
<1>8. FilteringPoints'
  BY <1>1, <1>2, <1>3, <1>7 DEF FilteringPoints
<1>9. PipelineType' /\ TestedInv'
  BY <1>2, TestedKept DEF PipelineInv, PipelineType
<1>10. /\ BeforeTests' /\ Testing' /\ Merging' /\ Filtering' /\ Searching' /\ Counters'
  BY <1>1, <1>2 DEF BeforeTests, Testing, Merging, Filtering, Searching, Counters
<1> QED BY <1>8, <1>9, <1>10 DEF PipelineInv

\* Every step preserves the invariant of the search.
LEMMA PipelineStep == IndexInv /\ PipelineInv /\ [Next]_vars => PipelineInv'
<1> SUFFICES ASSUME IndexInv, PipelineInv, [Next]_vars PROVE PipelineInv'
  OBVIOUS
<1>1. CASE Compilation \/ OtherMull
  BY <1>1, PipelineBefore
<1>2. CASE Search
  BY <1>2, PipelineFind, PipelineLoad, PipelineRun, PipelineTested, PipelineMerge,
     PipelineFilter, PipelineSelect, PipelineSearch, PipelineFilterPoints, PipelineDone
     DEF Search
<1>3. CASE Ended \/ UNCHANGED vars
  <2>1. UNCHANGED << config, phase, at, mutatorAt, instructionAt, pipeline >>
    BY <1>3 DEF search, Ended, vars
  <2> QED BY <2>1, PipelineQuiet
<1> QED BY <1>1, <1>2, <1>3 DEF Next

-----------------------------------------------------------------------------
(* What stops Mull.                                                        *)

\* One or two more after a pair.
AppendedToPair(a, b, c, d) ==
  /\ Len(<< a, b >> \o << >> \o << d >>) = 3
  /\ (<< a, b >> \o << >> \o << d >>)[1] = a
  /\ (<< a, b >> \o << >> \o << d >>)[2] = b
  /\ (<< a, b >> \o << >> \o << d >>)[3] = d
  /\ Len(<< a, b >> \o << c >> \o << d >>) = 4
  /\ (<< a, b >> \o << c >> \o << d >>)[1] = a
  /\ (<< a, b >> \o << c >> \o << d >>)[2] = b
  /\ (<< a, b >> \o << c >> \o << d >>)[3] = c
  /\ (<< a, b >> \o << c >> \o << d >>)[4] = d

\* Where they are.
LEMMA AfterAPair ==
  ASSUME NEW X, NEW a \in X, NEW b \in X, NEW c \in X, NEW d \in X
  PROVE  AppendedToPair(a, b, c, d)
<1>1. << a, b >> \in Seq(X) /\ Len(<< a, b >>) = 2 /\ << a, b >>[1] = a /\ << a, b >>[2] = b
  OBVIOUS
<1>2. PICK p \in Seq(X) : p = << a, b >>
  BY <1>1, Zenon
<1>3. Len(p) = 2 /\ p[1] = a /\ p[2] = b
  BY <1>1, <1>2, Zenon
<1>4. p \o << >> = p
  BY ConcatEmptySeq
<1>5. PICK s \in Seq(X) : s = Append(p, c)
  BY AppendProperties
<1>6. Len(s) = 3 /\ s[1] = a /\ s[2] = b /\ s[3] = c
  <2>1. /\ Len(Append(p, c)) = Len(p) + 1
        /\ \A i \in 1 .. Len(p) : Append(p, c)[i] = p[i]
        /\ Append(p, c)[Len(p) + 1] = c
    BY AppendProperties
  <2>2. /\ Len(s) = Len(p) + 1 /\ s[Len(p) + 1] = c
        /\ \A i \in 1 .. Len(p) : s[i] = p[i]
    BY <1>5, <2>1, Zenon
  <2> QED BY <1>3, <2>2
<1>7. PICK u \in Seq(X) : u = Append(p, d)
  BY AppendProperties
<1>8. Len(u) = 3 /\ u[1] = a /\ u[2] = b /\ u[3] = d
  <2>1. /\ Len(Append(p, d)) = Len(p) + 1
        /\ \A i \in 1 .. Len(p) : Append(p, d)[i] = p[i]
        /\ Append(p, d)[Len(p) + 1] = d
    BY AppendProperties
  <2>2. /\ Len(u) = Len(p) + 1 /\ u[Len(p) + 1] = d
        /\ \A i \in 1 .. Len(p) : u[i] = p[i]
    BY <1>7, <2>1, Zenon
  <2> QED BY <1>3, <2>2
<1>9. PICK v \in Seq(X) : v = Append(s, d)
  BY AppendProperties
<1>10. Len(v) = 4 /\ v[1] = a /\ v[2] = b /\ v[3] = c /\ v[4] = d
  <2>1. /\ Len(Append(s, d)) = Len(s) + 1
        /\ \A i \in 1 .. Len(s) : Append(s, d)[i] = s[i]
        /\ Append(s, d)[Len(s) + 1] = d
    BY AppendProperties
  <2>2. /\ Len(v) = Len(s) + 1 /\ v[Len(s) + 1] = d
        /\ \A i \in 1 .. Len(s) : v[i] = s[i]
    BY <1>9, <2>1, Zenon
  <2> QED BY <1>6, <2>2
<1>11. /\ p \o << c >> = Append(p, c) /\ p \o << d >> = Append(p, d)
       /\ s \o << d >> = Append(s, d)
  BY AppendIsConcat, Zenon
<1>12. << a, b >> \o << >> \o << d >> = u
  BY <1>2, <1>4, <1>7, <1>11, Zenon
<1>13. << a, b >> \o << c >> \o << d >> = v
  BY <1>2, <1>5, <1>9, <1>11, Zenon
<1> QED BY <1>8, <1>10, <1>12, <1>13, Zenon DEF AppendedToPair

\* The filters over the points, by their place.
LEMMA FiltersWithNone ==
  ASSUME ~info
  PROVE  /\ Len(mutationFilters) = 2 /\ mutationFilters[1] = "NoDebugInfoFilter"
         /\ mutationFilters[2] = "FilePathFilter"
<1>1. mutationFilters = << "NoDebugInfoFilter", "FilePathFilter" >> \o << >> \o << >>
  BY Zenon DEF mutationFilters
<1>2. << "NoDebugInfoFilter", "FilePathFilter" >> \o << >> \o << >> = << "NoDebugInfoFilter", "FilePathFilter" >>
  OBVIOUS
<1> QED BY <1>1, <1>2

\* ... without the AST search,
LEMMA FiltersWithJunk ==
  ASSUME info, ~ast
  PROVE  /\ Len(mutationFilters) = 3 /\ mutationFilters[1] = "NoDebugInfoFilter"
         /\ mutationFilters[2] = "FilePathFilter" /\ mutationFilters[3] = "JunkMutationFilter"
<1> DEFINE X == {"NoDebugInfoFilter", "FilePathFilter", "ASTMutationFilter", "JunkMutationFilter"}
<1>1. PICK a \in X, b \in X, c \in X, d \in X :
        /\ a = "NoDebugInfoFilter" /\ b = "FilePathFilter" /\ c = "ASTMutationFilter"
        /\ d = "JunkMutationFilter"
  OBVIOUS
<1> HIDE DEF X
<1>2. AppendedToPair(a, b, c, d)
  BY AfterAPair
<1>3. mutationFilters = << "NoDebugInfoFilter", "FilePathFilter" >> \o << >> \o << "JunkMutationFilter" >>
  BY Zenon DEF mutationFilters
<1>4. /\ Len(<< a, b >> \o << >> \o << d >>) = 3
      /\ (<< a, b >> \o << >> \o << d >>)[1] = a
      /\ (<< a, b >> \o << >> \o << d >>)[2] = b
      /\ (<< a, b >> \o << >> \o << d >>)[3] = d
  BY <1>2, Zenon DEF AppendedToPair
<1> QED BY <1>1, <1>3, <1>4, Zenon

\* ... and with it.
LEMMA FiltersWithAST ==
  ASSUME info, ast
  PROVE  /\ Len(mutationFilters) = 4 /\ mutationFilters[1] = "NoDebugInfoFilter"
         /\ mutationFilters[2] = "FilePathFilter" /\ mutationFilters[3] = "ASTMutationFilter"
         /\ mutationFilters[4] = "JunkMutationFilter"
<1> DEFINE X == {"NoDebugInfoFilter", "FilePathFilter", "ASTMutationFilter", "JunkMutationFilter"}
<1>1. PICK a \in X, b \in X, c \in X, d \in X :
        /\ a = "NoDebugInfoFilter" /\ b = "FilePathFilter" /\ c = "ASTMutationFilter"
        /\ d = "JunkMutationFilter"
  OBVIOUS
<1> HIDE DEF X
<1>2. AppendedToPair(a, b, c, d)
  BY AfterAPair
<1>3. mutationFilters =
        << "NoDebugInfoFilter", "FilePathFilter" >> \o << "ASTMutationFilter" >> \o << "JunkMutationFilter" >>
  BY Zenon DEF mutationFilters
<1>4. /\ Len(<< a, b >> \o << c >> \o << d >>) = 4
      /\ (<< a, b >> \o << c >> \o << d >>)[1] = a
      /\ (<< a, b >> \o << c >> \o << d >>)[2] = b
      /\ (<< a, b >> \o << c >> \o << d >>)[3] = c
      /\ (<< a, b >> \o << c >> \o << d >>)[4] = d
  BY <1>2, Zenon DEF AppendedToPair
<1> QED BY <1>1, <1>3, <1>4, Zenon

\* Which filters they are.
LEMMA MutationFiltersAre ==
  ASSUME NEW filter
  PROVE  (\E i \in 1 .. Len(mutationFilters) : mutationFilters[i] = filter)
           <=> \/ filter \in {"NoDebugInfoFilter", "FilePathFilter"}
               \/ filter = "ASTMutationFilter" /\ ast /\ info
               \/ filter = "JunkMutationFilter" /\ info
<1>1. CASE ~info
  <2>1. \A i : i \in 1 .. 2 <=> i = 1 \/ i = 2
    OBVIOUS
  <2> QED BY <1>1, <2>1, FiltersWithNone, Zenon
<1>2. CASE info /\ ~ast
  <2>1. \A i : i \in 1 .. 3 <=> i = 1 \/ i = 2 \/ i = 3
    OBVIOUS
  <2> QED BY <1>2, <2>1, FiltersWithJunk, Zenon
<1>3. CASE info /\ ast
  <2>1. \A i : i \in 1 .. 4 <=> i = 1 \/ i = 2 \/ i = 3 \/ i = 4
    OBVIOUS
  <2> QED BY <1>3, <2>1, FiltersWithAST, Zenon
<1> QED BY <1>1, <1>2, <1>3

\* Once a filter has gone over the points, the AST filter has an answer to them.
LEMMA AnsweredStep ==
  ASSUME IndexInv, PipelineInv, Answered, [Next]_vars
  PROVE  Answered'
<1> SUFFICES ASSUME phase' = "mutations", info', ast', at' > 3
             PROVE  \A i \in 1 .. Len(points') : ~Unanswerable(points'[i])
  BY DEF Answered, Unanswerable
<1>1. CASE FilterMutations
  <2>1. /\ phase = "mutations" /\ at' = at + 1 /\ at <= Len(mutationFilters)
        /\ ~ \E i \in DOMAIN points : PointAsserts(mutationFilters[at], points[i])
        /\ points' = Keep(points, {p \in Range(points) : ~PointSkipped(mutationFilters[at], p)})
        /\ UNCHANGED config
    BY <1>1 DEF FilterMutations, Stop
  <2>2. points \in Seq(MutationPoint) /\ at \in Nat \ {0} /\ info /\ ast
    BY <2>1 DEF PipelineInv, PipelineType, IndexInv, config
  <2>3. DOMAIN points = 1 .. Len(points)
    BY <2>2, LenProperties
  <2>4. ASSUME NEW i \in 1 .. Len(points) PROVE ~Unanswerable(points[i])
    <3>1. CASE at > 3
      BY <2>1, <2>2, <3>1 DEF Answered
    <3>2. CASE at = 3
      <4>1. mutationFilters[3] = "ASTMutationFilter"
        BY <2>2, FiltersWithAST
      <4>2. ~PointAsserts(mutationFilters[at], points[i])
        BY <2>1, <2>3, Zenon
      <4>3. ~PointAsserts("ASTMutationFilter", points[i])
        BY <3>2, <4>1, <4>2
      <4> QED BY <4>3 DEF PointAsserts
    <3> QED BY <2>1, <2>2, <3>1, <3>2
  <2>5. PICK K : K = {p \in Range(points) : ~PointSkipped(mutationFilters[at], p)}
    OBVIOUS
  <2>6. PICK p \in Seq(MutationPoint) : p = points
    BY <2>2
  <2>7. PICK r \in Seq(MutationPoint) : r = Keep(p, K)
    BY KeepPicks
  <2>8. PICK g : Picks(g, r, p, K, Len(p))
    BY <2>7, KeepPicks
  <2>9. \A b \in 1 .. Len(r) : g[b] \in 1 .. Len(p) /\ r[b] = p[g[b]]
    BY <2>8 DEF Picks
  <2>10. \A b \in 1 .. Len(r) : ~Unanswerable(r[b])
    BY <2>4, <2>6, <2>9
  <2> QED BY <2>1, <2>5, <2>6, <2>7, <2>10
<1>2. CASE UNCHANGED vars \/ Ended
  BY <1>2 DEF Ended, vars, config, pipeline, Answered
<1>3. CASE Compilation \/ OtherMull
  BY <1>3 DEF Compilation, RecordFunctions, StartCompilation, GetObject, PutNothing,
     OpenFile, CloseFile, WriteFails, CompiledAll, Stop, OtherMull, OtherOpens, OtherCloses,
     OtherDies, OtherStep
<1>4. CASE FindTests
  BY <1>4 DEF FindTests, PipelineInv, Counters
<1>5. CASE FoundAll
  BY <1>5 DEF FoundAll
<1>6. ASSUME Search, ~FilterMutations, ~FindTests, ~FoundAll
      PROVE  phase' # "mutations"
  BY <1>6 DEF Search, LoadInstrumentedProgram, RunTest, TestedAll,
     MergeReachableFunctions, MergedAll, FilterFunctions, SelectInstructions,
     SearchMutationPoints, SearchedMutator, SearchedFunction, FilteredAll, Stop
<1> QED BY <1>1, <1>2, <1>3, <1>4, <1>5, <1>6 DEF Next

\* Filters end Mull only over points with a location.
LEMMA StopsAt ==
  ASSUME CacheInv, IndexInv, PipelineInv, Answered, StopInv, Next, why = Null,
         why' # Null
  PROVE  StopInv'
<1>1. CASE \E m \in Module : WriteFails(m)
  BY <1>1 DEF WriteFails, Stop, StopInv, StopsAreExplained
<1>2. CASE LoadInstrumentedProgram
  <2>1. /\ phase = "load" /\ phase' = "stopped" /\ why' = "object"
        /\ UNCHANGED compilation /\ \E m \in Module : objects[m] = << Null >>
    BY <1>2 DEF LoadInstrumentedProgram, Stop
  <2>2. PICK m \in Module : objects[m] = << Null >>
    BY <2>1
  <2>3. other[m] # "idle"
    <3>1. worker[m] = "done"
      BY <2>1 DEF IndexInv, ObjectInv
    <3>2. Definitions(m) # << Null >>
      BY DefinitionsAre
    <3> QED BY <2>2, <3>1, <3>2 DEF IndexInv, ObjectInv
  <2> QED BY <2>1, <2>3 DEF StopInv, StopsAreExplained, compilation
<1>3. CASE FilterFunctions
  <2>1. /\ phase = "functions" /\ at <= Len(functionFilters)
        /\ \E i \in DOMAIN under : LocationAsserts(functionFilters[at], under[i].fn)
    BY <1>3 DEF FilterFunctions
  <2>2. /\ under \in Seq(UnderTest) /\ at \in Nat \ {0}
        /\ UnderIs(under, reachable, Len(reachable), Passing(at - 1))
    BY <2>1 DEF PipelineInv, PipelineType, Filtering, IndexInv
  <2>3. at = 1 \/ at = 2
    <3>1. Len(functionFilters) = 2
      BY DEF functionFilters
    <3> QED BY <2>1, <2>2, <3>1
  <2>4. PICK i \in DOMAIN under : LocationAsserts(functionFilters[at], under[i].fn)
    BY <2>1
  <2>5. i \in 1 .. Len(under)
    <3>1. DOMAIN under = 1 .. Len(under)
      BY <2>2, LenProperties
    <3> QED BY <2>4, <3>1, Zenon
  <2>6. functionFilters[1] = "NoDebugInfoFilter" /\ functionFilters[2] = "FilePathFilter"
    BY DEF functionFilters
  <2>7. at = 2 /\ IsNull(under[i].fn)
    BY <2>3, <2>4, <2>6 DEF LocationAsserts
  <2>8. under[i].fn \in Passing(at - 1)
    BY <2>2, <2>5 DEF UnderIs
  <2>9. 1 \in 1 .. at - 1
    BY <2>7
  <2>10. ~LocationSkipped("NoDebugInfoFilter", under[i].fn)
    BY <2>6, <2>8, <2>9 DEF Passing
  <2> QED BY <2>7, <2>10 DEF LocationSkipped
<1>4. CASE FilterMutations
  <2>1. /\ phase = "mutations" /\ at <= Len(mutationFilters) /\ phase' = "stopped"
        /\ why' = mutationFilters[at] /\ points' = points /\ UNCHANGED config
        /\ \E i \in DOMAIN points : PointAsserts(mutationFilters[at], points[i])
    BY <1>4 DEF FilterMutations, Stop
  <2>2. /\ points \in Seq(MutationPoint) /\ PointsAre(points, reachable, Asked(at - 1))
        /\ at \in Nat \ {0}
    BY <2>1 DEF PipelineInv, PipelineType, FilteringPoints, IndexInv
  <2>3. PICK i \in DOMAIN points : PointAsserts(mutationFilters[at], points[i])
    BY <2>1
  <2>4. DOMAIN points = 1 .. Len(points)
    BY <2>2, LenProperties
  <2>5. i \in 1 .. Len(points)
    BY <2>3, <2>4, Zenon
  <2>6. PICK w : w = << points[i].fn, Key(points[i]) >>
    OBVIOUS
  <2>7. w \in Asked(at - 1)
    BY <2>2, <2>5, <2>6 DEF PointsAre
  <2>8. w[2][1] = points[i].mutator /\ w[2][2] = points[i].instruction
    BY <2>6 DEF Key
  <2>9. ~IsNull(points[i].instruction)
    BY <2>7, <2>8 DEF Asked
  <2>10. /\ mutationFilters[at] = "ASTMutationFilter" \/ mutationFilters[at] = "JunkMutationFilter"
         /\ mutationFilters[at] = "ASTMutationFilter" => Unanswerable(points[i])
         /\ mutationFilters[at] = "JunkMutationFilter" => Unlocatable(points[i])
    BY <2>3, <2>9 DEF PointAsserts, LocationAsserts
  <2>11. /\ mutationFilters[1] = "NoDebugInfoFilter" /\ mutationFilters[2] = "FilePathFilter"
         /\ info /\ (mutationFilters[at] = "ASTMutationFilter" => ast)
         /\ (ast /\ mutationFilters[at] = "JunkMutationFilter" => at > 3)
    <3>1. CASE ~info
      <4>1. at = 1 \/ at = 2
        <5>1. Len(mutationFilters) = 2
          BY <3>1, FiltersWithNone, Zenon
        <5> QED BY <2>1, <2>2, <5>1
      <4> QED BY <2>10, <3>1, <4>1, FiltersWithNone
    <3>2. CASE info /\ ~ast
      <4>1. at = 1 \/ at = 2 \/ at = 3
        <5>1. Len(mutationFilters) = 3
          BY <3>2, FiltersWithJunk, Zenon
        <5> QED BY <2>1, <2>2, <5>1
      <4> QED BY <2>10, <3>2, <4>1, FiltersWithJunk
    <3>3. CASE info /\ ast
      <4>1. at = 1 \/ at = 2 \/ at = 3 \/ at = 4
        <5>1. Len(mutationFilters) = 4
          BY <3>3, FiltersWithAST, Zenon
        <5> QED BY <2>1, <2>2, <5>1
      <4> QED BY <2>10, <3>3, <4>1, FiltersWithAST
    <3> QED BY <3>1, <3>2, <3>3
  <2>12. at > 2
    BY <2>2, <2>10, <2>11
  <2>13. ~PathSkipped(Location[points[i].instruction].path)
    <3>1. 2 \in 1 .. at - 1
      BY <2>2, <2>12
    <3>2. PICK x : x = [mutator |-> w[2][1], instruction |-> w[2][2]]
      OBVIOUS
    <3>3. ~PointSkipped(mutationFilters[2], x)
      BY <2>7, <3>1, <3>2, Zenon DEF Asked
    <3>4. x.instruction = points[i].instruction
      BY <2>8, <3>2
    <3>5. ~PointSkipped("FilePathFilter", x)
      BY <2>11, <3>3
    <3> QED BY <3>4, <3>5 DEF PointSkipped, LocationSkipped
  <2>14. mutationFilters[at] = "JunkMutationFilter" /\ ast
           => \A j \in DOMAIN points : ~Unanswerable(points[j])
    BY <2>1, <2>4, <2>11, Zenon DEF Answered
  <2>15. StopsAreExplained'
    <3>1. /\ info' <=> info
          /\ ast' <=> ast
          /\ filePath' = filePath
      BY <2>1 DEF config
    <3>2. \A x : PathSkipped(x)' <=> PathSkipped(x)
      BY <3>1 DEF PathSkipped
    <3>5. PICK y : y = points[i]
      OBVIOUS
    <3>6. points'[i] = y /\ i \in DOMAIN points'
      BY <2>1, <2>3, <3>5
    <3>3. CASE mutationFilters[at] = "ASTMutationFilter"
      <4>1. why' = "ASTMutationFilter" /\ ast' /\ info'
        BY <2>1, <2>11, <3>1, <3>3
      <4>2. /\ ~IsNull(y.instruction) /\ Unanswerable(y)
            /\ ~PathSkipped(Location[y.instruction].path)'
        BY <2>9, <2>10, <2>13, <3>2, <3>3, <3>5, Zenon
      <4> QED BY <3>6, <4>1, <4>2 DEF StopsAreExplained
    <3>4. CASE mutationFilters[at] = "JunkMutationFilter"
      <4>1. why' = "JunkMutationFilter" /\ info'
        BY <2>1, <2>11, <3>1, <3>4
      <4>2. /\ ~IsNull(y.instruction) /\ Unlocatable(y)
            /\ ~PathSkipped(Location[y.instruction].path)'
        BY <2>9, <2>10, <2>13, <3>2, <3>4, <3>5, Zenon
      <4>3. ast' => \A j \in DOMAIN points' : ~Unanswerable(points'[j])
        BY <2>1, <2>14, <3>1, <3>4
      <4> QED BY <3>6, <4>1, <4>2, <4>3 DEF StopsAreExplained
    <3> QED BY <2>10, <3>3, <3>4
  <2> QED BY <2>1, <2>15 DEF StopInv
<1>5. ASSUME ~ \E m \in Module : WriteFails(m), ~LoadInstrumentedProgram, ~FilterFunctions,
             ~FilterMutations
      PROVE  UNCHANGED why
  BY <1>5 DEF Next, Compilation, OtherMull, Search, Ended, RecordFunctions,
     StartCompilation, GetObject, PutNothing, OpenFile, CloseFile, CompiledAll,
     OtherOpens, OtherCloses, OtherDies, OtherStep, FindTests, RunTest, TestedAll,
     MergeReachableFunctions, MergedAll, SelectInstructions, SearchMutationPoints,
     SearchedMutator, SearchedFunction, FoundAll, FilteredAll, vars
<1> QED BY <1>1, <1>2, <1>3, <1>4, <1>5

\* Every step preserves the invariant of the stops.
LEMMA StopStep ==
  ASSUME CacheInv, IndexInv, PipelineInv, Answered, StopInv, [Next]_vars
  PROVE  StopInv'
<1> SUFFICES StopInv'
  OBVIOUS
<1>1. CASE why' = Null
  BY <1>1 DEF StopInv
<1>2. CASE why = Null /\ why' # Null
  <2>1. Next
    BY <1>2 DEF vars
  <2> QED BY <1>2, <2>1, StopsAt
<1>3. CASE why # Null
  <2>1. phase = "stopped" /\ StopsAreExplained
    BY <1>3 DEF StopInv
  <2>2. Ended \/ UNCHANGED vars
    BY <2>1 DEF Next, Compilation, OtherMull, Search, RecordFunctions,
       StartCompilation, GetObject, PutNothing, OpenFile, CloseFile, CompiledAll, WriteFails,
       OtherOpens, OtherCloses, OtherDies, OtherStep, FindTests, LoadInstrumentedProgram,
       RunTest, TestedAll, MergeReachableFunctions, MergedAll, FilterFunctions,
       SelectInstructions, SearchMutationPoints, SearchedMutator, SearchedFunction, FoundAll,
       FilterMutations, FilteredAll
  <2>3. /\ phase' = phase /\ why' = why /\ other' = other /\ points' = points
        /\ filePath' = filePath /\ (info' <=> info) /\ (ast' <=> ast)
    BY <2>2 DEF Ended, vars, compilation, pipeline, config
  <2> QED BY <2>1, <2>3 DEF StopInv, StopsAreExplained, PathSkipped
<1> QED BY <1>1, <1>2, <1>3

\* The whole invariant holds in every reachable state.
LEMMA Invariance == Spec => [](CacheInv /\ IndexInv /\ PipelineInv /\ Answered /\ StopInv)
<1>1. Init => CacheInv /\ IndexInv /\ PipelineInv /\ Answered /\ StopInv
  BY CacheInit, IndexInit, PipelineInit DEF Init, Answered
<1>2. CacheInv /\ IndexInv /\ PipelineInv /\ Answered /\ StopInv /\ [Next]_vars
        => (CacheInv /\ IndexInv /\ PipelineInv /\ Answered /\ StopInv)'
  BY CacheStep, IndexStep, PipelineStep, AnsweredStep, StopStep
<1> QED BY <1>1, <1>2, PTL DEF Spec

\* Mull stops before the end only over what StopsAreExplained names: the assertion of
\* FilePathFilter never fires, and the filters that use the AST end it only over a
\* located point on an allowed path that they cannot find in the source.
THEOREM StopsAreExplainedHolds == Spec => []StopsAreExplained
<1>1. StopInv => StopsAreExplained
  BY DEF StopInv, StopsAreExplained
<1> QED BY <1>1, Invariance, PTL

-----------------------------------------------------------------------------
(* What goes to runMutations.                                              *)

\* The order of the points.
THEOREM MutantsKeepOrderHolds == Spec => []MutantsKeepOrder
<1>1. PipelineInv => MutantsKeepOrder
  <2> SUFFICES ASSUME PipelineInv, phase = "run", NEW i \in DOMAIN points,
                      NEW j \in DOMAIN points, i < j
               PROVE  FirstReached(points[i].fn) <= FirstReached(points[j].fn)
    BY DEF MutantsKeepOrder
  <2>1. points \in Seq(MutationPoint) /\ OrderIs(points, reachable)
    BY DEF PipelineInv, PipelineType, FilteringPoints, PointsAre
  <2>2. DOMAIN points = 1 .. Len(points)
    BY <2>1, LenProperties
  <2>3. i \in 1 .. Len(points) /\ j \in 1 .. Len(points)
    BY <2>2, Zenon
  <2>4. First(reachable, points[i].fn) <= First(reachable, points[j].fn)
    BY <2>1, <2>3 DEF OrderIs
  <2>5. \A f : FirstReached(f) = First(reachable, f)
    BY Zenon DEF FirstReached, First
  <2> QED BY <2>4, <2>5
<1> QED BY <1>1, Invariance, PTL

\* A test reaches a function exactly when the function has hits.
LEMMA HitsOfReached ==
  ASSUME NEW q \in Seq(ReachedFn), NEW f
  PROVE  HitsIn(q, f) # << >> <=> IsReached(q, f)
<1>1. PICK k, h : HitsFrom(k, h, q, f)
  BY HitsAre
<1>2. /\ k \in Seq(ReachedFn) /\ h \in Seq(Hits) /\ k = Keep(q, Of(f))
      /\ h = HitsIn(q, f) /\ Len(h) = Len(k)
  BY <1>1 DEF HitsFrom
<1>3. Range(k) = Range(q) \cap Of(f)
  BY <1>2, KeepRange
<1>4. DOMAIN q = 1 .. Len(q) /\ DOMAIN k = 1 .. Len(k)
  BY <1>2, LenProperties
<1>5. ASSUME NEW i \in 1 .. Len(q), q[i].fn = f PROVE HitsIn(q, f) # << >>
  <2>1. q[i] \in Range(q)
    BY <1>4, Zenon DEF Range
  <2>2. q[i] \in Of(f)
    BY <1>5 DEF Of
  <2>3. q[i] \in Range(k)
    BY <1>3, <2>1, <2>2
  <2>4. PICK j \in 1 .. Len(k) : k[j] = q[i]
    BY <1>4, <2>3, Zenon DEF Range
  <2>5. Len(h) # 0
    BY <1>2, <2>4
  <2> QED BY <1>2, <2>5
<1>6. ASSUME HitsIn(q, f) # << >> PROVE IsReached(q, f)
  <2>1. Len(k) # 0 /\ Len(k) \in Nat
    BY <1>2, <1>6, EmptySeq
  <2>2. 1 \in 1 .. Len(k)
    BY <2>1
  <2>3. k[1] \in Range(k)
    BY <1>4, <2>2, Zenon DEF Range
  <2>4. k[1] \in Range(q) /\ k[1] \in Of(f)
    BY <1>3, <2>3
  <2>5. PICK i \in 1 .. Len(q) : q[i] = k[1]
    BY <1>4, <2>4, Zenon DEF Range
  <2> QED BY <2>4, <2>5 DEF Of, IsReached
<1> QED BY <1>5, <1>6 DEF IsReached

\* A path is skipped exactly when the options do not allow it.
LEMMA SkippedIsNotAllowed == \A path : PathSkipped(path) <=> ~Allowed(path)
<1> TAKE path
<1>1. CASE filePath.include = {}
  BY <1>1 DEF PathSkipped, Allowed
<1>2. CASE filePath.include # {}
  BY <1>2 DEF PathSkipped, Allowed
<1> QED BY <1>1, <1>2

\* Which functions are let through.
LEMMA PassingIs ==
  ASSUME NEW f \in Fn
  PROVE  f \in Passing(2) <=> ~IsNull(f) /\ Allowed(Location[f].path)
<1>1. functionFilters[1] = "NoDebugInfoFilter" /\ functionFilters[2] = "FilePathFilter"
  BY DEF functionFilters
<1>2. \A i : i \in 1 .. 2 <=> i = 1 \/ i = 2
  OBVIOUS
<1>3. f \in Passing(2) <=> /\ ~LocationSkipped("NoDebugInfoFilter", f)
                           /\ ~LocationSkipped("FilePathFilter", f)
  BY <1>1, <1>2, Zenon DEF Passing
<1>4. LocationSkipped("NoDebugInfoFilter", f) <=> IsNull(f)
  BY DEF LocationSkipped
<1>5. LocationSkipped("FilePathFilter", f) <=> ~Allowed(Location[f].path)
  BY SkippedIsNotAllowed DEF LocationSkipped
<1> QED BY <1>3, <1>4, <1>5

\* Which points are let through.
LEMMA LetThrough ==
  ASSUME NEW p
  PROVE  (\A i \in 1 .. Len(mutationFilters) : ~PointSkipped(mutationFilters[i], p))
           <=> /\ ~IsNull(p.instruction) /\ Allowed(Location[p.instruction].path)
               /\ info => Identifier(p) \notin Junk
               /\ (info /\ ast) => Identifier(p) \in InAST
<1>1. /\ PointSkipped("NoDebugInfoFilter", p) <=> IsNull(p.instruction)
      /\ PointSkipped("FilePathFilter", p) <=> ~Allowed(Location[p.instruction].path)
  BY SkippedIsNotAllowed DEF PointSkipped, LocationSkipped
<1>2. /\ PointSkipped("ASTMutationFilter", p) <=> Identifier(p) \notin InAST
      /\ PointSkipped("JunkMutationFilter", p) <=> IsNull(p.instruction) \/ Identifier(p) \in Junk
  BY DEF PointSkipped
<1>3. PICK G : G = {g \in {"NoDebugInfoFilter", "FilePathFilter", "ASTMutationFilter", "JunkMutationFilter"} :
                      \/ g \in {"NoDebugInfoFilter", "FilePathFilter"}
                      \/ g = "ASTMutationFilter" /\ ast /\ info
                      \/ g = "JunkMutationFilter" /\ info}
  OBVIOUS
<1>4. \A g : (\E i \in 1 .. Len(mutationFilters) : mutationFilters[i] = g) <=> g \in G
  BY <1>3, MutationFiltersAre
<1>5. (\A i \in 1 .. Len(mutationFilters) : ~PointSkipped(mutationFilters[i], p))
        <=> \A g \in G : ~PointSkipped(g, p)
  BY <1>4, Zenon
<1>6. (\A g \in G : ~PointSkipped(g, p))
        <=> /\ ~PointSkipped("NoDebugInfoFilter", p) /\ ~PointSkipped("FilePathFilter", p)
            /\ (ast /\ info) => ~PointSkipped("ASTMutationFilter", p)
            /\ info => ~PointSkipped("JunkMutationFilter", p)
  BY <1>3, Zenon
<1> QED BY <1>1, <1>2, <1>5, <1>6

\* The mutations that are asked for in the functions that are reached are the wanted ones.
LEMMA AskedAreWanted ==
  ASSUME TestedInv, reachable \in Seq(ReachedFn), NEW f \in Fn, NEW k \in CanMutate
  PROVE  (<< f, k >> \in Asked(Len(mutationFilters)) /\ IsReached(reachable, f))
           <=> k[2] \in Range(Instructions[f]) /\ Wanted(k[1], k[2], f)
<1>1. ReachedBy(f) # << >> <=> IsReached(reachable, f)
  BY HitsOfReached DEF TestedInv
<1>2. PICK p : p = [mutator |-> k[1], instruction |-> k[2]]
  OBVIOUS
<1>4. p.instruction = k[2] /\ Identifier(p) = << k[1], k[2] >>
  BY <1>2 DEF Identifier
<1>5. << f, k >> \in Asked(Len(mutationFilters))
        <=> /\ f \in Passing(2) /\ k[2] \in Range(Instructions[f]) /\ ~IsNull(k[2])
            /\ \A i \in 1 .. Len(mutationFilters) : ~PointSkipped(mutationFilters[i], p)
  <2>1. << f, k >> \in Fn \X CanMutate /\ << f, k >>[1] = f /\ << f, k >>[2] = k
    OBVIOUS
  <2> QED BY <1>2, <2>1, Zenon DEF Asked
<1>6. (\A i \in 1 .. Len(mutationFilters) : ~PointSkipped(mutationFilters[i], p))
        <=> /\ ~IsNull(k[2]) /\ Allowed(Location[k[2]].path)
            /\ info => << k[1], k[2] >> \notin Junk
            /\ (info /\ ast) => << k[1], k[2] >> \in InAST
  BY <1>4, LetThrough
<1>7. Wanted(k[1], k[2], f)
        <=> /\ ReachedBy(f) # << >>
            /\ ~IsNull(f) /\ Allowed(Location[f].path)
            /\ ~IsNull(k[2]) /\ Allowed(Location[k[2]].path)
            /\ info => << k[1], k[2] >> \notin Junk
            /\ (info /\ ast) => << k[1], k[2] >> \in InAST
  BY Zenon DEF Wanted
<1> QED BY <1>1, <1>5, <1>6, <1>7, PassingIs

\* What goes to runMutations is what was asked for, a point for each low level mutation,
\* once, with its tests.
THEOREM PointsAreExactHolds == Spec => []PointsAreExact
<1>1. PipelineInv => PointsAreExact
  <2> SUFFICES ASSUME PipelineInv, phase = "run" PROVE PointsAreExact
    BY DEF PointsAreExact
  <2>1. PICK W : W = Asked(Len(mutationFilters))
    OBVIOUS
  <2>2. /\ points \in Seq(MutationPoint) /\ reachable \in Seq(ReachedFn) /\ TestedInv
        /\ PointsAre(points, reachable, W)
    BY <2>1 DEF PipelineInv, PipelineType, FilteringPoints
  <2>3. DOMAIN points = 1 .. Len(points)
    BY <2>2, LenProperties
  <2>4. ASSUME NEW i \in DOMAIN points
        PROVE  /\ points[i].fn \in Fn /\ Key(points[i]) \in CanMutate
               /\ << points[i].fn, Key(points[i]) >> \in W
               /\ IsReached(reachable, points[i].fn)
               /\ points[i].tests = HitsIn(reachable, points[i].fn)
    <3>1. i \in 1 .. Len(points)
      BY <2>3, Zenon
    <3>2. /\ << points[i].fn, Key(points[i]) >> \in W
          /\ IsReached(reachable, points[i].fn)
          /\ points[i].tests = HitsIn(reachable, points[i].fn)
      BY <2>2, <3>1 DEF PointsAre
    <3>3. << points[i].fn, Key(points[i]) >> \in Fn \X CanMutate
      BY <2>1, <3>2, Zenon DEF Asked
    <3> QED BY <3>2, <3>3
  <2>5. ASSUME NEW i \in DOMAIN points
        PROVE  /\ points[i].instruction \in Range(Instructions[points[i].fn])
               /\ points[i].tests = ReachedBy(points[i].fn)
               /\ Key(points[i])[2] \in Range(Instructions[points[i].fn])
               /\ Wanted(Key(points[i])[1], Key(points[i])[2], points[i].fn)
    <3>1. /\ Key(points[i])[2] \in Range(Instructions[points[i].fn])
          /\ Wanted(Key(points[i])[1], Key(points[i])[2], points[i].fn)
      BY <2>1, <2>2, <2>4, AskedAreWanted
    <3>2. Key(points[i])[2] = points[i].instruction
      BY DEF Key
    <3>3. points[i].tests = ReachedBy(points[i].fn)
      BY <2>2, <2>4 DEF TestedInv
    <3> QED BY <3>1, <3>2, <3>3
  <2>6. ASSUME NEW k \in CanMutate, NEW f \in Fn, k[2] \in Range(Instructions[f]),
               Wanted(k[1], k[2], f)
        PROVE  \E i \in DOMAIN points : Key(points[i]) = k
    <3>1. << f, k >> \in W /\ IsReached(reachable, f)
      BY <2>1, <2>2, <2>6, AskedAreWanted
    <3>2. << f, k >>[1] = f /\ << f, k >>[2] = k
      OBVIOUS
    <3>3. \A w \in W : IsReached(reachable, w[1]) =>
            \E i \in 1 .. Len(points) : Key(points[i]) = w[2] /\ points[i].fn = w[1]
      BY <2>2 DEF PointsAre
    <3>4. \E i \in 1 .. Len(points) : Key(points[i]) = k
      BY <3>1, <3>2, <3>3, Zenon
    <3> QED BY <2>3, <3>4, Zenon
  <2>7. {Key(points[i]) : i \in DOMAIN points} =
          {k \in CanMutate : \E f \in Fn : /\ k[2] \in Range(Instructions[f])
                                           /\ Wanted(k[1], k[2], f)}
    BY <2>4, <2>5, <2>6, Zenon
  <2>8. \A i, j \in DOMAIN points : Key(points[i]) = Key(points[j]) => i = j
    <3>1. \A i, j \in 1 .. Len(points) : Key(points[i]) = Key(points[j]) => i = j
      BY <2>2 DEF PointsAre, OrderIs
    <3> QED BY <2>3, <3>1, Zenon
  <2> QED BY <2>5, <2>7, <2>8, Zenon DEF PointsAreExact
<1> QED BY <1>1, Invariance, PTL
=============================================================================
