---------------------------- MODULE ListsProofs ----------------------------
(***************************************************************************)
(* Induction on the natural numbers, from the well-founded orderings of     *)
(* the library, and what it shows of Picked, for every list.                *)
(***************************************************************************)
EXTENDS Lists, Integers, FiniteSetTheorems, SequenceTheorems, TLAPS

\* A set of natural numbers that is not empty has a least element: of the
\* intervals 0 .. n with n in the set, one is contained in all others.
LEMMA LeastNumber ==
  ASSUME NEW T, T \subseteq Nat, T # {}
  PROVE  \E m \in T : \A k \in T : m <= k
<1> DEFINE Below(n) == 0 .. n
           U == {Below(n) : n \in T}
<1>1. IsWellFoundedOn(StrictSubsetOrdering(Nat), FiniteSubsetsOf(Nat))
  BY FS_StrictSubsetOrderingWellFounded
<1>2. \A n \in Nat : Below(n) \in FiniteSubsetsOf(Nat)
  <2> TAKE n \in Nat
  <2>1. IsFiniteSet(0 .. n)
    BY FS_Interval
  <2> QED
    BY <2>1 DEF FiniteSubsetsOf
<1>3. U \subseteq FiniteSubsetsOf(Nat) /\ U # {}
  BY <1>2
<1> HIDE DEF U
<1>4. PICK x \in U : \A y \in U : ~ (<<y, x>> \in StrictSubsetOrdering(Nat))
  BY <1>1, <1>3, WFMin
<1>5. PICK m \in T : x = Below(m)
  BY <1>4 DEF U
<1>6. ASSUME NEW k \in T, k < m PROVE FALSE
  <2>1. Below(k) \in U
    BY DEF U
  <2>2. m \in Below(m) /\ m \notin Below(k)
    BY <1>6
  <2>3. <<Below(k), Below(m)>> \in StrictSubsetOrdering(Nat)
    BY <1>6, <2>2 DEF StrictSubsetOrdering
  <2> QED
    BY <2>1, <2>3, <1>4, <1>5
<1> QED
  BY <1>6

\* Induction up to a bound, for a property given as the set of those that have it.
LEMMA Induction ==
  ASSUME NEW n \in Nat, NEW T, 0 \in T, \A k \in 0 .. (n - 1) : k \in T => k + 1 \in T
  PROVE  0 .. n \subseteq T
<1> DEFINE Rest == {k \in 0 .. n : k \notin T}
<1>1. SUFFICES ASSUME Rest # {} PROVE FALSE
  OBVIOUS
<1>2. PICK m \in Rest : \A k \in Rest : m <= k
  <2>1. Rest \subseteq Nat
    OBVIOUS
  <2> HIDE DEF Rest
  <2> QED
    BY <1>1, <2>1, LeastNumber
<1>3. m # 0 /\ m - 1 \in 0 .. (n - 1) /\ m - 1 \notin Rest
  BY <1>2
<1>4. m - 1 \in T
  BY <1>3
<1>5. (m - 1) + 1 \in T
  BY <1>3, <1>4
<1> QED
  BY <1>2, <1>3, <1>5

\* The states a loop of n turns goes through.
Iterates(g, b, F, n) == g[0] = b /\ \A i \in 1 .. n : g[i] = F[<<g[i - 1], i>>]

\* There are such states, for a body given as a function of the state and
\* the turn.
LEMMA Iteration ==
  ASSUME NEW St, NEW b \in St, NEW n \in Nat, NEW F \in [St \X (1 .. n) -> St]
  PROVE  \E g \in [0 .. n -> St] : Iterates(g, b, F, n)
<1> DEFINE Runs(g, k) == /\ g \in [0 .. k -> St] /\ g[0] = b
                         /\ \A i \in 1 .. k : g[i] = F[<<g[i - 1], i>>]
           T == {k \in 0 .. n : \E g : Runs(g, k)}
<1>1. 0 \in T
  <2> DEFINE g == [i \in 0 .. 0 |-> b]
  <2>1. Runs(g, 0) /\ 0 \in 0 .. n
    OBVIOUS
  <2> HIDE DEF g
  <2> QED
    BY <2>1
<1>2. ASSUME NEW k \in 0 .. (n - 1), k \in T PROVE k + 1 \in T
  <2>1. PICK g : Runs(g, k)
    BY <1>2
  <2> DEFINE last == F[<<g[k], k + 1>>]
             h == [i \in 0 .. (k + 1) |-> IF i = k + 1 THEN last ELSE g[i]]
  <2>2. g[k] \in St /\ k + 1 \in 1 .. n
    BY <2>1
  <2>3. last \in St
    BY <2>2
  <2>4. h \in [0 .. (k + 1) -> St] /\ h[0] = b
    BY <2>1, <2>3
  <2>5. ASSUME NEW i \in 1 .. (k + 1) PROVE h[i] = F[<<h[i - 1], i>>]
    <3>1. CASE i = k + 1
      <4>1. h[i] = last /\ h[k] = g[k] /\ i - 1 = k
        BY <3>1
      <4> QED
        BY <3>1, <4>1
    <3>2. CASE i # k + 1
      <4>1. i \in 1 .. k /\ h[i] = g[i] /\ h[i - 1] = g[i - 1]
        BY <3>2
      <4> QED
        BY <2>1, <4>1
    <3> QED
      BY <3>1, <3>2
  <2> HIDE DEF h, last
  <2>6. Runs(h, k + 1)
    BY <2>4, <2>5
  <2> QED
    BY <2>2, <2>6
<1> HIDE DEF T
<1>3. 0 .. n \subseteq T
  BY <1>1, <1>2, Induction
<1>4. n \in T
  BY <1>3
<1> QED
  BY <1>4 DEF T, Iterates

-----------------------------------------------------------------------------
(* Picked.                                                                 *)

\* g makes the lists that the first n positions give.
PicksUpTo(s, keep, g, n) ==
  g = [i \in 0 .. n |->
         IF i = 0 THEN <<>>
         ELSE IF i \in keep THEN Append(g[i - 1], s[i]) ELSE g[i - 1]]

\* There is such a function: each value depends on the one before it.
LEMMA PicksExist ==
  ASSUME NEW S, NEW s \in Seq(S), NEW keep, NEW n \in Nat
  PROVE  \E g : PicksUpTo(s, keep, g, n)
<1> DEFINE T == {k \in 0 .. n : \E g : PicksUpTo(s, keep, g, k)}
<1>1. 0 \in T
  <2> DEFINE g == [i \in 0 .. 0 |-> <<>>]
  <2>1. PicksUpTo(s, keep, g, 0)
    BY DEF PicksUpTo
  <2> QED
    BY <2>1
<1>2. ASSUME NEW k \in 0 .. (n - 1), k \in T PROVE k + 1 \in T
  <2>1. PICK g : PicksUpTo(s, keep, g, k)
    BY <1>2
  <2> DEFINE last == IF k + 1 \in keep THEN Append(g[k], s[k + 1]) ELSE g[k]
             h == [i \in 0 .. (k + 1) |-> IF i = k + 1 THEN last ELSE g[i]]
             r == [i \in 0 .. (k + 1) |->
                     IF i = 0 THEN <<>>
                     ELSE IF i \in keep THEN Append(h[i - 1], s[i]) ELSE h[i - 1]]
  <2>2. ASSUME NEW i \in 0 .. (k + 1) PROVE h[i] = r[i]
    <3>1. CASE i = k + 1
      <4>1. h[i] = last /\ h[k] = g[k] /\ i # 0 /\ i - 1 = k
        BY <3>1
      <4> QED
        BY <3>1, <4>1
    <3>2. CASE i = 0
      <4>1. h[i] = g[i]
        BY <3>2
      <4> QED
        BY <2>1, <3>2, <4>1 DEF PicksUpTo
    <3>3. CASE i # 0 /\ i # k + 1
      <4>1. i - 1 \in 0 .. k /\ i \in 0 .. k /\ h[i] = g[i] /\ h[i - 1] = g[i - 1]
        BY <3>3
      <4>2. g[i] = IF i \in keep THEN Append(g[i - 1], s[i]) ELSE g[i - 1]
        BY <2>1, <3>3, <4>1 DEF PicksUpTo
      <4>3. r[i] = IF i \in keep THEN Append(h[i - 1], s[i]) ELSE h[i - 1]
        BY <3>3
      <4> QED
        BY <4>1, <4>2, <4>3
    <3> QED
      BY <3>1, <3>2, <3>3
  <2>3. h = r
    BY <2>2
  <2>4. PicksUpTo(s, keep, h, k + 1)
    BY <2>3 DEF PicksUpTo
  <2> QED
    BY <2>4
<1>3. n \in 0 .. n
  OBVIOUS
<1> HIDE DEF T
<1>4. 0 .. n \subseteq T
  BY <1>1, <1>2, Induction
<1> QED
  BY <1>3, <1>4 DEF T

\* The values of that function, the last of which is Picked.
Steps(s, keep, g, n) ==
  /\ Picked(s, keep) = g[n]
  /\ g[0] = <<>>
  /\ \A i \in 1 .. n : i \in keep => g[i] = Append(g[i - 1], s[i])
  /\ \A i \in 1 .. n : i \notin keep => g[i] = g[i - 1]

LEMMA PickedSteps ==
  ASSUME NEW S, NEW s \in Seq(S), NEW keep, NEW n \in Nat, n = Len(s)
  PROVE  \E g : Steps(s, keep, g, n)
<1>1. PICK h : PicksUpTo(s, keep, h, n)
  BY PicksExist
<1> DEFINE g == CHOOSE f : PicksUpTo(s, keep, f, n)
<1>2. PicksUpTo(s, keep, g, n)
  BY <1>1
<1>3. Picked(s, keep) = g[n]
  BY DEF Picked, PicksUpTo
<1> HIDE DEF g
<1>4. \A i \in 0 .. n : g[i] = IF i = 0 THEN <<>>
                               ELSE IF i \in keep THEN Append(g[i - 1], s[i]) ELSE g[i - 1]
  BY <1>2 DEF PicksUpTo
<1>5. 0 \in 0 .. n /\ \A i \in 1 .. n : i \in 0 .. n /\ i # 0
  OBVIOUS
<1>6. g[0] = <<>>
  BY <1>4, <1>5
<1>7. \A i \in 1 .. n : g[i] = IF i \in keep THEN Append(g[i - 1], s[i]) ELSE g[i - 1]
  BY <1>4, <1>5
<1>8. \A i \in 1 .. n : i \in keep => g[i] = Append(g[i - 1], s[i])
  BY <1>7
<1>9. \A i \in 1 .. n : i \notin keep => g[i] = g[i - 1]
  BY <1>7
<1> QED
  BY <1>3, <1>6, <1>8, <1>9 DEF Steps

\* The positions that p holds, in order: all in keep, and all of keep up to n.
Positions(s, keep, p, n, at) ==
  /\ at \in [1 .. Len(p) -> keep \cap (1 .. n)]
  /\ \A k \in 1 .. Len(p) : p[k] = s[at[k]]
  /\ \A j, k \in 1 .. Len(p) : j < k => at[j] < at[k]
  /\ \A i \in keep \cap (1 .. n) : \E k \in 1 .. Len(p) : at[k] = i

\* Picked is the list of the elements at the positions in keep: every one, once,
\* in their order, and nothing else.
LEMMA PickedIsSelection ==
  ASSUME NEW S, NEW s \in Seq(S), NEW keep
  PROVE  /\ Picked(s, keep) \in Seq(S)
         /\ \E at : Positions(s, keep, Picked(s, keep), Len(s), at)
<1>1. PICK size \in Nat : size = Len(s)
  OBVIOUS
<1>2. PICK f : Steps(s, keep, f, size)
  BY <1>1, PickedSteps
<1>3. Picked(s, keep) = f[size]
  BY <1>2 DEF Steps
<1>4. /\ f[0] = <<>>
      /\ \A i \in 1 .. size : i \in keep => f[i] = Append(f[i - 1], s[i])
      /\ \A i \in 1 .. size : i \notin keep => f[i] = f[i - 1]
  BY <1>2 DEF Steps
<1> DEFINE T == {n \in 0 .. size : f[n] \in Seq(S) /\ \E at : Positions(s, keep, f[n], n, at)}
<1>5. 0 \in T
  <2>1. Positions(s, keep, <<>>, 0, [k \in 1 .. 0 |-> 0])
    BY DEF Positions
  <2>2. f[0] \in Seq(S) /\ \E at : Positions(s, keep, f[0], 0, at)
    BY <1>4, <2>1
  <2>3. 0 \in 0 .. size
    BY <1>1
  <2> QED
    BY <2>2, <2>3
<1>6. ASSUME NEW n \in 0 .. (size - 1), n \in T PROVE n + 1 \in T
  <2>1. PICK at : Positions(s, keep, f[n], n, at)
    BY <1>6
  <2>2. f[n] \in Seq(S) /\ n + 1 \in 1 .. size /\ (n + 1) - 1 = n
    BY <1>6
  <2>3. CASE n + 1 \notin keep
    <3>1. f[n + 1] = f[n]
      BY <1>4, <2>2, <2>3
    <3>2. keep \cap (1 .. (n + 1)) = keep \cap (1 .. n)
      BY <2>2, <2>3
    <3>3. Positions(s, keep, f[n + 1], n + 1, at)
      BY <2>1, <3>1, <3>2 DEF Positions
    <3> QED
      BY <2>2, <3>1, <3>3
  <2>4. CASE n + 1 \in keep
    <3> DEFINE m == Len(f[n])
               more == [k \in 1 .. (m + 1) |-> IF k = m + 1 THEN n + 1 ELSE at[k]]
    <3>1. f[n + 1] = Append(f[n], s[n + 1]) /\ s[n + 1] \in S
      <4>1. f[n + 1] = Append(f[(n + 1) - 1], s[n + 1])
        BY <1>4, <2>2, <2>4
      <4> QED
        BY <1>1, <2>2, <4>1
    <3>2. /\ f[n + 1] \in Seq(S) /\ Len(f[n + 1]) = m + 1 /\ m \in Nat
          /\ f[n + 1][m + 1] = s[n + 1] /\ \A k \in 1 .. m : f[n + 1][k] = f[n][k]
      BY <2>2, <3>1, AppendProperties
    <3>3. more \in [1 .. (m + 1) -> keep \cap (1 .. (n + 1))]
      BY <2>1, <2>2, <2>4, <3>2 DEF Positions
    <3>4. \A k \in 1 .. (m + 1) : f[n + 1][k] = s[more[k]]
      BY <2>1, <3>2 DEF Positions
    <3>5. \A j, k \in 1 .. (m + 1) : j < k => more[j] < more[k]
      <4> SUFFICES ASSUME NEW j \in 1 .. (m + 1), NEW k \in 1 .. (m + 1), j < k
                   PROVE  more[j] < more[k]
        OBVIOUS
      <4>1. j \in 1 .. m /\ j # m + 1
        BY <3>2
      <4>2. more[j] = at[j] /\ at[j] \in 1 .. n
        BY <2>1, <4>1 DEF Positions
      <4>3. CASE k = m + 1
        BY <2>2, <4>2, <4>3
      <4>4. CASE k # m + 1
        <5>1. k \in 1 .. m /\ more[k] = at[k]
          BY <3>2, <4>4
        <5> QED
          BY <2>1, <4>1, <4>2, <5>1 DEF Positions
      <4> QED
        BY <4>3, <4>4
    <3>6. ASSUME NEW i \in keep \cap (1 .. (n + 1)) PROVE \E k \in 1 .. (m + 1) : more[k] = i
      <4>1. CASE i = n + 1
        <5>1. m + 1 \in 1 .. (m + 1) /\ more[m + 1] = i
          BY <3>2, <4>1
        <5> QED
          BY <5>1
      <4>2. CASE i # n + 1
        <5>1. i \in keep \cap (1 .. n)
          BY <2>2, <4>2
        <5>2. PICK k \in 1 .. m : at[k] = i
          BY <2>1, <5>1 DEF Positions
        <5>3. k \in 1 .. (m + 1) /\ k # m + 1
          BY <3>2
        <5> QED
          BY <5>2, <5>3
      <4> QED
        BY <4>1, <4>2
    <3> HIDE DEF more
    <3>7. Positions(s, keep, f[n + 1], n + 1, more)
      BY <3>2, <3>3, <3>4, <3>5, <3>6 DEF Positions
    <3> QED
      BY <2>2, <3>2, <3>7
  <2> QED
    BY <2>3, <2>4
<1> HIDE DEF T
<1>7. 0 .. size \subseteq T
  BY <1>1, <1>5, <1>6, Induction
<1> QED
  BY <1>1, <1>3, <1>7 DEF T

\* An element stands no earlier in a list than among those that are picked.
LEMMA PositionsGrow ==
  ASSUME NEW s, NEW keep, NEW p, NEW n \in Nat, NEW at, Positions(s, keep, p, n, at), Len(p) \in Nat
  PROVE  /\ \A k \in 1 .. Len(p) : at[k] \in 1 .. n /\ k <= at[k]
         /\ Len(p) <= n
<1>1. \A k \in 1 .. Len(p) : at[k] \in 1 .. n
  BY DEF Positions
<1>2. \A j, k \in 1 .. Len(p) : j < k => at[j] < at[k]
  BY DEF Positions
<1>3. ASSUME NEW k \in 1 .. Len(p) PROVE k <= at[k]
  <2> DEFINE Odd == {j \in 1 .. Len(p) : ~ (j <= at[j])}
  <2>1. SUFFICES ASSUME Odd # {} PROVE FALSE
    BY <1>3
  <2>2. PICK m \in Odd : \A j \in Odd : m <= j
    <3>1. Odd \subseteq Nat
      OBVIOUS
    <3> HIDE DEF Odd
    <3> QED
      BY <2>1, <3>1, LeastNumber
  <2>3. m \in 1 .. Len(p) /\ at[m] \in 1 .. n /\ at[m] < m
    BY <1>1, <2>2
  <2>4. m - 1 \in 1 .. Len(p) /\ m - 1 < m
    BY <2>3
  <2>5. at[m - 1] < at[m] /\ at[m - 1] \in 1 .. n
    BY <1>1, <1>2, <2>3, <2>4
  <2>6. m - 1 <= at[m - 1]
    BY <2>2, <2>3, <2>4
  <2> QED
    BY <2>3, <2>5, <2>6
<1>4. Len(p) <= n
  <2>1. CASE Len(p) = 0
    BY <2>1
  <2>2. CASE Len(p) # 0
    <3>1. Len(p) \in 1 .. Len(p)
      BY <2>2
    <3>2. at[Len(p)] \in 1 .. n /\ Len(p) <= at[Len(p)]
      BY <1>1, <1>3, <3>1
    <3> QED
      BY <3>2
  <2> QED
    BY <2>1, <2>2
<1> QED
  BY <1>1, <1>3, <1>4

\* To pick every position is to copy the list.
LEMMA PickedAll ==
  ASSUME NEW S, NEW s \in Seq(S), NEW keep, 1 .. Len(s) \subseteq keep
  PROVE  Picked(s, keep) = s
<1>1. PICK size \in Nat : size = Len(s)
  OBVIOUS
<1>2. PICK f : Steps(s, keep, f, size)
  BY <1>1, PickedSteps
<1>3. Picked(s, keep) = f[size]
  BY <1>2 DEF Steps
<1>4. /\ f[0] = <<>>
      /\ \A i \in 1 .. size : i \in keep => f[i] = Append(f[i - 1], s[i])
      /\ \A i \in 1 .. size : i \notin keep => f[i] = f[i - 1]
  BY <1>2 DEF Steps
<1> DEFINE T == {n \in 0 .. size : f[n] = SubSeq(s, 1, n)}
<1>5. 0 \in T
  <2>1. f[0] = SubSeq(s, 1, 0)
    BY <1>4, SubSeqEmpty
  <2> QED
    BY <1>1, <2>1
<1>6. ASSUME NEW n \in 0 .. (size - 1), n \in T PROVE n + 1 \in T
  <2>1. n + 1 \in 1 .. size /\ (n + 1) - 1 = n /\ f[n] = SubSeq(s, 1, n)
    BY <1>6
  <2>2. s[n + 1] \in S /\ SubSeq(s, 1, n) \in Seq(S)
    BY <1>1, <2>1
  <2>3. f[n + 1] = Append(f[(n + 1) - 1], s[n + 1])
    BY <1>1, <1>4, <2>1
  <2>4. f[n + 1] = Append(SubSeq(s, 1, n), s[n + 1])
    BY <2>1, <2>3
  <2>5. SubSeq(s, 1, n + 1) = SubSeq(s, 1, n) \o <<s[n + 1]>>
    BY <1>1, <2>1, SubSeqRecursiveSecond
  <2>6. Append(SubSeq(s, 1, n), s[n + 1]) = SubSeq(s, 1, n) \o <<s[n + 1]>>
    BY <2>2, AppendIsConcat
  <2>7. f[n + 1] = SubSeq(s, 1, n + 1)
    BY <2>4, <2>5, <2>6
  <2> QED
    BY <2>1, <2>7
<1> HIDE DEF T
<1>7. 0 .. size \subseteq T
  BY <1>1, <1>5, <1>6, Induction
<1> QED
  BY <1>1, <1>3, <1>7, SubSeqFull DEF T

\* No element twice.
Distinct(s) == \A i, j \in DOMAIN s : s[i] = s[j] => i = j

\* What is picked is what the list has at the positions in keep; nothing twice if
\* the list has nothing twice.
LEMMA PickedElements ==
  ASSUME NEW S, NEW s \in Seq(S), NEW keep
  PROVE  /\ Picked(s, keep) \in Seq(S)
         /\ \A k \in DOMAIN Picked(s, keep) : \E i \in keep \cap DOMAIN s : Picked(s, keep)[k] = s[i]
         /\ \A i \in keep \cap DOMAIN s : \E k \in DOMAIN Picked(s, keep) : Picked(s, keep)[k] = s[i]
         /\ Distinct(s) => Distinct(Picked(s, keep))
<1>1. PICK p : p = Picked(s, keep)
  OBVIOUS
<1>2. p \in Seq(S)
  BY <1>1, PickedIsSelection
<1>3. PICK at : Positions(s, keep, p, Len(s), at)
  BY <1>1, PickedIsSelection
<1>4. DOMAIN s = 1 .. Len(s) /\ DOMAIN p = 1 .. Len(p)
  BY <1>2
<1>5. \A k \in DOMAIN p : at[k] \in keep \cap DOMAIN s /\ p[k] = s[at[k]]
  BY <1>3, <1>4 DEF Positions
<1>6. \A i \in keep \cap DOMAIN s : \E k \in DOMAIN p : p[k] = s[i]
  BY <1>3, <1>4 DEF Positions
<1>7. ASSUME Distinct(s), NEW j \in DOMAIN p, NEW k \in DOMAIN p, p[j] = p[k] PROVE j = k
  <2>1. at[j] = at[k] /\ at[j] \in Nat
    BY <1>4, <1>5, <1>7 DEF Distinct
  <2>2. j < k => at[j] < at[k]
    BY <1>3, <1>4 DEF Positions
  <2>3. k < j => at[k] < at[j]
    BY <1>3, <1>4 DEF Positions
  <2>4. j \in Nat /\ k \in Nat
    BY <1>4
  <2> QED
    BY <2>1, <2>2, <2>3, <2>4
<1> QED
  BY <1>1, <1>2, <1>5, <1>6, <1>7 DEF Distinct

\* Two loops that start alike and go on alike make the same.
LEMMA SameIteration ==
  ASSUME NEW n \in Nat, NEW g, NEW h, g[0] = h[0],
         \A k \in 0 .. (n - 1) : g[k] = h[k] => g[k + 1] = h[k + 1]
  PROVE  \A k \in 0 .. n : g[k] = h[k]
<1> DEFINE T == {k \in 0 .. n : g[k] = h[k]}
<1>1. 0 \in T
  OBVIOUS
<1>2. \A k \in 0 .. (n - 1) : k \in T => k + 1 \in T
  OBVIOUS
<1> HIDE DEF T
<1>3. 0 .. n \subseteq T
  BY <1>1, <1>2, Induction
<1> QED
  BY <1>3 DEF T
=============================================================================
