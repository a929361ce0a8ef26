-------------------------- MODULE ArtifactsProofs --------------------------
(***************************************************************************)
(* What the commands that write files keep, for any documents, ids and     *)
(* directories and any number of commands, failures and edits.             *)
(***************************************************************************)
EXTENDS Artifacts, ListsProofs

-----------------------------------------------------------------------------
(* Names and batches.                                                      *)

\* The file name of an id is a list of tokens.
LEMMA SanitizeType ==
  ASSUME NEW id \in Seq(Tokens)
  PROVE  Sanitize(id) \in Seq(Tokens)
<1> DEFINE safe == [i \in DOMAIN id |-> IF id[i] \in Special THEN "_" ELSE id[i]]
           Starts(i) == ~ (safe[i] = "." /\ i > 1 /\ safe[i - 1] = ".")
           Run(i) == safe[i] = "." /\ i < Len(safe) /\ safe[i + 1] = "."
           keep == {i \in DOMAIN safe : Starts(i)}
           indices == [i \in DOMAIN safe |-> i]
           kept == Picked(indices, keep)
<1>1. PICK size \in Nat : id \in [1 .. size -> Tokens]
  BY SeqDef
<1>9. "_" \in Tokens
  BY TokensAssumption
<1>2. DOMAIN safe = 1 .. size /\ \A i \in 1 .. size : safe[i] \in Tokens
  BY <1>1, <1>9
<1> HIDE DEF keep, safe
<1>3. indices \in Seq(1 .. size)
  <2>1. indices \in [1 .. size -> 1 .. size]
    BY <1>2
  <2> HIDE DEF indices
  <2> QED
    BY <1>1, <2>1, SeqDef
<1> HIDE DEF indices
<1>4. kept \in Seq(1 .. size)
  BY <1>3, PickedIsSelection, Zenon
<1> HIDE DEF kept
<1>5. PICK n \in Nat : kept \in [1 .. n -> 1 .. size]
  BY <1>4, SeqDef
<1> DEFINE name == [k \in DOMAIN kept |-> IF Run(kept[k]) THEN "_" ELSE safe[kept[k]]]
<1>6. Sanitize(id) = name
  BY DEF Sanitize, safe, keep, indices, kept
<1>7. name \in [1 .. n -> Tokens]
  BY <1>2, <1>5, <1>9
<1> HIDE DEF name
<1>8. name \in Seq(Tokens)
  BY <1>7, SeqDef
<1> QED
  BY <1>6, <1>8

LEMMA OneToken ==
  ASSUME NEW S, NEW x \in S
  PROVE  <<x>> \in Seq(S)
OBVIOUS

\* Two names in one directory are two paths.
LEMMA AtIsInjective ==
  ASSUME NEW dir \in Seq(Tokens), NEW a \in Seq(Tokens), NEW b \in Seq(Tokens), NEW x \in Tokens,
         At(dir, a, x) = At(dir, b, x)
  PROVE  a = b
<1>1. <<"/">> \in Seq(Tokens) /\ <<x>> \in Seq(Tokens)
  <2>1. "/" \in Tokens
    BY TokensAssumption
  <2> QED
    BY <2>1, OneToken, Zenon
<1> DEFINE pre == dir \o <<"/">>
<1>2. pre \in Seq(Tokens)
  BY <1>1, ConcatProperties
<1>3. pre \o a \in Seq(Tokens) /\ pre \o b \in Seq(Tokens)
  BY <1>2, ConcatProperties
<1>4. (pre \o a) \o <<x>> = (pre \o b) \o <<x>>
  BY DEF At
<1> HIDE DEF pre
<1>5. pre \o a = pre \o b
  BY <1>1, <1>3, <1>4, ConcatSimplifications
<1> QED
  BY <1>2, <1>5, ConcatSimplifications

\* Two paths without a number are equal when the names are.
LEMMA PlainPathsDiffer ==
  ASSUME NEW dir \in Seq(Tokens), NEW a \in Seq(Tokens), NEW b \in Seq(Tokens),
         Path(a, 0, dir) = Path(b, 0, dir)
  PROVE  Sanitize(a) = Sanitize(b)
<1>1. Sanitize(a) \in Seq(Tokens) /\ Sanitize(b) \in Seq(Tokens)
  BY SanitizeType
<1>2. At(dir, Sanitize(a), ".binding.yaml") = At(dir, Sanitize(b), ".binding.yaml")
  BY DEF Path, Numbered
<1>3. ".binding.yaml" \in Tokens
  BY TokensAssumption
<1> QED
  BY <1>1, <1>2, <1>3, AtIsInjective, Zenon

\* A name gets another path with every number.
LEMMA NumbersTell ==
  ASSUME NEW dir \in Seq(Tokens), NEW id \in Seq(Tokens),
         NEW m \in 0 .. Len(Numerals), NEW n \in 0 .. Len(Numerals), Path(id, m, dir) = Path(id, n, dir)
  PROVE  m = n
<1> DEFINE name == Sanitize(id)
           low == "_"
           Tail2(k) == <<low, Numerals[k]>>
<1> HIDE DEF low
<1>1. name \in Seq(Tokens) /\ Len(name) \in Nat
  BY SanitizeType
<1>2. low \in Tokens /\ ".binding.yaml" \in Tokens /\ Len(Numerals) \in Nat
      /\ \A k \in 1 .. Len(Numerals) : k \in DOMAIN Numerals /\ Numerals[k] \in Tokens
  <2>1. low \in Tokens /\ ".binding.yaml" \in Tokens
    BY TokensAssumption, Zenon DEF low
  <2>2. Numerals \in Seq(Tokens)
    BY NumeralsAssumption, Zenon
  <2>3. Len(Numerals) \in Nat /\ \A k \in 1 .. Len(Numerals) : k \in DOMAIN Numerals /\ Numerals[k] \in Tokens
    BY <2>2
  <2> QED
    BY <2>1, <2>3, Zenon
<1>3. ASSUME NEW k \in 1 .. Len(Numerals)
      PROVE  /\ Tail2(k) \in Seq(Tokens) /\ Len(Tail2(k)) = 2 /\ Tail2(k)[2] = Numerals[k]
             /\ Numbered(name, k) = name \o Tail2(k)
  <2>1. low \in Tokens /\ Numerals[k] \in Tokens
    BY <1>2
  <2>2. Tail2(k) \in Seq(Tokens) /\ Len(Tail2(k)) = 2 /\ Tail2(k)[2] = Numerals[k]
    BY <2>1
  <2>3. k # 0
    BY <1>2
  <2> QED
    BY <2>2, <2>3, Zenon DEF Numbered, low
<1>4. Numbered(name, 0) = name
  BY DEF Numbered
<1> HIDE DEF Tail2, name
<1>5. ASSUME NEW k \in 1 .. Len(Numerals)
      PROVE  Numbered(name, k) \in Seq(Tokens) /\ Len(Numbered(name, k)) = Len(name) + 2
  <2>1. Tail2(k) \in Seq(Tokens) /\ Len(Tail2(k)) = 2 /\ Numbered(name, k) = name \o Tail2(k)
    BY <1>3
  <2>2. name \o Tail2(k) \in Seq(Tokens) /\ Len(name \o Tail2(k)) = Len(name) + Len(Tail2(k))
    BY <1>1, <2>1, ConcatProperties
  <2> QED
    BY <2>1, <2>2
<1>6. ASSUME NEW k \in 0 .. Len(Numerals)
      PROVE  Numbered(name, k) \in Seq(Tokens) /\ (k = 0 \/ k \in 1 .. Len(Numerals))
  <2>1. k = 0 \/ k \in 1 .. Len(Numerals)
    BY <1>2
  <2> QED
    BY <1>1, <1>4, <1>5, <2>1
<1>7. At(dir, Numbered(name, m), ".binding.yaml") = At(dir, Numbered(name, n), ".binding.yaml")
  BY DEF Path, name
<1>8. Numbered(name, m) = Numbered(name, n)
  BY <1>2, <1>6, <1>7, AtIsInjective, Zenon
<1>9. CASE m = 0 \/ n = 0
  BY <1>1, <1>4, <1>5, <1>6, <1>8, <1>9
<1>10. CASE m \in 1 .. Len(Numerals) /\ n \in 1 .. Len(Numerals)
  <2>1. name \o Tail2(m) = name \o Tail2(n)
    BY <1>3, <1>8, <1>10
  <2>2. Tail2(m) = Tail2(n)
    BY <1>1, <1>3, <1>10, <2>1, ConcatSimplifications
  <2>3. Numerals[m] = Numerals[n]
    BY <1>3, <1>10, <2>2
  <2> QED
    BY <1>2, <1>10, <2>3, NumeralsAssumption
<1> QED
  BY <1>6, <1>9, <1>10

\* n is the first number with which the name is not taken.
IsFirstFree(id, dir, taken, n) ==
  /\ Path(id, n, dir) \notin taken
  /\ \A k \in 0 .. (n - 1) : Path(id, k, dir) \in taken

\* The files before the i-th cannot take all of i + 1 names.
LEMMA FreeNumber ==
  ASSUME NEW dir \in Seq(Tokens), NEW id \in Seq(Tokens), NEW path,
         NEW i \in Nat \ {0}, i <= Len(Numerals)
  PROVE  \E n \in 0 .. i : IsFirstFree(id, dir, {path[j] : j \in 1 .. (i - 1)}, n)
<1> DEFINE taken == {path[j] : j \in 1 .. (i - 1)}
           Free == {n \in 0 .. i : Path(id, n, dir) \notin taken}
           g == [n \in 0 .. i |-> CHOOSE j \in 1 .. (i - 1) : path[j] = Path(id, n, dir)]
<1>0. Len(Numerals) \in Nat
  BY NumeralsAssumption
<1>1. Free # {}
  <2> SUFFICES ASSUME Free = {} PROVE FALSE
    OBVIOUS
  <2>1. \A n \in 0 .. i : \E j \in 1 .. (i - 1) : path[j] = Path(id, n, dir)
    OBVIOUS
  <2>2. \A n \in 0 .. i : g[n] \in 1 .. (i - 1) /\ path[g[n]] = Path(id, n, dir)
    BY <2>1
  <2>3. g \in [0 .. i -> 1 .. (i - 1)]
    BY <2>2
  <2>4. IsFiniteSet(0 .. i) /\ IsFiniteSet(1 .. (i - 1)) /\ Cardinality(1 .. (i - 1)) < Cardinality(0 .. i)
    <3>1. 0 \in Int /\ i \in Int /\ 1 \in Int /\ i - 1 \in Int
      OBVIOUS
    <3>2. IsFiniteSet(0 .. i) /\ Cardinality(0 .. i) = i + 1
      BY <3>1, FS_Interval
    <3>3. IsFiniteSet(1 .. (i - 1)) /\ Cardinality(1 .. (i - 1)) = IF 1 > i - 1 THEN 0 ELSE (i - 1) - 1 + 1
      BY <3>1, FS_Interval
    <3> QED
      BY <3>2, <3>3
  <2> HIDE DEF g
  <2>5. PICK m \in 0 .. i, n \in 0 .. i : m # n /\ g[m] = g[n]
    <3> DEFINE S == 0 .. i
               T == 1 .. (i - 1)
    <3>1. IsFiniteSet(S) /\ IsFiniteSet(T) /\ Cardinality(T) < Cardinality(S) /\ g \in [S -> T]
      BY <2>3, <2>4
    <3> HIDE DEF S, T
    <3>2. \E m, n \in S : m # n /\ g[m] = g[n]
      BY <3>1, FS_PigeonHole
    <3> QED
      BY <3>2 DEF S
  <2>6. Path(id, m, dir) = Path(id, n, dir)
    BY <2>2, <2>5
  <2>7. m \in 0 .. Len(Numerals) /\ n \in 0 .. Len(Numerals)
    BY <1>0
  <2> QED
    BY <2>5, <2>6, <2>7, NumbersTell
<1>2. PICK n \in Free : \A k \in Free : n <= k
  <2>1. Free \subseteq Nat
    OBVIOUS
  <2> HIDE DEF Free
  <2> QED
    BY <1>1, <2>1, LeastNumber
<1>3. ASSUME NEW k \in 0 .. (n - 1) PROVE Path(id, k, dir) \in taken
  BY <1>2
<1> QED
  BY <1>2, <1>3 DEF IsFirstFree

\* FirstFree is that number.
LEMMA FirstFreeIs ==
  ASSUME NEW id, NEW dir, NEW taken, NEW most \in Nat,
         NEW n \in 0 .. most, IsFirstFree(id, dir, taken, n)
  PROVE  FirstFree(id, dir, taken, most) = n
<1>1. ASSUME NEW k \in 0 .. most, IsFirstFree(id, dir, taken, k) PROVE k = n
  <2>1. ~ (k < n)
    <3> SUFFICES ASSUME k < n PROVE FALSE
      OBVIOUS
    <3>1. k \in 0 .. (n - 1)
      OBVIOUS
    <3> QED
      BY <1>1, <3>1 DEF IsFirstFree
  <2>2. ~ (n < k)
    <3> SUFFICES ASSUME n < k PROVE FALSE
      OBVIOUS
    <3>1. n \in 0 .. (k - 1)
      OBVIOUS
    <3> QED
      BY <1>1, <3>1 DEF IsFirstFree
  <2> QED
    BY <2>1, <2>2
<1>2. FirstFree(id, dir, taken, most) = CHOOSE k \in 0 .. most : IsFirstFree(id, dir, taken, k)
  BY DEF FirstFree, IsFirstFree
<1> QED
  BY <1>1, <1>2

\* A path that nobody has is taken as it is.
LEMMA FirstFreeIsZero ==
  ASSUME NEW id, NEW dir, NEW taken, NEW most \in Nat, Path(id, 0, dir) \notin taken
  PROVE  FirstFree(id, dir, taken, most) = 0
<1>1. 0 \in 0 .. most /\ IsFirstFree(id, dir, taken, 0)
  BY DEF IsFirstFree
<1> QED
  BY <1>1, FirstFreeIs

\* path names the first n modules.
Names(modules, dir, path, n) ==
  path = [i \in 1 .. n |->
            Path(modules[i].id, FirstFree(modules[i].id, dir, {path[j] : j \in 1 .. (i - 1)}, i), dir)]

\* There is such a function: the path of a module depends on those before it.
LEMMA NamesExist ==
  ASSUME NEW modules, NEW dir, NEW n \in Nat
  PROVE  \E path : Names(modules, dir, path, n)
<1> DEFINE T == {k \in 0 .. n : \E path : Names(modules, dir, path, k)}
<1>1. 0 \in T
  <2>1. Names(modules, dir, [i \in 1 .. 0 |-> 0], 0)
    BY DEF Names
  <2> QED
    BY <2>1
<1>2. ASSUME NEW k \in 0 .. (n - 1), k \in T PROVE k + 1 \in T
  <2>1. PICK path : Names(modules, dir, path, k)
    BY <1>2
  <2> DEFINE Next1(f, i) == Path(modules[i].id, FirstFree(modules[i].id, dir, {f[j] : j \in 1 .. (i - 1)}, i), dir)
             more == [i \in 1 .. (k + 1) |-> IF i = k + 1 THEN Next1(path, i) ELSE path[i]]
  <2>2. ASSUME NEW i \in 1 .. (k + 1) PROVE more[i] = Next1(more, i)
    <3>1. \A j \in 1 .. (i - 1) : more[j] = path[j]
      OBVIOUS
    <3>2. {more[j] : j \in 1 .. (i - 1)} = {path[j] : j \in 1 .. (i - 1)}
      BY <3>1
    <3> HIDE DEF more
    <3>3. Next1(more, i) = Next1(path, i)
      BY <3>2
    <3>4. CASE i = k + 1
      BY <3>3, <3>4 DEF more
    <3>5. CASE i # k + 1
      <4>1. i \in 1 .. k /\ more[i] = path[i]
        BY <3>5 DEF more
      <4>2. path[i] = Next1(path, i)
        BY <2>1, <4>1 DEF Names
      <4> QED
        BY <3>3, <4>1, <4>2
    <3> QED
      BY <3>4, <3>5
  <2>3. more = [i \in 1 .. (k + 1) |-> Next1(more, i)]
    <3>1. more = [i \in 1 .. (k + 1) |-> more[i]]
      OBVIOUS
    <3> HIDE DEF more
    <3> QED
      BY <2>2, <3>1
  <2>4. Names(modules, dir, more, k + 1)
    BY <2>3 DEF Names
  <2> QED
    BY <2>4
<1> HIDE DEF T
<1>3. 0 .. n \subseteq T
  BY <1>1, <1>2, Induction
<1> QED
  BY <1>3 DEF T

\* A batch is named by that function.
LEMMA BatchNames ==
  ASSUME NEW S, NEW modules \in Seq(S), NEW dir
  PROVE  Names(modules, dir, BatchPaths(modules, dir), Len(modules))
<1> DEFINE g == CHOOSE path : Names(modules, dir, path, Len(modules))
<1>1. Names(modules, dir, g, Len(modules))
  BY NamesExist
<1>2. DOMAIN modules = 1 .. Len(modules)
  OBVIOUS
<1>3. BatchPaths(modules, dir) = g
  BY <1>2 DEF BatchPaths, Names
<1> QED
  BY <1>1, <1>3

\* The modules have different names.
PathsDistinct(modules) ==
  \A i, j \in DOMAIN modules : i # j => Sanitize(modules[i].id) # Sanitize(modules[j].id)

\* Modules with different names get paths without a number.
LEMMA BatchIsPlain ==
  ASSUME NEW modules \in Seq(Operation), NEW dir \in Seq(Tokens), PathsDistinct(modules),
         NEW i \in DOMAIN modules
  PROVE  BatchPaths(modules, dir)[i] = Path(modules[i].id, 0, dir)
<1> DEFINE path == BatchPaths(modules, dir)
           Plain(k) == Path(modules[k].id, 0, dir)
           Odd == {k \in DOMAIN modules : path[k] # Plain(k)}
<1>1. Names(modules, dir, path, Len(modules)) /\ DOMAIN modules = 1 .. Len(modules) /\ Len(modules) \in Nat
  BY BatchNames
<1>2. SUFFICES ASSUME Odd # {} PROVE FALSE
  OBVIOUS
<1> HIDE DEF path
<1>3. PICK m \in Odd : \A k \in Odd : m <= k
  <2>1. Odd \subseteq Nat
    BY <1>1
  <2> HIDE DEF Odd
  <2> QED
    BY <1>2, <2>1, LeastNumber
<1>4. m \in 1 .. Len(modules) /\ \A j \in 1 .. (m - 1) : j \in DOMAIN modules /\ path[j] = Plain(j)
  BY <1>1, <1>3
<1>5. Plain(m) \notin {path[j] : j \in 1 .. (m - 1)}
  <2> SUFFICES ASSUME NEW j \in 1 .. (m - 1), path[j] = Plain(m) PROVE FALSE
    OBVIOUS
  <2>1. Plain(j) = Plain(m) /\ j # m /\ j \in DOMAIN modules /\ m \in DOMAIN modules
    BY <1>1, <1>4
  <2>2. modules[j] \in Operation /\ modules[m] \in Operation
    BY <2>1
  <2>3. modules[j].id \in Seq(Tokens) /\ modules[m].id \in Seq(Tokens)
    BY <2>2 DEF Operation
  <2>4. Sanitize(modules[j].id) = Sanitize(modules[m].id)
    BY <2>1, <2>3, PlainPathsDiffer
  <2> QED
    BY <2>1, <2>4 DEF PathsDistinct
<1>6. FirstFree(modules[m].id, dir, {path[j] : j \in 1 .. (m - 1)}, m) = 0
  BY <1>4, <1>5, FirstFreeIsZero
<1>7. path[m] = Path(modules[m].id, FirstFree(modules[m].id, dir, {path[j] : j \in 1 .. (m - 1)}, m), dir)
  BY <1>1, <1>4 DEF Names
<1> QED
  BY <1>3, <1>6, <1>7

\* The names of modules that are picked from a batch are names of the batch: what
\* is numbered anew gets no name that was not there.
LEMMA PickedWithinBatch ==
  ASSUME NEW modules \in Seq(Operation), Len(modules) <= Len(Numerals), NEW dir \in Seq(Tokens),
         NEW open, NEW todo, todo = Picked(modules, open), NEW k \in 1 .. Len(todo)
  PROVE  BatchPaths(todo, dir)[k] \in Range(BatchPaths(modules, dir))
<1> DEFINE big == BatchPaths(modules, dir)
           small == BatchPaths(todo, dir)
<1>1. todo \in Seq(Operation)
  BY PickedIsSelection, Zenon
<1>2. PICK at : Positions(modules, open, todo, Len(modules), at)
  BY PickedIsSelection, Zenon
<1>3. /\ DOMAIN todo = 1 .. Len(todo) /\ Len(todo) \in Nat
      /\ DOMAIN modules = 1 .. Len(modules) /\ Len(modules) \in Nat
      /\ Len(Numerals) \in Nat
  BY <1>1, NumeralsAssumption
<1>4. /\ \A j \in 1 .. Len(todo) : at[j] \in 1 .. Len(modules) /\ j <= at[j] /\ todo[j] = modules[at[j]]
      /\ \A i, j \in 1 .. Len(todo) : i < j => at[i] < at[j]
      /\ Len(todo) <= Len(modules)
  <2>1. /\ \A j \in 1 .. Len(todo) : at[j] \in 1 .. Len(modules) /\ j <= at[j]
        /\ Len(todo) <= Len(modules)
    BY <1>2, <1>3, PositionsGrow, Zenon
  <2>2. /\ \A j \in 1 .. Len(todo) : todo[j] = modules[at[j]]
        /\ \A i, j \in 1 .. Len(todo) : i < j => at[i] < at[j]
    BY <1>2 DEF Positions
  <2> QED
    BY <2>1, <2>2
<1>5. Names(todo, dir, small, Len(todo)) /\ Names(modules, dir, big, Len(modules))
  BY <1>1, BatchNames
<1> HIDE DEF small, big
<1>6. DOMAIN big = 1 .. Len(modules)
  BY <1>5 DEF Names
<1> DEFINE Upto(i) == {big[h] : h \in 1 .. i}
           Odd == {j \in 1 .. Len(todo) : small[j] \notin Upto(at[j])}
<1>7. Odd = {}
  <2> SUFFICES ASSUME Odd # {} PROVE FALSE
    OBVIOUS
  <2>1. PICK m \in Odd : \A j \in Odd : m <= j
    <3>1. Odd \subseteq Nat
      BY <1>3
    <3> HIDE DEF Odd
    <3> QED
      BY <3>1, LeastNumber
  <2> DEFINE i == at[m]
             id == todo[m].id
             takenS == {small[j] : j \in 1 .. (m - 1)}
             takenB == Upto(i - 1)
  <2>2. m \in 1 .. Len(todo) /\ small[m] \notin Upto(i) /\ i \in 1 .. Len(modules) /\ m <= i
    BY <1>4, <2>1
  <2>3. id \in Seq(Tokens) /\ modules[i].id = id
    <3>1. todo[m] \in Operation
      BY <1>1, <1>3, <2>2
    <3> QED
      BY <1>4, <2>2, <3>1 DEF Operation
  <2>4. ASSUME NEW j \in 1 .. (m - 1) PROVE small[j] \in takenB
    <3>1. j \in 1 .. Len(todo) /\ j < m
      BY <1>3, <2>2
    <3>2. small[j] \in Upto(at[j])
      BY <2>1, <2>2, <3>1
    <3>3. at[j] < i /\ at[j] \in 1 .. Len(modules)
      BY <1>4, <2>2, <3>1
    <3>4. 1 .. at[j] \subseteq 1 .. (i - 1)
      BY <1>3, <2>2, <3>3
    <3> QED
      BY <3>2, <3>4
  <2>5. takenS \subseteq takenB
    BY <2>4
  <2>6. /\ small[m] = Path(id, FirstFree(id, dir, takenS, m), dir)
        /\ big[i] = Path(id, FirstFree(id, dir, takenB, i), dir)
    BY <1>5, <2>2, <2>3 DEF Names
  <2>7. m \in Nat \ {0} /\ i \in Nat \ {0} /\ m <= Len(Numerals) /\ i <= Len(Numerals)
    BY <1>3, <1>4, <2>2
  <2>8. PICK f \in 0 .. m : IsFirstFree(id, dir, takenS, f)
    BY <2>3, <2>7, FreeNumber
  <2>9. i \in 1 .. i /\ 1 .. (i - 1) \subseteq 1 .. i
    BY <2>7
  <2>10. big[i] \in Upto(i) /\ takenB \subseteq Upto(i)
    BY <2>9
  <2> HIDE DEF i, id, takenS, takenB, Upto, Odd
  <2>11. small[m] = Path(id, f, dir)
    <3>1. FirstFree(id, dir, takenS, m) = f
      BY <2>7, <2>8, FirstFreeIs
    <3> QED
      BY <2>6, <3>1
  <2>12. Path(id, f, dir) \notin takenB
    BY <2>2, <2>10, <2>11
  <2>13. IsFirstFree(id, dir, takenB, f)
    BY <2>5, <2>8, <2>12 DEF IsFirstFree
  <2>14. FirstFree(id, dir, takenB, i) = f
    <3>1. f \in 0 .. i
      BY <2>2, <2>7, <2>8
    <3> QED
      BY <2>7, <2>13, <3>1, FirstFreeIs
  <2> QED
    BY <2>2, <2>6, <2>10, <2>11, <2>14
<1>8. small[k] \in Upto(at[k]) /\ at[k] \in 1 .. Len(modules)
  BY <1>4, <1>7
<1>9. 1 .. at[k] \subseteq 1 .. Len(modules)
  BY <1>3, <1>8
<1> QED
  BY <1>6, <1>8, <1>9 DEF Range, small, big

-----------------------------------------------------------------------------
(* The inductive invariant.                                                *)

Verbs == {"none", "scan", "generate", "init"}
Phases == {"end", "start", "check", "write", "companion", "seed"}
Styles == {"decorator", "convention", "binding"}
Options ==
  [force : BOOLEAN]
  \cup [force : BOOLEAN, dry : BOOLEAN, noDeprecated : BOOLEAN, dropped : SUBSET Seq(Tokens)]
  \cup [style : Styles, id : InitIds, force : BOOLEAN,
        dir : InitDirs \cup {DefaultDir(style) : style \in Styles}]

\* What the command is made of.
CommandTypes ==
  cmd \in [verb : Verbs, phase : Phases, exit : Nat, doc : Documents \cup {NoDocument}, opts : Options,
           modules : Seq(Operation), todo : Seq(Operation), next : Nat \ {0},
           listed : {cmd.listed}, warned : {cmd.warned}, hazards : {cmd.hazards}, failed : BOOLEAN]

\* The phases of each verb, and what a command has done when.
PhasesInOrder ==
  /\ cmd.verb = "none" => cmd.phase = "end" /\ cmd.exit = Unfinished
  /\ cmd.phase # "end" => cmd.exit = Unfinished /\ ~ cmd.failed
  /\ cmd.exit = 0 => ~ cmd.failed
  /\ cmd.verb = "scan" => cmd.phase \in {"start", "end"}
  /\ cmd.phase = "check" => cmd.verb = "generate"
  /\ cmd.phase = "write" => cmd.verb \in {"generate", "init"}
  /\ cmd.phase \in {"companion", "seed"} => cmd.verb = "init" /\ cmd.opts.style = "binding"
  /\ cmd.verb = "generate" /\ cmd.phase \in {"check", "write"} => ~ cmd.opts.dry
  /\ cmd.verb \in {"scan", "generate"} => cmd.doc \in Documents

\* A path that is there, whole or named in a warning.
Accounted(p) == p \in DOMAIN disk /\ (disk[p].whole \/ p \in cmd.warned)

\* A command that has not come to its writing has touched nothing, and neither
\* has one that only looks; what a command has touched is accounted for unless it
\* failed, and init warns of nothing.
TouchedInOrder ==
  /\ cmd.phase \in {"start", "check"} => touched = {}
  /\ cmd.verb = "scan" => touched = {}
  /\ cmd.verb = "generate" /\ cmd.opts.dry => touched = {}
  /\ cmd.phase = "end" /\ ~ cmd.failed /\ cmd.exit # 0 => touched = {}
  /\ cmd.verb = "init" => cmd.warned = {}
  /\ ~ cmd.failed => \A p \in touched : Accounted(p)

\* The files of init, in their order.
Scaffolded ==
  cmd.verb = "init" =>
    /\ cmd.phase \in {"companion", "seed"} \/ cmd.exit = 0 => Primary \in DOMAIN disk
    /\ cmd.exit = 0 /\ cmd.opts.style = "binding" => Companion \in DOMAIN disk

\* Every file there when the command looked is there; it is as it was before
\* the command writes, and after, unless the command was forced or its
\* modules collide; what it is about to write is none of them.
KeptInOrder ==
  /\ DOMAIN before \subseteq DOMAIN disk
  /\ cmd.phase \in {"start", "check"} \/ (~ cmd.opts.force /\ ~ Colliding) => Kept
  /\ cmd.verb = "init" /\ cmd.phase = "write" /\ ~ cmd.opts.force => Primary \notin DOMAIN before
  /\ cmd.phase = "seed" /\ ~ cmd.opts.force => Companion \notin DOMAIN before

Writing == cmd.verb = "generate" /\ cmd.phase = "write"

\* generate: what is listed is what is planned; the files before next are
\* written, and all that are to be written are listed; without collisions what is
\* listed is accounted for or still to come, and without --force what is to come
\* was not there.
BatchInOrder ==
  /\ cmd.phase \in {"start", "check"} => cmd.next = 1
  /\ cmd.phase = "check" => cmd.listed = PlannedPaths(cmd.modules, Output) /\ Len(cmd.modules) <= Len(Numerals)
  /\ Writing =>
       /\ cmd.next <= Len(cmd.todo) + 1
       /\ \A k \in 1 .. Len(cmd.todo) : WriterPaths(cmd.todo, Output)[k] \in Range(cmd.listed)
       /\ ~ Colliding =>
            /\ \A p \in Range(cmd.listed) :
                 Accounted(p) \/ \E k \in cmd.next .. Len(cmd.todo) : WriterPaths(cmd.todo, Output)[k] = p
            /\ ~ cmd.opts.force =>
                 \A k \in 1 .. Len(cmd.todo) : WriterPaths(cmd.todo, Output)[k] \notin DOMAIN before
  /\ WrittenAsListed
  /\ FilesAccountedFor

AInv ==
  /\ CommandTypes /\ PhasesInOrder /\ TouchedInOrder /\ Scaffolded
  /\ KeptInOrder /\ BatchInOrder

-----------------------------------------------------------------------------
(* The types.                                                              *)

\* A document is one of those there are, or the one of a command without any.
LEMMA DocumentTypes ==
  ASSUME NEW doc \in Documents \cup {NoDocument}
  PROVE  doc.ops \in Seq(Operation)
<1>1. CASE doc \in Documents
  BY <1>1, DocumentsAssumption
<1>2. CASE doc = NoDocument
  <2>1. NoDocument.ops = <<>>
    BY DEF NoDocument
  <2>2. <<>> \in Seq(Operation)
    OBVIOUS
  <2> QED
    BY <1>2, <2>1, <2>2
<1> QED
  BY <1>1, <1>2

\* The scan keeps operations of the document.
LEMMA ModulesType ==
  ASSUME NEW doc \in Documents \cup {NoDocument}, NEW opts
  PROVE  /\ Modules(doc, opts) \in Seq(Operation)
         /\ Len(Modules(doc, opts)) <= Len(doc.ops)
<1> DEFINE ops == doc.ops
           keep == {i \in DOMAIN doc.ops : Passes(doc.ops[i], opts)}
<1>1. ops \in Seq(Operation)
  BY DocumentTypes
<1>2. Modules(doc, opts) = Picked(ops, keep)
  BY DEF Modules
<1> HIDE DEF ops, keep
<1>3. Picked(ops, keep) \in Seq(Operation)
  BY <1>1, PickedIsSelection, Zenon
<1>4. PICK at : Positions(ops, keep, Picked(ops, keep), Len(ops), at)
  BY <1>1, PickedIsSelection, Zenon
<1>5. Len(Picked(ops, keep)) <= Len(ops)
  <2>1. Len(Picked(ops, keep)) \in Nat /\ Len(ops) \in Nat
    BY <1>1, <1>3
  <2> QED
    BY <1>4, <2>1, PositionsGrow
<1> QED
  BY <1>2, <1>3, <1>5 DEF ops

\* A command starts with what it is given and nothing else.
LEMMA BeginTypes ==
  ASSUME NEW verb \in Verbs, NEW doc \in Documents \cup {NoDocument}, NEW opts \in Options,
         Begin(verb, doc, opts)
  PROVE  CommandTypes'
<1> DEFINE nothing == <<>>
           none == {}
<1>1. nothing \in Seq(Operation)
  OBVIOUS
<1>2. cmd' = [verb |-> verb, phase |-> "start", exit |-> Unfinished, doc |-> doc, opts |-> opts,
              modules |-> nothing, todo |-> nothing, next |-> 1, listed |-> nothing, warned |-> none, hazards |-> none,
              failed |-> FALSE]
  BY DEF Begin, NoCommand
<1> HIDE DEF nothing, none
<1>3. "start" \in Phases /\ Unfinished \in Nat /\ 1 \in Nat \ {0} /\ FALSE \in BOOLEAN
  BY DEF Phases, Unfinished
<1>4. cmd'.listed = nothing /\ cmd'.warned = none /\ cmd'.hazards = none
  BY <1>2
<1> QED
  BY <1>1, <1>2, <1>3, <1>4 DEF CommandTypes

LEMMA ExitTypes ==
  ASSUME CommandTypes, NEW code \in Nat, Exit(code) \/ Fail(code)
  PROVE  CommandTypes'
BY ZenonT(60) DEF CommandTypes, Exit, Fail, Phases

LEMMA TypesStep ==
  ASSUME CommandTypes, [ANext]_avars
  PROVE  CommandTypes'
<1>0. 0 \in Nat /\ 1 \in Nat /\ 2 \in Nat /\ 47 \in Nat
  OBVIOUS
<1>1. CASE StartOpenapi
  <2>1. PICK verb \in {"scan", "generate"}, doc \in Documents, force \in BOOLEAN, dry \in BOOLEAN,
             noDeprecated \in BOOLEAN, drop \in BOOLEAN :
          Begin(verb, doc, ScanOptions(doc, force, dry, noDeprecated, drop))
    BY <1>1 DEF StartOpenapi
  <2> DEFINE opts == ScanOptions(doc, force, dry, noDeprecated, drop)
             dropped == IF drop /\ doc.ops # <<>> THEN {doc.ops[1].id} ELSE {}
  <2>2. dropped \in SUBSET Seq(Tokens)
    <3>1. doc.ops \in Seq(Operation)
      BY DocumentTypes
    <3>2. CASE doc.ops # <<>>
      <4>1. doc.ops[1] \in Operation
        BY <3>1, <3>2
      <4> QED
        BY <4>1 DEF Operation
    <3>3. CASE doc.ops = <<>>
      BY <3>3
    <3> QED
      BY <3>2, <3>3
  <2>3. opts = [force |-> force, dry |-> dry, noDeprecated |-> noDeprecated, dropped |-> dropped]
    BY DEF ScanOptions
  <2> HIDE DEF dropped, opts
  <2>4. opts \in Options
    BY <2>2, <2>3 DEF Options
  <2>5. verb \in Verbs
    BY DEF Verbs
  <2> QED
    BY <2>1, <2>4, <2>5, BeginTypes DEF opts
<1>2. CASE StartInit
  <2>1. PICK style \in Styles, id \in InitIds, force \in BOOLEAN, given \in InitDirs \cup {<<>>} :
          Begin("init", NoDocument, InitOptions(style, id, force, given))
    BY <1>2 DEF StartInit, Styles
  <2> DEFINE opts == InitOptions(style, id, force, given)
             dir == IF given = <<>> THEN DefaultDir(style) ELSE given
  <2>2. dir \in InitDirs \cup {DefaultDir(t) : t \in Styles}
    OBVIOUS
  <2>3. opts = [style |-> style, id |-> id, force |-> force, dir |-> dir]
    BY DEF InitOptions
  <2> HIDE DEF dir, opts
  <2>4. opts \in Options
    BY <2>2, <2>3 DEF Options
  <2>5. "init" \in Verbs
    BY DEF Verbs
  <2> QED
    BY <2>1, <2>4, <2>5, BeginTypes DEF opts
<1>3. CASE RefuseScan
  BY <1>0, <1>3, ExitTypes DEF RefuseScan
<1>4. CASE RunScan
  <2> DEFINE modules == Modules(cmd.doc, cmd.opts)
             hazards == Hazards(cmd.doc, modules)
             planned == PlannedPaths(modules, Output)
  <2>1. modules \in Seq(Operation)
    BY ModulesType DEF CommandTypes
  <2>2. \/ cmd' = [cmd EXCEPT !.modules = modules, !.hazards = hazards, !.phase = "end", !.exit = 0]
        \/ cmd' = [cmd EXCEPT !.modules = modules, !.hazards = hazards, !.phase = "end", !.exit = 0, !.listed = planned]
        \/ cmd' = [cmd EXCEPT !.modules = modules, !.hazards = hazards, !.phase = "check", !.listed = planned]
    BY <1>4 DEF RunScan, CommandTypes
  <2> HIDE DEF modules, hazards, planned
  <2>3. "end" \in Phases /\ "check" \in Phases
    BY DEF Phases
  <2>4. CASE cmd' = [cmd EXCEPT !.modules = modules, !.hazards = hazards, !.phase = "end", !.exit = 0]
    BY <2>1, <2>3, <2>4 DEF CommandTypes
  <2>5. CASE cmd' = [cmd EXCEPT !.modules = modules, !.hazards = hazards, !.phase = "end", !.exit = 0, !.listed = planned]
    BY <2>1, <2>3, <2>5 DEF CommandTypes
  <2>6. CASE cmd' = [cmd EXCEPT !.modules = modules, !.hazards = hazards, !.phase = "check", !.listed = planned]
    BY <2>1, <2>3, <2>6 DEF CommandTypes
  <2> QED
    BY <2>2, <2>4, <2>5, <2>6
<1>5. CASE CheckExisting
  <2>1. PICK open, warned : cmd' = [cmd EXCEPT !.todo = Picked(cmd.modules, open), !.phase = "write",
                                               !.warned = warned]
    BY <1>5 DEF CheckExisting
  <2>2. cmd.modules \in Seq(Operation)
    BY DEF CommandTypes
  <2>3. Picked(cmd.modules, open) \in Seq(Operation)
    BY <2>2, PickedIsSelection, Zenon
  <2> QED
    BY <2>1, <2>3 DEF CommandTypes, Phases
<1>6. CASE WriteModule \/ WriteUnverified
  <2>1. PICK warned : cmd' = [cmd EXCEPT !.next = @ + 1] \/ cmd' = [cmd EXCEPT !.next = @ + 1, !.warned = warned]
    BY <1>6 DEF WriteModule, WriteUnverified
  <2> DEFINE more == cmd.next + 1
  <2>4. more \in Nat \ {0}
    BY DEF CommandTypes
  <2> HIDE DEF more
  <2>2. CASE cmd' = [cmd EXCEPT !.next = @ + 1]
    <3>1. cmd' = [cmd EXCEPT !.next = more]
      BY <2>2 DEF more
    <3> QED
      BY <2>4, <3>1 DEF CommandTypes
  <2>3. CASE cmd' = [cmd EXCEPT !.next = @ + 1, !.warned = warned]
    <3>1. cmd' = [cmd EXCEPT !.next = more, !.warned = warned]
      BY <2>3 DEF more
    <3> QED
      BY <2>4, <3>1 DEF CommandTypes
  <2> QED
    BY <2>1, <2>2, <2>3
<1>14. CASE GenerateEnds
  BY <1>0, <1>14, ExitTypes DEF GenerateEnds
<1>7. CASE WriteModuleFails
  BY <1>0, <1>7, ExitTypes DEF WriteModuleFails
<1>8. CASE Guard
  <2>1. Exit(2) \/ cmd' = [cmd EXCEPT !.phase = "write"]
    BY <1>8 DEF Guard
  <2> QED
    BY <2>1, <1>0, ExitTypes DEF CommandTypes, Phases
<1>9. CASE WritePrimary
  <2>1. Exit(0) \/ Fail(2) \/ cmd' = [cmd EXCEPT !.phase = "companion"]
    BY <1>9 DEF WritePrimary
  <2> QED
    BY <2>1, <1>0, ExitTypes DEF CommandTypes, Phases
<1>10. CASE SeedCompanion
  <2>1. Exit(0) \/ Fail(2) \/ cmd' = [cmd EXCEPT !.phase = "seed"]
    BY <1>10 DEF SeedCompanion
  <2> QED
    BY <2>1, <1>0, ExitTypes DEF CommandTypes, Phases
<1>11. CASE WriteCompanion
  <2>1. Exit(0) \/ Fail(2)
    BY <1>11 DEF WriteCompanion
  <2> QED
    BY <2>1, <1>0, ExitTypes
<1>12. CASE Kill
  BY <1>12 DEF Kill, CommandTypes, Phases
<1>13. CASE Edit \/ UNCHANGED avars
  BY <1>13 DEF Edit, avars, CommandTypes
<1> QED
  BY <1>1, <1>2, <1>3, <1>4, <1>5, <1>6, <1>7, <1>8, <1>9, <1>10, <1>11, <1>12, <1>13, <1>14
  DEF ANext

-----------------------------------------------------------------------------
(* The phases.                                                             *)

\* A step that changes only where the command is, or how far.
Goes(phase, exit, failed, todo, next) ==
  /\ cmd'.phase = phase /\ cmd'.exit = exit /\ cmd'.failed = failed
  /\ cmd'.todo = todo /\ cmd'.next = next
  /\ cmd'.verb = cmd.verb /\ cmd'.doc = cmd.doc /\ cmd'.opts = cmd.opts
  /\ cmd'.modules = cmd.modules /\ cmd'.listed = cmd.listed /\ cmd'.hazards = cmd.hazards

Exits(code) == Goes("end", code, cmd.failed, cmd.todo, cmd.next) /\ cmd'.warned = cmd.warned
Fails(code) == Goes("end", code, TRUE, cmd.todo, cmd.next) /\ cmd'.warned = cmd.warned
Enters(phase) == Goes(phase, cmd.exit, cmd.failed, cmd.todo, cmd.next) /\ cmd'.warned = cmd.warned

LEMMA Going ==
  ASSUME CommandTypes, NEW p, NEW code, NEW t, NEW w
  PROVE  /\ Exit(code) => Exits(code)
         /\ Fail(code) => Fails(code)
         /\ cmd' = [cmd EXCEPT !.phase = p] => Enters(p)
         /\ cmd' = [cmd EXCEPT !.todo = t, !.phase = p, !.warned = w]
              => Goes(p, cmd.exit, cmd.failed, t, cmd.next) /\ cmd'.warned = w
         /\ cmd' = [cmd EXCEPT !.next = @ + 1]
              => Goes(cmd.phase, cmd.exit, cmd.failed, cmd.todo, cmd.next + 1) /\ cmd'.warned = cmd.warned
         /\ cmd' = [cmd EXCEPT !.next = @ + 1, !.warned = @ \cup w]
              => Goes(cmd.phase, cmd.exit, cmd.failed, cmd.todo, cmd.next + 1) /\ cmd'.warned = cmd.warned \cup w
         /\ cmd' = [cmd EXCEPT !.phase = "end", !.failed = TRUE] => Fails(cmd.exit)
         /\ cmd' = cmd => Enters(cmd.phase)
BY DEF CommandTypes, Exit, Fail, Exits, Fails, Enters, Goes

\* A command that starts, and the one after the scan.
Begins ==
  /\ cmd.phase = "end" /\ cmd'.phase = "start" /\ cmd'.exit = Unfinished /\ ~ cmd'.failed /\ cmd'.next = 1
  /\ cmd'.warned = {}
  /\ cmd'.verb = "init" \/ (cmd'.verb \in {"scan", "generate"} /\ cmd'.doc \in Documents)
  /\ disk' = disk /\ before' = disk /\ touched' = {}

Scanned ==
  /\ cmd'.verb = cmd.verb /\ cmd'.doc = cmd.doc /\ cmd'.opts = cmd.opts /\ cmd'.failed = cmd.failed
  /\ cmd'.warned = cmd.warned
  /\ IF cmd.verb = "scan" \/ cmd.opts.dry THEN cmd'.phase = "end" /\ cmd'.exit = 0
     ELSE cmd'.phase = "check" /\ cmd'.exit = cmd.exit

\* A file of the batch is written, and is whole or gets a warning.
Writes(whole) ==
  /\ WriteTarget(whole)
  /\ whole \/ Target \in cmd'.warned
  /\ cmd.warned \subseteq cmd'.warned
  /\ Goes("write", cmd.exit, cmd.failed, cmd.todo, cmd.next + 1)

\* What each action does to the command.
LEMMA Moves ==
  ASSUME CommandTypes, [ANext]_avars
  PROVE  \/ Begins
         \/ RefuseScan /\ (Exits(2) \/ Exits(47))
         \/ RunScan /\ Scanned
         \/ CheckExisting /\ Goes("write", cmd.exit, cmd.failed, cmd'.todo, cmd.next)
         \/ \E whole \in BOOLEAN : Writes(whole)
         \/ GenerateEnds /\ Exits(0)
         \/ WriteModuleFails /\ Fails(1)
         \/ Guard /\ (Exits(2) \/ Enters("write"))
         \/ WritePrimary /\ (Exits(0) \/ Enters("companion") \/ Fails(2))
         \/ SeedCompanion /\ (Exits(0) \/ Enters("seed") \/ Fails(2))
         \/ WriteCompanion /\ (Exits(0) \/ Fails(2))
         \/ Kill /\ Fails(cmd.exit)
         \/ (Edit \/ UNCHANGED avars) /\ Enters(cmd.phase)
<1>1. CASE StartOpenapi
  <2>1. PICK verb \in {"scan", "generate"}, doc \in Documents, force \in BOOLEAN, dry \in BOOLEAN,
             noDeprecated \in BOOLEAN, drop \in BOOLEAN :
          Begin(verb, doc, ScanOptions(doc, force, dry, noDeprecated, drop))
    BY <1>1 DEF StartOpenapi
  <2> QED
    BY <2>1 DEF Begin, NoCommand, Begins
<1>2. CASE StartInit
  <2>1. PICK style \in {"decorator", "convention", "binding"}, id \in InitIds, force \in BOOLEAN,
             given \in InitDirs \cup {<<>>} : Begin("init", NoDocument, InitOptions(style, id, force, given))
    BY <1>2 DEF StartInit
  <2> QED
    BY <2>1 DEF Begin, NoCommand, Begins
<1>3. CASE RefuseScan
  BY <1>3, Going DEF RefuseScan
<1>4. CASE RunScan
  BY <1>4 DEF RunScan, CommandTypes, Scanned
<1>5. CASE CheckExisting
  <2>1. PICK t, w : cmd' = [cmd EXCEPT !.todo = t, !.phase = "write", !.warned = w]
    BY <1>5 DEF CheckExisting
  <2>2. Goes("write", cmd.exit, cmd.failed, t, cmd.next)
    BY <2>1, Going
  <2> QED
    BY <1>5, <2>2 DEF Goes
<1>6. CASE WriteModule
  <2>1. WriteTarget(TRUE) /\ cmd' = [cmd EXCEPT !.next = @ + 1]
    BY <1>6 DEF WriteModule
  <2>2. cmd.phase = "write"
    BY <2>1 DEF WriteTarget
  <2> QED
    BY <2>1, <2>2, Going DEF Writes
<1>14. CASE WriteUnverified
  <2>1. PICK whole \in BOOLEAN :
          WriteTarget(whole) /\ cmd' = [cmd EXCEPT !.next = @ + 1, !.warned = @ \cup {Target}]
    BY <1>14 DEF WriteUnverified
  <2>2. cmd.phase = "write"
    BY <2>1 DEF WriteTarget
  <2>3. Goes("write", cmd.exit, cmd.failed, cmd.todo, cmd.next + 1) /\ cmd'.warned = cmd.warned \cup {Target}
    BY <2>1, <2>2, Going
  <2> QED
    BY <2>1, <2>3 DEF Writes
<1>15. CASE GenerateEnds
  BY <1>15, Going DEF GenerateEnds
<1>7. CASE WriteModuleFails
  BY <1>7, Going DEF WriteModuleFails
<1>8. CASE Guard
  BY <1>8, Going DEF Guard
<1>9. CASE WritePrimary
  BY <1>9, Going DEF WritePrimary
<1>10. CASE SeedCompanion
  BY <1>10, Going DEF SeedCompanion
<1>11. CASE WriteCompanion
  BY <1>11, Going DEF WriteCompanion
<1>12. CASE Kill
  BY <1>12, Going DEF Kill
<1>13. CASE Edit \/ UNCHANGED avars
  BY <1>13, Going DEF Edit, avars
<1> QED
  BY <1>1, <1>2, <1>3, <1>4, <1>5, <1>6, <1>7, <1>8, <1>9, <1>10, <1>11, <1>12, <1>13, <1>14, <1>15
  DEF ANext

\* The verbs go through the phases in their order.
LEMMA PhasesStep ==
  ASSUME CommandTypes, PhasesInOrder, [ANext]_avars
  PROVE  PhasesInOrder'
<1> USE DEF Unfinished
<1>0. cmd.verb \in Verbs /\ cmd.phase \in Phases
  BY DEF CommandTypes
<1>1. CASE Begins
  BY <1>1 DEF Begins, PhasesInOrder
<1>2. CASE RefuseScan /\ (Exits(2) \/ Exits(47))
  BY <1>2 DEF RefuseScan, Exits, Goes, PhasesInOrder
<1>3. CASE RunScan /\ Scanned
  <2>1. cmd.phase = "start" /\ cmd.verb \in {"scan", "generate"}
    BY <1>3 DEF RunScan
  <2> QED
    BY <1>3, <2>1 DEF Scanned, PhasesInOrder
<1>4. CASE CheckExisting /\ Goes("write", cmd.exit, cmd.failed, cmd'.todo, cmd.next)
  BY <1>4 DEF CheckExisting, Goes, PhasesInOrder
<1>5. CASE \E whole \in BOOLEAN : Writes(whole)
  BY <1>5 DEF Writes, WriteTarget, Goes, PhasesInOrder
<1>14. CASE GenerateEnds /\ Exits(0)
  <2>1. cmd.phase = "write" /\ cmd.verb = "generate"
    BY <1>14 DEF GenerateEnds
  <2>2. ~ cmd.failed /\ ~ cmd.opts.dry
    BY <2>1 DEF PhasesInOrder
  <2> QED
    BY <1>14, <2>1, <2>2 DEF Exits, Goes, PhasesInOrder
<1>6. CASE WriteModuleFails /\ Fails(1)
  <2>1. cmd.phase = "write" /\ cmd.verb = "generate"
    BY <1>6 DEF WriteModuleFails, WriteTarget
  <2> QED
    BY <1>6, <2>1 DEF Fails, Goes, PhasesInOrder
<1>7. CASE Guard /\ (Exits(2) \/ Enters("write"))
  BY <1>7 DEF Guard, Exits, Enters, Goes, PhasesInOrder
<1>8. CASE WritePrimary /\ (Exits(0) \/ Enters("companion") \/ Fails(2))
  <2>1. cmd.phase = "write" /\ cmd.verb = "init" /\ (cmd'.phase = "companion" => cmd.opts.style = "binding")
    BY <1>8 DEF WritePrimary, Exit, Fail, CommandTypes
  <2> QED
    BY <1>8, <2>1 DEF Exits, Enters, Fails, Goes, PhasesInOrder
<1>9. CASE SeedCompanion /\ (Exits(0) \/ Enters("seed") \/ Fails(2))
  <2>1. cmd.phase = "companion"
    BY <1>9 DEF SeedCompanion
  <2> QED
    BY <1>9, <2>1 DEF Exits, Enters, Fails, Goes, PhasesInOrder
<1>10. CASE WriteCompanion /\ (Exits(0) \/ Fails(2))
  <2>1. cmd.phase = "seed"
    BY <1>10 DEF WriteCompanion
  <2> QED
    BY <1>10, <2>1 DEF Exits, Fails, Goes, PhasesInOrder
<1>11. CASE Kill /\ Fails(cmd.exit)
  <2>1. cmd.phase # "end"
    BY <1>11 DEF Kill
  <2> QED
    BY <1>11, <2>1 DEF Fails, Goes, PhasesInOrder
<1>12. CASE (Edit \/ UNCHANGED avars) /\ Enters(cmd.phase)
  BY <1>12 DEF Enters, Goes, PhasesInOrder
<1> QED
  BY <1>1, <1>2, <1>3, <1>4, <1>5, <1>6, <1>7, <1>8, <1>9, <1>10, <1>11, <1>12, <1>14, Moves

\* What Put does.
LEMMA Putting ==
  ASSUME NEW p, NEW c, Put(p, c)
  PROVE  /\ DOMAIN disk' = DOMAIN disk \cup {p} /\ disk'[p] = c
         /\ \A q \in DOMAIN disk : q # p => disk'[q] = disk[q]
BY DEF Put

\* What is on the disk stays there.
LEMMA DiskGrows ==
  ASSUME [ANext]_avars
  PROVE  DOMAIN disk \subseteq DOMAIN disk'
<1>1. ASSUME NEW p, NEW c, Put(p, c) PROVE DOMAIN disk \subseteq DOMAIN disk'
  BY <1>1, Putting
<1>2. \/ disk' = disk
      \/ \E p, c : Put(p, c)
  <2>1. CASE StartOpenapi \/ StartInit
    BY <2>1 DEF StartOpenapi, StartInit, Begin
  <2>2. CASE RefuseScan \/ RunScan \/ CheckExisting \/ GenerateEnds \/ Guard \/ SeedCompanion
    BY <2>2 DEF RefuseScan, RunScan, CheckExisting, GenerateEnds, Guard, SeedCompanion
  <2>3. CASE WriteModule \/ WriteUnverified
    BY <2>3 DEF WriteModule, WriteUnverified, WriteTarget
  <2>4. CASE WriteModuleFails
    BY <2>4 DEF WriteModuleFails, WriteTarget
  <2>5. CASE WritePrimary
    BY <2>5 DEF WritePrimary
  <2>6. CASE WriteCompanion
    BY <2>6 DEF WriteCompanion
  <2>7. CASE Kill
    BY <2>7 DEF Kill
  <2>8. CASE Edit
    BY <2>8 DEF Edit
  <2>9. CASE UNCHANGED avars
    BY <2>9 DEF avars
  <2> QED
    BY <2>1, <2>2, <2>3, <2>4, <2>5, <2>6, <2>7, <2>8, <2>9 DEF ANext
<1> QED
  BY <1>1, <1>2

\* The same after the step.
AccountedNext(p) == p \in DOMAIN disk' /\ (disk'[p].whole \/ p \in cmd'.warned)

\* What is accounted for stays so when a file is written whole, or with a warning.
LEMMA StaysAccounted ==
  ASSUME NEW p, NEW by, NEW id, NEW whole \in BOOLEAN, Put(p, Content(by, id, whole)),
         whole \/ p \in cmd'.warned, cmd.warned \subseteq cmd'.warned
  PROVE  /\ AccountedNext(p)
         /\ \A q : Accounted(q) => AccountedNext(q)
<1>1. /\ DOMAIN disk' = DOMAIN disk \cup {p} /\ disk'[p] = Content(by, id, whole)
      /\ \A q \in DOMAIN disk : q # p => disk'[q] = disk[q]
  BY Putting, Zenon
<1>2. disk'[p].whole = whole
  BY <1>1 DEF Content
<1>3. AccountedNext(p)
  BY <1>1, <1>2 DEF AccountedNext
<1> QED
  BY <1>1, <1>3 DEF Accounted, AccountedNext

LEMMA WritesAccount ==
  ASSUME NEW whole \in BOOLEAN, Writes(whole)
  PROVE  /\ Writing /\ cmd.next <= Len(cmd.todo)
         /\ before' = before /\ touched' = touched \cup {Target} /\ DOMAIN disk' = DOMAIN disk \cup {Target}
         /\ AccountedNext(Target) /\ \A q : Accounted(q) => AccountedNext(q)
<1> DEFINE file == Target
<1>1. Writing /\ cmd.next <= Len(cmd.todo) /\ before' = before /\ touched' = touched \cup {file}
  BY DEF Writes, WriteTarget, Writing
<1>2. PICK id : Put(file, Content("generate", id, whole))
  BY DEF Writes, WriteTarget
<1>3. (whole \/ file \in cmd'.warned) /\ cmd.warned \subseteq cmd'.warned
  BY DEF Writes
<1> HIDE DEF file
<1>4. DOMAIN disk' = DOMAIN disk \cup {file}
  BY <1>2, Putting
<1>5. AccountedNext(file) /\ \A q : Accounted(q) => AccountedNext(q)
  BY <1>2, <1>3, StaysAccounted
<1> QED
  BY <1>1, <1>4, <1>5 DEF file

\* What a command has touched, and when.
LEMMA TouchedStep ==
  ASSUME CommandTypes, PhasesInOrder, TouchedInOrder, [ANext]_avars
  PROVE  TouchedInOrder'
<1> USE DEF Unfinished
<1>0. disk' = disk /\ touched' = touched /\ cmd'.warned = cmd.warned /\ ~ cmd.failed
        => \A p \in touched' : AccountedNext(p)
  BY DEF TouchedInOrder, Accounted, AccountedNext
<1>init. cmd.verb = "init" => cmd.warned = {}
  BY DEF TouchedInOrder
<1>made. ASSUME NEW p, NEW by, NEW id, Put(p, Content(by, id, TRUE)), touched' \subseteq touched \cup {p},
                cmd'.warned = cmd.warned, ~ cmd.failed
         PROVE  \A q \in touched' : AccountedNext(q)
  <2>1. AccountedNext(p) /\ \A q : Accounted(q) => AccountedNext(q)
    BY <1>made, StaysAccounted
  <2> QED
    BY <1>made, <2>1 DEF TouchedInOrder
<1>1. CASE Begins
  BY <1>1 DEF Begins, TouchedInOrder
<1>2. CASE RefuseScan /\ (Exits(2) \/ Exits(47))
  <2>1. touched = {} /\ touched' = touched
    BY <1>2 DEF RefuseScan, TouchedInOrder
  <2>2. cmd'.verb # "init"
    BY <1>2 DEF RefuseScan, Exits, Goes
  <2> QED
    BY <2>1, <2>2 DEF TouchedInOrder
<1>3. CASE RunScan /\ Scanned
  <2>1. touched = {} /\ touched' = touched
    BY <1>3 DEF RunScan, TouchedInOrder
  <2>2. cmd'.verb # "init"
    BY <1>3 DEF RunScan, Scanned
  <2> QED
    BY <2>1, <2>2 DEF TouchedInOrder
<1>4. CASE CheckExisting /\ Goes("write", cmd.exit, cmd.failed, cmd'.todo, cmd.next)
  <2>1. touched = {} /\ touched' = touched
    BY <1>4 DEF CheckExisting, TouchedInOrder
  <2>2. cmd'.verb # "init"
    BY <1>4 DEF CheckExisting, Goes
  <2> QED
    BY <2>1, <2>2 DEF TouchedInOrder
<1>5. CASE \E whole \in BOOLEAN : Writes(whole)
  <2>1. PICK whole \in BOOLEAN : Writes(whole)
    BY <1>5
  <2>2. Writing /\ ~ cmd.failed /\ ~ cmd.opts.dry
    BY <2>1 DEF Writes, WriteTarget, Writing, PhasesInOrder
  <2>3. \A p \in touched' : AccountedNext(p)
    BY <2>1, <2>2, WritesAccount DEF TouchedInOrder
  <2>4. cmd'.verb = "generate" /\ ~ cmd'.opts.dry /\ cmd'.phase = "write"
    BY <2>1, <2>2 DEF Writes, Goes, Writing
  <2> QED
    BY <2>3, <2>4 DEF TouchedInOrder, Accounted, AccountedNext
<1>14. CASE GenerateEnds /\ Exits(0)
  <2>1. Writing /\ ~ cmd.failed /\ ~ cmd.opts.dry /\ disk' = disk /\ touched' = touched
    BY <1>14 DEF GenerateEnds, Writing, PhasesInOrder
  <2>2. /\ cmd'.warned = cmd.warned /\ cmd'.exit = 0 /\ cmd'.phase = "end"
        /\ cmd'.verb = "generate" /\ ~ cmd'.opts.dry
    BY <1>14, <2>1 DEF Exits, Goes, Writing
  <2> QED
    BY <1>0, <2>1, <2>2 DEF TouchedInOrder, Accounted, AccountedNext
<1>6. CASE WriteModuleFails /\ Fails(1)
  <2>1. cmd.phase = "write" /\ cmd.verb = "generate" /\ ~ cmd.opts.dry
    BY <1>6 DEF WriteModuleFails, WriteTarget, PhasesInOrder
  <2> QED
    BY <1>6, <2>1 DEF Fails, Goes, TouchedInOrder
<1>7. CASE Guard /\ (Exits(2) \/ Enters("write"))
  <2>1. touched = {} /\ touched' = touched
    BY <1>7 DEF Guard, TouchedInOrder
  <2>2. cmd'.verb = cmd.verb /\ cmd'.warned = cmd.warned
    BY <1>7 DEF Exits, Enters, Goes
  <2> QED
    BY <1>init, <2>1, <2>2 DEF TouchedInOrder
<1>8. CASE WritePrimary /\ (Exits(0) \/ Enters("companion") \/ Fails(2))
  <2>1. cmd.phase = "write" /\ cmd.verb = "init" /\ ~ cmd.failed
    BY <1>8 DEF WritePrimary, PhasesInOrder
  <2>2. \/ Fails(2)
        \/ Put(Primary, Content("init", cmd.opts.id, TRUE)) /\ touched' = touched \cup {Primary}
    BY <1>8, Going DEF WritePrimary
  <2>3. cmd'.warned = cmd.warned
    BY <1>8 DEF Exits, Enters, Fails, Goes
  <2>4. Fails(2) \/ \A p \in touched' : AccountedNext(p)
    BY <1>made, <2>1, <2>2, <2>3
  <2>5. cmd'.failed \/ \A p \in touched' : AccountedNext(p)
    BY <2>4 DEF Fails, Goes
  <2> QED
    BY <1>8, <1>init, <2>1, <2>3, <2>5
    DEF TouchedInOrder, Exits, Enters, Fails, Goes, Accounted, AccountedNext
<1>9. CASE SeedCompanion /\ (Exits(0) \/ Enters("seed") \/ Fails(2))
  <2>1. cmd.phase = "companion" /\ cmd.verb = "init" /\ ~ cmd.failed
    BY <1>9 DEF SeedCompanion, PhasesInOrder
  <2>2. touched' = touched /\ disk' = disk /\ cmd'.warned = cmd.warned
    BY <1>9 DEF SeedCompanion, Exits, Enters, Fails
  <2>3. \A p \in touched' : AccountedNext(p)
    BY <1>0, <2>1, <2>2
  <2> QED
    BY <1>9, <1>init, <2>1, <2>2, <2>3
    DEF TouchedInOrder, Exits, Enters, Fails, Goes, Accounted, AccountedNext
<1>10. CASE WriteCompanion /\ (Exits(0) \/ Fails(2))
  <2>1. cmd.phase = "seed" /\ cmd.verb = "init" /\ ~ cmd.failed
    BY <1>10 DEF WriteCompanion, PhasesInOrder
  <2>2. \/ Fails(2)
        \/ Put(Companion, Content("init", cmd.opts.id, TRUE)) /\ touched' = touched \cup {Companion}
    BY <1>10, Going DEF WriteCompanion
  <2>3. cmd'.warned = cmd.warned
    BY <1>10 DEF Exits, Fails, Goes
  <2>4. Fails(2) \/ \A p \in touched' : AccountedNext(p)
    BY <1>made, <2>1, <2>2, <2>3
  <2>5. cmd'.failed \/ \A p \in touched' : AccountedNext(p)
    BY <2>4 DEF Fails, Goes
  <2> QED
    BY <1>10, <1>init, <2>1, <2>3, <2>5 DEF TouchedInOrder, Exits, Fails, Goes, Accounted, AccountedNext
<1>11. CASE Kill /\ Fails(cmd.exit)
  <2>1. /\ cmd'.failed /\ cmd'.phase = "end" /\ cmd'.verb = cmd.verb /\ cmd'.opts = cmd.opts
        /\ cmd'.warned = cmd.warned
    BY <1>11 DEF Fails, Goes
  <2>2. touched' = touched \/ cmd.phase \in {"write", "seed"}
    BY <1>11 DEF Kill
  <2>3. cmd.phase \in {"write", "seed"} => cmd.verb # "scan" /\ (cmd.verb = "generate" => ~ cmd.opts.dry)
    BY DEF PhasesInOrder
  <2> QED
    BY <1>init, <2>1, <2>2, <2>3 DEF TouchedInOrder
<1>12. CASE Edit /\ Enters(cmd.phase)
  <2>1. PICK p : Put(p, Content("user", <<>>, TRUE)) /\ touched' = touched
    BY <1>12 DEF Edit
  <2>2. cmd' = cmd
    BY <1>12 DEF Edit
  <2>3. ~ cmd.failed => \A q \in touched' : AccountedNext(q)
    BY <1>made, <2>1, <2>2
  <2> QED
    BY <2>1, <2>2, <2>3 DEF TouchedInOrder, Accounted, AccountedNext
<1>13. CASE UNCHANGED avars
  BY <1>13 DEF avars, TouchedInOrder, Accounted
<1> QED
  BY <1>1, <1>2, <1>3, <1>4, <1>5, <1>6, <1>7, <1>8, <1>9, <1>10, <1>11, <1>12, <1>13, <1>14, Moves

\* The files that init has made are there.
LEMMA ScaffoldStep ==
  ASSUME CommandTypes, PhasesInOrder, Scaffolded, [ANext]_avars
  PROVE  Scaffolded'
<1> USE DEF Unfinished
<1>0. DOMAIN disk \subseteq DOMAIN disk'
  BY DiskGrows
<1>paths. cmd'.opts = cmd.opts => Primary' = Primary /\ Companion' = Companion
  BY DEF Primary, Companion
<1>1. CASE Begins
  BY <1>1 DEF Begins, Scaffolded
<1>2. CASE RefuseScan /\ (Exits(2) \/ Exits(47))
  BY <1>2 DEF RefuseScan, Exits, Goes, Scaffolded
<1>3. CASE RunScan /\ Scanned
  BY <1>3 DEF RunScan, Scanned, Scaffolded
<1>4. CASE CheckExisting /\ Goes("write", cmd.exit, cmd.failed, cmd'.todo, cmd.next)
  BY <1>4 DEF CheckExisting, Goes, Scaffolded
<1>5. CASE \E whole \in BOOLEAN : Writes(whole)
  BY <1>5 DEF Writes, WriteTarget, Goes, Scaffolded
<1>14. CASE GenerateEnds /\ Exits(0)
  BY <1>14 DEF GenerateEnds, Exits, Goes, Scaffolded
<1>6. CASE WriteModuleFails /\ Fails(1)
  BY <1>6 DEF WriteModuleFails, WriteTarget, Fails, Goes, Scaffolded
<1>7. CASE Guard /\ (Exits(2) \/ Enters("write"))
  BY <1>7 DEF Guard, Exits, Enters, Goes, Scaffolded, PhasesInOrder
<1>8. CASE WritePrimary /\ (Exits(0) \/ Enters("companion") \/ Fails(2))
  <2>1. cmd.phase = "write" /\ cmd.exit = Unfinished
    BY <1>8 DEF WritePrimary, PhasesInOrder
  <2>2. \/ Fails(2)
        \/ /\ Put(Primary, Content("init", cmd.opts.id, TRUE))
           /\ Enters("companion") \/ (cmd.opts.style # "binding" /\ Exits(0))
    BY <1>8, Going DEF WritePrimary
  <2>3. CASE Fails(2)
    BY <2>3 DEF Fails, Goes, Scaffolded
  <2>4. CASE /\ Put(Primary, Content("init", cmd.opts.id, TRUE))
             /\ Enters("companion") \/ (cmd.opts.style # "binding" /\ Exits(0))
    <3>1. Primary \in DOMAIN disk'
      BY <2>4, Putting
    <3>2. cmd'.opts = cmd.opts /\ (cmd'.exit = Unfinished \/ cmd.opts.style # "binding")
      BY <2>1, <2>4 DEF Enters, Exits, Goes
    <3> QED
      BY <3>1, <3>2, <1>paths DEF Scaffolded
  <2> QED
    BY <2>2, <2>3, <2>4
<1>9. CASE SeedCompanion /\ (Exits(0) \/ Enters("seed") \/ Fails(2))
  <2>1. cmd.phase = "companion" /\ cmd.verb = "init" /\ cmd.exit = Unfinished
    BY <1>9 DEF SeedCompanion, PhasesInOrder
  <2>2. Exits(0) => Companion \in DOMAIN disk
    <3>1. Companion \in DOMAIN disk \/ Fails(2) \/ Enters("seed")
      BY <1>9, Going DEF SeedCompanion
    <3> QED
      BY <3>1 DEF Exits, Enters, Fails, Goes
  <2>3. Primary \in DOMAIN disk
    BY <2>1 DEF Scaffolded
  <2> QED
    BY <1>0, <1>paths, <1>9, <2>1, <2>2, <2>3 DEF Exits, Enters, Fails, Goes, Scaffolded
<1>10. CASE WriteCompanion /\ (Exits(0) \/ Fails(2))
  <2>1. cmd.phase = "seed" /\ cmd.verb = "init" /\ cmd.exit = Unfinished
    BY <1>10 DEF WriteCompanion, PhasesInOrder
  <2>2. Fails(2) \/ Put(Companion, Content("init", cmd.opts.id, TRUE))
    BY <1>10, Going DEF WriteCompanion
  <2>3. Fails(2) \/ Companion \in DOMAIN disk'
    BY <2>2, Putting
  <2>4. Primary \in DOMAIN disk
    BY <2>1 DEF Scaffolded
  <2> QED
    BY <1>0, <1>paths, <1>10, <2>3, <2>4 DEF Exits, Fails, Goes, Scaffolded
<1>11. CASE Kill /\ Fails(cmd.exit)
  <2>1. cmd.exit = Unfinished
    BY <1>11 DEF Kill, PhasesInOrder
  <2> QED
    BY <1>11, <2>1 DEF Fails, Goes, Scaffolded
<1>12. CASE (Edit \/ UNCHANGED avars) /\ Enters(cmd.phase)
  BY <1>0, <1>paths, <1>12 DEF Enters, Goes, Scaffolded
<1> QED
  BY <1>1, <1>2, <1>3, <1>4, <1>5, <1>6, <1>7, <1>8, <1>9, <1>10, <1>11, <1>12, <1>14, Moves

-----------------------------------------------------------------------------
(* The files of others.                                                    *)

\* A file that was not there before can be written.
LEMMA PutKeeps ==
  ASSUME Kept, NEW p, NEW c, Put(p, c), p \notin DOMAIN before, before' = before
  PROVE  Kept'
<1>1. DOMAIN disk' = DOMAIN disk \cup {p} /\ \A q \in DOMAIN disk : q # p => disk'[q] = disk[q]
  BY Putting
<1> QED
  BY <1>1 DEF Kept

LEMMA KeptStep ==
  ASSUME CommandTypes, PhasesInOrder, KeptInOrder, BatchInOrder, [ANext]_avars
  PROVE  KeptInOrder'
<1>0. DOMAIN disk \subseteq DOMAIN disk'
  BY DiskGrows
<1>asDisk. disk' = disk /\ before' = disk => Kept' /\ DOMAIN before' \subseteq DOMAIN disk'
  BY DEF Kept
<1>same. disk' = disk /\ before' = before => Kept' = Kept /\ DOMAIN before' \subseteq DOMAIN disk'
  BY DEF Kept, KeptInOrder
<1>paths. cmd'.opts = cmd.opts => Primary' = Primary /\ Companion' = Companion
  BY DEF Primary, Companion
<1>names. cmd'.modules = cmd.modules => Colliding' = Colliding
  BY DEF Colliding
<1>target. Writing /\ cmd.next <= Len(cmd.todo) /\ ~ cmd.opts.force /\ ~ Colliding => Target \notin DOMAIN before
  <2>1. cmd.next \in Nat \ {0} /\ Len(cmd.todo) \in Nat
    BY DEF CommandTypes
  <2> QED
    BY <2>1 DEF BatchInOrder, Target
<1>1. CASE Begins
  BY <1>1, <1>asDisk DEF Begins, KeptInOrder
<1>2. CASE RefuseScan /\ (Exits(2) \/ Exits(47))
  <2>1. Kept /\ disk' = disk /\ before' = before
    BY <1>2 DEF RefuseScan, KeptInOrder
  <2> QED
    BY <1>2, <1>same, <2>1 DEF Exits, Goes, KeptInOrder
<1>3. CASE RunScan /\ Scanned
  <2>1. Kept /\ disk' = disk /\ before' = before
    BY <1>3 DEF RunScan, KeptInOrder
  <2> QED
    BY <1>3, <1>same, <2>1 DEF Scanned, KeptInOrder
<1>4. CASE CheckExisting /\ Goes("write", cmd.exit, cmd.failed, cmd'.todo, cmd.next)
  <2>1. cmd.verb = "generate" /\ disk' = disk /\ before' = disk
    BY <1>4 DEF CheckExisting
  <2> QED
    BY <1>4, <1>asDisk, <2>1 DEF Goes, KeptInOrder
<1>5. CASE \E whole \in BOOLEAN : Writes(whole)
  <2>1. Writing /\ before' = before /\ cmd.next <= Len(cmd.todo) /\ \E c : Put(Target, c)
    BY <1>5 DEF Writes, WriteTarget, Writing
  <2>2. cmd'.opts = cmd.opts /\ cmd'.modules = cmd.modules /\ cmd'.verb = cmd.verb /\ cmd'.phase = "write"
    BY <1>5 DEF Writes, Goes
  <2>3. ~ cmd.opts.force /\ ~ Colliding => Kept'
    BY <1>target, <2>1, PutKeeps DEF KeptInOrder
  <2> QED
    BY <1>0, <1>names, <2>1, <2>2, <2>3 DEF KeptInOrder, Writing
<1>14. CASE GenerateEnds /\ Exits(0)
  <2>1. disk' = disk /\ before' = before
    BY <1>14 DEF GenerateEnds
  <2> QED
    BY <1>14, <1>names, <1>same, <2>1 DEF Exits, Goes, KeptInOrder
<1>6. CASE WriteModuleFails /\ Fails(1)
  <2>1. Writing /\ before' = before /\ cmd.next <= Len(cmd.todo)
    BY <1>6 DEF WriteModuleFails, WriteTarget, Writing
  <2>2. cmd'.opts = cmd.opts /\ cmd'.modules = cmd.modules /\ cmd'.phase = "end"
    BY <1>6 DEF Fails, Goes
  <2>3. disk' = disk \/ \E c : Put(Target, c)
    BY <1>6 DEF WriteModuleFails, WriteTarget
  <2>4. ~ cmd.opts.force /\ ~ Colliding => Kept'
    BY <1>target, <1>same, <2>1, <2>3, PutKeeps DEF KeptInOrder
  <2> QED
    BY <1>0, <1>names, <2>1, <2>2, <2>4 DEF KeptInOrder
<1>7. CASE Guard /\ (Exits(2) \/ Enters("write"))
  <2>1. Kept /\ disk' = disk /\ (before' = before \/ before' = disk)
    BY <1>7 DEF Guard, KeptInOrder
  <2>2. Enters("write") => before' = disk /\ (cmd.opts.force \/ Primary \notin DOMAIN disk)
    BY <1>7, Going DEF Guard, Exits, Enters, Goes, KeptInOrder
  <2>3. Kept' /\ DOMAIN before' \subseteq DOMAIN disk'
    BY <1>asDisk, <1>same, <2>1
  <2> QED
    BY <1>7, <1>paths, <2>1, <2>2, <2>3 DEF Exits, Enters, Goes, KeptInOrder
<1>8. CASE WritePrimary /\ (Exits(0) \/ Enters("companion") \/ Fails(2))
  <2>1. cmd.phase = "write" /\ cmd.verb = "init" /\ before' = before
    BY <1>8 DEF WritePrimary
  <2>2. disk' = disk \/ \E c : Put(Primary, c)
    BY <1>8 DEF WritePrimary
  <2>3. cmd'.opts = cmd.opts /\ cmd'.modules = cmd.modules /\ cmd'.phase \in {"end", "companion"}
    BY <1>8 DEF Exits, Enters, Fails, Goes
  <2>4. ~ cmd.opts.force /\ ~ Colliding => Kept'
    BY <1>same, <2>1, <2>2, PutKeeps DEF KeptInOrder
  <2> QED
    BY <1>0, <1>names, <2>1, <2>3, <2>4 DEF KeptInOrder
<1>9. CASE SeedCompanion /\ (Exits(0) \/ Enters("seed") \/ Fails(2))
  <2>1. cmd.phase = "companion" /\ disk' = disk /\ before' = before
    BY <1>9 DEF SeedCompanion
  <2>2. Enters("seed") /\ ~ cmd.opts.force => Companion \notin DOMAIN disk
    BY <1>9, Going DEF SeedCompanion, Exits, Enters, Fails, Goes
  <2>3. cmd'.opts = cmd.opts /\ cmd'.modules = cmd.modules /\ cmd'.phase \in {"end", "seed"}
        /\ (cmd'.phase = "seed" => Enters("seed"))
    BY <1>9 DEF Exits, Enters, Fails, Goes
  <2> QED
    BY <1>names, <1>paths, <1>same, <2>1, <2>2, <2>3 DEF KeptInOrder
<1>10. CASE WriteCompanion /\ (Exits(0) \/ Fails(2))
  <2>1. cmd.phase = "seed" /\ before' = before
    BY <1>10 DEF WriteCompanion
  <2>2. disk' = disk \/ \E c : Put(Companion, c)
    BY <1>10 DEF WriteCompanion
  <2>3. cmd'.opts = cmd.opts /\ cmd'.modules = cmd.modules /\ cmd'.phase = "end"
    BY <1>10 DEF Exits, Fails, Goes
  <2>4. ~ cmd.opts.force /\ ~ Colliding => Kept'
    BY <1>same, <2>1, <2>2, PutKeeps DEF KeptInOrder
  <2> QED
    BY <1>0, <1>names, <2>1, <2>3, <2>4 DEF KeptInOrder
<1>11. CASE Kill /\ Fails(cmd.exit)
  <2>1. before' = before
    BY <1>11 DEF Kill
  <2>2. cmd'.opts = cmd.opts /\ cmd'.modules = cmd.modules /\ cmd'.phase = "end"
    BY <1>11 DEF Fails, Goes
  <2>3. \/ disk' = disk
        \/ /\ cmd.phase \in {"write", "seed"} /\ (cmd.verb = "generate" => cmd.next <= Len(cmd.todo))
           /\ \E c : Put(IF cmd.verb = "generate" THEN Target
                         ELSE IF cmd.phase = "seed" THEN Companion ELSE Primary, c)
    BY <1>11 DEF Kill
  <2>4. ~ cmd.opts.force /\ ~ Colliding => Kept'
    <3> SUFFICES ASSUME ~ cmd.opts.force, ~ Colliding PROVE Kept'
      OBVIOUS
    <3>1. Kept
      BY DEF KeptInOrder
    <3>2. CASE disk' = disk
      BY <1>same, <2>1, <3>1, <3>2
    <3>3. CASE cmd.phase \in {"write", "seed"} /\ cmd.verb = "generate"
               /\ cmd.next <= Len(cmd.todo) /\ \E c : Put(Target, c)
      <4>1. Writing
        BY <3>3 DEF PhasesInOrder, Writing
      <4> QED
        BY <1>target, <2>1, <3>1, <3>3, <4>1, PutKeeps
    <3>4. CASE cmd.verb # "generate" /\ cmd.phase = "seed" /\ \E c : Put(Companion, c)
      BY <2>1, <3>1, <3>4, PutKeeps DEF KeptInOrder
    <3>5. CASE cmd.verb # "generate" /\ cmd.phase = "write" /\ \E c : Put(Primary, c)
      <4>1. cmd.verb = "init"
        BY <3>5 DEF PhasesInOrder
      <4> QED
        BY <2>1, <3>1, <3>5, <4>1, PutKeeps DEF KeptInOrder
    <3> QED
      BY <2>3, <3>2, <3>3, <3>4, <3>5
  <2> QED
    BY <1>0, <1>names, <2>1, <2>2, <2>4 DEF KeptInOrder
<1>12. CASE Edit /\ Enters(cmd.phase)
  <2>1. PICK p : /\ Put(p, Content("user", <<>>, TRUE))
                 /\ before' = IF p \in DOMAIN before THEN [before EXCEPT ![p] = Content("user", <<>>, TRUE)] ELSE before
    BY <1>12 DEF Edit
  <2> DEFINE c == Content("user", <<>>, TRUE)
  <2>2. /\ DOMAIN disk' = DOMAIN disk \cup {p} /\ disk'[p] = c
        /\ \A q \in DOMAIN disk : q # p => disk'[q] = disk[q]
    BY <2>1, Putting
  <2> HIDE DEF c
  <2>3. DOMAIN before' = DOMAIN before /\ \A q \in DOMAIN before : before'[q] = IF q = p THEN c ELSE before[q]
    BY <2>1 DEF c
  <2>4. Kept => Kept'
    BY <2>2, <2>3 DEF Kept
  <2> QED
    BY <1>0, <1>12, <1>names, <1>paths, <2>3, <2>4 DEF Enters, Goes, KeptInOrder
<1>13. CASE UNCHANGED avars
  BY <1>13, <1>same, <1>names, <1>paths DEF avars, KeptInOrder
<1> QED
  BY <1>1, <1>2, <1>3, <1>4, <1>5, <1>6, <1>7, <1>8, <1>9, <1>10, <1>11, <1>12, <1>13, <1>14, Moves

-----------------------------------------------------------------------------
(* The batches of generate.                                                *)

\* A batch has a path for each module.
LEMMA BatchDomain ==
  ASSUME NEW modules \in Seq(Operation), NEW dir
  PROVE  DOMAIN BatchPaths(modules, dir) = 1 .. Len(modules)
BY BatchNames DEF Names

\* todo is written where the modules at the positions in open were planned.
AsPlanned(todo, modules, open) ==
  /\ \A k \in 1 .. Len(todo) : \E i \in open : WriterPaths(todo, Output)[k] = PlannedPaths(modules, Output)[i]
  /\ \A i \in open : \E k \in 1 .. Len(todo) : WriterPaths(todo, Output)[k] = PlannedPaths(modules, Output)[i]

\* Of modules with different names, those that are picked are written where
\* they were planned.
LEMMA PickedAsPlanned ==
  ASSUME NEW modules \in Seq(Operation), PathsDistinct(modules), NEW open, open \subseteq DOMAIN modules,
         NEW todo, todo = Picked(modules, open)
  PROVE  AsPlanned(todo, modules, open)
<1>1. todo \in Seq(Operation)
  BY PickedIsSelection, Zenon
<1>2. PICK at : Positions(modules, open, todo, Len(modules), at)
  BY PickedIsSelection, Zenon
<1>3. /\ DOMAIN todo = 1 .. Len(todo) /\ Len(todo) \in Nat
      /\ DOMAIN modules = 1 .. Len(modules) /\ Len(modules) \in Nat
  BY <1>1
<1>4. /\ \A k \in 1 .. Len(todo) : at[k] \in open /\ todo[k] = modules[at[k]]
      /\ \A j, k \in 1 .. Len(todo) : j < k => at[j] < at[k]
      /\ \A i \in open : \E k \in 1 .. Len(todo) : at[k] = i
  BY <1>2, <1>3 DEF Positions
<1>5. PathsDistinct(todo)
  <2> SUFFICES ASSUME NEW j \in 1 .. Len(todo), NEW k \in 1 .. Len(todo), j # k
               PROVE  Sanitize(todo[j].id) # Sanitize(todo[k].id)
    BY <1>3 DEF PathsDistinct
  <2>1. at[j] \in 1 .. Len(modules) /\ at[k] \in 1 .. Len(modules)
    BY <1>3, <1>4
  <2>2. at[j] # at[k]
    BY <1>3, <1>4, <2>1
  <2>3. Sanitize(modules[at[j]].id) # Sanitize(modules[at[k]].id)
    BY <1>3, <2>1, <2>2 DEF PathsDistinct
  <2> QED
    BY <1>4, <2>3
<1>6. ASSUME NEW k \in 1 .. Len(todo)
      PROVE  WriterPaths(todo, Output)[k] = PlannedPaths(modules, Output)[at[k]]
  <2>1. Output \in Seq(Tokens) /\ k \in DOMAIN todo /\ at[k] \in DOMAIN modules
    BY <1>3, <1>4, PathsAssumption
  <2>2. WriterPaths(todo, Output)[k] = Path(todo[k].id, 0, Output)
    BY <1>1, <1>5, <2>1, BatchIsPlain DEF WriterPaths
  <2>3. PlannedPaths(modules, Output)[at[k]] = Path(modules[at[k]].id, 0, Output)
    BY <2>1, BatchIsPlain DEF PlannedPaths
  <2> QED
    BY <1>4, <2>2, <2>3
<1>7. \A k \in 1 .. Len(todo) : \E i \in open : WriterPaths(todo, Output)[k] = PlannedPaths(modules, Output)[i]
  BY <1>4, <1>6
<1>8. ASSUME NEW i \in open
      PROVE  \E k \in 1 .. Len(todo) : WriterPaths(todo, Output)[k] = PlannedPaths(modules, Output)[i]
  <2>1. PICK k \in 1 .. Len(todo) : at[k] = i
    BY <1>4
  <2> QED
    BY <1>6, <2>1
<1> QED
  BY <1>7, <1>8 DEF AsPlanned

\* The look for what exists: what is left is to be written where it was listed.
LEMMA CheckBatch ==
  ASSUME CommandTypes, TouchedInOrder, BatchInOrder, CheckExisting,
         Goes("write", cmd.exit, cmd.failed, cmd'.todo, cmd.next)
  PROVE  /\ cmd'.next = 1 /\ touched' = {}
         /\ \A k \in 1 .. Len(cmd'.todo) : WriterPaths(cmd'.todo, Output)[k] \in Range(cmd.listed)
         /\ ~ Colliding =>
              /\ \A p \in Range(cmd.listed) :
                   \/ p \in DOMAIN disk /\ p \in cmd'.warned
                   \/ \E k \in 1 .. Len(cmd'.todo) : WriterPaths(cmd'.todo, Output)[k] = p
              /\ ~ cmd.opts.force =>
                   \A k \in 1 .. Len(cmd'.todo) : WriterPaths(cmd'.todo, Output)[k] \notin DOMAIN disk
<1> DEFINE modules == cmd.modules
           force == cmd.opts.force
           listed == cmd.listed
           there == DOMAIN disk
           todo == cmd'.todo
           warned == cmd'.warned
           open == {i \in DOMAIN modules : force \/ listed[i] \notin there}
<1>1. /\ modules \in Seq(Operation) /\ listed = PlannedPaths(modules, Output) /\ Len(modules) <= Len(Numerals)
      /\ cmd.next = 1 /\ touched = {}
  BY DEF CommandTypes, TouchedInOrder, BatchInOrder, CheckExisting
<1>2. todo = Picked(modules, open) /\ warned = {listed[i] : i \in DOMAIN modules \ open}
  BY DEF CheckExisting, CommandTypes
<1>3. cmd'.next = 1 /\ touched' = {}
  BY <1>1 DEF Goes, CheckExisting
<1>4. Colliding \/ PathsDistinct(modules)
  BY DEF Colliding, PathsDistinct
<1>5. DOMAIN listed = 1 .. Len(modules) /\ DOMAIN modules = 1 .. Len(modules)
  BY <1>1, BatchDomain DEF PlannedPaths
<1>6. open \subseteq DOMAIN modules
  OBVIOUS
<1>7. \A i \in open : force \/ listed[i] \notin there
  OBVIOUS
<1>8. \A i \in 1 .. Len(modules) : i \in open \/ (listed[i] \in there /\ listed[i] \in warned)
  BY <1>2, <1>5
<1> HIDE DEF modules, listed, there, todo, force, warned, open
<1>9. \A k \in 1 .. Len(todo) : WriterPaths(todo, Output)[k] \in Range(listed)
  BY <1>1, <1>2, PathsAssumption, PickedWithinBatch DEF PlannedPaths, WriterPaths
<1>10. ASSUME PathsDistinct(modules)
       PROVE  /\ \A p \in Range(listed) :
                   \/ p \in there /\ p \in warned
                   \/ \E k \in 1 .. Len(todo) : WriterPaths(todo, Output)[k] = p
              /\ ~ force => \A k \in 1 .. Len(todo) : WriterPaths(todo, Output)[k] \notin there
  <2>1. /\ \A k \in 1 .. Len(todo) : \E i \in open : WriterPaths(todo, Output)[k] = listed[i]
        /\ \A i \in open : \E k \in 1 .. Len(todo) : WriterPaths(todo, Output)[k] = listed[i]
    <3>1. modules \in Seq(Operation) /\ PathsDistinct(modules)
      BY <1>1, <1>10
    <3>2. AsPlanned(todo, modules, open)
      BY <1>2, <1>6, <3>1, PickedAsPlanned, Zenon
    <3> QED
      BY <1>1, <3>2 DEF AsPlanned
  <2>2. \A p \in Range(listed) : \E i \in 1 .. Len(modules) : p = listed[i]
    BY <1>5 DEF Range
  <2> QED
    BY <1>7, <1>8, <2>1, <2>2
<1> QED
  BY <1>3, <1>4, <1>9, <1>10 DEF modules, listed, there, todo, force, warned

LEMMA BatchStep ==
  ASSUME CommandTypes, PhasesInOrder, TouchedInOrder, KeptInOrder, BatchInOrder, [ANext]_avars
  PROVE  BatchInOrder'
<1> USE DEF Unfinished
<1>target. Writing /\ cmd.next <= Len(cmd.todo) => Target \in Range(cmd.listed)
  <2>1. cmd.next \in Nat \ {0} /\ Len(cmd.todo) \in Nat
    BY DEF CommandTypes
  <2> QED
    BY <2>1 DEF BatchInOrder, Target
<1>1. CASE Begins
  BY <1>1 DEF Begins, BatchInOrder, Writing, WrittenAsListed, FilesAccountedFor
<1>2. CASE RefuseScan /\ (Exits(2) \/ Exits(47))
  <2>1. touched' = touched
    BY <1>2 DEF RefuseScan
  <2> QED
    BY <1>2, <2>1 DEF Exits, Goes, BatchInOrder, Writing, WrittenAsListed, FilesAccountedFor
<1>3. CASE RunScan /\ Scanned
  <2>1. /\ cmd.phase = "start" /\ cmd.exit = Unfinished /\ cmd.verb \in {"scan", "generate"} /\ cmd.next = 1
        /\ touched' = {}
    BY <1>3 DEF RunScan, PhasesInOrder, TouchedInOrder, BatchInOrder
  <2>2. cmd'.next = 1
    BY <1>3, <2>1 DEF RunScan, CommandTypes
  <2>3. cmd'.phase = "check" => /\ cmd'.listed = PlannedPaths(cmd'.modules, Output)
                                /\ cmd'.modules = Modules(cmd.doc, cmd.opts)
    BY <1>3, <2>1 DEF RunScan, CommandTypes
  <2>4. Len(Modules(cmd.doc, cmd.opts)) <= Len(Numerals)
    <3>1. cmd.doc \in Documents
      BY <2>1 DEF PhasesInOrder
    <3>2. /\ Modules(cmd.doc, cmd.opts) \in Seq(Operation)
          /\ Len(Modules(cmd.doc, cmd.opts)) <= Len(cmd.doc.ops)
      BY <3>1, ModulesType
    <3>3. Len(cmd.doc.ops) <= Len(Numerals) /\ Len(cmd.doc.ops) \in Nat /\ Len(Numerals) \in Nat
      BY <3>1, NumeralsAssumption, DocumentsAssumption
    <3>4. Len(Modules(cmd.doc, cmd.opts)) \in Nat
      BY <3>2
    <3> QED
      BY <3>2, <3>3, <3>4
  <2>5. cmd'.phase = "check" => /\ cmd'.listed = PlannedPaths(cmd'.modules, Output)
                                /\ Len(cmd'.modules) <= Len(Numerals)
    BY <2>3, <2>4
  <2>6. cmd'.phase # "write" /\ (cmd'.exit = 0 => cmd'.verb = "scan" \/ cmd'.opts.dry)
    BY <1>3, <2>1 DEF Scanned
  <2> QED
    BY <2>1, <2>2, <2>5, <2>6 DEF BatchInOrder, Writing, WrittenAsListed, FilesAccountedFor
<1>4. CASE CheckExisting /\ Goes("write", cmd.exit, cmd.failed, cmd'.todo, cmd.next)
  <2>1. /\ cmd'.next = 1 /\ touched' = {}
        /\ \A k \in 1 .. Len(cmd'.todo) : WriterPaths(cmd'.todo, Output)[k] \in Range(cmd.listed)
        /\ ~ Colliding =>
             /\ \A p \in Range(cmd.listed) :
                  \/ p \in DOMAIN disk /\ p \in cmd'.warned
                  \/ \E k \in 1 .. Len(cmd'.todo) : WriterPaths(cmd'.todo, Output)[k] = p
             /\ ~ cmd.opts.force =>
                  \A k \in 1 .. Len(cmd'.todo) : WriterPaths(cmd'.todo, Output)[k] \notin DOMAIN disk
    BY <1>4, CheckBatch
  <2>2. disk' = disk /\ before' = disk /\ cmd.exit = Unfinished
    BY <1>4 DEF CheckExisting, PhasesInOrder
  <2>3. /\ cmd'.phase = "write" /\ cmd'.listed = cmd.listed /\ cmd'.opts = cmd.opts /\ cmd'.exit = Unfinished
        /\ cmd'.modules = cmd.modules
    BY <1>4, <2>2 DEF Goes
  <2>4. Colliding' = Colliding
    BY <2>3 DEF Colliding
  <2>5. cmd'.next <= Len(cmd'.todo) + 1
    <3>1. CommandTypes'
      BY TypesStep
    <3>2. Len(cmd'.todo) \in Nat
      BY <3>1 DEF CommandTypes
    <3> QED
      BY <2>1, <3>2
  <2> QED
    BY <2>1, <2>2, <2>3, <2>4, <2>5 DEF BatchInOrder, WrittenAsListed, FilesAccountedFor, Accounted
<1>5. CASE \E whole \in BOOLEAN : Writes(whole)
  <2> DEFINE file(k) == WriterPaths(cmd.todo, Output)[k]
             size == Len(cmd.todo)
  <2>1. PICK whole \in BOOLEAN : Writes(whole)
    BY <1>5
  <2>2. /\ Writing /\ cmd.next <= size /\ before' = before /\ touched' = touched \cup {Target}
        /\ AccountedNext(Target) /\ \A q : Accounted(q) => AccountedNext(q)
    BY <2>1, WritesAccount
  <2>3. cmd.next \in Nat \ {0} /\ size \in Nat
    BY DEF CommandTypes
  <2>4. /\ cmd'.verb = cmd.verb /\ cmd'.opts = cmd.opts /\ cmd'.modules = cmd.modules /\ cmd'.todo = cmd.todo
        /\ cmd'.listed = cmd.listed /\ cmd'.phase = "write" /\ cmd'.next = cmd.next + 1 /\ cmd'.exit = Unfinished
    BY <2>1, <2>2 DEF Writes, Goes, PhasesInOrder, Writing
  <2>5. Colliding' = Colliding
    BY <2>4 DEF Colliding
  <2>6. Target = file(cmd.next)
    BY DEF Target
  <2>7. touched' \subseteq Range(cmd.listed)
    BY <1>target, <2>2 DEF BatchInOrder, WrittenAsListed, Writing
  <2>8. ~ Colliding => \A p \in Range(cmd.listed) : AccountedNext(p) \/ \E k \in cmd'.next .. size : file(k) = p
    <3> SUFFICES ASSUME ~ Colliding, NEW p \in Range(cmd.listed), ~ AccountedNext(p)
                 PROVE  \E k \in cmd'.next .. size : file(k) = p
      OBVIOUS
    <3>1. ~ Accounted(p) /\ p # Target
      BY <2>2
    <3>2. PICK k \in cmd.next .. size : file(k) = p
      BY <2>2, <3>1 DEF BatchInOrder
    <3>3. k # cmd.next
      BY <2>6, <3>1, <3>2
    <3>4. k \in (cmd.next + 1) .. size
      BY <2>3, <3>3
    <3> QED
      BY <2>4, <3>2, <3>4
  <2>9. cmd'.next <= size + 1
    BY <2>2, <2>3, <2>4
  <2> QED
    BY <2>2, <2>4, <2>5, <2>7, <2>8, <2>9
    DEF BatchInOrder, Writing, WrittenAsListed, FilesAccountedFor, Accounted, AccountedNext
<1>14. CASE GenerateEnds /\ Exits(0)
  <2>1. Writing /\ cmd.next > Len(cmd.todo) /\ disk' = disk /\ touched' = touched
    BY <1>14 DEF GenerateEnds, Writing
  <2>2. /\ cmd'.phase = "end" /\ cmd'.opts = cmd.opts /\ cmd'.modules = cmd.modules /\ cmd'.verb = cmd.verb
        /\ cmd'.listed = cmd.listed /\ cmd'.warned = cmd.warned
    BY <1>14 DEF Exits, Goes
  <2>3. Colliding' = Colliding
    BY <2>2 DEF Colliding
  <2>4. cmd.next .. Len(cmd.todo) = {}
    <3>1. cmd.next \in Nat /\ Len(cmd.todo) \in Nat
      BY DEF CommandTypes
    <3> QED
      BY <2>1, <3>1
  <2>5. ~ Colliding => \A p \in Range(cmd.listed) : Accounted(p)
    BY <2>1, <2>4 DEF BatchInOrder
  <2> QED
    BY <2>1, <2>2, <2>3, <2>5 DEF BatchInOrder, Writing, WrittenAsListed, FilesAccountedFor, Accounted
<1>6. CASE WriteModuleFails /\ Fails(1)
  <2>1. Writing /\ cmd.next <= Len(cmd.todo) /\ touched' \subseteq touched \cup {Target}
    BY <1>6 DEF WriteModuleFails, WriteTarget, Writing
  <2> QED
    BY <1>6, <1>target, <2>1 DEF Fails, Goes, BatchInOrder, Writing, WrittenAsListed, FilesAccountedFor
<1>7. CASE Guard /\ (Exits(2) \/ Enters("write"))
  <2>1. cmd.verb = "init"
    BY <1>7 DEF Guard
  <2> QED
    BY <1>7, <2>1 DEF Exits, Enters, Goes, BatchInOrder, Writing, WrittenAsListed, FilesAccountedFor
<1>8. CASE WritePrimary /\ (Exits(0) \/ Enters("companion") \/ Fails(2))
  <2>1. cmd.verb = "init"
    BY <1>8 DEF WritePrimary
  <2> QED
    BY <1>8, <2>1 DEF Exits, Enters, Fails, Goes, BatchInOrder, Writing, WrittenAsListed, FilesAccountedFor
<1>9. CASE SeedCompanion /\ (Exits(0) \/ Enters("seed") \/ Fails(2))
  <2>1. cmd.verb = "init"
    BY <1>9 DEF SeedCompanion, PhasesInOrder
  <2> QED
    BY <1>9, <2>1 DEF Exits, Enters, Fails, Goes, BatchInOrder, Writing, WrittenAsListed, FilesAccountedFor
<1>10. CASE WriteCompanion /\ (Exits(0) \/ Fails(2))
  <2>1. cmd.verb = "init"
    BY <1>10 DEF WriteCompanion, PhasesInOrder
  <2> QED
    BY <1>10, <2>1 DEF Exits, Fails, Goes, BatchInOrder, Writing, WrittenAsListed, FilesAccountedFor
<1>11. CASE Kill /\ Fails(cmd.exit)
  <2>1. cmd.exit = Unfinished
    BY <1>11 DEF Kill, PhasesInOrder
  <2>2. \/ touched' = touched
        \/ cmd.verb # "generate"
        \/ Writing /\ cmd.next <= Len(cmd.todo) /\ touched' = touched \cup {Target}
    BY <1>11 DEF Kill, Writing, PhasesInOrder
  <2>3. cmd.verb = "generate" => touched' \subseteq Range(cmd.listed)
    BY <1>target, <2>2 DEF BatchInOrder, WrittenAsListed
  <2> QED
    BY <1>11, <2>1, <2>3 DEF Fails, Goes, BatchInOrder, Writing, WrittenAsListed, FilesAccountedFor
<1>12. CASE (Edit \/ UNCHANGED avars) /\ Enters(cmd.phase)
  <2>1. cmd' = cmd /\ touched' = touched /\ DOMAIN before' = DOMAIN before
    BY <1>12 DEF Edit, avars
  <2>2. \A q : Accounted(q) => AccountedNext(q)
    <3>1. CASE Edit
      <4>1. PICK p : Put(p, Content("user", <<>>, TRUE))
        BY <3>1 DEF Edit
      <4> QED
        BY <2>1, <4>1, StaysAccounted
    <3>2. CASE UNCHANGED avars
      BY <3>2 DEF avars, Accounted, AccountedNext
    <3> QED
      BY <1>12, <3>1, <3>2
  <2>3. Colliding' = Colliding /\ Writing' = Writing /\ WrittenAsListed'
    BY <2>1 DEF Colliding, Writing, BatchInOrder, WrittenAsListed
  <2>4. FilesAccountedFor'
    BY <2>1, <2>2, <2>3 DEF BatchInOrder, FilesAccountedFor, Accounted, AccountedNext
  <2>5. Writing /\ ~ Colliding =>
            /\ \A p \in Range(cmd.listed) :
                 AccountedNext(p) \/ \E k \in cmd.next .. Len(cmd.todo) : WriterPaths(cmd.todo, Output)[k] = p
            /\ ~ cmd.opts.force =>
                 \A k \in 1 .. Len(cmd.todo) : WriterPaths(cmd.todo, Output)[k] \notin DOMAIN before'
    BY <2>1, <2>2 DEF BatchInOrder
  <2> QED
    BY <2>1, <2>3, <2>4, <2>5 DEF BatchInOrder, Accounted, AccountedNext
<1> QED
  BY <1>1, <1>2, <1>3, <1>4, <1>5, <1>6, <1>7, <1>8, <1>9, <1>10, <1>11, <1>12, <1>14, Moves

-----------------------------------------------------------------------------
(* The theorems.                                                           *)

LEMMA InitiallyInOrder ==
  ASSUME AInit
  PROVE  AInv
<1> DEFINE nothing == <<>>
<1>1. nothing \in Seq(Operation)
  OBVIOUS
<1>2. cmd = [verb |-> "none", phase |-> "end", exit |-> Unfinished, doc |-> NoDocument,
             opts |-> [force |-> FALSE], modules |-> nothing, todo |-> nothing, next |-> 1,
             listed |-> nothing, warned |-> {}, hazards |-> {}, failed |-> FALSE]
  BY DEF AInit, NoCommand
<1> HIDE DEF nothing
<1>3. [force |-> FALSE] \in Options
  BY DEF Options
<1>4. CommandTypes
  BY <1>1, <1>2, <1>3 DEF CommandTypes, Verbs, Phases, Unfinished
<1>5. PhasesInOrder /\ TouchedInOrder /\ Scaffolded
  BY <1>2 DEF AInit, PhasesInOrder, TouchedInOrder, Scaffolded, Unfinished
<1>6. KeptInOrder
  <2>1. before = disk
    BY DEF AInit
  <2> QED
    BY <1>2, <2>1 DEF KeptInOrder, Kept
<1>7. BatchInOrder
  BY <1>2 DEF AInit, BatchInOrder, Writing, WrittenAsListed, FilesAccountedFor, Unfinished
<1> QED
  BY <1>4, <1>5, <1>6, <1>7 DEF AInv

\* Every step of every command, and of the user, keeps the invariant.
THEOREM ArtifactsInOrder == ASpec => []AInv
<1>1. AInv /\ [ANext]_avars => AInv'
  BY TypesStep, PhasesStep, TouchedStep, ScaffoldStep, KeptStep, BatchStep DEF AInv
<1> QED
  BY <1>1, InitiallyInOrder, PTL DEF ASpec

\* Without --force no file that was there is changed, for any ids, documents and
\* directories, wherever a command fails or is killed, but where two modules of a
\* document have one name (openapi_cmd.rs:578-593, init_cmd.rs:93-115, 347-359).
THEOREM OthersAreKept == ASpec => []ExistingKept
<1>1. AInv => ExistingKept
  BY DEF AInv, KeptInOrder, ExistingKept
<1> QED
  BY <1>1, ArtifactsInOrder, PTL

\* generate opens no file that a dry run of the document does not list, for any
\* document, any names in it and any files that are there: numbering anew the modules
\* that are left gives no name that was not given (openapi_cmd.rs:232-255, 583-595).
THEOREM WritesAreListed == ASpec => []WrittenAsListed
<1>1. AInv => WrittenAsListed
  BY DEF AInv, BatchInOrder
<1> QED
  BY <1>1, ArtifactsInOrder, PTL

\* After a generate that reports success every path listed has a whole file or a
\* warning, for documents without two modules of one name (openapi_cmd.rs:583-602).
THEOREM SuccessAccounts == ASpec => []FilesAccountedFor
<1>1. AInv => FilesAccountedFor
  BY DEF AInv, BatchInOrder
<1> QED
  BY <1>1, ArtifactsInOrder, PTL

\* What refuses or only looks has opened no file for writing; what init reports as
\* made is whole.
THEOREM RefusalIsInert == ASpec => []RefusedIsInert
<1>1. AInv => RefusedIsInert
  BY DEF AInv, PhasesInOrder, TouchedInOrder, RefusedIsInert, Accounted
<1> QED
  BY <1>1, ArtifactsInOrder, PTL

\* After an init that reports success there are a file at the path of the module and,
\* for a binding, one at the path of the functions it points to.
THEOREM ScaffoldIsThere == ASpec => []ScaffoldIsComplete
<1>1. AInv => ScaffoldIsComplete
  BY DEF AInv, Scaffolded, ScaffoldIsComplete
<1> QED
  BY <1>1, ArtifactsInOrder, PTL
=============================================================================
