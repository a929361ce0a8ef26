--------------------------- MODULE AuditLogProofs ---------------------------
(***************************************************************************)
(* What the log keeps, for any number of processes that write to it, any   *)
(* records and any number of errors, short writes and kills.               *)
(***************************************************************************)
EXTENDS AuditLog, SequenceTheorems, FiniteSetTheorems, TLAPS

\* The file with some units of q added at its end.
Extended(q) ==
  /\ Len(file) \in Nat /\ Len(file') \in Nat /\ Len(file) <= Len(file')
  /\ DOMAIN file = 1 .. Len(file) /\ DOMAIN file' = 1 .. Len(file')
  /\ \A k \in 1 .. Len(file) : file'[k] = file[k]
  /\ \A k \in Len(file) + 1 .. Len(file') : file'[k].rec = q

\* The units of one write are units of a record.
LEMMA UnitRange == \A a \in 1 .. 4, l \in 0 .. 4 : \A k \in 1 .. l + 1 - a : a + k - 1 \in 1 .. 4
OBVIOUS

\* The file with the units of one write at its end.
Appended(p, last, end) ==
  /\ file' \in Seq([rec : Records, unit : 1 .. 4, end : {"full", "short", "cut"}])
  /\ Extended(Current(p))
  /\ Len(file') = Len(file) + (last + 1 - next[p])
  /\ \A k \in Len(file) + 1 .. Len(file') :
       /\ file'[k].unit = next[p] + (k - Len(file)) - 1
       /\ file'[k].end = IF file'[k].unit = last THEN end ELSE "full"

\* One write leaves the file as it was, followed by the units written.
LEMMA PutExtends ==
  ASSUME FileTypes, NEW p \in Processes, Current(p) \in Records,
         NEW last \in 0 .. 4, next[p] <= last + 1, NEW end \in {"full", "short", "cut"},
         Put(p, last, end)
  PROVE  Appended(p, last, end)
<1> DEFINE U == [rec : Records, unit : 1 .. 4, end : {"full", "short", "cut"}]
           n == last + 1 - next[p]
           e(k) == IF next[p] + k - 1 = last THEN end ELSE "full"
           s == [k \in 1 .. n |-> [rec |-> Current(p), unit |-> next[p] + k - 1, end |-> e(k)]]
<1>1. next[p] \in 1 .. 4 /\ n \in Nat /\ file \in Seq(U)
  BY DEF FileTypes
<1>2. \A k \in 1 .. n : s[k] \in U
  <2> SUFFICES ASSUME NEW k \in 1 .. n PROVE s[k] \in U
    OBVIOUS
  <2>1. next[p] + k - 1 \in 1 .. 4
    BY <1>1, UnitRange, Zenon
  <2>2. e(k) \in {"full", "short", "cut"}
    OBVIOUS
  <2> QED
    BY <2>1, <2>2
<1>3. s \in Seq(U) /\ Len(s) = n
  <2>1. s \in [1 .. n -> U]
    BY <1>2
  <2>2. n \in Nat
    BY <1>1
  <2> HIDE DEF s, n, U
  <2>3. s \in Seq(U)
    BY <2>1, <2>2, SeqDef
  <2>4. Len(s) \in Nat /\ 1 .. n = 1 .. Len(s)
    BY <2>1, <2>3, LenProperties
  <2>5. Len(s) = n
    BY <2>2, <2>4
  <2> QED
    BY <2>3, <2>5
<1>4. file' = file \o s
  BY DEF Put, Unit
<1>5. \A k \in 1 .. n : s[k].rec = Current(p) /\ s[k].unit = next[p] + k - 1 /\ s[k].end = e(k)
  OBVIOUS
<1> HIDE DEF s, U, n
<1>6. /\ file' \in Seq(U) /\ Len(file') = Len(file) + n /\ Len(file) \in Nat
      /\ DOMAIN file = 1 .. Len(file) /\ DOMAIN file' = 1 .. Len(file')
      /\ \A k \in 1 .. Len(file) : file'[k] = file[k]
      /\ \A k \in Len(file) + 1 .. Len(file') : file'[k] = s[k - Len(file)]
  <2>1. /\ file \o s \in Seq(U) /\ Len(file \o s) = Len(file) + Len(s)
        /\ \A i \in 1 .. Len(file) + Len(s) :
             (file \o s)[i] = IF i <= Len(file) THEN file[i] ELSE s[i - Len(file)]
    BY <1>1, <1>3, ConcatProperties, Zenon
  <2>2. Len(file) \in Nat /\ DOMAIN file = 1 .. Len(file)
    BY <1>1, LenProperties, Zenon
  <2>3. DOMAIN file' = 1 .. Len(file') /\ file' \in Seq(U)
    BY <1>4, <2>1, LenProperties, Zenon
  <2> QED
    BY <1>1, <1>3, <1>4, <2>1, <2>2, <2>3
<1>7. ASSUME NEW k \in Len(file) + 1 .. Len(file')
      PROVE  /\ file'[k].rec = Current(p) /\ file'[k].unit = next[p] + (k - Len(file)) - 1
             /\ file'[k].end = IF file'[k].unit = last THEN end ELSE "full"
  <2>1. k - Len(file) \in 1 .. n
    BY <1>1, <1>6
  <2> QED
    BY <1>5, <1>6, <2>1
<1> QED
  BY <1>1, <1>6, <1>7 DEF Appended, Extended, U, n

\* A readable line stays one when the file grows.
LEMMA WholeStays ==
  ASSUME NEW q, Extended(q), plan' = plan, NEW r, Whole(r), Units(r) \in Nat
  PROVE  Whole(r)'
<1>1. PICK k \in DOMAIN file :
        /\ k = 1 \/ EndsLine(k - 1)
        /\ k + Units(r) - 1 \in DOMAIN file
        /\ \A u \in 1 .. Units(r) : file[k + u - 1].rec = r /\ file[k + u - 1].unit = u
  BY DEF Whole
<1>2. Units(r)' = Units(r) /\ \A x : Units(x)' = Units(x)
  BY DEF Units
<1>3. k \in DOMAIN file' /\ k + Units(r) - 1 \in DOMAIN file'
  BY <1>1 DEF Extended
<1>4. \A u \in 1 .. Units(r) : file'[k + u - 1].rec = r /\ file'[k + u - 1].unit = u
  BY <1>1, SMTT(30) DEF Extended
<1>5. k = 1 \/ EndsLine(k - 1)'
  BY <1>1, <1>2 DEF Extended, EndsLine
<1> QED
  BY <1>2, <1>3, <1>4, <1>5 DEF Whole

\* A record has two or four units.
LEMMA UnitsType == \A r : Units(r) \in {2, 4}
BY DEF Units

\* A bufferful ends at or after its first unit and within the record.
LEMMA ChunkBounds ==
  ASSUME NEW r, NEW u \in 1 .. 4, u <= Units(r)
  PROVE  /\ ChunkEnd(r, u) \in 1 .. 4 /\ u <= ChunkEnd(r, u) /\ ChunkEnd(r, u) <= Units(r)
         /\ \A v \in u .. ChunkEnd(r, u) : ChunkEnd(r, v) = ChunkEnd(r, u)
BY UnitsType DEF ChunkEnd

\* The plans hold at most two records.
LEMMA PlanLength ==
  ASSUME FileTypes, NEW p \in Processes
  PROVE  Len(plan[p]) \in 0 .. 2
<1>1. plan[p] \in Plans
  BY DEF FileTypes
<1> QED
  BY <1>1, AuditAssumption

\* A record number that a plan has is 1 or 2.
LEMMA Between ==
  \A m \in 0 .. 2, a \in 1 .. 3 : (a \in 1 .. m <=> a <= m) /\ (a <= m => a \in 1 .. 2)
OBVIOUS

\* The record a process writes is one of the records.
LEMMA CurrentType ==
  ASSUME FileTypes, NEW p \in Processes, at[p] \in 1 .. Len(plan[p])
  PROVE  at[p] \in 1 .. 2 /\ Current(p) \in Records
<1>1. Len(plan[p]) \in 0 .. 2
  BY PlanLength
<1>2. at[p] \in 1 .. 2
  <2>1. at[p] \in 1 .. 3
    BY DEF FileTypes
  <2> QED
    BY <1>1, <2>1, Between, Zenon
<1> QED
  BY <1>2 DEF Current, Records

\* The units on file are units of records.
LEMMA UnitType ==
  ASSUME FileTypes, NEW k \in DOMAIN file
  PROVE  /\ k \in Int /\ file[k].unit \in 1 .. 4 /\ file[k].rec \in Records
         /\ DOMAIN file = 1 .. Len(file) /\ Len(file) \in Nat
<1> DEFINE U == [rec : Records, unit : 1 .. 4, end : {"full", "short", "cut"}]
<1>1. file \in Seq(U)
  BY DEF FileTypes
<1>2. k \in 1 .. Len(file) /\ DOMAIN file = 1 .. Len(file) /\ Len(file) \in Nat
  BY <1>1, LenProperties
<1> HIDE DEF U
<1>3. file[k] \in U
  BY <1>1, <1>2, ElementOfSeq
<1>4. k \in Int
  BY <1>2
<1> QED
  BY <1>2, <1>3, <1>4 DEF U

\* The empty file.
LEMMA FileInit == AInit => FileInv
<1> SUFFICES ASSUME AInit PROVE FileInv
  OBVIOUS
<1>1. file = <<>> /\ DOMAIN file = {}
  BY DEF AInit
<1>2. FileTypes
  BY <1>1 DEF AInit, FileTypes
<1>3. Buffered /\ Complete
  BY <1>1 DEF AInit, Buffered, Complete
<1>4. InOrder /\ Seams
  BY <1>1 DEF InOrder, Seams
<1> QED
  BY <1>2, <1>3, <1>4 DEF FileInv

-----------------------------------------------------------------------------
(* The steps that write.                                                   *)

\* A step of p puts the units up to `last` of its record on file, all of the
\* bufferful or a part; then p is through with the record, which is acknowledged
\* only when all of it is written, or goes on after `last`.
Grows(p, last, end) ==
  /\ pc[p] \in {"writing", "dropping"}
  /\ plan' = plan
  /\ next[p] <= last /\ last <= ChunkEnd(Current(p), next[p])
  /\ end = "full" => last = ChunkEnd(Current(p), next[p])
  /\ Put(p, last, end)
  /\ \/ /\ Finish(p)
        /\ acked' = acked \/ (acked' = acked \cup {Current(p)} /\ last = Units(Current(p)))
     \/ /\ UNCHANGED <<at, acked>>
        /\ last < Units(Current(p))
        /\ next' = [next EXCEPT ![p] = last + 1]
        /\ pc' = pc \/ pc' = [pc EXCEPT ![p] = "gone"]

\* What a process that writes is at.
LEMMA AtWork ==
  ASSUME FileInv, NEW p \in Processes, pc[p] \in {"writing", "dropping"}
  PROVE  /\ at[p] \in 1 .. 2 /\ Current(p) \in Records /\ Current(p) = <<p, at[p]>>
         /\ next[p] \in 1 .. 4 /\ next[p] <= Units(Current(p))
         /\ ChunkEnd(Current(p), next[p]) \in 1 .. 4
         /\ next[p] <= ChunkEnd(Current(p), next[p])
         /\ ChunkEnd(Current(p), next[p]) <= Units(Current(p))
         /\ \A v \in next[p] .. ChunkEnd(Current(p), next[p]) :
              ChunkEnd(Current(p), v) = ChunkEnd(Current(p), next[p])
<1>1. FileTypes /\ at[p] \in 1 .. 3 /\ next[p] \in 1 .. 4 /\ at[p] <= Len(plan[p])
      /\ next[p] <= Units(Current(p))
  BY DEF FileInv, FileTypes, Buffered
<1>2. at[p] \in 1 .. Len(plan[p])
  BY <1>1, PlanLength
<1> QED
  BY <1>1, <1>2, CurrentType, ChunkBounds DEF Current

\* The part of a bufferful that a short or interrupted write leaves on file.
LEMMA PartGrows ==
  ASSUME FileInv, NEW p \in Processes, pc[p] \in {"writing", "dropping"}, PutSome(p),
         UNCHANGED <<plan, at, acked>>, pc' = pc \/ pc' = [pc EXCEPT ![p] = "gone"]
  PROVE  \E last \in 1 .. 4, end \in {"full", "short", "cut"} : Grows(p, last, end)
<1> DEFINE e == ChunkEnd(Current(p), next[p])
<1>1. /\ next[p] \in 1 .. 4 /\ e \in 1 .. 4 /\ e <= Units(Current(p))
      /\ Units(Current(p)) \in {2, 4}
  BY AtWork, UnitsType
<1>2. PICK last \in next[p] .. e - 1, end \in {"short", "cut"} :
        Put(p, last, end) /\ next' = [next EXCEPT ![p] = last + 1]
  BY DEF PutSome
<1> HIDE DEF e
<1>3. last \in 1 .. 4 /\ next[p] <= last /\ last <= e /\ last < Units(Current(p))
  BY <1>1, <1>2
<1>4. Grows(p, last, end)
  BY <1>2, <1>3 DEF Grows, e
<1> QED
  BY <1>3, <1>4

\* What the steps do to the file: nothing, or one write.
LEMMA StepGrows ==
  ASSUME FileInv, NEW p \in Processes,
         Write(p) \/ WriteShort(p) \/ (Drop(p) /\ file' # file) \/ (Crash(p) /\ file' # file)
  PROVE  \E last \in 1 .. 4, end \in {"full", "short", "cut"} : Grows(p, last, end)
<1> DEFINE c == Current(p)
           e == ChunkEnd(c, next[p])
<1>1. ASSUME pc[p] \in {"writing", "dropping"}
      PROVE  e \in 1 .. 4 /\ next[p] <= e /\ e <= Units(c) /\ Units(c) \in {2, 4}
  BY <1>1, AtWork, UnitsType
<1>2. CASE Write(p)
  <2>1. pc[p] \in {"writing", "dropping"} /\ plan' = plan /\ Put(p, e, "full")
    BY <1>2 DEF Write
  <2>2. CASE e = Units(c)
    <3>1. acked' = acked \cup {c} /\ Finish(p)
      BY <1>2, <2>2 DEF Write
    <3>2. Grows(p, e, "full")
      BY <1>1, <2>1, <2>2, <3>1 DEF Grows
    <3> QED
      BY <1>1, <2>1, <3>2
  <2>3. CASE e # Units(c)
    <3>1. next' = [next EXCEPT ![p] = e + 1] /\ UNCHANGED <<at, pc, acked>>
      BY <1>2, <2>3 DEF Write
    <3>2. e < Units(c)
      BY <1>1, <2>1, <2>3
    <3>3. Grows(p, e, "full")
      BY <1>1, <2>1, <3>1, <3>2 DEF Grows
    <3> QED
      BY <1>1, <2>1, <3>3
  <2> QED
    BY <2>2, <2>3
<1>3. CASE WriteShort(p)
  BY <1>3, PartGrows DEF WriteShort
<1>4. CASE Drop(p) /\ file' # file
  <2>1. /\ pc[p] \in {"writing", "dropping"} /\ plan' = plan /\ Put(p, e, "full")
        /\ Finish(p) /\ acked' = acked
    BY <1>4 DEF Drop
  <2>2. Grows(p, e, "full")
    BY <1>1, <2>1 DEF Grows
  <2> QED
    BY <1>1, <2>1, <2>2
<1>5. CASE Crash(p) /\ file' # file
  BY <1>5, PartGrows DEF Crash
<1> QED
  BY <1>2, <1>3, <1>4, <1>5

\* Unit u of r is in the file after the step.
HasNext(r, u) == \E k \in DOMAIN file' : file'[k].rec = r /\ file'[k].unit = u

\* The place after one that is not the last of those written.
LEMMA NextPlace ==
  ASSUME NEW L \in Nat, NEW n \in 1 .. 4, NEW m \in 1 .. 4, NEW k \in Int,
         L + 1 <= k, k <= L + (m + 1 - n), n + (k - L) - 1 # m
  PROVE  /\ k + 1 \in L + 1 .. L + (m + 1 - n)
         /\ n + ((k + 1) - L) - 1 = (n + (k - L) - 1) + 1
OBVIOUS

\* What is on file stays there.
LEMMA HasStays ==
  ASSUME NEW q, Extended(q), NEW r, NEW u, Has(r, u)
  PROVE  HasNext(r, u)
<1>1. PICK k \in DOMAIN file : file[k].rec = r /\ file[k].unit = u
  BY DEF Has
<1>2. k \in DOMAIN file' /\ file'[k] = file[k]
  BY <1>1 DEF Extended
<1> QED
  BY <1>1, <1>2 DEF HasNext

\* A write keeps the invariant.
LEMMA GrowthKeeps ==
  ASSUME FileInv, NEW p \in Processes, NEW last \in 1 .. 4, NEW end \in {"full", "short", "cut"},
         Grows(p, last, end)
  PROVE  FileInv' /\ Extended(Current(p))
<1> DEFINE c == Current(p)
           n == next[p]
           L == Len(file)
           e == ChunkEnd(c, n)
<1>1. /\ at[p] \in 1 .. 2 /\ c \in Records /\ c = <<p, at[p]>> /\ n \in 1 .. 4
      /\ n <= last /\ last <= e /\ e <= Units(c) /\ Units(c) \in {2, 4} /\ e \in 1 .. 4
      /\ \A v \in n .. e : ChunkEnd(c, v) = e
      /\ end = "full" => last = e
  BY AtWork, UnitsType DEF Grows
<1>2. /\ file' \in Seq([rec : Records, unit : 1 .. 4, end : {"full", "short", "cut"}])
      /\ Extended(c)
      /\ Len(file') = L + (last + 1 - n)
      /\ \A k \in L + 1 .. Len(file') :
           /\ file'[k].unit = n + (k - L) - 1
           /\ file'[k].end = IF file'[k].unit = last THEN end ELSE "full"
  <2>1. FileTypes /\ last \in 0 .. 4 /\ next[p] <= last + 1 /\ Put(p, last, end)
        /\ Current(p) \in Records
    BY <1>1 DEF FileInv, Grows
  <2>2. Appended(p, last, end)
    BY <2>1, PutExtends
  <2> QED
    BY <2>2 DEF Appended
<1>3. /\ L \in Nat /\ DOMAIN file = 1 .. L /\ DOMAIN file' = 1 .. Len(file') /\ Len(file') \in Nat
      /\ \A k \in 1 .. L : file'[k] = file[k]
      /\ \A k \in L + 1 .. Len(file') : file'[k].rec = c
  BY <1>2 DEF Extended
<1>4. \/ /\ Finish(p)
         /\ acked' = acked \/ (acked' = acked \cup {c} /\ last = Units(c))
      \/ /\ UNCHANGED <<at, acked>>
         /\ last < Units(c)
         /\ next' = [next EXCEPT ![p] = last + 1]
         /\ pc' = pc \/ pc' = [pc EXCEPT ![p] = "gone"]
  BY DEF Grows
<1>5. /\ plan' = plan /\ pc[p] \in {"writing", "dropping"}
      /\ \A r : Units(r)' = Units(r)
      /\ \A r, u : ChunkEnd(r, u)' = ChunkEnd(r, u)
  BY DEF Grows, Units, ChunkEnd
<1> HIDE DEF c, n, L, e
<1>t. /\ at \in [Processes -> 1 .. 3] /\ next \in [Processes -> 1 .. 4]
      /\ pc \in [Processes -> {"idle", "writing", "dropping", "gone"}]
      /\ plan \in [Processes -> Plans] /\ acked \subseteq Records
  BY DEF FileInv, FileTypes
<1>6. FileTypes'
  <2>1. /\ at' \in [Processes -> 1 .. 3] /\ next' \in [Processes -> 1 .. 4]
        /\ pc' \in [Processes -> {"idle", "writing", "dropping", "gone"}]
    <3>1. CASE Finish(p)
      <4>1. at[p] + 1 \in 1 .. 3
        BY <1>1
      <4> QED
        BY <1>t, <3>1, <4>1 DEF Finish
    <3>2. CASE ~ Finish(p)
      <4>1. last + 1 \in 1 .. 4
        BY <1>1, <1>4, <3>2
      <4>2. at' = at /\ next' = [next EXCEPT ![p] = last + 1]
            /\ (pc' = pc \/ pc' = [pc EXCEPT ![p] = "gone"])
        BY <1>4, <3>2
      <4> QED
        BY <1>t, <4>1, <4>2
    <3> QED
      BY <3>1, <3>2
  <2>2. acked' \subseteq Records
    BY <1>1, <1>4, <1>t
  <2>3. plan' \in [Processes -> Plans]
    BY <1>5, <1>t
  <2>4. file' \in Seq([rec : Records, unit : 1 .. 4, end : {"full", "short", "cut"}])
    BY <1>2
  <2> QED
    BY <2>1, <2>2, <2>3, <2>4, Zenon DEF FileTypes
<1>7. \A r, u : Has(r, u) => HasNext(r, u)
  BY <1>2, HasStays
<1>8. \A u \in 1 .. 4 : u <= last => HasNext(c, u)
  <2> SUFFICES ASSUME NEW u \in 1 .. 4, u <= last PROVE HasNext(c, u)
    OBVIOUS
  <2>1. CASE u < n
    BY <1>5, <1>7, <2>1 DEF FileInv, Buffered, c, n
  <2>2. CASE ~ (u < n)
    <3>1. L + (u - n) + 1 \in L + 1 .. Len(file') /\ n + ((L + (u - n) + 1) - L) - 1 = u
      BY <1>1, <1>2, <1>3, <2>2
    <3>2. L + (u - n) + 1 \in DOMAIN file'
      BY <1>3, <3>1
    <3> QED
      <4>1. file'[L + (u - n) + 1].rec = c /\ file'[L + (u - n) + 1].unit = u
        BY <1>2, <1>3, <3>1
      <4> QED
        BY <3>2, <4>1 DEF HasNext
  <2> QED
    BY <2>1, <2>2
<1>11. \A k \in DOMAIN file : k \in 1 .. L /\ file[k].unit \in 1 .. 4 /\ file[k].rec \in Records
  BY <1>3, UnitType DEF FileInv
<1>9. Buffered'
  <2> SUFFICES ASSUME NEW q \in Processes
               PROVE  /\ pc'[q] \in {"writing", "dropping"} =>
                           /\ at'[q] <= Len(plan[q]) /\ next'[q] <= Units(<<q, at'[q]>>)
                           /\ \A u \in 1 .. 4 : u < next'[q] => HasNext(<<q, at'[q]>>, u)
                      /\ pc'[q] = "idle" => next'[q] = 1
                      /\ \A k \in DOMAIN file' : file'[k].rec[1] = q =>
                           file'[k].rec[2] < at'[q]
                             \/ (file'[k].rec[2] = at'[q] /\ file'[k].unit < next'[q])
    <3>1. \A q : Current(q)' = <<q, at'[q]>> /\ Units(Current(q))' = Units(<<q, at'[q]>>)
      BY <1>5 DEF Current, Units
    <3>2. \A q, u : Has(Current(q), u)' <=> HasNext(<<q, at'[q]>>, u)
      BY DEF Has, HasNext, Current
    <3> QED
      BY <1>5, <3>1, <3>2 DEF Buffered
  <2>0. Buffered
    BY DEF FileInv
  <2>1. CASE q # p
    <3>1. at'[q] = at[q] /\ next'[q] = next[q] /\ pc'[q] = pc[q]
      BY <1>4, <1>t, <2>1 DEF Finish
    <3>2. Current(q) = <<q, at[q]>>
      BY DEF Current
    <3>3. ASSUME NEW k \in DOMAIN file', file'[k].rec[1] = q
          PROVE  k \in DOMAIN file /\ file'[k] = file[k]
      <4>1. c[1] # q
        BY <1>1, <2>1
      <4>2. k \notin L + 1 .. Len(file')
        BY <1>3, <3>3, <4>1
      <4> QED
        BY <1>3, <4>2
    <3> QED
      BY <1>7, <2>0, <3>1, <3>2, <3>3 DEF Buffered
  <2>2. CASE q = p
    <3>1. ASSUME NEW k \in DOMAIN file', file'[k].rec[1] = p
          PROVE  file'[k].rec[2] < at[p] \/ (file'[k].rec[2] = at[p] /\ file'[k].unit < last + 1)
      <4>1. CASE k \in 1 .. L
        <5>1. file'[k] = file[k] /\ k \in DOMAIN file
          BY <1>3, <4>1
        <5>2. file[k].rec[2] < at[p] \/ (file[k].rec[2] = at[p] /\ file[k].unit < n)
          BY <2>0, <3>1, <5>1 DEF Buffered, n
        <5>3. file[k].unit \in 1 .. 4
          BY <5>1, UnitType DEF FileInv
        <5> QED
          BY <1>1, <5>1, <5>2, <5>3
      <4>2. CASE k \in L + 1 .. Len(file')
        <5>1. file'[k].rec = c /\ file'[k].unit = n + (k - L) - 1
          BY <1>2, <1>3, <4>2
        <5>2. n + (k - L) - 1 < last + 1
          <6>1. k \in L + 1 .. L + (last + 1 - n)
            BY <1>2, <4>2
          <6>2. L \in Nat /\ n \in 1 .. 4 /\ last \in 1 .. 4
            BY <1>1, <1>3
          <6> QED
            BY <6>1, <6>2
        <5> QED
          BY <1>1, <5>1, <5>2
      <4> QED
        BY <1>3, <4>1, <4>2
    <3>2. CASE Finish(p)
      <4>1. at'[p] = at[p] + 1 /\ next'[p] = 1 /\ pc'[p] = "idle"
        BY <1>t, <3>2 DEF Finish
      <4>2. \A k \in DOMAIN file' : file'[k].rec[1] = p => file'[k].rec[2] < at[p] + 1
        <5> SUFFICES ASSUME NEW k \in DOMAIN file', file'[k].rec[1] = p
                     PROVE  file'[k].rec[2] < at[p] + 1
          OBVIOUS
        <5>1. file'[k].rec[2] < at[p] \/ file'[k].rec[2] = at[p]
          BY <3>1
        <5>2. file'[k].rec \in Records
          BY <1>1, <1>3, <1>11
        <5>3. file'[k].rec[2] \in 1 .. 2
          BY <5>2 DEF Records
        <5> QED
          BY <1>1, <5>1, <5>3
      <4> QED
        BY <2>2, <4>1, <4>2
    <3>3. CASE ~ Finish(p)
      <4>1. at'[p] = at[p] /\ next'[p] = last + 1 /\ last < Units(c)
            /\ pc'[p] \in {pc[p], "gone"}
        BY <1>4, <1>t, <3>3
      <4>2. at[p] <= Len(plan[p])
        BY <1>5, <2>0 DEF Buffered
      <4>3. last + 1 <= Units(c) /\ \A u \in 1 .. 4 : u < last + 1 => u <= last
        BY <1>1, <4>1
      <4>4. pc'[p] # "idle"
        BY <1>5, <4>1
      <4>5. <<p, at'[p]>> = c
        BY <1>1, <4>1
      <4>6. \A u \in 1 .. 4 : u < next'[p] => HasNext(<<p, at'[p]>>, u)
        BY <1>8, <4>1, <4>3, <4>5
      <4> QED
        BY <2>2, <3>1, <4>1, <4>2, <4>3, <4>4, <4>5, <4>6
    <3> QED
      BY <3>2, <3>3
  <2> QED
    BY <2>1, <2>2
<1>10. Complete'
  <2> SUFFICES ASSUME NEW r \in acked'
               PROVE  r[2] < at'[r[1]] /\ \A u \in 1 .. Units(r) : HasNext(r, u)
    BY <1>5 DEF Complete, Has, HasNext
  <2>1. CASE r \in acked
    <3>1. r[1] \in Processes /\ r[2] \in 1 .. 2
      BY <1>t, <2>1 DEF Records
    <3>2. r[2] < at[r[1]] /\ \A u \in 1 .. Units(r) : Has(r, u)
      BY <2>1 DEF FileInv, Complete
    <3>3. at'[r[1]] = at[r[1]] \/ at'[r[1]] = at[r[1]] + 1
      BY <1>4, <1>t, <3>1 DEF Finish
    <3>4. r[2] < at'[r[1]]
      BY <1>t, <3>1, <3>2, <3>3
    <3> QED
      BY <1>7, <3>2, <3>4
  <2>2. CASE r \notin acked
    <3>1. r = c /\ Finish(p) /\ last = Units(c)
      BY <1>4, <2>2
    <3>2. at'[p] = at[p] + 1 /\ r[1] = p /\ r[2] = at[p]
      BY <1>1, <1>t, <3>1 DEF Finish
    <3>3. \A u \in 1 .. Units(r) : u \in 1 .. 4 /\ u <= last
      BY <1>1, <3>1
    <3> QED
      BY <1>1, <1>8, <3>1, <3>2, <3>3
  <2> QED
    BY <2>1, <2>2
<1>12. InOrder'
  <2>1. ASSUME NEW k \in DOMAIN file' PROVE file'[k].unit <= Units(file'[k].rec)
    <3>1. CASE k \in 1 .. L
      BY <1>3, <3>1 DEF FileInv, InOrder
    <3>2. CASE k \in L + 1 .. Len(file')
      <4>1. file'[k].rec = c /\ file'[k].unit = n + (k - L) - 1
        BY <1>2, <1>3, <3>2
      <4> QED
        BY <1>1, <1>2, <1>3, <3>2, <4>1
    <3> QED
      BY <1>3, <3>1, <3>2
  <2>2. ASSUME NEW j \in DOMAIN file', NEW k \in DOMAIN file', j < k, file'[j].rec = file'[k].rec
        PROVE  file'[j].unit < file'[k].unit
    <3>1. CASE k \in 1 .. L
      <4>1. j \in 1 .. L
        BY <1>3, <2>2, <3>1
      <4> QED
        BY <1>3, <2>2, <3>1, <4>1 DEF FileInv, InOrder
    <3>2. CASE j \in 1 .. L /\ k \in L + 1 .. Len(file')
      <4>1. file'[k].rec = c /\ file'[k].unit = n + (k - L) - 1 /\ file'[j] = file[j] /\ j \in DOMAIN file
        BY <1>2, <1>3, <3>2
      <4>2. file[j].rec[1] = p /\ file[j].rec[2] = at[p]
        BY <1>1, <2>2, <4>1
      <4>3. file[j].unit < n
        BY <1>1, <4>1, <4>2 DEF FileInv, Buffered, n
      <4>4. file[j].unit \in 1 .. 4 /\ n + (k - L) - 1 >= n
        BY <1>1, <1>3, <1>11, <3>2, <4>1
      <4>5. \A a \in 1 .. 4, b \in Int : a < n /\ b >= n => a < b
        BY <1>1
      <4>6. n + (k - L) - 1 \in Int
        BY <1>1, <1>3, <3>2
      <4>7. file[j].unit < n + (k - L) - 1
        BY <4>3, <4>4, <4>5, <4>6
      <4> QED
        BY <4>1, <4>7
    <3>3. CASE j \in L + 1 .. Len(file') /\ k \in L + 1 .. Len(file')
      <4>1. file'[j].unit = n + (j - L) - 1 /\ file'[k].unit = n + (k - L) - 1
        BY <1>2, <3>3
      <4> QED
        BY <1>1, <1>3, <2>2, <3>3, <4>1
    <3> QED
      BY <1>3, <2>2, <3>1, <3>2, <3>3
  <2> QED
    BY <1>5, <2>1, <2>2 DEF InOrder
<1>13. Seams'
  <2> SUFFICES ASSUME NEW k \in DOMAIN file', file'[k].end = "full",
                      file'[k].unit < ChunkEnd(file'[k].rec, file'[k].unit)
               PROVE  /\ k + 1 \in DOMAIN file'
                      /\ file'[k + 1].rec = file'[k].rec /\ file'[k + 1].unit = file'[k].unit + 1
    BY <1>5 DEF Seams
  <2>1. CASE k \in 1 .. L
    <3>1. file'[k] = file[k] /\ k \in DOMAIN file
      BY <1>3, <2>1
    <3>2. k + 1 \in DOMAIN file /\ file[k + 1].rec = file[k].rec /\ file[k + 1].unit = file[k].unit + 1
      BY <3>1 DEF FileInv, Seams
    <3>3. k + 1 \in DOMAIN file' /\ file'[k + 1] = file[k + 1]
      BY <1>2, <1>3, <3>2 DEF Extended
    <3> QED
      BY <3>1, <3>2, <3>3
  <2>2. CASE k \in L + 1 .. Len(file')
    <3>1. /\ file'[k].rec = c /\ file'[k].unit = n + (k - L) - 1
          /\ file'[k].end = IF file'[k].unit = last THEN end ELSE "full"
      BY <1>2, <1>3, <2>2
    <3>2. file'[k].unit \in n .. last
      BY <1>1, <1>2, <1>3, <2>2, <3>1
    <3>3. ChunkEnd(c, file'[k].unit) = e
      BY <1>1, <3>2
    <3>4. file'[k].unit # last
      BY <1>1, <3>1, <3>2, <3>3
    <3>5. k + 1 \in L + 1 .. Len(file') /\ n + ((k + 1) - L) - 1 = file'[k].unit + 1
      <4>1. k \in Int /\ L + 1 <= k /\ k <= L + (last + 1 - n) /\ n + (k - L) - 1 # last
        BY <1>1, <1>2, <1>3, <2>2, <3>1, <3>4
      <4>2. k + 1 \in L + 1 .. L + (last + 1 - n) /\ n + ((k + 1) - L) - 1 = (n + (k - L) - 1) + 1
        BY <1>1, <1>3, <4>1, NextPlace
      <4> QED
        BY <1>2, <3>1, <4>2
    <3> QED
      BY <1>2, <1>3, <3>1, <3>5
  <2> QED
    BY <1>3, <2>1, <2>2
<1> QED
  BY <1>2, <1>6, <1>9, <1>10, <1>12, <1>13 DEF FileInv, c

-----------------------------------------------------------------------------
(* The steps that leave the file alone.                                    *)

LEMMA FileAloneKeeps ==
  ASSUME FileInv, NEW p \in Processes, UNCHANGED <<plan, acked, file>>,
         \/ /\ at' = at /\ next' = next
            /\ \/ pc[p] = "idle" /\ at[p] <= Len(plan[p]) /\ pc' = [pc EXCEPT ![p] = "writing"]
               \/ pc[p] = "writing" /\ pc' = [pc EXCEPT ![p] = "dropping"]
               \/ pc' = [pc EXCEPT ![p] = "gone"]
         \/ Finish(p) /\ at[p] <= Len(plan[p])
  PROVE  FileInv'
<1> USE DEF FileInv
<1>1. /\ \A r : Units(r)' = Units(r)
      /\ \A r, u : ChunkEnd(r, u)' = ChunkEnd(r, u)
      /\ \A r, u : Has(r, u)' <=> Has(r, u)
  BY DEF Units, ChunkEnd, Has
<1>t. /\ at \in [Processes -> 1 .. 3] /\ next \in [Processes -> 1 .. 4]
      /\ pc \in [Processes -> {"idle", "writing", "dropping", "gone"}]
      /\ acked \subseteq Records
  BY DEF FileTypes
<1>2. Finish(p) => at[p] \in 1 .. 2
  <2>1. Len(plan[p]) \in 0 .. 2 /\ at[p] \in 1 .. 3
    BY <1>t, PlanLength
  <2>2. Finish(p) => at'[p] = at[p] + 1
    BY <1>t DEF Finish
  <2>3. Finish(p) => at[p] <= Len(plan[p])
    BY <2>1, <2>2
  <2> QED
    BY <2>1, <2>3, Between, Zenon
<1>3. FileTypes'
  <2>1. CASE Finish(p)
    BY <1>2, <1>t, <2>1 DEF Finish, FileTypes
  <2>2. CASE ~ Finish(p)
    BY <1>t, <2>2 DEF FileTypes
  <2> QED
    BY <2>1, <2>2
<1>4. Buffered'
  <2> SUFFICES ASSUME NEW q \in Processes
               PROVE  /\ pc'[q] \in {"writing", "dropping"} =>
                           /\ at'[q] <= Len(plan[q]) /\ next'[q] <= Units(<<q, at'[q]>>)
                           /\ \A u \in 1 .. 4 : u < next'[q] => Has(<<q, at'[q]>>, u)
                      /\ pc'[q] = "idle" => next'[q] = 1
                      /\ \A k \in DOMAIN file : file[k].rec[1] = q =>
                           file[k].rec[2] < at'[q]
                             \/ (file[k].rec[2] = at'[q] /\ file[k].unit < next'[q])
    <3>1. \A x : Current(x)' = <<x, at'[x]>> /\ Units(Current(x))' = Units(<<x, at'[x]>>)
      BY <1>1 DEF Current, Units
    <3>2. \A x, u : Has(Current(x), u)' <=> Has(<<x, at'[x]>>, u)
      BY <3>1 DEF Has
    <3> QED
      BY <3>1, <3>2 DEF Buffered
  <2>0. Buffered /\ Current(q) = <<q, at[q]>>
    BY DEF Current
  <2>1. CASE q # p
    <3>1. at'[q] = at[q] /\ next'[q] = next[q] /\ pc'[q] = pc[q]
      BY <1>t, <2>1 DEF Finish
    <3> QED
      BY <2>0, <3>1 DEF Buffered
  <2>2. CASE q = p /\ Finish(p)
    <3>1. at'[p] = at[p] + 1 /\ next'[p] = 1 /\ pc'[p] = "idle"
      BY <1>t, <2>2 DEF Finish
    <3>2. ASSUME NEW k \in DOMAIN file, file[k].rec[1] = p PROVE file[k].rec[2] < at[p] + 1
      <4>1. file[k].rec[2] < at[p] \/ file[k].rec[2] = at[p]
        BY <2>0, <3>2 DEF Buffered
      <4>2. file[k].rec[2] \in 1 .. 2
        BY UnitType DEF Records
      <4> QED
        BY <1>2, <2>2, <4>1, <4>2
    <3> QED
      BY <2>2, <3>1, <3>2
  <2>3. CASE q = p /\ ~ Finish(p)
    <3>1. at'[p] = at[p] /\ next'[p] = next[p]
      BY <2>3
    <3>2. CASE pc[p] = "idle" /\ at[p] <= Len(plan[p]) /\ pc' = [pc EXCEPT ![p] = "writing"]
      <4>1. next[p] = 1 /\ pc'[p] = "writing"
        BY <1>t, <2>0, <3>2 DEF Buffered
      <4>2. next[p] <= Units(<<p, at[p]>>) /\ \A u \in 1 .. 4 : ~ (u < next[p])
        BY <4>1, UnitsType
      <4> QED
        BY <2>0, <2>3, <3>1, <3>2, <4>1, <4>2 DEF Buffered
    <3>3. CASE pc[p] = "writing" /\ pc' = [pc EXCEPT ![p] = "dropping"]
      <4>1. pc'[p] = "dropping"
        BY <1>t, <3>3
      <4> QED
        BY <2>0, <2>3, <3>1, <3>3, <4>1 DEF Buffered
    <3>4. CASE pc' = [pc EXCEPT ![p] = "gone"]
      <4>1. pc'[p] = "gone"
        BY <1>t, <3>4
      <4> QED
        BY <2>0, <2>3, <3>1, <4>1 DEF Buffered
    <3> QED
      BY <2>3, <3>2, <3>3, <3>4
  <2> QED
    BY <2>1, <2>2, <2>3
<1>5. Complete'
  <2> SUFFICES ASSUME NEW r \in acked
               PROVE  r[2] < at'[r[1]] /\ \A u \in 1 .. Units(r) : Has(r, u)
    BY <1>1 DEF Complete
  <2>1. r[1] \in Processes /\ r[2] \in 1 .. 2
    BY <1>t DEF Records
  <2>2. r[2] < at[r[1]] /\ \A u \in 1 .. Units(r) : Has(r, u)
    BY DEF Complete
  <2>3. at'[r[1]] = at[r[1]] \/ at'[r[1]] = at[r[1]] + 1
    BY <1>t, <2>1 DEF Finish
  <2> QED
    BY <1>t, <2>1, <2>2, <2>3
<1>6. InOrder'
  BY <1>1 DEF InOrder
<1>7. Seams'
  BY <1>1 DEF Seams
<1> QED
  BY <1>3, <1>4, <1>5, <1>6, <1>7

\* Every step keeps the invariant.
LEMMA FileStep == FileInv /\ [ANext]_avars => FileInv'
<1> SUFFICES ASSUME FileInv, [ANext]_avars PROVE FileInv'
  OBVIOUS
<1>1. ASSUME NEW p \in Processes,
             Write(p) \/ WriteShort(p) \/ (Drop(p) /\ file' # file) \/ (Crash(p) /\ file' # file)
      PROVE  FileInv'
  BY <1>1, StepGrows, GrowthKeeps
<1>2. ASSUME NEW p \in Processes, Drop(p), file' = file PROVE FileInv'
  <2>1. at[p] <= Len(plan[p])
    BY <1>2 DEF Drop, FileInv, Buffered
  <2> QED
    BY <1>2, <2>1, FileAloneKeeps DEF Drop
<1>3. ASSUME NEW p \in Processes, Crash(p), file' = file PROVE FileInv'
  <2>1. UNCHANGED next
    <3>1. CASE pc[p] \in {"writing", "dropping"} /\ PutSome(p)
      <4>1. PICK last \in 1 .. 4, end \in {"full", "short", "cut"} : Grows(p, last, end)
        BY <1>3, <3>1, PartGrows DEF Crash
      <4>2. /\ FileTypes /\ last \in 0 .. 4 /\ next[p] <= last /\ Put(p, last, end)
            /\ Current(p) \in Records /\ next[p] \in 1 .. 4
        BY <4>1, AtWork DEF FileInv, Grows
      <4>3. next[p] <= last + 1
        BY <4>2
      <4>4. Len(file') = Len(file) + (last + 1 - next[p])
        BY <4>2, <4>3, PutExtends DEF Appended
      <4>5. Len(file) \in Nat
        BY <4>2, LenProperties DEF FileTypes
      <4>6. last + 1 - next[p] = 0
        <5>1. Len(file') = Len(file)
          BY <1>3
        <5>2. \A m \in Nat, x \in Int : m = m + x => x = 0
          OBVIOUS
        <5>3. last + 1 - next[p] \in Int
          BY <4>2
        <5> QED
          BY <4>4, <4>5, <5>1, <5>2, <5>3, Zenon
      <4> QED
        BY <4>2, <4>6
    <3> QED
      BY <1>3, <3>1 DEF Crash
  <2> QED
    BY <1>3, <2>1, FileAloneKeeps DEF Crash
<1>4. ASSUME NEW p \in Processes, Open(p) \/ OpenFails(p) \/ WriteFails(p) PROVE FileInv'
  BY <1>4, FileAloneKeeps DEF Open, OpenFails, WriteFails
<1>5. ASSUME UNCHANGED avars PROVE FileInv'
  <2>1. /\ UNCHANGED <<plan, at, next, pc, acked, file>>
        /\ \A r : Units(r)' = Units(r)
        /\ \A r, u : ChunkEnd(r, u)' = ChunkEnd(r, u)
        /\ \A r, u : Has(r, u)' <=> Has(r, u)
    BY <1>5 DEF avars, Units, ChunkEnd, Has
  <2>2. \A p : Current(p)' = Current(p)
    BY <2>1 DEF Current
  <2>3. FileTypes' /\ Buffered'
    BY <2>1, <2>2 DEF FileInv, FileTypes, Buffered
  <2>4. Complete' /\ InOrder' /\ Seams'
    BY <2>1 DEF FileInv, Complete, InOrder, Seams
  <2> QED
    BY <2>3, <2>4 DEF FileInv
<1> QED
  BY <1>1, <1>2, <1>3, <1>4, <1>5 DEF ANext

\* The units on file are in order, and what the buffers hold comes after them.
THEOREM FileInvariant == ASpec => []FileInv
<1> QED
  BY FileInit, FileStep, PTL DEF ASpec

\* No later append spoils a line of the log.
THEOREM LinesStay == ASpec => WholeIsForever
<1> DEFINE Kept == \A r \in Records : r[2] <= Len(plan[r[1]]) /\ Whole(r) => Whole(r)'
<1>1. FileInv /\ [ANext]_avars => [Kept]_avars
  <2> SUFFICES ASSUME FileInv, ANext, NEW r \in Records, Whole(r) PROVE Whole(r)'
    OBVIOUS
  <2>1. Units(r) \in Nat
    BY UnitsType
  <2>2. PICK p \in Processes : \/ Open(p) \/ OpenFails(p) \/ Write(p) \/ WriteShort(p)
                              \/ WriteFails(p) \/ Drop(p) \/ Crash(p)
    BY DEF ANext
  <2>3. plan' = plan
    BY <2>2 DEF Open, OpenFails, Write, WriteShort, WriteFails, Drop, Crash
  <2>4. CASE file' = file
    <3>1. \A x : Units(x)' = Units(x)
      BY <2>3 DEF Units
    <3>2. \A k : EndsLine(k)' <=> EndsLine(k)
      BY <2>4, <3>1 DEF EndsLine
    <3> QED
      BY <2>4, <3>1, <3>2 DEF Whole
  <2>5. CASE file' # file
    <3>1. Write(p) \/ WriteShort(p) \/ (Drop(p) /\ file' # file) \/ (Crash(p) /\ file' # file)
      BY <2>2, <2>5 DEF Open, OpenFails, WriteFails
    <3>2. Extended(Current(p))
      BY <3>1, StepGrows, GrowthKeeps
    <3> QED
      BY <2>1, <2>3, <3>2, WholeStays
  <2> QED
    BY <2>4, <2>5
<1> QED
  BY <1>1, FileInvariant, PTL DEF ASpec, WholeIsForever

-----------------------------------------------------------------------------
(* What is lost.                                                           *)

\* A unit that is not the last of its record goes on right after it, if the record
\* is all on file and does not break off there.
LEMMA GoesOn ==
  ASSUME FileInv, NEW k \in DOMAIN file, Continued(k),
         Has(file[k].rec, file[k].unit + 1)
  PROVE  /\ k + 1 \in DOMAIN file
         /\ file[k + 1].rec = file[k].rec /\ file[k + 1].unit = file[k].unit + 1
<1>1. /\ DOMAIN file = 1 .. Len(file) /\ Len(file) \in Nat /\ k \in 1 .. Len(file)
      /\ file[k].unit \in 1 .. 4
  BY UnitType DEF FileInv
<1>2. k + 1 \in DOMAIN file /\ file[k + 1].rec = file[k].rec
  BY <1>1 DEF Continued
<1>3. PICK j \in DOMAIN file : file[j].rec = file[k].rec /\ file[j].unit = file[k].unit + 1
  BY DEF Has
<1>4. j \in Int /\ file[k + 1].unit \in 1 .. 4
  BY <1>2, UnitType DEF FileInv
<1>5. InOrder
  BY DEF FileInv
<1>6. file[k].unit < file[k + 1].unit
  BY <1>1, <1>2, <1>5 DEF InOrder
<1>7. ~ (j < k) /\ ~ (k + 1 < j)
  <2>1. j < k => file[j].unit < file[k].unit
    BY <1>3, <1>5 DEF InOrder
  <2>2. k + 1 < j => file[k + 1].unit < file[j].unit
    BY <1>2, <1>3, <1>5 DEF InOrder
  <2>4. ~ (j < k)
    BY <1>1, <1>3, <2>1
  <2>5. ~ (k + 1 < j)
    <3>1. \A a \in 1 .. 4, b \in 1 .. 4 : a < b => ~ (b < a + 1)
      OBVIOUS
    <3>2. ~ (file[k + 1].unit < file[k].unit + 1)
      BY <1>1, <1>4, <1>6, <3>1
    <3> QED
      BY <1>3, <2>2, <3>2
  <2> QED
    BY <2>4, <2>5
<1>8. j # k
  BY <1>1, <1>3
<1>9. j = k + 1
  BY <1>1, <1>4, <1>7, <1>8
<1> QED
  BY <1>2, <1>3, <1>9

\* The place of the first unit of an acknowledged record, and what stands there.
LEMMA Begins ==
  ASSUME FileInv, NEW r \in acked
  PROVE  /\ Units(r) \in {2, 4} /\ \A u \in 1 .. Units(r) : Has(r, u)
         /\ \E k \in DOMAIN file : file[k].rec = r /\ file[k].unit = 1
<1>1. Units(r) \in {2, 4} /\ \A u \in 1 .. Units(r) : Has(r, u)
  BY UnitsType DEF FileInv, Complete
<1>2. Has(r, 1)
  BY <1>1
<1> QED
  BY <1>1, <1>2 DEF Has

\* The record breaks off at k.
BreaksOff(r, k) == k \in Breaks /\ file[k].rec = r

\* An acknowledged record that does not break off stands in one piece.
LEMMA Unbroken ==
  ASSUME FileInv, NEW r \in acked, \A j : ~ BreaksOff(r, j),
         NEW k \in DOMAIN file, file[k].rec = r, file[k].unit = 1
  PROVE  /\ k + Units(r) - 1 \in DOMAIN file
         /\ \A u \in 1 .. Units(r) : file[k + u - 1].rec = r /\ file[k + u - 1].unit = u
<1> DEFINE At(i, u) == i \in DOMAIN file /\ file[i].rec = r /\ file[i].unit = u
<1>1. /\ Units(r) \in {2, 4} /\ \A u \in 1 .. Units(r) : Has(r, u)
      /\ k \in Int
  BY Begins, UnitType DEF FileInv
<1>2. ASSUME NEW i, NEW u \in 1 .. 3, u < Units(r), At(i, u) PROVE At(i + 1, u + 1)
  <2>1. ~ EndsLine(i)
    BY <1>1, <1>2 DEF EndsLine
  <2>2. Continued(i)
    BY <1>2, <2>1 DEF BreaksOff, Breaks
  <2>3. u + 1 \in 1 .. Units(r)
    BY <1>1, <1>2
  <2>4. Has(file[i].rec, file[i].unit + 1)
    BY <1>1, <1>2, <2>3
  <2> QED
    BY <1>2, <2>2, <2>4, GoesOn
<1>3. At(k, 1)
  OBVIOUS
<1>4. At(k + 1, 2)
  <2>1. 1 < Units(r) /\ 1 \in 1 .. 3 /\ 1 + 1 = 2
    BY <1>1
  <2> HIDE DEF At
  <2> QED
    BY <1>2, <1>3, <2>1
<1>5. Units(r) = 4 => At(k + 2, 3) /\ At(k + 3, 4)
  <2> SUFFICES ASSUME Units(r) = 4 PROVE At(k + 2, 3) /\ At(k + 3, 4)
    OBVIOUS
  <2>1. 2 < Units(r) /\ 3 < Units(r) /\ 2 \in 1 .. 3 /\ 3 \in 1 .. 3 /\ 2 + 1 = 3 /\ 3 + 1 = 4
        /\ (k + 1) + 1 = k + 2 /\ (k + 2) + 1 = k + 3
    BY <1>1
  <2> HIDE DEF At
  <2>2. At(k + 2, 3)
    BY <1>2, <1>4, <2>1
  <2> QED
    BY <1>2, <2>1, <2>2
<1>6. \A u \in 1 .. Units(r) : At(k + u - 1, u)
  <2> SUFFICES ASSUME NEW u \in 1 .. Units(r) PROVE At(k + u - 1, u)
    OBVIOUS
  <2>1. /\ u \in {1, 2} \/ (Units(r) = 4 /\ u \in {3, 4})
        /\ k + 1 - 1 = k /\ k + 2 - 1 = k + 1 /\ k + 3 - 1 = k + 2 /\ k + 4 - 1 = k + 3
    BY <1>1
  <2> HIDE DEF At
  <2> QED
    BY <1>3, <1>4, <1>5, <2>1
<1>7. Units(r) \in 1 .. Units(r)
  BY <1>1
<1> QED
  BY <1>6, <1>7

\* A lost record breaks off, or begins where another one breaks off.
Lost == {r \in acked : ~ Whole(r)}

Cause(r) ==
  IF \E k : BreaksOff(r, k) THEN <<CHOOSE k : BreaksOff(r, k), 1>>
  ELSE <<CHOOSE k : k \in Breaks /\ file[k + 1].rec = r, 2>>

LEMMA LostAfterBreak ==
  ASSUME FileInv, NEW r \in Lost, ~ \E k : BreaksOff(r, k)
  PROVE  \E k : k \in Breaks /\ file[k + 1].rec = r
<1>1. r \in acked /\ ~ Whole(r)
  BY DEF Lost
<1>2. PICK k \in DOMAIN file : file[k].rec = r /\ file[k].unit = 1
  BY <1>1, Begins
<1>3. /\ k + Units(r) - 1 \in DOMAIN file
      /\ \A u \in 1 .. Units(r) : file[k + u - 1].rec = r /\ file[k + u - 1].unit = u
  BY <1>1, <1>2, Unbroken
<1>4. k # 1 /\ ~ EndsLine(k - 1)
  BY <1>1, <1>3 DEF Whole
<1>5. DOMAIN file = 1 .. Len(file) /\ Len(file) \in Nat /\ k \in 1 .. Len(file)
  BY UnitType DEF FileInv
<1>6. k - 1 \in DOMAIN file /\ (k - 1) + 1 = k /\ k - 1 < k
  BY <1>4, <1>5
<1>7. file[k - 1].unit \in 1 .. 4
  BY <1>6, UnitType DEF FileInv
<1>8. file[k - 1].rec # r
  <2>1. file[k - 1].rec = r => file[k - 1].unit < file[k].unit
    BY <1>2, <1>6 DEF FileInv, InOrder
  <2> QED
    BY <1>2, <1>7, <2>1
<1>9. k - 1 \in Breaks
  BY <1>2, <1>4, <1>6, <1>8 DEF Breaks, Continued
<1> QED
  BY <1>2, <1>6, <1>9

\* Where a record breaks off it was damaged.
LEMMA BreaksDamaged ==
  ASSUME FileInv, NEW k \in Breaks
  PROVE  file[k].rec \in Damaged
<1> DEFINE r == file[k].rec
<1>1. k \in DOMAIN file /\ ~ EndsLine(k) /\ ~ Continued(k)
  BY DEF Breaks
<1>2. /\ file[k].unit \in 1 .. 4 /\ r \in Records /\ k \in 1 .. Len(file) /\ Len(file) \in Nat
      /\ DOMAIN file = 1 .. Len(file)
  BY <1>1, UnitType DEF FileInv
<1>3. OnFile(r) # {}
  BY <1>1 DEF OnFile
<1>4. CASE r \notin acked \/ Units(r) = 4 \/ Shorted(r)
  BY <1>2, <1>3, <1>4 DEF Damaged
<1>5. CASE Units(r) # 4 /\ ~ Shorted(r)
  <2>1. Units(r) = 2
    BY <1>5, UnitsType
  <2>2. file[k].end = "full"
    BY <1>1, <1>5 DEF Shorted
  <2>3. file[k].unit <= Units(r) /\ file[k].unit # Units(r)
    BY <1>1 DEF FileInv, InOrder, EndsLine
  <2>4. file[k].unit = 1
    BY <1>2, <2>1, <2>3
  <2>5. ChunkEnd(r, 1) = 2
    BY <2>1 DEF ChunkEnd
  <2>6. file[k].unit < ChunkEnd(r, file[k].unit)
    BY <2>4, <2>5
  <2>7. k + 1 \in DOMAIN file /\ file[k + 1].rec = r
    BY <1>1, <2>2, <2>6 DEF FileInv, Seams
  <2>8. k < Len(file)
    BY <1>2, <2>7
  <2> QED
    BY <1>1, <2>7, <2>8 DEF Continued
<1> QED
  BY <1>4, <1>5

\* An acknowledged record written in one write is in one piece.
LEMMA ShortRecords == FileInv => ShortRecordsAreAtomic
<1> SUFFICES ASSUME FileInv, NEW r \in acked, Units(r) = 2, ~ Shorted(r)
             PROVE  \E k \in DOMAIN file :
                      /\ OnFile(r) = {k, k + 1}
                      /\ Whole(r) \/ (k > 1 /\ file[k - 1].rec \in Damaged)
  BY DEF ShortRecordsAreAtomic
<1>1. r \notin Damaged
  BY DEF Damaged
<1>2. \A j : ~ BreaksOff(r, j)
  BY <1>1, BreaksDamaged DEF BreaksOff
<1>3. PICK k \in DOMAIN file : file[k].rec = r /\ file[k].unit = 1
  BY Begins
<1>4. /\ k + Units(r) - 1 \in DOMAIN file
      /\ \A u \in 1 .. Units(r) : file[k + u - 1].rec = r /\ file[k + u - 1].unit = u
  BY <1>2, <1>3, Unbroken
<1>5. DOMAIN file = 1 .. Len(file) /\ Len(file) \in Nat /\ k \in 1 .. Len(file)
  BY UnitType DEF FileInv
<1>6. k + 1 \in DOMAIN file /\ file[k + 1].rec = r /\ file[k + 1].unit = 2
  <2>1. 2 \in 1 .. Units(r) /\ k + 2 - 1 = k + 1 /\ k + Units(r) - 1 = k + 1
    BY <1>5
  <2> QED
    BY <1>4, <2>1
<1>7. ASSUME NEW j \in OnFile(r) PROVE j \in {k, k + 1}
  <2>1. j \in DOMAIN file /\ file[j].rec = r
    BY DEF OnFile
  <2>2. j \in Int /\ file[j].unit \in 1 .. 4
    BY <2>1, UnitType DEF FileInv
  <2>3. file[j].unit <= 2
    BY <2>1 DEF FileInv, InOrder
  <2>4. ~ (j < k) /\ ~ (k + 1 < j)
    <3>1. j < k => file[j].unit < file[k].unit
      BY <1>3, <2>1 DEF FileInv, InOrder
    <3>2. k + 1 < j => file[k + 1].unit < file[j].unit
      BY <1>6, <2>1 DEF FileInv, InOrder
    <3> QED
      BY <1>3, <1>6, <2>2, <2>3, <3>1, <3>2
  <2> QED
    BY <1>5, <2>2, <2>4
<1>8. OnFile(r) = {k, k + 1}
  BY <1>3, <1>6, <1>7 DEF OnFile
<1>9. CASE k = 1 \/ EndsLine(k - 1)
  BY <1>3, <1>4, <1>8, <1>9 DEF Whole
<1>10. CASE k # 1 /\ ~ EndsLine(k - 1)
  <2>1. k - 1 \in DOMAIN file /\ (k - 1) + 1 = k /\ k - 1 < k /\ k > 1
    BY <1>5, <1>10
  <2>2. file[k - 1].unit \in 1 .. 4
    BY <2>1, UnitType DEF FileInv
  <2>3. file[k - 1].rec # r
    <3>1. file[k - 1].rec = r => file[k - 1].unit < file[k].unit
      BY <1>3, <2>1 DEF FileInv, InOrder
    <3> QED
      BY <1>3, <2>2, <3>1
  <2>4. k - 1 \in Breaks
    BY <1>3, <1>10, <2>1, <2>3 DEF Breaks, Continued
  <2> QED
    BY <1>8, <2>1, <2>4, BreaksDamaged
<1> QED
  BY <1>9, <1>10

\* Each break costs two records at most.
LEMMA LossBound == FileInv => LossIsBounded
<1> SUFFICES ASSUME FileInv PROVE LossIsBounded
  OBVIOUS
<1> DEFINE T == Breaks \X (1 .. 2)
           f == [r \in Lost |-> Cause(r)]
<1>1. IsFiniteSet(Breaks) /\ Cardinality(Breaks) \in Nat
  <2>1. DOMAIN file = 1 .. Len(file) /\ Len(file) \in Nat
    BY LenProperties DEF FileInv, FileTypes
  <2>2. IsFiniteSet(DOMAIN file)
    BY <2>1, FS_Interval
  <2>3. Breaks \in SUBSET DOMAIN file
    BY DEF Breaks
  <2> QED
    BY <2>2, <2>3, FS_Subset, FS_CardinalityType
<1>2. IsFiniteSet(1 .. 2) /\ Cardinality(1 .. 2) = 2
  <2>1. IsFiniteSet({1}) /\ Cardinality({1}) = 1
    BY FS_Singleton
  <2>2. IsFiniteSet({1} \cup {2}) /\ Cardinality({1} \cup {2}) = Cardinality({1}) + 1
    BY <2>1, FS_AddElement
  <2>3. 1 .. 2 = {1} \cup {2}
    OBVIOUS
  <2> QED
    BY <2>1, <2>2, <2>3
<1>3. IsFiniteSet(T) /\ Cardinality(T) = Cardinality(Breaks) * 2
  BY <1>1, <1>2, FS_Product
<1>4. ASSUME NEW r \in Lost
      PROVE  \E k \in Breaks : \/ Cause(r) = <<k, 1>> /\ file[k].rec = r
                               \/ Cause(r) = <<k, 2>> /\ file[k + 1].rec = r
  <2>1. CASE \E k : BreaksOff(r, k)
    <3>1. BreaksOff(r, CHOOSE k : BreaksOff(r, k))
      BY <2>1
    <3> QED
      BY <2>1, <3>1 DEF Cause, BreaksOff
  <2>2. CASE ~ \E k : BreaksOff(r, k)
    <3> DEFINE b == CHOOSE k : k \in Breaks /\ file[k + 1].rec = r
    <3>1. b \in Breaks /\ file[b + 1].rec = r
      BY <2>2, LostAfterBreak
    <3>2. Cause(r) = <<b, 2>>
      BY <2>2 DEF Cause
    <3> HIDE DEF b
    <3> QED
      BY <3>1, <3>2
  <2> QED
    BY <2>1, <2>2
<1>5. f \in Injection(Lost, T)
  <2>1. ASSUME NEW r \in Lost PROVE Cause(r) \in T
    BY <1>4
  <2>2. ASSUME NEW a \in Lost, NEW b \in Lost, Cause(a) = Cause(b) PROVE a = b
    <3>1. PICK j \in Breaks :
            \/ Cause(a) = <<j, 1>> /\ file[j].rec = a
            \/ Cause(a) = <<j, 2>> /\ file[j + 1].rec = a
      BY <1>4
    <3>2. PICK k \in Breaks :
            \/ Cause(b) = <<k, 1>> /\ file[k].rec = b
            \/ Cause(b) = <<k, 2>> /\ file[k + 1].rec = b
      BY <1>4
    <3> QED
      BY <2>2, <3>1, <3>2
  <2>3. f \in [Lost -> T]
    BY <2>1
  <2>4. \A a, b \in Lost : f[a] = f[b] => a = b
    BY <2>2
  <2> QED
    BY <2>3, <2>4 DEF Injection, IsInjective
<1>6. Cardinality(Lost) <= Cardinality(T)
  BY <1>3, <1>5, FS_Injection
<1>7. \A k \in Breaks : file[k].rec \in Damaged
  BY BreaksDamaged
<1> QED
  BY <1>1, <1>3, <1>6, <1>7 DEF LossIsBounded, Lost

\* What a failed, short or interrupted write spoils is contained.
THEOREM LossStaysContained == ASpec => []LossIsContained
<1>1. FileInv => LossIsContained
  BY ShortRecords, LossBound DEF LossIsContained
<1> QED
  BY <1>1, FileInvariant, PTL
=============================================================================
