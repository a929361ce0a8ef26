---------------------------- MODULE CallProofs -----------------------------
(***************************************************************************)
(* A call on its way: the flags and the input, for every schema and every  *)
(* input (ModuleInput), the answer of the user, for any number of prompts  *)
(* and lines (ApprovalPrompt), the child that runs the module, for every   *)
(* program, pipe size, input and cap (ChildIO), and the resolution of the  *)
(* $ref pointers in a schema, however it is nested (RefResolver).          *)
(***************************************************************************)
EXTENDS ChildIO, ApprovalPrompt, ModuleInput, RefResolver, ListsProofs

-----------------------------------------------------------------------------
(* The child.                                                              *)


\* A conserved quantity: what the child wrote is in the pipe or was collected.
Conserved == \A s \in Streams : emitted[s] = collected[s] + pipe[s]

\* A stream that is done was read to its end, or its reading failed.
Drained == \A s \in Streams : s \notin reading => s \in lost \/ pipe[s] = 0

\* The inductive invariant.
ChildInv ==
  /\ CTypeOK
  /\ Conserved
  /\ Drained
  /\ mode = "script" => lost = {}
  /\ parent = "done" <=> outcome # "none"
  /\ parent = "done" => child # "alive"
  /\ OutputIsComplete
  /\ BoundedCollection
  /\ OverflowIsReported

\* A call starts with empty pipes and nothing collected.
LEMMA ChildInit == CInit => ChildInv
<1> SUFFICES ASSUME CInit PROVE ChildInv
  OBVIOUS
<1>1. mode \in {"script", "sandbox"} /\ program \in Seq(Ops)
  BY ChildAssumption DEF CInit
<1>2. CTypeOK
  <2>1. stdinOpen \in BOOLEAN
    BY Zenon DEF CInit
  <2> QED
    BY <1>1, <2>1, ChildAssumption DEF CInit, CTypeOK, Outcomes, Streams
<1> QED
  BY <1>2, ChildAssumption DEF CInit, ChildInv, Conserved, Drained,
     OutputIsComplete, BoundedCollection, OverflowIsReported, Overflowed, Streams

\* A step of the child: it changes what is in the pipes only together with what
\* it has emitted, and only of a stream that is still read.
LEMMA ChildAlone ==
  ASSUME ChildInv, child = "alive", program' \in Seq(Ops),
         held' \subseteq Streams \cup {"in"}, child' \in {"alive", "exited", "failed", "killed"},
         UNCHANGED <<mode, parent, unwritten, stdinOpen, readers, outcome>>,
         stdin' \in 0 .. PipeSize,
         \/ UNCHANGED <<pipe, emitted>>
         \/ \E s \in reading : /\ pipe[s] < PipeSize
                               /\ pipe' = [pipe EXCEPT ![s] = @ + 1]
                               /\ emitted' = [emitted EXCEPT ![s] = @ + 1]
  PROVE  ChildInv'
<1> USE ChildAssumption DEF ChildInv, CTypeOK
<1>1. outcome = "none" /\ UNCHANGED <<mode, parent, unwritten, stdinOpen, reading, lost, collected, outcome>>
  BY DEF readers
<1>2. CASE UNCHANGED <<pipe, emitted>>
  BY <1>1, <1>2 DEF Conserved, Drained, OutputIsComplete, BoundedCollection, OverflowIsReported, Overflowed
<1>3. CASE ~ UNCHANGED <<pipe, emitted>>
  <2>1. PICK s \in reading : /\ pipe[s] < PipeSize
                             /\ pipe' = [pipe EXCEPT ![s] = @ + 1]
                             /\ emitted' = [emitted EXCEPT ![s] = @ + 1]
    BY <1>3
  <2>2. /\ pipe[s] \in 0 .. PipeSize /\ pipe' \in [Streams -> 0 .. PipeSize]
        /\ emitted' \in [Streams -> Nat]
    BY <2>1
  <2>3. Conserved'
    BY <1>1, <2>1, <2>2 DEF Conserved
  <2>4. Drained'
    BY <1>1, <2>1 DEF Drained
  <2> QED
    BY <1>1, <2>2, <2>3, <2>4 DEF OutputIsComplete, BoundedCollection, OverflowIsReported, Overflowed
<1> QED
  BY <1>2, <1>3

\* Every step of the child, the parent and the timer keeps the invariant.
LEMMA ChildStep == ChildInv /\ [CNext]_cvars => ChildInv'
<1> SUFFICES ASSUME ChildInv, [CNext]_cvars PROVE ChildInv'
  OBVIOUS
<1>t. program # <<>> => Tail(program) \in Seq(Ops)
  BY DEF ChildInv, CTypeOK
<1>n. <<>> \in Seq(Ops)
  OBVIOUS
<1>1. CASE ChildReads
  <2>1. stdin' \in 0 .. PipeSize
    BY <1>1, ChildAssumption DEF ChildReads, ChildInv, CTypeOK
  <2> QED
    BY <1>1, <1>t, <2>1, ChildAlone DEF ChildReads, Does, ChildInv, CTypeOK
<1>2. CASE ChildExits
  BY <1>2, <1>n, ChildAlone DEF ChildExits, Does, writing, ChildInv, CTypeOK
<1>3. ASSUME NEW s \in Streams, ChildWrites(s) PROVE ChildInv'
  BY <1>3, <1>t, ChildAlone DEF ChildWrites, Does, writing, ChildInv, CTypeOK
<1>4. ASSUME NEW s \in Streams, ChildWriteFails(s) PROVE ChildInv'
  BY <1>4, <1>t, <1>n, ChildAlone DEF ChildWriteFails, Does, writing, ChildInv, CTypeOK
<1>5. ASSUME NEW op \in DOMAIN Closes, ChildCloses(op) PROVE ChildInv'
  BY <1>5, <1>t, ChildAlone DEF ChildCloses, Does, writing, ChildInv, CTypeOK
<1> USE ChildAssumption DEF ChildInv, CTypeOK, Conserved, Drained, Return, writing, readers,
        OutputIsComplete, BoundedCollection, OverflowIsReported, Overflowed, Outcomes
<1>6. CASE WriteInput
  BY <1>6 DEF WriteInput
<1>7. CASE WriteBroken
  BY <1>7 DEF WriteBroken
<1>8. CASE CloseInput
  BY <1>8 DEF CloseInput
<1>9. CASE Reap
  BY <1>9 DEF Reap
<1>10. CASE Timeout
  BY <1>10 DEF Timeout
<1>11. ASSUME NEW s \in Streams, StreamEnds(s) PROVE ChildInv'
  BY <1>11 DEF StreamEnds
<1>12. ASSUME NEW s \in Streams, ReadFails(s) PROVE ChildInv'
  BY <1>12 DEF ReadFails
<1>13. ASSUME NEW s \in Streams, ReadChunk(s) PROVE ChildInv'
  <2>1. /\ parent = "read" /\ outcome = "none"
        /\ ~(mode = "sandbox" /\ Overflowed(collected))
        /\ pipe[s] > 0
    BY <1>13 DEF ReadChunk
  <2>2. /\ collected' = [collected EXCEPT ![s] = @ + 1] /\ collected' \in [Streams -> Nat]
        /\ pipe' = [pipe EXCEPT ![s] = @ - 1] /\ pipe' \in [Streams -> 0 .. PipeSize]
        /\ UNCHANGED <<mode, program, unwritten, stdin, stdinOpen, reading, lost, emitted>>
    BY <1>13, <2>1 DEF ReadChunk
  <2>3. Conserved'
    BY <2>1, <2>2
  <2>4. Drained'
    BY <2>1, <2>2
  <2>5. BoundedCollection'
    <3> SUFFICES ASSUME mode = "sandbox", NEW t \in Streams
                 PROVE  collected'[t] <= Cap + 1
      BY <2>2
    <3>1. collected[t] <= Cap
      BY <2>1
    <3> QED
      BY <2>2, <3>1
  <2> HIDE DEF Conserved, Drained, BoundedCollection
  <2>6. CASE mode = "sandbox" /\ Overflowed(collected')
    <3>1. parent' = "done" /\ outcome' = "overflow" /\ child' # "alive"
          /\ child' \in {"alive", "exited", "failed", "killed"} /\ held' \subseteq Streams \cup {"in"}
      BY <1>13, <2>6 DEF ReadChunk
    <3> QED
      BY <2>1, <2>2, <2>3, <2>4, <2>5, <2>6, <3>1
  <2>7. CASE ~(mode = "sandbox" /\ Overflowed(collected'))
    <3>1. UNCHANGED <<parent, child, held, outcome>>
      BY <1>13, <2>7 DEF ReadChunk
    <3> QED
      BY <2>1, <2>2, <2>3, <2>4, <2>5, <2>7, <3>1
  <2> QED
    BY <2>6, <2>7
<1>14. CASE UNCHANGED cvars
  BY <1>14 DEF cvars
<1> QED
  BY <1>1, <1>2, <1>3, <1>4, <1>5, <1>6, <1>7, <1>8, <1>9, <1>10, <1>11, <1>12, <1>13, <1>14
  DEF CNext, ChildSteps, ParentSteps

\* The invariant holds in every reachable state.
THEOREM ChildInvariant == CSpec => []ChildInv
<1> QED
  BY ChildInit, ChildStep, PTL DEF CSpec

\* Success returns the whole output of a child that exited with status 0, but for
\* a stream of a sandboxed child whose reading failed.
THEOREM CompleteOutput == CSpec => []OutputIsComplete
<1>1. ChildInv => OutputIsComplete
  BY DEF ChildInv
<1> QED
  BY <1>1, ChildInvariant, PTL

\* For every cap and every program: the parent holds at most one chunk beyond
\* the cap, and reports the overflow, and only that, when it is crossed.
THEOREM CappedCollection == CSpec => []CollectionIsCapped
<1>1. ChildInv => CollectionIsCapped
  BY DEF ChildInv, CollectionIsCapped
<1> QED
  BY <1>1, ChildInvariant, PTL

-----------------------------------------------------------------------------
(* The prompt.                                                             *)


PromptTypes ==
  /\ limit \in {"zero", "positive"} /\ binary \in BOOLEAN
  /\ status \in [Prompts -> Final \cup {"new", "asking"}]
  /\ thread \in [Prompts -> {"none", "waiting", "reading", "done"}]
  /\ typed \in Seq(Lines)
  /\ taken \in [Prompts -> Seq(Lines)]
  /\ nLines \in Nat

\* The reader of a prompt and the prompt: only a reader that has its line has
\* decided anything, and one that took the line of a later prompt is behind it.
ReaderOf(p) ==
  /\ status[p] = "new" <=> thread[p] = "none"
  /\ status[p] \in {"approved", "rejected"} => thread[p] = "done"
  /\ thread[p] = "done" => Len(taken[p]) = 1
  /\ thread[p] # "done" => taken[p] = <<>>
  /\ status[p] = "approved" => taken[p][1].answer = "yes"
  /\ thread[p] = "done" /\ status[p] # "timeout" => taken[p][1].for <= p

\* A prompt is shown only after those before it are settled; in the program,
\* only after consent to all of them.
InTurn == \A p, q \in Prompts : q < p /\ status[p] # "new" =>
            status[q] \in Final /\ (binary => status[q] = "approved")

\* A line waiting to be read answers a prompt that was shown.
Answers == \A k \in 1 .. Len(typed) : status[typed[k].for] # "new"

\* The lines are numbered as they are typed and are read in that order, each by
\* one thread.
Numbered ==
  /\ \A k \in 1 .. Len(typed) : typed[k].nth = nLines - Len(typed) + k
  /\ \A p \in Prompts : thread[p] = "done" => taken[p][1].nth <= nLines - Len(typed)
  /\ \A p, q \in Prompts : thread[p] = "done" /\ thread[q] = "done"
                             /\ taken[p][1].nth = taken[q][1].nth => p = q

\* The invariant by which ConsentIsItsOwn and NoStaleReader are inductive: where
\* a thread still reads, a later prompt has been shown only after its own one
\* was settled, in the program none at all.
PromptInv ==
  /\ PromptTypes
  /\ \A p \in Prompts : ReaderOf(p)
  /\ InTurn
  /\ Answers
  /\ Numbered
  /\ NoStaleReader

LEMMA PromptInit == PInit => PromptInv
<1> SUFFICES ASSUME PInit PROVE PromptInv
  OBVIOUS
<1>1. typed = <<>> /\ typed \in Seq(Lines) /\ Len(typed) = 0 /\ \A p \in Prompts : taken[p] = <<>>
  BY EmptySeq DEF PInit
<1>2. PromptTypes
  BY <1>1, EmptySeq DEF PInit, PromptTypes
<1>3. \A p \in Prompts : ReaderOf(p)
  BY DEF PInit, ReaderOf
<1>4. InTurn /\ Answers /\ Numbered
  BY <1>1 DEF PInit, InTurn, Answers, Numbered
<1>5. NoStaleReader
  BY <1>1 DEF NoStaleReader
<1> QED
  BY <1>2, <1>3, <1>4, <1>5 DEF PromptInv

\* A line that waits to be read is for one of the prompts.
LEMMA LinesFor == ASSUME PromptTypes PROVE \A k \in 1 .. Len(typed) : typed[k].for \in Prompts
<1> SUFFICES ASSUME NEW k \in 1 .. Len(typed) PROVE typed[k].for \in Prompts
  OBVIOUS
<1>1. typed[k] \in Lines
  BY ElementOfSeq DEF PromptTypes
<1> QED
  BY <1>1 DEF Lines

\* The one step that gives a thread a line.
LEMMA ReadStep == ASSUME PromptInv, NEW p \in Prompts, ReadLine(p) PROVE PromptInv'
<1> DEFINE line == Head(typed)
<1>1. /\ UNCHANGED <<binary, limit, status, nLines>>
      /\ thread' = [thread EXCEPT ![p] = "done"]
      /\ taken' = [taken EXCEPT ![p] = <<line>>]
      /\ typed' = Tail(typed) /\ typed # <<>> /\ thread[p] = "reading"
  BY DEF ReadLine
<1>2. /\ line \in Lines /\ line = typed[1] /\ 1 \in 1 .. Len(typed)
      /\ Tail(typed) \in Seq(Lines) /\ Len(Tail(typed)) = Len(typed) - 1 /\ Len(typed) \in Nat
      /\ \A k \in 1 .. Len(Tail(typed)) : Tail(typed)[k] = typed[k + 1] /\ k + 1 \in 1 .. Len(typed)
  BY <1>1, HeadTailProperties DEF PromptInv, PromptTypes
<1>3. /\ <<line>> \in Seq(Lines) /\ Len(<<line>>) = 1 /\ <<line>>[1] = line
      /\ DOMAIN <<line>> = {1}
  BY <1>2
<1>4. PromptTypes'
  BY <1>1, <1>2, <1>3 DEF PromptInv, PromptTypes
<1>5. status[p] \in {"asking", "timeout"}
  BY <1>1 DEF PromptInv, PromptTypes, ReaderOf, Final
<1>6. line.for > p => status[p] \in Final /\ (binary => status[p] = "approved")
  <2>1. line.for \in Prompts /\ status[line.for] # "new"
    BY <1>2 DEF PromptInv, Answers, Lines
  <2> QED
    BY <2>1 DEF PromptInv, InTurn
<1>7. line.for <= p \/ (status[p] = "timeout" /\ ~ binary)
  <2>1. line.for \in Nat /\ p \in Nat
    BY <1>2 DEF Lines, Prompts
  <2> QED
    BY <1>5, <1>6, <2>1 DEF Final
<1>8. \A q \in Prompts : ReaderOf(q)'
  <2> SUFFICES ASSUME NEW q \in Prompts PROVE ReaderOf(q)'
    OBVIOUS
  <2>1. CASE q = p
    BY <2>1, <1>1, <1>3, <1>5, <1>7 DEF PromptInv, PromptTypes, ReaderOf
  <2>2. CASE q # p
    BY <2>2, <1>1 DEF PromptInv, PromptTypes, ReaderOf
  <2> QED
    BY <2>1, <2>2
<1>9. InTurn'
  BY <1>1 DEF PromptInv, InTurn
<1>10. Answers'
  BY <1>1, <1>2 DEF PromptInv, Answers
<1>11. Numbered'
  <2>1. nLines \in Nat /\ line.nth = nLines - Len(typed) + 1
    BY <1>2 DEF PromptInv, PromptTypes, Numbered
  <2>2. Len(typed') = Len(typed) - 1 /\ nLines - Len(typed') = nLines - Len(typed) + 1
    BY <1>1, <1>2, <2>1
  <2>3. /\ thread'[p] = "done" /\ taken'[p][1] = line
        /\ \A q \in Prompts : q # p => thread'[q] = thread[q] /\ taken'[q] = taken[q]
    BY <1>1, <1>3 DEF PromptInv, PromptTypes
  <2>4. \A k \in 1 .. Len(typed') : typed'[k].nth = nLines - Len(typed') + k
    <3> SUFFICES ASSUME NEW k \in 1 .. Len(Tail(typed))
                 PROVE  Tail(typed)[k].nth = nLines - Len(Tail(typed)) + k
      BY <1>1
    <3>1. typed[k + 1].nth = nLines - Len(typed) + (k + 1)
      BY <1>2 DEF PromptInv, Numbered
    <3>2. k \in Int
      BY <1>2
    <3> QED
      BY <1>2, <2>1, <3>1, <3>2
  <2>5. \A q \in Prompts : thread[q] = "done" =>
          taken[q][1].nth \in Nat /\ taken[q][1].nth <= nLines - Len(typed)
    <3> SUFFICES ASSUME NEW q \in Prompts, thread[q] = "done" PROVE taken[q][1].nth \in Nat
      BY DEF PromptInv, Numbered
    <3>1. taken[q] \in Seq(Lines) /\ Len(taken[q]) = 1
      BY DEF PromptInv, PromptTypes, ReaderOf
    <3>2. taken[q][1] \in Lines
      BY <3>1
    <3> QED
      BY <3>2 DEF Lines
  <2>6. \A q \in Prompts : thread'[q] = "done" => taken'[q][1].nth <= nLines - Len(typed')
    <3> SUFFICES ASSUME NEW q \in Prompts, thread'[q] = "done"
                 PROVE  taken'[q][1].nth <= nLines - Len(typed) + 1
      BY <2>2
    <3>1. CASE q = p
      BY <1>2, <2>1, <2>3, <3>1
    <3>2. CASE q # p
      BY <1>2, <2>1, <2>3, <2>5, <3>2
    <3> QED
      BY <3>1, <3>2
  <2>7. ASSUME NEW q \in Prompts, NEW r \in Prompts, thread'[q] = "done", thread'[r] = "done",
               taken'[q][1].nth = taken'[r][1].nth
        PROVE  q = r
    <3>1. CASE q # p /\ r # p
      BY <2>3, <2>7, <3>1 DEF PromptInv, Numbered
    <3>2. CASE q = p /\ r # p
      BY <1>2, <2>1, <2>3, <2>5, <2>7, <3>2
    <3>3. CASE q # p /\ r = p
      BY <1>2, <2>1, <2>3, <2>5, <2>7, <3>3
    <3> QED
      BY <3>1, <3>2, <3>3
  <2> QED
    BY <1>1, <2>4, <2>6, <2>7 DEF Numbered
<1>12. NoStaleReader'
  <2> SUFFICES ASSUME binary, NEW q \in Prompts, NEW k \in DOMAIN (taken'[q])
               PROVE  taken'[q][k].for <= q
    BY <1>1 DEF NoStaleReader
  <2>1. CASE q = p
    BY <2>1, <1>1, <1>3, <1>7 DEF PromptInv, PromptTypes
  <2>2. CASE q # p
    BY <2>2, <1>1 DEF PromptInv, PromptTypes, NoStaleReader
  <2> QED
    BY <2>1, <2>2
<1> QED
  BY <1>4, <1>8, <1>9, <1>10, <1>11, <1>12 DEF PromptInv

\* Every step keeps the invariant.
LEMMA PromptNext == PromptInv /\ [PNext]_pvars => PromptInv'
<1> SUFFICES ASSUME PromptInv, [PNext]_pvars PROVE PromptInv'
  OBVIOUS
<1> USE DEF PromptInv
<1>1. ASSUME NEW p \in Prompts, Ask(p) PROVE PromptInv'
  <2>1. /\ status[p] = "new" /\ UNCHANGED <<binary, limit, typed, taken, nLines>>
        /\ \A q \in 1 .. p - 1 : status[q] \in (IF binary THEN {"approved"} ELSE Final)
        /\ status' = [status EXCEPT ![p] = "asking"] /\ thread' = [thread EXCEPT ![p] = "waiting"]
    BY <1>1 DEF Ask
  <2>2. PromptTypes' /\ \A q \in Prompts : ReaderOf(q)'
    BY <2>1 DEF PromptTypes, ReaderOf, Final
  <2>3. InTurn'
    <3>1. \A q \in Prompts : q < p => status[q] \in Final /\ (binary => status[q] = "approved")
      BY <2>1 DEF Prompts, Final
    <3> QED
      BY <2>1, <3>1 DEF PromptTypes, InTurn, Final
  <2>4. Answers'
    <3>1. \A q \in Prompts : status[q] # "new" => status'[q] # "new"
      BY <2>1 DEF PromptTypes
    <3>2. \A k \in 1 .. Len(typed) : typed[k].for \in Prompts
      BY LinesFor
    <3> QED
      BY <2>1, <3>1, <3>2 DEF Answers
  <2>5. NoStaleReader'
    BY <2>1 DEF NoStaleReader
  <2>6. Numbered'
    BY <2>1 DEF PromptTypes, Numbered
  <2> QED
    BY <2>2, <2>3, <2>4, <2>5, <2>6
<1>2. ASSUME NEW p \in Prompts, LockStdin(p) PROVE PromptInv'
  BY <1>2 DEF LockStdin, PromptTypes, ReaderOf, InTurn, Answers, Numbered, NoStaleReader
<1>3. ASSUME NEW p \in Prompts, NEW a \in {"yes", "other"}, TypeLine(p, a) PROVE PromptInv'
  <2> DEFINE line == [answer |-> a, for |-> p, nth |-> nLines + 1]
  <2>1. /\ typed' = Append(typed, line) /\ status[p] = "asking" /\ nLines' = nLines + 1
        /\ nLines \in Nat /\ nLines < MaxLines /\ UNCHANGED <<binary, limit, status, thread, taken>>
    BY <1>3 DEF TypeLine, PromptTypes
  <2>2. line \in Lines
    BY <2>1, PromptAssumption DEF Lines
  <2>3. /\ typed' \in Seq(Lines) /\ Len(typed') = Len(typed) + 1 /\ Len(typed) \in Nat
        /\ \A k \in 1 .. Len(typed) : typed'[k] = typed[k]
        /\ typed'[Len(typed) + 1] = line
    BY <2>1, <2>2, AppendProperties DEF PromptTypes
  <2>4. Answers'
    <3> SUFFICES ASSUME NEW k \in 1 .. Len(typed') PROVE status[typed'[k].for] # "new"
      BY <2>1 DEF Answers
    <3>1. k \in 1 .. Len(typed) \/ k = Len(typed) + 1
      BY <2>3
    <3> QED
      BY <3>1, <2>1, <2>3 DEF Answers
  <2>5. Numbered'
    <3>1. ASSUME NEW k \in 1 .. Len(typed') PROVE typed'[k].nth = nLines' - Len(typed') + k
      <4>1. k \in Int /\ (k \in 1 .. Len(typed) \/ k = Len(typed) + 1)
        BY <2>3
      <4> QED
        BY <4>1, <2>1, <2>3 DEF Numbered
    <3>2. nLines' - Len(typed') = nLines - Len(typed)
      BY <2>1, <2>3
    <3> QED
      BY <2>1, <3>1, <3>2 DEF Numbered
  <2> QED
    BY <2>1, <2>3, <2>4, <2>5 DEF PromptTypes, ReaderOf, InTurn, NoStaleReader
<1>4. ASSUME NEW p \in Prompts, ReadLine(p) PROVE PromptInv'
  BY <1>4, ReadStep
<1>5. ASSUME NEW p \in Prompts, Resolve(p) \/ TimeOut(p) PROVE PromptInv'
  <2>1. /\ status[p] = "asking" /\ UNCHANGED <<binary, limit, thread, typed, taken, nLines>>
        /\ \E s \in Final : /\ status' = [status EXCEPT ![p] = s]
                            /\ s # "timeout" => thread[p] = "done"
                            /\ s = "approved" => taken[p][1].answer = "yes"
    BY <1>5 DEF Resolve, TimeOut, Final
  <2>2. PromptTypes' /\ \A q \in Prompts : ReaderOf(q)'
    BY <2>1 DEF PromptTypes, ReaderOf, Final
  <2>3. \A q \in Prompts : /\ status'[q] # "new" <=> status[q] # "new"
                           /\ status[q] \in Final => status'[q] = status[q]
    BY <2>1 DEF PromptTypes, Final
  <2>4. InTurn' /\ NoStaleReader' /\ Numbered'
    BY <2>1, <2>3 DEF InTurn, NoStaleReader, Numbered, Final
  <2>5. Answers'
    <3>1. \A k \in 1 .. Len(typed) : typed[k].for \in Prompts
      BY LinesFor
    <3> QED
      BY <2>1, <2>3, <3>1 DEF Answers
  <2> QED
    BY <2>2, <2>4, <2>5
<1>6. CASE UNCHANGED pvars
  BY <1>6 DEF pvars, PromptTypes, ReaderOf, InTurn, Answers, Numbered, NoStaleReader
<1> QED
  BY <1>1, <1>2, <1>3, <1>4, <1>5, <1>6 DEF PNext

-----------------------------------------------------------------------------

\* However many prompts follow one another: consent is one line that says yes,
\* typed no later than for its prompt, and no line consents to two calls.
THEOREM ConsentIsOneYes == PSpec => []ConsentIsItsOwn
<1>1. ASSUME PromptInv PROVE ConsentIsItsOwn
  <2>1. \A p \in Prompts : status[p] = "approved" =>
          /\ thread[p] = "done" /\ Len(taken[p]) = 1 /\ taken[p][1].answer = "yes"
          /\ taken[p][1].for <= p
    BY <1>1 DEF PromptInv, ReaderOf
  <2>2. \A p, q \in Prompts : status[p] = "approved" /\ status[q] = "approved"
          /\ taken[p][1].nth = taken[q][1].nth => p = q
    BY <1>1, <2>1 DEF PromptInv, Numbered
  <2> QED
    BY <2>1, <2>2 DEF ConsentIsItsOwn
<1> QED
  BY <1>1, PromptInit, PromptNext, PTL DEF PSpec

\* In the program a parked thread never takes the line meant for a later prompt.
THEOREM NoLineIsStolen == PSpec => []NoStaleReader
<1>1. PromptInv => NoStaleReader
  BY DEF PromptInv
<1> QED
  BY <1>1, PromptInit, PromptNext, PTL DEF PSpec

\* No step changes the outcome of a prompt that is settled.
THEOREM SettledStaysSettled == PSpec => OutcomeIsFinal
<1>1. PromptInv /\ [PNext]_pvars => [\A p \in Prompts : status[p] \in Final => status'[p] = status[p]]_pvars
  BY DEF PromptInv, PromptTypes, PNext, Ask, LockStdin, TypeLine, ReadLine, Resolve, TimeOut, pvars, Final
<1> QED
  BY <1>1, PromptInit, PromptNext, PTL DEF PSpec, OutcomeIsFinal

-----------------------------------------------------------------------------
(* The input.                                                              *)

\* Two of the first n properties share a flag, or one has a built-in one.
Clash(ps, n) ==
  \E i, j \in 1 .. n :
     \/ i # j /\ Flags(ps[i]) \cap Flags(ps[j]) # {}
     \/ Flags(ps[i]) \cap ReservedFlagNames # {}

\* What the loop over the properties has after n turns: the flags of each, all
\* different, or a reason to refuse.
Entered(ps, s, n) ==
  /\ s.refused => Clash(ps, n)
  /\ ~ s.refused =>
       /\ \A i \in 1 .. n : Flags(ps[i]) \subseteq Taken(s.seen)
       /\ \A f \in Taken(s.seen) : \E i \in 1 .. n : f \in Flags(ps[i])
       /\ \A i, j \in 1 .. n : i # j => Flags(ps[i]) \cap Flags(ps[j]) = {}

\* The flags of the two reserved names.
LEMMA FlagIs ==
  /\ Flag(<<"input">>) = <<"input">>
  /\ Flag(<<"large", "_", "input">>) = <<"large", "-", "input">>
<1> DEFINE a == <<"input">>
           b == <<"large", "_", "input">>
           c == <<"large", "-", "input">>
<1>1. /\ DOMAIN a = 1 .. 1 /\ a[1] = "input"
      /\ DOMAIN b = 1 .. 3 /\ b[1] = "large" /\ b[2] = "_" /\ b[3] = "input"
      /\ DOMAIN c = 1 .. 3 /\ c[1] = "large" /\ c[2] = "-" /\ c[3] = "input"
  OBVIOUS
<1>2. a = [i \in 1 .. 1 |-> a[i]] /\ c = [i \in 1 .. 3 |-> c[i]]
  OBVIOUS
<1> HIDE DEF a, b, c
<1>3. Flag(a) = [i \in 1 .. 1 |-> a[i]]
  <2>1. Flag(a) = [i \in 1 .. 1 |-> IF a[i] = "_" THEN "-" ELSE a[i]]
    BY <1>1 DEF Flag
  <2>2. \A i \in 1 .. 1 : i = 1
    OBVIOUS
  <2>3. \A i \in 1 .. 1 : a[i] = IF a[i] = "_" THEN "-" ELSE a[i]
    BY <1>1, <2>2
  <2> QED
    BY <2>1, <2>3
<1>4. Flag(b) = [i \in 1 .. 3 |-> c[i]]
  <2>1. Flag(b) = [i \in 1 .. 3 |-> IF b[i] = "_" THEN "-" ELSE b[i]]
    BY <1>1 DEF Flag
  <2>2. \A i \in 1 .. 3 : i \in {1, 2, 3}
    OBVIOUS
  <2>3. \A i \in 1 .. 3 : c[i] = IF b[i] = "_" THEN "-" ELSE b[i]
    BY <1>1, <2>2
  <2> QED
    BY <2>1, <2>3
<1> QED
  BY <1>2, <1>3, <1>4 DEF a, b, c

\* A reserved name has a built-in flag.
LEMMA ReservedNamesHaveFlags ==
  ASSUME NEW p, p.name \in ReservedPropertyNames
  PROVE  Flags(p) \cap ReservedFlagNames # {}
<1>1. CASE p.name = <<"input">>
  <2>1. Flag(p.name) = <<"input">>
    BY <1>1, FlagIs
  <2> QED
    BY <2>1 DEF Flags, ReservedFlagNames
<1>2. CASE p.name = <<"large", "_", "input">>
  <2>1. Flag(p.name) = <<"large", "-", "input">>
    BY <1>2, FlagIs
  <2> QED
    BY <2>1 DEF Flags, ReservedFlagNames
<1> QED
  BY <1>1, <1>2 DEF ReservedPropertyNames

\* What the loop keeps.
LoopStates(Pairs) == [seen : SUBSET Pairs, refused : BOOLEAN]

\* One turn of the loop.
LEMMA AddPropertyEnters ==
  ASSUME NEW ps, NEW n \in Nat, NEW Pairs, NEW s \in LoopStates(Pairs),
         [flag : Flags(ps[n + 1]), of : {ps[n + 1].name}] \subseteq Pairs,
         Entered(ps, s, n)
  PROVE  /\ AddProperty(s, ps[n + 1]) \in LoopStates(Pairs)
         /\ Entered(ps, AddProperty(s, ps[n + 1]), n + 1)
<1> DEFINE p == ps[n + 1]
           t == AddProperty(s, p)
<1>1. n + 1 \in 1 .. (n + 1) /\ \A i \in 1 .. (n + 1) : i # n + 1 => i \in 1 .. n
  OBVIOUS
<1>2. \A i \in 1 .. n : i \in 1 .. (n + 1) /\ i # n + 1
  OBVIOUS
<1>3. Clash(ps, n) => Clash(ps, n + 1)
  BY <1>2 DEF Clash
<1>4. CASE s.refused \/ p.name \in ReservedPropertyNames \/ Flags(p) \cap Taken(s.seen) # {}
  <2>1. t = [s EXCEPT !.refused = TRUE]
    BY <1>4 DEF AddProperty
  <2>2. t \in LoopStates(Pairs) /\ t.refused
    BY <2>1 DEF LoopStates
  <2>3. CASE s.refused
    BY <1>3, <2>2, <2>3 DEF Entered
  <2>4. CASE p.name \in ReservedPropertyNames
    <3>1. Flags(p) \cap ReservedFlagNames # {}
      BY <2>4, ReservedNamesHaveFlags
    <3>2. Clash(ps, n + 1)
      BY <1>1, <3>1 DEF Clash
    <3> QED
      BY <2>2, <3>2 DEF Entered
  <2>5. CASE ~ s.refused /\ Flags(p) \cap Taken(s.seen) # {}
    <3>1. PICK f \in Taken(s.seen) : f \in Flags(p)
      BY <2>5
    <3>2. PICK i \in 1 .. n : f \in Flags(ps[i])
      BY <2>5, <3>1 DEF Entered
    <3>3. i \in 1 .. (n + 1) /\ i # n + 1 /\ Flags(ps[i]) \cap Flags(ps[n + 1]) # {}
      BY <1>2, <3>1, <3>2
    <3>4. Clash(ps, n + 1)
      BY <1>1, <3>3 DEF Clash
    <3> QED
      BY <2>2, <3>4 DEF Entered
  <2> QED
    BY <1>4, <2>3, <2>4, <2>5
<1>5. CASE ~ (s.refused \/ p.name \in ReservedPropertyNames \/ Flags(p) \cap Taken(s.seen) # {})
  <2>1. t = [s EXCEPT !.seen = @ \cup [flag : Flags(p), of : {p.name}]]
    BY <1>5 DEF AddProperty
  <2>2. t \in LoopStates(Pairs) /\ ~ t.refused
        /\ t.seen = s.seen \cup [flag : Flags(p), of : {p.name}]
    BY <1>5, <2>1 DEF LoopStates
  <2>3. Taken(t.seen) = Taken(s.seen) \cup Flags(p)
    <3>1. {e.flag : e \in [flag : Flags(p), of : {p.name}]} = Flags(p)
      <4>1. ASSUME NEW f \in Flags(p) PROVE f \in {e.flag : e \in [flag : Flags(p), of : {p.name}]}
        <5>1. [flag |-> f, of |-> p.name] \in [flag : Flags(p), of : {p.name}]
          OBVIOUS
        <5>2. [flag |-> f, of |-> p.name].flag = f
          OBVIOUS
        <5> QED
          BY <5>1, <5>2
      <4> QED
        BY <4>1
    <3> QED
      BY <2>2, <3>1 DEF Taken
  <2>4. /\ \A i \in 1 .. n : Flags(ps[i]) \subseteq Taken(s.seen)
        /\ \A f \in Taken(s.seen) : \E i \in 1 .. n : f \in Flags(ps[i])
        /\ \A i, j \in 1 .. n : i # j => Flags(ps[i]) \cap Flags(ps[j]) = {}
        /\ Flags(p) \cap Taken(s.seen) = {}
    BY <1>5 DEF Entered
  <2>5. \A i \in 1 .. (n + 1) : Flags(ps[i]) \subseteq Taken(t.seen)
    BY <1>1, <2>3, <2>4
  <2>6. \A f \in Taken(t.seen) : \E i \in 1 .. (n + 1) : f \in Flags(ps[i])
    BY <1>1, <1>2, <2>3, <2>4
  <2>7. ASSUME NEW i \in 1 .. (n + 1), NEW j \in 1 .. (n + 1), i # j
        PROVE  Flags(ps[i]) \cap Flags(ps[j]) = {}
    <3>1. CASE i \in 1 .. n /\ j \in 1 .. n
      BY <2>4, <2>7, <3>1
    <3>2. CASE i = n + 1 /\ j \in 1 .. n
      BY <2>4, <3>2
    <3>3. CASE j = n + 1 /\ i \in 1 .. n
      BY <2>4, <3>3
    <3> QED
      BY <1>1, <2>7, <3>1, <3>2, <3>3
  <2> QED
    BY <2>2, <2>5, <2>6, <2>7 DEF Entered
<1> QED
  BY <1>4, <1>5

\* The flags of the whole schema.
LEMMA SchemaFlagsEntered ==
  ASSUME NEW S, NEW ps \in Seq(S)
  PROVE  Entered(ps, SchemaToClapArgs(ps), Len(ps))
<1>1. PICK n \in Nat : n = Len(ps)
  OBVIOUS
<1> DEFINE Pairs == UNION {[flag : Flags(ps[i]), of : {ps[i].name}] : i \in 1 .. n}
           St == LoopStates(Pairs)
           empty == [seen |-> {}, refused |-> FALSE]
           Body == [x \in St \X (1 .. n) |->
                      IF AddProperty(x[1], ps[x[2]]) \in St THEN AddProperty(x[1], ps[x[2]]) ELSE empty]
           Made(g) == g = [k \in 0 .. n |-> IF k = 0 THEN empty ELSE AddProperty(g[k - 1], ps[k])]
<1>2. empty \in St /\ Entered(ps, empty, 0)
  BY DEF Entered, Taken, LoopStates
<1>3. \A i \in 1 .. n : [flag : Flags(ps[i]), of : {ps[i].name}] \subseteq Pairs
  OBVIOUS
<1> HIDE DEF Pairs, empty
<1>4. Body \in [St \X (1 .. n) -> St]
  BY <1>2
<1> HIDE DEF Body
<1>5. PICK g \in [0 .. n -> St] : Iterates(g, empty, Body, n)
  BY <1>2, <1>4, Iteration
<1>i. g[0] = empty /\ \A i \in 1 .. n : g[i] = Body[<<g[i - 1], i>>]
  BY <1>5 DEF Iterates
<1>6. ASSUME NEW k \in 0 .. (n - 1), Entered(ps, g[k], k)
      PROVE  g[k + 1] = AddProperty(g[k], ps[k + 1]) /\ Entered(ps, g[k + 1], k + 1)
  <2>1. k \in Nat /\ k + 1 \in 1 .. n /\ g[k] \in St /\ (k + 1) - 1 = k
    BY <1>5
  <2>2. AddProperty(g[k], ps[k + 1]) \in St /\ Entered(ps, AddProperty(g[k], ps[k + 1]), k + 1)
    <3>1. [flag : Flags(ps[k + 1]), of : {ps[k + 1].name}] \subseteq Pairs
      BY <1>3, <2>1
    <3> QED
      BY <1>6, <2>1, <3>1, AddPropertyEnters
  <2>3. g[k + 1] = Body[<<g[k], k + 1>>]
    BY <1>i, <2>1
  <2>4. g[k + 1] = AddProperty(g[k], ps[k + 1])
    BY <2>1, <2>2, <2>3 DEF Body
  <2> QED
    BY <2>2, <2>4
<1> DEFINE T == {k \in 0 .. n : Entered(ps, g[k], k)}
<1>7. 0 .. n \subseteq T
  <2>1. 0 \in T
    BY <1>2, <1>i
  <2>2. \A k \in 0 .. (n - 1) : k \in T => k + 1 \in T
    BY <1>6
  <2> HIDE DEF T
  <2> QED
    BY <2>1, <2>2, Induction
<1>8. Made(g)
  <2>1. \A k \in 0 .. n : g[k] = IF k = 0 THEN empty ELSE AddProperty(g[k - 1], ps[k])
    <3> SUFFICES ASSUME NEW k \in 0 .. n, k # 0 PROVE g[k] = AddProperty(g[k - 1], ps[k])
      BY <1>i
    <3>1. k - 1 \in 0 .. (n - 1) /\ (k - 1) + 1 = k
      OBVIOUS
    <3>2. Entered(ps, g[k - 1], k - 1)
      BY <1>7, <3>1
    <3> QED
      BY <1>6, <3>1, <3>2
  <2> QED
    BY <1>5, <2>1
<1> DEFINE h == CHOOSE f : Made(f)
<1>9. Made(h)
  BY <1>8
<1>10. SchemaToClapArgs(ps) = h[n]
  BY <1>1 DEF SchemaToClapArgs, empty
<1> HIDE DEF h
<1>11. h[0] = empty /\ \A k \in 0 .. (n - 1) : h[k + 1] = AddProperty(h[k], ps[k + 1])
  <2>1. \A k \in 0 .. n : h[k] = IF k = 0 THEN empty ELSE AddProperty(h[k - 1], ps[k])
    BY <1>9
  <2>2. \A k \in 0 .. (n - 1) : k + 1 \in 0 .. n /\ k + 1 # 0 /\ (k + 1) - 1 = k
    OBVIOUS
  <2> QED
    BY <2>1, <2>2
<1> DEFINE U == {k \in 0 .. n : h[k] = g[k]}
<1>12. 0 .. n \subseteq U
  <2>1. 0 \in U
    BY <1>i, <1>11
  <2>2. \A k \in 0 .. (n - 1) : k \in U => k + 1 \in U
    BY <1>6, <1>7, <1>11
  <2> HIDE DEF U
  <2> QED
    BY <2>1, <2>2, Induction
<1> QED
  BY <1>1, <1>7, <1>10, <1>12

\* What build_module_command makes of the properties.
Ambiguity(ps) ==
  \E i, j \in DOMAIN ps :
     \/ i # j /\ Flags(ps[i]) \cap Flags(ps[j]) # {}
     \/ Flags(ps[i]) \cap ReservedFlagNames # {}

\* A command is built just from properties whose flags are their own; 48 is said of
\* no other reason.
LEMMA CommandsAreUnambiguous ==
  ASSUME NEW S, NEW ps \in Seq(S)
  PROVE  /\ BuildModuleCommand(ps) = 0 => ~ Ambiguity(ps)
         /\ BuildModuleCommand(ps) = 48 => Ambiguity(ps)
         /\ BuildModuleCommand(ps) = 0 => ~ SchemaToClapArgs(ps).refused
<1> DEFINE made == SchemaToClapArgs(ps)
<1>1. Entered(ps, made, Len(ps)) /\ DOMAIN ps = 1 .. Len(ps)
  BY SchemaFlagsEntered
<1> HIDE DEF made
<1>2. BuildModuleCommand(ps) = IF made.refused THEN 48
                               ELSE IF Taken(made.seen) \cap ReservedFlagNames # {} THEN 2 ELSE 0
  BY DEF BuildModuleCommand, made
<1>3. made.refused => Ambiguity(ps)
  BY <1>1 DEF Entered, Clash, Ambiguity
<1>4. ~ made.refused /\ Taken(made.seen) \cap ReservedFlagNames = {} => ~ Ambiguity(ps)
  BY <1>1 DEF Entered, Ambiguity
<1>5. BuildModuleCommand(ps) = 0 => ~ made.refused /\ Taken(made.seen) \cap ReservedFlagNames = {}
  BY <1>2
<1>6. BuildModuleCommand(ps) = 48 => made.refused
  BY <1>2
<1> QED
  BY <1>3, <1>4, <1>5, <1>6 DEF made

\* The properties of a call are a list.
LEMMA PropertiesAreListed ==
  ASSUME NEW c \in Calls, NEW boolean \in BOOLEAN
  PROVE  Properties(c, boolean) \in Seq([name : Seq(STRING), boolean : BOOLEAN])
<1>1. c.layout \in Layouts
  BY DEF Calls
<1>2. /\ c.layout.before \in Seq([name : Seq(STRING), boolean : BOOLEAN])
      /\ c.layout.after \in Seq([name : Seq(STRING), boolean : BOOLEAN])
      /\ c.layout.name \in Seq(STRING)
  BY <1>1, InputAssumption
<1>3. <<[name |-> c.layout.name, boolean |-> boolean]>> \in Seq([name : Seq(STRING), boolean : BOOLEAN])
  BY <1>2
<1> QED
  BY <1>2, <1>3 DEF Properties

\* Nothing is read, made or refused at first.
LEMMA InputInit == IInit => InputInv
BY DEF IInit, InputInv

\* Every stage makes what it should of what it has.
LEMMA InputStep == InputInv /\ [INext]_ivars => InputInv'
<1> SUFFICES ASSUME InputInv, [INext]_ivars PROVE InputInv'
  OBVIOUS
<1>1. call' = call /\ call \in Calls /\ Sensible(call)
  BY DEF InputInv, INext, ivars, Build, ExtractCliKwargs, CollectInput, ValidateInput
<1>2. ASSUME Build PROVE InputInv'
  <2>1. Built(call)' = Built(call) /\ Refusable' = Refusable
    BY <1>1 DEF Refusable, TooLarge
  <2>2. \/ Built(call) = 0 /\ stage' = "extract" /\ exit' = exit
        \/ stage' = "exited" /\ exit' = Built(call)
    BY <1>2 DEF Build, Reject
  <2> QED
    BY <1>1, <1>2, <2>1, <2>2 DEF InputInv, Build
<1>3. ASSUME ExtractCliKwargs PROVE InputInv'
  BY <1>1, <1>3 DEF InputInv, ExtractCliKwargs, Refusable, TooLarge
<1>4. ASSUME CollectInput PROVE InputInv'
  <2>1. /\ stage = "collect" /\ UNCHANGED <<call, kwargs>> /\ kwargs = KwargOf(call)
        /\ \/ Refusable /\ stage' = "exited" /\ exit' = 2
           \/ ~ Refusable /\ merged' = Merged /\ stage' = "validate" /\ exit' = exit
    BY <1>4 DEF CollectInput, Refusable, Reject, InputInv
  <2>2. Refusable' = Refusable /\ Merged' = Merged
    BY <2>1 DEF Refusable, TooLarge, Merged
  <2> QED
    BY <1>1, <2>1, <2>2 DEF InputInv
<1>5. ASSUME ValidateInput PROVE InputInv'
  <2>1. /\ stage = "validate" /\ UNCHANGED <<call, kwargs>>
        /\ \/ merged' = WithToken(call, merged) /\ stage' = "run" /\ exit' = exit
           \/ stage' = "exited" /\ exit' = 45
    BY <1>5 DEF ValidateInput, Reject
  <2>2. Refusable' = Refusable /\ Merged' = Merged
    BY <2>1 DEF Refusable, TooLarge, Merged
  <2> QED
    BY <1>1, <2>1, <2>2 DEF InputInv
<1>6. ASSUME UNCHANGED ivars PROVE InputInv'
  BY <1>6 DEF InputInv, ivars, Refusable, TooLarge, Merged
<1> QED
  BY <1>2, <1>3, <1>4, <1>5, <1>6 DEF INext

\* Each stage has what the stages before it made, and a refusal its reason.
THEOREM InputInvariant == ISpec => []InputInv
<1> QED
  BY InputInit, InputStep, PTL DEF ISpec

\* A property has its flag to itself, for every schema.
THEOREM FlagsAreOwned == ISpec => []FlagsAreUnambiguous
<1>1. InputInv => FlagsAreUnambiguous
  <2> SUFFICES ASSUME InputInv PROVE FlagsAreUnambiguous
    OBVIOUS
  <2> DEFINE ps == Properties(call, call.schema.kind = "boolean")
  <2>1. ps \in Seq([name : Seq(STRING), boolean : BOOLEAN])
    BY PropertiesAreListed DEF InputInv
  <2> HIDE DEF ps
  <2>2. /\ BuildModuleCommand(ps) = 0 => ~ Ambiguity(ps)
        /\ BuildModuleCommand(ps) = 48 => Ambiguity(ps)
    BY <2>1, CommandsAreUnambiguous
  <2>3. Built(call) = BuildModuleCommand(ps)
    BY DEF Built, ps
  <2>4. FlagsAreUnambiguous <=> /\ call.via = "command" /\ stage \notin {"build", "exited"} => ~ Ambiguity(ps)
                                /\ exit = 48 => Ambiguity(ps)
    BY DEF FlagsAreUnambiguous, Ambiguity, ps
  <2> QED
    BY <2>2, <2>3, <2>4 DEF InputInv
<1> QED
  BY <1>1, InputInvariant, PTL

\* What the user gives by flag or on the standard input arrives, and the limit is
\* exact.
THEOREM GivenArrives == ISpec => []InputArrives
<1>1. InputInv => FlagArrives
  <2> SUFFICES ASSUME InputInv, stage = "run", call.value # "none", call.schema.top = "properties",
                      ~ Skipped(call.layout.name), ~ Overwritten
               PROVE  merged.text = call.value
    BY DEF FlagArrives
  <2>1. /\ call \in Calls /\ Sensible(call) /\ kwargs = KwargOf(call) /\ merged = Merged
        /\ call.via = "command" => Built(call) = 0
    BY DEF InputInv, WithToken, Overwritten
  <2>2. call.via = "command" /\ call.schema.kind # "boolean"
    BY <2>1 DEF Sensible, Calls
  <2>3. Properties(call, PlainBoolean(call)) = Properties(call, call.schema.kind = "boolean")
    BY <2>2 DEF PlainBoolean
  <2>4. Properties(call, call.schema.kind = "boolean") \in Seq([name : Seq(STRING), boolean : BOOLEAN])
    BY <2>1, PropertiesAreListed
  <2>5. ~ SchemaToClapArgs(Properties(call, PlainBoolean(call))).refused
    BY <2>1, <2>2, <2>3, <2>4, CommandsAreUnambiguous DEF Built
  <2>6. StringMatch(call) = call.value
    BY <2>2 DEF StringMatch
  <2>7. kwargs = Reconvert(call)
    BY <2>1, <2>2, <2>5, <2>6 DEF KwargOf, PlainBoolean
  <2>8. kwargs.text = call.value
    BY <2>6, <2>7 DEF Reconvert
  <2> QED
    BY <2>1, <2>8 DEF Merged, None
<1>2. InputInv => StdinArrives
  <2> SUFFICES ASSUME InputInv, stage = "run", OnStdin, ~ Given, ~ Overwritten, call.schema.kind # "boolean",
                      call.via = "command" => call.schema.default = "none",
                      call.via = "exec" => call.layout.name # ModuleId
               PROVE  merged = call.stdin
    BY DEF StdinArrives
  <2>1. call \in Calls /\ kwargs = KwargOf(call) /\ merged = Merged
    BY DEF InputInv, WithToken, Overwritten
  <2>2. StringMatch(call) = "none"
    BY <2>1 DEF StringMatch, Calls, Given
  <2>3. kwargs = None
    BY <2>1, <2>2 DEF KwargOf, PlainBoolean
  <2> QED
    BY <2>1, <2>3 DEF Merged, OnStdin
<1>3. InputInv => LimitIsExact
  <2> SUFFICES ASSUME InputInv PROVE LimitIsExact
    OBVIOUS
  <2>1. ASSUME stage = "run", call.asked, call.size > Limit PROVE call.large
    <3>1. call.size \in {0, Limit, Limit + 1} /\ Limit \in Nat
      BY InputAssumption DEF InputInv, Calls
    <3> QED
      BY <2>1, <3>1 DEF InputInv, Refusable, TooLarge
  <2>2. ASSUME exit = 2 PROVE call.body \in BadBodies \/ call.size > Limit \/ Built(call) = 2
    BY <2>2 DEF InputInv, Refusable, TooLarge
  <2> QED
    BY <2>1, <2>2 DEF LimitIsExact
<1> QED
  BY <1>1, <1>2, <1>3, InputInvariant, PTL DEF InputArrives

-----------------------------------------------------------------------------
(* The resolution of $ref: a call of resolve_node leads to calls of lesser  *)
(* rank, so that what it returns is well defined.                          *)

\* How many levels the limit leaves, and the rank of a call: first these, then the nesting.
Left(depth) == IF depth < MaxDepth THEN MaxDepth - depth ELSE 0
Rank(c) == Left(c.depth) * (Nesting + 1) + Height[c.node]
MaxRank == MaxDepth * (Nesting + 1) + Nesting

\* More calls left to go weigh more than any nesting.
LEMMA RankOrder ==
  ASSUME NEW a \in Nat, NEW b \in Nat, NEW n \in Nat, NEW x \in 0 .. n, NEW y \in 0 .. n
  PROVE  /\ a * (n + 1) + x \in Nat
         /\ a < b => a * (n + 1) + x < b * (n + 1) + y
         /\ a <= b => a * (n + 1) + x <= b * (n + 1) + n
<1>1. a * (n + 1) \in Nat /\ b * (n + 1) \in Nat
  BY Z3
<1>2. ASSUME a <= b PROVE a * (n + 1) <= b * (n + 1)
  <2>1. PICK k \in Nat : b = a + k
    <3>1. b - a \in Nat /\ b = a + (b - a)
      BY <1>2
    <3> QED
      BY <3>1
  <2>2. b * (n + 1) = a * (n + 1) + k * (n + 1) /\ k * (n + 1) >= 0
    BY <2>1, Z3
  <2> QED
    BY <1>1, <2>2, k * (n + 1) \in Nat
<1>3. ASSUME a < b PROVE a * (n + 1) + (n + 1) <= b * (n + 1)
  <2>1. PICK k \in Nat : b = a + 1 + k
    <3>1. b - a - 1 \in Nat /\ b = a + 1 + (b - a - 1)
      BY <1>3
    <3> QED
      BY <3>1
  <2>2. k * (n + 1) \in Nat
    BY Z3
  <2>3. b * (n + 1) = a * (n + 1) + (n + 1) + k * (n + 1)
    BY <2>1, Z3
  <2> QED
    BY <1>1, <2>2, <2>3
<1> QED
  BY <1>1, <1>2, <1>3

\* What a node is made of, from the assumption on Nodes.
LEMMA NodeFacts ==
  ASSUME NEW node \in Nodes
  PROVE  /\ Height[node] \in 0 .. Nesting
         /\ node.kind \in {"leaf", "array", "ref", "object", "all", "any"}
         /\ node.kind = "object" => node.beside = {}
         /\ node.kind \in {"ref", "array", "all", "any"} =>
              \A n \in node.beside : n \in Nodes /\ Height[n] < Height[node]
         /\ node.kind = "ref" => node.to \in Definitions \cup {Dangling}
         /\ node.kind \in {"object", "all", "any"} =>
              /\ node.required \subseteq PropertyNames /\ DOMAIN node.props \subseteq PropertyNames
              /\ \A p \in DOMAIN node.props :
                   node.props[p] \in Nodes /\ Height[node.props[p]] < Height[node]
         /\ node.kind \in {"all", "any"} =>
              /\ node.branches \in Seq(Nodes)
              /\ \A i \in DOMAIN node.branches :
                   node.branches[i] \in Nodes /\ Height[node.branches[i]] < Height[node]
  BY NodesAssumption DEF WellFormed, PartOf, Composed

\* A call has the node, the depth and the names it is made with.
LEMMA CallFacts ==
  ASSUME NEW node \in Nodes, NEW depth \in Nat, NEW visiting \in SUBSET Definitions
  PROVE  /\ NodeCall(node, depth, visiting) \in NodeCalls
         /\ NodeCall(node, depth, visiting).node = node
         /\ NodeCall(node, depth, visiting).depth = depth
         /\ NodeCall(node, depth, visiting).visiting = visiting
  BY DEF NodeCall, NodeCalls

\* Ranks are numbers, and there is a greatest one.
LEMMA RankBound ==
  ASSUME NEW c \in NodeCalls
  PROVE  MaxRank \in Nat /\ Rank(c) \in 0 .. MaxRank
<1>1. c.node \in Nodes /\ c.depth \in Nat
  BY DEF NodeCalls
<1>2. Height[c.node] \in 0 .. Nesting
  BY <1>1, NodeFacts
<1>3. Left(c.depth) \in Nat /\ Left(c.depth) <= MaxDepth /\ MaxDepth \in Nat /\ Nesting \in Nat
  BY <1>1, RefAssumption DEF Left
<1>4. Rank(c) \in Nat /\ Rank(c) <= MaxRank
  BY <1>2, <1>3, RankOrder DEF Rank, MaxRank
<1>5. MaxRank \in Nat
  BY <1>3, RankOrder, Nesting \in 0 .. Nesting DEF MaxRank
<1> QED
  BY <1>4, <1>5

\* The calls that resolve_node makes.
LEMMA RankFalls ==
  ASSUME NEW c \in NodeCalls, NEW n \in Nodes, NEW v \in SUBSET Definitions
  PROVE  /\ Height[n] < Height[c.node] =>
              /\ Rank(NodeCall(n, c.depth, v)) < Rank(c)
              /\ Rank(NodeCall(n, c.depth + 1, v)) < Rank(c)
         /\ c.depth < MaxDepth => Rank(NodeCall(n, c.depth + 1, v)) < Rank(c)
<1>1. c.node \in Nodes /\ c.depth \in Nat /\ c.depth + 1 \in Nat
  BY DEF NodeCalls
<1>2. Height[c.node] \in 0 .. Nesting /\ Height[n] \in 0 .. Nesting
  BY <1>1, NodeFacts
<1> DEFINE a == Left(c.depth)
           b == Left(c.depth + 1)
<1>3. a \in Nat /\ b \in Nat /\ MaxDepth \in Nat /\ Nesting \in Nat /\ (b < a \/ b = a)
      /\ (c.depth < MaxDepth => b < a)
  BY <1>1, RefAssumption DEF Left
<1>4. /\ Rank(NodeCall(n, c.depth, v)) = a * (Nesting + 1) + Height[n]
      /\ Rank(NodeCall(n, c.depth + 1, v)) = b * (Nesting + 1) + Height[n]
      /\ Rank(c) = a * (Nesting + 1) + Height[c.node]
  BY <1>1, CallFacts DEF Rank
<1> HIDE DEF a, b
<1>5. b < a => b * (Nesting + 1) + Height[n] < a * (Nesting + 1) + Height[c.node]
  BY <1>2, <1>3, RankOrder
<1>6. a * (Nesting + 1) \in Nat
  BY <1>3, Z3
<1>7. Height[n] < Height[c.node] => a * (Nesting + 1) + Height[n] < a * (Nesting + 1) + Height[c.node]
  BY <1>2, <1>6
<1>8. b = a => b * (Nesting + 1) + Height[n] = a * (Nesting + 1) + Height[n]
  OBVIOUS
<1> QED
  BY <1>3, <1>4, <1>5, <1>7, <1>8

\* Induction on the rank, for a property given as a set of calls.
LEMMA RankInduction ==
  ASSUME NEW T,
         \A c \in NodeCalls : (\A d \in NodeCalls : Rank(d) < Rank(c) => d \in T) => c \in T
  PROVE  NodeCalls \subseteq T
<1> DEFINE Rest == {c \in NodeCalls : c \notin T}
           R == {Rank(c) : c \in Rest}
<1>1. SUFFICES ASSUME Rest # {} PROVE FALSE
  OBVIOUS
<1>2. R \subseteq Nat /\ R # {}
  BY <1>1, RankBound
<1> HIDE DEF R
<1>3. PICK m \in R : \A k \in R : m <= k
  BY <1>2, LeastNumber
<1>4. PICK c \in Rest : Rank(c) = m
  BY <1>3 DEF R
<1>5. ASSUME NEW d \in NodeCalls, Rank(d) < Rank(c) PROVE d \in T
  <2>1. d \in Rest => Rank(d) \in R
    BY DEF R
  <2>2. Rank(d) \in Nat /\ Rank(c) \in Nat
    BY <1>4, RankBound
  <2> QED
    BY <1>3, <1>4, <1>5, <2>1, <2>2
<1> QED
  BY <1>4, <1>5

-----------------------------------------------------------------------------
(* What resolve_node returns, in terms of what its calls return.           *)

\* The body of resolve_node, with g for the recursion.
ResolveStep(defs, g, c) ==
  CASE c.node.kind \in Bare -> Found(c.node)
    [] c.node.kind = "ref" ->
         IF TooDeep(c.depth) THEN Failed("max_depth")
         ELSE IF c.node.to \in c.visiting THEN Failed("circular")
         ELSE IF c.node.to \notin DOMAIN defs THEN Failed("unresolvable")
         ELSE g[NodeCall(defs[c.node.to], c.depth + 1, c.visiting \cup {c.node.to})]
    [] c.node.kind = "object" ->
         Assembled(c.node, [p \in DOMAIN c.node.props |->
                              g[NodeCall(c.node.props[p], c.depth, c.visiting)]])
    [] OTHER ->
         Assembled(c.node, [i \in DOMAIN c.node.branches |->
                              g[NodeCall(c.node.branches[i], c.depth + 1, c.visiting)]])

Resolves(defs, g) == g = [c \in NodeCalls |-> ResolveStep(defs, g, c)]

\* Only calls of lesser rank count.
LEMMA ResolveLooksDown ==
  ASSUME NEW defs \in [Definitions -> Bodies], NEW c \in NodeCalls, NEW g, NEW h,
         \A d \in NodeCalls : Rank(d) < Rank(c) => g[d] = h[d]
  PROVE  ResolveStep(defs, g, c) = ResolveStep(defs, h, c)
<1>1. c.node \in Nodes /\ c.depth \in Nat /\ c.depth + 1 \in Nat /\ c.visiting \in SUBSET Definitions
  BY DEF NodeCalls
<1>2. CASE c.node.kind \in Bare
  BY <1>2 DEF ResolveStep, Bare
<1> USE DEF Bare
<1>3. CASE c.node.kind = "ref"
  <2>1. CASE ~ TooDeep(c.depth) /\ c.node.to \notin c.visiting /\ c.node.to \in DOMAIN defs
    <3> DEFINE n == defs[c.node.to]
               v == c.visiting \cup {c.node.to}
    <3>1. n \in Nodes /\ v \in SUBSET Definitions /\ c.depth < MaxDepth
      BY <1>1, <2>1, RefAssumption DEF TooDeep
    <3> HIDE DEF n, v
    <3>2. Rank(NodeCall(n, c.depth + 1, v)) < Rank(c) /\ NodeCall(n, c.depth + 1, v) \in NodeCalls
      BY <1>1, <3>1, RankFalls, CallFacts
    <3>3. g[NodeCall(n, c.depth + 1, v)] = h[NodeCall(n, c.depth + 1, v)]
      BY <3>2
    <3> QED
      BY <1>3, <2>1, <3>3 DEF ResolveStep, n, v
  <2>2. CASE ~ (~ TooDeep(c.depth) /\ c.node.to \notin c.visiting /\ c.node.to \in DOMAIN defs)
    BY <1>3, <2>2 DEF ResolveStep
  <2> QED
    BY <2>1, <2>2
<1>4. CASE c.node.kind = "object"
  <2>1. ASSUME NEW p \in DOMAIN c.node.props
        PROVE  g[NodeCall(c.node.props[p], c.depth, c.visiting)] =
                 h[NodeCall(c.node.props[p], c.depth, c.visiting)]
    <3>1. c.node.props[p] \in Nodes /\ Height[c.node.props[p]] < Height[c.node]
      BY <1>1, <1>4, NodeFacts
    <3>2. NodeCall(c.node.props[p], c.depth, c.visiting) \in NodeCalls
      BY <1>1, <3>1, CallFacts
    <3>3. Rank(NodeCall(c.node.props[p], c.depth, c.visiting)) < Rank(c)
      BY <1>1, <3>1, RankFalls
    <3> QED
      BY <3>2, <3>3
  <2>2. [p \in DOMAIN c.node.props |-> g[NodeCall(c.node.props[p], c.depth, c.visiting)]] =
          [p \in DOMAIN c.node.props |-> h[NodeCall(c.node.props[p], c.depth, c.visiting)]]
    BY <2>1
  <2> QED
    BY <1>4, <2>2 DEF ResolveStep
<1>5. CASE c.node.kind \in Composed
  <2>1. ASSUME NEW i \in DOMAIN c.node.branches
        PROVE  g[NodeCall(c.node.branches[i], c.depth + 1, c.visiting)] =
                 h[NodeCall(c.node.branches[i], c.depth + 1, c.visiting)]
    <3>1. c.node.branches[i] \in Nodes /\ Height[c.node.branches[i]] < Height[c.node]
      BY <1>1, <1>5, NodeFacts DEF Composed
    <3>2. /\ Rank(NodeCall(c.node.branches[i], c.depth + 1, c.visiting)) < Rank(c)
          /\ NodeCall(c.node.branches[i], c.depth + 1, c.visiting) \in NodeCalls
      BY <1>1, <3>1, RankFalls, CallFacts
    <3> QED
      BY <3>2
  <2>2. [i \in DOMAIN c.node.branches |-> g[NodeCall(c.node.branches[i], c.depth + 1, c.visiting)]] =
          [i \in DOMAIN c.node.branches |-> h[NodeCall(c.node.branches[i], c.depth + 1, c.visiting)]]
    BY <2>1
  <2> QED
    BY <1>5, <2>2 DEF ResolveStep, Composed
<1> QED
  BY <1>1, <1>2, <1>3, <1>4, <1>5, NodeFacts DEF Composed, Bare

\* Such a recursion ends: there is a function that it defines.
LEMMA ResolveEnds ==
  ASSUME NEW defs \in [Definitions -> Bodies]
  PROVE  \E g : Resolves(defs, g)
<1> DEFINE Upto(g, k) == \A c \in NodeCalls : Rank(c) < k => g[c] = ResolveStep(defs, g, c)
           T == {k \in 0 .. (MaxRank + 1) : \E g : Upto(g, k)}
<1>1. MaxRank \in Nat /\ MaxRank + 1 \in Nat /\ \A c \in NodeCalls : Rank(c) \in Nat /\ Rank(c) < MaxRank + 1
  <2>1. MaxRank \in Nat
    BY RefAssumption, RankOrder, Nesting \in 0 .. Nesting DEF MaxRank
  <2> QED
    BY <2>1, RankBound
<1>2. 0 \in T
  <2>1. Upto(0, 0)
    BY <1>1
  <2>2. 0 \in 0 .. (MaxRank + 1)
    BY <1>1
  <2> QED
    BY <2>1, <2>2
<1>3. ASSUME NEW k \in 0 .. MaxRank, k \in T PROVE k + 1 \in T
  <2>1. PICK g : Upto(g, k)
    BY <1>3
  <2> DEFINE h == [c \in NodeCalls |-> ResolveStep(defs, g, c)]
  <2>2. ASSUME NEW c \in NodeCalls, Rank(c) < k + 1 PROVE h[c] = ResolveStep(defs, h, c)
    <3>1. ASSUME NEW d \in NodeCalls, Rank(d) < Rank(c) PROVE g[d] = h[d]
      <4>1. Rank(d) < k
        BY <1>1, <2>2, <3>1
      <4> QED
        BY <2>1, <4>1
    <3> HIDE DEF h
    <3>2. ResolveStep(defs, g, c) = ResolveStep(defs, h, c)
      BY <3>1, ResolveLooksDown
    <3> QED
      BY <3>2 DEF h
  <2> HIDE DEF h
  <2>3. Upto(h, k + 1)
    BY <2>2
  <2>4. k + 1 \in 0 .. (MaxRank + 1)
    BY <1>1
  <2> QED
    BY <2>3, <2>4
<1> HIDE DEF T
<1>4. 0 .. (MaxRank + 1) \subseteq T
  <2>1. \A k \in 0 .. ((MaxRank + 1) - 1) : k \in T => k + 1 \in T
    BY <1>1, <1>3
  <2> QED
    BY <1>1, <1>2, <2>1, Induction
<1>5. PICK g : Upto(g, MaxRank + 1)
  BY <1>1, <1>4 DEF T
<1> DEFINE h == [c \in NodeCalls |-> ResolveStep(defs, g, c)]
<1>6. \A c \in NodeCalls : g[c] = h[c]
  BY <1>1, <1>5
<1>7. ASSUME NEW c \in NodeCalls PROVE h[c] = ResolveStep(defs, h, c)
  <2>1. \A d \in NodeCalls : Rank(d) < Rank(c) => g[d] = h[d]
    BY <1>6
  <2> HIDE DEF h
  <2>2. ResolveStep(defs, g, c) = ResolveStep(defs, h, c)
    BY <2>1, ResolveLooksDown
  <2> QED
    BY <2>2 DEF h
<1>8. h = [c \in NodeCalls |-> ResolveStep(defs, h, c)]
  BY <1>7
<1> QED
  BY <1>8 DEF Resolves

\* ResolveNode is its body.
LEMMA ResolveUnfolds ==
  ASSUME NEW defs \in [Definitions -> Bodies]
  PROVE  \E g : /\ \A c : ResolveNode(defs, c) = g[c]
                /\ \A c \in NodeCalls : g[c] = ResolveStep(defs, g, c)
<1> DEFINE g == CHOOSE f : Resolves(defs, f)
<1>1. \A c : ResolveNode(defs, c) = g[c]
  BY DEF ResolveNode, Resolves, ResolveStep
<1>2. Resolves(defs, g)
  BY ResolveEnds
<1> HIDE DEF g
<1>3. \A c \in NodeCalls : g[c] = ResolveStep(defs, g, c)
  BY <1>2 DEF Resolves
<1> QED
  BY <1>1, <1>3

\* Of several resolutions, the errors and the nodes.
ErrorsOf(rs) == UNION {rs[i].errors : i \in DOMAIN rs}
NodesOf(rs) == [i \in DOMAIN rs |-> rs[i].node]

\* What the resolutions of the parts of a node make of it.
LEMMA AssembledParts ==
  ASSUME NEW node, node.kind \in {"object", "all", "any"}, NEW rs
  PROVE  /\ Assembled(node, rs).errors = ErrorsOf(rs)
         /\ ErrorsOf(rs) = {} =>
              Assembled(node, rs).node =
                IF node.kind = "object" THEN Object(NodesOf(rs), node.required)
                ELSE IF node.kind = "all" THEN MergeAllOf(node, NodesOf(rs))
                                          ELSE MergeAnyOf(node, NodesOf(rs))
<1> DEFINE errors == ErrorsOf(rs)
           parts == NodesOf(rs)
           node1 == IF node.kind = "object" THEN Object(parts, node.required)
                    ELSE IF node.kind = "all" THEN MergeAllOf(node, parts) ELSE MergeAnyOf(node, parts)
<1>1. CASE errors # {}
  <2>1. Assembled(node, rs) = [errors |-> errors, node |-> Leaf]
    BY <1>1 DEF Assembled, ErrorsOf
  <2> QED
    BY <1>1, <2>1
<1>2. CASE errors = {}
  <2>1. Assembled(node, rs) = Found(node1)
    <3>1. CASE node.kind = "object"
      BY <1>2, <3>1 DEF Assembled, ErrorsOf, NodesOf
    <3>2. CASE node.kind = "all"
      BY <1>2, <3>2 DEF Assembled, ErrorsOf, NodesOf
    <3>3. CASE node.kind = "any"
      BY <1>2, <3>3 DEF Assembled, ErrorsOf, NodesOf
    <3> QED
      BY <3>1, <3>2, <3>3
  <2> HIDE DEF node1
  <2> QED
    BY <1>2, <2>1 DEF Found, node1
<1> QED
  BY <1>1, <1>2

\* The calls that resolve_node makes for a property, a branch and a pointer.
Part(c, p) == NodeCall(c.node.props[p], c.depth, c.visiting)
Branch(c, i) == NodeCall(c.node.branches[i], c.depth + 1, c.visiting)
Target(defs, c) == NodeCall(defs[c.node.to], c.depth + 1, c.visiting \cup {c.node.to})

\* A pointer that resolve_node does not refuse.
Followed(defs, c) == /\ c.depth < MaxDepth /\ c.node.to \notin c.visiting
                     /\ c.node.to \in DOMAIN defs

\* The calls that a call makes are calls of lesser rank.
LEMMA CallsBelow ==
  ASSUME NEW defs \in [Definitions -> Bodies], NEW c \in NodeCalls
  PROVE  /\ c.node \in Nodes /\ c.depth \in Nat /\ c.visiting \in SUBSET Definitions
         /\ c.node.kind \in {"object", "all", "any"} => \A p \in DOMAIN c.node.props :
              Part(c, p) \in NodeCalls /\ Rank(Part(c, p)) < Rank(c)
         /\ c.node.kind \in {"all", "any"} => \A i \in DOMAIN c.node.branches :
              Branch(c, i) \in NodeCalls /\ Rank(Branch(c, i)) < Rank(c)
         /\ c.node.kind = "ref" /\ Followed(defs, c) =>
              Target(defs, c) \in NodeCalls /\ Rank(Target(defs, c)) < Rank(c)
<1>1. c.node \in Nodes /\ c.depth \in Nat /\ c.depth + 1 \in Nat /\ c.visiting \in SUBSET Definitions
  BY DEF NodeCalls
<1>2. ASSUME c.node.kind \in {"object", "all", "any"}, NEW p \in DOMAIN c.node.props
      PROVE  Part(c, p) \in NodeCalls /\ Rank(Part(c, p)) < Rank(c)
  <2>1. c.node.props[p] \in Nodes /\ Height[c.node.props[p]] < Height[c.node]
    BY <1>1, <1>2, NodeFacts
  <2> QED
    BY <1>1, <2>1, RankFalls, CallFacts DEF Part
<1>3. ASSUME c.node.kind \in {"all", "any"}, NEW i \in DOMAIN c.node.branches
      PROVE  Branch(c, i) \in NodeCalls /\ Rank(Branch(c, i)) < Rank(c)
  <2>1. c.node.branches[i] \in Nodes /\ Height[c.node.branches[i]] < Height[c.node]
    BY <1>1, <1>3, NodeFacts
  <2> QED
    BY <1>1, <2>1, RankFalls, CallFacts DEF Branch
<1>4. ASSUME c.node.kind = "ref", Followed(defs, c)
      PROVE  Target(defs, c) \in NodeCalls /\ Rank(Target(defs, c)) < Rank(c)
  <2>1. defs[c.node.to] \in Nodes /\ c.visiting \cup {c.node.to} \in SUBSET Definitions
    BY <1>1, <1>4, RefAssumption DEF Followed
  <2>2. c.depth < MaxDepth
    BY <1>4 DEF Followed
  <2> QED
    BY <1>1, <2>1, <2>2, RankFalls, CallFacts DEF Target
<1> QED
  BY <1>1, <1>2, <1>3, <1>4

\* What a call of resolve_node returns.
LEMMA Resolution ==
  ASSUME NEW defs \in [Definitions -> Bodies], NEW c \in NodeCalls
  PROVE  LET node == c.node
             r == ResolveNode(defs, c) IN
         /\ node.kind \in Bare => r.errors = {} /\ r.node = node
         /\ node.kind = "ref" =>
              /\ Followed(defs, c) => r = ResolveNode(defs, Target(defs, c))
              /\ ~ Followed(defs, c) => r.errors # {}
              /\ ~ Followed(defs, c) /\ "circular" \in r.errors => node.to \in c.visiting
              /\ ~ Followed(defs, c) /\ "unresolvable" \in r.errors => node.to \notin DOMAIN defs
         /\ node.kind = "object" =>
              /\ r.errors = UNION {ResolveNode(defs, Part(c, p)).errors : p \in DOMAIN node.props}
              /\ r.errors = {} =>
                   r.node = Object([p \in DOMAIN node.props |-> ResolveNode(defs, Part(c, p)).node],
                                   node.required)
         /\ node.kind \in {"all", "any"} =>
              /\ r.errors = UNION {ResolveNode(defs, Branch(c, i)).errors : i \in DOMAIN node.branches}
              /\ r.errors = {} =>
                   LET parts == [i \in DOMAIN node.branches |-> ResolveNode(defs, Branch(c, i)).node]
                   IN  r.node = IF node.kind = "all" THEN MergeAllOf(node, parts)
                                                     ELSE MergeAnyOf(node, parts)
<1>1. PICK g : /\ \A d : ResolveNode(defs, d) = g[d]
               /\ \A d \in NodeCalls : g[d] = ResolveStep(defs, g, d)
  BY ResolveUnfolds
<1>2. ResolveNode(defs, c) = ResolveStep(defs, g, c)
  BY <1>1
<1>3. c.node \in Nodes /\ c.depth \in Nat
  BY DEF NodeCalls
<1>4. ASSUME c.node.kind \in Bare PROVE ResolveNode(defs, c) = Found(c.node)
  BY <1>2, <1>4 DEF ResolveStep, Bare
<1> USE DEF Bare
<1>5. ASSUME c.node.kind = "ref", Followed(defs, c)
      PROVE  ResolveNode(defs, c) = ResolveNode(defs, Target(defs, c))
  <2>1. ResolveStep(defs, g, c) = g[Target(defs, c)]
    BY <1>3, <1>5, RefAssumption DEF ResolveStep, Followed, TooDeep, Target
  <2> QED
    BY <1>1, <1>2, <2>1
<1>6. ASSUME c.node.kind = "ref", ~ Followed(defs, c)
      PROVE  /\ ResolveNode(defs, c).errors # {}
             /\ "circular" \in ResolveNode(defs, c).errors => c.node.to \in c.visiting
             /\ "unresolvable" \in ResolveNode(defs, c).errors => c.node.to \notin DOMAIN defs
  <2>1. CASE c.depth >= MaxDepth
    <3>1. ResolveStep(defs, g, c) = Failed("max_depth")
      BY <1>6, <2>1 DEF ResolveStep, TooDeep
    <3> QED
      BY <1>2, <3>1 DEF Failed
  <2>2. CASE ~ (c.depth >= MaxDepth) /\ c.node.to \in c.visiting
    <3>1. ResolveStep(defs, g, c) = Failed("circular")
      BY <1>6, <2>2 DEF ResolveStep, TooDeep
    <3> QED
      BY <1>2, <2>2, <3>1 DEF Failed
  <2>3. CASE ~ (c.depth >= MaxDepth) /\ c.node.to \notin c.visiting
    <3>1. c.node.to \notin DOMAIN defs
      BY <1>3, <1>6, <2>3, RefAssumption DEF Followed
    <3>2. ResolveStep(defs, g, c) = Failed("unresolvable")
      BY <1>6, <2>3, <3>1 DEF ResolveStep, TooDeep
    <3> QED
      BY <1>2, <3>1, <3>2 DEF Failed
  <2> QED
    BY <2>1, <2>2, <2>3
<1>7. ASSUME c.node.kind = "object"
      PROVE  ResolveNode(defs, c) =
               Assembled(c.node, [p \in DOMAIN c.node.props |-> ResolveNode(defs, Part(c, p))])
  <2>1. ResolveStep(defs, g, c) =
          Assembled(c.node, [p \in DOMAIN c.node.props |-> g[Part(c, p)]])
    BY <1>7 DEF ResolveStep, Part
  <2>2. [p \in DOMAIN c.node.props |-> g[Part(c, p)]] =
          [p \in DOMAIN c.node.props |-> ResolveNode(defs, Part(c, p))]
    BY <1>1
  <2> QED
    BY <1>2, <2>1, <2>2
<1>8. ASSUME c.node.kind \in {"all", "any"}
      PROVE  ResolveNode(defs, c) =
               Assembled(c.node, [i \in DOMAIN c.node.branches |-> ResolveNode(defs, Branch(c, i))])
  <2>1. ResolveStep(defs, g, c) =
          Assembled(c.node, [i \in DOMAIN c.node.branches |-> g[Branch(c, i)]])
    BY <1>8 DEF ResolveStep, Branch
  <2>2. [i \in DOMAIN c.node.branches |-> g[Branch(c, i)]] =
          [i \in DOMAIN c.node.branches |-> ResolveNode(defs, Branch(c, i))]
    BY <1>1
  <2> QED
    BY <1>2, <2>1, <2>2
<1> DEFINE ps == [p \in DOMAIN c.node.props |-> ResolveNode(defs, Part(c, p))]
           bs == [i \in DOMAIN c.node.branches |-> ResolveNode(defs, Branch(c, i))]
<1>9. ASSUME c.node.kind = "object"
      PROVE  /\ ResolveNode(defs, c).errors =
                  UNION {ResolveNode(defs, Part(c, p)).errors : p \in DOMAIN c.node.props}
             /\ ResolveNode(defs, c).errors = {} =>
                  ResolveNode(defs, c).node =
                    Object([p \in DOMAIN c.node.props |-> ResolveNode(defs, Part(c, p)).node],
                           c.node.required)
  <2>1. UNION {ps[p].errors : p \in DOMAIN ps} =
          UNION {ResolveNode(defs, Part(c, p)).errors : p \in DOMAIN c.node.props}
    OBVIOUS
  <2>2. [p \in DOMAIN ps |-> ps[p].node] =
          [p \in DOMAIN c.node.props |-> ResolveNode(defs, Part(c, p)).node]
    OBVIOUS
  <2> HIDE DEF ps
  <2>3. ResolveNode(defs, c) = Assembled(c.node, ps)
    BY <1>7, <1>9 DEF ps
  <2> DEFINE errors == UNION {ResolveNode(defs, Part(c, p)).errors : p \in DOMAIN c.node.props}
             parts == [p \in DOMAIN c.node.props |-> ResolveNode(defs, Part(c, p)).node]
  <2>4. errors = ErrorsOf(ps) /\ parts = NodesOf(ps)
    BY <2>1, <2>2 DEF ErrorsOf, NodesOf
  <2> HIDE DEF errors, parts
  <2>5. /\ Assembled(c.node, ps).errors = errors
        /\ errors = {} => Assembled(c.node, ps).node = Object(parts, c.node.required)
    BY <1>9, <2>4, AssembledParts
  <2> QED
    BY <2>3, <2>5 DEF errors, parts
<1>10. ASSUME c.node.kind \in {"all", "any"}
      PROVE  /\ ResolveNode(defs, c).errors =
                  UNION {ResolveNode(defs, Branch(c, i)).errors : i \in DOMAIN c.node.branches}
             /\ ResolveNode(defs, c).errors = {} =>
                  LET parts == [i \in DOMAIN c.node.branches |-> ResolveNode(defs, Branch(c, i)).node]
                  IN  ResolveNode(defs, c).node =
                        IF c.node.kind = "all" THEN MergeAllOf(c.node, parts)
                                               ELSE MergeAnyOf(c.node, parts)
  <2>1. UNION {bs[i].errors : i \in DOMAIN bs} =
          UNION {ResolveNode(defs, Branch(c, i)).errors : i \in DOMAIN c.node.branches}
    OBVIOUS
  <2>2. [i \in DOMAIN bs |-> bs[i].node] =
          [i \in DOMAIN c.node.branches |-> ResolveNode(defs, Branch(c, i)).node]
    OBVIOUS
  <2> HIDE DEF bs
  <2>3. ResolveNode(defs, c) = Assembled(c.node, bs)
    BY <1>8, <1>10 DEF bs
  <2> DEFINE errors == UNION {ResolveNode(defs, Branch(c, i)).errors : i \in DOMAIN c.node.branches}
             parts == [i \in DOMAIN c.node.branches |-> ResolveNode(defs, Branch(c, i)).node]
  <2>4. errors = ErrorsOf(bs) /\ parts = NodesOf(bs)
    BY <2>1, <2>2 DEF ErrorsOf, NodesOf
  <2> HIDE DEF errors, parts
  <2>5. /\ Assembled(c.node, bs).errors = errors
        /\ errors = {} => Assembled(c.node, bs).node =
             IF c.node.kind = "all" THEN MergeAllOf(c.node, parts) ELSE MergeAnyOf(c.node, parts)
    BY <1>10, <2>4, AssembledParts
  <2> QED
    BY <2>3, <2>5 DEF errors, parts
<1> HIDE DEF ps, bs
<1> QED
  BY <1>4, <1>5, <1>6, <1>9, <1>10 DEF Found

-----------------------------------------------------------------------------
(* What a schema says.                                                     *)

\* Induction on the height, for a property given as a set of nodes.
LEMMA HeightInduction ==
  ASSUME NEW T,
         \A n \in Nodes : (\A m \in Nodes : Height[m] < Height[n] => m \in T) => n \in T
  PROVE  Nodes \subseteq T
<1> DEFINE Rest == {n \in Nodes : n \notin T}
           H == {Height[n] : n \in Rest}
<1>1. SUFFICES ASSUME Rest # {} PROVE FALSE
  OBVIOUS
<1>2. H \subseteq Nat /\ H # {}
  <2>1. \A n \in Nodes : Height[n] \in Nat
    BY NodeFacts, RefAssumption
  <2> QED
    BY <1>1, <2>1
<1> HIDE DEF H
<1>3. PICK k \in H : \A j \in H : k <= j
  BY <1>2, LeastNumber
<1>4. PICK n \in Rest : Height[n] = k
  BY <1>3 DEF H
<1>5. ASSUME NEW m \in Nodes, Height[m] < Height[n] PROVE m \in T
  <2>1. m \in Rest => Height[m] \in H
    BY DEF H
  <2>2. Height[m] \in Nat /\ Height[n] \in Nat
    BY <1>4, NodeFacts, RefAssumption
  <2> QED
    BY <1>3, <1>4, <1>5, <2>1, <2>2
<1> QED
  BY <1>4, <1>5

\* The body of Text, with g for the recursion.
TextStep(g, n) ==
  CASE n.kind = "leaf" -> [pointers |-> {}, plain |-> TRUE, plainBeside |-> TRUE]
    [] n.kind = "ref" -> [pointers |-> {<<n.to, 0>>}, plain |-> FALSE, plainBeside |-> TRUE]
    [] n.kind = "array" -> TextOfArray({g[m] : m \in n.beside})
    [] n.kind = "object" -> TextOfObject([p \in DOMAIN n.props |-> g[n.props[p]]])
    [] OTHER ->
         TextOfComposed([p \in DOMAIN n.props |-> g[n.props[p]]],
                        [i \in DOMAIN n.branches |-> g[n.branches[i]]],
                        {g[m] : m \in n.beside})

IsText(g) == g = [n \in Nodes |-> TextStep(g, n)]

\* Text looks at what is nested in a node, and at nothing else.
LEMMA TextLooksDown ==
  ASSUME NEW n \in Nodes, NEW g, NEW h,
         \A m \in Nodes : Height[m] < Height[n] => g[m] = h[m]
  PROVE  TextStep(g, n) = TextStep(h, n)
<1>1. n.kind \in {"object", "all", "any"} =>
        [p \in DOMAIN n.props |-> g[n.props[p]]] = [p \in DOMAIN n.props |-> h[n.props[p]]]
  BY NodeFacts
<1>2. n.kind \in {"all", "any"} =>
        [i \in DOMAIN n.branches |-> g[n.branches[i]]] = [i \in DOMAIN n.branches |-> h[n.branches[i]]]
  BY NodeFacts
<1>3. n.kind \in {"leaf", "array", "ref", "object", "all", "any"}
  BY NodeFacts
<1>a. n.kind \in {"array", "all", "any"} => {g[m] : m \in n.beside} = {h[m] : m \in n.beside}
  BY NodeFacts
<1>4. CASE n.kind \in {"leaf", "ref"}
  BY <1>4 DEF TextStep
<1>b. CASE n.kind = "array"
  BY <1>a, <1>b DEF TextStep
<1>5. CASE n.kind = "object"
  BY <1>1, <1>5 DEF TextStep
<1>6. CASE n.kind \in {"all", "any"}
  BY <1>1, <1>2, <1>6, <1>a DEF TextStep
<1> QED
  BY <1>3, <1>4, <1>5, <1>6, <1>b

\* So there is a function that Text defines.
LEMMA TextEnds == \E g : IsText(g)
<1> DEFINE Upto(g, k) == \A n \in Nodes : Height[n] < k => g[n] = TextStep(g, n)
           T == {k \in 0 .. (Nesting + 1) : \E g : Upto(g, k)}
<1>1. /\ Nesting \in Nat /\ Nesting + 1 \in Nat
      /\ \A n \in Nodes : Height[n] \in Nat /\ Height[n] < Nesting + 1
  BY RefAssumption, NodeFacts
<1>2. 0 \in T
  <2>1. Upto(0, 0)
    BY <1>1
  <2>2. 0 \in 0 .. (Nesting + 1)
    BY <1>1
  <2> QED
    BY <2>1, <2>2
<1>3. ASSUME NEW k \in 0 .. Nesting, k \in T PROVE k + 1 \in T
  <2>1. PICK g : Upto(g, k)
    BY <1>3
  <2> DEFINE h == [n \in Nodes |-> TextStep(g, n)]
  <2>2. ASSUME NEW n \in Nodes, Height[n] < k + 1 PROVE h[n] = TextStep(h, n)
    <3>1. ASSUME NEW m \in Nodes, Height[m] < Height[n] PROVE g[m] = h[m]
      <4>1. Height[m] < k
        BY <1>1, <2>2, <3>1
      <4> QED
        BY <2>1, <4>1
    <3> HIDE DEF h
    <3>2. TextStep(g, n) = TextStep(h, n)
      BY <3>1, TextLooksDown
    <3> QED
      BY <3>2 DEF h
  <2> HIDE DEF h
  <2>3. Upto(h, k + 1)
    BY <2>2
  <2>4. k + 1 \in 0 .. (Nesting + 1)
    BY <1>1
  <2> QED
    BY <2>3, <2>4
<1> HIDE DEF T
<1>4. 0 .. (Nesting + 1) \subseteq T
  <2>1. \A k \in 0 .. ((Nesting + 1) - 1) : k \in T => k + 1 \in T
    BY <1>1, <1>3
  <2> QED
    BY <1>1, <1>2, <2>1, Induction
<1>5. PICK g : Upto(g, Nesting + 1)
  BY <1>1, <1>4 DEF T
<1> DEFINE h == [n \in Nodes |-> TextStep(g, n)]
<1>6. \A n \in Nodes : g[n] = h[n]
  BY <1>1, <1>5
<1>7. ASSUME NEW n \in Nodes PROVE h[n] = TextStep(h, n)
  <2>1. \A m \in Nodes : Height[m] < Height[n] => g[m] = h[m]
    BY <1>6
  <2> HIDE DEF h
  <2>2. TextStep(g, n) = TextStep(h, n)
    BY <2>1, TextLooksDown
  <2> QED
    BY <2>2 DEF h
<1>8. h = [n \in Nodes |-> TextStep(h, n)]
  BY <1>7
<1> QED
  BY <1>8 DEF IsText

\* What Text says of a node, in terms of what it says of its parts.
LEMMA TextFacts ==
  ASSUME NEW n \in Nodes
  PROVE  /\ n.kind = "leaf" => Pointers(n) = {} /\ Text(n).plain /\ Text(n).plainBeside
         /\ n.kind = "array" =>
              /\ Pointers(n) = {}
              /\ Text(n).plain <=> \A m \in n.beside : Text(m).plain
              /\ Text(n).plainBeside <=> Text(n).plain
         /\ n.kind = "ref" => Pointers(n) = {<<n.to, 0>>} /\ ~ Text(n).plain
         /\ n.kind = "object" =>
              /\ \A u : u \in Pointers(n) <=> \E p \in DOMAIN n.props : u \in Pointers(n.props[p])
              /\ Text(n).plain <=> \A p \in DOMAIN n.props : Text(n.props[p]).plain
              /\ Text(n).plainBeside <=> \A p \in DOMAIN n.props : Text(n.props[p]).plainBeside
         /\ n.kind \in {"all", "any"} =>
              /\ \A u : u \in Pointers(n) <=>
                   \E i \in DOMAIN n.branches : \E t \in Pointers(n.branches[i]) : u = <<t[1], t[2] + 1>>
              /\ ~ Text(n).plain
              /\ Text(n).plainBeside => /\ \A p \in DOMAIN n.props : Text(n.props[p]).plain
                                        /\ \A i \in DOMAIN n.branches : Text(n.branches[i]).plainBeside
                                        /\ \A m \in n.beside : Text(m).plain
<1> DEFINE g == CHOOSE f : IsText(f)
<1>1. \A m : Text(m) = g[m]
  BY DEF Text, IsText, TextStep
<1>2. IsText(g)
  BY TextEnds
<1> HIDE DEF g
<1>3. Text(n) = TextStep(g, n)
  BY <1>1, <1>2 DEF IsText
<1>4. CASE n.kind \in {"leaf", "ref"}
  <2>1. n.kind = "leaf" => Text(n) = [pointers |-> {}, plain |-> TRUE, plainBeside |-> TRUE]
    BY <1>3 DEF TextStep
  <2>2. n.kind = "ref" =>
          Text(n) = [pointers |-> {<<n.to, 0>>}, plain |-> FALSE, plainBeside |-> TRUE]
    BY <1>3 DEF TextStep
  <2>3. n.kind = "leaf" => Pointers(n) = {} /\ Text(n).plain /\ Text(n).plainBeside
    BY <2>1 DEF Pointers
  <2>4. n.kind = "ref" => Pointers(n) = {<<n.to, 0>>} /\ ~ Text(n).plain
    BY <2>2 DEF Pointers
  <2> QED
    BY <1>4, <2>3, <2>4
<1> DEFINE ps == [p \in DOMAIN n.props |-> g[n.props[p]]]
           bs == [i \in DOMAIN n.branches |-> g[n.branches[i]]]
           beside == {g[m] : m \in n.beside}
<1>a. (\A t \in beside : t.plain) <=> \A m \in n.beside : Text(m).plain
  BY <1>1
<1>b. CASE n.kind = "array"
  <2>1. Text(n) = TextOfArray(beside)
    BY <1>3, <1>b DEF TextStep
  <2> HIDE DEF beside
  <2>2. /\ Pointers(n) = {}
        /\ Text(n).plain <=> \A t \in beside : t.plain
        /\ Text(n).plainBeside <=> \A t \in beside : t.plain
    BY <2>1 DEF TextOfArray, Pointers
  <2> QED
    BY <1>a, <1>b, <2>2
<1>5. CASE n.kind = "object"
  <2>1. Text(n) = TextOfObject(ps)
    BY <1>3, <1>5 DEF TextStep
  <2>2. DOMAIN ps = DOMAIN n.props /\ \A p \in DOMAIN n.props : ps[p] = Text(n.props[p])
    BY <1>1
  <2> HIDE DEF ps
  <2>3. /\ Pointers(n) = UNION {ps[p].pointers : p \in DOMAIN ps}
        /\ Text(n).plain <=> \A p \in DOMAIN ps : ps[p].plain
        /\ Text(n).plainBeside <=> \A p \in DOMAIN ps : ps[p].plainBeside
    BY <2>1 DEF TextOfObject, Pointers
  <2>4. \A u : u \in UNION {ps[p].pointers : p \in DOMAIN ps} <=>
                 \E p \in DOMAIN n.props : u \in Pointers(n.props[p])
    BY <2>2 DEF Pointers
  <2> QED
    BY <1>5, <2>2, <2>3, <2>4
<1>6. CASE n.kind \in {"all", "any"}
  <2>1. Text(n) = TextOfComposed(ps, bs, beside)
    BY <1>3, <1>6 DEF TextStep
  <2>2. /\ DOMAIN ps = DOMAIN n.props /\ \A p \in DOMAIN n.props : ps[p] = Text(n.props[p])
        /\ DOMAIN bs = DOMAIN n.branches /\ \A i \in DOMAIN n.branches : bs[i] = Text(n.branches[i])
    BY <1>1
  <2> HIDE DEF ps, bs, beside
  <2>3. /\ Pointers(n) = UNION {{<<t[1], t[2] + 1>> : t \in bs[i].pointers} : i \in DOMAIN bs}
        /\ ~ Text(n).plain
        /\ Text(n).plainBeside => /\ \A p \in DOMAIN ps : ps[p].plain
                                  /\ \A i \in DOMAIN bs : bs[i].plainBeside
                                  /\ \A t \in beside : t.plain
    BY <2>1 DEF TextOfComposed, Pointers
  <2>4. \A u : u \in UNION {{<<t[1], t[2] + 1>> : t \in bs[i].pointers} : i \in DOMAIN bs} <=>
                 \E i \in DOMAIN n.branches : \E t \in Pointers(n.branches[i]) : u = <<t[1], t[2] + 1>>
    BY <2>2 DEF Pointers
  <2> QED
    BY <1>6, <1>a, <2>2, <2>3, <2>4
<1> QED
  BY <1>4, <1>5, <1>6, <1>b, NodeFacts

\* A pointer has a name, and a number of compositions around it.
LEMMA PointerFacts ==
  ASSUME NEW n \in Nodes
  PROVE  Pointers(n) \subseteq (Definitions \cup {Dangling}) \X Nat
<1> DEFINE T == {m \in Nodes : Pointers(m) \subseteq (Definitions \cup {Dangling}) \X Nat}
<1>1. ASSUME NEW m \in Nodes, \A k \in Nodes : Height[k] < Height[m] => k \in T PROVE m \in T
  <2>1. ASSUME NEW u \in Pointers(m) PROVE u \in (Definitions \cup {Dangling}) \X Nat
    <3>1. CASE m.kind \in {"leaf", "array", "ref"}
      <4>1. m.kind = "ref" /\ u = <<m.to, 0>>
        BY <2>1, <3>1, TextFacts
      <4> QED
        BY <4>1, NodeFacts
    <3>2. CASE m.kind = "object"
      <4>1. PICK p \in DOMAIN m.props : u \in Pointers(m.props[p])
        BY <2>1, <3>2, TextFacts
      <4>2. m.props[p] \in T
        BY <1>1, <3>2, NodeFacts
      <4> QED
        BY <4>1, <4>2
    <3>3. CASE m.kind \in {"all", "any"}
      <4>0. PICK i \in DOMAIN m.branches : \E t \in Pointers(m.branches[i]) : u = <<t[1], t[2] + 1>>
        BY <2>1, <3>3, TextFacts
      <4>1. PICK t \in Pointers(m.branches[i]) : u = <<t[1], t[2] + 1>>
        BY <4>0
      <4>2. m.branches[i] \in T
        BY <1>1, <3>3, NodeFacts
      <4>3. t \in (Definitions \cup {Dangling}) \X Nat
        BY <4>1, <4>2
      <4> QED
        BY <4>1, <4>3
    <3> QED
      BY <3>1, <3>2, <3>3, NodeFacts
  <2> QED
    BY <2>1
<1> HIDE DEF T
<1>2. Nodes \subseteq T
  BY <1>1, HeightInduction
<1> QED
  BY <1>2 DEF T

\* The pointers of the parts are those of the node, one composition further in.
LEMMA PartPointers ==
  ASSUME NEW c \in NodeCalls
  PROVE  /\ c.node.kind = "object" => \A p \in DOMAIN c.node.props :
              /\ Part(c, p).node = c.node.props[p] /\ Part(c, p).depth = c.depth
              /\ Part(c, p).visiting = c.visiting
              /\ \A t \in Pointers(c.node.props[p]) : t \in Pointers(c.node)
         /\ c.node.kind \in {"all", "any"} => \A i \in DOMAIN c.node.branches :
              /\ Branch(c, i).node = c.node.branches[i] /\ Branch(c, i).depth = c.depth + 1
              /\ Branch(c, i).visiting = c.visiting
              /\ \A t \in Pointers(c.node.branches[i]) :
                   <<t[1], t[2] + 1>> \in Pointers(c.node) /\ t[2] \in Nat
<1>1. c.node \in Nodes /\ c.depth \in Nat
  BY DEF NodeCalls
<1>2. ASSUME c.node.kind = "object", NEW p \in DOMAIN c.node.props
      PROVE  /\ Part(c, p).node = c.node.props[p] /\ Part(c, p).depth = c.depth
             /\ Part(c, p).visiting = c.visiting
             /\ \A t \in Pointers(c.node.props[p]) : t \in Pointers(c.node)
  BY <1>1, <1>2, TextFacts DEF Part, NodeCall
<1>3. ASSUME c.node.kind \in {"all", "any"}, NEW i \in DOMAIN c.node.branches
      PROVE  /\ Branch(c, i).node = c.node.branches[i] /\ Branch(c, i).depth = c.depth + 1
             /\ Branch(c, i).visiting = c.visiting
             /\ \A t \in Pointers(c.node.branches[i]) :
                  <<t[1], t[2] + 1>> \in Pointers(c.node) /\ t[2] \in Nat
  <2>1. c.node.branches[i] \in Nodes
    BY <1>1, <1>3, NodeFacts
  <2>2. \A t \in Pointers(c.node.branches[i]) : t[2] \in Nat
    BY <2>1, PointerFacts
  <2>3. \A t \in Pointers(c.node.branches[i]) : <<t[1], t[2] + 1>> \in Pointers(c.node)
    BY <1>1, <1>3, TextFacts
  <2> QED
    BY <2>2, <2>3 DEF Branch, NodeCall
<1> QED
  BY <1>2, <1>3

\* A pointer met in a composition is met in a branch, one less deep.
LEMMA PointerOfComposed ==
  ASSUME NEW n \in Nodes, n.kind \in {"all", "any"}, NEW u \in Pointers(n)
  PROVE  \E i \in DOMAIN n.branches : \E t \in Pointers(n.branches[i]) :
           u = <<t[1], t[2] + 1>> /\ t[2] \in Nat /\ u[1] = t[1] /\ u[2] = t[2] + 1
<1>1. PICK i \in DOMAIN n.branches : \E t \in Pointers(n.branches[i]) : u = <<t[1], t[2] + 1>>
  BY TextFacts
<1>2. PICK t \in Pointers(n.branches[i]) : u = <<t[1], t[2] + 1>>
  BY <1>1
<1>3. t[2] \in Nat
  BY <1>1, <1>2, NodeFacts, PointerFacts
<1> QED
  BY <1>2, <1>3

-----------------------------------------------------------------------------
(* What is refused.                                                        *)

\* The call returns no error.
Resolved(defs, c) == ResolveNode(defs, c).errors = {}

\* The errors are those of the parts.
LEMMA ErrorsOfParts ==
  ASSUME NEW defs \in [Definitions -> Bodies], NEW c \in NodeCalls
  PROVE  /\ c.node.kind = "object" => \A e : e \in ResolveNode(defs, c).errors <=>
              \E p \in DOMAIN c.node.props : e \in ResolveNode(defs, Part(c, p)).errors
         /\ c.node.kind \in {"all", "any"} => \A e : e \in ResolveNode(defs, c).errors <=>
              \E i \in DOMAIN c.node.branches : e \in ResolveNode(defs, Branch(c, i)).errors
<1>1. ASSUME c.node.kind = "object"
      PROVE  \A e : e \in ResolveNode(defs, c).errors <=>
               \E p \in DOMAIN c.node.props : e \in ResolveNode(defs, Part(c, p)).errors
  <2>1. ResolveNode(defs, c).errors =
          UNION {ResolveNode(defs, Part(c, p)).errors : p \in DOMAIN c.node.props}
    BY <1>1, Resolution
  <2> QED
    BY <2>1
<1>2. ASSUME c.node.kind \in {"all", "any"}
      PROVE  \A e : e \in ResolveNode(defs, c).errors <=>
               \E i \in DOMAIN c.node.branches : e \in ResolveNode(defs, Branch(c, i)).errors
  <2>1. ResolveNode(defs, c).errors =
          UNION {ResolveNode(defs, Branch(c, i)).errors : i \in DOMAIN c.node.branches}
    BY <1>2, Resolution
  <2> QED
    BY <2>1
<1> QED
  BY <1>1, <1>2

\* Nothing is refused: every pointer was followed, and in time.
LEMMA AllFollowed ==
  ASSUME NEW defs \in [Definitions -> Bodies], NEW c \in NodeCalls, Resolved(defs, c),
         NEW u \in Pointers(c.node)
  PROVE  /\ u[1] \in Definitions /\ u[2] \in Nat /\ c.depth + u[2] < MaxDepth
         /\ \E v \in SUBSET Definitions : Resolved(defs, NodeCall(defs[u[1]], c.depth + u[2] + 1, v))
<1> DEFINE Fine(b, t) ==
             /\ t[1] \in Definitions /\ t[2] \in Nat /\ b.depth + t[2] < MaxDepth
             /\ \E v \in SUBSET Definitions :
                  Resolved(defs, NodeCall(defs[t[1]], b.depth + t[2] + 1, v))
           T == {b \in NodeCalls : Resolved(defs, b) => \A t \in Pointers(b.node) : Fine(b, t)}
<1>1. ASSUME NEW b \in NodeCalls, \A d \in NodeCalls : Rank(d) < Rank(b) => d \in T PROVE b \in T
  <2> SUFFICES ASSUME Resolved(defs, b), NEW t \in Pointers(b.node) PROVE Fine(b, t)
    OBVIOUS
  <2>1. b.node \in Nodes /\ b.depth \in Nat
    BY CallsBelow
  <2>2. CASE b.node.kind \in Bare
    BY <2>1, <2>2, TextFacts DEF Bare
  <2>3. CASE b.node.kind = "ref"
    <3>1. Followed(defs, b) /\ ResolveNode(defs, b) = ResolveNode(defs, Target(defs, b))
      BY <2>3, Resolution DEF Resolved
    <3>2. t = <<b.node.to, 0>>
      BY <2>1, <2>3, TextFacts
    <3>3. b.node.to \in Definitions /\ b.depth < MaxDepth
      BY <3>1 DEF Followed
    <3>4. b.visiting \cup {b.node.to} \in SUBSET Definitions
      BY <3>3, CallsBelow
    <3>5. Resolved(defs, NodeCall(defs[t[1]], b.depth + t[2] + 1, b.visiting \cup {b.node.to}))
      <4>1. t[1] = b.node.to /\ b.depth + t[2] + 1 = b.depth + 1
        BY <2>1, <3>2
      <4>2. ResolveNode(defs, Target(defs, b)).errors = {}
        BY <3>1 DEF Resolved
      <4> QED
        BY <4>1, <4>2 DEF Resolved, Target
    <3> QED
      BY <2>1, <3>2, <3>3, <3>4, <3>5
  <2>4. CASE b.node.kind = "object"
    <3>1. PICK p \in DOMAIN b.node.props : t \in Pointers(b.node.props[p])
      BY <2>1, <2>4, TextFacts
    <3>2. Resolved(defs, Part(b, p))
      BY <2>4, <3>1, ErrorsOfParts DEF Resolved
    <3>3. Part(b, p) \in T
      BY <1>1, <2>4, <3>1, CallsBelow
    <3>4. Fine(Part(b, p), t) /\ Part(b, p).depth = b.depth
      BY <2>4, <3>1, <3>2, <3>3, PartPointers
    <3> QED
      BY <3>4
  <2>5. CASE b.node.kind \in {"all", "any"}
    <3>1. PICK i \in DOMAIN b.node.branches : \E s \in Pointers(b.node.branches[i]) :
            t = <<s[1], s[2] + 1>> /\ s[2] \in Nat /\ t[1] = s[1] /\ t[2] = s[2] + 1
      BY <2>1, <2>5, PointerOfComposed
    <3>2. PICK s \in Pointers(b.node.branches[i]) :
            t = <<s[1], s[2] + 1>> /\ s[2] \in Nat /\ t[1] = s[1] /\ t[2] = s[2] + 1
      BY <3>1
    <3>3. Resolved(defs, Branch(b, i))
      BY <2>5, <3>1, ErrorsOfParts DEF Resolved
    <3>4. Branch(b, i) \in T
      BY <1>1, <2>5, <3>1, CallsBelow
    <3>5. Fine(Branch(b, i), s) /\ Branch(b, i).depth = b.depth + 1
      BY <2>5, <3>1, <3>2, <3>3, <3>4, PartPointers
    <3>6. (b.depth + 1) + s[2] = b.depth + t[2]
      BY <2>1, <3>2
    <3> QED
      BY <3>2, <3>5, <3>6
  <2> QED
    BY <2>1, <2>2, <2>3, <2>4, <2>5, NodeFacts DEF Bare
<1> HIDE DEF T
<1>2. NodeCalls \subseteq T
  BY <1>1, RankInduction
<1> QED
  BY <1>2 DEF T

\* The starting calls.
LEMMA StartFacts ==
  ASSUME NEW defs \in [Definitions -> Bodies], NEW root \in Roots
  PROVE  /\ Starts(root, defs) \subseteq Nodes /\ root \in Starts(root, defs)
         /\ \A n \in Starts(root, defs) :
              /\ NodeCall(n, 0, {}) \in NodeCalls
              /\ NodeCall(n, 0, {}).node = n /\ NodeCall(n, 0, {}).depth = 0
              /\ NodeCall(n, 0, {}).visiting = {}
<1>1. Starts(root, defs) \subseteq Nodes /\ root \in Starts(root, defs)
  BY RefAssumption DEF Starts
<1> QED
  BY <1>1, CallFacts

Depths == {k \in 0 .. MaxDepth : k < MaxDepth}

\* If all is resolved, the pointers met on the way are the set that Fits asks for.
LEMMA ResolvedFits ==
  ASSUME NEW defs \in [Definitions -> Bodies], NEW root \in Roots,
         \A n \in Starts(root, defs) : Resolved(defs, NodeCall(n, 0, {}))
  PROVE  Fits(root, defs)
<1> DEFINE W == {t \in Definitions \X Depths :
                   \E v \in SUBSET Definitions : Resolved(defs, NodeCall(defs[t[1]], t[2] + 1, v))}
<1>1. ASSUME NEW n \in Starts(root, defs), NEW u \in Pointers(n) PROVE u \in W
  <2>1. /\ NodeCall(n, 0, {}) \in NodeCalls /\ n \in Nodes
        /\ NodeCall(n, 0, {}).node = n /\ NodeCall(n, 0, {}).depth = 0
    BY StartFacts
  <2>2. /\ u[1] \in Definitions /\ u[2] \in Nat /\ 0 + u[2] < MaxDepth
        /\ \E v \in SUBSET Definitions : Resolved(defs, NodeCall(defs[u[1]], 0 + u[2] + 1, v))
    BY <2>1, AllFollowed
  <2>3. u = <<u[1], u[2]>>
    BY <2>1, PointerFacts
  <2>4. 0 + u[2] = u[2] /\ u[2] \in Depths
    BY <2>2, RefAssumption DEF Depths
  <2> QED
    BY <2>2, <2>3, <2>4
<1>2. ASSUME NEW t \in W, NEW u \in Pointers(defs[t[1]])
      PROVE  <<u[1], t[2] + 1 + u[2]>> \in W
  <2>1. PICK v \in SUBSET Definitions : Resolved(defs, NodeCall(defs[t[1]], t[2] + 1, v))
    OBVIOUS
  <2> DEFINE c == NodeCall(defs[t[1]], t[2] + 1, v)
  <2>2. defs[t[1]] \in Nodes /\ t[2] + 1 \in Nat
    BY RefAssumption DEF Depths
  <2>3. c \in NodeCalls /\ c.node = defs[t[1]] /\ c.depth = t[2] + 1
    BY <2>2, CallFacts
  <2> HIDE DEF c
  <2>4. /\ u[1] \in Definitions /\ u[2] \in Nat /\ c.depth + u[2] < MaxDepth
        /\ \E w \in SUBSET Definitions : Resolved(defs, NodeCall(defs[u[1]], c.depth + u[2] + 1, w))
    BY <2>1, <2>3, AllFollowed DEF c
  <2>5. t[2] + 1 + u[2] \in Depths
    BY <2>2, <2>3, <2>4, RefAssumption DEF Depths
  <2> QED
    BY <2>3, <2>4, <2>5
<1>3. W \in SUBSET ((DOMAIN defs) \X Depths)
  OBVIOUS
<1> HIDE DEF W
<1>4. MeetsAll(W, root, defs)
  BY <1>1, <1>2 DEF MeetsAll
<1> QED
  BY <1>3, <1>4 DEF Fits, Depths

\* b is met deeper than any place where a is met.
Deeper(W, a, b) == \E k : <<b, k>> \in W /\ \A j : <<a, j>> \in W => j < k

\* What is met in a fitting schema is met at a greatest depth.
LEMMA GreatestDepth ==
  ASSUME NEW W \in SUBSET (Definitions \X Depths), NEW a, NEW i, <<a, i>> \in W
  PROVE  \E k \in Nat : <<a, k>> \in W /\ \A j : <<a, j>> \in W => j <= k
<1> DEFINE Above == {MaxDepth - j : j \in {j \in Depths : <<a, j>> \in W}}
<1>1. \A j : <<a, j>> \in W => j \in Depths
  OBVIOUS
<1>2. \A j \in Depths : j \in Nat /\ MaxDepth - j \in Nat
  BY RefAssumption DEF Depths
<1>3. Above \subseteq Nat /\ Above # {}
  BY <1>1, <1>2
<1> HIDE DEF Above
<1>4. PICK m \in Above : \A k \in Above : m <= k
  BY <1>3, LeastNumber
<1>5. PICK k \in Depths : <<a, k>> \in W /\ m = MaxDepth - k
  BY <1>4 DEF Above
<1>6. ASSUME NEW j, <<a, j>> \in W PROVE j <= k
  <2>1. j \in Depths /\ MaxDepth - j \in Above
    BY <1>1, <1>6 DEF Above
  <2>2. MaxDepth - k <= MaxDepth - j
    BY <1>4, <1>5, <2>1
  <2> QED
    BY <1>2, <1>5, <2>1, <2>2, RefAssumption
<1> QED
  BY <1>2, <1>5, <1>6

\* What is met in a definition is met deeper than the definition.
LEMMA TargetsAreDeeper ==
  ASSUME NEW defs \in [Definitions -> Bodies], NEW root \in Roots,
         NEW W \in SUBSET (Definitions \X Depths), MeetsAll(W, root, defs),
         NEW a \in Definitions, NEW i, <<a, i>> \in W, NEW u \in Pointers(defs[a])
  PROVE  /\ <<u[1], i + 1 + u[2]>> \in W
         /\ Deeper(W, a, u[1])
         /\ \A b : Deeper(W, b, a) => Deeper(W, b, u[1])
<1>1. \A k : <<a, k>> \in W => k \in Nat /\ <<u[1], k + 1 + u[2]>> \in W
  <2> SUFFICES ASSUME NEW k, <<a, k>> \in W PROVE k \in Nat /\ <<u[1], k + 1 + u[2]>> \in W
    OBVIOUS
  <2>1. k \in Nat
    BY RefAssumption DEF Depths
  <2>2. <<a, k>>[1] = a /\ <<a, k>>[2] = k
    OBVIOUS
  <2>3. \A t \in W : \A v \in Pointers(defs[t[1]]) : <<v[1], t[2] + 1 + v[2]>> \in W
    BY DEF MeetsAll
  <2>4. \A v \in Pointers(defs[<<a, k>>[1]]) : <<v[1], <<a, k>>[2] + 1 + v[2]>> \in W
    BY <2>3
  <2> QED
    BY <2>1, <2>2, <2>4
<1>2. u[2] \in Nat
  BY PointerFacts, RefAssumption
<1>3. Deeper(W, a, u[1])
  <2>1. PICK k \in Nat : <<a, k>> \in W /\ \A j : <<a, j>> \in W => j <= k
    BY GreatestDepth
  <2>2. <<u[1], k + 1 + u[2]>> \in W
    BY <1>1, <2>1
  <2>3. \A j : <<a, j>> \in W => j \in Nat /\ j <= k
    BY <1>1, <2>1
  <2>4. \A j : <<a, j>> \in W => j < k + 1 + u[2]
    BY <1>2, <2>1, <2>3
  <2> QED
    BY <2>2, <2>4 DEF Deeper
<1>4. ASSUME NEW b, Deeper(W, b, a) PROVE Deeper(W, b, u[1])
  <2>1. PICK k : <<a, k>> \in W /\ \A j : <<b, j>> \in W => j < k
    BY <1>4 DEF Deeper
  <2>2. k \in Nat /\ <<u[1], k + 1 + u[2]>> \in W
    BY <1>1, <2>1
  <2>3. \A j : <<b, j>> \in W => j \in Nat
    BY RefAssumption DEF Depths
  <2>4. \A j : <<b, j>> \in W => j < k + 1 + u[2]
    BY <1>2, <2>1, <2>2, <2>3
  <2> QED
    BY <2>2, <2>4 DEF Deeper
<1> QED
  BY <1>1, <1>3, <1>4

\* A call within a fitting schema: its pointers are met, and deeper than what
\* is being visited.
Within(W, b) ==
  \A u \in Pointers(b.node) :
    <<u[1], b.depth + u[2]>> \in W /\ \A v \in b.visiting : Deeper(W, v, u[1])

\* In a set of pointers that is closed and not too deep no name is met again: each
\* is deeper than all that lead to it, so that none is taken for a cycle.
LEMMA FittingResolves ==
  ASSUME NEW defs \in [Definitions -> Bodies], NEW root \in Roots,
         NEW W \in SUBSET (Definitions \X Depths), MeetsAll(W, root, defs),
         NEW c \in NodeCalls, Within(W, c)
  PROVE  Resolved(defs, c)
<1> DEFINE T == {b \in NodeCalls : Within(W, b) => Resolved(defs, b)}
<1>1. ASSUME NEW b \in NodeCalls, \A d \in NodeCalls : Rank(d) < Rank(b) => d \in T PROVE b \in T
  <2> SUFFICES ASSUME Within(W, b) PROVE Resolved(defs, b)
    OBVIOUS
  <2>1. b.node \in Nodes /\ b.depth \in Nat
    BY CallsBelow
  <2>2. CASE b.node.kind \in Bare
    BY <2>2, Resolution DEF Resolved
  <2>3. CASE b.node.kind = "ref"
    <3> DEFINE to == b.node.to
    <3>1. Pointers(b.node) = {<<to, 0>>}
      BY <2>1, <2>3, TextFacts
    <3>2. <<to, b.depth>> \in W /\ \A v \in b.visiting : Deeper(W, v, to)
      <4>1. <<to, 0>>[1] = to /\ b.depth + <<to, 0>>[2] = b.depth
        BY <2>1
      <4> QED
        BY <3>1, <4>1 DEF Within
    <3>3. to \in Definitions /\ b.depth < MaxDepth
      BY <3>2 DEF Depths
    <3>4. to \notin b.visiting
      <4>1. SUFFICES ASSUME Deeper(W, to, to) PROVE FALSE
        BY <3>2
      <4>2. PICK k : <<to, k>> \in W /\ k < k
        BY <4>1 DEF Deeper
      <4>3. k \in Nat
        BY <4>2, RefAssumption DEF Depths
      <4> QED
        BY <4>2, <4>3
    <3>5. Followed(defs, b)
      BY <3>3, <3>4 DEF Followed
    <3> DEFINE d == Target(defs, b)
    <3>6. /\ d \in NodeCalls /\ Rank(d) < Rank(b) /\ ResolveNode(defs, b) = ResolveNode(defs, d)
      BY <2>3, <3>5, CallsBelow, Resolution
    <3>7. d.node = defs[to] /\ d.depth = b.depth + 1 /\ d.visiting = b.visiting \cup {to}
      BY DEF Target, NodeCall
    <3> HIDE DEF d
    <3>8. ASSUME NEW u \in Pointers(d.node)
          PROVE  <<u[1], d.depth + u[2]>> \in W /\ \A v \in d.visiting : Deeper(W, v, u[1])
      <4>1. /\ <<u[1], b.depth + 1 + u[2]>> \in W /\ Deeper(W, to, u[1])
            /\ \A v : Deeper(W, v, to) => Deeper(W, v, u[1])
        BY <3>2, <3>3, <3>7, TargetsAreDeeper
      <4> QED
        BY <3>2, <3>7, <4>1
    <3>9. Within(W, d)
      BY <3>8 DEF Within
    <3> QED
      BY <1>1, <3>6, <3>9 DEF Resolved
  <2>4. CASE b.node.kind = "object"
    <3>1. ASSUME NEW p \in DOMAIN b.node.props PROVE Resolved(defs, Part(b, p))
      <4>1. Part(b, p) \in NodeCalls /\ Rank(Part(b, p)) < Rank(b)
        BY <2>4, CallsBelow
      <4>2. /\ Part(b, p).depth = b.depth /\ Part(b, p).visiting = b.visiting
            /\ \A u \in Pointers(Part(b, p).node) : u \in Pointers(b.node)
        BY <2>4, PartPointers
      <4>3. Within(W, Part(b, p))
        BY <4>2 DEF Within
      <4> QED
        BY <1>1, <4>1, <4>3
    <3> QED
      BY <2>4, <3>1, ErrorsOfParts DEF Resolved
  <2>5. CASE b.node.kind \in {"all", "any"}
    <3>1. ASSUME NEW i \in DOMAIN b.node.branches PROVE Resolved(defs, Branch(b, i))
      <4>1. Branch(b, i) \in NodeCalls /\ Rank(Branch(b, i)) < Rank(b)
        BY <2>5, CallsBelow
      <4>2. ASSUME NEW u \in Pointers(Branch(b, i).node)
            PROVE  /\ <<u[1], Branch(b, i).depth + u[2]>> \in W
                   /\ \A v \in Branch(b, i).visiting : Deeper(W, v, u[1])
        <5>1. /\ <<u[1], u[2] + 1>> \in Pointers(b.node) /\ u[2] \in Nat
              /\ Branch(b, i).depth = b.depth + 1 /\ Branch(b, i).visiting = b.visiting
          BY <2>5, <4>2, PartPointers
        <5>2. <<u[1], u[2] + 1>>[1] = u[1] /\ b.depth + <<u[1], u[2] + 1>>[2] = b.depth + 1 + u[2]
          BY <2>1, <5>1
        <5>3. /\ <<u[1], b.depth + 1 + u[2]>> \in W
              /\ \A v \in b.visiting : Deeper(W, v, u[1])
          BY <5>1, <5>2 DEF Within
        <5> QED
          BY <5>1, <5>3
      <4>3. Within(W, Branch(b, i))
        BY <4>2 DEF Within
      <4> QED
        BY <1>1, <4>1, <4>3
    <3> QED
      BY <2>5, <3>1, ErrorsOfParts DEF Resolved
  <2> QED
    BY <2>1, <2>2, <2>3, <2>4, <2>5, NodeFacts DEF Bare
<1> HIDE DEF T
<1>2. NodeCalls \subseteq T
  BY <1>1, RankInduction
<1> QED
  BY <1>2 DEF T

\* If a schema fits, all that resolve_refs starts from is resolved.
LEMMA FitsResolved ==
  ASSUME NEW defs \in [Definitions -> Bodies], NEW root \in Roots, Fits(root, defs),
         NEW n \in Starts(root, defs)
  PROVE  Resolved(defs, NodeCall(n, 0, {}))
<1>1. PICK W \in SUBSET (Definitions \X Depths) : MeetsAll(W, root, defs)
  BY DEF Fits, Depths
<1> DEFINE c == NodeCall(n, 0, {})
<1>2. c \in NodeCalls /\ c.node = n /\ c.depth = 0 /\ c.visiting = {} /\ n \in Nodes
  BY StartFacts
<1> HIDE DEF c
<1>3. ASSUME NEW u \in Pointers(n) PROVE <<u[1], 0 + u[2]>> \in W
  <2>1. u \in W /\ u = <<u[1], u[2]>> /\ u[2] \in Nat
    BY <1>1, <1>2, PointerFacts DEF MeetsAll
  <2> QED
    BY <2>1
<1>4. Within(W, c)
  BY <1>2, <1>3 DEF Within
<1>5. Resolved(defs, c)
  BY <1>1, <1>2, <1>4, FittingResolves
<1> QED
  BY <1>5 DEF c

\* While it visits, resolve_node is on a way from each definition to the next.
OnTheWay(defs, b) ==
  b.visiting # {} =>
    \E last \in b.visiting :
      /\ PointsTo(b.node) \subseteq PointsTo(defs[last])
      /\ \A e \in b.visiting \ {last} : PointsTo(defs[e]) \cap b.visiting # {}

\* What a part of a node points to, the node points to.
LEMMA PartsPointTo ==
  ASSUME NEW c \in NodeCalls
  PROVE  /\ c.node.kind = "object" =>
              \A p \in DOMAIN c.node.props : PointsTo(Part(c, p).node) \subseteq PointsTo(c.node)
         /\ c.node.kind \in {"all", "any"} =>
              \A i \in DOMAIN c.node.branches : PointsTo(Branch(c, i).node) \subseteq PointsTo(c.node)
<1>1. ASSUME c.node.kind = "object", NEW p \in DOMAIN c.node.props
      PROVE  PointsTo(Part(c, p).node) \subseteq PointsTo(c.node)
  BY <1>1, PartPointers DEF PointsTo
<1>2. ASSUME c.node.kind \in {"all", "any"}, NEW i \in DOMAIN c.node.branches,
             NEW e \in PointsTo(Branch(c, i).node)
      PROVE  e \in PointsTo(c.node)
  <2>1. PICK t \in Pointers(c.node.branches[i]) : e = t[1]
    BY <1>2, PartPointers DEF PointsTo
  <2>2. <<t[1], t[2] + 1>> \in Pointers(c.node)
    BY <1>2, <2>1, PartPointers
  <2> QED
    BY <2>1, <2>2 DEF PointsTo
<1> QED
  BY <1>1, <1>2

\* The names being visited lead on to one another; the one met again closes a cycle.
LEMMA CircularIsCyclic ==
  ASSUME NEW defs \in [Definitions -> Bodies], NEW c \in NodeCalls, OnTheWay(defs, c),
         "circular" \in ResolveNode(defs, c).errors
  PROVE  Cyclic(defs)
<1> DEFINE T == {b \in NodeCalls :
                   OnTheWay(defs, b) /\ "circular" \in ResolveNode(defs, b).errors => Cyclic(defs)}
<1>1. ASSUME NEW b \in NodeCalls, \A d \in NodeCalls : Rank(d) < Rank(b) => d \in T PROVE b \in T
  <2> SUFFICES ASSUME OnTheWay(defs, b), "circular" \in ResolveNode(defs, b).errors
               PROVE  Cyclic(defs)
    OBVIOUS
  <2>1. b.node \in Nodes /\ b.visiting \in SUBSET Definitions
    BY CallsBelow
  <2>2. CASE b.node.kind \in Bare
    BY <2>2, Resolution
  <2>3. CASE b.node.kind = "ref"
    <3> DEFINE to == b.node.to
    <3>1. PointsTo(b.node) = {to}
      <4>1. Pointers(b.node) = {<<to, 0>>}
        BY <2>1, <2>3, TextFacts
      <4> QED
        BY <4>1 DEF PointsTo
    <3>2. CASE Followed(defs, b)
      <4> DEFINE d == Target(defs, b)
      <4>1. d \in NodeCalls /\ Rank(d) < Rank(b) /\ ResolveNode(defs, b) = ResolveNode(defs, d)
        BY <2>3, <3>2, CallsBelow, Resolution
      <4>2. d.node = defs[to] /\ d.visiting = b.visiting \cup {to}
        BY DEF Target, NodeCall
      <4> HIDE DEF d
      <4>3. ASSUME NEW e \in d.visiting \ {to} PROVE PointsTo(defs[e]) \cap d.visiting # {}
        BY <3>1, <4>2, <4>3 DEF OnTheWay
      <4>4. OnTheWay(defs, d)
        BY <4>2, <4>3 DEF OnTheWay
      <4> QED
        BY <1>1, <4>1, <4>4
    <3>3. CASE ~ Followed(defs, b)
      <4>1. to \in b.visiting
        BY <2>3, <3>3, Resolution
      <4>2. \A e \in b.visiting : PointsTo(defs[e]) \cap b.visiting # {}
        BY <3>1, <4>1 DEF OnTheWay
      <4> QED
        BY <2>1, <4>1, <4>2 DEF Cyclic
    <3> QED
      BY <3>2, <3>3
  <2>4. CASE b.node.kind = "object"
    <3>1. PICK p \in DOMAIN b.node.props : "circular" \in ResolveNode(defs, Part(b, p)).errors
      BY <2>4, ErrorsOfParts
    <3>2. Part(b, p) \in NodeCalls /\ Rank(Part(b, p)) < Rank(b)
      BY <2>4, <3>1, CallsBelow
    <3>3. Part(b, p).visiting = b.visiting /\ PointsTo(Part(b, p).node) \subseteq PointsTo(b.node)
      BY <2>4, <3>1, PartPointers, PartsPointTo
    <3>4. OnTheWay(defs, Part(b, p))
      BY <3>3 DEF OnTheWay
    <3> QED
      BY <1>1, <3>1, <3>2, <3>4
  <2>5. CASE b.node.kind \in {"all", "any"}
    <3>1. PICK i \in DOMAIN b.node.branches : "circular" \in ResolveNode(defs, Branch(b, i)).errors
      BY <2>5, ErrorsOfParts
    <3>2. Branch(b, i) \in NodeCalls /\ Rank(Branch(b, i)) < Rank(b)
      BY <2>5, <3>1, CallsBelow
    <3>3. Branch(b, i).visiting = b.visiting /\ PointsTo(Branch(b, i).node) \subseteq PointsTo(b.node)
      BY <2>5, <3>1, PartPointers, PartsPointTo
    <3>4. OnTheWay(defs, Branch(b, i))
      BY <3>3 DEF OnTheWay
    <3> QED
      BY <1>1, <3>1, <3>2, <3>4
  <2> QED
    BY <2>1, <2>2, <2>3, <2>4, <2>5, NodeFacts DEF Bare
<1> HIDE DEF T
<1>2. NodeCalls \subseteq T
  BY <1>1, RankInduction
<1> QED
  BY <1>2 DEF T

\* A name that is not defined is reported only if pointers lead to it.
LEMMA UnresolvableIsReached ==
  ASSUME NEW defs \in [Definitions -> Bodies], NEW c \in NodeCalls,
         "unresolvable" \in ResolveNode(defs, c).errors,
         NEW R, PointsTo(c.node) \subseteq R,
         \A e \in R \cap Definitions : PointsTo(defs[e]) \subseteq R
  PROVE  Dangling \in R
<1> DEFINE T == {b \in NodeCalls : PointsTo(b.node) \subseteq R
                                   /\ "unresolvable" \in ResolveNode(defs, b).errors => Dangling \in R}
<1>1. ASSUME NEW b \in NodeCalls, \A d \in NodeCalls : Rank(d) < Rank(b) => d \in T PROVE b \in T
  <2> SUFFICES ASSUME PointsTo(b.node) \subseteq R, "unresolvable" \in ResolveNode(defs, b).errors
               PROVE  Dangling \in R
    OBVIOUS
  <2>1. b.node \in Nodes
    BY CallsBelow
  <2>2. CASE b.node.kind \in Bare
    BY <2>2, Resolution
  <2>3. CASE b.node.kind = "ref"
    <3>1. b.node.to \in R /\ b.node.to \in Definitions \cup {Dangling}
      <4>1. Pointers(b.node) = {<<b.node.to, 0>>}
        BY <2>1, <2>3, TextFacts
      <4>2. b.node.to \in PointsTo(b.node)
        BY <4>1 DEF PointsTo
      <4> QED
        BY <2>1, <2>3, <4>2, NodeFacts
    <3>2. CASE Followed(defs, b)
      <4>1. /\ Target(defs, b) \in NodeCalls /\ Rank(Target(defs, b)) < Rank(b)
            /\ ResolveNode(defs, b) = ResolveNode(defs, Target(defs, b))
        BY <2>3, <3>2, CallsBelow, Resolution
      <4>2. Target(defs, b).node = defs[b.node.to] /\ b.node.to \in Definitions
        BY <3>2 DEF Target, NodeCall, Followed
      <4>3. PointsTo(Target(defs, b).node) \subseteq R
        BY <3>1, <4>2
      <4> QED
        BY <1>1, <4>1, <4>3
    <3>3. CASE ~ Followed(defs, b)
      <4>1. b.node.to \notin DOMAIN defs
        BY <2>3, <3>3, Resolution
      <4> QED
        BY <3>1, <4>1
    <3> QED
      BY <3>2, <3>3
  <2>4. CASE b.node.kind = "object"
    <3>1. PICK p \in DOMAIN b.node.props : "unresolvable" \in ResolveNode(defs, Part(b, p)).errors
      BY <2>4, ErrorsOfParts
    <3>2. Part(b, p) \in NodeCalls /\ Rank(Part(b, p)) < Rank(b)
      BY <2>4, <3>1, CallsBelow
    <3>3. PointsTo(Part(b, p).node) \subseteq R
      BY <2>4, <3>1, PartsPointTo
    <3> QED
      BY <1>1, <3>1, <3>2, <3>3
  <2>5. CASE b.node.kind \in {"all", "any"}
    <3>1. PICK i \in DOMAIN b.node.branches :
            "unresolvable" \in ResolveNode(defs, Branch(b, i)).errors
      BY <2>5, ErrorsOfParts
    <3>2. Branch(b, i) \in NodeCalls /\ Rank(Branch(b, i)) < Rank(b)
      BY <2>5, <3>1, CallsBelow
    <3>3. PointsTo(Branch(b, i).node) \subseteq R
      BY <2>5, <3>1, PartsPointTo
    <3> QED
      BY <1>1, <3>1, <3>2, <3>3
  <2> QED
    BY <2>1, <2>2, <2>3, <2>4, <2>5, NodeFacts DEF Bare
<1> HIDE DEF T
<1>2. NodeCalls \subseteq T
  BY <1>1, RankInduction
<1> QED
  BY <1>2 DEF T

\* The result is what resolve_refs returns for the schema.
RefInv ==
  /\ schema \in [root : Roots, defs : [Definitions -> Bodies]]
  /\ result = Pending \/ result = ResolveRefs(schema.root, schema.defs)

\* resolve_refs returns once, and the result stays.
LEMMA RefInvariant == RSpec => []RefInv
<1>1. RInit => RefInv
  BY DEF RInit, RefInv
<1>2. RefInv /\ [RNext]_rvars => RefInv'
  BY DEF RefInv, RNext, ResolveSchema, rvars
<1> QED
  BY <1>1, <1>2, PTL DEF RSpec

\* For every set of schemas and definitions, of any size and nesting, and every
\* limit: resolve_refs refuses a schema exactly if a pointer to nothing or one
\* too deep is met in it.  The set of names being visited refuses nothing that
\* the limit would let pass, and misses no cycle.
THEOREM RefusedForCause == RSpec => []RefusedExactly
<1>1. RefInv => RefusedExactly
  <2> SUFFICES ASSUME RefInv, Done
               PROVE  /\ Ok <=> Fits(schema.root, schema.defs)
                      /\ "circular" \in result.errors => Cyclic(schema.defs)
                      /\ "unresolvable" \in result.errors =>
                           Reaches(Dangling, schema.root, schema.defs)
    BY DEF RefusedExactly
  <2> DEFINE root == schema.root
             defs == schema.defs
  <2>1. root \in Roots /\ defs \in [Definitions -> Bodies]
    BY DEF RefInv
  <2>2. result = ResolveRefs(root, defs)
    BY DEF RefInv, Done
  <2> HIDE DEF root, defs
  <2>3. \A e : e \in result.errors <=>
          \E n \in Starts(root, defs) : e \in ResolveNode(defs, NodeCall(n, 0, {})).errors
    BY <2>2 DEF ResolveRefs
  <2>4. Ok <=> \A n \in Starts(root, defs) : Resolved(defs, NodeCall(n, 0, {}))
    BY <2>3 DEF Ok, Resolved
  <2>5. Ok <=> Fits(root, defs)
    BY <2>1, <2>4, ResolvedFits, FitsResolved
  <2>6. ASSUME "circular" \in result.errors PROVE Cyclic(defs)
    <3>1. PICK n \in Starts(root, defs) : "circular" \in ResolveNode(defs, NodeCall(n, 0, {})).errors
      BY <2>3, <2>6
    <3>2. NodeCall(n, 0, {}) \in NodeCalls /\ NodeCall(n, 0, {}).visiting = {}
      BY <2>1, StartFacts
    <3>3. OnTheWay(defs, NodeCall(n, 0, {}))
      BY <3>2 DEF OnTheWay
    <3> QED
      BY <2>1, <3>1, <3>2, <3>3, CircularIsCyclic
  <2>7. ASSUME "unresolvable" \in result.errors PROVE Reaches(Dangling, root, defs)
    <3> SUFFICES ASSUME NEW R \in SUBSET (DOMAIN defs \cup {Dangling}),
                        \A n \in Starts(root, defs) \cup {defs[e] : e \in R \cap DOMAIN defs} :
                          PointsTo(n) \subseteq R
                 PROVE  Dangling \in R
      BY DEF Reaches
    <3>1. PICK n \in Starts(root, defs) :
            "unresolvable" \in ResolveNode(defs, NodeCall(n, 0, {})).errors
      BY <2>3, <2>7
    <3>2. NodeCall(n, 0, {}) \in NodeCalls /\ NodeCall(n, 0, {}).node = n
      BY <2>1, StartFacts
    <3>3. PointsTo(NodeCall(n, 0, {}).node) \subseteq R
      BY <3>2
    <3>4. \A e \in R \cap Definitions : PointsTo(defs[e]) \subseteq R
      BY <2>1
    <3> QED
      BY <2>1, <3>1, <3>2, <3>3, <3>4, UnresolvableIsReached
  <2> QED
    BY <2>5, <2>6, <2>7 DEF root, defs
<1> QED
  BY <1>1, RefInvariant, PTL

-----------------------------------------------------------------------------
(* What a schema means.                                                    *)

\* The body of Meaning, with g for the recursion.
MeaningStep(defs, g, c) ==
  LET node == c.node
      below(n) == g[NodeCall(n, c.depth + 1, {})]
      beside == {below(n) : n \in node.beside}
  IN  CASE node.kind \in Bare -> Means(WithAll({}), {}, FALSE)
        [] node.kind = "ref" ->
             IF c.depth >= MaxDepth \/ node.to \notin DOMAIN defs THEN Unknown
             ELSE MeaningOfRef(below(defs[node.to]), beside)
        [] node.kind = "object" -> Means(WithAll(node.required), DOMAIN node.props, FALSE)
        [] OTHER ->
             MeaningOfComposed(node, [i \in DOMAIN node.branches |-> below(node.branches[i])], beside)

IsMeaning(defs, g) == g = [c \in NodeCalls |-> MeaningStep(defs, g, c)]

\* What a node means depends on what is below it only.
LEMMA MeaningLooksDown ==
  ASSUME NEW defs \in [Definitions -> Bodies], NEW c \in NodeCalls, NEW g, NEW h,
         \A d \in NodeCalls : Rank(d) < Rank(c) => g[d] = h[d]
  PROVE  MeaningStep(defs, g, c) = MeaningStep(defs, h, c)
<1>1. c.node \in Nodes /\ c.depth \in Nat /\ c.depth + 1 \in Nat /\ {} \in SUBSET Definitions
  BY DEF NodeCalls
<1> DEFINE below(k, n) == k[NodeCall(n, c.depth + 1, {})]
           beside(k) == {below(k, n) : n \in c.node.beside}
<1>2. CASE c.node.kind \in {"leaf", "array", "object"}
  BY <1>2 DEF MeaningStep, Bare
<1>a. ASSUME NEW n \in Nodes, Height[n] < Height[c.node] PROVE below(g, n) = below(h, n)
  <2>1. Rank(NodeCall(n, c.depth + 1, {})) < Rank(c) /\ NodeCall(n, c.depth + 1, {}) \in NodeCalls
    BY <1>1, <1>a, RankFalls, CallFacts
  <2> QED
    BY <2>1
<1>b. c.node.kind \in {"ref", "all", "any"} => beside(g) = beside(h)
  <2> SUFFICES ASSUME c.node.kind \in {"ref", "all", "any"} PROVE beside(g) = beside(h)
    OBVIOUS
  <2>1. \A n \in c.node.beside : n \in Nodes /\ Height[n] < Height[c.node]
    BY <1>1, NodeFacts
  <2>2. \A n \in c.node.beside : below(g, n) = below(h, n)
    BY <1>a, <2>1
  <2> HIDE DEF below
  <2> QED
    BY <2>2
<1>3. CASE c.node.kind = "ref"
  <2>1. CASE ~ (c.depth >= MaxDepth) /\ c.node.to \in DOMAIN defs
    <3> DEFINE n == defs[c.node.to]
    <3>1. n \in Nodes /\ c.depth < MaxDepth
      BY <1>1, <2>1, RefAssumption
    <3>2. \A k : MeaningStep(defs, k, c) = MeaningOfRef(below(k, n), beside(k))
      BY <1>3, <2>1 DEF MeaningStep, Bare
    <3> HIDE DEF n, beside
    <3>3. Rank(NodeCall(n, c.depth + 1, {})) < Rank(c) /\ NodeCall(n, c.depth + 1, {}) \in NodeCalls
      BY <1>1, <3>1, RankFalls, CallFacts
    <3>4. below(g, n) = below(h, n)
      BY <3>3
    <3> HIDE DEF below
    <3> QED
      BY <1>3, <1>b, <3>2, <3>4
  <2>2. CASE ~ (~ (c.depth >= MaxDepth) /\ c.node.to \in DOMAIN defs)
    BY <1>3, <2>2 DEF MeaningStep, Bare
  <2> QED
    BY <2>1, <2>2
<1>4. CASE c.node.kind \in {"all", "any"}
  <2> DEFINE branches(k) == [i \in DOMAIN c.node.branches |-> below(k, c.node.branches[i])]
  <2>1. \A i \in DOMAIN c.node.branches : below(g, c.node.branches[i]) = below(h, c.node.branches[i])
    BY <1>1, <1>4, <1>a, NodeFacts
  <2>2. \A k : MeaningStep(defs, k, c) = MeaningOfComposed(c.node, branches(k), beside(k))
    BY <1>4 DEF MeaningStep, Bare
  <2> HIDE DEF below, beside
  <2>3. branches(g) = branches(h)
    BY <2>1
  <2> HIDE DEF branches
  <2> QED
    BY <1>4, <1>b, <2>2, <2>3
<1> QED
  BY <1>1, <1>2, <1>3, <1>4, NodeFacts

\* So there is a function that Meaning defines.
LEMMA MeaningEnds ==
  ASSUME NEW defs \in [Definitions -> Bodies]
  PROVE  \E g : IsMeaning(defs, g)
<1> DEFINE Upto(g, k) == \A c \in NodeCalls : Rank(c) < k => g[c] = MeaningStep(defs, g, c)
           T == {k \in 0 .. (MaxRank + 1) : \E g : Upto(g, k)}
<1>1. /\ MaxRank \in Nat /\ MaxRank + 1 \in Nat
      /\ \A c \in NodeCalls : Rank(c) \in Nat /\ Rank(c) < MaxRank + 1
  <2>1. MaxRank \in Nat
    BY RefAssumption, RankOrder, Nesting \in 0 .. Nesting DEF MaxRank
  <2> QED
    BY <2>1, RankBound
<1>2. 0 \in T
  <2>1. Upto(0, 0)
    BY <1>1
  <2>2. 0 \in 0 .. (MaxRank + 1)
    BY <1>1
  <2> QED
    BY <2>1, <2>2
<1>3. ASSUME NEW k \in 0 .. MaxRank, k \in T PROVE k + 1 \in T
  <2>1. PICK g : Upto(g, k)
    BY <1>3
  <2> DEFINE h == [c \in NodeCalls |-> MeaningStep(defs, g, c)]
  <2>2. ASSUME NEW c \in NodeCalls, Rank(c) < k + 1 PROVE h[c] = MeaningStep(defs, h, c)
    <3>1. ASSUME NEW d \in NodeCalls, Rank(d) < Rank(c) PROVE g[d] = h[d]
      <4>1. Rank(d) < k
        BY <1>1, <2>2, <3>1
      <4> QED
        BY <2>1, <4>1
    <3> HIDE DEF h
    <3>2. MeaningStep(defs, g, c) = MeaningStep(defs, h, c)
      BY <3>1, MeaningLooksDown
    <3> QED
      BY <3>2 DEF h
  <2> HIDE DEF h
  <2>3. Upto(h, k + 1)
    BY <2>2
  <2>4. k + 1 \in 0 .. (MaxRank + 1)
    BY <1>1
  <2> QED
    BY <2>3, <2>4
<1> HIDE DEF T
<1>4. 0 .. (MaxRank + 1) \subseteq T
  <2>1. \A k \in 0 .. ((MaxRank + 1) - 1) : k \in T => k + 1 \in T
    BY <1>1, <1>3
  <2> QED
    BY <1>1, <1>2, <2>1, Induction
<1>5. PICK g : Upto(g, MaxRank + 1)
  BY <1>1, <1>4 DEF T
<1> DEFINE h == [c \in NodeCalls |-> MeaningStep(defs, g, c)]
<1>6. \A c \in NodeCalls : g[c] = h[c]
  BY <1>1, <1>5
<1>7. ASSUME NEW c \in NodeCalls PROVE h[c] = MeaningStep(defs, h, c)
  <2>1. \A d \in NodeCalls : Rank(d) < Rank(c) => g[d] = h[d]
    BY <1>6
  <2> HIDE DEF h
  <2>2. MeaningStep(defs, g, c) = MeaningStep(defs, h, c)
    BY <2>1, MeaningLooksDown
  <2> QED
    BY <2>2 DEF h
<1>8. h = [c \in NodeCalls |-> MeaningStep(defs, h, c)]
  BY <1>7
<1> QED
  BY <1>8 DEF IsMeaning

\* What the node of a call means, where it is met.
MeaningAt(defs, c) == Meaning(defs, NodeCall(c.node, c.depth, {}))

\* What the call of a node of each kind means.
LEMMA MeaningFacts ==
  ASSUME NEW defs \in [Definitions -> Bodies], NEW c \in NodeCalls
  PROVE  LET node == c.node
             m == MeaningAt(defs, c)
             target == MeaningAt(defs, Target(defs, c))
             Asked(S) == /\ S \in SUBSET PropertyNames /\ node.required \subseteq S
                         /\ node.kind = "all" => \A i \in DOMAIN node.branches :
                                                   S \in MeaningAt(defs, Branch(c, i)).accepts
                         /\ node.kind = "any" => \E i \in DOMAIN node.branches :
                                                   S \in MeaningAt(defs, Branch(c, i)).accepts
         IN
         /\ node.kind \in Bare =>
              m.accepts = SUBSET PropertyNames /\ m.declares = {} /\ ~ m.choice
         /\ node.kind = "ref" /\ Followed(defs, c) =>
              /\ m.accepts \subseteq target.accepts /\ m.declares = target.declares
              /\ ~ m.choice => ~ target.choice /\ target.accepts \subseteq m.accepts
         /\ node.kind = "object" =>
              /\ \A S : S \in m.accepts <=> S \in SUBSET PropertyNames /\ node.required \subseteq S
              /\ m.declares = DOMAIN node.props /\ ~ m.choice
         /\ node.kind \in {"all", "any"} =>
              /\ \A S : S \in m.accepts => Asked(S)
              /\ \A S : ~ m.choice /\ Asked(S) => S \in m.accepts
              /\ \A p : p \in m.declares <=>
                   \/ p \in DOMAIN node.props
                   \/ \E i \in DOMAIN node.branches : p \in MeaningAt(defs, Branch(c, i)).declares
              /\ ~ m.choice => /\ node.kind = "all"
                               /\ \A i \in DOMAIN node.branches : ~ MeaningAt(defs, Branch(c, i)).choice
<1> DEFINE g == CHOOSE f : IsMeaning(defs, f)
<1>1. \A d : Meaning(defs, d) = g[d]
  BY DEF Meaning, IsMeaning, MeaningStep
<1>2. IsMeaning(defs, g)
  BY MeaningEnds
<1> HIDE DEF g
<1> DEFINE node == c.node
           b == NodeCall(node, c.depth, {})
           m == MeaningAt(defs, c)
           target == MeaningAt(defs, Target(defs, c))
           Asked(S) == /\ S \in SUBSET PropertyNames /\ node.required \subseteq S
                       /\ node.kind = "all" => \A i \in DOMAIN node.branches :
                                                 S \in MeaningAt(defs, Branch(c, i)).accepts
                       /\ node.kind = "any" => \E i \in DOMAIN node.branches :
                                                 S \in MeaningAt(defs, Branch(c, i)).accepts
           beside == {g[NodeCall(n, c.depth + 1, {})] : n \in node.beside}
<1>3. node \in Nodes /\ c.depth \in Nat
  BY DEF NodeCalls
<1>4. b \in NodeCalls /\ b.node = node /\ b.depth = c.depth
  BY <1>3, CallFacts
<1>5. m = MeaningStep(defs, g, b)
  BY <1>1, <1>2, <1>4 DEF IsMeaning, MeaningAt
<1> HIDE DEF b, m, target
<1>6. CASE node.kind \in Bare
  <2>1. m = Means(WithAll({}), {}, FALSE)
    BY <1>4, <1>5, <1>6 DEF MeaningStep, Bare
  <2>2. m.accepts = SUBSET PropertyNames /\ m.declares = {} /\ ~ m.choice
    BY <2>1 DEF Means, WithAll
  <2> QED
    BY <1>6, <2>2 DEF m, Bare
<1>7. CASE node.kind = "ref"
  <2> SUFFICES ASSUME Followed(defs, c)
               PROVE  /\ m.accepts \subseteq target.accepts /\ m.declares = target.declares
                      /\ ~ m.choice => ~ target.choice /\ target.accepts \subseteq m.accepts
    BY <1>7 DEF m, target, Bare
  <2>1. m = MeaningOfRef(g[NodeCall(defs[node.to], c.depth + 1, {})], beside)
    <3>1. ~ (b.depth >= MaxDepth) /\ b.node.to \in DOMAIN defs
      BY <1>3, <1>4, RefAssumption DEF Followed
    <3>2. MeaningStep(defs, g, b) =
            MeaningOfRef(g[NodeCall(defs[b.node.to], b.depth + 1, {})],
                         {g[NodeCall(n, b.depth + 1, {})] : n \in b.node.beside})
      BY <1>4, <1>7, <3>1 DEF MeaningStep, Bare
    <3> QED
      BY <1>4, <1>5, <3>2
  <2>2. target = g[NodeCall(defs[node.to], c.depth + 1, {})]
    BY <1>1 DEF MeaningAt, Target, NodeCall, target
  <2> HIDE DEF beside
  <2>3. m = MeaningOfRef(target, beside)
    BY <2>1, <2>2
  <2>4. /\ m.accepts = {S \in target.accepts : \A n \in beside : S \in n.accepts}
        /\ m.declares = target.declares
        /\ m.choice <=> (target.choice \/ beside # {})
    BY <2>3 DEF MeaningOfRef, Means
  <2> QED
    BY <2>4
<1>8. CASE node.kind = "object"
  <2>1. m = Means(WithAll(node.required), DOMAIN node.props, FALSE)
    BY <1>4, <1>5, <1>8 DEF MeaningStep, Bare
  <2>2. /\ \A S : S \in m.accepts <=> S \in SUBSET PropertyNames /\ node.required \subseteq S
        /\ m.declares = DOMAIN node.props /\ ~ m.choice
    BY <2>1 DEF Means, WithAll
  <2> QED
    BY <1>8, <2>2 DEF m, Bare
<1>9. CASE node.kind \in {"all", "any"}
  <2> DEFINE bs == [i \in DOMAIN node.branches |-> g[NodeCall(node.branches[i], c.depth + 1, {})]]
  <2>1. m = MeaningOfComposed(node, bs, beside)
    BY <1>4, <1>5, <1>9 DEF MeaningStep, Bare
  <2>2. ASSUME NEW i \in DOMAIN node.branches PROVE bs[i] = MeaningAt(defs, Branch(c, i))
    BY <1>1 DEF MeaningAt, Branch, NodeCall
  <2>3. DOMAIN bs = DOMAIN node.branches
    OBVIOUS
  <2> HIDE DEF bs, beside
  <2>4. /\ m.accepts = {S \in WithAll(node.required) :
                          /\ IF node.kind = "all" THEN \A i \in DOMAIN bs : S \in bs[i].accepts
                                                  ELSE \E i \in DOMAIN bs : S \in bs[i].accepts
                          /\ beside # {} => \E n \in beside : S \in n.accepts}
        /\ m.declares = DOMAIN node.props \cup UNION {bs[i].declares : i \in DOMAIN bs}
        /\ m.choice <=> (node.kind = "any" \/ beside # {} \/ \E i \in DOMAIN bs : bs[i].choice)
    BY <2>1 DEF MeaningOfComposed, Means
  <2>5. \A S : S \in m.accepts => Asked(S)
    BY <1>9, <2>2, <2>3, <2>4 DEF WithAll
  <2>6. \A S : ~ m.choice /\ Asked(S) => S \in m.accepts
    BY <1>9, <2>2, <2>3, <2>4 DEF WithAll
  <2>7. \A p : p \in m.declares <=>
          \/ p \in DOMAIN node.props
          \/ \E i \in DOMAIN node.branches : p \in MeaningAt(defs, Branch(c, i)).declares
    BY <2>2, <2>3, <2>4
  <2>8. ~ m.choice => /\ node.kind = "all"
                      /\ \A i \in DOMAIN node.branches : ~ MeaningAt(defs, Branch(c, i)).choice
    BY <1>9, <2>2, <2>3, <2>4
  <2> QED
    BY <1>9, <2>5, <2>6, <2>7, <2>8 DEF m, Bare
<1> QED
  BY <1>3, <1>6, <1>7, <1>8, <1>9, NodeFacts DEF Bare

-----------------------------------------------------------------------------
(* What the merge keeps.                                                   *)

\* The last branch that has a property wins: there is one.
LEMMA LastBranch ==
  ASSUME NEW S, NEW bs \in Seq(S), NEW p,
         \E i \in DOMAIN bs : p \in DOMAIN PropsOf(bs[i])
  PROVE  \E i \in DOMAIN bs :
           /\ p \in DOMAIN PropsOf(bs[i])
           /\ \A j \in i + 1 .. Len(bs) : p \notin DOMAIN PropsOf(bs[j])
<1>1. PICK n \in Nat : n = Len(bs) /\ DOMAIN bs = 1 .. n
  BY LenProperties
<1> DEFINE With == {i \in 1 .. n : p \in DOMAIN PropsOf(bs[i])}
           Back == {n - i : i \in With}
<1>2. Back \subseteq Nat /\ Back # {}
  BY <1>1
<1> HIDE DEF Back
<1>3. PICK m \in Back : \A k \in Back : m <= k
  BY <1>2, LeastNumber
<1>4. PICK i \in With : m = n - i
  BY <1>3 DEF Back
<1>5. ASSUME NEW j \in i + 1 .. n, p \in DOMAIN PropsOf(bs[j]) PROVE FALSE
  <2>1. j \in With
    BY <1>4, <1>5
  <2>2. n - j \in Back
    BY <2>1 DEF Back
  <2>3. n - i <= n - j
    BY <1>3, <1>4, <2>2
  <2> QED
    BY <1>1, <1>4, <1>5, <2>3
<1> QED
  BY <1>1, <1>4, <1>5

\* The merged properties are those of the branches, each as one of them has it.
LEMMA LastWinsFacts ==
  ASSUME NEW S, NEW bs \in Seq(S)
  PROVE  /\ \A p : p \in DOMAIN LastWins(bs) <=> \E i \in DOMAIN bs : p \in DOMAIN PropsOf(bs[i])
         /\ \A p \in DOMAIN LastWins(bs) : \E i \in DOMAIN bs :
              p \in DOMAIN PropsOf(bs[i]) /\ LastWins(bs)[p] = PropsOf(bs[i])[p]
<1>1. DOMAIN LastWins(bs) = UNION {DOMAIN PropsOf(bs[i]) : i \in DOMAIN bs}
  BY DEF LastWins
<1>2. ASSUME NEW p \in DOMAIN LastWins(bs)
      PROVE  \E i \in DOMAIN bs : p \in DOMAIN PropsOf(bs[i]) /\ LastWins(bs)[p] = PropsOf(bs[i])[p]
  <2> DEFINE last == CHOOSE i \in DOMAIN bs :
                       /\ p \in DOMAIN PropsOf(bs[i])
                       /\ \A j \in i + 1 .. Len(bs) : p \notin DOMAIN PropsOf(bs[j])
  <2>1. \E i \in DOMAIN bs : p \in DOMAIN PropsOf(bs[i])
    BY <1>1
  <2>2. last \in DOMAIN bs /\ p \in DOMAIN PropsOf(bs[last])
    BY <2>1, LastBranch
  <2>3. LastWins(bs)[p] = PropsOf(bs[last])[p]
    BY <1>1 DEF LastWins
  <2> HIDE DEF last
  <2> QED
    BY <2>2, <2>3
<1> QED
  BY <1>1, <1>2

\* r has the properties of the parts and the node's own, and nothing else.
HasPropertiesOf(node, parts, r) ==
  /\ \A p : p \in DOMAIN PropsOf(r) <=>
       p \in DOMAIN node.props \/ \E i \in DOMAIN parts : p \in DOMAIN PropsOf(parts[i])
  /\ \A p \in DOMAIN PropsOf(r) :
       \/ p \in DOMAIN node.props /\ PropsOf(r)[p] = node.props[p]
       \/ \E i \in DOMAIN parts :
            p \in DOMAIN PropsOf(parts[i]) /\ PropsOf(r)[p] = PropsOf(parts[i])[p]

\* What merge_allof and merge_anyof make: an object that requires no more and no
\* less, with the properties of the branches and the node's own.
MergedFrom(node, parts, r) ==
  /\ r.kind = "object" /\ HasPropertiesOf(node, parts, r) /\ r.beside = node.beside
  /\ node.required \subseteq RequiredOf(r)
  /\ node.kind = "all" => \A p : p \in RequiredOf(r) <=>
       p \in node.required \/ \E i \in DOMAIN parts : p \in RequiredOf(parts[i])
  /\ node.kind = "any" => \A p \in RequiredOf(r) :
       p \in node.required \/ (p \in PropertyNames /\ \A i \in DOMAIN parts : p \in RequiredOf(parts[i]))

\* The result of either merge, with the properties of the node itself.
LEMMA FilledObject ==
  ASSUME NEW S, NEW parts \in Seq(S), NEW node, NEW required
  PROVE  /\ MergedObject(node, parts, required).kind = "object"
         /\ RequiredOf(MergedObject(node, parts, required)) = required
         /\ MergedObject(node, parts, required).beside = node.beside
         /\ HasPropertiesOf(node, parts, MergedObject(node, parts, required))
<1> DEFINE won == LastWins(parts)
           filled == FilledIn(won, node.props)
           r == MergedObject(node, parts, required)
<1>1. r.kind = "object" /\ RequiredOf(r) = required /\ PropsOf(r) = filled /\ r.beside = node.beside
  BY DEF MergedObject, ObjectWith, RequiredOf, PropsOf, Bare
<1>2. /\ \A p : p \in DOMAIN won <=> \E i \in DOMAIN parts : p \in DOMAIN PropsOf(parts[i])
      /\ \A p \in DOMAIN won : \E i \in DOMAIN parts :
           p \in DOMAIN PropsOf(parts[i]) /\ won[p] = PropsOf(parts[i])[p]
  BY LastWinsFacts
<1> HIDE DEF won
<1>3. /\ DOMAIN filled = DOMAIN won \cup DOMAIN node.props
      /\ \A p \in DOMAIN filled : filled[p] = IF p \in DOMAIN won THEN won[p] ELSE node.props[p]
  BY DEF FilledIn
<1> HIDE DEF filled
<1>4. \A p : p \in DOMAIN filled <=>
        p \in DOMAIN node.props \/ \E i \in DOMAIN parts : p \in DOMAIN PropsOf(parts[i])
  BY <1>2, <1>3
<1>5. ASSUME NEW p \in DOMAIN filled
      PROVE  \/ p \in DOMAIN node.props /\ filled[p] = node.props[p]
             \/ \E i \in DOMAIN parts :
                  p \in DOMAIN PropsOf(parts[i]) /\ filled[p] = PropsOf(parts[i])[p]
  BY <1>2, <1>3
<1> HIDE DEF r
<1>6. HasPropertiesOf(node, parts, r)
  BY <1>1, <1>4, <1>5 DEF HasPropertiesOf
<1> QED
  BY <1>1, <1>6 DEF r

\* merge_allof requires what the node or a branch requires; merge_anyof what the
\* node or all branches require.
LEMMA MergeFacts ==
  ASSUME NEW S, NEW parts \in Seq(S), NEW node, NEW r,
         \/ node.kind = "all" /\ r = MergeAllOf(node, parts)
         \/ node.kind = "any" /\ r = MergeAnyOf(node, parts)
  PROVE  MergedFrom(node, parts, r)
<1> DEFINE ofAll == node.required \cup UNION {RequiredOf(parts[i]) : i \in DOMAIN parts}
           ofAny == node.required \cup (IF parts = <<>> THEN {} ELSE RequiredByAll(parts))
           required == IF node.kind = "all" THEN ofAll ELSE ofAny
<1>1. r = MergedObject(node, parts, required)
  BY DEF MergeAllOf, MergeAnyOf
<1>2. /\ node.required \subseteq required
      /\ node.kind = "all" => \A p : p \in required <=>
           p \in node.required \/ \E i \in DOMAIN parts : p \in RequiredOf(parts[i])
      /\ node.kind = "any" => \A p \in required :
           p \in node.required \/ (p \in PropertyNames /\ \A i \in DOMAIN parts : p \in RequiredOf(parts[i]))
  <2>1. CASE node.kind = "all"
    BY <2>1
  <2>2. CASE node.kind = "any"
    <3>1. required = ofAny
      BY <2>2
    <3>2. ASSUME NEW p \in ofAny, p \notin node.required
          PROVE  p \in PropertyNames /\ \A i \in DOMAIN parts : p \in RequiredOf(parts[i])
      <4>1. p \in RequiredByAll(parts)
        BY <3>2
      <4> QED
        BY <4>1 DEF RequiredByAll
    <3>3. node.required \subseteq ofAny
      OBVIOUS
    <3> HIDE DEF ofAny, required
    <3> QED
      BY <2>2, <3>1, <3>2, <3>3
  <2> QED
    BY <2>1, <2>2
<1> HIDE DEF required
<1>3. /\ r.kind = "object" /\ RequiredOf(r) = required /\ HasPropertiesOf(node, parts, r)
      /\ r.beside = node.beside
  BY <1>1, FilledObject
<1> QED
  BY <1>2, <1>3 DEF MergedFrom

\* The branches of a node, resolved, are a list.
LEMMA BranchList ==
  ASSUME NEW defs \in [Definitions -> Bodies], NEW c \in NodeCalls,
         c.node.kind \in {"all", "any"}, Resolved(defs, c)
  PROVE  \E parts : /\ \E S : parts \in Seq(S)
                    /\ DOMAIN parts = DOMAIN c.node.branches
                    /\ \A i \in DOMAIN parts : parts[i] = ResolveNode(defs, Branch(c, i)).node
                    /\ MergedFrom(c.node, parts, ResolveNode(defs, c).node)
<1> DEFINE parts == [i \in DOMAIN c.node.branches |-> ResolveNode(defs, Branch(c, i)).node]
           r == ResolveNode(defs, c).node
           S == {parts[i] : i \in DOMAIN parts}
<1>1. c.node.branches \in Seq(Nodes)
  BY CallsBelow, NodeFacts
<1>2. PICK n \in Nat : DOMAIN c.node.branches = 1 .. n
  BY <1>1, LenProperties
<1>3. parts \in [1 .. n -> S]
  BY <1>2
<1>4. parts \in Seq(S)
  <2> HIDE DEF parts, S
  <2>1. Seq(S) = UNION {[1 .. m -> S] : m \in Nat}
    BY SeqDef
  <2> QED
    BY <1>3, <2>1
<1>5. r = IF c.node.kind = "all" THEN MergeAllOf(c.node, parts) ELSE MergeAnyOf(c.node, parts)
  BY Resolution DEF Resolved
<1>6. DOMAIN parts = DOMAIN c.node.branches
      /\ \A i \in DOMAIN parts : parts[i] = ResolveNode(defs, Branch(c, i)).node
  OBVIOUS
<1> HIDE DEF S, parts, r
<1>7. \/ c.node.kind = "all" /\ r = MergeAllOf(c.node, parts)
      \/ c.node.kind = "any" /\ r = MergeAnyOf(c.node, parts)
  BY <1>5
<1>8. MergedFrom(c.node, parts, r)
  BY <1>4, <1>7, MergeFacts
<1> QED
  BY <1>4, <1>6, <1>8 DEF r

\* r asks what m does, or less where m leaves a choice, and declares the same.
Keeps(r, m) ==
  /\ r.kind \in {"leaf", "array", "object"}
  /\ \A S \in SUBSET PropertyNames :
       /\ S \in m.accepts => RequiredOf(r) \subseteq S
       /\ ~ m.choice => (RequiredOf(r) \subseteq S => S \in m.accepts)
  /\ DOMAIN PropsOf(r) = m.declares

\* By induction on the rank: what a node is resolved to keeps what it means.
LEMMA MeaningKept ==
  ASSUME NEW defs \in [Definitions -> Bodies], NEW c \in NodeCalls, Resolved(defs, c)
  PROVE  Keeps(ResolveNode(defs, c).node, MeaningAt(defs, c))
<1> DEFINE T == {b \in NodeCalls :
                   Resolved(defs, b) => Keeps(ResolveNode(defs, b).node, MeaningAt(defs, b))}
<1>1. ASSUME NEW b \in NodeCalls, \A d \in NodeCalls : Rank(d) < Rank(b) => d \in T PROVE b \in T
  <2> DEFINE r == ResolveNode(defs, b).node
             m == MeaningAt(defs, b)
  <2> SUFFICES ASSUME Resolved(defs, b) PROVE Keeps(r, m)
    OBVIOUS
  <2>1. b.node \in Nodes
    BY CallsBelow
  <2>2. CASE b.node.kind \in Bare
    <3>1. r = b.node
      BY <2>2, Resolution
    <3>2. m.accepts = SUBSET PropertyNames /\ m.declares = {} /\ ~ m.choice
      BY <2>2, MeaningFacts
    <3>3. r.kind \in Bare /\ RequiredOf(r) = {} /\ DOMAIN PropsOf(r) = {}
      BY <2>2, <3>1 DEF RequiredOf, PropsOf, NoProps
    <3> HIDE DEF r, m
    <3> QED
      BY <3>2, <3>3 DEF Keeps, Bare
  <2>3. CASE b.node.kind = "ref"
    <3>1. Followed(defs, b)
      BY <2>3, Resolution DEF Resolved
    <3>2. Target(defs, b) \in NodeCalls /\ Rank(Target(defs, b)) < Rank(b)
      BY <2>3, <3>1, CallsBelow
    <3>3. ResolveNode(defs, b) = ResolveNode(defs, Target(defs, b))
      BY <2>3, <3>1, Resolution
    <3> DEFINE target == MeaningAt(defs, Target(defs, b))
    <3>4. /\ m.accepts \subseteq target.accepts /\ m.declares = target.declares
          /\ ~ m.choice => ~ target.choice /\ target.accepts \subseteq m.accepts
      BY <2>3, <3>1, MeaningFacts
    <3>5. Resolved(defs, Target(defs, b))
      BY <3>3 DEF Resolved
    <3>6. Keeps(r, target)
      BY <1>1, <3>2, <3>3, <3>5
    <3> HIDE DEF r, m, target
    <3> QED
      BY <3>4, <3>6 DEF Keeps
  <2>4. CASE b.node.kind = "object"
    <3>1. r = Object([p \in DOMAIN b.node.props |-> ResolveNode(defs, Part(b, p)).node], b.node.required)
      BY <2>4, Resolution DEF Resolved
    <3>2. r.kind = "object" /\ RequiredOf(r) = b.node.required /\ DOMAIN PropsOf(r) = DOMAIN b.node.props
      BY <3>1 DEF Object, ObjectWith, RequiredOf, PropsOf, Bare
    <3>3. /\ \A S : S \in m.accepts <=> S \in SUBSET PropertyNames /\ b.node.required \subseteq S
          /\ m.declares = DOMAIN b.node.props /\ ~ m.choice
      BY <2>4, MeaningFacts
    <3> HIDE DEF r, m
    <3> QED
      BY <3>2, <3>3 DEF Keeps
  <2>5. CASE b.node.kind \in {"all", "any"}
    <3> DEFINE node == b.node
               B(i) == MeaningAt(defs, Branch(b, i))
    <3>1. PICK parts : /\ DOMAIN parts = DOMAIN node.branches
                       /\ \A i \in DOMAIN parts : parts[i] = ResolveNode(defs, Branch(b, i)).node
                       /\ MergedFrom(node, parts, r)
      BY <2>5, BranchList
    <3>2. ASSUME NEW i \in DOMAIN node.branches PROVE Keeps(parts[i], B(i))
      <4>1. Branch(b, i) \in NodeCalls /\ Rank(Branch(b, i)) < Rank(b)
        BY <2>5, CallsBelow
      <4>2. Resolved(defs, Branch(b, i))
        BY <2>5, ErrorsOfParts DEF Resolved
      <4> QED
        BY <1>1, <3>1, <4>1, <4>2
    <3> DEFINE Asked(S) == /\ S \in SUBSET PropertyNames /\ node.required \subseteq S
                           /\ node.kind = "all" => \A i \in DOMAIN node.branches : S \in B(i).accepts
                           /\ node.kind = "any" => \E i \in DOMAIN node.branches : S \in B(i).accepts
    <3>3. \A S : /\ S \in m.accepts => Asked(S)
                 /\ ~ m.choice /\ Asked(S) => S \in m.accepts
      BY <2>5, MeaningFacts
    <3>4. \A p : p \in m.declares <=>
            p \in DOMAIN node.props \/ \E i \in DOMAIN node.branches : p \in B(i).declares
      BY <2>5, MeaningFacts
    <3>5. ~ m.choice => node.kind = "all" /\ \A i \in DOMAIN node.branches : ~ B(i).choice
      BY <2>5, MeaningFacts
    <3> HIDE DEF r, m, B
    <3>6. ASSUME NEW S \in SUBSET PropertyNames, S \in m.accepts, NEW p \in RequiredOf(r)
          PROVE  p \in S
      <4> Asked(S)
        BY <3>3, <3>6
      <4>1. node.required \subseteq S
        OBVIOUS
      <4>2. CASE node.kind = "all"
        <5>1. p \in node.required \/ \E i \in DOMAIN parts : p \in RequiredOf(parts[i])
          BY <3>1, <3>6, <4>2 DEF MergedFrom
        <5>2. \A i \in DOMAIN node.branches : S \in B(i).accepts
          BY <4>2
        <5> QED
          BY <3>1, <3>2, <4>1, <5>1, <5>2 DEF Keeps
      <4>3. CASE node.kind = "any"
        <5>1. p \in node.required \/ \A i \in DOMAIN parts : p \in RequiredOf(parts[i])
          BY <3>1, <3>6, <4>3 DEF MergedFrom
        <5>2. PICK i \in DOMAIN node.branches : S \in B(i).accepts
          BY <4>3
        <5> QED
          BY <3>1, <3>2, <4>1, <5>1, <5>2 DEF Keeps
      <4> QED
        BY <2>5, <4>2, <4>3
    <3>7. ASSUME NEW S \in SUBSET PropertyNames, ~ m.choice, RequiredOf(r) \subseteq S
          PROVE  S \in m.accepts
      <4>1. node.kind = "all" /\ \A i \in DOMAIN node.branches : ~ B(i).choice
        BY <3>5, <3>7
      <4>2. node.required \subseteq S /\ \A i \in DOMAIN parts : RequiredOf(parts[i]) \subseteq S
        BY <3>1, <3>7, <4>1 DEF MergedFrom
      <4>3. \A i \in DOMAIN node.branches : S \in B(i).accepts
        BY <3>1, <3>2, <4>1, <4>2 DEF Keeps
      <4> QED
        BY <3>3, <3>7, <4>1, <4>2, <4>3
    <3>8. DOMAIN PropsOf(r) = m.declares
      <4>1. \A p : p \in DOMAIN PropsOf(r) <=>
              p \in DOMAIN node.props \/ \E i \in DOMAIN parts : p \in DOMAIN PropsOf(parts[i])
        BY <3>1 DEF MergedFrom, HasPropertiesOf
      <4>2. \A i \in DOMAIN parts : DOMAIN PropsOf(parts[i]) = B(i).declares
        BY <3>1, <3>2 DEF Keeps
      <4>3. \A p : p \in DOMAIN PropsOf(r) <=> p \in m.declares
        BY <3>1, <3>4, <4>1, <4>2
      <4> QED
        BY <4>3
    <3>9. r.kind = "object"
      BY <3>1 DEF MergedFrom
    <3> QED
      BY <3>6, <3>7, <3>8, <3>9 DEF Keeps
  <2> QED
    BY <2>1, <2>2, <2>3, <2>4, <2>5, NodeFacts DEF Bare
<1> HIDE DEF T
<1>2. NodeCalls \subseteq T
  BY <1>1, RankInduction
<1> QED
  BY <1>2 DEF T

\* Nothing but leaves and objects, however deep one looks.
AllClean(X) == \A n \in X : /\ n.kind \in {"leaf", "array", "object"}
                            /\ n.kind = "object" => \A p \in DOMAIN n.props : n.props[p] \in X
                            /\ n.kind \in {"array", "object"} => n.beside \subseteq X

IsClean(n) == \E X : AllClean(X) /\ n \in X

\* An object of clean properties, with nothing but clean schemas carried over, is clean.
LEMMA CleanObject ==
  ASSUME NEW n, n.kind = "object", \A p \in DOMAIN n.props : IsClean(n.props[p]),
         \A m \in n.beside : IsClean(m)
  PROVE  IsClean(n)
<1> DEFINE Of(m) == CHOOSE X : AllClean(X) /\ m \in X
           Held == {n.props[p] : p \in DOMAIN n.props} \cup n.beside
           X == {n} \cup UNION {Of(m) : m \in Held}
<1>1. \A m \in Held : AllClean(Of(m)) /\ m \in Of(m)
  BY DEF IsClean
<1> HIDE DEF Of
<1>2. ASSUME NEW m \in X
      PROVE  /\ m.kind \in {"leaf", "array", "object"}
             /\ m.kind = "object" => \A q \in DOMAIN m.props : m.props[q] \in X
             /\ m.kind \in {"array", "object"} => m.beside \subseteq X
  <2>1. CASE m = n
    BY <1>1, <2>1
  <2>2. CASE m # n
    <3>1. PICK h \in Held : m \in Of(h)
      BY <2>2
    <3>2. AllClean(Of(h)) /\ Of(h) \subseteq X
      BY <1>1
    <3> HIDE DEF X, Held
    <3> QED
      BY <3>1, <3>2 DEF AllClean
  <2> QED
    BY <2>1, <2>2
<1> HIDE DEF X
<1>3. AllClean(X)
  BY <1>2 DEF AllClean
<1>4. n \in X
  BY DEF X
<1> QED
  BY <1>3, <1>4 DEF IsClean

\* The properties of what is clean are clean.
LEMMA CleanProps ==
  ASSUME NEW n, IsClean(n), NEW p \in DOMAIN PropsOf(n)
  PROVE  IsClean(PropsOf(n)[p])
<1>1. PICK X : AllClean(X) /\ n \in X
  BY DEF IsClean
<1>2. n.kind = "object" /\ PropsOf(n) = n.props
  BY <1>1 DEF AllClean, PropsOf, NoProps, Bare
<1>3. n.props[p] \in X
  BY <1>1, <1>2 DEF AllClean
<1> QED
  BY <1>1, <1>2, <1>3 DEF IsClean

\* A schema that is plain already is clean.
LEMMA PlainIsClean ==
  ASSUME NEW n \in Nodes, Text(n).plain
  PROVE  IsClean(n)
<1> DEFINE X == {m \in Nodes : Text(m).plain}
<1>1. ASSUME NEW m \in X
      PROVE  /\ m.kind \in {"leaf", "array", "object"}
             /\ m.kind = "object" => \A p \in DOMAIN m.props : m.props[p] \in X
             /\ m.kind \in {"array", "object"} => m.beside \subseteq X
  <2>1. m.kind \in {"leaf", "array", "object"}
    BY TextFacts, NodeFacts
  <2>2. ASSUME m.kind = "object", NEW p \in DOMAIN m.props PROVE m.props[p] \in X
    <3>1. Text(m.props[p]).plain
      BY <2>2, TextFacts
    <3>2. m.props[p] \in Nodes
      BY <2>2, NodeFacts
    <3> QED
      BY <3>1, <3>2
  <2>3. ASSUME m.kind \in {"array", "object"}, NEW k \in m.beside PROVE k \in X
    <3>1. m.kind = "array" /\ k \in Nodes
      BY <2>3, NodeFacts
    <3>2. Text(k).plain
      BY <2>3, <3>1, TextFacts
    <3> QED
      BY <3>1, <3>2
  <2> QED
    BY <2>1, <2>2, <2>3
<1>2. n \in X
  OBVIOUS
<1> HIDE DEF X
<1>3. AllClean(X)
  BY <1>1 DEF AllClean
<1> QED
  BY <1>2, <1>3 DEF IsClean

\* By induction on the rank: what is resolved is clean, if what stands beside
\* compositions is plain.
LEMMA ResolvedIsClean ==
  ASSUME NEW defs \in [Definitions -> Bodies], \A d \in Definitions : Text(defs[d]).plainBeside,
         NEW c \in NodeCalls, Resolved(defs, c), Text(c.node).plainBeside
  PROVE  IsClean(ResolveNode(defs, c).node)
<1> DEFINE T == {b \in NodeCalls :
                   Resolved(defs, b) /\ Text(b.node).plainBeside => IsClean(ResolveNode(defs, b).node)}
<1>1. ASSUME NEW b \in NodeCalls, \A d \in NodeCalls : Rank(d) < Rank(b) => d \in T PROVE b \in T
  <2> DEFINE r == ResolveNode(defs, b).node
  <2> SUFFICES ASSUME Resolved(defs, b), Text(b.node).plainBeside PROVE IsClean(r)
    OBVIOUS
  <2>1. b.node \in Nodes
    BY CallsBelow
  <2>2. CASE b.node.kind \in Bare
    <3>1. r = b.node /\ Text(b.node).plain
      BY <2>1, <2>2, Resolution, TextFacts DEF Bare
    <3> QED
      BY <2>1, <3>1, PlainIsClean
  <2>3. CASE b.node.kind = "ref"
    <3>1. Followed(defs, b)
      BY <2>3, Resolution DEF Resolved
    <3>2. /\ Target(defs, b) \in NodeCalls /\ Rank(Target(defs, b)) < Rank(b)
          /\ ResolveNode(defs, b) = ResolveNode(defs, Target(defs, b))
      BY <2>3, <3>1, CallsBelow, Resolution
    <3>3. Text(Target(defs, b).node).plainBeside
      BY <3>1 DEF Target, NodeCall, Followed
    <3> QED
      BY <1>1, <3>2, <3>3 DEF Resolved
  <2>4. CASE b.node.kind = "object"
    <3> DEFINE props == [p \in DOMAIN b.node.props |-> ResolveNode(defs, Part(b, p)).node]
    <3>1. r = Object(props, b.node.required)
      BY <2>4, Resolution DEF Resolved
    <3>2. r.kind = "object" /\ r.props = props /\ r.beside = {}
      BY <3>1 DEF Object, ObjectWith
    <3>3. ASSUME NEW p \in DOMAIN b.node.props PROVE IsClean(props[p])
      <4>1. Part(b, p) \in NodeCalls /\ Rank(Part(b, p)) < Rank(b) /\ Part(b, p).node = b.node.props[p]
        BY <2>4, CallsBelow, PartPointers
      <4>2. Resolved(defs, Part(b, p))
        BY <2>4, ErrorsOfParts DEF Resolved
      <4>3. Text(b.node.props[p]).plainBeside
        BY <2>1, <2>4, TextFacts
      <4> QED
        BY <1>1, <4>1, <4>2, <4>3
    <3>4. DOMAIN props = DOMAIN b.node.props
      OBVIOUS
    <3> HIDE DEF r, props
    <3> QED
      BY <3>2, <3>3, <3>4, CleanObject
  <2>5. CASE b.node.kind \in {"all", "any"}
    <3>1. PICK parts : /\ DOMAIN parts = DOMAIN b.node.branches
                       /\ \A i \in DOMAIN parts : parts[i] = ResolveNode(defs, Branch(b, i)).node
                       /\ MergedFrom(b.node, parts, r)
      BY <2>5, BranchList
    <3>2. /\ \A p \in DOMAIN b.node.props : Text(b.node.props[p]).plain
          /\ \A i \in DOMAIN b.node.branches : Text(b.node.branches[i]).plainBeside
          /\ \A n \in b.node.beside : Text(n).plain
      BY <2>1, <2>5, TextFacts
    <3>3. ASSUME NEW i \in DOMAIN parts PROVE IsClean(parts[i])
      <4>1. /\ Branch(b, i) \in NodeCalls /\ Rank(Branch(b, i)) < Rank(b)
            /\ Branch(b, i).node = b.node.branches[i]
        BY <2>5, <3>1, CallsBelow, PartPointers
      <4>2. Resolved(defs, Branch(b, i))
        BY <2>5, <3>1, ErrorsOfParts DEF Resolved
      <4> QED
        BY <1>1, <3>1, <3>2, <4>1, <4>2
    <3>4. ASSUME NEW p \in DOMAIN b.node.props PROVE IsClean(b.node.props[p])
      <4>1. b.node.props[p] \in Nodes
        BY <2>1, <2>5, NodeFacts
      <4> QED
        BY <3>2, <4>1, PlainIsClean
    <3> HIDE DEF r
    <3>5. r.kind = "object" /\ PropsOf(r) = r.props /\ r.beside = b.node.beside
      BY <3>1 DEF MergedFrom, PropsOf, Bare
    <3>6. ASSUME NEW p \in DOMAIN r.props PROVE IsClean(r.props[p])
      <4>1. \/ p \in DOMAIN b.node.props /\ r.props[p] = b.node.props[p]
            \/ \E i \in DOMAIN parts :
                 p \in DOMAIN PropsOf(parts[i]) /\ r.props[p] = PropsOf(parts[i])[p]
        BY <3>1, <3>5 DEF MergedFrom, HasPropertiesOf
      <4>2. CASE p \in DOMAIN b.node.props /\ r.props[p] = b.node.props[p]
        BY <3>4, <4>2
      <4>3. ASSUME NEW i \in DOMAIN parts,
                   p \in DOMAIN PropsOf(parts[i]), r.props[p] = PropsOf(parts[i])[p]
            PROVE  IsClean(r.props[p])
        BY <3>3, <4>3, CleanProps
      <4> QED
        BY <4>1, <4>2, <4>3
    <3>7. ASSUME NEW n \in r.beside PROVE IsClean(n)
      <4>1. n \in Nodes
        BY <2>1, <2>5, <3>5, NodeFacts
      <4> QED
        BY <3>2, <3>5, <4>1, PlainIsClean
    <3> QED
      BY <3>5, <3>6, <3>7, CleanObject
  <2> QED
    BY <2>1, <2>2, <2>3, <2>4, <2>5, NodeFacts DEF Bare
<1> HIDE DEF T
<1>2. NodeCalls \subseteq T
  BY <1>1, RankInduction
<1> QED
  BY <1>2 DEF T

\* f holds what is in the node, level by level.
Levels(node, k, f) == f = [j \in 0 .. k |-> IF j = 0 THEN {node} ELSE WithParts(f[j - 1])]

\* In what is clean, all parts at all levels are leaves and objects.
LEMMA CleanAllTheWay ==
  ASSUME NEW node, IsClean(node), NEW k \in Nat
  PROVE  \A n \in PartsWithin(node, k) : n.kind \in {"leaf", "object", "array"}
<1>1. PICK X : AllClean(X) /\ node \in X
  BY DEF IsClean
<1>2. ASSUME NEW S \in SUBSET X PROVE WithParts(S) \in SUBSET X
  <2>1. ASSUME NEW n \in S, n.kind = "object" PROVE Range(n.props) \subseteq X
    BY <1>1, <2>1 DEF AllClean, Range
  <2>2. ASSUME NEW n \in S, n.kind \in {"object", "array"} PROVE n.beside \subseteq X
    BY <1>1, <2>2 DEF AllClean
  <2> QED
    BY <2>1, <2>2 DEF WithParts
<1> DEFINE F == [x \in (SUBSET X) \X (1 .. k) |-> WithParts(x[1])]
<1>3. F \in [(SUBSET X) \X (1 .. k) -> SUBSET X]
  BY <1>2
<1>4. {node} \in SUBSET X
  BY <1>1
<1> HIDE DEF F
<1>5. PICK g \in [0 .. k -> SUBSET X] : Iterates(g, {node}, F, k)
  BY <1>3, <1>4, Iteration
<1>6. \A j \in 0 .. k : g[j] = IF j = 0 THEN {node} ELSE WithParts(g[j - 1])
  <2> TAKE j \in 0 .. k
  <2>1. CASE j = 0
    BY <1>5, <2>1 DEF Iterates
  <2>2. CASE j # 0
    <3>1. j \in 1 .. k /\ j - 1 \in 0 .. k
      BY <2>2
    <3>2. g[j] = F[<<g[j - 1], j>>] /\ g[j - 1] \in SUBSET X
      BY <1>5, <3>1 DEF Iterates
    <3> QED
      BY <2>2, <3>1, <3>2 DEF F
  <2> QED
    BY <2>1, <2>2
<1>7. Levels(node, k, g)
  BY <1>5, <1>6 DEF Levels
<1> DEFINE f == CHOOSE h : Levels(node, k, h)
<1>8. Levels(node, k, f)
  BY <1>7
<1>9. PartsWithin(node, k) = f[k]
  BY DEF PartsWithin, Levels
<1> HIDE DEF f
<1>10. \A j \in 0 .. k : f[j] = IF j = 0 THEN {node} ELSE WithParts(f[j - 1])
  BY <1>8 DEF Levels
<1> DEFINE T == {j \in 0 .. k : f[j] \in SUBSET X}
<1>11. 0 \in T
  BY <1>4, <1>10
<1>12. ASSUME NEW j \in 0 .. (k - 1), j \in T PROVE j + 1 \in T
  <2>1. j + 1 \in 0 .. k /\ j + 1 # 0 /\ (j + 1) - 1 = j
    OBVIOUS
  <2>2. f[j + 1] = WithParts(f[j])
    BY <1>10, <2>1
  <2> QED
    BY <1>2, <1>12, <2>1, <2>2
<1> HIDE DEF T
<1>13. 0 .. k \subseteq T
  BY <1>11, <1>12, Induction
<1>14. f[k] \in SUBSET X
  BY <1>13 DEF T
<1> QED
  BY <1>1, <1>9, <1>14 DEF AllClean

\* For every set of schemas and definitions, and every limit: what resolve_refs
\* makes of a schema asks for no more than the schema does, and for no less if
\* there is neither a choice in it nor a second composition nor anything next to a
\* pointer; it has every property that is declared but in these two; and if
\* nothing that is carried over as it is has a pointer, none is left, however deep.
THEOREM MergeIsFaithful == RSpec => []MergeKeepsMeaning
<1>1. RefInv => MergeKeepsMeaning
  <2> DEFINE root == schema.root
             defs == schema.defs
             c == NodeCall(root, 0, {})
             m == Meaning(defs, c)
             r == result.node
             k == (MaxDepth + 1) * (Nesting + 1)
  <2> SUFFICES ASSUME RefInv, Ok
               PROVE  /\ \A S \in SUBSET PropertyNames :
                           /\ S \in m.accepts => RequiredOf(r) \subseteq S
                           /\ ~ m.choice => (RequiredOf(r) \subseteq S => S \in m.accepts)
                      /\ DOMAIN PropsOf(r) = m.declares
                      /\ (\A n \in {root} \cup Range(defs) : Text(n).plainBeside) =>
                           \A n \in PartsWithin(r, k) : n.kind \in {"leaf", "object", "array"}
    BY DEF MergeKeepsMeaning
  <2>1. root \in Roots /\ defs \in [Definitions -> Bodies]
    BY DEF RefInv
  <2>2. result = ResolveRefs(root, defs) /\ result.errors = {}
    BY DEF RefInv, Ok, Done
  <2>3. root \in Nodes /\ c \in NodeCalls /\ c.node = root /\ c.depth = 0 /\ root \in Starts(root, defs)
    BY <2>1, StartFacts
  <2> HIDE DEF root, defs, c
  <2>4. r = ResolveNode(defs, c).node
    BY <2>2 DEF ResolveRefs, c
  <2>5. Resolved(defs, c)
    <3>1. ResolveNode(defs, NodeCall(root, 0, {})).errors \subseteq result.errors
      BY <2>2, <2>3 DEF ResolveRefs
    <3> QED
      BY <2>2, <3>1 DEF Resolved, c
  <2>6. m = MeaningAt(defs, c)
    BY <2>3 DEF MeaningAt, c
  <2>7. Keeps(r, m)
    BY <2>1, <2>3, <2>4, <2>5, <2>6, MeaningKept
  <2>8. ASSUME \A n \in {root} \cup Range(defs) : Text(n).plainBeside
        PROVE  \A n \in PartsWithin(r, k) : n.kind \in {"leaf", "object", "array"}
    <3>1. \A d \in Definitions : Text(defs[d]).plainBeside
      BY <2>1, <2>8 DEF Range
    <3>2. IsClean(r)
      BY <2>1, <2>3, <2>4, <2>5, <2>8, <3>1, ResolvedIsClean
    <3>3. k \in Nat
      BY RefAssumption, Z3
    <3> HIDE DEF k
    <3> QED
      BY <3>2, <3>3, CleanAllTheWay
  <2> HIDE DEF r, m, k
  <2> QED
    BY <2>7, <2>8 DEF Keeps
<1> QED
  BY <1>1, RefInvariant, PTL
=============================================================================
