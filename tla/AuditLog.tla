------------------------------ MODULE AuditLog ------------------------------
(***************************************************************************)
(* ~/.apcore-cli/audit.jsonl: processes of the program append records to   *)
(* one file, and system_usage::compute_summary reads it back.              *)
(*                                                                         *)
(* AuditLogger::append opens the file with O_APPEND for every record and   *)
(* writes through a BufWriter.  A record that fits the buffer is handed to *)
(* the system in one write; a longer one (an access decision with many     *)
(* roles) in several.  A write may be short: the buffer then writes what   *)
(* is left of the bufferful, and another process may come in between.      *)
(* There is no lock.  A record is a run of units, the last one with the    *)
(* newline; `end` says how the write that put the unit there ended: after  *)
(* the whole bufferful, short of it at this unit, or even in the middle of *)
(* a multi-byte character of this unit.                                    *)
(***************************************************************************)
EXTENDS Integers, Sequences, FiniteSets

CONSTANTS
  Processes,  \* the processes that write
  Plans,      \* the sequences of records a process may have to write
  MaxFaults   \* bound on the errors, short writes and kills of a run

ASSUME AuditAssumption ==
  /\ MaxFaults \in Nat
  /\ \A s \in Plans : s \in Seq([kind : {"acl", "exec"}, long : BOOLEAN]) /\ Len(s) \in 0 .. 2

VARIABLES
  plan,     \* plan[p]: the records p has to write
  at,       \* at[p]: the number of the record p is at
  next,     \* next[p]: the first unit of that record still in the buffer
  pc,       \* pc[p]: "idle", "writing", "dropping" (after an error) or "gone"
  acked,    \* the records <<p, i>> whose append returned Ok
  faults,   \* the errors, short writes and kills so far
  file      \* the units in the file, in order

avars == <<plan, at, next, pc, acked, faults, file>>

Records == Processes \X (1 .. 2)

\* Two units of each record can be told apart, four when it is long: two are
\* in the first bufferful and two in the last.
Units(r) == IF plan[r[1]][r[2]].long THEN 4 ELSE 2

\* The last unit of the bufferful that holds unit u.
ChunkEnd(r, u) == IF Units(r) = 4 /\ u <= 2 THEN 2 ELSE Units(r)

Current(p) == <<p, at[p]>>

AInit ==
  /\ plan \in [Processes -> Plans]
  /\ at = [p \in Processes |-> 1]
  /\ next = [p \in Processes |-> 1]
  /\ pc = [p \in Processes |-> "idle"]
  /\ acked = {}
  /\ faults = 0
  /\ file = <<>>

Unit(p, u, end) == [rec |-> Current(p), unit |-> u, end |-> end]

\* Mutant: the file is opened without append, and the write goes to its start.
PutOver(p, last, end) ==
  LET new == [k \in 1 .. last + 1 - next[p] |-> Unit(p, next[p] + k - 1, end)]
  IN  file' = new \o SubSeq(file, Len(new) + 1, Len(file))

\* One write: the units next[p] .. last go to the end of the file together.
Put(p, last, end) ==
  file' = file \o [k \in 1 .. last + 1 - next[p] |->
                     Unit(p, next[p] + k - 1, IF next[p] + k - 1 = last THEN end ELSE "full")]

\* Some of the bufferful goes to the file, the rest stays in the buffer.
PutSome(p) ==
  \E last \in next[p] .. ChunkEnd(Current(p), next[p]) - 1, end \in {"short", "cut"} :
    /\ Put(p, last, end)
    /\ next' = [next EXCEPT ![p] = last + 1]

Finish(p) ==
  /\ at' = [at EXCEPT ![p] = @ + 1]
  /\ next' = [next EXCEPT ![p] = 1]
  /\ pc' = [pc EXCEPT ![p] = "idle"]

Fault == faults < MaxFaults /\ faults' = faults + 1

\* append opens the file; the record is serialised into the buffer.
Open(p) ==
  /\ pc[p] = "idle" /\ at[p] <= Len(plan[p])
  /\ pc' = [pc EXCEPT ![p] = "writing"]
  /\ UNCHANGED <<plan, at, next, acked, faults, file>>

\* The file cannot be opened: the record is lost and nothing is left behind.
OpenFails(p) ==
  /\ Fault
  /\ pc[p] = "idle" /\ at[p] <= Len(plan[p])
  /\ Finish(p)
  /\ UNCHANGED <<plan, acked, file>>

\* The rest of the buffer is written out, when it is full and at the flush.
Write(p) ==
  LET r == Current(p)  last == ChunkEnd(r, next[p]) IN
  /\ pc[p] = "writing"
  /\ Put(p, last, "full")
  /\ IF last = Units(r)
       THEN /\ acked' = acked \cup {r}
            /\ Finish(p)
       ELSE /\ next' = [next EXCEPT ![p] = last + 1]
            /\ UNCHANGED <<at, pc, acked>>
  /\ UNCHANGED <<plan, faults>>

\* A short write is no error: BufWriter goes on with what is left, in append and
\* when it is dropped.
WriteShort(p) ==
  /\ pc[p] \in {"writing", "dropping"}
  /\ Fault
  /\ PutSome(p)
  /\ UNCHANGED <<plan, at, pc, acked>>

\* Mutant: without the flush an error of the last write is nobody's.
WriteFailsQuietly(p) ==
  /\ Fault
  /\ pc[p] = "writing"
  /\ acked' = acked \cup {Current(p)}
  /\ Finish(p)
  /\ UNCHANGED <<plan, file>>

\* The disk is full: what is left of the bufferful is not written, and append
\* returns the error.
WriteFails(p) ==
  /\ Fault
  /\ pc[p] = "writing"
  /\ pc' = [pc EXCEPT ![p] = "dropping"]
  /\ UNCHANGED <<plan, at, next, acked, file>>

\* Dropping the BufWriter tries once more to write what is in the buffer, and
\* ignores the outcome.
Drop(p) ==
  /\ pc[p] = "dropping"
  /\ \/ Put(p, ChunkEnd(Current(p), next[p]), "full")
     \/ UNCHANGED file
  /\ Finish(p)
  /\ UNCHANGED <<plan, acked, faults>>

\* The process is killed, between two steps or in the middle of a write.
Crash(p) ==
  /\ Fault
  /\ pc[p] # "gone"
  /\ \/ UNCHANGED <<next, file>>
     \/ pc[p] \in {"writing", "dropping"} /\ PutSome(p)
  /\ pc' = [pc EXCEPT ![p] = "gone"]
  /\ UNCHANGED <<plan, at, acked>>

ANext == \E p \in Processes :
           \/ Open(p) \/ OpenFails(p) \/ Write(p) \/ WriteShort(p)
           \/ WriteFails(p) \/ Drop(p) \/ Crash(p)

ASpec == AInit /\ [][ANext]_avars

-----------------------------------------------------------------------------
(* What compute_summary makes of the file.                                 *)

\* Unit k of the file ends a line.
EndsLine(k) == file[k].unit = Units(file[k].rec)

\* The record is a line of its own.
Whole(r) ==
  \E k \in DOMAIN file :
    /\ k = 1 \/ EndsLine(k - 1)
    /\ k + Units(r) - 1 \in DOMAIN file
    /\ \A u \in 1 .. Units(r) : file[k + u - 1].rec = r /\ file[k + u - 1].unit = u

\* The next unit of the record follows in the file.
Continued(k) == k < Len(file) /\ file[k + 1].rec = file[k].rec

\* read_to_string succeeds: the bytes after a cut complete the character.
Legible == \A k \in DOMAIN file : file[k].end = "cut" => Continued(k)

\* The executions the summary counts.  An access decision has no module_id,
\* and a line that is not JSON is passed over.
Counted ==
  IF Legible
    THEN {r \in Records :
            /\ r[2] <= Len(plan[r[1]]) /\ plan[r[1]][r[2]].kind = "exec"
            /\ Whole(r)}
    ELSE {}

-----------------------------------------------------------------------------
(* Properties. *)

OnFile(r) == {k \in DOMAIN file : file[k].rec = r}

\* Some write of the record was short.
Shorted(r) == \E k \in DOMAIN file : file[k].rec = r /\ file[k].end # "full"

\* The records not written, or not known to be written, in one write: they alone
\* can harm a neighbour.
Damaged == {r \in Records : OnFile(r) # {} /\ (r \notin acked \/ Units(r) = 4 \/ Shorted(r))}

\* The places where a record breaks off before its newline.
Breaks == {k \in DOMAIN file : ~ EndsLine(k) /\ ~ Continued(k)}

\* A record of one bufferful whose append succeeded, with no short write, is in one
\* piece, whatever the other processes do; it is a readable line unless the bytes
\* right before it are of a damaged record.  This is what the buffer and O_APPEND
\* are for, in place of a lock.
ShortRecordsAreAtomic ==
  \A r \in acked : Units(r) = 2 /\ ~ Shorted(r) =>
    \E k \in DOMAIN file :
      /\ OnFile(r) = {k, k + 1}
      /\ Whole(r) \/ (k > 1 /\ file[k - 1].rec \in Damaged)

\* Only a damaged record breaks off, and each break costs at most two successful
\* ones, the one that is broken and the one that follows: the rest of the file is
\* not spoilt.
LossIsBounded ==
  /\ \A k \in Breaks : file[k].rec \in Damaged
  /\ Cardinality({r \in acked : ~ Whole(r)}) <= 2 * Cardinality(Breaks)

\* What a failed, short or interrupted write spoils is contained (audit.rs:294-331).
LossIsContained == ShortRecordsAreAtomic /\ LossIsBounded

\* A record that is in the log as a line stays there: no later append, of any
\* process, spoils it.
WholeIsForever ==
  [][\A r \in Records : r[2] <= Len(plan[r[1]]) /\ Whole(r) => Whole(r)']_avars

\* system_usage.rs:102-103: a partial last line from a crashed write is tolerated,
\* so the lines before it are still counted.
PartialLastLineTolerated ==
  (\A k \in DOMAIN file : file[k].end = "cut" => k = Len(file) /\ pc[file[k].rec[1]] = "gone")
    => \A r \in acked : plan[r[1]][r[2]].kind = "exec" /\ Whole(r) => r \in Counted

-----------------------------------------------------------------------------
(* The inductive invariant the theorems of AuditLogProofs rest on.         *)

\* Unit u of r is in the file.
Has(r, u) == \E k \in DOMAIN file : file[k].rec = r /\ file[k].unit = u

\* Every variable that the file depends on has its type.
FileTypes ==
  /\ plan \in [Processes -> Plans]
  /\ at \in [Processes -> 1 .. 3]
  /\ next \in [Processes -> 1 .. 4]
  /\ pc \in [Processes -> {"idle", "writing", "dropping", "gone"}]
  /\ acked \subseteq Records
  /\ file \in Seq([rec : Records, unit : 1 .. 4, end : {"full", "short", "cut"}])

\* What is in the file of a record at or after the one a process is at comes before
\* what the buffer still holds, and all of it is there.
Buffered ==
  \A p \in Processes :
    /\ pc[p] \in {"writing", "dropping"} =>
         /\ at[p] <= Len(plan[p]) /\ next[p] <= Units(Current(p))
         /\ \A u \in 1 .. 4 : u < next[p] => Has(Current(p), u)
    /\ pc[p] = "idle" => next[p] = 1
    /\ \A k \in DOMAIN file : file[k].rec[1] = p =>
         file[k].rec[2] < at[p] \/ (file[k].rec[2] = at[p] /\ file[k].unit < next[p])

\* An acknowledged record is behind its process, and in the file to the last unit.
Complete ==
  \A r \in acked : r[2] < at[r[1]] /\ \A u \in 1 .. Units(r) : Has(r, u)

\* The units of a record are in the file once, in their order.
InOrder ==
  /\ \A k \in DOMAIN file : file[k].unit <= Units(file[k].rec)
  /\ \A j, k \in DOMAIN file :
       j < k /\ file[j].rec = file[k].rec => file[j].unit < file[k].unit

\* A bufferful goes on where no write was short.
Seams ==
  \A k \in DOMAIN file :
    file[k].end = "full" /\ file[k].unit < ChunkEnd(file[k].rec, file[k].unit) =>
      /\ k + 1 \in DOMAIN file
      /\ file[k + 1].rec = file[k].rec /\ file[k + 1].unit = file[k].unit + 1

FileInv == FileTypes /\ Buffered /\ Complete /\ InOrder /\ Seams
=============================================================================
