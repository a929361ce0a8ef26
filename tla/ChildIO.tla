------------------------------ MODULE ChildIO ------------------------------
(***************************************************************************)
(* A parent that runs a module in a child process over three pipes:        *)
(* cli.rs execute_script ("script") and sandbox.rs _sandboxed_execute with *)
(* collect_capped_output ("sandbox").  Both write the whole input before   *)
(* they read anything; the sandbox then reads both streams chunk by chunk  *)
(* under a cap and a time limit, the script path reads without either.     *)
(*                                                                         *)
(* A child is the list of what it still does: "in" consumes a chunk of its *)
(* stdin (or sees its end), "out" and "err" write a chunk, "close_in" and  *)
(* the like close one of its ends, "ok" and "fail" exit, "leave" exits     *)
(* with 0 and leaves its ends to a background process, "hang" never        *)
(* returns.  Data is counted in chunks.                                    *)
(***************************************************************************)
EXTENDS Naturals, Sequences, SequencesExt

CONSTANTS
  Cases,     \* the pairs [mode, program] considered
  Input,     \* how many chunks the JSON input takes
  PipeSize,  \* how many chunks a pipe holds before a writer blocks
  Cap        \* max_output_bytes, in chunks, per stream

Streams == {"out", "err"}

\* What a closing child closes.
Closes == [close_in |-> "in", close_out |-> "out", close_err |-> "err"]

Ops == {"in", "ok", "fail", "leave", "hang"} \cup Streams \cup DOMAIN Closes

ASSUME ChildAssumption ==
  /\ Input \in Nat /\ Cap \in Nat /\ PipeSize \in Nat \ {0}
  /\ \A c \in Cases : c.mode \in {"script", "sandbox"} /\ c.program \in Seq(Ops)

VARIABLES
  mode,      \* which parent
  program,   \* what the child still does
  child,     \* "alive", "exited", "failed", "killed"
  held,      \* the ends of the pipes open on the child's side
  parent,    \* "write", "read", "done"
  unwritten, \* chunks of input the parent has still to write
  stdin,     \* chunks in the stdin pipe
  stdinOpen, \* the parent still holds the write end of stdin
  pipe,      \* chunks in the pipe of each stream
  reading,   \* the streams the parent still reads
  lost,      \* the streams whose reading failed
  collected, \* chunks the parent has read from each stream
  emitted,   \* chunks the child has written to each stream
  outcome    \* what the caller gets, "none" until then

cvars == <<mode, program, child, held, parent, unwritten, stdin, stdinOpen,
           pipe, reading, lost, collected, emitted, outcome>>

\* What only the parent's writing, and what only its reading, changes.
writing == <<unwritten, stdin, stdinOpen>>
readers == <<reading, lost, collected>>

Outcomes == {"none", "ok", "exit_error", "stdin_error", "read_error",
             "overflow", "timeout"}

CInit ==
  /\ \E c \in Cases : mode = c.mode /\ program = c.program
  /\ child = "alive"
  /\ held = Streams \cup {"in"}
  /\ parent = "write"
  /\ unwritten = Input
  /\ stdin = 0 /\ stdinOpen = TRUE
  /\ pipe = [s \in Streams |-> 0]
  /\ reading = Streams /\ lost = {}
  /\ collected = [s \in Streams |-> 0]
  /\ emitted = [s \in Streams |-> 0]
  /\ outcome = "none"

Overflowed(c) == \E s \in Streams : c[s] > Cap

\* The future ends; dropping it kills a child that is still alive.
Return(o) ==
  /\ outcome' = o
  /\ parent' = "done"
  /\ child' = IF child = "alive" THEN "killed" ELSE child
  /\ held' = IF child = "alive" THEN {} ELSE held

-----------------------------------------------------------------------------
(* The child. *)

Does(op) == child = "alive" /\ program # <<>> /\ Head(program) = op

\* Only the child itself reads its stdin; at the end of the input it goes on.
ChildReads ==
  /\ Does("in")
  /\ stdin > 0 \/ ~stdinOpen
  /\ stdin' = IF stdin > 0 THEN stdin - 1 ELSE 0
  /\ program' = Tail(program)
  /\ UNCHANGED <<mode, child, held, parent, unwritten, stdinOpen, pipe, readers,
                 emitted, outcome>>

\* A write blocks while the pipe is full.
ChildWrites(s) ==
  /\ Does(s)
  /\ s \in held \cap reading
  /\ pipe[s] < PipeSize
  /\ pipe' = [pipe EXCEPT ![s] = @ + 1]
  /\ emitted' = [emitted EXCEPT ![s] = @ + 1]
  /\ program' = Tail(program)
  /\ UNCHANGED <<mode, child, held, parent, writing, readers, outcome>>

\* A write to a stream that it closed, or that the parent has given up, fails;
\* the child dies of it (SIGPIPE, a panic in print!) or goes on.
ChildWriteFails(s) ==
  /\ Does(s)
  /\ s \notin held \cap reading
  /\ \/ program' = Tail(program) /\ UNCHANGED <<child, held>>
     \/ program' = <<>> /\ child' = "failed" /\ held' = {}
  /\ UNCHANGED <<mode, parent, writing, pipe, readers, emitted, outcome>>

ChildCloses(op) ==
  /\ Does(op)
  /\ held' = held \ {Closes[op]}
  /\ program' = Tail(program)
  /\ UNCHANGED <<mode, child, parent, writing, pipe, readers, emitted, outcome>>

ChildExits ==
  /\ \/ (Does("ok") \/ Does("fail")) /\ held' = {}
     \/ Does("leave") /\ UNCHANGED held
  /\ child' = IF Does("fail") THEN "failed" ELSE "exited"
  /\ program' = <<>>
  /\ UNCHANGED <<mode, parent, writing, pipe, readers, emitted, outcome>>

-----------------------------------------------------------------------------
(* The parent. *)

\* stdin.write_all, one chunk at a time: it blocks on a full pipe, with no
\* time limit on either path.
WriteInput ==
  /\ parent = "write"
  /\ unwritten > 0
  /\ "in" \in held
  /\ stdin < PipeSize
  /\ stdin' = stdin + 1
  /\ unwritten' = unwritten - 1
  /\ UNCHANGED <<mode, program, child, held, parent, stdinOpen, pipe, readers,
                 emitted, outcome>>

\* Nobody can read the input any more before all of it was sent: write_all fails
\* with EPIPE and the call with it, whatever the child's exit status and output.
WriteBroken ==
  /\ parent = "write"
  /\ unwritten > 0
  /\ "in" \notin held
  /\ Return("stdin_error")
  /\ UNCHANGED <<mode, program, writing, pipe, readers, emitted>>

CloseInput ==
  /\ parent = "write"
  /\ unwritten = 0
  /\ stdinOpen' = FALSE
  /\ parent' = "read"
  /\ UNCHANGED <<mode, program, child, held, unwritten, stdin, pipe, readers,
                 emitted, outcome>>

\* Mutant: the cap is looked at only when both streams are done.
ReadChunkLateCap(s) ==
  /\ parent = "read"
  /\ s \in reading
  /\ pipe[s] > 0
  /\ pipe' = [pipe EXCEPT ![s] = @ - 1]
  /\ collected' = [collected EXCEPT ![s] = @ + 1]
  /\ UNCHANGED <<mode, program, child, held, parent, writing, reading, lost,
                 emitted, outcome>>

\* Mutant: stdout is read to its end before stderr.
ReadChunkInOrder(s) ==
  /\ parent = "read"
  /\ s \in reading
  /\ s = "err" => "out" \notin reading
  /\ pipe[s] > 0
  /\ pipe' = [pipe EXCEPT ![s] = @ - 1]
  /\ collected' = [collected EXCEPT ![s] = @ + 1]
  /\ IF mode = "sandbox" /\ Overflowed(collected')
       THEN Return("overflow")
       ELSE UNCHANGED <<parent, child, held, outcome>>
  /\ UNCHANGED <<mode, program, writing, reading, lost, emitted>>

\* One turn of the loop of collect_capped_output, the cap checked after every
\* chunk, the child killed and reaped at once; wait_with_output has no cap.
ReadChunk(s) ==
  /\ parent = "read"
  /\ s \in reading
  /\ pipe[s] > 0
  /\ pipe' = [pipe EXCEPT ![s] = @ - 1]
  /\ collected' = [collected EXCEPT ![s] = @ + 1]
  /\ IF mode = "sandbox" /\ Overflowed(collected')
       THEN Return("overflow")
       ELSE UNCHANGED <<parent, child, held, outcome>>
  /\ UNCHANGED <<mode, program, writing, reading, lost, emitted>>

\* Mutant: the streams of an exited child are taken for done.
StreamEndsEarly(s) ==
  /\ parent = "read"
  /\ s \in reading
  /\ s \notin held
  /\ reading' = reading \ {s}
  /\ UNCHANGED <<mode, program, child, held, parent, writing, pipe, lost,
                 collected, emitted, outcome>>

\* A stream has delivered everything and nobody can write to it any more.
StreamEnds(s) ==
  /\ parent = "read"
  /\ s \in reading
  /\ s \notin held /\ pipe[s] = 0
  /\ reading' = reading \ {s}
  /\ UNCHANGED <<mode, program, child, held, parent, writing, pipe, lost,
                 collected, emitted, outcome>>

\* A read fails: read_one_chunk takes it for the end of the stream, what is in
\* the pipe is dropped with it; wait_with_output fails, and the call with it.
ReadFails(s) ==
  /\ parent = "read"
  /\ s \in reading
  /\ IF mode = "sandbox"
       THEN /\ reading' = reading \ {s}
            /\ lost' = lost \cup {s}
            /\ UNCHANGED <<parent, child, held, outcome>>
       ELSE Return("read_error") /\ UNCHANGED <<reading, lost>>
  /\ UNCHANGED <<mode, program, writing, pipe, collected, emitted>>

\* Both streams are done and child.wait() returns.
Reap ==
  /\ parent = "read"
  /\ reading = {}
  /\ child # "alive"
  /\ Return(IF child = "exited" THEN "ok" ELSE "exit_error")
  /\ UNCHANGED <<mode, program, writing, pipe, readers, emitted>>

\* The sandbox's time limit starts once the input is written.
Timeout ==
  /\ mode = "sandbox"
  /\ parent = "read"
  /\ Return("timeout")
  /\ UNCHANGED <<mode, program, writing, pipe, readers, emitted>>

ChildSteps == \/ ChildReads \/ ChildExits
              \/ \E s \in Streams : ChildWrites(s) \/ ChildWriteFails(s)
              \/ \E op \in DOMAIN Closes : ChildCloses(op)

ParentSteps == \/ WriteInput \/ WriteBroken \/ CloseInput \/ Reap
               \/ \E s \in Streams : ReadChunk(s) \/ StreamEnds(s)

CNext == ChildSteps \/ ParentSteps \/ Timeout \/ \E s \in Streams : ReadFails(s)

CSpec == CInit /\ [][CNext]_cvars

\* The parent polls its futures, the child is scheduled, the timer fires; reads
\* need not fail.
CFairSpec == CSpec /\ WF_cvars(ChildSteps) /\ WF_cvars(ParentSteps)
                   /\ WF_cvars(Timeout)

-----------------------------------------------------------------------------
(* Properties. *)

\* Every variable has its type, and no pipe holds more than it can.
CTypeOK ==
  /\ mode \in {"script", "sandbox"}
  /\ program \in Seq(Ops)
  /\ child \in {"alive", "exited", "failed", "killed"}
  /\ held \subseteq Streams \cup {"in"}
  /\ parent \in {"write", "read", "done"}
  /\ unwritten \in 0..Input
  /\ stdin \in 0..PipeSize
  /\ stdinOpen \in BOOLEAN
  /\ pipe \in [Streams -> 0..PipeSize]
  /\ reading \subseteq Streams /\ lost \subseteq Streams
  /\ collected \in [Streams -> Nat]
  /\ emitted \in [Streams -> Nat]
  /\ outcome \in Outcomes

\* A call that succeeds returns everything its child wrote to each stream that
\* could be read, and the child has exited by itself with status 0.  The one
\* exception is sandbox.rs:165, where a read error passes for the end.
OutputIsComplete ==
  outcome = "ok" => /\ child = "exited"
                    /\ \A s \in Streams \ lost : collected[s] = emitted[s]
                    /\ mode = "script" => lost = {}

\* The memory a sandboxed child can make its parent use is bounded by the cap
\* and the one chunk that crosses it, on each stream, whatever it writes.
BoundedCollection ==
  mode = "sandbox" => \A s \in Streams : collected[s] <= Cap + 1

\* Too much output is reported as too much output, as soon as it is read, and
\* never as a timeout, even when the other stream stays open and silent.
OverflowIsReported ==
  mode = "sandbox" /\ Overflowed(collected) <=> outcome = "overflow"

\* The cap of sandbox.rs:236 is a cap, and the user is told of it.
CollectionIsCapped == BoundedCollection /\ OverflowIsReported

\* The parent writes to a full pipe that somebody could still read.
WriteBlocked ==
  parent = "write" /\ unwritten > 0 /\ stdin = PipeSize /\ "in" \in held

\* What a script can do to a parent without a time limit: never end, or leave
\* one of its streams to a process that never does.
ScriptStays ==
  mode = "script" /\ parent = "read" /\
    \/ Does("hang")
    \/ child = "exited" /\ held \cap Streams # {}

\* A call comes to its end unless its input meets a full pipe nobody empties
\* (cli.rs:1085, sandbox.rs:528) or its script stays: past the write, no order
\* in which a child writes, closes and exits makes the two wait for each other,
\* and nothing a sandboxed child does outlasts the time limit.
CallEnds == <>[](parent = "done" \/ WriteBlocked \/ ScriptStays)

\* What sandbox.rs:293 says of timeout_secs, "subprocess timeout in seconds": a
\* sandboxed call ends whatever its child does.
SandboxIsTimed == <>(mode = "sandbox" => parent = "done")
=============================================================================
