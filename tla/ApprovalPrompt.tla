--------------------------- MODULE ApprovalPrompt ---------------------------
(***************************************************************************)
(* approval.rs prompt_with_reader: the question is on the terminal, a      *)
(* thread of the blocking pool reads one line of the standard input, and   *)
(* the sleep races it.  A thread whose prompt timed out is not cancelled:  *)
(* it stays parked in read_line, holding the lock of stdin.                *)
(*                                                                         *)
(* Several prompts of one process follow one another: the gate of          *)
(* dispatch_module and the gate of the pipeline, or the calls of a program *)
(* that uses CliApprovalHandler as a library.                              *)
(***************************************************************************)
EXTENDS Naturals, Sequences, FiniteSets, Functions

CONSTANTS
  NPrompts,        \* how many prompts the process may show
  MaxLines         \* bound on the lines the user types

ASSUME PromptAssumption ==
  NPrompts \in Nat \ {0} /\ MaxLines \in Nat

Prompts == 1 .. NPrompts

VARIABLES
  limit,   \* timeout_secs: "zero" or "positive"
  binary,  \* TRUE: the program, which exits 46 on a refusal; FALSE: a library
  status,  \* status[p]: "new", "asking", "approved", "rejected", "timeout"
  thread,  \* thread[p], the reader: "none", "waiting", "reading", "done"
  typed,   \* the lines typed and not yet read, each with the prompt on the
           \* screen when it was typed and its number
  taken,   \* taken[p]: the lines (none or one) the reader of p got
  nLines   \* how many lines were typed

pvars == <<binary, limit, status, thread, typed, taken, nLines>>

Lines == [answer : {"yes", "other"}, for : Prompts, nth : 1 .. MaxLines]

Final == {"approved", "rejected", "timeout"}

PInit ==
  /\ limit \in {"zero", "positive"}
  /\ binary \in BOOLEAN
  /\ status = [p \in Prompts |-> "new"]
  /\ thread = [p \in Prompts |-> "none"]
  /\ typed = <<>>
  /\ taken = [p \in Prompts |-> <<>>]
  /\ nLines = 0

\* Mutant: a refused call goes on to its next prompt.
AskAfterRefusal(p) ==
  /\ status[p] = "new"
  /\ \A q \in 1 .. p - 1 : status[q] \in Final
  /\ status' = [status EXCEPT ![p] = "asking"]
  /\ thread' = [thread EXCEPT ![p] = "waiting"]
  /\ UNCHANGED <<binary, limit, typed, taken, nLines>>

\* A prompt is shown when the one before it is settled and the process goes on.
Ask(p) ==
  /\ status[p] = "new"
  /\ \A q \in 1 .. p - 1 :
       status[q] \in (IF binary THEN {"approved"} ELSE Final)
  /\ status' = [status EXCEPT ![p] = "asking"]
  /\ thread' = [thread EXCEPT ![p] = "waiting"]
  /\ UNCHANGED <<binary, limit, typed, taken, nLines>>

\* stdin().read_line takes the lock of stdin and keeps it while it waits.
LockStdin(p) ==
  /\ thread[p] = "waiting"
  /\ \A q \in Prompts : thread[q] # "reading"
  /\ thread' = [thread EXCEPT ![p] = "reading"]
  /\ UNCHANGED <<binary, limit, status, typed, taken, nLines>>

\* The user answers the question on the screen; an empty line and the end of
\* the input are "other" than yes.
TypeLine(p, answer) ==
  /\ status[p] = "asking"
  /\ nLines < MaxLines
  /\ typed' = Append(typed, [answer |-> answer, for |-> p, nth |-> nLines + 1])
  /\ nLines' = nLines + 1
  /\ UNCHANGED <<binary, limit, status, thread, taken>>

\* The first line nobody has read goes to the thread that holds the lock.
ReadLine(p) ==
  /\ thread[p] = "reading"
  /\ typed # <<>>
  /\ taken' = [taken EXCEPT ![p] = <<Head(typed)>>]
  /\ typed' = Tail(typed)
  /\ thread' = [thread EXCEPT ![p] = "done"]
  /\ UNCHANGED <<binary, limit, status, nLines>>

\* Mutant: the readers answer through one channel.
ResolveShared(p) ==
  /\ status[p] = "asking"
  /\ \E q \in 1 .. p :
       /\ thread[q] = "done"
       /\ status' = [status EXCEPT ![p] =
                       IF taken[q][1].answer = "yes" THEN "approved" ELSE "rejected"]
  /\ UNCHANGED <<binary, limit, thread, typed, taken, nLines>>

\* Mutant: a late answer is still applied.
ResolveLate(p) ==
  /\ status[p] \in {"asking", "timeout"}
  /\ thread[p] = "done"
  /\ status' = [status EXCEPT ![p] =
                  IF taken[p][1].answer = "yes" THEN "approved" ELSE "rejected"]
  /\ UNCHANGED <<binary, limit, thread, typed, taken, nLines>>

\* The branch of select! in which the thread has returned first.
Resolve(p) ==
  /\ status[p] = "asking"
  /\ thread[p] = "done"
  /\ status' = [status EXCEPT ![p] =
                  IF taken[p][1].answer = "yes" THEN "approved" ELSE "rejected"]
  /\ UNCHANGED <<binary, limit, thread, typed, taken, nLines>>

\* The branch in which the sleep has ended first; the thread stays behind.  A
\* sleep of zero seconds is no exception: it has ended when it is first polled.
TimeOut(p) ==
  /\ status[p] = "asking"
  /\ status' = [status EXCEPT ![p] = "timeout"]
  /\ UNCHANGED <<binary, limit, thread, typed, taken, nLines>>

PNext == \E p \in Prompts :
           \/ Ask(p) \/ LockStdin(p) \/ ReadLine(p) \/ Resolve(p) \/ TimeOut(p)
           \/ \E a \in {"yes", "other"} : TypeLine(p, a)

PSpec == PInit /\ [][PNext]_pvars

-----------------------------------------------------------------------------
(* Properties. *)

\* Consent is a prompt's own: one line that says yes, typed when that prompt or
\* an earlier one was on the screen, never after it was settled, and no line
\* consents twice.  So neither silence, nor the end of the input, nor the answer
\* somebody gives to a later question, nor one read before approves a call
\* (prompt_with_reader, approval.rs:95-128).
ConsentIsItsOwn ==
  LET Approved == {p \in Prompts : status[p] = "approved"}
  IN  /\ \A p \in Approved : /\ Len(taken[p]) = 1
                              /\ taken[p][1].answer = "yes"
                              /\ taken[p][1].for <= p
      /\ \A p, q \in Approved : taken[p][1].nth = taken[q][1].nth => p = q

\* A refusal is final: an answer that comes after the time limit changes nothing.
OutcomeIsFinal ==
  [][\A p \in Prompts : status[p] \in Final => status'[p] = status[p]]_pvars

\* In the program, an answer never goes to the thread of an earlier prompt that
\* has given up.  The comment at approval.rs:74-76 rests on it: the parked
\* thread does no harm because the process exits.
NoStaleReader ==
  binary => \A p \in Prompts : \A k \in DOMAIN taken[p] : taken[p][k].for <= p

\* What approval.rs:393 says of the handler's timeout: "0 = wait indefinitely".
ZeroWaits == limit = "zero" => \A p \in Prompts : status[p] # "timeout"
=============================================================================
