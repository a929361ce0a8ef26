----------------------------- MODULE MCChildIO -----------------------------
(***************************************************************************)
(* Children for TLC.  A script does what it likes.  The sandbox child is   *)
(* the runner, which reads its whole input before it does anything else;   *)
(* but it is whatever program current_exe names, and it may hang or fail   *)
(* before it reads, so it too does what it likes.                          *)
(***************************************************************************)
EXTENDS ChildIO

Ends == {<<"ok">>, <<"fail">>, <<"leave">>, <<"hang">>}

\* Every order of at most n of the given operations, and an end.
Behaviours(ops, n) ==
  {s \o e : s \in UNION {[1..k -> ops] : k \in 0..n}, e \in Ends}

\* The runner reads to the end of its input: one read for each chunk and one
\* that finds the end.
Runner == [k \in 1 .. Input + 1 |-> "in"]

Children == Behaviours({"in", "out", "err"}, 4)
              \cup Behaviours({"in", "out"} \cup DOMAIN Closes, 3)

Runners == {Runner \o b : b \in Behaviours({"out", "err"}, 5)}

AllCases == [mode : {"script", "sandbox"}, program : Children]
              \cup [mode : {"sandbox"}, program : Runners]

\* Runners, and one that is stopped before it reads its input.
StuckRunners == [mode : {"sandbox"}, program : Runners \cup {<<"hang">>}]

=============================================================================
