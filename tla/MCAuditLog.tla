----------------------------- MODULE MCAuditLog -----------------------------
(* AuditLog for TLC: what one call of the program writes.                  *)
EXTENDS AuditLog, TLC

\* An execution record alone (no ACL), after a short access decision, after
\* one too long for the buffer.
Exec == [kind |-> "exec", long |-> FALSE]
Acl(long) == [kind |-> "acl", long |-> long]
MCPlans == {<<Exec>>, <<Acl(FALSE), Exec>>, <<Acl(TRUE), Exec>>}

Symmetry == Permutations(Processes)
=============================================================================
