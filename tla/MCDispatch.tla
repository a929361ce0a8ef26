----------------------------- MODULE MCDispatch -----------------------------
(***************************************************************************)
(* The invocations TLC explores.  The gates do not look at the audit       *)
(* settings and the log does not look at the bypass flags, so the two are  *)
(* enumerated apart instead of multiplied.                                 *)
(***************************************************************************)
EXTENDS Dispatch

Modules == {<<"native", "absent">>, <<"native", "optional">>, <<"native", "required">>,
            <<"script", "optional">>, <<"placeholder", "optional">>}

Policies == {"none", "deny", "allow", "approve", "varies"}

Call(m, acl, flags, bypass, audit, aclAudit) ==
  [kind |-> m[1], ann |-> m[2], acl |-> acl,
   stdin |-> "stdin" \in flags, dryRun |-> "dryRun" \in flags, stream |-> "stream" \in flags,
   trace |-> "trace" \in flags, sandbox |-> "sandbox" \in flags,
   yes |-> "yes" \in bypass, token |-> "token" \in bypass,
   autoApprove |-> "env" \in bypass, tty |-> "tty" \in bypass,
   audit |-> audit, aclAudit |-> aclAudit]

PathFlags == SUBSET {"stream", "trace", "sandbox"}

\* Every module, policy and path with every way of answering the gates.
GateCalls == {Call(m, p, f, b, "on", "all") :
                m \in Modules, p \in Policies, f \in PathFlags,
                b \in SUBSET {"yes", "token", "env", "tty"}}

\* Every module, policy and path with every audit setting, at a terminal.
AuditCalls == {Call(m, p, f, {"tty"}, a, d) :
                 m \in Modules, p \in Policies, f \in PathFlags,
                 a \in {"off", "on", "faulty"}, d \in {"off", "allowed", "all"}}

DryRuns == {Call(m, p, {"dryRun", "sandbox"}, {"tty"}, a, d) :
              m \in Modules, p \in Policies,
              a \in {"off", "on", "faulty"}, d \in {"off", "allowed", "all"}}

\* Input from a writer that may keep stdin open for ever, on every path.
StdinCalls == {Call(m, p, f \cup {"stdin"}, {"tty"}, "on", "all") :
                 m \in Modules, p \in {"none", "approve"},
                 f \in PathFlags \cup {{"dryRun"}}}

MCInvocations == GateCalls \cup AuditCalls \cup DryRuns \cup StdinCalls

=============================================================================
