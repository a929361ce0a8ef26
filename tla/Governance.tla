----------------------------- MODULE Governance -----------------------------
(***************************************************************************)
(* The commands about the rules of access control (acl_cmd.rs) and those   *)
(* that change the system (system_cmd.rs), with the contexts in which the  *)
(* program has calls decided.  A session is a few runs of the program, one *)
(* after the other, with the same ACL file and the same flags: first the   *)
(* operator asks `acl check`, then somebody calls, on one path or another. *)
(*                                                                         *)
(* Evaluating the rules is the apcore crate's: the model has what the code *)
(* here relies on (the first rule that fits wins; without a context no     *)
(* condition holds; Executor::call makes a context when it gets none).     *)
(***************************************************************************)
EXTENDS Integers, Sequences, FiniteSets, FiniteSetsExt

CONSTANT Sessions   \* [acl, args, host, runs], see MCGovernance

Unset == "unset"
NoExit == -1
InvalidInput == 2
ApprovalDenied == 46
ConfigNotFound == 47
AclDenied == 77

\* Every code map_module_error_to_exit_code can return.
ModuleErrorCodes == {1, 44, 45, 46, 47, 48, 65, 66, 70, 77, 78}

NoDepth == -1    \* no --depth
BadDepth == -2   \* one that is not a number

\* "health" stands for usage as well, "enable" for disable, reload and config
\* set; "config" is that command without a subcommand.
Controls == {"enable"}
SystemCommands == {"health", "config get", "config"} \cup Controls
Surfaces == {"check", "script", "exec", "health", "enable"}
Commands == {"list", "validate", "status", "check", "script", "exec"} \cup SystemCommands

\* Option::None, which no flags assert.
None == [id |-> FALSE, type |-> "none", roles |-> {}]

ASSUME SessionsAssumption ==
  \A s \in Sessions : s.runs \in Seq(Commands) /\ s.args.root.type # None.type

VARIABLES
  acl,      \* of the executor: attached, its rules in order, its default
  args,     \* the flags, the same for every run
  host,     \* the terminal, the environment, the system modules
  runs,     \* the runs to come, the one under way first
  pc,       \* how far that one has come
  cell,     \* CLI_IDENTITY
  verdict,  \* what was last decided, by surface
  answers,  \* the prompts that somebody has answered with yes, in this run
  changed,  \* a control module has run, in this run
  exit      \* the exit code of the last run that ended

gvars == <<acl, args, host, runs, pc, cell, verdict, answers, changed, exit>>
session == <<acl, args, host>>

-----------------------------------------------------------------------------
(* The identity that the flags assert.                                     *)

IsEmpty(i) == ~ i.id /\ i.type = Unset /\ i.roles = {}

\* The flags at the root, each overridden by its counterpart at acl check.
IdentityFromMatches(run) ==
  [id |-> args.root.id \/ (run = "check" /\ args.sub.id),
   type |-> IF run = "check" /\ args.sub.type # Unset THEN args.sub.type ELSE args.root.type,
   roles |-> IF run = "check" /\ args.sub.roles # {} THEN args.sub.roles ELSE args.root.roles]

\* set_cli_identity
Published(i) == IF IsEmpty(i) THEN None ELSE i

-----------------------------------------------------------------------------
(* Contexts and decisions.                                                 *)

ContextAt(type, roles, depth) ==
  [given |-> TRUE, type |-> type, roles |-> roles, depth |-> depth]
Context(type, roles) == ContextAt(type, roles, 0)
NoContext == [given |-> FALSE, type |-> Unset, roles |-> {}, depth |-> 0]

\* The context Executor::call makes when it is given none.
External == Context("external", {})

\* CliIdentity::to_identity; the name in it plays no part in any condition.
ToContext(i) == Context(IF i.type = Unset THEN "user" ELSE i.type, i.roles)

\* identity_context, for Executor::call.
IdentityContext == IF cell = None THEN NoContext ELSE ToContext(cell)

\* Mutant: the gate presents what a call presents, which may be nothing.
DelegatedContextOptional == IdentityContext

\* delegated_gate_context, for the gate of dispatch_module: never nothing.
DelegatedContext == IF cell = None THEN External ELSE ToContext(cell)

\* build_check_context: a context only when a flag asks for one.
CheckContext ==
  IF cell = None /\ args.depth = NoDepth /\ args.input = Unset THEN NoContext
  ELSE LET base == IF cell = None THEN Context(Unset, {}) ELSE ToContext(cell)
       IN  ContextAt(base.type, base.roles, IF args.depth = NoDepth THEN 0 ELSE args.depth)

InPipeline(ctx) == IF ctx.given THEN ctx ELSE External

\* One condition of each kind: roles, identity_types, max_call_depth, arguments,
\* and one with a key nobody knows, which makes a deny rule fire.
Holds(rule, ctx, input) ==
  \/ rule.cond = "none"
  \/ /\ ctx.given
     /\ \/ rule.cond = "role" /\ "admin" \in ctx.roles
        \/ rule.cond \in {"external", "user", "svc"} /\ ctx.type = rule.cond
        \/ rule.cond = "shallow" /\ ctx.depth <= 1
        \/ rule.cond = "argument" /\ input = "with"
        \/ rule.cond = "bogus" /\ rule.effect = "deny"

\* ACL::check_access for the target: "deny", "allow" or, allowed with
\* approval: required, "approve".
CheckAccess(caller, ctx, input) ==
  LET fitting == {k \in DOMAIN acl.rules :
                    /\ acl.rules[k].caller \in {"any", caller}
                    /\ Holds(acl.rules[k], ctx, input)}
  IN  IF fitting = {} THEN acl.default ELSE acl.rules[Min(fitting)].effect

\* Without an ACL nothing is refused.
Gate(ctx, input) == IF acl.attached THEN CheckAccess("@external", ctx, input) ELSE "allow"

-----------------------------------------------------------------------------
GInit ==
  /\ \E s \in Sessions :
       acl = s.acl /\ args = s.args /\ host = s.host /\ runs = s.runs
  /\ pc = "start" /\ cell = None
  /\ verdict = [s \in Surfaces |-> Unset]
  /\ answers = 0 /\ changed = FALSE /\ exit = NoExit

\* main: the identity is published, then the command is dispatched.
Start ==
  /\ pc = "start" /\ runs # <<>>
  /\ cell' = Published(IdentityFromMatches(Head(runs)))
  /\ pc' = Head(runs)
  /\ answers' = 0 /\ changed' = FALSE
  /\ UNCHANGED <<session, runs, verdict, exit>>

\* This run ends; the next one begins with a fresh process.
End(code) ==
  /\ exit' = code
  /\ runs' = Tail(runs)
  /\ pc' = "start"

\* acl list: an ACL or none, both are listed.
ListRules ==
  /\ pc = "list"
  /\ End(0)
  /\ UNCHANGED <<session, cell, verdict, answers, changed>>

\* acl validate: 47 without an ACL, and with any finding.
ValidateRules ==
  /\ pc = "validate"
  /\ End(IF acl.attached /\ \A k \in DOMAIN acl.rules : acl.rules[k].cond # "bogus"
           THEN 0 ELSE ConfigNotFound)
  /\ UNCHANGED <<session, cell, verdict, answers, changed>>

\* acl status, from Executor::governance_state.
Status ==
  /\ pc = "status"
  /\ End(IF args.strict /\ host.unprotected THEN ConfigNotFound ELSE 0)
  /\ UNCHANGED <<session, cell, verdict, answers, changed>>

\* acl check: 47 without an ACL, 2 for a bad flag, 77 for a denial; what is
\* allowed but needs an approval is allowed.
Check ==
  /\ pc = "check"
  /\ IF ~ acl.attached \/ args.depth = BadDepth \/ args.input = "bad"
       THEN /\ End(IF ~ acl.attached THEN ConfigNotFound ELSE InvalidInput)
            /\ UNCHANGED verdict
       ELSE LET told == CheckAccess(args.caller, CheckContext, args.input) IN
            /\ verdict' = [verdict EXCEPT !["check"] = told]
            /\ End(IF told = "deny" THEN AclDenied ELSE 0)
  /\ UNCHANGED <<session, cell, answers, changed>>

\* The gates of a call, in dispatch_module for a script or the sandbox and in
\* the pipeline otherwise; what follows them is in Dispatch.
CallGate ==
  /\ pc \in {"script", "exec"}
  /\ LET ctx == IF pc = "script" THEN DelegatedContext ELSE InPipeline(IdentityContext) IN
     /\ verdict' = [verdict EXCEPT ![pc] = Gate(ctx, args.callInput)]
     /\ End(IF verdict'[pc] = "deny" THEN AclDenied ELSE NoExit)
  /\ UNCHANGED <<session, cell, answers, changed>>

-----------------------------------------------------------------------------
(* The system commands.                                                    *)

\* config get answers from the defaults, config alone is a usage error; the
\* other commands go on to the module that serves them.
ReadConfig ==
  /\ pc \in {"config get", "config"}
  /\ End(IF pc = "config" THEN InvalidInput ELSE 0)
  /\ UNCHANGED <<session, cell, verdict, answers, changed>>

\* Mutant: somebody who cannot be asked is taken to agree.
SystemApprovalLax ==
  /\ pc = "enable"
  /\ IF args.yes \/ host.auto THEN pc' = "call" /\ UNCHANGED answers
     ELSE IF host.tty THEN pc' = "call" /\ answers' = answers + 1
     ELSE pc' = "call" /\ UNCHANGED answers
  /\ UNCHANGED <<session, runs, cell, verdict, changed, exit>>

\* require_approval_for_system_command: always asked for, whatever the rules
\* say; the user says yes, says no, or lets the time run out.
SystemApproval ==
  /\ pc = "enable"
  /\ \/ /\ args.yes \/ host.auto
        /\ pc' = "call"
        /\ UNCHANGED <<answers, runs, exit>>
     \/ /\ ~ args.yes /\ ~ host.auto /\ host.tty
        /\ pc' = "call" /\ answers' = answers + 1
        /\ UNCHANGED <<runs, exit>>
     \/ /\ ~ args.yes /\ ~ host.auto
        /\ End(ApprovalDenied)
        /\ UNCHANGED answers
  /\ UNCHANGED <<session, cell, verdict, changed>>

\* call_system_module gives the pipeline no context, whatever identity was
\* asserted.
SystemCall ==
  /\ pc \in {"health", "call"}
  /\ LET surface == IF pc = "call" THEN "enable" ELSE "health"
         decision == Gate(InPipeline(NoContext), "with")
     IN  IF ~ host.registered
           THEN End(44) /\ UNCHANGED verdict
           ELSE /\ verdict' = [verdict EXCEPT ![surface] = decision]
                /\ IF decision = "deny" THEN End(AclDenied)
                   ELSE /\ pc' = IF pc = "call" THEN "approval" ELSE "read approval"
                        /\ UNCHANGED <<runs, exit>>
  /\ UNCHANGED <<session, cell, answers, changed>>

\* The approval gate of the pipeline: the annotation of a control module, or the
\* rule.  The handler of main knows nothing of --yes.
PipelineNeedsApproval ==
  IF pc = "approval" THEN host.annotated \/ verdict["enable"] = "approve"
  ELSE verdict["health"] = "approve"

PipelineApproval ==
  /\ pc \in {"approval", "read approval"}
  /\ \/ /\ ~ PipelineNeedsApproval \/ host.auto
        /\ pc' = IF pc = "approval" THEN "run" ELSE "read"
        /\ UNCHANGED <<answers, runs, exit>>
     \/ /\ PipelineNeedsApproval /\ ~ host.auto /\ host.tty
        /\ pc' = IF pc = "approval" THEN "run" ELSE "read"
        /\ answers' = answers + 1
        /\ UNCHANGED <<runs, exit>>
     \/ /\ PipelineNeedsApproval /\ ~ host.auto
        /\ End(ApprovalDenied)
        /\ UNCHANGED answers
  /\ UNCHANGED <<session, cell, verdict, changed>>

\* The module runs, and may fail before or after it has changed anything.
RunSystemModule ==
  /\ pc \in {"run", "read"}
  /\ \/ End(0) /\ changed' = (pc = "run")
     \/ \E code \in ModuleErrorCodes : End(code) /\ changed' \in {FALSE, pc = "run"}
  /\ UNCHANGED <<session, cell, verdict, answers>>

GNext ==
  \/ Start \/ ListRules \/ ValidateRules \/ Status \/ Check \/ CallGate
  \/ ReadConfig \/ SystemApproval \/ SystemCall \/ PipelineApproval \/ RunSystemModule

GSpec == GInit /\ [][GNext]_gvars

-----------------------------------------------------------------------------
(* Properties.                                                             *)

Verdicts == {Unset, "deny", "allow", "approve"}

\* acl check was told all that a call tells: who calls and with which arguments.
Informed ==
  /\ ~ IsEmpty(args.root) /\ IsEmpty(args.sub)
  /\ args.caller = "@external" /\ args.depth = NoDepth /\ args.input = args.callInput

\* One rule set, one decision: the gate of the delegated paths decides as the
\* pipeline does (acl_cmd.rs:146-160), and acl check foretells both when it is
\* told who calls and with what.
VerdictsAgree ==
  LET known == {s \in {"script", "exec"} \cup (IF Informed THEN {"check"} ELSE {}) :
                  verdict[s] # Unset}
  IN  \A s, t \in known : verdict[s] = verdict[t]

\* A control module runs only for somebody who said so: by --yes, by the
\* variable or at the prompt, at the gate of the command, and, where the rules
\* or its annotation demand approval, once more where --yes does not count; and
\* never against a rule that denies it (system_cmd.rs:283-293, main.rs:791-794).
ControlNeedsConsent ==
  changed =>
    /\ verdict["enable"] # "deny"
    /\ args.yes \/ host.auto \/ answers >= 1
    /\ (host.annotated \/ verdict["enable"] = "approve") /\ ~ host.auto
         => answers = IF args.yes THEN 1 ELSE 2
=============================================================================
