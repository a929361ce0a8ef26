------------------------------ MODULE Dispatch ------------------------------
(***************************************************************************)
(* One `apcore-cli <module> ...` process, from the parsed command line to  *)
(* its exit code: cli.rs dispatch_module, with the approval gate it calls, *)
(* the executor pipeline (the external apcore crate, modelled from its use *)
(* here), the subprocess it may spawn, the audit log it appends to, ctrl-C *)
(* and the death of the process at any moment.                             *)
(*                                                                         *)
(* An invocation is a record: the flags of the command line, what the      *)
(* registry says of the module, the attached access policy and the         *)
(* environment.  None of it changes while the process runs; what the       *)
(* process learns step by step (a bad id, an unknown module, rejected      *)
(* input, the user's answer) is chosen by the step that learns it.         *)
(***************************************************************************)
EXTENDS Integers, Sequences, FiniteSets

CONSTANT Invocations    \* the invocations considered, a set of records

\* The exit codes of lib.rs, and two that are not codes.
Success          == 0
ExecuteError     == 1
InvalidInput     == 2
NotFound         == 44
SchemaInvalid    == 45
ApprovalDenied   == 46
AclDenied        == 77
Panicked         == 101   \* a Rust panic: println! on a closed stdout
Interrupted      == 130
NoExit           == -1    \* still running
Killed           == -2    \* ended by a signal

\* Every code map_apcore_error_to_exit_code can return.
ModuleErrorCodes == {1, 44, 45, 46, 47, 48, 65, 66, 70, 77, 78}

(***************************************************************************)
(* stdin  --input -: the input is read from stdin to its end              *)
(* kind   "native": code in this process (an embedder's module)            *)
(*        "script": an executable found by FsDiscoverer, registered as a   *)
(*                  placeholder whose execute always fails                 *)
(*        "placeholder": registered by FsDiscoverer without an executable  *)
(* ann    annotations.requires_approval; "absent" has no annotations       *)
(* acl    "none": no ACL attached; "deny", "allow", "approve" (allowed,    *)
(*        with approval: required); "varies": a condition handler answers  *)
(*        each check afresh                                                *)
(* audit  "off": APCORE_CLI_AUDIT_DISABLE; "faulty": an append may fail    *)
(* aclAudit  "off", "allowed" (include_denied: false) or "all"             *)
(***************************************************************************)
InvocationSpace ==
  [kind : {"native", "script", "placeholder"},
   ann : {"absent", "optional", "required"},
   acl : {"none", "deny", "allow", "approve", "varies"},
   stdin : BOOLEAN, dryRun : BOOLEAN, stream : BOOLEAN, trace : BOOLEAN, sandbox : BOOLEAN,
   yes : BOOLEAN, token : BOOLEAN, autoApprove : BOOLEAN, tty : BOOLEAN,
   audit : {"off", "on", "faulty"},
   aclAudit : {"off", "allowed", "all"}]

\* FsDiscoverer gives every module it registers the default annotations.
ASSUME InvocationsAssumption ==
  /\ Invocations \subseteq InvocationSpace
  /\ \A i \in Invocations : i.kind # "native" => i.ann = "optional"

Stages == {"validate", "lookup", "input", "preflight", "schema", "acl_gate",
           "approval", "prompt", "launch", "pipe_approval", "pipe_prompt",
           "pipe_run", "race", "print", "audit", "report", "done"}

\* The stages inside `tokio::select! { call, ctrl_c }`.
RaceStages == {"pipe_approval", "pipe_prompt", "pipe_run", "race"}

Records == [kind : {"exec"}, status : {"success", "error"}, code : Int]
             \cup [kind : {"acl"}, decision : {"allow", "deny"}]

VARIABLES
  inv,        \* the invocation
  pc,         \* how far dispatch_module has come
  decision,   \* the last answer of the ACL
  consented,  \* somebody, or a bypass flag, approved the call
  body,       \* the module's code: "idle", "running", "ended", "killed"
  effects,    \* how many times it took effect
  result,     \* the exit code the execution earned
  printed,    \* its value reached stdout
  log,        \* what this process appended to audit.jsonl
  exit        \* the exit code, NoExit or Killed

vars == <<inv, pc, decision, consented, body, effects, result, printed, log, exit>>

-----------------------------------------------------------------------------
\* Which of the three mechanisms runs the module: --stream looks at the
\* executable only, --trace at neither, the default path at both.
Path(i) ==
  IF i.kind = "script" /\ (i.stream \/ ~i.trace) THEN "script"
  ELSE IF i.sandbox /\ ~i.stream /\ ~i.trace THEN "sandbox"
  ELSE "pipeline"

\* Mutant: script modules are not counted among the bypasses.
BypassesSandboxOnly(i) == i.sandbox

\* bypasses_executor_acl: the call may reach a mechanism without the ACL.
Bypasses(i) == i.kind = "script" \/ i.sandbox

\* What acl.check_access can answer.
Decisions(i) ==
  CASE i.acl = "none" -> {}
    [] i.acl = "varies" -> {"deny", "allow", "approve"}
    [] OTHER -> {i.acl}

\* Module code that can do something once entered: a placeholder cannot, and
\* the sandbox child registers placeholders only.
CanAct(i) == \/ Path(i) = "script"
             \/ Path(i) = "pipeline" /\ i.kind = "native"

\* The gate of dispatch_module reads the annotation, rewritten to TRUE by an
\* ACL rule when there are annotations to rewrite, on the delegated paths.
DirectNeedsApproval ==
  \/ inv.ann = "required"
  \/ Bypasses(inv) /\ decision = "approve" /\ inv.ann # "absent"

\* The gate of the pipeline: the union of the annotation and the ACL rule.
PolicyNeedsApproval == inv.ann = "required" \/ decision = "approve"

\* What AuditLogger::append leaves in the log, given one record.
Appended(r) ==
  CASE inv.audit = "off" -> {log}
    [] inv.audit = "on" -> {Append(log, r)}
    [] OTHER -> {log, Append(log, r)}

\* Mutant: a status the log's readers do not know.
ExecRecordFailure(code) == [kind |-> "exec", code |-> code,
                            status |-> IF code = Success THEN "success" ELSE "failure"]

ExecRecord(code) == [kind |-> "exec", code |-> code,
                     status |-> IF code = Success THEN "success" ELSE "error"]

AclRecord(d) == [kind |-> "acl", decision |-> IF d = "deny" THEN d ELSE "allow"]

\* The audit callback of install_acl_audit_logger, on one decision.
AclLogged(d) ==
  IF inv.aclAudit = "all" \/ (inv.aclAudit = "allowed" /\ d # "deny")
    THEN Appended(AclRecord(d))
    ELSE {log}

Exit(code) == pc' = "done" /\ exit' = code
Goto(stage) == pc' = stage /\ UNCHANGED exit

\* A message on stderr, then the exit; eprintln! panics on a closed stderr.
Refuse(code) == Exit(code) \/ Exit(Panicked)

\* An execution that failed: audited, reported, and only then the exit.
Fail(code) == result' = code /\ Goto("audit")

-----------------------------------------------------------------------------
Init ==
  /\ inv \in Invocations
  /\ pc = "validate"
  /\ decision = "unasked"
  /\ consented = FALSE
  /\ body = "idle"
  /\ effects = 0
  /\ result = NoExit
  /\ printed = FALSE
  /\ log = <<>>
  /\ exit = NoExit

\* validate_module_id_or_exit
ValidateId ==
  /\ pc = "validate"
  /\ Goto("lookup") \/ Refuse(InvalidInput)
  /\ UNCHANGED <<inv, decision, consented, body, effects, result, printed, log>>

\* registry.get_module_descriptor
LookUp ==
  /\ pc = "lookup"
  /\ Goto("input") \/ Refuse(NotFound)
  /\ UNCHANGED <<inv, decision, consented, body, effects, result, printed, log>>

\* collect_input, after which --dry-run leaves the common path
CollectInput ==
  /\ pc = "input"
  /\ \/ Refuse(InvalidInput)
     \/ inv.dryRun /\ Goto("preflight")
     \/ ~inv.dryRun /\ Goto("schema")
  /\ UNCHANGED <<inv, decision, consented, body, effects, result, printed, log>>

\* build_preflight_result calls the module system.validate through the same
\* executor, so an attached ACL is asked about *that* module; when there is no
\* such module, or it is denied, only the schema is checked.
Preflight ==
  /\ pc = "preflight"
  /\ \E code \in {Success, ExecuteError, InvalidInput, NotFound,
                  SchemaInvalid, ApprovalDenied, AclDenied, Panicked} : Exit(code)
  /\ \/ UNCHANGED log
     \/ inv.acl # "none" /\ \E d \in {"deny", "allow"} : log' \in AclLogged(d)
  /\ UNCHANGED <<inv, decision, consented, body, effects, result, printed>>

ValidateSchema ==
  /\ pc = "schema"
  /\ Goto("acl_gate") \/ Refuse(SchemaInvalid)
  /\ UNCHANGED <<inv, decision, consented, body, effects, result, printed, log>>

\* The gate for the calls the executor's own acl_check will not see.
AclGate ==
  /\ pc = "acl_gate"
  /\ IF Bypasses(inv) /\ inv.acl # "none"
       THEN \E d \in Decisions(inv) :
              /\ decision' = d
              /\ log' \in AclLogged(d)
              /\ IF d = "deny" THEN Refuse(AclDenied) ELSE Goto("approval")
       ELSE Goto("approval") /\ UNCHANGED <<decision, log>>
  /\ UNCHANGED <<inv, consented, body, effects, result, printed>>

\* check_approval_with_tty_timeout.  The --approval-token flag, injected into
\* the input before this gate, plays no part in it.
ApprovalGate ==
  /\ pc = "approval"
  /\ IF ~DirectNeedsApproval THEN Goto("launch") /\ UNCHANGED consented
     ELSE IF inv.yes \/ inv.autoApprove
       THEN Goto("launch") /\ consented' = TRUE
       ELSE /\ IF inv.tty THEN Goto("prompt") ELSE Refuse(ApprovalDenied)
            /\ UNCHANGED consented
  /\ UNCHANGED <<inv, decision, body, effects, result, printed, log>>

\* prompt_with_reader: the line arrives, or the sleep ends first.
PromptAnswered ==
  /\ pc = "prompt"
  /\ \/ Goto("launch") /\ consented' = TRUE
     \/ Refuse(ApprovalDenied) /\ UNCHANGED consented
  /\ UNCHANGED <<inv, decision, body, effects, result, printed, log>>

\* Mutant: timeout_secs = 0 waits for ever.
PromptTimeoutNever == pc = "prompt" /\ FALSE

PromptTimeout ==
  /\ pc = "prompt"
  /\ Refuse(ApprovalDenied)
  /\ UNCHANGED <<inv, decision, consented, body, effects, result, printed, log>>

-----------------------------------------------------------------------------
\* execute_script: spawn the executable, or fail to.
LaunchScript ==
  /\ pc = "launch"
  /\ Path(inv) = "script"
  /\ \/ body' = "running" /\ Goto("race") /\ UNCHANGED result
     \/ Fail(ExecuteError) /\ UNCHANGED body
  /\ UNCHANGED <<inv, decision, consented, effects, printed, log>>

\* Mutant: the child is spawned and the ACL asked while it runs.
LaunchSandboxFirst ==
  /\ pc = "launch"
  /\ Path(inv) = "sandbox"
  /\ \/ /\ body = "idle" /\ body' = "running"
        /\ UNCHANGED <<pc, exit, decision, log, result>>
     \/ /\ body = "running"
        /\ \E d \in Decisions(inv) :
             /\ decision' = d
             /\ log' \in AclLogged(d)
             /\ IF d = "deny"
                  THEN Fail(ExecuteError) /\ body' = "killed"
                  ELSE Goto("race") /\ UNCHANGED <<body, result>>
  /\ UNCHANGED <<inv, consented, effects, printed>>

\* Sandbox::execute: ask the ACL once more, then spawn the runner.  A denial
\* here is an execution error, not a refusal.
LaunchSandbox ==
  /\ pc = "launch"
  /\ Path(inv) = "sandbox"
  /\ \/ /\ inv.acl = "none"
        /\ body' = "running" /\ Goto("race")
        /\ UNCHANGED <<decision, result, log>>
     \/ \E d \in Decisions(inv) :
          /\ decision' = d
          /\ log' \in AclLogged(d)
          /\ IF d = "deny"
               THEN Fail(ExecuteError) /\ UNCHANGED body
               ELSE body' = "running" /\ Goto("race") /\ UNCHANGED result
  /\ UNCHANGED <<inv, consented, effects, printed>>

\* Executor::call up to and including its acl_check: the executor may not
\* know the module (its registry is another scan), or the ACL may deny it.
EnterPipeline ==
  /\ pc = "launch"
  /\ Path(inv) = "pipeline"
  /\ \/ Fail(NotFound) /\ UNCHANGED <<decision, log>>
     \/ /\ inv.acl = "none"
        /\ Goto("pipe_approval")
        /\ UNCHANGED <<decision, result, log>>
     \/ \E d \in Decisions(inv) :
          /\ decision' = d
          /\ log' \in AclLogged(d)
          /\ IF d = "deny" THEN Fail(AclDenied)
             ELSE Goto("pipe_approval") /\ UNCHANGED result
  /\ UNCHANGED <<inv, consented, body, effects, printed>>

\* The approval gate of the pipeline asks the CliApprovalHandler installed by
\* main, which was built with auto_approve = false: --yes is not known here.
\* A token goes to the handler's check_approval, which rejects every token.
PipelineApproval ==
  /\ pc = "pipe_approval"
  /\ IF ~PolicyNeedsApproval THEN Goto("pipe_run") /\ UNCHANGED <<consented, result>>
     ELSE IF inv.token THEN Fail(ApprovalDenied) /\ UNCHANGED consented
     ELSE IF inv.autoApprove
       THEN Goto("pipe_run") /\ consented' = TRUE /\ UNCHANGED result
       ELSE /\ IF inv.tty THEN Goto("pipe_prompt") /\ UNCHANGED result
                          ELSE Fail(ApprovalDenied)
            /\ UNCHANGED consented
  /\ UNCHANGED <<inv, decision, body, effects, printed, log>>

PipelinePromptAnswered ==
  /\ pc = "pipe_prompt"
  /\ \/ Goto("pipe_run") /\ consented' = TRUE /\ UNCHANGED result
     \/ Fail(ApprovalDenied) /\ UNCHANGED consented
  /\ UNCHANGED <<inv, decision, body, effects, printed, log>>

PipelinePromptTimeout ==
  /\ pc = "pipe_prompt"
  /\ Fail(ApprovalDenied)
  /\ UNCHANGED <<inv, decision, consented, body, effects, printed, log>>

\* The rest of the pipeline: input validation, then the module's execute.
RunInProcess ==
  /\ pc = "pipe_run"
  /\ \/ inv.kind = "native" /\ body' = "running" /\ Goto("race") /\ UNCHANGED result
     \/ inv.kind = "native" /\ Fail(SchemaInvalid) /\ UNCHANGED body
     \/ inv.kind # "native" /\ Fail(ExecuteError) /\ UNCHANGED body
  /\ UNCHANGED <<inv, decision, consented, effects, printed, log>>

-----------------------------------------------------------------------------
\* The module's code runs on its own: a spawned child needs no parent.
BodyTakesEffect ==
  /\ body = "running"
  /\ CanAct(inv)
  /\ effects = 0
  /\ effects' = 1
  /\ UNCHANGED <<inv, pc, decision, consented, body, result, printed, log, exit>>

BodyEnds ==
  /\ body = "running"
  /\ body' = "ended"
  /\ UNCHANGED <<inv, pc, decision, consented, effects, result, printed, log, exit>>

\* Mutant: a script's own exit code becomes the code of the call.
BodyObservedRawCode ==
  /\ pc = "race"
  /\ body = "ended"
  /\ \/ effects = 1 /\ result' = Success /\ Goto("print")
     \/ \E code \in ModuleErrorCodes : Fail(code)
  /\ UNCHANGED <<inv, decision, consented, body, effects, printed, log>>

\* The select! yields the outcome.  Only code that did its work can succeed;
\* it may still be reported as failed (bad JSON on stdout, a broken stdin).
BodyObserved ==
  /\ pc = "race"
  /\ body = "ended"
  /\ \/ effects = 1 /\ result' = Success /\ Goto("print")
     \/ \E code \in (IF Path(inv) = "pipeline" THEN ModuleErrorCodes
                                               ELSE {ExecuteError}) : Fail(code)
  /\ UNCHANGED <<inv, decision, consented, body, effects, printed, log>>

\* The call gives up on running code and drops it: a module timeout, the
\* sandbox's timeout or output cap, a failed write to the child's stdin.
BodyAbandoned ==
  /\ pc = "race"
  /\ body = "running"
  /\ body' = "killed"
  /\ Fail(ExecuteError)
  /\ UNCHANGED <<inv, decision, consented, effects, printed, log>>

\* Mutant: the child is spawned without kill_on_drop.
CancelLeavesChild ==
  /\ pc \in RaceStages
  /\ Refuse(Interrupted)
  /\ UNCHANGED <<inv, decision, consented, body, effects, result, printed, log>>

\* ctrl-C inside select!: the other branch is dropped, kill_on_drop and the
\* exit of the process stop the module's code; nothing is audited.
Cancel ==
  /\ pc \in RaceStages
  /\ Refuse(Interrupted)
  /\ body' = IF body = "running" THEN "killed" ELSE body
  /\ UNCHANGED <<inv, decision, consented, effects, result, printed, log>>

\* SIGKILL at any stage, or SIGINT before tokio's handler is installed: code
\* in this process stops, a spawned child lives on.
Die ==
  /\ pc # "done"
  /\ Exit(Killed)
  /\ body' = IF body = "running" /\ Path(inv) = "pipeline" THEN "killed" ELSE body
  /\ UNCHANGED <<inv, decision, consented, effects, result, printed, log>>

-----------------------------------------------------------------------------
\* Mutant: a failed write to stdout is ignored.
PrintResultIgnored ==
  /\ pc = "print"
  /\ printed' \in BOOLEAN
  /\ Goto("audit")
  /\ UNCHANGED <<inv, decision, consented, body, effects, result, log>>

\* Mutant: a path that prints and exits without audit_success.
PrintResultNoAudit ==
  /\ pc = "print"
  /\ printed' = TRUE
  /\ Exit(Success)
  /\ UNCHANGED <<inv, decision, consented, body, effects, result, log>>

\* print_exec_result before audit_success; println! panics on a closed stdout.
PrintResult ==
  /\ pc = "print"
  /\ \/ printed' = TRUE /\ Goto("audit")
     \/ Exit(Panicked) /\ UNCHANGED printed
  /\ UNCHANGED <<inv, decision, consented, body, effects, result, log>>

\* audit_success and exit, or audit_error and the report.
Audit ==
  /\ pc = "audit"
  /\ log' \in Appended(ExecRecord(result))
  /\ IF result = Success THEN Exit(Success) ELSE Goto("report")
  /\ UNCHANGED <<inv, decision, consented, body, effects, result, printed>>

\* emit_error_json, emit_error_tty or eprintln!, then the exit code.
ReportError ==
  /\ pc = "report"
  /\ Refuse(result)
  /\ UNCHANGED <<inv, decision, consented, body, effects, result, printed, log>>

Gates == \/ ValidateId \/ LookUp \/ CollectInput \/ Preflight \/ ValidateSchema
         \/ AclGate \/ ApprovalGate \/ PromptTimeout

Execution == \/ LaunchScript \/ LaunchSandbox \/ EnterPipeline
             \/ PipelineApproval \/ PipelinePromptTimeout \/ RunInProcess
             \/ BodyObserved

Reporting == PrintResult \/ Audit \/ ReportError

\* What others do: the user, the module's code, the operating system.
UserAnswers == PromptAnswered \/ PipelinePromptAnswered

ModuleCode == BodyTakesEffect \/ BodyEnds \/ BodyAbandoned

Signals == Cancel \/ Die

Next == Gates \/ Execution \/ Reporting \/ UserAnswers \/ ModuleCode \/ Signals

Spec == Init /\ [][Next]_vars

\* Where the process depends on somebody else: read_to_end of --input - on the
\* writer of stdin, the module's code on itself (a script that does not read is
\* written to without a time limit, and nothing bounds its running time), and a
\* value longer than the pipe on the reader of stdout.
WaitsForOthers ==
  \/ pc = "input" /\ inv.stdin
  \/ pc = "race" /\ body = "running"
  \/ pc = "print"

\* Everywhere else the process takes its next step while it can: a prompt nobody
\* answers times out.  The user, the module's code, the writer of stdin, the
\* reader of stdout and the operating system owe nothing.
FairSpec == /\ Spec
            /\ WF_vars(Gates /\ ~WaitsForOthers)
            /\ WF_vars(Execution)
            /\ WF_vars(Reporting /\ ~WaitsForOthers)

-----------------------------------------------------------------------------
(* Properties. *)

\* Every variable has its type.
TypeOK ==
  /\ inv \in InvocationSpace
  /\ pc \in Stages
  /\ decision \in {"unasked", "deny", "allow", "approve"}
  /\ consented \in BOOLEAN
  /\ body \in {"idle", "running", "ended", "killed"}
  /\ effects \in 0..1
  /\ result \in ModuleErrorCodes \cup {NoExit, Success}
  /\ printed \in BOOLEAN
  /\ log \in Seq(Records)
  /\ exit \in Int

\* Module code takes effect only under an ACL that last said yes, and with the
\* approval the annotation or the ACL rule asks for, on all three paths: no
\* combination of --sandbox, --stream, --trace, --yes and a token goes around
\* the gates of dispatch_module and of the pipeline.
AuthorizedEffect ==
  effects > 0 => /\ inv.acl # "none" => decision \in {"allow", "approve"}
                 /\ PolicyNeedsApproval => consented

\* A caller who reads a refusal (2, 44, 45, 46, 77) may retry: the module did
\* not run.  In-process module code may raise the same codes itself, so there
\* it is claimed only of exits taken before Executor::call.
RefusalIsInert ==
  exit \in {InvalidInput, NotFound, SchemaInvalid, ApprovalDenied, AclDenied}
    /\ (Path(inv) # "pipeline" \/ result = NoExit)
  => body = "idle" /\ effects = 0

\* Exit code 0 means that the module did its work, its value was printed and,
\* with a working audit log, the success is on record; of a dry run it means
\* that no module code was entered.
SuccessMeansDone ==
  exit = Success =>
    IF inv.dryRun THEN body = "idle"
    ELSE /\ effects = 1
         /\ printed
         /\ inv.audit = "on" =>
              \E k \in DOMAIN log : log[k] = ExecRecord(Success)

\* An execution record is the last line the process writes, so there is at most
\* one, it agrees with the exit code the caller gets unless the process is
\* killed or panics after it, and "success" is written only of a call that took
\* effect and whose value was printed.
ExecRecordsTrue ==
  \A k \in DOMAIN log :
    log[k].kind = "exec" =>
      /\ k = Len(log)
      /\ log[k].code = result
      /\ exit \in {NoExit, Killed, Panicked, result}
      /\ log[k].status = "success" => printed /\ effects = 1

\* An effect under an audited ACL is preceded by the record of its permission:
\* whichever gate decided last, its answer is the last decision in the log.
EffectHasDecisionRecord ==
  effects > 0 /\ inv.acl # "none" /\ inv.aclAudit # "off" /\ inv.audit = "on" =>
    \E k \in DOMAIN log :
      /\ log[k] = AclRecord("allow")
      /\ \A j \in k + 1 .. Len(log) : log[j].kind = "exec"

\* The log can be believed, by who reads it for the calls (audit.rs:229-270) and
\* by who reads it for the decisions (acl_loader.rs:318-408).
AuditFaithful == ExecRecordsTrue /\ EffectHasDecisionRecord

\* Once the process has exited by itself its module has no further effect, the
\* spawned child of a cancelled call included; killed, it can only leave a
\* child behind, never in-process code.
NothingAfterExit ==
  [][exit # NoExit /\ (exit # Killed \/ Path(inv) = "pipeline")
       => UNCHANGED effects]_vars

\* What was decided and approved is not reconsidered once code is entered: the
\* answer module code was started under is the one on record when it ends.
GatesComeFirst ==
  [][body # "idle" => UNCHANGED <<decision, consented>>]_vars

\* A call ends, or waits for somebody else for good: never for an answer to a
\* prompt, and never for a step of its own, whichever of the paths it takes.
CallsEnd == <>[](pc = "done" \/ WaitsForOthers)

Entered == body # "idle" /\ CanAct(inv)

\* What the caller may read off the exit code (lib.rs:46-80) without knowing
\* what happened: 2 and, on the delegated paths, the other refusal codes say
\* that the call may be repeated; an in-process module may raise those itself,
\* so there they say as little as 1, 101 and 130.
Verdict ==
  IF exit = NoExit THEN "none"
  ELSE IF exit = Killed THEN "lost"
  ELSE IF \/ inv.dryRun \/ exit = InvalidInput
          \/ /\ Path(inv) # "pipeline"
             /\ exit \in {NotFound, SchemaInvalid, ApprovalDenied, AclDenied}
    THEN "not_run"
  ELSE IF exit = Success THEN "success" ELSE "unclear"

Gated == INSTANCE GatedExecution WITH
  permitted <- inv.acl = "none" \/ decision \in {"allow", "approve"},
  consented <- PolicyNeedsApproval => consented,
  ran <- Entered,
  effects <- effects,
  verdict <- Verdict

\* Every path of dispatch_module implements the abstract promise, with the policy
\* and the consent read off the gates' answers and the verdict off the exit code.
ImplementsGatedExecution == Gated!GSpec
-----------------------------------------------------------------------------
(* The inductive invariant the theorems of DispatchProofs rest on. *)

AclPassed == inv.acl # "none" => decision \in {"allow", "approve"}

ConsentGiven == PolicyNeedsApproval => consented

\* Module code is entered under both answers.
EnteredAuthorized == body # "idle" /\ CanAct(inv) => AclPassed /\ ConsentGiven

\* No code is entered before its launch, none runs but during the race or as
\* the orphan of a killed process, and an outcome is known before its audit.
BodyStages ==
  /\ pc \notin {"race", "print", "audit", "report", "done"} => body = "idle"
  /\ body = "running" =>
       pc = "race" \/ (exit = Killed /\ Path(inv) # "pipeline")
  /\ effects > 0 => body # "idle" /\ CanAct(inv)
  /\ exit = NoExit <=> pc # "done"
  /\ pc \in {"print", "audit", "report"} => result # NoExit

\* What each gate has established for the stages behind it.
GateStages ==
  /\ pc \in {"approval", "prompt", "launch"} /\ Bypasses(inv) => AclPassed
  /\ pc = "launch" => (DirectNeedsApproval => consented)
  /\ pc \in {"pipe_approval", "pipe_prompt", "pipe_run"} => AclPassed
  /\ pc = "pipe_run" => ConsentGiven

\* What makes AuthorizedEffect inductive: the answers the gates have given at
\* each stage, kept from the gate of dispatch_module to the end of the call.
GateInv ==
  /\ TypeOK
  /\ inv.kind # "native" => inv.ann = "optional"
  /\ EnteredAuthorized
  /\ BodyStages
  /\ GateStages

\* What the execution has earned at each stage, and which stages a dry run and
\* each of the three paths reach.
OutcomeStages ==
  /\ inv.dryRun => /\ pc \in {"validate", "lookup", "input", "preflight", "done"}
                   /\ body = "idle"
  /\ pc = "preflight" => inv.dryRun
  /\ pc \in {"validate", "lookup", "input", "preflight", "schema", "acl_gate"}
       => decision = "unasked"
  /\ pc \in {"pipe_approval", "pipe_prompt", "pipe_run"} => Path(inv) = "pipeline"
  /\ Path(inv) # "pipeline" => result \in {NoExit, Success, ExecuteError}
  /\ pc = "print" => result = Success /\ effects = 1
  /\ pc = "audit" /\ result = Success => printed /\ effects = 1
  /\ pc = "report" => result # Success

\* Until the call is audited the log holds decisions only, and the last answer
\* that lets the call through is the last decision in it.
LogStages ==
  /\ pc \notin {"report", "done"} => \A k \in DOMAIN log : log[k].kind = "acl"
  /\ decision \in {"allow", "approve"} /\ inv.aclAudit # "off" /\ inv.audit = "on" =>
       \E k \in DOMAIN log :
         /\ log[k] = AclRecord("allow")
         /\ \A j \in k + 1 .. Len(log) : log[j].kind = "exec"

\* What makes RefusalIsInert, SuccessMeansDone and AuditFaithful inductive, given
\* GateInv.
OutcomeInv == OutcomeStages /\ LogStages /\ RefusalIsInert /\ SuccessMeansDone /\ ExecRecordsTrue
=============================================================================
