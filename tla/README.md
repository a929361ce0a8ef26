# A TLA+ model of apcore-cli

`apcore-cli` makes a command line out of a directory of modules: every
`module.json` it finds becomes a command, the schema in it becomes flags, and a
call of the command runs the module behind an access policy, an approval prompt
and an audit log.  This directory holds a TLA+ model of that program, the TLC
configurations that check it, and proofs for TLAPS.  `src/` below is the
repository's root (the crate's own sources are in `src/src/`).

How to run it, in this directory:

    tlc -workers 2 -config dispatch.cfg MCDispatch     # and the other pairs below
    tlapm DispatchProofs.tla                           # and the other *Proofs modules

`PROJECT.json` lists the runs, the mutants that show that each property can
fail, the lines of code behind every definition, the hazards and the theorems.

## 1. The system

### Components

| component | state it keeps | operations | what makes it correct | model |
|---|---|---|---|---|
| dispatch (`cli.rs`) | nothing but its position; global cells it reads: executor, ACL attached, executables, audit logger | `dispatch_module`: id, lookup, input, dry run, schema, ACL gate, approval gate, three ways to execute, ctrl-C, output, audit, exit code | no effect without permission and consent, on any path; the exit code and the audit record tell the truth | `Dispatch`, `GatedExecution` |
| input (`cli.rs`, `schema_parser.rs`) | none | `extract_cli_kwargs`, `reconcile_bool_pairs`, `collect_input`, `validate_against_schema` | what was given reaches the module; the size limit is exact; every flag is of one property | `SchemaFlags`, `ModuleInput` |
| approval (`approval.rs`) | a reader thread that outlives its prompt, the lock of stdin | `check_approval*`, `prompt_with_reader`, `CliApprovalHandler` | a yes approves one prompt, its own, in time | `ApprovalPrompt`, `Dispatch` |
| children (`cli.rs`, `security/sandbox.rs`) | three pipes, bytes collected, the child | `execute_script`, `_sandboxed_execute`, `collect_capped_output` | complete output, bounded memory, and what a call may wait for | `ChildIO` |
| sandbox runner (`sandbox_runner.rs`) | a registry of its own | one scan and one call | it is the child of the above | `ChildIO` (as the child) |
| audit log (`security/audit.rs`, `system_usage.rs`) | `~/.apcore-cli/audit.jsonl`, shared by all processes; one flag "warned" | `append`, `compute_summary` | a record that was reported written can be read back; damage is local | `AuditLog`, `Dispatch` |
| start-up (`main.rs`, `lib.rs`, `fs_discoverer.rs`) | the registries, the snapshot of executables, descriptions, command tree | three scans, `build_cli_command`, `attach_acl` | the scans agree about files nobody touches; an ACL that was found is enforced | `Startup` |
| configuration (`config.rs`, `acl_loader.rs`, `builtin_group.rs`) | `apcore.yaml` as read | `resolve`, `resolve_acl_root`, `resolve_visibility` | precedence of the tiers, seals, unknown words | `Configuration` |
| ACL commands (`acl_cmd.rs`) | the cell `CLI_IDENTITY` | `acl list / check / validate / status`, contexts of the gates | one rule set gives one answer on every surface | `Governance` |
| system commands (`system_cmd.rs`) | none | `health`, `usage`, `enable`, `disable`, `reload`, `config` | a control command needs consent | `Governance` |
| references (`ref_resolver.rs`) | the set of pointers being followed | `resolve_refs` | refuses exactly the bad schemas; merging keeps the meaning | `RefResolver` |
| list and describe (`discovery.rs`, `output.rs`, `system_usage.rs`), exposure (`exposure.rs`) | none; they read the provider and the audit log | `cmd_list_enhanced`, `cmd_describe`, `sort_modules_by_usage`, `truncate`; `ExposureFilter` | the filters share the modules out; the order is the one asked for; a star stops at a dot | `Exposure`, `Catalogue` |
| config encryption (`security/config_encryptor.rs`), authentication (`security/auth.rs`) | the machine's keyring, the entry in the file | `store`, `retrieve`; `get_api_key`, `authenticate_request`, `handle_response` | a request sends the file's own key; what was stored is lost only for a reason; a header is one line | `Secrets` |
| openapi (`openapi_cmd.rs`, `openapi_source.rs`), init (`init_cmd.rs`) | the directory they write into | `run_scan`, `dispatch_generate`, `write_modules`; `handle_init` and its three styles | what is there stays; what is written was listed; success leaves no file unaccounted for; a refusal writes nothing | `Artifacts` |
| validate (`validate.rs`) | none | preflight report | the code of the first failing check | in part (`Dispatch`) |
| strategy (`strategy.rs`) | none | names of strategies | `--strategy` adds a warning and a word of the trace (`cli.rs:1532-1534`) and changes nothing else | left out |
| the rest of output (`output.rs`, `display_helpers.rs`), shell completion (`shell.rs`) | none | text generated | - | left out |

### How they interact

    main --scan 1--> registry of the executor, EXECUTABLES   --+
         --scan 2--> descriptions --> command tree (clap)      |
         --ACL-----> executor.acl, decision log                +--> dispatch_module
         --scan 3--> provider of list/describe/gates          --+        |
                                                                          v
      input -> schema -> ACL gate* -> approval gate -> execute_script | Sandbox | Executor::call
      (* only for the two paths whose calls the executor's own ACL check      |
         does not see)                                     ctrl-C, timeouts, caps, exit
                                                                          |
                                                         stdout, audit.jsonl, exit code

The components meet in global cells written once during start-up and read by
`dispatch_module`, in the audit log (every process appends to it) and in
standard input (the prompt of the approval gate, the prompt of the pipeline and
`--input -` all read it).

### Which behaviours are hard

The hazards, each with its line, are in `PROJECT.json`.  In short:

* two gates decide the same thing at different times, from different data, on
  three paths (script, sandbox, pipeline) selected by four flags;
* ctrl-C, time limits, caps and death race with module code, with the output and
  with the audit record;
* a parent and a child each blocked on a full pipe, the parent before its time limit
  has started;
* a reader thread that nobody can cancel keeps the lock of stdin;
* processes append to one log without a lock, with short writes, and may die in the
  middle of one;
* the extensions directory is read three times while others may edit it;
* an ACL that cannot be read must stop the program, one that is not there not, and
  which of the two it is is looked up twice;
* the context of a decision (identity, arguments) differs from surface to
  surface;
* values of clap's that look like the user's; booleans made of two flags, and
  names that differ in a dash;
* one keyring entry for all files of a machine, replaced before the file that
  refers to it is saved;
* names made file names, which may collide and are numbered anew, and several files
  written one by one;
* an order that comes from a log that others write.

## 2. The modules and the code

Names follow the source where TLA+ allows it, and every definition's comment
says which function it models.  `PROJECT.json` "map" has the lines.

### `Dispatch` - one call, from the parsed flags to the exit code

An invocation is a record chosen in `Init`: kind of module (native code of an
embedder, an executable script, a placeholder), its annotation, the policy, the
flags (`--dry-run --stream --trace --sandbox --yes --approval-token`), whether the
input comes from stdin (`--input -`), the environment's auto-approve, whether there
is a terminal, and the two audit settings.  `pc` follows `dispatch_module`; each
step of it is an action, each early `exit` a disjunct.  `Path` is the code's choice
between `execute_script`, `Sandbox::execute` and `Executor::call`; `Bypasses` is its
`bypasses_executor_acl`.  `BodyTakesEffect` and `BodyEnds` are the module's code,
which runs on its own; `Cancel` is the `ctrl_c` branch of the `select!`; `Die` is a
signal that no handler sees.  `eprintln!` and `println!` panic on a closed stream,
so every refusal may end in 101 instead (`Refuse`).  The executor's pipeline is the
external crate `apcore`: the model has the order this code relies on (ACL, approval,
validation, execute).

`WaitsForOthers` names the three places where a call waits for somebody else:
`read_to_end` of `--input -` (`cli.rs:575`) for the writer of stdin, the race for
module code (a script is written to with `write_all` before anything of it is read,
`cli.rs:1085-1092`), and the output for the reader of stdout.

`GatedExecution` is the abstract promise: an effect at most once, only after
permission and consent, and a verdict that never says "success" of a call without
effect, nor "not run" of one whose code was entered.  `Dispatch!ImplementsGatedExecution`
is the refinement.  Its `Verdict` is what a caller can read off the exit code and
the call's own flags, without looking at what ran: 2 and, on the two delegated
paths, 44, 45, 46 and 77 mean "not run"; 0 means "success", of a dry run "not run";
everything else, the codes that an in-process module may raise itself among them,
is "unclear".

### `ChildIO` - parent, child and three pipes

Both parents in one module (`mode`).  A child is the list of what it still does:
read a chunk, write one, close one of its three ends early, exit, hang (before it
has read anything, if it likes), or exit and leave its ends to a background process
(`leave`; `held` are the ends still open).  `WriteInput` is `write_all`, chunk by
chunk, blocking on a full pipe, and `WriteBroken` its error when nobody can read any
more; only then do `ReadChunk`, `StreamEnds`, `ReadFails` and `Reap` follow.  A read
error ends a stream of the sandbox as its end does (`sandbox.rs:165`) and fails the
script path.  The sandbox has a cap after each chunk and a time limit that starts
after the input is written; scripts have neither.  `Return` drops the future, and
`kill_on_drop` the child.

### `ApprovalPrompt` - `prompt_with_reader`

Prompts of one process in a row.  `Ask` spawns the blocking reader, `LockStdin`
and `ReadLine` are that thread, `Resolve` and `TimeOut` the two branches of the
`select!`.  A thread whose prompt timed out stays.  A line may have been typed before
its prompt asks (`for` is the prompt on the screen at that time).  With a limit of
zero seconds the sleep has ended when it is first polled.  `binary` tells the
program, which exits after a refusal, from a library that goes on.

### `AuditLog` - the file that all processes append to

`Open`, `Write`, `WriteShort`, `WriteFails` and `Drop` are `AuditLogger::append` with
its `BufWriter`.  A bufferful is flushed by a loop of writes: `Write` puts all that
is left of it at the end of the file, `WriteShort` some of it, and another process
may append before the loop goes on.  `Crash` is a kill, between two steps or in the
middle of a write, of which a part then is on file.  A record is 2 units, or 4, in
two bufferfuls, when it is longer than the buffer; a short write may end inside a
character, and unless the rest follows the file is illegible to `read_to_string`.
`Whole`, `Legible` and `Counted` are `compute_summary`.  The warning printed once
per process is left out.

### `SchemaFlags` and `ModuleInput` - from the schema to the input of the call

`SchemaFlags` makes flags of the properties' names: `AddProperty` is one turn of
the loop of `schema_to_clap_args`, `BuildModuleCommand` adds the comparison with
the built-in flags.  A name is the sequence of its words and separators.

The names are all that joins the properties; the rest of the code works key by
key, so a call has the values of one property, the key, with neighbours that may
have its flag.  `Build` is the external arm of `main` (`apcli exec` skips it),
`ExtractCliKwargs` (clap's matches, boolean pairs, enum reconversion),
`CollectInput` (limit, JSON, merge) and `ValidateInput` the functions after it,
in this order; what runs is what was validated with the `_approval_token` written
into it (`WithToken`, `cli.rs:1242-1245`), over a property of that name if there is
one.  A JSON value is its text and its type, so that `"1"` and `1`
differ.  The command is built from the schema with its references resolved and
read back from the schema as registered, and the model has both.

### `Startup` and `Configuration` - from the command line to the command tree

`Configuration` holds pure operators: the precedence of each setting with its
own treatment of empty, blank, null and unknown values.  `Startup` evaluates
them at the points where `main.rs` does, between three scans (`Collect`,
`ReadModule`, `EndDiscovery` / `EndDescriptions` / `EndProvider`), `Build`, and
the steps of `attach_acl` (the root, the source shown, the look of the loader,
`Locate`, and its load), each of which looks at the file system afresh: `file` is
what the loader has found.  An `apcore.yaml` that is malformed or absent names no
root, so that the default is used; an ACL that is gone before the loader looks is
one that is not there, one gone after the look ends the program.  A file may have a
description or not; those read are noted file by file.  `Edit` changes one file
between any two of them.

### `Governance` - `acl` and system commands, and contexts

A session is a sequence of runs with one ACL file and one set of flags; `cell`
is `CLI_IDENTITY`.  `DelegatedContext`, `IdentityContext`, `CheckContext` and
`InPipeline` are the four ways a context comes about.  `CheckAccess` is external,
reduced to one condition of each kind.  `enable` stands for the commands that
change the system, `health` for the two that read.  What follows the gates of a
module call is in `Dispatch`.

### `RefResolver` - `$ref`, `allOf`, `anyOf`

`ResolveNode` is the recursion of the code, as a recursive function of the call:
the node, the depth and the names being visited.  A node has one composition that
is resolved (`allOf` before `anyOf`) and, in `beside`, what the code carries over or
drops without a look: the properties next to it, a second composition
(`ref_resolver.rs:268-272`), the neighbours of a `$ref` (186-221), the items of an
array (180-183).  The schemas are given by `Nodes`
with how deep each is nested (`Height`, at most `Nesting`), which is all that is
assumed of them: a JSON value is a finite tree.  The properties compare the
outcome with reference definitions that know nothing of the names being visited:
`Fits` and `Cyclic` speak of the pointers met in a text, `Meaning` of what a schema
asks of an object before anything is resolved, what stands beside included.

### `Secrets` - keyring, file and the key of a request

`StoreSecret` is `ConfigEncryptor::store`: the keyring when the probe finds one,
else the ciphertext; the token it returns is in the file only after `SaveToken`,
a step of the embedding program that may never come (`LoseToken`).  `Request` is
`authenticate_request` with the tiers of `ConfigResolver::resolve`.  A ciphertext
is its version, its secret and the key it was made with; a key is the rounds and
either the passphrase or host and user, so that a change of any is a key that
does not open it.  `meant` and `setBy` are history: what each file's owner last
stored, and whose store last set the shared entry.

### `Artifacts` - `openapi scan`, `openapi generate` and `init`

One command after the other on one directory.  A path is what the code compares:
directory, sanitised name, suffix.  `generate` lists the names of all modules
(`PlannedPaths`, what a dry run prints), drops the modules whose paths are taken, and
writes the others under names numbered anew (`Target`): of modules with one
name, the last may so get the path that the first was skipped for.  `WriteModule`
writes one file; `WriteUnverified` writes one that the check after the write finds
not in order, which is a warning (`warned`) and no error (`openapi_cmd.rs:599-602`);
`GenerateEnds` exits with 0 either way.  `Kill` ends a command between any two steps
or inside a write and leaves a torn file; `Edit` is the user.  `Hazards` is the
warning about operations whose query parameters a proxy would drop, read from the
operation's own parameters only; an operation also has those its path shares.  The
paths of `init` are those of its three styles.

### `Exposure` and `Catalogue` - `list` and `describe`

`Exposure` has the globs as the pieces of the regular expression that the code
compiles, and the two constructors (`from_config` refuses what `new` clamps).
`Catalogue` is one request after the other: `Selected` the filters in their order,
`Precedes` the orders with the fallback, `Sortings` what a sort by them may leave,
`Row` and `Detail` what is shown in each format, `Truncate` on bytes.  A log that
cannot be read as a whole (one cut character) counts as empty (`Legible`).  An
average is in twelfths, rounded down, which is exact for up to four calls of a
module.  Between requests other processes log calls and days pass.

### Composition

`Dispatch` leaves three of its steps coarse, and another module has them in
detail: the prompt (`PromptAnswered`, `PromptTimeout`: `ApprovalPrompt`), the
child (`BodyTakesEffect`, `BodyEnds`, `BodyAbandoned`: `ChildIO`), the append
(`Appended`: `AuditLog`).  Its `CollectInput` and `ValidateSchema` are
`ModuleInput`; its `inv.acl` is what `Startup` attached, its `decision` what
`Governance` says of the context.  `Startup` EXTENDS `Configuration`, `ModuleInput`
EXTENDS `SchemaFlags`, `Catalogue` EXTENDS `Exposure`; the registries `Catalogue`
lists are those that `Startup` fills, its log is that of `AuditLog`.  `Lists` has
the one helper several modules use: the elements of a list at chosen positions,
in their order (`retain`, `filter`).  The `MC*` modules give TLC its instances.

## 3. The runs

All runs but the last of the table finish with no error; each property has a mutant
in `PROJECT.json` that TLC finds it violated by.  Deadlock is checked where the
system goes on for ever (`secrets`, `catalogue`); the other processes end, and their
last state has no successor.

| run | distinct states | bounds |
|---|---|---|
| `dispatch` | 625 000 | none on the behaviour: one call takes about fifteen steps. The gates do not look at the audit settings nor the log at the bypass flags, so the two are enumerated apart, each with every module, policy and path |
| `child_io` | 41 000 | input of 2 chunks, pipes of 1, cap 2; every child of up to 4 reads and writes, or of up to 3 reads, writes and closes, that then exits, fails, hangs or leaves its ends behind, against both parents; every runner of up to 5 writes: each below, at, and above pipe and cap, on either stream |
| `prompt` | 27 000 | 3 prompts, 3 lines: one prompt that times out, one whose line is taken, one after |
| `audit_log` | 287 000 | 2 processes (symmetric), up to 2 records each, 3 faults (errors, short writes, kills), records of one and of two bufferfuls |
| `module_input` | 475 000 | one key, limit 2 bytes with 0, the limit and one more; five types; eleven layouts of the names: alone, with its negative before and after it, with its other spelling, reserved, named like an argument of `exec` or like the token |
| `startup` | 984 000 | 2 files, 3 names, 3 ACL roots, 1 edit at any moment; four families of worlds |
| `ref_resolver` | 508 000 | 2 properties, 2 definitions and a dangling name, schemas nested up to three levels, with neighbours, second compositions and arrays; depth limit 3 for the code's 32 |
| `governance` | 370 000 | every list of up to 2 rules out of 14, two runs in a row |
| `secrets` | 1 210 000 | 2 files, 3 secrets, 4 environments, 2 changes of environment or keyring |
| `artifacts` | 1 327 000 | 2 commands in a row, 1 edit by the user; documents of every state, ids that become one name or look numbered |
| `catalogue` | 386 000 | 2 registries, 6 pairs of patterns, requests with every filter, order and format, 2 lines in the log, limit of 8 bytes for the code's 80 with characters of one to four |
| `claim_bool_flag` | violated | as `module_input`, the key alone |

Why the bounds suffice: a second process, a second prompt, a second definition
or a second rule is where each of these starts to interact; a third process
cannot come between two bytes in a way that two cannot, and the third prompt is
there so that a stale reader can meet a prompt that is neither the first nor the
last.  Lists of rules are decided by the first that fits, so a pair has every
relation a longer list has.  What the bounds do leave out is said in section 6.

**`dispatch`** asks what a caller may conclude.  `AuthorizedEffect`: no
combination of path and bypass reaches module code without the ACL's permission
and the consent that the annotation or the rule demands.  `RefusalIsInert`: after
a refusal nothing has run.  `SuccessMeansDone`: 0 means done, printed and
recorded.  `AuditFaithful`: the records of calls and of decisions, in order.
`NothingAfterExit`, `GatesComeFirst`: no effect after an exit, no answer
revised.  `ImplementsGatedExecution`: the refinement, with the verdict read off the
exit code.  `CallsEnd`: a call ends, or waits for good at one of the three places of
`WaitsForOthers`; never for an answer to a prompt, and never for a step of its own.

**`child_io`** asks about the bytes: `OutputIsComplete` (the one exception is a read
error of the sandbox), `CollectionIsCapped` (overflow is bounded and reported, never
as a timeout), and `CallEnds`: what alone can keep a call from ending is its input
before a full pipe, on both paths, and a script that hangs or leaves its streams to
a process that does.

**`prompt`**: `ConsentIsItsOwn` (a prompt is approved by one line, a yes, typed
while it or an earlier one was on the screen, and no line approves two),
`OutcomeIsFinal`, and `NoStaleReader`, which is what the comment at `approval.rs:74`
rests on: the parked reader does no harm *because the program exits*.  Without
`binary` it is false.

**`audit_log`**: `LossIsContained` (records written in one write are in one piece; a
record that breaks off is damaged by a fault, by its length or by a short write, and
each break costs at most two acknowledged records) and `WholeIsForever`.

**`module_input`**: `FlagsAreUnambiguous` and `InputArrives` (by flag, on the standard
input, up to the limit); the claim `BoolFlagAsGiven` fails.

**`startup`**: `SettledModulesAgree` (a file that nobody edits is registered,
described, listed and run consistently whatever happens to the others),
`AclFailsClosed` (an ACL file that the loader has found is enforced, or the program
stops, whether it is bad, edited or taken away; calls are served without an ACL only
if there was none at a root that the settings name, where a malformed or absent
`apcore.yaml` names none; only the word for it switches the log of decisions off),
`GroupAsConfigured`.

**`ref_resolver`**: `RefusedExactly` (sharing is not a cycle, no cycle is missed,
the limit is where it is) and `MergeKeepsMeaning` (merging never asks for more
than the schema; every property declared outside of `beside` gets its flag, and a
pointer is left only where there was one in what is carried over as it is).

**`governance`**: `VerdictsAgree` (the gate of the delegated paths, the pipeline
and an informed `acl check` decide alike) and `ControlNeedsConsent`.

**`secrets`**: `OwnSecret` (the key sent for a file is the one last put there,
except through the shared entry after another file's store or an unsaved one),
`LostForCause` (a reference definition of the key derivation says what a cause
is), `HeaderIsClean`.

**`artifacts`**: `ExistingKept`, for documents in which no two ids become one name;
`WrittenAsListed` (although the names are numbered anew for the modules that are
left, nothing is written that a dry run does not list, for every document);
`FilesAccountedFor` (after success each listed path is whole, or a warning names it:
a file that an earlier run left torn is not passed over in silence); `RefusedIsInert`;
`ScaffoldIsComplete` (after `init` the module and, for a binding, the file of its
functions are there).

**`catalogue`**: `EachModuleOnOneList`, `OrderAsAsked`, `GlobsAsDocumented` (against
`Spells`, written from the documented meaning), `DescriptionsFit`.

### Claims of comments and documents, for checking by hand

Ten more configurations check what a comment, a help text or a document says, and
TLC finds each of them violated; section 5 quotes the text and says what the
counterexample shows.  They are run like the others, and are kept apart from the
runs of `PROJECT.json`, which answer one question of a component each.

| configuration | module | property |
|---|---|---|
| `claim_zero_waits` | `ApprovalPrompt` | `ZeroWaits` |
| `claim_sandbox_timeout` | `MCChildIO` | `SandboxIsTimed` |
| `claim_stdin_first` | `MCModuleInput` | `OnlyFlagsBeatStdin` |
| `claim_validated_before_run` | `MCModuleInput` | `ValidatedBeforeRun` |
| `claim_partial_last_line` | `MCAuditLog` | `PartialLastLineTolerated` |
| `claim_vanished_file` | `MCStartup` | `VanishedFileEnds` |
| `claim_refs_inlined` | `MCRefResolver` | `AllPointersInlined` |
| `claim_existing_skipped` | `MCArtifacts` | `ExistingAreSkipped` |
| `claim_dry_run_listing` | `MCArtifacts` | `ListedAreWritten` |
| `claim_hazards_reported` | `MCArtifacts` | `HazardsReported` |

### Fairness

* `Dispatch` (`FairSpec`): the process takes its next step while it can, timers
  included, so that a prompt nobody answers times out: weak fairness of `Execution`,
  and of `Gates` and `Reporting` where they do not wait for others.  Nothing is
  assumed of the user, of module code (`BodyEnds`), of the writer of stdin, of the
  reader of stdout, of ctrl-C or of death.  Stderr is taken to be drained or closed.
* `ChildIO` (`CFairSpec`): the child is scheduled, the parent polls, the timer of the
  sandbox fires.  A child that hangs is a program that ends in `"hang"`, which no
  fairness moves, and reads need not fail.
* The other modules claim no liveness.  In `ApprovalPrompt` the user types or not,
  and a reader thread may never get the lock.

## 4. What is proved

TLC checks instances; TLAPS proves the following for all values of the
constants.  The assumptions are the named `ASSUME`s of the modules, which TLC
evaluates in the runs.

**`ListsProofs`** (412 obligations).  The prover has no induction over data, and
what a recursive function computes for every input needs one.  This module gets it
from the library's theorem that the subsets of a finite set are well founded:
`LeastNumber` (of the intervals 0 .. n one is contained in all others),
`Induction` for a property given as the set of the numbers that have it,
`Iteration` (a loop whose body is a function of the state and the turn has its
states) and `SameIteration` (they are the only ones).  With these a recursive
function of a model is equal to the states of a loop, and an invariant of the loop
is one of the function.  `PickedElements` says so of `Picked`.

**`DispatchProofs`** (772 obligations; assumption `InvocationsAssumption`: the
invocations are well typed, and modules found on disk have the default
annotations).  `GateInvariant`: `Spec => []GateInv`.  `AuthorizedEffect` is not
inductive: nothing in it says that a call whose code is *about* to run has passed
its gates.  `GateInv` adds that.  `EnteredAuthorized` carries permission and
consent from the entry of the code on; `GateStages` says what each gate has
established for the stages behind it (the ACL before the approval on the two
delegated paths, the consent before the launch, the consent of the pipeline
before its run); `BodyStages` confines the code to the stages in which it may
run, so that no gate is passed again behind its back.  From it follow
`TypeCorrect`, `EffectIsAuthorized`, `NoEffectAfterExit` and `AnswersAreFinal`.
The premise about annotations is needed: a script without annotations would lose
the approval demanded by a rule on the script path (section 5).

What a call says of itself: `OutcomeInv`, on top of `GateInv`, has what the
execution has earned at each stage and which stages a dry run and each path reach
(`OutcomeStages`), and that until the call is audited the log holds decisions
only, the permission last (`LogStages`).  From it `RefusalsAreInert`,
`SuccessIsEarned` and `LogIsFaithful`.  `DispatchIsGated` is the refinement, as a
step simulation: with both invariants, each action is a step of `GatedExecution`
or changes none of what that module sees (`RefinementStep`).  What has to be shown of
each exit is that its code claims no more than was the case: a code that reads "not
run" is given only before code is entered, and 0 only after an effect.

**`CallProofs`** (2803 obligations) has the parts `Dispatch` leaves coarse.

* The child (`ChildAssumption`: at least one chunk per pipe).  `ChildInv` adds to
  the properties a conserved quantity, "written equals collected plus in the pipe",
  and that a stream the parent has done with is empty and has no writer, unless its
  reading failed.  From it `CompleteOutput` and `CappedCollection`, for every
  program, pipe, input and cap.
* The prompt (`PromptAssumption`: there is a prompt).  `PromptInv` ties each prompt
  to its reader (`ReaderOf`), and adds that in the program a prompt is shown only
  after consent to all before it (`InTurn`), that a waiting line was typed for a
  prompt that was shown (`Answers`), and that the lines read and the lines waiting
  are different ones.  With it `NoStaleReader` is inductive: where a thread still
  reads, no later prompt has been shown, so no line can be meant for one.  From it
  `ConsentIsOneYes`, `NoLineIsStolen` and `SettledStaysSettled`, for any number of
  prompts and lines.
* The input (`InputAssumption`: what a layout and a call are made of).  The loop
  over the properties is an iteration with the invariant that every flag entered is
  of one property or reserved (`AddPropertyEnters`, `SchemaFlagsEntered`); so a
  command that is built is unambiguous, for layouts of any length.  `InputInv` says
  of each stage that it has what the stages before made, and gives each refusal its
  reason; at the end it has the token written into what was validated.  From them
  `FlagsAreOwned` and `GivenArrives`.
* The references (`RefAssumption`; `NodesAssumption`: a node is well formed, and its
  parts are less deeply nested).  A call of `resolve_node` has a rank, the levels
  that the limit leaves before the nesting of its node, and makes calls of lesser
  rank only (`RankFalls`, `CallsBelow`).  By `Induction` over the ranks the
  recursive functions exist (`ResolveEnds`, `TextEnds`, `MeaningEnds`), so that each
  is what its definition says, and the same induction carries the rest.
  `RefusedForCause`: if a resolution succeeds the pointers met on the way are the
  set that `Fits` asks for; and in such a set each name is met deeper than all that
  lead to it (`TargetsAreDeeper`), so that no name being visited is met again, and
  the visited set refuses nothing that the limit would let pass (`FittingResolves`).
  The one met again closes a cycle (`CircularIsCyclic`).  `MergeIsFaithful`: both
  merges keep the meaning (`MeaningKept`), and what is resolved is clean at every
  level but for what the schema has beside (`ResolvedIsClean`).  For schemas of any
  number, size and nesting and any limit.

**`AuditLogProofs`** (1155 obligations; `AuditAssumption`: a process has at most two
records).  `FileInv` is five parts: types (`FileTypes`); what is on file of the record
under way is what is no longer in the buffer (`Buffered`); an acknowledged record is
on file to the last unit (`Complete`); the units of a record are there once, in their
order (`InOrder`); and a bufferful goes on in the next place unless a write was short
(`Seams`).  Every step does nothing to the file or is one write at its end
(`StepGrows`), and `GrowthKeeps` shows that a write keeps all five.  From it
`LossStaysContained`: a record written in one write is in one piece; what breaks off
is damaged; and each acknowledged record that is not a line breaks off itself or
follows one that does, so that each break costs at most two.  `LinesStay` is
`WholeIsForever`: an append leaves what precedes it alone, and a reader's line ends
before it.  For any number of processes, faults and interleavings.

**`StartupProofs`** (692 obligations; `StartupAssumption`: no root of an ACL is
blank, the default is one, and the worlds hold files).  `AclInv`: what the files
have been so far includes what they are (`History`), a root once resolved is one
that the settings named, with the `apcore.yaml` of some moment, malformed or absent
as it may be (`RootKept`), and what is found, attached or shown was at that root at
some time, what is missing was missing there (`AclKept`).  From it `AclIsEnforced`,
whatever the edits.  `ScanInv` follows one settled file through the three scans: it
waits for the scan under way or has been found, and is in what each scan before has
left (`SettledKept`); a name that an edited file had at any time belongs to no
settled one.  From it `ScansAgree`, for any number of files and edits.  `GroupInv`
says what the command tree has from `Build` on; `GroupIsAsConfigured` follows.

**`SecretsProofs`** (559 obligations; `SecretAssumption`, `FilesAssumption`,
`ChangesAssumption`).  `OwnSecret` speaks of answers; `SecretInv` adds why they are
right: a file holds what its owner last put there, as its text, as a ciphertext or
as a reference (`FileMeant`), and a store under way holds the secret its token
stands for (`TokenMeant`).  From it `SecretsAreOwn`.  `KeptInv` has the shapes an
entry may have and that a reference to the shared entry is handed out only once
that is set; with `SameKey` (both implementations derive one key) it gives
`LossHasCause`, and `HeadersAreClean`.  For any files, secrets, environments and
number of changes.

**`ArtifactsProofs`** (1647 obligations; `DocumentsAssumption`, `RoutesAssumption`,
`NumeralsAssumption` and the others of the module).  `AInv` has what a command is made
of, the phases of each verb, what a command has touched by then, the files of `init`
in their order, the files that were there (`KeptInOrder`) and the plan of `generate`
(`BatchInOrder`).  The naming is the hard part.  `BatchNames`: a batch of modules with
different names gets paths that are plain and different, so that the check made of
the planned paths is one of the written ones; from it `OthersAreKept` and
`SuccessAccounts`.  `PickedWithinBatch`: to number the names of a part of the modules
anew gives no name that was not given to all of them, in documents with names that
collide or look numbered too; for that a free number is found by the pigeonhole
(`FreeNumber`), and numerals are told apart (`NumbersTell`).  From it `WritesAreListed`.
`RefusalIsInert` and `ScaffoldIsThere` follow from the phases.  For every document and
directory and any sequence of commands, kills and edits.

**`RegistryProofs`** (1935 obligations), on the commands that stand on the
registry.

* `Governance` (`SessionsAssumption`: runs are commands, and no flag spells the
  value that stands for "no identity").  `ConsentBeforeControl` from `ConsentInv`,
  which counts the answers each gate has obtained when it lets a command through;
  `GatesDecideAlike` from `VerdictInv`: every verdict on record is the one the flags
  and the rules determine, whichever gate gave it, because the contexts are equal
  (`GateContexts`, `CheckContexts`).  For any number of rules and runs.
* `Catalogue` (`CatalogueAssumption`: what a registry, a request and a call are
  made of, and that the registry of the executor has no id twice).  `CatalogueInv`:
  the list shown is an arrangement, in the order asked for, of the rows that the
  filters select *now*; a step that changes the log shows nothing, so the two never
  part.  From it `ListsShareOut` (the names found on disk are added one by one, no
  name twice: `ListIdsAreDistinct`; each pair of filters is a partition:
  `FiltersShareOut`), `RowsAreInOrder` (ids are totally ordered: `IdsCompare`, by
  the least position at which two differ) and `DescriptionsKeepTheirBytes` (the
  bytes grow with the characters, so that what fits is a beginning of the text).
* `Exposure`: `GlobIsSpelling`, for every pattern and every id.  The compiled pieces
  and the characters of the pattern run side by side: up to each character the
  places an id may have been read to are the same, where behind the first star of
  two the pieces are one character ahead.  `GlobsMeanWhatTheySpell` states it of the
  filters of `Catalogue`.

**Only model-checked**: liveness (`CallsEnd`, `CallEnds`), which is out of the prover's
reach.  Every safety property of the passing runs is a theorem.

## 5. Where the code and its documents disagree

One has a run in `PROJECT.json` whose counterexample shows it: `claim_bool_flag` -
with the default true, no flag gives false and `--no-flag` gives true (`cli.rs:981`,
`schema_parser.rs:288`).

Ten have a configuration to be run by hand (section 3):

* `claim_zero_waits`: `approval.rs:393` says of the time limit "0 = wait
  indefinitely"; the sleep of zero seconds (`approval.rs:133`) has ended at once, and
  the prompt with it.
* `claim_sandbox_timeout`: `sandbox.rs:293` calls `timeout_secs` the "subprocess
  timeout in seconds"; the input is written before the timeout starts
  (`sandbox.rs:528-536`), so that a child which never reads it is waited for without
  a limit.
* `claim_stdin_first`: by `cli.rs:607-609` (and `README.md:338`) only flags come before
  the standard input; a default, and the value every boolean has, do too
  (`cli.rs:1045`).
* `claim_validated_before_run`: `README.md:341` has the input validated before the
  call; a schema with a composition at its root is not validated (`cli.rs:1232-1233`).
* `claim_partial_last_line`: `system_usage.rs:102-103` says that a partial last line is
  tolerated; one cut inside a character makes the file illegible as a whole and the
  summary empty (`system_usage.rs:92-95`).
* `claim_vanished_file`: `acl_loader.rs:163-164` says that a path which vanishes
  "between resolution and load" ends the program; `load_cli_acl` looks once more
  (`acl_loader.rs:172`), and a file that `attach_acl` has found and that is gone by
  then is taken for none.
* `claim_refs_inlined`: `ref_resolver.rs:38` promises that pointers are replaced;
  those in properties next to a composition, in a second composition
  (`ref_resolver.rs:258-274`) and in arrays (`ref_resolver.rs:182`) stay.
* `claim_existing_skipped`: `openapi_cmd.rs:578-580` says that without `--force` files
  that exist are skipped; of two ids that become one name, the second may be numbered
  anew and overwrite the file that the first was skipped for (`openapi_cmd.rs:595`).
  This one is a fault of the code.
* `claim_dry_run_listing`: `openapi_cmd.rs:163` says of `--dry-run` that it lists the
  paths "that would be written"; it lists those too that the run will skip
  (`openapi_cmd.rs:571`).
* `claim_hazards_reported`: `openapi_source.rs:208` speaks of the kept operations;
  the parameters that a path shares are not looked at (`openapi_source.rs:265-275`).

Others were met while reading, and are modelled as the code has them:

* `--yes` does not bypass every prompt (`README.md:257`, `main.rs:799`): the
  pipeline's handler does not know the flag.
* a script that writes more than its pipe holds before it has read its input
  blocks for ever, and so does the call (`cli.rs:1065` against `cli.rs:1087`).
* executions: the record is lost when ctrl-C or a closed stdout ends a call
  (`README.md:346` says all executions are logged); `--approval-token` never
  skips a prompt, and makes the pipeline refuse (`README.md:267`); `--sandbox` is
  ignored with `--stream`, `--trace` and for scripts (`README.md:260`), and the
  sandbox's child has placeholders only, so that it cannot succeed
  (`sandbox_runner.rs:55`); a script that closes its stdin early has its stderr
  lost (`cli.rs:1066`); a descriptor without annotations, which only embedders
  have, loses the approval of an ACL rule on the sandbox path
  (`cli.rs:1329-1342`).
* prompts: an embedder that goes on after a time-out has the next prompt's line
  read by the parked thread (`approval.rs:74-76`); a line typed ahead, while an
  earlier prompt was on the screen, answers the next one.
* waiting: `--input -` is read to its end without a limit (`cli.rs:575`), of time or,
  before the check, of size.
* input: the flags of a boolean behind a `$ref` are dropped (`cli.rs:1030`), numbers
  reach the module as strings (`README.md:185-187`), and what runs is not quite what was
  validated: `--approval-token` is written into it afterwards, over a property
  `_approval_token` if the schema has one (`cli.rs:1242-1245`).  A property whose
  name begins with `no-` has a flag whose value is dropped (`cli.rs:1041`); with
  `apcli exec` a property named `module_id` gets the module's id, and a boolean
  `large-input` the flag of that name; `help` is not reserved; a property
  `large_input` ends the program with 48, `large-input` with 2.
* audit: a torn line swallows the next record (`system_usage.rs:112`); a record
  acknowledged after a short write may be in two pieces (`audit.rs:299-311`);
  `input_salt` is documented (`audit.rs:238`) and not written.
* schemas: the keywords next to a `$ref` are dropped (`ref_resolver.rs:186-221`);
  the properties of a second composition have no flag; an unused cyclic `$defs`
  refuses the schema.
* start-up: `main.rs:712` says "Discover modules once", and there are three scans
  and two registries; the extensions directory in `apcore.yaml` is never read
  (`README.md:294-299` against `main.rs:694-701`); a malformed `apcore.yaml`
  drops its `acl.root` without a word; of two files with one name, the descriptor
  may be one's and the executable the other's.
* governance: `acl check` without flags decides without a context and may allow
  what every real call is denied (`acl_cmd.rs:285`); system commands ignore the
  identity flags (`system_cmd.rs:331`), write no audit record, and their second
  prompt ignores `--yes`; `config get` reads the defaults (`system_cmd.rs:577`).
* secrets: a keyring that answers the probe and refuses to be written makes
  `store` an error, where `config_encryptor.rs:114-115` promises a fallback; the
  comment at line 155 says 100 000 rounds for the early format, and the code tries
  600 000 first; nothing in the program calls `store`, so that `apcli config set`
  writes plain text; an empty key in the file makes the header `Bearer `.
* artifacts: a file that appears between the look and the write is overwritten
  (`init_cmd.rs:209`, `openapi_cmd.rs:584`); a torn file is skipped, with a warning,
  by every later run without `--force`; a file written and found not in order is a
  warning too, and the exit code 0 (`openapi_cmd.rs:599-602`); a bad `--exclude` is
  reported as `--include` when both are given (`openapi_cmd.rs:459`).
* list: `main.rs` always takes the default filter, so that `--exposure hidden` is
  always empty and `expose.*` is never read; with equal use `--reverse` reverses
  nothing; use of other modules alone suppresses the note that nothing was used;
  `csv`, `yaml` and `jsonl` are shown as JSON; `truncate` counts bytes where its
  comment says characters.
* results: a string result ignores `--format`, `null` and `""` print nothing,
  `--fields` has no effect on what is not an object.
* completion: the generated scripts call `<program> list` at the root, where there
  is no such command, so that after `exec` no ids are offered (`shell.rs:229`).

## 6. What is not modelled

* `validate.rs`: the list of checks of the preflight report; `builtin_group.rs`: an
  injected registry; `config.rs`: alternate spellings of keys, which no caller asks
  for; `main.rs`: the reading of single flags before clap, the log level;
  `schema_parser.rs`: the help texts; `audit.rs`: the user's name, the hash of the
  input and the warning printed once.
* `output.rs` beyond list and describe, `display_helpers.rs`, `strategy.rs` with the
  flag `--strategy`, `shell.rs`: text generated from what the other parts have
  decided, with no state and no step of their own.
* The crate `apcore` (registry, executor, ACL rules, conditions) and the toolkit
  crate are external: modelled from their use, and marked so.
* A machine that stops: `append` does not sync the file (`audit.rs:311`), so that what
  was acknowledged may be lost with the machine.  `AuditLog` has processes that are
  killed, and a file that keeps what was written.
* Of the control characters that a header must not have (`auth.rs:134`) only line
  breaks; limits of `truncate` below the three dots (`DescLimit` is at least 3).
* Bounds: `audit_log` has no record longer than two bufferfuls and no reader that
  runs during an append; `startup` has one edit, so two edits that undo each other
  are not seen; `ref_resolver` nests no composition within another except through
  a definition.

## 7. Plan

Done: all modules named in section 2, with the proofs of section 4.  What would
add most from here:

1. `Preflight` (`validate.rs`): the exit code is that of the first failing check;
   agreement of `--dry-run` with a real call of the same invocation.
2. `Startup` widened: an injected registry, a second edit, single flags before
   clap; `Dispatch` with the registries that `Startup` leaves.
3. The steps that `Dispatch` leaves coarse, the prompt and the child, shown to be
   what `ApprovalPrompt` and `ChildIO` do.
