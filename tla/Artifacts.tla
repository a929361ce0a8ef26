----------------------------- MODULE Artifacts -----------------------------
(***************************************************************************)
(* The commands that write source files: `apcli openapi scan` and          *)
(* `generate` (openapi_cmd.rs, openapi_source.rs) and `apcli init module`  *)
(* (init_cmd.rs).  They run one after the other on one directory tree, in  *)
(* which the user works too; each can fail or be killed at any write.      *)
(*                                                                         *)
(* A module id, a directory and a path are sequences of tokens: names,     *)
(* and the characters that the commands replace.                           *)
(***************************************************************************)
EXTENDS Naturals, Sequences, Functions, Lists

CONSTANTS Tokens,       \* what ids, directories and paths are made of
          Numerals,     \* the numbers from one on, as they are written
          Documents,    \* [state, ops]: what the sources can hold
          InitIds,      \* the ids given to init
          InitDirs,     \* the values of --dir
          Output,       \* the directory of generate
          UserPaths,    \* where the user may put a file
          MaxCommands,  \* bound: commands
          MaxEdits      \* bound: files the user puts

\* An operation: its id, its method as written, its path, its own parameters (a
\* reference has no place of its own), those that its path item shares among the
\* operations of the path, and whether it is deprecated.
Parameters == SUBSET [in : STRING, named : BOOLEAN]
Operation == [id : Seq(Tokens), method : STRING, path : STRING,
              params : Parameters, shared : Parameters, deprecated : BOOLEAN]

Lowered(method) == CASE method = "POST" -> "post" [] method = "PATCH" -> "patch" [] OTHER -> method

ASSUME TokensAssumption == {"/", "_", ".binding.yaml"} \subseteq Tokens
ASSUME DocumentsAssumption ==
  Documents \subseteq [state : {"unreadable", "unparseable", "swagger", "openapi"}, ops : Seq(Operation)]
\* "paths" is an object of paths, each an object of methods, and a document
\* spells a method in one way.
SameRoute(a, b) == Lowered(a.method) = Lowered(b.method) /\ a.path = b.path
ASSUME RoutesAssumption ==
  \A doc \in Documents : \A a, b \in Range(doc.ops) :
    (SameRoute(a, b) => a = b) /\ (a.path = b.path => a.shared = b.shared)
\* There is a number for each operation, and two are not written alike.
ASSUME NumeralsAssumption ==
  /\ Numerals \in Seq(Tokens) /\ \A m, n \in DOMAIN Numerals : Numerals[m] = Numerals[n] => m = n
  /\ \A doc \in Documents : Len(doc.ops) <= Len(Numerals)
ASSUME PathsAssumption ==
  Output \in Seq(Tokens) /\ InitIds \subseteq Seq(Tokens) /\ InitDirs \subseteq Seq(Tokens)
ASSUME BoundsAssumption == MaxCommands \in Nat /\ MaxEdits \in Nat

VARIABLES disk,      \* path |-> what the file is; its domain is what exists
          cmd,       \* the command: phase, options, what it has found out
          before,    \* history: the files there when the command looked
          touched,   \* history: the paths it has opened for writing
          commands,  \* commands started
          edits      \* files put by the user

avars == <<disk, cmd, before, touched, commands, edits>>

-----------------------------------------------------------------------------
(* Names.                                                                  *)

Special == {"/", ":", " "}

\* sanitize_binding_filename: what is not allowed becomes "_", and so does a
\* run of two or more dots.
Sanitize(id) ==
  LET safe == [i \in DOMAIN id |-> IF id[i] \in Special THEN "_" ELSE id[i]]
      Starts(i) == ~ (safe[i] = "." /\ i > 1 /\ safe[i - 1] = ".")
      Run(i) == safe[i] = "." /\ i < Len(safe) /\ safe[i + 1] = "."
      kept == Picked([i \in DOMAIN safe |-> i], {i \in DOMAIN safe : Starts(i)})
  IN  [k \in DOMAIN kept |-> IF Run(kept[k]) THEN "_" ELSE safe[kept[k]]]

At(dir, name, suffix) == dir \o <<"/">> \o name \o <<suffix>>

Numbered(name, n) == IF n = 0 THEN name ELSE name \o <<"_", Numerals[n]>>

\* Mutant: two ids that are one name are one path.
PlannedPathsPlain(modules, dir) ==
  [i \in DOMAIN modules |-> At(dir, Sanitize(modules[i].id), ".binding.yaml")]

Path(id, n, dir) == At(dir, Numbered(Sanitize(id), n), ".binding.yaml")

\* The first number that gives a path that is not taken; 0 is no number.
FirstFree(id, dir, taken, most) ==
  CHOOSE n \in 0 .. most : /\ Path(id, n, dir) \notin taken
                          /\ \A k \in 0 .. (n - 1) : Path(id, k, dir) \in taken

\* The paths of a batch: a path that an earlier module has gets a number.
BatchPaths(modules, dir) ==
  LET path[i \in DOMAIN modules] ==
        Path(modules[i].id, FirstFree(modules[i].id, dir, {path[j] : j \in 1 .. (i - 1)}, i), dir)
  IN  path

\* planned_paths, and YAMLWriter, which names the files of the batch it is
\* given in the same way.
PlannedPaths(modules, dir) == BatchPaths(modules, dir)
WriterPaths(modules, dir) == BatchPaths(modules, dir)

Underscored(id) == [i \in DOMAIN id |-> IF id[i] = "." THEN "_" ELSE id[i]]
Slashed(id) == [i \in DOMAIN id |-> IF id[i] = "." THEN "/" ELSE id[i]]

LastOf(seq, t) == IF \E i \in DOMAIN seq : seq[i] = t
                    THEN CHOOSE i \in DOMAIN seq : seq[i] = t /\ \A j \in (i + 1)..Len(seq) : seq[j] # t
                    ELSE 0

\* handle_init: the id up to its last dot.
Prefix(id) == IF LastOf(id, ".") = 0 THEN id ELSE SubSeq(id, 1, LastOf(id, ".") - 1)

DefaultDir(style) ==
  CASE style = "decorator" -> <<"extensions">> [] style = "convention" -> <<"commands">>
    [] OTHER -> <<"bindings">>

DecoratorPath(id, dir) == At(dir, Underscored(id), ".rs")
ConventionPath(id, dir) == At(dir, Slashed(id), ".rs")
BindingPath(id, dir) == At(dir, Underscored(id), ".binding.yaml")

\* The file of the module itself.
PrimaryPath(style, id, dir) ==
  CASE style = "decorator" -> DecoratorPath(id, dir)
    [] style = "convention" -> ConventionPath(id, dir)
    [] OTHER -> BindingPath(id, dir)

\* The functions of a binding: commands/, next to the directory of bindings.
CompanionPath(id, dir) ==
  LET parent == SubSeq(dir, 1, LastOf(dir, "/"))
  IN  At(parent \o <<"commands">>, Underscored(Prefix(id)), ".rs")

-----------------------------------------------------------------------------
(* A document and its scan.                                                *)

\* OpenAPIScanner::scan with its filters.
Passes(op, opts) == op.id \notin opts.dropped /\ (opts.noDeprecated => ~ op.deprecated)

Modules(doc, opts) == Picked(doc.ops, {i \in DOMAIN doc.ops : Passes(doc.ops[i], opts)})

BodyMethods == {"post", "put", "patch"}

\* query_parameter_names: of those of the operation itself.
QueryParameters(op) == {p \in op.params : p.in = "query" /\ p.named}

\* detect_proxy_hazards and correlate_modules: by method and path.
Hazards(doc, modules) ==
  {<<m.id, m.path>> : m \in
     {m \in Range(modules) :
        \E op \in Range(doc.ops) :
          /\ Lowered(op.method) \in BodyMethods
          /\ QueryParameters(op) # {}
          /\ SameRoute(m, op)}}

-----------------------------------------------------------------------------

Unfinished == 255
Content(by, id, whole) == [by |-> by, id |-> id, whole |-> whole]

NoDocument == [state |-> "unreadable", ops |-> <<>>]

NoCommand ==
  [verb |-> "none", phase |-> "end", exit |-> Unfinished, doc |-> NoDocument,
   opts |-> [force |-> FALSE], modules |-> <<>>, todo |-> <<>>, next |-> 1, listed |-> <<>>,
   warned |-> {}, hazards |-> {}, failed |-> FALSE]

AInit ==
  /\ disk = [p \in {} |-> Content("user", <<>>, TRUE)]
  /\ cmd = NoCommand /\ before = disk /\ touched = {} /\ commands = 0 /\ edits = 0

Put(p, content) == disk' = [q \in DOMAIN disk \cup {p} |-> IF q = p THEN content ELSE disk[q]]
Exit(code) == cmd' = [cmd EXCEPT !.phase = "end", !.exit = code]
Fail(code) == cmd' = [cmd EXCEPT !.phase = "end", !.exit = code, !.failed = TRUE]

\* A command may start when the last one is over.
Begin(verb, doc, opts) ==
  /\ cmd.phase = "end"
  /\ commands < MaxCommands
  /\ commands' = commands + 1
  /\ cmd' = [NoCommand EXCEPT !.verb = verb, !.phase = "start", !.doc = doc, !.opts = opts]
  /\ before' = disk /\ touched' = {}
  /\ UNCHANGED <<disk, edits>>

-----------------------------------------------------------------------------
(* openapi scan, openapi generate.                                         *)

ScanOptions(doc, force, dry, noDeprecated, drop) ==
  [force |-> force, dry |-> dry, noDeprecated |-> noDeprecated,
   dropped |-> IF drop /\ doc.ops # <<>> THEN {doc.ops[1].id} ELSE {}]

StartOpenapi ==
  \E verb \in {"scan", "generate"}, doc \in Documents, force, dry, noDeprecated, drop \in BOOLEAN :
    /\ verb = "scan" => ~ force /\ ~ dry
    /\ Begin(verb, doc, ScanOptions(doc, force, dry, noDeprecated, drop))

\* run_scan exits: for a malformed --header or --openapi-timeout, before the
\* source is read; for the source; for a bad pattern of --include, --exclude.
RefuseScan ==
  /\ cmd.phase = "start" /\ cmd.verb \in {"scan", "generate"}
  /\ \/ Exit(2)
     \/ cmd.doc.state # "openapi" /\ Exit(47)
  /\ UNCHANGED <<disk, before, touched, commands, edits>>

\* Mutant: the listing of a dry run is not the end of it.
RunScanDryGoesOn ==
  /\ cmd.phase = "start" /\ cmd.verb \in {"scan", "generate"}
  /\ cmd.doc.state = "openapi"
  /\ LET modules == Modules(cmd.doc, cmd.opts)
         found == [cmd EXCEPT !.modules = modules, !.hazards = Hazards(cmd.doc, modules)]
     IN  cmd' = IF cmd.verb = "scan" THEN [found EXCEPT !.phase = "end", !.exit = 0]
                ELSE [found EXCEPT !.phase = "check", !.listed = PlannedPaths(modules, Output)]
  /\ UNCHANGED <<disk, before, touched, commands, edits>>

\* run_scan, then dispatch_scan, or dispatch_generate up to the plan.  What
\* is shown of the hazards is the same in every format.
RunScan ==
  /\ cmd.phase = "start" /\ cmd.verb \in {"scan", "generate"}
  /\ cmd.doc.state = "openapi"
  /\ LET modules == Modules(cmd.doc, cmd.opts)
         planned == PlannedPaths(modules, Output)
         found == [cmd EXCEPT !.modules = modules, !.hazards = Hazards(cmd.doc, modules)]
     IN  cmd' = CASE cmd.verb = "scan" -> [found EXCEPT !.phase = "end", !.exit = 0]
                  [] cmd.verb = "generate" /\ cmd.opts.dry ->
                       [found EXCEPT !.phase = "end", !.exit = 0, !.listed = planned]
                  [] OTHER -> [found EXCEPT !.phase = "check", !.listed = planned]
  /\ UNCHANGED <<disk, before, touched, commands, edits>>

\* Mutant: every module is written, --force or not.
CheckExistingAll ==
  /\ cmd.phase = "check" /\ cmd.verb = "generate"
  /\ cmd' = [cmd EXCEPT !.todo = cmd.modules, !.phase = "write"]
  /\ before' = disk
  /\ UNCHANGED <<disk, touched, commands, edits>>

\* dispatch_generate: without --force a planned path that exists is skipped, with
\* a warning that names it.
CheckExisting ==
  /\ cmd.phase = "check" /\ cmd.verb = "generate"
  /\ LET open == {i \in DOMAIN cmd.modules : cmd.opts.force \/ cmd.listed[i] \notin DOMAIN disk}
     IN  cmd' = [cmd EXCEPT !.todo = Picked(cmd.modules, open), !.phase = "write",
                            !.warned = {cmd.listed[i] : i \in DOMAIN cmd.modules \ open}]
  /\ before' = disk
  /\ UNCHANGED <<disk, touched, commands, edits>>

Target == WriterPaths(cmd.todo, Output)[cmd.next]

\* A file of the batch is opened and written, whole or not.
WriteTarget(whole) ==
  /\ cmd.phase = "write" /\ cmd.verb = "generate" /\ cmd.next <= Len(cmd.todo)
  /\ Put(Target, Content("generate", cmd.todo[cmd.next].id, whole))
  /\ touched' = touched \cup {Target}
  /\ UNCHANGED <<before, commands, edits>>

\* Mutant: verify is off.
WriteModuleUnread == \E whole \in BOOLEAN : WriteTarget(whole) /\ cmd' = [cmd EXCEPT !.next = @ + 1]

\* YAMLWriter::write, file by file, each read back and found in order.
WriteModule == WriteTarget(TRUE) /\ cmd' = [cmd EXCEPT !.next = @ + 1]

\* A file that is not in order when it is read back, or cannot be read, gets a
\* warning; the rest are written, and the run is a success.
WriteUnverified ==
  \E whole \in BOOLEAN :
    WriteTarget(whole) /\ cmd' = [cmd EXCEPT !.next = @ + 1, !.warned = @ \cup {Target}]

\* The report at the end.
GenerateEnds ==
  /\ cmd.phase = "write" /\ cmd.verb = "generate" /\ cmd.next > Len(cmd.todo)
  /\ Exit(0)
  /\ UNCHANGED <<disk, before, touched, commands, edits>>

\* A write that fails leaves nothing or a part; the command ends with 1.
WriteModuleFails ==
  /\ \/ /\ cmd.phase = "write" /\ cmd.verb = "generate" /\ cmd.next <= Len(cmd.todo)
        /\ UNCHANGED <<disk, before, touched, commands, edits>>
     \/ WriteTarget(FALSE)
  /\ Fail(1)

-----------------------------------------------------------------------------
(* init module.                                                            *)

InitOptions(style, id, force, given) ==
  [style |-> style, id |-> id, force |-> force,
   dir |-> IF given = <<>> THEN DefaultDir(style) ELSE given]

StartInit ==
  \E style \in {"decorator", "convention", "binding"}, id \in InitIds, force \in BOOLEAN,
     given \in InitDirs \cup {<<>>} :
    Begin("init", NoDocument, InitOptions(style, id, force, given))

Primary == PrimaryPath(cmd.opts.style, cmd.opts.id, cmd.opts.dir)
Companion == CompanionPath(cmd.opts.id, cmd.opts.dir)

\* validate_dir, create_dir_all, guard_overwrite.
Guard ==
  /\ cmd.phase = "start" /\ cmd.verb = "init"
  /\ \/ ".." \in Range(cmd.opts.dir) /\ Exit(2) /\ UNCHANGED before
     \/ /\ ".." \notin Range(cmd.opts.dir)   \* the directory cannot be made
        /\ Exit(2) /\ UNCHANGED before
     \/ /\ ".." \notin Range(cmd.opts.dir)
        /\ IF ~ cmd.opts.force /\ Primary \in DOMAIN disk
             THEN Exit(2)
             ELSE cmd' = [cmd EXCEPT !.phase = "write"]
        /\ before' = disk
  /\ UNCHANGED <<disk, touched, commands, edits>>

WritePrimary ==
  /\ cmd.phase = "write" /\ cmd.verb = "init"
  /\ touched' = touched \cup {Primary}
  /\ \/ /\ Put(Primary, Content("init", cmd.opts.id, TRUE))
        /\ IF cmd.opts.style = "binding" THEN cmd' = [cmd EXCEPT !.phase = "companion"] ELSE Exit(0)
     \/ (Put(Primary, Content("init", cmd.opts.id, FALSE)) \/ UNCHANGED disk) /\ Fail(2)
  /\ UNCHANGED <<before, commands, edits>>

\* Mutant: only --force writes the companion.
SeedCompanionForced ==
  /\ cmd.phase = "companion"
  /\ IF ~ cmd.opts.force THEN Exit(0) ELSE Fail(2) \/ cmd' = [cmd EXCEPT !.phase = "seed"]
  /\ UNCHANGED <<disk, before, touched, commands, edits>>

\* The companion is written once for a prefix; an existing one is left alone.
SeedCompanion ==
  /\ cmd.phase = "companion"
  /\ IF Companion \in DOMAIN disk /\ ~ cmd.opts.force
       THEN Exit(0)
       ELSE Fail(2) \/ cmd' = [cmd EXCEPT !.phase = "seed"]
  /\ UNCHANGED <<disk, before, touched, commands, edits>>

WriteCompanion ==
  /\ cmd.phase = "seed"
  /\ touched' = touched \cup {Companion}
  /\ \/ Put(Companion, Content("init", cmd.opts.id, TRUE)) /\ Exit(0)
     \/ (Put(Companion, Content("init", cmd.opts.id, FALSE)) \/ UNCHANGED disk) /\ Fail(2)
  /\ UNCHANGED <<before, commands, edits>>

-----------------------------------------------------------------------------

\* The command is killed, possibly inside a write.
Kill ==
  /\ cmd.phase # "end"
  /\ cmd' = [cmd EXCEPT !.phase = "end", !.failed = TRUE]
  /\ \/ UNCHANGED <<disk, touched>>
     \/ /\ cmd.phase \in {"write", "seed"} /\ (cmd.verb = "generate" => cmd.next <= Len(cmd.todo))
        /\ LET p == IF cmd.verb = "generate" THEN Target
                    ELSE IF cmd.phase = "seed" THEN Companion ELSE Primary
           IN
             Put(p, Content(cmd.verb, <<>>, FALSE)) /\ touched' = touched \cup {p}
  /\ UNCHANGED <<before, commands, edits>>

\* The user writes a file, whenever he likes.
Edit ==
  /\ edits < MaxEdits
  /\ edits' = edits + 1
  /\ \E p \in UserPaths :
       /\ Put(p, Content("user", <<>>, TRUE))
       /\ before' = IF p \in DOMAIN before THEN [before EXCEPT ![p] = Content("user", <<>>, TRUE)] ELSE before
  /\ UNCHANGED <<cmd, touched, commands>>

ANext ==
  \/ StartOpenapi \/ RefuseScan \/ RunScan \/ CheckExisting
  \/ WriteModule \/ WriteUnverified \/ WriteModuleFails \/ GenerateEnds
  \/ StartInit \/ Guard \/ WritePrimary \/ SeedCompanion \/ WriteCompanion
  \/ Kill \/ Edit

ASpec == AInit /\ [][ANext]_avars

-----------------------------------------------------------------------------
(* Properties.                                                             *)

\* Two of the modules have one name.
Colliding == \E i, j \in DOMAIN cmd.modules : i # j /\ Sanitize(cmd.modules[i].id) = Sanitize(cmd.modules[j].id)

Kept == \A p \in DOMAIN before : p \in DOMAIN disk /\ disk[p] = before[p]

\* Without --force no command changes a file that was there when it looked,
\* whether it succeeds, fails or is killed.  For generate: when no two modules
\* of the document have one name.
ExistingKept == (~ cmd.opts.force /\ ~ Colliding) => Kept

\* What generate writes is among the paths that a dry run of the document lists,
\* though the run numbers the names anew, for the modules whose files were not
\* there (openapi_cmd.rs:232-255, 583-595).
WrittenAsListed == cmd.verb = "generate" => touched \subseteq Range(cmd.listed)

\* After a generate that reports success, each path that a dry run lists is there
\* and is whole, or the run has named it in a warning: a file that an earlier run
\* left torn is not taken for a module in silence (openapi_cmd.rs:583-602).  When no
\* two modules have one name.
FilesAccountedFor ==
  (cmd.verb = "generate" /\ cmd.exit = 0 /\ ~ cmd.opts.dry /\ ~ Colliding)
    => \A p \in Range(cmd.listed) : p \in DOMAIN disk /\ (disk[p].whole \/ p \in cmd.warned)

\* A command that refuses, or only looks, opens no file for writing; an init that
\* reports success has written its files whole (openapi_cmd.rs:401-468, 571-577,
\* init_cmd.rs:93-115).
RefusedIsInert ==
  /\ (cmd.phase = "end" /\ ~ cmd.failed /\ cmd.exit # 0) => touched = {}
  /\ (cmd.verb = "scan" \/ (cmd.verb = "generate" /\ cmd.opts.dry)) => touched = {}
  /\ (cmd.verb = "init" /\ cmd.exit = 0) => \A p \in touched : disk[p].whole

\* After init has reported success, its module is there, with a file for the
\* functions it points to.
ScaffoldIsComplete ==
  (cmd.verb = "init" /\ cmd.exit = 0)
    => /\ Primary \in DOMAIN disk
       /\ cmd.opts.style = "binding" => Companion \in DOMAIN disk

\* What the comment says of generate (openapi_cmd.rs:578-580): without --force a
\* file that was there is skipped, whatever the names.
ExistingAreSkipped == (cmd.verb = "generate" /\ ~ cmd.opts.force) => Kept

\* What the help of --dry-run says (openapi_cmd.rs:163): the paths it lists are
\* those that the run would write.
ListedAreWritten ==
  (cmd.verb = "generate" /\ cmd.exit = 0 /\ ~ cmd.opts.dry) => touched = Range(cmd.listed)

\* What the doc of detect_proxy_hazards says (openapi_source.rs:208): the kept
\* operations that a proxy could not serve are reported, those with a body whose
\* query parameters, their own or their path's, are not references.
HazardsReported ==
  (cmd.verb \in {"scan", "generate"} /\ cmd.exit = 0) =>
    \A m \in Range(cmd.modules) :
      (/\ Lowered(m.method) \in BodyMethods
       /\ \E p \in m.params \cup m.shared : p.in = "query" /\ p.named)
      => <<m.id, m.path>> \in cmd.hazards
=============================================================================
