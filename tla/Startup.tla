------------------------------ MODULE Startup ------------------------------
(***************************************************************************)
(* The start of the program (main.rs): it reads the extensions directory   *)
(* three times (for the registry the executor uses, for the descriptions,  *)
(* for the registry of the listing), apcore.yaml twice and the ACL file,   *)
(* and fills the global cells that dispatch_module reads.  Other programs  *)
(* may edit any of these files between two reads.                          *)
(*                                                                         *)
(* A module.json is absent, bad (unreadable, or not JSON of a module), or  *)
(* names a module; `exec` says where its executable is, `described` that   *)
(* its description is not empty, `ver` stands for the rest of the file.    *)
(* Of the ACL at a root the model keeps whether it                         *)
(* loads: "empty" is a directory without global_acl.yaml.                  *)
(***************************************************************************)
EXTENDS Configuration, FiniteSets, Functions

CONSTANTS
  Paths,      \* places of module.json below the extensions directory
  Names,      \* names of modules
  SystemName, \* the one that is "system.health.summary"
  AclRoots,   \* places where an ACL may be
  Worlds,     \* the command lines, environments and files to begin with
  Contents,   \* what an edit may make of a module.json
  Yamls,      \* what an edit may make of apcore.yaml
  MaxEdits    \* bound on the edits during the start

Absent == [name |-> "absent"]
Bad == [name |-> "bad"]
AclStates == {"absent", "empty", "good", "bad"}

YamlFiles == Yamls \cup {w.fs.yaml : w \in Worlds}

Files == [dir : BOOLEAN, modules : [Paths -> Contents], yaml : YamlFiles,
          acl : [AclRoots -> AclStates]]

ASSUME StartupAssumption ==
  /\ SystemName \in Names
  /\ {"absent", "bad"} \cap Names = {}
  /\ MaxEdits \in Nat
  /\ \A r \in AclRoots : NonEmpty(r)
  /\ DefaultAclRoot \in AclRoots
  /\ \A w \in Worlds : w.fs \in Files
  /\ \A w \in Worlds, yaml \in YamlFiles : AclRoot(w.args, yaml, TRUE) \in AclRoots

IsModule(content) == content.name \in Names

VARIABLES
  args,         \* the command line and the environment
  fs,           \* the files: modules, yaml, acl; dir: the directory is there
  seen,         \* every content the files have had so far
  pc,           \* where main is
  extensions,   \* the extensions directory, also for the children of the program
  todo,         \* the module.json files the scan under way has yet to read
  found,        \* the modules it has found, in order
  executables,  \* FsDiscoverer::executables
  registry,     \* the registry of the executor
  snapshot,     \* EXECUTABLES, what dispatch_module runs
  listed,       \* discovered_names
  descriptions, \* of load_descriptions
  provider,     \* the registry of list, describe and of the gates
  commands,     \* the built-in commands there are
  visible,      \* and whether their group is shown
  root,         \* the resolved root of the ACL
  source,       \* the file shown by acl status, as its root
  file,         \* the file that load_cli_acl found, as its root
  acl,          \* the ACL attached to the executor, as its root
  audited,      \* its decisions are logged
  exit,         \* exit code
  edits         \* number of edits so far

svars == <<args, fs, seen, pc, extensions, todo, found, executables, registry, snapshot, listed,
           descriptions, provider, commands, visible, root, source, file, acl, audited, exit, edits>>

none == [n \in Names |-> Absent]

SInit ==
  /\ \E w \in Worlds :
       /\ args = w.args
       /\ fs = w.fs
       /\ seen = [modules |-> [p \in Paths |-> {w.fs.modules[p]}], yaml |-> {w.fs.yaml},
                  acl |-> [r \in AclRoots |-> {w.fs.acl[r]}]]
  /\ pc = "discover" /\ extensions = Unset /\ todo = {} /\ found = <<>>
  /\ executables = none /\ registry = none /\ snapshot = none
  /\ listed = {} /\ descriptions = none /\ provider = none
  /\ commands = {} /\ visible = FALSE
  /\ root = Unset /\ source = Unset /\ file = Unset /\ acl = Unset
  /\ audited = FALSE
  /\ exit = 0 /\ edits = 0

\* What the scans, the command tree and the ACL leave alone.
scanned == <<executables, registry, snapshot, listed, descriptions, provider>>
decided == <<commands, visible, root, source, file, acl, audited, exit>>
world == <<args, fs, seen, extensions, edits>>

-----------------------------------------------------------------------------
(* The scans.                                                              *)

Scanning == {"discovering", "describing", "providing"}

\* collect_module_jsons: the files that are there; a directory that cannot be
\* read has none.  Before the first scan the directory is settled, and published
\* in the environment.
Collect ==
  /\ \/ pc = "discover" /\ pc' = "discovering"
     \/ pc = "describe" /\ pc' = "describing"
     \/ pc = "provide" /\ pc' = "providing"
  /\ todo' = IF fs.dir THEN {p \in Paths : fs.modules[p] # Absent} ELSE {}
  /\ found' = <<>>
  /\ extensions' = IF pc = "discover" THEN ExtensionsRoot(args) ELSE extensions
  /\ UNCHANGED <<args, fs, seen, edits, scanned, decided>>

\* Mutant: a file that cannot be parsed ends the pass.
SkipAborts(p) == todo' = {}

\* A file that is gone, unreadable or malformed is passed over.
Skip(p) == todo' = todo \ {p}

\* The executable is there, and below the extensions directory once symbolic
\* links are resolved.
WithinRoot(content) == content.exec = "inside"

\* The next file, in the order of the directory.  The two scans that discover
\* note its executable, load_descriptions its description unless that is empty, each
\* over what a file of the same name left.
ReadModule(p) ==
  LET content == fs.modules[p] IN
  /\ pc \in Scanning /\ p \in todo
  /\ IF IsModule(content)
       THEN /\ todo' = todo \ {p}
            /\ found' = Append(found, content)
            /\ executables' = IF pc # "describing" /\ WithinRoot(content)
                                THEN [executables EXCEPT ![content.name] = content]
                                ELSE executables
            /\ descriptions' = IF pc = "describing" /\ content.described
                                 THEN [descriptions EXCEPT ![content.name] = content]
                                 ELSE descriptions
       ELSE /\ Skip(p)
            /\ UNCHANGED <<found, executables, descriptions>>
  /\ UNCHANGED <<world, pc, registry, snapshot, listed, provider, decided>>

\* Registry::discover: each name found is registered, with one of the
\* descriptors found for it.
Discovered(reg) ==
  /\ reg \in [Names -> Range(found) \cup {Absent}]
  /\ \A n \in Names :
       IF \E c \in Range(found) : c.name = n THEN reg[n].name = n ELSE reg[n] = Absent

\* The registry, its names and the executables so far.
EndDiscovery ==
  /\ pc = "discovering" /\ todo = {}
  /\ Discovered(registry')
  /\ listed' = {n \in Names : registry'[n] # Absent}
  /\ snapshot' = executables
  /\ pc' = "describe"
  /\ UNCHANGED <<world, todo, found, executables, descriptions, provider, decided>>

\* load_descriptions returns what it has.
EndDescriptions ==
  /\ pc = "describing" /\ todo = {}
  /\ pc' = "build"
  /\ UNCHANGED <<world, todo, found, scanned, decided>>

\* The provider of list, describe and dispatch_module; the snapshot stays.
EndProvider ==
  /\ pc = "providing" /\ todo = {}
  /\ Discovered(provider')
  /\ pc' = "ready"
  /\ UNCHANGED <<world, todo, found, executables, registry, snapshot, listed, descriptions, decided>>

-----------------------------------------------------------------------------
(* The command tree.                                                       *)

Exit(code) == pc' = "exited" /\ exit' = code

scanVars == <<todo, found, scanned>>

\* build_cli_command: the directory must be there, and the entry of the file a
\* proper one; then clap reads the command line.
Build ==
  LET entry == ApcliEntry(fs.yaml) IN
  /\ pc = "build"
  /\ IF ~ fs.dir \/ ~ IsValidGroup(entry)
       THEN /\ Exit(IF ~ fs.dir THEN 47 ELSE 2)
            /\ UNCHANGED <<commands, visible>>
       ELSE /\ commands' = Registered(GroupOf(entry), args.visEnv, registry[SystemName] # Absent)
            /\ visible' = (Visibility(GroupOf(entry), args.visEnv) # "none")
            /\ IF args.wellFormed THEN pc' = "attach" /\ UNCHANGED exit ELSE Exit(2)
  /\ UNCHANGED <<world, scanVars, root, source, file, acl, audited>>

-----------------------------------------------------------------------------
(* attach_acl.                                                             *)

\* resolve_acl_root, with apcore.yaml as it is now.
ResolveRoot ==
  /\ pc = "attach"
  /\ root' = AclRoot(args, fs.yaml, fs.acl[DefaultAclRoot] # "absent")
  /\ audited' = AclAudited(args, fs.yaml)
  /\ pc' = IF root' = Unset THEN "provide" ELSE "source"
  /\ UNCHANGED <<world, scanVars, commands, visible, source, file, acl, exit>>

\* resolve_acl_file finds a file: the path itself, or global_acl.yaml in it.
AclFileAt(r) == fs.acl[r] \in {"good", "bad"}

\* The file to show.
NoteSource ==
  /\ pc = "source"
  /\ source' = IF AclFileAt(root) THEN root ELSE Unset
  /\ pc' = "locate"
  /\ UNCHANGED <<world, scanVars, commands, visible, root, file, acl, audited, exit>>

\* load_cli_acl: no file, no enforcement.
Locate ==
  /\ pc = "locate"
  /\ pc' = IF AclFileAt(root) THEN "load" ELSE "provide"
  /\ file' = IF AclFileAt(root) THEN root ELSE Unset
  /\ source' = IF AclFileAt(root) THEN source ELSE Unset
  /\ UNCHANGED <<world, scanVars, commands, visible, root, acl, audited, exit>>

\* Mutant: an ACL that cannot be loaded is taken for none.
LoadOpen ==
  /\ pc = "load"
  /\ pc' = "provide"
  /\ acl' = IF fs.acl[root] = "good" THEN root ELSE Unset
  /\ UNCHANGED <<world, scanVars, commands, visible, root, source, file, audited, exit>>

\* ACL::load: a file that is gone by now, or bad, ends the program.
Load ==
  /\ pc = "load"
  /\ IF fs.acl[root] = "good"
       THEN /\ acl' = root
            /\ pc' = "provide"
            /\ UNCHANGED exit
       ELSE /\ Exit(47)
            /\ UNCHANGED acl
  /\ UNCHANGED <<world, scanVars, commands, visible, root, source, file, audited>>

-----------------------------------------------------------------------------
(* Somebody edits a file.                                                  *)

EditModule(p, content) ==
  /\ fs' = [fs EXCEPT !.modules[p] = content]
  /\ seen' = [seen EXCEPT !.modules[p] = @ \cup {content}]

EditYaml(yaml) ==
  /\ fs' = [fs EXCEPT !.yaml = yaml]
  /\ seen' = [seen EXCEPT !.yaml = @ \cup {yaml}]

EditAcl(r, state) ==
  /\ fs' = [fs EXCEPT !.acl[r] = state]
  /\ seen' = [seen EXCEPT !.acl[r] = @ \cup {state}]

Edit ==
  /\ edits < MaxEdits /\ pc \notin {"ready", "exited"}
  /\ edits' = edits + 1
  /\ \/ \E p \in Paths, content \in Contents : content # fs.modules[p] /\ EditModule(p, content)
     \/ \E yaml \in Yamls : yaml # fs.yaml /\ EditYaml(yaml)
     \/ \E r \in AclRoots, state \in AclStates : state # fs.acl[r] /\ EditAcl(r, state)
  /\ UNCHANGED <<args, pc, extensions, scanVars, decided>>

SNext ==
  \/ Collect \/ \E p \in Paths : ReadModule(p)
  \/ EndDiscovery \/ EndDescriptions \/ EndProvider
  \/ Build \/ ResolveRoot \/ NoteSource \/ Locate \/ Load
  \/ Edit

SSpec == SInit /\ [][SNext]_svars

-----------------------------------------------------------------------------
(* Properties.                                                             *)

Found == Contents \cup UNION {seen.modules[p] : p \in Paths}

\* The module of a file that nobody edits, under a name that no other file has
\* during the start.
Settled(p) ==
  /\ seen.modules[p] = {fs.modules[p]} /\ IsModule(fs.modules[p])
  /\ \A q \in Paths \ {p} : \A c \in seen.modules[q] : c.name # fs.modules[p].name

\* Whatever becomes of the other files, a settled module is registered with the
\* executor, listed, described and offered from one and the same file, and runs
\* the executable of that file, if it is inside the extensions directory: the
\* comment at fs_discoverer.rs:173-177, for all three scans.  None outside is ever
\* run (fs_discoverer.rs:199-206), of whatever module.
SettledModulesAgree ==
  /\ pc = "ready" => \A p \in Paths : Settled(p) =>
       LET c == fs.modules[p] IN
       /\ registry[c.name] = c /\ provider[c.name] = c /\ c.name \in listed
       /\ descriptions[c.name] = IF c.described THEN c ELSE Absent
       /\ snapshot[c.name] = IF c.exec = "inside" THEN c ELSE Absent
  /\ \A n \in Names : snapshot[n] # Absent => snapshot[n].exec = "inside"

\* What the program can have seen, at some moment, to serve calls without an ACL: no
\* ACL file at the root that the command line, the environment and apcore.yaml
\* name.  An apcore.yaml that is malformed or gone names none, whatever stood in
\* it: then the root is the default (config.rs:232-261).
NoneSeen ==
  \E yaml \in seen.yaml : seen.acl[AclRoot(args, yaml, TRUE)] \cap {"absent", "empty"} # {}

\* A file that the loader has found is enforced: whether it is bad, is made so
\* before it is read or is taken away, the program stops and does not go on without
\* (acl_loader.rs:161-176, main.rs:599-620).  It serves calls without an ACL only if
\* there was none to find; one attached is the good one at a root that was named,
\* and is the one shown, unless it came between the two looks for it
\* (main.rs:596-597).
AclEnforced ==
  pc = "ready" =>
    /\ file # Unset => acl = file
    /\ acl = Unset => NoneSeen
    /\ acl # Unset =>
         /\ "good" \in seen.acl[acl]
         /\ \E yaml \in seen.yaml : acl = AclRoot(args, yaml, TRUE)
    /\ source # acl => source = Unset /\ seen.acl[acl] \cap {"absent", "empty"} # {}

\* Only the word for it switches the log of decisions off; a misspelt one does
\* not (acl_loader.rs:213-219).
AuditOffOnlyByWord ==
  acl # Unset /\ ~ audited =>
    \/ args.auditOff \/ args.auditEnv = "false"
    \/ \E y \in seen.yaml : FileValue(y, "audit") = "false"

\* Access control fails closed once there is something to close: neither a bad ACL
\* file, nor an edit at a bad moment, nor a misspelt setting leaves the program
\* without an ACL that it found or without its log.
AclFailsClosed == AclEnforced /\ AuditOffOnlyByWord

\* What the doc of load_cli_acl says (acl_loader.rs:163-165): an ACL path that
\* vanishes between resolution and load ends the program.  The look of attach_acl
\* is the resolution; when the file is gone at the second look, the one of
\* load_cli_acl, that is taken for a project without an ACL.
VanishedFileEnds == [][pc = "locate" /\ source # Unset => pc' # "provide"]_svars

\* A sealed entry decides which commands there are, and whether they are shown.
SealKept(e) ==
  e.shape = "mapping" /\ e.sealed =>
    /\ e.mode = "include" => visible /\ commands \subseteq e.names \cup {"exec"}
    /\ e.mode = "exclude" => visible /\ commands \cap e.names \subseteq {"exec"}
    /\ e.mode = "none" <=> ~ visible

\* exec is there in every mode; a group sealed by the file has the commands of
\* the file, whatever the variable says; one that is hidden has them all
\* (lib.rs:86-105, builtin_group.rs:541-551).
GroupAsConfigured ==
  pc \in {"attach", "provide", "ready"} =>
    /\ "exec" \in commands
    /\ ~ visible => Commands \ {"health"} \subseteq commands
    /\ \A y \in seen.yaml : seen.yaml = {y} => SealKept(ApcliEntry(y))

-----------------------------------------------------------------------------
(* The inductive invariants the theorems of StartupProofs rest on.         *)

\* seen is the history of the files, the present included.
History ==
  /\ fs \in Files
  /\ seen \in [modules : [Paths -> SUBSET Contents], yaml : SUBSET YamlFiles,
               acl : [AclRoots -> SUBSET AclStates]]
  /\ fs.yaml \in seen.yaml
  /\ \A p \in Paths : fs.modules[p] \in seen.modules[p]
  /\ \A r \in AclRoots : fs.acl[r] \in seen.acl[r]

Undecided == {"discover", "discovering", "describe", "describing", "build", "attach"}
Attached == {"provide", "providing", "ready"}

\* A root once resolved is one the operator named, and so is the log of its
\* decisions; no root means that the default was not there.
RootKept ==
  /\ \E w \in Worlds : args = w.args
  /\ pc \in Undecided => root = Unset
  /\ pc \in {"source", "locate", "load"} => root # Unset
  /\ root # Unset =>
       root \in AclRoots /\ \E yaml \in seen.yaml : root = AclRoot(args, yaml, TRUE)
  /\ root = Unset /\ pc \in Attached => NoneSeen
  /\ root # Unset /\ ~ audited =>
       \/ args.auditOff \/ args.auditEnv = "false"
       \/ \E y \in seen.yaml : FileValue(y, "audit") = "false"

Missed == seen.acl[root] \cap {"absent", "empty"} # {}

\* What is attached, or shown, was at the root at some time; what is missing was
\* missing there at some time.
AclKept ==
  /\ pc \notin Attached => acl = Unset
  /\ acl # Unset => acl = root /\ file = root /\ "good" \in seen.acl[root]
  /\ file # Unset => file = root
  /\ source # Unset => source = root
  /\ pc = "load" => file = root
  /\ root # Unset /\ source = Unset /\ pc \in {"locate", "load"} \cup Attached => Missed
  /\ root # Unset /\ file = Unset /\ pc \in Attached => source = Unset /\ Missed
  /\ file # Unset /\ pc \in Attached => acl = file

\* What makes AclFailsClosed inductive.
AclInv == History /\ RootKept /\ AclKept

\* A module that some file has, or had.
Known(content) == IsModule(content) /\ \E p \in Paths : content \in seen.modules[p]

\* What the scans leave is typed, and comes from the files.
MapKept(map) ==
  /\ map \in [Names -> Contents \cup {Absent}]
  /\ \A n \in Names : map[n] # Absent => map[n].name = n /\ Known(map[n])

NotesKept ==
  /\ found \in Seq(Contents) /\ \A c \in Range(found) : Known(c)
  /\ MapKept(executables) /\ \A n \in Names : executables[n] # Absent => WithinRoot(executables[n])
  /\ MapKept(snapshot) /\ \A n \in Names : snapshot[n] # Absent => WithinRoot(snapshot[n])
  /\ MapKept(descriptions) /\ \A n \in Names : descriptions[n] # Absent => descriptions[n].described

\* main is where the first scan, or that of the descriptions, is done.
Registering == {"discover", "discovering"}
Describing == {"describe", "describing"}
Built == {"attach", "source", "locate", "load"} \cup Attached

\* A settled module waits for the scan under way or is found, and is in what the
\* scans before left.
SettledKept(p) ==
  LET c == fs.modules[p] IN
  /\ pc \in Scanning => p \in todo \/ c \in Range(found)
  /\ pc = "discovering" /\ WithinRoot(c) => p \in todo \/ executables[c.name] = c
  /\ pc \notin Registering =>
       /\ registry[c.name] = c /\ c.name \in listed
       /\ WithinRoot(c) => snapshot[c.name] = c
  /\ pc = "describing" /\ c.described => p \in todo \/ descriptions[c.name] = c
  /\ pc \notin Registering \cup Describing /\ c.described => descriptions[c.name] = c
  /\ pc = "ready" => provider[c.name] = c

\* What makes SettledModulesAgree inductive.
ScanInv ==
  /\ History /\ NotesKept
  /\ pc \in Built => fs.dir
  /\ fs.dir => \A p \in Paths : Settled(p) => SettledKept(p)

\* What makes GroupAsConfigured inductive: it holds from Build on.
GroupInv ==
  /\ History
  /\ pc \in Built =>
       /\ "exec" \in commands
       /\ ~ visible => Commands \ {"health"} \subseteq commands
       /\ \A y \in seen.yaml : seen.yaml = {y} => SealKept(ApcliEntry(y))
=============================================================================
