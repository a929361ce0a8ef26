--------------------------- MODULE Configuration ---------------------------
(***************************************************************************)
(* Where a setting comes from: the command line, the environment, the file *)
(* apcore.yaml or a default (config.rs, acl_loader.rs, builtin_group.rs,   *)
(* main.rs).  Operators only; Startup evaluates them at the moments the    *)
(* program does.                                                           *)
(*                                                                         *)
(* The value of a setting is Unset, "" (set to nothing), " " (blanks) or a *)
(* proper value.  apcore.yaml is a record, or one of the files that do not *)
(* count: absent, or malformed.                                            *)
(***************************************************************************)
EXTENDS Naturals, Sequences, SequencesExt

Unset == "unset"
DefaultAclRoot == "./acl"
DefaultExtensions == "./extensions"

-----------------------------------------------------------------------------
(* ConfigResolver.                                                         *)

\* A file that cannot be read, is not YAML or not a mapping counts as no file.
IsMapping(yaml) == yaml.state = "mapping"

\* config_file.get: the flattened file has a null as the empty string.
FileValue(yaml, key) ==
  IF ~ IsMapping(yaml) THEN Unset
  ELSE IF yaml[key] = "null" THEN "" ELSE yaml[key]

\* resolve, as its callers call it, without a flag and for keys that have no
\* alternate spelling: an empty variable is passed over, an empty entry of the
\* file is not.
Resolve(env, inFile, default) ==
  IF env \notin {Unset, ""} THEN env
  ELSE IF inFile # Unset THEN inFile ELSE default

-----------------------------------------------------------------------------
(* resolve_acl_root, and the two flags of the log of decisions.            *)

\* non_empty: nothing but blanks is nothing.
NonEmpty(v) == v \notin {Unset, "", " "}

\* Flag, variable, file: the path as given, there or not.  The default counts
\* only when it is there.
AclRoot(args, yaml, defaultExists) ==
  IF NonEmpty(args.aclFlag) THEN args.aclFlag
  ELSE IF NonEmpty(args.aclEnv) THEN args.aclEnv
  ELSE IF NonEmpty(FileValue(yaml, "aclRoot")) THEN FileValue(yaml, "aclRoot")
  ELSE IF defaultExists THEN DefaultAclRoot ELSE Unset

\* parse_config_bool with the default true, which an unknown spelling gets.
ParseBool(v) == v # "false"

\* load_cli_acl_with_audit: there is a logger and acl.audit.enabled.
AclAudited(args, yaml) ==
  /\ ~ args.auditOff
  /\ ParseBool(Resolve(args.auditEnv, FileValue(yaml, "audit"), "true"))

-----------------------------------------------------------------------------
(* The extensions directory.                                               *)

\* The flag as it is, even empty; the variable unless it is empty.
ExtensionsRoot(args) ==
  IF args.extFlag # Unset THEN args.extFlag
  ELSE IF args.extEnv \notin {Unset, ""} THEN args.extEnv
  ELSE DefaultExtensions

-----------------------------------------------------------------------------
(* ApcliGroup: which of the built-in commands there are.                   *)

\* The six system commands count as one, "health"; "list" stands for the
\* commands that are neither exec nor a system command, with "acl".
Commands == {"list", "exec", "acl", "health"}

\* resolve_object("apcli"): the entry as written.
ApcliEntry(yaml) == IF IsMapping(yaml) THEN yaml.apcli ELSE [shape |-> "none"]

AutoGroup == [mode |-> "auto", names |-> {}, sealed |-> FALSE]

\* try_from_yaml: true and false are short for modes; null is as nothing.
IsValidGroup(entry) ==
  /\ entry.shape # "scalar"
  /\ entry.shape = "mapping" => entry.mode \in {Unset, "null", "all", "none", "include", "exclude"}

GroupOf(entry) ==
  CASE entry.shape \in {"none", "null"} -> AutoGroup
    [] entry.shape = "true" -> [AutoGroup EXCEPT !.mode = "all"]
    [] entry.shape = "false" -> [AutoGroup EXCEPT !.mode = "none"]
    [] entry.shape = "mapping" ->
         [mode |-> IF entry.mode \in {Unset, "null"} THEN "auto" ELSE entry.mode,
          names |-> entry.names, sealed |-> entry.sealed]

\* parse_env: blanks and unknown words are passed over.
EnvMode(v) ==
  CASE v = "show" -> "all" [] v = "hide" -> "none" [] OTHER -> Unset

\* Mutant: the seal is forgotten.
VisibilityUnsealed(group, env) ==
  IF EnvMode(env) # Unset THEN EnvMode(env)
  ELSE IF group.mode # "auto" THEN group.mode ELSE "all"

\* resolve_visibility for a group made from the file by the program itself,
\* which never has its registry injected.
Visibility(group, env) ==
  IF ~ group.sealed /\ EnvMode(env) # Unset THEN EnvMode(env)
  ELSE IF group.mode # "auto" THEN group.mode ELSE "all"

\* is_subcommand_included.
Included(group, mode, c) == IF mode = "include" THEN c \in group.names ELSE c \notin group.names

\* register_apcli_subcommands: exec is always there, and the system commands
\* only when the registry has the modules they call.
Registered(group, env, systemModules) ==
  LET mode == Visibility(group, env) IN
  {c \in Commands :
     /\ c = "health" => systemModules
     /\ mode \in {"all", "none"} \/ c = "exec" \/ Included(group, mode, c)}
=============================================================================
