---------------------------- MODULE ModuleInput ----------------------------
(***************************************************************************)
(* The input of a module call: from the flags of the command line, the     *)
(* defaults of the schema and the JSON on the standard input to the value  *)
(* the executor gets.  schema_parser.rs makes the flags (SchemaFlags),     *)
(* cli.rs builds the command, reads the flags (extract_cli_kwargs), merges *)
(* (collect_input), validates (validate_against_schema) and puts the token *)
(* of --approval-token under a key of its own.                             *)
(*                                                                         *)
(* Only the flags' names join the properties: the rest works key by key,   *)
(* so the values are those of one property, the key, and of its            *)
(* neighbours in the schema there is the name and whether it is boolean.   *)
(* A JSON value is its text and its JSON type: "1" the string and 1 the    *)
(* number differ in the second.                                            *)
(***************************************************************************)
EXTENDS Naturals, Sequences, SchemaFlags

CONSTANTS
  Limit,     \* STDIN_SIZE_LIMIT_BYTES
  Layouts    \* the schemas' names: [before, name, after], name the key's

ASSUME InputAssumption ==
  /\ Limit \in Nat
  /\ \A l \in Layouts :
       /\ l.before \in Seq([name : Seq(STRING), boolean : BOOLEAN])
       /\ l.after \in Seq([name : Seq(STRING), boolean : BOOLEAN])
       /\ l.name \in Seq(STRING)

None == [text |-> "none", json |-> "none"]

Kinds == {"boolean", "enum", "integer", "string", "object"}

\* The JSON type of a proper value; the enum lists numbers and
\* declares no type.
Native(kind) == CASE kind = "boolean" -> "boolean"
                  [] kind \in {"enum", "integer"} -> "number"
                  [] OTHER -> kind

Texts(kind) == IF kind = "boolean" THEN {"true", "false"} ELSE {"1", "2"}

\* The schema, a default being of the property's type: `ref` when the property is
\* a $ref, `top` when the properties are reached through allOf at the root.
Schemas ==
  {s \in [kind : Kinds, default : {"none", "true", "false", "1"}, required : BOOLEAN,
          ref : BOOLEAN, top : {"properties", "allOf"}] :
     s.default \in Texts(s.kind) \cup {"none"} /\ (s.kind = "object" => s.default = "none")}

TokenKey == <<"_", "approval", "_", "token">>

\* The command line and the standard input: `via` the command of the module, which
\* has the flags, or apcli exec, which has none of the schema's, `flags` the boolean
\* flags given, `value` the value given to the flag of another type, `token` whether
\* --approval-token is given.
Calls == [schema : Schemas, layout : Layouts, via : {"command", "exec"},
          flags : SUBSET {"pos", "neg"}, value : {"none", "1", "2"},
          token : BOOLEAN, asked : BOOLEAN, large : BOOLEAN, size : {0, Limit, Limit + 1},
          body : {"key", "other", "array", "garbage", "unreadable"},
          stdin : [text : {"true", "false", "1", "2"},
                   json : {"boolean", "number", "string", "object"}]]

\* Calls the program can be given: a flag of the property's type, no schema flag
\* with exec, nothing on the standard input to tell apart when it is not read, and
\* no token where it has nothing to do with the key.
Sensible(c) ==
  LET k == c.schema.kind IN
  /\ k = "boolean" => c.value = "none"
  /\ k # "boolean" => c.flags = {}
  /\ c.via = "exec" => c.flags = {} /\ c.value = "none"
  /\ c.stdin.text \in Texts(k) /\ c.stdin.json \in {Native(k), "string"}
  /\ c.token => c.layout.name = TokenKey
  /\ ~ c.asked => c.size = 0
  /\ c.size = 0 => c.body = "other"
  /\ c.body = "unreadable" => c.size = Limit
  /\ c.body # "key" => c.stdin = [text |-> CHOOSE t \in Texts(k) : TRUE, json |-> "string"]

VARIABLES
  call,    \* the call
  stage,   \* "build", "extract", "collect", "validate", "run" or "exited"
  kwargs,  \* the key's value in cli_kwargs
  merged,  \* the key's value in the merged input
  exit     \* the exit code of a refusal

ivars == <<call, stage, kwargs, merged, exit>>

IInit ==
  /\ call \in {c \in Calls : Sensible(c)}
  /\ stage = IF call.via = "command" THEN "build" ELSE "extract"
  /\ kwargs = None
  /\ merged = None
  /\ exit = 0

Reject(code) ==
  /\ stage' = "exited"
  /\ exit' = code

-----------------------------------------------------------------------------
(* The external arm of main builds the module's command; apcli exec has    *)
(* its own and skips this.                                                 *)

\* The properties, the key's with its type as it is read there.
Properties(c, boolean) ==
  c.layout.before \o <<[name |-> c.layout.name, boolean |-> boolean]>> \o c.layout.after

\* The command is built from the schema with its references resolved.
Built(c) == BuildModuleCommand(Properties(c, c.schema.kind = "boolean"))

Build ==
  /\ stage = "build"
  /\ IF Built(call) = 0
       THEN /\ stage' = "extract"
            /\ UNCHANGED exit
       ELSE Reject(Built(call))
  /\ UNCHANGED <<call, kwargs, merged>>

-----------------------------------------------------------------------------
(* extract_cli_kwargs.                                                     *)

\* The ids of apcli exec that a property can have too: the positional argument
\* and a flag.
ModuleId == <<"module", "_", "id">>
LargeInput == <<"large", "-", "input">>

\* clap's answer for the string flag: the value given, or the default.  A flag
\* of another type, or one the command does not have, is an error, read as none.
StringMatch(c) ==
  IF c.via = "exec" THEN IF c.layout.name = ModuleId THEN "id" ELSE "none"
  ELSE IF c.schema.kind = "boolean" THEN "none"
  ELSE IF c.value # "none" THEN c.value ELSE c.schema.default

PosSet(c) ==
  \/ c.via = "command" /\ "pos" \in c.flags
  \/ c.via = "exec" /\ c.layout.name = LargeInput /\ c.large

\* The action of --no-flag is SetFalse: clap stores true when it is absent.
NegSet(c) == c.via = "command" /\ "neg" \notin c.flags

\* reconcile_bool_pairs; a boolean without a default has the default false.
Reconcile(c) ==
  [json |-> "boolean",
   text |-> IF PosSet(c) THEN "true"
            ELSE IF NegSet(c) THEN "false"
            ELSE IF c.schema.default = "true" THEN "true" ELSE "false"]

\* reconvert_enum_values gives the value of an enum its JSON type.
Reconvert(c) ==
  [text |-> StringMatch(c),
   json |-> IF c.schema.kind = "enum" /\ ~ c.schema.ref /\ StringMatch(c) # "id"
              THEN "number" ELSE "string"]

\* An id that begins with "no-" is taken for the negative of a boolean.
Skipped(name) == IsPrefix(<<"no", "-">>, name)

PlainBoolean(c) == c.schema.kind = "boolean" /\ ~ c.schema.ref

\* The schema is read as it was registered: a $ref hides the type, allOf hides
\* the properties.  Flags that cannot be made are no flags at all.
KwargOf(c) ==
  IF c.schema.top = "allOf" \/ SchemaToClapArgs(Properties(c, PlainBoolean(c))).refused
    THEN None
  ELSE IF PlainBoolean(c) THEN Reconcile(c)
  ELSE IF Skipped(c.layout.name) \/ StringMatch(c) = "none" THEN None
  ELSE Reconvert(c)

ExtractCliKwargs ==
  /\ stage = "extract"
  /\ kwargs' = KwargOf(call)
  /\ stage' = "collect"
  /\ UNCHANGED <<call, merged, exit>>

-----------------------------------------------------------------------------
(* collect_input.                                                          *)

TooLarge == ~ call.large /\ call.size > Limit

\* Mutant: the nulls of the flags not given are merged too.
MergedNullsWin == kwargs

\* STDIN is the base, the non-null kwargs override.
Merged == IF kwargs # None THEN kwargs
          ELSE IF call.asked /\ call.body = "key" THEN call.stdin
          ELSE None

\* Not readable, not JSON, not an object.
BadBodies == {"array", "garbage", "unreadable"}

CollectInput ==
  /\ stage = "collect"
  /\ IF call.asked /\ call.size > 0 /\ (TooLarge \/ call.body \in BadBodies)
       THEN /\ Reject(2)
            /\ UNCHANGED merged
       ELSE /\ merged' = Merged
            /\ stage' = "validate"
            /\ UNCHANGED exit
  /\ UNCHANGED <<call, kwargs>>

-----------------------------------------------------------------------------
(* validate_against_schema.                                                *)

\* A numeric string counts as a number where the schema says so by itself.
Coerced(c, v) ==
  IF v.json = "string" /\ v.text # "id" /\ c.schema.kind = "integer" /\ ~ c.schema.ref
    THEN [v EXCEPT !.json = "number"]
    ELSE v

\* What the schema allows.
Conforms(c, v) ==
  IF v = None THEN ~ c.schema.required ELSE v.json = Native(c.schema.kind)

\* A schema without `properties` at its root is not looked at.
Accepted(c, v) == c.schema.top = "allOf" \/ Conforms(c, Coerced(c, v))

\* The token goes in after the validation, over whatever has its key.
WithToken(c, v) ==
  IF c.token /\ c.layout.name = TokenKey THEN [text |-> "token", json |-> "string"] ELSE v

ValidateInput ==
  /\ stage = "validate"
  /\ IF Accepted(call, merged)
       THEN /\ stage' = "run"
            /\ merged' = WithToken(call, merged)
            /\ UNCHANGED exit
       ELSE Reject(45) /\ UNCHANGED merged
  /\ UNCHANGED <<call, kwargs>>

INext == Build \/ ExtractCliKwargs \/ CollectInput \/ ValidateInput

ISpec == IInit /\ [][INext]_ivars

-----------------------------------------------------------------------------
(* Properties. *)

Given == call.value # "none" \/ call.flags # {}
OnStdin == call.asked /\ call.size > 0 /\ call.body = "key"
Overwritten == call.token /\ call.layout.name = TokenKey

\* A property has its flag to itself: no command is built in which two properties
\* have one flag, the negative of a boolean included, or one has a built-in flag
\* (schema_parser.rs:251-312, cli.rs:509-518), whatever the order of the
\* properties; and none is refused with 48 for another reason.
FlagsAreUnambiguous ==
  LET ps == Properties(call, call.schema.kind = "boolean")
      Ambiguous ==
        \E i, j \in DOMAIN ps :
           \/ i # j /\ Flags(ps[i]) \cap Flags(ps[j]) # {}
           \/ Flags(ps[i]) \cap ReservedFlagNames # {} IN
  /\ call.via = "command" /\ stage \notin {"build", "exited"} => ~ Ambiguous
  /\ exit = 48 => Ambiguous

\* The value of a flag reaches the module, if the properties are at the root, the
\* name does not begin with "no-" (cli.rs:1037-1053) and the token is not written
\* over it (cli.rs:1243-1245).
FlagArrives ==
  stage = "run" /\ call.value # "none" /\ call.schema.top = "properties"
    /\ ~ Skipped(call.layout.name) /\ ~ Overwritten
      => merged.text = call.value

\* What is on the standard input reaches the module unchanged, if neither a flag nor
\* a default nor a boolean pair nor an argument of apcli exec of the same name nor
\* the token has a value for the key (cli.rs:596-600).
StdinArrives ==
  stage = "run" /\ OnStdin /\ ~ Given /\ ~ Overwritten /\ call.schema.kind # "boolean"
    /\ (call.via = "command" => call.schema.default = "none")
    /\ (call.via = "exec" => call.layout.name # ModuleId)
      => merged = call.stdin

\* One byte more than the limit is refused unless --large-input lifts it, the limit
\* itself is not (cli.rs:578-583).
LimitIsExact ==
  /\ stage = "run" /\ call.asked /\ call.size > Limit => call.large
  /\ exit = 2 => call.body \in BadBodies \/ call.size > Limit \/ Built(call) = 2

\* What the user gives arrives, and what does not arrive is refused.
InputArrives == FlagArrives /\ StdinArrives /\ LimitIsExact

\* What makes these properties inductive: each stage has what the stages before it
\* made, and a refusal has its reason.
Refusable == call.asked /\ call.size > 0 /\ (TooLarge \/ call.body \in BadBodies)

InputInv ==
  /\ call \in Calls /\ Sensible(call)
  /\ call.via = "command" /\ stage \notin {"build", "exited"} => Built(call) = 0
  /\ exit = 48 => Built(call) = 48
  /\ exit = 2 => Refusable \/ Built(call) = 2
  /\ stage = "collect" => kwargs = KwargOf(call)
  /\ stage \in {"validate", "run"} => kwargs = KwargOf(call) /\ ~ Refusable
  /\ stage = "validate" => merged = Merged
  /\ stage = "run" => merged = WithToken(call, Merged)

-----------------------------------------------------------------------------
(* What a comment and the README say. *)

\* cli.rs:981-986: --flag gives true, --no-flag false, neither the default.
BoolFlagAsGiven ==
  stage = "run" /\ call.schema.kind = "boolean" /\ call.via = "command"
    /\ ~ OnStdin /\ ~ call.schema.ref /\ call.schema.top = "properties"
      => merged.text = IF "pos" \in call.flags THEN "true"
                       ELSE IF "neg" \in call.flags THEN "false"
                       ELSE IF call.schema.default = "true" THEN "true" ELSE "false"

\* cli.rs:607-609: the flags come before the standard input, and nothing else does.
OnlyFlagsBeatStdin ==
  stage = "run" /\ OnStdin /\ ~ Given /\ call.via = "command" => merged = call.stdin

\* README.md:341: inputs are validated against the schema before execution, $ref and
\* allOf resolved; a numeric string for a declared number counts as one.
ValidatedBeforeRun ==
  stage = "run" => Overwritten \/ Conforms(call, Coerced(call, merged))
=============================================================================
