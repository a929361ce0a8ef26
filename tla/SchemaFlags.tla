---------------------------- MODULE SchemaFlags ----------------------------
(***************************************************************************)
(* From the properties of a module's input schema to the flags of its      *)
(* command: schema_to_clap_args (schema_parser.rs) and the checks          *)
(* build_module_command adds (cli.rs).                                     *)
(*                                                                         *)
(* A name is the sequence of its words and separators, for the dash and    *)
(* the underscore are what makes two names one flag; a property is its     *)
(* name and whether its declared type is boolean.                          *)
(***************************************************************************)
EXTENDS Naturals, Sequences, SequencesExt

\* prop_name_to_flag_name.
Flag(name) == [i \in DOMAIN name |-> IF name[i] = "_" THEN "-" ELSE name[i]]

\* format!("no-{}", ..), of a flag and of the id of an argument.
Negated(long) == <<"no", "-">> \o long

\* Two of the flags every module command has, one with a separator.
ReservedPropertyNames == {<<"input">>, <<"large", "_", "input">>}
ReservedFlagNames == {<<"input">>, <<"large", "-", "input">>}

\* The flags a property asks for.
Flags(p) == {Flag(p.name)} \cup (IF p.boolean THEN {Negated(Flag(p.name))} ELSE {})

Taken(seen) == {e.flag : e \in seen}

\* Mutant: the negative flag of a boolean is entered without a look at whether it
\* is taken.
AddPropertyUnprobed(s, p) ==
  IF s.refused \/ p.name \in ReservedPropertyNames \/ Flag(p.name) \in Taken(s.seen)
    THEN [s EXCEPT !.refused = TRUE]
    ELSE [s EXCEPT !.seen = {e \in @ : e.flag \notin Flags(p)}
                              \cup [flag : Flags(p), of : {p.name}]]

\* One turn of the loop over the properties: a reserved name, or a flag that an
\* earlier property has, ends it in an error.
AddProperty(s, p) ==
  IF s.refused \/ p.name \in ReservedPropertyNames \/ Flags(p) \cap Taken(s.seen) # {}
    THEN [s EXCEPT !.refused = TRUE]
    ELSE [s EXCEPT !.seen = @ \cup [flag : Flags(p), of : {p.name}]]

\* The properties in the order of the schema's map.
SchemaToClapArgs(properties) ==
  LET after[n \in 0 .. Len(properties)] ==
        IF n = 0 THEN [seen |-> {}, refused |-> FALSE]
        ELSE AddProperty(after[n - 1], properties[n])
  IN  after[Len(properties)]

\* build_module_command: the exit code, 0 for a command that is built.
BuildModuleCommand(properties) ==
  LET made == SchemaToClapArgs(properties) IN
  IF made.refused THEN 48
  ELSE IF Taken(made.seen) \cap ReservedFlagNames # {} THEN 2
  ELSE 0
=============================================================================
