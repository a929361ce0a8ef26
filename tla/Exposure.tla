------------------------------ MODULE Exposure ------------------------------
(***************************************************************************)
(* ExposureFilter (exposure.rs): which modules are commands.  The patterns *)
(* of the configuration are globs over the ids of modules; they are turned *)
(* into regular expressions, in which * stays inside a dotted segment and  *)
(* two stars cross segments.                                               *)
(*                                                                         *)
(* An id and a pattern are sequences of characters.                        *)
(***************************************************************************)
EXTENDS Naturals, Sequences

\* Mutant: every star by itself, as without the sentinel.
StarByStar(pattern) == [i \in DOMAIN pattern |-> IF pattern[i] = "*" THEN "one" ELSE pattern[i]]

\* The pieces of the regular expression: "deep" for two stars, taken from the
\* left, "one" for the star that is left, and every other character as it is.
Pieces(pattern) ==
  LET from[i \in 1 .. Len(pattern) + 1] ==
        IF i > Len(pattern) THEN <<>>
        ELSE IF pattern[i] # "*" THEN <<pattern[i]>> \o from[i + 1]
        ELSE IF i < Len(pattern) /\ pattern[i + 1] = "*" THEN <<"deep">> \o from[i + 2]
        ELSE <<"one">> \o from[i + 1]
  IN  from[1]

\* Where a piece that starts after k characters of the id may end: .+ for
\* "deep", [^.]* for "one".
Ends(id, piece, k) ==
  CASE piece = "deep" -> k + 1 .. Len(id)
    [] piece = "one" -> {j \in k .. Len(id) : \A i \in k + 1 .. j : id[i] # "."}
    [] OTHER -> {j \in {k + 1} : j <= Len(id) /\ id[j] = piece}

\* glob_match: the pieces one after the other, from the first character to the
\* last.
GlobMatch(id, pattern) ==
  LET pieces == Pieces(pattern)
      reached[n \in 0 .. Len(pieces)] ==
        IF n = 0 THEN {0} ELSE UNION {Ends(id, pieces[n], k) : k \in reached[n - 1]}
  IN  Len(id) \in reached[Len(pieces)]

-----------------------------------------------------------------------------
(* The filter.  Repeated patterns are dropped: a set of patterns says all.  *)

ValidModes == {"all", "include", "exclude", "none"}

\* ExposureFilter::default.
ExposeAll == [mode |-> "all", include |-> {}, exclude |-> {}]

\* ExposureFilter::new; a mode that is misspelt hides everything.
NewFilter(mode, include, exclude) ==
  [mode |-> IF mode \in ValidModes THEN mode ELSE "none", include |-> include, exclude |-> exclude]

\* The patterns of a list in the configuration: a value that is no list has none,
\* and what is empty or not a string is passed over.
ParseList(value) == IF value.kind = "array" THEN value.patterns \ {<<>>} ELSE {}

\* ExposureFilter::from_config; `expose` is the value under that key.  A mode
\* that is misspelt is an error here, "none" too.
FromConfig(expose) ==
  IF expose.kind # "object" THEN [ok |-> TRUE, filter |-> ExposeAll]
  ELSE LET mode == IF expose.mode = "absent" THEN "all" ELSE expose.mode IN
       [ok |-> mode \in {"all", "include", "exclude"},
        filter |-> NewFilter(mode, ParseList(expose.include), ParseList(expose.exclude))]

IsExposed(filter, id) ==
  CASE filter.mode = "all" -> TRUE
    [] filter.mode = "include" -> \E p \in filter.include : GlobMatch(id, p)
    [] filter.mode = "exclude" -> \A p \in filter.exclude : ~ GlobMatch(id, p)
    [] OTHER -> FALSE

-----------------------------------------------------------------------------
(* What a glob means, character by character: a reference.                 *)

\* The number of stars of the run before character i.
StarsBefore(pattern, i) ==
  LET from == CHOOSE a \in 1 .. i : /\ \A j \in a .. i - 1 : pattern[j] = "*"
                                    /\ a = 1 \/ pattern[a - 1] # "*"
  IN  i - from

\* What character i of the pattern may stand for.
StandsFor(pattern, i, text) ==
  IF pattern[i] # "*" THEN text = <<pattern[i]>>
  ELSE IF StarsBefore(pattern, i) % 2 = 1 THEN text = <<>>
  ELSE IF i < Len(pattern) /\ pattern[i + 1] = "*" THEN text # <<>>
  ELSE "." \notin {text[j] : j \in DOMAIN text}

\* The id can be cut so that every character of the pattern stands for its part.
Spells(pattern, id) ==
  \E cut \in [0 .. Len(pattern) -> 0 .. Len(id)] :
    /\ cut[0] = 0 /\ cut[Len(pattern)] = Len(id)
    /\ \A i \in 1 .. Len(pattern) :
         /\ cut[i - 1] <= cut[i]
         /\ StandsFor(pattern, i, SubSeq(id, cut[i - 1] + 1, cut[i]))
=============================================================================
