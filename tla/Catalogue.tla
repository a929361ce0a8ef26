----------------------------- MODULE Catalogue -----------------------------
(***************************************************************************)
(* apcli list and apcli describe (discovery.rs) over the modules of the    *)
(* registry, the filter of exposed modules, and the audit log, which gives *)
(* the order when it is asked for by use (system_usage.rs).  What is shown *)
(* is a sequence of rows (output.rs): wording and layout are left out.     *)
(*                                                                         *)
(* Ids, tags, descriptions and queries are sequences of characters.        *)
(* AuditLog has the writing of the log; here a line is whole or torn.      *)
(***************************************************************************)
EXTENDS Exposure, Lists, SequencesExt

CONSTANTS
  Alphabet,   \* the characters, in the order of their codes; "deep" and "one" are none
  Width,      \* Width[c]: the bytes of a character in UTF-8
  Lower,      \* Lower[c]: its lower case
  Registries, \* what the registry may hold
  Filters,    \* the filters of exposed modules
  Requests,   \* the options list may be given
  Calls,      \* the calls that may be recorded: module, failed, duration
  DescribedIds, \* the ids describe is asked for
  DescLimit,  \* DESCRIPTION_TRUNCATE_LEN
  MaxLines    \* bound on the log

Rank == [c \in {Alphabet[i] : i \in DOMAIN Alphabet} |-> CHOOSE i \in DOMAIN Alphabet : Alphabet[i] = c]

Small == {"a", "b", "c"}
Digits == {"1"}

Text == Seq(DOMAIN Rank)

Modules == [id : Text, description : Text, tags : SUBSET Text, enabled : {"absent", "yes", "no"},
            deprecated : BOOLEAN, annotations : SUBSET STRING, dependencies : Nat]

\* The options of list, by their words.
Options == [tags : SUBSET Text, search : Text, status : {"enabled", "disabled", "all"},
            annotations : SUBSET STRING, deprecated : BOOLEAN,
            exposure : {"exposed", "hidden", "all"}, sort : {"id", "calls", "errors", "latency"},
            reverse : BOOLEAN, deps : BOOLEAN, format : STRING, tty : BOOLEAN]

\* A registry has its modules by their ids.
ASSUME CatalogueAssumption ==
  /\ MaxLines \in Nat /\ DescLimit \in Nat /\ DescLimit >= 3
  /\ Alphabet \in Seq(STRING)
  /\ Requests \subseteq Options
  /\ Calls \subseteq [module : Text, failed : BOOLEAN, duration : Nat]
  /\ \A r \in Registries :
       /\ r.registered \in Seq(Modules) /\ r.discovered \in Seq(Text)
       /\ \A i, j \in DOMAIN r.registered : r.registered[i].id = r.registered[j].id => i = j
       /\ \A id \in DOMAIN r.descriptions : r.descriptions[id] \in Text
  /\ \A f \in Filters : f.include \cup f.exclude \subseteq Seq(DOMAIN Rank \cup {"*"})
  /\ Small \cup Digits \cup {"."} \subseteq DOMAIN Rank
  /\ {"deep", "one"} \cap DOMAIN Rank = {}
  /\ Width \in [DOMAIN Rank -> 1 .. 4] /\ Lower \in [DOMAIN Rank -> DOMAIN Rank]

VARIABLES
  registry, \* what the registry provider has
  filter,   \* the ExposureFilter given to list, or NoFilter
  log,      \* the lines of audit.jsonl
  shown     \* what the last command showed, or Nothing

cvars == <<registry, filter, log, shown>>

NoFilter == [mode |-> "unset", include |-> {}, exclude |-> {}]
Nothing == [of |-> "nothing", request |-> {}, exit |-> 0, kind |-> "none", rows |-> <<>>, note |-> FALSE]

-----------------------------------------------------------------------------
(* The registry provider.                                                  *)

RegisteredIds(r) == [i \in DOMAIN r.registered |-> r.registered[i].id]

\* ApCoreRegistryProvider::list: the names found on disk follow, each once.
ListIds(r) ==
  LET known[n \in 0 .. Len(r.discovered)] ==
        IF n = 0 THEN RegisteredIds(r)
        ELSE IF Contains(known[n - 1], r.discovered[n]) THEN known[n - 1]
        ELSE Append(known[n - 1], r.discovered[n])
  IN  known[Len(r.discovered)]

IsRegistered(r, id) == Contains(RegisteredIds(r), id)

\* ApCoreRegistryProvider::get_definition: the description read at start-up
\* takes the place of the descriptor's.
Definition(r, id) ==
  LET m == r.registered[CHOOSE i \in DOMAIN r.registered : r.registered[i].id = id] IN
  IF id \in DOMAIN r.descriptions THEN [m EXCEPT !.description = r.descriptions[id]] ELSE m

\* A name without a definition is passed over.
Definitions(r) ==
  LET all == ListIds(r)
      ids == Picked(all, {i \in DOMAIN all : IsRegistered(r, all[i])})
  IN  [i \in DOMAIN ids |-> Definition(r, ids[i])]

-----------------------------------------------------------------------------
(* The filters of list; each keeps some modules, so their order is no      *)
(* matter.                                                                 *)

\* validate_tag: [a-z][a-z0-9_-]*
ValidTag(tag) ==
  /\ tag # <<>> /\ tag[1] \in Small
  /\ \A i \in DOMAIN tag : tag[i] \in Small \cup Digits \cup {"_", "-"}

LowerCase(text) == [i \in DOMAIN text |-> Lower[text[i]]]

\* The text has the query in it, whatever the case.
Mentions(text, query) ==
  \E i \in 0 .. Len(text) - Len(query) :
    SubSeq(LowerCase(text), i + 1, i + Len(query)) = LowerCase(query)

\* Mutant: a module that does not say it is enabled is disabled, and enabled.
HasStatusLoosely(m, status) ==
  CASE status = "enabled" -> m.enabled # "no"
    [] status = "disabled" -> m.enabled # "yes"
    [] OTHER -> TRUE

\* A module that does not say is enabled.
HasStatus(m, status) ==
  CASE status = "enabled" -> m.enabled # "no"
    [] status = "disabled" -> m.enabled = "no"
    [] OTHER -> TRUE

\* The attribute behind the word of the option.
Attribute(word) == IF word = "requires-approval" THEN "requires_approval" ELSE word

HasExposure(m, exposure) ==
  \/ filter = NoFilter
  \/ CASE exposure = "exposed" -> IsExposed(filter, m.id)
       [] exposure = "hidden" -> ~ IsExposed(filter, m.id)
       [] OTHER -> TRUE

Passes(m, request) ==
  /\ request.tags \subseteq m.tags
  /\ \/ request.search = <<>>
     \/ Mentions(m.id, request.search) \/ Mentions(m.description, request.search)
  /\ HasStatus(m, request.status)
  /\ m.deprecated => request.deprecated
  /\ {Attribute(w) : w \in request.annotations} \subseteq m.annotations
  /\ HasExposure(m, request.exposure)

\* cmd_list_enhanced, up to the sorting.
Selected(request) ==
  LET all == Definitions(registry) IN
  Picked(all, {i \in DOMAIN all : Passes(all[i], request)})

-----------------------------------------------------------------------------
(* compute_summary, over the last day.                                     *)

\* A line cut inside a character makes the log illegible as a whole.
Legible == \A i \in DOMAIN log : log[i].kind # "cut"

\* The lines that count, of a legible log: whole, of an execution, recent.
Window == {i \in DOMAIN log : Legible /\ log[i].kind = "exec" /\ log[i].recent}

CallsOf(id) == {i \in Window : log[i].module = id}

\* The sum of the durations.
Duration(id) ==
  LET upTo[n \in 0 .. Len(log)] ==
        IF n = 0 THEN 0
        ELSE upTo[n - 1] + IF n \in CallsOf(id) THEN log[n].duration ELSE 0
  IN  upTo[Len(log)]

\* The average, in twelfths: exact for up to four calls.
Latency(id) ==
  IF CallsOf(id) = {} THEN 0 ELSE (12 * Duration(id)) \div Cardinality(CallsOf(id))

UsageKey(id, field) ==
  CASE field = "calls" -> Cardinality(CallsOf(id))
    [] field = "errors" -> Cardinality({i \in CallsOf(id) : log[i].failed})
    [] field = "latency" -> Latency(id)

-----------------------------------------------------------------------------
(* Sorting.                                                                *)

\* The order of ids: of the first characters that differ.
IdBefore(a, b) ==
  \/ IsStrictPrefix(a, b)
  \/ \E i \in 1 .. IF Len(a) < Len(b) THEN Len(a) ELSE Len(b) :
       SubSeq(a, 1, i - 1) = SubSeq(b, 1, i - 1) /\ Rank[a[i]] < Rank[b[i]]

\* sort_modules_by_usage: the most used first, or last; equals by id.
UsageBefore(a, b, field, reverse) ==
  LET ka == UsageKey(a.id, field)  kb == UsageKey(b.id, field) IN
  IF ka = kb THEN IdBefore(a.id, b.id) ELSE (ka > kb) # reverse

\* Mutant: without use to go by, the helper's own direction stays.
PrecedesInverted(a, b, request) ==
  IF request.sort = "id" THEN IF request.reverse THEN IdBefore(b.id, a.id) ELSE IdBefore(a.id, b.id)
  ELSE IF Window = {} THEN IF request.reverse THEN IdBefore(a.id, b.id) ELSE IdBefore(b.id, a.id)
  ELSE UsageBefore(a, b, request.sort, request.reverse)

\* Without any use in the log, by id, in the direction the user asked for; as no two
\* rows have one id, to sort and to reverse is to sort the other way.
Precedes(a, b, request) ==
  IF request.sort = "id" \/ Window = {}
    THEN IF request.reverse THEN IdBefore(b.id, a.id) ELSE IdBefore(a.id, b.id)
    ELSE UsageBefore(a, b, request.sort, request.reverse)

\* sort_by: the arrangements of the rows in which none follows one it precedes.
Sortings(rows, request) ==
  {order \in [DOMAIN rows -> DOMAIN rows] :
     /\ \A i, j \in DOMAIN rows : order[i] = order[j] => i = j
     /\ \A i, j \in DOMAIN rows : i < j => ~ Precedes(rows[order[j]], rows[order[i]], request)}

-----------------------------------------------------------------------------
(* What is shown.                                                          *)

\* resolve_format.
Formats == {"table", "json", "csv", "yaml", "jsonl", "markdown", "skill"}
ResolveFormat(request) ==
  CASE request.format \in Formats -> request.format
    [] request.format = "absent" -> IF request.tty THEN "table" ELSE "json"
    [] OTHER -> "json"

\* A list or a module is not shown as csv, yaml or jsonl: json instead.
ShownAs(request) ==
  IF ResolveFormat(request) \in {"table", "markdown", "skill"} THEN ResolveFormat(request) ELSE "json"

\* The bytes of the first n characters.
Bytes(text, n) ==
  LET b[k \in 0 .. n] == IF k = 0 THEN 0 ELSE b[k - 1] + Width[text[k]] IN b[n]

\* Mutant: the cut may fall behind the character that stands across it.
TruncatePast(text, limit) ==
  IF Bytes(text, Len(text)) <= limit THEN [text |-> text, dots |-> FALSE]
  ELSE [text |-> SubSeq(text, 1, Cardinality({k \in DOMAIN text : Bytes(text, k - 1) < limit - 3})),
        dots |-> TRUE]

\* truncate: the characters that end before the dots.
Truncate(text, limit) ==
  IF Bytes(text, Len(text)) <= limit THEN [text |-> text, dots |-> FALSE]
  ELSE [text |-> SubSeq(text, 1, Cardinality({k \in DOMAIN text : Bytes(text, k) <= limit - 3})),
        dots |-> TRUE]

\* The columns of a row that are not always there.
Optional(m, request, kind) ==
  [deps |-> IF request.deps /\ kind \in {"table", "json"} THEN <<m.dependencies>> ELSE <<>>,
   exposed |-> IF request.exposure = "all" /\ filter # NoFilter /\ kind \in {"table", "json"}
                 THEN <<IsExposed(filter, m.id)>> ELSE <<>>]

\* format_module_list_with_options; an empty table is a sentence.
Row(m, request, kind) ==
  [id |-> m.id, optional |-> Optional(m, request, kind),
   description |-> IF kind = "table" THEN Truncate(m.description, DescLimit)
                   ELSE [text |-> m.description, dots |-> FALSE]]

CInit ==
  /\ registry \in Registries
  /\ filter \in Filters
  /\ log = <<>>
  /\ shown = Nothing

\* handle_list, cmd_list_enhanced: a tag of the wrong form is refused before
\* anything is read.
List(request) ==
  LET kind == ShownAs(request)
      rows == Selected(request)
  IN
  /\ shown.of = "nothing"
  /\ IF \E tag \in request.tags : ~ ValidTag(tag)
       THEN shown' = [Nothing EXCEPT !.of = "list", !.request = request, !.exit = 2]
       ELSE \E order \in Sortings(rows, request) :
              shown' = [of |-> "list", request |-> request, exit |-> 0,
                        kind |-> IF kind = "table" /\ rows = <<>> THEN "sentence" ELSE kind,
                        rows |-> [i \in DOMAIN rows |-> Row(rows[order[i]], request, kind)],
                        note |-> request.sort # "id" /\ Window = {}]
  /\ UNCHANGED <<registry, filter, log>>

\* is_valid_module_id: segments of small letters and digits, begun by a letter.
ValidId(id) ==
  /\ id # <<>>
  /\ \A i \in DOMAIN id : id[i] \in Small \cup Digits \cup {"_", "."}
  /\ \A i \in DOMAIN id : i = 1 \/ id[i - 1] = "." => id[i] \in Small
  /\ id[Len(id)] # "."

\* format_module_detail: the whole description, and the sections that have
\* something in them, in a table as in json.
Detail(m) ==
  [id |-> m.id, description |-> m.description,
   sections |-> {s \in {"annotations", "tags"} :
                   IF s = "tags" THEN m.tags # {} ELSE m.annotations # {}}]

\* handle_describe, cmd_describe.
Describe(id) ==
  /\ shown.of = "nothing"
  /\ shown' = IF ~ ValidId(id) THEN [Nothing EXCEPT !.of = "describe", !.request = id, !.exit = 2]
              ELSE IF ~ IsRegistered(registry, id) THEN [Nothing EXCEPT !.of = "describe", !.request = id, !.exit = 44]
              ELSE [Nothing EXCEPT !.of = "describe", !.request = id, !.kind = "detail",
                                   !.rows = <<Detail(Definition(registry, id))>>]
  /\ UNCHANGED <<registry, filter, log>>

\* What is appended to a line without its end makes one line with it, which says
\* nothing.
Logged(line) ==
  IF log # <<>> /\ log[Len(log)].kind \in {"torn", "cut"}
    THEN [log EXCEPT ![Len(log)].kind = IF "cut" \in {@, line.kind} THEN "cut" ELSE "illegible"]
    ELSE Append(log, line)

\* A call ends and is recorded, by this or another process.
Record(call) ==
  /\ shown.of = "nothing"
  /\ Len(log) < MaxLines
  /\ log' = Logged([kind |-> "exec", recent |-> TRUE, module |-> call.module,
                    failed |-> call.failed, duration |-> call.duration])
  /\ UNCHANGED <<registry, filter, shown>>

\* A line that is no execution: a decision of the ACL, or what a kill left.
OtherLine(kind) ==
  /\ shown.of = "nothing"
  /\ Len(log) < MaxLines
  /\ log' = Logged([kind |-> kind, recent |-> TRUE, module |-> <<>>,
                    failed |-> FALSE, duration |-> 0])
  /\ UNCHANGED <<registry, filter, shown>>

DayPasses ==
  /\ shown.of = "nothing"
  /\ \E i \in DOMAIN log : log[i].recent
  /\ log' = [i \in DOMAIN log |-> [log[i] EXCEPT !.recent = FALSE]]
  /\ UNCHANGED <<registry, filter, shown>>

\* The output has been read; the next command is another process.
Read ==
  /\ shown.of # "nothing"
  /\ shown' = Nothing
  /\ UNCHANGED <<registry, filter, log>>

CNext ==
  \/ \E request \in Requests : List(request)
  \/ \E id \in DescribedIds : Describe(id)
  \/ \E call \in Calls : Record(call)
  \/ \E kind \in {"acl", "torn", "cut"} : OtherLine(kind)
  \/ DayPasses \/ Read

CSpec == CInit /\ [][CNext]_cvars

-----------------------------------------------------------------------------
(* Properties.                                                             *)

Listed == shown.of = "list" /\ shown.exit = 0
Shown == [i \in DOMAIN shown.rows |-> shown.rows[i].id]

\* What the same request would show with one option changed.
WithExposure(e) == ToSet(Selected([shown.request EXCEPT !.exposure = e]))
WithStatus(s) == ToSet(Selected([shown.request EXCEPT !.status = s]))

\* No module falls between the lists and none is in two: of the same request,
\* exposed and hidden share out all, enabled and disabled share out all, each
\* module has one row, and the column that says exposed or not agrees with the
\* list the module is on (discovery.rs:173-240, output.rs:261-310).
EachModuleOnOneList ==
  Listed =>
    /\ \A i, j \in DOMAIN Shown : Shown[i] = Shown[j] => i = j
    /\ WithStatus("enabled") \cup WithStatus("disabled") = WithStatus("all")
    /\ WithStatus("enabled") \cap WithStatus("disabled") = {}
    /\ filter # NoFilter =>
         /\ WithExposure("exposed") \cup WithExposure("hidden") = WithExposure("all")
         /\ WithExposure("exposed") \cap WithExposure("hidden") = {}
         /\ \A i \in DOMAIN shown.rows : shown.rows[i].optional.exposed # <<>> =>
              (shown.rows[i].optional.exposed[1] <=>
                 \E m \in WithExposure("exposed") : m.id = Shown[i])

\* The rows come in the order that was asked for: by use, the most used first
\* unless it is reversed, equals by id; by id when that is asked for or nobody
\* used anything, and then --reverse means what it says (discovery.rs:249-262
\* tells of the time it did not).
OrderAsAsked ==
  Listed => \A i, j \in DOMAIN Shown : i < j =>
    LET request == shown.request
        ki == UsageKey(Shown[i], request.sort)  kj == UsageKey(Shown[j], request.sort)
        byId == IF request.reverse THEN IdBefore(Shown[j], Shown[i]) ELSE IdBefore(Shown[i], Shown[j])
    IN  IF request.sort = "id" \/ shown.note THEN byId
        ELSE \/ IF request.reverse THEN ki < kj ELSE ki > kj
             \/ ki = kj /\ IdBefore(Shown[i], Shown[j])

\* A pattern exposes or hides just the ids it spells, where a star does not
\* cross a dot and two stars stand for one character at least
\* (exposure.rs:10-14).
GlobsAsDocumented ==
  shown.of = "nothing" /\ log = <<>> =>
    \A id \in ToSet(RegisteredIds(registry)), p \in filter.include \cup filter.exclude :
      GlobMatch(id, p) <=> Spells(p, id)

\* In a table a description takes no more than its bytes, is the beginning of
\* the text in whole characters, and is cut only if it must; elsewhere it is
\* whole (output.rs:104-123).
DescriptionsFit ==
  Listed => \A i \in DOMAIN shown.rows :
    LET row == shown.rows[i]
        all == Definition(registry, row.id).description
        bytes == Bytes(row.description.text, Len(row.description.text))
    IN  /\ IsPrefix(row.description.text, all)
        /\ row.description.dots <=> shown.kind = "table" /\ Bytes(all, Len(all)) > DescLimit
        /\ row.description.dots => bytes + 3 <= DescLimit /\ bytes + 3 + 4 > DescLimit

\* What makes these properties inductive: the list shown is one of the selected rows
\* in the order asked for, of the registry, the filter and the log as they are.
Lines == [kind : {"exec", "acl", "torn", "illegible", "cut"}, recent : BOOLEAN, module : Text,
          failed : BOOLEAN, duration : Nat]

IsListing(s) ==
  LET request == s.request
      rows == Selected(request)
  IN  /\ request \in Requests
      /\ \E order \in Sortings(rows, request) :
           s.rows = [i \in DOMAIN rows |-> Row(rows[order[i]], request, ShownAs(request))]
      /\ s.note = (request.sort # "id" /\ Window = {})
      /\ s.kind = IF ShownAs(request) = "table" /\ rows = <<>> THEN "sentence" ELSE ShownAs(request)

CatalogueInv ==
  /\ registry \in Registries /\ filter \in Filters /\ log \in Seq(Lines)
  /\ Listed => IsListing(shown)
=============================================================================
