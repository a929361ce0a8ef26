---------------------------- MODULE MCCatalogue ----------------------------
(* Catalogue for TLC: two registries, patterns with one, two and three      *)
(* stars, descriptions with characters of one to four bytes.                *)
EXTENDS Catalogue

\* u2, k3 and m4 stand for characters of two, three and four bytes.
MCAlphabet == <<"-", ".", "1", "A", "_", "a", "b", "c", "u2", "k3", "m4">>
MCWidth == [x \in DOMAIN Rank |-> CASE x = "u2" -> 2 [] x = "k3" -> 3 [] x = "m4" -> 4 [] OTHER -> 1]
MCLower == [x \in DOMAIN Rank |-> IF x = "A" THEN "a" ELSE x]

Module(id, description, tags, enabled, deprecated, annotations, dependencies) ==
  [id |-> id, description |-> description, tags |-> tags, enabled |-> enabled,
   deprecated |-> deprecated, annotations |-> annotations, dependencies |-> dependencies]

A == <<"a">>
AB == <<"a", ".", "b">>
AAB == <<"a", "b", ".", "b">>
ABC == <<"a", ".", "b", ".", "c">>
Other == <<"c", "1">>

MCRegistries ==
  {[registered |-> <<Module(A, <<"A", "b", "m4", "m4">>, {<<"a">>}, "absent", FALSE, {"requires_approval"}, 0),
                    Module(AB, <<"a", "a", "a", "u2", "k3", "c">>, {<<"a">>, <<"b", "-", "1">>}, "yes", FALSE, {}, 2),
                    Module(ABC, <<"c">>, {}, "no", FALSE, {"destructive"}, 1),
                    Module(AAB, <<>>, {<<"a">>}, "yes", TRUE, {"requires_approval", "destructive"}, 0)>>,
    discovered |-> <<AB, Other, AB>>,
    descriptions |-> (AB :> <<"k3", "k3", "k3", "k3">>)],
   [registered |-> <<>>, discovered |-> <<Other>>, descriptions |-> (Other :> <<"a">>)]}

Patterns ==
  {{<<"*">>, AB}, {<<"*", "*">>, <<"a", "*", "*">>}, {<<"*", "*", "*">>, <<"a">>},
   {<<"a", ".", "*">>, <<"*", "*", ".", "b">>},
   {<<"a", ".", "*", "*">>, <<"a", "*", ".", "b">>}, {<<"a", "*">>, <<"a", "*", "*", "b">>}}

Patterned(patterns) == [kind |-> "array", patterns |-> patterns]
Expose(mode, include, exclude) ==
  [kind |-> "object", mode |-> mode, include |-> include, exclude |-> exclude]

\* What the configuration may say; of what it refuses there is no filter.
MCConfigs ==
  {[kind |-> "absent"], [kind |-> "scalar"], Expose("hide", Patterned({}), Patterned({}))} \cup
  {Expose("include", Patterned(p), Patterned({AB})) : p \in Patterns} \cup
  {Expose("exclude", [kind |-> "scalar"], Patterned({<<"a", ".", "*">>, <<"a", "b", ".", "*">>, <<>>})),
   Expose("absent", Patterned({}), Patterned({AB}))}

MCFilters ==
  {NoFilter, NewFilter("none", {}, {}), NewFilter("inclde", {AB}, {})} \cup
  {FromConfig(e).filter : e \in {e \in MCConfigs : FromConfig(e).ok}}

Plain == [tags |-> {}, search |-> <<>>, status |-> "enabled", annotations |-> {}, deprecated |-> FALSE,
          exposure |-> "exposed", sort |-> "id", reverse |-> FALSE, deps |-> FALSE,
          format |-> "absent", tty |-> FALSE]

\* The options that choose, those that order, and those that show, a few of each
\* at a time.
MCRequests ==
  {[Plain EXCEPT !.tags = t, !.search = q, !.status = s, !.annotations = a, !.deprecated = d] :
     t \in {{}, {<<"a">>}}, q \in {<<>>, <<"A", "b">>},
     s \in {"enabled", "disabled", "all"}, a \in {{}, {"requires-approval"}}, d \in BOOLEAN} \cup
  {[Plain EXCEPT !.tags = t] : t \in {{<<"a">>, <<"b", "-", "1">>}, {<<"a">>, <<"1">>}}} \cup
  {[Plain EXCEPT !.status = "all", !.deprecated = TRUE, !.sort = f, !.reverse = r] :
     f \in {"id", "calls", "errors", "latency"}, r \in BOOLEAN} \cup
  {[Plain EXCEPT !.status = "all", !.exposure = e, !.format = f, !.deps = d, !.tty = (f = "skill")] :
     e \in {"exposed", "hidden", "all"}, f \in {"absent", "csv", "skill"}, d \in BOOLEAN} \cup
  {[Plain EXCEPT !.status = "all", !.exposure = e, !.deps = d, !.tty = TRUE] :
     e \in {"exposed", "hidden", "all"}, d \in BOOLEAN}

MCCalls == [module : {A, AB, Other}, failed : {TRUE}, duration : {1}] \cup
           [module : {A, AB}, failed : {FALSE}, duration : {4}]

MCDescribed == {A, ABC, Other, <<"A">>, <<>>}
=============================================================================
