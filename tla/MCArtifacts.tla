---------------------------- MODULE MCArtifacts ----------------------------
(* Ids that become one name, an id that looks numbered, ids that differ in  *)
(* a dot and an underscore; documents of every state.                       *)
EXTENDS Artifacts

Query == [in |-> "query", named |-> TRUE]
Op(id, method, path, params, deprecated) ==
  [id |-> id, method |-> method, path |-> path, params |-> params,
   shared |-> IF path = "/z" THEN {Query} ELSE {}, deprecated |-> deprecated]

Slash == <<"a", "/", "b">>
Colon == <<"a", ":", "b">>
Numbered1 == <<"a", "_", "b", "_", "1">>

MCTokens == STRING
MCNumerals == <<"1", "2", "3">>

MCDocuments ==
  {[state |-> s, ops |-> <<>>] : s \in {"unreadable", "unparseable", "swagger", "openapi"}}
  \cup {[state |-> "openapi", ops |-> ops] : ops \in
    {<<Op(Slash, "post", "/x", {Query}, FALSE), Op(Colon, "get", "/x", {Query}, FALSE),
       Op(Numbered1, "put", "/y", {Query}, TRUE)>>,
     <<Op(<<"p", ".", ".", "q">>, "PATCH", "/z", {Query, [in |-> "path", named |-> TRUE]}, FALSE),
       Op(<<"p", ".", "q">>, "post", "/z", {[in |-> "ref", named |-> FALSE], [in |-> "query", named |-> FALSE]}, FALSE)>>}}

MCInitIds == {<<"ops", ".", "run">>, <<"ops">>, <<"a", ".", "b">>, <<"a", "_", "b">>}
MCInitDirs == {<<"commands">>, <<"my", "/", "bindings">>, <<"..", "/", "up">>}
MCOutput == <<"bindings">>
MCUserPaths ==
  {At(<<"bindings">>, <<"a", "_", "b">>, ".binding.yaml"), At(<<"commands">>, <<"ops">>, ".rs")}
=============================================================================
