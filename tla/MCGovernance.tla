---------------------------- MODULE MCGovernance ----------------------------
(* Governance for TLC: every list of two rules out of fourteen, and the     *)
(* pairs of runs that have something to tell about one another.             *)
EXTENDS Governance

Rule(effect, cond, caller) == [effect |-> effect, cond |-> cond, caller |-> caller]

Rules ==
  {Rule("deny", c, "any") : c \in {"none", "role", "external", "user", "svc", "shallow",
                                   "argument", "bogus"}}
    \cup {Rule("allow", c, "any") : c \in {"role", "bogus"}}
    \cup {Rule("approve", c, "any") : c \in {"none", "argument"}}
    \cup {Rule(e, "none", "@external") : e \in {"deny", "allow"}}

Acl(rules, default) == [attached |-> TRUE, rules |-> rules, default |-> default]
NoAcl == [attached |-> FALSE, rules |-> <<>>, default |-> "deny"]
Acls == {Acl(r, d) : r \in {<<>>} \cup {<<a>> : a \in Rules} \cup {<<a, b>> : a, b \in Rules},
                     d \in {"allow", "deny"}} \cup {NoAcl}

Assertion(id, type, roles) == [id |-> id, type |-> type, roles |-> roles]
Nothing == Assertion(FALSE, Unset, {})
Assertions == {Nothing, Assertion(TRUE, Unset, {}), Assertion(FALSE, "svc", {}),
               Assertion(FALSE, Unset, {"admin"})}

PlainArgs == [root |-> Nothing, sub |-> Nothing, caller |-> "@external", depth |-> NoDepth,
              input |-> Unset, callInput |-> "with", yes |-> FALSE, strict |-> FALSE]
PlainHost == [tty |-> FALSE, auto |-> FALSE, registered |-> TRUE, annotated |-> FALSE,
              unprotected |-> FALSE]

\* acl check, then a call; or the same call on two paths.
CallSessions ==
  [acl : Acls, host : {PlainHost},
   args : {[PlainArgs EXCEPT !.root = r, !.sub = s, !.input = i, !.callInput = c] :
             r \in Assertions, s \in {Nothing, Assertion(FALSE, "user", {})},
             i \in {Unset, "with", "without"}, c \in {"with", "without"}},
   runs : {<<"check", "exec">>, <<"script", "exec">>, <<"check", "script">>}]

\* The other flags of acl check, and the other commands.
OddSessions ==
  [acl : {NoAcl} \cup {Acl(<<a>>, "allow") : a \in Rules},
   host : {PlainHost, [PlainHost EXCEPT !.unprotected = TRUE]},
   args : {[PlainArgs EXCEPT !.depth = d, !.caller = c, !.input = i, !.strict = s] :
             d \in {NoDepth, BadDepth, 0, 2}, c \in {"@external", "mod"},
             i \in {Unset, "bad"}, s \in BOOLEAN},
   runs : {<<"check">>, <<"list">>, <<"validate">>, <<"status">>, <<"config">>,
           <<"config get">>}]

\* A control command after a reading one.
SystemSessions ==
  [acl : {NoAcl} \cup {Acl(<<a>>, "allow") : a \in Rules},
   host : [tty : BOOLEAN, auto : BOOLEAN, registered : BOOLEAN, annotated : BOOLEAN,
           unprotected : {FALSE}],
   args : {[PlainArgs EXCEPT !.root = r, !.yes = y] : r \in Assertions, y \in BOOLEAN},
   runs : {<<"health", "enable">>}]

MCSessions == CallSessions \cup OddSessions \cup SystemSessions
=============================================================================
