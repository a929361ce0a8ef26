----------------------------- MODULE MCStartup -----------------------------
(* Startup for TLC: three families of worlds, each rich in one part.       *)
EXTENDS Startup

\* The second version of m has no description.
Module(name, exec, ver) ==
  [name |-> name, exec |-> exec, described |-> ver = 1, ver |-> ver]

MCContents == {Absent, Bad, Module("m", "inside", 1), Module("m", "none", 2),
               Module("n", "outside", 1), Module("sys", "missing", 1)}

Yaml(apcli, aclRoot, audit) ==
  [state |-> "mapping", apcli |-> apcli, aclRoot |-> aclRoot, audit |-> audit,
   extensions |-> "/e"]

NoEntry == [shape |-> "none"]
Plain == Yaml(NoEntry, Unset, Unset)
MCYamls == {[state |-> "absent"], [state |-> "malformed"], Plain,
            Yaml([shape |-> "false"], "/a", "false")}

PlainArgs == [aclFlag |-> Unset, aclEnv |-> Unset, auditEnv |-> Unset, auditOff |-> FALSE,
              extFlag |-> Unset, extEnv |-> Unset, visEnv |-> Unset, wellFormed |-> TRUE]

PlainFiles == [dir |-> TRUE, modules |-> [p \in Paths |-> Absent], yaml |-> Plain,
               acl |-> [r \in AclRoots |-> "absent"]]

\* Any modules; the directory may be missing and the command line wrong.
ModuleWorlds ==
  [args : {PlainArgs, [PlainArgs EXCEPT !.wellFormed = FALSE]},
   fs : {[PlainFiles EXCEPT !.modules = m, !.dir = d] :
           m \in [Paths -> MCContents], d \in BOOLEAN}]

\* Any entry for the group of commands, and any variable for it.
Entries == [shape : {"none", "null", "true", "false", "scalar"}] \cup
           [shape : {"mapping"}, mode : {Unset, "null", "all", "none", "include", "exclude", "bogus"},
            names : SUBSET {"list", "exec"}, sealed : BOOLEAN]

GroupWorlds ==
  [args : {[PlainArgs EXCEPT !.visEnv = v] : v \in {Unset, "show", "hide", "bogus"}},
   fs : {[PlainFiles EXCEPT !.yaml = Yaml(e, Unset, Unset), !.modules = [p \in Paths |-> m]] :
           e \in Entries, m \in {Absent, Module("sys", "missing", 1)}}]

\* ACLs at two of the roots, and the ways to choose a root.
AclWorlds ==
  [args : {[PlainArgs EXCEPT !.aclFlag = f, !.aclEnv = v] :
             f \in {Unset, " ", "/a"}, v \in {Unset, "", "/b"}},
   fs : {[PlainFiles EXCEPT !.yaml = y, !.acl = a] :
           y \in {[state |-> "malformed"]} \cup {Yaml(NoEntry, r, Unset) : r \in {Unset, "null", "/a"}},
           a \in {f \in [AclRoots -> AclStates] :
                    Cardinality({r \in AclRoots : f[r] # "absent"}) <= 2}}]

\* The flags of the log of decisions, with one good ACL.
AuditWorlds ==
  [args : {[PlainArgs EXCEPT !.aclFlag = "/a", !.auditEnv = v, !.auditOff = off] :
             v \in {Unset, "", "true", "false", "flase"}, off \in BOOLEAN},
   fs : {[PlainFiles EXCEPT !.yaml = Yaml(NoEntry, Unset, w), !.acl["/a"] = "good"] :
           w \in {Unset, "null", "true", "false", "flase"}}]

MCWorlds == ModuleWorlds \cup GroupWorlds \cup AclWorlds \cup AuditWorlds
=============================================================================
