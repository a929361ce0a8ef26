--------------------------- MODULE StartupProofs ---------------------------
(***************************************************************************)
(* Access control fails closed, the scans agree about settled modules, and *)
(* the group of commands is as configured: for every command line, every   *)
(* content of the files and any number of edits while the program starts.  *)
(***************************************************************************)
EXTENDS Startup, TLAPS

\* The root that resolve_acl_root finds is the one that was named; it finds none
\* only when the default is named and is not there.
LEMMA NamedIsResolved ==
  ASSUME NEW w \in Worlds, NEW yaml \in YamlFiles, NEW exists \in BOOLEAN
  PROVE  LET resolved == AclRoot(w.args, yaml, exists)
             named == AclRoot(w.args, yaml, TRUE)
         IN /\ named \in AclRoots /\ named # Unset
            /\ resolved # Unset => resolved = named
            /\ resolved = Unset => named = DefaultAclRoot /\ ~ exists
<1>1. AclRoot(w.args, yaml, TRUE) \in AclRoots
  BY StartupAssumption
<1>2. AclRoot(w.args, yaml, TRUE) # Unset
  BY <1>1, StartupAssumption DEF NonEmpty
<1> QED
  BY <1>1, <1>2 DEF AclRoot, NonEmpty

\* The start has nothing attached and has seen what there is.
LEMMA AclInit == SInit => AclInv
<1> SUFFICES ASSUME SInit PROVE AclInv
  OBVIOUS
<1>1. PICK w \in Worlds :
        /\ fs = w.fs
        /\ seen = [modules |-> [p \in Paths |-> {w.fs.modules[p]}], yaml |-> {w.fs.yaml},
                   acl |-> [r \in AclRoots |-> {w.fs.acl[r]}]]
  BY DEF SInit
<1>2. fs \in Files
  BY <1>1, StartupAssumption
<1>3. History
  BY <1>1, <1>2 DEF History, Files
<1>4. RootKept /\ AclKept
  BY DEF SInit, RootKept, AclKept, Undecided, Attached
<1> QED
  BY <1>3, <1>4 DEF AclInv

\* An edit adds to the history and takes nothing away.
LEMMA EditIsSeen ==
  ASSUME History, Edit
  PROVE  /\ History' /\ seen.yaml \subseteq seen'.yaml
         /\ \A r \in AclRoots : seen.acl[r] \subseteq seen'.acl[r]
<1> USE DEF History, Files, YamlFiles
<1>1. ASSUME NEW p \in Paths, NEW content \in Contents, EditModule(p, content)
      PROVE  /\ History' /\ seen.yaml \subseteq seen'.yaml
             /\ \A r \in AclRoots : seen.acl[r] \subseteq seen'.acl[r]
  <2>1. fs' \in Files /\ fs'.yaml = fs.yaml /\ fs'.acl = fs.acl
        /\ fs'.modules = [fs.modules EXCEPT ![p] = content]
    BY <1>1 DEF EditModule
  <2>2. seen'.yaml = seen.yaml /\ seen'.acl = seen.acl
        /\ seen'.modules = [seen.modules EXCEPT ![p] = @ \cup {content}]
        /\ seen' \in [modules : [Paths -> SUBSET Contents], yaml : SUBSET YamlFiles,
                      acl : [AclRoots -> SUBSET AclStates]]
    BY <1>1 DEF EditModule
  <2> QED
    BY <2>1, <2>2
<1>2. ASSUME NEW yaml \in Yamls, EditYaml(yaml)
      PROVE  /\ History' /\ seen.yaml \subseteq seen'.yaml
             /\ \A r \in AclRoots : seen.acl[r] \subseteq seen'.acl[r]
  <2>1. fs' \in Files /\ fs'.yaml = yaml /\ fs'.acl = fs.acl
        /\ fs'.modules = fs.modules
    BY <1>2 DEF EditYaml
  <2>2. seen'.yaml = seen.yaml \cup {yaml} /\ seen'.acl = seen.acl
        /\ seen'.modules = seen.modules
        /\ seen' \in [modules : [Paths -> SUBSET Contents], yaml : SUBSET YamlFiles,
                      acl : [AclRoots -> SUBSET AclStates]]
    BY <1>2 DEF EditYaml
  <2> QED
    BY <2>1, <2>2
<1>3. ASSUME NEW q \in AclRoots, NEW state \in AclStates, EditAcl(q, state)
      PROVE  /\ History' /\ seen.yaml \subseteq seen'.yaml
             /\ \A r \in AclRoots : seen.acl[r] \subseteq seen'.acl[r]
  <2>1. fs' \in Files /\ fs'.yaml = fs.yaml /\ fs'.acl = [fs.acl EXCEPT ![q] = state]
        /\ fs'.modules = fs.modules
    BY <1>3 DEF EditAcl
  <2>2. seen'.yaml = seen.yaml /\ seen'.acl = [seen.acl EXCEPT ![q] = @ \cup {state}]
        /\ seen'.modules = seen.modules
        /\ seen' \in [modules : [Paths -> SUBSET Contents], yaml : SUBSET YamlFiles,
                      acl : [AclRoots -> SUBSET AclStates]]
    BY <1>3 DEF EditAcl
  <2> QED
    BY <2>1, <2>2
<1> QED
  BY <1>1, <1>2, <1>3 DEF Edit

\* Every step of the start, and every edit during it, keeps the invariant.
LEMMA AclStep == AclInv /\ [SNext]_svars => AclInv'
<1> SUFFICES ASSUME AclInv, [SNext]_svars PROVE AclInv'
  OBVIOUS
<1>h. History
  BY DEF AclInv
<1> USE <1>h DEF AclInv, RootKept, AclKept, Undecided, Attached, Scanning, world, decided,
        scanned, scanVars, Exit
<1>1. ASSUME Collect PROVE AclInv'
  BY <1>1 DEF Collect, History, NoneSeen, Missed
<1>2. ASSUME NEW p \in Paths, ReadModule(p) PROVE AclInv'
  BY <1>2 DEF ReadModule, History, NoneSeen, Missed
<1>3. ASSUME EndDiscovery PROVE AclInv'
  BY <1>3 DEF EndDiscovery, History, NoneSeen, Missed
<1>4. ASSUME EndDescriptions PROVE AclInv'
  BY <1>4 DEF EndDescriptions, History, NoneSeen, Missed
<1>5. ASSUME EndProvider PROVE AclInv'
  BY <1>5 DEF EndProvider, History, NoneSeen, Missed
<1>6. ASSUME Build PROVE AclInv'
  BY <1>6 DEF Build, History, NoneSeen, Missed
<1>7. ASSUME ResolveRoot PROVE AclInv'
  <2>1. /\ UNCHANGED <<args, fs, seen, source, file, acl>>
        /\ root' = AclRoot(args, fs.yaml, fs.acl[DefaultAclRoot] # "absent")
        /\ audited' = AclAudited(args, fs.yaml)
        /\ pc' = (IF root' = Unset THEN "provide" ELSE "source")
        /\ root = Unset /\ acl = Unset /\ file = Unset /\ source = Unset
    BY <1>7 DEF ResolveRoot
  <2>2. History' /\ fs.yaml \in seen.yaml /\ fs.yaml \in YamlFiles
    BY <2>1 DEF History, Files
  <2>3. PICK w \in Worlds : args = w.args
    OBVIOUS
  <2>4. /\ AclRoot(args, fs.yaml, TRUE) \in AclRoots
        /\ root' # Unset => root' = AclRoot(args, fs.yaml, TRUE)
        /\ root' = Unset => AclRoot(args, fs.yaml, TRUE) = DefaultAclRoot
                            /\ fs.acl[DefaultAclRoot] = "absent"
    <3> HIDE DEF AclInv, RootKept, AclKept
    <3>1. (fs.acl[DefaultAclRoot] # "absent") \in BOOLEAN
      OBVIOUS
    <3> QED
      BY <2>1, <2>2, <2>3, <3>1, NamedIsResolved
  <2>5. root' = Unset => NoneSeen'
    <3> SUFFICES ASSUME root' = Unset PROVE NoneSeen'
      OBVIOUS
    <3>1. "absent" \in seen.acl[AclRoot(args, fs.yaml, TRUE)]
      BY <2>4 DEF History
    <3> QED
      BY <2>1, <2>2, <3>1 DEF NoneSeen
  <2>6. ~ audited' => \/ args.auditOff \/ args.auditEnv = "false"
                      \/ \E y \in seen.yaml : FileValue(y, "audit") = "false"
    BY <2>1, <2>2 DEF AclAudited, ParseBool, Resolve
  <2>7. RootKept'
    BY <2>1, <2>2, <2>3, <2>4, <2>5, <2>6
  <2>8. AclKept'
    BY <2>1
  <2> QED
    BY <2>2, <2>7, <2>8
<1>8. ASSUME NoteSource PROVE AclInv'
  BY <1>8 DEF NoteSource, AclFileAt, History, NoneSeen, Missed, Files, AclStates
<1>9. ASSUME Locate PROVE AclInv'
  <2>1. /\ UNCHANGED <<args, fs, seen, root, acl, audited>>
        /\ root # Unset /\ acl = Unset /\ pc = "locate"
        /\ \/ file' = root /\ source' = source /\ pc' = "load"
           \/ /\ file' = Unset /\ source' = Unset /\ pc' = "provide"
              /\ ~ AclFileAt(root)
    BY <1>9 DEF Locate, AclFileAt
  <2>2. root \in AclRoots /\ fs.acl[root] \in seen.acl[root] /\ fs.acl[root] \in AclStates
    BY <2>1 DEF History, Files
  <2>3. Missed \/ AclFileAt(root)
    BY <2>2 DEF Missed, AclFileAt, AclStates
  <2>4. History' /\ RootKept'
    BY <2>1 DEF History
  <2>5. AclKept'
    BY <2>1, <2>3 DEF Missed
  <2> QED
    BY <2>4, <2>5
<1>10. ASSUME Load PROVE AclInv'
  BY <1>10 DEF Load, History, NoneSeen, Missed
<1>11. ASSUME Edit PROVE AclInv'
  <2>1. /\ History' /\ seen.yaml \subseteq seen'.yaml
        /\ \A r \in AclRoots : seen.acl[r] \subseteq seen'.acl[r]
    BY <1>11, EditIsSeen
  <2>2. UNCHANGED <<args, pc, root, source, file, acl, audited>> /\ pc # "exited"
    BY <1>11 DEF Edit
  <2>3. NoneSeen => NoneSeen'
    <3> SUFFICES ASSUME NEW yaml \in seen.yaml,
                        seen.acl[AclRoot(args, yaml, TRUE)] \cap {"absent", "empty"} # {}
                 PROVE  NoneSeen'
      BY DEF NoneSeen
    <3>1. AclRoot(args, yaml, TRUE) \in AclRoots
      BY StartupAssumption DEF History
    <3> QED
      BY <2>1, <2>2, <3>1 DEF NoneSeen
  <2>4. RootKept'
    BY <2>1, <2>2, <2>3
  <2>5. AclKept'
    BY <2>1, <2>2 DEF Missed
  <2> QED
    BY <2>1, <2>4, <2>5
<1>12. ASSUME UNCHANGED svars PROVE AclInv'
  BY <1>12 DEF svars, History, NoneSeen, Missed
<1> QED
  BY <1>1, <1>2, <1>3, <1>4, <1>5, <1>6, <1>7, <1>8, <1>9, <1>10, <1>11, <1>12 DEF SNext

\* The root, the ACL and what is shown of it fit the history of the files.
THEOREM AclInvariant == SSpec => []AclInv
<1> QED
  BY AclInit, AclStep, PTL DEF SSpec

\* A file that the loader has found is enforced or the program stops, and it
\* serves calls without an ACL only if there was none at the root named; only the
\* word for it switches the log off.
THEOREM AclIsEnforced == SSpec => []AclFailsClosed
<1>1. AclInv => AclEnforced
  <2> SUFFICES ASSUME AclInv, pc = "ready" PROVE AclEnforced
    BY DEF AclEnforced
  <2> USE DEF AclInv, RootKept, AclKept, Attached, Missed
  <2>1. file # Unset => acl = file
    OBVIOUS
  <2>2. acl = Unset => NoneSeen
    BY DEF NoneSeen
  <2>3. acl # Unset => /\ "good" \in seen.acl[acl]
                       /\ \E yaml \in seen.yaml : acl = AclRoot(args, yaml, TRUE)
    BY DEF History
  <2>4. source # acl => source = Unset /\ seen.acl[acl] \cap {"absent", "empty"} # {}
    OBVIOUS
  <2> QED
    BY <2>1, <2>2, <2>3, <2>4 DEF AclEnforced
<1>2. AclInv => AuditOffOnlyByWord
  BY DEF AclInv, RootKept, AclKept, AuditOffOnlyByWord
<1> QED
  BY <1>1, <1>2, AclInvariant, PTL DEF AclFailsClosed

-----------------------------------------------------------------------------
(* The scans.                                                              *)

\* One more module found.
LEMMA RangeOfAppend ==
  ASSUME NEW S, NEW s \in Seq(S), NEW x \in S
  PROVE  /\ Append(s, x) \in Seq(S)
         /\ Range(Append(s, x)) = Range(s) \cup {x}
<1>1. /\ Append(s, x) \in Seq(S) /\ Len(Append(s, x)) = Len(s) + 1
      /\ Len(s) \in Nat
      /\ \A i \in 1..Len(s) : Append(s, x)[i] = s[i]
      /\ Append(s, x)[Len(s) + 1] = x
  OBVIOUS
<1>2. DOMAIN s = 1..Len(s) /\ DOMAIN Append(s, x) = 1..(Len(s) + 1)
  BY <1>1
<1>3. ASSUME NEW y \in Range(Append(s, x)) PROVE y \in Range(s) \cup {x}
  <2>1. PICK i \in 1..(Len(s) + 1) : y = Append(s, x)[i]
    BY <1>2, <1>3 DEF Range
  <2>2. CASE i = Len(s) + 1
    BY <1>1, <2>1, <2>2
  <2>3. CASE i # Len(s) + 1
    <3>1. i \in 1..Len(s)
      BY <1>1, <2>1, <2>3
    <3> QED
      BY <1>1, <1>2, <2>1, <3>1 DEF Range
  <2> QED
    BY <2>2, <2>3
<1>4. ASSUME NEW y \in Range(s) \cup {x} PROVE y \in Range(Append(s, x))
  <2>1. CASE y = x
    <3>1. Len(s) + 1 \in DOMAIN Append(s, x)
      BY <1>1, <1>2
    <3> QED
      BY <1>1, <2>1, <3>1 DEF Range
  <2>2. CASE y \in Range(s)
    <3>1. PICK i \in DOMAIN s : y = s[i]
      BY <2>2 DEF Range
    <3>2. i \in 1..Len(s) /\ i \in DOMAIN Append(s, x)
      BY <1>1, <1>2
    <3> QED
      BY <1>1, <3>1, <3>2 DEF Range
  <2> QED
    BY <1>4, <2>1, <2>2
<1> QED
  BY <1>1, <1>3, <1>4

\* A known module with the name of a settled one is the settled one.
LEMMA NameIsKnownOnce ==
  ASSUME NEW p \in Paths, Settled(p), NEW c, Known(c), c.name = fs.modules[p].name
  PROVE  c = fs.modules[p]
BY DEF Settled, Known

\* A settled module has been all along; an edit cannot change it.
LEMMA SettledBefore ==
  ASSUME History, Edit, NEW p \in Paths, Settled(p)'
  PROVE  Settled(p) /\ fs'.modules[p] = fs.modules[p]
<1> USE DEF History, Files
<1>1. /\ \A q \in Paths : seen.modules[q] \subseteq seen'.modules[q]
      /\ fs'.modules[p] # fs.modules[p] => fs.modules[p] \in seen'.modules[p]
  <2>1. ASSUME NEW r \in Paths, NEW content \in Contents, EditModule(r, content)
        PROVE  \A q \in Paths : seen.modules[q] \subseteq seen'.modules[q]
    BY <2>1 DEF EditModule
  <2>2. ASSUME NEW yaml \in Yamls, EditYaml(yaml)
        PROVE  \A q \in Paths : seen.modules[q] \subseteq seen'.modules[q]
    BY <2>2 DEF EditYaml
  <2>3. ASSUME NEW r \in AclRoots, NEW state \in AclStates, EditAcl(r, state)
        PROVE  \A q \in Paths : seen.modules[q] \subseteq seen'.modules[q]
    BY <2>3 DEF EditAcl
  <2>4. \A q \in Paths : seen.modules[q] \subseteq seen'.modules[q]
    BY <2>1, <2>2, <2>3 DEF Edit
  <2> QED
    BY <2>4
<1>2. fs.modules[p] \in seen'.modules[p] /\ fs'.modules[p] = fs.modules[p]
  BY <1>1 DEF Settled
<1>3. seen.modules[p] = {fs.modules[p]}
  BY <1>1, <1>2 DEF Settled
<1> QED
  BY <1>1, <1>2, <1>3 DEF Settled

\* What was known stays known.
LEMMA EditKeepsKnown ==
  ASSUME History, Edit, NEW c, Known(c)
  PROVE  Known(c)'
<1> USE DEF History, Files
<1>1. ASSUME NEW r \in Paths, NEW content \in Contents, EditModule(r, content)
      PROVE  \A q \in Paths : seen.modules[q] \subseteq seen'.modules[q]
  BY <1>1 DEF EditModule
<1>2. ASSUME NEW yaml \in Yamls, EditYaml(yaml)
      PROVE  \A q \in Paths : seen.modules[q] \subseteq seen'.modules[q]
  BY <1>2 DEF EditYaml
<1>3. ASSUME NEW r \in AclRoots, NEW state \in AclStates, EditAcl(r, state)
      PROVE  \A q \in Paths : seen.modules[q] \subseteq seen'.modules[q]
  BY <1>3 DEF EditAcl
<1>4. \A q \in Paths : seen.modules[q] \subseteq seen'.modules[q]
  BY <1>1, <1>2, <1>3 DEF Edit
<1> QED
  BY <1>4 DEF Known

\* Nothing is settled in two ways, noted or listed at the start.
LEMMA ScanInit == SInit => ScanInv
<1> SUFFICES ASSUME SInit PROVE ScanInv
  OBVIOUS
<1>1. History
  BY AclInit DEF AclInv
<1>2. NotesKept
  BY DEF SInit, NotesKept, MapKept, none, Range
<1>3. \A p \in Paths : SettledKept(p)
  BY DEF SInit, SettledKept, Scanning, Registering, Describing
<1> QED
  BY <1>1, <1>2, <1>3 DEF SInit, ScanInv, Built, Attached

\* What discover makes of what was found: a settled module that was found is the
\* one registered.
LEMMA SettledIsRegistered ==
  ASSUME NotesKept, NEW reg, Discovered(reg), NEW p \in Paths, Settled(p),
         fs.modules[p] \in Range(found)
  PROVE  reg[fs.modules[p].name] = fs.modules[p]
<1> DEFINE n == fs.modules[p].name
<1>1. n \in Names /\ n # Absent.name
  BY StartupAssumption DEF Settled, IsModule, Absent
<1>2. reg[n].name = n /\ reg[n] \in Range(found) \cup {Absent}
  BY <1>1 DEF Discovered
<1>3. Known(reg[n])
  BY <1>1, <1>2 DEF NotesKept
<1> QED
  BY <1>2, <1>3, NameIsKnownOnce

\* A file read while nothing else happens: what is noted is known, and a settled
\* module read is noted.
LEMMA ReadKeepsScan ==
  ASSUME ScanInv, NEW p \in Paths, ReadModule(p)
  PROVE  ScanInv'
<1> DEFINE content == fs.modules[p]
<1>1. /\ UNCHANGED <<args, fs, seen, pc, registry, snapshot, listed, provider>>
      /\ History /\ NotesKept /\ pc \in Scanning /\ p \in todo
      /\ content \in Contents /\ content \in seen.modules[p]
      /\ todo' = todo \ {p}
  BY DEF ScanInv, ReadModule, world, Skip, History, Files
<1>2. History' /\ (\A q \in Paths : Settled(q)' <=> Settled(q))
      /\ (\A c : Known(c)' <=> Known(c))
  BY <1>1 DEF History, Settled, Known
<1>3. CASE ~ IsModule(content)
  <2>1. UNCHANGED <<found, executables, descriptions>>
    BY <1>3 DEF ReadModule
  <2>2. NotesKept'
    BY <1>1, <1>2, <2>1 DEF NotesKept, MapKept
  <2>3. ASSUME NEW q \in Paths, Settled(q), SettledKept(q) PROVE SettledKept(q)'
    <3>1. q # p
      BY <1>3, <2>3 DEF Settled
    <3> QED
      BY <1>1, <2>1, <2>3, <3>1 DEF SettledKept
  <2> QED
    BY <1>1, <1>2, <2>2, <2>3 DEF ScanInv
<1>4. CASE IsModule(content)
  <2>1. /\ Known(content) /\ content.name \in Names
        /\ found' = Append(found, content)
        /\ executables' = IF pc # "describing" /\ WithinRoot(content)
                            THEN [executables EXCEPT ![content.name] = content] ELSE executables
        /\ descriptions' = IF pc = "describing" /\ content.described
                             THEN [descriptions EXCEPT ![content.name] = content] ELSE descriptions
    BY <1>1, <1>4 DEF ReadModule, Known, IsModule
  <2>2. found' \in Seq(Contents) /\ Range(found') = Range(found) \cup {content}
    BY <1>1, <2>1, RangeOfAppend DEF NotesKept
  <2>3. \A map : MapKept(map) => MapKept(map)'
    BY <1>2 DEF MapKept
  <2>4. ASSUME NEW map, MapKept(map)
        PROVE  MapKept([map EXCEPT ![content.name] = content])
    BY <1>1, <2>1, <2>4 DEF MapKept
  <2>5. NotesKept'
    <3>1. \A c \in Range(found') : Known(c)'
      BY <1>1, <1>2, <2>1, <2>2 DEF NotesKept
    <3>2. MapKept(executables)' /\ \A n \in Names : executables'[n] # Absent => WithinRoot(executables'[n])
      BY <1>1, <1>2, <2>1, <2>4 DEF NotesKept, MapKept
    <3>3. MapKept(descriptions)' /\ \A n \in Names : descriptions'[n] # Absent => descriptions'[n].described
      BY <1>1, <1>2, <2>1, <2>4 DEF NotesKept, MapKept
    <3>4. MapKept(snapshot)' /\ \A n \in Names : snapshot'[n] # Absent => WithinRoot(snapshot'[n])
      BY <1>1, <1>2 DEF NotesKept, MapKept
    <3> QED
      BY <2>2, <3>1, <3>2, <3>3, <3>4 DEF NotesKept
  <2>6. ASSUME NEW q \in Paths, Settled(q), SettledKept(q) PROVE SettledKept(q)'
    <3> DEFINE c == fs.modules[q]
    <3>1. c.name = content.name => c = content
      BY <2>1, <2>6, NameIsKnownOnce
    <3>2. c.name \in Names
      BY <2>6 DEF Settled, IsModule
    <3>3. executables \in [Names -> Contents \cup {Absent}]
          /\ descriptions \in [Names -> Contents \cup {Absent}]
      BY <1>1 DEF NotesKept, MapKept
    <3>4. executables[c.name] = c /\ WithinRoot(c) => executables'[c.name] = c
      BY <2>1, <3>1, <3>2, <3>3
    <3>5. descriptions[c.name] = c => descriptions'[c.name] = c
      BY <2>1, <3>1, <3>2, <3>3
    <3>6. CASE q = p
      <4>1. c = content /\ c \in Range(found')
        BY <2>2, <3>6
      <4>2. pc # "describing" /\ WithinRoot(c) => executables'[c.name] = c
        BY <2>1, <3>2, <3>3, <4>1
      <4>3. pc = "describing" /\ c.described => descriptions'[c.name] = c
        BY <2>1, <3>2, <3>3, <4>1
      <4> QED
        BY <1>1, <2>6, <3>5, <4>1, <4>2, <4>3 DEF SettledKept
    <3>7. CASE q # p
      BY <1>1, <2>2, <2>6, <3>4, <3>5, <3>7 DEF SettledKept
    <3> QED
      BY <3>6, <3>7
  <2> QED
    BY <1>1, <1>2, <2>5, <2>6 DEF ScanInv
<1> QED
  BY <1>3, <1>4

\* A settled file is there when its directory is read.
LEMMA CollectKeepsScan == ScanInv /\ Collect => ScanInv'
<1> SUFFICES ASSUME ScanInv, Collect PROVE ScanInv'
  OBVIOUS
<1>1. /\ UNCHANGED <<fs, seen, executables, registry, snapshot, listed, descriptions, provider>>
      /\ todo' = (IF fs.dir THEN {p \in Paths : fs.modules[p] # Absent} ELSE {})
      /\ found' = <<>>
      /\ History /\ NotesKept
  BY DEF ScanInv, Collect, scanned
<1>2. \/ pc = "discover" /\ pc' = "discovering"
      \/ pc = "describe" /\ pc' = "describing"
      \/ pc = "provide" /\ pc' = "providing"
  BY DEF Collect
<1>3. History' /\ (\A q \in Paths : Settled(q)' <=> Settled(q))
      /\ (\A c : Known(c)' <=> Known(c))
  BY <1>1 DEF History, Settled, Known
<1>4. NotesKept'
  BY <1>1, <1>3 DEF NotesKept, MapKept, Range
<1>5. ASSUME fs.dir, NEW p \in Paths, Settled(p), SettledKept(p) PROVE SettledKept(p)'
  <2>1. fs.modules[p] # Absent
    BY <1>5, StartupAssumption DEF Settled, IsModule, Absent
  <2>2. p \in todo'
    BY <1>1, <1>5, <2>1
  <2> QED
    BY <1>1, <1>2, <1>5, <2>2 DEF SettledKept, Scanning, Registering, Describing
<1> QED
  BY <1>1, <1>2, <1>3, <1>4, <1>5 DEF ScanInv, Built, Attached

\* The first scan done: a settled module is registered, listed and in the snapshot.
LEMMA DiscoveryKeepsScan == ScanInv /\ EndDiscovery => ScanInv'
<1> SUFFICES ASSUME ScanInv, EndDiscovery PROVE ScanInv'
  OBVIOUS
<1>1. /\ UNCHANGED <<fs, seen, todo, found, executables, descriptions, provider>>
      /\ pc = "discovering" /\ pc' = "describe" /\ todo = {}
      /\ Discovered(registry') /\ snapshot' = executables
      /\ listed' = {n \in Names : registry'[n] # Absent}
      /\ History /\ NotesKept
  BY DEF ScanInv, EndDiscovery, world
<1>2. History' /\ (\A q \in Paths : Settled(q)' <=> Settled(q))
      /\ (\A c : Known(c)' <=> Known(c))
  BY <1>1 DEF History, Settled, Known
<1>3. NotesKept'
  BY <1>1, <1>2 DEF NotesKept, MapKept
<1>4. ASSUME NEW p \in Paths, Settled(p), SettledKept(p) PROVE SettledKept(p)'
  <2> DEFINE c == fs.modules[p]
  <2>1. c \in Range(found) /\ (WithinRoot(c) => executables[c.name] = c)
    BY <1>1, <1>4 DEF SettledKept, Scanning
  <2>2. registry'[c.name] = c
    BY <1>1, <1>4, <2>1, SettledIsRegistered
  <2>3. c.name \in listed'
    BY <1>1, <1>4, <2>2, StartupAssumption DEF Settled, IsModule, Absent
  <2> QED
    BY <1>1, <2>1, <2>2, <2>3 DEF SettledKept, Scanning, Registering, Describing
<1> QED
  BY <1>1, <1>2, <1>3, <1>4 DEF ScanInv, Built, Attached

\* The last scan done: a settled module is in the provider.
LEMMA ProviderKeepsScan == ScanInv /\ EndProvider => ScanInv'
<1> SUFFICES ASSUME ScanInv, EndProvider PROVE ScanInv'
  OBVIOUS
<1>1. /\ UNCHANGED <<fs, seen, todo, found, executables, registry, snapshot, listed, descriptions>>
      /\ pc = "providing" /\ pc' = "ready" /\ todo = {}
      /\ Discovered(provider')
      /\ History /\ NotesKept
  BY DEF ScanInv, EndProvider, world
<1>2. History' /\ (\A q \in Paths : Settled(q)' <=> Settled(q))
      /\ (\A c : Known(c)' <=> Known(c))
  BY <1>1 DEF History, Settled, Known
<1>3. NotesKept'
  BY <1>1, <1>2 DEF NotesKept, MapKept
<1>4. ASSUME NEW p \in Paths, Settled(p), SettledKept(p) PROVE SettledKept(p)'
  <2>1. fs.modules[p] \in Range(found)
    BY <1>1, <1>4 DEF SettledKept, Scanning
  <2>2. provider'[fs.modules[p].name] = fs.modules[p]
    BY <1>1, <1>4, <2>1, SettledIsRegistered
  <2> QED
    BY <1>1, <1>4, <2>2 DEF SettledKept, Scanning, Registering, Describing
<1> QED
  BY <1>1, <1>2, <1>3, <1>4 DEF ScanInv, Built, Attached

\* A step that leaves the files and the scans alone, and goes on where a scan is
\* not under way, keeps what the scans left.
LEMMA OtherStepsKeepScan ==
  ASSUME ScanInv, UNCHANGED <<fs, seen, scanVars>>,
         \/ pc = "describing" /\ pc' = "build" /\ todo = {}
         \/ /\ pc \in {"build"} \cup Built /\ pc' \in {"exited", "attach", "source", "locate", "load", "provide"}
            /\ pc' = "exited" \/ fs.dir
         \/ pc' = pc
  PROVE  ScanInv'
<1>1. /\ UNCHANGED <<fs, seen, todo, found, executables, registry, snapshot, listed, descriptions, provider>>
      /\ History /\ NotesKept
  BY DEF ScanInv, scanVars, scanned
<1>2. History' /\ (\A q \in Paths : Settled(q)' <=> Settled(q))
      /\ (\A c : Known(c)' <=> Known(c))
  BY <1>1 DEF History, Settled, Known
<1>3. NotesKept'
  BY <1>1, <1>2 DEF NotesKept, MapKept
<1>4. ASSUME NEW p \in Paths, Settled(p), SettledKept(p) PROVE SettledKept(p)'
  BY <1>1, <1>4 DEF SettledKept, Scanning, Registering, Describing, Built, Attached
<1> QED
  BY <1>1, <1>2, <1>3, <1>4 DEF ScanInv, Built, Attached

\* An edit makes no module settled, and changes none that is.
LEMMA EditKeepsScan == ScanInv /\ Edit => ScanInv'
<1> SUFFICES ASSUME ScanInv, Edit PROVE ScanInv'
  OBVIOUS
<1>1. /\ UNCHANGED <<pc, todo, found, executables, registry, snapshot, listed, descriptions, provider>>
      /\ History /\ NotesKept
  BY DEF ScanInv, Edit, scanVars, scanned
<1>2. History' /\ \A c : Known(c) => Known(c)'
  BY <1>1, EditIsSeen, EditKeepsKnown
<1>3. fs'.dir = fs.dir
  <2>1. ASSUME NEW r \in Paths, NEW content \in Contents, EditModule(r, content) PROVE fs'.dir = fs.dir
    BY <1>1, <2>1 DEF EditModule, History, Files
  <2>2. ASSUME NEW yaml \in Yamls, EditYaml(yaml) PROVE fs'.dir = fs.dir
    BY <1>1, <2>2 DEF EditYaml, History, Files
  <2>3. ASSUME NEW r \in AclRoots, NEW state \in AclStates, EditAcl(r, state) PROVE fs'.dir = fs.dir
    BY <1>1, <2>3 DEF EditAcl, History, Files
  <2> QED
    BY <2>1, <2>2, <2>3 DEF Edit
<1>4. NotesKept'
  BY <1>1, <1>2 DEF NotesKept, MapKept
<1>5. ASSUME fs'.dir, NEW p \in Paths, Settled(p)' PROVE SettledKept(p)'
  <2>1. Settled(p) /\ fs'.modules[p] = fs.modules[p]
    BY <1>1, <1>5, SettledBefore
  <2>2. SettledKept(p)
    BY <1>3, <1>5, <2>1 DEF ScanInv
  <2> QED
    BY <1>1, <2>1, <2>2 DEF SettledKept
<1> QED
  BY <1>1, <1>2, <1>3, <1>4, <1>5 DEF ScanInv

\* Every step of the start, and every edit during it, keeps the invariant.
LEMMA ScanStep == ScanInv /\ [SNext]_svars => ScanInv'
<1> SUFFICES ASSUME ScanInv, [SNext]_svars PROVE ScanInv'
  OBVIOUS
<1>1. ASSUME EndDescriptions PROVE ScanInv'
  BY <1>1, OtherStepsKeepScan DEF EndDescriptions, world, scanVars
<1>2. ASSUME Build PROVE ScanInv'
  BY <1>2, OtherStepsKeepScan DEF Build, world, Exit
<1>3. ASSUME ResolveRoot \/ NoteSource \/ Locate \/ Load PROVE ScanInv'
  <2>1. pc \in Built /\ fs.dir
    BY <1>3 DEF ResolveRoot, NoteSource, Locate, Load, ScanInv, Built
  <2> QED
    BY <1>3, <2>1, OtherStepsKeepScan DEF ResolveRoot, NoteSource, Locate, Load, world, Exit
<1>4. ASSUME UNCHANGED svars PROVE ScanInv'
  BY <1>4, OtherStepsKeepScan DEF svars, scanVars, scanned
<1> QED
  BY <1>1, <1>2, <1>3, <1>4, CollectKeepsScan, ReadKeepsScan, DiscoveryKeepsScan,
     ProviderKeepsScan, EditKeepsScan DEF SNext

\* What the scans leave comes from the files, and has every settled module.
THEOREM ScanInvariant == SSpec => []ScanInv
<1> QED
  BY ScanInit, ScanStep, PTL DEF SSpec

\* A module whose file nobody edits is registered, listed, described, offered and
\* run from that file; no executable outside the extensions directory is ever run.
THEOREM ScansAgree == SSpec => []SettledModulesAgree
<1>1. ScanInv => SettledModulesAgree
  <2> SUFFICES ASSUME ScanInv PROVE SettledModulesAgree
    OBVIOUS
  <2>1. ASSUME pc = "ready", NEW p \in Paths, Settled(p)
        PROVE  LET c == fs.modules[p] IN
               /\ registry[c.name] = c /\ provider[c.name] = c /\ c.name \in listed
               /\ descriptions[c.name] = IF c.described THEN c ELSE Absent
               /\ snapshot[c.name] = IF c.exec = "inside" THEN c ELSE Absent
    <3> DEFINE c == fs.modules[p]
    <3>1. SettledKept(p) /\ NotesKept /\ c.name \in Names
      BY <2>1 DEF ScanInv, Built, Attached, Settled, IsModule
    <3>2. snapshot[c.name] # Absent => snapshot[c.name] = c /\ WithinRoot(c)
      <4> SUFFICES ASSUME snapshot[c.name] # Absent
                   PROVE  snapshot[c.name] = c /\ WithinRoot(c)
        OBVIOUS
      <4>1. snapshot[c.name].name = c.name /\ Known(snapshot[c.name]) /\ WithinRoot(snapshot[c.name])
        BY <3>1 DEF NotesKept, MapKept
      <4> QED
        BY <2>1, <4>1, NameIsKnownOnce
    <3>3. descriptions[c.name] # Absent => descriptions[c.name] = c /\ c.described
      <4> SUFFICES ASSUME descriptions[c.name] # Absent
                   PROVE  descriptions[c.name] = c /\ c.described
        OBVIOUS
      <4>1. /\ descriptions[c.name].name = c.name /\ Known(descriptions[c.name])
            /\ descriptions[c.name].described
        BY <3>1 DEF NotesKept, MapKept
      <4> QED
        BY <2>1, <4>1, NameIsKnownOnce
    <3>4. /\ registry[c.name] = c /\ provider[c.name] = c /\ c.name \in listed
          /\ WithinRoot(c) => snapshot[c.name] = c
          /\ c.described => descriptions[c.name] = c
      BY <2>1, <3>1 DEF SettledKept, Registering, Describing
    <3> QED
      BY <3>2, <3>3, <3>4 DEF WithinRoot
  <2>2. \A n \in Names : snapshot[n] # Absent => snapshot[n].exec = "inside"
    BY DEF ScanInv, NotesKept, WithinRoot
  <2> QED
    BY <2>1, <2>2 DEF SettledModulesAgree
<1> QED
  BY <1>1, ScanInvariant, PTL

-----------------------------------------------------------------------------
(* The group of built-in commands.                                         *)

\* What a valid entry makes of the tree: exec always, all commands when the group
\* is hidden, and no other than those of a sealed list.
LEMMA TreeOfEntry ==
  ASSUME NEW e, NEW env, NEW sys \in BOOLEAN, IsValidGroup(e)
  PROVE  LET tree == Registered(GroupOf(e), env, sys)
             shown == Visibility(GroupOf(e), env) # "none"
         IN  /\ "exec" \in tree
             /\ ~ shown => Commands \ {"health"} \subseteq tree
             /\ e.shape = "mapping" /\ e.sealed =>
                  /\ e.mode = "include" => shown /\ tree \subseteq e.names \cup {"exec"}
                  /\ e.mode = "exclude" => shown /\ tree \cap e.names \subseteq {"exec"}
                  /\ e.mode = "none" <=> ~ shown
<1> DEFINE group == GroupOf(e)
           tree == Registered(group, env, sys)
           mode == Visibility(group, env)
<1>1. "exec" \in tree
  BY DEF Registered, Commands
<1>2. mode = "none" => Commands \ {"health"} \subseteq tree
  BY DEF Registered
<1>3. ASSUME e.shape = "mapping", e.sealed
      PROVE  /\ e.mode = "include" => mode # "none" /\ tree \subseteq e.names \cup {"exec"}
             /\ e.mode = "exclude" => mode # "none" /\ tree \cap e.names \subseteq {"exec"}
             /\ e.mode = "none" <=> mode = "none"
  <2>1. group = [mode |-> IF e.mode \in {Unset, "null"} THEN "auto" ELSE e.mode,
                 names |-> e.names, sealed |-> e.sealed]
    BY <1>3 DEF GroupOf
  <2>2. /\ group.mode = (IF e.mode \in {Unset, "null"} THEN "auto" ELSE e.mode)
        /\ group.names = e.names /\ group.sealed = e.sealed
    BY <2>1
  <2>3. mode = (IF group.mode # "auto" THEN group.mode ELSE "all")
    BY <1>3, <2>2 DEF Visibility
  <2>4. e.mode \in {Unset, "null", "all", "none", "include", "exclude"}
    BY <1>3 DEF IsValidGroup
  <2> HIDE DEF group, mode
  <2>5. tree = {c \in Commands : /\ c = "health" => sys
                                 /\ mode \in {"all", "none"} \/ c = "exec" \/ Included(group, mode, c)}
    BY DEF Registered, mode
  <2> HIDE DEF tree
  <2>6. e.mode = "include" => mode = "include" /\ tree \subseteq e.names \cup {"exec"}
    BY <2>2, <2>3, <2>5 DEF Included, Unset
  <2>7. e.mode = "exclude" => mode = "exclude" /\ tree \cap e.names \subseteq {"exec"}
    BY <2>2, <2>3, <2>5 DEF Included, Unset
  <2>8. e.mode = "none" <=> mode = "none"
    BY <2>2, <2>3, <2>4 DEF Unset
  <2> QED
    BY <2>6, <2>7, <2>8
<1> QED
  BY <1>1, <1>2, <1>3

\* Nothing is built at the start.
LEMMA GroupInit == SInit => GroupInv
<1> SUFFICES ASSUME SInit PROVE GroupInv
  OBVIOUS
<1>1. History
  BY AclInit DEF AclInv
<1> QED
  BY <1>1 DEF SInit, GroupInv, Built, Attached

\* A step after Build that is no edit leaves the tree as it was.
LEMMA TreeStays ==
  ASSUME GroupInv, UNCHANGED <<fs, seen, commands, visible>>, pc' \in Built => pc \in Built
  PROVE  GroupInv'
BY DEF GroupInv, SealKept, History, Built

\* Every step of the start, and every edit during it, keeps the invariant.
LEMMA GroupStep == GroupInv /\ [SNext]_svars => GroupInv'
<1> SUFFICES ASSUME GroupInv, [SNext]_svars PROVE GroupInv'
  OBVIOUS
<1>h. History
  BY DEF GroupInv
<1> USE DEF Built, Attached, world, decided, scanned, scanVars, Exit
<1>1. ASSUME Collect \/ \E p \in Paths : ReadModule(p) PROVE GroupInv'
  <2>1. UNCHANGED <<fs, seen, commands, visible>> /\ (pc' \in Built => pc \in Built)
    BY <1>1 DEF Collect, ReadModule, Scanning
  <2> QED
    BY <2>1, TreeStays
<1>2. ASSUME EndDiscovery \/ EndDescriptions \/ EndProvider PROVE GroupInv'
  <2>1. UNCHANGED <<fs, seen, commands, visible>> /\ (pc' \in Built => pc \in Built)
    BY <1>2 DEF EndDiscovery, EndDescriptions, EndProvider
  <2> QED
    BY <2>1, TreeStays
<1>3. ASSUME ResolveRoot \/ NoteSource \/ Locate \/ Load PROVE GroupInv'
  <2>1. UNCHANGED <<fs, seen, commands, visible>> /\ (pc' \in Built => pc \in Built)
    BY <1>3 DEF ResolveRoot, NoteSource, Locate, Load
  <2> QED
    BY <2>1, TreeStays
<1>4. ASSUME Build PROVE GroupInv'
  <2> DEFINE entry == ApcliEntry(fs.yaml)
             sys == registry[SystemName] # Absent
  <2>1. UNCHANGED <<fs, seen>> /\ pc = "build"
    BY <1>4 DEF Build
  <2>2. CASE pc' \notin Built
    BY <1>h, <2>1, <2>2 DEF GroupInv, History
  <2>3. CASE pc' \in Built
    <3>1. /\ IsValidGroup(entry)
          /\ commands' = Registered(GroupOf(entry), args.visEnv, sys)
          /\ visible' = (Visibility(GroupOf(entry), args.visEnv) # "none")
      BY <1>4, <2>3 DEF Build
    <3>2. \A y \in seen.yaml : seen.yaml = {y} => ApcliEntry(y) = entry
      BY <1>h DEF History
    <3> HIDE DEF entry
    <3>3. /\ "exec" \in commands'
          /\ ~ visible' => Commands \ {"health"} \subseteq commands'
          /\ entry.shape = "mapping" /\ entry.sealed =>
               /\ entry.mode = "include" => visible' /\ commands' \subseteq entry.names \cup {"exec"}
               /\ entry.mode = "exclude" => visible' /\ commands' \cap entry.names \subseteq {"exec"}
               /\ entry.mode = "none" <=> ~ visible'
      BY <3>1, TreeOfEntry
    <3>4. \A y \in seen'.yaml : seen'.yaml = {y} => SealKept(ApcliEntry(y))'
      BY <2>1, <3>2, <3>3 DEF SealKept
    <3> QED
      BY <1>h, <2>1, <3>3, <3>4 DEF GroupInv, History
  <2> QED
    BY <2>2, <2>3
<1>5. ASSUME Edit PROVE GroupInv'
  <2>1. History' /\ seen.yaml \subseteq seen'.yaml
    BY <1>h, <1>5, EditIsSeen
  <2>2. UNCHANGED <<pc, commands, visible>>
    BY <1>5 DEF Edit
  <2>3. \A y \in seen'.yaml : seen'.yaml = {y} => seen.yaml = {y}
    BY <1>h, <2>1 DEF History
  <2> QED
    BY <2>1, <2>2, <2>3 DEF GroupInv, SealKept
<1>6. ASSUME UNCHANGED svars PROVE GroupInv'
  BY <1>6, TreeStays DEF svars
<1> QED
  BY <1>1, <1>2, <1>3, <1>4, <1>5, <1>6 DEF SNext

\* exec is there in every mode, a hidden group has all commands, and a group sealed
\* by the file has the commands of the file, whatever the variable says.
THEOREM GroupIsAsConfigured == SSpec => []GroupAsConfigured
<1>1. GroupInv => GroupAsConfigured
  BY DEF GroupInv, GroupAsConfigured, Built, Attached
<1> QED
  BY <1>1, GroupInit, GroupStep, PTL DEF SSpec
=============================================================================
