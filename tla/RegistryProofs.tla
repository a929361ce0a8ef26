--------------------------- MODULE RegistryProofs ---------------------------
(***************************************************************************)
(* Theorems about the commands that stand on the registry: what governs a  *)
(* call of a system module (Governance), for every rule set, identity and  *)
(* session; what list shows (Catalogue), for every registry, filter,       *)
(* request and log; and globs, for every pattern and id.                   *)
(***************************************************************************)
EXTENDS Governance, Catalogue, ListsProofs

-----------------------------------------------------------------------------
(* Consent.                                                                *)

\* What the gate of a control command has obtained when it lets it through.
GatePassed == answers = IF args.yes \/ host.auto THEN 0 ELSE 1

Consented ==
  /\ verdict["enable"] # "deny"
  /\ args.yes \/ host.auto \/ answers >= 1
  /\ (host.annotated \/ verdict["enable"] = "approve") /\ ~ host.auto
       => answers = IF args.yes THEN 1 ELSE 2

\* The invariant by which ControlNeedsConsent is inductive.
ConsentInv ==
  /\ runs \in Seq(Commands)
  /\ pc # "start" => runs # <<>>
  /\ verdict = [s \in Surfaces |-> verdict[s]]
  /\ pc = "enable" => answers = 0
  /\ pc \in {"call", "approval"} => GatePassed
  /\ pc = "approval" => verdict["enable"] # "deny"
  /\ pc = "run" => Consented
  /\ pc # "start" => ~ changed
  /\ changed => Consented

\* Nothing has been asked when a session begins.
LEMMA ConsentInit == GInit => ConsentInv
  BY SessionsAssumption DEF GInit, ConsentInv, Commands

\* Every step keeps it; the gate of the command and the one of the pipeline are
\* the two that obtain an answer.
LEMMA ConsentNext == ConsentInv /\ [GNext]_gvars => ConsentInv'
<1> SUFFICES ASSUME ConsentInv, [GNext]_gvars PROVE ConsentInv'
  OBVIOUS
<1> USE DEF ConsentInv, GatePassed, Consented, session, End
<1>1. CASE Start
  <2>1. Head(runs) \in Commands
    BY <1>1 DEF Start
  <2>2. pc' \notin {"call", "approval", "run", "start"}
    BY <1>1, <2>1 DEF Start, Commands, SystemCommands, Controls
  <2> QED
    BY <1>1, <2>2 DEF Start
<1>2. ASSUME pc # "start", NEW code, End(code)
      PROVE  pc' = "start" /\ runs' \in Seq(Commands)
  BY <1>2
<1>3. CASE ListRules \/ ValidateRules \/ Status \/ ReadConfig
  <2>1. pc # "start" /\ \E code : End(code)
    BY <1>3 DEF ListRules, ValidateRules, Status, ReadConfig
  <2>2. UNCHANGED <<session, cell, verdict, answers, changed>>
    BY <1>3 DEF ListRules, ValidateRules, Status, ReadConfig
  <2> QED
    BY <2>1, <2>2, <1>2
<1>4. CASE Check \/ CallGate
  <2>1. pc # "start" /\ \E code : End(code)
    BY <1>4 DEF Check, CallGate
  <2>2. UNCHANGED <<session, cell, answers, changed>>
    BY <1>4 DEF Check, CallGate
  <2>3. verdict' = [s \in Surfaces |-> verdict'[s]] /\ verdict'["enable"] = verdict["enable"]
    BY <1>4 DEF Check, CallGate, Surfaces
  <2> QED
    BY <2>1, <2>2, <2>3, <1>2
<1>5. CASE SystemApproval
  BY <1>5 DEF SystemApproval
<1>6. CASE SystemCall
  BY <1>6, <1>2 DEF SystemCall, Surfaces
<1>7. CASE PipelineApproval
  <2>1. CASE pc = "approval"
    BY <1>7, <1>2, <2>1 DEF PipelineApproval, PipelineNeedsApproval
  <2>2. CASE pc = "read approval"
    <3>1. /\ pc' = "read" \/ \E code : End(code)
          /\ UNCHANGED <<session, cell, verdict, changed>>
          /\ pc' = "read" => runs' = runs
      BY <1>7, <2>2 DEF PipelineApproval
    <3> QED
      BY <1>2, <2>2, <3>1
  <2> QED
    BY <1>7, <2>1, <2>2 DEF PipelineApproval
<1>8. CASE RunSystemModule
  <2>1. pc # "start" /\ \E code : End(code)
    BY <1>8 DEF RunSystemModule
  <2>2. UNCHANGED <<session, cell, verdict, answers>>
    BY <1>8 DEF RunSystemModule
  <2>3. changed' => pc = "run"
    BY <1>8, Zenon DEF RunSystemModule
  <2> QED
    BY <2>1, <2>2, <2>3, <1>2
<1>9. CASE UNCHANGED gvars
  BY <1>9 DEF gvars
<1> QED
  BY <1>1, <1>2, <1>3, <1>4, <1>5, <1>6, <1>7, <1>8, <1>9 DEF GNext

\* A control module never runs without the consent its gate, its annotation and
\* the rules ask for, nor against the rules (system_cmd.rs:283-317).
THEOREM ConsentBeforeControl == GSpec => []ControlNeedsConsent
<1>1. ConsentInv => ControlNeedsConsent
  BY DEF ConsentInv, Consented, ControlNeedsConsent
<1> QED
  BY ConsentInit, ConsentNext, <1>1, PTL DEF GSpec

-----------------------------------------------------------------------------
(* One rule set, one decision.                                             *)

\* What the flags of a call assert, the context its gate decides in, and the
\* decision.
CallIdentity == Published(IdentityFromMatches("exec"))

CallContext == IF CallIdentity = None THEN External ELSE ToContext(CallIdentity)

CallVerdict == Gate(CallContext, args.callInput)

\* The invariant by which VerdictsAgree is inductive: what a gate has decided is
\* what the flags and the rules say, whichever gate it was.
VerdictInv ==
  /\ args.root.type # None.type
  /\ runs \in Seq(Commands)
  /\ pc # "start" => runs # <<>>
  /\ verdict = [s \in Surfaces |-> verdict[s]]
  /\ pc \in {"script", "exec"} => cell = CallIdentity
  /\ pc = "check" /\ Informed => cell = CallIdentity
  /\ \A s \in {"script", "exec"} : verdict[s] \in {Unset, CallVerdict}
  /\ Informed => verdict["check"] \in {Unset, CallVerdict}

\* Nothing has been decided when a session begins.
LEMMA VerdictInit == GInit => VerdictInv
  BY SessionsAssumption DEF GInit, VerdictInv, Surfaces

\* A script is run for the same identity as any call, and acl check asks for the
\* same one when none of its own flags overrides it.
LEMMA SameIdentity ==
  /\ IdentityFromMatches("script") = IdentityFromMatches("exec")
  /\ Informed => IdentityFromMatches("check") = IdentityFromMatches("exec")
  BY DEF IdentityFromMatches, Informed, IsEmpty

\* Neither gate ever decides without a context.
LEMMA GateContexts ==
  ASSUME cell = CallIdentity
  PROVE  /\ DelegatedContext = CallContext
         /\ InPipeline(IdentityContext) = CallContext
  BY DEF DelegatedContext, InPipeline, IdentityContext, CallContext, ToContext, Context,
         ContextAt, NoContext

\* And acl check decides in the same one, when there is an identity.
LEMMA CheckContexts ==
  ASSUME Informed, cell = CallIdentity, args.root.type # None.type
  PROVE  CheckContext = CallContext
<1>1. CallIdentity = IdentityFromMatches("exec") /\ CallIdentity # None
  BY DEF CallIdentity, Published, IsEmpty, IdentityFromMatches, Informed, None
<1>2. CheckContext = ContextAt(ToContext(CallIdentity).type, ToContext(CallIdentity).roles, 0)
  BY <1>1 DEF CheckContext, Informed
<1> QED
  BY <1>1, <1>2 DEF CallContext, ToContext, Context, ContextAt

\* Every gate that decides a call decides it in the context of that call.
LEMMA VerdictNext == VerdictInv /\ [GNext]_gvars => VerdictInv'
<1> SUFFICES ASSUME VerdictInv, [GNext]_gvars PROVE VerdictInv'
  OBVIOUS
<1>1. UNCHANGED session
  BY DEF GNext, gvars, session, Start, ListRules, ValidateRules, Status, Check, CallGate,
         ReadConfig, SystemApproval, SystemCall, PipelineApproval, RunSystemModule
<1>2. /\ CallVerdict' = CallVerdict /\ CallIdentity' = CallIdentity
      /\ Informed' = Informed /\ args' = args
  <2>1. acl' = acl /\ args' = args
    BY <1>1 DEF session
  <2>2. CallIdentity' = CallIdentity /\ Informed' = Informed
    BY <2>1 DEF CallIdentity, Published, IsEmpty, IdentityFromMatches, Informed
  <2>3. CallVerdict' = CallVerdict
    BY <2>1, <2>2 DEF CallVerdict, Gate, CallContext, CheckAccess
  <2> QED
    BY <2>1, <2>2, <2>3
<1>3. ASSUME pc # "start", NEW code, End(code)
      PROVE  pc' = "start" /\ runs' \in Seq(Commands)
  BY <1>3 DEF End, VerdictInv
<1>4. CASE Start
  <2>1. pc' = Head(runs) /\ runs' = runs /\ verdict' = verdict /\ Head(runs) \in Commands
    BY <1>4 DEF Start, VerdictInv
  <2>2. pc' \in {"script", "exec"} => cell' = CallIdentity
    BY <1>4, SameIdentity DEF Start, CallIdentity
  <2>3. pc' = "check" /\ Informed => cell' = CallIdentity
    BY <1>4, SameIdentity DEF Start, CallIdentity
  <2> QED
    BY <1>2, <1>4, <2>1, <2>2, <2>3 DEF VerdictInv, Start
<1>5. CASE ListRules \/ ValidateRules \/ Status \/ ReadConfig \/ RunSystemModule
  <2>1. pc # "start" /\ \E code : End(code)
    BY <1>5 DEF ListRules, ValidateRules, Status, ReadConfig, RunSystemModule
  <2>2. verdict' = verdict
    BY <1>5 DEF ListRules, ValidateRules, Status, ReadConfig, RunSystemModule
  <2> QED
    BY <2>1, <2>2, <1>2, <1>3 DEF VerdictInv
<1>6. CASE Check
  <2>1. pc = "check" /\ \E code : End(code)
    BY <1>6 DEF Check
  <2>2. verdict' = [s \in Surfaces |-> verdict'[s]]
        /\ \A s \in {"script", "exec"} : verdict'[s] = verdict[s]
    BY <1>6 DEF Check, Surfaces, VerdictInv
  <2>3. \/ verdict'["check"] = verdict["check"]
        \/ /\ acl.attached
           /\ verdict'["check"] = CheckAccess(args.caller, CheckContext, args.input)
    BY <1>6 DEF Check, Surfaces, VerdictInv
  <2>4. Informed => verdict'["check"] \in {Unset, CallVerdict}
    <3>1. Informed => CheckContext = CallContext
      BY <2>1, CheckContexts DEF VerdictInv
    <3>2. Informed => args.caller = "@external" /\ args.input = args.callInput
      BY DEF Informed
    <3> QED
      BY <2>3, <3>1, <3>2 DEF VerdictInv, CallVerdict, Gate
  <2> QED
    BY <1>2, <1>3, <2>1, <2>2, <2>4 DEF VerdictInv
<1>7. CASE CallGate
  <2>1. pc \in {"script", "exec"} /\ \E code : End(code)
    BY <1>7 DEF CallGate
  <2>2. verdict' = [verdict EXCEPT ![pc] = CallVerdict]
    BY <1>7, <2>1, GateContexts DEF CallGate, CallVerdict, VerdictInv
  <2> QED
    BY <1>2, <1>3, <2>1, <2>2 DEF VerdictInv, Surfaces
<1>8. CASE SystemApproval \/ PipelineApproval
  <2>1. pc # "start" /\ verdict' = verdict
    BY <1>8 DEF SystemApproval, PipelineApproval
  <2>2. \/ pc' \in {"call", "run", "read"} /\ runs' = runs
        \/ \E code : End(code)
    BY <1>8 DEF SystemApproval, PipelineApproval
  <2> QED
    BY <1>2, <1>3, <2>1, <2>2 DEF VerdictInv
<1>9. CASE SystemCall
  <2>1. pc # "start" /\ \A s \in {"script", "exec", "check"} : verdict'[s] = verdict[s]
    BY <1>9 DEF SystemCall, VerdictInv, Surfaces
  <2>2. verdict' = [s \in Surfaces |-> verdict'[s]]
    BY <1>9 DEF SystemCall, VerdictInv, Surfaces
  <2>3. \/ pc' \in {"approval", "read approval"} /\ runs' = runs
        \/ \E code : End(code)
    BY <1>9 DEF SystemCall
  <2> QED
    BY <1>2, <1>3, <2>1, <2>2, <2>3 DEF VerdictInv
<1>10. CASE UNCHANGED gvars
  BY <1>2, <1>10 DEF VerdictInv, gvars
<1> QED
  BY <1>4, <1>5, <1>6, <1>7, <1>8, <1>9, <1>10 DEF GNext

\* Whatever the rules, the gate of the delegated paths decides as the pipeline
\* does, and acl check, told who calls and with what, foretells both
\* (acl_cmd.rs:140-160).
THEOREM GatesDecideAlike == GSpec => []VerdictsAgree
<1>1. VerdictInv => VerdictsAgree
  BY DEF VerdictInv, VerdictsAgree
<1> QED
  BY VerdictInit, VerdictNext, <1>1, PTL DEF GSpec

-----------------------------------------------------------------------------
(* The catalogue: the invariant.                                           *)

\* Nothing is recorded or shown at first.
LEMMA CatalogueInit == CInit => CatalogueInv
BY DEF CInit, CatalogueInv, Listed, Nothing

\* A line is added, or ends one that was torn.
LEMMA LogIsTyped ==
  ASSUME log \in Seq(Lines), NEW line \in Lines
  PROVE  Logged(line) \in Seq(Lines)
<1>1. CASE log # <<>> /\ log[Len(log)].kind \in {"torn", "cut"}
  <2>1. Len(log) \in DOMAIN log /\ log[Len(log)] \in Lines
    BY <1>1
  <2>2. [log[Len(log)] EXCEPT !.kind = IF "cut" \in {@, line.kind} THEN "cut" ELSE "illegible"] \in Lines
    BY <2>1 DEF Lines
  <2> QED
    BY <1>1, <2>1, <2>2 DEF Logged
<1>2. CASE ~ (log # <<>> /\ log[Len(log)].kind \in {"torn", "cut"})
  BY <1>2 DEF Logged
<1> QED
  BY <1>1, <1>2

\* What is listed depends on the registry, the filter and the log alone.
LEMMA ListingStays ==
  ASSUME UNCHANGED <<registry, filter, log>>, NEW s
  PROVE  IsListing(s)' <=> IsListing(s)
<1>1. ASSUME NEW m, NEW request PROVE Passes(m, request)' <=> Passes(m, request)
  BY DEF Passes, HasExposure
<1>2. ASSUME NEW request PROVE Selected(request)' = Selected(request)
  BY <1>1 DEF Selected
<1>3. Window' = Window /\ \A id : CallsOf(id)' = CallsOf(id)
  BY DEF Window, CallsOf, Legible
<1>4. ASSUME NEW id PROVE Duration(id)' = Duration(id)
  BY <1>3 DEF Duration
<1>5. ASSUME NEW id PROVE Latency(id)' = Latency(id)
  BY <1>3, <1>4 DEF Latency
<1>6. ASSUME NEW id, NEW field PROVE UsageKey(id, field)' = UsageKey(id, field)
  BY <1>3, <1>5 DEF UsageKey
<1>7. ASSUME NEW a, NEW b, NEW request PROVE Precedes(a, b, request)' <=> Precedes(a, b, request)
  BY <1>3, <1>6 DEF Precedes, UsageBefore
<1>8. ASSUME NEW rows, NEW request PROVE Sortings(rows, request)' = Sortings(rows, request)
  BY <1>7 DEF Sortings
<1>9. ASSUME NEW m, NEW request, NEW kind PROVE Row(m, request, kind)' = Row(m, request, kind)
  BY DEF Row, Optional
<1> QED
  BY <1>2, <1>3, <1>8, <1>9 DEF IsListing

\* Every command and every line recorded keeps the invariant.
LEMMA CatalogueStep == CatalogueInv /\ [CNext]_cvars => CatalogueInv'
<1> SUFFICES ASSUME CatalogueInv, [CNext]_cvars PROVE CatalogueInv'
  OBVIOUS
<1>1. registry \in Registries /\ filter \in Filters /\ log \in Seq(Lines)
  BY DEF CatalogueInv
<1>2. ASSUME NEW request \in Requests, List(request) PROVE CatalogueInv'
  <2>1. UNCHANGED <<registry, filter, log>>
    BY <1>2 DEF List
  <2>2. CASE shown' = [Nothing EXCEPT !.of = "list", !.request = request, !.exit = 2]
    BY <1>1, <2>1, <2>2 DEF CatalogueInv, Listed, Nothing
  <2>3. CASE shown' # [Nothing EXCEPT !.of = "list", !.request = request, !.exit = 2]
    <3> DEFINE kind == ShownAs(request)
               rows == Selected(request)
    <3>1. PICK order \in Sortings(rows, request) :
            shown' = [of |-> "list", request |-> request, exit |-> 0,
                      kind |-> IF kind = "table" /\ rows = <<>> THEN "sentence" ELSE kind,
                      rows |-> [i \in DOMAIN rows |-> Row(rows[order[i]], request, kind)],
                      note |-> request.sort # "id" /\ Window = {}]
      BY <1>2, <2>3 DEF List
    <3> HIDE DEF kind, rows
    <3>a. PICK s : s = shown'
      OBVIOUS
    <3>b. /\ s.request = request
          /\ s.rows = [i \in DOMAIN rows |-> Row(rows[order[i]], request, kind)]
          /\ s.note = (request.sort # "id" /\ Window = {})
          /\ s.kind = IF kind = "table" /\ rows = <<>> THEN "sentence" ELSE kind
      BY <3>1, <3>a
    <3>2. IsListing(s)
      BY <3>1, <3>b DEF IsListing, kind, rows
    <3>3. IsListing(s)'
      BY <2>1, <3>2, ListingStays
    <3>4. IsListing(shown)'
      BY <3>a, <3>3
    <3> QED
      BY <1>1, <2>1, <3>4 DEF CatalogueInv
  <2> QED
    BY <2>2, <2>3
<1>3. ASSUME NEW id \in DescribedIds, Describe(id) PROVE CatalogueInv'
  BY <1>1, <1>3 DEF Describe, CatalogueInv, Listed, Nothing
<1>4. ASSUME NEW call \in Calls, Record(call) PROVE CatalogueInv'
  <2>1. [kind |-> "exec", recent |-> TRUE, module |-> call.module, failed |-> call.failed,
         duration |-> call.duration] \in Lines
    BY CatalogueAssumption DEF Lines
  <2>2. log' \in Seq(Lines)
    BY <1>1, <1>4, <2>1, LogIsTyped DEF Record
  <2> QED
    BY <1>1, <1>4, <2>2 DEF Record, CatalogueInv, Listed
<1>5. ASSUME NEW kind \in {"acl", "torn", "cut"}, OtherLine(kind) PROVE CatalogueInv'
  <2>1. [kind |-> kind, recent |-> TRUE, module |-> <<>>, failed |-> FALSE, duration |-> 0] \in Lines
    BY DEF Lines, Text
  <2>2. log' \in Seq(Lines)
    BY <1>1, <1>5, <2>1, LogIsTyped DEF OtherLine
  <2> QED
    BY <1>1, <1>5, <2>2 DEF OtherLine, CatalogueInv, Listed
<1>6. ASSUME DayPasses PROVE CatalogueInv'
  <2>1. \A i \in DOMAIN log : [log[i] EXCEPT !.recent = FALSE] \in Lines
    <3>1. \A i \in DOMAIN log : log[i] \in Lines
      BY <1>1
    <3> QED
      BY <3>1 DEF Lines
  <2>2. log' \in Seq(Lines)
    BY <1>1, <1>6, <2>1 DEF DayPasses
  <2> QED
    BY <1>1, <1>6, <2>2 DEF DayPasses, CatalogueInv, Listed
<1>7. ASSUME Read PROVE CatalogueInv'
  BY <1>1, <1>7 DEF Read, CatalogueInv, Listed, Nothing
<1>8. ASSUME UNCHANGED cvars PROVE CatalogueInv'
  <2>1. PICK s : s = shown /\ s = shown'
    BY <1>8 DEF cvars
  <2>2. IsListing(s)' <=> IsListing(s)
    BY <1>8, ListingStays DEF cvars
  <2>3. IsListing(shown)' <=> IsListing(shown)
    BY <2>1, <2>2
  <2> QED
    BY <1>8, <2>3 DEF cvars, CatalogueInv, Listed
<1> QED
  BY <1>2, <1>3, <1>4, <1>5, <1>6, <1>7, <1>8 DEF CNext

\* The list shown is one of the rows selected, in the order asked for.
THEOREM CatalogueInvariant == CSpec => []CatalogueInv
<1> QED
  BY CatalogueInit, CatalogueStep, PTL DEF CSpec

-----------------------------------------------------------------------------
(* The catalogue: the rows.                                                *)

\* What a text has not yet can be added to a list of texts.
LEMMA AppendDistinct ==
  ASSUME NEW S, NEW s \in Seq(S), NEW x \in S, Distinct(s), ~ Contains(s, x)
  PROVE  Append(s, x) \in Seq(S) /\ Distinct(Append(s, x))
<1>1. /\ Append(s, x) \in Seq(S) /\ DOMAIN Append(s, x) = 1 .. (Len(s) + 1) /\ Len(s) \in Nat
      /\ \A i \in 1 .. Len(s) : Append(s, x)[i] = s[i] /\ i \in DOMAIN s
      /\ Append(s, x)[Len(s) + 1] = x
  OBVIOUS
<1>2. \A i \in 1 .. Len(s) : s[i] # x
  BY DEF Contains
<1>3. ASSUME NEW i \in DOMAIN Append(s, x), NEW j \in DOMAIN Append(s, x), Append(s, x)[i] = Append(s, x)[j]
      PROVE  i = j
  <2>1. (i \in 1 .. Len(s) \/ i = Len(s) + 1) /\ (j \in 1 .. Len(s) \/ j = Len(s) + 1)
    BY <1>1
  <2> QED
    BY <1>1, <1>2, <1>3, <2>1 DEF Distinct
<1> QED
  BY <1>1, <1>3 DEF Distinct

\* The registry's list has no name twice.
LEMMA ListIdsAreDistinct ==
  ASSUME NEW r \in Registries
  PROVE  ListIds(r) \in Seq(Text) /\ Distinct(ListIds(r))
<1>1. PICK n \in Nat : n = Len(r.discovered)
  BY CatalogueAssumption
<1> DEFINE St == {s \in Seq(Text) : Distinct(s)}
           Add(s, k) == IF Contains(s, r.discovered[k]) THEN s ELSE Append(s, r.discovered[k])
           Body == [x \in St \X (1 .. n) |-> Add(x[1], x[2])]
           first == RegisteredIds(r)
           Made(g) == g = [k \in 0 .. n |-> IF k = 0 THEN first ELSE Add(g[k - 1], k)]
<1>2. first \in St
  <2>1. r.registered \in Seq(Modules)
        /\ \A i, j \in DOMAIN r.registered : r.registered[i].id = r.registered[j].id => i = j
    BY CatalogueAssumption
  <2>2. first \in Seq(Text) /\ DOMAIN first = DOMAIN r.registered
        /\ \A i \in DOMAIN r.registered : first[i] = r.registered[i].id
    <3>1. \A i \in DOMAIN r.registered : r.registered[i].id \in Text
      <4>1. \A i \in DOMAIN r.registered : r.registered[i] \in Modules
        BY <2>1
      <4> QED
        BY <4>1 DEF Modules
    <3> QED
      BY <2>1, <3>1 DEF RegisteredIds
  <2> HIDE DEF first
  <2> QED
    BY <2>1, <2>2 DEF Distinct
<1>3. ASSUME NEW s \in St, NEW k \in 1 .. n PROVE Add(s, k) \in St
  <2>1. r.discovered[k] \in Text
    BY <1>1, CatalogueAssumption
  <2> QED
    BY <2>1, AppendDistinct
<1> HIDE DEF first, Add
<1>4. Body \in [St \X (1 .. n) -> St]
  BY <1>3
<1>5. \A s \in St, k \in 1 .. n : Body[<<s, k>>] = Add(s, k)
  OBVIOUS
<1> HIDE DEF Body, St
<1>6. PICK g \in [0 .. n -> St] : Iterates(g, first, Body, n)
  BY <1>2, <1>4, Iteration
<1>7. Made(g)
  <2>1. \A k \in 0 .. n : g[k] = IF k = 0 THEN first ELSE Add(g[k - 1], k)
    <3> SUFFICES ASSUME NEW k \in 0 .. n, k # 0 PROVE g[k] = Add(g[k - 1], k)
      BY <1>6 DEF Iterates
    <3>1. k \in 1 .. n /\ k - 1 \in 0 .. n
      OBVIOUS
    <3>2. g[k] = Body[<<g[k - 1], k>>] /\ g[k - 1] \in St
      BY <1>6, <3>1 DEF Iterates
    <3> QED
      BY <1>5, <3>1, <3>2
  <2> QED
    BY <1>6, <2>1
<1> DEFINE h == CHOOSE f : Made(f)
<1>8. Made(h)
  BY <1>7
<1>9. ListIds(r) = h[n]
  BY <1>1 DEF ListIds, Add, first
<1> HIDE DEF h
<1>10. \A k \in 0 .. n : g[k] = h[k]
  <2>1. g[0] = h[0]
    BY <1>7, <1>8
  <2>2. \A k \in 0 .. (n - 1) : g[k + 1] = Add(g[k], k + 1) /\ h[k + 1] = Add(h[k], k + 1)
    <3> TAKE k \in 0 .. (n - 1)
    <3>1. k + 1 \in 0 .. n /\ k + 1 # 0 /\ (k + 1) - 1 = k
      OBVIOUS
    <3> QED
      BY <1>7, <1>8, <3>1
  <2>3. \A k \in 0 .. (n - 1) : g[k] = h[k] => g[k + 1] = h[k + 1]
    BY <2>2
  <2> QED
    BY <2>1, <2>3, SameIteration
<1>11. h[n] \in St
  BY <1>6, <1>10
<1> QED
  BY <1>9, <1>11 DEF St

\* The definition of a registered module is one, with its id.
LEMMA DefinitionHasId ==
  ASSUME NEW r \in Registries, NEW id, IsRegistered(r, id)
  PROVE  Definition(r, id) \in Modules /\ Definition(r, id).id = id
<1> DEFINE At(i) == i \in DOMAIN r.registered /\ r.registered[i].id = id
           found == CHOOSE i \in DOMAIN r.registered : r.registered[i].id = id
<1>1. r.registered \in Seq(Modules) /\ \A x \in DOMAIN r.descriptions : r.descriptions[x] \in Text
  BY CatalogueAssumption
<1>2. \E i \in DOMAIN r.registered : r.registered[i].id = id
  <2>1. DOMAIN RegisteredIds(r) = DOMAIN r.registered
        /\ \A i \in DOMAIN r.registered : RegisteredIds(r)[i] = r.registered[i].id
    BY DEF RegisteredIds
  <2>2. RegisteredIds(r) \in Seq(Text)
    <3>1. \A i \in DOMAIN r.registered : r.registered[i] \in Modules
      BY <1>1
    <3>2. \A i \in DOMAIN r.registered : r.registered[i].id \in Text
      BY <3>1 DEF Modules
    <3> QED
      BY <1>1, <3>2 DEF RegisteredIds
  <2>3. DOMAIN RegisteredIds(r) = 1 .. Len(RegisteredIds(r))
    BY <2>2
  <2> QED
    BY <2>1, <2>3 DEF IsRegistered, Contains
<1>3. found \in DOMAIN r.registered /\ r.registered[found].id = id
  BY <1>2
<1> HIDE DEF found
<1>4. r.registered[found] \in Modules
  BY <1>1, <1>3
<1> DEFINE m == r.registered[found]
<1>5. Definition(r, id) = IF id \in DOMAIN r.descriptions
                            THEN [m EXCEPT !.description = r.descriptions[id]] ELSE m
  BY DEF Definition, found
<1>6. CASE id \in DOMAIN r.descriptions
  <2>1. r.descriptions[id] \in Text
    BY <1>1, <1>6
  <2> QED
    BY <1>3, <1>4, <1>5, <1>6, <2>1 DEF Modules
<1>7. CASE id \notin DOMAIN r.descriptions
  BY <1>3, <1>4, <1>5, <1>7
<1> QED
  BY <1>6, <1>7

\* The definitions, no id twice, and each that of its id.
IdsDistinct(rows) == \A i, j \in DOMAIN rows : rows[i].id = rows[j].id => i = j

LEMMA DefinitionsAre ==
  ASSUME NEW r \in Registries
  PROVE  /\ Definitions(r) \in Seq(Modules)
         /\ IdsDistinct(Definitions(r))
         /\ \A i \in DOMAIN Definitions(r) : Definitions(r)[i] = Definition(r, Definitions(r)[i].id)
<1> DEFINE all == ListIds(r)
           keep == {i \in DOMAIN all : IsRegistered(r, all[i])}
           ids == Picked(all, keep)
<1>1. all \in Seq(Text) /\ Distinct(all)
  BY ListIdsAreDistinct
<1>2. Definitions(r) = [i \in DOMAIN ids |-> Definition(r, ids[i])]
  BY DEF Definitions
<1>3. /\ ids \in Seq(Text) /\ Distinct(ids)
      /\ \A k \in DOMAIN ids : \E i \in keep \cap DOMAIN all : ids[k] = all[i]
  <2> HIDE DEF keep, all
  <2> QED
    BY <1>1, PickedElements
<1>4. \A k \in DOMAIN ids : IsRegistered(r, ids[k])
  BY <1>3
<1> HIDE DEF ids
<1>5. \A k \in DOMAIN ids : Definition(r, ids[k]) \in Modules /\ Definition(r, ids[k]).id = ids[k]
  BY <1>4, DefinitionHasId
<1>6. Definitions(r) \in Seq(Modules)
  BY <1>2, <1>3, <1>5
<1>7. DOMAIN Definitions(r) = DOMAIN ids /\ \A k \in DOMAIN ids : Definitions(r)[k] = Definition(r, ids[k])
  BY <1>2
<1> QED
  BY <1>3, <1>5, <1>6, <1>7 DEF IdsDistinct, Distinct

\* The rows selected: of the definitions those that pass.
LEMMA SelectedAre ==
  ASSUME registry \in Registries, NEW request
  PROVE  /\ Selected(request) \in Seq(Modules)
         /\ IdsDistinct(Selected(request))
         /\ ToSet(Selected(request)) = {m \in ToSet(Definitions(registry)) : Passes(m, request)}
         /\ \A m \in ToSet(Selected(request)) : m = Definition(registry, m.id)
<1> DEFINE all == Definitions(registry)
           keep == {i \in DOMAIN all : Passes(all[i], request)}
<1>1. /\ all \in Seq(Modules) /\ IdsDistinct(all)
      /\ \A i \in DOMAIN all : all[i] = Definition(registry, all[i].id)
  BY DefinitionsAre
<1> HIDE DEF all
<1>2. Selected(request) = Picked(all, keep)
  BY DEF Selected, all
<1>3. PICK p : p = Picked(all, keep)
  OBVIOUS
<1>4. Distinct(all)
  BY <1>1 DEF IdsDistinct, Distinct
<1>5. /\ p \in Seq(Modules) /\ Distinct(p)
      /\ \A k \in DOMAIN p : \E i \in keep \cap DOMAIN all : p[k] = all[i]
      /\ \A i \in keep \cap DOMAIN all : \E k \in DOMAIN p : p[k] = all[i]
  <2> HIDE DEF keep
  <2> QED
    BY <1>1, <1>3, <1>4, PickedElements
<1>6. IdsDistinct(p)
  <2> SUFFICES ASSUME NEW j \in DOMAIN p, NEW k \in DOMAIN p, p[j].id = p[k].id PROVE j = k
    BY DEF IdsDistinct
  <2>1. PICK a \in DOMAIN all : p[j] = all[a]
    BY <1>5
  <2>2. PICK b \in DOMAIN all : p[k] = all[b]
    BY <1>5
  <2>3. a = b
    BY <1>1, <2>1, <2>2 DEF IdsDistinct
  <2> QED
    BY <1>5, <2>1, <2>2, <2>3 DEF Distinct
<1>7. ToSet(p) = {m \in ToSet(all) : Passes(m, request)}
  <2>1. ASSUME NEW m \in ToSet(p) PROVE m \in ToSet(all) /\ Passes(m, request)
    BY <1>5, <2>1 DEF ToSet
  <2>2. ASSUME NEW m \in ToSet(all), Passes(m, request) PROVE m \in ToSet(p)
    BY <1>5, <2>2 DEF ToSet
  <2> QED
    BY <2>1, <2>2
<1>8. \A m \in ToSet(p) : m = Definition(registry, m.id)
  BY <1>1, <1>7 DEF ToSet
<1> QED
  BY <1>2, <1>3, <1>5, <1>6, <1>7, <1>8 DEF all

-----------------------------------------------------------------------------
(* The catalogue: which rows, and in which order.                          *)

\* What is listed: row i is the row at order[i] of those selected.
Arranged(order) ==
  LET rows == Selected(shown.request) IN
  /\ order \in Sortings(rows, shown.request)
  /\ DOMAIN shown.rows = DOMAIN rows /\ DOMAIN Shown = DOMAIN rows
  /\ \A i \in DOMAIN rows :
       /\ order[i] \in DOMAIN rows
       /\ shown.rows[i] = Row(rows[order[i]], shown.request, ShownAs(shown.request))
       /\ Shown[i] = rows[order[i]].id

LEMMA ListedIsArranged ==
  ASSUME CatalogueInv, Listed
  PROVE  /\ registry \in Registries /\ shown.request \in Options
         /\ \E order : Arranged(order)
<1>1. registry \in Registries /\ IsListing(shown)
  BY DEF CatalogueInv
<1>2. shown.request \in Options
  BY <1>1, CatalogueAssumption DEF IsListing
<1> DEFINE rows == Selected(shown.request)
<1>3. PICK order \in Sortings(rows, shown.request) :
        shown.rows = [i \in DOMAIN rows |-> Row(rows[order[i]], shown.request, ShownAs(shown.request))]
  BY <1>1 DEF IsListing
<1>4. \A i \in DOMAIN rows : order[i] \in DOMAIN rows
  BY <1>3 DEF Sortings
<1>5. \A m, request, kind : Row(m, request, kind).id = m.id
  BY DEF Row
<1>6. Arranged(order)
  BY <1>3, <1>4, <1>5 DEF Arranged, Shown
<1> QED
  BY <1>1, <1>2, <1>6

\* A module passes one of the two filters of status, and one of the two of exposure.
LEMMA FiltersShareOut ==
  ASSUME NEW m, NEW request \in Options
  PROVE  LET With(s) == Passes(m, [request EXCEPT !.status = s])
             Exposed(e) == Passes(m, [request EXCEPT !.exposure = e])
         IN  /\ With("all") <=> With("enabled") \/ With("disabled")
             /\ ~ (With("enabled") /\ With("disabled"))
             /\ Exposed("all") <=> Exposed("exposed") \/ Exposed("hidden")
             /\ filter # NoFilter => ~ (Exposed("exposed") /\ Exposed("hidden"))
             /\ filter # NoFilter => (Exposed("exposed") <=> Exposed("all") /\ IsExposed(filter, m.id))
<1> DEFINE Others(r) == /\ r.tags \subseteq m.tags
                        /\ \/ r.search = <<>>
                           \/ Mentions(m.id, r.search) \/ Mentions(m.description, r.search)
                        /\ m.deprecated => r.deprecated
                        /\ {Attribute(w) : w \in r.annotations} \subseteq m.annotations
           St(s) == [request EXCEPT !.status = s]
           Ex(e) == [request EXCEPT !.exposure = e]
<1>1. \A r : Passes(m, r) <=> Others(r) /\ HasStatus(m, r.status) /\ HasExposure(m, r.exposure)
  BY DEF Passes
<1>2. \A s : /\ St(s).tags = request.tags /\ St(s).search = request.search
             /\ St(s).deprecated = request.deprecated /\ St(s).annotations = request.annotations
             /\ St(s).status = s /\ St(s).exposure = request.exposure
  BY DEF Options
<1>3. \A e : /\ Ex(e).tags = request.tags /\ Ex(e).search = request.search
             /\ Ex(e).deprecated = request.deprecated /\ Ex(e).annotations = request.annotations
             /\ Ex(e).exposure = e /\ Ex(e).status = request.status
  BY DEF Options
<1>4. (\A s : Others(St(s)) <=> Others(request)) /\ (\A e : Others(Ex(e)) <=> Others(request))
  BY <1>2, <1>3
<1> HIDE DEF Others, St, Ex
<1>5. \A s : Passes(m, St(s)) <=> Others(request) /\ HasStatus(m, s) /\ HasExposure(m, request.exposure)
  BY <1>1, <1>2, <1>4
<1>6. \A e : Passes(m, Ex(e)) <=> Others(request) /\ HasStatus(m, request.status) /\ HasExposure(m, e)
  BY <1>1, <1>3, <1>4
<1>7. /\ HasStatus(m, "all") /\ (HasStatus(m, "enabled") \/ HasStatus(m, "disabled"))
      /\ ~ (HasStatus(m, "enabled") /\ HasStatus(m, "disabled"))
  BY DEF HasStatus
<1>8. /\ HasExposure(m, "all") /\ (HasExposure(m, "exposed") \/ HasExposure(m, "hidden"))
      /\ filter # NoFilter => ~ (HasExposure(m, "exposed") /\ HasExposure(m, "hidden"))
      /\ filter # NoFilter => (HasExposure(m, "exposed") <=> IsExposed(filter, m.id))
  BY DEF HasExposure
<1> QED
  BY <1>5, <1>6, <1>7, <1>8 DEF St, Ex

\* No module falls between the lists and none is in two; the column agrees.
THEOREM ListsShareOut == CSpec => []EachModuleOnOneList
<1>1. CatalogueInv => EachModuleOnOneList
  <2> SUFFICES ASSUME CatalogueInv, Listed PROVE EachModuleOnOneList
    BY DEF EachModuleOnOneList
  <2> DEFINE request == shown.request
             rows == Selected(request)
             Defs == ToSet(Definitions(registry))
  <2>1. registry \in Registries /\ request \in Options
    BY ListedIsArranged
  <2>2. PICK order : Arranged(order)
    BY ListedIsArranged
  <2>3. rows \in Seq(Modules) /\ IdsDistinct(rows)
        /\ ToSet(rows) = {m \in Defs : Passes(m, request)}
    BY <2>1, SelectedAre
  <2>4. \A s : WithStatus(s) = {m \in Defs : Passes(m, [request EXCEPT !.status = s])}
    BY <2>1, SelectedAre DEF WithStatus
  <2>5. \A e : WithExposure(e) = {m \in Defs : Passes(m, [request EXCEPT !.exposure = e])}
    BY <2>1, SelectedAre DEF WithExposure
  <2>6. \A m \in Defs :
          /\ m \in WithStatus("all") <=> m \in WithStatus("enabled") \/ m \in WithStatus("disabled")
          /\ ~ (m \in WithStatus("enabled") /\ m \in WithStatus("disabled"))
          /\ m \in WithExposure("all") <=> m \in WithExposure("exposed") \/ m \in WithExposure("hidden")
          /\ filter # NoFilter => ~ (m \in WithExposure("exposed") /\ m \in WithExposure("hidden"))
          /\ filter # NoFilter => (m \in WithExposure("exposed") <=> m \in WithExposure("all") /\ IsExposed(filter, m.id))
    <3> TAKE m \in Defs
    <3> QED
      BY <2>1, <2>4, <2>5, FiltersShareOut
  <2>7. (\A s : WithStatus(s) \subseteq Defs) /\ (\A e : WithExposure(e) \subseteq Defs)
    BY <2>4, <2>5
  <2> HIDE DEF Defs
  <2>8. /\ WithStatus("enabled") \cup WithStatus("disabled") = WithStatus("all")
        /\ WithStatus("enabled") \cap WithStatus("disabled") = {}
        /\ filter # NoFilter =>
             /\ WithExposure("exposed") \cup WithExposure("hidden") = WithExposure("all")
             /\ WithExposure("exposed") \cap WithExposure("hidden") = {}
    BY <2>6, <2>7
  <2>9. \A i, j \in DOMAIN Shown : Shown[i] = Shown[j] => i = j
    BY <2>2, <2>3 DEF Arranged, Sortings, IdsDistinct
  <2>10. ASSUME filter # NoFilter, NEW i \in DOMAIN shown.rows, shown.rows[i].optional.exposed # <<>>
         PROVE  shown.rows[i].optional.exposed[1] <=> \E m \in WithExposure("exposed") : m.id = Shown[i]
    <3> DEFINE m == rows[order[i]]
    <3>1. /\ i \in DOMAIN rows /\ order[i] \in DOMAIN rows /\ Shown[i] = m.id
          /\ shown.rows[i] = Row(m, request, ShownAs(request))
      BY <2>2, <2>10 DEF Arranged
    <3>2. request.exposure = "all" /\ shown.rows[i].optional.exposed[1] = IsExposed(filter, m.id)
      BY <2>10, <3>1 DEF Row, Optional
    <3>3. [request EXCEPT !.exposure = "all"] = request
      BY <2>1, <3>2 DEF Options
    <3>4. m \in ToSet(rows)
      BY <3>1 DEF ToSet
    <3>5. m \in Defs /\ m \in WithExposure("all")
      BY <2>3, <2>5, <3>3, <3>4
    <3>6. IsExposed(filter, m.id) => m \in WithExposure("exposed")
      BY <2>6, <2>10, <3>5
    <3>7. \A x \in WithExposure("exposed") : IsExposed(filter, x.id)
      BY <2>6, <2>7, <2>10
    <3> QED
      BY <3>1, <3>2, <3>6, <3>7
  <2> QED
    BY <2>8, <2>9, <2>10 DEF EachModuleOnOneList
<1> QED
  BY <1>1, CatalogueInvariant, PTL

\* Characters differ in rank.
LEMMA RankIsInjective ==
  ASSUME NEW c \in DOMAIN Rank, NEW d \in DOMAIN Rank
  PROVE  Rank[c] \in Nat /\ (c # d => Rank[c] # Rank[d])
<1>1. DOMAIN Alphabet = 1 .. Len(Alphabet) /\ Len(Alphabet) \in Nat
  BY CatalogueAssumption
<1>2. DOMAIN Rank = {Alphabet[i] : i \in DOMAIN Alphabet}
  BY DEF Rank
<1>3. \A x \in DOMAIN Rank : Rank[x] \in DOMAIN Alphabet /\ Alphabet[Rank[x]] = x
  <2> TAKE x \in DOMAIN Rank
  <2>1. Rank[x] = CHOOSE i \in DOMAIN Alphabet : Alphabet[i] = x
    BY <1>2 DEF Rank
  <2> QED
    BY <1>2, <2>1
<1> QED
  BY <1>1, <1>3

\* Of two ids, one is before the other.
LEMMA IdsCompare ==
  ASSUME NEW a \in Text, NEW b \in Text, a # b
  PROVE  IdBefore(a, b) \/ IdBefore(b, a)
<1>1. Len(a) \in Nat /\ Len(b) \in Nat /\ a \in Seq(DOMAIN Rank) /\ b \in Seq(DOMAIN Rank)
  BY DEF Text
<1> DEFINE m == IF Len(a) < Len(b) THEN Len(a) ELSE Len(b)
           w == IF Len(b) < Len(a) THEN Len(b) ELSE Len(a)
           T == {i \in 1 .. m : a[i] # b[i]}
<1>2. m \in Nat /\ m <= Len(a) /\ m <= Len(b) /\ w = m
  BY <1>1
<1>3. CASE T = {}
  <2>1. \A i \in 1 .. m : a[i] = b[i]
    BY <1>3
  <2>2. SubSeq(a, 1, m) = SubSeq(b, 1, m)
    BY <1>1, <1>2, <2>1
  <2>3. (m = Len(a) => IsPrefix(a, b)) /\ (m = Len(b) => IsPrefix(b, a))
    BY <1>2, <2>2 DEF IsPrefix
  <2>4. m = Len(a) \/ m = Len(b)
    OBVIOUS
  <2> QED
    BY <2>3, <2>4 DEF IdBefore, IsStrictPrefix
<1>4. CASE T # {}
  <2>1. PICK i \in T : \A k \in T : i <= k
    <3>1. T \subseteq Nat
      OBVIOUS
    <3> HIDE DEF T
    <3> QED
      BY <1>4, <3>1, LeastNumber
  <2>2. i \in 1 .. m /\ a[i] # b[i] /\ \A k \in 1 .. (i - 1) : a[k] = b[k]
    BY <1>2, <2>1
  <2>3. SubSeq(a, 1, i - 1) = SubSeq(b, 1, i - 1)
    BY <1>1, <1>2, <2>2
  <2>4. a[i] \in DOMAIN Rank /\ b[i] \in DOMAIN Rank
    BY <1>1, <1>2, <2>2
  <2>5. Rank[a[i]] < Rank[b[i]] \/ Rank[b[i]] < Rank[a[i]]
    BY <2>2, <2>4, RankIsInjective
  <2> HIDE DEF m, w
  <2>6. IdBefore(a, b) <=> IsStrictPrefix(a, b) \/ \E k \in 1 .. m :
          SubSeq(a, 1, k - 1) = SubSeq(b, 1, k - 1) /\ Rank[a[k]] < Rank[b[k]]
    BY DEF IdBefore, m
  <2>7. IdBefore(b, a) <=> IsStrictPrefix(b, a) \/ \E k \in 1 .. w :
          SubSeq(b, 1, k - 1) = SubSeq(a, 1, k - 1) /\ Rank[b[k]] < Rank[a[k]]
    BY DEF IdBefore, w
  <2> QED
    BY <1>2, <2>2, <2>3, <2>5, <2>6, <2>7
<1> QED
  BY <1>3, <1>4

\* The durations of the calls of a module make a number.
LEMMA DurationIsNatural ==
  ASSUME log \in Seq(Lines), NEW id
  PROVE  Duration(id) \in Nat
<1>1. PICK n \in Nat : n = Len(log)
  OBVIOUS
<1> DEFINE Of(k) == IF k \in CallsOf(id) THEN log[k].duration ELSE 0
           Body == [x \in Nat \X (1 .. n) |-> x[1] + Of(x[2])]
           Made(g) == g = [k \in 0 .. n |-> IF k = 0 THEN 0 ELSE g[k - 1] + Of(k)]
<1>2. \A k \in 1 .. n : Of(k) \in Nat
  <2> TAKE k \in 1 .. n
  <2>1. log[k] \in Lines
    BY <1>1
  <2> QED
    BY <2>1 DEF Lines
<1> HIDE DEF Of
<1>3. Body \in [Nat \X (1 .. n) -> Nat] /\ \A x \in Nat, k \in 1 .. n : Body[<<x, k>>] = x + Of(k)
  BY <1>2
<1> HIDE DEF Body
<1>4. PICK g \in [0 .. n -> Nat] : Iterates(g, 0, Body, n)
  BY <1>3, Iteration
<1>5. Made(g)
  <2>1. \A k \in 0 .. n : g[k] = IF k = 0 THEN 0 ELSE g[k - 1] + Of(k)
    <3> SUFFICES ASSUME NEW k \in 0 .. n, k # 0 PROVE g[k] = g[k - 1] + Of(k)
      BY <1>4 DEF Iterates
    <3>1. k \in 1 .. n /\ k - 1 \in 0 .. n
      OBVIOUS
    <3>2. g[k] = Body[<<g[k - 1], k>>] /\ g[k - 1] \in Nat
      BY <1>4, <3>1 DEF Iterates
    <3> QED
      BY <1>3, <3>1, <3>2
  <2> QED
    BY <1>4, <2>1
<1> DEFINE h == CHOOSE f : Made(f)
<1>6. Made(h)
  BY <1>5
<1>7. Duration(id) = h[n]
  BY <1>1 DEF Duration, Of
<1> HIDE DEF h
<1>8. h[0] = 0 /\ \A k \in 0 .. (n - 1) : h[k + 1] = h[k] + Of(k + 1)
  <2>1. \A k \in 0 .. n : h[k] = IF k = 0 THEN 0 ELSE h[k - 1] + Of(k)
    BY <1>6
  <2>2. \A k \in 0 .. (n - 1) : k + 1 \in 0 .. n /\ k + 1 # 0 /\ (k + 1) - 1 = k
    OBVIOUS
  <2> QED
    BY <2>1, <2>2
<1> DEFINE T == {k \in 0 .. n : h[k] \in Nat}
<1>9. 0 .. n \subseteq T
  <2>1. 0 \in T
    BY <1>8
  <2>2. \A k \in 0 .. (n - 1) : k \in T => k + 1 \in T
    <3> SUFFICES ASSUME NEW k \in 0 .. (n - 1), h[k] \in Nat PROVE h[k + 1] \in Nat
      OBVIOUS
    <3>1. Of(k + 1) \in Nat
      BY <1>2
    <3>2. h[k + 1] = h[k] + Of(k + 1)
      BY <1>8
    <3> HIDE DEF Of
    <3> QED
      BY <3>1, <3>2
  <2> HIDE DEF T
  <2> QED
    BY <2>1, <2>2, Induction
<1> QED
  BY <1>7, <1>9

\* What rows are sorted by are numbers.
LEMMA UsageIsNatural ==
  ASSUME log \in Seq(Lines), NEW id, NEW field \in {"calls", "errors", "latency"}
  PROVE  UsageKey(id, field) \in Int
<1>1. IsFiniteSet(CallsOf(id))
  <2>1. IsFiniteSet(1 .. Len(log))
    BY FS_Interval
  <2>2. CallsOf(id) \subseteq 1 .. Len(log)
    BY DEF CallsOf, Window
  <2> QED
    BY <2>1, <2>2, FS_Subset
<1>2. Cardinality(CallsOf(id)) \in Nat
  BY <1>1, FS_CardinalityType
<1>3. Cardinality({i \in CallsOf(id) : log[i].failed}) \in Nat
  <2>1. IsFiniteSet({i \in CallsOf(id) : log[i].failed})
    BY <1>1, FS_Subset
  <2> QED
    BY <2>1, FS_CardinalityType
<1>4. Latency(id) \in Int
  <2>1. CASE CallsOf(id) = {}
    BY <2>1 DEF Latency
  <2>2. CASE CallsOf(id) # {}
    <3>1. Cardinality(CallsOf(id)) # 0
      BY <1>1, <2>2, FS_EmptySet
    <3>2. Duration(id) \in Nat
      BY DurationIsNatural
    <3> QED
      BY <1>2, <2>2, <3>1, <3>2 DEF Latency
  <2> QED
    BY <2>1, <2>2
<1> QED
  BY <1>2, <1>3, <1>4 DEF UsageKey

\* The rows come in the order that was asked for.
THEOREM RowsAreInOrder == CSpec => []OrderAsAsked
<1>1. CatalogueInv => OrderAsAsked
  <2> SUFFICES ASSUME CatalogueInv, Listed, NEW i \in DOMAIN Shown, NEW j \in DOMAIN Shown, i < j
               PROVE  LET request == shown.request
                          ki == UsageKey(Shown[i], request.sort)  kj == UsageKey(Shown[j], request.sort)
                          byId == IF request.reverse THEN IdBefore(Shown[j], Shown[i])
                                  ELSE IdBefore(Shown[i], Shown[j])
                      IN  IF request.sort = "id" \/ shown.note THEN byId
                          ELSE \/ IF request.reverse THEN ki < kj ELSE ki > kj
                               \/ ki = kj /\ IdBefore(Shown[i], Shown[j])
    BY DEF OrderAsAsked
  <2> DEFINE request == shown.request
             rows == Selected(request)
  <2>1. registry \in Registries /\ request \in Options /\ log \in Seq(Lines)
        /\ shown.note = (request.sort # "id" /\ Window = {})
    BY ListedIsArranged DEF CatalogueInv, IsListing
  <2>2. PICK order : Arranged(order)
    BY ListedIsArranged
  <2>3. rows \in Seq(Modules) /\ IdsDistinct(rows)
    BY <2>1, SelectedAre
  <2> DEFINE a == rows[order[i]]
             b == rows[order[j]]
  <2>4. /\ i \in DOMAIN rows /\ j \in DOMAIN rows
        /\ order[i] \in DOMAIN rows /\ order[j] \in DOMAIN rows
        /\ Shown[i] = a.id /\ Shown[j] = b.id
        /\ order \in Sortings(rows, request)
    BY <2>2 DEF Arranged
  <2>5. i # j /\ DOMAIN rows = 1 .. Len(rows)
    BY <2>3, <2>4
  <2> HIDE DEF rows
  <2>6. order[i] # order[j] /\ ~ Precedes(b, a, request)
    BY <2>4, <2>5 DEF Sortings
  <2>7. a.id # b.id
    BY <2>3, <2>4, <2>6 DEF IdsDistinct
  <2>8. a.id \in Text /\ b.id \in Text
    <3>1. a \in Modules /\ b \in Modules
      BY <2>3, <2>4
    <3> QED
      BY <3>1 DEF Modules
  <2> HIDE DEF a, b
  <2>9. IdBefore(a.id, b.id) \/ IdBefore(b.id, a.id)
    BY <2>7, <2>8, IdsCompare
  <2>10. CASE request.sort = "id" \/ Window = {}
    <3>1. ~ IF request.reverse THEN IdBefore(a.id, b.id) ELSE IdBefore(b.id, a.id)
      BY <2>6, <2>10 DEF Precedes
    <3> QED
      BY <2>1, <2>4, <2>9, <2>10, <3>1
  <2>11. CASE ~ (request.sort = "id" \/ Window = {})
    <3>1. ~ UsageBefore(b, a, request.sort, request.reverse)
      BY <2>6, <2>11 DEF Precedes
    <3>2. UsageKey(a.id, request.sort) \in Int /\ UsageKey(b.id, request.sort) \in Int
      <4>1. request.sort \in {"calls", "errors", "latency"}
        BY <2>1, <2>11 DEF Options
      <4> QED
        BY <2>1, <4>1, UsageIsNatural
    <3>3. request.reverse \in BOOLEAN
      BY <2>1 DEF Options
    <3>4. PICK ka \in Int, kb \in Int : ka = UsageKey(a.id, request.sort) /\ kb = UsageKey(b.id, request.sort)
      BY <3>2
    <3>5. CASE ka = kb
      <4>1. ~ IdBefore(b.id, a.id)
        BY <3>1, <3>4, <3>5 DEF UsageBefore
      <4> QED
        BY <2>1, <2>4, <2>9, <2>11, <3>4, <3>5, <4>1
    <3>6. CASE ka # kb
      <4>1. ~ ((kb > ka) # request.reverse)
        BY <3>1, <3>4, <3>6 DEF UsageBefore
      <4>2. IF request.reverse THEN ka < kb ELSE ka > kb
        BY <3>3, <3>4, <3>6, <4>1
      <4> QED
        BY <2>1, <2>4, <2>11, <3>4, <4>2
    <3> QED
      BY <3>5, <3>6
  <2> QED
    BY <2>10, <2>11
<1> QED
  BY <1>1, CatalogueInvariant, PTL

-----------------------------------------------------------------------------
(* The catalogue: the descriptions in a table.                             *)

\* Counts(text, n, g): g[k] is the bytes of the first k characters, for k up to n.
Counts(text, n, g) ==
  /\ \A k \in 0 .. n : g[k] \in Nat
  /\ g[0] = 0 /\ \A k \in 1 .. n : g[k] = g[k - 1] + Width[text[k]]

LEMMA BytesCount ==
  ASSUME NEW text, NEW n \in Nat, NEW g, Counts(text, n, g)
  PROVE  Bytes(text, n) = g[n]
<1> DEFINE Made(f) == f = [k \in 0 .. n |-> IF k = 0 THEN 0 ELSE f[k - 1] + Width[text[k]]]
           c == [k \in 0 .. n |-> g[k]]
           h == CHOOSE f : Made(f)
<1>1. Made(c)
  <2>1. \A k \in 0 .. n : c[k] = IF k = 0 THEN 0 ELSE c[k - 1] + Width[text[k]]
    <3> SUFFICES ASSUME NEW k \in 0 .. n, k # 0 PROVE c[k] = c[k - 1] + Width[text[k]]
      BY DEF Counts
    <3>1. k \in 1 .. n /\ k - 1 \in 0 .. n
      OBVIOUS
    <3> QED
      BY <3>1 DEF Counts
  <2> QED
    BY <2>1
<1>2. Made(h)
  BY <1>1
<1>3. Bytes(text, n) = h[n]
  BY DEF Bytes
<1> HIDE DEF h
<1>4. \A k \in 0 .. n : c[k] = h[k]
  <2>1. c[0] = h[0]
    <3>1. 0 \in 0 .. n
      OBVIOUS
    <3> HIDE DEF c
    <3> QED
      BY <1>1, <1>2, <3>1
  <2>2. \A k \in 0 .. (n - 1) : c[k] = h[k] => c[k + 1] = h[k + 1]
    <3> TAKE k \in 0 .. (n - 1)
    <3>1. k + 1 \in 0 .. n /\ k + 1 # 0 /\ (k + 1) - 1 = k
      OBVIOUS
    <3> HIDE DEF c
    <3> QED
      BY <1>1, <1>2, <3>1
  <2> HIDE DEF c, Made
  <2> QED
    BY <2>1, <2>2, SameIteration
<1> QED
  BY <1>3, <1>4

\* The bytes can be counted, and a character has one to four.
LEMMA CountsExist ==
  ASSUME NEW text \in Text
  PROVE  \E g : /\ Counts(text, Len(text), g)
                /\ \A k \in 1 .. Len(text) : g[k] \in (g[k - 1] + 1) .. (g[k - 1] + 4)
<1>1. PICK n \in Nat : n = Len(text)
  BY DEF Text
<1>2. \A k \in 1 .. n : Width[text[k]] \in 1 .. 4
  <2>1. \A k \in 1 .. n : text[k] \in DOMAIN Rank
    BY <1>1 DEF Text
  <2> QED
    BY <2>1, CatalogueAssumption
<1> DEFINE Body == [x \in Nat \X (1 .. n) |-> x[1] + Width[text[x[2]]]]
<1>3. Body \in [Nat \X (1 .. n) -> Nat]
  BY <1>2
<1>4. \A s \in Nat, k \in 1 .. n : Body[<<s, k>>] = s + Width[text[k]]
  OBVIOUS
<1> HIDE DEF Body
<1>5. PICK g \in [0 .. n -> Nat] : Iterates(g, 0, Body, n)
  BY <1>3, Iteration
<1>6. \A k \in 1 .. n : g[k] = g[k - 1] + Width[text[k]] /\ g[k - 1] \in Nat
  <2> TAKE k \in 1 .. n
  <2>1. k - 1 \in 0 .. n
    OBVIOUS
  <2> QED
    BY <1>4, <1>5, <2>1 DEF Iterates
<1>7. Counts(text, n, g)
  BY <1>5, <1>6 DEF Counts, Iterates
<1>8. \A k \in 1 .. n : g[k] \in (g[k - 1] + 1) .. (g[k - 1] + 4)
  <2> TAKE k \in 1 .. n
  <2>1. PICK w \in 1 .. 4 : w = Width[text[k]]
    BY <1>2
  <2>2. PICK a \in Nat : a = g[k - 1]
    BY <1>6
  <2>3. g[k] = a + w
    BY <1>6, <2>1, <2>2
  <2>4. a + w \in (a + 1) .. (a + 4)
    OBVIOUS
  <2> QED
    BY <2>2, <2>3, <2>4
<1> QED
  BY <1>1, <1>7, <1>8

\* The bytes grow with the characters.
LEMMA BytesGrow ==
  ASSUME NEW text, NEW n \in Nat, NEW g, Counts(text, n, g),
         \A k \in 1 .. n : g[k] > g[k - 1],
         NEW a \in 0 .. n, NEW b \in a .. n
  PROVE  g[a] <= g[b]
<1> DEFINE T == {d \in 0 .. (n - a) : g[a] <= g[a + d]}
<1>1. 0 \in T
  BY DEF Counts
<1>2. ASSUME NEW d \in 0 .. ((n - a) - 1), d \in T PROVE d + 1 \in T
  <2>1. a + (d + 1) \in 1 .. n /\ (a + (d + 1)) - 1 = a + d /\ a + d \in 0 .. n
    OBVIOUS
  <2>2. g[a + (d + 1)] > g[a + d]
    BY <2>1
  <2>3. g[a + (d + 1)] \in Nat /\ g[a + d] \in Nat /\ g[a] \in Nat
    BY <2>1 DEF Counts
  <2>4. g[a] <= g[a + d]
    BY <1>2
  <2> QED
    BY <2>2, <2>3, <2>4
<1> HIDE DEF T
<1>3. 0 .. (n - a) \subseteq T
  BY <1>1, <1>2, Induction
<1>4. b - a \in T /\ a + (b - a) = b
  BY <1>3
<1> QED
  BY <1>4 DEF T

\* What is kept of a text that is cut: whole characters from its beginning, as many
\* as leave room for the dots.
LEMMA TruncateFits ==
  ASSUME NEW text \in Text, NEW limit \in Nat, limit >= 3
  PROVE  LET t == Truncate(text, limit)
             bytes == Bytes(t.text, Len(t.text))
         IN  /\ IsPrefix(t.text, text)
             /\ t.dots <=> Bytes(text, Len(text)) > limit
             /\ t.dots => bytes + 3 <= limit /\ bytes + 3 + 4 > limit
<1>1. PICK n \in Nat : n = Len(text)
  BY DEF Text
<1>2. PICK g : Counts(text, n, g) /\ \A k \in 1 .. n : g[k] \in (g[k - 1] + 1) .. (g[k - 1] + 4)
  BY <1>1, CountsExist
<1>3. \A k \in 0 .. n : Bytes(text, k) = g[k] /\ g[k] \in Nat
  <2> TAKE k \in 0 .. n
  <2>1. Counts(text, k, g)
    BY <1>2 DEF Counts
  <2> QED
    BY <1>2, <2>1, BytesCount DEF Counts
<1>4. \A k \in 1 .. n : g[k] > g[k - 1] /\ g[k] <= g[k - 1] + 4
  <2> TAKE k \in 1 .. n
  <2>1. k - 1 \in 0 .. n
    OBVIOUS
  <2> QED
    BY <1>2, <1>3, <2>1
<1>5. CASE g[n] <= limit
  <2>1. Truncate(text, limit) = [text |-> text, dots |-> FALSE]
    BY <1>1, <1>3, <1>5 DEF Truncate
  <2>2. IsPrefix(text, text)
    <3>1. text = SubSeq(text, 1, Len(text))
      BY DEF Text
    <3> QED
      BY <1>1, <3>1 DEF IsPrefix
  <2> QED
    BY <1>1, <1>3, <1>5, <2>1, <2>2
<1>6. CASE g[n] > limit
  <2> DEFINE Past == {k \in 1 .. n : g[k] > limit - 3}
  <2>1. Past \subseteq Nat /\ n \in Past
    BY <1>2, <1>3, <1>6 DEF Counts
  <2>2. PICK l \in Past : \A k \in Past : l <= k
    <3> HIDE DEF Past
    <3> QED
      BY <2>1, LeastNumber
  <2>3. PICK m \in 0 .. n : m = l - 1
    BY <2>2
  <2>4. {k \in DOMAIN text : Bytes(text, k) <= limit - 3} = 1 .. m
    <3>1. DOMAIN text = 1 .. n
      BY <1>1 DEF Text
    <3>2. ASSUME NEW k \in 1 .. n PROVE Bytes(text, k) <= limit - 3 <=> k \in 1 .. m
      <4>1. CASE k < l
        BY <1>3, <2>2, <2>3, <4>1
      <4>2. CASE k >= l
        <5>1. l \in 0 .. n /\ k \in l .. n
          BY <2>2, <4>2
        <5>2. \A j \in 1 .. n : g[j] > g[j - 1]
          BY <1>4
        <5>3. g[l] <= g[k]
          BY <1>2, <5>1, <5>2, BytesGrow
        <5> QED
          BY <1>3, <2>2, <2>3, <4>2, <5>1, <5>3
      <4> QED
        BY <4>1, <4>2, <2>2
    <3> QED
      BY <3>1, <3>2
  <2>5. Cardinality(1 .. m) = m
    BY FS_Interval
  <2> DEFINE sub == SubSeq(text, 1, m)
  <2>6. Truncate(text, limit) = [text |-> sub, dots |-> TRUE]
    <3>1. ~ (Bytes(text, Len(text)) <= limit)
      BY <1>1, <1>3, <1>6
    <3>2. Cardinality({k \in DOMAIN text : Bytes(text, k) <= limit - 3}) = m
      BY <2>4, <2>5
    <3> QED
      BY <3>1, <3>2 DEF Truncate
  <2>7. Len(sub) = m /\ \A k \in 1 .. m : sub[k] = text[k]
    BY <1>1 DEF Text
  <2>8. IsPrefix(sub, text)
    BY <1>1, <2>7 DEF IsPrefix
  <2>9. Counts(sub, m, g)
    BY <1>2, <2>7 DEF Counts
  <2> HIDE DEF sub
  <2>10. Bytes(sub, Len(sub)) = g[m]
    BY <2>7, <2>9, BytesCount
  <2>11. g[m] <= limit - 3
    <3>1. CASE m = 0
      BY <1>2, <3>1 DEF Counts
    <3>2. CASE m # 0
      BY <1>3, <2>2, <2>3, <3>2
    <3> QED
      BY <3>1, <3>2
  <2>12. g[m] + 4 > limit - 3
    BY <1>3, <1>4, <2>2, <2>3
  <2>13. g[m] \in Nat /\ g[m] + 3 <= limit /\ g[m] + 3 + 4 > limit
    BY <1>3, <2>11, <2>12
  <2>14. Bytes(text, Len(text)) > limit
    BY <1>1, <1>3, <1>6
  <2> QED
    BY <2>6, <2>8, <2>10, <2>13, <2>14
<1> QED
  BY <1>3, <1>5, <1>6

\* In a table a description keeps to its bytes; elsewhere it is whole.
THEOREM DescriptionsKeepTheirBytes == CSpec => []DescriptionsFit
<1>1. CatalogueInv => DescriptionsFit
  <2> SUFFICES ASSUME CatalogueInv, Listed, NEW i \in DOMAIN shown.rows
               PROVE  LET row == shown.rows[i]
                          all == Definition(registry, row.id).description
                          bytes == Bytes(row.description.text, Len(row.description.text))
                      IN  /\ IsPrefix(row.description.text, all)
                          /\ row.description.dots <=> shown.kind = "table" /\ Bytes(all, Len(all)) > DescLimit
                          /\ row.description.dots => bytes + 3 <= DescLimit /\ bytes + 3 + 4 > DescLimit
    BY DEF DescriptionsFit
  <2> DEFINE request == shown.request
             rows == Selected(request)
             row == shown.rows[i]
  <2>1. registry \in Registries
    BY ListedIsArranged
  <2>2. PICK order : Arranged(order)
    BY ListedIsArranged
  <2>3. rows \in Seq(Modules) /\ \A m \in ToSet(rows) : m = Definition(registry, m.id)
    BY <2>1, SelectedAre
  <2> DEFINE m == rows[order[i]]
             text == m.description
  <2>4. i \in DOMAIN rows /\ order[i] \in DOMAIN rows /\ row = Row(m, request, ShownAs(request))
    BY <2>2 DEF Arranged
  <2>5. m \in Modules /\ m \in ToSet(rows)
    BY <2>3, <2>4 DEF ToSet
  <2>6. Definition(registry, row.id).description = text /\ text \in Text
    <3>1. row.id = m.id
      BY <2>4 DEF Row
    <3>2. m = Definition(registry, m.id)
      BY <2>3, <2>5
    <3>3. text \in Text
      BY <2>5 DEF Modules
    <3> QED
      BY <3>1, <3>2, <3>3
  <2>7. shown.kind = ShownAs(request)
    <3>1. rows # <<>>
      BY <2>4
    <3> QED
      BY <3>1 DEF CatalogueInv, IsListing
  <2>8. CASE ShownAs(request) = "table"
    <3>1. row.description = Truncate(text, DescLimit)
      BY <2>4, <2>8 DEF Row
    <3>2. PICK t : t = text
      OBVIOUS
    <3>3. PICK d : d = Truncate(t, DescLimit)
      OBVIOUS
    <3>4. /\ IsPrefix(d.text, t)
          /\ d.dots <=> Bytes(t, Len(t)) > DescLimit
          /\ d.dots => Bytes(d.text, Len(d.text)) + 3 <= DescLimit
                       /\ Bytes(d.text, Len(d.text)) + 3 + 4 > DescLimit
      BY <2>6, <3>2, <3>3, TruncateFits, CatalogueAssumption
    <3> HIDE DEF row, text, request
    <3>5. row.description = d /\ Definition(registry, row.id).description = t /\ shown.kind = "table"
      BY <2>6, <2>7, <2>8, <3>1, <3>2, <3>3
    <3> QED
      BY <3>4, <3>5 DEF row
  <2>9. CASE ShownAs(request) # "table"
    <3>1. row.description = [text |-> text, dots |-> FALSE]
      BY <2>4, <2>9 DEF Row
    <3>2. IsPrefix(text, text)
      <4>1. text = SubSeq(text, 1, Len(text)) /\ Len(text) \in Nat
        BY <2>6 DEF Text
      <4> QED
        BY <4>1 DEF IsPrefix
    <3> HIDE DEF row, text, request
    <3>3. Definition(registry, row.id).description = text /\ shown.kind # "table"
      BY <2>6, <2>7, <2>9
    <3>4. row.description.text = text /\ ~ row.description.dots
      BY <3>1
    <3> QED
      BY <3>2, <3>3, <3>4 DEF row
  <2> QED
    BY <2>8, <2>9
<1> QED
  BY <1>1, CatalogueInvariant, PTL

-----------------------------------------------------------------------------
(* Globs, for every pattern and every id.                                  *)

\* The number of stars before a character is counted from the last other one.
LEMMA StarsCount ==
  ASSUME NEW pattern, NEW i \in Nat \ {0}
  PROVE  /\ StarsBefore(pattern, i) \in Nat
         /\ i = 1 => StarsBefore(pattern, i) = 0
         /\ i > 1 /\ pattern[i - 1] # "*" => StarsBefore(pattern, i) = 0
         /\ i > 1 /\ pattern[i - 1] = "*" => StarsBefore(pattern, i) = StarsBefore(pattern, i - 1) + 1
<1> DEFINE From(a, k) == /\ a \in 1 .. k /\ \A j \in a .. k - 1 : pattern[j] = "*"
                         /\ a = 1 \/ pattern[a - 1] # "*"
<1>1. ASSUME NEW k \in Nat \ {0}, NEW a, NEW b, From(a, k), From(b, k) PROVE a = b
  <2>1. a \in Nat /\ b \in Nat
    BY <1>1
  <2>2. CASE a < b
    <3>1. b - 1 \in a .. k - 1
      BY <1>1, <2>2
    <3> QED
      BY <1>1, <2>1, <2>2, <3>1
  <2>3. CASE b < a
    <3>1. a - 1 \in b .. k - 1
      BY <1>1, <2>3
    <3> QED
      BY <1>1, <2>1, <2>3, <3>1
  <2> QED
    BY <2>1, <2>2, <2>3
<1>2. ASSUME NEW k \in Nat \ {0} PROVE \E a : From(a, k)
  <2> DEFINE Back == {d \in 0 .. k - 1 : d = k - 1 \/ pattern[k - d - 1] # "*"}
  <2>1. Back \subseteq Nat /\ k - 1 \in Back
    OBVIOUS
  <2>2. PICK d \in Back : \A e \in Back : d <= e
    <3> HIDE DEF Back
    <3> QED
      BY <2>1, LeastNumber
  <2>3. ASSUME NEW j \in (k - d) .. k - 1 PROVE pattern[j] = "*"
    <3>1. (k - j - 1) \in 0 .. k - 1 /\ k - j - 1 < d /\ k - (k - j - 1) - 1 = j
      BY <2>2
    <3>2. k - j - 1 \notin Back
      BY <2>2, <3>1
    <3> QED
      BY <3>1, <3>2
  <2>4. From(k - d, k)
    BY <2>2, <2>3
  <2> HIDE DEF From
  <2> QED
    BY <2>4
<1> DEFINE first(k) == CHOOSE a \in 1 .. k : /\ \A j \in a .. k - 1 : pattern[j] = "*"
                                             /\ a = 1 \/ pattern[a - 1] # "*"
<1>3. ASSUME NEW k \in Nat \ {0} PROVE From(first(k), k) /\ StarsBefore(pattern, k) = k - first(k)
  <2>1. \E a \in 1 .. k : /\ \A j \in a .. k - 1 : pattern[j] = "*"
                          /\ a = 1 \/ pattern[a - 1] # "*"
    BY <1>2
  <2> QED
    BY <2>1 DEF StarsBefore
<1> HIDE DEF first
<1>4. From(first(i), i) /\ StarsBefore(pattern, i) = i - first(i)
  BY <1>3
<1>5. StarsBefore(pattern, i) \in Nat /\ (i = 1 => StarsBefore(pattern, i) = 0)
  BY <1>4
<1>6. ASSUME i > 1, pattern[i - 1] # "*" PROVE StarsBefore(pattern, i) = 0
  <2>1. From(i, i)
    BY <1>6
  <2>2. first(i) = i
    <3> HIDE DEF From
    <3> QED
      BY <1>1, <1>4, <2>1
  <2> QED
    BY <1>4, <2>2
<1>7. ASSUME i > 1, pattern[i - 1] = "*" PROVE StarsBefore(pattern, i) = StarsBefore(pattern, i - 1) + 1
  <2>1. i - 1 \in Nat \ {0}
    BY <1>7
  <2>2. From(first(i - 1), i - 1) /\ StarsBefore(pattern, i - 1) = (i - 1) - first(i - 1)
    BY <1>3, <2>1
  <2>3. From(first(i - 1), i)
    BY <1>7, <2>2
  <2>4. first(i - 1) = first(i)
    <3> HIDE DEF From
    <3> QED
      BY <1>1, <1>4, <2>3
  <2> QED
    BY <1>4, <2>2, <2>4
<1> QED
  BY <1>5, <1>6, <1>7

\* The second star of two.
Second(pattern, i) ==
  i \in DOMAIN pattern /\ pattern[i] = "*" /\ StarsBefore(pattern, i) % 2 = 1

\* Where the first i characters of the pattern may end.
CutsTo(pattern, id, i) ==
  {k \in 0 .. Len(id) :
     \E cut \in [0 .. i -> 0 .. Len(id)] :
       /\ cut[0] = 0 /\ cut[i] = k
       /\ \A m \in 1 .. i : /\ cut[m - 1] <= cut[m]
                            /\ StandsFor(pattern, m, SubSeq(id, cut[m - 1] + 1, cut[m]))}

LEMMA CutByCut ==
  ASSUME NEW pattern, NEW S, NEW id \in Seq(S), NEW i \in Nat \ {0}
  PROVE  CutsTo(pattern, id, i) =
           {j \in 0 .. Len(id) : \E k \in CutsTo(pattern, id, i - 1) :
              k <= j /\ StandsFor(pattern, i, SubSeq(id, k + 1, j))}
<1> DEFINE Good(cut, n) == \A m \in 1 .. n : /\ cut[m - 1] <= cut[m]
                                             /\ StandsFor(pattern, m, SubSeq(id, cut[m - 1] + 1, cut[m]))
<1>1. PICK L \in Nat : L = Len(id)
  OBVIOUS
<1>2. ASSUME NEW j \in CutsTo(pattern, id, i)
      PROVE  \E k \in CutsTo(pattern, id, i - 1) : k <= j /\ StandsFor(pattern, i, SubSeq(id, k + 1, j))
  <2>1. PICK cut \in [0 .. i -> 0 .. L] : cut[0] = 0 /\ cut[i] = j /\ Good(cut, i)
    BY <1>1, <1>2 DEF CutsTo
  <2> DEFINE c == [m \in 0 .. i - 1 |-> cut[m]]
  <2>2. c \in [0 .. i - 1 -> 0 .. L] /\ c[0] = 0 /\ c[i - 1] = cut[i - 1]
    BY <2>1
  <2>3. Good(c, i - 1)
    <3> SUFFICES ASSUME NEW m \in 1 .. i - 1
                 PROVE  c[m - 1] <= c[m] /\ StandsFor(pattern, m, SubSeq(id, c[m - 1] + 1, c[m]))
      OBVIOUS
    <3>1. m \in 1 .. i /\ m \in 0 .. i - 1 /\ m - 1 \in 0 .. i - 1
      OBVIOUS
    <3>2. c[m] = cut[m] /\ c[m - 1] = cut[m - 1]
      BY <3>1
    <3> HIDE DEF c
    <3> QED
      BY <2>1, <3>1, <3>2
  <2>4. cut[i - 1] \in 0 .. L /\ i \in 1 .. i
    BY <2>1
  <2> HIDE DEF c
  <2>5. cut[i - 1] \in CutsTo(pattern, id, i - 1)
    BY <1>1, <2>2, <2>3, <2>4 DEF CutsTo
  <2> QED
    BY <2>1, <2>4, <2>5
<1>3. ASSUME NEW j \in 0 .. L, NEW k \in CutsTo(pattern, id, i - 1), k <= j,
             StandsFor(pattern, i, SubSeq(id, k + 1, j))
      PROVE  j \in CutsTo(pattern, id, i)
  <2>1. PICK cut \in [0 .. i - 1 -> 0 .. L] : cut[0] = 0 /\ cut[i - 1] = k /\ Good(cut, i - 1)
    BY <1>1, <1>3 DEF CutsTo
  <2> DEFINE c == [m \in 0 .. i |-> IF m = i THEN j ELSE cut[m]]
  <2>2. c \in [0 .. i -> 0 .. L] /\ c[0] = 0 /\ c[i] = j
    BY <1>3, <2>1
  <2>3. ASSUME NEW m \in 1 .. i
        PROVE  c[m - 1] <= c[m] /\ StandsFor(pattern, m, SubSeq(id, c[m - 1] + 1, c[m]))
    <3>1. CASE m = i
      <4>1. c[m - 1] = k /\ c[m] = j
        BY <2>1, <3>1
      <4> HIDE DEF c
      <4> QED
        BY <1>3, <3>1, <4>1
    <3>2. CASE m # i
      <4>1. c[m - 1] = cut[m - 1] /\ c[m] = cut[m] /\ m \in 1 .. i - 1
        BY <3>2
      <4> HIDE DEF c
      <4> QED
        BY <2>1, <4>1
    <3> QED
      BY <3>1, <3>2
  <2> HIDE DEF c
  <2> QED
    BY <1>1, <2>2, <2>3 DEF CutsTo
<1>4. CutsTo(pattern, id, i) \subseteq 0 .. L
  BY <1>1 DEF CutsTo
<1> QED
  BY <1>1, <1>2, <1>3, <1>4

Kinds == {"deep", "one"}

Dotless(text) == "." \notin {text[m] : m \in DOMAIN text}

\* A piece ends where the text it stands for does.
LEMMA EndsAre ==
  ASSUME NEW S, NEW id \in Seq(S)
  PROVE  \A k, j \in 0 .. Len(id) :
           /\ j \in Ends(id, "deep", k) <=> k <= j /\ SubSeq(id, k + 1, j) # <<>>
           /\ j \in Ends(id, "one", k) <=> k <= j /\ Dotless(SubSeq(id, k + 1, j))
           /\ \A c : c \notin Kinds => (j \in Ends(id, c, k) <=> k <= j /\ SubSeq(id, k + 1, j) = <<c>>)
           /\ k <= j /\ SubSeq(id, k + 1, j) = <<>> <=> j = k
<1> TAKE k, j \in 0 .. Len(id)
<1>0. PICK text : text = SubSeq(id, k + 1, j)
  OBVIOUS
<1>1. PICK L \in Nat : L = Len(id)
  OBVIOUS
<1>2. j < k \/ k <= j
  BY <1>1
<1>3. ASSUME k <= j
      PROVE  /\ text \in Seq(S) /\ Len(text) = j - k /\ DOMAIN text = 1 .. j - k
             /\ \A m \in 1 .. j - k : text[m] = id[k + m]
  <2>1. text \in Seq(S)
    BY <1>0, <1>1, <1>3, SubSeqProperties
  <2>2. Len(text) = j - k /\ \A m \in 1 .. j - k : text[m] = id[k + m]
    BY <1>0, <1>1, <1>3
  <2> QED
    BY <2>1, <2>2
<1>4. ASSUME k <= j PROVE text = <<>> <=> j = k
  <2>1. text = <<>> <=> Len(text) = 0
    BY <1>3, <1>4
  <2> QED
    BY <1>1, <1>3, <1>4, <2>1
<1>5. j \in Ends(id, "deep", k) <=> k <= j /\ text # <<>>
  <2>1. Ends(id, "deep", k) = k + 1 .. L
    BY <1>1 DEF Ends
  <2> QED
    BY <1>1, <1>2, <1>4, <2>1
<1>6. j \in Ends(id, "one", k) <=> k <= j /\ Dotless(text)
  <2>1. Ends(id, "one", k) = {e \in k .. L : \A i \in k + 1 .. e : id[i] # "."}
    BY <1>1 DEF Ends
  <2>2. ASSUME k <= j
        PROVE  (\A i \in k + 1 .. j : id[i] # ".") <=> "." \notin {text[m] : m \in DOMAIN text}
    <3>1. ASSUME NEW i \in k + 1 .. j, id[i] = "." PROVE "." \in {text[m] : m \in DOMAIN text}
      <4>1. i - k \in 1 .. j - k /\ k + (i - k) = i
        BY <1>1, <3>1
      <4>2. i - k \in DOMAIN text /\ text[i - k] = "."
        BY <1>3, <2>2, <3>1, <4>1
      <4> QED
        BY <4>2
    <3>2. ASSUME NEW m \in DOMAIN text, text[m] = "." PROVE \E i \in k + 1 .. j : id[i] = "."
      <4>1. m \in 1 .. j - k /\ k + m \in k + 1 .. j /\ id[k + m] = "."
        <5>1. m \in 1 .. j - k /\ text[m] = id[k + m]
          BY <1>3, <2>2
        <5> QED
          BY <1>1, <2>2, <3>2, <5>1
      <4> QED
        BY <4>1
    <3> QED
      BY <3>1, <3>2
  <2> QED
    BY <1>1, <1>2, <2>1, <2>2 DEF Dotless
<1>7. ASSUME NEW c, c \notin Kinds PROVE j \in Ends(id, c, k) <=> k <= j /\ text = <<c>>
  <2>1. Ends(id, c, k) = {e \in {k + 1} : e <= L /\ id[e] = c}
    BY <1>1, <1>7 DEF Ends, Kinds
  <2>2. ASSUME j = k + 1 PROVE text = <<id[j]>>
    <3>0. k <= j /\ j - k = 1 /\ 1 \in 1 .. j - k /\ k + 1 = j
      BY <1>1, <2>2
    <3>1. Len(text) = 1 /\ text[1] = id[j] /\ text \in Seq(S)
      BY <1>3, <3>0
    <3> QED
      BY <3>1
  <2>3. ASSUME k <= j, text = <<c>> PROVE j = k + 1
    <3>1. Len(<<c>>) = 1
      OBVIOUS
    <3>2. j - k = 1
      BY <1>3, <2>3, <3>1
    <3> QED
      BY <1>1, <3>2
  <2>4. <<id[j]>> = <<c>> <=> id[j] = c
    OBVIOUS
  <2> QED
    BY <1>1, <1>2, <2>1, <2>2, <2>3, <2>4
<1>8. k <= j /\ text = <<>> <=> j = k
  BY <1>1, <1>2, <1>4
<1> QED
  BY <1>0, <1>5, <1>6, <1>7, <1>8

\* A piece before a list of pieces.
LEMMA FirstPiece ==
  ASSUME NEW S, NEW p \in S, NEW s \in Seq(S)
  PROVE  /\ <<p>> \o s \in Seq(S)
         /\ Len(<<p>> \o s) = Len(s) + 1
         /\ (<<p>> \o s)[1] = p
         /\ \A j \in 1 .. Len(s) : (<<p>> \o s)[j + 1] = s[j]
<1>1. <<p>> \in Seq(S) /\ Len(<<p>>) = 1 /\ Len(s) \in Nat
  OBVIOUS
<1>2. <<p>> \o s \in Seq(S)
  BY <1>1, ConcatProperties
<1>3. Len(<<p>> \o s) = 1 + Len(s)
  BY <1>1, ConcatProperties
<1>4. \A j \in 1 .. Len(s) + 1 : (<<p>> \o s)[j] = IF j <= 1 THEN <<p>>[j] ELSE s[j - 1]
  BY <1>1, ConcatProperties
<1>5. ASSUME NEW j \in 1 .. Len(s) PROVE (<<p>> \o s)[j + 1] = s[j]
  <2>1. j + 1 \in 1 .. Len(s) + 1 /\ ~ (j + 1 <= 1) /\ (j + 1) - 1 = j
    BY <1>1
  <2> QED
    BY <1>4, <2>1
<1> QED
  BY <1>1, <1>2, <1>3, <1>4, <1>5

\* The pieces from each character of the pattern on.
PiecesFrom(pattern, from) ==
  from = [i \in 1 .. Len(pattern) + 1 |->
            IF i > Len(pattern) THEN <<>>
            ELSE IF pattern[i] # "*" THEN <<pattern[i]>> \o from[i + 1]
            ELSE IF i < Len(pattern) /\ pattern[i + 1] = "*" THEN <<"deep">> \o from[i + 2]
            ELSE <<"one">> \o from[i + 1]]

\* There are such pieces: they are made from the last character to the first, of the
\* pieces from the next two on.
LEMMA PiecesExist ==
  ASSUME NEW S, Kinds \subseteq S, NEW pattern \in Seq(S)
  PROVE  \E from : PiecesFrom(pattern, from)
<1>1. PICK n \in Nat : n = Len(pattern)
  OBVIOUS
<1> DEFINE St == Seq(S) \X Seq(S)
           At(d) == n + 1 - d
           Next1(s, d) ==
             IF pattern[At(d)] # "*" THEN <<pattern[At(d)]>> \o s[1]
             ELSE IF At(d) < n /\ pattern[At(d) + 1] = "*" THEN <<"deep">> \o s[2]
             ELSE <<"one">> \o s[1]
           Body == [x \in St \X (1 .. n) |-> <<Next1(x[1], x[2]), x[1][1]>>]
           b == <<<<>>, <<>>>>
<1>2. b \in St
  <2>1. <<>> \in Seq(S)
    OBVIOUS
  <2> QED
    BY <2>1
<1>3. ASSUME NEW s \in St, NEW d \in 1 .. n PROVE <<Next1(s, d), s[1]>> \in St
  <2>1. At(d) \in 1 .. n
    OBVIOUS
  <2>2. s[1] \in Seq(S) /\ s[2] \in Seq(S) /\ pattern[At(d)] \in S /\ "deep" \in S /\ "one" \in S
    BY <1>1, <2>1 DEF Kinds
  <2> HIDE DEF At
  <2>3. Next1(s, d) \in Seq(S)
    BY <2>2, FirstPiece
  <2> QED
    BY <2>2, <2>3
<1>4. Body \in [St \X (1 .. n) -> St]
  <2> HIDE DEF St, Next1
  <2>1. \A x \in St \X (1 .. n) : <<Next1(x[1], x[2]), x[1][1]>> \in St
    BY <1>3
  <2> QED
    BY <2>1
<1>5. \A s \in St, d \in 1 .. n : Body[<<s, d>>] = <<Next1(s, d), s[1]>>
  <2> HIDE DEF St, Next1
  <2> QED
    OBVIOUS
<1> HIDE DEF Body, St
<1>6. PICK g \in [0 .. n -> St] : Iterates(g, b, Body, n)
  BY <1>2, <1>4, Iteration
<1> DEFINE from == [i \in 1 .. n + 1 |-> g[n + 1 - i][1]]
<1>7. \A d \in 1 .. n : g[d] = <<Next1(g[d - 1], d), g[d - 1][1]>>
  <2> TAKE d \in 1 .. n
  <2>1. d - 1 \in 0 .. n
    OBVIOUS
  <2>2. g[d - 1] \in St
    BY <1>6, <2>1
  <2> HIDE DEF Next1
  <2> QED
    BY <1>5, <1>6, <2>2 DEF Iterates
<1>8. from[n + 1] = <<>>
  <2>1. g[0] = b
    BY <1>6 DEF Iterates
  <2> QED
    BY <2>1
<1>9. ASSUME NEW i \in 1 .. n
      PROVE  from[i] = IF pattern[i] # "*" THEN <<pattern[i]>> \o from[i + 1]
                       ELSE IF i < n /\ pattern[i + 1] = "*" THEN <<"deep">> \o from[i + 2]
                       ELSE <<"one">> \o from[i + 1]
  <2>1. PICK d \in 1 .. n : d = n + 1 - i
    OBVIOUS
  <2>2. At(d) = i /\ d - 1 = n + 1 - (i + 1)
    BY <2>1
  <2>3. from[i] = g[d][1] /\ from[i + 1] = g[d - 1][1]
    BY <2>1, <2>2
  <2>4. i < n => from[i + 2] = g[d - 1][2]
    <3> SUFFICES ASSUME i < n PROVE from[i + 2] = g[d - 1][2]
      OBVIOUS
    <3>1. PICK e \in 1 .. n : e = d - 1
      BY <2>1
    <3>2. e - 1 = n + 1 - (i + 2) /\ i + 2 \in 1 .. n + 1
      BY <2>1, <3>1
    <3>3. from[i + 2] = g[e - 1][1]
      BY <3>2
    <3>4. g[e] = <<Next1(g[e - 1], e), g[e - 1][1]>>
      BY <1>7
    <3> HIDE DEF from, Next1
    <3> QED
      BY <3>1, <3>3, <3>4
  <2>5. g[d] = <<Next1(g[d - 1], d), g[d - 1][1]>>
    BY <1>7
  <2> HIDE DEF from, At
  <2> QED
    BY <2>2, <2>3, <2>4, <2>5
<1>10. PiecesFrom(pattern, from)
  <2>1. from = [i \in 1 .. n + 1 |-> from[i]]
    OBVIOUS
  <2>2. \A i \in 1 .. n + 1 : i = n + 1 \/ i \in 1 .. n
    OBVIOUS
  <2> HIDE DEF from
  <2> DEFINE R(i) == IF i > n THEN <<>>
                     ELSE IF pattern[i] # "*" THEN <<pattern[i]>> \o from[i + 1]
                     ELSE IF i < n /\ pattern[i + 1] = "*" THEN <<"deep">> \o from[i + 2]
                     ELSE <<"one">> \o from[i + 1]
  <2>3. \A i \in 1 .. n + 1 : from[i] = R(i)
    BY <1>8, <1>9, <2>2
  <2>4. from = [i \in 1 .. n + 1 |-> R(i)]
    <3> HIDE DEF R
    <3> QED
      BY <2>1, <2>3
  <2> QED
    BY <1>1, <2>4 DEF PiecesFrom
<1> QED
  BY <1>10

\* What they are: lists of strings, and each its first piece before the rest.
LEMMA PiecesAre ==
  ASSUME NEW S, Kinds \subseteq S, NEW pattern \in Seq(S), NEW from, PiecesFrom(pattern, from)
  PROVE  /\ \A i \in 1 .. Len(pattern) + 1 : from[i] \in Seq(S)
         /\ from[Len(pattern) + 1] = <<>>
         /\ \A i \in DOMAIN pattern :
              from[i] = IF pattern[i] # "*" THEN <<pattern[i]>> \o from[i + 1]
                        ELSE IF i < Len(pattern) /\ pattern[i + 1] = "*" THEN <<"deep">> \o from[i + 2]
                        ELSE <<"one">> \o from[i + 1]
<1>1. PICK n \in Nat : n = Len(pattern) /\ DOMAIN pattern = 1 .. n
  OBVIOUS
<1>2. from[n + 1] = <<>>
  <2>1. n + 1 \in 1 .. n + 1 /\ n + 1 > n
    OBVIOUS
  <2> QED
    BY <1>1, <2>1 DEF PiecesFrom
<1>3. ASSUME NEW i \in 1 .. n
      PROVE  from[i] = IF pattern[i] # "*" THEN <<pattern[i]>> \o from[i + 1]
                       ELSE IF i < n /\ pattern[i + 1] = "*" THEN <<"deep">> \o from[i + 2]
                       ELSE <<"one">> \o from[i + 1]
  <2>1. i \in 1 .. n + 1 /\ ~ (i > n)
    OBVIOUS
  <2> QED
    BY <1>1, <2>1 DEF PiecesFrom
<1> DEFINE T == {d \in 0 .. n : from[n + 1 - d] \in Seq(S) /\ (d # 0 => from[n + 2 - d] \in Seq(S))}
<1>4. 0 \in T
  <2>1. from[n + 1] \in Seq(S) /\ n + 1 - 0 = n + 1
    BY <1>2
  <2> QED
    BY <2>1
<1>5. ASSUME NEW d \in 0 .. (n - 1), d \in T PROVE d + 1 \in T
  <2>1. PICK i \in 1 .. n : i = n - d
    OBVIOUS
  <2>2. n + 1 - (d + 1) = i /\ n + 2 - (d + 1) = i + 1 /\ n + 1 - d = i + 1 /\ n + 2 - d = i + 2
        /\ d + 1 \in 0 .. n
    BY <2>1
  <2>3. from[i + 1] \in Seq(S) /\ (i < n => from[i + 2] \in Seq(S))
    BY <1>5, <2>1, <2>2
  <2>4. pattern[i] \in S /\ "deep" \in S /\ "one" \in S
    BY <1>1 DEF Kinds
  <2>5. from[i] \in Seq(S)
    <3>1. \A p \in S : <<p>> \o from[i + 1] \in Seq(S)
      BY <2>3, FirstPiece
    <3>2. i < n => \A p \in S : <<p>> \o from[i + 2] \in Seq(S)
      BY <2>3, FirstPiece
    <3> QED
      BY <1>3, <2>4, <3>1, <3>2
  <2> QED
    BY <2>2, <2>3, <2>5
<1> HIDE DEF T
<1>6. 0 .. n \subseteq T
  BY <1>4, <1>5, Induction
<1>7. ASSUME NEW i \in 1 .. n + 1 PROVE from[i] \in Seq(S)
  <2>1. n + 1 - i \in T /\ n + 1 - (n + 1 - i) = i
    BY <1>6
  <2> QED
    BY <2>1 DEF T
<1> QED
  BY <1>1, <1>2, <1>3, <1>7

\* The pieces after the first m are those from character i on.
Remain(from, i, m) ==
  /\ Len(from[1]) = m + Len(from[i])
  /\ \A j \in 1 .. Len(from[i]) : from[1][m + j] = from[i][j]

\* One more piece is taken.
LEMMA OneMorePiece ==
  ASSUME NEW S, NEW from, NEW i, NEW k, NEW m \in Nat, NEW p \in S,
         from[1] \in Seq(S), from[k] \in Seq(S), from[i] = <<p>> \o from[k], Remain(from, i, m)
  PROVE  /\ Remain(from, k, m + 1) /\ from[1][m + 1] = p /\ m + 1 \in 1 .. Len(from[1])
<1>1. PICK rest \in Seq(S) : rest = from[k]
  OBVIOUS
<1>2. /\ Len(from[i]) = Len(rest) + 1 /\ from[i][1] = p
      /\ \A j \in 1 .. Len(rest) : from[i][j + 1] = rest[j]
  BY <1>1, FirstPiece
<1>3. Len(rest) \in Nat /\ Len(from[1]) \in Nat
  BY <1>1
<1>4. from[1][m + 1] = p
  <2>1. 1 \in 1 .. Len(from[i])
    BY <1>2, <1>3
  <2> QED
    BY <1>2, <2>1 DEF Remain
<1>5. ASSUME NEW j \in 1 .. Len(rest) PROVE from[1][(m + 1) + j] = rest[j]
  <2>1. j + 1 \in 1 .. Len(from[i]) /\ m + (j + 1) = (m + 1) + j
    BY <1>2, <1>3
  <2> QED
    BY <1>2, <2>1 DEF Remain
<1>6. Len(from[1]) = (m + 1) + Len(rest)
  <2>1. Len(from[1]) = m + Len(from[i])
    BY DEF Remain
  <2> QED
    BY <1>2, <1>3, <2>1
<1>7. m + 1 \in 1 .. Len(from[1])
  BY <1>3, <1>6
<1> QED
  BY <1>1, <1>4, <1>5, <1>6, <1>7 DEF Remain

\* Where the pieces may end, one after the other, as GlobMatch has it.
ReachedBy(id, pieces, reached) ==
  reached = [n \in 0 .. Len(pieces) |->
               IF n = 0 THEN {0} ELSE UNION {Ends(id, pieces[n], k) : k \in reached[n - 1]}]

LEMMA ReachedExists ==
  ASSUME NEW S, NEW id \in Seq(S), NEW pieces, Len(pieces) \in Nat
  PROVE  \E reached : ReachedBy(id, pieces, reached)
<1>1. PICK n \in Nat : n = Len(pieces)
  OBVIOUS
<1> DEFINE St == SUBSET Nat
           Further(s, d) == UNION {Ends(id, pieces[d], k) : k \in s}
           Body == [x \in St \X (1 .. n) |-> Further(x[1], x[2])]
<1>2. ASSUME NEW s \in St, NEW d \in 1 .. n PROVE Further(s, d) \in St
  <2>1. Len(id) \in Nat
    OBVIOUS
  <2>2. \A k \in s : Ends(id, pieces[d], k) \subseteq Nat
    BY <2>1 DEF Ends
  <2> QED
    BY <2>2
<1> HIDE DEF Further
<1>3. Body \in [St \X (1 .. n) -> St]
  BY <1>2
<1>4. \A s \in St, d \in 1 .. n : Body[<<s, d>>] = Further(s, d)
  OBVIOUS
<1>5. {0} \in St
  OBVIOUS
<1> HIDE DEF Body, St
<1>6. PICK g \in [0 .. n -> St] : Iterates(g, {0}, Body, n)
  BY <1>3, <1>5, Iteration
<1>7. \A d \in 0 .. n : g[d] = IF d = 0 THEN {0} ELSE Further(g[d - 1], d)
  <2> SUFFICES ASSUME NEW d \in 0 .. n, d # 0 PROVE g[d] = Further(g[d - 1], d)
    BY <1>6 DEF Iterates
  <2>1. d \in 1 .. n /\ d - 1 \in 0 .. n
    OBVIOUS
  <2>2. g[d - 1] \in St
    BY <1>6, <2>1
  <2> QED
    BY <1>4, <1>6, <2>1, <2>2 DEF Iterates
<1>8. g = [d \in 0 .. n |-> IF d = 0 THEN {0} ELSE Further(g[d - 1], d)]
  BY <1>6, <1>7
<1>9. ReachedBy(id, pieces, g)
  BY <1>1, <1>8 DEF ReachedBy, Further
<1> QED
  BY <1>9

\* The steps of the two agree: where a piece ends from the ends of the characters
\* before, the character ends.
LEMMA SameEnds ==
  ASSUME NEW pattern, NEW S, NEW id \in Seq(S), NEW i \in Nat \ {0}, NEW p,
         \A k, j \in 0 .. Len(id) :
           j \in Ends(id, p, k) <=> k <= j /\ StandsFor(pattern, i, SubSeq(id, k + 1, j))
  PROVE  UNION {Ends(id, p, k) : k \in CutsTo(pattern, id, i - 1)} = CutsTo(pattern, id, i)
<1> DEFINE C == CutsTo(pattern, id, i - 1)
<1>1. C \subseteq 0 .. Len(id) /\ Len(id) \in Nat
  BY DEF CutsTo
<1>2. CutsTo(pattern, id, i) = {j \in 0 .. Len(id) : \E k \in C :
        k <= j /\ StandsFor(pattern, i, SubSeq(id, k + 1, j))}
  BY CutByCut
<1> HIDE DEF C
<1>3. \A k \in C : Ends(id, p, k) \subseteq 0 .. Len(id)
  BY <1>1 DEF Ends
<1>4. ASSUME NEW j \in UNION {Ends(id, p, k) : k \in C} PROVE j \in CutsTo(pattern, id, i)
  <2>1. PICK k \in C : j \in Ends(id, p, k)
    BY <1>4
  <2>2. j \in 0 .. Len(id) /\ k \in 0 .. Len(id)
    BY <1>1, <1>3, <2>1
  <2> QED
    BY <1>2, <2>1, <2>2
<1>5. ASSUME NEW j \in CutsTo(pattern, id, i) PROVE j \in UNION {Ends(id, p, k) : k \in C}
  <2>1. j \in 0 .. Len(id) /\ \E k \in C : k <= j /\ StandsFor(pattern, i, SubSeq(id, k + 1, j))
    BY <1>2, <1>5
  <2>2. PICK k \in C : k <= j /\ StandsFor(pattern, i, SubSeq(id, k + 1, j))
    BY <2>1
  <2>3. k \in 0 .. Len(id)
    BY <1>1
  <2>4. j \in Ends(id, p, k)
    BY <2>1, <2>2, <2>3
  <2> QED
    BY <2>4
<1> QED
  BY <1>4, <1>5 DEF C

\* A pattern matches just the ids it spells.
THEOREM GlobIsSpelling ==
  ASSUME NEW Chars, Kinds \cap Chars = {}, NEW id \in Seq(Chars), NEW pattern \in Seq(Chars)
  PROVE  GlobMatch(id, pattern) <=> Spells(pattern, id)
<1>1. PICK n \in Nat : n = Len(pattern) /\ DOMAIN pattern = 1 .. n
  OBVIOUS
<1>2. PICK S : S = Chars \cup Kinds
  OBVIOUS
<1>3. pattern \in Seq(S) /\ Kinds \subseteq S /\ \A i \in 1 .. n : pattern[i] \in S /\ pattern[i] \notin Kinds
  <2>1. \A i \in 1 .. n : pattern[i] \in Chars
    BY <1>1
  <2>2. \A i \in 1 .. n : pattern[i] \in S /\ pattern[i] \notin Kinds
    BY <1>2, <2>1
  <2>3. pattern \in Seq(S)
    BY <1>1, <2>2
  <2> QED
    BY <1>2, <2>2, <2>3
<1> DEFINE from == CHOOSE f : PiecesFrom(pattern, f)
           reached == CHOOSE r : ReachedBy(id, from[1], r)
           C(i) == CutsTo(pattern, id, i)
<1>4. PiecesFrom(pattern, from)
  <2>1. \E f : PiecesFrom(pattern, f)
    BY <1>3, PiecesExist
  <2> QED
    BY <2>1
<1>5. Pieces(pattern) = from[1]
  BY DEF Pieces, PiecesFrom
<1> HIDE DEF from
<1>6. /\ \A i \in 1 .. n + 1 : from[i] \in Seq(S)
      /\ from[n + 1] = <<>>
      /\ \A i \in 1 .. n :
           from[i] = IF pattern[i] # "*" THEN <<pattern[i]>> \o from[i + 1]
                     ELSE IF i < n /\ pattern[i + 1] = "*" THEN <<"deep">> \o from[i + 2]
                     ELSE <<"one">> \o from[i + 1]
  <2>1. /\ \A i \in 1 .. Len(pattern) + 1 : from[i] \in Seq(S)
        /\ from[Len(pattern) + 1] = <<>>
        /\ \A i \in DOMAIN pattern :
             from[i] = IF pattern[i] # "*" THEN <<pattern[i]>> \o from[i + 1]
                       ELSE IF i < Len(pattern) /\ pattern[i + 1] = "*" THEN <<"deep">> \o from[i + 2]
                       ELSE <<"one">> \o from[i + 1]
    BY <1>3, <1>4, PiecesAre
  <2> QED
    BY <1>1, <2>1
<1>7. PICK N \in Nat : N = Len(from[1])
  <2>1. 1 \in 1 .. n + 1
    OBVIOUS
  <2> QED
    BY <1>6, <2>1
<1>8. ReachedBy(id, from[1], reached)
  <2>1. \E r : ReachedBy(id, from[1], r)
    BY <1>7, ReachedExists
  <2> QED
    BY <2>1
<1>9. GlobMatch(id, pattern) <=> Len(id) \in reached[N]
  BY <1>5, <1>7 DEF GlobMatch, ReachedBy
<1> HIDE DEF reached
<1>10. /\ reached[0] = {0}
       /\ \A m \in 1 .. N : reached[m] = UNION {Ends(id, from[1][m], k) : k \in reached[m - 1]}
  <2>1. reached = [m \in 0 .. N |->
                     IF m = 0 THEN {0} ELSE UNION {Ends(id, from[1][m], k) : k \in reached[m - 1]}]
    BY <1>7, <1>8 DEF ReachedBy
  <2>2. 0 \in 0 .. N /\ \A m \in 1 .. N : m \in 0 .. N /\ m # 0
    OBVIOUS
  <2> QED
    BY <2>1, <2>2
\* Up to each character the two agree; behind the first star of two, the pieces are
\* a character ahead.
<1> DEFINE After(i) == IF Second(pattern, i) THEN i + 1 ELSE i
           Agree(i) == \E m \in Nat : reached[m] = C(i - 1) /\ Remain(from, After(i), m)
           T == {d \in 0 .. n : Agree(d + 1)}
<1>18. \A k, j \in 0 .. Len(id) :
         /\ j \in Ends(id, "deep", k) <=> k <= j /\ SubSeq(id, k + 1, j) # <<>>
         /\ j \in Ends(id, "one", k) <=> k <= j /\ Dotless(SubSeq(id, k + 1, j))
         /\ \A c : c \notin Kinds => (j \in Ends(id, c, k) <=> k <= j /\ SubSeq(id, k + 1, j) = <<c>>)
         /\ k <= j /\ SubSeq(id, k + 1, j) = <<>> <=> j = k
  BY EndsAre
<1>11. ASSUME NEW i \in 1 .. n + 1
       PROVE  /\ Second(pattern, i) => i \in 1 .. n
              /\ i = 1 => ~ Second(pattern, i)
              /\ i > 1 /\ pattern[i - 1] # "*" => ~ Second(pattern, i)
              /\ i > 1 /\ Second(pattern, i - 1) => ~ Second(pattern, i)
              /\ i > 1 /\ i \in 1 .. n /\ pattern[i - 1] = "*" /\ ~ Second(pattern, i - 1) /\ pattern[i] = "*"
                   => Second(pattern, i)
              /\ i > 1 /\ i \in 1 .. n /\ pattern[i] # "*" => ~ Second(pattern, i)
  <2> DEFINE B(k) == StarsBefore(pattern, k)
  <2>1. i \in Nat \ {0}
    OBVIOUS
  <2>2. /\ B(i) \in Nat
        /\ i = 1 => B(i) = 0
        /\ i > 1 /\ pattern[i - 1] # "*" => B(i) = 0
        /\ i > 1 /\ pattern[i - 1] = "*" => B(i) = B(i - 1) + 1
    BY <2>1, StarsCount
  <2>3. i > 1 => B(i - 1) \in Nat /\ i - 1 \in 1 .. n
    <3> SUFFICES ASSUME i > 1 PROVE B(i - 1) \in Nat /\ i - 1 \in 1 .. n
      OBVIOUS
    <3>1. i - 1 \in Nat \ {0}
      OBVIOUS
    <3> QED
      BY <3>1, StarsCount
  <2> HIDE DEF B
  <2>4. \A k : Second(pattern, k) <=> k \in 1 .. n /\ pattern[k] = "*" /\ B(k) % 2 = 1
    BY <1>1 DEF Second, B
  <2>5. ~ (0 % 2 = 1) /\ \A x \in Nat : (x + 1) % 2 = 1 <=> ~ (x % 2 = 1)
    OBVIOUS
  <2> QED
    BY <2>2, <2>3, <2>4, <2>5
<1>12. 0 \in T
  <2>1. C(0) = {0}
    <3> DEFINE cut == [m \in 0 .. 0 |-> 0]
    <3>1. cut \in [0 .. 0 -> 0 .. Len(id)] /\ cut[0] = 0 /\ 0 \in 0 .. Len(id)
      OBVIOUS
    <3> HIDE DEF cut
    <3>2. 0 \in C(0)
      BY <3>1 DEF CutsTo
    <3>3. C(0) \subseteq {0}
      BY DEF CutsTo
    <3> QED
      BY <3>2, <3>3
  <2>2. After(1) = 1
    BY <1>11
  <2>3. Remain(from, 1, 0)
    BY <1>7 DEF Remain
  <2> HIDE DEF C, After
  <2>4. Agree(1)
    <3>1. 0 \in Nat /\ 1 - 1 = 0
      OBVIOUS
    <3> QED
      BY <1>10, <2>1, <2>2, <2>3, <3>1
  <2> QED
    BY <2>4
<1>13. ASSUME NEW d \in 0 .. (n - 1), d \in T PROVE d + 1 \in T
  <2>1. PICK i \in 1 .. n : i = d + 1
    OBVIOUS
  <2>2. PICK m \in Nat : reached[m] = C(i - 1) /\ Remain(from, After(i), m)
    BY <1>13, <2>1
  <2> HIDE DEF C
  <2>3. SUFFICES Agree(i + 1)
    BY <2>1
  <2>4. i \in Nat \ {0} /\ i + 1 \in 1 .. n + 1 /\ (i + 1) - 1 = i /\ i + 1 > 1
    OBVIOUS
  <2>5. ASSUME ~ Second(pattern, i), NEW p \in S, NEW k \in 1 .. n + 1, from[i] = <<p>> \o from[k],
               k = After(i + 1),
               \A a, b \in 0 .. Len(id) :
                 b \in Ends(id, p, a) <=> a <= b /\ StandsFor(pattern, i, SubSeq(id, a + 1, b))
        PROVE  Agree(i + 1)
    <3>1. After(i) = i
      BY <2>5
    <3>2. from[1] \in Seq(S) /\ from[k] \in Seq(S)
      BY <1>6
    <3>3. Remain(from, k, m + 1) /\ from[1][m + 1] = p /\ m + 1 \in 1 .. N
      <4>1. Remain(from, i, m)
        BY <2>2, <3>1
      <4>2. Remain(from, k, m + 1) /\ from[1][m + 1] = p /\ m + 1 \in 1 .. Len(from[1])
        <5>1. p \in S /\ from[i] = <<p>> \o from[k]
          BY <2>5
        <5> QED
          BY <3>2, <4>1, <5>1, OneMorePiece
      <4> QED
        BY <1>7, <4>2
    <3>4. reached[m + 1] = UNION {Ends(id, p, a) : a \in C(i - 1)}
      <4>1. (m + 1) - 1 = m
        OBVIOUS
      <4>2. reached[m + 1] = UNION {Ends(id, from[1][m + 1], a) : a \in reached[(m + 1) - 1]}
        BY <1>10, <3>3
      <4> QED
        BY <2>2, <3>3, <4>1, <4>2
    <3>5. reached[m + 1] = C(i)
      <4>1. i \in Nat \ {0}
        OBVIOUS
      <4>2. UNION {Ends(id, p, a) : a \in CutsTo(pattern, id, i - 1)} = CutsTo(pattern, id, i)
        BY <2>5, <4>1, SameEnds
      <4> QED
        BY <3>4, <4>2 DEF C
    <3> HIDE DEF After
    <3> QED
      BY <2>4, <2>5, <3>3, <3>5
  <2>6. CASE Second(pattern, i)
    <3>1. After(i) = i + 1 /\ After(i + 1) = i + 1
      BY <1>11, <2>4, <2>6
    <3>2. \A text : StandsFor(pattern, i, text) <=> text = <<>>
      BY <2>6 DEF Second, StandsFor
    <3>3. C(i) = C(i - 1)
      <4>1. C(i - 1) \subseteq 0 .. Len(id)
        BY DEF C, CutsTo
      <4>2. C(i) = {j \in 0 .. Len(id) : \E k \in C(i - 1) :
                      k <= j /\ StandsFor(pattern, i, SubSeq(id, k + 1, j))}
        <5>1. i \in Nat \ {0}
          OBVIOUS
        <5>2. CutsTo(pattern, id, i) =
                {j \in 0 .. Len(id) : \E k \in CutsTo(pattern, id, i - 1) :
                   k <= j /\ StandsFor(pattern, i, SubSeq(id, k + 1, j))}
          BY <5>1, CutByCut
        <5> QED
          BY <5>2 DEF C
      <4>3. \A k, j \in 0 .. Len(id) : k <= j /\ SubSeq(id, k + 1, j) = <<>> <=> j = k
        BY <1>18
      <4>4. ASSUME NEW j \in C(i) PROVE j \in C(i - 1)
        <5>1. j \in 0 .. Len(id) /\ \E k \in C(i - 1) : k <= j /\ StandsFor(pattern, i, SubSeq(id, k + 1, j))
          BY <4>2
        <5>2. PICK k \in C(i - 1) : k <= j /\ StandsFor(pattern, i, SubSeq(id, k + 1, j))
          BY <5>1
        <5>3. SubSeq(id, k + 1, j) = <<>> /\ k \in 0 .. Len(id)
          BY <3>2, <4>1, <5>2
        <5> QED
          BY <4>3, <5>1, <5>2, <5>3
      <4>5. ASSUME NEW j \in C(i - 1) PROVE j \in C(i)
        <5>1. j \in 0 .. Len(id)
          BY <4>1
        <5>2. j <= j /\ SubSeq(id, j + 1, j) = <<>>
          BY <4>3, <5>1
        <5>3. StandsFor(pattern, i, SubSeq(id, j + 1, j))
          BY <3>2, <5>2
        <5> QED
          BY <4>2, <5>1, <5>2, <5>3
      <4> QED
        BY <4>4, <4>5
    <3> HIDE DEF After
    <3> QED
      BY <2>2, <2>4, <3>1, <3>3
  <2>7. CASE pattern[i] # "*"
    <3>1. After(i + 1) = i + 1 /\ ~ Second(pattern, i)
      BY <1>11, <2>4, <2>7 DEF Second
    <3>2. from[i] = <<pattern[i]>> \o from[i + 1]
      BY <1>6, <2>7
    <3>3. \A text : StandsFor(pattern, i, text) <=> text = <<pattern[i]>>
      BY <2>7 DEF StandsFor
    <3>4. \A a, b \in 0 .. Len(id) :
            b \in Ends(id, pattern[i], a) <=> a <= b /\ StandsFor(pattern, i, SubSeq(id, a + 1, b))
      BY <1>3, <1>18, <3>3
    <3> QED
      BY <1>3, <2>4, <2>5, <3>1, <3>2, <3>4
  <2>8. CASE pattern[i] = "*" /\ ~ Second(pattern, i) /\ i < n /\ pattern[i + 1] = "*"
    <3>1. i + 1 \in 1 .. n /\ i + 2 \in 1 .. n + 1 /\ (i + 1) + 1 = i + 2
      BY <2>8
    <3>2. After(i + 1) = i + 2
      BY <1>11, <2>4, <2>8, <3>1
    <3>3. from[i] = <<"deep">> \o from[i + 2]
      BY <1>6, <2>8
    <3>4. \A text : StandsFor(pattern, i, text) <=> text # <<>>
      BY <1>1, <2>8 DEF StandsFor, Second
    <3>5. \A a, b \in 0 .. Len(id) :
            b \in Ends(id, "deep", a) <=> a <= b /\ StandsFor(pattern, i, SubSeq(id, a + 1, b))
      BY <1>18, <3>4
    <3>6. "deep" \in S
      BY <1>3 DEF Kinds
    <3> QED
      BY <2>5, <2>8, <3>1, <3>2, <3>3, <3>5, <3>6
  <2>9. CASE pattern[i] = "*" /\ ~ Second(pattern, i) /\ ~ (i < n /\ pattern[i + 1] = "*")
    <3>1. After(i + 1) = i + 1
      BY <1>11, <2>4, <2>9
    <3>2. from[i] = <<"one">> \o from[i + 1]
      BY <1>6, <2>9
    <3>3. \A text : StandsFor(pattern, i, text) <=> Dotless(text)
      BY <1>1, <2>9 DEF StandsFor, Second, Dotless
    <3>4. \A a, b \in 0 .. Len(id) :
            b \in Ends(id, "one", a) <=> a <= b /\ StandsFor(pattern, i, SubSeq(id, a + 1, b))
      BY <1>18, <3>3
    <3>5. "one" \in S
      BY <1>3 DEF Kinds
    <3> QED
      BY <2>4, <2>5, <2>9, <3>1, <3>2, <3>4, <3>5
  <2> QED
    BY <2>6, <2>7, <2>8, <2>9
<1> HIDE DEF T
<1>14. 0 .. n \subseteq T
  BY <1>12, <1>13, Induction
<1>15. Agree(n + 1)
  BY <1>14 DEF T
<1>16. reached[N] = C(n)
  <2>1. n + 1 \in 1 .. n + 1 /\ (n + 1) - 1 = n
    OBVIOUS
  <2>2. After(n + 1) = n + 1
    BY <1>11, <2>1
  <2>3. PICK m \in Nat : reached[m] = C(n) /\ Remain(from, n + 1, m)
    <3> HIDE DEF C, After
    <3> QED
      BY <1>15, <2>1, <2>2
  <2>4. m = N
    BY <1>6, <1>7, <2>3 DEF Remain
  <2> QED
    BY <2>3, <2>4
<1>17. Spells(pattern, id) <=> Len(id) \in C(n)
  <2>1. Len(id) \in 0 .. Len(id)
    OBVIOUS
  <2> QED
    BY <1>1, <2>1 DEF Spells, CutsTo
<1> QED
  BY <1>9, <1>16, <1>17

\* A pattern exposes or hides just the ids it spells.
THEOREM GlobsMeanWhatTheySpell == CSpec => []GlobsAsDocumented
<1>1. CatalogueInv => GlobsAsDocumented
  <2> SUFFICES ASSUME CatalogueInv,
                      NEW id \in ToSet(RegisteredIds(registry)), NEW p \in filter.include \cup filter.exclude
               PROVE  GlobMatch(id, p) <=> Spells(p, id)
    BY DEF GlobsAsDocumented
  <2> DEFINE Chars == DOMAIN Rank \cup {"*"}
  <2>1. registry \in Registries /\ filter \in Filters
    BY DEF CatalogueInv
  <2>2. p \in Seq(Chars) /\ Kinds \cap Chars = {}
    BY <2>1, CatalogueAssumption DEF Kinds
  <2>3. id \in Seq(Chars)
    <3>1. registry.registered \in Seq(Modules)
      BY <2>1, CatalogueAssumption
    <3>2. \A i \in DOMAIN registry.registered : registry.registered[i].id \in Text
      <4>1. \A i \in DOMAIN registry.registered : registry.registered[i] \in Modules
        BY <3>1
      <4> QED
        BY <4>1 DEF Modules
    <3>3. id \in Text
      BY <3>2 DEF ToSet, RegisteredIds
    <3>4. Len(id) \in Nat /\ DOMAIN id = 1 .. Len(id) /\ id = [i \in 1 .. Len(id) |-> id[i]]
          /\ \A i \in 1 .. Len(id) : id[i] \in Chars
      BY <3>3 DEF Text
    <3> QED
      BY <3>4
  <2> HIDE DEF Chars
  <2> QED
    BY <2>2, <2>3, GlobIsSpelling
<1> QED
  BY <1>1, CatalogueInvariant, PTL
=============================================================================
