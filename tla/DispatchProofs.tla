--------------------------- MODULE DispatchProofs ---------------------------
(***************************************************************************)
(* Proofs about Dispatch for every set of invocations.  GateInv is         *)
(* inductive; the safety and action properties follow from it.  So is      *)
(* OutcomeInv under GateInv: what the caller and the reader of the log may *)
(* conclude of a call, and that Dispatch implements GatedExecution.        *)
(***************************************************************************)
EXTENDS Dispatch, TLAPS

\* What AuditLogger::append leaves behind is a log again.
LEMMA AppendedType ==
  ASSUME log \in Seq(Records), NEW r \in Records
  PROVE  \A l \in Appended(r) : l \in Seq(Records)
BY DEF Appended

\* The records written by audit_log_entry and by the ACL callback are records.
LEMMA RecordTypes ==
  /\ \A code \in Int : ExecRecord(code) \in Records
  /\ \A d : AclRecord(d) \in Records
BY DEF ExecRecord, AclRecord, Records

\* The same for the record of one ACL decision.
LEMMA AclLoggedType ==
  ASSUME log \in Seq(Records), NEW d
  PROVE  \A l \in AclLogged(d) : l \in Seq(Records)
BY AppendedType, RecordTypes DEF AclLogged

\* The ACL answers with one of three decisions.
LEMMA DecisionsType ==
  ASSUME inv \in InvocationSpace
  PROVE  Decisions(inv) \subseteq {"deny", "allow", "approve"}
BY DEF Decisions, InvocationSpace

\* Every process starts in the invariant.
LEMMA GateInvInit == Init => GateInv
<1> SUFFICES ASSUME Init PROVE GateInv
  OBVIOUS
<1>1. inv \in InvocationSpace /\ (inv.kind # "native" => inv.ann = "optional")
  BY InvocationsAssumption DEF Init
<1>2. TypeOK
  <2>1. log \in Seq(Records)
    BY DEF Init
  <2>2. exit \in Int /\ result \in ModuleErrorCodes \cup {NoExit, Success}
    BY DEF Init, NoExit
  <2>3. effects \in 0..1 /\ pc \in Stages
    BY DEF Init, Stages
  <2>4. consented \in BOOLEAN /\ printed \in BOOLEAN
    BY Zenon DEF Init
  <2>5. /\ decision \in {"unasked", "deny", "allow", "approve"}
        /\ body \in {"idle", "running", "ended", "killed"}
    BY DEF Init
  <2> QED
    BY <1>1, <2>1, <2>2, <2>3, <2>4, <2>5 DEF TypeOK
<1>3. EnteredAuthorized /\ BodyStages /\ GateStages
  BY DEF Init, EnteredAuthorized, BodyStages, GateStages
<1> QED
  BY <1>1, <1>2, <1>3 DEF GateInv

\* Every action keeps the types.
LEMMA TypeStep == TypeOK /\ [Next]_vars => TypeOK'
<1> SUFFICES ASSUME TypeOK, [Next]_vars PROVE TypeOK'
  OBVIOUS
<1> USE DEF TypeOK, Stages, Goto, Exit, Refuse, Fail, NoExit, Killed, Success,
        ExecuteError, InvalidInput, NotFound, SchemaInvalid, ApprovalDenied,
        AclDenied, Panicked, Interrupted, ModuleErrorCodes
<1>1. CASE ValidateId
  BY <1>1 DEF ValidateId
<1>2. CASE LookUp
  BY <1>2 DEF LookUp
<1>3. CASE CollectInput
  BY <1>3 DEF CollectInput
<1>4. CASE Preflight
  <2>1. log' \in Seq(Records)
    BY <1>4, AclLoggedType DEF Preflight
  <2> QED
    BY <1>4, <2>1 DEF Preflight
<1>5. CASE ValidateSchema
  BY <1>5 DEF ValidateSchema
<1>6. CASE AclGate
  <2>1. log' \in Seq(Records)
    BY <1>6, AclLoggedType DEF AclGate
  <2>2. decision' \in {"unasked", "deny", "allow", "approve"}
    BY <1>6, DecisionsType DEF AclGate
  <2> QED
    BY <1>6, <2>1, <2>2 DEF AclGate
<1>7. CASE ApprovalGate
  <2>1. consented' \in BOOLEAN
    BY <1>7, Zenon DEF ApprovalGate
  <2> QED
    BY <1>7, <2>1 DEF ApprovalGate
<1>8. CASE PromptAnswered
  <2>1. consented' \in BOOLEAN
    BY <1>8, Zenon DEF PromptAnswered
  <2> QED
    BY <1>8, <2>1 DEF PromptAnswered
<1>9. CASE PromptTimeout
  BY <1>9 DEF PromptTimeout
<1>10. CASE LaunchScript
  BY <1>10 DEF LaunchScript, Path, Bypasses
<1>11. CASE LaunchSandbox
  <2>1. log' \in Seq(Records)
    BY <1>11, AclLoggedType DEF LaunchSandbox
  <2>2. decision' \in {"unasked", "deny", "allow", "approve"}
    BY <1>11, DecisionsType DEF LaunchSandbox
  <2> QED
    BY <1>11, <2>1, <2>2 DEF LaunchSandbox
<1>12. CASE EnterPipeline
  <2>1. log' \in Seq(Records)
    BY <1>12, AclLoggedType DEF EnterPipeline
  <2>2. decision' \in {"unasked", "deny", "allow", "approve"}
    BY <1>12, DecisionsType DEF EnterPipeline
  <2> QED
    BY <1>12, <2>1, <2>2, SMTT(30) DEF EnterPipeline
<1>13. CASE PipelineApproval
  <2>1. consented' \in BOOLEAN
    BY <1>13, Zenon DEF PipelineApproval
  <2> QED
    BY <1>13, <2>1 DEF PipelineApproval
<1>14. CASE PipelinePromptAnswered
  <2>1. consented' \in BOOLEAN
    BY <1>14, Zenon DEF PipelinePromptAnswered
  <2> QED
    BY <1>14, <2>1 DEF PipelinePromptAnswered
<1>15. CASE PipelinePromptTimeout
  BY <1>15 DEF PipelinePromptTimeout
<1>16. CASE RunInProcess
  BY <1>16 DEF RunInProcess
<1>17. CASE BodyTakesEffect
  BY <1>17 DEF BodyTakesEffect
<1>18. CASE BodyEnds
  BY <1>18 DEF BodyEnds
<1>19. CASE BodyObserved
  BY <1>19 DEF BodyObserved
<1>20. CASE BodyAbandoned
  BY <1>20 DEF BodyAbandoned
<1>21. CASE Cancel
  BY <1>21 DEF Cancel
<1>22. CASE Die
  BY <1>22 DEF Die
<1>23. CASE PrintResult
  <2>1. printed' \in BOOLEAN
    BY <1>23, Zenon DEF PrintResult
  <2> QED
    BY <1>23, <2>1 DEF PrintResult
<1>24. CASE Audit
  <2>1. log' \in Seq(Records)
    BY <1>24, AppendedType, RecordTypes DEF Audit
  <2> QED
    BY <1>24, <2>1 DEF Audit
<1>25. CASE ReportError
  BY <1>25 DEF ReportError
<1>26. CASE UNCHANGED vars
  BY <1>26 DEF vars
<1> QED
  BY <1>1, <1>2, <1>3, <1>4, <1>5, <1>6, <1>7, <1>8, <1>9, <1>10, <1>11, <1>12, <1>13, <1>14, <1>15, <1>16, <1>17, <1>18, <1>19, <1>20, <1>21, <1>22, <1>23, <1>24, <1>25, <1>26
  DEF Next, Gates, Execution, Reporting, UserAnswers, ModuleCode, Signals

\* Every action keeps what the gates have established.
LEMMA GateInvStep == GateInv /\ [Next]_vars => GateInv'
<1> SUFFICES ASSUME GateInv, [Next]_vars PROVE GateInv'
  OBVIOUS
<1> DEFINE Rest == EnteredAuthorized /\ BodyStages /\ GateStages
<1>t. TypeOK /\ TypeOK'
  BY TypeStep DEF GateInv
<1>a. (inv.kind # "native" => inv.ann = "optional") /\ Rest
  BY DEF GateInv
<1>i. inv' = inv
  BY DEF Next, vars, Gates, Execution, Reporting, UserAnswers, ModuleCode, Signals, ValidateId,
    LookUp, CollectInput, Preflight, ValidateSchema, AclGate, ApprovalGate,
    PromptAnswered, PromptTimeout, LaunchScript, LaunchSandbox, EnterPipeline,
    PipelineApproval, PipelinePromptAnswered, PipelinePromptTimeout, RunInProcess,
    BodyTakesEffect, BodyEnds, BodyObserved, BodyAbandoned, Cancel, Die, PrintResult,
    Audit, ReportError
<1> USE <1>t, <1>a, <1>i DEF EnteredAuthorized, BodyStages, GateStages, AclPassed,
        ConsentGiven, PolicyNeedsApproval, DirectNeedsApproval,
        Goto, Exit, Refuse, Fail, NoExit, Killed, Success, ExecuteError, InvalidInput,
        NotFound, SchemaInvalid, ApprovalDenied, AclDenied, Panicked, Interrupted,
        ModuleErrorCodes
<1>1. ASSUME ValidateId PROVE Rest'
  BY <1>1 DEF ValidateId
<1>2. ASSUME LookUp PROVE Rest'
  BY <1>2 DEF LookUp
<1>3. ASSUME CollectInput PROVE Rest'
  BY <1>3 DEF CollectInput
<1>4. ASSUME Preflight PROVE Rest'
  BY <1>4 DEF Preflight
<1>5. ASSUME ValidateSchema PROVE Rest'
  BY <1>5 DEF ValidateSchema
<1>6. ASSUME AclGate PROVE Rest'
  BY <1>6, DecisionsType DEF AclGate, TypeOK
<1>7. ASSUME ApprovalGate PROVE Rest'
  BY <1>7 DEF ApprovalGate
<1>8. ASSUME PromptAnswered PROVE Rest'
  BY <1>8 DEF PromptAnswered
<1>9. ASSUME PromptTimeout PROVE Rest'
  BY <1>9 DEF PromptTimeout
<1>10. ASSUME LaunchScript PROVE Rest'
  BY <1>10 DEF LaunchScript, Path, Bypasses
<1>11. ASSUME LaunchSandbox PROVE Rest'
  BY <1>11, DecisionsType DEF LaunchSandbox, TypeOK, Path, CanAct
<1>12. ASSUME EnterPipeline PROVE Rest'
  BY <1>12, DecisionsType DEF EnterPipeline, TypeOK
<1>13. ASSUME PipelineApproval PROVE Rest'
  BY <1>13 DEF PipelineApproval
<1>14. ASSUME PipelinePromptAnswered PROVE Rest'
  BY <1>14 DEF PipelinePromptAnswered
<1>15. ASSUME PipelinePromptTimeout PROVE Rest'
  BY <1>15 DEF PipelinePromptTimeout
<1>16. ASSUME RunInProcess PROVE Rest'
  BY <1>16 DEF RunInProcess
<1>17. ASSUME BodyTakesEffect PROVE Rest'
  BY <1>17 DEF BodyTakesEffect
<1>18. ASSUME BodyEnds PROVE Rest'
  BY <1>18 DEF BodyEnds
<1>19. ASSUME BodyObserved PROVE Rest'
  BY <1>19 DEF BodyObserved
<1>20. ASSUME BodyAbandoned PROVE Rest'
  BY <1>20 DEF BodyAbandoned
<1>21. ASSUME Cancel PROVE Rest'
  BY <1>21 DEF Cancel
<1>22. ASSUME Die PROVE Rest'
  BY <1>22 DEF Die
<1>23. ASSUME PrintResult PROVE Rest'
  BY <1>23 DEF PrintResult
<1>24. ASSUME Audit PROVE Rest'
  BY <1>24 DEF Audit
<1>25. ASSUME ReportError PROVE Rest'
  BY <1>25 DEF ReportError
<1>26. ASSUME UNCHANGED vars PROVE Rest'
  BY <1>26 DEF vars
<1>r. Rest'
  BY <1>1, <1>2, <1>3, <1>4, <1>5, <1>6, <1>7, <1>8, <1>9, <1>10, <1>11, <1>12, <1>13, <1>14, <1>15, <1>16, <1>17, <1>18, <1>19, <1>20, <1>21, <1>22, <1>23, <1>24, <1>25, <1>26
  DEF Next, Gates, Execution, Reporting, UserAnswers, ModuleCode, Signals
<1> QED
  BY <1>r DEF GateInv

\* Of every set of invocations: the gates' answers hold at every stage.
THEOREM GateInvariant == Spec => []GateInv
<1>1. Init => GateInv
  BY GateInvInit
<1>2. GateInv /\ [Next]_vars => GateInv'
  BY GateInvStep
<1> QED
  BY <1>1, <1>2, PTL DEF Spec

\* Every reachable state has the declared types.
THEOREM TypeCorrect == Spec => []TypeOK
<1>1. GateInv => TypeOK
  BY DEF GateInv
<1> QED
  BY <1>1, GateInvariant, PTL

\* Module code takes effect only with the ACL's permission and the approval the
\* policy asks for, whichever flags and whichever of the three paths.
THEOREM EffectIsAuthorized == Spec => []AuthorizedEffect
<1>1. GateInv => AuthorizedEffect
  BY DEF GateInv, TypeOK, AuthorizedEffect, EnteredAuthorized, BodyStages, AclPassed,
         ConsentGiven
<1> QED
  BY <1>1, GateInvariant, PTL

\* A process that exited by itself leaves no module code behind that could
\* still act, and a killed one leaves none of its own.
THEOREM NoEffectAfterExit == Spec => NothingAfterExit
<1> DEFINE Quiet == exit # NoExit /\ (exit # Killed \/ Path(inv) = "pipeline")
                      => UNCHANGED effects
<1>1. GateInv /\ [Next]_vars => [Quiet]_vars
  <2> SUFFICES ASSUME GateInv, Next PROVE Quiet
    BY DEF vars
  <2>1. CASE BodyTakesEffect
    BY <2>1 DEF BodyTakesEffect, GateInv, BodyStages
  <2>2. CASE ~BodyTakesEffect
    BY <2>2 DEF Next, Gates, Execution, Reporting, UserAnswers, ModuleCode, Signals, ValidateId,
      LookUp, CollectInput, Preflight, ValidateSchema, AclGate, ApprovalGate,
      PromptAnswered, PromptTimeout, LaunchScript, LaunchSandbox, EnterPipeline,
      PipelineApproval, PipelinePromptAnswered, PipelinePromptTimeout, RunInProcess,
      BodyEnds, BodyObserved, BodyAbandoned, Cancel, Die, PrintResult, Audit,
      ReportError
  <2> QED
    BY <2>1, <2>2
<1> QED
  BY <1>1, GateInvariant, PTL DEF Spec, NothingAfterExit

\* The answers module code was entered under are never revised behind its back.
THEOREM AnswersAreFinal == Spec => GatesComeFirst
<1> DEFINE Final == body # "idle" => UNCHANGED <<decision, consented>>
<1>1. GateInv /\ [Next]_vars => [Final]_vars
  <2> SUFFICES ASSUME GateInv, Next, body # "idle"
               PROVE  UNCHANGED <<decision, consented>>
    BY DEF vars
  <2>1. pc \in {"race", "print", "audit", "report", "done"}
    BY DEF GateInv, BodyStages
  <2> QED
    BY <2>1 DEF Next, Gates, Execution, Reporting, UserAnswers, ModuleCode, Signals, ValidateId,
      LookUp, CollectInput, Preflight, ValidateSchema, AclGate, ApprovalGate,
      PromptAnswered, PromptTimeout, LaunchScript, LaunchSandbox, EnterPipeline,
      PipelineApproval, PipelinePromptAnswered, PipelinePromptTimeout, RunInProcess,
      BodyTakesEffect, BodyEnds, BodyObserved, BodyAbandoned, Cancel, Die,
      PrintResult, Audit, ReportError
<1> QED
  BY <1>1, GateInvariant, PTL DEF Spec, GatesComeFirst

-----------------------------------------------------------------------------
(* What a call has earned: OutcomeInv.                                     *)


\* A record appended is the last one, and the earlier ones stay where they are.
LEMMA AppendedLast ==
  ASSUME log \in Seq(Records), NEW r \in Records
  PROVE  /\ DOMAIN log = 1 .. Len(log) /\ Len(log) \in Nat
         /\ DOMAIN Append(log, r) = 1 .. Len(log) + 1
         /\ Len(Append(log, r)) = Len(log) + 1
         /\ Append(log, r)[Len(log) + 1] = r
         /\ \A k \in 1 .. Len(log) : Append(log, r)[k] = log[k]
OBVIOUS

\* After a decision the log is as it was, or ends with the decision's record;
\* a working log that is asked for permissions has those.
LEMMA DecisionAppended ==
  ASSUME TypeOK, NEW d \in {"deny", "allow", "approve"}, log' \in AclLogged(d)
  PROVE  /\ log' \in {log, Append(log, AclRecord(d))}
         /\ d # "deny" /\ inv.aclAudit # "off" /\ inv.audit = "on"
              => log' = Append(log, AclRecord("allow"))
  <1>1. inv.aclAudit \in {"off", "allowed", "all"} /\ inv.audit \in {"off", "on", "faulty"}
    BY DEF TypeOK, InvocationSpace
  <1>2. \A r : Appended(r) \subseteq {log, Append(log, r)}
    BY <1>1 DEF Appended
  <1>3. log' \in {log, Append(log, AclRecord(d))}
    BY <1>2 DEF AclLogged
  <1>4. ASSUME d # "deny", inv.aclAudit # "off", inv.audit = "on"
        PROVE  log' = Append(log, AclRecord("allow"))
    <2>1. AclRecord(d) = AclRecord("allow")
      BY <1>4 DEF AclRecord
    <2>2. AclLogged(d) = Appended(AclRecord(d))
      BY <1>1, <1>4 DEF AclLogged
    <2>3. Appended(AclRecord(d)) = {Append(log, AclRecord(d))}
      BY <1>4 DEF Appended
    <2> QED
      BY <2>1, <2>2, <2>3
  <1> QED
    BY <1>3, <1>4

\* A step that logs nothing, or one decision, keeps a log of decisions.
LEMMA DecisionsOnly ==
  ASSUME TypeOK, NEW d \in {"deny", "allow", "approve"}, log' \in AclLogged(d),
         \A k \in DOMAIN log : log[k].kind = "acl"
  PROVE  \A k \in DOMAIN log' : log'[k].kind = "acl"
<1>1. AclRecord(d) \in Records /\ AclRecord(d).kind = "acl"
  BY RecordTypes DEF AclRecord
<1>2. CASE log' = log
  BY <1>2
<1>3. CASE log' = Append(log, AclRecord(d))
  <2>1. log \in Seq(Records)
    BY DEF TypeOK
  <2> QED
    BY <1>1, <1>3, <2>1, AppendedLast
<1> QED
  BY <1>2, <1>3, DecisionAppended

\* The permission a working log was asked to record is its last decision.
LEMMA PermissionIsLast ==
  ASSUME TypeOK, NEW d \in {"allow", "approve"}, log' \in AclLogged(d),
         inv.aclAudit # "off", inv.audit = "on"
  PROVE  \E k \in DOMAIN log' :
           /\ log'[k] = AclRecord("allow")
           /\ \A j \in k + 1 .. Len(log') : log'[j].kind = "exec"
<1>1. log' = Append(log, AclRecord("allow"))
  BY DecisionAppended
<1>2. AclRecord("allow") \in Records /\ log \in Seq(Records)
  BY RecordTypes DEF TypeOK
<1>3. /\ Len(log) + 1 \in DOMAIN log' /\ Len(log') = Len(log) + 1 /\ Len(log) \in Nat
      /\ log'[Len(log) + 1] = AclRecord("allow")
  BY <1>1, <1>2, AppendedLast
<1> QED
  BY <1>3

\* No process has an outcome when it starts.
LEMMA OutcomeInit == Init => OutcomeInv
BY DEF Init, OutcomeInv, OutcomeStages, LogStages, RefusalIsInert, SuccessMeansDone,
       ExecRecordsTrue, NoExit, Success, InvalidInput, NotFound, SchemaInvalid,
       ApprovalDenied, AclDenied

\* Every action keeps what the outcomes and the log say.
LEMMA OutcomeStep == GateInv /\ OutcomeInv /\ [Next]_vars => OutcomeInv'
<1> SUFFICES ASSUME GateInv, OutcomeInv, [Next]_vars PROVE OutcomeInv'
  OBVIOUS
<1>t. TypeOK /\ BodyStages
  BY DEF GateInv
<1>i. inv' = inv
  BY DEF Next, vars, Gates, Execution, Reporting, UserAnswers, ModuleCode, Signals, ValidateId,
    LookUp, CollectInput, Preflight, ValidateSchema, AclGate, ApprovalGate,
    PromptAnswered, PromptTimeout, LaunchScript, LaunchSandbox, EnterPipeline,
    PipelineApproval, PipelinePromptAnswered, PipelinePromptTimeout, RunInProcess,
    BodyTakesEffect, BodyEnds, BodyObserved, BodyAbandoned, Cancel, Die, PrintResult,
    Audit, ReportError
<1>l. log \in Seq(Records) /\ effects \in 0..1
  BY <1>t DEF TypeOK
<1> USE <1>t, <1>i, <1>l DEF OutcomeInv, OutcomeStages, LogStages, RefusalIsInert,
        SuccessMeansDone, ExecRecordsTrue, BodyStages, RaceStages, Goto, Exit, Refuse, Fail,
        NoExit, Killed, Success, ExecuteError, InvalidInput, NotFound, SchemaInvalid,
        ApprovalDenied, AclDenied, Panicked, Interrupted, ModuleErrorCodes
<1>1. ASSUME ValidateId PROVE OutcomeInv'
  BY <1>1 DEF ValidateId
<1>2. ASSUME LookUp PROVE OutcomeInv'
  BY <1>2 DEF LookUp
<1>3. ASSUME CollectInput PROVE OutcomeInv'
  BY <1>3 DEF CollectInput
<1>4. ASSUME ValidateSchema PROVE OutcomeInv'
  BY <1>4 DEF ValidateSchema
<1>5. ASSUME ApprovalGate PROVE OutcomeInv'
  BY <1>5 DEF ApprovalGate
<1>6. ASSUME PromptAnswered PROVE OutcomeInv'
  BY <1>6 DEF PromptAnswered
<1>7. ASSUME PromptTimeout PROVE OutcomeInv'
  BY <1>7 DEF PromptTimeout
<1>8. ASSUME LaunchScript PROVE OutcomeInv'
  BY <1>8 DEF LaunchScript
<1>9. ASSUME PipelineApproval PROVE OutcomeInv'
  BY <1>9 DEF PipelineApproval
<1>10. ASSUME PipelinePromptAnswered PROVE OutcomeInv'
  BY <1>10 DEF PipelinePromptAnswered
<1>11. ASSUME PipelinePromptTimeout PROVE OutcomeInv'
  BY <1>11 DEF PipelinePromptTimeout
<1>12. ASSUME RunInProcess PROVE OutcomeInv'
  BY <1>12 DEF RunInProcess
<1>13. ASSUME BodyTakesEffect PROVE OutcomeInv'
  BY <1>13 DEF BodyTakesEffect
<1>14. ASSUME BodyEnds PROVE OutcomeInv'
  BY <1>14 DEF BodyEnds
<1>15. ASSUME BodyObserved PROVE OutcomeInv'
  BY <1>15 DEF BodyObserved
<1>16. ASSUME BodyAbandoned PROVE OutcomeInv'
  BY <1>16 DEF BodyAbandoned
<1>17. ASSUME Cancel PROVE OutcomeInv'
  BY <1>17 DEF Cancel
<1>18. ASSUME Die PROVE OutcomeInv'
  BY <1>18 DEF Die
<1>19. ASSUME PrintResult PROVE OutcomeInv'
  BY <1>19 DEF PrintResult
<1>20. ASSUME ReportError PROVE OutcomeInv'
  BY <1>20 DEF ReportError
<1>21. ASSUME UNCHANGED vars PROVE OutcomeInv'
  BY <1>21 DEF vars
<1>22. ASSUME Preflight PROVE OutcomeInv'
  <2>1. \A k \in DOMAIN log' : log'[k].kind = "acl"
    BY <1>22, DecisionsOnly DEF Preflight
  <2> QED
    BY <1>22, <2>1 DEF Preflight
<1>23. ASSUME AclGate PROVE OutcomeInv'
  <2>1. CASE ~(Bypasses(inv) /\ inv.acl # "none")
    BY <1>23, <2>1 DEF AclGate
  <2>2. CASE Bypasses(inv) /\ inv.acl # "none"
    <3>1. PICK d \in {"deny", "allow", "approve"} :
            decision' = d /\ log' \in AclLogged(d)
            /\ (IF d = "deny" THEN Refuse(AclDenied) ELSE Goto("approval"))
      BY <1>23, <2>2, DecisionsType DEF AclGate, TypeOK
    <3>2. \A k \in DOMAIN log' : log'[k].kind = "acl"
      BY <1>23, <3>1, DecisionsOnly DEF AclGate
    <3>3. LogStages'
      BY <3>1, <3>2, PermissionIsLast
    <3> QED
      BY <1>23, <3>1, <3>2, <3>3 DEF AclGate
  <2> QED
    BY <2>1, <2>2
<1>24. ASSUME LaunchSandbox PROVE OutcomeInv'
  <2>1. CASE inv.acl = "none" /\ body' = "running" /\ Goto("race")
             /\ UNCHANGED <<decision, result, log>>
    BY <1>24, <2>1 DEF LaunchSandbox
  <2>2. CASE \E d \in Decisions(inv) :
               /\ decision' = d
               /\ log' \in AclLogged(d)
               /\ IF d = "deny"
                    THEN Fail(ExecuteError) /\ UNCHANGED body
                    ELSE body' = "running" /\ Goto("race") /\ UNCHANGED result
    <3>1. PICK d \in {"deny", "allow", "approve"} :
            /\ decision' = d /\ log' \in AclLogged(d)
            /\ IF d = "deny"
                 THEN Fail(ExecuteError) /\ UNCHANGED body
                 ELSE body' = "running" /\ Goto("race") /\ UNCHANGED result
      BY <2>2, DecisionsType DEF TypeOK
    <3>2. \A k \in DOMAIN log' : log'[k].kind = "acl"
      BY <1>24, <3>1, DecisionsOnly DEF LaunchSandbox
    <3>3. LogStages'
      BY <3>1, <3>2, PermissionIsLast
    <3> QED
      BY <1>24, <3>1, <3>2, <3>3 DEF LaunchSandbox
  <2> QED
    BY <1>24, <2>1, <2>2 DEF LaunchSandbox
<1>25. ASSUME EnterPipeline PROVE OutcomeInv'
  <2>1. CASE UNCHANGED <<decision, log>>
    BY <1>25, <2>1 DEF EnterPipeline
  <2>2. CASE \E d \in Decisions(inv) :
               /\ decision' = d
               /\ log' \in AclLogged(d)
               /\ IF d = "deny" THEN Fail(AclDenied)
                  ELSE Goto("pipe_approval") /\ UNCHANGED result
    <3>1. PICK d \in {"deny", "allow", "approve"} :
            /\ decision' = d /\ log' \in AclLogged(d)
            /\ IF d = "deny" THEN Fail(AclDenied)
               ELSE Goto("pipe_approval") /\ UNCHANGED result
      BY <2>2, DecisionsType DEF TypeOK
    <3>2. \A k \in DOMAIN log' : log'[k].kind = "acl"
      BY <1>25, <3>1, DecisionsOnly DEF EnterPipeline
    <3>3. LogStages'
      BY <3>1, <3>2, PermissionIsLast
    <3> QED
      BY <1>25, <3>1, <3>2, <3>3 DEF EnterPipeline
  <2> QED
    BY <1>25, <2>1, <2>2 DEF EnterPipeline
<1>26. ASSUME Audit PROVE OutcomeInv'
  <2> DEFINE rec == ExecRecord(result)
  <2>1. rec \in Records /\ rec.kind = "exec" /\ rec.code = result
        /\ (rec.status = "success" => result = Success)
    BY RecordTypes DEF ExecRecord, TypeOK
  <2>2. inv.audit \in {"off", "on", "faulty"}
    BY DEF TypeOK, InvocationSpace
  <2>3. log' \in {log, Append(log, rec)} /\ (inv.audit = "on" => log' = Append(log, rec))
    BY <1>26, <2>2 DEF Audit, Appended
  <2>4. /\ UNCHANGED <<decision, consented, body, effects, result, printed>>
        /\ IF result = Success THEN Exit(Success) ELSE Goto("report")
        /\ pc = "audit" /\ exit = NoExit /\ result # NoExit
    BY <1>26 DEF Audit
  <2>5. /\ DOMAIN log = 1 .. Len(log) /\ Len(log) \in Nat
        /\ DOMAIN Append(log, rec) = 1 .. Len(log) + 1
        /\ Len(Append(log, rec)) = Len(log) + 1
        /\ Append(log, rec)[Len(log) + 1] = rec
        /\ \A k \in 1 .. Len(log) : Append(log, rec)[k] = log[k]
    BY <2>1, AppendedLast
  <2>6. \A k \in DOMAIN log : log[k].kind = "acl"
    BY <2>4
  <2> HIDE DEF rec
  <2>7. LogStages'
    <3> SUFFICES ASSUME decision \in {"allow", "approve"}, inv.aclAudit # "off", inv.audit = "on"
                 PROVE  \E k \in DOMAIN log' :
                          /\ log'[k] = AclRecord("allow")
                          /\ \A j \in k + 1 .. Len(log') : log'[j].kind = "exec"
      BY <2>4
    <3>1. log' = Append(log, rec)
      BY <2>3
    <3>2. PICK k \in DOMAIN log : /\ log[k] = AclRecord("allow")
                                 /\ \A j \in k + 1 .. Len(log) : log[j].kind = "exec"
      OBVIOUS
    <3>3. \A j \in k + 1 .. Len(log') : log'[j].kind = "exec"
      BY <2>1, <2>5, <3>1, <3>2
    <3>4. k \in DOMAIN log' /\ log'[k] = AclRecord("allow")
      BY <2>5, <3>1, <3>2
    <3> QED
      BY <3>3, <3>4
  <2>8. ExecRecordsTrue'
    <3>1. CASE log' = log
      BY <2>6, <3>1
    <3>2. CASE log' = Append(log, rec)
      <4> SUFFICES ASSUME NEW k \in DOMAIN log', log'[k].kind = "exec"
                   PROVE  /\ k = Len(log')
                          /\ log'[k].code = result'
                          /\ exit' \in {NoExit, Killed, Panicked, result'}
                          /\ log'[k].status = "success" => printed' /\ effects' = 1
        OBVIOUS
      <4>1. k = Len(log) + 1 /\ log'[k] = rec
        BY <2>5, <2>6, <3>2
      <4>2. exit' \in {NoExit, Killed, Panicked, result'}
        BY <2>4
      <4>3. rec.status = "success" => printed' /\ effects' = 1
        BY <2>1, <2>4
      <4> QED
        BY <2>1, <2>4, <2>5, <3>2, <4>1, <4>2, <4>3
    <3> QED
      BY <2>3, <3>1, <3>2
  <2>9. SuccessMeansDone'
    <3> SUFFICES ASSUME exit' = Success
                 PROVE  /\ ~inv.dryRun /\ effects' = 1 /\ printed'
                        /\ inv.audit = "on" =>
                             \E k \in DOMAIN log' : log'[k] = ExecRecord(Success)
      OBVIOUS
    <3>1. result = Success /\ ~inv.dryRun /\ effects' = 1 /\ printed'
      BY <2>4
    <3>2. rec = ExecRecord(Success)
      BY <3>1 DEF rec
    <3>3. inv.audit = "on" => Len(log) + 1 \in DOMAIN log' /\ log'[Len(log) + 1] = rec
      BY <2>3, <2>5
    <3> QED
      BY <3>1, <3>2, <3>3
  <2>10. OutcomeStages' /\ RefusalIsInert'
    BY <2>4
  <2> QED
    BY <2>7, <2>8, <2>9, <2>10
<1> QED
  BY <1>1, <1>2, <1>3, <1>4, <1>5, <1>6, <1>7, <1>8, <1>9, <1>10, <1>11, <1>12, <1>13, <1>14, <1>15, <1>16, <1>17, <1>18, <1>19, <1>20, <1>21, <1>22, <1>23, <1>24, <1>25, <1>26
  DEF Next, Gates, Execution, Reporting, UserAnswers, ModuleCode, Signals

\* The outcomes and the log keep their meaning in every reachable state.
THEOREM OutcomeInvariant == Spec => []OutcomeInv
<1>1. Init => OutcomeInv
  BY OutcomeInit
<1>2. GateInv /\ OutcomeInv /\ [Next]_vars => OutcomeInv'
  BY OutcomeStep
<1> QED
  BY <1>1, <1>2, GateInvariant, PTL DEF Spec

\* A caller who reads a refusal may retry: no module code was entered.
THEOREM RefusalsAreInert == Spec => []RefusalIsInert
<1>1. OutcomeInv => RefusalIsInert
  BY DEF OutcomeInv
<1> QED
  BY <1>1, OutcomeInvariant, PTL

\* Exit code 0 is earned: effect, output and, with a working log, the record.
THEOREM SuccessIsEarned == Spec => []SuccessMeansDone
<1>1. OutcomeInv => SuccessMeansDone
  BY DEF OutcomeInv
<1> QED
  BY <1>1, OutcomeInvariant, PTL

\* The log can be believed about the calls and about the decisions.
THEOREM LogIsFaithful == Spec => []AuditFaithful
<1>1. GateInv /\ OutcomeInv => AuditFaithful
  <2> SUFFICES ASSUME GateInv, OutcomeInv PROVE AuditFaithful
    OBVIOUS
  <2>1. effects > 0 => EnteredAuthorized /\ body # "idle" /\ CanAct(inv)
    BY DEF GateInv, BodyStages
  <2>2. effects > 0 => AclPassed
    BY <2>1 DEF EnteredAuthorized
  <2>3. EffectHasDecisionRecord
    BY <2>2 DEF EffectHasDecisionRecord, OutcomeInv, LogStages, AclPassed
  <2> QED
    BY <2>3 DEF AuditFaithful, OutcomeInv
<1> QED
  BY <1>1, GateInvariant, OutcomeInvariant, PTL

\* Every step of a call is a step of the abstract promise, or none.
LEMMA RefinementStep ==
  ASSUME GateInv, GateInv', OutcomeInv, OutcomeInv', Next
  PROVE  Gated!GNext \/ UNCHANGED Gated!gvars
<1> DEFINE P == inv.acl = "none" \/ decision \in {"allow", "approve"}
           C == PolicyNeedsApproval => consented
<1>i. inv' = inv
  BY DEF Next, vars, Gates, Execution, Reporting, UserAnswers, ModuleCode, Signals, ValidateId,
    LookUp, CollectInput, Preflight, ValidateSchema, AclGate, ApprovalGate,
    PromptAnswered, PromptTimeout, LaunchScript, LaunchSandbox, EnterPipeline,
    PipelineApproval, PipelinePromptAnswered, PipelinePromptTimeout, RunInProcess,
    BodyTakesEffect, BodyEnds, BodyObserved, BodyAbandoned, Cancel, Die, PrintResult,
    Audit, ReportError
<1>s. /\ exit = NoExit <=> pc # "done"
      /\ exit' = NoExit <=> pc' # "done"
      /\ pc \notin {"race", "print", "audit", "report", "done"} => body = "idle"
      /\ body = "running" => pc = "race" \/ (exit = Killed /\ Path(inv) # "pipeline")
      /\ effects > 0 => Entered
      /\ effects \in 0 .. 1 /\ effects' \in 0 .. 1
      /\ Entered' => P' /\ C'
      /\ result # InvalidInput
  <2>1. /\ BodyStages /\ BodyStages' /\ TypeOK /\ TypeOK' /\ EnteredAuthorized'
    BY DEF GateInv
  <2>2. Entered' => P' /\ C'
    BY <2>1 DEF EnteredAuthorized, Entered, AclPassed, ConsentGiven
  <2>3. result # InvalidInput
    BY <2>1 DEF TypeOK, ModuleErrorCodes, InvalidInput, NoExit, Success
  <2>4. effects > 0 => Entered
    BY <2>1 DEF BodyStages, Entered
  <2> QED
    BY <2>1, <2>2, <2>3, <2>4 DEF BodyStages, TypeOK
\* What an exit code says is true of the call.
<1>v. ASSUME exit' # NoExit, exit' # Killed
      PROVE  /\ Verdict' \in {"success", "not_run", "unclear"}
             /\ Verdict' = "success" => effects' = 1
             /\ Verdict' = "not_run" /\ exit' # InvalidInput => ~ Entered'
  <2>1. RefusalIsInert' /\ SuccessMeansDone' /\ (inv'.dryRun => body' = "idle")
    BY DEF OutcomeInv, OutcomeStages
  <2>2. Verdict' = "success" => effects' = 1
    BY <1>v, <2>1 DEF Verdict, SuccessMeansDone
  <2>3. Verdict' = "not_run" /\ exit' # InvalidInput => ~ Entered'
    BY <1>v, <2>1 DEF Verdict, RefusalIsInert, Entered
  <2>4. Verdict' \in {"success", "not_run", "unclear"}
    BY <1>v DEF Verdict
  <2> QED
    BY <2>2, <2>3, <2>4
<1> USE <1>i, <1>s DEF NoExit, Killed, Success, Goto, Exit, Refuse, Fail, ExecuteError,
        InvalidInput, NotFound, SchemaInvalid, ApprovalDenied, AclDenied, Panicked, Interrupted
\* The gates, before any code is entered.
<1>1. ASSUME exit = NoExit, body = "idle", body' = "idle", UNCHANGED effects, exit' # Killed
      PROVE  Gated!GNext
  <2>1. Entered = FALSE /\ Entered' = FALSE /\ Verdict = "none"
    BY <1>1 DEF Entered, Verdict
  <2>2. P \in BOOLEAN /\ C \in BOOLEAN /\ P' \in BOOLEAN /\ C' \in BOOLEAN
    OBVIOUS
  <2>3. Verdict' \in {"none", "not_run", "unclear"}
    <3>1. exit' = NoExit => Verdict' = "none"
      BY DEF Verdict
    <3>2. effects' = 0
      BY <1>1, <2>1
    <3> QED
      BY <1>1, <1>v, <3>1, <3>2
  <2>4. Gated!Review \/ Gated!RefuseNow
    BY <1>1, <2>1, <2>2, <2>3 DEF Gated!Review, Gated!RefuseNow
  <2> QED
    BY <2>4 DEF Gated!GNext
\* The call ends: what was entered and the answers stay.
<1>2. ASSUME exit = NoExit, exit' # NoExit, exit' # InvalidInput,
             UNCHANGED <<decision, consented, effects>>, Entered' = Entered
      PROVE  Gated!GNext
  <2>1. Verdict = "none" /\ P' = P /\ C' = C
    BY <1>2 DEF Verdict, PolicyNeedsApproval
  <2>2. CASE exit' = Killed
    <3>1. Verdict' = "lost"
      BY <2>2 DEF Verdict
    <3>2. Gated!Lose
      BY <1>2, <2>1, <3>1 DEF Gated!Lose
    <3> QED
      BY <3>2 DEF Gated!GNext
  <2>3. CASE exit' # Killed
    <3>1. Gated!Conclude
      BY <1>2, <1>v, <2>1, <2>3 DEF Gated!Conclude
    <3> QED
      BY <3>1 DEF Gated!GNext
  <2> QED
    BY <2>2, <2>3
\* Code is entered, if there is any that can act.
<1>3. ASSUME exit = NoExit, UNCHANGED <<exit, decision, consented, effects>>,
             body = "idle", body' = "running"
      PROVE  Gated!GNext \/ UNCHANGED Gated!gvars
  <2>1. Entered = FALSE /\ (CanAct(inv) => Entered' = TRUE)
        /\ (~ CanAct(inv) => Entered' = FALSE) /\ P' = P /\ C' = C
    BY <1>3 DEF Entered, PolicyNeedsApproval
  <2>2. Verdict = "none" /\ Verdict' = "none"
    BY <1>3 DEF Verdict
  <2>3. CASE CanAct(inv)
    <3>1. Gated!Enter
      BY <1>3, <2>1, <2>2, <2>3 DEF Gated!Enter
    <3> QED
      BY <3>1 DEF Gated!GNext
  <2>4. CASE ~ CanAct(inv)
    BY <1>3, <2>1, <2>2, <2>4 DEF Gated!gvars
  <2> QED
    BY <2>3, <2>4
\* Nothing of it shows.
<1>4. ASSUME UNCHANGED <<exit, decision, consented, effects>>, Entered' = Entered
      PROVE  UNCHANGED Gated!gvars
  <2>1. P' = P /\ C' = C
    BY <1>4 DEF PolicyNeedsApproval
  <2>2. Verdict' = Verdict
    BY <1>4 DEF Verdict
  <2> QED
    BY <1>4, <2>1, <2>2 DEF Gated!gvars
<1>5. CASE BodyTakesEffect
  <2>1. Entered /\ Entered' /\ effects = 0 /\ effects' = 1
        /\ UNCHANGED <<exit, decision, consented>>
    BY <1>5 DEF BodyTakesEffect, Entered
  <2>2. P' = P /\ C' = C
    BY <2>1 DEF PolicyNeedsApproval
  <2>3. exit = NoExit \/ exit = Killed
    BY <1>5 DEF BodyTakesEffect
  <2>4. Verdict \in {"none", "lost"} /\ Verdict' = Verdict
    BY <2>1, <2>3 DEF Verdict
  <2>5. Gated!TakeEffect
    BY <2>1, <2>2, <2>4 DEF Gated!TakeEffect
  <2> QED
    BY <2>5 DEF Gated!GNext
<1>6. CASE Gates \/ UserAnswers \/ EnterPipeline \/ PipelineApproval \/ PipelinePromptTimeout
  <2>1. exit = NoExit /\ body = "idle" /\ body' = "idle" /\ UNCHANGED effects /\ exit' # Killed
    BY <1>6 DEF Gates, UserAnswers, ValidateId, LookUp, CollectInput, Preflight, ValidateSchema,
      AclGate, ApprovalGate, PromptAnswered, PromptTimeout, EnterPipeline, PipelineApproval,
      PipelinePromptAnswered, PipelinePromptTimeout
  <2> QED
    BY <1>1, <2>1
<1>7. CASE LaunchScript \/ RunInProcess
  <2>1. exit = NoExit /\ body = "idle" /\ UNCHANGED <<exit, decision, consented, effects>>
        /\ body' \in {"idle", "running"}
    BY <1>7 DEF LaunchScript, RunInProcess
  <2>2. body' = "idle" => Entered' = Entered
    BY <2>1 DEF Entered
  <2> QED
    BY <1>3, <1>4, <2>1, <2>2
<1>8. CASE LaunchSandbox
  <2>1. exit = NoExit /\ body = "idle" /\ UNCHANGED <<exit, consented, effects>>
        /\ Path(inv) = "sandbox"
    BY <1>8 DEF LaunchSandbox
  <2>2. Entered = FALSE /\ Entered' = FALSE
    BY <2>1 DEF Entered, CanAct
  <2>3. Verdict = "none" /\ Verdict' = "none"
    BY <2>1 DEF Verdict
  <2>4. P' \in BOOLEAN /\ C' \in BOOLEAN
    OBVIOUS
  <2>5. Gated!Review
    BY <2>1, <2>2, <2>3, <2>4 DEF Gated!Review
  <2> QED
    BY <2>5 DEF Gated!GNext
<1>9. CASE BodyEnds \/ BodyObserved \/ BodyAbandoned
  <2>1. UNCHANGED <<exit, decision, consented, effects>> /\ body # "idle" /\ body' # "idle"
    BY <1>9 DEF BodyEnds, BodyObserved, BodyAbandoned
  <2>2. Entered' = Entered
    BY <2>1 DEF Entered
  <2> QED
    BY <1>4, <2>1, <2>2
<1>10. CASE Signals \/ Reporting
  <2>1. exit = NoExit /\ exit' # InvalidInput /\ UNCHANGED <<decision, consented, effects>>
        /\ (body' = body \/ (body = "running" /\ body' = "killed"))
    BY <1>10 DEF Signals, Reporting, Cancel, Die, PrintResult, Audit, ReportError, RaceStages
  <2>2. Entered' = Entered
    BY <2>1 DEF Entered
  <2> QED
    BY <1>2, <1>4, <2>1, <2>2
<1> QED
  BY <1>5, <1>6, <1>7, <1>8, <1>9, <1>10 DEF Next, Execution, ModuleCode

\* Every path of dispatch_module, for every set of invocations, implements the
\* promise of GatedExecution.
THEOREM DispatchIsGated == Spec => ImplementsGatedExecution
<1>1. Init => Gated!GInit
  <2> SUFFICES ASSUME Init PROVE Gated!GInit
    OBVIOUS
  <2>1. ~ Entered /\ Verdict = "none" /\ effects = 0
    BY DEF Init, Entered, Verdict
  <2>2. /\ (inv.acl = "none" \/ decision \in {"allow", "approve"}) \in BOOLEAN
        /\ (PolicyNeedsApproval => consented) \in BOOLEAN
    OBVIOUS
  <2> QED
    BY <2>1, <2>2 DEF Gated!GInit
<1>2. GateInv /\ GateInv' /\ OutcomeInv /\ OutcomeInv' /\ [Next]_vars => [Gated!GNext]_Gated!gvars
  <2>1. ASSUME UNCHANGED vars PROVE UNCHANGED Gated!gvars
    BY <2>1 DEF vars, Gated!gvars, Verdict, Entered, PolicyNeedsApproval
  <2> QED
    BY <2>1, RefinementStep
<1> QED
  BY <1>1, <1>2, GateInvariant, OutcomeInvariant, PTL DEF Spec, ImplementsGatedExecution, Gated!GSpec
=============================================================================
