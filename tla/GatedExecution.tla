--------------------------- MODULE GatedExecution ---------------------------
(***************************************************************************)
(* What `apcore-cli <module>` promises, whatever route the call takes: the *)
(* module's code takes effect at most once, only while the policy permits  *)
(* the call and its consent is given, and the verdict the caller reads     *)
(* (the exit code) never says of a call without effect that it succeeded,  *)
(* nor of one whose code was entered that it may simply be repeated.       *)
(* Dispatch.tla implements this module.                                    *)
(***************************************************************************)
EXTENDS Naturals

VARIABLES
  permitted,  \* the access policy lets the call through
  consented,  \* nobody's consent is still outstanding
  ran,        \* the module's code has been entered
  effects,    \* how many times it took effect
  verdict     \* what the caller was told

gvars == <<permitted, consented, ran, effects, verdict>>

\* "success": it took effect; "not_run": its code was not entered; "unclear":
\* the caller cannot tell; "lost": the caller was told nothing.
Verdicts == {"none", "success", "not_run", "unclear", "lost"}

GInit ==
  /\ permitted \in BOOLEAN
  /\ consented \in BOOLEAN
  /\ ran = FALSE
  /\ effects = 0
  /\ verdict = "none"

\* The gates are consulted only before the module's code is entered.
Review ==
  /\ ~ran
  /\ verdict = "none"
  /\ permitted' \in BOOLEAN
  /\ consented' \in BOOLEAN
  /\ UNCHANGED <<ran, effects, verdict>>

Enter ==
  /\ ~ran
  /\ verdict = "none"
  /\ permitted
  /\ consented
  /\ ran' = TRUE
  /\ UNCHANGED <<permitted, consented, effects, verdict>>

\* Code that was entered may still take effect after its caller was killed.
TakeEffect ==
  /\ ran
  /\ effects = 0
  /\ verdict \in {"none", "lost"}
  /\ effects' = 1
  /\ UNCHANGED <<permitted, consented, ran, verdict>>

Conclude ==
  /\ verdict = "none"
  /\ \/ verdict' = "success" /\ effects = 1
     \/ verdict' = "not_run" /\ ~ran
     \/ verdict' = "unclear"
  /\ UNCHANGED <<permitted, consented, ran, effects>>

\* Killed from outside: the verdict never reaches the caller.  Being refused
\* and being killed may coincide with a last look at the policy.
Lose ==
  /\ verdict = "none"
  /\ verdict' = "lost"
  /\ UNCHANGED <<permitted, consented, ran, effects>>

\* A refusal looks at the policy and concludes in one step.
RefuseNow ==
  /\ ~ran
  /\ verdict = "none"
  /\ permitted' \in BOOLEAN
  /\ consented' \in BOOLEAN
  /\ verdict' \in {"not_run", "unclear"}
  /\ UNCHANGED <<ran, effects>>

GNext == Review \/ Enter \/ TakeEffect \/ Conclude \/ Lose \/ RefuseNow

GSpec == GInit /\ [][GNext]_gvars

\* The abstract promise itself: an effect implies permission and consent.
AbstractGuarantee == effects > 0 => ran /\ permitted /\ consented
=============================================================================
