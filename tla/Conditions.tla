----------------------------- MODULE Conditions -----------------------------
(***************************************************************************)
(* internal/resources/condition.go and reason.go: the verdict of one       *)
(* reconcile pass and how it is rendered onto a resource's status.  All    *)
(* five conditions are functions of the outcome, so the status keeps the   *)
(* outcome and the reason in their place.                                  *)
(***************************************************************************)
EXTENDS Errors

\* ReconcilerOutcome; "none" is a status no pass has written yet.
Outcomes ==
  {"none", "synced", "pending", "recoverable", "terminal", "suspended"}

\* resources.Reason, as reported on the conditions.
ConditionReasons ==
  { "None", "Synced", "Pending", "Created", "Updated", "InvalidSpec",
    "Rejected", "Ambiguous", "SigNozResourceIDMismatch",
    "ImmutableFieldChanged", "Unauthorized", "ProviderConfigNotReady",
    "BackendError", "BackendUnreachable", "Suspended", "CompareFailed" }

\* The status after SetConditionsOnOutcome at a generation: id and hash are
\* not its business.
SetConditionsOnOutcome(status, generation, outcome, reason) ==
  [status EXCEPT !.gen = generation, !.outcome = outcome, !.reason = reason]

\* A faulty classification: every failure is final.
EveryErrorTerminal(e) == <<"terminal", "Rejected">>

\* The outcome and reason GetOutcomeAndSetConditionsOnErr picks for an error.
OutcomeOnErr(e) ==
  CASE e \in {"Raw", "Unreachable"} -> <<"recoverable", "BackendUnreachable">>
    [] e \notin {"Raw", "Unreachable"} /\ IsRetryable(e)
         -> <<"recoverable", "BackendError">>
    [] e \in {"Unauthorized", "Forbidden"} -> <<"recoverable", "Unauthorized">>
    [] OTHER -> <<"terminal", "Rejected">>

GetOutcomeAndSetConditionsOnErr(status, generation, e) ==
  SetConditionsOnOutcome(status, generation,
                         OutcomeOnErr(e)[1], OutcomeOnErr(e)[2])

=============================================================================
