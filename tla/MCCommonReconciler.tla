------------------------ MODULE MCCommonReconciler ------------------------
(***************************************************************************)
(* The instances of CommonReconciler that TLC checks.                      *)
(***************************************************************************)
EXTENDS CommonReconciler

CONSTANTS r1, r2, i1, i2, b1, b2

MCSpec(ref, ident, body, suspend, policy) ==
  [ref |-> ref, ident |-> ident, body |-> body, suspend |-> suspend,
   reclaimPolicy |-> policy]

\* A read answers with the whole body.
AllShown == [b \in Bodies |-> b]

\* Nothing of the body shows: b1 and b2 differ in a field reads leave out.
NoneShown == [b \in Bodies |-> b1]

\* One identity, two bodies.
TwoBodies == { MCSpec(r1, i1, b, FALSE, "Delete") : b \in {b1, b2} }

\* One spec.
OneSpec == { MCSpec(r1, i1, b1, FALSE, "Delete") }

\* One spec the server refuses.
RefusedSpec == { MCSpec(r1, i1, b2, FALSE, "Delete") }

\* A rename and a refused body at once.
RenamedRefused == { MCSpec(r1, i1, b1, FALSE, "Delete"),
                    MCSpec(r1, i2, b2, FALSE, "Delete") }

\* Every shape of spec: a rename, another backend, a body the server refuses,
\* one that does not render, a suspended one.
Shapes == { MCSpec(r1, i1, b1, FALSE, "Delete"),
            MCSpec(r1, i2, b1, FALSE, "Delete"),
            MCSpec(r2, i1, b1, FALSE, "Orphan"),
            MCSpec(r1, i1, b2, FALSE, "Delete"),
            MCSpec(r1, NoIdent, b1, FALSE, "Delete"),
            MCSpec(r1, i1, b1, TRUE, "Delete") }

Budgets(faults, edits, meddles, crashes, losses, nudges) ==
  [faults |-> faults, edits |-> edits, meddles |-> meddles,
   crashes |-> crashes, losses |-> losses, nudges |-> nudges]

CrashBudget == Budgets(2, 2, 0, 1, 0, 0)
ShapesBudget == Budgets(1, 2, 0, 0, 0, 0)
AdoptionBudget == Budgets(1, 2, 1, 0, 1, 1)
QuietBudget == Budgets(0, 1, 0, 0, 0, 0)
LateBudget == Budgets(1, 1, 0, 0, 0, 0)
RejectBudget == Budgets(1, 2, 0, 0, 0, 0)
HiddenBudget == Budgets(1, 2, 0, 0, 0, 0)
PinBudget == Budgets(1, 2, 2, 0, 0, 0)
LiveBudget == Budgets(1, 2, 1, 0, 0, 0)

=============================================================================
