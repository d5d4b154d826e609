--------------------------- MODULE MCFindByPage ---------------------------
(***************************************************************************)
(* The instance of FindByPage that TLC checks.                             *)
(***************************************************************************)
EXTENDS FindByPage

CONSTANTS e1, e2, e3, e4, e5

=============================================================================
