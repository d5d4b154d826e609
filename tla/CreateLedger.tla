---------------------------- MODULE CreateLedger ----------------------------
(***************************************************************************)
(* What docs/idempotency.md promises of one mirrored resource, with every  *)
(* pass, cache, retry and crash left out: the resource's own record is a   *)
(* ledger that is written before SigNoz is and cleared after it, so at any *)
(* moment it accounts for everything the resource has there.               *)
(***************************************************************************)
CONSTANTS Ids, NoId

VARIABLES
  held,       \* the resource exists under its finalizer
  announced,  \* it carries the create-attempt annotation
  recorded,   \* the id in its status, or NoId
  made        \* the live objects bound to it

vars == <<held, announced, recorded, made>>

Init == ~held /\ ~announced /\ recorded = NoId /\ made = {}

Hold ==
  /\ ~held /\ held' = TRUE
  /\ UNCHANGED <<announced, recorded, made>>

\* An intent to create or to adopt.
Announce ==
  /\ held
  /\ announced' = TRUE
  /\ UNCHANGED <<held, recorded, made>>

\* An object is made only behind an announcement, and never beside another.
Make(id) ==
  /\ held /\ announced
  /\ made = {}
  /\ made' = {id}
  /\ UNCHANGED <<held, announced, recorded>>

\* Only an announced object's id is recorded.
Record(id) ==
  /\ held /\ announced
  /\ recorded' = id
  /\ UNCHANGED <<held, announced, made>>

\* The annotation is taken off when nothing depends on it any more.
Withdraw ==
  /\ announced
  /\ made \subseteq {recorded}
  /\ announced' = FALSE
  /\ UNCHANGED <<held, recorded, made>>

\* An object is deleted, by the operator or behind its back.
Lose(id) ==
  /\ made' = made \ {id}
  /\ UNCHANGED <<held, announced, recorded>>

\* A recorded id is dropped only when its object is gone.
Forget ==
  /\ recorded \notin made
  /\ recorded' = NoId
  /\ UNCHANGED <<held, announced, made>>

\* The resource leaves the cluster with nothing left behind.
Release ==
  /\ held
  /\ made = {}
  /\ held' = FALSE /\ announced' = FALSE /\ recorded' = NoId
  /\ UNCHANGED made

Next ==
  \/ Hold \/ Announce \/ Withdraw \/ Forget \/ Release
  \/ \E id \in Ids : Make(id) \/ Record(id) \/ Lose(id)

Spec == Init /\ [][Next]_vars

=============================================================================
