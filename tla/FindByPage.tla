---------------------------- MODULE FindByPage ----------------------------
(***************************************************************************)
(* findByPage of internal/resources/adapters/common_find.go: the walk over *)
(* a list endpoint that cannot filter by name (dashboards, notification    *)
(* channels), page by page, while other writers add and remove entries.    *)
(* What it returns decides between adopting, creating and giving up.       *)
(*                                                                         *)
(* The list is its entries' positions, counted from 1.  The order of the   *)
(* matches says nothing to the caller, so they are a count per entry.      *)
(***************************************************************************)
EXTENDS Integers, FiniteSets

CONSTANTS
  Entries,     \* objects the endpoint may list
  Matching,    \* the ones whose name is the identity looked for
  Nameless,    \* the ones listed without an id
  Limit,       \* findPageLimit
  MaxOver,     \* bound: entries total may count too many
  MaxChanges   \* bound: entries that come and go during the walk

\* The page size is not zero; the rest is what the constants stand for.
ASSUME WalkAssumption ==
  /\ IsFiniteSet(Entries)
  /\ Limit \in Nat \ {0}
  /\ MaxOver \in Nat
  /\ MaxChanges \in Nat
  /\ Matching \subseteq Entries
  /\ Nameless \subseteq Entries

VARIABLES
  at,       \* each entry's position in the list, 0 when it is not listed
  size,     \* how many entries the list holds
  listed,   \* the entries listed when the walk began
  offset,   \* the walk's offset
  found,    \* how often each entry is among the matches so far
  result,   \* "walking", "done" (matches returned) or "error"
  added,    \* an entry was added since the walk began
  removed,  \* an entry was removed since the walk began
  changes   \* changes to the list so far, against MaxChanges

vars == <<at, size, listed, offset, found, result, added, removed, changes>>

TypeOK ==
  /\ at \in [Entries -> Nat]
  /\ size \in Nat
  /\ listed \subseteq Entries
  /\ offset \in Nat
  /\ found \in [Entries -> Nat]
  /\ result \in {"walking", "done", "error"}
  /\ added \in BOOLEAN
  /\ removed \in BOOLEAN
  /\ changes \in Nat

\* Any list of the entries, in any order, and the walk at its first page.
Init ==
  /\ size \in 0..Cardinality(Entries)
  /\ at \in [Entries -> 0..size]
  /\ \A p \in 1..size : \E e \in Entries : at[e] = p
  /\ \A e, f \in Entries : at[e] = at[f] /\ at[e] # 0 => e = f
  /\ listed = {e \in Entries : at[e] # 0}
  /\ offset = 0
  /\ found = [e \in Entries |-> 0]
  /\ result = "walking"
  /\ added = FALSE
  /\ removed = FALSE
  /\ changes = 0

-----------------------------------------------------------------------------
(* The walk *)

\* The entries of the page the server answers with, and their number.
Page == {e \in Entries : offset < at[e] /\ at[e] <= offset + Limit}

PageLen ==
  IF size <= offset THEN 0
  ELSE IF size - offset <= Limit THEN size - offset ELSE Limit

\* A faulty test that trusts a short page to be the last but one.
EndsEarly(total) == PageLen = 0 \/ offset + PageLen + 1 >= total

\* The empty-page guard ends the walk even if total overcounts.
LastPage(total) == PageLen = 0 \/ offset + PageLen >= total

\* A faulty step, one entry short of a page.
StepOverlaps == offset + Limit - 1

\* for offset := 0; ; offset += findPageLimit
NextOffset == offset + Limit

\* One page fetched and searched; total may count entries the list lacks, and
\* never fewer than it has.
FetchPage ==
  /\ result = "walking"
  /\ Page \cap Matching \cap Nameless = {}
  /\ found' = [e \in Entries |->
                 IF e \in Page \cap Matching THEN found[e] + 1 ELSE found[e]]
  /\ \E over \in 0..MaxOver :
       \/ /\ LastPage(size + over)
          /\ result' = "done"
          /\ UNCHANGED offset
       \/ /\ ~LastPage(size + over)
          /\ offset' = NextOffset
          /\ UNCHANGED result
  /\ UNCHANGED <<at, size, listed, added, removed, changes>>

\* A faulty loop that tries a page again where it should give up.
FetchRepeats == result = "walking" /\ UNCHANGED vars

\* A match without an id, an exchange that fails, a response that is an error,
\* has no data or something other than a list in it: the walk ends with an
\* error, the matches are dropped.  (No list at all is an empty page.)
FetchFails ==
  /\ result = "walking"
  /\ result' = "error"
  /\ UNCHANGED <<at, size, listed, offset, found, added, removed, changes>>

-----------------------------------------------------------------------------
(* Everyone else who writes to SigNoz (external) *)

Change ==
  /\ result = "walking"
  /\ changes < MaxChanges
  /\ changes' = changes + 1
  /\ UNCHANGED <<listed, offset, found, result>>

\* An entry appears at position p and pushes back the ones behind it.
AddEntry(e, p) ==
  /\ Change
  /\ at[e] = 0
  /\ at' = [f \in Entries |-> IF f = e THEN p
                              ELSE IF at[f] >= p THEN at[f] + 1 ELSE at[f]]
  /\ size' = size + 1
  /\ added' = TRUE
  /\ UNCHANGED removed

\* An entry goes and the ones behind it move up.
RemoveEntry(e) ==
  /\ Change
  /\ at[e] # 0
  /\ at' = [f \in Entries |-> IF f = e THEN 0
                              ELSE IF at[f] > at[e] THEN at[f] - 1 ELSE at[f]]
  /\ size' = size - 1
  /\ removed' = TRUE
  /\ UNCHANGED added

Next ==
  \/ FetchPage
  \/ FetchFails
  \/ \E e \in Entries : \E p \in 1..(size + 1) : AddEntry(e, p)
  \/ \E e \in Entries : RemoveEntry(e)

\* The loop goes on as long as the process runs; an exchange ends by its
\* client's timeout at the latest.
Spec == Init /\ [][Next]_vars /\ WF_vars(FetchPage \/ FetchFails)

-----------------------------------------------------------------------------
(* Properties *)

\* While nothing is removed, a walk that returns has every match that was
\* listed when it began: entries added anywhere push a match back, never past
\* the walk, so findByPage does not make the reconciler create a second object.
GrowthMissesNothing ==
  result = "done" /\ ~removed => \A e \in Matching \cap listed : found[e] >= 1

\* While nothing is added, no match is counted twice: an object the walk sees
\* once is not reported as ambiguous.
ShrinkRepeatsNothing == ~added => \A e \in Entries : found[e] <= 1

\* The walk ends, however far total overcounts and however the list moves.
WalkEnds == <>(result # "walking")

\* What makes the two safety properties inductive: positions lie in the list
\* and no two entries share one; while none is removed, every match is counted
\* or still ahead of the walk; while none is added, only entries the walk has
\* passed are counted.
WalkInv ==
  /\ \A e \in Entries : at[e] <= size
  /\ \A e, f \in Entries : at[e] = at[f] /\ at[e] # 0 => e = f
  /\ ~removed /\ result = "walking" =>
       \A e \in Matching \cap listed : found[e] >= 1 \/ at[e] > offset
  /\ ~added /\ result = "walking" =>
       \A e \in Entries : found[e] = 0 \/ at[e] <= offset

=============================================================================
