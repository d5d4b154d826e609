------------------------- MODULE FindByPage_proofs -------------------------
(***************************************************************************)
(* The page walk's two safety properties, for lists and pages of any size  *)
(* and any number of changes during the walk.  WalkInv is what makes them  *)
(* inductive.                                                              *)
(***************************************************************************)
EXTENDS FindByPage, FiniteSetTheorems, TLAPS

IInv == TypeOK /\ WalkInv /\ GrowthMissesNothing /\ ShrinkRepeatsNothing

\* A walk begins with every listed entry ahead of it.
LEMMA InitIInv == Init => IInv
<1> SUFFICES ASSUME Init PROVE IInv
  OBVIOUS
<1> USE WalkAssumption DEF Init
<1>1. size \in Nat
  <2>1. Cardinality(Entries) \in Nat
    BY FS_CardinalityType
  <2> QED
    BY <2>1
<1>2. TypeOK
  <2>1. 0..size \subseteq Nat
    BY <1>1
  <2>2. at \in [Entries -> Nat]
    BY <2>1
  <2>3. found \in [Entries -> Nat]
    OBVIOUS
  <2> QED
    BY <1>1, <2>2, <2>3 DEF TypeOK
<1>3. WalkInv
  BY <1>1 DEF WalkInv
<1>4. GrowthMissesNothing /\ ShrinkRepeatsNothing
  BY DEF GrowthMissesNothing, ShrinkRepeatsNothing
<1> QED
  BY <1>2, <1>3, <1>4 DEF IInv

\* A page is searched: its matches are counted, and an entry behind the new
\* offset that was not counted before was on the page.
LEMMA FetchPageIInv == ASSUME IInv, FetchPage PROVE IInv'
<1> USE WalkAssumption
<1>1. PICK over \in 0..MaxOver :
        \/ LastPage(size + over) /\ result' = "done" /\ offset' = offset
        \/ ~LastPage(size + over) /\ offset' = offset + Limit /\ result' = result
  BY DEF FetchPage, NextOffset
<1>2. /\ result = "walking"
      /\ found' = [e \in Entries |->
                     IF e \in Page \cap Matching THEN found[e] + 1 ELSE found[e]]
      /\ UNCHANGED <<at, size, listed, added, removed, changes>>
  BY DEF FetchPage
<1>3. TypeOK'
  BY <1>1, <1>2 DEF IInv, TypeOK
<1>4. \A e \in Entries : found'[e] = IF e \in Page \cap Matching THEN found[e] + 1
                                     ELSE found[e]
  BY <1>2
<1>5. /\ PageLen \in Nat
      /\ size <= offset + PageLen \/ PageLen = Limit
  BY DEF IInv, TypeOK, PageLen
<1>6. WalkInv'
  BY <1>1, <1>2, <1>4, <1>5 DEF IInv, TypeOK, WalkInv, Page
<1>7. GrowthMissesNothing'
  <2> SUFFICES ASSUME result' = "done", ~removed', NEW e \in Matching \cap listed
               PROVE  found'[e] >= 1
    BY <1>2 DEF GrowthMissesNothing
  <2>1. LastPage(size + over)
    BY <1>1, <1>2
  <2>2. PageLen = 0 \/ offset + PageLen >= size
    BY <2>1, <1>1, <1>5 DEF LastPage, IInv, TypeOK
  <2>3. size <= offset + Limit
    BY <2>2, <1>5 DEF IInv, TypeOK, PageLen
  <2>4. found[e] >= 1 \/ (at[e] > offset /\ at[e] <= size)
    BY <1>2 DEF IInv, WalkInv
  <2>5. found[e] >= 1 \/ e \in Page
    BY <2>3, <2>4 DEF IInv, TypeOK, Page
  <2> QED
    BY <2>5, <1>4 DEF IInv, TypeOK
<1>8. ShrinkRepeatsNothing'
  BY <1>2, <1>4 DEF IInv, TypeOK, WalkInv, ShrinkRepeatsNothing, Page
<1> QED
  BY <1>3, <1>6, <1>7, <1>8 DEF IInv

\* An entry that comes pushes others back, which keeps them ahead of the walk.
LEMMA AddEntryIInv ==
  ASSUME IInv, NEW e \in Entries, NEW p \in 1..(size + 1), AddEntry(e, p)
  PROVE  IInv'
<1> USE WalkAssumption
<1>1. /\ result = "walking" /\ changes' = changes + 1
      /\ UNCHANGED <<listed, offset, found, result, removed>>
      /\ added' /\ size' = size + 1
      /\ at[e] = 0
      /\ at' = [f \in Entries |-> IF f = e THEN p
                                  ELSE IF at[f] >= p THEN at[f] + 1 ELSE at[f]]
  BY DEF AddEntry, Change
<1>2. \A f \in Entries : /\ at'[f] \in Nat
                         /\ at'[f] <= size + 1
                         /\ f # e => at'[f] >= at[f]
  BY <1>1 DEF IInv, TypeOK, WalkInv
<1>3. TypeOK'
  BY <1>1, <1>2 DEF IInv, TypeOK, AddEntry
<1>4. WalkInv'
  BY <1>1, <1>2 DEF IInv, TypeOK, WalkInv
<1>5. GrowthMissesNothing' /\ ShrinkRepeatsNothing'
  BY <1>1 DEF GrowthMissesNothing, ShrinkRepeatsNothing
<1> QED
  BY <1>3, <1>4, <1>5 DEF IInv

\* An entry that goes moves others up, which keeps them behind the walk.
LEMMA RemoveEntryIInv ==
  ASSUME IInv, NEW e \in Entries, RemoveEntry(e)
  PROVE  IInv'
<1> USE WalkAssumption
<1>1. /\ result = "walking" /\ changes' = changes + 1
      /\ UNCHANGED <<listed, offset, found, result, added>>
      /\ removed' /\ size' = size - 1
      /\ at[e] # 0
      /\ at' = [f \in Entries |-> IF f = e THEN 0
                                  ELSE IF at[f] > at[e] THEN at[f] - 1 ELSE at[f]]
  BY DEF RemoveEntry, Change
<1>2. size >= 1
  BY <1>1 DEF IInv, TypeOK, WalkInv
<1>3. \A f \in Entries : /\ at'[f] \in Nat
                         /\ at'[f] <= size - 1
                         /\ at'[f] <= at[f]
  BY <1>1, <1>2 DEF IInv, TypeOK, WalkInv
<1>4. TypeOK'
  BY <1>1, <1>2, <1>3 DEF IInv, TypeOK, RemoveEntry
<1>5. WalkInv'
  BY <1>1, <1>2, <1>3 DEF IInv, TypeOK, WalkInv
<1>6. GrowthMissesNothing' /\ ShrinkRepeatsNothing'
  BY <1>1 DEF IInv, GrowthMissesNothing, ShrinkRepeatsNothing
<1> QED
  BY <1>4, <1>5, <1>6 DEF IInv

\* A walk that gives up returns no matches at all.
LEMMA FetchFailsIInv == ASSUME IInv, FetchFails PROVE IInv'
<1>1. TypeOK' /\ WalkInv'
  BY DEF FetchFails, IInv, TypeOK, WalkInv
<1>2. GrowthMissesNothing' /\ ShrinkRepeatsNothing'
  BY DEF FetchFails, IInv, GrowthMissesNothing, ShrinkRepeatsNothing
<1> QED
  BY <1>1, <1>2 DEF IInv

\* The step of the induction, one case per action.
LEMMA StepIInv == IInv /\ [Next]_vars => IInv'
<1> SUFFICES ASSUME IInv, [Next]_vars PROVE IInv'
  OBVIOUS
<1>1. CASE FetchPage
  BY <1>1, FetchPageIInv
<1>2. CASE FetchFails
  BY <1>2, FetchFailsIInv
<1>3. CASE \E e \in Entries : \E p \in 1..(size + 1) : AddEntry(e, p)
  BY <1>3, AddEntryIInv
<1>4. CASE \E e \in Entries : RemoveEntry(e)
  BY <1>4, RemoveEntryIInv
<1>5. CASE UNCHANGED vars
  BY <1>5 DEF vars, IInv, TypeOK, WalkInv, GrowthMissesNothing, ShrinkRepeatsNothing
<1> QED
  BY <1>1, <1>2, <1>3, <1>4, <1>5 DEF Next

\* findByPage misses no match that was listed when it began, as long as nothing
\* is removed while it walks: however long the list, however large the pages
\* and however far total overcounts.
THEOREM GrowthMissesNothingHolds == Spec => []GrowthMissesNothing
<1>1. IInv => GrowthMissesNothing
  BY DEF IInv
<1> QED
  BY InitIInv, StepIInv, <1>1, PTL DEF Spec

\* findByPage returns no object twice, as long as nothing is added while it
\* walks: one object is never reported as ambiguous.
THEOREM ShrinkRepeatsNothingHolds == Spec => []ShrinkRepeatsNothing
<1>1. IInv => ShrinkRepeatsNothing
  BY DEF IInv
<1> QED
  BY InitIInv, StepIInv, <1>1, PTL DEF Spec

=============================================================================
