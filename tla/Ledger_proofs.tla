---------------------------- MODULE Ledger_proofs ----------------------------
(***************************************************************************)
(* What the CR's own record accounts for, for every value of the constants *)
(* that gives it one backend and one identity: every object it has in      *)
(* SigNoz is recorded or announced.                                        *)
(***************************************************************************)
EXTENDS Single_proofs

-----------------------------------------------------------------------------
(* The parts of BindingInductive, by what they depend on *)

\* What the versions of the CR say of the objects bound to it.
Named(o) == o.status.id \in {NoId} \cup Bound
Accounted ==
  /\ HoldAccounts
  /\ CachedBound
  /\ BindingKnown
  /\ Bound # {} => Named(store)

\* What the pass says of them.
Carried ==
  /\ HoldsOnce
  /\ PassBound
  /\ pass.pc \in LivePcs => Named(store)

\* BindingInductive, by what the versions and what the pass must satisfy.
LEMMA BindingForm == BindingInductive <=> Accounted /\ Carried
BY DEF BindingInductive, Accounted, Carried, RecordedBound, Named

\* What a version in the cache that a live pass may start from says of the
\* API server's object.
LEMMA CachedSays ==
  ASSUME TypeOK, CachedBound, NEW i \in 1..Len(versions), BoundLive(versions[i])
  PROVE  /\ Named(versions[i]) /\ Named(store)
         /\ versions[i].status.id # NoId => store.status.id # NoId
<1>1. Len(versions) \in Nat \ {0} /\ store = versions[Len(versions)]
  BY StoreType DEF store
<1>2. Len(versions) \in 1..Len(versions) /\ i <= Len(versions) /\ i <= i
  BY <1>1
<1> QED BY <1>1, <1>2 DEF CachedBound, Named

\* No write: the versions go on accounting for as many objects, for more when
\* the annotation is up, and for fewer when no version is live.
LEMMA AccountedUnwritten ==
  ASSUME TypeOK, SingleInductive, Accounted, UNCHANGED versions,
         \/ Bound' = Bound
         \/ Bound \subseteq Bound' /\ Held(store) /\ store.attempt /\ Named(store)
         \/ /\ Bound' \subseteq Bound
            /\ \A i \in 1..Len(versions) : ~BoundLive(versions[i])
  PROVE  Accounted'
<1>0. store' = store /\ versions' = versions
  BY DEF store
<1>1. \A i, j \in Bound : i = j
  BY DEF SingleInductive, AtMostOneObject, Bound
<1>2. Bound' = {} \/ Bound \subseteq Bound'
  BY <1>1
<1>3. HoldAccounts'
  BY <1>0 DEF Accounted, HoldAccounts, Held
<1>4. CachedBound'
  BY <1>0 DEF Accounted, CachedBound, BoundLive, Held
<1>5. \A id \in Bound' : store.exists /\ (store.status.id = id \/ store.attempt)
  BY DEF Accounted, BindingKnown, Bound, Held
<1>6. BindingKnown'
  BY <1>0, <1>5 DEF BindingKnown, Bound
<1>7. Bound' # {} => Named(store)'
  BY <1>0, <1>1, <1>2 DEF Accounted, Named
<1> QED BY <1>3, <1>4, <1>6, <1>7 DEF Accounted

\* A write: the new version takes over the account.
LEMMA AccountedWritten ==
  ASSUME TypeOK, Accounted, NEW o \in Objects, Write(o),
         Bound' # {} => Held(o) /\ o.status.id \in {NoId} \cup Bound',
         ~Held(o) => ~o.attempt /\ o.status.id = NoId,
         \A id \in Bound' : o.exists /\ (o.status.id = id \/ o.attempt),
         BoundLive(o) => o.status.id \in {NoId} \cup Bound',
         \A i \in 1..Len(versions) : BoundLive(versions[i]) =>
           /\ Bound \subseteq Bound' /\ o.status.id \in {NoId} \cup Bound'
           /\ store.status.id # NoId => o.status.id # NoId
  PROVE  Accounted'
<1> DEFINE n == Len(versions)
<1>1. /\ n \in Nat \ {0} /\ Len(versions') = n + 1 /\ store' = o
      /\ versions'[n + 1] = o
      /\ \A i \in 1..n : versions'[i] = versions[i]
  BY StoreType, WriteEffect DEF store
<1>2. HoldAccounts'
  BY <1>1 DEF HoldAccounts, Held
<1>3. BindingKnown'
  BY <1>1 DEF BindingKnown, Bound
<1>4. Bound' # {} => Named(store)'
  BY <1>1 DEF Named
<1>5. CachedBound'
  <2> SUFFICES ASSUME NEW i \in 1..(n + 1), NEW j \in 1..(n + 1), i <= j,
                      BoundLive(versions'[i])
               PROVE  /\ versions'[j].status.id \in {NoId} \cup Bound'
                      /\ versions'[i].status.id # NoId => versions'[j].status.id # NoId
    BY <1>1 DEF CachedBound
  <2>1. CASE i = n + 1
    <3>1. j = n + 1
      BY <1>1, <2>1
    <3> QED BY <1>1, <2>1, <3>1 DEF Named
  <2>2. CASE i \in 1..n
    <3>1. versions'[i] = versions[i] /\ BoundLive(versions[i])
      BY <1>1, <2>2
    <3>2. /\ Bound \subseteq Bound' /\ o.status.id \in {NoId} \cup Bound'
          /\ store.status.id # NoId => o.status.id # NoId
      BY <2>2, <3>1 DEF Named
    <3>3. CASE j = n + 1
      BY <1>1, <2>2, <3>1, <3>2, <3>3, CachedSays DEF Accounted
    <3>4. CASE j \in 1..n
      BY <1>1, <2>2, <3>1, <3>2, <3>4 DEF Accounted, CachedBound
    <3> QED BY <1>1, <3>3, <3>4
  <2> QED BY <1>1, <2>1, <2>2
<1> QED BY <1>2, <1>3, <1>4, <1>5 DEF Accounted

\* The watch delivers a version, or the operator restarts and relists.
LEMMA AccountedDelivered ==
  ASSUME TypeOK, Accounted, Deliver \/ Crash
  PROVE  Accounted' /\ store' = store /\ Bound' = Bound
<1> DEFINE n == Len(versions)
<1>0. n \in Nat \ {0} /\ Bound' = Bound /\ store = versions[n]
  BY StoreType DEF Deliver, Crash, Bound, store
<1>1. store' = store
  <2>1. CASE Crash
    <3>1. versions' = <<versions[n]>>
      BY <1>0, <2>1 DEF Crash
    <3>2. Len(versions') = 1 /\ versions'[1] = versions[n]
      BY <3>1
    <3> QED BY <1>0, <3>2 DEF store
  <2> QED BY <2>1, DeliverEffect
<1>2. CachedBound'
  <2>1. CASE Deliver
    <3>1. /\ Len(versions') = n - 1
          /\ \A i \in 1..(n - 1) : versions'[i] = versions[i + 1] /\ i + 1 \in 1..n
      BY <1>0, <2>1, DeliverEffect
    <3> SUFFICES ASSUME NEW i \in 1..(n - 1), NEW j \in 1..(n - 1), i <= j,
                        BoundLive(versions'[i])
                 PROVE  /\ versions'[j].status.id \in {NoId} \cup Bound'
                        /\ versions'[i].status.id # NoId => versions'[j].status.id # NoId
      BY <3>1 DEF CachedBound
    <3>2. /\ i + 1 \in 1..n /\ j + 1 \in 1..n /\ i + 1 <= j + 1
          /\ versions'[i] = versions[i + 1] /\ versions'[j] = versions[j + 1]
      BY <1>0, <3>1
    <3> QED BY <1>0, <3>2 DEF Accounted, CachedBound
  <2>2. CASE Crash
    <3>1. Len(versions') = 1 /\ versions'[1] = store
      BY <2>2 DEF Crash
    <3>2. BoundLive(store) => Named(store)
      BY <1>0, CachedSays DEF Accounted
    <3> QED BY <1>0, <3>1, <3>2 DEF CachedBound, Named
  <2> QED BY <2>1, <2>2
<1>3. HoldAccounts' /\ BindingKnown' /\ (Bound # {} => Named(store))'
  <2>1. UNCHANGED remote
    BY DEF Deliver, Crash
  <2> QED BY <1>0, <1>1, <2>1 DEF Accounted, HoldAccounts, BindingKnown, Named
<1> QED BY <1>0, <1>1, <1>2, <1>3 DEF Accounted

-----------------------------------------------------------------------------
(* What the pass carries *)

\* What a pass at a step of a live CR may have in memory after the step.
Holding(id, fresh) ==
  /\ id \in {NoId} \cup Bound' /\ store'.status.id \in {NoId} \cup Bound'
  /\ fresh /\ store'.status.id # NoId => id # NoId
  /\ fresh /\ store'.status.id # id => store'.attempt

\* What is to be shown of a pass after a step.
LEMMA CarriedForm ==
  ASSUME pass'.pc = "addFinalizer" /\ pass'.fresh => ~store'.finalizer,
         pass'.pc \in LivePcs => Holding(pass'.obj.status.id, pass'.fresh),
         pass'.pc \in {"read", "update", "dropAttempt"} => pass'.obj.status.id # NoId,
         pass'.pc = "dropAttempt" => store'.status.id # NoId,
         pass'.pc = "mark" /\ pass'.target # NoId => remote'[pass'.target].state = "live"
  PROVE  Carried'
BY DEF Carried, HoldsOnce, PassBound, Holding, Named

\* Nothing is asked of an idle or a finalizing pass.
LEMMA CarriedElsewhere ==
  ASSUME pass'.pc \in {"idle"} \cup FinalizePcs
  PROVE  Carried'
BY CarriedForm DEF LivePcs, FinalizePcs

\* A pass that ends carries its record to the status write.
LEMMA CarriedEnds ==
  ASSUME NEW p, NEW id, EndedWith(p, id), Holding(id, pass'.fresh)
  PROVE  Carried'
<1>1. CASE pass' = Idle
  BY <1>1, IdleFields, CarriedElsewhere
<1>2. CASE pass'.pc = "status" /\ pass'.obj.status.id = id
  BY <1>2, CarriedForm
<1> QED BY <1>1, <1>2 DEF EndedWith

\* What the pass had in memory it still may have, if the API server's status
\* and the objects are the same.
LEMMA HoldingOn ==
  ASSUME Carried, pass.pc \in LivePcs, Bound \subseteq Bound',
         store'.status.id = store.status.id,
         NEW fresh, fresh => pass.fresh /\ (store.attempt => store'.attempt)
  PROVE  Holding(pass.obj.status.id, fresh)
BY DEF Carried, PassBound, Named, Holding

-----------------------------------------------------------------------------
(* The steps of a pass over a live CR *)

\* What a pass over a live CR knows before its step.
LEMMA LivePass ==
  ASSUME TypeOK, Inductive, SingleInductive, BindingInductive, pass.pc \in LivePcs
  PROVE  /\ Accounted /\ Carried /\ Held(store) /\ Named(store) /\ Named(pass.obj)
         /\ \A i, j \in Bound : i = j
         /\ NoId \notin Bound
<1>1. Accounted /\ Carried
  BY BindingForm
<1>2. Held(store)
  BY DEF Inductive, LiveHeld
<1>3. \A i, j \in Bound : i = j
  BY DEF SingleInductive, AtMostOneObject, Bound
<1>4. NoId \notin Bound
  BY IdsAssumption DEF Bound
<1>5. Named(store)
  BY <1>1 DEF Carried
<1>6. Named(pass.obj)
  <2>1. PassBound
    BY <1>1 DEF Carried
  <2>2. pass.obj.status.id \in {NoId} \cup Bound
    BY <2>1, PassFacts DEF PassBound
  <2> QED BY <2>2 DEF Named
<1> QED BY <1>1, <1>2, <1>3, <1>4, <1>5, <1>6

\* The steps that only look at SigNoz or write a body there.
LEMMA LookingBinding ==
  ASSUME TypeOK, OneMirror, Inductive, SingleInductive, BindingInductive,
         OnNewObject \/ OnConflict \/ OnExistingObject \/ Update
  PROVE  Accounted' /\ Carried'
<1> DEFINE id == pass.obj.status.id
<1>0. pass.pc \in LivePcs /\ UNCHANGED versions /\ store' = store
  BY DEF OnNewObject, OnConflict, OnExistingObject, Update, LivePcs, store
<1>1. /\ Accounted /\ Carried /\ Named(pass.obj) /\ NoId \notin Bound
      /\ OneBackend
  BY <1>0, LivePass DEF SingleInductive
<1>2. Bound' = Bound /\ \A j \in Ids : remote'[j].state = remote[j].state
  <2>1. Kindred
    BY SingleForm
  <2>2. CASE UNCHANGED remote \/ SameButTouched
    BY <2>1, <2>2, TouchedObjects, UnchangedObjects, SameKindred DEF SameObject
  <2> QED BY <2>2, UpdateKindred, OnNewObjectEffect, OnConflictEffect, OnExistingObjectEffect
<1>3. Accounted'
  BY <1>0, <1>1, <1>2, AccountedUnwritten
<1>4. ASSUME NEW fresh, fresh => pass.fresh PROVE Holding(id, fresh)
  BY <1>0, <1>1, <1>2, <1>4, HoldingOn
<1>5. ASSUME EndedWith(pass, id) PROVE Carried'
  <2>1. pass' = Idle \/ Holding(id, pass'.fresh)
    BY <1>4, <1>5 DEF EndedWith
  <2> QED BY <1>5, <2>1, IdleFields, CarriedEnds, CarriedElsewhere
<1>6. ASSUME MovedTo("mark"), pass'.target # NoId => pass'.target \in Find(pass.ref, pass.obj.spec)
      PROVE  Carried'
  <2>1. /\ pass'.pc = "mark" /\ pass'.obj.status.id = id
        /\ Holding(id, pass'.fresh)
    BY <1>4, <1>6 DEF MovedTo
  <2>2. pass'.target # NoId => remote'[pass'.target].state = "live"
    BY <1>2, <1>6 DEF Find, Live
  <2> QED BY <2>1, <2>2, CarriedForm
<1>7. ASSUME OnExistingObject PROVE Carried'
  <2>1. pass.pc = "read" /\ id \in Bound
    BY <1>1, <1>7 DEF OnExistingObject, Carried, PassBound, Named, LivePcs
  <2>2. Live(id, pass.ref)
    BY <1>1, <2>1 DEF Live, Bound, OneBackend
  <2>3. ASSUME MovedTo("update") PROVE Carried'
    <3>1. /\ pass'.pc = "update" /\ pass'.obj.status.id = id
          /\ Holding(id, pass'.fresh)
      BY <1>4, <2>3 DEF MovedTo
    <3> QED BY <1>1, <2>1, <3>1, CarriedForm
  <2> QED BY <1>5, <1>7, <2>2, <2>3, OnExistingObjectEffect
<1>8. CASE OnNewObject \/ OnConflict
  BY <1>3, <1>5, <1>6, <1>8, OnNewObjectEffect, OnConflictEffect
<1> QED BY <1>3, <1>5, <1>7, <1>8, UpdateEffect

\* The POST: the annotation is up, and whatever id is recorded is no object's.
LEMMA CreateBinding ==
  ASSUME TypeOK, OneMirror, Inductive, SingleInductive, BindingInductive, Create
  PROVE  Accounted' /\ Carried'
<1> DEFINE id == pass.obj.status.id
<1>0. pass.pc = "create" /\ pass.pc \in LivePcs /\ UNCHANGED versions /\ store' = store
  BY DEF Create, LivePcs, store
<1>1. /\ Accounted /\ Carried /\ Held(store) /\ Named(store) /\ NoId \notin Bound
      /\ store.attempt
  BY <1>0, LivePass DEF Inductive, AttemptOnRecord
<1>2. Bound = {} /\ Bound \subseteq Bound'
  BY CreateKindred
<1>3. Accounted'
  BY <1>0, <1>1, <1>2, AccountedUnwritten
<1>4. ASSUME NEW fresh, fresh => pass.fresh PROVE Holding(id, fresh)
  BY <1>0, <1>1, <1>2, <1>4, HoldingOn
<1>5. ASSUME EndedWith(pass, id) PROVE Carried'
  <2>1. pass' = Idle \/ Holding(id, pass'.fresh)
    BY <1>4, <1>5 DEF EndedWith
  <2> QED BY <1>5, <2>1, IdleFields, CarriedEnds, CarriedElsewhere
<1>6. ASSUME NEW new \in Ids, Bound' = {new}, EndedWith(pass, new) PROVE Carried'
  <2>1. new # NoId
    BY IdsAssumption
  <2>2. Holding(new, pass'.fresh)
    BY <1>0, <1>1, <1>2, <1>6, <2>1 DEF Holding, Named
  <2> QED BY <1>6, <2>2, CarriedEnds
<1>7. ASSUME NEW pc \in {"dropRejected", "conflictFind"}, MovedTo(pc) PROVE Carried'
  <2>1. pass'.pc = pc /\ pass'.obj.status.id = id /\ Holding(id, pass'.fresh)
    BY <1>4, <1>7 DEF MovedTo
  <2> QED BY <1>7, <2>1, CarriedForm
<1>8. CASE UNCHANGED remote
  <2>3. \/ EndedWith(pass, id) \/ MovedTo("dropRejected") \/ MovedTo("conflictFind")
        \/ \E j \in NextIds : remote' = [remote EXCEPT ![j] = Posted(pass.ref, pass.obj.spec, "live", TRUE)]
    BY CreateEffect DEF OneMirror
  <2>4. ASSUME NEW j \in NextIds,
               remote' = [remote EXCEPT ![j] = Posted(pass.ref, pass.obj.spec, "live", TRUE)]
        PROVE  FALSE
    <3>1. j \in Ids /\ remote[j].state = "unborn" /\ remote \in [Ids -> RemoteObjects]
      BY PassFacts DEF NextIds
    <3>2. remote'[j].state = "live"
      BY <2>4, <3>1 DEF Posted
    <3> QED BY <1>8, <3>1, <3>2
  <2> QED BY <1>3, <1>5, <1>7, <2>3, <2>4
<1>9. CASE \E new \in Ids : /\ Bound' = {new}
                            /\ EndedWith(pass, new) \/ EndedWith(pass, id)
  BY <1>3, <1>5, <1>6, <1>9
<1>10. \/ UNCHANGED remote
       \/ \E j \in NextIds : remote' = [remote EXCEPT ![j] = Posted(pass.ref, pass.obj.spec, "live", TRUE)]
  BY CreateEffect DEF OneMirror
<1>11. ASSUME Bound' = {}, NEW j \in NextIds,
              remote' = [remote EXCEPT ![j] = Posted(pass.ref, pass.obj.spec, "live", TRUE)]
       PROVE  FALSE
  <2>1. j \in Ids /\ remote \in [Ids -> RemoteObjects]
    BY PassFacts DEF NextIds
  <2>2. remote'[j].state = "live" /\ remote'[j].mine
    BY <1>11, <2>1 DEF Posted
  <2> QED BY <1>11, <2>1, <2>2 DEF Bound
<1> QED BY <1>8, <1>9, <1>10, <1>11, CreateKindred

\* The annotation goes up, and an adopt takes hold of its target with it.
LEMMA MarkBinding ==
  ASSUME TypeOK, Inductive, SingleInductive, BindingInductive, AddCreateAttemptAnnotation
  PROVE  Accounted' /\ Carried'
<1> DEFINE id == pass.obj.status.id
           marked == Marked(store)
<1>0. pass.pc = "mark" /\ pass.pc \in LivePcs
  BY DEF AddCreateAttemptAnnotation, LivePcs
<1>1. /\ Accounted /\ Carried /\ Held(store) /\ Named(store) /\ NoId \notin Bound
      /\ Named(pass.obj)
  BY <1>0, LivePass
<1>2. /\ marked \in Objects /\ marked.status = store.status /\ marked.attempt
      /\ marked.exists = store.exists /\ marked.finalizer = store.finalizer
      /\ marked.deleting = store.deleting
  BY WrittenType, StoreType DEF Marked, Objects
<1>3. UNCHANGED versions \/ Write(marked)
  BY AddCreateAttemptEffect
<1>4. UNCHANGED remote \/ /\ pass.target # NoId /\ RefreshedTo("read", pass.target)
                          /\ Patched(marked)
                          /\ remote' = [remote EXCEPT ![pass.target].mine = TRUE]
  BY AddCreateAttemptEffect
<1>5. Bound \subseteq Bound'
  BY <1>0, <1>4, AdoptKindred DEF Bound
<1> HIDE DEF marked
<1>6. store'.status.id = store.status.id /\ (store.attempt => store'.attempt)
      /\ (Patched(marked) => store'.attempt)
  <2>1. CASE Write(marked)
    BY <1>2, <2>1, WriteEffect
  <2>2. CASE UNCHANGED versions
    <3>1. store' = store
      BY <2>2 DEF store
    <3>2. Patched(marked) => store'.attempt
      BY <1>2, <3>1, WriteEffect DEF Patched
    <3> QED BY <3>1, <3>2
  <2> QED BY <1>3, <2>1, <2>2
<1>7. Accounted'
  <2>1. CASE Write(marked)
    <3>1. Held(marked) /\ (BoundLive(marked) => BoundLive(store)) /\ marked.status.id \in {NoId} \cup Bound'
      BY <1>1, <1>2, <1>5 DEF Held, BoundLive, Named
    <3> QED BY <1>1, <1>2, <1>5, <2>1, <3>1, AccountedWritten DEF Held
  <2>2. CASE UNCHANGED versions
    <3>1. store' = store
      BY <2>2 DEF store
    <3>2. Bound' = Bound \/ store.attempt
      BY <1>4, <1>6, <3>1 DEF Bound
    <3> QED BY <1>1, <1>5, <2>2, <3>2, AccountedUnwritten
  <2> QED BY <1>3, <2>1, <2>2
<1>8. ASSUME NEW fresh, fresh => pass.fresh PROVE Holding(id, fresh)
  BY <1>0, <1>1, <1>5, <1>6, <1>8, HoldingOn
<1>9. ASSUME EndedWith(pass, id) PROVE Carried'
  <2>1. pass' = Idle \/ Holding(id, pass'.fresh)
    BY <1>8, <1>9 DEF EndedWith
  <2> QED BY <1>9, <2>1, IdleFields, CarriedEnds, CarriedElsewhere
<1>10. ASSUME Patched(marked), RefreshedTo("create", Kept(store.status.id, id, NoId))
       PROVE  Carried'
  <2>1. Holding(Kept(store.status.id, id, NoId), pass'.fresh)
    BY <1>1, <1>5, <1>6, <1>10 DEF Holding, Kept, Named
  <2> QED BY <1>10, <2>1, CarriedForm DEF RefreshedTo
<1>11. ASSUME Patched(marked), pass.target # NoId, RefreshedTo("read", pass.target),
              remote' = [remote EXCEPT ![pass.target].mine = TRUE]
       PROVE  Carried'
  <2>1. remote[pass.target].state = "live"
    BY <1>0, <1>1, <1>11 DEF Carried, PassBound
  <2>2. pass.target \in Bound'
    BY <1>0, <1>11, <2>1, AdoptKindred
  <2>3. Holding(pass.target, pass'.fresh)
    BY <1>1, <1>5, <1>6, <1>11, <2>2 DEF Holding, Named
  <2> QED BY <1>11, <2>3, CarriedForm DEF RefreshedTo
<1>12. \/ EndedWith(pass, id)
       \/ Patched(marked) /\ RefreshedTo("create", Kept(store.status.id, id, NoId))
       \/ /\ Patched(marked) /\ pass.target # NoId /\ RefreshedTo("read", pass.target)
          /\ remote' = [remote EXCEPT ![pass.target].mine = TRUE]
  BY AddCreateAttemptEffect DEF marked
<1> QED BY <1>7, <1>9, <1>10, <1>11, <1>12

\* The annotation comes down when nothing is bound, or behind the id on record.
LEMMA DropBinding ==
  ASSUME TypeOK, Inductive, SingleInductive, BindingInductive, RemoveCreateAttemptAnnotation
  PROVE  Accounted' /\ Carried'
<1> DEFINE id == pass.obj.status.id
           kept == Kept(store.status.id, id, NoId)
<1>0. /\ pass.pc \in {"dropRejected", "dropAttempt"} /\ pass.pc \in LivePcs
      /\ UNCHANGED remote /\ Bound' = Bound
  BY DEF RemoveCreateAttemptAnnotation, PatchAttemptOff, LivePcs, Bound
<1>1. /\ Accounted /\ Carried /\ Held(store) /\ Named(store) /\ NoId \notin Bound
      /\ Named(pass.obj) /\ \A i, j \in Bound : i = j
  BY <1>0, LivePass
<1>2. PICK cleared \in ClearedForms : UNCHANGED versions \/ Write(cleared)
  BY RemoveCreateAttemptEffect
<1>3. \/ Bound = {} /\ store.status.id = NoId /\ id = NoId
      \/ pass.pc = "dropAttempt" /\ Bound = {store.status.id}
  <2>1. pass.pc = "dropRejected" => Bound = {}
    BY DEF SingleInductive, LookedUp
  <2>2. pass.pc = "dropAttempt" => store.status.id \in Bound
    BY <1>0, <1>1 DEF Carried, PassBound, Named
  <2> QED BY <1>0, <1>1, <2>1, <2>2 DEF Named
<1>4. /\ cleared \in Objects /\ cleared.status = store.status
      /\ cleared.exists = store.exists /\ cleared.finalizer = store.finalizer
      /\ cleared.deleting = store.deleting
  BY ClearedType
<1>5. /\ \/ EndedWith(pass, id) /\ (UNCHANGED versions \/ pass'.fresh = FALSE)
         \/ pass' = Idle
         \/ RefreshedTo("read", kept) /\ pass.pc = "dropAttempt"
         \/ RefreshedTo("status", kept)
  BY RemoveCreateAttemptEffect
<1>6. store'.status.id = store.status.id /\ (UNCHANGED versions => store' = store)
  BY <1>2, <1>4, WriteEffect DEF store
<1>7. Accounted'
  <2>1. CASE Write(cleared)
    <3>1. Held(cleared) /\ cleared.status.id \in {NoId} \cup Bound'
      BY <1>0, <1>1, <1>4 DEF Held, Named
    <3> QED BY <1>0, <1>1, <1>3, <1>4, <2>1, <3>1, AccountedWritten DEF Held
  <2>2. CASE UNCHANGED versions
    BY <1>0, <1>1, <2>2, AccountedUnwritten
  <2> QED BY <1>2, <2>1, <2>2
<1>8. CASE EndedWith(pass, id) /\ (UNCHANGED versions \/ pass'.fresh = FALSE)
  <2>1. ASSUME NEW fresh, fresh => pass.fresh /\ UNCHANGED versions PROVE Holding(id, fresh)
    BY <1>0, <1>1, <1>6, <2>1, HoldingOn
  <2>2. pass' = Idle \/ Holding(id, pass'.fresh)
    BY <1>8, <2>1 DEF EndedWith
  <2> QED BY <1>7, <1>8, <2>2, IdleFields, CarriedEnds, CarriedElsewhere
<1>9. Holding(kept, pass'.fresh) /\ kept = store.status.id
  BY <1>0, <1>1, <1>3, <1>6 DEF Holding, Kept, Named
<1> HIDE DEF kept
<1>10. CASE pass' = Idle
  BY <1>7, <1>10, IdleFields, CarriedElsewhere
<1>11. CASE RefreshedTo("read", kept) /\ pass.pc = "dropAttempt"
  <2>1. kept # NoId
    BY <1>0, <1>1, <1>9, <1>11 DEF Carried, PassBound
  <2> QED BY <1>7, <1>9, <1>11, <2>1, CarriedForm DEF RefreshedTo
<1>12. CASE RefreshedTo("status", kept)
  BY <1>7, <1>9, <1>12, CarriedForm DEF RefreshedTo
<1> QED BY <1>5, <1>8, <1>10, <1>11, <1>12

\* The status is written only over the object it was read from.
LEMMA UpdateStatusBinding ==
  ASSUME TypeOK, Inductive, SingleInductive, BindingInductive, UpdateStatus
  PROVE  Accounted' /\ Carried'
<1> DEFINE reported == [store EXCEPT !.status = pass.obj.status]
           id == pass.obj.status.id
<1>0. /\ pass.pc = "status" /\ pass.pc \in LivePcs /\ pass' = Idle
      /\ Bound' = Bound
  BY UpdateStatusEffect DEF LivePcs, Bound
<1>1. /\ Accounted /\ Carried /\ Held(store) /\ Named(store) /\ NoId \notin Bound
      /\ Named(pass.obj)
  BY <1>0, LivePass
<1>2. /\ reported \in Objects /\ reported.status = pass.obj.status
      /\ reported.exists = store.exists /\ reported.finalizer = store.finalizer
      /\ reported.deleting = store.deleting /\ reported.attempt = store.attempt
  BY WrittenType, StoreType DEF Objects
<1>3. Carried'
  BY <1>0, IdleFields, CarriedElsewhere
<1>4. CASE UNCHANGED versions
  BY <1>0, <1>1, <1>3, <1>4, AccountedUnwritten
<1>5. CASE pass.fresh /\ Write(reported)
  <2> HIDE DEF reported
  <2>1. /\ store.status.id # NoId => id # NoId
        /\ store.status.id # id => store.attempt
    BY <1>0, <1>1, <1>5 DEF Carried, PassBound
  <2>2. \A b \in Bound : store.status.id = b \/ store.attempt
    BY <1>1 DEF Accounted, BindingKnown, Bound
  <2>3. Held(reported) /\ reported.status.id \in {NoId} \cup Bound'
    BY <1>0, <1>1, <1>2 DEF Held, Named
  <2> QED BY <1>0, <1>1, <1>2, <1>3, <1>5, <2>1, <2>2, <2>3, AccountedWritten DEF Held
<1> QED BY <1>4, <1>5, UpdateStatusEffect

-----------------------------------------------------------------------------
(* The other steps *)

\* The steps of finalize: no version is live, so no pass over a live CR starts
\* from what they leave.
LEMMA FinalizeBinding ==
  ASSUME TypeOK, Inductive, SingleInductive, BindingInductive,
         FinalizeFind \/ Reclaim \/ RemoveFinalizer
  PROVE  Accounted' /\ Carried'
<1>0. Accounted /\ \A i \in 1..Len(versions) : ~BoundLive(versions[i])
  BY BindingForm, FinalizeFindEffect, ReclaimEffect, RemoveFinalizerEffect
     DEF Inductive, FinalizingGone, FinalizePcs
<1>1. pass'.pc \in {"idle"} \cup FinalizePcs
  BY FinalizeFindType, ReclaimType, RemoveFinalizerEffect, IdleFields DEF FinalizePcs
<1>2. Carried'
  BY <1>1, CarriedElsewhere
<1>3. ASSUME UNCHANGED <<versions, remote>> PROVE Accounted'
  <2>1. Bound' = Bound
    BY <1>3 DEF Bound
  <2> QED BY <1>0, <1>3, <2>1, AccountedUnwritten
<1>4. CASE Reclaim
  BY <1>0, <1>2, <1>4, ReclaimKindred, ReclaimEffect, AccountedUnwritten
<1>5. CASE Write(Absent) /\ Release
  <2>1. Bound' = {}
    BY <1>5, SingleForm, ReleaseKindred
  <2>2. /\ Absent \in Objects /\ ~Held(Absent) /\ ~BoundLive(Absent)
        /\ ~Absent.attempt /\ Absent.status.id = NoId
    BY Starts, IdleFields DEF Held, BoundLive
  <2> QED BY <1>0, <1>2, <1>5, <2>1, <2>2, AccountedWritten
<1> QED BY <1>2, <1>3, <1>4, <1>5, FinalizeFindEffect, RemoveFinalizerEffect

\* A pass starts from a version the cache holds.
LEMMA ReconcileBinding ==
  ASSUME TypeOK, SingleInductive, BindingInductive, Reconcile
  PROVE  Accounted' /\ Carried'
<1>0. /\ Accounted /\ UNCHANGED <<versions, remote>> /\ Bound' = Bound /\ store' = store
      /\ Len(versions) \in Nat \ {0} /\ cache = versions[1]
      /\ Len(versions) = 1 => cache = store
  BY BindingForm, ReconcileEffect, StoreType DEF Bound, store
<1>1. Accounted'
  BY <1>0, AccountedUnwritten
<1>2. CASE pass'.pc \in {"idle"} \cup FinalizePcs
  BY <1>1, <1>2, CarriedElsewhere
<1>3. CASE /\ ~cache.finalizer /\ pass'.pc = "addFinalizer"
           /\ pass'.fresh = (Len(versions) = 1)
  BY <1>0, <1>1, <1>3, CarriedForm DEF LivePcs
<1>4. CASE BoundLive(cache) /\ Planned(cache, Len(versions) = 1) /\ pass' # Idle
  <2>1. /\ Named(cache) /\ Named(store)
        /\ cache.status.id # NoId => store.status.id # NoId
    <3>1. 1 \in 1..Len(versions)
      BY <1>0
    <3> QED BY <1>0, <1>4, <3>1, CachedSays DEF Accounted
  <2>2. /\ pass'.fresh => Len(versions) = 1
        /\ pass'.obj.status.id = cache.status.id
        /\ \/ pass'.pc \in {"status", "find"}
           \/ pass'.pc \in {"dropAttempt", "read"} /\ cache.status.id # NoId
    BY <1>4 DEF Planned
  <2>3. Holding(pass'.obj.status.id, pass'.fresh)
    BY <1>0, <2>1, <2>2 DEF Holding, Named
  <2> QED BY <1>0, <1>1, <2>1, <2>2, <2>3, CarriedForm
<1>5. ASSUME Finalizing(cache, Len(versions) = 1) PROVE pass'.pc \in {"idle"} \cup FinalizePcs
  BY <1>5, IdleFields DEF Finalizing, FinalizePcs
<1> QED BY <1>2, <1>3, <1>4, <1>5, ReconcileEffect, IdleFields

\* The finalizer is added to a CR that had none: nothing is bound to it yet.
LEMMA AddFinalizerBinding ==
  ASSUME TypeOK, Inductive, SingleInductive, BindingInductive, AddFinalizer
  PROVE  Accounted' /\ Carried'
<1> DEFINE added == [store EXCEPT !.finalizer = TRUE]
<1>0. /\ Accounted /\ Carried /\ UNCHANGED remote /\ Bound' = Bound
      /\ pass.pc = "addFinalizer"
  BY BindingForm, AddFinalizerEffect DEF Bound
<1>1. CASE pass' = Idle /\ UNCHANGED versions
  BY <1>0, <1>1, AccountedUnwritten, IdleFields, CarriedElsewhere
<1>2. CASE pass.fresh /\ Write(added) /\ Planned(added, TRUE)
  <2>1. store \in Objects /\ ~store.finalizer
    BY <1>0, <1>2, StoreType DEF Carried, HoldsOnce
  <2>2. Bound = {} /\ ~store.attempt /\ store.status.id = NoId
    BY <1>0, <2>1 DEF Accounted, HoldAccounts, Held
  <2>3. /\ added \in Objects /\ added.status.id = NoId /\ added.attempt = store.attempt
    BY <2>1, <2>2 DEF Objects
  <2> HIDE DEF added
  <2>4. store' = added
    BY <1>2, <2>3, WriteEffect
  <2>5. Accounted'
    BY <1>0, <1>2, <2>2, <2>3, AccountedWritten
  <2>6. Holding(NoId, TRUE) /\ Holding(NoId, FALSE)
    BY <2>3, <2>4 DEF Holding
  <2>7. CASE pass' = Idle
    BY <2>5, <2>7, IdleFields, CarriedElsewhere
  <2>8. CASE pass' # Idle
    <3>1. pass'.obj.status.id = NoId /\ pass'.pc \in {"status", "find"}
      BY <1>2, <2>3, <2>8 DEF Planned
    <3>2. Holding(NoId, pass'.fresh)
      BY <2>3, <2>4 DEF Holding
    <3> QED BY <2>5, <3>1, <3>2, CarriedForm
  <2> QED BY <2>7, <2>8
<1> QED BY <1>1, <1>2, AddFinalizerEffect

\* The user edits and deletes the CR; the status stays.
LEMMA UserBinding ==
  ASSUME TypeOK, OneMirror, Inductive, SingleInductive, BindingInductive, User, Undeleted
  PROVE  Accounted' /\ Carried'
<1>0. Accounted /\ Carried /\ Pins = {} /\ ~LoseStatus
  BY BindingForm DEF OneMirror, Undeleted
<1>1. PICK o : /\ Touched(o)
               /\ \/ /\ ~Held(store) /\ ~Held(o)
                     /\ o.pin = NoId /\ o.status.id = NoId /\ ~o.attempt
                  \/ /\ o.pin = store.pin /\ o.attempt = store.attempt
                     /\ Held(o) <=> Held(store)
                     /\ BoundLive(o) => BoundLive(store)
                     /\ o.status.id = store.status.id
  BY <1>0, UserEffect
<1>2. /\ o \in Objects /\ Write(o) /\ UNCHANGED remote /\ Bound' = Bound
      /\ store' = o
  BY <1>1, WriteEffect DEF Touched, Bound
<1>3. /\ pass'.pc = pass.pc /\ pass'.fresh = FALSE /\ pass'.obj = pass.obj
      /\ pass'.target = pass.target
  BY <1>1, OutdatedType DEF Touched, Overtaken
<1>4. \A i \in 1..Len(versions) : BoundLive(versions[i]) => Held(store)
  BY SameHoldFits
<1>5. Len(versions) \in 1..Len(versions) /\ store = versions[Len(versions)]
  BY StoreType DEF store
<1>6. CASE ~Held(store) /\ ~Held(o) /\ o.status.id = NoId /\ ~o.attempt
  <2>1. Bound = {} /\ ~BoundLive(o)
    BY <1>0, <1>6 DEF Accounted, HoldAccounts, BoundLive
  <2>2. Accounted'
    BY <1>0, <1>2, <1>4, <1>6, <2>1, AccountedWritten
  <2>3. pass'.pc \notin LivePcs
    BY <1>3, <1>6 DEF Inductive, LiveHeld
  <2>4. Carried'
    BY <1>3, <2>3, CarriedForm DEF LivePcs
  <2> QED BY <2>2, <2>4
<1>7. CASE /\ o.attempt = store.attempt /\ (Held(o) <=> Held(store))
           /\ BoundLive(o) => BoundLive(store)
           /\ o.status.id = store.status.id
  <2>1. \A i \in 1..Len(versions) : BoundLive(versions[i]) => Named(store)
    BY <1>0, CachedSays DEF Accounted
  <2>2. \A id \in Bound : store.status.id = id \/ store.attempt
    BY <1>0 DEF Accounted, BindingKnown, Bound
  <2>3. Bound # {} => Held(o) /\ Named(store)
    BY <1>0, <1>7 DEF Accounted, HoldAccounts
  <2>4. ~Held(o) => ~o.attempt /\ o.status.id = NoId
    BY <1>0, <1>7 DEF Accounted, HoldAccounts
  <2>5. Accounted'
    BY <1>0, <1>2, <1>5, <1>7, <2>1, <2>2, <2>3, <2>4, AccountedWritten DEF Named, Held
  <2>6. pass.pc \in LivePcs => Holding(pass.obj.status.id, FALSE)
    BY <1>0, <1>2, <1>7, HoldingOn
  <2>7. /\ pass.pc \in {"read", "update", "dropAttempt"} => pass.obj.status.id # NoId
        /\ pass.pc = "dropAttempt" => store.status.id # NoId
        /\ pass.pc = "mark" /\ pass.target # NoId => remote[pass.target].state = "live"
    BY <1>0 DEF Carried, PassBound, LivePcs
  <2>8. Carried'
    BY <1>2, <1>3, <1>7, <2>6, <2>7, CarriedForm
  <2> QED BY <2>5, <2>8
<1> QED BY <1>1, <1>6, <1>7

\* A step that leaves the pass and the API server's object as they are.
LEMMA CarriedOn ==
  ASSUME Carried, store' = store, pass' = pass, Bound' = Bound,
         \A id \in Ids : remote[id].state = "live" => remote'[id].state = "live",
         pass.target \in Ids \cup {NoId}
  PROVE  Carried'
<1>1. HoldsOnce'
  BY DEF Carried, HoldsOnce
<1>2. PassBound'
  BY DEF Carried, PassBound
<1> QED BY <1>1, <1>2 DEF Carried, Named

\* The steps of the environment.
LEMMA RestBinding ==
  ASSUME TypeOK, OneMirror, Inductive, SingleInductive, BindingInductive, Undeleted,
         Deliver \/ Tick \/ User \/ Others \/ Nudge \/ Crash \/ UNCHANGED vars
  PROVE  Accounted' /\ Carried'
<1>0. Accounted /\ Carried /\ pass.target \in Ids \cup {NoId}
  BY BindingForm, PassFacts
<1>1. CASE Others
  <2>1. /\ UNCHANGED <<versions, pass>> /\ Bound' = Bound /\ store' = store
        /\ \A j \in Ids : remote[j].state = "live" => remote'[j].state = "live"
    BY <1>1, OthersType, OthersKindred DEF store
  <2> QED BY <1>0, <2>1, AccountedUnwritten, CarriedOn
<1>2. CASE Tick \/ Nudge \/ UNCHANGED vars
  <2>1. UNCHANGED <<versions, pass, remote>> /\ Bound' = Bound /\ store' = store
    BY <1>2 DEF Tick, Nudge, vars, Bound, store
  <2> QED BY <1>0, <2>1, AccountedUnwritten, CarriedOn
<1>3. CASE Deliver
  <2>1. UNCHANGED <<pass, remote>>
    BY <1>3 DEF Deliver
  <2> QED BY <1>0, <1>3, <2>1, AccountedDelivered, CarriedOn
<1>4. CASE Crash
  <2>1. pass' = Idle
    BY <1>4 DEF Crash
  <2> QED BY <1>0, <1>4, <2>1, AccountedDelivered, IdleFields, CarriedElsewhere
<1> QED BY <1>1, <1>2, <1>3, <1>4, UserBinding

\* BindingInductive is inductive together with the two invariants before it.
LEMMA BindingStep ==
  ASSUME TypeOK, OneMirror, Inductive, SingleInductive, BindingInductive,
         [Next]_vars, Undeleted
  PROVE  BindingInductive'
<1>1. CASE Pass
  <2>1. Accounted' /\ Carried'
    BY <1>1, LookingBinding, CreateBinding, MarkBinding, DropBinding, UpdateStatusBinding,
       FinalizeBinding, ReconcileBinding, AddFinalizerBinding DEF Pass
  <2> QED BY <2>1, BindingForm, PTL
<1>2. CASE Deliver \/ Tick \/ User \/ Others \/ Nudge \/ Crash \/ UNCHANGED vars
  <2>1. Accounted' /\ Carried'
    BY <1>2, RestBinding
  <2> QED BY <2>1, BindingForm, PTL
<1> QED BY <1>1, <1>2 DEF Next

\* As long as nobody deletes objects in SigNoz or restores the CR without its
\* status, the record of a CR that keeps to one identity accounts for what it
\* has there, through every stale cache, lost answer, conflict and crash.
THEOREM BindingInductiveHolds ==
  ASSUME OneMirror
  PROVE  Spec /\ [][Undeleted]_vars => []BindingInductive
<1>1. Init => BindingInductive
  <2> SUFFICES ASSUME Init PROVE BindingInductive
    OBVIOUS
  <2>1. pass = Idle /\ versions = <<Absent>> /\ remote = [id \in Ids |-> Unborn]
    BY DEF Init
  <2>2. Bound = {}
    BY <2>1 DEF Bound, Unborn
  <2>3. Len(versions) = 1 /\ versions[1] = Absent /\ store = Absent
    BY <2>1 DEF store
  <2>4. Idle.pc \notin LivePcs
    BY IdleFields DEF LivePcs
  <2>5. HoldAccounts /\ HoldsOnce /\ RecordedBound /\ CachedBound /\ PassBound
    BY <2>1, <2>2, <2>3, <2>4, IdleFields
       DEF HoldAccounts, HoldsOnce, RecordedBound, CachedBound, PassBound
  <2>6. BindingKnown
    BY <2>2 DEF BindingKnown, Bound
  <2> QED BY <2>5, <2>6 DEF BindingInductive
<1>2. /\ TypeOK /\ Inductive /\ SingleInductive /\ BindingInductive
      /\ [Next]_vars /\ [Undeleted]_vars
      => BindingInductive'
  <2>1. ASSUME TypeOK, Inductive, SingleInductive, BindingInductive, UNCHANGED vars
        PROVE  BindingInductive'
    BY <2>1 DEF BindingInductive, vars, HoldAccounts, HoldsOnce, RecordedBound,
       CachedBound, PassBound, BindingKnown, Bound, store
  <2> QED BY <2>1, BindingStep
<1> QED BY <1>1, <1>2, TypeCorrect, InductiveHolds, SingleInductiveHolds, PTL DEF Spec

\* Every live object a create or an adopt bound to the CR is named by its status
\* or announced by its annotation.
THEOREM BindingKnownHolds ==
  ASSUME OneMirror
  PROVE  Spec /\ [][Undeleted]_vars => []BindingKnown
<1>1. BindingInductive => BindingKnown
  BY DEF BindingInductive
<1> QED BY <1>1, BindingInductiveHolds, PTL

-----------------------------------------------------------------------------
(* What finalize knows before it lets go of the CR *)

\* The parts of ReleaseInductive that speak of the pass.
Releasing ==
  /\ pass.pc \in FinalizePcs /\ pass.fresh => Held(store)
  /\ pass.pc = "reclaim" /\ pass.fresh => Bound \subseteq {pass.target}
  /\ pass.pc = "removeFinalizer" /\ pass.fresh => Bound = {}

\* ReleaseInductive, by what the objects and what the pass must satisfy.
LEMMA ReleaseForm == ReleaseInductive <=> LiveIsMine /\ Releasing
BY DEF ReleaseInductive, Releasing

\* Nothing is asked of a pass that does not finalize a fresh copy.
LEMMA NotReleasing ==
  ASSUME pass'.pc \notin FinalizePcs \/ ~pass'.fresh
  PROVE  Releasing'
BY DEF Releasing, FinalizePcs

\* The steps of a pass over a live CR bind what they make.
LEMMA LivePassMine ==
  ASSUME TypeOK, OneMirror, SingleInductive, LiveIsMine,
         \/ OnNewObject \/ OnConflict \/ OnExistingObject \/ Update \/ Create
         \/ AddCreateAttemptAnnotation \/ RemoveCreateAttemptAnnotation \/ UpdateStatus
  PROVE  LiveIsMine' /\ Releasing'
<1>1. pass'.pc \in {"idle"} \cup LivePcs
  BY OnNewObjectType, OnConflictType, OnExistingObjectType, UpdateType, CreateType,
     AddCreateAttemptType, RemoveCreateAttemptType, UpdateStatusEffect, IdleFields DEF LivePcs
<1>2. Releasing'
  BY <1>1, NotReleasing DEF LivePcs, FinalizePcs
<1>3. CASE UNCHANGED remote \/ SameButTouched
  <2>1. \A j \in Ids : SameObject(j)
    BY <1>3, UnchangedObjects, TouchedObjects
  <2> QED BY <1>2, <2>1 DEF LiveIsMine, SameObject
<1>4. CASE Update
  BY <1>2, <1>4, UpdateKindred DEF LiveIsMine
<1>5. CASE Create
  <2>1. \A j \in Ids : SameObject(j) \/ remote'[j].mine
    BY <1>5, CreateKindred
  <2> QED BY <1>2, <2>1 DEF LiveIsMine, SameObject
<1>6. CASE AddCreateAttemptAnnotation
  <2>1. CASE pass.target # NoId /\ remote' = [remote EXCEPT ![pass.target].mine = TRUE]
    <3>1. pass.pc = "mark"
      BY <1>6, AddCreateAttemptEffect
    <3>2. \A j \in Ids : remote'[j].state = remote[j].state /\ (remote[j].mine => SameObject(j))
      BY <2>1, <3>1, AdoptKindred
    <3> QED BY <1>2, <3>2 DEF LiveIsMine, SameObject
  <2> QED BY <1>3, <1>6, <2>1, AddCreateAttemptEffect
<1> QED BY <1>3, <1>4, <1>5, <1>6, OnNewObjectEffect, OnConflictEffect,
        OnExistingObjectEffect, RemoveCreateAttemptEffect, UpdateStatusEffect

\* A pass that starts on a deleted CR knows what is bound to it.
LEMMA StartMine ==
  ASSUME TypeOK, OneMirror, Reclaims, SingleInductive, BindingInductive, LiveIsMine,
         Reconcile \/ AddFinalizer
  PROVE  LiveIsMine' /\ Releasing'
<1>0. UNCHANGED remote /\ Bound' = Bound /\ Bound \subseteq Ids /\ LiveIsMine'
  BY ReconcileEffect, AddFinalizerEffect DEF Bound, LiveIsMine
<1>1. ASSUME NEW o, NEW fresh, Planned(o, fresh) PROVE pass'.pc \notin FinalizePcs
  BY <1>1, IdleFields DEF Planned, FinalizePcs
<1>2. CASE AddFinalizer
  <2>1. pass'.pc \notin FinalizePcs
    BY <1>1, <1>2, AddFinalizerEffect, IdleFields DEF FinalizePcs
  <2> QED BY <1>0, <2>1, NotReleasing
<1>3. CASE Reconcile /\ pass'.pc \in FinalizePcs /\ pass'.fresh
  <2>1. pass'.pc # "idle" /\ pass'.pc # "addFinalizer"
    BY <1>3 DEF FinalizePcs
  <2>2. Held(cache) /\ Finalizing(cache, Len(versions) = 1) /\ UNCHANGED versions
    BY <1>1, <1>3, <2>1, ReconcileEffect, IdleFields
  <2>3. /\ pass'.obj = cache /\ Len(versions) = 1
        /\ \/ /\ pass'.pc = "removeFinalizer"
              /\ \/ cache.spec.reclaimPolicy = "Orphan" \/ Unbound(cache)
                 \/ cache.spec.ident = NoIdent
           \/ pass'.pc = "reclaim" /\ cache.status.id # NoId /\ pass'.target = cache.status.id
           \/ pass'.pc = "finalizeFind"
    BY <1>3, <2>1, <2>2, IdleFields DEF Finalizing
  <2>4. /\ cache = store /\ store' = store /\ cache \in Objects /\ cache.spec \in Specs
    BY <2>2, <2>3, StoreType DEF store, Objects
  <2>5. Held(store)'
    BY <2>2, <2>4 DEF Held
  <2>6. pass'.pc = "reclaim" => Bound \subseteq {store.status.id}
    <3>1. \A i, j \in Bound : i = j
      BY DEF SingleInductive, AtMostOneObject, Bound
    <3> QED BY <2>3, <2>4, <3>1 DEF BindingInductive, RecordedBound
  <2>7. pass'.pc = "removeFinalizer" => Bound = {}
    <3>1. ASSUME Unbound(store) PROVE Bound = {}
      <4>1. store.status.id = NoId /\ ~store.attempt /\ NoId \notin Ids
        BY <3>1, IdsAssumption DEF Unbound
      <4> QED BY <4>1 DEF BindingInductive, BindingKnown, Bound
    <3> QED BY <2>3, <2>4, <3>1 DEF Reclaims
  <2> QED BY <1>0, <2>3, <2>4, <2>5, <2>6, <2>7 DEF Releasing
<1>4. CASE pass'.pc \notin FinalizePcs \/ ~pass'.fresh
  BY <1>0, <1>4, NotReleasing
<1> QED BY <1>2, <1>3, <1>4

\* The steps of finalize: the finalizer goes when nothing is left.
LEMMA FinalizeMine ==
  ASSUME TypeOK, OneMirror, Reclaims, SingleInductive, ReleaseInductive,
         FinalizeFind \/ Reclaim \/ RemoveFinalizer
  PROVE  LiveIsMine' /\ Releasing'
<1>0. /\ LiveIsMine /\ Releasing /\ Kindred /\ Bound \subseteq Ids
      /\ pass.obj.spec \in Specs /\ pass.obj.spec.ident # NoIdent /\ pass.ref = AnySpec.ref
  BY ReleaseForm, SingleForm, PassFacts DEF Bound, Reclaims, Shaped
<1>1. CASE FinalizeFind
  <2>1. /\ UNCHANGED <<versions, remote>> /\ pass.pc \in FinalizePcs
        /\ Bound' = Bound /\ store' = store /\ LiveIsMine'
    BY <1>0, <1>1, FinalizeFindEffect DEF Bound, store, LiveIsMine, FinalizePcs
  <2>2. Bound \subseteq Find(pass.ref, pass.obj.spec)
    BY <1>0, FindsAll DEF SingleInductive
  <2>3. CASE pass' = Idle
    BY <2>1, <2>3, IdleFields, NotReleasing
  <2>4. CASE MovedTo("removeFinalizer") /\ Find(pass.ref, pass.obj.spec) = {}
    <3>1. pass'.pc = "removeFinalizer" /\ pass'.fresh = pass.fresh
      BY <2>4 DEF MovedTo
    <3> QED BY <1>0, <2>1, <2>2, <2>4, <3>1 DEF Releasing, Held
  <2>5. CASE MovedTo("reclaim") /\ Find(pass.ref, pass.obj.spec) = {pass'.target}
    <3>1. pass'.pc = "reclaim" /\ pass'.fresh = pass.fresh
      BY <2>5 DEF MovedTo
    <3> QED BY <1>0, <2>1, <2>2, <2>5, <3>1 DEF Releasing, Held
  <2> QED BY <1>1, <2>3, <2>4, <2>5, FinalizeFindEffect
<1>2. CASE Reclaim
  <2>1. /\ UNCHANGED versions /\ pass.pc = "reclaim" /\ pass.pc \in FinalizePcs
        /\ store' = store
    BY <1>2, ReclaimEffect DEF store, FinalizePcs
  <2>2. LiveIsMine'
    <3>1. \A j \in Ids : remote'[j].state = "live" => SameObject(j)
      BY <1>2, ReclaimKindred
    <3> QED BY <1>0, <3>1 DEF LiveIsMine, SameObject
  <2>3. CASE pass' = Idle
    BY <2>2, <2>3, IdleFields, NotReleasing
  <2>4. CASE MovedTo("removeFinalizer")
    <3>1. pass'.pc = "removeFinalizer" /\ pass'.fresh = pass.fresh
      BY <2>4 DEF MovedTo
    <3>2. Bound' \subseteq Bound /\ pass.target \notin Bound'
      BY <1>2, <3>1, ReclaimKindred
    <3> QED BY <1>0, <2>1, <2>2, <3>1, <3>2 DEF Releasing, Held
  <2> QED BY <1>2, <2>3, <2>4, ReclaimEffect
<1>3. CASE RemoveFinalizer
  <2>1. pass'.pc = "idle" /\ Releasing'
    BY <1>3, RemoveFinalizerEffect, IdleFields, NotReleasing DEF FinalizePcs
  <2>2. CASE UNCHANGED remote
    BY <1>0, <2>1, <2>2 DEF LiveIsMine
  <2>3. CASE pass.fresh /\ Release
    <3>1. Bound = {}
      BY <1>0, <1>3, <2>3, RemoveFinalizerEffect DEF Releasing
    <3>2. \A j \in Ids : remote[j].state # "live"
      BY <1>0, <3>1 DEF Bound, LiveIsMine
    <3>3. \A j \in Ids : remote'[j].state = remote[j].state
      BY <1>0, <2>3, ReleaseKindred
    <3> QED BY <2>1, <3>2, <3>3 DEF LiveIsMine
  <2> QED BY <1>3, <2>2, <2>3, RemoveFinalizerEffect
<1> QED BY <1>1, <1>2, <1>3

\* Every other step: the user's outdates the pass.
LEMMA RestMine ==
  ASSUME TypeOK, OneMirror, SingleInductive, ReleaseInductive, Alone,
         Deliver \/ Tick \/ User \/ Others \/ Nudge \/ Crash \/ UNCHANGED vars
  PROVE  LiveIsMine' /\ Releasing'
<1>0. LiveIsMine /\ Releasing /\ Kindred
  BY ReleaseForm, SingleForm
<1>1. \A j \in Ids : SameObject(j)
  <2>1. User => UNCHANGED remote
    BY UserWrites DEF Touched
  <2> QED BY <2>1, OthersKindred, UnchangedObjects DEF Deliver, Tick, Nudge, Crash, vars
<1>2. LiveIsMine' /\ Bound' = Bound
  BY <1>0, <1>1, SameKindred DEF LiveIsMine, SameObject
<1>3. CASE User
  <2>1. pass'.fresh = FALSE
    BY <1>3, UserWrites, OvertakenType DEF Touched
  <2> QED BY <1>2, <2>1, NotReleasing
<1>4. CASE Crash
  <2>1. pass'.fresh = FALSE
    BY <1>4, IdleFields DEF Crash
  <2> QED BY <1>2, <2>1, NotReleasing
<1>5. CASE Deliver \/ Tick \/ Others \/ Nudge \/ UNCHANGED vars
  <2>1. pass' = pass /\ store' = store
    BY <1>5, DeliverEffect, OthersType DEF Deliver, Tick, Nudge, vars, store
  <2> QED BY <1>0, <1>2, <2>1 DEF Releasing, Held
<1> QED BY <1>3, <1>4, <1>5

-----------------------------------------------------------------------------
(* The reconciler implements the ledger *)

\* The variables of CreateLedger, as the refinement mapping gives them.
LEMMA LedgerStays ==
  ASSUME store' = store, Bound' = Bound
  PROVE  UNCHANGED Ledger!vars
BY DEF Ledger!vars, Held

\* A write is judged by what it changes of the four.
LEMMA LedgerWrite ==
  ASSUME TypeOK, NEW o \in Objects, Write(o), Held(o) = Held(store),
         Bound' = Bound,
         \/ o.attempt = store.attempt /\ o.status.id = store.status.id
         \/ Held(store) /\ o.attempt /\ o.status.id = store.status.id
         \/ /\ store.attempt /\ ~o.attempt /\ o.status.id = store.status.id
            /\ Bound \subseteq {store.status.id}
         \/ /\ Held(store) /\ store.attempt /\ o.attempt
            /\ o.status.id \in Ids
  PROVE  [Ledger!Next]_(Ledger!vars)
<1>1. store' = o /\ store \in Objects
  BY StoreType, WriteEffect
<1>2. Held(store)' = Held(store)
  BY <1>1 DEF Held
<1>3. o.attempt \in BOOLEAN /\ store.attempt \in BOOLEAN
  BY <1>1 DEF Objects
<1>4. CASE o.attempt = store.attempt /\ o.status.id = store.status.id
  BY <1>1, <1>2, <1>4 DEF Ledger!vars
<1>5. CASE Held(store) /\ o.attempt /\ o.status.id = store.status.id
  <2>1. Ledger!Announce
    BY <1>1, <1>2, <1>3, <1>5 DEF Ledger!Announce
  <2> QED BY <2>1 DEF Ledger!Next
<1>6. CASE /\ store.attempt /\ ~o.attempt /\ o.status.id = store.status.id
           /\ Bound \subseteq {store.status.id}
  <2>1. Ledger!Withdraw
    BY <1>1, <1>2, <1>3, <1>6 DEF Ledger!Withdraw
  <2> QED BY <2>1 DEF Ledger!Next
<1>7. CASE /\ Held(store) /\ store.attempt /\ o.attempt
           /\ o.status.id \in Ids
  <2>1. Ledger!Record(o.status.id)
    BY <1>1, <1>2, <1>3, <1>7 DEF Ledger!Record
  <2> QED BY <1>7, <2>1 DEF Ledger!Next
<1> QED BY <1>4, <1>5, <1>6, <1>7

\* A pass over a live CR announces, makes, records and withdraws.
LEMMA LivePassLedger ==
  ASSUME TypeOK, OneMirror, Inductive, SingleInductive, BindingInductive, LiveIsMine,
         \/ OnNewObject \/ OnConflict \/ OnExistingObject \/ Update \/ Create
         \/ AddCreateAttemptAnnotation \/ RemoveCreateAttemptAnnotation \/ UpdateStatus
  PROVE  [Ledger!Next]_(Ledger!vars)
<1> DEFINE id == pass.obj.status.id
<1>0. pass.pc \in LivePcs
  BY DEF OnNewObject, OnConflict, OnExistingObject, Update, Create, UpdateStatus,
         AddCreateAttemptAnnotation, RemoveCreateAttemptAnnotation, PatchAttemptOff, LivePcs
<1>1. /\ Accounted /\ Carried /\ Held(store) /\ Named(store) /\ Named(pass.obj)
      /\ \A i, j \in Bound : i = j
      /\ NoId \notin Bound /\ Kindred /\ Bound \subseteq Ids /\ store \in Objects
  BY <1>0, LivePass, SingleForm, StoreType DEF Bound
<1>2. ASSUME UNCHANGED versions, Bound' = Bound PROVE [Ledger!Next]_(Ledger!vars)
  <2>1. store' = store
    BY <1>2 DEF store
  <2> QED BY <1>2, <2>1, LedgerStays
<1>3. CASE OnNewObject \/ OnConflict \/ OnExistingObject \/ Update
  <2>1. CASE Update
    BY <1>2, <2>1, UpdateKindred, UpdateEffect
  <2>2. CASE OnNewObject \/ OnConflict \/ OnExistingObject
    <3>1. UNCHANGED versions /\ (UNCHANGED remote \/ SameButTouched)
      BY <2>2, OnNewObjectEffect, OnConflictEffect, OnExistingObjectEffect
    <3> QED BY <1>1, <1>2, <3>1, UnchangedObjects, TouchedObjects, SameKindred
  <2> QED BY <1>3, <2>1, <2>2
<1>4. CASE Create
  <2>1. UNCHANGED versions /\ store' = store /\ store.attempt /\ Bound = {}
    BY <1>4, CreateEffect, CreateKindred DEF store, Inductive, AttemptOnRecord
  <2>2. CASE Bound' = {}
    BY <1>2, <2>1, <2>2
  <2>3. ASSUME NEW new \in Ids, Bound' = {new} PROVE [Ledger!Next]_(Ledger!vars)
    <3>1. Ledger!Make(new)
      BY <1>1, <2>1, <2>3 DEF Ledger!Make, Held
    <3> QED BY <3>1 DEF Ledger!Next
  <2> QED BY <1>4, <2>2, <2>3, CreateKindred
<1>5. CASE AddCreateAttemptAnnotation
  <2> DEFINE marked == Marked(store)
  <2>1. pass.pc = "mark" /\ (UNCHANGED versions \/ Write(marked))
    BY <1>5, AddCreateAttemptEffect
  <2>2. Bound' = Bound
    <3>1. CASE pass.target # NoId /\ remote' = [remote EXCEPT ![pass.target].mine = TRUE]
      <4>1. pass.target \in Ids /\ remote[pass.target].state = "live"
        BY <1>0, <1>1, <2>1, <3>1, PassFacts DEF Carried, PassBound
      <4>2. pass.target \in Bound
        BY <4>1 DEF LiveIsMine, Bound
      <4> QED BY <2>1, <3>1, <4>2, AdoptKindred
    <3>2. CASE UNCHANGED remote
      BY <3>2 DEF Bound
    <3> QED BY <1>5, <3>1, <3>2, AddCreateAttemptEffect
  <2>3. /\ marked \in Objects /\ marked.attempt /\ marked.status = store.status
        /\ marked.exists = store.exists /\ marked.finalizer = store.finalizer
    BY <1>1, WrittenType DEF Marked, Objects
  <2> HIDE DEF marked
  <2>4. Held(marked) = Held(store)
    BY <2>3 DEF Held
  <2> QED BY <1>1, <1>2, <2>1, <2>2, <2>3, <2>4, LedgerWrite
<1>6. CASE RemoveCreateAttemptAnnotation
  <2>1. PICK cleared \in ClearedForms :
          /\ pass.pc \in {"dropRejected", "dropAttempt"} /\ Bound' = Bound
          /\ UNCHANGED versions \/ Write(cleared)
    BY <1>6, RemoveCreateAttemptEffect DEF Bound
  <2>2. Bound \subseteq {store.status.id}
    <3>1. pass.pc = "dropRejected" => Bound = {}
      BY DEF SingleInductive, LookedUp
    <3>2. pass.pc = "dropAttempt" => store.status.id \in Bound
      BY <1>0, <1>1 DEF Carried, PassBound, Named
    <3> QED BY <1>1, <2>1, <3>1, <3>2
  <2>3. /\ cleared \in Objects /\ ~cleared.attempt /\ cleared.status = store.status
        /\ cleared.exists = store.exists /\ cleared.finalizer = store.finalizer
        /\ cleared.attempt \in BOOLEAN /\ store.attempt \in BOOLEAN
    BY <1>1, ClearedType DEF Objects
  <2>4. Held(cleared) = Held(store)
    BY <2>3 DEF Held
  <2> QED BY <1>1, <1>2, <2>1, <2>2, <2>3, <2>4, LedgerWrite
<1>7. CASE UpdateStatus
  <2> DEFINE reported == [store EXCEPT !.status = pass.obj.status]
  <2>1. /\ pass.pc = "status" /\ Bound' = Bound
        /\ UNCHANGED versions \/ (pass.fresh /\ Write(reported))
    BY <1>7, UpdateStatusEffect DEF Bound
  <2>2. /\ reported \in Objects /\ reported.status = pass.obj.status
        /\ reported.exists = store.exists /\ reported.finalizer = store.finalizer
        /\ reported.attempt = store.attempt
    BY <1>1, WrittenType DEF Objects
  <2>3. pass.fresh => id = store.status.id \/ (store.attempt /\ id \in Ids)
    BY <1>0, <1>1 DEF Carried, PassBound, Named
  <2> HIDE DEF reported
  <2>4. Held(reported) = Held(store)
    BY <2>2 DEF Held
  <2> QED BY <1>1, <1>2, <2>1, <2>2, <2>3, <2>4, LedgerWrite
<1> QED BY <1>3, <1>4, <1>5, <1>6, <1>7

\* The steps of finalize delete what is bound and then let go.
LEMMA FinalizeLedger ==
  ASSUME TypeOK, OneMirror, SingleInductive, ReleaseInductive,
         FinalizeFind \/ Reclaim \/ RemoveFinalizer
  PROVE  [Ledger!Next]_(Ledger!vars)
<1>0. Releasing /\ Kindred /\ Bound \subseteq Ids
  BY ReleaseForm, SingleForm DEF Bound
<1>1. ASSUME UNCHANGED <<versions, remote>> PROVE [Ledger!Next]_(Ledger!vars)
  <2>1. store' = store /\ Bound' = Bound
    BY <1>1 DEF store, Bound
  <2> QED BY <2>1, LedgerStays
<1>2. CASE Reclaim
  <2>1. /\ UNCHANGED versions /\ store' = store
        /\ Bound' \subseteq Bound /\ Bound \ Bound' \subseteq {pass.target}
    BY <1>2, ReclaimEffect, ReclaimKindred DEF store
  <2>2. CASE Bound' = Bound
    BY <2>1, <2>2, LedgerStays
  <2>3. CASE Bound' # Bound
    <3>1. pass.target \in Ids /\ Bound' = Bound \ {pass.target}
      BY <1>0, <1>2, <2>1, <2>3
    <3>2. Ledger!Lose(pass.target)
      BY <2>1, <2>3, <3>1 DEF Ledger!Lose, Held
    <3> QED BY <2>3, <3>1, <3>2 DEF Ledger!Next
  <2> QED BY <2>2, <2>3
<1>3. CASE RemoveFinalizer /\ pass.fresh /\ Write(Absent) /\ Release
  <2>1. Held(store) /\ Bound = {} /\ Bound' = {}
    BY <1>0, <1>3, RemoveFinalizerEffect, ReleaseKindred DEF Releasing, FinalizePcs
  <2>2. store' = Absent
    BY <1>3, WriteEffect, Starts
  <2>3. Held(store)' = FALSE
    BY <2>2, IdleFields DEF Held
  <2>4. Ledger!Release
    BY <2>1, <2>2, <2>3, IdleFields DEF Ledger!Release
  <2> QED BY <2>4 DEF Ledger!Next
<1> QED BY <1>1, <1>2, <1>3, FinalizeFindEffect, RemoveFinalizerEffect

\* Adding the finalizer is the ledger's Hold.
LEMMA StartLedger ==
  ASSUME TypeOK, Inductive, BindingInductive, Reconcile \/ AddFinalizer
  PROVE  [Ledger!Next]_(Ledger!vars)
<1> DEFINE added == [store EXCEPT !.finalizer = TRUE]
<1>0. UNCHANGED remote /\ Bound' = Bound /\ store \in Objects
  BY ReconcileEffect, AddFinalizerEffect, StoreType DEF Bound
<1>1. CASE UNCHANGED versions
  <2>1. store' = store
    BY <1>1 DEF store
  <2> QED BY <1>0, <2>1, LedgerStays
<1>2. CASE AddFinalizer /\ pass.fresh /\ Write(added)
  <2>1. store.exists /\ ~store.finalizer
    BY <1>2, AddFinalizerEffect DEF Inductive, AddedFresh, BindingInductive, HoldsOnce
  <2>2. /\ added \in Objects /\ added.exists = store.exists /\ added.finalizer = TRUE
        /\ added.attempt = store.attempt /\ added.status = store.status
    BY <1>0 DEF Objects
  <2> HIDE DEF added
  <2>3. store' = added
    BY <1>2, <2>2, WriteEffect
  <2>4. ~Held(store) /\ Held(store)' = TRUE
    BY <2>1, <2>2, <2>3 DEF Held
  <2>5. Ledger!Hold
    BY <1>0, <2>2, <2>3, <2>4 DEF Ledger!Hold
  <2> QED BY <2>5 DEF Ledger!Next
<1> QED BY <1>1, <1>2, ReconcileEffect, AddFinalizerEffect

\* Every other step is none of the ledger's.
LEMMA RestLedger ==
  ASSUME TypeOK, OneMirror, SingleInductive, BindingInductive, Alone,
         Deliver \/ Tick \/ User \/ Others \/ Nudge \/ Crash \/ UNCHANGED vars
  PROVE  [Ledger!Next]_(Ledger!vars)
<1>0. Accounted /\ Kindred /\ Pins = {} /\ ~LoseStatus
  BY BindingForm, SingleForm DEF OneMirror, Alone, Undeleted
<1>1. CASE User
  <2>1. PICK o : /\ Touched(o)
                 /\ \/ /\ ~Held(store) /\ ~Held(o) /\ o.status.id = NoId /\ ~o.attempt
                    \/ /\ o.attempt = store.attempt /\ (Held(o) <=> Held(store))
                       /\ o.status.id = store.status.id
    BY <1>0, <1>1, UserEffect
  <2>2. /\ o \in Objects /\ Write(o) /\ Bound' = Bound
        /\ o.attempt \in BOOLEAN /\ store.attempt \in BOOLEAN
    BY <2>1, StoreType DEF Touched, Bound, Objects
  <2>3. Held(o) = Held(store)
    BY <2>1 DEF Held
  <2>4. ~Held(store) => ~store.attempt /\ store.status.id = NoId
    BY <1>0 DEF Accounted, HoldAccounts
  <2>5. o.attempt = store.attempt /\ o.status.id = store.status.id
    BY <2>1, <2>2, <2>4
  <2> QED BY <2>2, <2>3, <2>5, LedgerWrite
<1>2. CASE Deliver \/ Crash
  BY <1>0, <1>2, AccountedDelivered, LedgerStays
<1>3. CASE Tick \/ Others \/ Nudge \/ UNCHANGED vars
  <2>1. store' = store
    BY <1>3, OthersType DEF Tick, Nudge, vars, store
  <2>2. Bound' = Bound
    <3>1. CASE Others
      BY <3>1, OthersKindred DEF Alone
    <3>2. CASE UNCHANGED remote
      BY <3>2 DEF Bound
    <3> QED BY <1>3, <3>1, <3>2 DEF Tick, Nudge, vars
  <2> QED BY <2>1, <2>2, LedgerStays
<1> QED BY <1>1, <1>2, <1>3

\* A CR that is alone in SigNoz and asks for its object's deletion: finalize
\* lets go of the CR only once nothing is bound to it.
THEOREM ReleaseInductiveHolds ==
  ASSUME OneMirror, Reclaims
  PROVE  Spec /\ [][Alone]_vars => []ReleaseInductive
<1>1. Init => ReleaseInductive
  <2> SUFFICES ASSUME Init PROVE ReleaseInductive
    OBVIOUS
  <2>1. pass = Idle /\ remote = [id \in Ids |-> Unborn] /\ Unborn.state = "unborn"
    BY DEF Init, Unborn
  <2>2. LiveIsMine
    BY <2>1 DEF LiveIsMine
  <2>3. Releasing
    BY <2>1, IdleFields DEF Releasing
  <2> QED BY <2>2, <2>3, ReleaseForm
<1>2. /\ TypeOK /\ SingleInductive /\ BindingInductive /\ ReleaseInductive
      /\ [Next]_vars /\ [Alone]_vars
      => ReleaseInductive'
  <2> SUFFICES ASSUME TypeOK, SingleInductive, BindingInductive, ReleaseInductive,
                      [Next]_vars, [Alone]_vars
               PROVE  ReleaseInductive'
    OBVIOUS
  <2>1. CASE UNCHANGED vars
    BY <2>1 DEF ReleaseInductive, LiveIsMine, vars, store, Bound, Held
  <2>2. CASE Pass
    <3>1. LiveIsMine' /\ Releasing'
      BY <2>2, LivePassMine, StartMine, FinalizeMine DEF Pass, ReleaseInductive
    <3> QED BY <3>1, ReleaseForm, PTL
  <2>3. CASE Alone /\ (Deliver \/ Tick \/ User \/ Others \/ Nudge \/ Crash)
    <3>1. LiveIsMine' /\ Releasing'
      BY <2>3, RestMine
    <3> QED BY <3>1, ReleaseForm, PTL
  <2> QED BY <2>1, <2>2, <2>3 DEF Next
<1>3. [Alone]_vars => [Undeleted]_vars
  BY DEF Alone
<1> QED BY <1>1, <1>2, <1>3, TypeCorrect, SingleInductiveHolds, BindingInductiveHolds, PTL
    DEF Spec

\* The reconciler implements CreateLedger: it holds before it announces,
\* announces before it makes or records, withdraws only what the record names,
\* and lets go only when nothing is left, whatever is stale, lost or restarted.
THEOREM LedgerKeptHolds ==
  ASSUME OneMirror, Reclaims
  PROVE  Spec /\ [][Alone]_vars => LedgerKept
<1>1. Init => Ledger!Init
  <2> SUFFICES ASSUME Init PROVE Ledger!Init
    OBVIOUS
  <2>1. versions = <<Absent>> /\ remote = [id \in Ids |-> Unborn]
    BY DEF Init
  <2>2. Bound = {} /\ store = Absent
    BY <2>1 DEF Bound, Unborn, store
  <2> QED BY <2>2, IdleFields DEF Ledger!Init, Held
<1>2. /\ TypeOK /\ Inductive /\ SingleInductive /\ BindingInductive /\ ReleaseInductive
      /\ [Next]_vars /\ [Alone]_vars
      => [Ledger!Next]_(Ledger!vars)
  <2> SUFFICES ASSUME TypeOK, Inductive, SingleInductive, BindingInductive,
                      ReleaseInductive, [Next]_vars, [Alone]_vars
               PROVE  [Ledger!Next]_(Ledger!vars)
    OBVIOUS
  <2>1. CASE UNCHANGED vars
    <3>1. store' = store /\ Bound' = Bound
      BY <2>1 DEF vars, store, Bound
    <3> QED BY <3>1, LedgerStays
  <2>2. CASE Pass
    BY <2>2, LivePassLedger, StartLedger, FinalizeLedger DEF Pass, ReleaseInductive
  <2>3. CASE Alone /\ (Deliver \/ Tick \/ User \/ Others \/ Nudge \/ Crash)
    BY <2>3, RestLedger
  <2> QED BY <2>1, <2>2, <2>3 DEF Next
<1>3. [Alone]_vars => [Undeleted]_vars
  BY DEF Alone
<1> QED BY <1>1, <1>2, <1>3, TypeCorrect, InductiveHolds, SingleInductiveHolds,
           BindingInductiveHolds, ReleaseInductiveHolds, PTL
    DEF Spec, LedgerKept, Ledger!Spec

=============================================================================
