---------------------------- MODULE Rest_proofs ----------------------------
(***************************************************************************)
(* What the reconciler may rest on, for every value of its constants: it   *)
(* never goes to sleep on unfinished work, and a synced status it goes to  *)
(* sleep on is true.  Both follow from RestInductive: the operator comes   *)
(* to rest only through a pass that nothing overtook and whose verdict was *)
(* on record already, so each way a pass may end is met once below.        *)
(***************************************************************************)
EXTENDS CommonReconciler_proofs

-----------------------------------------------------------------------------
(* SigNoz: what was made keeps a body *)

\* Changing one object keeps the invariant if the new object has a body.
LEMMA MadeSet ==
  ASSUME TypeOK, MadeOfBodies, NEW id, NEW r,
         remote' = [remote EXCEPT ![id] = r],
         id \in Ids => (r.state # "unborn" => r.body \in Bodies)
  PROVE  MadeOfBodies'
BY PassFacts DEF MadeOfBodies

\* Changing marks of one object moves neither its state nor its body.
LEMMA MadeMarked ==
  ASSUME TypeOK, MadeOfBodies, NEW id,
         \/ remote' = [remote EXCEPT ![id].mine = TRUE]
         \/ remote' = [remote EXCEPT ![id].touched = FALSE]
  PROVE  MadeOfBodies'
<1>1. remote \in [Ids -> RemoteObjects]
  BY PassFacts
<1>2. ASSUME NEW j \in Ids
      PROVE  remote'[j].state = remote[j].state /\ remote'[j].body = remote[j].body
  <2>1. remote[j] \in RemoteObjects
    BY <1>1
  <2>2. remote'[j] \in {remote[j], [remote[j] EXCEPT !.mine = TRUE],
                        [remote[j] EXCEPT !.touched = FALSE]}
    BY <1>1
  <2> QED BY <2>1, <2>2 DEF RemoteObjects
<1> QED BY <1>2 DEF MadeOfBodies

\* What the other writers to SigNoz, and a late commit, do to an object that
\* was made: its identity stays, and it is the same, touched, or was pending.
LEMMA OthersRemote ==
  ASSUME TypeOK, Others
  PROVE  /\ \A j \in Ids : remote[j].state # "unborn" =>
              /\ remote'[j].state # "unborn"
              /\ remote'[j].ident = remote[j].ident
              /\ \/ remote'[j] = remote[j]
                 \/ remote'[j].touched
                 \/ remote[j].state = "pending" /\ remote'[j].touched = remote[j].touched
         /\ MadeOfBodies => MadeOfBodies'
<1> DEFINE kept(j) == remote[j].state # "unborn" =>
              /\ remote'[j].state # "unborn"
              /\ remote'[j].ident = remote[j].ident
              /\ \/ remote'[j] = remote[j]
                 \/ remote'[j].touched
                 \/ remote[j].state = "pending" /\ remote'[j].touched = remote[j].touched
           done == (\A j \in Ids : kept(j)) /\ (MadeOfBodies => MadeOfBodies')
<1>0. remote \in [Ids -> RemoteObjects]
  BY PassFacts
<1>1. ASSUME NEW s \in Specs, MeddleCreate(s) PROVE done
  <2>1. PICK id \in NextIds :
          remote' = [remote EXCEPT ![id] = Posted(s.ref, s, "live", FALSE)]
    BY <1>1 DEF MeddleCreate
  <2>2. id \in Ids /\ remote[id].state = "unborn"
    BY DEF NextIds
  <2>3. Posted(s.ref, s, "live", FALSE).body \in Bodies
    BY SpecFields DEF Posted
  <2>4. \A j \in Ids : kept(j)
    BY <1>0, <2>1, <2>2
  <2> QED BY <2>1, <2>3, <2>4, MadeSet
<1>2. ASSUME NEW id \in Ids, NEW r, remote[id].state # "unborn",
             remote' = [remote EXCEPT ![id] = r],
             r.state # "unborn", r.ident = remote[id].ident,
             r.body \in Bodies \/ r.body = remote[id].body,
             \/ r.touched
             \/ remote[id].state = "pending" /\ r.touched = remote[id].touched
      PROVE  done
  <2>1. \A j \in Ids : kept(j)
    BY <1>0, <1>2
  <2>2. ASSUME MadeOfBodies PROVE MadeOfBodies'
    <3>1. r.body \in Bodies
      BY <1>2, <2>2 DEF MadeOfBodies
    <3> QED BY <1>2, <2>2, <3>1, MadeSet
  <2> QED BY <2>1, <2>2
<1>3. ASSUME NEW id \in Ids, NEW b \in Bodies, MeddleEdit(id, b) PROVE done
  <2> DEFINE r == [remote[id] EXCEPT !.body = b, !.touched = TRUE]
  <2>1. remote' = [remote EXCEPT ![id] = r] /\ remote[id].state = "live"
    BY <1>0, <1>3 DEF MeddleEdit
  <2>2. /\ r.state = remote[id].state /\ r.ident = remote[id].ident /\ r.body = b
        /\ r.touched
    BY <1>0 DEF RemoteObjects
  <2> HIDE DEF r, done
  <2> QED BY <1>2, <2>1, <2>2
<1>4. ASSUME NEW id \in Ids, MeddleDelete(id) PROVE done
  <2> DEFINE r == [remote[id] EXCEPT !.state = "gone", !.touched = TRUE]
  <2>1. remote' = [remote EXCEPT ![id] = r] /\ remote[id].state = "live"
    BY <1>0, <1>4 DEF MeddleDelete
  <2>2. /\ r.state = "gone" /\ r.ident = remote[id].ident
        /\ r.body = remote[id].body /\ r.touched
    BY <1>0 DEF RemoteObjects
  <2> HIDE DEF r, done
  <2> QED BY <1>2, <2>1, <2>2
<1>5. ASSUME NEW id \in Ids, Commit(id) PROVE done
  <2>1. PICK state \in {"live", "gone"} : remote' = [remote EXCEPT ![id].state = state]
    BY <1>5 DEF Commit
  <2> DEFINE r == [remote[id] EXCEPT !.state = state]
  <2>2. remote' = [remote EXCEPT ![id] = r] /\ remote[id].state = "pending"
    BY <1>0, <1>5, <2>1 DEF Commit
  <2>3. /\ r.state = state /\ r.ident = remote[id].ident
        /\ r.body = remote[id].body /\ r.touched = remote[id].touched
    BY <1>0 DEF RemoteObjects
  <2> HIDE DEF r, done
  <2> QED BY <1>2, <2>2, <2>3
<1> QED BY <1>1, <1>3, <1>4, <1>5 DEF Others

\* The reconciler's own requests.
LEMMA PassRemote ==
  ASSUME TypeOK, MadeOfBodies, Pass
  PROVE  MadeOfBodies'
<1>0. remote \in [Ids -> RemoteObjects] /\ pass.obj.spec.body \in Bodies
  BY PassFacts, SpecFields
<1>1. CASE UNCHANGED remote
  BY <1>1 DEF MadeOfBodies
<1>2. CASE Create
  <2>1. ASSUME NEW id, NEW state,
               remote' = [remote EXCEPT ![id] = Posted(pass.ref, pass.obj.spec, state, TRUE)]
        PROVE  MadeOfBodies'
    <3>1. Posted(pass.ref, pass.obj.spec, state, TRUE).body \in Bodies
      BY <1>0 DEF Posted
    <3> QED BY <2>1, <3>1, MadeSet
  <2> QED BY <1>1, <1>2, <2>1, Zenon DEF Create
<1>3. CASE AddCreateAttemptAnnotation
  <2>1. UNCHANGED remote \/ remote' = [remote EXCEPT ![pass.target].mine = TRUE]
    BY <1>3, Zenon DEF AddCreateAttemptAnnotation
  <2> QED BY <1>1, <2>1, MadeMarked
<1>4. CASE OnExistingObject
  <2>1. \/ UNCHANGED remote
        \/ remote' = [remote EXCEPT ![pass.obj.status.id].touched = FALSE]
    BY <1>4, Zenon DEF OnExistingObject
  <2> QED BY <1>1, <2>1, MadeMarked
<1>5. CASE Update
  <2> DEFINE id == pass.obj.status.id
             r == Updated(id, pass.obj.spec)
  <2>1. \/ UNCHANGED remote
        \/ remote' = [remote EXCEPT ![id].touched = FALSE]
        \/ remote' = [remote EXCEPT ![id] = r]
    BY <1>5, Zenon DEF Update
  <2>2. id \in Ids => r.body = pass.obj.spec.body
    BY <1>0 DEF Updated, RemoteObjects
  <2> HIDE DEF r
  <2> QED BY <1>0, <1>1, <2>1, <2>2, MadeSet, MadeMarked
<1>6. CASE Reclaim
  <2> DEFINE r == [remote[pass.target] EXCEPT !.state = "gone"]
  <2>1. \/ UNCHANGED remote
        \/ /\ Live(pass.target, pass.ref)
           /\ remote' = [remote EXCEPT ![pass.target] = r]
    BY <1>6 DEF Reclaim
  <2>2. ASSUME Live(pass.target, pass.ref) PROVE r.body \in Bodies
    <3>1. remote[pass.target] \in RemoteObjects /\ remote[pass.target].body \in Bodies
      BY <1>0, <2>2 DEF Live, MadeOfBodies
    <3> QED BY <3>1 DEF RemoteObjects
  <2> HIDE DEF r
  <2> QED BY <1>1, <2>1, <2>2, MadeSet
<1>7. CASE Release
  <2>1. ASSUME NEW j \in Ids
        PROVE  remote'[j].state = remote[j].state /\ remote'[j].body = remote[j].body
    BY <1>0, <1>7 DEF Release, RemoteObjects
  <2> QED BY <2>1 DEF MadeOfBodies
<1>8. CASE RemoveFinalizer
  BY <1>1, <1>7, <1>8 DEF RemoveFinalizer
<1>9. CASE Reconcile \/ AddFinalizer \/ OnNewObject \/ OnConflict
           \/ RemoveCreateAttemptAnnotation \/ UpdateStatus \/ FinalizeFind
  BY <1>1, <1>9 DEF Reconcile, AddFinalizer, OnNewObject, OnConflict,
                    RemoveCreateAttemptAnnotation, PatchAttemptOff, UpdateStatus,
                    FinalizeFind
<1> QED BY <1>2, <1>3, <1>4, <1>5, <1>6, <1>8, <1>9 DEF Pass

-----------------------------------------------------------------------------
(* The API server: what is being deleted carries the finalizer *)

\* Every write the reconciler makes.
LEMMA PassWrites ==
  ASSUME TypeOK, Pass
  PROVE  \/ UNCHANGED versions
         \/ /\ pass.pc # "removeFinalizer"
            /\ \E o \in Objects : /\ Write(o) /\ o.deleting = store.deleting
                                  /\ store.finalizer => o.finalizer
                                  /\ o.exists = store.exists
         \/ pass.pc = "removeFinalizer" /\ Write(Absent)
<1> DEFINE added == [store EXCEPT !.finalizer = TRUE]
           reported == [store EXCEPT !.status = pass.obj.status]
           kept(o) == /\ o \in Objects /\ o.exists = store.exists
                      /\ o.deleting = store.deleting /\ (store.finalizer => o.finalizer)
<1>1. store \in Objects
  BY StoreType
<1>2. kept(added) /\ kept(reported) /\ kept(Marked(store))
  BY <1>1, WrittenType DEF Objects, Marked
<1>3. CASE AddFinalizer
  <2>1. pass.pc # "removeFinalizer" /\ (UNCHANGED versions \/ Write(added))
    BY <1>3 DEF AddFinalizer
  <2> HIDE DEF added
  <2> QED BY <1>2, <2>1
<1>4. CASE AddCreateAttemptAnnotation
  <2>1. pass.pc # "removeFinalizer" /\ (UNCHANGED versions \/ Write(Marked(store)))
    BY <1>4, AddCreateAttemptType DEF AddCreateAttemptAnnotation
  <2> QED BY <1>2, <2>1
<1>5. CASE RemoveCreateAttemptAnnotation
  <2>1. PICK cleared \in ClearedForms :
          pass.pc # "removeFinalizer" /\ (UNCHANGED versions \/ Write(cleared))
    BY <1>5, RemoveCreateAttemptType DEF RemoveCreateAttemptAnnotation, PatchAttemptOff
  <2>2. kept(cleared)
    BY <1>1, ClearedType
  <2> QED BY <2>1, <2>2
<1>6. CASE UpdateStatus
  <2>1. pass.pc # "removeFinalizer" /\ (UNCHANGED versions \/ Write(reported))
    BY <1>6, UpdateStatusType DEF UpdateStatus
  <2> HIDE DEF reported
  <2> QED BY <1>2, <2>1
<1>7. CASE RemoveFinalizer
  BY <1>7 DEF RemoveFinalizer
<1>8. CASE Reconcile \/ OnNewObject \/ OnConflict \/ Create \/ OnExistingObject
           \/ Update \/ FinalizeFind \/ Reclaim
  BY <1>8 DEF Reconcile, OnNewObject, OnConflict, Create, OnExistingObject,
              Update, FinalizeFind, Reclaim
<1> QED BY <1>3, <1>4, <1>5, <1>6, <1>7, <1>8 DEF Pass

\* Every step of the system.
LEMMA DeletionHeldStep ==
  ASSUME TypeOK, DeletionHeld, [Next]_vars
  PROVE  DeletionHeld'
<1>1. ASSUME UNCHANGED versions PROVE DeletionHeld'
  BY <1>1 DEF DeletionHeld, store
<1>2. ASSUME NEW o \in Objects, Write(o), o.exists /\ o.deleting => o.finalizer
      PROVE  DeletionHeld'
  BY <1>2, WriteEffect DEF DeletionHeld
<1>3. CASE Pass
  <2>1. Absent \in Objects /\ ~Absent.exists
    BY Starts DEF Absent
  <2> QED BY <1>1, <1>2, <1>3, <2>1, PassWrites DEF DeletionHeld
<1>4. CASE User
  <2>1. PICK o : /\ Touched(o)
                 /\ \/ o.deleting = FALSE
                    \/ /\ o.exists = store.exists /\ o.finalizer = store.finalizer
                       /\ o.deleting = store.deleting
                    \/ Held(o)
    <3>1. PICK o : /\ Touched(o)
                 /\ \/ ~store.exists /\ o.finalizer = FALSE /\ o.deleting = FALSE
                    \/ /\ store.exists
                       /\ o.exists = store.exists /\ o.finalizer = store.finalizer
                       /\ o.deleting = store.deleting /\ o.attempt = store.attempt
                    \/ /\ Held(store) /\ Held(o) /\ o.deleting
                       /\ o.attempt = store.attempt
                    \/ ~Held(store) /\ o.finalizer = FALSE /\ o.deleting = FALSE
      BY <1>4, UserWrites
    <3> QED BY <3>1
  <2> QED BY <1>2, <2>1 DEF Touched, Held, DeletionHeld
<1>5. CASE Deliver
  BY <1>5, DeliverEffect DEF DeletionHeld
<1>6. CASE Crash
  <2>1. store' = store
    BY <1>6 DEF Crash, store
  <2> QED BY <2>1 DEF DeletionHeld
<1>7. CASE Others \/ Tick \/ Nudge \/ UNCHANGED vars
  BY <1>1, <1>7, OthersType DEF Tick, Nudge, vars
<1> QED BY <1>3, <1>4, <1>5, <1>6, <1>7 DEF Next

\* Every step of the system.
LEMMA MadeOfBodiesStep ==
  ASSUME TypeOK, MadeOfBodies, [Next]_vars
  PROVE  MadeOfBodies'
<1>1. ASSUME UNCHANGED remote PROVE MadeOfBodies'
  BY <1>1 DEF MadeOfBodies
<1>2. ASSUME User PROVE UNCHANGED remote
  BY <1>2, UserWrites DEF Touched
<1>3. CASE Deliver \/ Tick \/ Nudge \/ Crash \/ UNCHANGED vars
  BY <1>1, <1>3 DEF Deliver, Tick, Nudge, Crash, vars
<1> QED BY <1>1, <1>2, <1>3, PassRemote, OthersRemote DEF Next

-----------------------------------------------------------------------------
(* The positions a step may leave the worker in *)

\* The recorded object is there, and right unless someone touched it.
Converged ==
  LET st == store.status
  IN /\ st.id \in Ids /\ remote[st.id].state # "unborn"
     /\ ~remote[st.id].touched
        => /\ st.gen = store.gen
           /\ Live(st.id, store.spec.ref)
           /\ remote[st.id].ident = store.spec.ident
           /\ Shown[remote[st.id].body] = Shown[store.spec.body]

RestConverged ==
  /\ UnsentUnseen /\ AtRest
  /\ store.exists /\ ~store.deleting /\ store.status.outcome = "synced"
  => Converged

\* The two parts about convergence, taken together.
LEMMA RestForm ==
  RestInductive
    <=> /\ Undisturbed /\ CreatesUnrecorded /\ RepairsItsOwn /\ FinalizesDeleted
        /\ DeletionHeld /\ MadeOfBodies
        /\ NeverStranded /\ RestConverged
BY DEF RestInductive, RestConverged, Converged, RestNamesObject, RestMeansConverged

\* A step that breaks the quiet, or leads to the status write, owes nothing.
LEMMA Loud ==
  ASSUME ~Quiet', DeletionHeld', MadeOfBodies'
  PROVE  RestInductive'
BY DEF RestInductive, Quiet, Undisturbed, CreatesUnrecorded, RepairsItsOwn,
       FinalizesDeleted, NeverStranded, RestNamesObject, RestMeansConverged, AtRest

\* A pass that is about to write its status is judged by that write.
LEMMA AtStatus ==
  ASSUME pass'.pc = "status", DeletionHeld', MadeOfBodies'
  PROVE  RestInductive'
BY DEF RestInductive, Undisturbed, CreatesUnrecorded, RepairsItsOwn, Deciding,
       FinalizesDeleted, NeverStranded, RestNamesObject, RestMeansConverged,
       AtRest, FinalizePcs

\* A step that ends the pass in quiet leaves a timer or a settled status, and a
\* synced status only if it is right.
LEMMA AtIdle ==
  ASSUME pass'.pc = "idle", DeletionHeld', MadeOfBodies',
         (Quiet /\ store.exists /\ ~timer)'
           => (~store.deleting /\ store.status.outcome \in {"terminal", "suspended"}
               /\ store.status.gen = store.gen)',
         (/\ Quiet /\ UnsentUnseen /\ store.exists
          /\ ~store.deleting /\ store.status.outcome = "synced")' => Converged'
  PROVE  RestInductive'
<1>1. Undisturbed' /\ CreatesUnrecorded' /\ RepairsItsOwn' /\ FinalizesDeleted'
  BY DEF Undisturbed, CreatesUnrecorded, RepairsItsOwn, Deciding, LivePcs,
         FinalizesDeleted, FinalizePcs
<1>2. NeverStranded' /\ RestConverged'
  BY DEF NeverStranded, RestConverged, AtRest, Quiet
<1> QED BY <1>1, <1>2, RestForm, PTL

\* A pass that would conclude: p is the pass with its verdict, q what the queue
\* holds besides.
LEMMA Ending ==
  ASSUME TypeOK, UNCHANGED versions, DeletionHeld', MadeOfBodies',
         NEW p \in Passes, NEW again \in Agains, NEW q \in BOOLEAN,
         Conclude(p, again, q) \/ Report(p, again, q),
         ~q /\ Len(versions) = 1
           => /\ p.before = store.status
              /\ again = "none" => /\ ~store.deleting
                                   /\ p.obj.status.outcome \in {"terminal", "suspended"}
                                   /\ p.obj.status.gen = store.gen
              /\ UnsentUnseen /\ p.obj.status = store.status
                 /\ p.obj.status.outcome = "synced" => Converged'
  PROVE  RestInductive'
<1>0. timer \in BOOLEAN /\ store' = store
  BY PassFacts DEF store
<1>1. CASE Report(p, again, q)
  BY <1>0, <1>1, ReportType, AtStatus
<1>2. CASE p.obj.status = p.before /\ pass' = Idle /\ Requeue(again, q)
  <2>1. pass'.pc = "idle"
    BY <1>2 DEF Idle
  <2>2. Quiet' => ~q /\ Len(versions) = 1 /\ again # "error"
    BY <1>2 DEF Quiet, Requeue
  <2>3. ~timer' => again # "later"
    BY <1>2 DEF Requeue
  <2>4. Quiet' /\ ~timer' => again = "none"
    BY <2>2, <2>3 DEF Agains
  <2>5. Quiet' => p.obj.status = store.status
    BY <1>2, <2>2
  <2> QED BY <1>0, <2>1, <2>2, <2>4, <2>5, AtIdle
<1> QED BY <1>1, <1>2 DEF Conclude

\* A pass put back by a backoff is not at rest.
LEMMA EndsWithError ==
  ASSUME TypeOK, DeletionHeld', MadeOfBodies', NEW p \in Passes,
         Conclude(p, "error", queued) \/ Stop("error")
  PROVE  RestInductive'
<1>1. CASE Report(p, "error", queued)
  BY <1>1, PassFacts, ReportType, AtStatus DEF Agains
<1>2. CASE Requeue("error", queued)
  BY <1>2, Loud DEF Requeue, Quiet
<1> QED BY <1>1, <1>2 DEF Conclude, Stop

\* What a verdict changes of a pass.
LEMMA VerdictFields ==
  ASSUME NEW p \in Passes, NEW g, NEW o, NEW r
  PROVE  LET v == Verdict(p, g, o, r)
         IN /\ v.before = p.before
            /\ v.obj.status.outcome = o /\ v.obj.status.gen = g
            /\ v.obj.status.id = p.obj.status.id
            /\ v.obj.status.hash = p.obj.status.hash
<1> DEFINE st == SetConditionsOnOutcome(p.obj.status, g, o, r)
           ob == [p.obj EXCEPT !.status = st]
<1>1. p.obj \in Objects /\ p.obj.status \in Statuses
  BY DEF Passes, Objects
<1>2. st.outcome = o /\ st.gen = g /\ st.id = p.obj.status.id /\ st.hash = p.obj.status.hash
  BY <1>1 DEF SetConditionsOnOutcome, Statuses
<1>3. Verdict(p, g, o, r) = [p EXCEPT !.obj = ob]
  BY DEF Verdict, Passes
<1> HIDE DEF st
<1>4. ob.status = st
  BY <1>1 DEF Objects
<1> HIDE DEF ob
<1>5. [p EXCEPT !.obj = ob].before = p.before /\ [p EXCEPT !.obj = ob].obj = ob
  BY DEF Passes
<1> QED BY <1>2, <1>3, <1>4, <1>5

\* A verdict other than synced ends a pass over a live CR.
LEMMA VerdictEnds ==
  ASSUME TypeOK, RestInductive, pass.pc \in Deciding,
         UNCHANGED versions, DeletionHeld', MadeOfBodies',
         NEW p \in Passes, p.before = pass.before,
         NEW g \in Nat, Quiet => g = store.gen,
         NEW o \in Outcomes \ {"synced"}, NEW r \in ConditionReasons,
         NEW again \in Agains,
         again = "none" => o \in {"terminal", "suspended"},
         \/ Conclude(Verdict(p, g, o, r), again, queued)
         \/ Report(Verdict(p, g, o, r), again, queued)
  PROVE  RestInductive'
<1> DEFINE v == Verdict(p, g, o, r)
<1>1. v \in Passes
  BY VerdictType
<1>2. v.before = pass.before /\ v.obj.status.outcome = o /\ v.obj.status.gen = g
  BY VerdictFields
<1>3. Quiet => pass.before = store.status /\ ~store.deleting
  BY DEF RestInductive, Undisturbed
<1>4. queued \in BOOLEAN /\ (Quiet <=> ~queued /\ Len(versions) = 1)
  BY PassFacts DEF Quiet
<1> HIDE DEF v
<1>5. Conclude(v, again, queued) \/ Report(v, again, queued)
  BY DEF v
<1> QED BY <1>1, <1>2, <1>3, <1>4, <1>5, Ending

\* A failing request ends a pass over a live CR: retried, or for good.
LEMMA FailureEnds ==
  ASSUME TypeOK, RestInductive, pass.pc \in Deciding,
         UNCHANGED versions, DeletionHeld', MadeOfBodies',
         NEW p \in Passes, p.before = pass.before, Quiet => p.obj.gen = store.gen,
         NEW e \in ErrorValues \cup {NoError}, OnAdapterError(p, e)
  PROVE  RestInductive'
<1> DEFINE o == OutcomeOnErr(e)[1]
           r == OutcomeOnErr(e)[2]
           again == IF o = "recoverable" THEN "later" ELSE "none"
<1>1. o \in {"recoverable", "terminal"} /\ r \in ConditionReasons
  <2>1. OutcomeOnErr(e) \in {"recoverable", "terminal"} \X ConditionReasons
    BY DEF OutcomeOnErr, ConditionReasons
  <2> QED BY <2>1
<1>2. \/ Conclude(Verdict(p, p.obj.gen, o, r), again, queued)
      \/ Report(Verdict(p, p.obj.gen, o, r), again, queued)
  BY DEF OnAdapterError, GetOutcomeAndSetConditionsOnErr, Verdict
<1>3. p.obj.gen \in Nat
  BY DEF Passes, Objects
<1> HIDE DEF o, r
<1>4. /\ o \in Outcomes \ {"synced"} /\ again \in Agains
      /\ again = "none" => o \in {"terminal", "suspended"}
  BY <1>1 DEF Outcomes, Agains
<1> HIDE DEF again
<1> QED BY <1>1, <1>2, <1>3, <1>4, VerdictEnds

\* A pass that goes on at another request is still the quiet pass it was.
LEMMA MovesOn ==
  ASSUME TypeOK, RestInductive, pass.pc \in Deciding, pass'.pc \in Deciding,
         UNCHANGED <<versions, queued, timer>>, DeletionHeld', MadeOfBodies',
         pass'.before = pass.before, pass'.ref = pass.ref,
         Quiet => /\ pass'.obj.gen = store.gen /\ pass'.obj.spec = store.spec
                  /\ pass'.obj.status.hash = store.status.hash,
         \/ pass.pc \in {"find", "mark", "create", "conflictFind", "dropRejected"}
         \/ pass'.pc \in {"read", "update"},
         pass'.pc = "update" => RepairsItsOwn'
  PROVE  RestInductive'
<1>1. store' = store /\ (Quiet' <=> Quiet)
  BY DEF store, Quiet
<1>2. Undisturbed'
  BY <1>1 DEF RestInductive, Undisturbed
<1>3. CreatesUnrecorded'
  BY <1>1 DEF RestInductive, CreatesUnrecorded
<1>4. RepairsItsOwn'
  BY DEF RepairsItsOwn
<1>5. FinalizesDeleted' /\ NeverStranded' /\ RestConverged'
  BY DEF FinalizesDeleted, NeverStranded, RestConverged, AtRest, Deciding,
         LivePcs, FinalizePcs
<1> QED BY <1>2, <1>3, <1>4, <1>5, RestForm, PTL

-----------------------------------------------------------------------------
(* The steps of a pass over a live CR *)

\* What every step of the system gives the two plain parts.
LEMMA PlainParts ==
  ASSUME TypeOK, RestInductive, [Next]_vars
  PROVE  DeletionHeld' /\ MadeOfBodies'
BY DeletionHeldStep, MadeOfBodiesStep DEF RestInductive

\* What a quiet pass knows.
LEMMA QuietPass ==
  ASSUME RestInductive, pass.pc \in Deciding, Quiet
  PROVE  /\ ~store.deleting
         /\ pass.obj.gen = store.gen /\ pass.obj.spec = store.spec
         /\ pass.ref = store.spec.ref
         /\ pass.before = store.status
         /\ pass.obj.status.hash = store.status.hash
BY DEF RestInductive, Undisturbed

\* The Find of a pass without a record.
LEMMA OnNewObjectRests ==
  ASSUME TypeOK, RestInductive, OnNewObject, DeletionHeld', MadeOfBodies'
  PROVE  RestInductive'
<1>1. pass.pc = "find" /\ pass.pc \in Deciding /\ UNCHANGED versions
  BY DEF OnNewObject, Deciding, LivePcs
<1>2. pass \in Passes /\ pass.obj.gen \in Nat /\ (Quiet => pass.obj.gen = store.gen)
  BY <1>1, PassFacts, QuietPass
<1>3. ASSUME NEW code \in FaultCodes, OnAdapterError(pass, Failure(code))
      PROVE  RestInductive'
  BY <1>1, <1>2, <1>3, FailureEnds, FailureType, FaultCodesType
<1>4. ASSUME NEW id, Goto([pass EXCEPT !.pc = "mark", !.target = id])
      PROVE  RestInductive'
  <2>1. /\ pass'.pc = "mark" /\ pass'.before = pass.before /\ pass'.ref = pass.ref
        /\ pass'.obj = pass.obj /\ UNCHANGED <<versions, queued, timer>>
    BY <1>1, <1>2, <1>4 DEF Goto, Passes
  <2> QED BY <1>1, <2>1, QuietPass, MovesOn DEF Deciding, LivePcs
<1>5. ASSUME NEW r \in {"SigNozResourceIDMismatch", "Ambiguous"},
             Conclude(Verdict(pass, pass.obj.gen, "terminal", r), "none", queued)
      PROVE  RestInductive'
  BY <1>1, <1>2, <1>5, VerdictEnds DEF Outcomes, ConditionReasons, Agains
<1> QED BY <1>3, <1>4, <1>5 DEF OnNewObject

\* The Find after a 409.
LEMMA OnConflictRests ==
  ASSUME TypeOK, RestInductive, OnConflict, DeletionHeld', MadeOfBodies'
  PROVE  RestInductive'
<1>1. pass.pc = "conflictFind" /\ pass.pc \in Deciding /\ UNCHANGED versions
  BY DEF OnConflict, Deciding, LivePcs
<1>2. pass \in Passes /\ pass.obj.gen \in Nat /\ (Quiet => pass.obj.gen = store.gen)
  BY <1>1, PassFacts, QuietPass
<1>3. ASSUME NEW code \in FaultCodes, OnAdapterError(pass, Failure(code))
      PROVE  RestInductive'
  BY <1>1, <1>2, <1>3, FailureEnds, FailureType, FaultCodesType
<1>4. ASSUME NEW id, Goto([pass EXCEPT !.pc = "mark", !.target = id])
      PROVE  RestInductive'
  <2>1. /\ pass'.pc = "mark" /\ pass'.before = pass.before /\ pass'.ref = pass.ref
        /\ pass'.obj = pass.obj /\ UNCHANGED <<versions, queued, timer>>
    BY <1>1, <1>2, <1>4 DEF Goto, Passes
  <2> QED BY <1>1, <2>1, QuietPass, MovesOn DEF Deciding, LivePcs
<1>5. ASSUME \/ Conclude(Verdict(pass, pass.obj.gen, "recoverable", "BackendError"),
                         "later", queued)
             \/ Conclude(Verdict(pass, pass.obj.gen, "terminal", "Ambiguous"),
                         "none", queued)
      PROVE  RestInductive'
  BY <1>1, <1>2, <1>5, VerdictEnds DEF Outcomes, ConditionReasons, Agains
<1> QED BY <1>3, <1>4, <1>5 DEF OnConflict

\* A write breaks the quiet until the next pass.
LEMMA WriteIsLoud ==
  ASSUME TypeOK, NEW o \in Objects, Write(o), DeletionHeld', MadeOfBodies'
  PROVE  RestInductive'
BY StoreType, WriteEffect, Loud DEF Quiet

\* A patch that changes nothing leaves the quiet pass with the API server's
\* generation, spec and hash.
LEMMA RefreshFields ==
  ASSUME NEW live \in Objects, NEW mem \in Objects
  PROVE  LET o == Refresh(live, mem)
         IN /\ o.gen = live.gen /\ o.spec = live.spec
            /\ o.status.hash \in {live.status.hash, mem.status.hash}
<1> DEFINE st == [ id |-> Kept(live.status.id, mem.status.id, NoId),
                   hash |-> Kept(live.status.hash, mem.status.hash, NoHash),
                   outcome |-> Kept(live.status.outcome, mem.status.outcome, "none"),
                   reason |-> Kept(live.status.reason, mem.status.reason, "None"),
                   gen |-> Kept(live.status.gen, mem.status.gen, 0) ]
           pin == Kept(live.pin, mem.pin, NoId)
<1>1. st.hash \in {live.status.hash, mem.status.hash}
  BY DEF Kept
<1>2. Refresh(live, mem) = [live EXCEPT !.pin = pin, !.status = st]
  BY DEF Refresh, Objects
<1> HIDE DEF st, pin
<1> QED BY <1>1, <1>2 DEF Objects

\* The annotation patch before a POST or an adoption.
LEMMA AddCreateAttemptRests ==
  ASSUME TypeOK, RestInductive, AddCreateAttemptAnnotation,
         DeletionHeld', MadeOfBodies'
  PROVE  RestInductive'
<1> DEFINE mem == Refresh(Marked(store), pass.obj)
           bound == [mem EXCEPT !.status.id = pass.target]
<1>1. pass.pc = "mark" /\ pass.pc \in Deciding
  BY DEF AddCreateAttemptAnnotation, Deciding, LivePcs
<1>2. pass \in Passes /\ pass.obj \in Objects /\ store \in Objects /\ Marked(store) \in Objects
  BY PassFacts, StoreType, WrittenType
<1>3. /\ Marked(store).gen = store.gen /\ Marked(store).spec = store.spec
      /\ Marked(store).status = store.status
  BY <1>2 DEF Marked, Objects
<1>4. /\ mem.gen = store.gen /\ mem.spec = store.spec
      /\ mem.status.hash \in {store.status.hash, pass.obj.status.hash}
  BY <1>2, <1>3, RefreshFields
<1>5. bound.gen = mem.gen /\ bound.spec = mem.spec /\ bound.status.hash = mem.status.hash
  <2>1. mem \in Objects
    BY <1>2, RefreshType
  <2> HIDE DEF mem
  <2>2. mem.status \in Statuses
    BY <2>1 DEF Objects
  <2> QED BY <2>1, <2>2 DEF Objects, Statuses
<1> HIDE DEF mem, bound
<1>6. CASE Write(Marked(store))
  BY <1>2, <1>6, WriteIsLoud
<1>7. CASE Conclude(pass, "error", queued) \/ Conclude(Outdated(pass), "error", queued)
  BY <1>2, <1>7, OutdatedType, EndsWithError
<1>8. ASSUME UNCHANGED versions, NEW o \in {mem, bound}, NEW pc \in {"create", "read"},
             UNCHANGED <<queued, timer>>,
             pass' \in {[pass EXCEPT !.obj = o, !.fresh = TRUE, !.pc = pc],
                        [pass EXCEPT !.obj = o, !.fresh = TRUE, !.pc = pc, !.target = NoId]}
      PROVE  RestInductive'
  <2>1. /\ pass'.pc = pc /\ pass'.obj = o /\ pass'.before = pass.before
        /\ pass'.ref = pass.ref
    BY <1>2, <1>8 DEF Passes
  <2>2. pc \in Deciding
    BY DEF Deciding, LivePcs
  <2>3. Quiet => pass'.obj.gen = store.gen /\ pass'.obj.spec = store.spec
                 /\ pass'.obj.status.hash = store.status.hash
    BY <1>1, <1>4, <1>5, <1>8, <2>1, QuietPass
  <2> QED BY <1>1, <1>8, <2>1, <2>2, <2>3, MovesOn
<1>9. CASE /\ UNCHANGED versions
           /\ \/ Goto([pass EXCEPT !.obj = mem, !.fresh = TRUE, !.pc = "create"])
              \/ Goto([pass EXCEPT !.obj = bound, !.fresh = TRUE, !.pc = "read",
                                   !.target = NoId])
  BY <1>8, <1>9, Zenon DEF Goto
<1> QED BY <1>6, <1>7, <1>9 DEF AddCreateAttemptAnnotation, mem, bound

\* The patch that takes the annotation off again.
LEMMA RemoveCreateAttemptRests ==
  ASSUME TypeOK, RestInductive, RemoveCreateAttemptAnnotation,
         DeletionHeld', MadeOfBodies'
  PROVE  RestInductive'
<1>0. PICK cleared \in ClearedForms : PatchAttemptOff(cleared)
  BY DEF RemoveCreateAttemptAnnotation
<1> DEFINE mem == Refresh(cleared, pass.obj)
           p == [pass EXCEPT !.obj = mem, !.fresh = TRUE]
<1>1. pass.pc \in {"dropRejected", "dropAttempt"} /\ pass.pc \in Deciding
  BY <1>0 DEF PatchAttemptOff, Deciding, LivePcs
<1>2. pass \in Passes /\ pass.obj \in Objects /\ store \in Objects /\ cleared \in Objects
      /\ pass.err \in ErrorValues \cup {NoError}
  BY PassFacts, StoreType, ClearedType
<1>3. cleared.gen = store.gen /\ cleared.spec = store.spec /\ cleared.status = store.status
  BY ClearedType
<1>4. /\ mem.gen = store.gen /\ mem.spec = store.spec /\ mem \in Objects
      /\ mem.status.hash \in {store.status.hash, pass.obj.status.hash}
  BY <1>2, <1>3, RefreshFields, RefreshType
<1> HIDE DEF mem
<1>5. p \in Passes /\ p.before = pass.before /\ p.obj = mem /\ p.ref = pass.ref
  BY <1>2, <1>4 DEF Passes
<1> HIDE DEF p
<1>6. CASE Write(cleared)
  BY <1>2, <1>6, WriteIsLoud
<1>7. CASE Conclude(pass, "error", queued) \/ Conclude(Outdated(pass), "error", queued)
  BY <1>2, <1>7, OutdatedType, EndsWithError
<1>8. CASE UNCHANGED versions /\ OnAdapterError(p, pass.err)
  BY <1>1, <1>2, <1>4, <1>5, <1>8, FailureEnds
<1>9. CASE UNCHANGED versions /\ Goto([p EXCEPT !.pc = "read"])
  <2>1. /\ pass'.pc = "read" /\ pass'.obj = mem /\ pass'.before = pass.before
        /\ pass'.ref = pass.ref
        /\ UNCHANGED <<versions, queued, timer>>
    BY <1>5, <1>9 DEF Goto, Passes
  <2>2. Quiet => pass'.obj.gen = store.gen /\ pass'.obj.spec = store.spec
                 /\ pass'.obj.status.hash = store.status.hash
    BY <1>1, <1>4, <2>1, QuietPass
  <2> QED BY <1>1, <2>1, <2>2, MovesOn DEF Deciding, LivePcs
<1> QED BY <1>0, <1>6, <1>7, <1>8, <1>9 DEF PatchAttemptOff, mem, p

\* A create that ends at once would have found its new id on record already.
LEMMA CreateRests ==
  ASSUME TypeOK, RestInductive, Create, DeletionHeld', MadeOfBodies'
  PROVE  RestInductive'
<1> DEFINE fail(e) == IF IsRetryable(e)
                      THEN OnAdapterError(pass, e)
                      ELSE Goto([pass EXCEPT !.pc = "dropRejected", !.err = e])
           recorded(id) == [pass.obj.status EXCEPT !.id = id, !.hash = pass.hash]
           st(id) == SetConditionsOnOutcome(recorded(id), pass.gen, "synced", "Created")
           created(id) == [pass EXCEPT !.obj.status = st(id)]
<1>1. pass.pc = "create" /\ pass.pc \in Deciding /\ UNCHANGED versions
  BY DEF Create, Deciding, LivePcs
<1>2. pass \in Passes /\ pass.obj \in Objects /\ pass.obj.status \in Statuses
      /\ queued \in BOOLEAN /\ pass.hash \in Hashes /\ pass.gen \in Nat
      /\ (Quiet => pass.obj.gen = store.gen)
  BY <1>1, PassFacts, QuietPass
<1>3. ASSUME NEW pc \in {"dropRejected", "conflictFind"}, NEW e,
             Goto([pass EXCEPT !.pc = pc, !.err = e]) \/ Goto([pass EXCEPT !.pc = pc])
      PROVE  RestInductive'
  <2>1. /\ pass'.pc = pc /\ pass'.before = pass.before /\ pass'.ref = pass.ref
        /\ pass'.obj = pass.obj /\ UNCHANGED <<queued, timer>>
    BY <1>2, <1>3 DEF Goto, Passes
  <2>2. pc \in Deciding /\ pc # "update"
    BY DEF Deciding, LivePcs
  <2> QED BY <1>1, <2>1, <2>2, QuietPass, MovesOn
<1>4. ASSUME NEW e \in ErrorValues \cup {NoError}, fail(e)
      PROVE  RestInductive'
  <2>1. CASE OnAdapterError(pass, e)
    BY <1>1, <1>2, <2>1, FailureEnds
  <2>2. CASE Goto([pass EXCEPT !.pc = "dropRejected", !.err = e])
    BY <1>3, <2>2
  <2> QED BY <1>4, <2>1, <2>2
<1>5. ASSUME NEW id \in Ids, Conclude(created(id), "later", queued)
      PROVE  RestInductive'
  <2>1. recorded(id) \in Statuses /\ recorded(id).id = id
    BY <1>2 DEF Statuses
  <2> HIDE DEF recorded
  <2>2. st(id) \in Statuses /\ st(id).id = id
    <3>1. st(id) \in Statuses
      BY <1>2, <2>1, ConditionsType DEF Outcomes, ConditionReasons
    <3>2. st(id).id = recorded(id).id
      BY <2>1 DEF SetConditionsOnOutcome, Statuses
    <3> QED BY <2>1, <3>1, <3>2
  <2> HIDE DEF st
  <2> DEFINE ob == [pass.obj EXCEPT !.status = st(id)]
  <2>3. created(id) = [pass EXCEPT !.obj = ob]
    BY <1>2 DEF Passes
  <2>4. ob \in Objects /\ ob.status = st(id)
    BY <1>2, <2>2 DEF Objects
  <2> HIDE DEF ob
  <2>5. /\ created(id) \in Passes /\ created(id).before = pass.before
        /\ created(id).obj.status = st(id)
    BY <1>2, <2>3, <2>4 DEF Passes
  <2>6. Quiet => pass.before = store.status /\ store.status.id = NoId
    BY <1>1, QuietPass DEF RestInductive, CreatesUnrecorded
  <2>7. id # NoId
    BY IdsAssumption
  <2>8. ~queued /\ Len(versions) = 1 => Quiet
    BY DEF Quiet
  <2> HIDE DEF created
  <2> QED BY <1>1, <1>2, <1>5, <2>2, <2>5, <2>6, <2>7, <2>8, Ending DEF Agains
<1>6. "Raw" \in ErrorValues /\ NewFromHTTPResponse(400) \in ErrorValues \cup {NoError}
      /\ \A code \in FaultCodes : Failure(code) \in ErrorValues \cup {NoError}
  BY FailureType, FaultCodesType DEF ErrorValues
<1>7. \/ fail("Raw") \/ fail(NewFromHTTPResponse(400))
      \/ Goto([pass EXCEPT !.pc = "conflictFind"])
      \/ \E id \in Ids : Conclude(created(id), "later", queued)
      \/ \E code \in FaultCodes : fail(Failure(code))
  BY Zenon DEF Create, NextIds
<1>8. CASE Goto([pass EXCEPT !.pc = "conflictFind"])
  BY <1>3, <1>8
<1> HIDE DEF fail, created
<1> QED BY <1>4, <1>5, <1>6, <1>7, <1>8

\* What is recorded when the object is in sync or was updated.
LEMMA SameFields ==
  ASSUME TypeOK
  PROVE  LET same == [pass EXCEPT !.obj.status.hash = pass.hash]
         IN /\ same \in Passes /\ same.before = pass.before
            /\ same.obj.status.id = pass.obj.status.id
            /\ same.obj.status.hash = pass.hash
<1> DEFINE st == [pass.obj.status EXCEPT !.hash = pass.hash]
           ob == [pass.obj EXCEPT !.status = st]
<1>1. /\ pass \in Passes /\ pass.obj \in Objects /\ pass.obj.status \in Statuses
      /\ [pass EXCEPT !.obj.status.hash = pass.hash] \in Passes
  BY PassFacts, RecordedType
<1>2. st.id = pass.obj.status.id /\ st.hash = pass.hash
  BY <1>1 DEF Statuses
<1> HIDE DEF st
<1>3. ob.status = st
  BY <1>1 DEF Objects
<1>4. [pass EXCEPT !.obj.status.hash = pass.hash] = [pass EXCEPT !.obj = ob]
  BY <1>1 DEF Passes, Objects, st
<1> HIDE DEF ob
<1>5. [pass EXCEPT !.obj = ob].before = pass.before /\ [pass EXCEPT !.obj = ob].obj = ob
  BY <1>1 DEF Passes
<1> QED BY <1>1, <1>2, <1>3, <1>4, <1>5

\* A synced verdict ends a pass over a live CR: when it was on record already,
\* the object it names must be right.
LEMMA SyncedEnds ==
  ASSUME TypeOK, RestInductive, pass.pc \in Deciding,
         UNCHANGED versions, DeletionHeld', MadeOfBodies',
         NEW r \in ConditionReasons,
         Conclude(Verdict([pass EXCEPT !.obj.status.hash = pass.hash],
                          pass.obj.gen, "synced", r), "later", queued),
         /\ Quiet /\ UnsentUnseen
         /\ store.status.id = pass.obj.status.id /\ store.status.hash = pass.hash
         /\ store.status.gen = store.gen
         => Converged'
  PROVE  RestInductive'
<1> DEFINE same == [pass EXCEPT !.obj.status.hash = pass.hash]
           v == Verdict(same, pass.obj.gen, "synced", r)
<1>1. /\ same \in Passes /\ same.before = pass.before
      /\ same.obj.status.id = pass.obj.status.id /\ same.obj.status.hash = pass.hash
  BY SameFields
<1> HIDE DEF same
<1>2. pass.obj.gen \in Nat /\ queued \in BOOLEAN /\ "synced" \in Outcomes
  BY PassFacts DEF Outcomes
<1>3. /\ v \in Passes /\ v.before = pass.before
      /\ v.obj.status.id = pass.obj.status.id /\ v.obj.status.hash = pass.hash
      /\ v.obj.status.gen = pass.obj.gen
  BY <1>1, <1>2, VerdictType, VerdictFields
<1>4. Conclude(v, "later", queued)
  BY DEF same
<1>5. Quiet => pass.before = store.status /\ pass.obj.gen = store.gen
  BY QuietPass
<1>6. ~queued /\ Len(versions) = 1 => Quiet
  BY DEF Quiet
<1> HIDE DEF v
<1> QED BY <1>2, <1>3, <1>4, <1>5, <1>6, Ending DEF Agains

\* The GET of a recorded object, and its comparison.
LEMMA OnExistingObjectRests ==
  ASSUME TypeOK, RestInductive, OnExistingObject, DeletionHeld', MadeOfBodies'
  PROVE  RestInductive'
<1> DEFINE o == pass.obj
           id == o.status.id
           lost == [pass EXCEPT !.obj.status.id = NoId, !.obj.status.hash = NoHash]
           same == [pass EXCEPT !.obj.status.hash = pass.hash]
           hashChanged == o.status.hash \notin {NoHash, pass.hash}
           drift == UpdatableFieldsDiffer(id, o.spec) \/ hashChanged
<1>1. pass.pc = "read" /\ pass.pc \in Deciding /\ UNCHANGED versions
  BY DEF OnExistingObject, Deciding, LivePcs
<1>2. pass \in Passes /\ pass.obj \in Objects /\ o.gen \in Nat /\ o.spec \in Specs
      /\ remote \in [Ids -> RemoteObjects] /\ (Quiet => o.gen = store.gen)
  BY <1>1, PassFacts, QuietPass
<1>3. ASSUME NEW code \in FaultCodes, OnAdapterError(pass, Failure(code))
      PROVE  RestInductive'
  BY <1>1, <1>2, <1>3, FailureEnds, FailureType, FaultCodesType
<1>4. ASSUME NEW r \in {"CompareFailed", "ImmutableFieldChanged"},
             Conclude(Verdict(pass, o.gen, "terminal", r), "none", queued)
      PROVE  RestInductive'
  BY <1>1, <1>2, <1>4, VerdictEnds DEF Outcomes, ConditionReasons, Agains
<1>5. ASSUME Conclude(Verdict(lost, o.gen, "pending", "Pending"), "later", queued)
      PROVE  RestInductive'
  <2>1. lost \in Passes
    BY RecordedType
  <2>2. lost.before = pass.before
    BY <1>2 DEF Passes
  <2> HIDE DEF lost
  <2> QED BY <1>1, <1>2, <1>5, <2>1, <2>2, VerdictEnds
          DEF Outcomes, ConditionReasons, Agains
<1>6. ASSUME Live(id, pass.ref), ~ImmutableFieldsDiffer(id, o.spec), drift,
             Goto([pass EXCEPT !.pc = "update"]), UNCHANGED remote
      PROVE  RestInductive'
  <2>1. /\ pass'.pc = "update" /\ pass'.before = pass.before /\ pass'.ref = pass.ref
        /\ pass'.obj = pass.obj /\ pass'.hash = pass.hash
        /\ UNCHANGED <<versions, queued, timer>>
    BY <1>1, <1>2, <1>6 DEF Goto, Passes
  <2>2. id \in Ids /\ remote[id].state = "live" /\ remote[id].body \in Bodies
    BY <1>6 DEF Live, RestInductive, MadeOfBodies
  <2>3. store' = store /\ (Quiet' <=> Quiet)
    BY <2>1 DEF store, Quiet
  <2>4. ASSUME Quiet, IdentityImmutable PROVE remote[id].ident = store.spec.ident
    BY <1>1, <1>6, <2>4, QuietPass DEF ImmutableFieldsDiffer
  <2>5. ASSUME Quiet, IdentityImmutable, store.spec.body \in Unsendable, UnsentUnseen
        PROVE  pass.hash # store.status.hash
    <3>1. o.spec = store.spec /\ o.status.hash = store.status.hash
      BY <1>1, <2>5, QuietPass
    <3>2. ~UpdatableFieldsDiffer(id, o.spec)
      BY <2>2, <2>5, <3>1 DEF UpdatableFieldsDiffer, UnsentUnseen
    <3> QED BY <1>6, <3>1, <3>2
  <2>6. RepairsItsOwn'
    BY <1>6, <2>1, <2>2, <2>3, <2>4, <2>5 DEF RepairsItsOwn, UnsentUnseen
  <2> QED BY <1>1, <2>1, <2>6, QuietPass, MovesOn DEF Deciding, LivePcs
<1>7. ASSUME Live(id, pass.ref), ~ImmutableFieldsDiffer(id, o.spec), ~drift,
             Conclude(Verdict(same, o.gen, "synced", "Synced"), "later", queued),
             remote' = [remote EXCEPT ![id].touched = FALSE]
      PROVE  RestInductive'
  <2>1. ASSUME Quiet, store.status.id = id, store.status.gen = store.gen
        PROVE  Converged'
    <3>1. store' = store
      BY <1>1 DEF store
    <3>2. id \in Ids /\ remote[id].state = "live" /\ remote[id].ref = pass.ref
      BY <1>7 DEF Live
    <3>3. remote'[id] = [remote[id] EXCEPT !.touched = FALSE]
      BY <1>2, <1>7, <3>2
    <3>4. /\ remote'[id].state = "live" /\ remote'[id].ref = pass.ref
          /\ remote'[id].ident = remote[id].ident /\ remote'[id].body = remote[id].body
      BY <1>2, <3>2, <3>3 DEF RemoteObjects
    <3>5. o.spec = store.spec /\ pass.ref = store.spec.ref
      BY <1>1, <2>1, QuietPass
    <3>6. /\ Shown[remote[id].body] = Shown[o.spec.body]
          /\ remote[id].ident = o.spec.ident
      BY <1>7 DEF UpdatableFieldsDiffer, ImmutableFieldsDiffer
    <3> QED BY <2>1, <3>1, <3>2, <3>4, <3>5, <3>6 DEF Converged, Live
  <2> HIDE DEF drift
  <2> QED BY <1>1, <1>7, <2>1, SyncedEnds DEF ConditionReasons
<1>8. \/ \E code \in FaultCodes : OnAdapterError(pass, Failure(code))
      \/ Conclude(Verdict(pass, o.gen, "terminal", "CompareFailed"), "none", queued)
      \/ Conclude(Verdict(pass, o.gen, "terminal", "ImmutableFieldChanged"), "none", queued)
      \/ Conclude(Verdict(lost, o.gen, "pending", "Pending"), "later", queued)
      \/ /\ Live(id, pass.ref) /\ ~ImmutableFieldsDiffer(id, o.spec) /\ drift
         /\ Goto([pass EXCEPT !.pc = "update"]) /\ UNCHANGED remote
      \/ /\ Live(id, pass.ref) /\ ~ImmutableFieldsDiffer(id, o.spec) /\ ~drift
         /\ Conclude(Verdict(same, o.gen, "synced", "Synced"), "later", queued)
         /\ remote' = [remote EXCEPT ![id].touched = FALSE]
  BY Zenon DEF OnExistingObject
<1> HIDE DEF lost, same, drift
<1> QED BY <1>3, <1>4, <1>5, <1>6, <1>7, <1>8

\* The PUT.
LEMMA UpdateRests ==
  ASSUME TypeOK, RestInductive, Update, DeletionHeld', MadeOfBodies'
  PROVE  RestInductive'
<1> DEFINE s == pass.obj.spec
           id == pass.obj.status.id
           same == [pass EXCEPT !.obj.status.hash = pass.hash]
           ended == Conclude(Verdict(same, pass.obj.gen, "synced", "Updated"), "later", queued)
           sends == ~(IdentityImmutable /\ s.body \in Unsendable)
<1>1. pass.pc = "update" /\ pass.pc \in Deciding /\ UNCHANGED versions
  BY DEF Update, Deciding, LivePcs
<1>2. pass \in Passes /\ pass.obj \in Objects /\ remote \in [Ids -> RemoteObjects]
      /\ (Quiet => pass.obj.gen = store.gen)
  BY <1>1, PassFacts, QuietPass
<1>3. ASSUME NEW code \in FaultCodes \cup {400, 404, 409},
             \/ OnAdapterError(pass, Failure(code))
             \/ OnAdapterError(pass, NewFromHTTPResponse(code))
      PROVE  RestInductive'
  BY <1>1, <1>2, <1>3, FailureEnds, FailureType, FaultCodesType
<1>4. ASSUME Quiet, UnsentUnseen
      PROVE  /\ id \in Ids
             /\ IdentityImmutable => remote[id].ident = s.ident
             /\ ~sends => pass.hash # store.status.hash
             /\ s = store.spec /\ pass.ref = store.spec.ref
  BY <1>1, <1>4, QuietPass DEF RestInductive, RepairsItsOwn
<1>5. ASSUME ~sends, ended PROVE RestInductive'
  <2> HIDE DEF sends
  <2> QED BY <1>1, <1>4, <1>5, SyncedEnds DEF ConditionReasons
<1>6. ASSUME Live(id, pass.ref), remote' = [remote EXCEPT ![id] = Updated(id, s)], ended
      PROVE  RestInductive'
  <2>1. ASSUME Quiet, UnsentUnseen, store.status.id = id, store.status.gen = store.gen
        PROVE  Converged'
    <3>1. store' = store
      BY <1>1 DEF store
    <3>2. remote[id].state = "live" /\ remote[id].ref = pass.ref /\ id \in Ids
      BY <1>6 DEF Live
    <3>3. remote'[id] = Updated(id, s)
      BY <1>2, <1>6, <3>2
    <3>4. /\ Updated(id, s).state = "live" /\ Updated(id, s).ref = pass.ref
          /\ Updated(id, s).body = s.body
          /\ Updated(id, s).ident = IF IdentityImmutable THEN remote[id].ident ELSE s.ident
      BY <1>2, <3>2 DEF Updated, RemoteObjects
    <3>5. Updated(id, s).ident = s.ident
      BY <1>4, <2>1, <3>4
    <3> HIDE DEF s
    <3> QED BY <1>4, <2>1, <3>1, <3>2, <3>3, <3>4, <3>5 DEF Converged, Live
  <2> QED BY <1>1, <1>6, <2>1, SyncedEnds DEF ConditionReasons
<1>7. \/ ~sends /\ ended
      \/ Live(id, pass.ref) /\ remote' = [remote EXCEPT ![id] = Updated(id, s)] /\ ended
      \/ \E code \in FaultCodes : OnAdapterError(pass, Failure(code))
      \/ OnAdapterError(pass, NewFromHTTPResponse(400))
      \/ OnAdapterError(pass, NewFromHTTPResponse(404))
      \/ OnAdapterError(pass, NewFromHTTPResponse(409))
  BY Zenon DEF Update
<1> HIDE DEF ended, sends
<1> QED BY <1>3, <1>5, <1>6, <1>7

\* The status write puts the key back, or is itself an event to come.
LEMMA UpdateStatusRests ==
  ASSUME TypeOK, UpdateStatus, DeletionHeld', MadeOfBodies'
  PROVE  RestInductive'
<1>1. pass \in Passes /\ [store EXCEPT !.status = pass.obj.status] \in Objects
  BY PassFacts, WrittenType
<1>2. Stop("error") \/ Write([store EXCEPT !.status = pass.obj.status])
  BY DEF UpdateStatus
<1> QED BY <1>1, <1>2, EndsWithError, WriteIsLoud

-----------------------------------------------------------------------------
(* The steps of a finalizing pass *)

\* A finalizing pass that stops leaves a timer, over a CR being deleted.
LEMMA StopsLater ==
  ASSUME TypeOK, RestInductive, pass.pc \in FinalizePcs, UNCHANGED versions,
         Stop("later"), DeletionHeld', MadeOfBodies'
  PROVE  RestInductive'
<1>1. store' = store /\ (Quiet' => Quiet) /\ timer' /\ pass'.pc = "idle"
  BY DEF Stop, Requeue, Quiet, store, Idle
<1>2. Quiet => store.deleting
  BY DEF RestInductive, FinalizesDeleted
<1> QED BY <1>1, <1>2, AtIdle

\* A finalizing pass that goes on.
LEMMA FinalizesOn ==
  ASSUME RestInductive, pass.pc \in FinalizePcs, pass'.pc \in FinalizePcs,
         UNCHANGED <<versions, queued, timer>>, DeletionHeld', MadeOfBodies'
  PROVE  RestInductive'
<1>1. store' = store /\ (Quiet' <=> Quiet)
  BY DEF store, Quiet
<1>2. FinalizesDeleted'
  BY <1>1 DEF RestInductive, FinalizesDeleted
<1>3. Undisturbed' /\ CreatesUnrecorded' /\ RepairsItsOwn' /\ NeverStranded' /\ RestConverged'
  BY DEF Undisturbed, CreatesUnrecorded, RepairsItsOwn, NeverStranded,
         RestConverged, AtRest, Deciding, LivePcs, FinalizePcs
<1> QED BY <1>2, <1>3, RestForm, PTL

\* The steps of finalize.
LEMMA FinalizeRests ==
  ASSUME TypeOK, RestInductive, FinalizeFind \/ Reclaim \/ RemoveFinalizer,
         DeletionHeld', MadeOfBodies'
  PROVE  RestInductive'
<1>1. pass \in Passes /\ pass.pc \in FinalizePcs /\ Absent \in Objects
  BY PassFacts, Starts DEF FinalizeFind, Reclaim, RemoveFinalizer, FinalizePcs
<1>2. ASSUME NEW pc \in FinalizePcs, NEW id, UNCHANGED versions,
             Goto([pass EXCEPT !.pc = pc]) \/ Goto([pass EXCEPT !.pc = pc, !.target = id])
      PROVE  RestInductive'
  <2>1. pass'.pc = pc /\ UNCHANGED <<queued, timer>>
    BY <1>1, <1>2 DEF Goto, Passes
  <2> QED BY <1>1, <1>2, <2>1, FinalizesOn
<1>3. CASE FinalizeFind \/ Reclaim
  <2>1. UNCHANGED versions
    BY <1>3 DEF FinalizeFind, Reclaim
  <2>2. \/ Stop("later") \/ Goto([pass EXCEPT !.pc = "removeFinalizer"])
        \/ \E id : Goto([pass EXCEPT !.pc = "reclaim", !.target = id])
    BY <1>3 DEF FinalizeFind, Reclaim
  <2> QED BY <1>1, <1>2, <2>1, <2>2, StopsLater DEF FinalizePcs
<1>4. CASE RemoveFinalizer
  <2>1. Stop("error") \/ Write(Absent)
    BY <1>4 DEF RemoveFinalizer
  <2> QED BY <1>1, <2>1, EndsWithError, WriteIsLoud
<1> QED BY <1>3, <1>4

-----------------------------------------------------------------------------
(* The start of a pass *)

\* The copy a worker fetches in quiet is the API server's.
LEMMA FetchedFields ==
  ASSUME TypeOK
  PROVE  /\ Fetched \in Passes /\ Fetched.obj = cache /\ Fetched.before = cache.status
         /\ Len(versions) = 1 => cache = store
<1>1. Fetched \in Passes /\ Fetched.obj = cache /\ Fetched.before = cache.status
  BY FetchedType DEF Fetched, Idle
<1>2. Len(versions) = 1 => cache = store
  BY StoreType DEF store
<1> QED BY <1>1, <1>2

\* The decisions at the start of a pass over a live CR.
LEMMA PlanRests ==
  ASSUME TypeOK, Plan(Fetched, FALSE), cache.exists, ~cache.deleting,
         UNCHANGED <<versions, remote>>, DeletionHeld', MadeOfBodies'
  PROVE  RestInductive'
<1> DEFINE p == Fetched
           s == cache.spec
           started == [p EXCEPT !.hash = Hash(s), !.gen = p.obj.gen, !.ref = s.ref]
           verdict(o, r) == Verdict(p, p.obj.gen, o, r)
<1>1. /\ p \in Passes /\ p.obj = cache /\ p.before = cache.status
      /\ cache \in Objects /\ cache.gen \in Nat /\ store' = store
      /\ Len(versions) = 1 => cache = store
  BY FetchedFields, StoreType DEF Objects, store
<1> HIDE DEF p
<1>2. ASSUME NEW o \in Outcomes \ {"synced"}, NEW r \in ConditionReasons,
             NEW again \in Agains, again = "none" => o \in {"terminal", "suspended"},
             Conclude(verdict(o, r), again, FALSE)
      PROVE  RestInductive'
  <2>1. /\ verdict(o, r) \in Passes /\ verdict(o, r).before = cache.status
        /\ verdict(o, r).obj.status.outcome = o /\ verdict(o, r).obj.status.gen = cache.gen
    BY <1>1, VerdictType, VerdictFields
  <2> HIDE DEF verdict
  <2> QED BY <1>1, <1>2, <2>1, Ending
<1>3. ASSUME NEW pc \in {"find", "dropAttempt", "read"},
             pc = "find" => cache.status.id = NoId,
             pass' = [started EXCEPT !.pc = pc]
      PROVE  RestInductive'
  <2>1. /\ pass'.pc = pc /\ pass'.obj = cache /\ pass'.before = cache.status
        /\ pass'.ref = s.ref
    BY <1>1, <1>3 DEF Passes
  <2>2. Quiet' => Len(versions) = 1
    BY DEF Quiet
  <2>3. Undisturbed' /\ CreatesUnrecorded'
    BY <1>1, <1>3, <2>1, <2>2 DEF Undisturbed, CreatesUnrecorded
  <2>4. RepairsItsOwn' /\ FinalizesDeleted' /\ NeverStranded' /\ RestConverged'
    BY <2>1 DEF RepairsItsOwn, FinalizesDeleted, NeverStranded, RestConverged,
                AtRest, FinalizePcs
  <2> QED BY <2>3, <2>4, RestForm, PTL
<1>4. \/ Conclude(verdict("suspended", "Suspended"), "none", FALSE)
      \/ Conclude(verdict("terminal", "InvalidSpec"), "none", FALSE)
      \/ Conclude(verdict("recoverable", "ProviderConfigNotReady"), "later", FALSE)
      \/ pass' = [started EXCEPT
                    !.pc = CASE cache.status.id = NoId -> "find"
                             [] cache.status.id # NoId /\ cache.attempt -> "dropAttempt"
                             [] OTHER -> "read"]
  BY <1>1 DEF Plan, p
<1> HIDE DEF started, verdict
<1>5. CASE pass' = [started EXCEPT
                    !.pc = CASE cache.status.id = NoId -> "find"
                             [] cache.status.id # NoId /\ cache.attempt -> "dropAttempt"
                             [] OTHER -> "read"]
  <2>1. CASE cache.status.id = NoId
    BY <1>3, <1>5, <2>1
  <2>2. CASE cache.status.id # NoId
    BY <1>3, <1>5, <2>2
  <2> QED BY <2>1, <2>2
<1>6. CASE \/ Conclude(verdict("suspended", "Suspended"), "none", FALSE)
           \/ Conclude(verdict("terminal", "InvalidSpec"), "none", FALSE)
           \/ Conclude(verdict("recoverable", "ProviderConfigNotReady"), "later", FALSE)
  BY <1>2, <1>6 DEF Outcomes, ConditionReasons, Agains
<1> QED BY <1>4, <1>5, <1>6

\* What is being deleted carries the finalizer, so finalize goes on or retries.
LEMMA StartsFinalizing ==
  ASSUME TypeOK, RestInductive, Finalize(Fetched, FALSE), cache.exists, cache.deleting,
         UNCHANGED <<versions, remote>>, DeletionHeld', MadeOfBodies'
  PROVE  RestInductive'
<1> DEFINE p == Fetched
<1>1. /\ p \in Passes /\ p.obj = cache /\ store' = store
      /\ Len(versions) = 1 => cache = store
      /\ timer \in BOOLEAN /\ spent \in [Spends -> Nat]
  BY FetchedFields, PassFacts DEF store
<1>2. pass'.pc \in {"idle"} \cup FinalizePcs
  BY <1>1, FinalizeType
<1>3. Quiet' => store.exists /\ store.deleting /\ store.finalizer
  BY <1>1 DEF Quiet, RestInductive, DeletionHeld
<1>4. CASE pass'.pc = "idle"
  <2> HIDE DEF p
  <2> DEFINE first == CASE p.obj.status.id # NoId -> "reclaim"
                        [] p.obj.status.id = NoId /\ p.obj.spec.ident = NoIdent
                             -> "removeFinalizer"
                        [] OTHER -> "finalizeFind"
  <2>1. first \in FinalizePcs /\ "removeFinalizer" \in FinalizePcs
    BY DEF FinalizePcs
  <2>2. ASSUME NEW pc \in FinalizePcs, NEW ref, NEW t,
               \/ pass' = [p EXCEPT !.pc = pc]
               \/ pass' = [p EXCEPT !.ref = ref, !.target = t, !.pc = pc]
        PROVE  FALSE
    <3>1. pass'.pc = pc
      BY <1>1, <2>2 DEF Passes
    <3> QED BY <1>4, <3>1 DEF FinalizePcs
  <2>3. ~p.obj.finalizer \/ Requeue("later", FALSE)
    <3>1. \/ ~p.obj.finalizer \/ Requeue("later", FALSE)
          \/ pass' = [p EXCEPT !.pc = "removeFinalizer"]
          \/ pass' = [p EXCEPT !.ref = p.obj.spec.ref, !.target = p.obj.status.id,
                               !.pc = first]
      BY Zenon DEF Finalize, p
    <3> HIDE DEF first
    <3> QED BY <2>1, <2>2, <3>1
  <2>4. Quiet' => timer'
    BY <1>1, <1>3, <2>3 DEF Quiet, Requeue
  <2> QED BY <1>1, <1>3, <1>4, <2>4, AtIdle
<1>5. CASE pass'.pc \in FinalizePcs
  <2>1. FinalizesDeleted'
    BY <1>1, <1>3 DEF FinalizesDeleted
  <2>2. Undisturbed' /\ CreatesUnrecorded' /\ RepairsItsOwn' /\ NeverStranded' /\ RestConverged'
    BY <1>5 DEF Undisturbed, CreatesUnrecorded, RepairsItsOwn, NeverStranded,
         RestConverged, AtRest, Deciding, LivePcs, FinalizePcs
  <2> QED BY <2>1, <2>2, RestForm, PTL
<1> QED BY <1>2, <1>4, <1>5

\* The fetch, and all decisions up to the first request.
LEMMA ReconcileRests ==
  ASSUME TypeOK, RestInductive, Reconcile, DeletionHeld', MadeOfBodies'
  PROVE  RestInductive'
<1>1. UNCHANGED <<versions, remote>> /\ store' = store /\ (Len(versions) = 1 => cache = store)
  BY FetchedFields DEF Reconcile, store
<1>2. CASE ~cache.exists /\ pass' = Idle
  <2>1. pass'.pc = "idle" /\ (Quiet' => ~store.exists)
    BY <1>1, <1>2 DEF Idle, Quiet
  <2> QED BY <1>1, <2>1, AtIdle
<1>3. CASE pass' = [Fetched EXCEPT !.pc = "addFinalizer"]
  <2>1. pass'.pc = "addFinalizer"
    BY <1>3, FetchedType DEF Passes
  <2>2. /\ Undisturbed' /\ CreatesUnrecorded' /\ RepairsItsOwn' /\ FinalizesDeleted'
        /\ NeverStranded' /\ RestConverged'
    BY <2>1 DEF Undisturbed, CreatesUnrecorded, RepairsItsOwn, FinalizesDeleted,
         NeverStranded, RestConverged, AtRest, Deciding, LivePcs, FinalizePcs
  <2> QED BY <2>2, RestForm, PTL
<1> QED BY <1>1, <1>2, <1>3, PlanRests, StartsFinalizing DEF Reconcile

\* Adding the finalizer fails and is retried, or is an event to come.
LEMMA AddFinalizerRests ==
  ASSUME TypeOK, AddFinalizer, DeletionHeld', MadeOfBodies'
  PROVE  RestInductive'
<1>1. pass \in Passes /\ [store EXCEPT !.finalizer = TRUE] \in Objects
  BY PassFacts, StoreType DEF Objects
<1>2. Stop("error") \/ Write([store EXCEPT !.finalizer = TRUE])
  BY DEF AddFinalizer
<1> QED BY <1>1, <1>2, EndsWithError, WriteIsLoud

-----------------------------------------------------------------------------
(* The environment, and the theorems *)

\* Other writers leave a recorded object alone, or touch it.
LEMMA OthersRests ==
  ASSUME TypeOK, RestInductive, Others, DeletionHeld', MadeOfBodies'
  PROVE  RestInductive'
<1>1. UNCHANGED <<versions, queued, timer, pass>> /\ store' = store
  BY DEF Others, MeddleCreate, MeddleEdit, MeddleDelete, Commit, store
<1>2. Undisturbed' /\ CreatesUnrecorded' /\ FinalizesDeleted' /\ NeverStranded'
  BY <1>1 DEF RestInductive, Undisturbed, CreatesUnrecorded, FinalizesDeleted,
              NeverStranded, AtRest, Quiet
<1>3. RepairsItsOwn'
  BY <1>1, OthersRemote DEF RestInductive, RepairsItsOwn, Quiet, UnsentUnseen
<1>4. RestConverged'
  <2> SUFFICES ASSUME RestConverged, UnsentUnseen, AtRest, store.exists,
                      ~store.deleting, store.status.outcome = "synced"
               PROVE  Converged'
    <3>1. RestConverged
      BY RestForm
    <3> QED BY <1>1, <3>1 DEF RestConverged, AtRest, UnsentUnseen
  <2>1. Converged
    BY DEF RestConverged
  <2>2. ASSUME NEW id \in Ids, remote[id].state # "unborn"
        PROVE  /\ remote'[id].state # "unborn"
               /\ \/ remote'[id] = remote[id]
                  \/ remote'[id].touched
                  \/ remote[id].state = "pending" /\ remote'[id].touched = remote[id].touched
    BY <2>2, OthersRemote
  <2> QED BY <1>1, <2>1, <2>2 DEF Converged, Live
<1> QED BY <1>2, <1>3, <1>4, RestForm, PTL

\* Everything else that happens to the cluster is an event to come.
LEMMA ClockRests ==
  ASSUME TypeOK, RestInductive, User \/ Deliver \/ Tick \/ Nudge \/ Crash,
         DeletionHeld', MadeOfBodies'
  PROVE  RestInductive'
<1>1. CASE User
  <2>1. \E o \in Objects : Write(o)
    BY <1>1, UserWrites DEF Touched
  <2> QED BY <2>1, WriteIsLoud
<1>2. CASE Deliver \/ Tick \/ Nudge \/ Crash
  <2>1. queued' = TRUE
    BY <1>2 DEF Deliver, Tick, Nudge, Crash
  <2> QED BY <2>1, Loud DEF Quiet
<1> QED BY <1>1, <1>2

\* Every way the operator comes to rest, in every reachable state.
THEOREM RestInductiveHolds == Spec => []RestInductive
<1>1. Init => RestInductive
  <2> SUFFICES ASSUME Init PROVE RestInductive
    OBVIOUS
  <2>1. store = Absent /\ pass.pc = "idle"
    BY DEF Init, store, Idle
  <2>2. MadeOfBodies
    BY DEF Init, MadeOfBodies, Unborn
  <2> QED BY <2>1, <2>2 DEF RestInductive, Undisturbed, CreatesUnrecorded, RepairsItsOwn,
         FinalizesDeleted, DeletionHeld, NeverStranded, RestNamesObject,
         RestMeansConverged, Absent, Deciding, LivePcs, FinalizePcs
<1>2. TypeOK /\ RestInductive /\ [Next]_vars => RestInductive'
  <2> SUFFICES ASSUME TypeOK, RestInductive, [Next]_vars PROVE RestInductive'
    OBVIOUS
  <2>1. DeletionHeld' /\ MadeOfBodies'
    BY PlainParts
  <2>2. CASE Pass
    BY <2>1, <2>2, ReconcileRests, AddFinalizerRests, OnNewObjectRests,
       AddCreateAttemptRests, CreateRests, OnConflictRests, RemoveCreateAttemptRests,
       OnExistingObjectRests, UpdateRests, UpdateStatusRests, FinalizeRests DEF Pass
  <2>3. CASE Others
    BY <2>1, <2>3, OthersRests
  <2>4. CASE User \/ Deliver \/ Tick \/ Nudge \/ Crash
    BY <2>1, <2>4, ClockRests
  <2>5. CASE UNCHANGED vars
    BY <2>5 DEF vars, RestInductive, Undisturbed, CreatesUnrecorded, RepairsItsOwn,
         FinalizesDeleted, DeletionHeld, MadeOfBodies, NeverStranded, RestNamesObject,
         RestMeansConverged, AtRest, Quiet, store, Live, UnsentUnseen
  <2> QED BY <2>2, <2>3, <2>4, <2>5 DEF Next
<1> QED BY <1>1, <1>2, TypeCorrect, PTL DEF Spec

\* The operator never goes to sleep on unfinished work: with nothing queued, no
\* event due, no pass and no timer, the CR is not being deleted and its status
\* is a terminal or suspended verdict on its present generation.
THEOREM NeverStrandedHolds == Spec => []NeverStranded
<1>1. RestInductive => NeverStranded
  BY DEF RestInductive
<1> QED BY <1>1, RestInductiveHolds, PTL

\* A synced status the operator rests on is true of the present generation and
\* of SigNoz, unless another writer changed the object since, provided that no
\* update the code leaves unsent could have been needed.
THEOREM RestMeansConvergedHolds ==
  ASSUME UnsentUnseen
  PROVE  Spec => []RestMeansConverged
<1>1. RestInductive => RestMeansConverged
  BY DEF RestInductive
<1> QED BY <1>1, RestInductiveHolds, PTL

=============================================================================
