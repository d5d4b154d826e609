---------------------- MODULE CommonReconciler_proofs ----------------------
(***************************************************************************)
(* What holds of CommonReconciler for every value of its constants: its    *)
(* type invariant, and that no POST leaves before its record is durable.   *)
(***************************************************************************)
EXTENDS CommonReconciler, SequenceTheorems, TLAPS

-----------------------------------------------------------------------------
(* Values and helpers *)

\* A spec the user may apply has the fields of a CoreSpec.
LEMMA SpecFields ==
  /\ AnySpec \in Specs
  /\ \A s \in Specs : /\ s.ref \in Refs
                      /\ s.ident \in Idents \cup {NoIdent}
                      /\ s.body \in Bodies
BY SpecsAssumption DEF CoreSpecs, AnySpec

\* The values a fresh history and a fresh pass start from have their types.
LEMMA Starts ==
  /\ NoStatus \in Statuses
  /\ Absent \in Objects
  /\ Unborn \in RemoteObjects
  /\ Idle \in Passes
<1>1. NoStatus \in Statuses
  BY DEF NoStatus, Statuses, NoHash, Hashes, Outcomes, ConditionReasons
<1>2. Absent \in Objects
  BY <1>1, SpecFields DEF Absent, Objects
<1>3. Unborn \in RemoteObjects
  BY SpecFields DEF Unborn, RemoteObjects
<1>4. NoHash \in Hashes
  BY DEF NoHash, Hashes
<1>5. Idle \in Passes
  BY <1>1, <1>2, <1>4, SpecFields DEF Idle, Passes, Pcs
<1> QED BY <1>1, <1>2, <1>3, <1>5

\* Rendering a verdict gives a status again.
LEMMA ConditionsType ==
  ASSUME NEW st \in Statuses, NEW g \in Nat, NEW o \in Outcomes,
         NEW r \in ConditionReasons
  PROVE  SetConditionsOnOutcome(st, g, o, r) \in Statuses
BY DEF SetConditionsOnOutcome, Statuses

\* A pass with a verdict is a pass.
LEMMA VerdictType ==
  ASSUME NEW p \in Passes, NEW g \in Nat, NEW o \in Outcomes,
         NEW r \in ConditionReasons
  PROVE  Verdict(p, g, o, r) \in Passes
<1>1. p.obj \in Objects /\ p.obj.status \in Statuses
  BY DEF Passes, Objects
<1>2. SetConditionsOnOutcome(p.obj.status, g, o, r) \in Statuses
  BY <1>1, ConditionsType
<1> DEFINE st == SetConditionsOnOutcome(p.obj.status, g, o, r)
<1>3. Verdict(p, g, o, r) = [p EXCEPT !.obj.status = st]
  BY DEF Verdict
<1> HIDE DEF st
<1>4. [p EXCEPT !.obj.status = st] \in Passes
  BY <1>1, <1>2 DEF Passes, Objects, st
<1> QED BY <1>3, <1>4

\* Classifying an error gives an outcome and a condition reason.
LEMMA OutcomeOnErrType ==
  ASSUME NEW e \in ErrorValues \cup {NoError}
  PROVE  /\ OutcomeOnErr(e)[1] \in Outcomes
         /\ OutcomeOnErr(e)[2] \in ConditionReasons
<1> OutcomeOnErr(e) \in Outcomes \X ConditionReasons
  BY DEF OutcomeOnErr, Outcomes, ConditionReasons
<1> QED OBVIOUS

\* Every failing request gives an error value.
LEMMA FailureType ==
  ASSUME NEW code \in Nat
  PROVE  /\ NewFromHTTPResponse(code) \in ErrorValues \cup {NoError}
         /\ Failure(code) \in ErrorValues \cup {NoError}
BY DEF NewFromHTTPResponse, Failure, ErrorValues, Reasons, NoError

-----------------------------------------------------------------------------
(* How a pass ends: types and positions *)

Agains == {"none", "later", "error"}

\* The queue and the timer after a pass.
LEMMA RequeueType ==
  ASSUME NEW again, NEW q \in BOOLEAN, timer \in BOOLEAN, Requeue(again, q)
  PROVE  queued' \in BOOLEAN /\ timer' \in BOOLEAN
BY DEF Requeue

\* A pass that stops leaves an idle worker.
LEMMA StopType ==
  ASSUME NEW again, queued \in BOOLEAN, timer \in BOOLEAN, Stop(again)
  PROVE  /\ pass' \in Passes /\ pass'.pc = "idle"
         /\ queued' \in BOOLEAN /\ timer' \in BOOLEAN
BY RequeueType, Starts DEF Stop, Idle

\* Going to write the status keeps the types.
LEMMA ReportType ==
  ASSUME NEW p \in Passes, NEW again \in Agains, NEW q \in BOOLEAN,
         timer \in BOOLEAN, Report(p, again, q)
  PROVE  /\ pass' \in Passes /\ pass'.pc = "status"
         /\ queued' \in BOOLEAN /\ timer' \in BOOLEAN
<1>1. pass' \in Passes /\ pass'.pc = "status"
  BY DEF Report, Passes, Pcs, LivePcs, Agains
<1> QED BY <1>1 DEF Report

\* A pass that concludes is over, or goes on to write its status.
LEMMA ConcludeType ==
  ASSUME NEW p \in Passes, NEW again \in Agains, NEW q \in BOOLEAN,
         timer \in BOOLEAN, Conclude(p, again, q)
  PROVE  /\ pass' \in Passes /\ pass'.pc \in {"idle", "status"}
         /\ queued' \in BOOLEAN /\ timer' \in BOOLEAN
<1>1. CASE pass' = Idle /\ Requeue(again, q)
  BY <1>1, RequeueType, Starts DEF Idle
<1>2. CASE Report(p, again, q)
  BY <1>2, ReportType
<1> QED BY <1>1, <1>2 DEF Conclude

\* So does an error of the adapter.
LEMMA OnAdapterErrorType ==
  ASSUME NEW p \in Passes, NEW e \in ErrorValues \cup {NoError},
         queued \in BOOLEAN, timer \in BOOLEAN, OnAdapterError(p, e)
  PROVE  /\ pass' \in Passes /\ pass'.pc \in {"idle", "status"}
         /\ queued' \in BOOLEAN /\ timer' \in BOOLEAN
<1> DEFINE judged == Verdict(p, p.obj.gen, OutcomeOnErr(e)[1], OutcomeOnErr(e)[2])
           again == IF OutcomeOnErr(e)[1] = "recoverable" THEN "later" ELSE "none"
<1>1. p.obj.gen \in Nat
  BY DEF Passes, Objects
<1>2. judged \in Passes
  BY <1>1, OutcomeOnErrType, VerdictType
<1>3. again \in Agains
  BY DEF Agains
<1>4. Conclude(judged, again, queued) \/ Report(judged, again, queued)
  BY DEF OnAdapterError, GetOutcomeAndSetConditionsOnErr, Verdict
<1> HIDE DEF judged, again
<1> QED BY <1>2, <1>3, <1>4, ConcludeType, ReportType

-----------------------------------------------------------------------------
(* The API server's versions and the objects in SigNoz *)

\* Counting an environment event keeps the counters' type.
LEMMA SpendType ==
  ASSUME NEW k \in Spends, spent \in [Spends -> Nat], Spend(k)
  PROVE  spent' \in [Spends -> Nat]
BY DEF Spend

\* The cache and the API server hold objects.
LEMMA StoreType ==
  ASSUME TypeOK
  PROVE  /\ store \in Objects /\ cache \in Objects /\ cache = versions[1]
         /\ Len(versions) \in Nat \ {0}
BY DEF TypeOK, store, cache

\* A write appends one version, which is then the API server's.
LEMMA WriteEffect ==
  ASSUME TypeOK, NEW o \in Objects, Write(o)
  PROVE  /\ versions' \in Seq(Objects) /\ versions' # <<>>
         /\ Len(versions') = Len(versions) + 1
         /\ store' = o
         /\ \A i \in 1..Len(versions) : versions'[i] = versions[i]
BY DEF TypeOK, Write, store

\* A delivery drops the oldest version and keeps the API server's.
LEMMA DeliverEffect ==
  ASSUME TypeOK, Deliver
  PROVE  /\ versions' \in Seq(Objects) /\ versions' # <<>>
         /\ Len(versions') = Len(versions) - 1
         /\ store' = store
         /\ \A i \in 1..Len(versions') : versions'[i] = versions[i + 1]
<1>1. versions \in Seq(Objects) /\ versions' = Tail(versions) /\ Len(versions) > 1
  BY DEF TypeOK, Deliver
<1>2. versions' \in Seq(Objects) /\ Len(versions') = Len(versions) - 1
  BY <1>1, HeadTailProperties
<1>3. \A i \in 1..Len(versions') : versions'[i] = versions[i + 1]
  BY <1>1, HeadTailProperties
<1>4. store' = store
  <2>1. Len(versions') \in 1..Len(versions') /\ Len(versions') + 1 = Len(versions)
    BY <1>1, <1>2
  <2>2. versions'[Len(versions')] = versions[Len(versions') + 1]
    BY <1>3, <2>1
  <2> QED BY <2>1, <2>2 DEF store
<1>5. versions' # <<>>
  BY <1>1, <1>2, EmptySeq
<1> QED BY <1>2, <1>3, <1>4, <1>5, Zenon

\* What a patch leaves in memory is an object with the live one's metadata.
LEMMA RefreshType ==
  ASSUME NEW live \in Objects, NEW mem \in Objects
  PROVE  Refresh(live, mem) \in Objects
<1> DEFINE st == [ id |-> Kept(live.status.id, mem.status.id, NoId),
                   hash |-> Kept(live.status.hash, mem.status.hash, NoHash),
                   outcome |-> Kept(live.status.outcome, mem.status.outcome, "none"),
                   reason |-> Kept(live.status.reason, mem.status.reason, "None"),
                   gen |-> Kept(live.status.gen, mem.status.gen, 0) ]
           pin == Kept(live.pin, mem.pin, NoId)
<1>1. live.status \in Statuses /\ mem.status \in Statuses
  BY DEF Objects
<1>2. st \in Statuses
  BY <1>1 DEF Statuses, Kept
<1>3. pin \in Ids \cup {NoId}
  BY DEF Objects, Kept
<1>4. Refresh(live, mem) = [live EXCEPT !.pin = pin, !.status = st]
  BY DEF Refresh, Objects
<1> HIDE DEF st, pin
<1> QED BY <1>2, <1>3, <1>4 DEF Objects

\* A POST's object.
LEMMA PostedType ==
  ASSUME NEW ref \in Refs, NEW s \in Specs, NEW mine \in BOOLEAN,
         NEW state \in {"unborn", "pending", "live", "gone"}
  PROVE  Posted(ref, s, state, mine) \in RemoteObjects
BY SpecFields DEF Posted, RemoteObjects

\* An object after a PUT.
LEMMA UpdatedType ==
  ASSUME NEW id \in Ids, NEW s \in Specs, remote \in [Ids -> RemoteObjects]
  PROVE  Updated(id, s) \in RemoteObjects
<1>1. s.ident \in Idents \cup {NoIdent} /\ s.body \in Bodies
  BY SpecFields
<1>2. remote[id] \in RemoteObjects
  OBVIOUS
<1> QED BY <1>1, <1>2 DEF Updated, RemoteObjects

\* Changing one object, or one field of it, keeps SigNoz's type.
LEMMA RemoteSet ==
  ASSUME remote \in [Ids -> RemoteObjects], NEW id, NEW r,
         id \in Ids => r \in RemoteObjects
  PROVE  [remote EXCEPT ![id] = r] \in [Ids -> RemoteObjects]
OBVIOUS

\* A ghost field of an object may be set.
LEMMA RemoteFields ==
  ASSUME remote \in [Ids -> RemoteObjects], NEW id,
         \/ UNCHANGED remote
         \/ remote' = [remote EXCEPT ![id].mine = TRUE]
         \/ remote' = [remote EXCEPT ![id].touched = FALSE]
  PROVE  remote' \in [Ids -> RemoteObjects]
<1>1. ASSUME id \in Ids
      PROVE  /\ [remote[id] EXCEPT !.mine = TRUE] \in RemoteObjects
             /\ [remote[id] EXCEPT !.touched = FALSE] \in RemoteObjects
  <2>1. remote[id] \in RemoteObjects
    BY <1>1
  <2> QED BY <2>1 DEF RemoteObjects
<1> QED BY <1>1

\* An object may be born, changed and deleted.
LEMMA RemoteStates ==
  ASSUME remote \in [Ids -> RemoteObjects], NEW id \in Ids,
         NEW state \in {"unborn", "pending", "live", "gone"}, NEW body \in Bodies,
         \/ remote' = [remote EXCEPT ![id].state = state]
         \/ remote' = [remote EXCEPT ![id].state = state, ![id].touched = TRUE]
         \/ remote' = [remote EXCEPT ![id].body = body, ![id].touched = TRUE]
  PROVE  remote' \in [Ids -> RemoteObjects]
<1>1. remote[id] \in RemoteObjects
  OBVIOUS
<1>2. /\ [remote[id] EXCEPT !.state = state] \in RemoteObjects
      /\ [remote[id] EXCEPT !.state = state, !.touched = TRUE] \in RemoteObjects
      /\ [remote[id] EXCEPT !.body = body, !.touched = TRUE] \in RemoteObjects
  BY <1>1 DEF RemoteObjects
<1> QED BY <1>2

-----------------------------------------------------------------------------
(* The decisions before the first request *)

\* reconcile settles the CR or starts on one of three requests.
LEMMA PlanType ==
  ASSUME NEW p \in Passes, NEW q \in BOOLEAN, timer \in BOOLEAN,
         spent \in [Spends -> Nat], Plan(p, q)
  PROVE  /\ pass' \in Passes
         /\ pass'.pc \in {"idle", "status", "find", "dropAttempt", "read"}
         /\ queued' \in BOOLEAN /\ timer' \in BOOLEAN /\ spent' \in [Spends -> Nat]
<1> DEFINE s == p.obj.spec
           started == [p EXCEPT !.hash = Hash(s), !.gen = p.obj.gen, !.ref = s.ref]
           verdict(o, r) == Verdict(p, p.obj.gen, o, r)
<1>0. p.obj.gen \in Nat /\ s \in Specs
  BY DEF Passes, Objects
<1>1. /\ verdict("suspended", "Suspended") \in Passes
      /\ verdict("terminal", "InvalidSpec") \in Passes
      /\ verdict("recoverable", "ProviderConfigNotReady") \in Passes
  BY <1>0, VerdictType DEF Outcomes, ConditionReasons
<1>2. Hash(s) \in Hashes /\ s.ref \in Refs
  BY <1>0, SpecFields DEF Hash, Hashes
<1>3. started \in Passes
  BY <1>0, <1>2 DEF Passes
<1>4. CASE Conclude(verdict("suspended", "Suspended"), "none", q) /\ UNCHANGED spent
  BY <1>1, <1>4, ConcludeType DEF Agains
<1>5. CASE Conclude(verdict("terminal", "InvalidSpec"), "none", q) /\ UNCHANGED spent
  BY <1>1, <1>5, ConcludeType DEF Agains
<1>6. CASE /\ Spend("faults")
           /\ Conclude(verdict("recoverable", "ProviderConfigNotReady"), "later", q)
  BY <1>1, <1>6, ConcludeType, SpendType DEF Agains, Spends
<1>7. ASSUME NEW pc \in {"find", "dropAttempt", "read"},
             pass' = [started EXCEPT !.pc = pc], queued' = q,
             UNCHANGED <<timer, spent>>
      PROVE  /\ pass' \in Passes /\ pass'.pc = pc
             /\ queued' \in BOOLEAN /\ timer' \in BOOLEAN
             /\ spent' \in [Spends -> Nat]
  <2> HIDE DEF started
  <2>1. pass' \in Passes /\ pass'.pc = pc
    BY <1>3, <1>7 DEF Passes, Pcs, LivePcs
  <2> QED BY <2>1, <1>7
<1>8. CASE /\ pass' = [started EXCEPT
                        !.pc = CASE p.obj.status.id = NoId -> "find"
                                 [] p.obj.status.id # NoId /\ p.obj.attempt
                                      -> "dropAttempt"
                                 [] OTHER -> "read"]
           /\ queued' = q
           /\ UNCHANGED <<timer, spent>>
  <2> HIDE DEF started
  <2> QED BY <1>7, <1>8
<1> QED BY <1>4, <1>5, <1>6, <1>8 DEF Plan

\* finalize stops, or starts on a step of the finalizing kind.
LEMMA FinalizeType ==
  ASSUME NEW p \in Passes, NEW q \in BOOLEAN, timer \in BOOLEAN,
         spent \in [Spends -> Nat], Finalize(p, q)
  PROVE  /\ pass' \in Passes
         /\ pass'.pc \in {"idle"} \cup FinalizePcs
         /\ queued' \in BOOLEAN /\ timer' \in BOOLEAN /\ spent' \in [Spends -> Nat]
<1> DEFINE o == p.obj
<1>0. o.status.id \in Ids \cup {NoId} /\ o.spec.ref \in Refs
  BY SpecFields DEF Passes, Objects, Statuses
<1>1. CASE pass' = Idle /\ queued' = q /\ UNCHANGED <<timer, spent>>
  BY <1>1, Starts DEF Idle
<1>2. CASE /\ pass' = [p EXCEPT !.pc = "removeFinalizer"]
           /\ queued' = q /\ UNCHANGED <<timer, spent>>
  <2>1. pass' \in Passes /\ pass'.pc = "removeFinalizer"
    BY <1>2 DEF Passes, Pcs, FinalizePcs
  <2> QED BY <2>1, <1>2 DEF FinalizePcs
<1>3. CASE Spend("faults") /\ pass' = Idle /\ Requeue("later", q)
  BY <1>3, Starts, RequeueType, SpendType DEF Idle, Spends
<1>4. ASSUME NEW pc \in FinalizePcs,
             pass' = [p EXCEPT !.ref = o.spec.ref, !.target = o.status.id, !.pc = pc],
             queued' = q, UNCHANGED <<timer, spent>>
      PROVE  /\ pass' \in Passes /\ pass'.pc = pc
             /\ queued' \in BOOLEAN /\ timer' \in BOOLEAN
             /\ spent' \in [Spends -> Nat]
  <2>1. pass' \in Passes /\ pass'.pc = pc
    BY <1>0, <1>4 DEF Passes, Pcs
  <2> QED BY <2>1, <1>4
<1>5. CASE /\ pass' = [p EXCEPT !.ref = o.spec.ref, !.target = o.status.id,
                        !.pc = CASE o.status.id # NoId -> "reclaim"
                                 [] o.status.id = NoId /\ o.spec.ident = NoIdent
                                      -> "removeFinalizer"
                                 [] OTHER -> "finalizeFind"]
           /\ queued' = q /\ UNCHANGED <<timer, spent>>
  BY <1>4, <1>5 DEF FinalizePcs
<1> QED BY <1>1, <1>2, <1>3, <1>5 DEF Finalize

-----------------------------------------------------------------------------
(* Type correctness, action by action *)

\* The parts of the type invariant that a pass's step may touch.
PassTyped ==
  /\ pass \in Passes
  /\ queued \in BOOLEAN
  /\ timer \in BOOLEAN

VersionsTyped == versions \in Seq(Objects) /\ versions # <<>>

\* A pass that was just fetched is a pass.
LEMMA FetchedType ==
  ASSUME TypeOK
  PROVE  Fetched \in Passes
<1>1. cache \in Objects /\ cache.status \in Statuses
  BY StoreType DEF Objects
<1>2. Idle \in Passes /\ (Len(versions) = 1) \in BOOLEAN
  BY Starts
<1> HIDE DEF Idle
<1> QED BY <1>1, <1>2 DEF Fetched, Passes

\* The fetch keeps the types.
LEMMA ReconcileType ==
  ASSUME TypeOK, Reconcile
  PROVE  TypeOK'
<1> USE FetchedType
<1>1. UNCHANGED <<versions, remote>>
  BY DEF Reconcile
<1>2. timer \in BOOLEAN /\ spent \in [Spends -> Nat]
  BY DEF TypeOK
<1>3. PassTyped' /\ spent' \in [Spends -> Nat]
  <2>1. CASE pass' = Idle /\ queued' = FALSE /\ UNCHANGED <<timer, spent>>
    BY <2>1, <1>2, Starts DEF PassTyped
  <2>2. CASE Finalize(Fetched, FALSE)
    BY <2>2, <1>2, FinalizeType DEF PassTyped
  <2>3. CASE /\ pass' = [Fetched EXCEPT !.pc = "addFinalizer"]
             /\ queued' = FALSE /\ UNCHANGED <<timer, spent>>
    <3>1. pass' \in Passes
      BY <2>3 DEF Passes, Pcs
    <3> QED BY <3>1, <2>3, <1>2 DEF PassTyped
  <2>4. CASE Plan(Fetched, FALSE)
    BY <2>4, <1>2, PlanType DEF PassTyped
  <2> QED BY <2>1, <2>2, <2>3, <2>4 DEF Reconcile
<1> QED BY <1>1, <1>3, SMT DEF TypeOK, PassTyped, VersionsTyped

\* The finalizer's update keeps the types.
LEMMA AddFinalizerType ==
  ASSUME TypeOK, AddFinalizer
  PROVE  TypeOK'
<1> DEFINE added == [store EXCEPT !.finalizer = TRUE]
           p == [pass EXCEPT !.obj = added]
<1>1. added \in Objects /\ timer \in BOOLEAN /\ queued \in BOOLEAN
      /\ spent \in [Spends -> Nat] /\ pass \in Passes /\ UNCHANGED remote
  BY StoreType DEF TypeOK, Objects, AddFinalizer
<1>2. p \in Passes
  <2> HIDE DEF added
  <2> QED BY <1>1 DEF Passes
<1>3. VersionsTyped'
  <2>1. UNCHANGED versions \/ Write(added)
    BY DEF AddFinalizer
  <2> HIDE DEF added
  <2> QED BY <2>1, <1>1, WriteEffect DEF VersionsTyped, TypeOK
<1>4. PassTyped' /\ spent' \in [Spends -> Nat]
  <2>1. CASE Stop("error") /\ UNCHANGED spent
    BY <2>1, <1>1, StopType DEF PassTyped
  <2>2. CASE Stop("error") /\ Spend("faults")
    BY <2>2, <1>1, StopType, SpendType DEF PassTyped, Spends
  <2>3. CASE Plan(p, queued)
    <3> HIDE DEF p
    <3> QED BY <2>3, <1>1, <1>2, PlanType DEF PassTyped
  <2> QED BY <2>1, <2>2, <2>3 DEF AddFinalizer
<1> QED BY <1>1, <1>3, <1>4, SMT DEF TypeOK, PassTyped, VersionsTyped

\* What the type invariant says of the pass under way.
LEMMA PassFacts ==
  ASSUME TypeOK
  PROVE  /\ pass \in Passes /\ queued \in BOOLEAN /\ timer \in BOOLEAN
         /\ spent \in [Spends -> Nat] /\ remote \in [Ids -> RemoteObjects]
         /\ pass.obj \in Objects /\ pass.obj.gen \in Nat
         /\ pass.obj.spec \in Specs /\ pass.obj.status \in Statuses
         /\ pass.obj.pin \in Ids \cup {NoId}
         /\ pass.obj.status.id \in Ids \cup {NoId}
         /\ pass.ref \in Refs /\ pass.target \in Ids \cup {NoId}
         /\ pass.hash \in Hashes /\ pass.gen \in Nat
         /\ pass.err \in ErrorValues \cup {NoError}
         /\ pass.again \in Agains
         /\ pass.before \in Statuses
<1>1. pass \in Passes /\ queued \in BOOLEAN /\ timer \in BOOLEAN
      /\ spent \in [Spends -> Nat] /\ remote \in [Ids -> RemoteObjects]
  BY DEF TypeOK
<1>2. /\ pass.obj \in Objects /\ pass.ref \in Refs /\ pass.target \in Ids \cup {NoId}
      /\ pass.hash \in Hashes /\ pass.gen \in Nat
      /\ pass.err \in ErrorValues \cup {NoError} /\ pass.again \in Agains
      /\ pass.before \in Statuses
  BY <1>1 DEF Passes, Agains
<1>3. /\ pass.obj.gen \in Nat /\ pass.obj.spec \in Specs
      /\ pass.obj.status \in Statuses /\ pass.obj.pin \in Ids \cup {NoId}
  BY <1>2 DEF Objects
<1>4. pass.obj.status.id \in Ids \cup {NoId}
  BY <1>3 DEF Statuses
<1> QED BY <1>1, <1>2, <1>3, <1>4

\* The codes a request may fail with are numbers.
LEMMA FaultCodesType == FaultCodes \subseteq Nat
BY SettingsAssumption

\* A failing request ends the pass.
LEMMA FaultType ==
  ASSUME TypeOK, NEW code \in Nat,
         OnAdapterError(pass, Failure(code)) \/ OnAdapterError(pass, NewFromHTTPResponse(code))
  PROVE  PassTyped' /\ pass'.pc \in {"idle", "status"}
BY PassFacts, FailureType, OnAdapterErrorType DEF PassTyped

\* A verdict ends the pass.
LEMMA SettleType ==
  ASSUME TypeOK, NEW p \in Passes, NEW o \in Outcomes, NEW r \in ConditionReasons,
         NEW g \in Nat, NEW again \in Agains,
         Conclude(Verdict(p, g, o, r), again, queued)
  PROVE  PassTyped' /\ pass'.pc \in {"idle", "status"}
<1>1. Verdict(p, g, o, r) \in Passes
  BY VerdictType
<1> QED BY <1>1, PassFacts, ConcludeType DEF PassTyped

\* The Find of a pass without a record keeps the types.
LEMMA OnNewObjectType ==
  ASSUME TypeOK, OnNewObject
  PROVE  TypeOK' /\ pass'.pc \in {"idle", "status", "mark"}
<1> DEFINE bind(id) == Goto([pass EXCEPT !.pc = "mark", !.target = id])
           settle(r) == Conclude(Verdict(pass, pass.obj.gen, "terminal", r), "none", queued)
           done == PassTyped' /\ pass'.pc \in {"idle", "status", "mark"}
<1>1. ASSUME NEW code \in FaultCodes, OnAdapterError(pass, Failure(code))
      PROVE  done
  BY <1>1, FaultType, FaultCodesType
<1>2. ASSUME NEW id \in Ids \cup {NoId}, bind(id)
      PROVE  done
  <2>1. [pass EXCEPT !.pc = "mark", !.target = id] \in Passes
    BY PassFacts DEF Passes, Pcs, LivePcs
  <2> QED BY <1>2, <2>1, PassFacts DEF Goto, PassTyped, Passes
<1>3. ASSUME NEW r \in {"SigNozResourceIDMismatch", "Ambiguous"}, settle(r)
      PROVE  done
  BY <1>3, PassFacts, SettleType DEF Outcomes, ConditionReasons, Agains
<1>4. \/ \E code \in FaultCodes : OnAdapterError(pass, Failure(code))
      \/ \E id \in Ids \cup {NoId} : bind(id)
      \/ \E r \in {"SigNozResourceIDMismatch", "Ambiguous"} : settle(r)
  BY PassFacts DEF OnNewObject, Find
<1>5. spent' \in [Spends -> Nat] /\ UNCHANGED <<versions, remote>>
  BY PassFacts, SpendType DEF OnNewObject, Spends
<1>6. done
  BY <1>1, <1>2, <1>3, <1>4
<1> QED BY <1>5, <1>6, SMT DEF TypeOK, PassTyped, VersionsTyped

\* The Find after a 409 keeps the types.
LEMMA OnConflictType ==
  ASSUME TypeOK, OnConflict
  PROVE  TypeOK' /\ pass'.pc \in {"idle", "status", "mark"}
<1> DEFINE settle(o, r, again) == Conclude(Verdict(pass, pass.obj.gen, o, r), again, queued)
           done == PassTyped' /\ pass'.pc \in {"idle", "status", "mark"}
<1>1. ASSUME NEW code \in FaultCodes, OnAdapterError(pass, Failure(code))
      PROVE  done
  BY <1>1, FaultType, FaultCodesType
<1>2. ASSUME NEW id \in Ids, Goto([pass EXCEPT !.pc = "mark", !.target = id])
      PROVE  done
  <2>1. [pass EXCEPT !.pc = "mark", !.target = id] \in Passes
    BY PassFacts DEF Passes, Pcs, LivePcs
  <2> QED BY <1>2, <2>1, PassFacts DEF Goto, PassTyped, Passes
<1>3. ASSUME settle("recoverable", "BackendError", "later") \/ settle("terminal", "Ambiguous", "none")
      PROVE  done
  BY <1>3, PassFacts, SettleType DEF Outcomes, ConditionReasons, Agains
<1>4. done
  BY <1>1, <1>2, <1>3 DEF OnConflict, Find
<1>5. spent' \in [Spends -> Nat] /\ UNCHANGED <<versions, remote>>
  BY PassFacts, SpendType DEF OnConflict, Spends
<1> QED BY <1>4, <1>5, SMT DEF TypeOK, PassTyped, VersionsTyped

\* Both patches and the status write change one field of the API server's copy.
LEMMA WrittenType ==
  ASSUME TypeOK
  PROVE  /\ Marked(store) \in Objects
         /\ [store EXCEPT !.status = pass.obj.status] \in Objects
BY StoreType, PassFacts DEF Objects, Marked

\* Taking the annotation off may take a pin with it, and nothing else.
LEMMA ClearedType ==
  ASSUME TypeOK, NEW cleared \in ClearedForms
  PROVE  /\ cleared \in Objects /\ ~cleared.attempt
         /\ cleared.pin \in {store.pin, NoId}
         /\ pass.obj.pin # NoId => cleared.pin = store.pin
         /\ cleared.exists = store.exists /\ cleared.finalizer = store.finalizer
         /\ cleared.deleting = store.deleting /\ cleared.status = store.status
         /\ cleared.gen = store.gen /\ cleared.spec = store.spec
BY StoreType, PassFacts DEF Objects, ClearedForms

\* A patch whose answer was lost leaves the pass with an outdated copy.
LEMMA OutdatedType ==
  ASSUME TypeOK
  PROVE  /\ Outdated(pass) \in Passes
         /\ Outdated(pass).pc = pass.pc /\ Outdated(pass).fresh = FALSE
         /\ Outdated(pass).obj = pass.obj /\ Outdated(pass).before = pass.before
         /\ Outdated(pass).target = pass.target /\ Outdated(pass).ref = pass.ref
         /\ Outdated(pass).hash = pass.hash /\ Outdated(pass).gen = pass.gen
BY PassFacts DEF Passes, Outdated

\* The annotation patch keeps the types.
LEMMA AddCreateAttemptType ==
  ASSUME TypeOK, AddCreateAttemptAnnotation
  PROVE  /\ TypeOK' /\ pass'.pc \in {"idle", "status", "create", "read"}
         /\ UNCHANGED versions \/ Write(Marked(store))
         /\ pass'.pc = "create" => Write(Marked(store)) \/ (store.attempt /\ UNCHANGED versions)
<1> DEFINE mem == Refresh(Marked(store), pass.obj)
           bound == [mem EXCEPT !.status.id = pass.target]
           done == PassTyped' /\ pass'.pc \in {"idle", "status", "create", "read"}
           patched == Write(Marked(store)) \/ (store.attempt /\ UNCHANGED versions)
<1>1. mem \in Objects
  BY WrittenType, PassFacts, RefreshType
<1>2. bound \in Objects
  <2>1. [mem.status EXCEPT !.id = pass.target] \in Statuses
    <3>1. mem.status \in Statuses
      BY <1>1 DEF Objects
    <3> QED BY <3>1, PassFacts DEF Statuses
  <2>2. bound = [mem EXCEPT !.status = [mem.status EXCEPT !.id = pass.target]]
    OBVIOUS
  <2> HIDE DEF mem
  <2> QED BY <1>1, <2>1, <2>2 DEF Objects
<1> HIDE DEF mem, bound
<1>3. ASSUME NEW q \in {pass, Outdated(pass)}, Conclude(q, "error", queued)
      PROVE  done
  BY <1>3, PassFacts, OutdatedType, ConcludeType DEF Agains, PassTyped
<1>4. ASSUME Goto([pass EXCEPT !.obj = mem, !.fresh = TRUE, !.pc = "create"])
      PROVE  done
  <2>1. [pass EXCEPT !.obj = mem, !.fresh = TRUE, !.pc = "create"] \in Passes
    BY <1>1, PassFacts DEF Passes, Pcs, LivePcs
  <2> QED BY <1>4, <2>1, PassFacts DEF Goto, PassTyped, Passes
<1>5. ASSUME Goto([pass EXCEPT !.obj = bound, !.fresh = TRUE, !.pc = "read", !.target = NoId])
      PROVE  done
  <2>1. [pass EXCEPT !.obj = bound, !.fresh = TRUE, !.pc = "read", !.target = NoId] \in Passes
    BY <1>2, PassFacts DEF Passes, Pcs, LivePcs
  <2> QED BY <1>5, <2>1, PassFacts DEF Goto, PassTyped, Passes
<1>6. done
  BY <1>3, <1>4, <1>5 DEF AddCreateAttemptAnnotation, mem, bound
<1>7. spent' \in [Spends -> Nat]
  BY PassFacts, SpendType DEF AddCreateAttemptAnnotation, Spends
<1>8. remote' \in [Ids -> RemoteObjects]
  <2>1. UNCHANGED remote \/ remote' = [remote EXCEPT ![pass.target].mine = TRUE]
    BY Zenon DEF AddCreateAttemptAnnotation
  <2>2. remote \in [Ids -> RemoteObjects]
    BY PassFacts
  <2> QED BY <2>1, <2>2, RemoteFields
<1>9. UNCHANGED versions \/ Write(Marked(store))
  BY DEF AddCreateAttemptAnnotation
<1>10. VersionsTyped'
  BY <1>9, WrittenType, WriteEffect DEF VersionsTyped, TypeOK
<1>11. ASSUME pass'.pc = "create" PROVE patched
  <2>1. ASSUME NEW q \in {pass, Outdated(pass)}, Conclude(q, "error", queued) PROVE FALSE
    BY <2>1, <1>11, PassFacts, OutdatedType, ConcludeType DEF Agains
  <2> QED BY <2>1 DEF AddCreateAttemptAnnotation
<1>12. TypeOK'
  BY <1>6, <1>7, <1>8, <1>10, SMT DEF TypeOK, PassTyped, VersionsTyped
<1> QED BY <1>6, <1>9, <1>11, <1>12

\* Taking the annotation off keeps the types.
LEMMA RemoveCreateAttemptType ==
  ASSUME TypeOK, RemoveCreateAttemptAnnotation
  PROVE  /\ TypeOK' /\ pass'.pc \in {"idle", "status", "read"}
         /\ \E cleared \in ClearedForms : UNCHANGED versions \/ Write(cleared)
<1>0. PICK cleared \in ClearedForms : PatchAttemptOff(cleared)
  BY DEF RemoveCreateAttemptAnnotation
<1> DEFINE mem == Refresh(cleared, pass.obj)
           p == [pass EXCEPT !.obj = mem, !.fresh = TRUE]
           done == PassTyped' /\ pass'.pc \in {"idle", "status", "read"}
<1>1. mem \in Objects
  BY ClearedType, PassFacts, RefreshType
<1> HIDE DEF mem
<1>2. p \in Passes
  BY <1>1, PassFacts DEF Passes
<1> HIDE DEF p
<1>3. ASSUME NEW q \in {pass, Outdated(pass)}, Conclude(q, "error", queued)
      PROVE  done
  BY <1>3, PassFacts, OutdatedType, ConcludeType DEF Agains, PassTyped
<1>4. ASSUME OnAdapterError(p, pass.err)
      PROVE  done
  BY <1>2, <1>4, PassFacts, OnAdapterErrorType DEF PassTyped
<1>5. ASSUME Goto([p EXCEPT !.pc = "read"])
      PROVE  done
  <2>1. [p EXCEPT !.pc = "read"] \in Passes /\ [p EXCEPT !.pc = "read"].pc = "read"
    BY <1>2 DEF Passes, Pcs, LivePcs
  <2> QED BY <1>5, <2>1, PassFacts DEF Goto, PassTyped
<1>6. done
  BY <1>0, <1>3, <1>4, <1>5 DEF PatchAttemptOff, mem, p
<1>7. spent' \in [Spends -> Nat] /\ UNCHANGED remote
  BY <1>0, PassFacts, SpendType DEF PatchAttemptOff, Spends
<1>8. UNCHANGED versions \/ Write(cleared)
  BY <1>0 DEF PatchAttemptOff
<1>9. VersionsTyped'
  BY <1>8, ClearedType, WriteEffect DEF VersionsTyped, TypeOK
<1>10. TypeOK'
  BY <1>6, <1>7, <1>9, SMT DEF TypeOK, PassTyped, VersionsTyped
<1> QED BY <1>6, <1>8, <1>10

\* The POST keeps the types.
LEMMA CreateType ==
  ASSUME TypeOK, Create
  PROVE  TypeOK' /\ pass'.pc \in {"idle", "status", "dropRejected", "conflictFind"}
<1> DEFINE s == pass.obj.spec
           new(id, state) == remote' = [remote EXCEPT ![id] = Posted(pass.ref, s, state, TRUE)]
           fail(e) == IF IsRetryable(e)
                      THEN OnAdapterError(pass, e)
                      ELSE Goto([pass EXCEPT !.pc = "dropRejected", !.err = e])
           recorded(id) == [pass.obj.status EXCEPT !.id = id, !.hash = pass.hash]
           created(id) == [pass EXCEPT !.obj.status =
                             SetConditionsOnOutcome(recorded(id), pass.gen, "synced", "Created")]
           done == PassTyped' /\ pass'.pc \in {"idle", "status", "dropRejected", "conflictFind"}
<1>1. ASSUME NEW e \in ErrorValues \cup {NoError}, fail(e)
      PROVE  done
  <2>1. CASE OnAdapterError(pass, e)
    BY <2>1, PassFacts, OnAdapterErrorType DEF PassTyped
  <2>2. CASE Goto([pass EXCEPT !.pc = "dropRejected", !.err = e])
    <3>1. [pass EXCEPT !.pc = "dropRejected", !.err = e] \in Passes
      BY PassFacts DEF Passes, Pcs, LivePcs
    <3> QED BY <2>2, <3>1, PassFacts DEF Goto, PassTyped, Passes
  <2> QED BY <1>1, <2>1, <2>2
<1>2. ASSUME Goto([pass EXCEPT !.pc = "conflictFind"])
      PROVE  done
  <2>1. [pass EXCEPT !.pc = "conflictFind"] \in Passes
    BY PassFacts DEF Passes, Pcs, LivePcs
  <2> QED BY <1>2, <2>1, PassFacts DEF Goto, PassTyped, Passes
<1>3. ASSUME NEW id \in Ids, Conclude(created(id), "later", queued)
      PROVE  done
  <2>1. recorded(id) \in Statuses
    BY PassFacts DEF Statuses
  <2> DEFINE st == SetConditionsOnOutcome(recorded(id), pass.gen, "synced", "Created")
  <2> HIDE DEF recorded
  <2>2. st \in Statuses
    BY <2>1, PassFacts, ConditionsType DEF Outcomes, ConditionReasons
  <2>3. created(id) = [pass EXCEPT !.obj = [pass.obj EXCEPT !.status = st]]
    OBVIOUS
  <2> HIDE DEF st
  <2>4. [pass.obj EXCEPT !.status = st] \in Objects
    BY <2>2, PassFacts DEF Objects
  <2>5. [pass EXCEPT !.obj = [pass.obj EXCEPT !.status = st]] \in Passes
    BY <2>4, PassFacts DEF Passes
  <2> HIDE DEF created
  <2> QED BY <1>3, <2>3, <2>5, PassFacts, ConcludeType DEF Agains, PassTyped
<1>4. "Raw" \in ErrorValues /\ NewFromHTTPResponse(400) \in ErrorValues \cup {NoError}
      /\ \A code \in FaultCodes : Failure(code) \in ErrorValues \cup {NoError}
  BY FailureType, FaultCodesType DEF ErrorValues
<1>5. done
  <2> HIDE DEF done
  <2>1. \/ fail("Raw") \/ fail(NewFromHTTPResponse(400))
        \/ Goto([pass EXCEPT !.pc = "conflictFind"])
        \/ \E id \in Ids : Conclude(created(id), "later", queued)
        \/ \E code \in FaultCodes : fail(Failure(code))
    BY Zenon DEF Create, NextIds
  <2> HIDE DEF fail, created
  <2> QED BY <1>1, <1>2, <1>3, <1>4, <2>1
<1>6. ASSUME NEW id \in Ids, NEW state \in {"live", "pending"}, new(id, state)
      PROVE  remote' \in [Ids -> RemoteObjects]
  <2>1. Posted(pass.ref, s, state, TRUE) \in RemoteObjects
    BY PassFacts, PostedType
  <2> QED BY <1>6, <2>1, PassFacts, RemoteSet
<1>7. \/ UNCHANGED remote
      \/ \E id \in Ids : new(id, "live") \/ new(id, "pending")
  BY Zenon DEF Create, NextIds
<1>8. remote' \in [Ids -> RemoteObjects]
  BY <1>6, <1>7, PassFacts
<1>9. spent' \in [Spends -> Nat] /\ UNCHANGED versions
  BY PassFacts, SpendType DEF Create, Spends
<1> QED BY <1>5, <1>8, <1>9, SMT DEF TypeOK, PassTyped, VersionsTyped

\* The status a reconcile leaves when the object is gone, and when it is in
\* sync or was updated.
LEMMA RecordedType ==
  ASSUME TypeOK
  PROVE  /\ [pass EXCEPT !.obj.status.id = NoId, !.obj.status.hash = NoHash] \in Passes
         /\ [pass EXCEPT !.obj.status.hash = pass.hash] \in Passes
<1> DEFINE st1 == [pass.obj.status EXCEPT !.id = NoId, !.hash = NoHash]
           st2 == [pass.obj.status EXCEPT !.hash = pass.hash]
<1>1. st1 \in Statuses /\ st2 \in Statuses
  BY PassFacts DEF Statuses, NoHash, Hashes
<1>2. /\ [pass EXCEPT !.obj.status.id = NoId, !.obj.status.hash = NoHash]
           = [pass EXCEPT !.obj = [pass.obj EXCEPT !.status = st1]]
      /\ [pass EXCEPT !.obj.status.hash = pass.hash]
           = [pass EXCEPT !.obj = [pass.obj EXCEPT !.status = st2]]
  BY PassFacts DEF Passes, Objects
<1> HIDE DEF st1, st2
<1>3. [pass.obj EXCEPT !.status = st1] \in Objects /\ [pass.obj EXCEPT !.status = st2] \in Objects
  BY <1>1, PassFacts DEF Objects
<1>4. /\ [pass EXCEPT !.obj = [pass.obj EXCEPT !.status = st1]] \in Passes
      /\ [pass EXCEPT !.obj = [pass.obj EXCEPT !.status = st2]] \in Passes
  BY <1>3, PassFacts DEF Passes
<1> QED BY <1>2, <1>4

\* The GET keeps the types.
LEMMA OnExistingObjectType ==
  ASSUME TypeOK, OnExistingObject
  PROVE  TypeOK' /\ pass'.pc \in {"idle", "status", "update"}
<1> DEFINE o == pass.obj
           id == o.status.id
           lost == [pass EXCEPT !.obj.status.id = NoId, !.obj.status.hash = NoHash]
           same == [pass EXCEPT !.obj.status.hash = pass.hash]
           settle(r) == Conclude(Verdict(pass, o.gen, "terminal", r), "none", queued)
           done == PassTyped' /\ pass'.pc \in {"idle", "status", "update"}
<1>0. lost \in Passes /\ same \in Passes
  BY RecordedType
<1> HIDE DEF lost, same
<1>1. ASSUME NEW code \in FaultCodes, OnAdapterError(pass, Failure(code))
      PROVE  done
  BY <1>1, FaultType, FaultCodesType
<1>2. ASSUME NEW r \in {"CompareFailed", "ImmutableFieldChanged"}, settle(r)
      PROVE  done
  BY <1>2, PassFacts, SettleType DEF Outcomes, ConditionReasons, Agains
<1>3. ASSUME \/ Conclude(Verdict(lost, o.gen, "pending", "Pending"), "later", queued)
             \/ Conclude(Verdict(same, o.gen, "synced", "Synced"), "later", queued)
      PROVE  done
  BY <1>0, <1>3, PassFacts, SettleType DEF Outcomes, ConditionReasons, Agains
<1>4. ASSUME Goto([pass EXCEPT !.pc = "update"])
      PROVE  done
  <2>1. [pass EXCEPT !.pc = "update"] \in Passes
    BY PassFacts DEF Passes, Pcs, LivePcs
  <2> QED BY <1>4, <2>1, PassFacts DEF Goto, PassTyped, Passes
<1>5. done
  <2> HIDE DEF done
  <2>1. \/ \E code \in FaultCodes : OnAdapterError(pass, Failure(code))
        \/ settle("CompareFailed") \/ settle("ImmutableFieldChanged")
        \/ Conclude(Verdict(lost, o.gen, "pending", "Pending"), "later", queued)
        \/ Conclude(Verdict(same, o.gen, "synced", "Synced"), "later", queued)
        \/ Goto([pass EXCEPT !.pc = "update"])
    BY Zenon DEF OnExistingObject, lost, same
  <2> HIDE DEF settle
  <2> QED BY <1>1, <1>2, <1>3, <1>4, <2>1
<1>6. UNCHANGED remote \/ remote' = [remote EXCEPT ![id].touched = FALSE]
  BY Zenon DEF OnExistingObject
<1>7. remote' \in [Ids -> RemoteObjects]
  <2>1. remote \in [Ids -> RemoteObjects]
    BY PassFacts
  <2> QED BY <1>6, <2>1, RemoteFields
<1>8. spent' \in [Spends -> Nat] /\ UNCHANGED versions
  BY PassFacts, SpendType DEF OnExistingObject, Spends
<1> QED BY <1>5, <1>7, <1>8, SMT DEF TypeOK, PassTyped, VersionsTyped

\* The PUT keeps the types.
LEMMA UpdateType ==
  ASSUME TypeOK, Update
  PROVE  TypeOK' /\ pass'.pc \in {"idle", "status"}
<1> DEFINE s == pass.obj.spec
           id == pass.obj.status.id
           same == [pass EXCEPT !.obj.status.hash = pass.hash]
           ended == Conclude(Verdict(same, pass.obj.gen, "synced", "Updated"), "later", queued)
           done == PassTyped' /\ pass'.pc \in {"idle", "status"}
<1>0. same \in Passes
  BY RecordedType
<1> HIDE DEF same
<1>1. ASSUME ended PROVE done
  BY <1>0, <1>1, PassFacts, SettleType DEF Outcomes, ConditionReasons, Agains
<1>2. ASSUME NEW code \in FaultCodes \cup {400, 404, 409},
             \/ OnAdapterError(pass, Failure(code))
             \/ OnAdapterError(pass, NewFromHTTPResponse(code))
      PROVE  done
  BY <1>2, FaultType, FaultCodesType
<1>3. done
  <2>1. \/ ended
        \/ \E code \in FaultCodes : OnAdapterError(pass, Failure(code))
        \/ OnAdapterError(pass, NewFromHTTPResponse(400))
        \/ OnAdapterError(pass, NewFromHTTPResponse(404))
        \/ OnAdapterError(pass, NewFromHTTPResponse(409))
    BY Zenon DEF Update, same
  <2> HIDE DEF done, ended
  <2> QED BY <1>1, <1>2, <2>1
<1>4. \/ UNCHANGED remote
      \/ remote' = [remote EXCEPT ![id].touched = FALSE]
      \/ id \in Ids /\ remote' = [remote EXCEPT ![id] = Updated(id, s)]
  BY Zenon DEF Update, Live
<1>5. remote' \in [Ids -> RemoteObjects]
  <2>1. id \in Ids => Updated(id, s) \in RemoteObjects
    BY PassFacts, UpdatedType
  <2>2. remote \in [Ids -> RemoteObjects]
    BY PassFacts
  <2>3. CASE id \in Ids /\ remote' = [remote EXCEPT ![id] = Updated(id, s)]
    BY <2>1, <2>2, <2>3, RemoteSet
  <2>4. CASE UNCHANGED remote \/ remote' = [remote EXCEPT ![id].touched = FALSE]
    BY <2>2, <2>4, RemoteFields
  <2> QED BY <1>4, <2>3, <2>4
<1>6. spent' \in [Spends -> Nat] /\ UNCHANGED versions
  BY PassFacts, SpendType DEF Update, Spends
<1> QED BY <1>3, <1>5, <1>6, SMT DEF TypeOK, PassTyped, VersionsTyped

\* The status update keeps the types.
LEMMA UpdateStatusType ==
  ASSUME TypeOK, UpdateStatus
  PROVE  /\ TypeOK' /\ pass'.pc = "idle"
         /\ UNCHANGED versions \/ Write([store EXCEPT !.status = pass.obj.status])
<1>1. PassTyped' /\ pass'.pc = "idle"
  BY PassFacts, StopType DEF UpdateStatus, PassTyped
<1>2. spent' \in [Spends -> Nat] /\ UNCHANGED remote
  BY PassFacts, SpendType DEF UpdateStatus, Spends
<1>3. UNCHANGED versions \/ Write([store EXCEPT !.status = pass.obj.status])
  BY DEF UpdateStatus
<1>4. VersionsTyped'
  BY <1>3, WrittenType, WriteEffect DEF VersionsTyped, TypeOK
<1>5. TypeOK'
  BY <1>1, <1>2, <1>4, SMT DEF TypeOK, PassTyped, VersionsTyped
<1> QED BY <1>1, <1>3, <1>5

\* The Find of finalize keeps the types.
LEMMA FinalizeFindType ==
  ASSUME TypeOK, FinalizeFind
  PROVE  TypeOK' /\ pass'.pc \in {"idle", "removeFinalizer", "reclaim"}
<1> DEFINE done == PassTyped' /\ pass'.pc \in {"idle", "removeFinalizer", "reclaim"}
<1>1. ASSUME Stop("later") PROVE done
  BY <1>1, PassFacts, StopType DEF PassTyped
<1>2. ASSUME Goto([pass EXCEPT !.pc = "removeFinalizer"]) PROVE done
  <2>1. [pass EXCEPT !.pc = "removeFinalizer"] \in Passes
    BY PassFacts DEF Passes, Pcs, FinalizePcs
  <2> QED BY <1>2, <2>1, PassFacts DEF Goto, PassTyped, Passes
<1>3. ASSUME NEW id \in Ids, Goto([pass EXCEPT !.pc = "reclaim", !.target = id])
      PROVE  done
  <2>1. [pass EXCEPT !.pc = "reclaim", !.target = id] \in Passes
    BY PassFacts DEF Passes, Pcs, FinalizePcs
  <2> QED BY <1>3, <2>1, PassFacts DEF Goto, PassTyped, Passes
<1>4. done
  BY <1>1, <1>2, <1>3 DEF FinalizeFind, Find
<1>5. spent' \in [Spends -> Nat] /\ UNCHANGED <<versions, remote>>
  BY PassFacts, SpendType DEF FinalizeFind, Spends
<1> QED BY <1>4, <1>5, SMT DEF TypeOK, PassTyped, VersionsTyped

\* The DELETE of finalize keeps the types.
LEMMA ReclaimType ==
  ASSUME TypeOK, Reclaim
  PROVE  TypeOK' /\ pass'.pc \in {"idle", "removeFinalizer"} /\ UNCHANGED versions
<1> DEFINE done == PassTyped' /\ pass'.pc \in {"idle", "removeFinalizer"}
<1>1. ASSUME Stop("later") PROVE done
  BY <1>1, PassFacts, StopType DEF PassTyped
<1>2. ASSUME Goto([pass EXCEPT !.pc = "removeFinalizer"]) PROVE done
  <2>1. [pass EXCEPT !.pc = "removeFinalizer"] \in Passes
    BY PassFacts DEF Passes, Pcs, FinalizePcs
  <2> QED BY <1>2, <2>1, PassFacts DEF Goto, PassTyped, Passes
<1>3. done
  BY <1>1, <1>2 DEF Reclaim
<1>4. \/ UNCHANGED remote
      \/ /\ pass.target \in Ids
         /\ remote' = [remote EXCEPT ![pass.target].state = "gone"]
  BY DEF Reclaim, Live
<1>5. remote' \in [Ids -> RemoteObjects]
  <2>1. remote \in [Ids -> RemoteObjects] /\ AnySpec.body \in Bodies
    BY PassFacts, SpecFields
  <2> QED BY <1>4, <2>1, RemoteStates
<1>6. spent' \in [Spends -> Nat] /\ UNCHANGED versions
  BY PassFacts, SpendType DEF Reclaim, Spends
<1> QED BY <1>3, <1>5, <1>6, SMT DEF TypeOK, PassTyped, VersionsTyped

\* The update that takes the finalizer off keeps the types.
LEMMA RemoveFinalizerType ==
  ASSUME TypeOK, RemoveFinalizer
  PROVE  TypeOK' /\ pass'.pc = "idle" /\ (UNCHANGED versions \/ Write(Absent))
<1>1. PassTyped' /\ pass'.pc = "idle"
  BY PassFacts, StopType DEF RemoveFinalizer, PassTyped
<1>2. UNCHANGED remote \/ Release
  BY DEF RemoveFinalizer
<1>3. remote' \in [Ids -> RemoteObjects]
  <2>1. ASSUME NEW id \in Ids PROVE [remote[id] EXCEPT !.mine = FALSE] \in RemoteObjects
    <3>1. remote[id] \in RemoteObjects
      BY PassFacts
    <3> QED BY <3>1 DEF RemoteObjects
  <2> QED BY <1>2, <2>1, PassFacts DEF Release
<1>4. UNCHANGED versions \/ Write(Absent)
  BY DEF RemoveFinalizer
<1>5. VersionsTyped'
  BY <1>4, Starts, WriteEffect DEF VersionsTyped, TypeOK
<1>6. spent' \in [Spends -> Nat]
  BY PassFacts, SpendType DEF RemoveFinalizer, Spends
<1>7. TypeOK'
  BY <1>1, <1>3, <1>5, <1>6, SMT DEF TypeOK, PassTyped, VersionsTyped
<1> QED BY <1>1, <1>4, <1>7

\* The worker's copy is overtaken: nothing else of the pass moves.
LEMMA OvertakenType ==
  ASSUME TypeOK, Overtaken
  PROVE  pass' \in Passes /\ pass'.pc = pass.pc /\ pass'.fresh = FALSE
BY OutdatedType DEF Overtaken

\* What the user's writes leave in the API server.
Touched(o) ==
  /\ o \in Objects
  /\ Write(o)
  /\ Overtaken
  /\ UNCHANGED <<queued, timer, remote>>
  /\ spent' \in [Spends -> Nat]

\* A user's write keeps the types.
LEMMA TouchedType ==
  ASSUME TypeOK, NEW o, Touched(o)
  PROVE  TypeOK'
<1>1. pass' \in Passes
  BY OvertakenType DEF Touched
<1>2. versions' \in Seq(Objects) /\ versions' # <<>>
  BY WriteEffect DEF Touched
<1> QED BY <1>1, <1>2, SMT DEF TypeOK, Touched

\* What a user may write.
LEMMA UserWrites ==
  ASSUME TypeOK, User
  PROVE  \E o : /\ Touched(o)
                /\ \/ ~store.exists /\ o.finalizer = FALSE /\ o.deleting = FALSE
                   \/ /\ store.exists
                      /\ o.exists = store.exists /\ o.finalizer = store.finalizer
                      /\ o.deleting = store.deleting /\ o.attempt = store.attempt
                   \/ /\ Held(store) /\ Held(o) /\ o.deleting
                      /\ o.attempt = store.attempt
                   \/ ~Held(store) /\ o.finalizer = FALSE /\ o.deleting = FALSE
<1> USE DEF Held, Spends
<1>0. store \in Objects /\ Absent \in Objects /\ spent \in [Spends -> Nat]
  BY StoreType, Starts, PassFacts
<1>1. ASSUME NEW s \in Specs, Apply(s)
      PROVE  \E o : Touched(o) /\ ~store.exists /\ o.finalizer = FALSE /\ o.deleting = FALSE
  <2> DEFINE o == [Absent EXCEPT !.exists = TRUE, !.gen = 1, !.spec = s]
  <2>1. o \in Objects /\ o.finalizer = FALSE /\ o.deleting = FALSE
    BY <1>0 DEF Objects, Absent
  <2>2. spent' \in [Spends -> Nat]
    BY <1>0, <1>1, SpendType DEF Apply
  <2>3. Touched(o) /\ ~store.exists
    BY <2>1, <2>2, <1>1, Zenon DEF Apply, Touched
  <2> QED BY <2>1, <2>3
<1>2. ASSUME NEW s \in Specs, Edit(s)
      PROVE  \E o : /\ Touched(o) /\ store.exists
                    /\ o.exists = store.exists /\ o.finalizer = store.finalizer
                    /\ o.deleting = store.deleting /\ o.attempt = store.attempt
  <2> DEFINE o == [store EXCEPT !.spec = s, !.gen = @ + 1]
  <2>1. o \in Objects /\ o.exists = store.exists /\ o.finalizer = store.finalizer
        /\ o.deleting = store.deleting /\ o.attempt = store.attempt
    <3> DEFINE g == store.gen + 1
    <3>1. g \in Nat
      BY <1>0 DEF Objects
    <3>2. o = [store EXCEPT !.spec = s, !.gen = g]
      OBVIOUS
    <3> HIDE DEF g
    <3> QED BY <1>0, <3>1, <3>2 DEF Objects
  <2>2. spent' \in [Spends -> Nat]
    BY <1>0, <1>2, SpendType DEF Edit
  <2>3. Touched(o) /\ store.exists
    BY <2>1, <2>2, <1>2, Zenon DEF Edit, Touched
  <2> QED BY <2>1, <2>3
<1>3. ASSUME NEW id \in Pins, Pin(id)
      PROVE  \E o : /\ Touched(o) /\ store.exists
                    /\ o.exists = store.exists /\ o.finalizer = store.finalizer
                    /\ o.deleting = store.deleting /\ o.attempt = store.attempt
  <2> DEFINE o == [store EXCEPT !.pin = id]
  <2>1. o \in Objects /\ o.exists = store.exists /\ o.finalizer = store.finalizer
        /\ o.deleting = store.deleting /\ o.attempt = store.attempt
    BY <1>0, SettingsAssumption DEF Objects
  <2>2. spent' \in [Spends -> Nat]
    BY <1>0, <1>3, SpendType DEF Pin
  <2>3. Touched(o) /\ store.exists
    BY <2>1, <2>2, <1>3, Zenon DEF Pin, Touched
  <2> QED BY <2>1, <2>3
<1>4. ASSUME LoseStatus
      PROVE  \E o : /\ Touched(o) /\ store.exists
                    /\ o.exists = store.exists /\ o.finalizer = store.finalizer
                    /\ o.deleting = store.deleting /\ o.attempt = store.attempt
  <2> DEFINE o == [store EXCEPT !.status = NoStatus]
  <2>1. o \in Objects /\ o.exists = store.exists /\ o.finalizer = store.finalizer
        /\ o.deleting = store.deleting /\ o.attempt = store.attempt
    BY <1>0, Starts DEF Objects
  <2>2. spent' \in [Spends -> Nat]
    BY <1>0, <1>4, SpendType DEF LoseStatus
  <2>3. Touched(o) /\ store.exists
    BY <2>1, <2>2, <1>4, Zenon DEF LoseStatus, Touched
  <2> QED BY <2>1, <2>3
<1>5. ASSUME Delete, store.finalizer
      PROVE  \E o : /\ Touched(o) /\ Held(store) /\ Held(o) /\ o.deleting
                    /\ o.attempt = store.attempt
  <2> DEFINE o == [store EXCEPT !.deleting = TRUE, !.gen = @ + 1]
  <2>1. o \in Objects /\ o.exists = store.exists /\ o.finalizer = store.finalizer
        /\ o.deleting /\ o.attempt = store.attempt
    <3> DEFINE g == store.gen + 1
    <3>1. g \in Nat
      BY <1>0 DEF Objects
    <3>2. o = [store EXCEPT !.deleting = TRUE, !.gen = g]
      OBVIOUS
    <3> HIDE DEF g
    <3> QED BY <1>0, <3>1, <3>2 DEF Objects
  <2>2. Write(o) /\ store.exists
    BY <1>5 DEF Delete
  <2>3. Touched(o)
    BY <2>1, <2>2, <1>0, <1>5 DEF Delete, Touched
  <2> HIDE DEF o
  <2> QED BY <1>5, <2>1, <2>2, <2>3
<1>6. ASSUME Delete, ~store.finalizer
      PROVE  \E o : Touched(o) /\ ~Held(store) /\ o.finalizer = FALSE /\ o.deleting = FALSE
  <2>1. Write(Absent)
    BY <1>6 DEF Delete
  <2>2. Touched(Absent)
    BY <2>1, <1>0, <1>6 DEF Delete, Touched
  <2> QED BY <1>6, <2>2 DEF Absent
<1> QED BY <1>1, <1>2, <1>3, <1>4, <1>5, <1>6 DEF User

\* Other writers keep the types, and leave the CR and the pass alone.
LEMMA OthersType ==
  ASSUME TypeOK, Others
  PROVE  TypeOK' /\ UNCHANGED <<versions, pass>>
<1>0. remote \in [Ids -> RemoteObjects] /\ spent \in [Spends -> Nat]
      /\ AnySpec.body \in Bodies
  BY PassFacts, SpecFields
<1> DEFINE done == /\ remote' \in [Ids -> RemoteObjects] /\ spent' \in [Spends -> Nat]
                   /\ UNCHANGED <<versions, queued, timer, pass>>
<1>1. ASSUME NEW s \in Specs, MeddleCreate(s) PROVE done
  <2>1. PICK id \in NextIds :
          remote' = [remote EXCEPT ![id] = Posted(s.ref, s, "live", FALSE)]
    BY <1>1 DEF MeddleCreate
  <2>2. Posted(s.ref, s, "live", FALSE) \in RemoteObjects
    BY SpecFields, PostedType
  <2>3. remote' \in [Ids -> RemoteObjects]
    BY <1>0, <2>1, <2>2, RemoteSet
  <2> QED BY <1>0, <1>1, <2>3, SpendType DEF MeddleCreate, Spends
<1>2. ASSUME NEW id \in Ids, NEW b \in Bodies, MeddleEdit(id, b) PROVE done
  <2>1. remote' = [remote EXCEPT ![id].body = b, ![id].touched = TRUE]
    BY <1>2 DEF MeddleEdit
  <2>2. remote' \in [Ids -> RemoteObjects]
    BY <1>0, <2>1, RemoteStates
  <2> QED BY <1>0, <1>2, <2>2, SpendType DEF MeddleEdit, Spends
<1>3. ASSUME NEW id \in Ids, MeddleDelete(id) PROVE done
  <2>1. remote' = [remote EXCEPT ![id].state = "gone", ![id].touched = TRUE]
    BY <1>3 DEF MeddleDelete
  <2>2. remote' \in [Ids -> RemoteObjects]
    BY <1>0, <2>1, RemoteStates
  <2> QED BY <1>0, <1>3, <2>2, SpendType DEF MeddleDelete, Spends
<1>4. ASSUME NEW id \in Ids, Commit(id) PROVE done
  <2>1. PICK state \in {"live", "gone"} : remote' = [remote EXCEPT ![id].state = state]
    BY <1>4 DEF Commit
  <2>2. remote' \in [Ids -> RemoteObjects]
    BY <1>0, <2>1, RemoteStates
  <2> QED BY <1>0, <1>4, <2>2 DEF Commit
<1>5. done
  BY <1>1, <1>2, <1>3, <1>4 DEF Others
<1> QED BY <1>5, SMT DEF TypeOK

\* The watch, the timer and a restart keep the types.
LEMMA ClockType ==
  ASSUME TypeOK, Deliver \/ Tick \/ Nudge \/ Crash
  PROVE  TypeOK'
<1>1. CASE Deliver
  <2>1. versions' \in Seq(Objects) /\ versions' # <<>>
    BY <1>1, DeliverEffect
  <2>2. queued' \in BOOLEAN /\ UNCHANGED <<timer, pass, remote, spent>>
    BY <1>1 DEF Deliver
  <2> QED BY <2>1, <2>2, SMT DEF TypeOK
<1>2. CASE Tick
  <2>1. /\ queued' \in BOOLEAN /\ timer' \in BOOLEAN
        /\ UNCHANGED <<versions, pass, remote, spent>>
    BY <1>2 DEF Tick
  <2> QED BY <2>1, SMT DEF TypeOK
<1>3. CASE Nudge
  <2>1. spent' \in [Spends -> Nat]
    BY <1>3, PassFacts, SpendType DEF Nudge, Spends
  <2> QED BY <1>3, <2>1, SMT DEF Nudge, TypeOK
<1>4. CASE Crash
  <2>1. spent' \in [Spends -> Nat] /\ Idle \in Passes /\ store \in Objects
    BY <1>4, PassFacts, SpendType, Starts, StoreType DEF Crash, Spends
  <2>2. versions' \in Seq(Objects) /\ versions' # <<>>
    BY <1>4, <2>1 DEF Crash
  <2>3. queued' \in BOOLEAN /\ timer' \in BOOLEAN /\ pass' \in Passes /\ UNCHANGED remote
    BY <1>4, <2>1 DEF Crash
  <2> QED BY <2>1, <2>2, <2>3, SMT DEF TypeOK
<1> QED BY <1>1, <1>2, <1>3, <1>4

\* Every step keeps the types.
LEMMA NextType ==
  ASSUME TypeOK, [Next]_vars
  PROVE  TypeOK'
<1>1. CASE Pass
  BY <1>1, ReconcileType, AddFinalizerType, OnNewObjectType, AddCreateAttemptType,
     CreateType, OnConflictType, RemoveCreateAttemptType, OnExistingObjectType,
     UpdateType, UpdateStatusType, FinalizeFindType, ReclaimType,
     RemoveFinalizerType DEF Pass
<1>2. CASE User
  BY <1>2, UserWrites, TouchedType
<1>3. CASE Others
  BY <1>3, OthersType
<1>4. CASE Deliver \/ Tick \/ Nudge \/ Crash
  BY <1>4, ClockType
<1>5. CASE UNCHANGED vars
  BY <1>5, SMT DEF vars, TypeOK
<1> QED BY <1>1, <1>2, <1>3, <1>4, <1>5 DEF Next

\* Every reachable state of the reconciler, the API server, the queue and
\* SigNoz has its type, whatever the constants.
THEOREM TypeCorrect == Spec => []TypeOK
<1>1. Init => TypeOK
  <2> SUFFICES ASSUME Init PROVE TypeOK
    OBVIOUS
  <2>1. versions \in Seq(Objects) /\ versions # <<>>
    BY Starts DEF Init
  <2>2. pass \in Passes
    BY Starts DEF Init
  <2>3. remote \in [Ids -> RemoteObjects] /\ spent \in [Spends -> Nat]
    BY Starts DEF Init
  <2> QED BY <2>1, <2>2, <2>3 DEF Init, TypeOK
<1>2. TypeOK /\ [Next]_vars => TypeOK'
  BY NextType
<1> QED BY <1>1, <1>2, PTL DEF Spec

-----------------------------------------------------------------------------
(* No POST before its record *)

\* A step that writes nothing keeps the invariant if the position it moves to
\* has what that position needs.
LEMMA Unwritten ==
  ASSUME Inductive, UNCHANGED versions,
         pass'.pc \in LivePcs => Held(store),
         pass'.pc \in FinalizePcs => \A i \in 1..Len(versions) : ~BoundLive(versions[i]),
         pass'.pc = "addFinalizer" /\ pass'.fresh
           => Len(versions) = 1 /\ store.exists /\ ~store.deleting,
         pass'.pc = "create" => store.attempt
  PROVE  Inductive'
BY DEF Inductive, FinalizerStays, DeletionStays, LiveHeld, FinalizingGone,
       AddedFresh, AttemptOnRecord, store

\* So does a write, if the version it appends fits the ones before it.
LEMMA Written ==
  ASSUME TypeOK, Inductive, NEW o \in Objects, Write(o),
         \A i \in 1..Len(versions) : BoundLive(versions[i]) => Held(o),
         \A i \in 1..Len(versions) :
           versions[i].exists /\ versions[i].deleting => ~BoundLive(o),
         pass'.pc \in LivePcs => Held(o),
         pass'.pc \in FinalizePcs
           => ~BoundLive(o) /\ \A i \in 1..Len(versions) : ~BoundLive(versions[i]),
         pass'.pc = "addFinalizer" => ~pass'.fresh,
         pass'.pc = "create" => o.attempt
  PROVE  Inductive'
<1> DEFINE n == Len(versions)
<1>1. /\ n \in Nat \ {0} /\ Len(versions') = n + 1 /\ store' = o
      /\ versions'[n + 1] = o
      /\ \A i \in 1..n : versions'[i] = versions[i]
  BY StoreType, WriteEffect DEF store
<1>2. FinalizerStays'
  <2> SUFFICES ASSUME NEW i \in 1..(n + 1), NEW j \in 1..(n + 1), i < j,
                      BoundLive(versions'[i])
               PROVE  Held(versions'[j])
    BY <1>1 DEF FinalizerStays
  <2>1. i \in 1..n /\ versions'[i] = versions[i]
    BY <1>1
  <2>2. CASE j = n + 1
    BY <1>1, <2>1, <2>2
  <2>3. CASE j \in 1..n
    BY <1>1, <2>1, <2>3 DEF Inductive, FinalizerStays
  <2> QED BY <1>1, <2>2, <2>3
<1>3. DeletionStays'
  <2> SUFFICES ASSUME NEW i \in 1..(n + 1), NEW j \in 1..(n + 1), i < j,
                      versions'[i].exists, versions'[i].deleting
               PROVE  ~BoundLive(versions'[j])
    BY <1>1 DEF DeletionStays
  <2>1. i \in 1..n /\ versions'[i] = versions[i]
    BY <1>1
  <2>2. CASE j = n + 1
    BY <1>1, <2>1, <2>2
  <2>3. CASE j \in 1..n
    BY <1>1, <2>1, <2>3 DEF Inductive, DeletionStays
  <2> QED BY <1>1, <2>2, <2>3
<1>4. FinalizingGone'
  <2> SUFFICES ASSUME pass'.pc \in FinalizePcs, NEW i \in 1..(n + 1)
               PROVE  ~BoundLive(versions'[i])
    BY <1>1 DEF FinalizingGone
  <2>1. CASE i = n + 1
    BY <1>1, <2>1
  <2>2. CASE i \in 1..n
    BY <1>1, <2>2
  <2> QED BY <1>1, <2>1, <2>2
<1>5. LiveHeld' /\ AddedFresh' /\ AttemptOnRecord'
  BY <1>1 DEF LiveHeld, AddedFresh, AttemptOnRecord
<1> QED BY <1>2, <1>3, <1>4, <1>5 DEF Inductive

\* A version with the API server's own finalizer and deletion mark fits.
LEMMA SameHoldFits ==
  ASSUME TypeOK, Inductive, NEW o, o.exists = store.exists,
         o.finalizer = store.finalizer, o.deleting = store.deleting
  PROVE  /\ \A i \in 1..Len(versions) : BoundLive(versions[i]) => Held(o)
         /\ \A i \in 1..Len(versions) :
              versions[i].exists /\ versions[i].deleting => ~BoundLive(o)
         /\ Held(o) <=> Held(store)
         /\ BoundLive(o) <=> BoundLive(store)
<1>1. Len(versions) \in Nat \ {0} /\ store = versions[Len(versions)]
  BY StoreType DEF store
<1>2. (Held(o) <=> Held(store)) /\ (BoundLive(o) <=> BoundLive(store))
  BY DEF Held, BoundLive
<1>3. ASSUME NEW i \in 1..Len(versions), BoundLive(versions[i])
      PROVE  Held(store)
  <2>1. CASE i = Len(versions)
    BY <1>1, <1>3, <2>1 DEF BoundLive
  <2>2. CASE i < Len(versions)
    BY <1>1, <1>3, <2>2 DEF Inductive, FinalizerStays
  <2> QED BY <1>1, <2>1, <2>2
<1>4. ASSUME NEW i \in 1..Len(versions), versions[i].exists, versions[i].deleting
      PROVE  ~BoundLive(store)
  <2>1. CASE i = Len(versions)
    BY <1>1, <1>4, <2>1 DEF BoundLive
  <2>2. CASE i < Len(versions)
    BY <1>1, <1>4, <2>2 DEF Inductive, DeletionStays
  <2> QED BY <1>1, <2>1, <2>2
<1> QED BY <1>2, <1>3, <1>4

\* The steps of a pass over a live CR that only talk to SigNoz.
LEMMA RequestStep ==
  ASSUME TypeOK, Inductive,
         OnNewObject \/ Create \/ OnConflict \/ OnExistingObject \/ Update
  PROVE  Inductive'
<1>1. /\ pass.pc \in LivePcs /\ UNCHANGED versions
      /\ pass'.pc \in {"idle", "status", "mark", "dropRejected", "conflictFind", "update"}
  BY OnNewObjectType, CreateType, OnConflictType, OnExistingObjectType, UpdateType
     DEF OnNewObject, Create, OnConflict, OnExistingObject, Update, LivePcs
<1>2. Held(store)
  BY <1>1 DEF Inductive, LiveHeld
<1> QED BY <1>1, <1>2, Unwritten DEF FinalizePcs

\* The steps of a pass over a live CR that write to the API server.
LEMMA PatchStep ==
  ASSUME TypeOK, Inductive,
         AddCreateAttemptAnnotation \/ RemoveCreateAttemptAnnotation \/ UpdateStatus
  PROVE  Inductive'
<1> DEFINE reported == [store EXCEPT !.status = pass.obj.status]
<1>1. pass.pc \in LivePcs
  BY DEF AddCreateAttemptAnnotation, RemoveCreateAttemptAnnotation, PatchAttemptOff,
         UpdateStatus, LivePcs
<1>2. Held(store)
  BY <1>1 DEF Inductive, LiveHeld
<1>3. ASSUME NEW o \in Objects, Write(o), o.exists = store.exists,
             o.finalizer = store.finalizer, o.deleting = store.deleting,
             pass'.pc \in {"idle", "status", "create", "read"},
             pass'.pc = "create" => o.attempt
      PROVE  Inductive'
  <2>1. /\ \A i \in 1..Len(versions) : BoundLive(versions[i]) => Held(o)
        /\ \A i \in 1..Len(versions) :
             versions[i].exists /\ versions[i].deleting => ~BoundLive(o)
        /\ Held(o)
    BY <1>2, <1>3, SameHoldFits
  <2>2. pass'.pc \notin FinalizePcs /\ pass'.pc # "addFinalizer"
    BY <1>3 DEF FinalizePcs
  <2> QED BY <1>3, <2>1, <2>2, Written
<1>4. CASE AddCreateAttemptAnnotation
  <2>1. /\ pass'.pc \in {"idle", "status", "create", "read"}
        /\ UNCHANGED versions \/ Write(Marked(store))
        /\ pass'.pc = "create" => Write(Marked(store)) \/ (store.attempt /\ UNCHANGED versions)
    BY <1>4, AddCreateAttemptType
  <2>2. /\ Marked(store) \in Objects /\ Marked(store).exists = store.exists
        /\ Marked(store).finalizer = store.finalizer
        /\ Marked(store).deleting = store.deleting /\ Marked(store).attempt
    BY WrittenType, StoreType DEF Marked, Objects
  <2>3. CASE Write(Marked(store))
    BY <1>3, <2>1, <2>2, <2>3
  <2>4. CASE UNCHANGED versions /\ ~Write(Marked(store))
    BY <1>2, <2>1, <2>4, Unwritten DEF FinalizePcs
  <2> QED BY <2>1, <2>3, <2>4
<1>5. CASE RemoveCreateAttemptAnnotation
  <2>1. PICK cleared \in ClearedForms :
          /\ pass'.pc \in {"idle", "status", "read"}
          /\ UNCHANGED versions \/ Write(cleared)
    BY <1>5, RemoveCreateAttemptType
  <2>2. /\ cleared \in Objects /\ cleared.exists = store.exists
        /\ cleared.finalizer = store.finalizer /\ cleared.deleting = store.deleting
    BY ClearedType
  <2>3. CASE Write(cleared)
    BY <1>3, <2>1, <2>2, <2>3
  <2>4. CASE UNCHANGED versions
    BY <1>2, <2>1, <2>4, Unwritten DEF FinalizePcs
  <2> QED BY <2>1, <2>3, <2>4
<1>6. CASE UpdateStatus
  <2>1. pass'.pc = "idle" /\ (UNCHANGED versions \/ Write(reported))
    BY <1>6, UpdateStatusType
  <2>2. /\ reported \in Objects /\ reported.exists = store.exists
        /\ reported.finalizer = store.finalizer /\ reported.deleting = store.deleting
    BY WrittenType, StoreType DEF Objects
  <2> HIDE DEF reported
  <2>3. CASE Write(reported)
    BY <1>3, <2>1, <2>2, <2>3
  <2>4. CASE UNCHANGED versions
    BY <1>2, <2>1, <2>4, Unwritten DEF FinalizePcs
  <2> QED BY <2>1, <2>3, <2>4
<1> QED BY <1>4, <1>5, <1>6

\* The steps of a finalizing pass: no version left in the history is live.
LEMMA FinalizeStep ==
  ASSUME TypeOK, Inductive, FinalizeFind \/ Reclaim \/ RemoveFinalizer
  PROVE  Inductive'
<1>1. \A i \in 1..Len(versions) : ~BoundLive(versions[i])
  BY DEF Inductive, FinalizingGone, FinalizeFind, Reclaim, RemoveFinalizer, FinalizePcs
<1>2. CASE FinalizeFind \/ Reclaim
  <2>1. UNCHANGED versions /\ pass'.pc \in {"idle", "removeFinalizer", "reclaim"}
    BY <1>2, FinalizeFindType, ReclaimType DEF FinalizeFind, Reclaim
  <2> QED BY <1>1, <2>1, Unwritten DEF LivePcs
<1>3. CASE RemoveFinalizer
  <2>1. pass'.pc = "idle" /\ (UNCHANGED versions \/ Write(Absent))
    BY <1>3, RemoveFinalizerType
  <2>2. CASE UNCHANGED versions
    BY <2>1, <2>2, Unwritten DEF LivePcs, FinalizePcs
  <2>3. CASE Write(Absent)
    <3>1. Absent \in Objects /\ ~BoundLive(Absent)
      BY Starts DEF BoundLive, Held, Absent
    <3>2. pass'.pc \notin LivePcs /\ pass'.pc \notin FinalizePcs
      BY <2>1 DEF LivePcs, FinalizePcs
    <3> QED BY <1>1, <2>1, <2>3, <3>1, <3>2, Written
  <2> QED BY <2>1, <2>2, <2>3
<1> QED BY <1>2, <1>3

\* The start of a pass: what the cached copy says bounds the API server's.
LEMMA ReconcileStep ==
  ASSUME TypeOK, Inductive, Reconcile
  PROVE  Inductive'
<1>1. /\ UNCHANGED versions /\ Len(versions) \in Nat \ {0}
      /\ cache = versions[1] /\ store = versions[Len(versions)]
      /\ timer \in BOOLEAN /\ spent \in [Spends -> Nat] /\ Fetched \in Passes
  BY StoreType, PassFacts, FetchedType DEF Reconcile, store
<1>2. CASE pass' = Idle
  BY <1>1, <1>2, Unwritten DEF Idle, LivePcs, FinalizePcs
<1>3. CASE cache.exists /\ cache.deleting /\ Finalize(Fetched, FALSE)
  <2>1. pass'.pc \in {"idle"} \cup FinalizePcs
    BY <1>1, <1>3, FinalizeType
  <2>2. ASSUME NEW i \in 1..Len(versions) PROVE ~BoundLive(versions[i])
    <3>1. CASE i = 1
      BY <1>1, <1>3, <3>1 DEF BoundLive
    <3>2. CASE 1 < i
      BY <1>1, <1>3, <3>2 DEF Inductive, DeletionStays
    <3> QED BY <3>1, <3>2
  <2>3. pass'.pc \notin LivePcs /\ pass'.pc \notin {"addFinalizer", "create"}
    BY <2>1 DEF LivePcs, FinalizePcs
  <2> QED BY <1>1, <2>2, <2>3, Unwritten
<1>4. CASE /\ cache.exists /\ ~cache.deleting
           /\ pass' = [Fetched EXCEPT !.pc = "addFinalizer"]
  <2>1. pass'.pc = "addFinalizer" /\ (pass'.fresh => Len(versions) = 1)
    BY <1>1, <1>4 DEF Fetched, Idle
  <2>2. Len(versions) = 1 => store = cache
    BY <1>1
  <2> QED BY <1>1, <1>4, <2>1, <2>2, Unwritten DEF LivePcs, FinalizePcs
<1>5. CASE cache.exists /\ ~cache.deleting /\ cache.finalizer /\ Plan(Fetched, FALSE)
  <2>1. pass'.pc \in {"idle", "status", "find", "dropAttempt", "read"}
    BY <1>1, <1>5, PlanType
  <2>2. Held(store)
    <3>1. BoundLive(versions[1])
      BY <1>1, <1>5 DEF BoundLive, Held
    <3>2. CASE Len(versions) = 1
      BY <1>1, <3>1, <3>2 DEF BoundLive
    <3>3. CASE 1 < Len(versions)
      BY <1>1, <3>1, <3>3 DEF Inductive, FinalizerStays
    <3>4. Len(versions) = 1 \/ 1 < Len(versions)
      <4>1. Len(versions) \in Nat \ {0}
        BY <1>1
      <4> QED BY <4>1
    <3> QED BY <3>2, <3>3, <3>4
  <2> QED BY <1>1, <2>1, <2>2, Unwritten DEF FinalizePcs
<1> QED BY <1>2, <1>3, <1>4, <1>5 DEF Reconcile

\* The finalizer goes on only a copy the API server still holds, alone in the
\* history: the version it makes is the first live one.
LEMMA AddFinalizerStep ==
  ASSUME TypeOK, Inductive, AddFinalizer
  PROVE  Inductive'
<1> DEFINE added == [store EXCEPT !.finalizer = TRUE]
           p == [pass EXCEPT !.obj = added]
<1>1. /\ added \in Objects /\ added.exists = store.exists
      /\ added.deleting = store.deleting /\ added.finalizer
  BY StoreType DEF Objects
<1>2. p \in Passes /\ timer \in BOOLEAN /\ queued \in BOOLEAN /\ spent \in [Spends -> Nat]
  <2> HIDE DEF added
  <2> QED BY <1>1, PassFacts DEF Passes
<1>3. pass'.pc \in {"idle", "status", "find", "dropAttempt", "read"}
  <2>1. Stop("error") \/ Plan(p, queued)
    BY DEF AddFinalizer
  <2> HIDE DEF p
  <2> QED BY <1>2, <2>1, StopType, PlanType
<1>4. CASE UNCHANGED versions /\ pass' = Idle
  BY <1>4, Unwritten DEF Idle, LivePcs, FinalizePcs
<1>5. CASE pass.fresh /\ Write(added)
  <2>1. Len(versions) = 1 /\ store.exists /\ ~store.deleting
    BY <1>5 DEF Inductive, AddedFresh, AddFinalizer
  <2>2. Held(added) /\ BoundLive(added)
    BY <1>1, <2>1 DEF Held, BoundLive
  <2>3. ASSUME NEW i \in 1..Len(versions) PROVE versions[i] = store
    BY <2>1 DEF store
  <2>4. pass'.pc \notin FinalizePcs /\ pass'.pc \notin {"addFinalizer", "create"}
    BY <1>3 DEF FinalizePcs
  <2> HIDE DEF added
  <2> QED BY <1>1, <1>5, <2>1, <2>2, <2>3, <2>4, Written
<1> QED BY <1>4, <1>5 DEF AddFinalizer, Stop

\* The user's writes: a deletion marks an object that has the finalizer, and
\* removes or creates only one that has not.
LEMMA UserStep ==
  ASSUME TypeOK, Inductive, User
  PROVE  Inductive'
<1>1. PICK o : /\ Touched(o)
               /\ \/ ~store.exists /\ o.finalizer = FALSE /\ o.deleting = FALSE
                  \/ /\ store.exists
                     /\ o.exists = store.exists /\ o.finalizer = store.finalizer
                     /\ o.deleting = store.deleting /\ o.attempt = store.attempt
                  \/ /\ Held(store) /\ Held(o) /\ o.deleting
                     /\ o.attempt = store.attempt
                  \/ ~Held(store) /\ o.finalizer = FALSE /\ o.deleting = FALSE
  BY UserWrites
<1>2. /\ o \in Objects /\ Write(o) /\ pass'.pc = pass.pc /\ ~pass'.fresh
  BY <1>1, OvertakenType DEF Touched
<1>3. /\ \A i \in 1..Len(versions) : BoundLive(versions[i]) => Held(store)
      /\ \A i \in 1..Len(versions) :
           versions[i].exists /\ versions[i].deleting => ~BoundLive(store)
  BY SameHoldFits
<1>4. Len(versions) \in 1..Len(versions) /\ store = versions[Len(versions)]
  BY StoreType DEF store
<1>5. pass.pc \in LivePcs => Held(store)
  BY DEF Inductive, LiveHeld
<1>6. pass.pc \in FinalizePcs => \A i \in 1..Len(versions) : ~BoundLive(versions[i])
  BY DEF Inductive, FinalizingGone
<1>7. pass.pc = "create" => store.attempt /\ Held(store)
  BY DEF Inductive, AttemptOnRecord, LiveHeld, LivePcs
<1>8. CASE ~Held(store) /\ o.finalizer = FALSE
  <2>1. ~Held(o) /\ ~BoundLive(o)
    BY <1>8 DEF Held, BoundLive
  <2> QED BY <1>2, <1>3, <1>5, <1>6, <1>7, <1>8, <2>1, Written
<1>9. CASE /\ o.exists = store.exists /\ o.finalizer = store.finalizer
           /\ o.deleting = store.deleting /\ o.attempt = store.attempt
  <2>1. (Held(o) <=> Held(store)) /\ (BoundLive(o) <=> BoundLive(store))
    BY <1>9 DEF Held, BoundLive
  <2> QED BY <1>2, <1>3, <1>4, <1>5, <1>6, <1>7, <1>9, <2>1, Written
<1>10. CASE Held(store) /\ Held(o) /\ o.deleting /\ o.attempt = store.attempt
  <2>1. ~BoundLive(o)
    BY <1>10 DEF BoundLive
  <2> QED BY <1>2, <1>5, <1>6, <1>7, <1>10, <2>1, Written
<1>11. ~store.exists => ~Held(store)
  BY DEF Held
<1> QED BY <1>1, <1>8, <1>9, <1>10, <1>11

\* A delivery shortens the history, a restart leaves its last version.
LEMMA ClockStep ==
  ASSUME TypeOK, Inductive, Deliver \/ Tick \/ Nudge \/ Crash
  PROVE  Inductive'
<1>1. CASE Deliver
  <2> DEFINE m == Len(versions')
  <2>1. /\ m \in Nat \ {0} /\ Len(versions) = m + 1 /\ store' = store
        /\ \A i \in 1..m : versions'[i] = versions[i + 1]
        /\ UNCHANGED pass
    BY <1>1, StoreType, DeliverEffect DEF Deliver
  <2>2. FinalizerStays'
    <3> SUFFICES ASSUME NEW i \in 1..m, NEW j \in 1..m, i < j, BoundLive(versions'[i])
                 PROVE  Held(versions'[j])
      BY DEF FinalizerStays
    <3>1. i + 1 \in 1..(m + 1) /\ j + 1 \in 1..(m + 1) /\ i + 1 < j + 1
      BY <2>1
    <3> QED BY <2>1, <3>1 DEF Inductive, FinalizerStays
  <2>3. DeletionStays'
    <3> SUFFICES ASSUME NEW i \in 1..m, NEW j \in 1..m, i < j,
                        versions'[i].exists, versions'[i].deleting
                 PROVE  ~BoundLive(versions'[j])
      BY DEF DeletionStays
    <3>1. i + 1 \in 1..(m + 1) /\ j + 1 \in 1..(m + 1) /\ i + 1 < j + 1
      BY <2>1
    <3> QED BY <2>1, <3>1 DEF Inductive, DeletionStays
  <2>4. FinalizingGone'
    <3> SUFFICES ASSUME pass'.pc \in FinalizePcs, NEW i \in 1..m
                 PROVE  ~BoundLive(versions'[i])
      BY DEF FinalizingGone
    <3>1. i + 1 \in 1..(m + 1)
      BY <2>1
    <3> QED BY <2>1, <3>1 DEF Inductive, FinalizingGone
  <2>5. LiveHeld' /\ AddedFresh' /\ AttemptOnRecord'
    BY <2>1 DEF Inductive, LiveHeld, AddedFresh, AttemptOnRecord
  <2> QED BY <2>2, <2>3, <2>4, <2>5 DEF Inductive
<1>2. CASE Tick \/ Nudge
  <2>1. UNCHANGED <<versions, pass>>
    BY <1>2 DEF Tick, Nudge
  <2> QED BY <2>1 DEF Inductive, FinalizerStays, DeletionStays, LiveHeld,
                      FinalizingGone, AddedFresh, AttemptOnRecord, store
<1>3. CASE Crash
  <2>1. Len(versions') = 1 /\ pass'.pc = "idle"
    BY <1>3 DEF Crash, Idle
  <2> QED BY <2>1 DEF Inductive, FinalizerStays, DeletionStays, LiveHeld,
                      FinalizingGone, AddedFresh, AttemptOnRecord, LivePcs, FinalizePcs
<1> QED BY <1>1, <1>2, <1>3

\* What the cached versions, the API server's object and the worker's position
\* say of each other holds in every reachable state.
THEOREM InductiveHolds == Spec => []Inductive
<1>1. Init => Inductive
  BY DEF Init, Inductive, FinalizerStays, DeletionStays, LiveHeld,
         FinalizingGone, AddedFresh, AttemptOnRecord, Idle, LivePcs, FinalizePcs
<1>2. TypeOK /\ Inductive /\ [Next]_vars => Inductive'
  <2> SUFFICES ASSUME TypeOK, Inductive, [Next]_vars PROVE Inductive'
    OBVIOUS
  <2>1. CASE Pass
    BY <2>1, ReconcileStep, AddFinalizerStep, RequestStep, PatchStep, FinalizeStep DEF Pass
  <2>2. CASE User
    BY <2>2, UserStep
  <2>3. CASE Others \/ UNCHANGED vars
    <3>1. UNCHANGED <<versions, pass>>
      BY <2>3, OthersType DEF vars
    <3> QED BY <3>1 DEF Inductive, FinalizerStays, DeletionStays, LiveHeld,
                        FinalizingGone, AddedFresh, AttemptOnRecord, store
  <2>4. CASE Deliver \/ Tick \/ Nudge \/ Crash
    BY <2>4, ClockStep
  <2> QED BY <2>1, <2>2, <2>3, <2>4 DEF Next
<1> QED BY <1>1, <1>2, TypeCorrect, PTL DEF Spec

\* create issues no POST before the API server holds the finalizer and the
\* create-attempt annotation, however far the cache lags and whatever edits,
\* deletions, crashes and lost answers come in between.
THEOREM WriteAheadHolds == Spec => []WriteAhead
<1>1. Inductive => WriteAhead
  BY DEF Inductive, LiveHeld, AttemptOnRecord, WriteAhead, Held, LivePcs
<1> QED BY <1>1, InductiveHolds, PTL

=============================================================================
