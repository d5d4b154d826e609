-------------------------- MODULE CommonReconciler --------------------------
(***************************************************************************)
(* internal/resources/reconcilers/common_reconciler.go: the one reconciler *)
(* behind every mirrored kind (Rule, Dashboard, User, ...), with the       *)
(* Kubernetes API server, the informer cache, the work queue and the       *)
(* SigNoz backends it runs against.                                        *)
(*                                                                         *)
(* One custom resource (CR) is followed.  Everyone else who writes to      *)
(* SigNoz (its UI, other CRs) is the environment.  Each Kubernetes write   *)
(* and each HTTP exchange is a step of its own, so that edits, deletions,  *)
(* crashes, lost answers and other writers fall between any two of them.   *)
(***************************************************************************)
EXTENDS Conditions, Sequences

CONSTANTS
  Ids,          \* ids SigNoz may assign, handed out in increasing order
  Refs,         \* provider configs: the SigNoz backends a CR may name
  Idents,       \* identities a spec may derive (a rule's alert, a user's email)
  NoIdent,      \* the identity of a spec that does not render or derives none
  Bodies,       \* what a spec says besides its identity
  NoBody,
  Shown,        \* [Bodies -> ...]: the part of a body a read answers with
  Refused,      \* bodies the server answers 400 to
  Unsendable,   \* bodies holding no updatable field: ToUpdate renders nil
  Specs,        \* the specs the user may apply
  Pins,         \* ids the user may pin with the signoz-resource-id annotation
  Unique,       \* the server enforces one object per identity (409)
  IdentityImmutable, \* the identity is an immutable field of the kind
  LateCommits,  \* a POST whose answer was lost may commit later
  FaultCodes,   \* HTTP statuses a request may fail with; 0 is no answer at all
  MaxLag,       \* bound: versions of the CR the cache may be behind
  Budget        \* bound: how often each kind of environment event happens

NoId == 0
NoHash == [ident |-> NoIdent, body |-> NoBody]
Hashes == [ident : Idents \cup {NoIdent}, body : Bodies \cup {NoBody}]
Spends == {"faults", "edits", "meddles", "crashes", "losses", "nudges"}

\* CoreSpec and the object template.  The intervals and the timeout only set
\* when a step comes, which the model leaves open.
CoreSpecs == [ref : Refs, ident : Idents \cup {NoIdent}, body : Bodies,
              suspend : BOOLEAN, reclaimPolicy : {"Delete", "Orphan"}]

\* What the constants must be for the model to make sense.
ASSUME IdsAssumption == Ids \subseteq Nat \ {NoId}
ASSUME SpecsAssumption ==
  /\ Specs # {}
  /\ Specs \subseteq CoreSpecs
  /\ NoIdent \notin Idents
  /\ NoBody \notin Bodies
  /\ DOMAIN Shown = Bodies
ASSUME SettingsAssumption ==
  /\ Refused \subseteq Bodies
  /\ Unsendable \subseteq Bodies
  /\ Pins \subseteq Ids
  /\ {Unique, IdentityImmutable, LateCommits} \subseteq BOOLEAN
  /\ FaultCodes \subseteq {0} \cup (300..599 \ {400, 404, 409})
  /\ MaxLag \in Nat
  /\ Budget \in [Spends -> Nat]

VARIABLES
  versions, \* the CR's history: Head is the informer cache, the last the API server
  queued,   \* the CR's key is in the work queue
  timer,    \* a RequeueAfter is running for it
  pass,     \* the worker's reconcile pass over it
  remote,   \* the objects in SigNoz
  spent     \* environment events so far, against Budget

vars == <<versions, queued, timer, pass, remote, spent>>

-----------------------------------------------------------------------------
(* Objects *)

NoStatus == [id |-> NoId, hash |-> NoHash, outcome |-> "none",
             reason |-> "None", gen |-> 0]

AnySpec == CHOOSE s \in Specs : TRUE

\* The CR's key holding no object.
Absent == [exists |-> FALSE, deleting |-> FALSE, finalizer |-> FALSE,
           attempt |-> FALSE, pin |-> NoId, gen |-> 0, spec |-> AnySpec,
           status |-> NoStatus]

Unborn == [state |-> "unborn", ref |-> AnySpec.ref, ident |-> NoIdent,
           body |-> NoBody, mine |-> FALSE, touched |-> FALSE]

Idle == [pc |-> "idle", obj |-> Absent, fresh |-> FALSE, before |-> NoStatus,
         hash |-> NoHash, gen |-> 0, ref |-> AnySpec.ref, target |-> NoId,
         err |-> NoError, again |-> "none"]

cache == Head(versions)
store == versions[Len(versions)]

Statuses == [id : Ids \cup {NoId}, hash : Hashes, outcome : Outcomes,
             reason : ConditionReasons, gen : Nat]

Objects == [exists : BOOLEAN, deleting : BOOLEAN, finalizer : BOOLEAN,
            attempt : BOOLEAN, pin : Ids \cup {NoId}, gen : Nat, spec : Specs,
            status : Statuses]

LivePcs == {"find", "mark", "create", "conflictFind", "dropRejected",
            "dropAttempt", "read", "update", "status"}
FinalizePcs == {"finalizeFind", "reclaim", "removeFinalizer"}
Pcs == {"idle", "addFinalizer"} \cup LivePcs \cup FinalizePcs

Passes == [pc : Pcs, obj : Objects, fresh : BOOLEAN, before : Statuses,
           hash : Hashes, gen : Nat, ref : Refs, target : Ids \cup {NoId},
           err : ErrorValues \cup {NoError}, again : {"none", "later", "error"}]

RemoteObjects == [state : {"unborn", "pending", "live", "gone"}, ref : Refs,
                  ident : Idents \cup {NoIdent}, body : Bodies \cup {NoBody},
                  mine : BOOLEAN, touched : BOOLEAN]

Init ==
  /\ versions = <<Absent>>
  /\ queued = FALSE
  /\ timer = FALSE
  /\ pass = Idle
  /\ remote = [id \in Ids |-> Unborn]
  /\ spent = [k \in Spends |-> 0]

-----------------------------------------------------------------------------
(* The Kubernetes API server, its watch and the work queue (external) *)

\* Every accepted write is a new version, hence a watch event to deliver.
Write(o) ==
  /\ Len(versions) <= MaxLag
  /\ versions' = Append(versions, o)

Spend(k) ==
  /\ spent[k] < Budget[k]
  /\ spent' = [spent EXCEPT ![k] = @ + 1]

\* The worker's Result: RequeueAfter, an error to back off on, or nothing.
\* q is what the queue holds besides.
Requeue(again, q) ==
  /\ queued' = (q \/ again = "error")
  /\ timer' = (timer \/ again = "later")

\* What a write's response leaves in memory: the live object, except that a
\* field its JSON omits keeps the value memory had.
Kept(live, mem, none) == IF live = none THEN mem ELSE live

Refresh(live, mem) ==
  [live EXCEPT
     !.pin = Kept(@, mem.pin, NoId),
     !.status = [ id |-> Kept(@.id, mem.status.id, NoId),
                  hash |-> Kept(@.hash, mem.status.hash, NoHash),
                  outcome |-> Kept(@.outcome, mem.status.outcome, "none"),
                  reason |-> Kept(@.reason, mem.status.reason, "None"),
                  gen |-> Kept(@.gen, mem.status.gen, 0) ]]

-----------------------------------------------------------------------------
(* The SigNoz API (external), seen through internal/resources/adapters *)

\* The error Exchange and NewFromHTTPResponse make of a failing request.
Failure(code) == IF code = 0 THEN "Unreachable" ELSE NewFromHTTPResponse(code)

\* A request that failed this way may have been carried out all the same.
MayHaveActed(code) == code = 0 \/ code >= 500

Live(id, ref) == id \in Ids /\ remote[id].state = "live" /\ remote[id].ref = ref

\* A faulty Find that also asks for the body to match.
FindByBody(ref, spec) ==
  {id \in Ids : /\ Live(id, ref)
                /\ remote[id].ident = spec.ident /\ remote[id].body = spec.body}

\* Find: every object of the backend that carries the spec's identity.
Find(ref, spec) == {id \in Ids : Live(id, ref) /\ remote[id].ident = spec.ident}

NextIds == {id \in Ids : /\ remote[id].state = "unborn"
                         /\ \A j \in Ids : remote[j].state = "unborn" => id <= j}

Posted(ref, spec, state, mine) ==
  [state |-> state, ref |-> ref, ident |-> spec.ident, body |-> spec.body,
   mine |-> mine, touched |-> FALSE]

\* A faulty PUT that leaves the identity out.
UpdatedBodyOnly(id, spec) ==
  [remote[id] EXCEPT !.body = spec.body, !.touched = FALSE]

\* The object after a PUT of the spec's updatable fields.
Updated(id, spec) ==
  [remote[id] EXCEPT !.body = spec.body, !.touched = FALSE,
                     !.ident = IF IdentityImmutable THEN @ ELSE spec.ident]

\* A faulty Hash, of another shape than the one recorded.
HashOfBodyOnly(spec) == spec.body

\* The hash of the body, the identity within it included.
Hash(spec) == [ident |-> spec.ident, body |-> spec.body]

\* Compare: what differs between the spec and the object a read shows.
ImmutableFieldsDiffer(id, spec) ==
  IdentityImmutable /\ remote[id].ident # spec.ident

\* A faulty compare that sees no drift.
NothingDiffers(id, spec) == FALSE

UpdatableFieldsDiffer(id, spec) ==
  \/ Shown[remote[id].body] # Shown[spec.body]
  \/ ~IdentityImmutable /\ remote[id].ident # spec.ident

-----------------------------------------------------------------------------
(* How a pass ends *)

\* The pass with the verdict of this reconcile on its status.
Verdict(p, generation, outcome, reason) ==
  [p EXCEPT !.obj.status =
     SetConditionsOnOutcome(@, generation, outcome, reason)]

\* The pass goes on to write its status; q is the queue besides.
Report(p, again, q) ==
  /\ pass' = [p EXCEPT !.pc = "status", !.again = again]
  /\ queued' = q
  /\ UNCHANGED timer

\* A faulty end of a pass that drops the result when the status did not move.
ConcludeDropsResult(p, again, q) ==
  \/ /\ p.obj.status = p.before
     /\ pass' = Idle
     /\ Requeue("none", q)
  \/ /\ p.obj.status # p.before
     /\ Report(p, again, q)

\* Reconcile writes the status only when it moved.
Conclude(p, again, q) ==
  \/ /\ p.obj.status = p.before
     /\ pass' = Idle
     /\ Requeue(again, q)
  \/ /\ p.obj.status # p.before
     /\ Report(p, again, q)

Stop(again) ==
  /\ pass' = Idle
  /\ Requeue(again, queued)

\* The error's wording goes into the status too, and a transport error's (it
\* names sockets) may differ from the last one's when nothing else moved.
OnAdapterError(p, e) ==
  LET judged == [p EXCEPT !.obj.status =
                   GetOutcomeAndSetConditionsOnErr(@, p.obj.gen, e)]
      again == IF OutcomeOnErr(e)[1] = "recoverable" THEN "later" ELSE "none"
  IN \/ Conclude(judged, again, queued)
     \/ e = "Unreachable" /\ Report(judged, again, queued)

\* Go on with the pass at another step.
Goto(p) ==
  /\ pass' = p
  /\ UNCHANGED <<queued, timer>>

\* The pass when its copy is no longer the API server's object.
Outdated(p) == [p EXCEPT !.fresh = FALSE]

\* Keep a pass when the object under it is written by someone else.
Overtaken == pass' = Outdated(pass)

-----------------------------------------------------------------------------
(* Reconcile, for a CR that is not being deleted *)

\* reconcile: everything it decides before its first request.  The hash, the
\* generation a create reports and the backend are taken here, once.
Plan(p, q) ==
  LET s == p.obj.spec
      started == [p EXCEPT !.hash = Hash(s), !.gen = p.obj.gen, !.ref = s.ref]
  IN \/ /\ s.suspend
        /\ Conclude(Verdict(p, p.obj.gen, "suspended", "Suspended"), "none", q)
        /\ UNCHANGED spent
     \/ /\ ~s.suspend /\ s.ident = NoIdent
        /\ Conclude(Verdict(p, p.obj.gen, "terminal", "InvalidSpec"), "none", q)
        /\ UNCHANGED spent
     \/ /\ ~s.suspend /\ s.ident # NoIdent
        /\ Spend("faults")
        /\ Conclude(Verdict(p, p.obj.gen, "recoverable", "ProviderConfigNotReady"),
                    "later", q)
     \/ /\ ~s.suspend /\ s.ident # NoIdent
        /\ pass' = [started EXCEPT
                      !.pc = CASE p.obj.status.id = NoId -> "find"
                               [] p.obj.status.id # NoId /\ p.obj.attempt
                                    -> "dropAttempt"
                               [] OTHER -> "read"]
        /\ queued' = q
        /\ UNCHANGED <<timer, spent>>

\* A faulty test that only trusts the recorded id.
NoRecordedId(o) == o.status.id = NoId

\* No recorded id and no pending create or adopt.
Unbound(o) == o.status.id = NoId /\ ~o.attempt

\* finalize: everything it decides before its first request.
Finalize(p, q) ==
  LET o == p.obj
      release == \/ o.spec.reclaimPolicy = "Orphan"
                 \/ Unbound(o)
      unnamed == o.status.id = NoId /\ o.spec.ident = NoIdent
  IN \/ /\ ~o.finalizer
        /\ pass' = Idle
        /\ queued' = q
        /\ UNCHANGED <<timer, spent>>
     \/ /\ o.finalizer /\ release
        /\ pass' = [p EXCEPT !.pc = "removeFinalizer"]
        /\ queued' = q
        /\ UNCHANGED <<timer, spent>>
     \/ /\ o.finalizer /\ ~release
        /\ Spend("faults")
        /\ pass' = Idle
        /\ Requeue("later", q)
     \/ /\ o.finalizer /\ ~release
        /\ pass' = [p EXCEPT !.ref = o.spec.ref, !.target = o.status.id,
                      !.pc = CASE o.status.id # NoId -> "reclaim"
                               [] unnamed -> "removeFinalizer"
                               [] OTHER -> "finalizeFind"]
        /\ queued' = q
        /\ UNCHANGED <<timer, spent>>

\* The generated controller's Get: a copy of the CR from the cache, fresh when
\* the API server holds nothing newer.
Fetched == [Idle EXCEPT !.obj = cache, !.before = cache.status,
                        !.fresh = (Len(versions) = 1)]

\* A worker takes the key: a CR that is gone needs nothing, one being deleted
\* is finalized, any other gets the finalizer before anything else is done.
Reconcile ==
  LET p == Fetched
  IN /\ pass.pc = "idle"
     /\ queued
     /\ \/ /\ ~cache.exists
           /\ pass' = Idle
           /\ queued' = FALSE
           /\ UNCHANGED <<timer, spent>>
        \/ /\ cache.exists /\ cache.deleting
           /\ Finalize(p, FALSE)
        \/ /\ cache.exists /\ ~cache.deleting /\ ~cache.finalizer
           /\ pass' = [p EXCEPT !.pc = "addFinalizer"]
           /\ queued' = FALSE
           /\ UNCHANGED <<timer, spent>>
        \/ /\ cache.exists /\ ~cache.deleting /\ cache.finalizer
           /\ Plan(p, FALSE)
     /\ UNCHANGED <<versions, remote>>

\* Update with the finalizer added; a stale copy is refused, and then or on
\* any failure nothing else is done.
AddFinalizer ==
  LET added == [store EXCEPT !.finalizer = TRUE]
  IN /\ pass.pc = "addFinalizer"
     /\ \/ /\ ~pass.fresh
           /\ Stop("error")
           /\ UNCHANGED <<versions, spent>>
        \/ /\ Spend("faults")
           /\ Stop("error")
           /\ \/ UNCHANGED versions
              \/ pass.fresh /\ Write(added)
        \/ /\ pass.fresh
           /\ Write(added)
           /\ Plan([pass EXCEPT !.obj = added], queued)
     /\ UNCHANGED remote

\* onNewObject: no id is recorded, so the identity is looked up.
OnNewObject ==
  LET found == Find(pass.ref, pass.obj.spec)
      pin == pass.obj.pin
      bind(id) == Goto([pass EXCEPT !.pc = "mark", !.target = id])
      settle(reason) ==
        Conclude(Verdict(pass, pass.obj.gen, "terminal", reason), "none", queued)
  IN /\ pass.pc = "find"
     /\ \/ /\ Spend("faults")
           /\ \E code \in FaultCodes : OnAdapterError(pass, Failure(code))
        \/ /\ UNCHANGED spent
           /\ \/ pin # NoId /\ pin \in found /\ bind(pin)
              \/ pin # NoId /\ pin \notin found /\ settle("SigNozResourceIDMismatch")
              \/ pin = NoId /\ \E id \in found : found = {id} /\ bind(id)
              \/ pin = NoId /\ found = {} /\ bind(NoId)
              \/ /\ pin = NoId /\ found # {} /\ \A id \in found : found # {id}
                 /\ settle("Ambiguous")
     /\ UNCHANGED <<versions, remote>>

\* A faulty patch whose content never reaches the API server.
MarkedInMemoryOnly(o) == o

Marked(o) == [o EXCEPT !.attempt = TRUE]

\* The annotation patch, shared by create and adopt.  It carries no
\* resourceVersion, so it lands on whatever the API server holds; the
\* timestamp makes it a change unless one was written this very second.
\* The answer refreshes the whole object in memory; one that is lost leaves
\* the copy outdated.
AddCreateAttemptAnnotation ==
  LET marked == Marked(store)
      mem == Refresh(marked, pass.obj)
      patched == Write(marked) \/ (store.attempt /\ UNCHANGED versions)
  IN /\ pass.pc = "mark"
     /\ \/ /\ ~store.exists
           /\ Conclude(pass, "error", queued)
           /\ UNCHANGED <<versions, remote, spent>>
        \/ /\ Spend("faults")
           /\ \/ UNCHANGED versions /\ Conclude(pass, "error", queued)
              \/ /\ store.exists /\ Write(marked)
                 /\ Conclude(Outdated(pass), "error", queued)
           /\ UNCHANGED remote
        \/ /\ store.exists
           /\ patched
           /\ pass.target = NoId
           /\ Goto([pass EXCEPT !.obj = mem, !.fresh = TRUE, !.pc = "create"])
           /\ UNCHANGED <<remote, spent>>
        \/ /\ store.exists
           /\ patched
           /\ pass.target # NoId
           /\ Goto([pass EXCEPT !.obj = [mem EXCEPT !.status.id = pass.target],
                                !.fresh = TRUE, !.pc = "read", !.target = NoId])
           /\ remote' = [remote EXCEPT ![pass.target].mine = TRUE]
           /\ UNCHANGED spent

\* create, once the attempt is on record: the POST of the body as it is now.
\* A spec edited into NoIdent meanwhile does not render, or renders without an
\* identity and is refused.
Create ==
  LET s == pass.obj.spec
      new(id, state) == remote' = [remote EXCEPT ![id] = Posted(pass.ref, s, state, TRUE)]
      created(id) ==
        [pass EXCEPT !.obj.status =
           SetConditionsOnOutcome([@ EXCEPT !.id = id, !.hash = pass.hash],
                                  pass.gen, "synced", "Created")]
      fail(e) ==
        IF IsRetryable(e)
        THEN OnAdapterError(pass, e)
        ELSE Goto([pass EXCEPT !.pc = "dropRejected", !.err = e])
      clash == Unique /\ Find(pass.ref, s) # {}
  IN /\ pass.pc = "create"
     /\ \/ /\ s.ident = NoIdent
           /\ fail("Raw") \/ fail(NewFromHTTPResponse(400))
           /\ UNCHANGED <<remote, spent>>
        \/ /\ s.ident # NoIdent /\ s.body \in Refused
           /\ fail(NewFromHTTPResponse(400))
           /\ UNCHANGED <<remote, spent>>
        \/ /\ s.ident # NoIdent /\ clash
           /\ Goto([pass EXCEPT !.pc = "conflictFind"])
           /\ UNCHANGED <<remote, spent>>
        \/ /\ s.ident # NoIdent /\ s.body \notin Refused /\ ~clash
           /\ \E id \in NextIds : /\ new(id, "live")
                                  /\ Conclude(created(id), "later", queued)
           /\ UNCHANGED spent
        \/ /\ s.ident # NoIdent
           /\ Spend("faults")
           /\ \E code \in FaultCodes :
                /\ fail(Failure(code))
                /\ \/ UNCHANGED remote
                   \/ /\ MayHaveActed(code) /\ s.body \notin Refused /\ ~clash
                      /\ \E id \in NextIds :
                           new(id, "live") \/ (LateCommits /\ new(id, "pending"))
     /\ UNCHANGED versions

\* onConflict: the server says it exists, so it is looked up and adopted.
OnConflict ==
  LET found == Find(pass.ref, pass.obj.spec)
  IN /\ pass.pc = "conflictFind"
     /\ \/ /\ Spend("faults")
           /\ \E code \in FaultCodes : OnAdapterError(pass, Failure(code))
        \/ /\ UNCHANGED spent
           /\ \E id \in found : /\ found = {id}
                                /\ Goto([pass EXCEPT !.pc = "mark", !.target = id])
        \/ /\ UNCHANGED spent
           /\ found = {}
           /\ Conclude(Verdict(pass, pass.obj.gen, "recoverable", "BackendError"),
                       "later", queued)
        \/ /\ UNCHANGED spent
           /\ found # {} /\ \A id \in found : found # {id}
           /\ Conclude(Verdict(pass, pass.obj.gen, "terminal", "Ambiguous"),
                       "none", queued)
     /\ UNCHANGED <<versions, remote>>

\* What the patch makes of the API server's object.  The patch is computed on
\* the copy in memory: when the attempt was its only annotation the emptied map
\* is omitted, and the patch removes every annotation, a pin set meanwhile too.
ClearedForms ==
  LET cleared == [store EXCEPT !.attempt = FALSE]
  IN IF pass.obj.pin = NoId THEN {cleared, [cleared EXCEPT !.pin = NoId]}
                            ELSE {cleared}

\* The patch that takes the annotation off: after a create the server refused,
\* and before the first pass over a recorded id goes on to read the object.
PatchAttemptOff(cleared) ==
  LET p == [pass EXCEPT !.obj = Refresh(cleared, pass.obj), !.fresh = TRUE]
      patched == IF store # cleared THEN Write(cleared) ELSE UNCHANGED versions
  IN /\ pass.pc \in {"dropRejected", "dropAttempt"}
     /\ \/ /\ ~store.exists
           /\ Conclude(pass, "error", queued)
           /\ UNCHANGED <<versions, spent>>
        \/ /\ Spend("faults")
           /\ \/ UNCHANGED versions /\ Conclude(pass, "error", queued)
              \/ /\ store.exists /\ store # cleared /\ Write(cleared)
                 /\ Conclude(Outdated(pass), "error", queued)
        \/ /\ store.exists
           /\ patched
           /\ UNCHANGED spent
           /\ \/ pass.pc = "dropRejected" /\ OnAdapterError(p, pass.err)
              \/ pass.pc = "dropAttempt" /\ Goto([p EXCEPT !.pc = "read"])
     /\ UNCHANGED remote

RemoveCreateAttemptAnnotation ==
  \E cleared \in ClearedForms : PatchAttemptOff(cleared)

\* onExistingObject up to its verdict: read the object and compare.
OnExistingObject ==
  LET o == pass.obj
      id == o.status.id
      hashChanged == o.status.hash \notin {NoHash, pass.hash}
      drift == UpdatableFieldsDiffer(id, o.spec) \/ hashChanged
      settle(reason) ==
        Conclude(Verdict(pass, o.gen, "terminal", reason), "none", queued)
  IN /\ pass.pc = "read"
     /\ \/ /\ Spend("faults")
           /\ \E code \in FaultCodes : OnAdapterError(pass, Failure(code))
           /\ UNCHANGED remote
        \/ /\ ~Live(id, pass.ref)
           /\ Conclude(Verdict([pass EXCEPT !.obj.status.id = NoId,
                                            !.obj.status.hash = NoHash],
                               o.gen, "pending", "Pending"), "later", queued)
           /\ UNCHANGED <<remote, spent>>
        \/ /\ Live(id, pass.ref)
           /\ UNCHANGED spent
           /\ \/ o.spec.ident = NoIdent /\ settle("CompareFailed") /\ UNCHANGED remote
              \/ /\ o.spec.ident # NoIdent
                 /\ ImmutableFieldsDiffer(id, o.spec)
                 /\ settle("ImmutableFieldChanged")
                 /\ UNCHANGED remote
              \/ /\ o.spec.ident # NoIdent
                 /\ ~ImmutableFieldsDiffer(id, o.spec)
                 /\ drift
                 /\ Goto([pass EXCEPT !.pc = "update"])
                 /\ UNCHANGED remote
              \/ /\ o.spec.ident # NoIdent
                 /\ ~ImmutableFieldsDiffer(id, o.spec)
                 /\ ~drift
                 /\ Conclude(Verdict([pass EXCEPT !.obj.status.hash = pass.hash],
                                     o.gen, "synced", "Synced"), "later", queued)
                 /\ remote' = [remote EXCEPT ![id].touched = FALSE]
     /\ UNCHANGED versions

\* The PUT; a body with no updatable field sends nothing and still succeeds.
Update ==
  LET s == pass.obj.spec
      id == pass.obj.status.id
      sends == ~(IdentityImmutable /\ s.body \in Unsendable)
      clash == /\ Unique /\ ~IdentityImmutable
               /\ Find(pass.ref, s) \ {id} # {}
      accepted == Live(id, pass.ref) /\ s.body \notin Refused /\ ~clash
      put == remote' = [remote EXCEPT ![id] = Updated(id, s)]
      done == Conclude(Verdict([pass EXCEPT !.obj.status.hash = pass.hash],
                               pass.obj.gen, "synced", "Updated"), "later", queued)
  IN /\ pass.pc = "update"
     /\ \/ /\ ~sends /\ done /\ UNCHANGED spent
           /\ remote' = [remote EXCEPT ![id].touched = FALSE]
        \/ sends /\ accepted /\ put /\ done /\ UNCHANGED spent
        \/ /\ sends /\ ~Live(id, pass.ref)
           /\ OnAdapterError(pass, NewFromHTTPResponse(404))
           /\ UNCHANGED <<remote, spent>>
        \/ /\ sends /\ Live(id, pass.ref) /\ s.body \in Refused
           /\ OnAdapterError(pass, NewFromHTTPResponse(400))
           /\ UNCHANGED <<remote, spent>>
        \/ /\ sends /\ Live(id, pass.ref) /\ clash
           /\ OnAdapterError(pass, NewFromHTTPResponse(409))
           /\ UNCHANGED <<remote, spent>>
        \/ /\ sends
           /\ Spend("faults")
           /\ \E code \in FaultCodes :
                /\ OnAdapterError(pass, Failure(code))
                /\ \/ UNCHANGED remote
                   \/ MayHaveActed(code) /\ accepted /\ put
     /\ UNCHANGED versions

\* Status().Update at the end of Reconcile: refused when the copy is stale.
UpdateStatus ==
  LET reported == [store EXCEPT !.status = pass.obj.status]
  IN /\ pass.pc = "status"
     /\ \/ /\ ~pass.fresh
           /\ Stop("error")
           /\ UNCHANGED <<versions, spent>>
        \/ /\ Spend("faults")
           /\ Stop("error")
           /\ \/ UNCHANGED versions
              \/ pass.fresh /\ Write(reported)
        \/ /\ pass.fresh
           /\ Write(reported)
           /\ Stop(pass.again)
           /\ UNCHANGED spent
     /\ UNCHANGED remote

-----------------------------------------------------------------------------
(* finalize, for a CR that is being deleted *)

\* An unconfirmed create or adopt is resolved by identity.
FinalizeFind ==
  LET found == Find(pass.ref, pass.obj.spec)
  IN /\ pass.pc = "finalizeFind"
     /\ \/ Spend("faults") /\ Stop("later")
        \/ /\ UNCHANGED spent
           /\ \/ found = {} /\ Goto([pass EXCEPT !.pc = "removeFinalizer"])
              \/ \E id \in found :
                   /\ found = {id}
                   /\ Goto([pass EXCEPT !.pc = "reclaim", !.target = id])
              \/ /\ found # {} /\ \A id \in found : found # {id}
                 /\ Stop("later")
     /\ UNCHANGED <<versions, remote>>

\* A faulty reclaim that insists on deleting the object itself.
AnyErrorFails(e) == e # NoError

\* An object already gone counts as deleted, any other failure is retried.
ReclaimFailed(e) == e \notin {NoError, "NotFound"}

\* reclaim: the DELETE, and the finalizer goes when it succeeded.
Reclaim ==
  LET live == Live(pass.target, pass.ref)
      answer == IF live THEN NoError ELSE NewFromHTTPResponse(404)
      gone == IF live
              THEN remote' = [remote EXCEPT ![pass.target].state = "gone"]
              ELSE UNCHANGED remote
  IN /\ pass.pc = "reclaim"
     /\ \/ /\ gone
           /\ IF ReclaimFailed(answer)
              THEN Stop("later")
              ELSE Goto([pass EXCEPT !.pc = "removeFinalizer"])
           /\ UNCHANGED spent
        \/ /\ Spend("faults")
           /\ Stop("later")
           /\ \E code \in FaultCodes :
                UNCHANGED remote \/ (MayHaveActed(code) /\ gone)
     /\ UNCHANGED versions

\* The CR goes: what it left in SigNoz is nobody's from here on.
Release == remote' = [id \in Ids |-> [remote[id] EXCEPT !.mine = FALSE]]

\* Update without the finalizer; the API server then drops the CR.
RemoveFinalizer ==
  /\ pass.pc = "removeFinalizer"
  /\ \/ /\ ~pass.fresh
        /\ Stop("error")
        /\ UNCHANGED <<versions, remote, spent>>
     \/ /\ Spend("faults")
        /\ Stop("error")
        /\ \/ UNCHANGED <<versions, remote>>
           \/ pass.fresh /\ Write(Absent) /\ Release
     \/ /\ pass.fresh
        /\ Write(Absent)
        /\ Release
        /\ Stop("none")
        /\ UNCHANGED spent

-----------------------------------------------------------------------------
(* The environment: the user, the cluster, other writers to SigNoz *)

Apply(s) ==
  /\ ~store.exists
  /\ Spend("edits")
  /\ Write([Absent EXCEPT !.exists = TRUE, !.gen = 1, !.spec = s])
  /\ Overtaken
  /\ UNCHANGED <<queued, timer, remote>>

Edit(s) ==
  /\ store.exists /\ store.spec # s
  /\ Spend("edits")
  /\ Write([store EXCEPT !.spec = s, !.gen = @ + 1])
  /\ Overtaken
  /\ UNCHANGED <<queued, timer, remote>>

\* The signoz-resource-id annotation is set; metadata moves no generation.
Pin(id) ==
  /\ store.exists /\ store.pin # id
  /\ Spend("edits")
  /\ Write([store EXCEPT !.pin = id])
  /\ Overtaken
  /\ UNCHANGED <<queued, timer, remote>>

\* A finalizer turns the deletion into a mark on the object.
Delete ==
  /\ store.exists /\ ~store.deleting
  /\ Write(IF store.finalizer
           THEN [store EXCEPT !.deleting = TRUE, !.gen = @ + 1]
           ELSE Absent)
  /\ Overtaken
  /\ UNCHANGED <<queued, timer, remote, spent>>

\* A restore from a backup that holds no status.
LoseStatus ==
  /\ store.exists /\ store.status # NoStatus
  /\ Spend("losses")
  /\ Write([store EXCEPT !.status = NoStatus])
  /\ Overtaken
  /\ UNCHANGED <<queued, timer, remote>>

\* The watch delivers the next version, and every event queues the key.
Deliver ==
  /\ Len(versions) > 1
  /\ versions' = Tail(versions)
  /\ queued' = TRUE
  /\ UNCHANGED <<timer, pass, remote, spent>>

Tick ==
  /\ timer
  /\ timer' = FALSE
  /\ queued' = TRUE
  /\ UNCHANGED <<versions, pass, remote, spent>>

\* A provider config the CR names was reconciled: its referrers are queued.
Nudge ==
  /\ Spend("nudges")
  /\ queued' = TRUE
  /\ UNCHANGED <<versions, timer, pass, remote>>

\* The operator dies and restarts: it relists, and queues what it lists.
Crash ==
  /\ Spend("crashes")
  /\ versions' = <<store>>
  /\ queued' = TRUE
  /\ timer' = FALSE
  /\ pass' = Idle
  /\ UNCHANGED remote

\* Someone else creates an object, edits one or deletes one in SigNoz.
MeddleCreate(s) ==
  /\ s.ident # NoIdent /\ s.body \notin Refused
  /\ Unique => Find(s.ref, s) = {}
  /\ Spend("meddles")
  /\ \E id \in NextIds :
       remote' = [remote EXCEPT ![id] = Posted(s.ref, s, "live", FALSE)]
  /\ UNCHANGED <<versions, queued, timer, pass>>

MeddleEdit(id, b) ==
  /\ remote[id].state = "live" /\ remote[id].body # b /\ b \notin Refused
  /\ Spend("meddles")
  /\ remote' = [remote EXCEPT ![id].body = b, ![id].touched = TRUE]
  /\ UNCHANGED <<versions, queued, timer, pass>>

MeddleDelete(id) ==
  /\ remote[id].state = "live"
  /\ Spend("meddles")
  /\ remote' = [remote EXCEPT ![id].state = "gone", ![id].touched = TRUE]
  /\ UNCHANGED <<versions, queued, timer, pass>>

\* A POST that timed out at the operator commits, or is dropped, at last.
Commit(id) ==
  /\ remote[id].state = "pending"
  /\ \E state \in {"live", "gone"} :
       /\ state = "live" /\ Unique => Find(remote[id].ref, remote[id]) = {}
       /\ remote' = [remote EXCEPT ![id].state = state]
  /\ UNCHANGED <<versions, queued, timer, pass, spent>>

-----------------------------------------------------------------------------
Pass ==
  \/ Reconcile \/ AddFinalizer \/ OnNewObject \/ AddCreateAttemptAnnotation
  \/ Create \/ OnConflict \/ RemoveCreateAttemptAnnotation
  \/ OnExistingObject \/ Update \/ UpdateStatus
  \/ FinalizeFind \/ Reclaim \/ RemoveFinalizer

User ==
  \/ \E s \in Specs : Apply(s) \/ Edit(s)
  \/ \E id \in Pins : Pin(id)
  \/ Delete
  \/ LoseStatus

Others ==
  \/ \E s \in Specs : MeddleCreate(s)
  \/ \E id \in Ids, b \in Bodies : MeddleEdit(id, b)
  \/ \E id \in Ids : MeddleDelete(id) \/ Commit(id)

Next == Pass \/ Deliver \/ Tick \/ User \/ Others \/ Nudge \/ Crash

Spec == Init /\ [][Next]_vars

\* The worker, the watch and the delaying queue go on running; the user, the
\* other writers and the failures owe nothing.
FairSpec ==
  /\ Spec
  /\ WF_vars(Pass)
  /\ WF_vars(Deliver)
  /\ WF_vars(Tick)

-----------------------------------------------------------------------------
(* Properties *)

TypeOK ==
  /\ versions \in Seq(Objects) /\ versions # <<>>
  /\ queued \in BOOLEAN
  /\ timer \in BOOLEAN
  /\ pass \in Passes
  /\ remote \in [Ids -> RemoteObjects]
  /\ spent \in [Spends -> Nat]

\* When create issues its POST, the API server already holds the finalizer and
\* the create-attempt annotation, whatever edits, deletions and stale caches
\* came in between: nothing is ever created that finalize would not look for.
WriteAhead ==
  pass.pc = "create" => store.exists /\ store.finalizer /\ store.attempt

\* The object carries the finalizer; it does and is not being deleted.
Held(o) == o.exists /\ o.finalizer
BoundLive(o) == Held(o) /\ ~o.deleting

\* Behind a version that carries the finalizer come only such versions, and
\* behind one being deleted none that is not, as long as the cache lags: what
\* a worker reads of a stale copy is still a bound on the API server's object.
FinalizerStays ==
  \A i, j \in 1..Len(versions) :
    i < j /\ BoundLive(versions[i]) => Held(versions[j])
DeletionStays ==
  \A i, j \in 1..Len(versions) :
    i < j /\ versions[i].exists /\ versions[i].deleting
      => ~BoundLive(versions[j])

\* What the worker's position tells of the API server's object: a pass over a
\* live CR runs under the finalizer, a finalizing one over no live version, a
\* POST behind its annotation.
LiveHeld == pass.pc \in LivePcs => Held(store)
FinalizingGone ==
  pass.pc \in FinalizePcs => \A i \in 1..Len(versions) : ~BoundLive(versions[i])
AddedFresh ==
  pass.pc = "addFinalizer" /\ pass.fresh
    => Len(versions) = 1 /\ store.exists /\ ~store.deleting
AttemptOnRecord == pass.pc = "create" => store.attempt

\* Reconcile's early return when addFinalizer fails, the resourceVersion check
\* on the finalizer updates and the order of create together keep WriteAhead:
\* this is its inductive form.
Inductive ==
  /\ FinalizerStays
  /\ DeletionStays
  /\ LiveHeld
  /\ FinalizingGone
  /\ AddedFresh
  /\ AttemptOnRecord

\* Every live object a create or an adopt bound to the CR is named by its
\* status or announced by the annotation: "clearing it now would open a window
\* where neither record names the object" (create), and finalize's reading of
\* a CR with neither is that nothing exists to reclaim.
BindingKnown ==
  \A id \in Ids :
    remote[id].state = "live" /\ remote[id].mine
      => store.exists /\ (store.status.id = id \/ store.attempt)

\* Retried creates, lost answers and stale caches never leave the CR with two
\* live objects in SigNoz.
AtMostOneObject ==
  \A i, j \in Ids :
    /\ remote[i].state = "live" /\ remote[i].mine
    /\ remote[j].state = "live" /\ remote[j].mine
    => i = j

\* No pass, no queued key and no event to deliver; a timer may be running.
AtRest == pass.pc = "idle" /\ ~queued /\ Len(versions) = 1

\* Whenever the operator comes to rest, a status that says synced is true of
\* the present generation and of SigNoz: the recorded object is live in the
\* backend the spec names, carries its identity and shows its body, unless
\* another writer changed it since the operator last found or made it right.
\* Passes over stale copies may PUT an older body, but never as the last word.
RestMeansConverged ==
  LET st == store.status
  IN /\ AtRest
     /\ store.exists /\ ~store.deleting
     /\ st.outcome = "synced" /\ ~remote[st.id].touched
     => /\ st.gen = store.gen
        /\ Live(st.id, store.spec.ref)
        /\ remote[st.id].ident = store.spec.ident
        /\ Shown[remote[st.id].body] = Shown[store.spec.body]

\* The operator never goes to sleep on unfinished work: when it is at rest and
\* no timer runs, the CR is not being deleted, and its status gives a terminal
\* or suspended verdict on its present generation.
NeverStranded ==
  AtRest /\ ~timer /\ store.exists
    => /\ ~store.deleting
       /\ store.status.outcome \in {"terminal", "suspended"}
       /\ store.status.gen = store.gen

\* A body with no updatable field shows a read nothing that could differ: the
\* empty update that answers a drift then never stands for a repair.
UnsentUnseen ==
  IdentityImmutable
    => \A b \in Unsendable, c \in Bodies : Shown[b] = Shown[c]

\* No event is due and the key is not queued.  Once a write or an event breaks
\* this, only the start of the next pass restores it, so a quiet pass is one
\* that nothing has overtaken since it began.
Quiet == ~queued /\ Len(versions) = 1

\* A quiet pass works on what the API server holds.
Deciding == LivePcs \ {"status"}
Undisturbed ==
  pass.pc \in Deciding /\ Quiet
    => /\ ~store.deleting
       /\ pass.obj.gen = store.gen /\ pass.obj.spec = store.spec
       /\ pass.ref = store.spec.ref
       /\ pass.before = store.status
       /\ pass.obj.status.hash = store.status.hash
CreatesUnrecorded ==
  pass.pc \in {"find", "mark", "create", "conflictFind", "dropRejected"} /\ Quiet
    => store.status.id = NoId
RepairsItsOwn ==
  LET id == pass.obj.status.id
  IN pass.pc = "update" /\ Quiet
       => /\ id \in Ids /\ remote[id].state # "unborn"
          /\ IdentityImmutable => remote[id].ident = store.spec.ident
          /\ /\ IdentityImmutable /\ store.spec.body \in Unsendable
             /\ UnsentUnseen
             => pass.hash # store.status.hash
FinalizesDeleted == pass.pc \in FinalizePcs /\ Quiet => store.deleting

\* What is being deleted carries the finalizer; what was made has a body.
DeletionHeld == store.exists /\ store.deleting => store.finalizer
MadeOfBodies ==
  \A id \in Ids : remote[id].state # "unborn" => remote[id].body \in Bodies

\* RestMeansConverged, and that a synced status names an object at all.
RestNamesObject ==
  LET st == store.status
  IN /\ UnsentUnseen /\ AtRest
     /\ store.exists /\ ~store.deleting /\ st.outcome = "synced"
     => st.id \in Ids /\ remote[st.id].state # "unborn"

\* The operator comes to rest only through a quiet pass that found its status
\* already said what it was about to say: the inductive form of NeverStranded
\* and of RestMeansConverged.
RestInductive ==
  /\ Undisturbed
  /\ CreatesUnrecorded
  /\ RepairsItsOwn
  /\ FinalizesDeleted
  /\ DeletionHeld
  /\ MadeOfBodies
  /\ NeverStranded
  /\ RestNamesObject
  /\ UnsentUnseen => RestMeansConverged

\* The objects a create or an adopt bound to the CR.
Bound == {id \in Ids : remote[id].state = "live" /\ remote[id].mine}

\* The CR keeps to one backend and one identity, is never pinned, and no POST
\* commits after the operator gave up on its answer.
OneMirror ==
  /\ \A s, t \in Specs :
       s.ref = t.ref /\ (NoIdent \in {s.ident, t.ident} \/ s.ident = t.ident)
  /\ Pins = {}
  /\ ~LateCommits

\* Then whatever was made carries that identity, so every lookup finds it.
Unpinned ==
  pass.obj.pin = NoId /\ \A i \in 1..Len(versions) : versions[i].pin = NoId
OneBackend ==
  pass.ref = AnySpec.ref /\ \A id \in Ids : remote[id].ref = AnySpec.ref
OneName ==
  \A id \in Ids : remote[id].state # "unborn" =>
    /\ remote[id].state # "pending"
    /\ \A s \in Specs : s.ident \in {NoIdent, remote[id].ident}
NamedPass == pass.pc \in {"find", "update"} => pass.obj.spec.ident # NoIdent

\* What a lookup said stays true of the CR's own objects until the POST or the
\* adopt it led to: NoId, no object's id, is the target of a create.
LookedUp ==
  /\ pass.pc = "mark" => Bound \subseteq {pass.target}
  /\ pass.pc \in {"create", "conflictFind", "dropRejected"} => Bound = {}

\* Each create is decided by a lookup that would have found what an earlier one
\* left: the inductive form of AtMostOneObject.
SingleInductive ==
  /\ Unpinned
  /\ OneBackend
  /\ OneName
  /\ NamedPass
  /\ LookedUp
  /\ AtMostOneObject

\* A step in which nobody else deletes an object or loses the status, and one
\* in which nobody else makes an object either.
Undeleted == ~LoseStatus /\ \A id \in Ids : ~MeddleDelete(id)
Alone == Undeleted /\ \A s \in Specs : ~MeddleCreate(s)

\* What is bound is held by the finalizer; what is not held accounts for nothing.
HoldAccounts ==
  /\ Bound # {} => Held(store)
  /\ ~Held(store) => ~store.attempt /\ store.status.id = NoId
HoldsOnce == pass.pc = "addFinalizer" /\ pass.fresh => ~store.finalizer

\* A recorded id names a bound object, in the API server while a pass over a
\* live CR runs, and in every version such a pass may still start from.
RecordedBound ==
  Bound # {} \/ pass.pc \in LivePcs => store.status.id \in {NoId} \cup Bound
CachedBound ==
  \A i, j \in 1..Len(versions) :
    i <= j /\ BoundLive(versions[i])
      => /\ versions[j].status.id \in {NoId} \cup Bound
         /\ versions[i].status.id # NoId => versions[j].status.id # NoId

\* What a pass over a live CR holds in memory of the binding.
PassBound ==
  LET id == pass.obj.status.id
  IN pass.pc \in LivePcs =>
       /\ id \in {NoId} \cup Bound
       /\ pass.fresh /\ store.status.id # NoId => id # NoId
       /\ pass.fresh /\ store.status.id # id => store.attempt
       /\ pass.pc \in {"read", "update", "dropAttempt"} => id # NoId
       /\ pass.pc = "dropAttempt" => store.status.id # NoId
       /\ pass.pc = "mark" /\ pass.target # NoId
            => remote[pass.target].state = "live"

\* The annotation goes up before the POST and comes down only behind a durable
\* id: the inductive form of BindingKnown.
BindingInductive ==
  /\ HoldAccounts
  /\ HoldsOnce
  /\ RecordedBound
  /\ CachedBound
  /\ PassBound
  /\ BindingKnown

\* Every spec has an identity and asks for the deletion of what it made.
Reclaims == \A s \in Specs : s.ident # NoIdent /\ s.reclaimPolicy = "Delete"

\* What finalize knows before the finalizer goes, when every object in SigNoz is
\* the CR's: the inductive form of the ledger's Release.
LiveIsMine == \A id \in Ids : remote[id].state = "live" => remote[id].mine
ReleaseInductive ==
  /\ LiveIsMine
  /\ pass.pc \in FinalizePcs /\ pass.fresh => Held(store)
  /\ pass.pc = "reclaim" /\ pass.fresh => Bound \subseteq {pass.target}
  /\ pass.pc = "removeFinalizer" /\ pass.fresh => Bound = {}

\* The spec is one the operator can carry out.
Wanted ==
  /\ store.exists /\ ~store.deleting
  /\ ~store.spec.suspend /\ store.spec.ident # NoIdent
  /\ store.spec.body \notin Refused

\* SigNoz shows what the spec says, and the status says so.
Mirrored ==
  LET st == store.status
  IN /\ st.outcome = "synced" /\ st.gen = store.gen
     /\ Live(st.id, store.spec.ref)
     /\ remote[st.id].ident = store.spec.ident
     /\ Shown[remote[st.id].body] = Shown[store.spec.body]

\* Once edits, failures and other writers pause, a CR that can be carried out
\* ends up mirrored and stays so: no pass forgets to requeue itself.
Converges == <>[](Wanted => Mirrored)

\* A deleted CR leaves the cluster: the finalizer never waits forever.
DeletionCompletes == store.deleting ~> ~store.exists

\* The ledger of CreateLedger, as the API server and SigNoz hold it.
Ledger == INSTANCE CreateLedger WITH
  held <- Held(store), announced <- store.attempt, recorded <- store.status.id,
  made <- Bound

\* Through lost answers, stale caches, conflicts and crashes, every step of the
\* reconciler is one the ledger allows, or none: finalize and the next create
\* may rely on what the resource says of itself.
LedgerKept == Ledger!Spec

-----------------------------------------------------------------------------
(* What the documentation and the comments claim and the code does not keep *)

\* docs/core-status.md: Terminal is a stable state, "the reconciler settles
\* here and does not requeue": a CR that stays terminal stops being created.
TerminalSettles ==
  <>[](store.exists /\ store.status.outcome = "terminal")
    => <>[](pass.pc # "create")

\* docs/idempotency.md: the operator "never issues a second create while a
\* previous outcome is unknown".
NoSecondCreate ==
  pass.pc = "create" =>
    \A id \in Ids : ~(remote[id].state = "pending" /\ remote[id].mine)

\* docs/core-status.md: a spec edit to a field reads leave out is invisible to
\* the compare, and "the hash is what catches that edit and forces the write".
HiddenEditsArrive ==
  <>[](Wanted => \E id \in Ids : /\ Live(id, store.spec.ref)
                                 /\ remote[id].body = store.spec.body)

\* api/resources/v1alpha1/core.go: the pin is "read whenever status holds no
\* id", so reclaim never deletes an object other than the pinned one.
PinRespected ==
  [][ \A id \in Ids :
        /\ remote[id].state = "live" /\ remote'[id].state = "gone"
        /\ pass' # pass /\ pass.obj.status.id = NoId
        => pass.obj.pin \in {NoId, id} ]_vars

=============================================================================
