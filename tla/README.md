# A verification of signoz-operator

`signoz-operator` mirrors Kubernetes custom resources (CRs: `Rule`, `Dashboard`,
`User`, ...) into SigNoz backends over HTTP. This directory models the operator
in TLA+, checks the models with TLC on small instances and proves, with TLAPS,
what can be proved for every instance. `PROJECT.json` lists the components, the
runs, the lines each definition stands for, the hazards and the findings.

## The system

| Part | Source | State it keeps | Operations |
|------|--------|----------------|------------|
| Resource reconciler | `internal/resources/reconcilers/common_reconciler.go` | none of its own: the CR's finalizer, create-attempt annotation and status; the pass in memory | reconcile, onNewObject, onExistingObject, onConflict, create, adopt, finalize, reclaim |
| Conditions, reasons | `internal/resources/condition.go`, `reason.go` | the CR's conditions | render an outcome or an error |
| Errors | `internal/errors` | none | classify an error or an HTTP status |
| Adapters, client | `internal/resources/adapters`, `internal/clients` | none; act on SigNoz's objects | create, read, update, delete, find (one list, or page by page) |
| Generated objects | `internal/resources/objects` | none | body, identity, hash, update payload, compare |
| Generated types | `api/resources/v1alpha1/zz_generated_*_types.go` | the CR's spec | decoded by the API server's rules, encoded by `json.Marshal` |
| JSON bodies | `internal/jsonbody` | none | render, hash, diff, extract |
| Controllers, watches | `internal/controller/resources` | work queue, indexes | fetch a CR, map events to keys |
| Provider configs | `internal/providerconfig` | a config's Ready condition and observed reference versions | resolve, reconcile |
| Start-up | `cmd`, `internal/config` | flags, environment | validate them, scope the cache, wire each kind to its adapter |

They interact like this. The API server holds each CR; a watch fills the
informer cache some time later and queues the CR's key. One worker at a time
takes a key, reads the CR *from the cache*, and runs one pass: Kubernetes writes
(finalizer update, annotation patches, status update) interleaved with HTTP
requests to the backend the CR's provider config names. An update carries the
resourceVersion of the copy it was made from and is refused when the CR moved;
a patch carries none and lands on whatever is there, and its answer replaces the
copy in memory. A pass ends with nothing, a requeue after a delay, or an error
the queue backs off on. Every accepted write is a watch event that queues the
key again, because the controllers set no predicates.

What is hard here: the pass reads a stale copy; users edit and delete between
any two of its steps; other writers change SigNoz; a request may be carried out
although its answer is lost, even after a retry; the process may die between
two steps; the record of a create (annotation, then status id) is spread over
several writes; and whether the CR is ever looked at again depends on which
write, timer or error comes last. Below that lies the data: what is drift
depends on which fields a kind may update, on how Go encodes a zero value and on
what SigNoz fills in, for some 800 fields of ten kinds; and a list is walked
page by page while it changes.

## Modules

`Errors` is `internal/errors`: an error value is its reason, `NewFromHTTPResponse`
and `IsRetryable` are the functions of those names.

`Conditions` is `internal/resources/condition.go` and `reason.go`. All five
conditions are functions of the outcome and the reason of the last verdict, so
the status keeps these two.

`CommonReconciler` is the reconciler with its surroundings, for one CR.

| Variable | Stands for |
|----------|------------|
| `versions` | the CR's history as far as the cache is behind: `cache` is its head, `store` (the API server) its last |
| `queued`, `timer` | the key in the work queue; a pending RequeueAfter |
| `pass` | the worker: its step `pc`, the copy in memory `obj`, whether that copy is the API server's (`fresh`: its resourceVersion), the status before the pass, and the hash, generation and client the code takes once, at the start |
| `remote` | SigNoz's objects by id; the ghost fields `mine` (a create or an adopt of this CR bound it) and `touched` (another writer changed it since the operator last looked) serve the properties only |
| `spent` | how often each kind of environment event happened |

There is one action per Kubernetes write or HTTP exchange, holding all of the
code up to the next one: `Reconcile` (fetch, and every decision up to the first
request: `Plan`, `Finalize`), `AddFinalizer`, `OnNewObject` (Find),
`AddCreateAttemptAnnotation` (in create and in adopt), `Create` (POST),
`OnConflict` (Find after a 409), `RemoveCreateAttemptAnnotation`,
`OnExistingObject` (GET and compare), `Update` (PUT), `UpdateStatus`,
`FinalizeFind`, `Reclaim` (DELETE), `RemoveFinalizer`. Each may fail; a request
that got no answer, or a 5xx, may have been carried out. The environment is the
user (`Apply`, `Edit`, `Pin`, `Delete`, `LoseStatus`), the watch and the queue
(`Deliver`, `Tick`, `Nudge`), other writers (`MeddleCreate`, `MeddleEdit`,
`MeddleDelete`), a POST that commits late (`Commit`) and `Crash`.

A body is an atom; `Shown` says which part of it a read answers with (a kind may
store fields it does not return), `Refused` which bodies the server answers 400
to, `Unsendable` which ones hold no updatable field, so that `ToUpdate` renders
nil. `Unique` and `IdentityImmutable` pick the kind of kind. A spec with `NoIdent`
does not render, or renders without an identity; when an edit makes it so after
the pass began, the POST fails on it (before it is sent, or with a 400) and so does
the comparison. A success whose answer holds no id is, to the pass, the 5xx or lost
answer of a POST that was carried out. Time is left open: intervals and timeouts
only decide when a step comes.

A write by anyone, and a patch of the pass whose answer was lost, leave the copy
in memory outdated: `fresh` turns false, and later updates from it are refused.

`MCCommonReconciler` names the instances. The theorems are in four modules that
build on each other: `CommonReconciler_proofs` (types, write-ahead), `Rest_proofs`
(what the operator is done with when it rests), `Single_proofs` (one object at a
time) and `Ledger_proofs` (the record, and the refinement of `CreateLedger`).

`CreateLedger` is the abstract specification of the same resource, after
`docs/idempotency.md`: a record (finalizer, annotation, id) that is written
before SigNoz is and cleared after it. An object is made only behind an
announcement and beside no other, an announcement is withdrawn only when every
object is recorded, an id is dropped only when its object is gone, and the
resource leaves only when nothing is left. `CommonReconciler` implements it under
the mapping `held <- ` the stored CR has its finalizer, `announced <- ` its
annotation, `recorded <- ` its status id, `made <- ` the live objects it bound
(property `LedgerKept`).

`ProviderConfig` is the resolver, the provider-config reconciler with its two
controllers, and the watches that lead from a Secret or ConfigMap to the configs
that read it and from a config to the resources that name it. In
`CommonReconciler` this whole module is one spec field (`ref`) and one event
(`Nudge`).

| Variable | Stands for |
|----------|------------|
| `references`, `points` | the cached Secrets and ConfigMaps with their resourceVersions; the providerConfigRef of each cached resource |
| `store`, `cache`, `behind` | the configs in the API server and in the cache, and which of them the cache has yet to take |
| `events` | handler calls that are due: caches change before handlers run |
| `queued`, `retry` | keys in the work queues; keys waiting out a backoff or a retry interval |
| `pass` | per key, a resolution under way: the spec it was taken from, the references still to read, and those read (the `cache` struct of one Resolve) |
| `used` | what the last pass over each resource resolved its config to |

The actions are `ReconcileConfig` and `ReconcileResource` (the fetch; for a
resource also the Get of its config in ResolveRef), `ReadReference` (one up-front
read, in any order, which may fail), then `ReportUnmoved`, `UpdateStatus` or
`UpdateStatusFails` for a config and `UseConfig` for a resource; `Handle` and
`HandleFails` (requestsMatching), `Deliver`, `Resync`, `Retry`, `Crash`; and the
user's `WriteReference`, `ApplyConfig`, `DeleteConfig`, `PointResource`. `Resolve`
and its stages are operators on what the pass has read. A value is an atom;
which ones are URLs, hold a PEM certificate or shrink when trimmed is a constant.
Condition messages are left out (they are determined by the reason, the
generation and the versions), and so is what a resource does with its client:
its interval timers too, so that the watches alone must carry a rotation.
`MCProviderConfig` names the instances; the theorems are in
`ProviderConfig_proofs` (types, what a status says) and `Rotation_proofs` (the
way of a rotation to the status and on to the resources).

`FindByPage` is `findByPage` of `common_find.go`: one action per page fetched
(`FetchPage`, `FetchFails`), with entries added (`AddEntry`) and removed
(`RemoveEntry`) anywhere in the list between pages and a `total` that may
overcount. The list is each entry's position; `found` counts how often an entry
is among the matches. In `CommonReconciler` this walk is one atomic Find.
The server is assumed to fill its pages and to count at least the entries it has:
a `total` that is missing or too low, like a page without its list, ends the walk
early and without an error.
`MCFindByPage` names the instances, `FindByPage_proofs` holds the theorems.

The remaining modules are about data, and a behaviour of theirs about one field
of one kind:

* `JsonBody` is `internal/jsonbody` over JSON documents: `Diff` with its deep
  zeros, `Intersect`, `ExtractString`, `ExtractFields`, `Hash`. A document is flat,
  a function from every path in it (a sequence of keys) to what is there, so that
  nothing recurses over documents and the proofs can speak of any of them. An
  object only SigNoz has is judged by each of its parts, where the code reports the
  object itself: no caller tells the two apart, as fields are top-level keys. A
  scalar is zero or one of two values that differ in case.
* `Schema` describes a generated struct by its JSON keys (always written,
  `omitempty`, pointer; may it be zero) and has `Marshal` and `Render` (`TypeAt` is
  the type a path decodes into).
  `QueryTypes` and `ResourceTypes` hold one definition per generated struct;
  structs of the same shape in several kinds share it. CEL rules and enum values
  are left out: they only narrow the documents down.
* `Kinds` has, per kind, the generated object (path, identity field, updatable
  and immutable fields), the adapter's finder, the controller, and the wiring of
  `cmd/main.go` (`Served`).
* `Manager` is `cmd/config.go` and `internal/config`: flag over environment over
  default, the checks before the start, the namespaces of the cache, and the
  delays the reconciler derives.
* `MirroredObject` puts these together: the manager starts (`Start`), and passes
  create, recreate, compare and update one object (`RejectSpec`, `NotResolved`,
  `CreateObject`, `Recreate`, `ImmutableChanged`, `InSync`, `UpdateObject`),
  each one step, their interleavings being `CommonReconciler`'s. The object
  templates a user may write are a constant, `Templates`; `body` is what the present
  one renders to, on every call. Once in a behaviour
  something else happens: `Edit`, `Meddle`, `OtherDelete`, `ConfigChanges` or
  `BackendFails`. The theorems are in `MirroredObject_proofs`.
* `SampleDocuments` has the templates TLC uses: the least document a kind's type
  admits with one field, anywhere in it, set to each value or left out, as `spec`
  or as `jsonSpec` in two layouts. It recurses over the types, and only
  `MCMirroredObject`, which names the instances, uses it.

What these modules assume of SigNoz, which is not in the repository: a POST
stores the body, and fills in a field left out or not, with its zero value; a
PUT replaces the fields an update may change; a GET answers with what is stored
and an id.

## What is checked

| Run | Question | Instance |
|-----|----------|----------|
| Lifecycle | is what creates and retries leave in SigNoz recorded, unique and reclaimed, and does every step implement `CreateLedger`? | two bodies, cache up to two versions behind, two lost answers, two edits, one crash |
| Shapes | is a synced status true at rest, no POST unannounced and no CR stranded, for every shape of spec? | six specs (renamed, other backend with Orphan, refused, unrenderable, suspended), mutable unique identity, 401s |
| Adoption | is a synced status true at rest, and no CR stranded, with pins, adoption, lost statuses and late POSTs? | two pinnable ids, one foreign write, one status loss, one provider-config event |
| Liveness | does every CR converge, and every deletion complete, and is a synced status true at rest, with another writer? | FairSpec, two bodies, two edits, one foreign write, one lost answer |
| Rotation | is a config's status the truth at rest, and are the versions it records the ones it was made from? | a Secret and a ConfigMap of one name, three specs (sound, bad endpoint, missing key), two writes, one edit, one failed read or write |
| Cluster | does a rotation reach the resource? | a ClusterProviderConfig, Secrets of one name in two namespaces, one write, one deletion or re-creation, one change of ref, one crash |
| Replay | does it land in the end, and does a dropped event matter for good? | FairSpec with resync, a ProviderConfig, one write, one failed list |
| PageWalk | does the page walk end, and what can a changing list hide from it? | every list of up to five entries, two matching, one without id, pages of two, two changes, total up to two too high |
| Kinds | is drift in any field seen, repaired and never invented, is an object found again, is a CR ever forgotten or its config wrongly missing? | every path of all ten kinds under a plain install; ServiceAccount under all combinations of the flags, variables and CR settings that matter |

The properties of `CommonReconciler`:

* `WriteAhead`: no POST before the API server holds finalizer and annotation.
* `Inductive`, `RestInductive`, `SingleInductive`, `BindingInductive`,
  `ReleaseInductive`: the inductive invariants of the proofs (below).
* `BindingKnown`: every live object a create or adopt bound is named by the
  status or announced by the annotation.
* `AtMostOneObject`: retries never leave two live objects.
* `LedgerKept`: every step is a step of `CreateLedger` or leaves it alone; among
  them, the CR leaves the cluster only when nothing it bound is left.
* `RestMeansConverged`: at rest, synced means the present generation, the right
  backend, identity and visible body, unless another writer touched the object.
* `NeverStranded`: at rest without a timer, the CR is not being deleted and its
  verdict on the present generation is terminal or suspended.
* `Converges`, `DeletionCompletes`: liveness.

The properties of `ProviderConfig`:

* `RestMeansReported`: at rest, a config's status is the verdict on its present
  generation, with the present version of everything it reads.
* `StatusIsFingerprint`: at every moment, a status whose generation and versions
  are the present ones is right. This is what one reading per object buys.
* `RestMeansUsed`: at rest, a resource's last pass used what its config resolves
  to now, if every reference of the config is there.
* `RotationLands`: liveness, all of this in the end and for good, after dropped
  events and refused status writes (failed reads are in Rotation, without liveness).

The inductive invariant of their proofs, `UseInductive`, is proved below and in no
listed run. `Chain.cfg` (MCProviderConfig) checks it, from a missing Secret through
its write, an edit of the config and a failed read or write.

The properties of `FindByPage`:

* `GrowthMissesNothing`: while entries are only added, a finished walk has every
  match that was listed when it began: no second object is created. (A removal
  can hide a match: it pulls an entry from the next page onto one already read.)
* `ShrinkRepeatsNothing`: while entries are only removed, none is counted twice.
* `WalkEnds`: liveness, the walk ends however far total overcounts.

The properties of `MirroredObject`:

* `MirrorInductive`: the inductive invariant of the proofs. Among its parts,
  `QueuedInScope`: only a CR the cache holds is queued; `OursIsNamed`: what the
  operator wrote is bound and still goes by the template's name.
* `DriftSeen`: Synced means that no field of the schema, however deep, differs
  in meaning from the template.
* `RepairLands`: an update that sent something left the object as the template
  says, fields removed from the template included.
* `OwnWritesAreQuiet`: what the operator wrote is not drift on the next pass, nor
  is the same content in another form or layout.
* `FindsItsOwn`: a created object is found by its identity, for every kind: path,
  list key and field of adapter and object agree.
* `NeverForgotten`: a served CR has another pass ahead unless it is terminal,
  whatever the intervals, a zero default interval excepted.
* `ReadyIsResolved`: a config and Secret that exist are within the cache's reach,
  whatever the watched namespaces.

A config whose resolution fails is retried forever, so these properties count it
as at rest while it waits, unless a read or a write failed before.

Bounds. Three ids suffice: the CR's first object, a replacement and a foreign
one; no passing run runs out of them (a POST then has no step). `MaxLag` of two
puts the cache behind two writes at once, enough for every pair of the pass's
own writes and for a write of the pass after one of the user. The budgets
(faults, edits, meddles, crashes, losses, nudges) are small because each event
may fall between any two steps of any pass; the number of passes is not bounded.
For provider configs two references, or one and a resource, and two writes make
every pair of a read and a write meet; the runs are split by question because
the pending handler calls multiply the states. Pages of two and five entries
give walks of three pages, so that an entry can cross a boundary behind, at and
ahead of the walk, and changes can come on both sides of it. In Kinds, `Depth`
restricts edits, deletions, config changes and failures to the top-level fields;
every field of any depth is created with each of its values and changed in
SigNoz to each of its values. Forms and layouts that render to one body are told
apart for the top-level fields only; below, each body has one template.
Deadlock is not checked: with its budgets spent and the CR gone or settled, the
system rightly stops.

BindingKnown, AtMostOneObject and LedgerKept are checked for a fixed
identity and backend, without other writers, because the code does not keep them
otherwise: see RefusedEdit below, and the hazards at lines 149 and 477.
AtMostOneObject is checked where a lost POST commits at once or never, see
SecondCreate.

Fairness. Weak fairness of `Pass` (a worker that has a step takes it), `Deliver`
(the watch goes on) and `Tick` (a running timer fires) is what controller-runtime
gives. In `ProviderConfig` it is weak fairness of each key's worker steps and
retry, of each due handler call, of the watch and, in Replay, of the informers'
resync, which controller-runtime runs every ten hours by default; in
`FindByPage`, of the loop's next exchange, which its client's timeout ends. Nothing is
assumed of users, other writers, failures, crashes or late
commits; the budgets make failures finite, which stands for "from some point on
requests are answered".

### Where the code and its documentation part

Each of these runs ends in a counterexample, which is a behaviour of the code:

* HotLoop: a refused CR is POSTed forever, though `Terminal` is documented as a
  state in which the reconciler settles. The annotation's own writes requeue it.
* HiddenEdit: an edit to a field reads leave out, made during the first create,
  is recorded as sent and never is.
* UnsentRepair: a User or Role whose template holds no updatable field, changed
  in SigNoz: the drift is seen, the payload is nil, nothing is sent, and Updated
  is reported on every interval.

Four more configurations, for reading a trace and not among the listed runs, do
the same:

* `SecondCreate.cfg` (MCCommonReconciler): no grace period separates a lost POST
  from its repetition, against `docs/idempotency.md:61` and `:102`.
* `RefusedEdit.cfg` (MCCommonReconciler): a refused edit clears the annotation of
  an earlier create whose answer was lost, and a deletion then leaves that object
  behind, against the comment at `common_reconciler.go:458`.
* `PinnedReclaim.cfg` (MCCommonReconciler): deletion with an unconfirmed binding
  ignores the pin.
* `Defaulted.cfg` (MCMirroredObject): a NotificationChannel without displayName,
  which its type calls optional and SigNoz sets to the name, is created and then
  Terminal with ImmutableFieldChanged.

Others were met on the way. They are listed as hazards, and the passing runs
stay clear of them:

* A pass over a cached copy that holds the id of an object since replaced takes
  off the annotation of a newer create, which a crash left unrecorded: the object
  is then on no record (needs a lagging cache, a deletion by another writer and a
  crash).
* A Secret a config misses is created and deleted again between two passes over
  the config. Its status says SecretNotFound before and after and is not written;
  but a resource whose pass fell into the meantime has resolved the config, and as
  the status is what calls resources back, nobody tells it. It goes on with the
  withdrawn credential until its interval is over. `RestMeansUsed` therefore speaks
  of configs with all their references.
* A provider config held in deletion by a finalizer serves its resources, but
  its controller ignores it, so a rotation of its Secret reaches them only at
  their next interval.
* A user whose email SigNoz lists in another case is adopted, because Find folds
  case, and is at once Terminal, because Compare does not.
* A `jsonSpec` field the operator does not know is part of the create and of no
  update.
* A pin set during a pass can be lost. Taking the create-attempt annotation off
  when memory holds no other empties the map, whose JSON is omitted, and the merge
  patch then removes all annotations of the live CR (`ClearedForms`, in Adoption).
  The pass after it runs as if no pin had been set.

## What is proved

All theorems hold for every value of the constants that satisfies the named
assumptions, with no bound on ids, versions, configs, edits, failures or
restarts. The assumptions say that sets of names are disjoint where they must be
and that specs have the fields of their Go types: `IdsAssumption`,
`SpecsAssumption`, `SettingsAssumption` in `CommonReconciler`; `KeysAssumption`,
`SpecsAssumption`, `ValuesAssumption`, `BudgetAssumption` in `ProviderConfig`;
`WalkAssumption` in `FindByPage`; `CasesAssumption` in `MirroredObject` (a kind that
is served, a ref of one of two kinds, intervals that are numbers). A run of each module evaluates them.

| Theorem | States | Under |
|---------|--------|-------|
| `TypeCorrect` (both) | `Spec => []TypeOK` | |
| `InductiveHolds`, `WriteAheadHolds` | no POST unannounced | |
| `RestInductiveHolds`, `NeverStrandedHolds` | no CR stranded | |
| `RestMeansConvergedHolds` | synced is true at rest | `UnsentUnseen` |
| `SingleInductiveHolds`, `AtMostOneObjectHolds` | never two live objects | `OneMirror` |
| `BindingInductiveHolds`, `BindingKnownHolds` | every bound object is on record | `OneMirror`, steps `Undeleted` |
| `ReleaseInductiveHolds`, `LedgerKeptHolds` | `CreateLedger` is implemented | `OneMirror`, `Reclaims`, steps `Alone` |
| `FingerprintsHold`, `StatusIsFingerprintHolds` | a status with present versions is right | |
| `ReportInductiveHolds`, `RestMeansReportedHolds` | a config at rest reports the truth | no event dropped |
| `UseInductiveHolds`, `RestMeansUsedHolds` | a resource at rest uses it | no event dropped |
| `GrowthMissesNothingHolds`, `ShrinkRepeatsNothingHolds` | what a page walk finds | |
| `MirrorInductiveHolds`, `NeverForgottenHolds` | no CR forgotten | |
| `ReadyIsResolvedHolds` | a config that is there is found | |
| `FindsItsOwnHolds` | every kind finds what it posted | |
| `DriftSeenHolds` | Synced means that nothing differs | |
| `RepairLandsHolds` | an update that was sent repairs everything | `subject` not in `NonZero` |
| `OwnWritesAreQuietHolds` | own writes are never drift | `subject` not in `NonZero` |

The conditions are the code's own limits, and each has a counterexample among the
configurations or hazards above. `UnsentUnseen` (a body without an updatable field
shows a read nothing that could differ) excludes UnsentRepair. `OneMirror` (one
backend, one identity, no pin, no POST that commits after its answer was given up)
excludes SecondCreate and RefusedEdit; other writers may still create, change and
delete. `Undeleted` (nobody else deletes an object or clears the status) excludes
the stale record at line 149; `Alone` also that somebody else creates an object of
the same identity, which finalize may not reclaim; `Reclaims` (every spec has an
identity and the Delete policy) excludes what a user asked to be left behind. An
event is dropped when `requestsMatching` cannot list: what follows is liveness
(Replay). A field in `NonZero` is one SigNoz fills in with a value of its own that is
not zero, as in Defaulted.

**Write-ahead** (`CommonReconciler_proofs`). WriteAhead is not inductive: the pass
decides on a stale copy, and nothing in it says why the API server's object should
still carry the finalizer. The missing argument is about the history. A version
with the finalizer that is not being deleted is followed only by versions with the
finalizer (`FinalizerStays`), because only a finalizing pass removes it, and such a
pass runs only when no version still in the history is live (`FinalizingGone`),
because a version being deleted is never followed by a live one (`DeletionStays`).
The last holds because the finalizer goes on only through an update the API server
accepts, when the copy is alone in the history (`AddedFresh`). Hence a pass over a
live CR runs under the finalizer (`LiveHeld`), and a POST behind its annotation
(`AttemptOnRecord`). The proof has one lemma per kind of step; a write is judged by
the version it appends (`Written`), a step without one by the position it moves to
(`Unwritten`).

**Rest** (`Rest_proofs`). Every write is an event that queues the key again, so the
operator comes to rest only through a pass that wrote nothing and that nothing
overtook: a quiet one (`Quiet`: no version due, key not queued). What such a pass
holds in memory is what the API server holds (`Undisturbed`), it creates only for a
CR without a record (`CreatesUnrecorded`) and repairs only the recorded object
(`RepairsItsOwn`). It ends without a status write only when the status already said
what it was about to say; hence the status at rest is the verdict of a pass over
the present CR, which leaves a timer unless it is terminal or suspended.

**One object** (`Single_proofs`). Under `OneMirror` whatever is made carries the one
identity and no POST is still to commit (`OneBackend`, `OneName`), so a Find sees
every object the CR has. `LookedUp` keeps what it said until the POST or the
adoption it leads to: at the annotation patch the CR has at most the object found,
and from there to the POST none, because nothing but the pass itself binds one.

**The record** (`Ledger_proofs`). Each version from which a live pass may still
start, and the pass itself, know at least what is bound: an id in a version implies
one in every later version, an annotation comes off only once an id is stored
(`CachedBound`, `PassBound`, `HoldAccounts`). `ReleaseInductive` adds what finalize
knows: with the Find or the recorded id in hand, the target is all there is. On
these the refinement goes step by step:

| Step of the reconciler | Step of `CreateLedger` |
|------------------------|------------------------|
| `AddFinalizer`, accepted | Hold |
| `AddCreateAttemptAnnotation`, landed | Announce |
| `Create`, committed | Make |
| `UpdateStatus` with a new id | Record |
| `RemoveCreateAttemptAnnotation`, landed | Withdraw |
| `Reclaim`, carried out | Lose |
| `RemoveFinalizer`, accepted | Release |
| every other step | none |

**The fingerprint** (`ProviderConfig_proofs`). A version is given to one content
only, so a reading that found an object of the present version is the present
object (`Been`, `Answers`). A pass holds such readings (`PassBacked`), and a status
of the present generation renders some complete set of them (`StatusBacked`). When
its versions are the present ones, every reference that is there was read as it
is. A reference that is missing now is missing from the versions, so it was missing
or failed when it was read. What remains is order: a resolution stops at its first
failing field, so a failed read that decided it is reported as
ReferenceReadFailed, and one that did not decide it made no difference.

**The rotation** (`Rotation_proofs`). While no other pass over a config is on its
way (`Stirred`: the copy to be delivered, the key to be taken, a handler call to be
made for the config or for anything its spec reads), its status is true, or the
pass that runs has a fresh copy and has read everything as it is now, or it retries
after a failure (`ReportsAhead`). A write of a reference the config reads puts a
call on its way, and the call's handler finds the config, as the index is that of
the cached spec and the cache is behind only while a delivery is due. The same goes
for a resource and the config it names (`UsesAhead`), with one link more: nothing
calls a resource when a Secret moves. But then the status, which names no version
still to come, is no longer the truth, and the status update that makes it so again
does call it. This link is missing when the reference is not there afterwards,
which is why `RestMeansUsed` asks for complete configs; the proof attempt found
that, and TLC the behaviour described above.

**The page walk** (`FindByPage_proofs`). Neither property is inductive, as both
speak of a walk that is over or of counts alone. `WalkInv` says where the entries
are: while none was removed, every match listed at the start is counted or ahead of
the offset (an addition only pushes entries back); while none was added, only
entries the offset has passed are counted (a removal only pulls entries forward). A
page then settles the entries between two offsets; on the last page nothing is
ahead, because no position exceeds the size.

**The mirrored object** (`MirroredObject_proofs`). `Templates` is any function, so the
theorems speak of all documents, well-formed or not, with fields outside the schema
too; what a template renders to (`Render`) is not looked into. The argument has
three parts. (1) *Documents.* `Agree(x, y, f)` says that y has all that x says at
the root and in the field f, and that what only y has there is zero. `DiffedFields`
shows that Intersect of Diff reports exactly the fields that do not agree, however
deep the difference, and `AgreeingFields` that agreement keeps the meaning.
(2) *SigNoz.* Filling in zero values keeps agreement (`KeptAgrees`), filling in
anything keeps what was there (`KeptHolds`), and a put body agrees with the template
in the fields it sends, and in the others if they agreed before (`PutAgrees`), which
an empty `Compare.immutable` says. Agreement is transitive, so every write agrees
with the template. (3) *The kinds.* `ServedFits` goes through the ten: the spec's
fields are the updatable and the immutable ones, the identity is among them and "id"
is not, the adapter looks where the object is posted and for the field it is named
by, both kinds of config are watched. None of the properties is inductive by itself:
`ReadyIsResolved` needs to know that a queued CR is in the cache's scope, so that its
neighbours are too (`QueuedInScope`), `FindsItsOwn` that the name is still the
template's (`OursIsNamed`), and `OwnWritesAreQuiet` that agreement holds between
passes (`Quiet`). `NeverForgotten` rests on `Delays`: with a positive --interval both
delays are positive, whatever the CR and the other flag say.

Only model-checked: all liveness (`Converges`, `DeletionCompletes`,
`RotationLands`, `WalkEnds`), as fairness and ENABLED are out of the prover's
reach. `Marshal` and the documents the kinds' types admit are exercised by TLC only.

## What is not modelled, and the plan

In this order:

1. Proofs: AtMostOneObject for a CR with a pin.
2. Two CRs with one identity, sharing one SigNoz; both provider-config kinds at
   once; two removals of one walk followed by the create they cause.
3. `jsonSpec` documents with fields outside the typed schema in the Kinds run (the
   theorems about `MirroredObject` allow them), and a property about those fields.

Left out for good: deep copies, test mocks, manifests, the chart and log output,
which have no behaviour of their own; the metrics, webhook and probe servers and
leader election, which no reconciler sees; HTTP headers and TLS; the reconciler's
timeout, which only decides which exchange gets no answer.
