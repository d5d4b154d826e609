--------------------------- MODULE ProviderConfig ---------------------------
(***************************************************************************)
(* internal/providerconfig and its controllers: how a ProviderConfig or a  *)
(* ClusterProviderConfig is resolved through the Secrets and ConfigMaps it *)
(* names, how its status reports that, and how a change travels from a     *)
(* Secret to the config and from the config to the mirrored resources.     *)
(*                                                                         *)
(* Everything the operator reads comes from the informer caches.  Secrets, *)
(* ConfigMaps and resources are only read here, so their cached state is   *)
(* their state; a config is also written, so the API server's copy is kept *)
(* apart.  A cache changes first and the event handlers run later, which   *)
(* is the time every race of this module lives in.                         *)
(***************************************************************************)
EXTENDS Integers

CONSTANTS
  Configs,           \* the provider configs: [kind, namespace, name]
  Resources,         \* the mirrored resources: [namespace, name]
  References,        \* the Secrets and ConfigMaps: [kind, namespace, name]
  OperatorNamespace, \* where a ClusterProviderConfig's references resolve
  Specs,             \* the ProviderConfigSpecs the user may apply
  ResourceRefs,      \* the providerConfigRefs a resource may carry: [kind, name]
  Contents,          \* the data a Secret or ConfigMap may hold, by key
  Existing,          \* the configs and references the operator finds at start-up
  Trimmed,           \* what strings.TrimSpace makes of each value
  Empty,             \* the empty string
  URLs,              \* the values that are an http(s) URL with a host
  Bundles,           \* the values that hold a PEM certificate
  Resyncs,           \* the informers replay their objects from time to time
  Budget             \* bound: how often each kind of environment event happens

ConfigKinds == {"ProviderConfig", "ClusterProviderConfig"}
ReferenceKinds == {"Secret", "ConfigMap"}
Spends == {"writes", "edits", "points", "faults", "drops", "crashes"}
Fields == {"endpoint", "header", "ca"}

\* Objects are told apart by kind, namespace and name, a cluster-scoped config
\* by its name alone.
ASSUME KeysAssumption ==
  /\ \A c \in Configs : c.kind \in ConfigKinds
  /\ \A o \in References : o.kind \in ReferenceKinds
  /\ \A k \in Configs \cup References :
       k = [kind |-> k.kind, namespace |-> k.namespace, name |-> k.name]
  /\ \A c, d \in Configs :
       c.kind = "ClusterProviderConfig" /\ d.kind = c.kind /\ d.name = c.name => c = d
  /\ \A ref \in ResourceRefs : ref = [kind |-> ref.kind, name |-> ref.name]
  /\ (Configs \cup References) \cap Resources = {}
  /\ Existing \subseteq Configs \cup References
\* An endpoint or a credential is unset, inline or under a key of a Secret or a
\* ConfigMap; a CA bundle is under a key of a Secret, if there is one.
ASSUME SpecsAssumption ==
  /\ Specs # {}
  /\ \A s \in Specs :
       /\ DOMAIN s = Fields
       /\ \A f \in Fields : s[f].from \in {"none", "value"} \cup ReferenceKinds
       /\ s["ca"].from \in {"none", "Secret"}
ASSUME ValuesAssumption ==
  /\ Contents # {}
  /\ Empty \in DOMAIN Trimmed
  /\ Trimmed[Empty] = Empty
  /\ Empty \notin URLs
ASSUME BudgetAssumption == Resyncs \in BOOLEAN /\ Budget \in [Spends -> Nat]

VARIABLES
  references, \* the cached Secrets and ConfigMaps
  points,     \* the cached resources: the providerConfigRef of each
  store,      \* the configs in the API server
  cache,      \* the configs in the informer cache
  behind,     \* the configs written since the cache took its copy
  events,     \* the event handler calls that are due: [to, about]
  queued,     \* the keys in the work queues
  retry,      \* the keys whose last pass failed: a backoff or a retry interval
  pass,       \* the pass over each key
  used,       \* what each resource's last pass resolved its config to
  spent       \* environment events so far, against Budget

vars == <<references, points, store, cache, behind, events, queued, retry,
          pass, used, spent>>

Keys == Configs \cup Resources

-----------------------------------------------------------------------------
(* Objects *)

NoReason == "None"
Resolved == "Resolved"
Codes == {"SpecInvalid", "EndpointInvalid", "SecretNotFound",
          "ConfigMapNotFound", "KeyNotFound", "ValueEmpty", "CABundleInvalid",
          "ReferenceReadFailed"}

\* A finite function with no entry: no data, no version.
Nothing == [x \in {} |-> x]

\* A Secret or ConfigMap never written, with its resourceVersion.
Missing == [exists |-> FALSE, version |-> 0, data |-> Nothing]

\* The outcome of reading a reference: the object, or the failure's code.
Reading(o, code) == [object |-> o, code |-> code]

NoStatus == [gen |-> 0, reason |-> NoReason, versions |-> Nothing]
AnySpec == CHOOSE s \in Specs : TRUE
Absent == [exists |-> FALSE, deleting |-> FALSE, gen |-> 0, spec |-> AnySpec,
           status |-> NoStatus]

\* What a resolution ends in: Resolved with the values, or the failure's code.
Outcome(reason, values) == [reason |-> reason, values |-> values]
Unresolved(code) == Outcome(code, Nothing)

Idle == [pc |-> "idle", config |-> Absent, namespace |-> OperatorNamespace,
         fresh |-> FALSE, unread |-> {}, seen |-> Nothing]

Spend(k) ==
  /\ spent[k] < Budget[k]
  /\ spent' = [spent EXCEPT ![k] = @ + 1]

-----------------------------------------------------------------------------
(* The references a spec makes *)

\* The sources a spec's fields are read from: the CA is a Secret key.
ValueSources(spec) == { spec[f] : f \in Fields }

SecretNames(spec) ==
  { s.name : s \in { t \in ValueSources(spec) : t.from = "Secret" } }

ConfigMapNames(spec) ==
  { s.name : s \in { t \in ValueSources(spec) : t.from = "ConfigMap" } }

Names(kind, spec) ==
  IF kind = "Secret" THEN SecretNames(spec) ELSE ConfigMapNames(spec)

Ref(kind, namespace, name) ==
  [kind |-> kind, namespace |-> namespace, name |-> name]

\* The references Resolve reads up front.
UpFront(spec, namespace) ==
  { o \in References : o.namespace = namespace /\ o.name \in Names(o.kind, spec) }

\* A faulty Get whose not-found error carries no code.
GetWithoutCode(o, fails) ==
  IF o \in References /\ references[o].exists /\ ~fails
    THEN Reading(references[o], Resolved) ELSE Reading(Missing, "Unknown")

\* One Get of a reference from the cache; fails when the read itself does.
Get(o, fails) ==
  IF fails THEN Reading(Missing, "ReferenceReadFailed")
  ELSE IF o \in References /\ references[o].exists
         THEN Reading(references[o], Resolved)
         ELSE Reading(Missing, IF o.kind = "Secret" THEN "SecretNotFound"
                                                    ELSE "ConfigMapNotFound")

\* A faulty lookup without the cache of one Resolve: every field reads again.
LookupAgain(seen, o) == Get(o, FALSE)

\* A reference already read, failed or not, is never read again.  All are read
\* up front, so the second case is what the code would do, not what it does.
Lookup(seen, o) == IF o \in DOMAIN seen THEN seen[o] ELSE Get(o, FALSE)

-----------------------------------------------------------------------------
(* Resolution *)

\* The bytes under the source's key, as one entry of the outcome's values.
Sourced(source, namespace, seen) ==
  LET found == Lookup(seen, Ref(source.from, namespace, source.name))
  IN IF found.code # Resolved THEN Unresolved(found.code)
     ELSE IF source.key \notin DOMAIN found.object.data
            THEN Unresolved("KeyNotFound")
            ELSE Outcome(Resolved, found.object.data[source.key])

Trim(o) == IF o.reason = Resolved THEN [o EXCEPT !.values = Trimmed[@]] ELSE o

value(source, namespace, seen) ==
  CASE source.from = "none" -> Unresolved("SpecInvalid")
    [] source.from = "value" ->
         IF source.value = Empty THEN Unresolved("SpecInvalid")
         ELSE Trim(Outcome(Resolved, source.value))
    [] OTHER -> Trim(Sourced(source, namespace, seen))

\* A resolved value must satisfy its field's rule, or the field fails.
Require(o, good, code) ==
  IF o.reason = Resolved /\ ~good THEN Unresolved(code) ELSE o

endpoint(spec, namespace, seen) ==
  LET raw == value(spec.endpoint, namespace, seen)
  IN Require(raw, raw.values \in URLs, "EndpointInvalid")

authentication(spec, namespace, seen) ==
  LET credential == value(spec.header, namespace, seen)
  IN Require(credential, credential.values # Empty, "ValueEmpty")

\* The bundle is taken as it is; a spec without one trusts the system's roots.
trust(spec, namespace, seen) ==
  LET bundle == Sourced(spec.ca, namespace, seen)
  IN IF spec.ca.from = "none" THEN Outcome(Resolved, Nothing)
     ELSE Require(bundle, bundle.values \in Bundles, "CABundleInvalid")

\* The fields are resolved in this order and the first failure decides.
Resolve(spec, namespace, seen) ==
  LET e == endpoint(spec, namespace, seen)
      a == authentication(spec, namespace, seen)
      t == trust(spec, namespace, seen)
  IN CASE e.reason # Resolved -> e
       [] e.reason = Resolved /\ a.reason # Resolved -> a
       [] e.reason = Resolved /\ a.reason = Resolved /\ t.reason # Resolved -> t
       [] OTHER -> Outcome(Resolved, [endpoint |-> e.values, header |-> a.values,
                                      ca |-> t.values])

\* The resourceVersion of every reference that was read, also on failure.
Versions(seen) ==
  [ o \in { x \in DOMAIN seen : seen[x].code = Resolved }
      |-> seen[o].object.version ]

\* A faulty SetConditions that reports no versions at all.
ConditionOnly(generation, versions, outcome) ==
  [gen |-> generation, reason |-> outcome.reason, versions |-> Nothing]

\* Every error of the resolver has a code, and the code is the reason.
SetConditions(generation, versions, outcome) ==
  [gen |-> generation, reason |-> outcome.reason, versions |-> versions]

-----------------------------------------------------------------------------
(* Watches: which keys an event puts into a work queue *)

\* The handler calls an event about k is due.  A reference's event goes to both
\* config controllers; one that has no config at all would enqueue nothing.
EventsAbout(k) ==
  CASE k \in References -> [to : { c.kind : c \in Configs }, about : {k}]
    [] k \in Configs -> [to : {k.kind, "Resource"}, about : {k}]
    [] OTHER -> [to : {"Resource"}, about : {k}]

\* The namespace a config's references resolve in.
RefNamespace(c) ==
  IF c.kind = "ProviderConfig" THEN c.namespace ELSE OperatorNamespace

\* A faulty watch that takes a cluster-scoped config's own, empty, namespace.
watchOwnNamespace(kind, o) ==
  { c \in Configs : /\ c.kind = kind /\ c.namespace = o.namespace
                    /\ cache[c].exists
                    /\ o.name \in Names(o.kind, cache[c].spec) }

\* A config controller's watchReferences: the configs of its kind whose
\* references resolve in the object's namespace and whose index names it.
watchReferences(kind, o) ==
  { c \in Configs : /\ c.kind = kind
                    /\ RefNamespace(c) = o.namespace
                    /\ cache[c].exists
                    /\ o.name \in Names(o.kind, cache[c].spec) }

\* The index key of a resource's ref: an unset kind is a ProviderConfig.
providerConfigRefKey(ref) ==
  IF ref.kind = "" THEN [ref EXCEPT !.kind = "ProviderConfig"] ELSE ref

\* A resource controller's watch of both config kinds.
enqueueReferencers(c) ==
  { r \in Resources :
      /\ providerConfigRefKey(points[r]) = [kind |-> c.kind, name |-> c.name]
      /\ c.kind = "ProviderConfig" => r.namespace = c.namespace }

Requests(e) ==
  CASE e.about \in References -> watchReferences(e.to, e.about)
    [] e.about \in Configs /\ e.to = "Resource" -> enqueueReferencers(e.about)
    [] OTHER -> {e.about}

\* An event reaches its handler: the keys it maps to are queued.
Handle(e) ==
  /\ e \in events
  /\ events' = events \ {e}
  /\ queued' = queued \cup Requests(e)
  /\ UNCHANGED <<references, points, store, cache, behind, retry, pass, used,
                 spent>>

\* requestsMatching could not list the candidates: the event is dropped.
HandleFails(e) ==
  /\ e \in events
  /\ e.about \in References \/ (e.about \in Configs /\ e.to = "Resource")
  /\ Spend("drops")
  /\ events' = events \ {e}
  /\ UNCHANGED <<references, points, store, cache, behind, queued, retry, pass,
                 used>>

\* The cache takes the API server's copy of a config.
Deliver(c) ==
  /\ c \in behind
  /\ cache' = [cache EXCEPT ![c] = store[c]]
  /\ behind' = behind \ {c}
  /\ events' = events \cup EventsAbout(c)
  /\ UNCHANGED <<references, points, store, queued, retry, pass, used, spent>>

-----------------------------------------------------------------------------
(* Start-up *)

\* The caches hold k.
Exists(k) ==
  IF k \in References THEN references[k].exists
  ELSE k \in Configs => cache[k].exists

\* The caches fill with what the cluster holds, and every object is an event.
AllObjectsAreEvents ==
  UNION { EventsAbout(k) : k \in { x \in Keys \cup References : Exists(x) } }

Init ==
  /\ references = [o \in References |->
       IF o \in Existing
         THEN [exists |-> TRUE, version |-> 1, data |-> CHOOSE d \in Contents : TRUE]
         ELSE Missing]
  /\ points \in [Resources -> ResourceRefs]
  /\ store = [c \in Configs |->
       IF c \in Existing THEN [Absent EXCEPT !.exists = TRUE, !.gen = 1] ELSE Absent]
  /\ cache = store
  /\ behind = {}
  /\ events = AllObjectsAreEvents
  /\ queued = {}
  /\ retry = {}
  /\ pass = [k \in Keys |-> Idle]
  /\ used = [r \in Resources |-> Unresolved(NoReason)]
  /\ spent = [k \in Spends |-> 0]

\* The process dies and starts over.
Crash ==
  /\ Spend("crashes")
  /\ UNCHANGED <<references, points, store, used>>
  /\ cache' = store
  /\ behind' = {}
  /\ events' = AllObjectsAreEvents'
  /\ queued' = {}
  /\ retry' = {}
  /\ pass' = [k \in Keys |-> Idle]

\* The informers replay what they hold, which they do every few hours.
Resync ==
  /\ Resyncs
  /\ ~(AllObjectsAreEvents \subseteq events)
  /\ events' = events \cup AllObjectsAreEvents
  /\ UNCHANGED <<references, points, store, cache, behind, queued, retry, pass,
                 used, spent>>

-----------------------------------------------------------------------------
(* Workers *)

\* A faulty end of a pass that waits for a watch instead of retrying.
FinishWithoutRetry(k, failed) ==
  /\ pass' = [pass EXCEPT ![k] = Idle]
  /\ UNCHANGED retry

\* The pass over k ends; failed puts the key back after a while.
Finish(k, failed) ==
  /\ pass' = [pass EXCEPT ![k] = Idle]
  /\ retry' = IF failed THEN retry \cup {k} ELSE retry

\* The config a resource's ref names, in ResolveRef: an unset kind is a
\* ProviderConfig, which is looked up in the resource's own namespace.
Named(r) ==
  { c \in Configs :
      /\ c.name = points[r].name
      /\ \/ /\ points[r].kind \in {"", "ProviderConfig"}
            /\ c.kind = "ProviderConfig" /\ c.namespace = r.namespace
         \/ points[r].kind = "ClusterProviderConfig" /\ c.kind = points[r].kind }

Begin(c) ==
  [pc |-> "resolving", config |-> cache[c], namespace |-> RefNamespace(c),
   fresh |-> c \notin behind,
   unread |-> UpFront(cache[c].spec, RefNamespace(c)), seen |-> Nothing]

\* A worker takes a config: nothing to do when it is gone or being deleted.
ReconcileConfig(c) ==
  /\ c \in queued /\ pass[c].pc = "idle"
  /\ queued' = queued \ {c}
  /\ retry' = retry \ {c}
  /\ pass' = IF cache[c].exists /\ ~cache[c].deleting
               THEN [pass EXCEPT ![c] = Begin(c)] ELSE pass
  /\ UNCHANGED <<references, points, store, cache, behind, events, used, spent>>

\* A worker takes a resource and gets the config its ref names (ResolveRef); of
\* that config it keeps the spec alone.
ReconcileResource(r) ==
  /\ r \in queued /\ pass[r].pc = "idle"
  /\ queued' = queued \ {r}
  /\ \/ \E c \in Named(r) :
          /\ cache[c].exists
          /\ pass' = [pass EXCEPT ![r] = [Begin(c) EXCEPT !.fresh = FALSE,
                        !.config = [Absent EXCEPT !.spec = cache[c].spec]]]
          /\ retry' = retry \ {r}
          /\ UNCHANGED used
     \/ /\ \A c \in Named(r) : ~cache[c].exists
        /\ used' = [used EXCEPT ![r] = Unresolved("NotFound")]
        /\ retry' = retry \cup {r}
        /\ UNCHANGED pass
  /\ UNCHANGED <<references, points, store, cache, behind, events, spent>>

\* One of the reads Resolve makes up front, in any order: both sets are Go
\* maps.  The outcome is kept for every field that needs the reference.
ReadReference(k, o, fails) ==
  /\ pass[k].pc = "resolving" /\ o \in pass[k].unread
  /\ IF fails THEN Spend("faults") ELSE UNCHANGED spent
  /\ pass' = [pass EXCEPT ![k].unread = @ \ {o},
                           ![k].seen = [ x \in DOMAIN @ \cup {o} |->
                                           IF x = o THEN Get(o, fails) ELSE @[x] ]]
  /\ UNCHANGED <<references, points, store, cache, behind, events, queued, retry,
                 used>>

\* Everything is read: the outcome of the pass over k.
Concluded(k) ==
  /\ pass[k].pc = "resolving" /\ pass[k].unread = {}
Result(k) == Resolve(pass[k].config.spec, pass[k].namespace, pass[k].seen)
Rendered(c) ==
  SetConditions(pass[c].config.gen, Versions(pass[c].seen), Result(c))

\* The status is written when it moved and the config did not; a resolution
\* error and a refused or failed write are retried alike.
ReportUnmoved(c) ==
  /\ Concluded(c)
  /\ Rendered(c) = pass[c].config.status
  /\ Finish(c, Result(c).reason # Resolved)
  /\ UNCHANGED <<references, points, store, cache, behind, events, queued, used,
                 spent>>

UpdateStatus(c) ==
  /\ Concluded(c)
  /\ Rendered(c) # pass[c].config.status
  /\ pass[c].fresh
  /\ store' = [store EXCEPT ![c].status = Rendered(c)]
  /\ behind' = behind \cup {c}
  /\ Finish(c, Result(c).reason # Resolved)
  /\ UNCHANGED <<references, points, cache, events, queued, used, spent>>

UpdateStatusFails(c) ==
  /\ Concluded(c)
  /\ Rendered(c) # pass[c].config.status
  /\ IF pass[c].fresh THEN Spend("faults") ELSE UNCHANGED spent
  /\ Finish(c, TRUE)
  /\ UNCHANGED <<references, points, store, cache, behind, events, queued, used>>

\* A resource goes on with the resolved config, or retries on its interval.
UseConfig(r) ==
  /\ Concluded(r)
  /\ used' = [used EXCEPT ![r] = Result(r)]
  /\ Finish(r, Result(r).reason # Resolved)
  /\ UNCHANGED <<references, points, store, cache, behind, events, queued, spent>>

\* The backoff or the interval of a key is over.
Retry(k) ==
  /\ k \in retry
  /\ retry' = retry \ {k}
  /\ queued' = queued \cup {k}
  /\ UNCHANGED <<references, points, store, cache, behind, events, pass, used,
                 spent>>

-----------------------------------------------------------------------------
(* Users, and the next-state relation *)

\* A Secret or ConfigMap is created, rotated or deleted.
WriteReference(o, exists, data) ==
  /\ Spend("writes")
  /\ references[o].exists \/ exists
  /\ references' = [references EXCEPT ![o] =
                      [exists |-> exists, version |-> @.version + 1, data |-> data]]
  /\ events' = events \cup EventsAbout(o)
  /\ UNCHANGED <<points, store, cache, behind, queued, retry, pass, used>>

\* Every write of a config outdates the cache and the copies passes hold.
WriteConfig(c, config) ==
  /\ Spend("edits")
  /\ store' = [store EXCEPT ![c] = config]
  /\ behind' = behind \cup {c}
  /\ pass' = [pass EXCEPT ![c].fresh = FALSE]
  /\ UNCHANGED <<references, points, cache, events, queued, retry, used>>

ApplyConfig(c, spec) ==
  /\ ~store[c].exists \/ spec # store[c].spec
  /\ WriteConfig(c, [ (IF store[c].exists THEN store[c] ELSE Absent)
                        EXCEPT !.exists = TRUE, !.spec = spec, !.gen = @ + 1])

\* A deleted config is gone at once, or held by someone else's finalizer.
DeleteConfig(c) ==
  /\ store[c].exists
  /\ \/ WriteConfig(c, Absent)
     \/ ~store[c].deleting /\ WriteConfig(c, [store[c] EXCEPT !.deleting = TRUE])

\* A resource is pointed at another config.
PointResource(r, ref) ==
  /\ Spend("points")
  /\ ref # points[r]
  /\ points' = [points EXCEPT ![r] = ref]
  /\ events' = events \cup EventsAbout(r)
  /\ UNCHANGED <<references, store, cache, behind, queued, retry, pass, used>>

Work(k) ==
  \/ k \in Configs /\ (ReconcileConfig(k) \/ ReportUnmoved(k) \/ UpdateStatus(k)
                          \/ UpdateStatusFails(k))
  \/ k \in Resources /\ (ReconcileResource(k) \/ UseConfig(k))
  \/ \E o \in References, fails \in BOOLEAN : ReadReference(k, o, fails)

Users ==
  \/ \E o \in References, data \in Contents : WriteReference(o, TRUE, data)
  \/ \E o \in References : WriteReference(o, FALSE, Nothing)
  \/ \E c \in Configs, spec \in Specs : ApplyConfig(c, spec)
  \/ \E c \in Configs : DeleteConfig(c)
  \/ \E r \in Resources, ref \in ResourceRefs : PointResource(r, ref)

Next ==
  \/ \E k \in Keys : Work(k) \/ Retry(k)
  \/ \E e \in events : Handle(e) \/ HandleFails(e)
  \/ \E c \in Configs : Deliver(c)
  \/ Resync
  \/ Users
  \/ Crash

Spec == Init /\ [][Next]_vars

AllEvents == UNION { EventsAbout(k) : k \in Keys \cup References }

\* Workers, handlers, the watch, the backoff and the replay go on.
FairSpec ==
  /\ Spec
  /\ \A k \in Keys : WF_vars(Work(k)) /\ WF_vars(Retry(k))
  /\ \A e \in AllEvents : WF_vars(Handle(e))
  /\ \A c \in Configs : WF_vars(Deliver(c))
  /\ WF_vars(Resync)

-----------------------------------------------------------------------------
(* Properties *)

Objects == [exists : {TRUE}, version : Nat, data : Contents]
             \cup [exists : {FALSE}, version : Nat, data : {Nothing}]
Readings == [object : Objects, code : Codes \cup {Resolved}]
Namespaces == { RefNamespace(c) : c \in Configs } \cup {OperatorNamespace}
IsStatus(st) ==
  /\ st \in [gen : Nat, reason : Codes \cup {Resolved, NoReason},
            versions : [DOMAIN st.versions -> Nat]]
  /\ DOMAIN st.versions \subseteq References
IsConfig(x) ==
  /\ x \in [exists : BOOLEAN, deleting : BOOLEAN, gen : Nat, spec : Specs,
           status : {x.status}]
  /\ IsStatus(x.status)
  /\ x.status.gen <= x.gen
IsPass(p) ==
  /\ p \in [pc : {"idle", "resolving"}, config : {p.config}, namespace : Namespaces,
           fresh : BOOLEAN, unread : SUBSET References,
           seen : [DOMAIN p.seen -> Readings]]
  /\ IsConfig(p.config)
  /\ DOMAIN p.seen \subseteq References

\* Every variable has its type, and no status is ahead of its config.
TypeOK ==
  /\ references \in [References -> Objects]
  /\ points \in [Resources -> ResourceRefs]
  /\ DOMAIN store = Configs /\ DOMAIN cache = Configs
  /\ \A c \in Configs : IsConfig(store[c]) /\ IsConfig(cache[c])
  /\ behind \subseteq Configs
  /\ events \subseteq AllEvents
  /\ queued \subseteq Keys /\ retry \subseteq Keys
  /\ DOMAIN pass = Keys /\ \A k \in Keys : IsPass(pass[k])
  /\ DOMAIN used = Resources
  /\ spent \in [Spends -> Nat]

\* What a spec reads, told from its fields alone.
ReadBy(spec, namespace) ==
  { Ref(spec[f].from, namespace, spec[f].name) :
      f \in { g \in Fields : spec[g].from \in ReferenceKinds } }

\* Every reference of c as it is now, and what c resolves to in that case.
Present(c) ==
  [ o \in ReadBy(store[c].spec, RefNamespace(c)) |-> Get(o, FALSE) ]
Truth(c) == Resolve(store[c].spec, RefNamespace(c), Present(c))

Reported(c) ==
  store[c].status = [gen |-> store[c].gen, reason |-> Truth(c).reason,
                     versions |-> Versions(Present(c))]

Watched(c) == store[c].exists /\ ~store[c].deleting

\* Nothing is under way for k, nor for the caches and events it depends on.  A
\* failed verdict is retried forever; as long as no read and no write failed,
\* that is not work under way either.
Rests(k) ==
  /\ behind = {} /\ events = {}
  /\ k \notin queued /\ pass[k].pc = "idle"
  /\ k \in retry => spent["faults"] = 0

\* Whenever a config is at rest its status is the truth, good or bad, about its
\* present generation and the present versions of everything it reads: no order
\* of edits, rotations, stale passes and refused status writes leaves an old
\* verdict behind.
RestMeansReported ==
  \A c \in Configs : Rests(c) /\ Watched(c) => Reported(c)

\* Every reference c reads is there.
Complete(c) ==
  \A o \in ReadBy(store[c].spec, RefNamespace(c)) : Get(o, FALSE).code = Resolved

\* Whenever a resource and the config it names are at rest, the resource's
\* last pass used what the config resolves to now: the two watches carry a
\* rotation from the Secret to the resource without waiting for a timer.  The
\* status is the messenger, so nothing is said of a config with a reference
\* missing: a Secret that came and went between two passes over the config
\* moves no status, and a resource that read it meanwhile is not called back.
RestMeansUsed ==
  \A r \in Resources, c \in Configs :
    /\ Rests(r) /\ Rests(c)
    /\ c \in Named(r) /\ Watched(c) /\ Complete(c)
    => used[r] = Truth(c)

\* A status that names the present generation and the present version of every
\* reference is right, at every moment: the verdict and the versions come from
\* one and the same reading of each object.  Only a failed read may differ.
StatusIsFingerprint ==
  \A c \in Configs :
    LET st == store[c].status
    IN /\ Watched(c) /\ st.gen = store[c].gen
       /\ st.versions = Versions(Present(c))
       /\ st.reason # "ReferenceReadFailed"
       => st.reason = Truth(c).reason

\* Once users pause, every config reports the truth and every resource uses
\* it, for good, though lists failed and stale status writes were refused on
\* the way.
RotationLands ==
  <>[]( /\ \A c \in Configs : Watched(c) => Reported(c)
        /\ \A r \in Resources, c \in Configs :
             c \in Named(r) /\ Watched(c) => used[r] = Truth(c) )

-----------------------------------------------------------------------------
(* Inductive invariants *)

NotFound(o) ==
  Reading(Missing, IF o.kind = "Secret" THEN "SecretNotFound" ELSE "ConfigMapNotFound")

\* What o may have been up to now.  A version is given to one content only.
Been(o) ==
  { x \in [exists : {TRUE}, version : 0..references[o].version, data : Contents] :
      x.version = references[o].version => x = references[o] }

\* What a Get of o may have answered up to now.
Answers(o) ==
  {NotFound(o), Reading(Missing, "ReferenceReadFailed")}
    \cup { Reading(x, Resolved) : x \in Been(o) }

\* Readings that some pass may have collected.
Collected(seen) == \A o \in DOMAIN seen : seen[o] \in Answers(o)

\* A pass has read, once, what it need not read any more; a copy that passes for
\* fresh is the API server's.
PassBacked ==
  \A k \in Keys :
    \/ pass[k].pc = "idle" /\ ~pass[k].fresh
    \/ /\ pass[k].pc = "resolving"
       /\ pass[k].unread \cup DOMAIN pass[k].seen
            = UpFront(pass[k].config.spec, pass[k].namespace)
       /\ Collected(pass[k].seen)
       /\ k \in Configs => /\ pass[k].namespace = RefNamespace(k)
                           /\ pass[k].config.exists
                           /\ pass[k].fresh => pass[k].config = store[k]

\* What the cache is not told to take it has.
CacheBacked == \A c \in Configs : c \notin behind => cache[c] = store[c]

\* A status about the present generation renders readings some pass made, and
\* no version a status names is still to come.
StatusBacked ==
  \A c \in Configs :
    LET st == store[c].status
        first == UpFront(store[c].spec, RefNamespace(c))
    IN /\ store[c].exists => store[c].gen > 0
       /\ store[c].exists /\ st.gen = store[c].gen =>
            \E seen \in [first -> UNION { Answers(o) : o \in first }] :
              /\ st.versions = Versions(seen)
              /\ Collected(seen)
              /\ st.reason = Resolve(store[c].spec, RefNamespace(c), seen).reason
       /\ \A o \in DOMAIN st.versions : st.versions[o] <= references[o].version

\* StatusIsFingerprint follows from what is on record about readings.
Fingerprints == TypeOK /\ PassBacked /\ CacheBacked /\ StatusBacked

\* A pass over k works on the present spec of c and has read what is there now,
\* unless a read failed.
Current(k, c) ==
  /\ pass[k].config.spec = store[c].spec
  /\ pass[k].namespace = RefNamespace(c)
  /\ \A o \in DOMAIN pass[k].seen :
       \/ pass[k].seen[o] = Get(o, FALSE)
       \/ pass[k].seen[o].code = "ReferenceReadFailed" /\ spent["faults"] > 0

Call(to, k) == [to |-> to, about |-> k]

\* Another pass over config c is on its way.
Stirred(c) ==
  \/ c \in behind \/ c \in queued
  \/ \E k \in {c} \cup UpFront(store[c].spec, RefNamespace(c)) :
       Call(c.kind, k) \in events

\* Until an event is dropped, a config with no other pass on its way has its
\* status, or is getting it, or tries again after a failure.
ReportsAhead ==
  spent["drops"] = 0 =>
    \A c \in Configs :
      Watched(c) /\ ~Stirred(c) =>
        IF pass[c].pc = "idle"
          THEN Reported(c) \/ (c \in retry /\ spent["faults"] > 0)
          ELSE pass[c].fresh /\ Current(c, c)

\* Another pass over resource r, with config c, is on its way.
Called(r, c) ==
  \/ c \in behind \/ r \in queued
  \/ Call("Resource", c) \in events \/ Call("Resource", r) \in events

\* Until an event is dropped, a resource with no other pass on its way has used
\* the config that is reported, or is about to, or tries again after a failure.
UsesAhead ==
  spent["drops"] = 0 =>
    \A r \in Resources, c \in Configs :
      c \in Named(r) /\ Watched(c) /\ Reported(c) /\ Complete(c) /\ ~Called(r, c) =>
        IF pass[r].pc = "idle"
          THEN used[r] = Truth(c) \/ (r \in retry /\ spent["faults"] > 0)
          ELSE Current(r, c)

\* The events, copies and records that carry a change to the config's status.
ReportInductive == Fingerprints /\ ReportsAhead

\* The same, on to the resource.
UseInductive == ReportInductive /\ UsesAhead

=============================================================================
