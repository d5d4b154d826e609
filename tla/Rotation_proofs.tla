-------------------------- MODULE Rotation_proofs --------------------------
(***************************************************************************)
(* A rotation's way through ProviderConfig: until an event is dropped, a   *)
(* config at rest reports the truth and a resource at rest uses it.        *)
(***************************************************************************)
EXTENDS ProviderConfig_proofs

-----------------------------------------------------------------------------
(* What does not move the truth about a config *)

\* Failures and drops are only counted up.
LEMMA SpentGrows ==
  ASSUME TypeOK, [Next]_vars
  PROVE  \A k \in Spends : spent[k] \in Nat /\ spent'[k] \in Nat /\ spent'[k] >= spent[k]
<1>0. spent \in [Spends -> Nat]
  BY DEF TypeOK
<1> DEFINE Goal == \A k \in Spends : spent[k] \in Nat /\ spent'[k] \in Nat
                                       /\ spent'[k] >= spent[k]
<1> SUFFICES Goal
  OBVIOUS
<1>1. ASSUME spent' = spent PROVE Goal
  BY <1>0, <1>1
<1>2. ASSUME NEW j \in Spends, Spend(j) PROVE Goal
  BY <1>0, <1>2, SpendType
<1>3. \/ spent' = spent
      \/ \E j \in Spends : Spend(j)
  <2>1. \A j \in {"writes", "edits", "points", "faults", "drops", "crashes"} :
          j \in Spends
    BY DEF Spends
  <2>2. ASSUME NEW k \in Keys, Work(k) \/ Retry(k)
        PROVE  spent' = spent \/ Spend("faults")
    BY <2>2 DEF Work, Retry, ReconcileConfig, ReconcileResource, ReadReference,
                ReportUnmoved, UpdateStatus, UpdateStatusFails, UseConfig
  <2>3. ASSUME NEW e \in events, Handle(e) \/ HandleFails(e)
        PROVE  spent' = spent \/ Spend("drops")
    BY <2>3 DEF Handle, HandleFails
  <2>4. CASE Users
    BY <2>1, <2>4 DEF Users, WriteReference, ApplyConfig, DeleteConfig, WriteConfig,
                      PointResource
  <2>5. ASSUME NEW c \in Configs, Deliver(c) PROVE spent' = spent
    BY <2>5 DEF Deliver
  <2>6. CASE Resync \/ Crash \/ UNCHANGED vars
    BY <2>1, <2>6 DEF Resync, Crash, vars
  <2> QED
    BY <2>1, <2>2, <2>3, <2>4, <2>5, <2>6 DEF Next
<1> QED
  BY <1>1, <1>2, <1>3

\* The config c and everything it reads are left alone.
Steady(c) ==
  /\ store'[c] = store[c]
  /\ \A o \in UpFront(store[c].spec, RefNamespace(c)) : references'[o] = references[o]

\* Then so are the answers.
LEMMA SteadyGet ==
  ASSUME TypeOK, NEW c \in Configs, Steady(c)
  PROVE  /\ \A o \in UpFront(store[c].spec, RefNamespace(c)) :
              Get(o, FALSE)' = Get(o, FALSE)
         /\ Now(store[c].spec, RefNamespace(c))' = Now(store[c].spec, RefNamespace(c))
<1> DEFINE spec == store[c].spec
           ns == RefNamespace(c)
<1>1. spec \in Specs /\ store'[c].spec = spec
  BY DEF TypeOK, IsConfig, Steady
<1>2. \A o \in UpFront(spec, ns) : Get(o, FALSE)' = Get(o, FALSE)
  BY DEF Get, Steady
<1>3. ASSUME NEW f \in Fields, spec[f].from \in ReferenceKinds
      PROVE  Get(SourceOf(spec, ns, f), FALSE)' = Get(SourceOf(spec, ns, f), FALSE)
  <2>1. PICK o : o = SourceOf(spec, ns, f)
    OBVIOUS
  <2>2. o \in UpFront(spec, ns) \/ o \notin References
    BY <1>1, <1>3, <2>1, UpFrontSources
  <2>3. Get(o, FALSE)' = Get(o, FALSE)
    BY <1>2, <2>2, GetElsewhere
  <2> QED
    BY <1>1, <2>1, <2>3
<1> QED
  BY <1>1, <1>2, <1>3 DEF Now

\* The present versions of what is read up front.
VersionsNow(spec, ns) ==
  [o \in {x \in UpFront(spec, ns) : references[x].exists} |-> references[o].version]

\* Truth, Reported and Complete, by the answers of the fields' sources.
TruthAbout(c, spec, ns) ==
  /\ Truth(c) = Resolving(spec, Now(spec, ns))
  /\ Versions(Present(c)) = VersionsNow(spec, ns)
  /\ Reported(c) <=> store[c].status = SetConditions(store[c].gen, VersionsNow(spec, ns),
                                         Resolving(spec, Now(spec, ns)))
  /\ Complete(c) <=> \A f \in Fields : spec[f].from \in ReferenceKinds =>
                       Now(spec, ns)[f].code = Resolved

TruthAboutAll == \A c \in Configs : TruthAbout(c, store[c].spec, RefNamespace(c))

\* These forms are the definitions.
LEMMA TruthForms == TypeOK => TruthAboutAll
<1> SUFFICES ASSUME TypeOK, NEW c \in Configs
             PROVE  TruthAbout(c, store[c].spec, RefNamespace(c))
  BY DEF TruthAboutAll
<1>1. /\ Truth(c) = Resolving(store[c].spec, Now(store[c].spec, RefNamespace(c)))
      /\ Versions(Present(c)) = VersionsNow(store[c].spec, RefNamespace(c))
  BY TruthForm DEF VersionsNow
<1>2. Reported(c) <=>
           store[c].status =
             SetConditions(store[c].gen, VersionsNow(store[c].spec, RefNamespace(c)),
               Resolving(store[c].spec, Now(store[c].spec, RefNamespace(c))))
  BY <1>1 DEF Reported, SetConditions
<1>3. Complete(c) <=>
           \A f \in Fields : store[c].spec[f].from \in ReferenceKinds =>
             Now(store[c].spec, RefNamespace(c))[f].code = Resolved
  <2>1. \A o : o \in ReadBy(store[c].spec, RefNamespace(c)) <=>
          \E f \in Fields : store[c].spec[f].from \in ReferenceKinds
                              /\ o = SourceOf(store[c].spec, RefNamespace(c), f)
    BY DEF ReadBy, SourceOf
  <2>2. \A f \in Fields : store[c].spec[f].from \in ReferenceKinds =>
          Now(store[c].spec, RefNamespace(c))[f]
            = Get(SourceOf(store[c].spec, RefNamespace(c), f), FALSE)
    BY DEF Now
  <2> QED
    BY <2>1, <2>2 DEF Complete
<1> QED
  BY <1>1, <1>2, <1>3 DEF TruthAbout

\* What leaves a config and its references alone leaves the truth alone.
LEMMA SteadyTruth ==
  ASSUME TypeOK, TypeOK', NEW c \in Configs, Steady(c)
  PROVE  /\ Truth(c)' = Truth(c)
         /\ Reported(c)' <=> Reported(c)
         /\ Complete(c)' <=> Complete(c)
<1> DEFINE spec == store[c].spec
           ns == RefNamespace(c)
<1>1. (TypeOK => TruthAboutAll)'
  BY TruthForms, PTL
<1>2. /\ Truth(c)' = Resolving(store'[c].spec, Now(spec, ns)')
      /\ Reported(c)' <=>
           store'[c].status = SetConditions(store'[c].gen, VersionsNow(spec, ns)',
                                Resolving(store'[c].spec, Now(spec, ns)'))
      /\ Complete(c)' <=>
           \A f \in Fields : store'[c].spec[f].from \in ReferenceKinds =>
             (Now(spec, ns)')[f].code = Resolved
  BY <1>1 DEF TruthAboutAll, TruthAbout
<1>3. store'[c] = store[c] /\ Now(spec, ns)' = Now(spec, ns)
  BY SteadyGet DEF Steady
<1>4. VersionsNow(spec, ns)' = VersionsNow(spec, ns)
  BY <1>3 DEF VersionsNow, Steady
<1>5. TruthAbout(c, spec, ns)
  BY TruthForms DEF TruthAboutAll
<1> HIDE DEF spec, ns
<1> QED
  BY <1>2, <1>3, <1>4, <1>5 DEF spec, ns, TruthAbout

\* What a pass that stayed current comes to.
LEMMA CurrentResult ==
  ASSUME TypeOK, PassBacked, NEW k \in Keys, NEW c \in Configs,
         Concluded(k), Current(k, c)
  PROVE  \/ Result(k) = Truth(c) /\ Versions(pass[k].seen) = Versions(Present(c))
         \/ Result(k).reason # Resolved /\ spent["faults"] > 0
<1> DEFINE spec == store[c].spec
           ns == RefNamespace(c)
           seen == pass[k].seen
<1>1. /\ pass[k].config.spec = spec /\ pass[k].namespace = ns
      /\ \A o \in DOMAIN seen :
           \/ seen[o] = Get(o, FALSE)
           \/ seen[o].code = "ReferenceReadFailed" /\ spent["faults"] > 0
  BY DEF Current
<1>2. DOMAIN seen = UpFront(spec, ns)
  BY <1>1 DEF PassBacked, Concluded
<1>3. spec \in Specs
  BY DEF TypeOK, IsConfig
<1>4. Result(k) = Resolving(spec, Heard(spec, ns, seen))
  BY <1>1, <1>2, <1>3, ResolveHeard DEF Result
<1>5. /\ Truth(c) = Resolving(spec, Now(spec, ns))
      /\ Versions(Present(c)) = VersionsNow(spec, ns)
  BY TruthForms DEF TruthAboutAll, TruthAbout
<1>6. seen = [o \in DOMAIN seen |-> seen[o]]
  BY DEF TypeOK, IsPass
<1> HIDE DEF spec, ns, seen
<1>7. CASE \A o \in DOMAIN seen : seen[o] = Get(o, FALSE)
  <2>1. Heard(spec, ns, seen) = Now(spec, ns)
    <3>1. ASSUME NEW f \in Fields, spec[f].from \in ReferenceKinds
          PROVE  Heard(spec, ns, seen)[f] = Now(spec, ns)[f]
      <4>1. \/ SourceOf(spec, ns, f) \in DOMAIN seen
            \/ SourceOf(spec, ns, f) \notin References
        BY <1>2, <1>3, <3>1, UpFrontSources
      <4> QED
        BY <1>7, <3>1, <4>1, GetElsewhere DEF Heard, Now
    <3> QED
      BY <3>1 DEF Heard, Now
  <2>2. Versions(seen) = VersionsNow(spec, ns)
    <3>1. UpFront(spec, ns) \subseteq References
      BY <1>3, UpFrontSources
    <3>2. \A o \in References :
             /\ Get(o, FALSE).code = Resolved <=> references[o].exists
             /\ references[o].exists =>
                  Get(o, FALSE).object.version = references[o].version
      BY DEF Get, Reading, Resolved
    <3>3. {x \in DOMAIN seen : seen[x].code = Resolved}
            = {x \in UpFront(spec, ns) : references[x].exists}
      BY <1>2, <1>7, <3>1, <3>2
    <3>4. \A o \in {x \in UpFront(spec, ns) : references[x].exists} :
            seen[o].object.version = references[o].version
      BY <1>2, <1>7, <3>1, <3>2
    <3> QED
      BY <3>3, <3>4 DEF Versions, VersionsNow
  <2> QED
    BY <1>4, <1>5, <2>1, <2>2 DEF seen
<1>8. ASSUME NEW o \in DOMAIN seen, seen[o] # Get(o, FALSE)
      PROVE  Result(k).reason # Resolved /\ spent["faults"] > 0
  <2>1. seen[o].code = "ReferenceReadFailed" /\ spent["faults"] > 0
    BY <1>1, <1>8
  <2>2. PICK f \in Fields : spec[f].from \in ReferenceKinds /\ o = SourceOf(spec, ns, f)
    BY <1>2, <1>3, <1>8, UpFrontSources
  <2>3. Heard(spec, ns, seen)[f] = seen[o]
    BY <1>8, <2>2 DEF Heard
  <2>4. Heard(spec, ns, seen)[f].code # Resolved
    BY <2>1, <2>3 DEF Resolved
  <2> QED
    BY <1>3, <1>4, <2>1, <2>2, <2>4, ResolvedReadAll
<1> QED
  BY <1>7, <1>8 DEF seen

\* A pass that is carried on through a quiet step stays current.
LEMMA CurrentKept ==
  ASSUME TypeOK, PassBacked, [Next]_vars, NEW k \in Keys, NEW c \in Configs,
         pass[k].pc # "idle", Current(k, c), Steady(c), pass'[k] = pass[k]
  PROVE  Current(k, c)'
<1>1. /\ pass[k].config.spec = store[c].spec /\ pass[k].namespace = RefNamespace(c)
      /\ \A o \in DOMAIN pass[k].seen :
           \/ pass[k].seen[o] = Get(o, FALSE)
           \/ pass[k].seen[o].code = "ReferenceReadFailed" /\ spent["faults"] > 0
  BY DEF Current
<1>2. DOMAIN pass[k].seen \subseteq UpFront(store[c].spec, RefNamespace(c))
  BY <1>1 DEF PassBacked
<1>3. \A o \in DOMAIN pass[k].seen : Get(o, FALSE)' = Get(o, FALSE)
  BY <1>2, SteadyGet
<1>4. spent["faults"] > 0 => spent'["faults"] > 0
  BY SpentGrows DEF Spends
<1>5. store'[c] = store[c]
  BY DEF Steady
<1>6. \A o \in DOMAIN pass'[k].seen :
        \/ pass'[k].seen[o] = Get(o, FALSE)'
        \/ pass'[k].seen[o].code = "ReferenceReadFailed" /\ spent'["faults"] > 0
  BY <1>1, <1>3, <1>4
<1> QED
  BY <1>1, <1>5, <1>6 DEF Current

-----------------------------------------------------------------------------
(* Calls *)

\* The handlers an event calls.
LEMMA CallsDue ==
  /\ \A c \in Configs : /\ Call(c.kind, c) \in EventsAbout(c)
                        /\ Call("Resource", c) \in EventsAbout(c)
                        /\ \A o \in References : Call(c.kind, o) \in EventsAbout(o)
  /\ \A r \in Resources : Call("Resource", r) \in EventsAbout(r)
  BY EventsOf DEF Call

\* What its handler makes of a call, when the cache has caught up with c.
LEMMA CallsHandled ==
  ASSUME TypeOK, CacheBacked, NEW c \in Configs, store[c].exists, c \notin behind
  PROVE  /\ \A k \in {c} \cup UpFront(store[c].spec, RefNamespace(c)) :
              c \in Requests(Call(c.kind, k))
         /\ \A r \in Resources :
              /\ c \in Named(r) => r \in Requests(Call("Resource", c))
              /\ r \in Requests(Call("Resource", r))
<1>1. cache[c] = store[c]
  BY DEF CacheBacked
<1>2. \A to, k : Call(to, k).to = to /\ Call(to, k).about = k
  BY DEF Call
<1>3. c.kind \in ConfigKinds /\ c.kind # "Resource" /\ c \notin References
  BY KindsApart, KeysAssumption DEF ConfigKinds
<1>4. Requests(Call(c.kind, c)) = {c}
  BY <1>2, <1>3 DEF Requests
<1>5. ASSUME NEW o \in UpFront(store[c].spec, RefNamespace(c))
      PROVE  c \in Requests(Call(c.kind, o))
  <2>1. o \in References /\ RefNamespace(c) = o.namespace
          /\ o.name \in Names(o.kind, cache[c].spec)
    BY <1>1 DEF UpFront
  <2>2. Requests(Call(c.kind, o)) = watchReferences(c.kind, o)
    BY <1>2, <2>1, KindsApart DEF Requests
  <2> QED
    BY <1>1, <2>1, <2>2 DEF watchReferences
<1>6. ASSUME NEW r \in Resources, c \in Named(r)
      PROVE  r \in Requests(Call("Resource", c))
  <2>1. Requests(Call("Resource", c)) = enqueueReferencers(c)
    BY <1>2, <1>3 DEF Requests
  <2>2. /\ c.name = points[r].name
        /\ \/ /\ points[r].kind \in {"", "ProviderConfig"}
              /\ c.kind = "ProviderConfig" /\ c.namespace = r.namespace
           \/ points[r].kind = "ClusterProviderConfig" /\ c.kind = points[r].kind
    BY <1>6 DEF Named
  <2>3. points[r] \in [kind : {points[r].kind}, name : {points[r].name}]
    <3>1. points[r] = [kind |-> points[r].kind, name |-> points[r].name]
      BY KeysAssumption DEF TypeOK
    <3> QED
      BY <3>1
  <2>4. providerConfigRefKey(points[r]) \in [kind : {c.kind}, name : {c.name}]
    BY <2>2, <2>3 DEF providerConfigRefKey
  <2>5. providerConfigRefKey(points[r]) = [kind |-> c.kind, name |-> c.name]
    BY <2>4
  <2>6. c.kind = "ProviderConfig" => r.namespace = c.namespace
    BY <2>2
  <2> QED
    BY <2>1, <2>5, <2>6 DEF enqueueReferencers
<1>7. ASSUME NEW r \in Resources PROVE r \in Requests(Call("Resource", r))
  BY <1>2, KindsApart DEF Requests
<1> QED
  BY <1>4, <1>5, <1>6, <1>7

-----------------------------------------------------------------------------
(* From the references to the status of a config *)

\* What ReportsAhead says of config c while no other pass over it is on its way.
Reporting(c) ==
  IF pass[c].pc = "idle"
    THEN Reported(c) \/ (c \in retry /\ spent["faults"] > 0)
    ELSE pass[c].fresh /\ Current(c, c)

\* A step that leaves config c and its pass alone.
LEMMA ReportCarried ==
  ASSUME TypeOK, TypeOK', PassBacked, [Next]_vars, NEW c \in Configs,
         Reporting(c), Steady(c), pass'[c] = pass[c], c \in retry => c \in retry'
  PROVE  Reporting(c)'
<1>1. c \in Keys
  BY DEF Keys
<1>2. Reported(c)' <=> Reported(c)
  BY SteadyTruth
<1>3. spent["faults"] > 0 => spent'["faults"] > 0
  BY SpentGrows DEF Spends
<1>4. pass[c].pc # "idle" /\ Current(c, c) => Current(c, c)'
  BY <1>1, CurrentKept
<1> QED
  BY <1>2, <1>3, <1>4 DEF Reporting

\* A call that is due, or a copy or key that waits, still is.
LEMMA StirredKept ==
  ASSUME NEW c \in Configs, store'[c] = store[c], c \in behind => c \in behind',
         c \in queued => c \in queued', events \subseteq events', Stirred(c)
  PROVE  Stirred(c)'
  BY DEF Stirred

\* The same of a pass over c, while no other pass is on its way.
LEMMA ReportQuiet ==
  ASSUME TypeOK, TypeOK', PassBacked, [Next]_vars, NEW c \in Configs,
         Watched(c) /\ ~Stirred(c) => Reporting(c), Watched(c)', ~Stirred(c)',
         Steady(c), pass'[c] = pass[c], c \in retry => c \in retry',
         c \in behind => c \in behind', c \in queued => c \in queued',
         events \subseteq events'
  PROVE  Reporting(c)'
<1>1. store'[c] = store[c]
  BY DEF Steady
<1>2. Watched(c)
  BY <1>1 DEF Watched
<1>3. ~Stirred(c)
  BY <1>1, StirredKept
<1> QED
  BY <1>2, <1>3, ReportCarried

\* Work on another key.
LEMMA ReportOtherWork ==
  ASSUME TypeOK, NEW k \in Keys, Work(k), NEW c \in Configs, c # k
  PROVE  /\ Steady(c) /\ pass'[c] = pass[c]
         /\ c \in retry <=> c \in retry'
         /\ c \in queued => c \in queued'
         /\ behind \subseteq behind' /\ events' = events
<1>0. DOMAIN pass = Keys /\ DOMAIN store = Configs /\ c \in Keys
  BY DEF TypeOK, Keys
<1> DEFINE Goal == /\ Steady(c) /\ pass'[c] = pass[c]
                   /\ c \in retry <=> c \in retry'
                   /\ c \in queued => c \in queued'
                   /\ behind \subseteq behind' /\ events' = events
<1> SUFFICES Goal
  OBVIOUS
<1>1. ASSUME NEW failed, Finish(k, failed)
      PROVE  pass'[c] = pass[c] /\ (c \in retry <=> c \in retry')
  BY <1>0, <1>1 DEF Finish
<1>2. ASSUME ReconcileConfig(k) PROVE Goal
  BY <1>0, <1>2 DEF ReconcileConfig, Steady
<1>3. ASSUME ReconcileResource(k) PROVE Goal
  BY <1>0, <1>3 DEF ReconcileResource, Steady
<1>4. ASSUME NEW o \in References, NEW fails \in BOOLEAN, ReadReference(k, o, fails)
      PROVE  Goal
  BY <1>0, <1>4, ReadType DEF ReadReference, Steady
<1>5. ASSUME ReportUnmoved(k) \/ UpdateStatusFails(k) \/ UseConfig(k) PROVE Goal
  BY <1>1, <1>5 DEF ReportUnmoved, UpdateStatusFails, UseConfig, Steady
<1>6. ASSUME UpdateStatus(k) PROVE Goal
  BY <1>0, <1>1, <1>6 DEF UpdateStatus, Steady
<1> QED
  BY <1>2, <1>3, <1>4, <1>5, <1>6, Zenon DEF Work

\* A read does not end a pass.
LEMMA ReadGoesOn ==
  ASSUME TypeOK, NEW k \in Keys, NEW o \in References, NEW fails \in BOOLEAN,
         ReadReference(k, o, fails)
  PROVE  pass'[k].pc = "resolving" /\ pass[k].pc = "resolving"
<1>1. /\ pass'[k].pc = "resolving" /\ pass[k].pc = "resolving"
      /\ pass'[k].fresh = pass[k].fresh
      /\ pass'[k].seen = [ x \in DOMAIN pass[k].seen \cup {o} |->
                             IF x = o THEN Get(o, fails) ELSE pass[k].seen[x] ]
  BY ReadType
<1> QED
  BY <1>1

\* One more reading keeps a pass current, or fails and counts.
LEMMA CurrentRead ==
  ASSUME TypeOK, NEW k \in Keys, NEW c \in Configs, NEW o \in References,
         NEW fails \in BOOLEAN, ReadReference(k, o, fails), Current(k, c)
  PROVE  Current(k, c)'
<1>1. /\ pass'[k].config = pass[k].config
      /\ pass'[k].namespace = pass[k].namespace
      /\ pass'[k].seen = [ x \in DOMAIN pass[k].seen \cup {o} |->
                             IF x = o THEN Get(o, fails) ELSE pass[k].seen[x] ]
  BY ReadType
<1>2. /\ pass[k].config.spec = store[c].spec /\ pass[k].namespace = RefNamespace(c)
      /\ \A x \in DOMAIN pass[k].seen :
           \/ pass[k].seen[x] = Get(x, FALSE)
           \/ pass[k].seen[x].code = "ReferenceReadFailed" /\ spent["faults"] > 0
  BY DEF Current
<1>3. store' = store /\ references' = references
  BY DEF ReadReference
<1>4. \A x : Get(x, FALSE)' = Get(x, FALSE)
  BY <1>3 DEF Get
<1>5. spent["faults"] > 0 => spent'["faults"] > 0
  BY SpendType DEF ReadReference, TypeOK, Spends
<1>6. fails => Get(o, fails).code = "ReferenceReadFailed" /\ spent'["faults"] > 0
  BY SpendType DEF ReadReference, TypeOK, Spends, Get, Reading
<1>7. ~fails => Get(o, fails) = Get(o, FALSE)
  OBVIOUS
<1>8. \A x \in DOMAIN pass'[k].seen :
        \/ pass'[k].seen[x] = Get(x, FALSE)'
        \/ pass'[k].seen[x].code = "ReferenceReadFailed" /\ spent'["faults"] > 0
  BY <1>1, <1>2, <1>4, <1>5, <1>6, <1>7
<1> QED
  BY <1>1, <1>2, <1>3, <1>8 DEF Current

\* Work on the config itself.
LEMMA ReportWork ==
  ASSUME TypeOK, TypeOK', PassBacked, CacheBacked, [Next]_vars, NEW c \in Configs,
         Work(c), Watched(c) /\ ~Stirred(c) => Reporting(c), Watched(c)', ~Stirred(c)'
  PROVE  Reporting(c)'
<1>0. c \in Keys /\ DOMAIN pass = Keys
  BY DEF TypeOK, Keys
<1>1. ASSUME ReconcileConfig(c) PROVE Reporting(c)'
  <2>1. UNCHANGED <<store, cache, behind, references>>
    BY <1>1 DEF ReconcileConfig
  <2>2. c \notin behind /\ Watched(c)
    BY <2>1 DEF Stirred, Watched
  <2>3. cache[c] = store[c]
    BY <2>2 DEF CacheBacked
  <2>4. pass'[c] = Begin(c)
    BY <1>0, <1>1, <2>2, <2>3 DEF ReconcileConfig, Watched
  <2>5. Begun(c)
    BY <2>2, <2>3, <2>4, Zenon DEF Begun, Watched
  <2>6. /\ pass'[c].pc = "resolving" /\ pass'[c].seen = Nothing
        /\ pass'[c].namespace = RefNamespace(c) /\ pass'[c].config = cache[c]
    BY <1>0, <2>5, BegunForm
  <2>7. pass'[c].fresh
    BY <1>0, <2>2, <2>5, BegunForm, Zenon
  <2>8. /\ pass'[c].config.spec = store'[c].spec
        /\ DOMAIN pass'[c].seen = {}
    BY <2>1, <2>3, <2>6, BlankTypes
  <2> QED
    BY <2>6, <2>7, <2>8 DEF Reporting, Current
<1>2. ASSUME UNCHANGED <<store, references, behind, queued, events>>, pass[c].pc # "idle"
      PROVE  Steady(c) /\ pass[c].fresh /\ Current(c, c)
  <2>1. Watched(c) /\ Steady(c)
    BY <1>2 DEF Watched, Steady
  <2>2. ~Stirred(c)
    BY <1>2 DEF Stirred
  <2> QED
    BY <1>2, <2>1, <2>2 DEF Reporting
<1>3. ASSUME NEW o \in References, NEW fails \in BOOLEAN, ReadReference(c, o, fails)
      PROVE  Reporting(c)'
  <2>1. pass'[c].pc = "resolving" /\ pass[c].pc = "resolving"
    BY <1>0, <1>3, ReadGoesOn
  <2>2. pass[c].fresh /\ Current(c, c)
    BY <1>2, <1>3, <2>1 DEF ReadReference
  <2>3. pass'[c].fresh
    BY <1>0, <1>3, <2>2, ReadType, Zenon
  <2>4. Current(c, c)'
    BY <1>0, <1>3, <2>2, CurrentRead
  <2> QED
    BY <2>1, <2>3, <2>4 DEF Reporting
<1>4. ASSUME ReportUnmoved(c) PROVE Reporting(c)'
  <2>1. /\ Concluded(c) /\ Rendered(c) = pass[c].config.status
        /\ Finish(c, Result(c).reason # Resolved)
        /\ UNCHANGED <<store, references, behind, queued, events, spent>>
    BY <1>4 DEF ReportUnmoved
  <2>2. Steady(c) /\ pass[c].fresh /\ Current(c, c)
    BY <1>2, <2>1 DEF Concluded
  <2>3. pass[c].config = store[c]
    BY <2>2, FreshIsStored
  <2>4. pass'[c].pc = "idle"
    BY <1>0, <2>1, BlankTypes DEF Finish
  <2>5. CASE Result(c) = Truth(c) /\ Versions(pass[c].seen) = Versions(Present(c))
    <3>1. Reported(c)
      BY <2>1, <2>3, <2>5 DEF Reported, Rendered, SetConditions
    <3> QED
      BY <2>2, <2>4, <3>1, SteadyTruth DEF Reporting
  <2>6. CASE Result(c).reason # Resolved /\ spent["faults"] > 0
    <3>1. c \in retry' /\ spent'["faults"] > 0
      BY <2>1, <2>6 DEF Finish
    <3> QED
      BY <2>4, <3>1 DEF Reporting
  <2> QED
    BY <1>0, <2>1, <2>2, <2>5, <2>6, CurrentResult
<1>5. ASSUME UpdateStatus(c) PROVE Reporting(c)'
  BY <1>5 DEF UpdateStatus, Stirred
<1>6. ASSUME UpdateStatusFails(c) PROVE Reporting(c)'
  <2>1. /\ Concluded(c) /\ Finish(c, TRUE)
        /\ pass[c].fresh => Spend("faults")
        /\ UNCHANGED <<store, references, behind, queued, events>>
    BY <1>6 DEF UpdateStatusFails
  <2>2. Spend("faults")
    BY <1>2, <2>1 DEF Concluded
  <2>3. c \in retry' /\ spent'["faults"] > 0
    BY <2>1, <2>2, SpendType DEF Finish, TypeOK, Spends
  <2>4. pass'[c].pc = "idle"
    BY <1>0, <2>1, BlankTypes DEF Finish
  <2> QED
    BY <2>3, <2>4 DEF Reporting
<1>7. c \notin Resources
  BY KindsApart
<1> QED
  BY <1>1, <1>3, <1>4, <1>5, <1>6, <1>7, Zenon DEF Work

\* A write of a reference moves that reference alone, on to its next version.
LEMMA ReferenceWritten ==
  ASSUME TypeOK, NEW o \in References, NEW exists, NEW data,
         WriteReference(o, exists, data)
  PROVE  /\ references'[o].version = references[o].version + 1
         /\ references[o].version \in Nat
         /\ \A x \in References : x # o => references'[x] = references[x]
         /\ events' = events \cup EventsAbout(o)
         /\ UNCHANGED <<points, store, cache, behind, queued, retry, pass, used>>
<1>1. references[o].version \in Nat
  BY DEF TypeOK, Objects
<1> QED
  BY <1>1 DEF WriteReference, TypeOK

\* Every other step.
LEMMA ReportStep ==
  ASSUME TypeOK, TypeOK', PassBacked, CacheBacked, [Next]_vars, NEW c \in Configs,
         Watched(c) /\ ~Stirred(c) => Reporting(c), Watched(c)', ~Stirred(c)',
         spent'["drops"] = 0
  PROVE  Reporting(c)'
<1>0. c \in Keys /\ DOMAIN pass = Keys /\ DOMAIN store = Configs
  BY DEF TypeOK, Keys
<1>1. c \notin behind' /\ c \notin queued' /\ Call(c.kind, c) \notin events'
  BY DEF Stirred
<1>2. ASSUME NEW k \in Keys, Work(k) PROVE Reporting(c)'
  <2>1. CASE k = c
    BY <1>2, <2>1, ReportWork
  <2>2. CASE k # c
    BY <1>2, <2>2, ReportOtherWork, ReportQuiet
  <2> QED
    BY <2>1, <2>2
<1>3. ASSUME NEW k \in Keys, Retry(k) PROVE Reporting(c)'
  <2>1. k # c
    BY <1>1, <1>3 DEF Retry
  <2>2. /\ Steady(c) /\ pass'[c] = pass[c] /\ (c \in retry => c \in retry')
        /\ behind' = behind /\ (c \in queued => c \in queued') /\ events' = events
    BY <1>3, <2>1 DEF Retry, Steady
  <2> QED
    BY <2>2, ReportQuiet
<1>4. ASSUME NEW e \in events, Handle(e) PROVE Reporting(c)'
  <2>1. /\ UNCHANGED <<store, references, behind, retry, pass>>
        /\ events' = events \ {e} /\ queued' = queued \cup Requests(e)
    BY <1>4 DEF Handle
  <2>2. Watched(c) /\ Steady(c)
    BY <2>1 DEF Watched, Steady
  <2>3. \A k \in {c} \cup UpFront(store[c].spec, RefNamespace(c)) :
          c \in Requests(Call(c.kind, k))
    BY <1>1, <2>1, <2>2, CallsHandled DEF Watched
  <2>4. ~Stirred(c)
    BY <1>1, <2>1, <2>3 DEF Stirred
  <2> QED
    BY <2>1, <2>2, <2>4, ReportCarried
<1>5. ASSUME NEW e \in events, HandleFails(e) PROVE FALSE
  BY <1>5, SpendType DEF HandleFails, TypeOK, Spends
<1>6. ASSUME NEW d \in Configs, Deliver(d) PROVE Reporting(c)'
  <2>1. d # c
    BY <1>1, <1>6, CallsDue DEF Deliver
  <2>2. /\ Steady(c) /\ pass'[c] = pass[c] /\ retry' = retry
        /\ (c \in behind => c \in behind') /\ queued' = queued
        /\ events \subseteq events'
    BY <1>6, <2>1 DEF Deliver, Steady
  <2> QED
    BY <2>2, ReportQuiet
<1>7. CASE Resync \/ UNCHANGED vars
  <2>1. /\ Steady(c) /\ pass'[c] = pass[c] /\ retry' = retry
        /\ behind' = behind /\ queued' = queued /\ events \subseteq events'
    BY <1>7 DEF Resync, vars, Steady
  <2> QED
    BY <2>1, ReportQuiet
<1>8. CASE Crash
  <2>1. cache' = store' /\ events' = AllObjectsAreEvents'
    BY <1>8 DEF Crash
  <2>2. Exists(c)'
    BY <2>1, KindsApart DEF Exists, Watched
  <2>3. EventsAbout(c) \subseteq events'
    BY <1>0, <2>1, <2>2 DEF AllObjectsAreEvents
  <2> QED
    BY <1>1, <2>3, CallsDue
<1>9. ASSUME NEW o \in References, NEW exists, NEW data, WriteReference(o, exists, data)
      PROVE  Reporting(c)'
  <2>1. /\ \A x \in References : x # o => references'[x] = references[x]
        /\ events' = events \cup EventsAbout(o)
        /\ UNCHANGED <<store, behind, queued, retry, pass>>
    BY <1>9, ReferenceWritten
  <2>2. o \notin UpFront(store[c].spec, RefNamespace(c))
    <3>1. Call(c.kind, o) \in events'
      BY <2>1, CallsDue
    <3> QED
      BY <2>1, <3>1 DEF Stirred
  <2>3. Steady(c)
    BY <2>1, <2>2 DEF Steady, UpFront
  <2> QED
    BY <2>1, <2>3, ReportQuiet
<1>10. ASSUME NEW d \in Configs, NEW x, IsConfig(x), WriteConfig(d, x)
       PROVE  Reporting(c)'
  <2>1. d # c
    BY <1>1, <1>10 DEF WriteConfig
  <2>2. /\ Steady(c) /\ pass'[c] = pass[c] /\ retry' = retry
        /\ (c \in behind => c \in behind') /\ queued' = queued /\ events' = events
    BY <1>0, <1>10, <2>1, WriteConfigType DEF WriteConfig, Steady
  <2> QED
    BY <2>2, ReportQuiet
<1>11. ASSUME NEW r \in Resources, NEW ref, PointResource(r, ref) PROVE Reporting(c)'
  <2>1. /\ Steady(c) /\ pass'[c] = pass[c] /\ retry' = retry
        /\ behind' = behind /\ queued' = queued /\ events \subseteq events'
    BY <1>11 DEF PointResource, Steady
  <2> QED
    BY <2>1, ReportQuiet
<1>12. CASE Users
  BY <1>9, <1>10, <1>11, <1>12, ApplyConfigType, DeleteConfigType DEF Users
<1> QED
  BY <1>2, <1>3, <1>4, <1>5, <1>6, <1>7, <1>8, <1>12, Zenon DEF Next

\* ReportsAhead, by config.
LEMMA ReportsAheadStep ==
  ASSUME TypeOK, TypeOK', PassBacked, CacheBacked, ReportsAhead, [Next]_vars
  PROVE  ReportsAhead'
<1>1. spent'["drops"] = 0 => spent["drops"] = 0
  BY SpentGrows DEF Spends
<1>2. ASSUME NEW c \in Configs, spent'["drops"] = 0, Watched(c)', ~Stirred(c)'
      PROVE  Reporting(c)'
  <2>1. Watched(c) /\ ~Stirred(c) => Reporting(c)
    BY <1>1, <1>2 DEF ReportsAhead, Reporting
  <2> QED
    BY <1>2, <2>1, ReportStep
<1> QED
  BY <1>2 DEF ReportsAhead, Reporting

\* At the start every existing config is an event.
LEMMA InitReports == Init => ReportInductive
<1> SUFFICES ASSUME Init PROVE ReportInductive
  OBVIOUS
<1>1. Fingerprints
  BY InitFingerprints
<1>2. ASSUME NEW c \in Configs, Watched(c) PROVE Stirred(c)
  <2>1. cache = store /\ events = AllObjectsAreEvents
    BY DEF Init
  <2>2. Exists(c)
    BY <1>2, <2>1, KindsApart DEF Exists, Watched
  <2>3. EventsAbout(c) \subseteq events
    BY <2>1, <2>2 DEF AllObjectsAreEvents, Keys
  <2> QED
    BY <2>3, CallsDue DEF Stirred
<1> QED
  BY <1>1, <1>2 DEF ReportInductive, ReportsAhead

\* The chain from a reference to the status of a config holds in every
\* reachable state: a handler call is due, a copy is on its way to the cache,
\* the key is queued, or the pass that runs reads what is there now.
THEOREM ReportInductiveHolds == Spec => []ReportInductive
<1>1. ASSUME ReportInductive, [Next]_vars PROVE ReportInductive'
  <2>1. TypeOK /\ PassBacked /\ CacheBacked /\ StatusBacked /\ ReportsAhead
    BY <1>1 DEF ReportInductive, Fingerprints
  <2>2. TypeOK'
    BY <1>1, <2>1, NextType
  <2>3. PassBacked' /\ CacheBacked' /\ ReportsAhead'
    BY <1>1, <2>1, <2>2, PassBackedStep, CacheBackedStep, ReportsAheadStep
  <2>4. StatusBacked'
    BY <1>1, <2>1, <2>2, StatusBackedStep
  <2> QED
    BY <2>2, <2>3, <2>4 DEF ReportInductive, Fingerprints
<1> QED
  BY <1>1, InitReports, PTL DEF Spec

\* RestMeansReported, as long as no event handler dropped an event: with the
\* caches caught up and no handler call due, the status of a config at rest is
\* the truth about its generation and the versions of all it reads.
THEOREM RestMeansReportedHolds ==
  Spec => [](spent["drops"] = 0 => RestMeansReported)
<1>1. ReportInductive => (spent["drops"] = 0 => RestMeansReported)
  <2> SUFFICES ASSUME ReportInductive, spent["drops"] = 0, NEW c \in Configs,
                      Rests(c), Watched(c)
               PROVE  Reported(c)
    BY DEF RestMeansReported
  <2>1. ~Stirred(c) /\ pass[c].pc = "idle"
    BY DEF Rests, Stirred
  <2>2. Reported(c) \/ (c \in retry /\ spent["faults"] > 0)
    BY <2>1 DEF ReportInductive, ReportsAhead
  <2>3. c \in retry => spent["faults"] = 0
    BY DEF Rests
  <2> QED
    BY <2>2, <2>3
<1> QED
  BY <1>1, ReportInductiveHolds, PTL

-----------------------------------------------------------------------------
(* From the status of a config to the resources *)

\* What UsesAhead says of resource r and the config it names while no other pass
\* over r is on its way.
Using(r, c) ==
  IF pass[r].pc = "idle"
    THEN used[r] = Truth(c) \/ (r \in retry /\ spent["faults"] > 0)
    ELSE Current(r, c)

\* The config c is what r should use.
Due(r, c) == c \in Named(r) /\ Watched(c) /\ Reported(c) /\ Complete(c)

\* A step that leaves the config, the resource and its pass alone.
LEMMA UseCarried ==
  ASSUME TypeOK, TypeOK', PassBacked, [Next]_vars, NEW r \in Resources,
         NEW c \in Configs, Using(r, c), Steady(c), pass'[r] = pass[r],
         used'[r] = used[r], r \in retry => r \in retry'
  PROVE  Using(r, c)'
<1>1. r \in Keys
  BY DEF Keys
<1>2. Truth(c)' = Truth(c)
  BY SteadyTruth
<1>3. spent["faults"] > 0 => spent'["faults"] > 0
  BY SpentGrows DEF Spends
<1>4. pass[r].pc # "idle" /\ Current(r, c) => Current(r, c)'
  BY <1>1, CurrentKept
<1> QED
  BY <1>2, <1>3, <1>4 DEF Using

\* What is due stays due while the config and the ref are left alone.
LEMMA DueSteady ==
  ASSUME TypeOK, TypeOK', NEW r \in Resources, NEW c \in Configs,
         Steady(c), points'[r] = points[r]
  PROVE  Due(r, c)' <=> Due(r, c)
<1>1. (Reported(c)' <=> Reported(c)) /\ (Complete(c)' <=> Complete(c))
  BY SteadyTruth
<1>2. Watched(c)' <=> Watched(c)
  BY DEF Watched, Steady
<1>3. c \in Named(r)' <=> c \in Named(r)
  BY DEF Named
<1> QED
  BY <1>1, <1>2, <1>3 DEF Due

\* The same of a pass over r, while no other pass is on its way.
LEMMA UseQuiet ==
  ASSUME TypeOK, TypeOK', PassBacked, [Next]_vars, NEW r \in Resources,
         NEW c \in Configs, Due(r, c) /\ ~Called(r, c) => Using(r, c),
         Due(r, c)', ~Called(r, c)', Steady(c), points'[r] = points[r],
         pass'[r] = pass[r], used'[r] = used[r], r \in retry => r \in retry',
         c \in behind => c \in behind', r \in queued => r \in queued',
         events \subseteq events'
  PROVE  Using(r, c)'
<1>1. Due(r, c)
  BY DueSteady
<1>2. ~Called(r, c)
  BY DEF Called
<1> QED
  BY <1>1, <1>2, UseCarried

\* A ref names one config.
LEMMA NamedOnce ==
  ASSUME NEW r \in Resources, NEW c \in Named(r), NEW d \in Named(r)
  PROVE  c = d
<1>1. ASSUME NEW x \in Named(r)
      PROVE  /\ x \in Configs /\ x.name = points[r].name
             /\ \/ /\ points[r].kind \in {"", "ProviderConfig"}
                   /\ x.kind = "ProviderConfig" /\ x.namespace = r.namespace
                \/ /\ points[r].kind = "ClusterProviderConfig"
                   /\ x.kind = "ClusterProviderConfig"
  BY DEF Named
<1>2. /\ c \in Configs /\ d \in Configs /\ c.name = d.name /\ c.kind = d.kind
      /\ c.kind = "ClusterProviderConfig" \/ c.namespace = d.namespace
  BY <1>1
<1>3. /\ c = [kind |-> c.kind, namespace |-> c.namespace, name |-> c.name]
      /\ d = [kind |-> d.kind, namespace |-> d.namespace, name |-> d.name]
      /\ c.kind = "ClusterProviderConfig" => c = d
  BY <1>2, KeysAssumption
<1> QED
  BY <1>2, <1>3

\* Work on another key.
LEMMA UseOtherWork ==
  ASSUME TypeOK, NEW k \in Keys, Work(k), NEW r \in Resources, r # k,
         NEW c \in Configs, c \notin behind'
  PROVE  /\ Steady(c) /\ points'[r] = points[r]
         /\ pass'[r] = pass[r] /\ used'[r] = used[r]
         /\ r \in retry => r \in retry'
         /\ r \in queued => r \in queued'
         /\ behind \subseteq behind' /\ events' = events
<1>0. DOMAIN pass = Keys /\ DOMAIN store = Configs /\ r \in Keys /\ DOMAIN used = Resources
  BY DEF TypeOK, Keys
<1> DEFINE Goal == /\ Steady(c) /\ points'[r] = points[r]
                   /\ pass'[r] = pass[r] /\ used'[r] = used[r]
                   /\ r \in retry => r \in retry'
                   /\ r \in queued => r \in queued'
                   /\ behind \subseteq behind' /\ events' = events
<1> SUFFICES Goal
  OBVIOUS
<1>1. ASSUME NEW failed, Finish(k, failed)
      PROVE  pass'[r] = pass[r] /\ (r \in retry => r \in retry')
  BY <1>0, <1>1 DEF Finish
<1>2. ASSUME ReconcileConfig(k) PROVE Goal
  BY <1>0, <1>2 DEF ReconcileConfig, Steady
<1>3. ASSUME ReconcileResource(k) PROVE Goal
  BY <1>0, <1>3 DEF ReconcileResource, Steady
<1>4. ASSUME NEW o \in References, NEW fails \in BOOLEAN, ReadReference(k, o, fails)
      PROVE  Goal
  BY <1>0, <1>4, ReadType DEF ReadReference, Steady
<1>5. ASSUME ReportUnmoved(k) \/ UpdateStatusFails(k) PROVE Goal
  BY <1>1, <1>5 DEF ReportUnmoved, UpdateStatusFails, Steady
<1>6. ASSUME UseConfig(k) PROVE Goal
  BY <1>0, <1>1, <1>6 DEF UseConfig, Steady
<1>7. ASSUME UpdateStatus(k) PROVE Goal
  BY <1>0, <1>1, <1>7 DEF UpdateStatus, Steady
<1> QED
  BY <1>2, <1>3, <1>4, <1>5, <1>6, <1>7, Zenon DEF Work

\* Work on the resource itself.
LEMMA UseWork ==
  ASSUME TypeOK, TypeOK', PassBacked, CacheBacked, [Next]_vars, NEW r \in Resources,
         NEW c \in Configs, Work(r), Due(r, c) /\ ~Called(r, c) => Using(r, c),
         Due(r, c)', ~Called(r, c)'
  PROVE  Using(r, c)'
<1>0. r \in Keys /\ DOMAIN pass = Keys /\ DOMAIN used = Resources
  BY DEF TypeOK, Keys
<1>1. ASSUME ReconcileResource(r) PROVE Using(r, c)'
  <2>1. UNCHANGED <<store, cache, behind, references, points>>
    BY <1>1 DEF ReconcileResource
  <2>2. c \notin behind /\ Watched(c) /\ c \in Named(r)
    BY <2>1 DEF Called, Due, Watched, Named
  <2>3. cache[c] = store[c] /\ cache[c].exists
    BY <2>2 DEF CacheBacked, Watched
  <2>4. PICK d \in Named(r) :
          pass' = [pass EXCEPT ![r] = [Begin(d) EXCEPT !.fresh = FALSE,
                     !.config = [Absent EXCEPT !.spec = cache[d].spec]]]
    BY <1>1, <2>2, <2>3 DEF ReconcileResource
  <2>5. d = c
    BY <2>2, NamedOnce
  <2>6. pass'[r] = [Begin(c) EXCEPT !.fresh = FALSE,
                      !.config = [Absent EXCEPT !.spec = cache[c].spec]]
    BY <1>0, <2>4, <2>5
  <2>7. /\ pass'[r].pc = "resolving" /\ pass'[r].seen = Nothing
        /\ pass'[r].config.spec = cache[c].spec
        /\ pass'[r].namespace = RefNamespace(c)
    BY <2>6, BegunOver
  <2>8. pass'[r].config.spec = store'[c].spec /\ DOMAIN pass'[r].seen = {}
    BY <2>1, <2>3, <2>7, BlankTypes
  <2> QED
    BY <2>7, <2>8 DEF Using, Current
<1>2. ASSUME UNCHANGED <<store, references, points, behind, queued, events>>,
             pass[r].pc # "idle"
      PROVE  Steady(c) /\ Current(r, c)
  <2>1. Steady(c)
    BY <1>2 DEF Steady
  <2>2. Due(r, c)
    BY <1>2, <2>1, DueSteady
  <2>3. ~Called(r, c)
    BY <1>2 DEF Called
  <2> QED
    BY <1>2, <2>1, <2>2, <2>3 DEF Using
<1>3. ASSUME NEW o \in References, NEW fails \in BOOLEAN, ReadReference(r, o, fails)
      PROVE  Using(r, c)'
  <2>1. pass'[r].pc = "resolving" /\ pass[r].pc = "resolving"
    BY <1>0, <1>3, ReadGoesOn
  <2>2. Current(r, c)
    BY <1>2, <1>3, <2>1 DEF ReadReference
  <2>3. Current(r, c)'
    BY <1>0, <1>3, <2>2, CurrentRead
  <2> QED
    BY <2>1, <2>3 DEF Using
<1>4. ASSUME UseConfig(r) PROVE Using(r, c)'
  <2>1. /\ Concluded(r) /\ Finish(r, Result(r).reason # Resolved)
        /\ used'[r] = Result(r)
        /\ UNCHANGED <<store, references, points, behind, queued, events, spent>>
    BY <1>0, <1>4 DEF UseConfig
  <2>2. Steady(c) /\ Current(r, c)
    BY <1>2, <2>1 DEF Concluded
  <2>3. pass'[r].pc = "idle"
    BY <1>0, <2>1, BlankTypes DEF Finish
  <2>4. Truth(c)' = Truth(c)
    BY <2>2, SteadyTruth
  <2>5. CASE Result(r) = Truth(c)
    BY <2>1, <2>3, <2>4, <2>5 DEF Using
  <2>6. CASE Result(r).reason # Resolved /\ spent["faults"] > 0
    <3>1. r \in retry' /\ spent'["faults"] > 0
      BY <2>1, <2>6 DEF Finish
    <3> QED
      BY <2>3, <3>1 DEF Using
  <2> QED
    BY <1>0, <2>1, <2>2, <2>5, <2>6, CurrentResult
<1>5. r \notin Configs
  BY KindsApart
<1> QED
  BY <1>1, <1>3, <1>4, <1>5, Zenon DEF Work

\* The status of a config names no version of what a write has just moved: a
\* config that is complete after the write is not reported yet.
LEMMA WriteUnreports ==
  ASSUME TypeOK, TypeOK', StatusBacked, NEW c \in Configs,
         NEW o \in UpFront(store[c].spec, RefNamespace(c)),
         NEW exists, NEW data, WriteReference(o, exists, data)
  PROVE  ~(Reported(c)' /\ Complete(c)')
<1> DEFINE spec == store[c].spec
           ns == RefNamespace(c)
<1>0. spec \in Specs /\ o \in References
  BY DEF TypeOK, IsConfig, UpFront
<1>1. /\ store' = store
      /\ references'[o].version = references[o].version + 1
      /\ references[o].version \in Nat
  BY <1>0, ReferenceWritten
<1>2. (TypeOK => TruthAboutAll)'
  BY TruthForms, PTL
<1>3. /\ Reported(c)' => store'[c].status.versions = VersionsNow(spec, ns)'
      /\ Complete(c)' => \A f \in Fields : spec[f].from \in ReferenceKinds =>
                           (Now(spec, ns)')[f].code = Resolved
  <2>1. /\ Reported(c)' =>
             store'[c].status = SetConditions(store'[c].gen, VersionsNow(spec, ns)',
                                  Resolving(store'[c].spec, Now(spec, ns)'))
        /\ Complete(c)' =>
             \A f \in Fields : store'[c].spec[f].from \in ReferenceKinds =>
               (Now(spec, ns)')[f].code = Resolved
    BY <1>2 DEF TruthAboutAll, TruthAbout
  <2>2. \A gen, versions, outcome :
          SetConditions(gen, versions, outcome).versions = versions
    BY DEF SetConditions
  <2> HIDE DEF ns
  <2> QED
    BY <1>1, <2>1, <2>2
<1>4. Complete(c)' => references'[o].exists
  <2>1. PICK f \in Fields : spec[f].from \in ReferenceKinds /\ o = SourceOf(spec, ns, f)
    BY <1>0, UpFrontSources
  <2>2. (Now(spec, ns)')[f] = Get(o, FALSE)'
    BY <1>1, <2>1 DEF Now
  <2>3. Get(o, FALSE)'.code = Resolved => references'[o].exists
    BY DEF Get, Reading, Resolved
  <2> QED
    BY <1>3, <2>1, <2>2, <2>3
<1>5. ASSUME Reported(c)', references'[o].exists PROVE FALSE
  <2>1. /\ o \in DOMAIN VersionsNow(spec, ns)'
        /\ (VersionsNow(spec, ns)')[o] = references'[o].version
    BY <1>1, <1>5 DEF VersionsNow
  <2>2. o \in DOMAIN store[c].status.versions =>
          store[c].status.versions[o] <= references[o].version
    BY DEF StatusBacked
  <2> QED
    BY <1>1, <1>3, <1>5, <2>1, <2>2
<1> QED
  BY <1>4, <1>5

\* Every other step.
LEMMA UseStep ==
  ASSUME TypeOK, TypeOK', PassBacked, CacheBacked, StatusBacked, [Next]_vars,
         NEW r \in Resources, NEW c \in Configs,
         Due(r, c) /\ ~Called(r, c) => Using(r, c), Due(r, c)', ~Called(r, c)',
         spent'["drops"] = 0
  PROVE  Using(r, c)'
<1>0. r \in Keys /\ DOMAIN store = Configs /\ DOMAIN points = Resources
  BY DEF TypeOK, Keys
<1>1. /\ c \notin behind' /\ r \notin queued'
      /\ Call("Resource", c) \notin events' /\ Call("Resource", r) \notin events'
  BY DEF Called
<1>2. ASSUME NEW k \in Keys, Work(k) PROVE Using(r, c)'
  <2>1. CASE k = r
    BY <1>2, <2>1, UseWork
  <2>2. CASE k # r
    BY <1>1, <1>2, <2>2, UseOtherWork, UseQuiet
  <2> QED
    BY <2>1, <2>2
<1>3. ASSUME NEW k \in Keys, Retry(k) PROVE Using(r, c)'
  <2>1. k # r
    BY <1>1, <1>3 DEF Retry
  <2>2. /\ Steady(c) /\ points' = points /\ pass' = pass /\ used' = used
        /\ (r \in retry => r \in retry') /\ behind' = behind
        /\ (r \in queued => r \in queued') /\ events' = events
    BY <1>3, <2>1 DEF Retry, Steady
  <2> QED
    BY <2>2, UseQuiet
<1>4. ASSUME NEW e \in events, Handle(e) PROVE Using(r, c)'
  <2>1. /\ UNCHANGED <<store, references, points, behind, retry, pass, used>>
        /\ events' = events \ {e} /\ queued' = queued \cup Requests(e)
    BY <1>4 DEF Handle
  <2>2. Steady(c)
    BY <2>1 DEF Steady
  <2>3. Due(r, c)
    BY <2>1, <2>2, DueSteady
  <2>4. r \in Requests(Call("Resource", c)) /\ r \in Requests(Call("Resource", r))
    BY <1>1, <2>1, <2>3, CallsHandled DEF Due, Watched
  <2>5. ~Called(r, c)
    BY <1>1, <2>1, <2>4 DEF Called
  <2> QED
    BY <2>1, <2>2, <2>3, <2>5, UseCarried
<1>5. ASSUME NEW e \in events, HandleFails(e) PROVE FALSE
  BY <1>5, SpendType DEF HandleFails, TypeOK, Spends
<1>6. ASSUME NEW d \in Configs, Deliver(d) PROVE Using(r, c)'
  <2>1. d # c
    BY <1>1, <1>6, CallsDue DEF Deliver
  <2>2. /\ Steady(c) /\ points' = points /\ pass' = pass /\ used' = used
        /\ retry' = retry /\ (c \in behind => c \in behind') /\ queued' = queued
        /\ events \subseteq events'
    BY <1>6, <2>1 DEF Deliver, Steady
  <2> QED
    BY <2>2, UseQuiet
<1>7. CASE Resync \/ UNCHANGED vars
  <2>1. /\ Steady(c) /\ points' = points /\ pass' = pass /\ used' = used
        /\ retry' = retry /\ behind' = behind /\ queued' = queued
        /\ events \subseteq events'
    BY <1>7 DEF Resync, vars, Steady
  <2> QED
    BY <2>1, UseQuiet
<1>8. CASE Crash
  <2>1. events' = AllObjectsAreEvents'
    BY <1>8 DEF Crash
  <2>2. Exists(r)'
    BY KindsApart DEF Exists
  <2>3. EventsAbout(r) \subseteq events'
    BY <1>0, <2>1, <2>2 DEF AllObjectsAreEvents
  <2> QED
    BY <1>1, <2>3, CallsDue
<1>9. ASSUME NEW o \in References, NEW exists, NEW data, WriteReference(o, exists, data)
      PROVE  Using(r, c)'
  <2>1. /\ \A x \in References : x # o => references'[x] = references[x]
        /\ events' = events \cup EventsAbout(o)
        /\ UNCHANGED <<points, store, behind, queued, retry, pass, used>>
    BY <1>9, ReferenceWritten
  <2>2. o \notin UpFront(store[c].spec, RefNamespace(c))
    BY <1>9, WriteUnreports DEF Due
  <2>3. Steady(c)
    BY <2>1, <2>2 DEF Steady, UpFront
  <2> QED
    BY <2>1, <2>3, UseQuiet
<1>10. ASSUME NEW d \in Configs, NEW x, IsConfig(x), WriteConfig(d, x)
       PROVE  Using(r, c)'
  <2>1. d # c
    BY <1>1, <1>10 DEF WriteConfig
  <2>2. r # d
    BY KindsApart
  <2>3. /\ Steady(c) /\ points' = points /\ pass'[r] = pass[r] /\ used' = used
        /\ retry' = retry /\ (c \in behind => c \in behind') /\ queued' = queued
        /\ events' = events
    BY <1>0, <1>10, <2>1, <2>2, WriteConfigType DEF WriteConfig, Steady
  <2> QED
    BY <2>3, UseQuiet
<1>11. ASSUME NEW s \in Resources, NEW ref, PointResource(s, ref) PROVE Using(r, c)'
  <2>1. s # r
    BY <1>1, <1>11, CallsDue DEF PointResource
  <2>2. /\ Steady(c) /\ points'[r] = points[r] /\ pass' = pass /\ used' = used
        /\ retry' = retry /\ behind' = behind /\ queued' = queued
        /\ events \subseteq events'
    BY <1>0, <1>11, <2>1 DEF PointResource, Steady
  <2> QED
    BY <2>2, UseQuiet
<1>12. CASE Users
  BY <1>9, <1>10, <1>11, <1>12, ApplyConfigType, DeleteConfigType DEF Users
<1> QED
  BY <1>2, <1>3, <1>4, <1>5, <1>6, <1>7, <1>8, <1>12, Zenon DEF Next

\* UsesAhead, by resource and config.
LEMMA UsesAheadStep ==
  ASSUME TypeOK, TypeOK', PassBacked, CacheBacked, StatusBacked, UsesAhead,
         [Next]_vars
  PROVE  UsesAhead'
<1>1. spent'["drops"] = 0 => spent["drops"] = 0
  BY SpentGrows DEF Spends
<1>2. ASSUME NEW r \in Resources, NEW c \in Configs, spent'["drops"] = 0,
             Due(r, c)', ~Called(r, c)'
      PROVE  Using(r, c)'
  <2>1. Due(r, c) /\ ~Called(r, c) => Using(r, c)
    BY <1>1, <1>2 DEF UsesAhead, Due, Using
  <2> QED
    BY <1>2, <2>1, UseStep
<1> QED
  BY <1>2 DEF UsesAhead, Due, Using

\* At the start every resource is an event.
LEMMA InitUses == Init => UseInductive
<1> SUFFICES ASSUME Init PROVE UseInductive
  OBVIOUS
<1>1. ReportInductive
  BY InitReports
<1>2. ASSUME NEW r \in Resources, NEW c \in Configs PROVE Called(r, c)
  <2>1. Exists(r)
    BY KindsApart DEF Exists
  <2>2. EventsAbout(r) \subseteq events
    BY <2>1 DEF Init, AllObjectsAreEvents, Keys
  <2> QED
    BY <2>2, CallsDue DEF Called
<1> QED
  BY <1>1, <1>2 DEF UseInductive, UsesAhead

\* The chain from a reference over the status of a config to the resources that
\* name it holds in every reachable state.
THEOREM UseInductiveHolds == Spec => []UseInductive
<1>1. ASSUME UseInductive, ReportInductive', [Next]_vars PROVE UseInductive'
  <2>1. /\ TypeOK /\ PassBacked /\ CacheBacked /\ StatusBacked /\ UsesAhead
        /\ TypeOK'
    BY <1>1 DEF UseInductive, ReportInductive, Fingerprints
  <2>2. UsesAhead'
    BY <1>1, <2>1, UsesAheadStep
  <2> QED
    BY <1>1, <2>2 DEF UseInductive
<1> QED
  BY <1>1, InitUses, ReportInductiveHolds, PTL DEF Spec

\* RestMeansUsed, as long as no event handler dropped an event: a resource at
\* rest has used what the config it names resolves to now, whatever rotations,
\* edits, stale passes, refused writes and restarts came before.
THEOREM RestMeansUsedHolds ==
  Spec => [](spent["drops"] = 0 => RestMeansUsed)
<1>1. UseInductive => (spent["drops"] = 0 => RestMeansUsed)
  <2> SUFFICES ASSUME UseInductive, spent["drops"] = 0, NEW r \in Resources,
                      NEW c \in Configs, Rests(r), Rests(c), c \in Named(r),
                      Watched(c), Complete(c)
               PROVE  used[r] = Truth(c)
    BY DEF RestMeansUsed
  <2>1. /\ ~Stirred(c) /\ ~Called(r, c)
        /\ pass[c].pc = "idle" /\ pass[r].pc = "idle"
    BY DEF Rests, Stirred, Called
  <2>2. (c \in retry => spent["faults"] = 0) /\ (r \in retry => spent["faults"] = 0)
    BY DEF Rests
  <2>3. Reported(c)
    BY <2>1, <2>2 DEF UseInductive, ReportInductive, ReportsAhead
  <2>4. used[r] = Truth(c) \/ (r \in retry /\ spent["faults"] > 0)
    BY <2>1, <2>3 DEF UseInductive, UsesAhead
  <2> QED
    BY <2>2, <2>4
<1> QED
  BY <1>1, UseInductiveHolds, PTL

=============================================================================
