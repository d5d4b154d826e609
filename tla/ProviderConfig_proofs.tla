----------------------- MODULE ProviderConfig_proofs -----------------------
(***************************************************************************)
(* The safety properties of ProviderConfig for any number of configs,      *)
(* resources, references, writes and failures.                             *)
(***************************************************************************)
EXTENDS ProviderConfig, TLAPS

-----------------------------------------------------------------------------
(* Resolution as a function of what the three fields' sources answer *)

Sourcing(source, found) ==
  IF found.code # Resolved THEN Unresolved(found.code)
  ELSE IF source.key \notin DOMAIN found.object.data
         THEN Unresolved("KeyNotFound")
         ELSE Outcome(Resolved, found.object.data[source.key])

Valued(source, found) ==
  CASE source.from = "none" -> Unresolved("SpecInvalid")
    [] source.from = "value" ->
         IF source.value = Empty THEN Unresolved("SpecInvalid")
         ELSE Trim(Outcome(Resolved, source.value))
    [] OTHER -> Trim(Sourcing(source, found))

Endpointed(spec, F) ==
  LET raw == Valued(spec.endpoint, F["endpoint"])
  IN Require(raw, raw.values \in URLs, "EndpointInvalid")

Credited(spec, F) ==
  LET credential == Valued(spec.header, F["header"])
  IN Require(credential, credential.values # Empty, "ValueEmpty")

Trusted(spec, F) ==
  LET bundle == Sourcing(spec.ca, F["ca"])
  IN IF spec.ca.from = "none" THEN Outcome(Resolved, Nothing)
     ELSE Require(bundle, bundle.values \in Bundles, "CABundleInvalid")

\* Resolve, with the answer of each field's source in F.
Resolving(spec, F) ==
  LET e == Endpointed(spec, F)
      a == Credited(spec, F)
      t == Trusted(spec, F)
  IN CASE e.reason # Resolved -> e
       [] e.reason = Resolved /\ a.reason # Resolved -> a
       [] e.reason = Resolved /\ a.reason = Resolved /\ t.reason # Resolved -> t
       [] OTHER -> Outcome(Resolved, [endpoint |-> e.values, header |-> a.values,
                                      ca |-> t.values])

SourceOf(spec, ns, f) == Ref(spec[f].from, ns, spec[f].name)

Found(spec, ns, seen) ==
  [f \in Fields |-> IF spec[f].from \in ReferenceKinds
                      THEN Lookup(seen, SourceOf(spec, ns, f)) ELSE NoReason]

\* Resolve sees its readings only through the sources of the three fields.
LEMMA ResolveBy ==
  ASSUME NEW spec \in Specs, NEW ns, NEW seen
  PROVE  Resolve(spec, ns, seen) = Resolving(spec, Found(spec, ns, seen))
<1> DEFINE F == Found(spec, ns, seen)
<1>0. /\ spec.endpoint = spec["endpoint"] /\ spec.header = spec["header"]
      /\ spec.ca = spec["ca"]
  OBVIOUS
<1>1. \A f \in Fields : spec[f].from \in ReferenceKinds =>
        F[f] = Lookup(seen, Ref(spec[f].from, ns, spec[f].name))
  BY DEF Found, SourceOf
<1>2. \A f \in Fields : spec[f].from \in {"none", "value"} \cup ReferenceKinds
  BY SpecsAssumption
<1>3. spec["ca"].from \in {"none", "Secret"}
  BY SpecsAssumption
<1> HIDE DEF F
<1>4. value(spec.endpoint, ns, seen) = Valued(spec.endpoint, F["endpoint"])
  BY <1>1, <1>2 DEF value, Valued, Sourced, Sourcing, Fields
<1>5. value(spec.header, ns, seen) = Valued(spec.header, F["header"])
  BY <1>1, <1>2 DEF value, Valued, Sourced, Sourcing, Fields
<1>6. trust(spec, ns, seen) = Trusted(spec, F)
  BY <1>1, <1>3 DEF trust, Trusted, Sourced, Sourcing, Fields, ReferenceKinds
<1>7. endpoint(spec, ns, seen) = Endpointed(spec, F)
  BY <1>4 DEF endpoint, Endpointed
<1>8. authentication(spec, ns, seen) = Credited(spec, F)
  BY <1>5 DEF authentication, Credited
<1> QED
  BY <1>6, <1>7, <1>8 DEF Resolve, Resolving, F

\* The reason of a field is a code of its own, that of its source, or Resolved.
LEMMA FieldReason ==
  ASSUME NEW spec \in Specs, NEW F
  PROVE  /\ \/ Endpointed(spec, F).reason
                 \in {Resolved, "SpecInvalid", "KeyNotFound", "EndpointInvalid"}
            \/ /\ spec["endpoint"].from \in ReferenceKinds
               /\ F["endpoint"].code # Resolved
               /\ Endpointed(spec, F).reason = F["endpoint"].code
         /\ \/ Credited(spec, F).reason
                 \in {Resolved, "SpecInvalid", "KeyNotFound", "ValueEmpty"}
            \/ /\ spec["header"].from \in ReferenceKinds
               /\ F["header"].code # Resolved
               /\ Credited(spec, F).reason = F["header"].code
         /\ \/ Trusted(spec, F).reason
                 \in {Resolved, "KeyNotFound", "CABundleInvalid"}
            \/ /\ spec["ca"].from \in ReferenceKinds
               /\ F["ca"].code # Resolved
               /\ Trusted(spec, F).reason = F["ca"].code
<1>0. /\ spec.endpoint = spec["endpoint"] /\ spec.header = spec["header"]
      /\ spec.ca = spec["ca"]
  OBVIOUS
<1>1. /\ \A f \in Fields : spec[f].from \in {"none", "value"} \cup ReferenceKinds
      /\ spec["ca"].from \in {"none", "Secret"}
  BY SpecsAssumption
<1>2. ASSUME NEW source, NEW found,
             source.from \in {"none", "value"} \cup ReferenceKinds
      PROVE  \/ Valued(source, found).reason \in {Resolved, "SpecInvalid", "KeyNotFound"}
             \/ /\ source.from \in ReferenceKinds
                /\ found.code # Resolved
                /\ Valued(source, found).reason = found.code
  BY <1>2 DEF Valued, Sourcing, Trim, Unresolved, Outcome, ReferenceKinds
<1>3. ASSUME NEW o, NEW good, NEW code
      PROVE  Require(o, good, code).reason \in {o.reason, code}
  BY DEF Require, Unresolved, Outcome
<1>4. Endpointed(spec, F).reason
        \in {Valued(spec.endpoint, F["endpoint"]).reason, "EndpointInvalid"}
  BY <1>3 DEF Endpointed
<1>5. Credited(spec, F).reason
        \in {Valued(spec.header, F["header"]).reason, "ValueEmpty"}
  BY <1>3 DEF Credited
<1>6. \/ Trusted(spec, F).reason \in {Resolved, "KeyNotFound", "CABundleInvalid"}
      \/ /\ spec["ca"].from \in ReferenceKinds
         /\ F["ca"].code # Resolved
         /\ Trusted(spec, F).reason = F["ca"].code
  BY <1>0, <1>1 DEF Trusted, Require, Sourcing, Unresolved, Outcome, ReferenceKinds
<1> QED
  BY <1>0, <1>1, <1>2, <1>4, <1>5, <1>6 DEF Fields

\* A resolution ends in one of the codes, if its sources answer with them.
LEMMA ResolvingType ==
  ASSUME NEW spec \in Specs, NEW F,
         \A f \in Fields : spec[f].from \in ReferenceKinds =>
           F[f].code \in Codes \cup {Resolved}
  PROVE  Resolving(spec, F).reason \in Codes \cup {Resolved}
<1>1. /\ Endpointed(spec, F).reason \in Codes \cup {Resolved}
      /\ Credited(spec, F).reason \in Codes \cup {Resolved}
      /\ Trusted(spec, F).reason \in Codes \cup {Resolved}
  BY FieldReason DEF Fields, Codes
<1> QED
  BY <1>1 DEF Resolving, Outcome

\* A field whose source did not answer is not resolved.
LEMMA FieldNeedsSource ==
  ASSUME NEW spec \in Specs, NEW F
  PROVE  /\ spec["endpoint"].from \in ReferenceKinds /\ F["endpoint"].code # Resolved
              => Endpointed(spec, F).reason = F["endpoint"].code
         /\ spec["header"].from \in ReferenceKinds /\ F["header"].code # Resolved
              => Credited(spec, F).reason = F["header"].code
         /\ spec["ca"].from \in ReferenceKinds /\ F["ca"].code # Resolved
              => Trusted(spec, F).reason = F["ca"].code
<1>0. /\ spec.endpoint = spec["endpoint"] /\ spec.header = spec["header"]
      /\ spec.ca = spec["ca"]
  OBVIOUS
<1>1. ASSUME NEW source, NEW found,
             source.from \in ReferenceKinds, found.code # Resolved
      PROVE  Valued(source, found).reason = found.code
  BY <1>1 DEF Valued, Sourcing, Trim, Unresolved, Outcome, ReferenceKinds
<1>2. ASSUME NEW o, NEW good, NEW code, o.reason # Resolved
      PROVE  Require(o, good, code) = o
  BY <1>2 DEF Require
<1>3. ASSUME NEW source, NEW found, found.code # Resolved
      PROVE  Sourcing(source, found).reason = found.code
  BY <1>3 DEF Sourcing, Unresolved, Outcome
<1> QED
  BY <1>0, <1>1, <1>2, <1>3 DEF Endpointed, Credited, Trusted, ReferenceKinds

\* Only a resolution that read all its sources is Resolved.
LEMMA ResolvedReadAll ==
  ASSUME NEW spec \in Specs, NEW F, Resolving(spec, F).reason = Resolved
  PROVE  \A f \in Fields : spec[f].from \in ReferenceKinds => F[f].code = Resolved
<1>1. /\ Endpointed(spec, F).reason = Resolved
      /\ Credited(spec, F).reason = Resolved
      /\ Trusted(spec, F).reason = Resolved
  BY DEF Resolving
<1> QED
  BY <1>1, FieldNeedsSource DEF Fields

\* The first failure decides: readings that differ only where one failed
\* resolve alike, unless the failed one is the verdict.
LEMMA FirstFailure ==
  ASSUME NEW spec \in Specs, NEW F, NEW G,
         \A f \in Fields : spec[f].from \in ReferenceKinds =>
           F[f] = G[f] \/ F[f].code = "ReferenceReadFailed",
         Resolving(spec, F).reason # "ReferenceReadFailed"
  PROVE  Resolving(spec, F) = Resolving(spec, G)
<1> DEFINE Alike(f) == spec[f].from \in ReferenceKinds => F[f] = G[f]
<1>0. /\ spec.endpoint = spec["endpoint"] /\ spec.header = spec["header"]
      /\ spec.ca = spec["ca"]
  OBVIOUS
<1>1. /\ \A f \in Fields : spec[f].from \in {"none", "value"} \cup ReferenceKinds
      /\ spec["ca"].from \in {"none", "Secret"}
  BY SpecsAssumption
<1>2. /\ Alike("endpoint") => Endpointed(spec, F) = Endpointed(spec, G)
      /\ Alike("header") => Credited(spec, F) = Credited(spec, G)
  BY <1>0, <1>1 DEF Endpointed, Credited, Valued, Fields
<1>3. Alike("ca") => Trusted(spec, F) = Trusted(spec, G)
  BY <1>0, <1>1 DEF Trusted, ReferenceKinds
<1>4. /\ ~Alike("endpoint") => Endpointed(spec, F).reason = "ReferenceReadFailed"
      /\ ~Alike("header") => Credited(spec, F).reason = "ReferenceReadFailed"
      /\ ~Alike("ca") => Trusted(spec, F).reason = "ReferenceReadFailed"
  BY FieldNeedsSource DEF Fields, Resolved
<1> HIDE DEF Alike
<1> QED
  BY <1>2, <1>3, <1>4 DEF Resolving, Resolved

-----------------------------------------------------------------------------
(* Types *)

\* What is there before anything is written has its type.
LEMMA BlankTypes ==
  /\ DOMAIN Nothing = {}
  /\ Missing \in Objects
  /\ AnySpec \in Specs
  /\ IsStatus(NoStatus)
  /\ IsConfig(Absent)
  /\ IsPass(Idle)
  /\ Idle.pc = "idle" /\ Idle.unread = {} /\ Idle.seen = Nothing /\ ~Idle.fresh
<1>1. DOMAIN Nothing = {}
  BY DEF Nothing
<1>2. Missing \in Objects
  BY DEF Missing, Objects
<1>3. AnySpec \in Specs
  BY SpecsAssumption DEF AnySpec
<1>4. Nothing \in [DOMAIN Nothing -> Nat] /\ Nothing \in [DOMAIN Nothing -> Readings]
  BY DEF Nothing
<1>5. IsStatus(NoStatus)
  BY <1>1, <1>4 DEF IsStatus, NoStatus, NoReason
<1>6. IsConfig(Absent)
  <2>1. Absent.status = NoStatus /\ Absent.gen = 0 /\ NoStatus.gen = 0
    BY DEF Absent, NoStatus
  <2>2. Absent \in [exists : BOOLEAN, deleting : BOOLEAN, gen : Nat, spec : Specs,
                    status : {Absent.status}]
    BY <1>3, <2>1 DEF Absent
  <2> QED
    BY <1>5, <2>1, <2>2 DEF IsConfig
<1>7. IsPass(Idle)
  <2>1. Idle.seen = Nothing /\ Idle.config = Absent
    BY DEF Idle
  <2>2. OperatorNamespace \in Namespaces
    BY DEF Namespaces
  <2>3. Idle \in [pc : {"idle", "resolving"}, config : {Absent},
                  namespace : Namespaces, fresh : BOOLEAN,
                  unread : SUBSET References, seen : [DOMAIN Nothing -> Readings]]
    BY <1>4, <2>2 DEF Idle
  <2> QED
    BY <1>1, <1>6, <2>1, <2>3 DEF IsPass
<1> QED
  BY <1>1, <1>2, <1>3, <1>5, <1>6, <1>7 DEF Idle

\* A Get answers with a reading.
LEMMA GetType ==
  ASSUME references \in [References -> Objects], NEW o, NEW fails
  PROVE  Get(o, fails) \in Readings
<1>1. Missing \in Objects
  BY BlankTypes
<1>2. o \in References => references[o] \in Objects
  OBVIOUS
<1> QED
  BY <1>1, <1>2 DEF Get, Reading, Readings, Codes

\* Configs, resources and references are told apart.
LEMMA KindsApart ==
  /\ Configs \cap References = {} /\ Resources \cap References = {}
  /\ Configs \cap Resources = {}
<1>1. ConfigKinds \cap ReferenceKinds = {}
  BY DEF ConfigKinds, ReferenceKinds
<1> QED
  BY <1>1, KeysAssumption

\* The handler calls of each sort of object.
LEMMA EventsOf ==
  /\ \A o \in References : EventsAbout(o) = [to : {c.kind : c \in Configs}, about : {o}]
  /\ \A c \in Configs : EventsAbout(c) = [to : {c.kind, "Resource"}, about : {c}]
  /\ \A r \in Resources : EventsAbout(r) = [to : {"Resource"}, about : {r}]
  BY KindsApart DEF EventsAbout

\* The handler calls of an object are about it.
LEMMA EventsAboutType ==
  ASSUME NEW k \in Keys \cup References
  PROVE  /\ EventsAbout(k) \subseteq AllEvents
         /\ \A e \in EventsAbout(k) : e.about = k
<1>1. EventsAbout(k) \subseteq AllEvents
  BY DEF AllEvents
<1>2. ASSUME NEW e \in EventsAbout(k) PROVE e.about = k
  <2>1. CASE k \in References
    <3>1. EventsAbout(k) = [to : {c.kind : c \in Configs}, about : {k}]
      BY <2>1, EventsOf
    <3> QED
      BY <1>2, <3>1
  <2>2. CASE k \in Configs
    <3>1. EventsAbout(k) = [to : {k.kind, "Resource"}, about : {k}]
      BY <2>2, EventsOf
    <3> QED
      BY <1>2, <3>1
  <2>3. CASE k \in Resources
    <3>1. EventsAbout(k) = [to : {"Resource"}, about : {k}]
      BY <2>3, EventsOf
    <3> QED
      BY <1>2, <3>1
  <2> QED
    BY <2>1, <2>2, <2>3 DEF Keys
<1> QED
  BY <1>1, <1>2

\* A handler call is about an object.
LEMMA AllEventsType ==
  ASSUME NEW e \in AllEvents
  PROVE  e.about \in Keys \cup References /\ e \in EventsAbout(e.about)
<1>1. PICK k \in Keys \cup References : e \in EventsAbout(k)
  BY DEF AllEvents
<1> QED
  BY <1>1, EventsAboutType

\* The verdict of a pass and the status made of it have their types.
LEMMA RenderedType ==
  ASSUME TypeOK, NEW k \in Keys
  PROVE  /\ Result(k).reason \in Codes \cup {Resolved}
         /\ IsStatus(Rendered(k))
         /\ Rendered(k).gen = pass[k].config.gen
<1> DEFINE spec == pass[k].config.spec
           ns == pass[k].namespace
           seen == pass[k].seen
<1>1. IsPass(pass[k])
  BY DEF TypeOK
<1>2. seen \in [DOMAIN seen -> Readings] /\ DOMAIN seen \subseteq References
  BY <1>1 DEF IsPass
<1>3. IsConfig(pass[k].config)
  BY <1>1 DEF IsPass
<1>4. spec \in Specs /\ pass[k].config.gen \in Nat
  BY <1>3 DEF IsConfig
<1>5. ASSUME NEW o PROVE Lookup(seen, o).code \in Codes \cup {Resolved}
  <2>1. Get(o, FALSE) \in Readings
    BY GetType DEF TypeOK
  <2>2. Lookup(seen, o) \in Readings
    BY <1>2, <2>1 DEF Lookup
  <2> QED
    BY <2>2 DEF Readings
<1>6. \A f \in Fields : spec[f].from \in ReferenceKinds =>
         Found(spec, ns, seen)[f].code \in Codes \cup {Resolved}
  BY <1>5 DEF Found
<1>7. Resolving(spec, Found(spec, ns, seen)).reason \in Codes \cup {Resolved}
  BY <1>4, <1>6, ResolvingType
<1>8. Result(k).reason \in Codes \cup {Resolved}
  BY <1>4, <1>7, ResolveBy DEF Result
<1>9. /\ Versions(seen) \in [DOMAIN Versions(seen) -> Nat]
      /\ DOMAIN Versions(seen) \subseteq References
  <2>1. \A o \in DOMAIN seen : seen[o] \in Readings
    BY <1>2
  <2>2. \A o \in DOMAIN seen : seen[o].object.version \in Nat
    BY <2>1 DEF Readings, Objects
  <2> QED
    BY <1>2, <2>2 DEF Versions
<1> HIDE DEF spec, ns, seen
<1> QED
  BY <1>4, <1>8, <1>9 DEF Rendered, SetConditions, IsStatus, seen

\* The handlers map a call to keys.
LEMMA RequestsType ==
  ASSUME NEW e \in AllEvents
  PROVE  Requests(e) \subseteq Keys
<1>1. e.about \in Keys \cup References
  BY AllEventsType
<1>2. watchReferences(e.to, e.about) \subseteq Configs
  BY DEF watchReferences
<1>3. enqueueReferencers(e.about) \subseteq Resources
  BY DEF enqueueReferencers
<1> QED
  BY <1>1, <1>2, <1>3 DEF Requests, Keys

\* The initial states have their types.
LEMMA InitTypeOK == Init => TypeOK
<1> SUFFICES ASSUME Init PROVE TypeOK
  OBVIOUS
<1>1. references \in [References -> Objects]
  <2>1. (CHOOSE d \in Contents : TRUE) \in Contents
    BY ValuesAssumption
  <2>2. Missing \in Objects
    BY BlankTypes
  <2>3. [exists |-> TRUE, version |-> 1, data |-> CHOOSE d \in Contents : TRUE] \in Objects
    BY <2>1 DEF Objects
  <2> QED
    BY <2>2, <2>3 DEF Init
<1>2. DOMAIN store = Configs /\ \A c \in Configs : IsConfig(store[c])
  <2> DEFINE X == [Absent EXCEPT !.exists = TRUE, !.gen = 1]
  <2>1. AnySpec \in Specs /\ NoStatus.gen = 0
    BY BlankTypes DEF NoStatus
  <2>2. Absent \in [exists : BOOLEAN, deleting : BOOLEAN, gen : Nat, spec : Specs,
                    status : {NoStatus}]
    BY <2>1 DEF Absent
  <2>3. /\ X \in [exists : BOOLEAN, deleting : BOOLEAN, gen : Nat, spec : Specs,
                  status : {NoStatus}]
        /\ X.status = NoStatus /\ X.gen = 1
    BY <2>2
  <2> HIDE DEF X
  <2>4. IsConfig(X) /\ IsConfig(Absent)
    BY <2>1, <2>3, BlankTypes DEF IsConfig
  <2> QED
    BY <2>4 DEF Init, X
<1>3. AllObjectsAreEvents \subseteq AllEvents
  BY EventsAboutType DEF AllObjectsAreEvents
<1>4. \A k \in Keys : IsPass(pass[k])
  BY BlankTypes DEF Init
<1>5. spent \in [Spends -> Nat]
  BY DEF Init
<1> QED
  BY <1>1, <1>2, <1>3, <1>4, <1>5 DEF Init, TypeOK

\* A budget's spending is counted.
LEMMA SpendType ==
  ASSUME spent \in [Spends -> Nat], NEW k \in Spends, Spend(k)
  PROVE  /\ spent' \in [Spends -> Nat]
         /\ spent'[k] > 0
         /\ \A j \in Spends : spent'[j] >= spent[j] /\ (j # k => spent'[j] = spent[j])
  BY DEF Spend

\* Passes stay passes when one of them is replaced by another.
LEMMA PassReplaced ==
  ASSUME TypeOK, NEW k \in Keys, NEW p, IsPass(p), pass' = [pass EXCEPT ![k] = p]
  PROVE  DOMAIN pass' = Keys /\ \A j \in Keys : IsPass(pass'[j])
<1>1. DOMAIN pass = Keys /\ \A j \in Keys : IsPass(pass[j])
  BY DEF TypeOK
<1>2. DOMAIN pass' = Keys /\ \A j \in Keys : pass'[j] = IF j = k THEN p ELSE pass[j]
  BY <1>1
<1> QED
  BY <1>1, <1>2

\* A pass that begins over a cached config.
LEMMA BeginType ==
  ASSUME TypeOK, NEW c \in Configs
  PROVE  /\ IsPass(Begin(c))
         /\ IsPass([Begin(c) EXCEPT !.fresh = FALSE,
                                    !.config = [Absent EXCEPT !.spec = cache[c].spec]])
<1> DEFINE b == Begin(c)
           y == [Absent EXCEPT !.spec = cache[c].spec]
           d == [b EXCEPT !.fresh = FALSE, !.config = y]
<1>1. IsConfig(cache[c])
  BY DEF TypeOK
<1>2. cache[c].spec \in Specs
  BY <1>1 DEF IsConfig
<1>3. Nothing \in [DOMAIN Nothing -> Readings] /\ DOMAIN Nothing = {}
  BY DEF Nothing
<1>4. UpFront(cache[c].spec, RefNamespace(c)) \in SUBSET References
  BY DEF UpFront
<1>5. RefNamespace(c) \in Namespaces
  BY DEF Namespaces
<1>6. IsPass(b)
  <2>1. b.config = cache[c] /\ b.seen = Nothing
    BY DEF Begin
  <2>2. b \in [pc : {"idle", "resolving"}, config : {cache[c]}, namespace : Namespaces,
               fresh : BOOLEAN, unread : SUBSET References,
               seen : [DOMAIN Nothing -> Readings]]
    BY <1>3, <1>4, <1>5 DEF Begin
  <2> HIDE DEF b
  <2> QED
    BY <1>1, <1>3, <2>1, <2>2 DEF IsPass
<1>7. IsConfig(y)
  <2>1. NoStatus.gen = 0 /\ AnySpec \in Specs
    BY BlankTypes DEF NoStatus
  <2>2. Absent \in [exists : BOOLEAN, deleting : BOOLEAN, gen : {0}, spec : Specs,
                    status : {NoStatus}]
    BY <2>1 DEF Absent
  <2>3. y \in [exists : BOOLEAN, deleting : BOOLEAN, gen : {0}, spec : Specs,
               status : {NoStatus}]
    BY <1>2, <2>2
  <2> HIDE DEF y
  <2> QED
    BY <2>1, <2>3, BlankTypes DEF IsConfig
<1>8. IsPass(d)
  <2>1. b \in [pc : {"idle", "resolving"}, config : {cache[c]}, namespace : Namespaces,
               fresh : BOOLEAN, unread : SUBSET References,
               seen : {Nothing}]
    BY <1>4, <1>5 DEF Begin
  <2> HIDE DEF y, b
  <2>2. d \in [pc : {"idle", "resolving"}, config : {y}, namespace : Namespaces,
               fresh : BOOLEAN, unread : SUBSET References,
               seen : {Nothing}]
    BY <2>1
  <2> HIDE DEF d
  <2> QED
    BY <1>3, <1>7, <2>2 DEF IsPass
<1> QED
  BY <1>6, <1>8 DEF b, y, d

\* The end of a pass.
LEMMA FinishType ==
  ASSUME TypeOK, NEW k \in Keys, NEW failed \in BOOLEAN, Finish(k, failed)
  PROVE  /\ DOMAIN pass' = Keys /\ \A j \in Keys : IsPass(pass'[j])
         /\ retry' \subseteq Keys
<1>1. pass' = [pass EXCEPT ![k] = Idle]
  BY DEF Finish
<1>2. retry' \subseteq Keys
  BY DEF Finish, TypeOK
<1> QED
  BY <1>1, <1>2, PassReplaced, BlankTypes

\* A config whose status is replaced.
LEMMA StatusReplaced ==
  ASSUME NEW x, IsConfig(x), NEW st, IsStatus(st), st.gen <= x.gen
  PROVE  /\ IsConfig([x EXCEPT !.status = st])
         /\ [x EXCEPT !.status = st].status = st
         /\ [x EXCEPT !.status = st].exists = x.exists
         /\ [x EXCEPT !.status = st].deleting = x.deleting
         /\ [x EXCEPT !.status = st].gen = x.gen
         /\ [x EXCEPT !.status = st].spec = x.spec
<1> DEFINE y == [x EXCEPT !.status = st]
<1>1. x \in [exists : BOOLEAN, deleting : BOOLEAN, gen : Nat, spec : Specs,
             status : {x.status}]
  BY DEF IsConfig
<1>2. /\ y \in [exists : BOOLEAN, deleting : BOOLEAN, gen : Nat, spec : Specs,
                status : {st}]
      /\ y.status = st /\ y.exists = x.exists /\ y.deleting = x.deleting
      /\ y.gen = x.gen /\ y.spec = x.spec
  BY <1>1
<1> HIDE DEF y
<1>3. IsConfig(y)
  BY <1>2 DEF IsConfig
<1> QED
  BY <1>2, <1>3 DEF y

\* What the user's writes make of a config.
LEMMA EditedType ==
  ASSUME NEW x, IsConfig(x), NEW spec \in Specs
  PROVE  /\ IsConfig([x EXCEPT !.exists = TRUE, !.spec = spec, !.gen = @ + 1])
         /\ [x EXCEPT !.exists = TRUE, !.spec = spec, !.gen = @ + 1].gen
              > [x EXCEPT !.exists = TRUE, !.spec = spec, !.gen = @ + 1].status.gen
         /\ [x EXCEPT !.exists = TRUE, !.spec = spec, !.gen = @ + 1].gen > 0
         /\ [x EXCEPT !.exists = TRUE, !.spec = spec, !.gen = @ + 1].status = x.status
         /\ IsConfig([x EXCEPT !.deleting = TRUE])
         /\ [x EXCEPT !.deleting = TRUE].deleting
         /\ [x EXCEPT !.deleting = TRUE].exists = x.exists
         /\ [x EXCEPT !.deleting = TRUE].gen = x.gen
         /\ [x EXCEPT !.deleting = TRUE].spec = x.spec
         /\ [x EXCEPT !.deleting = TRUE].status = x.status
<1> DEFINE y == [x EXCEPT !.exists = TRUE, !.spec = spec, !.gen = @ + 1]
           z == [x EXCEPT !.deleting = TRUE]
<1>1. x \in [exists : BOOLEAN, deleting : BOOLEAN, gen : Nat, spec : Specs,
             status : {x.status}]
  BY DEF IsConfig
<1>2. /\ y \in [exists : BOOLEAN, deleting : BOOLEAN, gen : Nat, spec : Specs,
                status : {x.status}]
      /\ y.status = x.status /\ y.gen = x.gen + 1 /\ y.exists
  <2>1. PICK g : g = x.gen + 1
    OBVIOUS
  <2>2. g \in Nat
    BY <1>1, <2>1
  <2>3. y = [x EXCEPT !.exists = TRUE, !.spec = spec, !.gen = g]
    BY <2>1
  <2> HIDE DEF y
  <2> QED
    BY <1>1, <2>1, <2>2, <2>3
<1>3. /\ z \in [exists : BOOLEAN, deleting : BOOLEAN, gen : Nat, spec : Specs,
                status : {x.status}]
      /\ z.status = x.status /\ z.exists = x.exists /\ z.deleting
      /\ z.gen = x.gen /\ z.spec = x.spec
  BY <1>1
<1> HIDE DEF y, z
<1>4. x.gen \in Nat /\ x.status.gen \in Nat /\ x.status.gen <= x.gen
  BY DEF IsConfig, IsStatus
<1>5. IsConfig(y)
  BY <1>2, <1>4 DEF IsConfig
<1>6. IsConfig(z)
  BY <1>3, <1>4 DEF IsConfig
<1> QED
  BY <1>2, <1>3, <1>4, <1>5, <1>6 DEF y, z

\* One read is added to a pass's readings.
LEMMA ReadType ==
  ASSUME TypeOK, NEW k \in Keys, NEW o \in References, NEW fails \in BOOLEAN,
         ReadReference(k, o, fails)
  PROVE  /\ DOMAIN pass' = Keys /\ \A j \in Keys : IsPass(pass'[j])
         /\ \A j \in Keys : j # k => pass'[j] = pass[j]
         /\ pass'[k].pc = "resolving" /\ pass[k].pc = "resolving"
         /\ pass'[k].config = pass[k].config
         /\ pass'[k].namespace = pass[k].namespace
         /\ pass'[k].fresh = pass[k].fresh
         /\ o \in pass[k].unread
         /\ pass'[k].unread = pass[k].unread \ {o}
         /\ pass'[k].seen = [ x \in DOMAIN pass[k].seen \cup {o} |->
                                IF x = o THEN Get(o, fails) ELSE pass[k].seen[x] ]
<1> DEFINE s == [ x \in DOMAIN pass[k].seen \cup {o} |->
                    IF x = o THEN Get(o, fails) ELSE pass[k].seen[x] ]
           p == pass[k]
           q == [pass[k] EXCEPT !.unread = @ \ {o}, !.seen = s]
<1>1. DOMAIN pass = Keys /\ IsPass(p)
  BY DEF TypeOK
<1>2. /\ p \in [pc : {"idle", "resolving"}, config : {p.config}, namespace : Namespaces,
                fresh : BOOLEAN, unread : SUBSET References,
                seen : [DOMAIN p.seen -> Readings]]
      /\ IsConfig(p.config) /\ DOMAIN p.seen \subseteq References
  BY <1>1 DEF IsPass
<1>3. p.pc = "resolving" /\ o \in p.unread
  BY DEF ReadReference
<1>4. s \in [DOMAIN s -> Readings] /\ DOMAIN s \subseteq References
  <2>1. Get(o, fails) \in Readings
    BY GetType DEF TypeOK
  <2> QED
    BY <1>2, <2>1
<1>5. pass' = [pass EXCEPT ![k] = q]
  BY <1>1, <1>2 DEF ReadReference
<1> HIDE DEF s
<1>6. /\ q \in [pc : {"idle", "resolving"}, config : {p.config}, namespace : Namespaces,
                fresh : BOOLEAN, unread : SUBSET References, seen : {s}]
      /\ q.pc = p.pc /\ q.config = p.config /\ q.namespace = p.namespace
      /\ q.fresh = p.fresh /\ q.unread = p.unread \ {o} /\ q.seen = s
  BY <1>2
<1> HIDE DEF q, p
<1>7. IsPass(q)
  BY <1>2, <1>4, <1>6 DEF IsPass
<1>8. /\ DOMAIN pass' = Keys /\ pass'[k] = q
      /\ \A j \in Keys : j # k => pass'[j] = pass[j]
  BY <1>1, <1>5
<1>9. \A j \in Keys : IsPass(pass'[j])
  BY <1>7, <1>8 DEF TypeOK
<1> QED
  BY <1>3, <1>6, <1>8, <1>9 DEF p, s

\* A write to a config: the copies of it that passes hold are no longer fresh.
LEMMA WriteConfigType ==
  ASSUME TypeOK, NEW c \in Configs, NEW x, IsConfig(x), WriteConfig(c, x)
  PROVE  /\ TypeOK'
         /\ store'[c] = x /\ \A d \in Configs : d # c => store'[d] = store[d]
         /\ \A j \in Keys : j # c => pass'[j] = pass[j]
         /\ pass'[c].pc = pass[c].pc /\ pass'[c].config = pass[c].config
         /\ pass'[c].namespace = pass[c].namespace /\ ~pass'[c].fresh
         /\ pass'[c].unread = pass[c].unread /\ pass'[c].seen = pass[c].seen
<1> DEFINE p == pass[c]
           q == [pass[c] EXCEPT !.fresh = FALSE]
<1>1. c \in Keys /\ DOMAIN pass = Keys /\ IsPass(p)
  BY DEF TypeOK, Keys
<1>2. /\ p \in [pc : {"idle", "resolving"}, config : {p.config}, namespace : Namespaces,
                fresh : BOOLEAN, unread : SUBSET References,
                seen : [DOMAIN p.seen -> Readings]]
      /\ IsConfig(p.config) /\ DOMAIN p.seen \subseteq References
  BY <1>1 DEF IsPass
<1>3. pass' = [pass EXCEPT ![c] = q]
  BY <1>1 DEF WriteConfig
<1>4. /\ q \in [pc : {"idle", "resolving"}, config : {p.config}, namespace : Namespaces,
                fresh : BOOLEAN, unread : SUBSET References,
                seen : [DOMAIN p.seen -> Readings]]
      /\ q.pc = p.pc /\ q.config = p.config /\ q.namespace = p.namespace
      /\ q.fresh = FALSE /\ q.unread = p.unread /\ q.seen = p.seen
  BY <1>2
<1> HIDE DEF p, q
<1>5. IsPass(q)
  BY <1>2, <1>4 DEF IsPass
<1>6. /\ DOMAIN pass' = Keys /\ pass'[c] = q
      /\ \A j \in Keys : j # c => pass'[j] = pass[j]
  BY <1>1, <1>3
<1>7. DOMAIN pass' = Keys /\ \A j \in Keys : IsPass(pass'[j])
  BY <1>5, <1>6 DEF TypeOK
<1>8. /\ DOMAIN store' = Configs /\ store'[c] = x
      /\ \A d \in Configs : d # c => store'[d] = store[d]
  BY DEF TypeOK, WriteConfig
<1>9. \A d \in Configs : IsConfig(store'[d])
  BY <1>8 DEF TypeOK
<1>10. spent' \in [Spends -> Nat]
  BY SpendType DEF WriteConfig, Spends, TypeOK
<1>11. /\ UNCHANGED <<references, points, cache, events, queued, retry, used>>
       /\ behind' \subseteq Configs
  BY DEF WriteConfig, TypeOK
<1>12. TypeOK'
  BY <1>7, <1>8, <1>9, <1>10, <1>11 DEF TypeOK
<1> QED
  BY <1>4, <1>6, <1>8, <1>12 DEF p, q

\* The config the user's write leaves is one.
LEMMA ApplyConfigType ==
  ASSUME TypeOK, NEW c \in Configs, NEW spec \in Specs, ApplyConfig(c, spec)
  PROVE  \E x : /\ IsConfig(x) /\ x.gen > x.status.gen /\ x.gen > 0
                /\ x.status \in {store[c].status, NoStatus}
                /\ WriteConfig(c, x)
<1> DEFINE was == IF store[c].exists THEN store[c] ELSE Absent
           x == [was EXCEPT !.exists = TRUE, !.spec = spec, !.gen = @ + 1]
<1>1. IsConfig(was)
  BY BlankTypes DEF TypeOK
<1>2. was.status \in {store[c].status, NoStatus}
  BY DEF Absent
<1>3. WriteConfig(c, x)
  BY DEF ApplyConfig
<1> HIDE DEF was
<1>4. IsConfig(x) /\ x.gen > x.status.gen /\ x.gen > 0 /\ x.status = was.status
  BY <1>1, EditedType
<1> HIDE DEF x
<1> QED
  BY <1>2, <1>3, <1>4

\* A deletion writes a config, or marks it.
LEMMA DeleteConfigType ==
  ASSUME TypeOK, NEW c \in Configs, DeleteConfig(c)
  PROVE  \E x : /\ IsConfig(x) /\ WriteConfig(c, x)
                /\ \/ ~x.exists /\ x.status = NoStatus
                   \/ /\ x.deleting /\ x.exists = store[c].exists
                      /\ x.gen = store[c].gen /\ x.spec = store[c].spec
                      /\ x.status = store[c].status
<1> DEFINE y == [store[c] EXCEPT !.deleting = TRUE]
<1>1. WriteConfig(c, Absent) \/ WriteConfig(c, y)
  BY DEF DeleteConfig
<1>2. IsConfig(store[c]) /\ IsConfig(Absent) /\ ~Absent.exists
      /\ Absent.status = NoStatus
  BY BlankTypes DEF TypeOK, Absent
<1>3. PICK spec : spec \in Specs
  BY SpecsAssumption
<1>4. /\ IsConfig(y) /\ y.deleting /\ y.exists = store[c].exists
      /\ y.gen = store[c].gen /\ y.spec = store[c].spec /\ y.status = store[c].status
  BY <1>2, <1>3, EditedType
<1> HIDE DEF y
<1> QED
  BY <1>1, <1>2, <1>4

\* The steps a worker takes keep the types.
LEMMA WorkType == ASSUME TypeOK, PassBacked, NEW k \in Keys, Work(k) PROVE TypeOK'
<1> USE DEF Keys
<1>1. ASSUME k \in Configs, ReconcileConfig(k) PROVE TypeOK'
  <2>1. /\ UNCHANGED <<references, points, store, cache, behind, events, used, spent>>
        /\ queued' \subseteq Keys /\ retry' \subseteq Keys
    BY <1>1 DEF ReconcileConfig, TypeOK
  <2>2. pass' = pass \/ pass' = [pass EXCEPT ![k] = Begin(k)]
    BY <1>1 DEF ReconcileConfig
  <2>3. DOMAIN pass' = Keys /\ \A j \in Keys : IsPass(pass'[j])
    <3>1. IsPass(Begin(k))
      BY <1>1, BeginType
    <3>2. CASE pass' = pass
      BY <3>2 DEF TypeOK
    <3>3. CASE pass' = [pass EXCEPT ![k] = Begin(k)]
      BY <3>1, <3>3, PassReplaced
    <3> QED
      BY <2>2, <3>2, <3>3
  <2> QED
    BY <2>1, <2>3 DEF TypeOK
<1>2. ASSUME k \in Resources, ReconcileResource(k) PROVE TypeOK'
  <2>1. /\ UNCHANGED <<references, points, store, cache, behind, events, spent>>
        /\ queued' \subseteq Keys /\ retry' \subseteq Keys /\ DOMAIN used' = Resources
    BY <1>2 DEF ReconcileResource, TypeOK
  <2>2. \/ pass' = pass
        \/ \E c \in Configs :
             pass' = [pass EXCEPT ![k] = [Begin(c) EXCEPT !.fresh = FALSE,
                         !.config = [Absent EXCEPT !.spec = cache[c].spec]]]
    BY <1>2 DEF ReconcileResource, Named
  <2>3. DOMAIN pass' = Keys /\ \A j \in Keys : IsPass(pass'[j])
    <3>1. CASE pass' = pass
      BY <3>1 DEF TypeOK
    <3>2. ASSUME NEW c \in Configs,
                 pass' = [pass EXCEPT ![k] = [Begin(c) EXCEPT !.fresh = FALSE,
                         !.config = [Absent EXCEPT !.spec = cache[c].spec]]]
          PROVE  DOMAIN pass' = Keys /\ \A j \in Keys : IsPass(pass'[j])
      BY <3>2, PassReplaced, BeginType
    <3> QED
      BY <2>2, <3>1, <3>2
  <2> QED
    BY <2>1, <2>3 DEF TypeOK
<1>3. ASSUME NEW o \in References, NEW fails \in BOOLEAN, ReadReference(k, o, fails)
      PROVE  TypeOK'
  <2>1. DOMAIN pass' = Keys /\ \A j \in Keys : IsPass(pass'[j])
    BY <1>3, ReadType
  <2>2. UNCHANGED <<references, points, store, cache, behind, events, queued, retry,
                    used>>
    BY <1>3 DEF ReadReference
  <2>3. spent' \in [Spends -> Nat]
    BY <1>3, SpendType DEF ReadReference, TypeOK, Spends
  <2> QED
    BY <2>1, <2>2, <2>3 DEF TypeOK
<1>4. ASSUME ReportUnmoved(k) PROVE TypeOK'
  <2>1. DOMAIN pass' = Keys /\ (\A j \in Keys : IsPass(pass'[j])) /\ retry' \subseteq Keys
    BY <1>4, FinishType DEF ReportUnmoved
  <2> QED
    BY <1>4, <2>1 DEF ReportUnmoved, TypeOK
<1>5. ASSUME k \in Configs, UpdateStatus(k) PROVE TypeOK'
  <2>0. pass[k].config = store[k]
    BY <1>5, BlankTypes DEF UpdateStatus, Concluded, PassBacked
  <2>1. DOMAIN pass' = Keys /\ (\A j \in Keys : IsPass(pass'[j])) /\ retry' \subseteq Keys
    BY <1>5, FinishType DEF UpdateStatus
  <2>2. /\ IsConfig(store[k]) /\ IsStatus(Rendered(k))
        /\ Rendered(k).gen = store[k].gen /\ store[k].gen \in Nat
    BY <1>5, <2>0, RenderedType DEF TypeOK, IsConfig
  <2>3. IsConfig([store[k] EXCEPT !.status = Rendered(k)])
    BY <2>2, StatusReplaced
  <2>4. store' = [store EXCEPT ![k] = [store[k] EXCEPT !.status = Rendered(k)]]
    BY <1>5 DEF UpdateStatus, TypeOK
  <2>5. DOMAIN store' = Configs /\ \A c \in Configs : IsConfig(store'[c])
    BY <2>3, <2>4 DEF TypeOK
  <2>6. /\ UNCHANGED <<references, points, cache, events, queued, used, spent>>
        /\ behind' \subseteq Configs
    BY <1>5 DEF UpdateStatus, TypeOK
  <2> QED
    BY <2>1, <2>5, <2>6 DEF TypeOK
<1>6. ASSUME UpdateStatusFails(k) PROVE TypeOK'
  <2>1. DOMAIN pass' = Keys /\ (\A j \in Keys : IsPass(pass'[j])) /\ retry' \subseteq Keys
    BY <1>6, FinishType DEF UpdateStatusFails
  <2>2. spent' \in [Spends -> Nat]
    BY <1>6, SpendType DEF UpdateStatusFails, TypeOK, Spends
  <2> QED
    BY <1>6, <2>1, <2>2 DEF UpdateStatusFails, TypeOK
<1>7. ASSUME UseConfig(k) PROVE TypeOK'
  <2>1. DOMAIN pass' = Keys /\ (\A j \in Keys : IsPass(pass'[j])) /\ retry' \subseteq Keys
    BY <1>7, FinishType DEF UseConfig
  <2>2. DOMAIN used' = Resources
    BY <1>7 DEF UseConfig, TypeOK
  <2> QED
    BY <1>7, <2>1, <2>2 DEF UseConfig, TypeOK
<1> QED
  BY <1>1, <1>2, <1>3, <1>4, <1>5, <1>6, <1>7, Zenon DEF Work

\* So does every step.
LEMMA NextType == ASSUME TypeOK, PassBacked, [Next]_vars PROVE TypeOK'
<1>1. ASSUME NEW k \in Keys, Retry(k) PROVE TypeOK'
  BY <1>1 DEF Retry, TypeOK
<1>2. ASSUME NEW e \in events, Handle(e) PROVE TypeOK'
  <2>1. Requests(e) \subseteq Keys
    BY RequestsType DEF TypeOK
  <2> QED
    BY <1>2, <2>1 DEF Handle, TypeOK
<1>3. ASSUME NEW e \in events, HandleFails(e) PROVE TypeOK'
  <2>1. spent' \in [Spends -> Nat]
    BY <1>3, SpendType DEF HandleFails, TypeOK, Spends
  <2> QED
    BY <1>3, <2>1 DEF HandleFails, TypeOK
<1>4. ASSUME NEW c \in Configs, Deliver(c) PROVE TypeOK'
  <2>1. EventsAbout(c) \subseteq AllEvents
    BY EventsAboutType DEF Keys
  <2>2. DOMAIN cache' = Configs /\ \A d \in Configs : IsConfig(cache'[d])
    BY <1>4 DEF Deliver, TypeOK
  <2> QED
    BY <1>4, <2>1, <2>2 DEF Deliver, TypeOK
<1>5. CASE Resync
  <2>1. AllObjectsAreEvents \subseteq AllEvents
    BY EventsAboutType DEF AllObjectsAreEvents
  <2> QED
    BY <1>5, <2>1 DEF Resync, TypeOK
<1>6. CASE Crash
  <2>1. AllObjectsAreEvents' \subseteq AllEvents
    BY EventsAboutType DEF AllObjectsAreEvents
  <2>2. spent' \in [Spends -> Nat]
    BY <1>6, SpendType DEF Crash, TypeOK, Spends
  <2>3. DOMAIN pass' = Keys /\ \A k \in Keys : IsPass(pass'[k])
    BY <1>6, BlankTypes DEF Crash
  <2> QED
    BY <1>6, <2>1, <2>2, <2>3 DEF Crash, TypeOK
<1>7. ASSUME NEW o \in References, NEW exists, NEW data, WriteReference(o, exists, data),
             \/ exists = TRUE /\ data \in Contents
             \/ exists = FALSE /\ data = Nothing
      PROVE  TypeOK'
  <2> DEFINE x == [exists |-> exists, version |-> references[o].version + 1,
                   data |-> data]
  <2>1. EventsAbout(o) \subseteq AllEvents
    BY EventsAboutType
  <2>2. references[o].version \in Nat
    BY DEF TypeOK, Objects
  <2>3. x \in Objects
    <3>1. references[o].version + 1 \in Nat
      BY <2>2
    <3>2. CASE exists = TRUE /\ data \in Contents
      BY <3>1, <3>2 DEF Objects
    <3>3. CASE exists = FALSE /\ data = Nothing
      BY <3>1, <3>3 DEF Objects
    <3> QED
      BY <1>7, <3>2, <3>3
  <2>4. references' = [references EXCEPT ![o] = x]
    BY <1>7 DEF WriteReference
  <2> HIDE DEF x
  <2>5. references' \in [References -> Objects]
    BY <2>3, <2>4 DEF TypeOK
  <2>6. spent' \in [Spends -> Nat]
    BY <1>7, SpendType DEF WriteReference, TypeOK, Spends
  <2> QED
    BY <1>7, <2>1, <2>5, <2>6 DEF WriteReference, TypeOK
<1>8. ASSUME NEW c \in Configs, NEW spec \in Specs, ApplyConfig(c, spec) PROVE TypeOK'
  BY <1>8, ApplyConfigType, WriteConfigType
<1>9. ASSUME NEW c \in Configs, DeleteConfig(c) PROVE TypeOK'
  BY <1>9, DeleteConfigType, WriteConfigType
<1>10. ASSUME NEW r \in Resources, NEW ref \in ResourceRefs, PointResource(r, ref)
       PROVE  TypeOK'
  <2>1. EventsAbout(r) \subseteq AllEvents
    BY EventsAboutType DEF Keys
  <2>2. spent' \in [Spends -> Nat]
    BY <1>10, SpendType DEF PointResource, TypeOK, Spends
  <2> QED
    BY <1>10, <2>1, <2>2 DEF PointResource, TypeOK
<1>11. CASE Users
  BY <1>7, <1>8, <1>9, <1>10, <1>11 DEF Users
<1>12. CASE UNCHANGED vars
  BY <1>12 DEF vars, TypeOK
<1> QED
  BY <1>1, <1>2, <1>3, <1>4, <1>5, <1>6, <1>11, <1>12, WorkType DEF Next

-----------------------------------------------------------------------------
(* What passes and statuses rest on *)

\* A reference is left alone or given a new version.
LEMMA ReferencesGrow ==
  ASSUME TypeOK, [Next]_vars
  PROVE  \A o \in References :
           \/ references'[o] = references[o]
           \/ references'[o].version > references[o].version
<1>1. ASSUME NEW o \in References, NEW exists, NEW data, WriteReference(o, exists, data)
      PROVE  \A x \in References :
               \/ references'[x] = references[x]
               \/ references'[x].version > references[x].version
  <2>1. references[o].version \in Nat
    BY DEF TypeOK, Objects
  <2>2. /\ references'[o].version = references[o].version + 1
        /\ \A x \in References : x # o => references'[x] = references[x]
    BY <1>1 DEF WriteReference, TypeOK
  <2> QED
    BY <2>1, <2>2
<1>2. ASSUME NEW k \in Keys, Work(k) \/ Retry(k) PROVE references' = references
  BY <1>2 DEF Work, Retry, ReconcileConfig, ReconcileResource, ReadReference,
              ReportUnmoved, UpdateStatus, UpdateStatusFails, UseConfig
<1>3. ASSUME NEW e \in events, Handle(e) \/ HandleFails(e) PROVE references' = references
  BY <1>3 DEF Handle, HandleFails
<1>4. ASSUME NEW c \in Configs, NEW x, WriteConfig(c, x) PROVE references' = references
  BY <1>4 DEF WriteConfig
<1>5. CASE Users
  <2>1. \/ \E o \in References : \E exists, data : WriteReference(o, exists, data)
        \/ \E c \in Configs : \E x : WriteConfig(c, x)
        \/ references' = references
    BY <1>5 DEF Users, ApplyConfig, DeleteConfig, PointResource
  <2> QED
    BY <1>1, <1>4, <2>1
<1> QED
  BY <1>2, <1>3, <1>5 DEF Next, Deliver, Resync, Crash, vars

\* What could have been answered before still could.
LEMMA AnswersGrow ==
  ASSUME TypeOK, TypeOK', [Next]_vars, NEW o \in References
  PROVE  Answers(o) \subseteq Answers(o)'
<1> DEFINE was == references[o]
           is == references'[o]
<1>1. was \in Objects /\ is \in Objects
  BY DEF TypeOK
<1>2. is = was \/ is.version > was.version
  BY ReferencesGrow
<1>3. was.version \in Nat /\ is.version \in Nat
  BY <1>1 DEF Objects
<1>4. Been(o) \subseteq Been(o)'
  <2> SUFFICES ASSUME NEW x \in Been(o) PROVE x \in Been(o)'
    OBVIOUS
  <2>1. /\ x \in [exists : {TRUE}, version : 0..was.version, data : Contents]
        /\ x.version = was.version => x = was
    BY DEF Been
  <2>2. x.version \in 0..was.version
    BY <2>1
  <2> HIDE DEF was, is
  <2>3. x.version \in 0..is.version /\ (x.version = is.version => x = is)
    BY <1>2, <1>3, <2>1, <2>2
  <2>4. x \in [exists : {TRUE}, version : 0..is.version, data : Contents]
    BY <2>1, <2>3
  <2> QED
    BY <2>3, <2>4 DEF Been, is
<1>5. SUFFICES ASSUME NEW a \in Answers(o) PROVE a \in Answers(o)'
  OBVIOUS
<1> HIDE DEF was, is
<1> QED
  BY <1>4, <1>5, Zenon DEF Answers

\* A Get answers as a Get may.
LEMMA GetAnswers ==
  ASSUME TypeOK, NEW o \in References, NEW fails \in BOOLEAN
  PROVE  Get(o, fails) \in Answers(o)
<1>1. references[o] \in Objects
  BY DEF TypeOK
<1>0. references[o].version \in Nat
  BY <1>1 DEF Objects
<1>2. references[o].exists => references[o] \in Been(o)
  <2> SUFFICES ASSUME references[o].exists PROVE references[o] \in Been(o)
    OBVIOUS
  <2>1. references[o] \in [exists : {TRUE}, version : Nat, data : Contents]
    <3>1. ASSUME NEW x \in [exists : {FALSE}, version : Nat, data : {Nothing}]
          PROVE  ~x.exists
      OBVIOUS
    <3> QED
      BY <1>1, <3>1, Zenon DEF Objects
  <2>2. references[o].version \in 0..references[o].version
    BY <1>0
  <2>3. references[o]
          \in [exists : {TRUE}, version : 0..references[o].version, data : Contents]
    BY <2>1, <2>2
  <2> QED
    BY <2>3 DEF Been
<1> QED
  BY <1>2, Zenon DEF Get, Answers, NotFound

\* An answer with the present version is the present object, and none is newer.
LEMMA AnswerTrue ==
  ASSUME TypeOK, NEW o \in References, NEW a \in Answers(o)
  PROVE  \/ a.code = "ReferenceReadFailed"
         \/ a = NotFound(o) /\ a.code # Resolved
         \/ /\ a.code = Resolved
            /\ a.object.version \in Nat
            /\ a.object.version <= references[o].version
            /\ a.object.version = references[o].version => a = Get(o, FALSE)
<1>1. references[o] \in Objects
  BY DEF TypeOK
<1>2. references[o].version \in Nat
  BY <1>1 DEF Objects
<1>3. CASE a \in {NotFound(o), Reading(Missing, "ReferenceReadFailed")}
  <2>1. \A code : Reading(Missing, code).code = code
    BY DEF Reading
  <2> QED
    BY <1>3, <2>1 DEF NotFound, Resolved
<1>4. ASSUME NEW x \in Been(o), a = Reading(x, Resolved)
      PROVE  /\ a.code = Resolved
             /\ a.object.version \in Nat
             /\ a.object.version <= references[o].version
             /\ a.object.version = references[o].version => a = Get(o, FALSE)
  <2>1. a.code = Resolved /\ a.object = x
    BY <1>4 DEF Reading
  <2>2. x.version \in 0..references[o].version
    BY DEF Been
  <2>3. x.version = references[o].version => x = references[o]
    BY DEF Been
  <2>4. x = references[o] => a = Get(o, FALSE)
    <3>1. x.exists
      BY DEF Been
    <3> QED
      BY <1>4, <3>1 DEF Get
  <2>5. x.version \in Nat /\ x.version <= references[o].version
    BY <1>2, <2>2
  <2> QED
    BY <2>1, <2>3, <2>4, <2>5
<1> QED
  BY <1>3, <1>4 DEF Answers

\* A config a pass holds for fresh is the API server's.
LEMMA FreshIsStored ==
  ASSUME PassBacked, NEW c \in Configs, pass[c].fresh
  PROVE  pass[c].pc = "resolving" /\ pass[c].config = store[c]
<1>1. c \in Keys
  BY DEF Keys
<1> QED
  BY <1>1, BlankTypes DEF PassBacked

\* The pass over k as a worker takes it up.
Begun(k) ==
  \/ k \in Configs /\ pass'[k] = Begin(k) /\ cache[k].exists
  \/ /\ k \in Resources
     /\ \E c \in Configs :
          pass'[k] = [Begin(c) EXCEPT !.fresh = FALSE,
                        !.config = [Absent EXCEPT !.spec = cache[c].spec]]

\* The pass over k as it is, unless its copy of a config is no longer fresh.
Carried(k) ==
  /\ pass'[k].pc = pass[k].pc /\ pass'[k].config = pass[k].config
  /\ pass'[k].namespace = pass[k].namespace
  /\ pass'[k].unread = pass[k].unread /\ pass'[k].seen = pass[k].seen
  /\ pass'[k].fresh => pass[k].fresh

\* A pass is dropped, begun, fed one more reading or carried on; a fresh copy is
\* only carried on while the API server's does not move.
LEMMA PassMoves ==
  ASSUME TypeOK, PassBacked, [Next]_vars, NEW k \in Keys
  PROVE  \/ pass'[k] = Idle
         \/ Begun(k) /\ UNCHANGED <<store, references>>
         \/ \E o \in References, fails \in BOOLEAN : ReadReference(k, o, fails)
         \/ pass'[k] = pass[k]
              /\ (k \in Configs /\ pass[k].fresh => store'[k] = store[k])
         \/ k \in Configs /\ Carried(k) /\ ~pass'[k].fresh /\ references' = references
<1> DEFINE Goal == \/ pass'[k] = Idle
                   \/ Begun(k) /\ UNCHANGED <<store, references>>
                   \/ \E o \in References, fails \in BOOLEAN : ReadReference(k, o, fails)
                   \/ pass'[k] = pass[k]
                        /\ (k \in Configs /\ pass[k].fresh => store'[k] = store[k])
                   \/ k \in Configs /\ Carried(k) /\ ~pass'[k].fresh
                        /\ references' = references
<1> SUFFICES Goal
  OBVIOUS
<1>0. DOMAIN pass = Keys /\ DOMAIN store = Configs
  BY DEF TypeOK
<1>1. ASSUME pass'[k] = pass[k], k \in Configs => store'[k] = store[k] PROVE Goal
  BY <1>1
<1>2. ASSUME NEW j \in Keys, NEW failed, Finish(j, failed),
             \A c \in Configs : c # j => store'[c] = store[c]
      PROVE  Goal
  <2>1. pass'[k] = Idle \/ (k # j /\ pass'[k] = pass[k])
    BY <1>0, <1>2 DEF Finish
  <2> QED
    BY <1>2, <2>1
<1>3. ASSUME NEW j \in Keys, Work(j) PROVE Goal
  <2>1. ASSUME j \in Configs, ReconcileConfig(j) PROVE Goal
    <3>1. UNCHANGED <<store, references>>
      BY <2>1 DEF ReconcileConfig
    <3>2. \/ pass'[k] = pass[k]
          \/ k = j /\ pass'[k] = Begin(k) /\ cache[k].exists
      BY <1>0, <2>1 DEF ReconcileConfig
    <3> QED
      BY <1>1, <2>1, <3>1, <3>2 DEF Begun
  <2>2. ASSUME j \in Resources, ReconcileResource(j) PROVE Goal
    <3>1. UNCHANGED <<store, references>>
      BY <2>2 DEF ReconcileResource
    <3>2. \/ pass' = pass
          \/ \E c \in Configs :
               pass' = [pass EXCEPT ![j] = [Begin(c) EXCEPT !.fresh = FALSE,
                          !.config = [Absent EXCEPT !.spec = cache[c].spec]]]
      BY <2>2 DEF ReconcileResource, Named
    <3>3. CASE pass' = pass
      BY <1>1, <3>1, <3>3
    <3>4. ASSUME NEW c \in Configs,
                 pass' = [pass EXCEPT ![j] = [Begin(c) EXCEPT !.fresh = FALSE,
                            !.config = [Absent EXCEPT !.spec = cache[c].spec]]]
          PROVE  Goal
      <4>1. CASE k = j
        BY <1>0, <2>2, <3>1, <3>4, <4>1 DEF Begun
      <4>2. CASE k # j
        BY <1>0, <1>1, <3>1, <3>4, <4>2
      <4> QED
        BY <4>1, <4>2
    <3> QED
      BY <3>2, <3>3, <3>4
  <2>3. ASSUME NEW o \in References, NEW fails \in BOOLEAN, ReadReference(j, o, fails)
        PROVE  Goal
    <3>1. CASE k = j
      BY <2>3, <3>1
    <3>2. CASE k # j
      <4>1. pass'[k] = pass[k] /\ store' = store
        BY <2>3, <3>2, ReadType DEF ReadReference
      <4> QED
        BY <1>1, <4>1
    <3> QED
      BY <3>1, <3>2
  <2>4. ASSUME ReportUnmoved(j) \/ UpdateStatusFails(j) \/ UseConfig(j) PROVE Goal
    BY <1>2, <2>4 DEF ReportUnmoved, UpdateStatusFails, UseConfig
  <2>5. ASSUME UpdateStatus(j) PROVE Goal
    <3>1. \A c \in Configs : c # j => store'[c] = store[c]
      BY <1>0, <2>5 DEF UpdateStatus
    <3> QED
      BY <1>2, <2>5, <3>1 DEF UpdateStatus
  <2> QED
    BY <1>3, <2>1, <2>2, <2>3, <2>4, <2>5, Zenon DEF Work
<1>4. ASSUME NEW c \in Configs, NEW x, IsConfig(x), WriteConfig(c, x) PROVE Goal
  <2>1. /\ store'[c] = x /\ \A d \in Configs : d # c => store'[d] = store[d]
        /\ \A j \in Keys : j # c => pass'[j] = pass[j]
        /\ pass'[c].pc = pass[c].pc /\ pass'[c].config = pass[c].config
        /\ pass'[c].namespace = pass[c].namespace /\ ~pass'[c].fresh
        /\ pass'[c].unread = pass[c].unread /\ pass'[c].seen = pass[c].seen
    BY <1>4, WriteConfigType
  <2>2. CASE k = c
    BY <1>4, <2>1, <2>2 DEF Carried, WriteConfig
  <2>3. CASE k # c
    BY <1>1, <2>1, <2>3
  <2> QED
    BY <2>2, <2>3
<1>5. CASE Users
  <2>1. \/ \E c \in Configs : \E x : IsConfig(x) /\ WriteConfig(c, x)
        \/ UNCHANGED <<pass, store>>
    <3>1. ASSUME NEW c \in Configs, NEW spec \in Specs, ApplyConfig(c, spec)
          PROVE  \E x : IsConfig(x) /\ WriteConfig(c, x)
      BY <3>1, ApplyConfigType
    <3>2. ASSUME NEW c \in Configs, DeleteConfig(c)
          PROVE  \E x : IsConfig(x) /\ WriteConfig(c, x)
      BY <3>2, DeleteConfigType
    <3> QED
      BY <1>5, <3>1, <3>2 DEF Users, WriteReference, PointResource
  <2> QED
    BY <1>1, <1>4, <2>1
<1>6. CASE Crash
  BY <1>6 DEF Crash
<1>7. ASSUME pass' = pass, store' = store PROVE Goal
  BY <1>1, <1>7
<1> HIDE DEF Goal
<1>8. ASSUME NEW j \in Keys, Retry(j) PROVE Goal
  BY <1>7, <1>8 DEF Retry
<1>9. ASSUME NEW e \in events, Handle(e) \/ HandleFails(e) PROVE Goal
  BY <1>7, <1>9 DEF Handle, HandleFails
<1>10. ASSUME NEW c \in Configs, Deliver(c) PROVE Goal
  BY <1>7, <1>10 DEF Deliver
<1>11. CASE Resync \/ UNCHANGED vars
  BY <1>7, <1>11 DEF Resync, vars
<1> QED
  BY <1>3, <1>5, <1>6, <1>8, <1>9, <1>10, <1>11 DEF Next

\* A pass over a resource as it begins over config c.
LEMMA BegunOver ==
  ASSUME NEW k, NEW c \in Configs,
         pass'[k] = [Begin(c) EXCEPT !.fresh = FALSE,
                       !.config = [Absent EXCEPT !.spec = cache[c].spec]]
  PROVE  /\ pass'[k].pc = "resolving"
         /\ pass'[k].seen = Nothing
         /\ pass'[k].unread = UpFront(pass'[k].config.spec, pass'[k].namespace)
         /\ pass'[k].config.spec = cache[c].spec
         /\ pass'[k].namespace = RefNamespace(c)
<1> DEFINE y == [Absent EXCEPT !.spec = cache[c].spec]
           b == Begin(c)
<1>1. y.spec = cache[c].spec
  BY DEF Absent
<1>2. b \in [pc : {"resolving"}, config : {cache[c]}, namespace : {RefNamespace(c)},
             fresh : BOOLEAN, unread : {UpFront(cache[c].spec, RefNamespace(c))},
             seen : {Nothing}]
  BY DEF Begin
<1> HIDE DEF b, y
<1>3. pass'[k] \in [pc : {"resolving"}, config : {y}, namespace : {RefNamespace(c)},
                    fresh : BOOLEAN,
                    unread : {UpFront(cache[c].spec, RefNamespace(c))},
                    seen : {Nothing}]
  BY <1>2 DEF b, y
<1> QED
  BY <1>1, <1>3

\* What every field of a beginning pass is.
LEMMA BegunForm ==
  ASSUME TypeOK, NEW k \in Keys, Begun(k)
  PROVE  /\ pass'[k].pc = "resolving"
         /\ pass'[k].seen = Nothing
         /\ pass'[k].unread = UpFront(pass'[k].config.spec, pass'[k].namespace)
         /\ k \in Configs => /\ pass'[k].namespace = RefNamespace(k)
                             /\ pass'[k].config = cache[k] /\ cache[k].exists
                             /\ pass'[k].fresh = (k \notin behind)
<1>1. CASE k \in Configs /\ pass'[k] = Begin(k) /\ cache[k].exists
  BY <1>1 DEF Begin
<1>2. ASSUME k \in Resources, NEW c \in Configs,
             pass'[k] = [Begin(c) EXCEPT !.fresh = FALSE,
                           !.config = [Absent EXCEPT !.spec = cache[c].spec]]
      PROVE  /\ pass'[k].pc = "resolving"
             /\ pass'[k].seen = Nothing
             /\ pass'[k].unread = UpFront(pass'[k].config.spec, pass'[k].namespace)
  BY <1>2, BegunOver
<1> QED
  BY <1>1, <1>2, KindsApart DEF Begun

\* Every step leaves passes whose readings are answers, over fresh copies that
\* are the API server's.
LEMMA PassBackedStep ==
  ASSUME TypeOK, TypeOK', PassBacked, CacheBacked, [Next]_vars
  PROVE  PassBacked'
<1> DEFINE Backed(k) ==
      \/ pass'[k].pc = "idle" /\ ~pass'[k].fresh
      \/ /\ pass'[k].pc = "resolving"
         /\ pass'[k].unread \cup DOMAIN pass'[k].seen
              = UpFront(pass'[k].config.spec, pass'[k].namespace)
         /\ \A o \in DOMAIN pass'[k].seen : pass'[k].seen[o] \in Answers(o)'
         /\ k \in Configs => /\ pass'[k].namespace = RefNamespace(k)
                             /\ pass'[k].config.exists
                             /\ pass'[k].fresh => pass'[k].config = store'[k]
<1> SUFFICES ASSUME NEW k \in Keys PROVE Backed(k)
  BY DEF PassBacked, Collected
<1>1. /\ IsPass(pass[k]) /\ IsPass(pass'[k])
      /\ DOMAIN pass[k].seen \subseteq References
      /\ \/ pass[k].pc = "idle" /\ ~pass[k].fresh
         \/ /\ pass[k].pc = "resolving"
            /\ pass[k].unread \cup DOMAIN pass[k].seen
                 = UpFront(pass[k].config.spec, pass[k].namespace)
            /\ \A o \in DOMAIN pass[k].seen : pass[k].seen[o] \in Answers(o)
            /\ k \in Configs => /\ pass[k].namespace = RefNamespace(k)
                                /\ pass[k].config.exists
                                /\ pass[k].fresh => pass[k].config = store[k]
  BY DEF TypeOK, PassBacked, Collected, IsPass
<1>2. \A o \in References : Answers(o) \subseteq Answers(o)'
  BY AnswersGrow
<1>3. CASE pass'[k] = Idle
  BY <1>3, BlankTypes
<1>4. CASE Begun(k) /\ UNCHANGED <<store, references>>
  BY <1>4, BegunForm, BlankTypes DEF CacheBacked
<1>5. ASSUME NEW o \in References, NEW fails \in BOOLEAN, ReadReference(k, o, fails)
      PROVE  Backed(k)
  <2>1. /\ pass'[k].pc = "resolving" /\ pass[k].pc = "resolving"
        /\ pass'[k].config = pass[k].config
        /\ pass'[k].namespace = pass[k].namespace
        /\ pass'[k].fresh = pass[k].fresh
        /\ o \in pass[k].unread
        /\ pass'[k].unread = pass[k].unread \ {o}
        /\ pass'[k].seen = [ x \in DOMAIN pass[k].seen \cup {o} |->
                               IF x = o THEN Get(o, fails) ELSE pass[k].seen[x] ]
    BY <1>5, ReadType
  <2>2. Get(o, fails) \in Answers(o)
    BY GetAnswers
  <2>3. \A x \in DOMAIN pass'[k].seen : pass'[k].seen[x] \in Answers(x)'
    BY <1>1, <1>2, <2>1, <2>2
  <2>4. pass'[k].unread \cup DOMAIN pass'[k].seen
          = pass[k].unread \cup DOMAIN pass[k].seen
    BY <2>1
  <2>5. store' = store
    BY <1>5 DEF ReadReference
  <2> QED
    BY <1>1, <2>1, <2>3, <2>4, <2>5
<1>6. CASE pass'[k] = pass[k] /\ (k \in Configs /\ pass[k].fresh => store'[k] = store[k])
  BY <1>1, <1>2, <1>6
<1>7. CASE k \in Configs /\ Carried(k) /\ ~pass'[k].fresh
  BY <1>1, <1>2, <1>7 DEF Carried
<1> QED
  BY <1>3, <1>4, <1>5, <1>6, <1>7, PassMoves

\* What the cache is not told to take it has.
LEMMA CacheBackedStep ==
  ASSUME TypeOK, CacheBacked, [Next]_vars
  PROVE  CacheBacked'
<1>0. DOMAIN store = Configs /\ DOMAIN cache = Configs
  BY DEF TypeOK
<1>1. ASSUME UNCHANGED <<store, cache, behind>> PROVE CacheBacked'
  BY <1>1 DEF CacheBacked
<1>2. ASSUME NEW k \in Keys, Work(k) PROVE CacheBacked'
  <2>1. CASE UpdateStatus(k)
    BY <1>0, <2>1 DEF UpdateStatus, CacheBacked
  <2>2. ASSUME ~UpdateStatus(k) PROVE UNCHANGED <<store, cache, behind>>
    BY <1>2, <2>2 DEF Work, ReconcileConfig, ReconcileResource, ReadReference,
              ReportUnmoved, UpdateStatusFails, UseConfig
  <2> QED
    BY <1>1, <2>1, <2>2
<1>3. ASSUME NEW c \in Configs, NEW x, WriteConfig(c, x) PROVE CacheBacked'
  BY <1>0, <1>3 DEF WriteConfig, CacheBacked
<1>4. CASE Users
  <2>1. \/ \E c \in Configs : \E x : WriteConfig(c, x)
        \/ UNCHANGED <<store, cache, behind>>
    BY <1>4 DEF Users, ApplyConfig, DeleteConfig, PointResource, WriteReference
  <2> QED
    BY <1>1, <1>3, <2>1
<1>5. ASSUME NEW c \in Configs, Deliver(c) PROVE CacheBacked'
  BY <1>0, <1>5 DEF Deliver, CacheBacked
<1>6. CASE Crash
  BY <1>6 DEF Crash, CacheBacked
<1>7. ASSUME NEW j \in Keys, Retry(j) PROVE CacheBacked'
  BY <1>1, <1>7 DEF Retry
<1>8. ASSUME NEW e \in events, Handle(e) \/ HandleFails(e) PROVE CacheBacked'
  BY <1>1, <1>8 DEF Handle, HandleFails
<1>9. CASE Resync \/ UNCHANGED vars
  BY <1>1, <1>9 DEF Resync, vars
<1> QED
  BY <1>2, <1>4, <1>5, <1>6, <1>7, <1>8, <1>9 DEF Next

-----------------------------------------------------------------------------
(* Readings and resolution *)

\* The fields' answers among readings that hold all there is to read.
Heard(spec, ns, seen) ==
  [f \in Fields |-> IF spec[f].from \in ReferenceKinds
                      THEN IF SourceOf(spec, ns, f) \in DOMAIN seen
                             THEN seen[SourceOf(spec, ns, f)]
                             ELSE NotFound(SourceOf(spec, ns, f))
                      ELSE NoReason]

\* The fields' answers as they would be now.
Now(spec, ns) ==
  [f \in Fields |-> IF spec[f].from \in ReferenceKinds
                      THEN Get(SourceOf(spec, ns, f), FALSE) ELSE NoReason]

\* What Resolve reads up front is what the fields' sources name, as far as it
\* is a reference the cluster can hold.
LEMMA UpFrontSources ==
  ASSUME NEW spec \in Specs, NEW ns
  PROVE  /\ \A f \in Fields : spec[f].from \in ReferenceKinds
                /\ SourceOf(spec, ns, f) \in References
              => SourceOf(spec, ns, f) \in UpFront(spec, ns)
         /\ \A o \in UpFront(spec, ns) : \E f \in Fields :
              spec[f].from \in ReferenceKinds /\ o = SourceOf(spec, ns, f)
         /\ UpFront(spec, ns) \subseteq References
         /\ UpFront(spec, ns) = ReadBy(spec, ns) \cap References
<1>1. ASSUME NEW f \in Fields, spec[f].from \in ReferenceKinds,
             SourceOf(spec, ns, f) \in References
      PROVE  SourceOf(spec, ns, f) \in UpFront(spec, ns)
  <2> DEFINE o == SourceOf(spec, ns, f)
  <2>1. o.kind = spec[f].from /\ o.namespace = ns /\ o.name = spec[f].name
    BY DEF SourceOf, Ref
  <2>2. o.name \in Names(o.kind, spec)
    BY <1>1, <2>1 DEF Names, SecretNames, ConfigMapNames, ValueSources, ReferenceKinds
  <2> QED
    BY <1>1, <2>1, <2>2 DEF UpFront
<1>2. ASSUME NEW o \in UpFront(spec, ns)
      PROVE  \E f \in Fields : spec[f].from \in ReferenceKinds /\ o = SourceOf(spec, ns, f)
  <2>1. o \in References /\ o.namespace = ns /\ o.name \in Names(o.kind, spec)
    BY DEF UpFront
  <2>2. o.kind \in ReferenceKinds
        /\ o = [kind |-> o.kind, namespace |-> o.namespace, name |-> o.name]
    BY <2>1, KeysAssumption
  <2>3. PICK f \in Fields : spec[f].from = o.kind /\ spec[f].name = o.name
    BY <2>1, <2>2 DEF Names, SecretNames, ConfigMapNames, ValueSources, ReferenceKinds
  <2> QED
    BY <2>1, <2>2, <2>3 DEF SourceOf, Ref
<1>3. UpFront(spec, ns) \subseteq References
  BY DEF UpFront
<1>4. \A o : o \in ReadBy(spec, ns) <=>
        \E f \in Fields : spec[f].from \in ReferenceKinds /\ o = SourceOf(spec, ns, f)
  BY DEF ReadBy, SourceOf
<1>5. UpFront(spec, ns) = ReadBy(spec, ns) \cap References
  BY <1>1, <1>2, <1>3, <1>4
<1> QED
  BY <1>1, <1>2, <1>3, <1>5

\* What is no reference of the cluster is never found.
LEMMA GetElsewhere ==
  ASSUME NEW o, o \notin References
  PROVE  Get(o, FALSE) = NotFound(o) /\ Get(o, FALSE)' = NotFound(o)
  BY DEF Get, NotFound

\* With all read up front, a resolution does not depend on when it is made.
LEMMA ResolveHeard ==
  ASSUME NEW spec \in Specs, NEW ns, NEW seen, UpFront(spec, ns) \subseteq DOMAIN seen
  PROVE  /\ Resolve(spec, ns, seen) = Resolving(spec, Heard(spec, ns, seen))
         /\ Resolve(spec, ns, seen)' = Resolving(spec, Heard(spec, ns, seen))
<1>1. \A f \in Fields : spec[f].from \in ReferenceKinds =>
        \/ SourceOf(spec, ns, f) \in DOMAIN seen
        \/ SourceOf(spec, ns, f) \notin References
  BY UpFrontSources
<1>2. Found(spec, ns, seen) = Heard(spec, ns, seen)
  BY <1>1, GetElsewhere DEF Found, Heard, Lookup
<1>3. Found(spec, ns, seen)' = Heard(spec, ns, seen)
  BY <1>1, GetElsewhere DEF Found, Heard, Lookup
<1>4. Resolve(spec, ns, seen)' = Resolving(spec, Found(spec, ns, seen)')
  <2>1. \A s \in Specs : \A n, r : Resolve(s, n, r) = Resolving(s, Found(s, n, r))
    BY ResolveBy
  <2>2. (\A s \in Specs : \A n, r : Resolve(s, n, r) = Resolving(s, Found(s, n, r)))'
    BY <2>1, PTL
  <2>3. \A s \in Specs : \A n, r : Resolve(s, n, r)' = Resolving(s, Found(s, n, r)')
    BY <2>2
  <2> QED
    BY <2>3
<1> QED
  BY <1>2, <1>3, <1>4, ResolveBy

\* The truth about a config is what its fields' sources answer now.
LEMMA PresentForm ==
  ASSUME NEW spec \in Specs, NEW ns, NEW all,
         all = [o \in ReadBy(spec, ns) |-> Get(o, FALSE)]
  PROVE  /\ Resolve(spec, ns, all) = Resolving(spec, Now(spec, ns))
         /\ Versions(all) = [o \in {x \in UpFront(spec, ns) : references[x].exists}
                               |-> references[o].version]
<1>1. \A o : o \in ReadBy(spec, ns) <=>
        \E f \in Fields : spec[f].from \in ReferenceKinds /\ o = SourceOf(spec, ns, f)
  BY DEF ReadBy, SourceOf
<1>2. Found(spec, ns, all) = Now(spec, ns)
  BY <1>1 DEF Found, Now, Lookup
<1>3. ASSUME NEW o
      PROVE  /\ Get(o, FALSE).code = Resolved <=> o \in References /\ references[o].exists
             /\ o \in References /\ references[o].exists =>
                  Get(o, FALSE).object.version = references[o].version
  BY DEF Get, Reading, Resolved
<1>4. {x \in DOMAIN all : all[x].code = Resolved}
        = {x \in UpFront(spec, ns) : references[x].exists}
  BY <1>3, UpFrontSources
<1>5. \A o \in {x \in UpFront(spec, ns) : references[x].exists} :
        all[o].object.version = references[o].version
  BY <1>3, UpFrontSources
<1>6. Versions(all) = [o \in {x \in UpFront(spec, ns) : references[x].exists}
                         |-> references[o].version]
  BY <1>4, <1>5 DEF Versions
<1> QED
  BY <1>2, <1>6, ResolveBy

\* What a user's write may make of config c.
Rewritten(c, x) ==
  \/ x.gen > x.status.gen /\ x.gen > 0 /\ x.status \in {store[c].status, NoStatus}
  \/ ~x.exists /\ x.status = NoStatus
  \/ /\ x.deleting /\ x.exists = store[c].exists
     /\ x.gen = store[c].gen /\ x.spec = store[c].spec
     /\ x.status = store[c].status

\* A config is written by its own status update or by a user.
LEMMA StoreMoves ==
  ASSUME TypeOK, [Next]_vars, NEW c \in Configs
  PROVE  \/ store'[c] = store[c]
         \/ UpdateStatus(c)
         \/ \E x : IsConfig(x) /\ WriteConfig(c, x) /\ Rewritten(c, x)
<1> DEFINE Goal == \/ store'[c] = store[c]
                   \/ UpdateStatus(c)
                   \/ \E x : IsConfig(x) /\ WriteConfig(c, x) /\ Rewritten(c, x)
<1> SUFFICES Goal
  OBVIOUS
<1>0. DOMAIN store = Configs
  BY DEF TypeOK
<1>1. ASSUME store' = store PROVE Goal
  BY <1>1
<1>2. ASSUME NEW k \in Keys, Work(k) PROVE Goal
  <2>1. CASE UpdateStatus(k)
    BY <1>0, <2>1 DEF UpdateStatus
  <2>2. ASSUME ~UpdateStatus(k) PROVE store' = store
    BY <1>2, <2>2 DEF Work, ReconcileConfig, ReconcileResource, ReadReference,
              ReportUnmoved, UpdateStatusFails, UseConfig
  <2> QED
    BY <1>1, <2>1, <2>2
<1>3. ASSUME NEW d \in Configs, NEW x, IsConfig(x), WriteConfig(d, x), Rewritten(d, x)
      PROVE  Goal
  <2>1. CASE d = c
    BY <1>3, <2>1
  <2>2. CASE d # c
    BY <1>3, <2>2, WriteConfigType
  <2> QED
    BY <2>1, <2>2
<1>4. ASSUME NEW d \in Configs, NEW spec \in Specs, ApplyConfig(d, spec) PROVE Goal
  <2>1. PICK x : /\ IsConfig(x) /\ x.gen > x.status.gen /\ x.gen > 0
                 /\ x.status \in {store[d].status, NoStatus}
                 /\ WriteConfig(d, x)
    BY <1>4, ApplyConfigType
  <2> QED
    BY <1>3, <2>1 DEF Rewritten
<1>5. ASSUME NEW d \in Configs, DeleteConfig(d) PROVE Goal
  <2>1. PICK x : /\ IsConfig(x) /\ WriteConfig(d, x)
                 /\ \/ ~x.exists /\ x.status = NoStatus
                    \/ /\ x.deleting /\ x.exists = store[d].exists
                       /\ x.gen = store[d].gen /\ x.spec = store[d].spec
                       /\ x.status = store[d].status
    BY <1>5, DeleteConfigType
  <2> QED
    BY <1>3, <2>1 DEF Rewritten
<1> HIDE DEF Goal
<1>6. CASE Users
  BY <1>1, <1>4, <1>5, <1>6 DEF Users, PointResource, WriteReference
<1>7. ASSUME NEW j \in Keys, Retry(j) PROVE Goal
  BY <1>1, <1>7 DEF Retry
<1>8. ASSUME NEW e \in events, Handle(e) \/ HandleFails(e) PROVE Goal
  BY <1>1, <1>8 DEF Handle, HandleFails
<1>9. ASSUME NEW d \in Configs, Deliver(d) PROVE Goal
  BY <1>1, <1>9 DEF Deliver
<1>10. CASE Resync \/ Crash \/ UNCHANGED vars
  BY <1>1, <1>10 DEF Resync, Crash, vars
<1> QED
  BY <1>2, <1>6, <1>7, <1>8, <1>9, <1>10 DEF Next

\* The status of x renders these answers.
Renders(x, ns, seen) ==
  x.status = SetConditions(x.status.gen, Versions(seen),
               Resolving(x.spec, Heard(x.spec, ns, seen)))

\* StatusBacked without the typing of its readings, and with a resolution that
\* no longer looks at the present state.
LEMMA StatusBackedForm ==
  TypeOK =>
    ( StatusBacked <=>
        \A c \in Configs :
          /\ store[c].exists => store[c].gen > 0
          /\ store[c].exists /\ store[c].status.gen = store[c].gen =>
               \E seen : /\ seen = [o \in UpFront(store[c].spec, RefNamespace(c)) |-> seen[o]]
                         /\ \A o \in DOMAIN seen : seen[o] \in Answers(o)
                         /\ Renders(store[c], RefNamespace(c), seen)
          /\ \A o \in DOMAIN store[c].status.versions :
               store[c].status.versions[o] <= references[o].version )
<1> SUFFICES ASSUME TypeOK
             PROVE  StatusBacked <=>
        \A c \in Configs :
          /\ store[c].exists => store[c].gen > 0
          /\ store[c].exists /\ store[c].status.gen = store[c].gen =>
               \E seen : /\ seen = [o \in UpFront(store[c].spec, RefNamespace(c)) |-> seen[o]]
                         /\ \A o \in DOMAIN seen : seen[o] \in Answers(o)
                         /\ Renders(store[c], RefNamespace(c), seen)
          /\ \A o \in DOMAIN store[c].status.versions :
               store[c].status.versions[o] <= references[o].version
  OBVIOUS
<1>1. ASSUME NEW c \in Configs, NEW first,
             first = UpFront(store[c].spec, RefNamespace(c))
      PROVE  (\E seen \in [first -> UNION { Answers(o) : o \in first }] :
                /\ store[c].status.versions = Versions(seen)
                /\ \A o \in DOMAIN seen : seen[o] \in Answers(o)
                /\ store[c].status.reason
                     = Resolve(store[c].spec, RefNamespace(c), seen).reason)
             <=> \E seen : /\ seen = [o \in first |-> seen[o]]
                           /\ \A o \in DOMAIN seen : seen[o] \in Answers(o)
                           /\ Renders(store[c], RefNamespace(c), seen)
  <2>1. ASSUME NEW seen, seen = [o \in first |-> seen[o]],
               \A o \in DOMAIN seen : seen[o] \in Answers(o)
        PROVE  seen \in [first -> UNION { Answers(o) : o \in first }]
    BY <2>1
  <2>2. store[c].spec \in Specs
    BY DEF TypeOK, IsConfig
  <2>3. ASSUME NEW seen, seen = [o \in first |-> seen[o]]
        PROVE  Resolve(store[c].spec, RefNamespace(c), seen)
                 = Resolving(store[c].spec, Heard(store[c].spec, RefNamespace(c), seen))
    <3>1. DOMAIN seen = first
      BY <2>3
    <3> QED
      BY <1>1, <2>2, <3>1, ResolveHeard
  <2>4. ASSUME NEW seen \in [first -> UNION { Answers(o) : o \in first }]
        PROVE  seen = [o \in first |-> seen[o]]
    OBVIOUS
  <2>5. ASSUME NEW v, NEW outcome
        PROVE  store[c].status = SetConditions(store[c].status.gen, v, outcome)
               <=> /\ store[c].status.versions = v
                   /\ store[c].status.reason = outcome.reason
    <3>1. store[c].status
            = [gen |-> store[c].status.gen, reason |-> store[c].status.reason,
               versions |-> store[c].status.versions]
      <4>1. IsStatus(store[c].status)
        BY DEF TypeOK, IsConfig
      <4>2. store[c].status
              \in [gen : Nat, reason : Codes \cup {Resolved, NoReason},
                  versions : [DOMAIN store[c].status.versions -> Nat]]
        BY <4>1 DEF IsStatus
      <4> QED
        BY <4>2
    <3>2. SetConditions(store[c].status.gen, v, outcome)
            = [gen |-> store[c].status.gen, reason |-> outcome.reason, versions |-> v]
      BY DEF SetConditions
    <3>3. ASSUME store[c].status.versions = v, store[c].status.reason = outcome.reason
          PROVE  store[c].status = SetConditions(store[c].status.gen, v, outcome)
      BY <3>1, <3>2, <3>3, Zenon
    <3>4. ASSUME store[c].status = SetConditions(store[c].status.gen, v, outcome)
          PROVE  store[c].status.versions = v /\ store[c].status.reason = outcome.reason
      BY <3>2, <3>4
    <3> QED
      BY <3>3, <3>4
  <2>6. ASSUME NEW seen, seen = [o \in first |-> seen[o]]
        PROVE  Renders(store[c], RefNamespace(c), seen)
               <=> /\ store[c].status.versions = Versions(seen)
                   /\ store[c].status.reason
                        = Resolve(store[c].spec, RefNamespace(c), seen).reason
    BY <2>3, <2>5, <2>6 DEF Renders
  <2> QED
    BY <2>1, <2>4, <2>6
<1> QED
  BY <1>1 DEF StatusBacked, Collected

\* A status about the present generation goes on rendering readings some pass
\* made: a status write renders its own, an edit outdates it.
LEMMA StatusBackedStep ==
  ASSUME TypeOK, TypeOK', PassBacked, StatusBacked, [Next]_vars
  PROVE  StatusBacked'
<1> DEFINE B(c) ==
      /\ store'[c].exists => store'[c].gen > 0
      /\ store'[c].exists /\ store'[c].status.gen = store'[c].gen =>
           \E seen : /\ seen = [o \in UpFront(store'[c].spec, RefNamespace(c)) |-> seen[o]]
                     /\ \A o \in DOMAIN seen : seen[o] \in Answers(o)'
                     /\ Renders(store'[c], RefNamespace(c), seen)
      /\ \A o \in DOMAIN store'[c].status.versions :
           store'[c].status.versions[o] <= references'[o].version
<1>1. SUFFICES ASSUME NEW c \in Configs PROVE B(c)
  <2>1. ( TypeOK =>
    ( StatusBacked <=>
        \A c \in Configs :
          /\ store[c].exists => store[c].gen > 0
          /\ store[c].exists /\ store[c].status.gen = store[c].gen =>
               \E seen : /\ seen = [o \in UpFront(store[c].spec, RefNamespace(c)) |-> seen[o]]
                         /\ \A o \in DOMAIN seen : seen[o] \in Answers(o)
                         /\ Renders(store[c], RefNamespace(c), seen)
          /\ \A o \in DOMAIN store[c].status.versions :
               store[c].status.versions[o] <= references[o].version ) )'
    BY StatusBackedForm, PTL
  <2> QED
    BY <1>1, <2>1
<1> DEFINE ns == RefNamespace(c)
           x == store[c]
           y == store'[c]
<1>2. IsConfig(x) /\ IsConfig(y)
  BY DEF TypeOK
<1>3. /\ x.spec \in Specs /\ y.spec \in Specs /\ x.gen \in Nat /\ y.gen \in Nat
      /\ DOMAIN x.status.versions \subseteq References
      /\ DOMAIN y.status.versions \subseteq References
      /\ \A o \in DOMAIN x.status.versions : x.status.versions[o] \in Nat
  BY <1>2 DEF IsConfig, IsStatus
<1>4. /\ x.exists => x.gen > 0
      /\ x.exists /\ x.status.gen = x.gen =>
           \E seen : /\ seen = [o \in UpFront(x.spec, ns) |-> seen[o]]
                     /\ \A o \in DOMAIN seen : seen[o] \in Answers(o)
                     /\ Renders(x, ns, seen)
      /\ \A o \in DOMAIN x.status.versions : x.status.versions[o] <= references[o].version
  BY StatusBackedForm
<1>5. \A o \in References : /\ references[o].version \in Nat
                            /\ references'[o].version \in Nat
                            /\ references[o].version <= references'[o].version
  <2>1. \A o \in References : references[o].version \in Nat /\ references'[o].version \in Nat
    BY DEF TypeOK, Objects
  <2> QED
    BY <2>1, ReferencesGrow
<1>6. \A o \in DOMAIN x.status.versions : x.status.versions[o] <= references'[o].version
  BY <1>3, <1>4, <1>5
<1>7. NoStatus.versions = Nothing /\ DOMAIN Nothing = {}
  BY BlankTypes DEF NoStatus
<1>8. ASSUME y.spec = x.spec, y.status = x.status, x.exists, x.status.gen = x.gen
      PROVE  \E seen : /\ seen = [o \in UpFront(y.spec, ns) |-> seen[o]]
                       /\ \A o \in DOMAIN seen : seen[o] \in Answers(o)'
                       /\ Renders(y, ns, seen)
  <2>1. PICK seen : /\ seen = [o \in UpFront(x.spec, ns) |-> seen[o]]
                    /\ \A o \in DOMAIN seen : seen[o] \in Answers(o)
                    /\ Renders(x, ns, seen)
    BY <1>4, <1>8
  <2>2. DOMAIN seen = UpFront(x.spec, ns)
    BY <2>1
  <2>3. \A o \in DOMAIN seen : seen[o] \in Answers(o)'
    BY <1>3, <2>1, <2>2, AnswersGrow, UpFrontSources
  <2> HIDE DEF x, y, ns
  <2> QED
    BY <1>8, <2>1, <2>3 DEF Renders
<1>9. CASE store'[c] = store[c]
  BY <1>4, <1>6, <1>8, <1>9
<1>10. CASE UpdateStatus(c)
  <2> DEFINE seen == pass[c].seen
  <2>1. pass[c].config = x /\ pass[c].pc = "resolving" /\ pass[c].unread = {}
    BY <1>10, FreshIsStored DEF UpdateStatus, Concluded
  <2>2. /\ pass[c].namespace = ns /\ DOMAIN seen = UpFront(x.spec, ns)
        /\ \A o \in DOMAIN seen : seen[o] \in Answers(o)
    BY <2>1 DEF PassBacked, Collected, Keys
  <2>3. seen = [o \in DOMAIN seen |-> seen[o]]
    <3>1. IsPass(pass[c])
      BY DEF TypeOK, Keys
    <3> QED
      BY <3>1 DEF IsPass
  <2>4. /\ y.status = Rendered(c) /\ y.exists = x.exists /\ y.gen = x.gen
        /\ y.spec = x.spec
    <3>1. IsStatus(Rendered(c)) /\ Rendered(c).gen <= x.gen
      BY <1>3, <2>1, RenderedType DEF Keys
    <3>2. y = [x EXCEPT !.status = Rendered(c)]
      BY <1>10 DEF UpdateStatus, TypeOK
    <3> QED
      BY <1>2, <3>1, <3>2, StatusReplaced
  <2>5. references' = references
    BY <1>10 DEF UpdateStatus
  <2>6. Rendered(c) = SetConditions(x.gen, Versions(seen), Resolve(x.spec, ns, seen))
    BY <2>1, <2>2 DEF Rendered, Result
  <2>7. y.status.gen = x.gen
    BY <2>4, <2>6 DEF SetConditions
  <2>8. \A o \in DOMAIN seen : seen[o] \in Answers(o)'
    BY <1>3, <2>2, AnswersGrow, UpFrontSources
  <2>9. Resolve(x.spec, ns, seen) = Resolving(x.spec, Heard(x.spec, ns, seen))
    BY <1>3, <2>2, ResolveHeard
  <2>11. \A o \in DOMAIN Versions(seen) : Versions(seen)[o] <= references'[o].version
    <3>1. ASSUME NEW o \in DOMAIN seen, seen[o].code = Resolved
          PROVE  seen[o].object.version <= references[o].version
      <4>1. o \in References /\ seen[o] \in Answers(o)
        BY <1>3, <2>2, UpFrontSources
      <4>2. seen[o].code # "ReferenceReadFailed"
        BY <3>1 DEF Resolved
      <4> QED
        BY <3>1, <4>1, <4>2, AnswerTrue
    <3> QED
      BY <2>5, <3>1 DEF Versions
  <2>12. y.status.versions = Versions(seen)
    BY <2>4, <2>6 DEF SetConditions
  <2> HIDE DEF seen, x, y, ns
  <2>13. Renders(y, ns, seen)
    BY <2>4, <2>6, <2>7, <2>9 DEF Renders
  <2>14. seen = [o \in UpFront(y.spec, ns) |-> seen[o]]
    BY <2>2, <2>3, <2>4
  <2>15. y.exists => y.gen > 0
    BY <1>4, <2>4
  <2>16. \A o \in DOMAIN y.status.versions : y.status.versions[o] <= references'[o].version
    BY <2>11, <2>12
  <2> QED
    BY <2>8, <2>13, <2>14, <2>15, <2>16 DEF x, y, ns
<1>11. ASSUME NEW z, IsConfig(z), WriteConfig(c, z), Rewritten(c, z) PROVE B(c)
  <2>1. y = z /\ y.status.gen \in Nat
    BY <1>2, <1>11, WriteConfigType DEF IsConfig, IsStatus
  <2> HIDE DEF y
  <2>2. CASE z.gen > z.status.gen /\ z.gen > 0 /\ z.status \in {x.status, NoStatus}
    <3>1. z.gen # z.status.gen
      BY <1>3, <2>1, <2>2
    <3> QED
      BY <1>6, <1>7, <2>1, <2>2, <3>1 DEF y
  <2>3. CASE ~z.exists /\ z.status = NoStatus
    BY <1>7, <2>1, <2>3 DEF y
  <2>4. CASE /\ z.exists = x.exists /\ z.gen = x.gen /\ z.spec = x.spec
             /\ z.status = x.status
    BY <1>4, <1>6, <1>8, <2>1, <2>4 DEF y
  <2> QED
    BY <1>11, <2>2, <2>3, <2>4 DEF Rewritten
<1> QED
  BY <1>9, <1>10, <1>11, StoreMoves

\* At the start no pass is under way and no status written.
LEMMA InitFingerprints == Init => Fingerprints
<1> SUFFICES ASSUME Init PROVE Fingerprints
  OBVIOUS
<1>1. TypeOK
  BY InitTypeOK
<1>2. PassBacked
  BY BlankTypes DEF Init, PassBacked
<1>3. CacheBacked
  BY DEF Init, CacheBacked
<1>4. ASSUME NEW c \in Configs
      PROVE  /\ store[c].exists => store[c].gen = 1
             /\ store[c].status = NoStatus
  <2>1. Absent \in [exists : {FALSE}, deleting : {FALSE}, gen : {0}, spec : {AnySpec},
                    status : {NoStatus}]
    BY DEF Absent
  <2>2. /\ [Absent EXCEPT !.exists = TRUE, !.gen = 1].gen = 1
        /\ [Absent EXCEPT !.exists = TRUE, !.gen = 1].status = NoStatus
        /\ Absent.status = NoStatus
    BY <2>1
  <2>3. ~Absent.exists
    BY DEF Absent
  <2>4. store[c] = Absent \/ store[c] = [Absent EXCEPT !.exists = TRUE, !.gen = 1]
    BY DEF Init
  <2> QED
    BY <2>2, <2>3, <2>4
<1>5. NoStatus.gen = 0 /\ DOMAIN NoStatus.versions = {}
  BY BlankTypes DEF NoStatus
<1>6. StatusBacked
  <2>1. \A c \in Configs :
          /\ store[c].exists => store[c].gen > 0 /\ store[c].status.gen # store[c].gen
          /\ DOMAIN store[c].status.versions = {}
    <3> SUFFICES ASSUME NEW c \in Configs
                 PROVE  /\ store[c].exists =>
                             store[c].gen > 0 /\ store[c].status.gen # store[c].gen
                        /\ DOMAIN store[c].status.versions = {}
      OBVIOUS
    <3>1. store[c].status.gen = 0 /\ DOMAIN store[c].status.versions = {}
      BY <1>4, <1>5
    <3>2. store[c].exists => store[c].gen = 1
      BY <1>4
    <3> QED
      BY <3>1, <3>2
  <2> QED
    BY <1>1, <2>1, StatusBackedForm
<1> QED
  BY <1>1, <1>2, <1>3, <1>6 DEF Fingerprints

\* The readings behind passes and statuses, in every reachable state.
THEOREM FingerprintsHold == Spec => []Fingerprints
<1>1. Init => Fingerprints
  BY InitFingerprints
<1>2. Fingerprints /\ [Next]_vars => Fingerprints'
  BY NextType, PassBackedStep, CacheBackedStep, StatusBackedStep DEF Fingerprints
<1> QED
  BY <1>1, <1>2, PTL DEF Spec

\* TypeOK holds in every reachable state; it rests on Fingerprints, because a
\* status is not ahead of its config only if a fresh copy is the API server's.
THEOREM TypeCorrect == Spec => []TypeOK
<1>1. Fingerprints => TypeOK
  BY DEF Fingerprints
<1> QED
  BY <1>1, FingerprintsHold, PTL

\* The truth about c, by its fields' sources and references.
LEMMA TruthForm ==
  ASSUME TypeOK, NEW c \in Configs
  PROVE  /\ store[c].spec \in Specs
         /\ Truth(c) = Resolving(store[c].spec, Now(store[c].spec, RefNamespace(c)))
         /\ Versions(Present(c))
              = [o \in {x \in UpFront(store[c].spec, RefNamespace(c)) : references[x].exists}
                   |-> references[o].version]
<1>1. store[c].spec \in Specs
  BY DEF TypeOK, IsConfig
<1> DEFINE spec == store[c].spec
           all == [o \in ReadBy(spec, RefNamespace(c)) |-> Get(o, FALSE)]
<1>2. Present(c) = all
  BY DEF Present
<1>3. Truth(c) = Resolve(spec, RefNamespace(c), all)
  BY <1>2 DEF Truth
<1> HIDE DEF all, spec
<1>4. /\ Resolve(spec, RefNamespace(c), all) = Resolving(spec, Now(spec, RefNamespace(c)))
      /\ Versions(all)
           = [o \in {x \in UpFront(spec, RefNamespace(c)) : references[x].exists}
                |-> references[o].version]
  BY <1>1, PresentForm DEF all, spec
<1> QED
  BY <1>1, <1>2, <1>3, <1>4 DEF spec

\* StatusIsFingerprint follows: equal versions are equal readings, and where a
\* reading failed the verdict is that failure or one reached before it.
LEMMA FingerprintsTell == Fingerprints => StatusIsFingerprint
<1> SUFFICES ASSUME Fingerprints, NEW c \in Configs,
                    Watched(c), store[c].status.gen = store[c].gen,
                    store[c].status.versions = Versions(Present(c)),
                    store[c].status.reason # "ReferenceReadFailed"
             PROVE  store[c].status.reason = Truth(c).reason
  BY DEF StatusIsFingerprint
<1> DEFINE spec == store[c].spec
           ns == RefNamespace(c)
           first == UpFront(spec, ns)
<1>1. TypeOK /\ StatusBacked
  BY DEF Fingerprints
<1>2. PICK seen : /\ seen = [o \in first |-> seen[o]]
                  /\ \A o \in DOMAIN seen : seen[o] \in Answers(o)
                  /\ Renders(store[c], ns, seen)
  BY <1>1, StatusBackedForm DEF Watched
<1>3. DOMAIN seen = first
  BY <1>2
<1>4. /\ store[c].status.versions = Versions(seen)
      /\ store[c].status.reason = Resolving(spec, Heard(spec, ns, seen)).reason
  BY <1>2 DEF Renders, SetConditions
<1>5. /\ spec \in Specs /\ Truth(c) = Resolving(spec, Now(spec, ns))
      /\ Versions(seen) = [o \in {x \in first : references[x].exists}
                             |-> references[o].version]
  BY <1>1, <1>4, TruthForm
<1>6. first \subseteq References
  BY <1>5, UpFrontSources
<1>7. ASSUME NEW o \in first
      PROVE  seen[o] = Get(o, FALSE) \/ seen[o].code = "ReferenceReadFailed"
  <2>1. o \in References /\ seen[o] \in Answers(o)
    BY <1>2, <1>3, <1>6, <1>7
  <2>2. o \in DOMAIN Versions(seen) <=> seen[o].code = Resolved
    BY <1>3, <1>7 DEF Versions
  <2>3. o \in DOMAIN Versions(seen) <=> references[o].exists
    BY <1>5, <1>7
  <2>4. CASE references[o].exists
    <3>1. seen[o].code = Resolved /\ seen[o].object.version = references[o].version
      <4>1. Versions(seen)[o] = references[o].version
        BY <1>5, <1>7, <2>4
      <4>2. Versions(seen)[o] = seen[o].object.version
        BY <2>2, <2>3, <2>4 DEF Versions
      <4> QED
        BY <2>2, <2>3, <2>4, <4>1, <4>2
    <3> QED
      BY <1>1, <2>1, <3>1, AnswerTrue DEF Resolved
  <2>5. CASE ~references[o].exists
    <3>1. seen[o].code # Resolved /\ Get(o, FALSE) = NotFound(o)
      BY <2>2, <2>3, <2>5 DEF Get, NotFound
    <3> QED
      BY <1>1, <2>1, <3>1, AnswerTrue
  <2> QED
    BY <2>4, <2>5
<1> HIDE DEF spec, ns, first
<1>8. ASSUME NEW f \in Fields, spec[f].from \in ReferenceKinds
      PROVE  \/ Heard(spec, ns, seen)[f] = Now(spec, ns)[f]
             \/ Heard(spec, ns, seen)[f].code = "ReferenceReadFailed"
  <2> DEFINE o == SourceOf(spec, ns, f)
  <2>1. /\ Now(spec, ns)[f] = Get(o, FALSE)
        /\ Heard(spec, ns, seen)[f] = IF o \in DOMAIN seen THEN seen[o] ELSE NotFound(o)
    BY <1>8 DEF Now, Heard
  <2>2. o \notin first => o \notin References
    BY <1>5, <1>8, UpFrontSources DEF first
  <2> QED
    BY <1>3, <1>7, <2>1, <2>2, GetElsewhere
<1> QED
  BY <1>4, <1>5, <1>8, FirstFailure

\* A status that names the present generation and versions is right, at every
\* moment and whatever was read, written, lost or retried before.
THEOREM StatusIsFingerprintHolds == Spec => []StatusIsFingerprint
  BY FingerprintsHold, FingerprintsTell, PTL

=============================================================================
