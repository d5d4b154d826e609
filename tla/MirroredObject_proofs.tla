----------------------- MODULE MirroredObject_proofs ------------------------
(***************************************************************************)
(* Proofs about MirroredObject, for every document, every setting and all  *)
(* ten kinds: no CR is forgotten, a provider config that is there is found, *)
(* drift is seen, repairs land, the operator's own writes are quiet and are *)
(* found again.                                                            *)
(***************************************************************************)
EXTENDS MirroredObject, TLAPS

-----------------------------------------------------------------------------
(* The ten kinds *)

\* What the generated object, the adapter and the controller of a kind have to
\* agree on: every field of the spec can be compared, none both ways; "id" is
\* none of them and the identity is one; the adapter looks where the object
\* lives, for the field it goes by; and both kinds of config are watched.
Fits(s) ==
  LET o == s.controller.object
  IN /\ DOMAIN s.controller.resource.spec.fields \subseteq o.updatable \cup o.immutable
     /\ o.updatable \cap o.immutable = {}
     /\ "id" \notin o.updatable \cup o.immutable
     /\ o.identity \in o.updatable \cup o.immutable
     /\ s.adapter.path = o.path
     /\ s.adapter.list = ListKey(o.path)
     /\ s.adapter.field = o.identity
     /\ s.controller.watches = {"ProviderConfig", "ClusterProviderConfig"}

\* Each kind, field by field.
LEMMA AuthDomainFits == Fits(SetupAuthDomain)
<1>1. DOMAIN AuthDomainObjectSpec.fields =
        {"config", "enabled", "name", "roleMapping"}
  BY DEF AuthDomainObjectSpec, Struct, ++, Required, Omitempty, Pointer, Group, Each
<1>2. SetupAuthDomain =
        Setup(Controller(Resource(AuthDomainObjectSpec), AuthDomainObject), AuthDomainAdapter)
  BY DEF SetupAuthDomain, AuthDomainReconciler, AuthDomain
<1> QED
  BY <1>1, <1>2 DEF Fits, Setup, Controller, Resource, AuthDomainObject, Object,
                    AuthDomainAdapter, findByField, Finder, ListKey

LEMMA DashboardFits == Fits(SetupDashboard)
<1>1. DOMAIN DashboardObjectSpec.fields =
        {"image", "name", "schemaVersion", "spec", "tags"}
  BY DEF DashboardObjectSpec, Struct, ++, Required, Omitempty, Pointer, Group, Each
<1>2. SetupDashboard =
        Setup(Controller(Resource(DashboardObjectSpec), DashboardObject), DashboardAdapter)
  BY DEF SetupDashboard, DashboardReconciler, Dashboard
<1> QED
  BY <1>1, <1>2 DEF Fits, Setup, Controller, Resource, DashboardObject, Object,
                    DashboardAdapter, findByPage, Finder, ListKey

LEMMA NotificationChannelFits == Fits(SetupNotificationChannel)
<1>1. DOMAIN NotificationChannelObjectSpec.fields =
        {"config", "displayName", "name"}
  BY DEF NotificationChannelObjectSpec, Struct, ++, Required, Omitempty, Pointer, Group, Each
<1>2. SetupNotificationChannel =
        Setup(Controller(Resource(NotificationChannelObjectSpec), NotificationChannelObject),
              NotificationChannelAdapter)
  BY DEF SetupNotificationChannel, NotificationChannelReconciler, NotificationChannel
<1> QED
  BY <1>1, <1>2 DEF Fits, Setup, Controller, Resource, NotificationChannelObject, Object,
                    NotificationChannelAdapter, findByPage, Finder, ListKey

LEMMA PlannedMaintenanceFits == Fits(SetupPlannedMaintenance)
<1>1. DOMAIN PlannedMaintenanceObjectSpec.fields =
        {"alertIds", "description", "name", "schedule", "scope"}
  BY DEF PlannedMaintenanceObjectSpec, Struct, ++, Required, Omitempty, Pointer, Group, Each
<1>2. SetupPlannedMaintenance =
        Setup(Controller(Resource(PlannedMaintenanceObjectSpec), PlannedMaintenanceObject),
              PlannedMaintenanceAdapter)
  BY DEF SetupPlannedMaintenance, PlannedMaintenanceReconciler, PlannedMaintenance
<1> QED
  BY <1>1, <1>2 DEF Fits, Setup, Controller, Resource, PlannedMaintenanceObject, Object,
                    PlannedMaintenanceAdapter, findByField, Finder, ListKey

LEMMA RoleFits == Fits(SetupRole)
<1>1. DOMAIN RoleObjectSpec.fields =
        {"description", "name", "transactionGroups"}
  BY DEF RoleObjectSpec, Struct, ++, Required, Omitempty, Pointer, Group, Each
<1>2. SetupRole = Setup(Controller(Resource(RoleObjectSpec), RoleObject), RoleAdapter)
  BY DEF SetupRole, RoleReconciler, Role
<1> QED
  BY <1>1, <1>2 DEF Fits, Setup, Controller, Resource, RoleObject, Object,
                    RoleAdapter, findByField, Finder, ListKey

LEMMA RoutePolicyFits == Fits(SetupRoutePolicy)
<1>1. DOMAIN RoutePolicyObjectSpec.fields =
        {"channels", "description", "expression", "kind", "name", "tags"}
  BY DEF RoutePolicyObjectSpec, Struct, ++, Required, Omitempty, Pointer, Group, Each
<1>2. SetupRoutePolicy =
        Setup(Controller(Resource(RoutePolicyObjectSpec), RoutePolicyObject),
              RoutePolicyAdapter)
  BY DEF SetupRoutePolicy, RoutePolicyReconciler, RoutePolicy
<1> QED
  BY <1>1, <1>2 DEF Fits, Setup, Controller, Resource, RoutePolicyObject, Object,
                    RoutePolicyAdapter, findByField, Finder, ListKey

LEMMA RuleFits == Fits(SetupRule)
<1>1. DOMAIN RuleObjectSpec.fields =
        {"alert", "alertType", "annotations", "condition", "description",
         "disabled", "evaluation", "labels", "notificationSettings",
         "ruleType", "schemaVersion"}
  BY DEF RuleObjectSpec, Struct, ++, Required, Omitempty, Pointer, Group, Each
<1>2. SetupRule = Setup(Controller(Resource(RuleObjectSpec), RuleObject), RuleAdapter)
  BY DEF SetupRule, RuleReconciler, Rule
<1> QED
  BY <1>1, <1>2 DEF Fits, Setup, Controller, Resource, RuleObject, Object,
                    RuleAdapter, findByField, Finder, ListKey

LEMMA SavedViewFits == Fits(SetupSavedView)
<1>1. DOMAIN SavedViewObjectSpec.fields =
        {"name", "schemaVersion", "source", "spec"}
  BY DEF SavedViewObjectSpec, Struct, ++, Required, Omitempty, Pointer, Group, Each
<1>2. SetupSavedView =
        Setup(Controller(Resource(SavedViewObjectSpec), SavedViewObject), SavedViewAdapter)
  BY DEF SetupSavedView, SavedViewReconciler, SavedView
<1> QED
  BY <1>1, <1>2 DEF Fits, Setup, Controller, Resource, SavedViewObject, Object,
                    SavedViewAdapter, Finder, ListKey

LEMMA ServiceAccountFits == Fits(SetupServiceAccount)
<1>1. DOMAIN ServiceAccountObjectSpec.fields =
        {"name"}
  BY DEF ServiceAccountObjectSpec, Struct, ++, Required, Omitempty, Pointer, Group, Each
<1>2. SetupServiceAccount =
        Setup(Controller(Resource(ServiceAccountObjectSpec), ServiceAccountObject),
              ServiceAccountAdapter)
  BY DEF SetupServiceAccount, ServiceAccountReconciler, ServiceAccount
<1> QED
  BY <1>1, <1>2 DEF Fits, Setup, Controller, Resource, ServiceAccountObject, Object,
                    ServiceAccountAdapter, findByField, Finder, ListKey

LEMMA UserFits == Fits(SetupUser)
<1>1. DOMAIN UserObjectSpec.fields =
        {"displayName", "email"}
  BY DEF UserObjectSpec, Struct, ++, Required, Omitempty, Pointer, Group, Each
<1>2. SetupUser = Setup(Controller(Resource(UserObjectSpec), UserObject), UserAdapter)
  BY DEF SetupUser, UserReconciler, User
<1> QED
  BY <1>1, <1>2 DEF Fits, Setup, Controller, Resource, UserObject, Object,
                    UserAdapter, Finder, ListKey

\* All ten are wired up right.
LEMMA ServedFits == \A k \in DOMAIN Served : Fits(Served[k])
BY AuthDomainFits, DashboardFits, NotificationChannelFits, PlannedMaintenanceFits,
   RoleFits, RoutePolicyFits, RuleFits, SavedViewFits,
   ServiceAccountFits, UserFits DEF Served
-----------------------------------------------------------------------------
(* Documents *)

\* What x says at the root and in the field f, y says too.
Holds(x, y, f) ==
  \A p \in Top(x) \cup Into(x, {f}) : p \in DOMAIN y /\ x[p] = y[p]

\* And what only y says there is zero.
Agree(x, y, f) ==
  /\ Holds(x, y, f)
  /\ \A p \in (Top(y) \cup Into(y, {f})) \ DOMAIN x : isDeepZero(y[p])

\* A path that overlaps a field is the root or leads into the field.
LEMMA OverlapsField ==
  ASSUME NEW f, NEW p
  PROVE  overlaps(<<f>>, p) <=> (1 \in DOMAIN p => p[1] = f)
<1>1. DOMAIN <<f>> = {1} /\ <<f>>[1] = f
  OBVIOUS
<1>2. DOMAIN <<f>> \cap DOMAIN p = {i \in {1} : i \in DOMAIN p}
  BY <1>1
<1> QED
  BY <1>1, <1>2 DEF overlaps

\* Intersect(Diff(...)) reports exactly the fields on which two documents do
\* not agree.
LEMMA DiffedFields ==
  ASSUME NEW x, NEW y, NEW U, NEW f \in U
  PROVE  f \in Intersect(Diff(x, y), U) <=> ~Agree(x, y, f)
<1>1. f \in Intersect(Diff(x, y), U) <=>
        \E p \in Diff(x, y) : (1 \in DOMAIN p => p[1] = f)
  BY OverlapsField DEF Intersect
<1>2. \A d : {p \in DOMAIN d : (1 \in DOMAIN p => p[1] = f)} = Top(d) \cup Into(d, {f})
  BY DEF Top, Into
<1>3. ASSUME NEW p \in Diff(x, y), 1 \in DOMAIN p => p[1] = f
      PROVE  ~Agree(x, y, f)
  <2>1. p \in DOMAIN x => p \in Top(x) \cup Into(x, {f})
    BY <1>2, <1>3
  <2>2. p \in DOMAIN y => p \in Top(y) \cup Into(y, {f})
    BY <1>2, <1>3
  <2> QED
    BY <2>1, <2>2 DEF Agree, Holds, Diff
<1>4. ASSUME ~Agree(x, y, f)
      PROVE  \E p \in Diff(x, y) : (1 \in DOMAIN p => p[1] = f)
  <2>1. CASE ~Holds(x, y, f)
    <3>1. PICK p \in Top(x) \cup Into(x, {f}) : ~(p \in DOMAIN y /\ x[p] = y[p])
      BY <2>1 DEF Holds
    <3>2. p \in DOMAIN x /\ (1 \in DOMAIN p => p[1] = f)
      BY DEF Top, Into
    <3> QED
      BY <3>1, <3>2 DEF Diff
  <2>2. CASE Holds(x, y, f)
    <3>1. PICK p \in (Top(y) \cup Into(y, {f})) \ DOMAIN x : ~isDeepZero(y[p])
      BY <1>4, <2>2 DEF Agree
    <3>2. p \in DOMAIN y /\ (1 \in DOMAIN p => p[1] = f)
      BY DEF Top, Into
    <3> QED
      BY <3>1, <3>2 DEF Diff
  <2> QED
    BY <2>1, <2>2
<1> QED
  BY <1>1, <1>3, <1>4

\* Documents that agree on a field mean the same by it.
LEMMA AgreeingFields ==
  ASSUME NEW x, NEW y, NEW f, Agree(x, y, f)
  PROVE  Meaning(x, f) = Meaning(y, f)
<1> DEFINE says(d) == {p \in Into(d, {f}) : IF d[p].json = "scalar" THEN d[p] # Zero
                                            ELSE d[p].json = "array" /\ d[p].len # 0}
<1>1. \A p \in Into(x, {f}) : p \in Into(y, {f}) /\ x[p] = y[p]
  BY DEF Agree, Holds, Into
<1>2. ASSUME NEW p \in Into(y, {f}), p \notin Into(x, {f})
      PROVE  p \notin says(y)
  <2>1. p \notin DOMAIN x
    BY <1>2 DEF Into
  <2>2. y[p] \in {Null, Zero, Arr(0), Obj}
    BY <2>1 DEF Agree, isDeepZero
  <2> QED
    BY <2>2 DEF Null, Zero, Leaf, Arr, Obj
<1>3. says(x) = says(y)
  BY <1>1, <1>2
<1>4. \A p \in says(x) : x[p] = y[p]
  BY <1>1
<1>5. {<<p, x[p]>> : p \in says(x)} = {<<p, y[p]>> : p \in says(y)}
  <2> HIDE DEF says
  <2> QED
    BY <1>3, <1>4
<1> QED
  BY <1>5 DEF Meaning

LEMMA AgreeTransitive ==
  ASSUME NEW x, NEW y, NEW z, NEW f, Agree(x, y, f), Agree(y, z, f)
  PROVE  Agree(x, z, f)
<1>1. \A p \in Top(x) \cup Into(x, {f}) : p \in Top(y) \cup Into(y, {f}) /\ x[p] = y[p]
  BY DEF Agree, Holds, Top, Into
<1>2. Holds(x, z, f)
  BY <1>1 DEF Agree, Holds
<1>3. ASSUME NEW p \in (Top(z) \cup Into(z, {f})) \ DOMAIN x
      PROVE  isDeepZero(z[p])
  <2>1. CASE p \in DOMAIN y
    <3>1. p \in Top(y) \cup Into(y, {f})
      BY <2>1 DEF Top, Into
    <3>2. isDeepZero(y[p]) /\ y[p] = z[p]
      BY <3>1 DEF Agree, Holds
    <3> QED
      BY <3>2
  <2>2. CASE p \notin DOMAIN y
    BY <2>2 DEF Agree
  <2> QED
    BY <2>1, <2>2
<1> QED
  BY <1>2, <1>3 DEF Agree

\* A scalar that is carried over reads the same.
LEMMA HeldScalar ==
  ASSUME NEW x, NEW y, NEW f, Holds(x, y, f), <<f>> \in DOMAIN x
  PROVE  At(y, f) = At(x, f)
<1>1. 1 \in DOMAIN <<f>> /\ <<f>>[1] = f
  OBVIOUS
<1>2. <<f>> \in Into(x, {f})
  BY <1>1 DEF Into
<1> QED
  BY <1>2 DEF Holds, At

LEMMA HoldsTransitive ==
  ASSUME NEW x, NEW y, NEW z, NEW f, Holds(x, y, f), Holds(y, z, f)
  PROVE  Holds(x, z, f)
BY DEF Holds, Top, Into

-----------------------------------------------------------------------------
(* What SigNoz keeps *)

\* A document filled in has all it had, and new values are as Blank makes them.
LEMMA FilledIn ==
  ASSUME NEW t, NEW q, NEW v
  PROVE  /\ \A p \in DOMAIN v : p \in DOMAIN FillIn(t, q, v) /\ FillIn(t, q, v)[p] = v[p]
         /\ \A p \in DOMAIN FillIn(t, q, v) \ DOMAIN v : isDeepZero(FillIn(t, q, v)[p])
<1>1. PICK filled : FillIn(t, q, v) = v ++ [p \in filled |-> Blank(TypeAt(t, p))]
  BY DEF FillIn
<1>2. \A s : Blank(s) \in {Obj, Null, Zero}
  BY DEF Blank
<1> QED
  BY <1>1, <1>2 DEF ++, isDeepZero

LEMMA FilledWith ==
  ASSUME NEW q, NEW v, NEW value
  PROVE  \A p \in DOMAIN v : /\ p \in DOMAIN FillWith(q, v, value)
                             /\ FillWith(q, v, value)[p] = v[p]
BY DEF FillWith, ++

\* An id given by SigNoz touches no other field.
LEMMA GivenId ==
  ASSUME NEW v
  PROVE  /\ \A p \in DOMAIN v \ Into(v, {"id"}) :
              p \in DOMAIN WithId(v) /\ WithId(v)[p] = v[p]
         /\ \A p \in DOMAIN WithId(v) \ {<<"id">>} :
              p \in DOMAIN v /\ WithId(v)[p] = v[p]
<1>1. 1 \in DOMAIN <<"id">> /\ <<"id">>[1] = "id"
  OBVIOUS
<1>2. <<"id">> \notin DOMAIN v \ Into(v, {"id"})
  BY <1>1 DEF Into
<1> QED
  BY <1>2 DEF WithId

\* The paths of a document that the field f is about, and "id" is not.
LEMMA NotId ==
  ASSUME NEW v, NEW f, f # "id"
  PROVE  /\ Top(v) \cup Into(v, {f}) \subseteq DOMAIN v \ Into(v, {"id"})
         /\ <<"id">> \notin Top(v) \cup Into(v, {f})
<1>1. 1 \in DOMAIN <<"id">> /\ <<"id">>[1] = "id"
  OBVIOUS
<1> QED
  BY <1>1 DEF Top, Into

\* Whatever SigNoz fills in, it keeps what a document says in every field.
LEMMA KeptHolds ==
  ASSUME NEW v, NEW data \in Kept(v), NEW f, f # "id"
  PROVE  Holds(v, data, f)
<1>1. PICK w : /\ data = WithId(w)
               /\ \A p \in DOMAIN v : p \in DOMAIN w /\ w[p] = v[p]
  BY FilledIn, FilledWith DEF Kept
<1>2. ASSUME NEW p \in Top(v) \cup Into(v, {f})
      PROVE  p \in DOMAIN data /\ v[p] = data[p]
  <2>1. p \in DOMAIN w /\ w[p] = v[p]
    BY <1>1 DEF Top, Into
  <2>2. p \in Top(w) \cup Into(w, {f})
    BY <2>1 DEF Top, Into
  <2> QED
    BY <1>1, <2>1, <2>2, NotId, GivenId
<1> QED
  BY <1>2 DEF Holds

\* Filling in nothing but zero values, it keeps a document that agrees.
LEMMA KeptAgrees ==
  ASSUME subject \notin NonZero, NEW v, NEW data \in Kept(v), NEW f, f # "id"
  PROVE  Agree(v, data, f)
<1>1. PICK w : /\ data = WithId(w)
               /\ \A p \in DOMAIN w \ DOMAIN v : isDeepZero(w[p])
  BY FilledIn DEF Kept
<1>2. ASSUME NEW p \in (Top(data) \cup Into(data, {f})) \ DOMAIN v
      PROVE  isDeepZero(data[p])
  <2>1. p \in DOMAIN data /\ p # <<"id">>
    BY NotId DEF Top, Into
  <2> QED
    BY <1>1, <2>1, <1>2, GivenId
<1> QED
  BY <1>2, KeptHolds DEF Agree

\* What the server has once the payload x is put over the object y, before it
\* fills anything in.
Put(x, y, U) ==
  ExtractFields(x, U) ++
  [p \in DOMAIN y \ (Top(y) \cup Into(y, U)) |-> y[p]]

\* The update replaces the fields it may change, and leaves the others.
LEMMA PutAgrees ==
  ASSUME NEW x, NEW y, NEW U, ExtractFields(x, U) # Nil,
         NEW f, f \in U \/ Agree(x, y, f)
  PROVE  Agree(x, Put(x, y, U), f)
<1> DEFINE sent == Top(x) \cup Into(x, U)
           left == DOMAIN y \ (Top(y) \cup Into(y, U))
           put == Put(x, y, U)
<1>1. ExtractFields(x, U) = [p \in sent |-> x[p]]
  BY DEF ExtractFields
<1>2. /\ DOMAIN put = sent \cup left
      /\ \A p \in sent : put[p] = x[p]
      /\ \A p \in left : p \notin sent => put[p] = y[p]
  BY <1>1 DEF Put, ++
<1>3. sent \subseteq DOMAIN x
  BY DEF Top, Into
<1> SUFFICES Agree(x, put, f)
  OBVIOUS
<1> HIDE DEF put
<1>4. CASE f \in U
  <2>1. Top(x) \cup Into(x, {f}) \subseteq sent
    BY <1>4 DEF Into
  <2>2. \A p \in left : p \notin Top(put) \cup Into(put, {f})
    BY <1>4 DEF Top, Into
  <2>3. Top(put) \cup Into(put, {f}) \subseteq DOMAIN put
    BY DEF Top, Into
  <2>4. Top(put) \cup Into(put, {f}) \subseteq DOMAIN x
    BY <1>2, <1>3, <2>2, <2>3
  <2> QED
    BY <1>2, <2>1, <2>4 DEF Agree, Holds
<1>5. CASE f \notin U
  <2>1. Agree(x, y, f)
    BY <1>5
  <2>2. \A p \in Into(x, {f}) : p \in left /\ p \notin sent /\ x[p] = y[p]
    BY <1>5, <2>1 DEF Agree, Holds, Top, Into
  <2>3. Holds(x, put, f)
    BY <1>2, <2>2 DEF Holds
  <2>4. ASSUME NEW p \in (Top(put) \cup Into(put, {f})) \ DOMAIN x
        PROVE  isDeepZero(put[p])
    <3>1. p \in DOMAIN put /\ p \notin sent
      BY <1>3 DEF Top, Into
    <3>2. p \in left /\ put[p] = y[p]
      BY <1>2, <3>1
    <3>3. p \in Into(y, {f})
      BY <3>2 DEF Top, Into
    <3> QED
      BY <2>1, <3>2, <3>3 DEF Agree
  <2> QED
    BY <2>3, <2>4 DEF Agree
<1> QED
  BY <1>4, <1>5

-----------------------------------------------------------------------------
(* The kind and the configuration of a behaviour *)

\* The kind is one of the ten.
LEMMA KindFits ==
  ASSUME TypeOK
  PROVE  /\ DOMAIN schema.fields \subseteq object.updatable \cup object.immutable
         /\ object.updatable \cap object.immutable = {}
         /\ "id" \notin object.updatable \cup object.immutable
         /\ object.identity \in object.updatable \cup object.immutable
         /\ adapter.path = object.path
         /\ adapter.list = ListKey(object.path)
         /\ adapter.field = object.identity
         /\ core.ref \in kind.watches
BY ServedFits DEF TypeOK, IsSetting, Fits, schema, object, adapter, kind, core

\* No step changes what the behaviour is about or the manager's settings.
LEMMA SettingStays ==
  ASSUME [Next]_vars
  PROVE  /\ subject' = subject /\ setting' = setting
         /\ kind' = kind /\ object' = object /\ adapter' = adapter /\ schema' = schema
         /\ config' = config /\ core' = core
<1>1. subject' = subject /\ setting' = setting
  BY DEF Next, vars, Start, RejectSpec, NotResolved, BackendFails, CreateObject, Recreate,
         ImmutableChanged, InSync, UpdateObject, Tick, Edit, Meddle, OtherDelete,
         ConfigChanges, Record
<1> QED
  BY <1>1 DEF kind, object, adapter, schema, config, core

\* What the template is called by depends on its body alone.
LEMMA BodyStays ==
  ASSUME subject' = subject, body' = body
  PROVE  object' = object /\ Identity' = Identity
BY DEF Identity, object, kind

\* Intervals are numbers, and positive when --interval is.
LEMMA Delays ==
  ASSUME TypeOK
  PROVE  /\ config.interval \in Int
         /\ interval(core, config) \in Int
         /\ retryInterval(core, config) \in Int
         /\ config.interval > 0 => /\ interval(core, config) > 0
                                   /\ retryInterval(core, config) > 0
<1>1. /\ core.interval = Unset \/ core.interval[1] \in Int
      /\ core.retryInterval = Unset \/ core.retryInterval[1] \in Int
      /\ setting.passed.interval = Unset \/ setting.passed.interval[1] \in Int
      /\ setting.passed.retryInterval = Unset \/ setting.passed.retryInterval[1] \in Int
      /\ setting.env.interval = Unset \/ setting.env.interval[1] \in Int
      /\ setting.env.retryInterval = Unset \/ setting.env.retryInterval[1] \in Int
  BY DEF TypeOK, IsSetting, core
<1>2. /\ config.interval = Given(setting.passed, setting.env, "interval")
      /\ config.retryInterval = Given(setting.passed, setting.env, "retryInterval")
  BY DEF config, Set, Defaults
<1>3. config.interval \in Int /\ config.retryInterval \in Int
  BY <1>1, <1>2 DEF Given, Defaults
<1> QED
  BY <1>1, <1>3 DEF interval, retryInterval, Positive

\* No error is answered with an outcome of its own making.
LEMMA VerdictOnErr ==
  ASSUME NEW e \in ErrorValues \ {"NotFound", "AlreadyExists"}
  PROVE  /\ OutcomeOnErr(e)[1] \in {"recoverable", "terminal"}
         /\ OutcomeOnErr(e)[2] \in {"BackendUnreachable", "BackendError", "Unauthorized",
                                    "Rejected"}
BY DEF OutcomeOnErr

-----------------------------------------------------------------------------
(* What a pass records *)

IsStatus(st) ==
  st \in [bound : BOOLEAN, hash : {st.hash}, outcome : Outcomes, reason : ConditionReasons]

\* The status a pass leaves, part by part.
Leaves(hash, outcome, reason) ==
  /\ IsStatus(status')
  /\ status'.hash = hash
  /\ status'.outcome = outcome
  /\ status'.reason = reason

LEMMA OutcomeParts ==
  ASSUME NEW st, IsStatus(st), NEW outcome \in Outcomes, NEW reason \in ConditionReasons
  PROVE  /\ IsStatus(Outcome(st, outcome, reason))
         /\ Outcome(st, outcome, reason).bound = st.bound
         /\ Outcome(st, outcome, reason).hash = st.hash
         /\ Outcome(st, outcome, reason).outcome = outcome
         /\ Outcome(st, outcome, reason).reason = reason
BY DEF IsStatus, Outcome

LEMMA BoundParts ==
  ASSUME IsStatus(status), NEW outcome \in Outcomes, NEW reason \in ConditionReasons
  PROVE  /\ IsStatus(Outcome(Bound, outcome, reason))
         /\ Outcome(Bound, outcome, reason).bound
         /\ Outcome(Bound, outcome, reason).hash = status.hash
         /\ Outcome(Bound, outcome, reason).outcome = outcome
         /\ Outcome(Bound, outcome, reason).reason = reason
BY DEF IsStatus, Bound, Outcome

\* A pass that ends in sync records the hash of what it compared.
LEMMA HashedParts ==
  ASSUME IsStatus(status), NEW hash, NEW outcome \in Outcomes, NEW reason \in ConditionReasons,
         status' = Outcome([Bound EXCEPT !.hash = hash], outcome, reason)
  PROVE  status'.bound /\ Leaves(hash, outcome, reason)
<1> DEFINE st == Outcome([Bound EXCEPT !.hash = hash], outcome, reason)
<1>1. IsStatus(st) /\ st.bound /\ st.hash = hash /\ st.outcome = outcome /\ st.reason = reason
  BY DEF IsStatus, Bound, Outcome
<1> HIDE DEF st
<1>2. status' = st
  BY DEF st
<1> QED
  BY <1>1, <1>2 DEF Leaves

\* Every pass, by what it makes of the status.
LEMMA PassStatus ==
  ASSUME TypeOK
  PROVE  /\ RejectSpec => Leaves(status.hash, "terminal", "InvalidSpec")
         /\ NotResolved => Leaves(status.hash, "recoverable",
                                  "ProviderConfigNotReady")
         /\ BackendFails =>
              \E e \in ErrorValues \ {"NotFound", "AlreadyExists"} :
                /\ Leaves(status.hash, OutcomeOnErr(e)[1], OutcomeOnErr(e)[2])
                /\ timer' = IF OutcomeOnErr(e)[1] = "recoverable"
                            THEN retryInterval(core, config) ELSE 0
         /\ CreateObject => Leaves(Hash(body), "synced", "Created")
         /\ Recreate => Leaves(NoHash, "pending", "Pending")
         /\ ImmutableChanged => Leaves(status.hash, "terminal", "ImmutableFieldChanged")
         /\ InSync => Leaves(Hash(body), "synced", "Synced")
         /\ UpdateObject => Leaves(Hash(body), "synced", "Updated")
<1>0. IsStatus(status)
  BY DEF TypeOK, IsStatus
<1>1. RejectSpec => Leaves(status.hash, "terminal", "InvalidSpec")
  <2>1. "terminal" \in Outcomes /\ "InvalidSpec" \in ConditionReasons
    BY DEF Outcomes, ConditionReasons
  <2> QED
    BY <1>0, <2>1, OutcomeParts DEF RejectSpec, Record, Leaves
<1>2. NotResolved => Leaves(status.hash, "recoverable", "ProviderConfigNotReady")
  <2>1. "recoverable" \in Outcomes /\ "ProviderConfigNotReady" \in ConditionReasons
    BY DEF Outcomes, ConditionReasons
  <2> QED
    BY <1>0, <2>1, OutcomeParts DEF NotResolved, Record, Leaves
<1>3. ASSUME BackendFails
      PROVE  \E e \in ErrorValues \ {"NotFound", "AlreadyExists"} :
               /\ Leaves(status.hash, OutcomeOnErr(e)[1], OutcomeOnErr(e)[2])
               /\ timer' = IF OutcomeOnErr(e)[1] = "recoverable"
                           THEN retryInterval(core, config) ELSE 0
  <2>1. PICK e \in ErrorValues \ {"NotFound", "AlreadyExists"}, st \in {status, Bound} :
          Record(Outcome(st, OutcomeOnErr(e)[1], OutcomeOnErr(e)[2]),
                 IF OutcomeOnErr(e)[1] = "recoverable" THEN retryInterval(core, config) ELSE 0)
    BY <1>3 DEF BackendFails
  <2>2. OutcomeOnErr(e)[1] \in Outcomes /\ OutcomeOnErr(e)[2] \in ConditionReasons
    BY VerdictOnErr DEF Outcomes, ConditionReasons
  <2> DEFINE o == OutcomeOnErr(e)[1]
             r == OutcomeOnErr(e)[2]
  <2>3. timer' = IF o = "recoverable" THEN retryInterval(core, config) ELSE 0
    BY <2>1 DEF Record
  <2>4. status' = Outcome(status, o, r) \/ status' = Outcome(Bound, o, r)
    BY <2>1 DEF Record
  <2> HIDE DEF o, r
  <2>5. Leaves(status.hash, o, r)
    BY <1>0, <2>2, <2>4, OutcomeParts, BoundParts DEF Leaves, o, r
  <2> QED
    BY <2>3, <2>5 DEF o, r
<1>4. "synced" \in Outcomes /\ {"Created", "Synced", "Updated"} \subseteq ConditionReasons
  BY DEF Outcomes, ConditionReasons
<1>5. CreateObject => Leaves(Hash(body), "synced", "Created")
  BY <1>0, <1>4, HashedParts DEF CreateObject, Record, Leaves
<1>6. Recreate => Leaves(NoHash, "pending", "Pending")
  BY DEF Recreate, Record, Leaves, IsStatus, Outcomes, ConditionReasons
<1>7. ImmutableChanged => Leaves(status.hash, "terminal", "ImmutableFieldChanged")
  <2>1. "terminal" \in Outcomes /\ "ImmutableFieldChanged" \in ConditionReasons
    BY DEF Outcomes, ConditionReasons
  <2> QED
    BY <1>0, <2>1, BoundParts DEF ImmutableChanged, Record, Leaves
<1>8. InSync => Leaves(Hash(body), "synced", "Synced")
  BY <1>0, <1>4, HashedParts DEF InSync, Record, Leaves
<1>9. UpdateObject => Leaves(Hash(body), "synced", "Updated")
  BY <1>0, <1>4, HashedParts DEF UpdateObject, Record, Leaves
<1> QED
  BY <1>1, <1>2, <1>3, <1>5, <1>6, <1>7, <1>8, <1>9

\* A binding outlives every pass but the one that finds the object gone.
LEMMA PassBound ==
  ASSUME TypeOK
  PROVE  /\ RejectSpec \/ NotResolved \/ BackendFails => (status.bound => status'.bound)
         /\ CreateObject \/ ImmutableChanged \/ InSync \/ UpdateObject => status'.bound
<1>0. IsStatus(status)
  BY DEF TypeOK, IsStatus
<1>1. /\ {"terminal", "recoverable", "synced"} \subseteq Outcomes
      /\ {"InvalidSpec", "ProviderConfigNotReady", "ImmutableFieldChanged", "Created",
          "Synced", "Updated"} \subseteq ConditionReasons
  BY DEF Outcomes, ConditionReasons
<1>2. RejectSpec \/ NotResolved => (status.bound => status'.bound)
  <2>1. RejectSpec => status' = Outcome(status, "terminal", "InvalidSpec")
    BY DEF RejectSpec, Record
  <2>2. NotResolved => status' = Outcome(status, "recoverable", "ProviderConfigNotReady")
    BY DEF NotResolved, Record
  <2>3. /\ Outcome(status, "terminal", "InvalidSpec").bound = status.bound
        /\ Outcome(status, "recoverable", "ProviderConfigNotReady").bound = status.bound
    BY <1>0, <1>1, OutcomeParts
  <2> QED
    BY <2>1, <2>2, <2>3
<1>3. BackendFails => (status.bound => status'.bound)
  <2>1. SUFFICES ASSUME BackendFails, status.bound
                 PROVE  status'.bound
    OBVIOUS
  <2>2. PICK e \in ErrorValues \ {"NotFound", "AlreadyExists"} :
          \/ status' = Outcome(status, OutcomeOnErr(e)[1], OutcomeOnErr(e)[2])
          \/ status' = Outcome(Bound, OutcomeOnErr(e)[1], OutcomeOnErr(e)[2])
    BY <2>1 DEF BackendFails, Record
  <2>3. OutcomeOnErr(e)[1] \in Outcomes /\ OutcomeOnErr(e)[2] \in ConditionReasons
    BY VerdictOnErr DEF Outcomes, ConditionReasons
  <2> QED
    BY <1>0, <2>1, <2>2, <2>3, OutcomeParts, BoundParts
<1>4. ImmutableChanged => status'.bound
  BY <1>0, <1>1, BoundParts DEF ImmutableChanged, Record
<1>5. CreateObject \/ InSync \/ UpdateObject => status'.bound
  BY <1>0, <1>1, HashedParts DEF CreateObject, InSync, UpdateObject, Record
<1> QED
  BY <1>2, <1>3, <1>4, <1>5

\* The object in SigNoz is not confused with its absence.
LEMMA RemoteThere ==
  ASSUME NEW path, NEW data
  PROVE  [path |-> path, data |-> data] # Absent
<1>1. DOMAIN [path |-> path, data |-> data] # DOMAIN Absent
  BY DEF Absent
<1> QED
  BY <1>1

\* What an update does to the object in SigNoz.
LEMMA UpdateRemote ==
  ASSUME TypeOK, UpdateObject
  PROVE  /\ remote # Absent
         /\ Payload = Nil => UNCHANGED <<remote, ours>>
         /\ Payload # Nil =>
              /\ \E data \in Kept(Put(body.value, remote.data, object.updatable)) :
                   remote' = [path |-> object.path, data |-> data]
              /\ ours' = TRUE
<1>1. remote # Absent
  BY DEF UpdateObject, Existing
<1>2. remote \in [path : {object.path}, data : {remote.data}]
  BY <1>1 DEF TypeOK
<1>3. \A data : [remote EXCEPT !.data = data] = [path |-> object.path, data |-> data]
  BY <1>2
<1>4. Payload = Nil => UNCHANGED <<remote, ours>>
  BY DEF UpdateObject
<1>5. ASSUME Payload # Nil
      PROVE  /\ \E data \in Kept(Put(body.value, remote.data, object.updatable)) :
                  remote' = [remote EXCEPT !.data = data]
             /\ ours' = TRUE
  BY <1>5 DEF UpdateObject, Put, Payload
<1> QED
  BY <1>1, <1>3, <1>4, <1>5

-----------------------------------------------------------------------------
(* The inductive invariant *)

LEMMA InitMirror == Init => MirrorInductive
<1> SUFFICES ASSUME Init
             PROVE  MirrorInductive
  OBVIOUS
<1>1. PICK c \in Cases : subject = c.field /\ setting = c.setting /\ ready = c.ready
  BY DEF Init
<1>2. subject.kind \in DOMAIN Served /\ IsSetting(setting) /\ ready \in BOOLEAN
  BY <1>1, CasesAssumption
<1>3. IsStatus(status)
  BY DEF Init, IsStatus, Outcomes, ConditionReasons
<1>4. {ready, due, stale, fresh, ours, changed} \subseteq BOOLEAN
  BY <1>2 DEF Init
<1>5. TypeOK
  BY <1>2, <1>3, <1>4 DEF TypeOK, Init, IsStatus
<1> QED
  BY <1>5 DEF MirrorInductive, QueuedInScope, OursIsNamed, Init

\* Every step keeps every variable in its type.
LEMMA NextType ==
  ASSUME TypeOK, [Next]_vars
  PROVE  TypeOK'
<1>1. subject'.kind \in DOMAIN Served /\ IsSetting(setting')
  BY SettingStays DEF TypeOK
<1>2. manager' \in {"starting", "refused", "running"}
  BY DEF TypeOK, Next, vars, Start, RejectSpec, NotResolved, BackendFails, CreateObject, Recreate,
         ImmutableChanged, InSync, UpdateObject, Tick, Edit, Meddle, OtherDelete,
         ConfigChanges, Record
<1>3. IsStatus(status')
  <2>1. CASE RejectSpec \/ NotResolved \/ BackendFails \/ CreateObject \/ Recreate
             \/ ImmutableChanged \/ InSync \/ UpdateObject
    BY <2>1, PassStatus DEF Leaves
  <2>2. CASE UNCHANGED vars \/ Start \/ Tick \/ Edit \/ Meddle \/ OtherDelete \/ ConfigChanges
    BY <2>2 DEF TypeOK, IsStatus, vars, Start, Tick, Edit, Meddle, OtherDelete, ConfigChanges
  <2> QED
    BY <2>1, <2>2 DEF Next
<1>4. ASSUME remote' # Absent
      PROVE  remote' \in [path : {object'.path}, data : {remote'.data}]
  <2>1. object' = object
    BY SettingStays
  <2>2. CASE remote' = remote
    BY <1>4, <2>1, <2>2 DEF TypeOK
  <2>3. CASE \E data : remote' = [path |-> object.path, data |-> data]
    BY <2>1, <2>3
  <2>4. \/ remote' = remote
        \/ remote' = Absent
        \/ \E data : remote' = [path |-> object.path, data |-> data]
    <3>1. CASE UpdateObject
      BY <3>1, UpdateRemote
    <3>2. CASE CreateObject \/ Meddle \/ OtherDelete
      BY <3>2 DEF CreateObject, Meddle, OtherDelete
    <3>3. CASE UNCHANGED vars \/ Start \/ RejectSpec \/ NotResolved \/ BackendFails \/ Recreate
               \/ ImmutableChanged \/ InSync \/ Tick \/ Edit \/ ConfigChanges
      BY <3>3 DEF vars, Start, RejectSpec, NotResolved, BackendFails, Recreate,
                  ImmutableChanged, InSync, Tick, Edit, ConfigChanges
    <3> QED
      BY <3>1, <3>2, <3>3 DEF Next
  <2> QED
    BY <1>4, <2>2, <2>3, <2>4
<1>5. timer' \in Int
  <2>1. CASE RejectSpec \/ NotResolved \/ CreateObject \/ Recreate \/ ImmutableChanged
             \/ InSync \/ UpdateObject
    BY <2>1, Delays DEF RejectSpec, NotResolved, CreateObject, Recreate, ImmutableChanged,
                        InSync, UpdateObject, Record, requeueAfterOnNotFound
  <2>2. CASE BackendFails
    BY <2>2, Delays, PassStatus
  <2>3. CASE UNCHANGED vars \/ Start \/ Tick \/ Edit \/ Meddle \/ OtherDelete \/ ConfigChanges
    BY <2>3 DEF TypeOK, vars, Start, Tick, Edit, Meddle, OtherDelete, ConfigChanges
  <2> QED
    BY <2>1, <2>2, <2>3 DEF Next
<1>6. {ready', due', stale', fresh', ours', changed'} \subseteq BOOLEAN
  <2>0. {ready, due, stale, fresh, ours, changed} \subseteq BOOLEAN
    BY DEF TypeOK
  <2>1. CASE RejectSpec \/ NotResolved \/ BackendFails \/ CreateObject \/ Recreate
             \/ ImmutableChanged \/ InSync
    BY <2>0, <2>1 DEF RejectSpec, NotResolved, BackendFails, CreateObject, Recreate,
                      ImmutableChanged, InSync, Record, Shallow, Outside
  <2>2. CASE UpdateObject
    <3>1. ours' \in BOOLEAN
      BY <2>0, <2>2, UpdateRemote
    <3> QED
      BY <2>0, <2>2, <3>1 DEF UpdateObject, Record
  <2>3. CASE Start
    BY <2>0, <2>3 DEF Start, InScope
  <2>4. CASE UNCHANGED vars \/ Tick \/ Meddle \/ OtherDelete
    BY <2>0, <2>4 DEF vars, Tick, Meddle, OtherDelete, Outside, Shallow
  <2>5. CASE Edit
    BY <2>0, <2>5 DEF Edit, Outside, Shallow, InScope
  <2>6. CASE ConfigChanges
    BY <2>0, <2>6 DEF ConfigChanges, Outside, Shallow
  <2> QED
    BY <2>1, <2>2, <2>3, <2>4, <2>5, <2>6 DEF Next
<1> QED
  BY <1>1, <1>2, <1>3, <1>4, <1>5, <1>6 DEF TypeOK, IsStatus

\* A pass needs a queued CR, a timer comes from a pass, and a watch queues only
\* what the cache holds.
LEMMA NextQueued ==
  ASSUME MirrorInductive, [Next]_vars
  PROVE  QueuedInScope'
<1>0. TypeOK /\ QueuedInScope /\ config' = config /\ core' = core
  BY SettingStays DEF MirrorInductive
<1>1. CASE Start
  <2>1. /\ timer' = timer
        /\ due' = due \/ (manager' = "running" /\ due' = InScope(config, core.namespace))
    BY <1>1 DEF Start
  <2>2. manager = "starting" /\ ~due /\ ~(timer > 0)
    BY <1>0, <1>1 DEF Start, QueuedInScope
  <2> QED
    BY <1>0, <2>1, <2>2 DEF QueuedInScope
<1>2. CASE RejectSpec \/ NotResolved \/ BackendFails \/ CreateObject \/ Recreate
           \/ ImmutableChanged \/ InSync \/ UpdateObject
  <2>1. due /\ manager' = manager
    BY <1>2 DEF RejectSpec, NotResolved, BackendFails, CreateObject, Recreate,
                ImmutableChanged, InSync, UpdateObject, Record, Existing, Reaches
  <2> QED
    BY <1>0, <2>1 DEF QueuedInScope
<1>3. CASE UNCHANGED vars \/ Tick \/ Meddle \/ OtherDelete
  <2>1. manager' = manager /\ ((due' \/ timer' > 0) => (due \/ timer > 0))
    BY <1>3 DEF vars, Tick, Meddle, OtherDelete
  <2> QED
    BY <1>0, <2>1 DEF QueuedInScope
<1>4. CASE Edit \/ ConfigChanges
  <2>1. manager = "running" /\ manager' = manager /\ timer' = timer
        /\ (due' => due \/ InScope(config, core.namespace))
    BY <1>4 DEF Edit, ConfigChanges, Shallow, Outside
  <2> QED
    BY <1>0, <2>1 DEF QueuedInScope
<1> QED
  BY <1>1, <1>2, <1>3, <1>4 DEF Next

\* A body that names something parses and says the name.
LEMMA NamedBody ==
  ASSUME Identity # NoString
  PROVE  /\ body # Failed
         /\ Identity = ExtractString(body.value, object.identity)
         /\ <<object.identity>> \in DOMAIN body.value
<1>1. body # Failed /\ Identity = ExtractString(body.value, object.identity)
  BY DEF Identity
<1> QED
  BY <1>1 DEF ExtractString, At

\* The fields a pass may go on with agree, when no immutable one differs.
LEMMA ImmutableAgrees ==
  ASSUME Compare.immutable = {}, NEW f \in object.immutable
  PROVE  Agree(body.value, remote.data, f)
<1>1. f \notin Intersect(Diff(body.value, remote.data), object.immutable)
  BY DEF Compare
<1> QED
  BY <1>1, DiffedFields

\* A create and an update leave the object named as the template names it,
\* whatever SigNoz fills in.
LEMMA WrittenIsNamed ==
  ASSUME TypeOK,
         CreateObject \/ (UpdateObject /\ Payload # Nil)
  PROVE  /\ remote' # Absent
         /\ Identity # NoString
         /\ At(remote'.data, object.identity) = At(body.value, object.identity)
<1>1. Identity # NoString
  BY DEF CreateObject, UpdateObject, Existing, Reaches
<1>2. object.identity # "id" /\ <<object.identity>> \in DOMAIN body.value
  BY <1>1, NamedBody, KindFits
<1>3. CASE CreateObject
  <2>1. PICK data \in Kept(body.value) : remote' = [path |-> object.path, data |-> data]
    BY <1>3 DEF CreateObject
  <2>2. Holds(body.value, data, object.identity)
    BY <1>2, KeptHolds
  <2>3. At(data, object.identity) = At(body.value, object.identity)
    BY <1>2, <2>2, HeldScalar
  <2> QED
    BY <1>1, <2>1, <2>3, RemoteThere
<1>4. CASE UpdateObject /\ Payload # Nil
  <2> DEFINE put == Put(body.value, remote.data, object.updatable)
  <2>1. PICK data \in Kept(put) : remote' = [path |-> object.path, data |-> data]
    BY <1>4, UpdateRemote
  <2>2. object.identity \in object.updatable \/ Agree(body.value, remote.data, object.identity)
    BY <1>4, KindFits, ImmutableAgrees DEF UpdateObject
  <2>3. Agree(body.value, put, object.identity)
    BY <1>4, <2>2, PutAgrees DEF Payload
  <2> HIDE DEF put
  <2>4. Holds(body.value, data, object.identity)
    BY <1>2, <2>3, KeptHolds, HoldsTransitive DEF Agree
  <2>5. At(data, object.identity) = At(body.value, object.identity)
    BY <1>2, <2>4, HeldScalar
  <2> QED
    BY <1>1, <2>1, <2>5, RemoteThere
<1> QED
  BY <1>3, <1>4

LEMMA NextNamed ==
  ASSUME MirrorInductive, [Next]_vars
  PROVE  OursIsNamed'
<1>0. TypeOK /\ OursIsNamed /\ object' = object /\ subject' = subject
  BY SettingStays DEF MirrorInductive
<1>1. ASSUME ours' => /\ status'.bound
                      /\ remote' # Absent
                      /\ Identity # NoString
                      /\ At(remote'.data, object.identity) = At(body.value, object.identity),
             body' = body
      PROVE  OursIsNamed'
  BY <1>0, <1>1, BodyStays DEF OursIsNamed
<1>2. CASE RejectSpec \/ Recreate
  <2>1. ~ours /\ ours' = ours /\ body' = body
    BY <1>0, <1>2 DEF RejectSpec, Recreate, Record, OursIsNamed
  <2> QED
    BY <1>1, <2>1
<1>3. CASE NotResolved \/ BackendFails \/ ImmutableChanged \/ InSync
  <2>1. ours' = ours /\ remote' = remote /\ body' = body
    BY <1>3 DEF NotResolved, BackendFails, ImmutableChanged, InSync, Record
  <2>2. status.bound => status'.bound
    BY <1>0, <1>3, PassBound
  <2> QED
    BY <1>0, <1>1, <2>1, <2>2 DEF OursIsNamed
<1>4. CASE CreateObject \/ (UpdateObject /\ Payload # Nil)
  <2>1. body' = body
    BY <1>4 DEF CreateObject, UpdateObject, Record
  <2>2. status'.bound
    BY <1>0, <1>4, PassBound
  <2> QED
    BY <1>0, <1>1, <1>4, <2>1, <2>2, WrittenIsNamed
<1>5. CASE UpdateObject /\ Payload = Nil
  <2>1. ours' = ours /\ remote' = remote /\ body' = body
    BY <1>5 DEF UpdateObject, Record
  <2>2. status'.bound
    BY <1>0, <1>5, PassBound
  <2> QED
    BY <1>0, <1>1, <2>1, <2>2 DEF OursIsNamed
<1>6. CASE Edit
  <2>1. /\ ours' => ours /\ body' # Failed /\ body'.value = body.value
        /\ remote' = remote /\ status' = status
    BY <1>0, <1>6 DEF Edit
  <2>2. ours' => Identity' = Identity
    BY <1>0, <2>1, NamedBody DEF Identity, OursIsNamed
  <2> QED
    BY <1>0, <2>1, <2>2 DEF OursIsNamed
<1>7. CASE Meddle \/ OtherDelete
  BY <1>7 DEF Meddle, OtherDelete, OursIsNamed
<1>8. CASE UNCHANGED vars \/ Start \/ Tick \/ ConfigChanges
  <2>1. ours' = ours /\ remote' = remote /\ body' = body /\ status' = status
    BY <1>8 DEF vars, Start, Tick, ConfigChanges
  <2> QED
    BY <1>0, <1>1, <2>1 DEF OursIsNamed
<1> QED
  BY <1>2, <1>3, <1>4, <1>5, <1>6, <1>7, <1>8 DEF Next

\* Types hold, only CRs in the cache's scope are queued, and what the operator
\* wrote is bound and still goes by the template's name: the objects of all ten
\* kinds, whatever documents users write and SigNoz fills in.
THEOREM MirrorInductiveHolds == Spec => []MirrorInductive
<1>1. Init => MirrorInductive
  BY InitMirror
<1>2. MirrorInductive /\ [Next]_vars => MirrorInductive'
  <2> SUFFICES ASSUME MirrorInductive, [Next]_vars
               PROVE  MirrorInductive'
    OBVIOUS
  <2>1. TypeOK'
    BY NextType DEF MirrorInductive
  <2> QED
    BY <2>1, NextQueued, NextNamed DEF MirrorInductive
<1> QED
  BY <1>1, <1>2, PTL DEF Spec

-----------------------------------------------------------------------------
(* No CR is forgotten, and no config that is there is missed *)

LEMMA NextNeverForgotten ==
  ASSUME MirrorInductive, NeverForgotten, [Next]_vars
  PROVE  NeverForgotten'
<1>0. TypeOK /\ config' = config /\ core' = core
  BY SettingStays DEF MirrorInductive
<1> SUFFICES ASSUME manager' = "running", InScope(config, core.namespace), config.interval > 0
             PROVE  due' \/ timer' > 0 \/ (status'.outcome = "terminal" /\ ~stale')
  BY <1>0 DEF NeverForgotten
<1>1. interval(core, config) > 0 /\ retryInterval(core, config) > 0
  BY <1>0, Delays
<1>2. CASE Start
  BY <1>2 DEF Start
<1>3. CASE RejectSpec \/ ImmutableChanged
  <2>1. status'.outcome = "terminal"
    BY <1>0, <1>3, PassStatus DEF Leaves
  <2>2. ~stale'
    BY <1>3 DEF RejectSpec, ImmutableChanged, Record
  <2> QED
    BY <2>1, <2>2
<1>4. CASE NotResolved \/ CreateObject \/ Recreate \/ InSync \/ UpdateObject
  BY <1>1, <1>4 DEF NotResolved, CreateObject, Recreate, InSync, UpdateObject, Record,
                    requeueAfterOnNotFound
<1>5. CASE BackendFails
  <2>1. PICK e \in ErrorValues \ {"NotFound", "AlreadyExists"} :
          /\ Leaves(status.hash, OutcomeOnErr(e)[1], OutcomeOnErr(e)[2])
          /\ timer' = IF OutcomeOnErr(e)[1] = "recoverable"
                      THEN retryInterval(core, config) ELSE 0
    BY <1>0, <1>5, PassStatus
  <2>2. OutcomeOnErr(e)[1] \in {"recoverable", "terminal"}
    BY VerdictOnErr
  <2>3. ~stale'
    BY <1>5 DEF BackendFails, Record
  <2> QED
    BY <1>1, <2>1, <2>2, <2>3 DEF Leaves
<1>6. CASE Tick \/ Edit
  BY <1>6 DEF Tick, Edit
<1>7. CASE ConfigChanges
  BY <1>0, <1>7, KindFits DEF ConfigChanges
<1>8. CASE UNCHANGED vars \/ Meddle \/ OtherDelete
  <2>1. manager' = manager /\ due' = due /\ timer' = timer /\ stale' = stale /\ status' = status
    BY <1>8 DEF vars, Meddle, OtherDelete
  <2> QED
    BY <2>1 DEF NeverForgotten
<1> QED
  BY <1>2, <1>3, <1>4, <1>5, <1>6, <1>7, <1>8 DEF Next

\* A CR the manager serves always has another pass ahead, unless its outcome is
\* terminal and its provider config has not changed since: for every setting
\* with a positive --interval.
THEOREM NeverForgottenHolds == Spec => []NeverForgotten
<1>1. Init => NeverForgotten
  BY DEF Init, NeverForgotten
<1>2. MirrorInductive /\ NeverForgotten /\ [Next]_vars => NeverForgotten'
  BY NextNeverForgotten
<1> QED
  BY <1>1, <1>2, MirrorInductiveHolds, PTL DEF Spec

\* A CR in the queue has its provider config in the cache's scope: the config
\* next to it, or the one in the operator's own namespace.
LEMMA QueuedResolves ==
  ASSUME MirrorInductive, due, ready
  PROVE  Resolves
<1>1. InScope(config, core.namespace)
  BY DEF MirrorInductive, QueuedInScope
<1>2. InScope(config, config.operatorNamespace)
  BY DEF InScope, buildCacheOptions
<1> QED
  BY <1>1, <1>2 DEF Resolves

LEMMA NextReadyIsResolved ==
  ASSUME MirrorInductive, ReadyIsResolved, [Next]_vars
  PROVE  ReadyIsResolved'
<1>0. TypeOK
  BY DEF MirrorInductive
<1>1. CASE NotResolved
  BY <1>1, QueuedResolves DEF NotResolved, Record, ReadyIsResolved
<1>2. CASE RejectSpec \/ CreateObject \/ Recreate \/ ImmutableChanged \/ InSync \/ UpdateObject
  <2>1. status'.reason # "ProviderConfigNotReady"
    BY <1>0, <1>2, PassStatus DEF Leaves
  <2> QED
    BY <2>1 DEF ReadyIsResolved
<1>3. CASE BackendFails
  <2>1. status'.reason # "ProviderConfigNotReady"
    BY <1>0, <1>3, PassStatus, VerdictOnErr DEF Leaves
  <2> QED
    BY <2>1 DEF ReadyIsResolved
<1>4. CASE ConfigChanges
  BY <1>4 DEF ConfigChanges, ReadyIsResolved
<1>5. CASE UNCHANGED vars \/ Start \/ Tick \/ Edit \/ Meddle \/ OtherDelete
  <2>1. ready' = ready /\ stale' = stale /\ status' = status
    BY <1>5 DEF vars, Start, Tick, Edit, Meddle, OtherDelete
  <2> QED
    BY <2>1 DEF ReadyIsResolved
<1> QED
  BY <1>1, <1>2, <1>3, <1>4, <1>5 DEF Next

\* No pass reports a provider config missing that exists, whatever the
\* namespaces the manager was told to watch.
THEOREM ReadyIsResolvedHolds == Spec => []ReadyIsResolved
<1>1. Init => ReadyIsResolved
  BY DEF Init, ReadyIsResolved
<1>2. MirrorInductive /\ ReadyIsResolved /\ [Next]_vars => ReadyIsResolved'
  BY NextReadyIsResolved
<1> QED
  BY <1>1, <1>2, MirrorInductiveHolds, PTL DEF Spec

-----------------------------------------------------------------------------
(* What the operator wrote is found again *)

\* The object a create made is found by its identity: the adapter of every kind
\* looks in the collection the object was posted to, for the field it is named
\* by, whatever SigNoz filled in.
THEOREM FindsItsOwnHolds == Spec => []FindsItsOwn
<1>1. MirrorInductive => FindsItsOwn
  <2> SUFFICES ASSUME MirrorInductive, ours, Identity # NoString, remote.path = object.path
               PROVE  Find
    BY DEF FindsItsOwn
  <2>1. TypeOK /\ remote # Absent
        /\ At(remote.data, object.identity) = At(body.value, object.identity)
    BY DEF MirrorInductive, OursIsNamed
  <2>2. adapter.path = remote.path /\ adapter.list = ListKey(remote.path)
        /\ adapter.field = object.identity
    BY <2>1, KindFits
  <2>3. ExtractString(remote.data, adapter.field) = Identity
    BY <2>1, <2>2, NamedBody DEF ExtractString
  <2> QED
    BY <2>1, <2>2, <2>3 DEF Find, EqualFold
<1> QED
  BY <1>1, MirrorInductiveHolds, PTL

-----------------------------------------------------------------------------
(* Drift is seen, and repairs land *)

\* Documents that agree on every field the kind compares mean the same.
LEMMA AgreeIsDeclared ==
  ASSUME TypeOK, remote # Absent,
         \A f \in object.updatable \cup object.immutable : Agree(body.value, remote.data, f)
  PROVE  AsDeclared
BY KindFits, AgreeingFields DEF AsDeclared

\* A comparison that reports nothing has found agreement in every field.
LEMMA EmptyCompare ==
  ASSUME TypeOK
  PROVE  Compare = [updatable |-> {}, immutable |-> {}] <=>
           \A f \in object.updatable \cup object.immutable : Agree(body.value, remote.data, f)
<1> DEFINE paths == Diff(body.value, remote.data)
<1>1. \A U : Intersect(paths, U) = {} <=> \A f \in U : f \notin Intersect(paths, U)
  BY DEF Intersect
<1>2. \A U : Intersect(paths, U) = {} <=> \A f \in U : Agree(body.value, remote.data, f)
  BY <1>1, DiffedFields
<1>3. Compare = [updatable |-> {}, immutable |-> {}] <=>
        Intersect(paths, object.updatable) = {} /\ Intersect(paths, object.immutable) = {}
  BY DEF Compare
<1> QED
  BY <1>2, <1>3

\* A step that leaves the body and the object alone leaves their meaning.
LEMMA DeclaredStays ==
  ASSUME [Next]_vars, body' = body, remote' = remote
  PROVE  AsDeclared' <=> AsDeclared
BY SettingStays DEF AsDeclared

LEMMA NextDriftSeen ==
  ASSUME MirrorInductive, DriftSeen, [Next]_vars
  PROVE  DriftSeen'
<1>0. TypeOK
  BY DEF MirrorInductive
<1>1. CASE InSync
  <2>1. remote # Absent /\ Compare = [updatable |-> {}, immutable |-> {}]
        /\ remote' = remote /\ body' = body
    BY <1>1 DEF InSync, Existing, Record
  <2>2. AsDeclared
    BY <1>0, <2>1, EmptyCompare, AgreeIsDeclared
  <2> QED
    BY <2>1, <2>2, DeclaredStays DEF DriftSeen
<1>2. CASE RejectSpec \/ NotResolved \/ CreateObject \/ Recreate \/ ImmutableChanged
           \/ UpdateObject
  <2>1. status'.reason # "Synced"
    BY <1>0, <1>2, PassStatus DEF Leaves
  <2> QED
    BY <2>1 DEF DriftSeen
<1>3. CASE BackendFails
  <2>1. status'.reason # "Synced"
    BY <1>0, <1>3, PassStatus, VerdictOnErr DEF Leaves
  <2> QED
    BY <2>1 DEF DriftSeen
<1>4. CASE Edit \/ Meddle \/ OtherDelete
  BY <1>4 DEF Edit, Meddle, OtherDelete, DriftSeen
<1>5. CASE UNCHANGED vars \/ Start \/ Tick \/ ConfigChanges
  <2>1. fresh' = fresh /\ status' = status /\ remote' = remote
        /\ body' = body
    BY <1>5 DEF vars, Start, Tick, ConfigChanges
  <2> QED
    BY <2>1, DeclaredStays DEF DriftSeen
<1> QED
  BY <1>1, <1>2, <1>3, <1>4, <1>5 DEF Next

\* A pass that reports Synced compared everything: no field of any kind's
\* schema, however deep, differs in SigNoz.
THEOREM DriftSeenHolds == Spec => []DriftSeen
<1>1. Init => DriftSeen
  BY DEF Init, DriftSeen
<1>2. MirrorInductive /\ DriftSeen /\ [Next]_vars => DriftSeen'
  BY NextDriftSeen
<1> QED
  BY <1>1, <1>2, MirrorInductiveHolds, PTL DEF Spec

\* What SigNoz keeps of a create or an update agrees with the template in every
\* field, when it fills in nothing but zero values.
LEMMA WrittenAgrees ==
  ASSUME TypeOK, subject \notin NonZero,
         CreateObject \/ (UpdateObject /\ Payload # Nil)
  PROVE  \A f \in object.updatable \cup object.immutable : Agree(body.value, remote'.data, f)
<1> TAKE f \in object.updatable \cup object.immutable
<1>1. f # "id"
  BY KindFits
<1>2. CASE CreateObject
  <2>1. PICK data \in Kept(body.value) : remote' = [path |-> object.path, data |-> data]
    BY <1>2 DEF CreateObject
  <2> QED
    BY <1>1, <2>1, KeptAgrees
<1>3. CASE UpdateObject /\ Payload # Nil
  <2> DEFINE put == Put(body.value, remote.data, object.updatable)
  <2>1. PICK data \in Kept(put) : remote' = [path |-> object.path, data |-> data]
    BY <1>3, UpdateRemote
  <2>2. f \in object.updatable \/ Agree(body.value, remote.data, f)
    BY <1>3, ImmutableAgrees DEF UpdateObject
  <2>3. Agree(body.value, put, f)
    BY <1>3, <2>2, PutAgrees DEF Payload
  <2> HIDE DEF put
  <2>4. Agree(put, data, f)
    BY <1>1, KeptAgrees
  <2> QED
    BY <2>1, <2>3, <2>4, AgreeTransitive
<1> QED
  BY <1>2, <1>3

LEMMA NextRepairLands ==
  ASSUME subject \notin NonZero, MirrorInductive, RepairLands, [Next]_vars
  PROVE  RepairLands'
<1>0. TypeOK /\ TypeOK' /\ subject' = subject /\ object' = object
  BY NextType, SettingStays DEF MirrorInductive
<1>1. CASE UpdateObject
  <2>1. body' = body
    BY <1>1 DEF UpdateObject, Record
  <2>2. (Payload # Nil)' = (Payload # Nil)
    BY <1>0, <2>1 DEF Payload
  <2>3. ASSUME Payload # Nil
        PROVE  AsDeclared'
    <3>1. remote' # Absent
      BY <1>0, <1>1, <2>3, WrittenIsNamed
    <3>2. \A f \in object'.updatable \cup object'.immutable : Agree(body'.value, remote'.data, f)
      BY <1>0, <1>1, <2>1, <2>3, WrittenAgrees
    <3>3. (remote # Absent /\ TypeOK
           /\ \A f \in object.updatable \cup object.immutable :
                Agree(body.value, remote.data, f))'
      BY <1>0, <3>1, <3>2
    <3> QED
      BY <3>3, AgreeIsDeclared, PTL
  <2> QED
    BY <2>2, <2>3 DEF RepairLands
<1>2. CASE RejectSpec \/ NotResolved \/ CreateObject \/ Recreate \/ ImmutableChanged
           \/ InSync
  <2>1. status'.reason # "Updated"
    BY <1>0, <1>2, PassStatus DEF Leaves
  <2> QED
    BY <2>1 DEF RepairLands
<1>3. CASE BackendFails
  <2>1. status'.reason # "Updated"
    BY <1>0, <1>3, PassStatus, VerdictOnErr DEF Leaves
  <2> QED
    BY <2>1 DEF RepairLands
<1>4. CASE Edit \/ Meddle \/ OtherDelete
  BY <1>4 DEF Edit, Meddle, OtherDelete, RepairLands
<1>5. CASE UNCHANGED vars \/ Start \/ Tick \/ ConfigChanges
  <2>1. fresh' = fresh /\ status' = status /\ remote' = remote
        /\ body' = body
    BY <1>5 DEF vars, Start, Tick, ConfigChanges
  <2>2. Payload' = Payload
    BY <1>0, <2>1 DEF Payload
  <2> QED
    BY <2>1, <2>2, DeclaredStays DEF RepairLands
<1> QED
  BY <1>1, <1>2, <1>3, <1>4, <1>5 DEF Next

\* An update that sent something leaves the object as the template says, fields
\* removed from it included, unless SigNoz fills the field in with a value of its
\* own that is not zero.
THEOREM RepairLandsHolds == Spec => [](subject \notin NonZero => RepairLands)
<1>1. Init => RepairLands
  BY DEF Init, RepairLands
<1>2. MirrorInductive /\ (subject \notin NonZero => RepairLands) /\ [Next]_vars
        => (subject \notin NonZero => RepairLands)'
  BY NextRepairLands, SettingStays
<1> QED
  BY <1>1, <1>2, MirrorInductiveHolds, PTL DEF Spec

\* What the operator wrote agrees with the template in every field, and no other
\* content was hashed since.
Quiet ==
  ours => /\ \A f \in object.updatable \cup object.immutable : Agree(body.value, remote.data, f)
          /\ status.hash \in {NoHash, Hash(body)}

LEMMA NextQuiet ==
  ASSUME subject \notin NonZero, MirrorInductive, Quiet, [Next]_vars
  PROVE  Quiet'
<1>0. TypeOK /\ OursIsNamed /\ object' = object /\ subject' = subject
  BY SettingStays DEF MirrorInductive
<1>1. ASSUME body' = body
      PROVE  Hash(body)' = Hash(body)
  BY <1>1 DEF Hash
<1>2. CASE CreateObject \/ (UpdateObject /\ Payload # Nil)
  <2>1. body' = body
    BY <1>2 DEF CreateObject, UpdateObject, Record
  <2>2. status'.hash = Hash(body)
    BY <1>0, <1>2, PassStatus DEF Leaves
  <2> QED
    BY <1>0, <1>1, <1>2, <2>1, <2>2, WrittenAgrees DEF Quiet
<1>3. CASE InSync \/ (UpdateObject /\ Payload = Nil)
  <2>1. body' = body /\ ours' = ours /\ remote' = remote
    BY <1>3 DEF InSync, UpdateObject, Record
  <2>2. status'.hash = Hash(body)
    BY <1>0, <1>3, PassStatus DEF Leaves
  <2> QED
    BY <1>0, <1>1, <2>1, <2>2 DEF Quiet
<1>4. CASE Recreate
  BY <1>0, <1>4 DEF Recreate, OursIsNamed, Quiet
<1>5. CASE RejectSpec \/ NotResolved \/ BackendFails \/ ImmutableChanged
  <2>1. body' = body /\ ours' = ours /\ remote' = remote
    BY <1>5 DEF RejectSpec, NotResolved, BackendFails, ImmutableChanged, Record
  <2>2. status'.hash = status.hash
    BY <1>0, <1>5, PassStatus DEF Leaves
  <2> QED
    BY <1>0, <1>1, <2>1, <2>2 DEF Quiet
<1>6. CASE Edit
  <2>1. /\ ours' => ours /\ body'.value = body.value
        /\ remote' = remote /\ status' = status
    BY <1>0, <1>6 DEF Edit
  <2>2. ours' => Hash(body)' = Hash(body)
    BY <2>1 DEF Hash
  <2> QED
    BY <1>0, <2>1, <2>2 DEF Quiet
<1>7. CASE Meddle \/ OtherDelete
  BY <1>7 DEF Meddle, OtherDelete, Quiet
<1>8. CASE UNCHANGED vars \/ Start \/ Tick \/ ConfigChanges
  <2>1. body' = body /\ ours' = ours /\ remote' = remote /\ status' = status
    BY <1>8 DEF vars, Start, Tick, ConfigChanges
  <2> QED
    BY <1>0, <1>1, <2>1 DEF Quiet
<1> QED
  BY <1>2, <1>3, <1>4, <1>5, <1>6, <1>7, <1>8 DEF Next

\* What the operator wrote is never taken for drift, nor is a template with the
\* same content in another form or layout, unless SigNoz fills the field in with
\* a value of its own that is not zero.
THEOREM OwnWritesAreQuietHolds == Spec => [](subject \notin NonZero => OwnWritesAreQuiet)
<1>1. Init => Quiet
  BY DEF Init, Quiet
<1>2. MirrorInductive /\ (subject \notin NonZero => Quiet) /\ [Next]_vars
        => (subject \notin NonZero => Quiet)'
  BY NextQuiet, SettingStays
<1>3. MirrorInductive /\ Quiet => OwnWritesAreQuiet
  BY EmptyCompare DEF MirrorInductive, Quiet, OwnWritesAreQuiet, isChangedByHash
<1> QED
  BY <1>1, <1>2, <1>3, MirrorInductiveHolds, PTL DEF Spec

=============================================================================
