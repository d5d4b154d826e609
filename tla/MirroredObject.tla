--------------------------- MODULE MirroredObject ---------------------------
(***************************************************************************)
(* One mirrored resource of any kind the manager serves, from the settings *)
(* the manager starts with to the bytes that reach SigNoz: the object      *)
(* template rendered, looked up, posted, read back, compared and put.      *)
(*                                                                         *)
(* CommonReconciler has the steps of a pass and their interleavings; here  *)
(* a pass is one step and the documents are real.  A behaviour is about    *)
(* one field of one kind: the templates vary it, and SigNoz may fill it in. *)
(***************************************************************************)
EXTENDS Kinds, Manager, Conditions

CONSTANTS
  Cases,      \* what a behaviour may be about: a field and the setting it is in
  Templates,  \* the object templates a user may write about each field
  NonZero,    \* the top-level fields SigNoz fills in with a value of its own
  Depth       \* bound: the longest path of a field that more than a change in
              \* SigNoz happens to

\* A CR names a config of one of the two kinds, and intervals are numbers.
IsSetting(s) ==
  /\ s.core.ref \in {"ProviderConfig", "ClusterProviderConfig"}
  /\ \A name \in {"interval", "retryInterval"} :
       \A given \in {s.core[name], s.passed[name], s.env[name]} :
         given = Unset \/ given[1] \in Int

ASSUME CasesAssumption ==
  \A c \in Cases : c.field.kind \in DOMAIN Served /\ IsSetting(c.setting) /\ c.ready \in BOOLEAN

VARIABLES
  subject,         \* the field this behaviour is about
  setting,         \* flags, environment and core spec; never changes
  manager,         \* "starting", "refused" or "running"
  ready,           \* the provider config the CR names, and its secret, exist
  objectTemplate,  \* the CR's spec.objectTemplate
  body,            \* what it renders to, which only an edit changes
  status,          \* CoreStatus: bound, hash, outcome and reason
  remote,          \* the object in SigNoz: the path it lives at and its data
  due,             \* the CR's key is in the work queue
  timer,           \* seconds of the pending RequeueAfter, 0 for none
  stale,           \* the provider config changed since the last pass
  fresh,           \* neither the CR nor the object changed since the last pass
  ours,            \* the object is as the operator last wrote it, for this content
  changed          \* something outside the operator happened already

vars == <<subject, setting, manager, ready, objectTemplate, body, status, remote, due, timer,
          stale, fresh, ours, changed>>

Absent == [absent |-> TRUE]
NoHash == [unset |-> TRUE]

kind == Served[subject.kind].controller
object == kind.object
adapter == Served[subject.kind].adapter
schema == kind.resource.spec

config == Set(setting.passed, setting.env)
core == setting.core

-----------------------------------------------------------------------------
(* Documents *)

\* What a template renders to.
Body(template) == Render(schema, template)

\* What a server holds for a value of a type it was not given.
Blank(t) ==
  CASE t.type \in {"struct", "map"} -> Obj
    [] t.type \in {"list", "raw"} -> Null
    [] OTHER -> Zero

\* The document with the field at path p filled in wherever it is missing, a
\* struct with the scalars in it.
FillIn(t, p, v) ==
  LET above == {q \in DOMAIN v : /\ v[q] = Obj
                                 /\ Len(q) < Len(p) /\ p[Len(q) + 1] # "*"
                                 /\ \A i \in DOMAIN q : p[i] \in {q[i], "*"}}
      missing == {Append(q, p[Len(q) + 1]) : q \in above} \ DOMAIN v
      scalars(q) ==
        LET s == TypeAt(t, q)
        IN IF s.type = "struct"
           THEN {k \in DOMAIN s.fields : s.fields[k].type \in {Scalar, Filled}} ELSE {}
      filled == missing \cup UNION {{Append(q, k) : k \in scalars(q)} : q \in missing}
  IN v ++ [q \in filled |-> Blank(TypeAt(t, q))]

\* The document with a value of the server's own where path p is missing.
FillWith(p, v, value) ==
  IF Len(p) = 1 THEN v ++ [q \in {p} |-> value] ELSE v

\* The answer's document has an id, whatever the body said.
WithId(v) ==
  [q \in (DOMAIN v \ Into(v, {"id"})) \cup {<<"id">>} |->
     IF q = <<"id">> THEN Leaf("v") ELSE v[q]]

\* What SigNoz may keep of a document: as it came, or with its own default for
\* a field left out; and an id either way.
Kept(v) ==
  IF subject \in NonZero THEN {WithId(FillWith(subject.path, v, Leaf("v")))}
  ELSE {WithId(v), WithId(FillIn(schema, subject.path, v))}

-----------------------------------------------------------------------------
(* The parts of a pass *)

\* Identity: the string at the kind's identity field of the rendered body.
Identity ==
  IF body = Failed THEN NoString ELSE ExtractString(body.value, object.identity)

\* strings.EqualFold on the values the documents hold.
EqualFold(a, b) == a = b \/ {a, b} = {"v", "V"}

\* Where a list endpoint's answer holds its entries.
ListKey(path) ==
  CASE path = "/api/v2/dashboards" -> "dashboards"
    [] path = "/api/v2/notification_channels" -> "channels"
    [] OTHER -> ""

\* The adapter's Find, with the one object there may be.
Find ==
  /\ remote # Absent
  /\ adapter.path = remote.path
  /\ adapter.list = ListKey(remote.path)
  /\ LET entry == ExtractString(remote.data, adapter.field)
     IN IF adapter.fold THEN EqualFold(entry, Identity) ELSE entry = Identity

Compare ==
  LET paths == Diff(body.value, remote.data)
  IN [updatable |-> Intersect(paths, object.updatable),
      immutable |-> Intersect(paths, object.immutable)]

\* A faulty payload, of the fields that differ alone.
PayloadOfChanges == ExtractFields(body.value, Compare.updatable)

\* ToUpdate
Payload == ExtractFields(body.value, object.updatable)

\* A ProviderConfig and its secret are the CR's neighbours; those of a
\* ClusterProviderConfig are in the operator's namespace.
Resolves ==
  /\ ready
  /\ InScope(config, IF core.ref = "ProviderConfig" THEN core.namespace
                     ELSE config.operatorNamespace)

\* A pass that gets as far as SigNoz.
Reaches == due /\ Identity # NoString /\ Resolves

\* What every pass leaves behind.
Record(st, requeueAfter) ==
  /\ status' = st
  /\ timer' = requeueAfter
  /\ due' = FALSE
  /\ stale' = FALSE
  /\ fresh' = TRUE
  /\ UNCHANGED <<subject, setting, manager, ready, objectTemplate, body>>

Outcome(st, outcome, reason) == [st EXCEPT !.outcome = outcome, !.reason = reason]

Bound == [status EXCEPT !.bound = TRUE]

-----------------------------------------------------------------------------
Init ==
  /\ \E c \in Cases : subject = c.field /\ setting = c.setting /\ ready = c.ready
  /\ manager = "starting"
  /\ objectTemplate \in Templates[subject]
  /\ body = Body(objectTemplate)
  /\ status = [bound |-> FALSE, hash |-> NoHash, outcome |-> "none", reason |-> "None"]
  /\ remote = Absent
  /\ due = FALSE
  /\ timer = 0
  /\ stale = FALSE
  /\ fresh = FALSE
  /\ ours = FALSE
  /\ changed = FALSE

\* run: the flags, then the configuration, then the controllers; the first
\* listing of the CRs in scope queues each of them.
Start ==
  /\ manager = "starting"
  /\ IF SetFails(setting.passed, setting.rejected) \/ ~buildConfig(config)
     THEN manager' = "refused" /\ UNCHANGED due
     ELSE manager' = "running" /\ due' = InScope(config, core.namespace)
  /\ UNCHANGED <<subject, setting, ready, objectTemplate, body, status, remote, timer, stale,
                 fresh, ours, changed>>

\* A document that does not parse, or names nothing, is never sent.
RejectSpec ==
  /\ due
  /\ Identity = NoString
  /\ Record(Outcome(status, "terminal", "InvalidSpec"), 0)
  /\ UNCHANGED <<remote, ours, changed>>

\* signozClientFor fails.
NotResolved ==
  /\ due
  /\ ~Resolves
  /\ Identity # NoString
  /\ Record(Outcome(status, "recoverable", "ProviderConfigNotReady"),
            retryInterval(core, config))
  /\ UNCHANGED <<remote, ours, changed>>

\* onNewObject: nothing found, so the whole body is posted.
CreateObject ==
  /\ ~status.bound
  /\ Reaches
  /\ ~Find
  /\ \E data \in Kept(body.value) : remote' = [path |-> object.path, data |-> data]
  /\ ours' = TRUE
  /\ UNCHANGED changed
  /\ Record(Outcome([Bound EXCEPT !.hash = Hash(body)], "synced", "Created"),
            interval(core, config))

\* onExistingObject: the recorded object is gone.
Recreate ==
  /\ status.bound
  /\ remote = Absent
  /\ Reaches
  /\ Record([bound |-> FALSE, hash |-> NoHash, outcome |-> "pending", reason |-> "Pending"],
            requeueAfterOnNotFound)
  /\ UNCHANGED <<remote, ours, changed>>

\* The object a pass compares: the recorded one, or the one match it adopts.
Existing == remote # Absent /\ Reaches /\ (status.bound \/ Find)

ImmutableChanged ==
  /\ Existing
  /\ Compare.immutable # {}
  /\ Record(Outcome(Bound, "terminal", "ImmutableFieldChanged"), 0)
  /\ UNCHANGED <<remote, ours, changed>>

isChangedByHash == status.hash \notin {NoHash, Hash(body)}

InSync ==
  /\ Existing
  /\ Compare = [updatable |-> {}, immutable |-> {}]
  /\ ~isChangedByHash
  /\ Record(Outcome([Bound EXCEPT !.hash = Hash(body)], "synced", "Synced"),
            interval(core, config))
  /\ UNCHANGED <<remote, ours, changed>>

\* SigNoz replaces what an update may change; a nil payload is never sent.
UpdateObject ==
  /\ Existing
  /\ Compare.immutable = {}
  /\ Compare.updatable # {} \/ isChangedByHash
  /\ IF Payload = Nil THEN UNCHANGED <<remote, ours>>
     ELSE LET others == DOMAIN remote.data \ (Top(remote.data) \cup
                                               Into(remote.data, object.updatable))
              put == Payload ++ [p \in others |-> remote.data[p]]
          IN /\ \E data \in Kept(put) : remote' = [remote EXCEPT !.data = data]
             /\ ours' = TRUE
  /\ UNCHANGED changed
  /\ Record(Outcome([Bound EXCEPT !.hash = Hash(body)], "synced", "Updated"),
            interval(core, config))

\* RequeueAfter elapses.
Tick ==
  /\ timer > 0
  /\ timer' = 0
  /\ due' = TRUE
  /\ UNCHANGED <<subject, setting, manager, ready, objectTemplate, body, status, remote, stale,
                 fresh, ours, changed>>

-----------------------------------------------------------------------------
(* What the operator does not do itself: one such step in a behaviour *)

Outside == manager = "running" /\ ~changed /\ changed' = TRUE

Shallow == Outside /\ Len(subject.path) <= Depth

\* onAdapterError: a call fails, and not with the answers passes branch on.
\* An adoption is recorded before the first read of what is adopted.
BackendFails ==
  /\ Shallow
  /\ Reaches
  /\ \E e \in ErrorValues \ {"NotFound", "AlreadyExists"},
        st \in {status} \cup IF Find THEN {Bound} ELSE {} :
       LET verdict == OutcomeOnErr(e)
       IN Record(Outcome(st, verdict[1], verdict[2]),
                 IF verdict[1] = "recoverable" THEN retryInterval(core, config) ELSE 0)
  /\ UNCHANGED <<remote, ours>>

\* An edit of the CR, or of its layout alone, queues it.
Edit ==
  /\ Shallow
  /\ objectTemplate' \in Templates[subject] \ {objectTemplate}
  /\ due' = InScope(config, core.namespace)
  /\ fresh' = FALSE
  /\ body' = Body(objectTemplate')
  /\ ours' = (ours /\ body' # Failed /\ body'.value = body.value)
  /\ UNCHANGED <<subject, setting, manager, ready, status, remote, timer, stale>>

\* Somebody else makes or changes the object in SigNoz.
Meddle ==
  /\ Outside
  /\ \E t \in Templates[subject] :
       t.doc # Malformed /\ remote' = [path |-> object.path, data |-> WithId(t.doc)]
  /\ remote' # remote
  /\ fresh' = FALSE
  /\ ours' = FALSE
  /\ UNCHANGED <<subject, setting, manager, ready, objectTemplate, body, status, due, timer,
                 stale>>

OtherDelete ==
  /\ Shallow
  /\ remote # Absent
  /\ remote' = Absent
  /\ fresh' = FALSE
  /\ ours' = FALSE
  /\ UNCHANGED <<subject, setting, manager, ready, objectTemplate, body, status, due, timer,
                 stale>>

\* The provider config or its secret comes or goes; the watch on its kind
\* queues the CRs that name it.
ConfigChanges ==
  /\ Shallow
  /\ ready' = ~ready
  /\ due' = (due \/ (core.ref \in kind.watches /\ InScope(config, core.namespace)))
  /\ stale' = TRUE
  /\ UNCHANGED <<subject, setting, manager, objectTemplate, body, status, remote, timer, fresh,
                 ours>>

Next ==
  \/ Start
  \/ RejectSpec \/ NotResolved \/ BackendFails
  \/ CreateObject \/ Recreate
  \/ ImmutableChanged \/ InSync \/ UpdateObject
  \/ Tick
  \/ Edit \/ Meddle \/ OtherDelete \/ ConfigChanges

Spec == Init /\ [][Next]_vars

-----------------------------------------------------------------------------
(* Properties *)

\* A field of a document by its meaning: the scalars in it that are not zero
\* values and the lists that are not empty, each with the path that leads to it.
Meaning(x, f) ==
  LET says == {p \in Into(x, {f}) : IF x[p].json = "scalar" THEN x[p] # Zero
                                    ELSE x[p].json = "array" /\ x[p].len # 0}
  IN {<<p, x[p]>> : p \in says}

\* The object in SigNoz means what the template says, in every field of the
\* kind's schema.
AsDeclared ==
  /\ remote # Absent
  /\ LET declared == body.value
     IN \A f \in DOMAIN schema.fields : Meaning(declared, f) = Meaning(remote.data, f)

\* A pass that reports Synced compared everything: no field of the schema,
\* however deep, differs in SigNoz (README.md: drift correction; the fields
\* Compare keeps, and what diff.go takes for a default).
DriftSeen == fresh /\ status.reason = "Synced" => AsDeclared

\* What the operator wrote is never taken for drift on the next pass, nor is a
\* template with the same content in another form or layout.
OwnWritesAreQuiet ==
  ours /\ status.bound /\ remote # Absent /\ Identity # NoString =>
    /\ Compare = [updatable |-> {}, immutable |-> {}]
    /\ ~isChangedByHash

\* An update that sent something left the object as the template says, fields
\* that were removed from it included.
RepairLands ==
  fresh /\ status.reason = "Updated" /\ Payload # Nil => AsDeclared

\* An update left the object as the template says, whatever it sent.
DriftReverted == fresh /\ status.reason = "Updated" => AsDeclared

\* The object a create made is found again by its identity, which is all a
\* pass that lost the answer has to go by.
FindsItsOwn ==
  ours /\ Identity # NoString /\ remote.path = object.path => Find

\* A CR the manager serves always has another pass ahead, unless its outcome
\* is terminal and its provider config has not changed since.  A zero
\* --interval turns periodic passes off and is left out.
NeverForgotten ==
  manager = "running" /\ InScope(config, core.namespace) /\ config.interval > 0 =>
    \/ due
    \/ timer > 0
    \/ status.outcome = "terminal" /\ ~stale

\* A provider config and a secret that exist are always within the cache's
\* reach: no pass reports them missing.
ReadyIsResolved ==
  ready /\ ~stale => status.reason # "ProviderConfigNotReady"

-----------------------------------------------------------------------------
(* The inductive invariant *)

\* Every variable has its type; the object, if there is one, is in the kind's
\* collection.
TypeOK ==
  /\ subject.kind \in DOMAIN Served /\ IsSetting(setting)
  /\ manager \in {"starting", "refused", "running"}
  /\ status \in [bound : BOOLEAN, hash : {status.hash}, outcome : Outcomes,
                 reason : ConditionReasons]
  /\ remote # Absent => remote \in [path : {object.path}, data : {remote.data}]
  /\ timer \in Int
  /\ {ready, due, stale, fresh, ours, changed} \subseteq BOOLEAN

\* Only a CR in the cache's scope is ever queued, or will be.
QueuedInScope ==
  due \/ timer > 0 => manager = "running" /\ InScope(config, core.namespace)

\* What the operator wrote is bound, and still goes by the template's name.
OursIsNamed ==
  ours => /\ status.bound
          /\ remote # Absent
          /\ Identity # NoString
          /\ At(remote.data, object.identity) = At(body.value, object.identity)

\* What holds of a mirrored object between any two steps, whatever SigNoz fills in.
MirrorInductive == TypeOK /\ QueuedInScope /\ OursIsNamed

=============================================================================
