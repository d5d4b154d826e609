------------------------------- MODULE Kinds --------------------------------
(***************************************************************************)
(* The ten mirrored kinds: what internal/resources/objects generates for   *)
(* each, the adapter that finds it (internal/resources/adapters), the      *)
(* controller that fetches it (internal/controller/resources) and how      *)
(* cmd/main.go wires them together.                                        *)
(***************************************************************************)
EXTENDS ResourceTypes

-----------------------------------------------------------------------------
(* Objects: the collection path all four methods use, the field Identity   *)
(* reads, and the fields an update may and may not change.                 *)

Object(path, identity, updatable, immutable) ==
  [path |-> path, identity |-> identity, updatable |-> updatable,
   immutable |-> immutable]

AuthDomainObject == Object("/api/v2/auth_domains", "name",
  {"config", "enabled", "roleMapping"}, {"name"})

DashboardObject == Object("/api/v2/dashboards", "name",
  {"image", "name", "schemaVersion", "spec", "tags"}, {})

NotificationChannelObject == Object("/api/v2/notification_channels", "name",
  {"config"}, {"displayName", "name"})

PlannedMaintenanceObject == Object("/api/v1/downtime_schedules", "name",
  {"alertIds", "description", "name", "schedule", "scope"}, {})

RoleObject == Object("/api/v1/roles", "name",
  {"description", "transactionGroups"}, {"name"})

RoutePolicyObject == Object("/api/v1/route_policies", "name",
  {"channels", "description", "expression", "kind", "name", "tags"}, {})

RuleObject == Object("/api/v2/rules", "alert",
  {"alert", "alertType", "annotations", "condition", "description", "disabled",
   "evaluation", "labels", "notificationSettings", "ruleType", "schemaVersion"}, {})

SavedViewObject == Object("/api/v2/saved_views", "name",
  {"schemaVersion", "source", "spec"}, {"name"})

ServiceAccountObject == Object("/api/v1/service_accounts", "name", {"name"}, {})

UserObject == Object("/api/v2/users", "email", {"displayName"}, {"email"})

-----------------------------------------------------------------------------
(* Adapters: the list endpoint, where its answer holds the entries ("" is  *)
(* data itself), the field compared with the identity, and how.            *)

Finder(path, list, field, fold) ==
  [path |-> path, list |-> list, field |-> field, fold |-> fold]

\* How they search is FindByPage, and Find of the reconciler.
findByField(path, field) == Finder(path, "", field, FALSE)
findByPage(path, listKey) == Finder(path, listKey, "name", FALSE)

AuthDomainAdapter == findByField("/api/v2/auth_domains", "name")
DashboardAdapter == findByPage("/api/v2/dashboards", "dashboards")
NotificationChannelAdapter ==
  findByPage("/api/v2/notification_channels", "channels")
PlannedMaintenanceAdapter == findByField("/api/v1/downtime_schedules", "name")
RoleAdapter == findByField("/api/v1/roles", "name")
RoutePolicyAdapter == findByField("/api/v1/route_policies", "name")

\* A faulty adapter that looks for the field most kinds are named by.
RuleAdapterByName == findByField("/api/v2/rules", "name")

RuleAdapter == findByField("/api/v2/rules", "alert")

\* The server narrows the list by name; names are still compared exactly.
SavedViewAdapter == Finder("/api/v2/saved_views", "", "name", FALSE)
ServiceAccountAdapter == findByField("/api/v1/service_accounts", "name")

\* Emails are compared without regard to case.
UserAdapter == Finder("/api/v2/users", "", "email", TRUE)

-----------------------------------------------------------------------------
(* Controllers: the kind fetched and indexed, the object a pass works on,  *)
(* and the kinds whose events queue a pass.                                *)

Controller(resource, object) ==
  [resource |-> resource, object |-> object,
   watches |-> {"ProviderConfig", "ClusterProviderConfig"}]

AuthDomainReconciler == Controller(AuthDomain, AuthDomainObject)
DashboardReconciler == Controller(Dashboard, DashboardObject)
NotificationChannelReconciler ==
  Controller(NotificationChannel, NotificationChannelObject)
PlannedMaintenanceReconciler ==
  Controller(PlannedMaintenance, PlannedMaintenanceObject)
RoleReconciler == Controller(Role, RoleObject)
RoutePolicyReconciler == Controller(RoutePolicy, RoutePolicyObject)
RuleReconciler == Controller(Rule, RuleObject)
SavedViewReconciler == Controller(SavedView, SavedViewObject)
ServiceAccountReconciler == Controller(ServiceAccount, ServiceAccountObject)
UserReconciler == Controller(User, UserObject)

-----------------------------------------------------------------------------
(* run: each controller gets a common reconciler with its own adapter *)

Setup(controller, adapter) == [controller |-> controller, adapter |-> adapter]

SetupUser == Setup(UserReconciler, UserAdapter)
SetupAuthDomain == Setup(AuthDomainReconciler, AuthDomainAdapter)
SetupDashboard == Setup(DashboardReconciler, DashboardAdapter)
SetupSavedView == Setup(SavedViewReconciler, SavedViewAdapter)
SetupPlannedMaintenance ==
  Setup(PlannedMaintenanceReconciler, PlannedMaintenanceAdapter)
SetupRole == Setup(RoleReconciler, RoleAdapter)
SetupRoutePolicy == Setup(RoutePolicyReconciler, RoutePolicyAdapter)
SetupRule == Setup(RuleReconciler, RuleAdapter)
SetupServiceAccount == Setup(ServiceAccountReconciler, ServiceAccountAdapter)
SetupNotificationChannel ==
  Setup(NotificationChannelReconciler, NotificationChannelAdapter)

\* Every kind the manager serves, by name.
Served ==
  [AuthDomain |-> SetupAuthDomain, Dashboard |-> SetupDashboard,
   NotificationChannel |-> SetupNotificationChannel,
   PlannedMaintenance |-> SetupPlannedMaintenance, Role |-> SetupRole,
   RoutePolicy |-> SetupRoutePolicy, Rule |-> SetupRule,
   SavedView |-> SetupSavedView, ServiceAccount |-> SetupServiceAccount,
   User |-> SetupUser]

=============================================================================
