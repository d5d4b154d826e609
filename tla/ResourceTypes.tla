--------------------------- MODULE ResourceTypes ----------------------------
(***************************************************************************)
(* api/resources/v1alpha1/zz_generated_*_types.go: the typed specs of the  *)
(* other kinds, one definition per struct.                                 *)
(***************************************************************************)
EXTENDS QueryTypes

-----------------------------------------------------------------------------
(* AuthDomain *)

AuthDomainAttributeMapping == Struct(
     Omitempty(Each({"email", "groups", "name", "role"}, Scalar)))

AuthDomainConfigSpec == Struct(
     Omitempty([allowedGroups |-> ListOf(Scalar),
                domainToAdminEmail |-> MapOf(Scalar)]
              ++ Each({"certificate", "clientId", "clientSecret", "entityId",
                       "fetchGroups", "fetchTransitiveGroupMembership",
                       "getUserInfo", "insecureSkipAuthNRequestsSigned",
                       "insecureSkipEmailVerified", "issuer", "issuerAlias",
                       "location", "serviceAccountJson"}, Scalar))
  ++ Pointer([attributeMapping |-> AuthDomainAttributeMapping,
              claimMapping |-> AuthDomainAttributeMapping]))

AuthDomainConfig == Struct(
     Required([kind |-> Filled, spec |-> AuthDomainConfigSpec]))

AuthDomainRoleMapping == Struct(
     Omitempty([defaultRole |-> Scalar, groupMappings |-> MapOf(Scalar),
                useRoleAttribute |-> Scalar]))

AuthDomainObjectSpec == Struct(
     Required([config |-> AuthDomainConfig, name |-> Filled])
  ++ Omitempty([enabled |-> Scalar])
  ++ Pointer([roleMapping |-> AuthDomainRoleMapping]))

AuthDomain == Resource(AuthDomainObjectSpec)

-----------------------------------------------------------------------------
(* NotificationChannel *)

NotificationChannelConfirm == Struct(
     Required([text |-> Filled])
  ++ Omitempty(Each({"dismissText", "okText", "title"}, Scalar)))

NotificationChannelAction == Struct(
     Required([text |-> Filled, type |-> Filled])
  ++ Omitempty(Each({"name", "style", "url", "value"}, Scalar))
  ++ Pointer([confirm |-> NotificationChannelConfirm]))

NotificationChannelField == Struct(
     Required([title |-> Filled, value |-> Filled])
  ++ Pointer([short |-> Scalar]))

NotificationChannelConfigSpec == Struct(
     Omitempty([actions |-> ListOf(NotificationChannelAction),
                fields |-> ListOf(NotificationChannelField),
                labels |-> ListOf(Scalar)]
              ++ Each({"apiKey", "apiToken", "apiUrl", "bearerToken",
                       "botToken", "channel", "chatId", "class", "client",
                       "clientUrl", "color", "component", "description",
                       "disableNotifications", "email", "fallback", "footer",
                       "group", "html", "issueType", "message",
                       "messageThreadId", "password", "pretext", "priority",
                       "project", "reopenDuration", "reopenTransition",
                       "resolveTransition", "routingKey", "severity", "site",
                       "source", "summary", "tags", "text", "title",
                       "titleLink", "to", "token", "url", "username",
                       "webhookUrl", "wontFixResolution"}, Scalar)
              ++ Each({"details", "headers", "metadata"}, MapOf(Scalar)))
  ++ Pointer([customFields |-> Raw, sendResolved |-> Scalar]))

NotificationChannelConfig == Struct(
     Required([kind |-> Filled, spec |-> NotificationChannelConfigSpec]))

NotificationChannelObjectSpec == Struct(
     Required([config |-> NotificationChannelConfig])
  ++ Omitempty([displayName |-> Scalar, name |-> Scalar]))

NotificationChannel == Resource(NotificationChannelObjectSpec)

-----------------------------------------------------------------------------
(* PlannedMaintenance *)

PlannedMaintenanceRecurrence == Struct(
     Required([duration |-> Filled, repeatType |-> Filled])
  ++ Omitempty([repeatOn |-> ListOf(Scalar)]))

PlannedMaintenanceSchedule == Struct(
     Required([startTime |-> Filled, timezone |-> Filled])
  ++ Omitempty([endTime |-> Scalar])
  ++ Pointer([recurrence |-> PlannedMaintenanceRecurrence]))

PlannedMaintenanceObjectSpec == Struct(
     Required([name |-> Filled, schedule |-> PlannedMaintenanceSchedule])
  ++ Omitempty([alertIds |-> ListOf(Scalar), description |-> Scalar,
                scope |-> Scalar]))

PlannedMaintenance == Resource(PlannedMaintenanceObjectSpec)

-----------------------------------------------------------------------------
(* Role *)

RoleResource == Struct(
     Required([kind |-> Filled, type |-> Filled]))

RoleObjectGroup == Struct(
     Required([resource |-> RoleResource, selectors |-> ListOf(Scalar)]))

RoleTransactionGroup == Struct(
     Required([objectGroup |-> RoleObjectGroup, relation |-> Filled]))

RoleObjectSpec == Struct(
     Required([name |-> Filled])
  ++ Omitempty([description |-> Scalar,
                transactionGroups |-> ListOf(RoleTransactionGroup)]))

Role == Resource(RoleObjectSpec)

-----------------------------------------------------------------------------
(* RoutePolicy *)

RoutePolicyObjectSpec == Struct(
     Required([channels |-> ListOf(Scalar), expression |-> Filled,
               name |-> Filled])
  ++ Omitempty([description |-> Scalar, kind |-> Filled,
                tags |-> ListOf(Scalar)]))

RoutePolicy == Resource(RoutePolicyObjectSpec)

-----------------------------------------------------------------------------
(* ServiceAccount *)

ServiceAccountObjectSpec == Struct(
     Required([name |-> Filled]))

ServiceAccount == Resource(ServiceAccountObjectSpec)

-----------------------------------------------------------------------------
(* User *)

UserObjectSpec == Struct(
     Required([email |-> Filled])
  ++ Omitempty([displayName |-> Scalar]))

User == Resource(UserObjectSpec)

=============================================================================
