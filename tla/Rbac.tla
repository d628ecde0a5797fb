--------------------------------- MODULE Rbac ---------------------------------
(***************************************************************************)
(* The catalogue of the administrative API: permissions, roles, the route  *)
(* table declared by the decorators of the controllers, the seeds of the   *)
(* migrations that fill access_management, and what the three global guards*)
(* decide.  No state: constants and operators.                             *)
(***************************************************************************)
EXTENDS Naturals

-----------------------------------------------------------------------------
(* permission.ts and admin-role.ts. *)

PermissionCodes ==
  {"customers.read", "customers.create", "customers.status.change",
   "licenses.read", "licenses.create", "licenses.status.change",
   "licenses.entitlements.manage",
   "installations.read", "installations.create", "installations.status.change",
   "installations.enrollment.manage", "installations.credentials.manage",
   "audit.read"}

RoleCodes == {"PLATFORM_VIEWER", "PLATFORM_OPERATOR", "PLATFORM_ADMIN"}

RolePermissions ==
  [PLATFORM_VIEWER   |-> {"customers.read", "licenses.read", "installations.read"},
   PLATFORM_OPERATOR |-> PermissionCodes \ {"licenses.entitlements.manage",
                                            "installations.credentials.manage"},
   PLATFORM_ADMIN    |-> PermissionCodes]

-----------------------------------------------------------------------------
(* The routes, controller by controller: the plane a route is on, the      *)
(* permissions it requires and the operation it runs.                      *)

Planes == {"public", "authenticated", "admin", "enrollment", "installation"}

Public(op) == [plane |-> "public", needs |-> {}, runs |-> op]
AuthenticatedOnly(op) == [plane |-> "authenticated", needs |-> {}, runs |-> op]
RequirePermissions(code, op) == [plane |-> "admin", needs |-> {code}, runs |-> op]
InstallationEnrollment(op) == [plane |-> "enrollment", needs |-> {}, runs |-> op]
InstallationAuthenticated(op) == [plane |-> "installation", needs |-> {}, runs |-> op]

HealthRoutes == {Public("live"), Public("ready"), Public("aggregate")}

AuthRoutes == {Public("LoginAdmin"), Public("RefreshAdminSession"),
               Public("LogoutAdmin"), AuthenticatedOnly("GetAdminProfile")}

CustomerRoutes ==
  {RequirePermissions("customers.create", "CreateCustomer"),
   RequirePermissions("customers.read", "GetCustomerById"),
   RequirePermissions("customers.read", "ListCustomers"),
   RequirePermissions("customers.status.change", "ChangeCustomerStatus")}

LicenseRoutes ==
  {RequirePermissions("licenses.create", "CreateLicense"),
   RequirePermissions("licenses.read", "GetLicenseById"),
   RequirePermissions("licenses.read", "ListLicenses"),
   RequirePermissions("licenses.status.change", "ChangeLicenseStatus"),
   RequirePermissions("licenses.entitlements.manage", "ReplaceLicenseEntitlements")}

InstallationRoutes ==
  {RequirePermissions("installations.create", "CreateInstallation"),
   RequirePermissions("installations.read", "GetInstallationById"),
   RequirePermissions("installations.read", "GetInstallationHealth"),
   RequirePermissions("installations.read", "ListInstallations")}

InstallationLifecycleRoutes ==
  {RequirePermissions("installations.status.change", "ChangeInstallationStatus"),
   RequirePermissions("installations.enrollment.manage", "IssueInitialEnrollment"),
   RequirePermissions("installations.credentials.manage", "IssueRecoveryEnrollment"),
   RequirePermissions("installations.credentials.manage", "RevokeInstallationCredential")}

AuditRoutes == {RequirePermissions("audit.read", "ListAuditEvents")}

InstallationAuthRoutes == {InstallationEnrollment("EnrollInstallation"),
                           InstallationAuthenticated("InstallationSession")}

InstallationHealthRoutes == {InstallationAuthenticated("RecordInstallationHeartbeat")}

Routes == UNION {HealthRoutes, AuthRoutes, CustomerRoutes, LicenseRoutes,
                 InstallationRoutes, InstallationLifecycleRoutes, AuditRoutes,
                 InstallationAuthRoutes, InstallationHealthRoutes}

Route == [plane : Planes, needs : SUBSET PermissionCodes, runs : {x.runs : x \in Routes}]

-----------------------------------------------------------------------------
(* The guards, in the order ControlPlaneModule registers them.             *)

\* AccessTokenGuard: it only looks at routes of administrators.
SkipsAccessToken(route) == route.plane \in {"public", "enrollment", "installation"}

\* AdminAuthorizationGuard: a route that names no permission is denied.
SkipsAuthorization(route) == route.plane # "admin"

Authorized(route, effective) == route.needs # {} /\ route.needs \subseteq effective

=============================================================================
