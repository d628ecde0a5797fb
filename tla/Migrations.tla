------------------------------ MODULE Migrations ------------------------------
(***************************************************************************)
(* What the eight migrations do to the database and what their down()      *)
(* undoes: schemas, tables (each in its schema), the rows they seed, and   *)
(* the administrators' rows they touch.  Columns, CHECKs and indexes are   *)
(* left out.  A database is a record; Up and Down are functions on it.     *)
(***************************************************************************)
EXTENDS Rbac, Sequences

CONSTANT Emails    \* an administrator is named by the unique column email

Table(schema, name) == [schema |-> schema, name |-> name]

Granted(role, codes) == {[role |-> role, permission |-> code] : code \in codes}

EmptyDatabase == [schemas |-> {}, tables |-> {}, permissions |-> {}, roles |-> {},
                  grants |-> {}, users |-> {}, suspended |-> {}, userRoles |-> {}]

WithSchemas(db, names) == [db EXCEPT !.schemas = @ \cup names]
WithTables(db, tables) == [db EXCEPT !.tables = @ \cup tables]
WithoutTables(db, tables) == [db EXCEPT !.tables = @ \ tables]

\* DROP SCHEMA without CASCADE fails while anything is left in the schema.
Droppable(db, names) == \A t \in db.tables : t.schema \notin names
WithoutSchemas(db, names) == [db EXCEPT !.schemas = @ \ names]

-----------------------------------------------------------------------------
(* 1. CreateControlPlaneCore *)

CoreSchemas == {"control_plane", "licensing", "installations"}
CoreTables == {Table("control_plane", "customers"), Table("licensing", "licenses"),
               Table("licensing", "license_entitlements"),
               Table("installations", "installations")}

CoreUp(db) == WithTables(WithSchemas(db, CoreSchemas), CoreTables)
CoreDown(db) == WithoutSchemas(WithoutTables(db, CoreTables), CoreSchemas)

(* 2. CreateAccessManagementAuth *)

AdminUsers == Table("access_management", "admin_users")
AuthTables == {AdminUsers, Table("access_management", "admin_sessions")}

AuthUp(db) == WithTables(WithSchemas(db, {"access_management"}), AuthTables)
AuthDown(db) ==
  [WithoutSchemas(WithoutTables(db, AuthTables), {"access_management"})
     EXCEPT !.users = {}, !.suspended = {}]

(* 3. CreateAccessManagementRbac: the catalogue of the first release, and  *)
(* the backfill for administrators that are older than it.                 *)

AdminUserRoles == Table("access_management", "admin_user_roles")
RolePermissionsTable == Table("access_management", "role_permissions")
RbacTables == {Table("access_management", "permissions"),
               Table("access_management", "admin_roles"),
               RolePermissionsTable, AdminUserRoles}

FirstPermissions ==
  {"customers.read", "customers.create", "customers.status.change",
   "licenses.read", "licenses.create", "licenses.status.change",
   "licenses.entitlements.manage",
   "installations.read", "installations.create", "installations.status.change"}

RbacSeed(db) ==
  [db EXCEPT
     !.permissions = @ \cup FirstPermissions,
     !.roles = @ \cup {"PLATFORM_VIEWER", "PLATFORM_OPERATOR", "PLATFORM_ADMIN"},
     !.grants = @ \cup
        Granted("PLATFORM_VIEWER", {"customers.read", "licenses.read", "installations.read"})
        \cup Granted("PLATFORM_OPERATOR",
                     {"customers.read", "customers.create", "customers.status.change",
                      "licenses.read", "licenses.create", "licenses.status.change",
                      "installations.read", "installations.create",
                      "installations.status.change"})
        \cup Granted("PLATFORM_ADMIN", FirstPermissions)]

Backfill(db) ==
  [db EXCEPT !.userRoles = @ \cup {[user |-> e, role |-> "PLATFORM_ADMIN"] : e \in db.users}]

RbacUp_NoBackfill(db) == RbacSeed(WithTables(db, RbacTables))

RbacUp(db) == Backfill(RbacSeed(WithTables(db, RbacTables)))
RbacDown(db) == [WithoutTables(db, RbacTables) EXCEPT
                   !.permissions = {}, !.roles = {}, !.grants = {}, !.userRoles = {}]

(* 4. CreateInstallationEnrollmentCredentials *)

EnrollmentTables == {Table("installations", "installation_enrollments"),
                     Table("installations", "installation_credentials")}

EnrollmentUp(db) == WithTables(db, EnrollmentTables)
EnrollmentDown(db) == WithoutTables(db, EnrollmentTables)

(* 5. ExtendAccessManagementRbacForInstallationEnrollment *)

EnrollmentPermissions_Drift == {"installations.enrollment.manage",
                                "installations.credential.manage"}

EnrollmentPermissions == {"installations.enrollment.manage",
                          "installations.credentials.manage"}
EnrollmentGrants == Granted("PLATFORM_OPERATOR", {"installations.enrollment.manage"})
                    \cup Granted("PLATFORM_ADMIN", EnrollmentPermissions)

EnrollmentRbacUp(db) == [db EXCEPT !.permissions = @ \cup EnrollmentPermissions,
                                   !.grants = @ \cup EnrollmentGrants]

EnrollmentRbacDown_LeavesCodes(db) == [db EXCEPT !.grants = @ \ EnrollmentGrants]

EnrollmentRbacDown(db) == [db EXCEPT !.grants = @ \ EnrollmentGrants,
                                     !.permissions = @ \ EnrollmentPermissions]

(* 6. CreateAuditCore *)

AuditTables == {Table("audit", "audit_events")}

AuditUp(db) == WithTables(WithSchemas(db, {"audit"}), AuditTables)
AuditDown(db) == WithoutSchemas(WithoutTables(db, AuditTables), {"audit"})

(* 7. CreateInstallationHealth *)

HealthTables == {Table("installations", "installation_health")}

HealthUp(db) == WithTables(db, HealthTables)
HealthDown(db) == WithoutTables(db, HealthTables)

(* 8. ExtendAccessManagementRbacForAudit *)

AuditGrants == Granted("PLATFORM_OPERATOR", {"audit.read"})
               \cup Granted("PLATFORM_ADMIN", {"audit.read"})

AuditRbacUp(db) == [db EXCEPT !.permissions = @ \cup {"audit.read"},
                              !.grants = @ \cup AuditGrants]
AuditRbacDown(db) == [db EXCEPT !.grants = @ \ AuditGrants,
                                !.permissions = @ \ {"audit.read"}]

-----------------------------------------------------------------------------
(* migration:run and migration:revert of the TypeORM command line.         *)

Latest == 8

Up(n, db) == CASE n = 1 -> CoreUp(db)           [] n = 2 -> AuthUp(db)
               [] n = 3 -> RbacUp(db)           [] n = 4 -> EnrollmentUp(db)
               [] n = 5 -> EnrollmentRbacUp(db) [] n = 6 -> AuditUp(db)
               [] n = 7 -> HealthUp(db)         [] n = 8 -> AuditRbacUp(db)

Down(n, db) == CASE n = 1 -> CoreDown(db)           [] n = 2 -> AuthDown(db)
                 [] n = 3 -> RbacDown(db)           [] n = 4 -> EnrollmentDown(db)
                 [] n = 5 -> EnrollmentRbacDown(db) [] n = 6 -> AuditDown(db)
                 [] n = 7 -> HealthDown(db)         [] n = 8 -> AuditRbacDown(db)

\* The database after the migrations from + 1 .. to, run in their order.
Migrated(db, from, to) ==
  LET after[n \in from..to] == IF n = from THEN db ELSE Up(n, after[n - 1])
  IN after[to]

\* A database that has seen nothing but the first n migrations.
AfterMigration == [n \in 0..Latest |-> Migrated(EmptyDatabase, 0, n)]

\* The tables the entities of the persistence records are stored in.
EntityTables == CoreTables \cup AuthTables \cup RbacTables \cup EnrollmentTables
                \cup HealthTables \cup AuditTables

Database == [schemas : SUBSET (CoreSchemas \cup {"access_management", "audit"}),
             tables : SUBSET EntityTables,
             permissions : SUBSET PermissionCodes,
             roles : SUBSET RoleCodes,
             grants : SUBSET [role : RoleCodes, permission : PermissionCodes],
             users : SUBSET Emails,
             suspended : SUBSET Emails,
             userRoles : SUBSET [user : Emails, role : RoleCodes]]

=============================================================================
