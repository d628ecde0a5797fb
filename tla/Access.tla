-------------------------------- MODULE Access --------------------------------
(***************************************************************************)
(* Who may call what: the first administrator and its role, written by a   *)
(* command line in three transactions; the permissions, seeded by the      *)
(* migrations and read afresh for every request by the authorization guard;*)
(* and the migrations themselves, run and reverted while both go on.       *)
(*                                                                         *)
(*   BootstrapFirstAdminUseCase   BootstrapCheck, BootstrapSave,           *)
(*                                BootstrapAssign                          *)
(*   AccessTokenGuard             RequestToken                             *)
(*   AdminAuthorizationGuard      RequestResolve                           *)
(*   migration:run / :revert      MigrationRun, MigrationRevert            *)
(*                                                                         *)
(* An access token is signed, not stored: it outlives everything but its   *)
(* own expiry, so who holds one is a choice among all administrators that  *)
(* ever were.                                                              *)
(***************************************************************************)
EXTENDS Migrations, FiniteSets

CONSTANTS Tools,       \* runs of the command line admin:bootstrap
          Requests,    \* HTTP requests the API can serve at one time
          NoEmail

VARIABLES db,            \* the database
          applied,       \* how many migrations the ledger lists
          tool, req,     \* the handlers and their locals
          ever,          \* history: administrators that ever were
          interrupted    \* history: those whose bootstrap ended before the role

vars == <<db, applied, tool, req, ever, interrupted>>

-----------------------------------------------------------------------------
(* Handlers. *)

Tool == [pc : {"idle", "Save", "Assign"}, email : Emails \cup {NoEmail}]
IdleTool == [pc |-> "idle", email |-> NoEmail]

Request == [pc : {"idle", "Resolve", "Run", "Unauthorized", "Forbidden", "Failed"},
            route : Routes \cup {Public("none")},
            caller : Emails \cup {NoEmail}]
IdleRequest == [pc |-> "idle", route |-> Public("none"), caller |-> NoEmail]

ToolBecomes(b, x) == tool' = [tool EXCEPT ![b] = x]
RequestBecomes(r, x) == req' = [req EXCEPT ![r] = x]

Exists(table) == table \in db.tables

-----------------------------------------------------------------------------
(* BootstrapFirstAdminUseCase: pnpm admin:bootstrap.                       *)

\* existsAny; the password is hashed before the next step.
BootstrapCheck(b, e) ==
  /\ tool[b].pc = "idle"
  /\ Exists(AdminUsers)
  /\ db.users = {}
  /\ ToolBecomes(b, [pc |-> "Save", email |-> e])
  /\ UNCHANGED <<db, applied, req, ever, interrupted>>

\* users.save: the email is unique.
BootstrapSave(b) ==
  LET e == tool[b].email
  IN /\ tool[b].pc = "Save"
     /\ IF Exists(AdminUsers) /\ e \notin db.users
        THEN /\ db' = [db EXCEPT !.users = @ \cup {e}]
             /\ ever' = ever \cup {e}
             /\ ToolBecomes(b, [tool[b] EXCEPT !.pc = "Assign"])
        ELSE /\ ToolBecomes(b, IdleTool)
             /\ UNCHANGED <<db, ever>>
     /\ UNCHANGED <<applied, req, interrupted>>

\* assignRole: INSERT ... ON CONFLICT DO NOTHING, under two foreign keys.
BootstrapAssign(b) ==
  LET e == tool[b].email
  IN /\ tool[b].pc = "Assign"
     /\ ToolBecomes(b, IdleTool)
     /\ IF Exists(AdminUserRoles) /\ e \in db.users /\ "PLATFORM_ADMIN" \in db.roles
        THEN /\ db' = [db EXCEPT !.userRoles = @ \cup {[user |-> e, role |-> "PLATFORM_ADMIN"]}]
             /\ UNCHANGED interrupted
        ELSE /\ interrupted' = interrupted \cup {e}
             /\ UNCHANGED db
     /\ UNCHANGED <<applied, req, ever>>

ToolCrash(b) ==
  /\ tool[b].pc # "idle"
  /\ ToolBecomes(b, IdleTool)
  /\ interrupted' = IF tool[b].pc = "Assign" THEN interrupted \cup {tool[b].email}
                                             ELSE interrupted
  /\ UNCHANGED <<db, applied, req, ever>>

-----------------------------------------------------------------------------
(* A request passes the guards.                                            *)

\* The signature, the issuer, the audience and the type of an access token; that
\* one expires is a caller who stops presenting it.
Verifies(e) == e \in ever

\* AccessTokenGuard looks at the routes of administrators only, and answers 401
\* unless the token verifies; AdminAuthorizationGuard then looks at the route.
RequestToken(r, route, e) ==
  /\ req[r].pc = "idle"
  /\ route.plane \in {"public", "authenticated", "admin"}
  /\ RequestBecomes(r,
       IF ~SkipsAccessToken(route) /\ ~Verifies(e) THEN [IdleRequest EXCEPT !.pc = "Unauthorized"]
       ELSE IF SkipsAuthorization(route) THEN [IdleRequest EXCEPT !.pc = "Run"]
       ELSE [pc |-> "Resolve", route |-> route, caller |-> e])
  /\ UNCHANGED <<db, applied, tool, ever, interrupted>>

\* resolveEffectivePermissions: one query over three tables.
Effective(e) == {g.permission : g \in {x \in db.grants :
                    /\ e \in db.users \ db.suspended
                    /\ [user |-> e, role |-> x.role] \in db.userRoles}}

RequestResolve_Suspended(r) ==
  /\ req[r].pc = "Resolve"
  /\ RequestBecomes(r, [IdleRequest EXCEPT !.pc =
        IF ~({AdminUsers, AdminUserRoles, RolePermissionsTable} \subseteq db.tables)
        THEN "Failed"
        ELSE IF \E g \in db.grants : /\ g.permission \in req[r].route.needs
                                     /\ [user |-> req[r].caller, role |-> g.role] \in db.userRoles
        THEN "Run" ELSE "Forbidden"])
  /\ UNCHANGED <<db, applied, tool, ever, interrupted>>

\* A missing table fails the query, and so does a code the catalogue of this
\* release does not know: the exception filter answers 500.
RequestResolve(r) ==
  LET effective == Effective(req[r].caller)
      answered == IF Authorized(req[r].route, effective) THEN "Run" ELSE "Forbidden"
      readable == {AdminUsers, AdminUserRoles, RolePermissionsTable} \subseteq db.tables
                    /\ effective \subseteq PermissionCodes
  IN /\ req[r].pc = "Resolve"
     /\ RequestBecomes(r, [IdleRequest EXCEPT !.pc = IF readable THEN answered ELSE "Failed"])
     /\ UNCHANGED <<db, applied, tool, ever, interrupted>>

\* The handler has run, or AllExceptionsFilter has turned what a guard threw
\* into 401, 403 or 500.
RequestAnswer(r) ==
  /\ req[r].pc \in {"Run", "Unauthorized", "Forbidden", "Failed"}
  /\ RequestBecomes(r, IdleRequest)
  /\ UNCHANGED <<db, applied, tool, ever, interrupted>>

-----------------------------------------------------------------------------
(* The operator: migrations, each run or revert one transaction, and the   *)
(* suspension of an administrator, for which there is no endpoint.         *)

\* What the catalogue is made of.
Parts == {"schemas", "tables", "permissions", "roles", "grants"}

\* Neither CREATE nor INSERT in an up() allows for what is there already.
RunSucceeds ==
  \A part \in Parts :
    db[part] \cap (AfterMigration[Latest][part] \ AfterMigration[applied][part]) = {}

MigrationRun ==
  /\ applied < Latest
  /\ RunSucceeds
  /\ db' = Migrated(db, applied, Latest)
  /\ applied' = Latest
  /\ interrupted' = IF applied < 3 THEN {} ELSE interrupted
  /\ UNCHANGED <<tool, req, ever>>

\* DROP SCHEMA is the last statement of a down() that has one.
RevertSucceeds ==
  /\ applied = 1 => Droppable(WithoutTables(db, CoreTables), CoreSchemas)
  /\ applied = 2 => Droppable(WithoutTables(db, AuthTables), {"access_management"})
  /\ applied = 6 => Droppable(WithoutTables(db, AuditTables), {"audit"})

MigrationRevert ==
  /\ applied > 0
  /\ RevertSucceeds
  /\ db' = Down(applied, db)
  /\ applied' = applied - 1
  /\ UNCHANGED <<tool, req, ever, interrupted>>

Suspend(e) ==
  /\ e \in db.users \ db.suspended
  /\ db' = [db EXCEPT !.suspended = @ \cup {e}]
  /\ UNCHANGED <<applied, tool, req, ever, interrupted>>

-----------------------------------------------------------------------------

\* A database of any release, before its first administrator.
Init == /\ applied \in 0..Latest
        /\ db = AfterMigration[applied]
        /\ tool = [b \in Tools |-> IdleTool]
        /\ req = [r \in Requests |-> IdleRequest]
        /\ ever = {}
        /\ interrupted = {}

Next == \/ \E b \in Tools : \/ \E e \in Emails : BootstrapCheck(b, e)
                            \/ BootstrapSave(b)
                            \/ BootstrapAssign(b)
                            \/ ToolCrash(b)
        \/ \E r \in Requests :
             \/ \E route \in Routes, e \in Emails : RequestToken(r, route, e)
             \/ RequestResolve(r)
             \/ RequestAnswer(r)
        \/ MigrationRun
        \/ MigrationRevert
        \/ \E e \in Emails : Suspend(e)

Spec == Init /\ [][Next]_vars

-----------------------------------------------------------------------------
(* Properties. *)

TypeOK == /\ db \in Database
          /\ applied \in 0..Latest
          /\ tool \in [Tools -> Tool]
          /\ req \in [Requests -> Request]
          /\ ever \in SUBSET Emails
          /\ interrupted \in SUBSET Emails

\* However runs and reverts alternate, the catalogue in the database is that of
\* the applied migrations, so that neither a run nor a revert meets anything left
\* over that fails it, and with all of them applied it is the catalogue of
\* permission.ts and admin-role.ts.
CatalogueInStep ==
  LET expected == AfterMigration[applied]
  IN /\ \A part \in Parts : db[part] = expected[part]
     /\ RevertSucceeds
     /\ applied = Latest =>
          /\ db.tables = EntityTables
          /\ db.permissions = PermissionCodes
          /\ db.grants = UNION {Granted(role, RolePermissions[role]) : role \in RoleCodes}

\* Wherever roles exist, an administrator without PLATFORM_ADMIN is one whose
\* bootstrap is under way or was cut off: the backfill of the migration and the
\* assignment of the bootstrap leave no gap between them.
EveryAdminHasRole ==
  Exists(AdminUserRoles) =>
    \A e \in db.users : \/ [user |-> e, role |-> "PLATFORM_ADMIN"] \in db.userRoles
                        \/ \E b \in Tools : tool[b] = [pc |-> "Assign", email |-> e]
                        \/ e \in interrupted

\* A request gets past the guard only if a role of its caller lists what the
\* route needs, and always does if the caller is an active administrator of
\* PLATFORM_ADMIN and every migration is applied; nor does it fail then.
RolesDecide ==
  [][\A r \in Requests : req[r].pc = "Resolve" /\ req'[r].pc # "Resolve" =>
       LET roles == {role \in RoleCodes : [user |-> req[r].caller, role |-> role] \in db.userRoles}
           active == req[r].caller \in db.users \ db.suspended
       IN /\ req'[r].pc = "Run" =>
               active /\ \E role \in roles : req[r].route.needs \subseteq RolePermissions[role]
          /\ applied = Latest => req'[r].pc # "Failed"
          /\ active /\ "PLATFORM_ADMIN" \in roles /\ applied = Latest =>
               req'[r].pc = "Run"]_vars

=============================================================================
