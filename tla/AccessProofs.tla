------------------------------ MODULE AccessProofs ------------------------------
(***************************************************************************)
(* Theorems about Access, for every set of administrators, command lines   *)
(* and requests.  The migrations are eight; what they do to a database is  *)
(* computed once, in closed form, and everything else rests on that.       *)
(***************************************************************************)
EXTENDS AccessInv, TLAPS

-----------------------------------------------------------------------------
(* Running migrations one after the other. *)

\* The recursive function of Migrated has a value: there are eight migrations.
LEMMA MigratedChain ==
  ASSUME NEW d, NEW from \in 0..Latest, NEW to \in from..Latest
  PROVE  \E g : /\ g = [n \in from..to |-> IF n = from THEN d ELSE Up(n, g[n - 1])]
                /\ Migrated(d, from, to) = g[to]
<1> DEFINE Chain(g) == g = [n \in from..to |-> IF n = from THEN d ELSE Up(n, g[n - 1])]
           h1 == Up(from + 1, d)   h2 == Up(from + 2, h1)  h3 == Up(from + 3, h2)
           h4 == Up(from + 4, h3)  h5 == Up(from + 5, h4)  h6 == Up(from + 6, h5)
           h7 == Up(from + 7, h6)  h8 == Up(from + 8, h7)
           w == [n \in from..to |->
                   IF n = from THEN d ELSE IF n = from + 1 THEN h1
                   ELSE IF n = from + 2 THEN h2 ELSE IF n = from + 3 THEN h3
                   ELSE IF n = from + 4 THEN h4 ELSE IF n = from + 5 THEN h5
                   ELSE IF n = from + 6 THEN h6 ELSE IF n = from + 7 THEN h7 ELSE h8]
<1>1. \E g : Chain(g)
  <2>1. ASSUME NEW n \in from..to
        PROVE  w[n] = IF n = from THEN d ELSE Up(n, w[n - 1])
    <3>1. n \in {from, from + 1, from + 2, from + 3, from + 4, from + 5, from + 6, from + 7, from + 8}
      BY DEF Latest
    <3>2. n # from => n - 1 \in from..to
      OBVIOUS
    <3> QED
      BY <3>1, <3>2
  <2>2. w = [n \in from..to |-> IF n = from THEN d ELSE Up(n, w[n - 1])]
    BY <2>1
  <2> QED
    BY <2>2
<1>2. Migrated(d, from, to) = (CHOOSE g : Chain(g))[to]
  BY DEF Migrated
<1>3. Chain(CHOOSE g : Chain(g))
  BY <1>1
<1> QED
  BY <1>2, <1>3

LEMMA MigratedNone ==
  ASSUME NEW d, NEW n \in 0..Latest
  PROVE  Migrated(d, n, n) = d
  BY MigratedChain DEF Latest

LEMMA MigratedMore ==
  ASSUME NEW d, NEW from \in 0..Latest, NEW to \in from..Latest, to # from
  PROVE  Migrated(d, from, to) = Up(to, Migrated(d, from, to - 1))
<1>0. to - 1 \in from..Latest /\ to \in Nat /\ from \in Nat
  BY DEF Latest
<1>1. PICK g : /\ g = [n \in from..to |-> IF n = from THEN d ELSE Up(n, g[n - 1])]
               /\ Migrated(d, from, to) = g[to]
  BY MigratedChain
<1>2. PICK f : /\ f = [n \in from..(to - 1) |-> IF n = from THEN d ELSE Up(n, f[n - 1])]
               /\ Migrated(d, from, to - 1) = f[to - 1]
  BY MigratedChain, <1>0
<1>3. \A n \in from..(to - 1) : /\ f[n] = IF n = from THEN d ELSE Up(n, f[n - 1])
                                /\ g[n] = IF n = from THEN d ELSE Up(n, g[n - 1])
  BY <1>0, <1>1, <1>2
<1> DEFINE Same(n) == n \in from..(to - 1) => f[n] = g[n]
<1>4. ASSUME NEW n \in 0..Latest, Same(n), n >= from
      PROVE  Same(n + 1)
  BY <1>0, <1>3, <1>4 DEF Latest
<1>5. \A n \in 0..from : Same(n)
  BY <1>0, <1>3 DEF Latest
<1> HIDE DEF Same
<1>6. ASSUME NEW n \in 0..Latest, Same(n)
      PROVE  Same(n + 1)
  <2>1. CASE n >= from
    BY <1>4, <1>6, <2>1
  <2>2. CASE n < from
    BY <1>0, <1>5, <2>2 DEF Latest
  <2> QED
    BY <1>0, <2>1, <2>2 DEF Latest
<1>7. Same(0) /\ Same(1) /\ Same(2) /\ Same(3) /\ Same(4) /\ Same(5) /\ Same(6) /\ Same(7)
  <2>1. Same(0)
    BY <1>0, <1>5 DEF Latest
  <2>2. Same(1) BY <2>1, <1>6 DEF Latest
  <2>3. Same(2) BY <2>2, <1>6 DEF Latest
  <2>4. Same(3) BY <2>3, <1>6 DEF Latest
  <2>5. Same(4) BY <2>4, <1>6 DEF Latest
  <2>6. Same(5) BY <2>5, <1>6 DEF Latest
  <2>7. Same(6) BY <2>6, <1>6 DEF Latest
  <2>8. Same(7) BY <2>7, <1>6 DEF Latest
  <2> QED
    BY <2>1, <2>2, <2>3, <2>4, <2>5, <2>6, <2>7, <2>8
<1>8. Same(to - 1)
  BY <1>0, <1>7 DEF Latest
<1>9. f[to - 1] = g[to - 1]
  BY <1>0, <1>8 DEF Same
<1>10. g[to] = Up(to, g[to - 1])
  BY <1>1
<1> QED
  BY <1>1, <1>2, <1>9, <1>10

-----------------------------------------------------------------------------
(* The catalogue after n migrations, in closed form. *)

At(n, k, made) == IF n >= k THEN made ELSE {}

FirstGrants ==
  Granted("PLATFORM_VIEWER", {"customers.read", "licenses.read", "installations.read"})
  \cup Granted("PLATFORM_OPERATOR",
               {"customers.read", "customers.create", "customers.status.change",
                "licenses.read", "licenses.create", "licenses.status.change",
                "installations.read", "installations.create",
                "installations.status.change"})
  \cup Granted("PLATFORM_ADMIN", FirstPermissions)

SchemasAt(n) == At(n, 1, CoreSchemas) \cup At(n, 2, {"access_management"})
                \cup At(n, 6, {"audit"})
TablesAt(n) == At(n, 1, CoreTables) \cup At(n, 2, AuthTables) \cup At(n, 3, RbacTables)
               \cup At(n, 4, EnrollmentTables) \cup At(n, 6, AuditTables)
               \cup At(n, 7, HealthTables)
PermissionsAt(n) == At(n, 3, FirstPermissions) \cup At(n, 5, EnrollmentPermissions)
                    \cup At(n, 8, {"audit.read"})
RolesAt(n) == At(n, 3, RoleCodes)
GrantsAt(n) == At(n, 3, FirstGrants) \cup At(n, 5, EnrollmentGrants)
               \cup At(n, 8, AuditGrants)

Sees(d, n) == /\ d.schemas = SchemasAt(n)
              /\ d.tables = TablesAt(n)
              /\ d.permissions = PermissionsAt(n)
              /\ d.roles = RolesAt(n)
              /\ d.grants = GrantsAt(n)

\* What is made is of the right type.
Grants == [role : RoleCodes, permission : PermissionCodes]

LEMMA GrantedTypes ==
  ASSUME NEW role \in RoleCodes, NEW codes \in SUBSET PermissionCodes
  PROVE  Granted(role, codes) \subseteq Grants
  BY DEF Granted, Grants

LEMMA MadeTypes ==
  /\ FirstPermissions \subseteq PermissionCodes
  /\ EnrollmentPermissions \subseteq PermissionCodes
  /\ "audit.read" \in PermissionCodes
  /\ FirstGrants \subseteq Grants
  /\ EnrollmentGrants \subseteq Grants
  /\ AuditGrants \subseteq Grants
<1>1. /\ FirstPermissions \subseteq PermissionCodes
      /\ EnrollmentPermissions \subseteq PermissionCodes
      /\ "audit.read" \in PermissionCodes
  BY DEF FirstPermissions, EnrollmentPermissions, PermissionCodes
<1>2. {"PLATFORM_VIEWER", "PLATFORM_OPERATOR", "PLATFORM_ADMIN"} = RoleCodes
  BY DEF RoleCodes
<1>3. FirstGrants \subseteq Grants
  <2>1. {"customers.read", "licenses.read", "installations.read"} \subseteq PermissionCodes
    BY DEF PermissionCodes
  <2>2. {"customers.read", "customers.create", "customers.status.change",
         "licenses.read", "licenses.create", "licenses.status.change",
         "installations.read", "installations.create",
         "installations.status.change"} \subseteq PermissionCodes
    BY DEF PermissionCodes
  <2> QED
    BY <1>1, <1>2, <2>1, <2>2, GrantedTypes DEF FirstGrants
<1>4. EnrollmentGrants \subseteq Grants
  <2>1. {"installations.enrollment.manage"} \subseteq PermissionCodes
    BY DEF PermissionCodes
  <2> QED
    BY <1>1, <1>2, <2>1, GrantedTypes DEF EnrollmentGrants
<1>5. AuditGrants \subseteq Grants
  BY <1>1, <1>2, GrantedTypes DEF AuditGrants
<1> QED
  BY <1>1, <1>3, <1>4, <1>5

LEMMA EmptySees == EmptyDatabase \in Database /\ Sees(EmptyDatabase, 0)
  BY DEF EmptyDatabase, Database, Sees, At, SchemasAt, TablesAt, PermissionsAt, RolesAt,
         GrantsAt


-----------------------------------------------------------------------------
(* What each statement does to a database. *)

LEMMA CreatesSchemas ==
  ASSUME NEW d \in Database,
         NEW names \in SUBSET (CoreSchemas \cup {"access_management", "audit"}),
         NEW x, x = WithSchemas(d, names)
  PROVE  /\ x \in Database
         /\ x.schemas = d.schemas \cup names /\ x.tables = d.tables
         /\ x.permissions = d.permissions /\ x.roles = d.roles /\ x.grants = d.grants
         /\ x.users = d.users /\ x.suspended = d.suspended /\ x.userRoles = d.userRoles
  BY DEF Database, WithSchemas

LEMMA DropsSchemas ==
  ASSUME NEW d \in Database, NEW names, NEW x, x = WithoutSchemas(d, names)
  PROVE  /\ x \in Database
         /\ x.schemas = d.schemas \ names /\ x.tables = d.tables
         /\ x.permissions = d.permissions /\ x.roles = d.roles /\ x.grants = d.grants
         /\ x.users = d.users /\ x.suspended = d.suspended /\ x.userRoles = d.userRoles
  BY DEF Database, WithoutSchemas

LEMMA CreatesTables ==
  ASSUME NEW d \in Database, NEW tables \in SUBSET EntityTables,
         NEW x, x = WithTables(d, tables)
  PROVE  /\ x \in Database
         /\ x.schemas = d.schemas /\ x.tables = d.tables \cup tables
         /\ x.permissions = d.permissions /\ x.roles = d.roles /\ x.grants = d.grants
         /\ x.users = d.users /\ x.suspended = d.suspended /\ x.userRoles = d.userRoles
  BY DEF Database, WithTables

LEMMA DropsTables ==
  ASSUME NEW d \in Database, NEW tables, NEW x, x = WithoutTables(d, tables)
  PROVE  /\ x \in Database
         /\ x.schemas = d.schemas /\ x.tables = d.tables \ tables
         /\ x.permissions = d.permissions /\ x.roles = d.roles /\ x.grants = d.grants
         /\ x.users = d.users /\ x.suspended = d.suspended /\ x.userRoles = d.userRoles
  BY DEF Database, WithoutTables

\* Changes of the rows of permissions and grants.
Regranted(d, p, g) == [d EXCEPT !.permissions = p, !.grants = g]

LEMMA ChangesCatalogue ==
  ASSUME NEW d \in Database, NEW p \in SUBSET PermissionCodes, NEW g \in SUBSET Grants,
         NEW x, x = Regranted(d, p, g)
  PROVE  /\ x \in Database
         /\ x.schemas = d.schemas /\ x.tables = d.tables
         /\ x.permissions = p /\ x.roles = d.roles /\ x.grants = g
         /\ x.users = d.users /\ x.suspended = d.suspended /\ x.userRoles = d.userRoles
  BY DEF Database, Grants, Regranted

\* The two tables are changed in either order.
Revoked(d, p, g) == [d EXCEPT !.grants = g, !.permissions = p]

LEMMA RevokesCatalogue ==
  ASSUME NEW d \in Database, NEW p \in SUBSET PermissionCodes, NEW g \in SUBSET Grants,
         NEW x, x = Revoked(d, p, g)
  PROVE  /\ x \in Database
         /\ x.schemas = d.schemas /\ x.tables = d.tables
         /\ x.permissions = p /\ x.roles = d.roles /\ x.grants = g
         /\ x.users = d.users /\ x.suspended = d.suspended /\ x.userRoles = d.userRoles
  BY DEF Database, Grants, Revoked

LEMMA SeedsCatalogue ==
  ASSUME NEW d \in Database, NEW x, x = RbacSeed(d)
  PROVE  /\ x \in Database
         /\ x.schemas = d.schemas /\ x.tables = d.tables
         /\ x.permissions = d.permissions \cup FirstPermissions
         /\ x.roles = d.roles \cup RoleCodes
         /\ x.grants = d.grants \cup FirstGrants
         /\ x.users = d.users /\ x.suspended = d.suspended /\ x.userRoles = d.userRoles
<1>1. PICK p : p = d.permissions \cup FirstPermissions
  OBVIOUS
<1>2. PICK s : s = d.roles \cup RoleCodes
  OBVIOUS
<1>3. PICK g : g = d.grants \cup FirstGrants
  OBVIOUS
<1>4. p \in SUBSET PermissionCodes /\ s \in SUBSET RoleCodes /\ g \in SUBSET Grants
  BY <1>1, <1>2, <1>3, MadeTypes DEF Database, Grants
<1>5. RoleCodes = {"PLATFORM_VIEWER", "PLATFORM_OPERATOR", "PLATFORM_ADMIN"}
  BY DEF RoleCodes
<1>6. x = [d EXCEPT !.permissions = p, !.roles = s, !.grants = g]
  <2>1. g = d.grants
             \cup Granted("PLATFORM_VIEWER", {"customers.read", "licenses.read", "installations.read"})
             \cup Granted("PLATFORM_OPERATOR",
                          {"customers.read", "customers.create", "customers.status.change",
                           "licenses.read", "licenses.create", "licenses.status.change",
                           "installations.read", "installations.create",
                           "installations.status.change"})
             \cup Granted("PLATFORM_ADMIN", FirstPermissions)
    BY <1>3 DEF FirstGrants
  <2> QED
    BY <1>1, <1>2, <1>5, <2>1 DEF RbacSeed
<1> QED
  <2>1. x \in Database
    BY <1>4, <1>6 DEF Database, Grants
  <2> QED
    BY <2>1, <1>1, <1>2, <1>3, <1>6 DEF Database

Backfilled(d) == d.userRoles \cup {[user |-> e, role |-> "PLATFORM_ADMIN"] : e \in d.users}

LEMMA BackfillsRoles ==
  ASSUME NEW d \in Database, NEW x, x = Backfill(d)
  PROVE  /\ x \in Database
         /\ x.schemas = d.schemas /\ x.tables = d.tables
         /\ x.permissions = d.permissions /\ x.roles = d.roles /\ x.grants = d.grants
         /\ x.users = d.users /\ x.suspended = d.suspended
         /\ x.userRoles = Backfilled(d)
<1>1. PICK u : u = Backfilled(d)
  OBVIOUS
<1>2. u \in SUBSET [user : Emails, role : RoleCodes]
  BY <1>1 DEF Database, Backfilled, RoleCodes
<1>3. x = [d EXCEPT !.userRoles = u]
  BY <1>1 DEF Backfill, Backfilled
<1> QED
  BY <1>1, <1>2, <1>3 DEF Database

-----------------------------------------------------------------------------
(* What each migration does, and undoes. *)

\* The rows of administrators and of their roles after migration n.
RowsUp(x, n, d) ==
  /\ x.users = d.users /\ x.suspended = d.suspended
  /\ x.userRoles = IF n = 3 THEN Backfilled(d) ELSE d.userRoles

LEMMA TableTypes ==
  /\ CoreTables \subseteq EntityTables /\ AuthTables \subseteq EntityTables
  /\ RbacTables \subseteq EntityTables /\ EnrollmentTables \subseteq EntityTables
  /\ HealthTables \subseteq EntityTables /\ AuditTables \subseteq EntityTables
  BY DEF EntityTables

LEMMA UpSees ==
  ASSUME NEW n \in 1..8, NEW d \in Database, Sees(d, n - 1), NEW x, x = Up(n, d)
  PROVE  x \in Database /\ Sees(x, n) /\ RowsUp(x, n, d)
<1>1. CASE n = 1
  <2>1. PICK y : y = WithSchemas(d, CoreSchemas)
    OBVIOUS
  <2>2. x = WithTables(y, CoreTables)
    BY <1>1, <2>1 DEF Up, CoreUp
  <2>3. /\ y \in Database
        /\ y.schemas = d.schemas \cup CoreSchemas /\ y.tables = d.tables
        /\ y.permissions = d.permissions /\ y.roles = d.roles /\ y.grants = d.grants
        /\ y.users = d.users /\ y.suspended = d.suspended /\ y.userRoles = d.userRoles
    BY <2>1, CreatesSchemas
  <2>4. /\ x \in Database
        /\ x.schemas = y.schemas /\ x.tables = y.tables \cup CoreTables
        /\ x.permissions = y.permissions /\ x.roles = y.roles /\ x.grants = y.grants
        /\ x.users = y.users /\ x.suspended = y.suspended /\ x.userRoles = y.userRoles
    BY <2>2, <2>3, CreatesTables, TableTypes
  <2>5. /\ SchemasAt(n) = SchemasAt(n - 1) \cup CoreSchemas
        /\ TablesAt(n) = TablesAt(n - 1) \cup CoreTables
        /\ PermissionsAt(n) = PermissionsAt(n - 1)
        /\ RolesAt(n) = RolesAt(n - 1)
        /\ GrantsAt(n) = GrantsAt(n - 1)
    BY <1>1 DEF SchemasAt, TablesAt, PermissionsAt, RolesAt, GrantsAt, At
  <2> QED
    BY <1>1, <2>3, <2>4, <2>5 DEF Sees, RowsUp
<1>2. CASE n = 2
  <2>1. PICK y : y = WithSchemas(d, {"access_management"})
    OBVIOUS
  <2>2. x = WithTables(y, AuthTables)
    BY <1>2, <2>1 DEF Up, AuthUp
  <2>3. /\ y \in Database
        /\ y.schemas = d.schemas \cup {"access_management"} /\ y.tables = d.tables
        /\ y.permissions = d.permissions /\ y.roles = d.roles /\ y.grants = d.grants
        /\ y.users = d.users /\ y.suspended = d.suspended /\ y.userRoles = d.userRoles
    BY <2>1, CreatesSchemas
  <2>4. /\ x \in Database
        /\ x.schemas = y.schemas /\ x.tables = y.tables \cup AuthTables
        /\ x.permissions = y.permissions /\ x.roles = y.roles /\ x.grants = y.grants
        /\ x.users = y.users /\ x.suspended = y.suspended /\ x.userRoles = y.userRoles
    BY <2>2, <2>3, CreatesTables, TableTypes
  <2>5. /\ SchemasAt(n) = SchemasAt(n - 1) \cup {"access_management"}
        /\ TablesAt(n) = TablesAt(n - 1) \cup AuthTables
        /\ PermissionsAt(n) = PermissionsAt(n - 1)
        /\ RolesAt(n) = RolesAt(n - 1)
        /\ GrantsAt(n) = GrantsAt(n - 1)
    BY <1>2 DEF SchemasAt, TablesAt, PermissionsAt, RolesAt, GrantsAt, At
  <2>6. x.schemas = SchemasAt(n)
    BY <2>3, <2>4, <2>5 DEF Sees
  <2>7. /\ x.tables = TablesAt(n) /\ x.permissions = PermissionsAt(n)
         /\ x.roles = RolesAt(n) /\ x.grants = GrantsAt(n)
    BY <2>3, <2>4, <2>5 DEF Sees
  <2> QED
    BY <1>2, <2>3, <2>4, <2>6, <2>7 DEF Sees, RowsUp
<1>3. CASE n = 3
  <2>1. PICK y : y = WithTables(d, RbacTables)
    OBVIOUS
  <2>2. PICK z : z = RbacSeed(y)
    OBVIOUS
  <2>3. x = Backfill(z)
    BY <1>3, <2>1, <2>2 DEF Up, RbacUp
  <2>4. /\ y \in Database
        /\ y.schemas = d.schemas /\ y.tables = d.tables \cup RbacTables
        /\ y.permissions = d.permissions /\ y.roles = d.roles /\ y.grants = d.grants
        /\ y.users = d.users /\ y.suspended = d.suspended /\ y.userRoles = d.userRoles
    BY <2>1, CreatesTables, TableTypes
  <2>5. /\ z \in Database
        /\ z.schemas = y.schemas /\ z.tables = y.tables
        /\ z.permissions = y.permissions \cup FirstPermissions
        /\ z.roles = y.roles \cup RoleCodes /\ z.grants = y.grants \cup FirstGrants
        /\ z.users = y.users /\ z.suspended = y.suspended /\ z.userRoles = y.userRoles
    BY <2>2, <2>4, SeedsCatalogue
  <2>6. /\ x \in Database
        /\ x.schemas = z.schemas /\ x.tables = z.tables
        /\ x.permissions = z.permissions /\ x.roles = z.roles /\ x.grants = z.grants
        /\ x.users = z.users /\ x.suspended = z.suspended /\ x.userRoles = Backfilled(z)
    BY <2>3, <2>5, BackfillsRoles
  <2>7. Backfilled(z) = Backfilled(d)
    BY <2>4, <2>5 DEF Backfilled
  <2>8. /\ SchemasAt(n) = SchemasAt(n - 1)
        /\ TablesAt(n) = TablesAt(n - 1) \cup RbacTables
        /\ PermissionsAt(n) = PermissionsAt(n - 1) \cup FirstPermissions
        /\ RolesAt(n) = RolesAt(n - 1) \cup RoleCodes
        /\ GrantsAt(n) = GrantsAt(n - 1) \cup FirstGrants
    BY <1>3 DEF SchemasAt, TablesAt, PermissionsAt, RolesAt, GrantsAt, At
  <2>9. Sees(x, n)
    BY <2>4, <2>5, <2>6, <2>8 DEF Sees
  <2> QED
    BY <1>3, <2>4, <2>5, <2>6, <2>7, <2>9 DEF RowsUp
<1>4. CASE n = 4
  <2>1. x = WithTables(d, EnrollmentTables)
    BY <1>4 DEF Up, EnrollmentUp
  <2>2. /\ x \in Database
        /\ x.schemas = d.schemas /\ x.tables = d.tables \cup EnrollmentTables
        /\ x.permissions = d.permissions /\ x.roles = d.roles /\ x.grants = d.grants
        /\ x.users = d.users /\ x.suspended = d.suspended /\ x.userRoles = d.userRoles
    BY <2>1, CreatesTables, TableTypes
  <2>3. /\ SchemasAt(n) = SchemasAt(n - 1)
        /\ TablesAt(n) = TablesAt(n - 1) \cup EnrollmentTables
        /\ PermissionsAt(n) = PermissionsAt(n - 1)
        /\ RolesAt(n) = RolesAt(n - 1)
        /\ GrantsAt(n) = GrantsAt(n - 1)
    BY <1>4 DEF SchemasAt, TablesAt, PermissionsAt, RolesAt, GrantsAt, At
  <2> QED
    BY <1>4, <2>2, <2>3 DEF Sees, RowsUp
<1>5. CASE n = 5
  <2>1. PICK p : p = d.permissions \cup EnrollmentPermissions
    OBVIOUS
  <2>2. PICK g : g = d.grants \cup EnrollmentGrants
    OBVIOUS
  <2>3. p \in SUBSET PermissionCodes /\ g \in SUBSET Grants
    BY <2>1, <2>2, MadeTypes DEF Database, Grants
  <2>4. x = Regranted(d, p, g)
    BY <1>5, <2>1, <2>2 DEF Up, EnrollmentRbacUp, Regranted
  <2>5. /\ x \in Database
        /\ x.schemas = d.schemas /\ x.tables = d.tables
        /\ x.permissions = p /\ x.roles = d.roles /\ x.grants = g
        /\ x.users = d.users /\ x.suspended = d.suspended /\ x.userRoles = d.userRoles
    BY <2>3, <2>4, ChangesCatalogue
  <2>6. /\ SchemasAt(n) = SchemasAt(n - 1)
        /\ TablesAt(n) = TablesAt(n - 1)
        /\ PermissionsAt(n) = PermissionsAt(n - 1) \cup EnrollmentPermissions
        /\ RolesAt(n) = RolesAt(n - 1)
        /\ GrantsAt(n) = GrantsAt(n - 1) \cup EnrollmentGrants
    BY <1>5 DEF SchemasAt, TablesAt, PermissionsAt, RolesAt, GrantsAt, At
  <2> QED
    BY <1>5, <2>1, <2>2, <2>5, <2>6 DEF Sees, RowsUp
<1>6. CASE n = 6
  <2>1. PICK y : y = WithSchemas(d, {"audit"})
    OBVIOUS
  <2>2. x = WithTables(y, AuditTables)
    BY <1>6, <2>1 DEF Up, AuditUp
  <2>3. /\ y \in Database
        /\ y.schemas = d.schemas \cup {"audit"} /\ y.tables = d.tables
        /\ y.permissions = d.permissions /\ y.roles = d.roles /\ y.grants = d.grants
        /\ y.users = d.users /\ y.suspended = d.suspended /\ y.userRoles = d.userRoles
    BY <2>1, CreatesSchemas
  <2>4. /\ x \in Database
        /\ x.schemas = y.schemas /\ x.tables = y.tables \cup AuditTables
        /\ x.permissions = y.permissions /\ x.roles = y.roles /\ x.grants = y.grants
        /\ x.users = y.users /\ x.suspended = y.suspended /\ x.userRoles = y.userRoles
    BY <2>2, <2>3, CreatesTables, TableTypes
  <2>5. /\ SchemasAt(n) = SchemasAt(n - 1) \cup {"audit"}
        /\ TablesAt(n) = TablesAt(n - 1) \cup AuditTables
        /\ PermissionsAt(n) = PermissionsAt(n - 1)
        /\ RolesAt(n) = RolesAt(n - 1)
        /\ GrantsAt(n) = GrantsAt(n - 1)
    BY <1>6 DEF SchemasAt, TablesAt, PermissionsAt, RolesAt, GrantsAt, At
  <2>6. x.schemas = SchemasAt(n)
    BY <2>3, <2>4, <2>5 DEF Sees
  <2>7. /\ x.tables = TablesAt(n) /\ x.permissions = PermissionsAt(n)
         /\ x.roles = RolesAt(n) /\ x.grants = GrantsAt(n)
    BY <2>3, <2>4, <2>5 DEF Sees
  <2> QED
    BY <1>6, <2>3, <2>4, <2>6, <2>7 DEF Sees, RowsUp
<1>7. CASE n = 7
  <2>1. x = WithTables(d, HealthTables)
    BY <1>7 DEF Up, HealthUp
  <2>2. /\ x \in Database
        /\ x.schemas = d.schemas /\ x.tables = d.tables \cup HealthTables
        /\ x.permissions = d.permissions /\ x.roles = d.roles /\ x.grants = d.grants
        /\ x.users = d.users /\ x.suspended = d.suspended /\ x.userRoles = d.userRoles
    BY <2>1, CreatesTables, TableTypes
  <2>3. /\ SchemasAt(n) = SchemasAt(n - 1)
        /\ TablesAt(n) = TablesAt(n - 1) \cup HealthTables
        /\ PermissionsAt(n) = PermissionsAt(n - 1)
        /\ RolesAt(n) = RolesAt(n - 1)
        /\ GrantsAt(n) = GrantsAt(n - 1)
    BY <1>7 DEF SchemasAt, TablesAt, PermissionsAt, RolesAt, GrantsAt, At
  <2> QED
    BY <1>7, <2>2, <2>3 DEF Sees, RowsUp
<1>8. CASE n = 8
  <2>1. PICK p : p = d.permissions \cup {"audit.read"}
    OBVIOUS
  <2>2. PICK g : g = d.grants \cup AuditGrants
    OBVIOUS
  <2>3. p \in SUBSET PermissionCodes /\ g \in SUBSET Grants
    BY <2>1, <2>2, MadeTypes DEF Database, Grants
  <2>4. x = Regranted(d, p, g)
    BY <1>8, <2>1, <2>2 DEF Up, AuditRbacUp, Regranted
  <2>5. /\ x \in Database
        /\ x.schemas = d.schemas /\ x.tables = d.tables
        /\ x.permissions = p /\ x.roles = d.roles /\ x.grants = g
        /\ x.users = d.users /\ x.suspended = d.suspended /\ x.userRoles = d.userRoles
    BY <2>3, <2>4, ChangesCatalogue
  <2>6. /\ SchemasAt(n) = SchemasAt(n - 1)
        /\ TablesAt(n) = TablesAt(n - 1)
        /\ PermissionsAt(n) = PermissionsAt(n - 1) \cup {"audit.read"}
        /\ RolesAt(n) = RolesAt(n - 1)
        /\ GrantsAt(n) = GrantsAt(n - 1) \cup AuditGrants
    BY <1>8 DEF SchemasAt, TablesAt, PermissionsAt, RolesAt, GrantsAt, At
  <2> QED
    BY <1>8, <2>1, <2>2, <2>5, <2>6 DEF Sees, RowsUp
<1> QED
  BY <1>1, <1>2, <1>3, <1>4, <1>5, <1>6, <1>7, <1>8

\* Nothing two migrations make has the same name.
LEMMA NothingTwice ==
  /\ AuthTables \cap CoreTables = {}
  /\ RbacTables \cap (CoreTables \cup AuthTables) = {}
  /\ EnrollmentTables \cap (CoreTables \cup AuthTables \cup RbacTables) = {}
  /\ AuditTables \cap (CoreTables \cup AuthTables \cup RbacTables \cup EnrollmentTables) = {}
  /\ HealthTables \cap (CoreTables \cup AuthTables \cup RbacTables \cup EnrollmentTables
                        \cup AuditTables) = {}
  /\ "access_management" \notin CoreSchemas
  /\ "audit" \notin CoreSchemas \cup {"access_management"}
  /\ EnrollmentPermissions \cap FirstPermissions = {}
  /\ "audit.read" \notin FirstPermissions \cup EnrollmentPermissions
  /\ EnrollmentGrants \cap FirstGrants = {}
  /\ AuditGrants \cap (FirstGrants \cup EnrollmentGrants) = {}
<1>1. /\ "access_management" \notin CoreSchemas
      /\ "audit" \notin CoreSchemas \cup {"access_management"}
  BY DEF CoreSchemas
<1>2. /\ EnrollmentPermissions \cap FirstPermissions = {}
      /\ "audit.read" \notin FirstPermissions \cup EnrollmentPermissions
  BY DEF EnrollmentPermissions, FirstPermissions
<1>3. /\ \A g \in FirstGrants : g.permission \in FirstPermissions
      /\ \A g \in EnrollmentGrants : g.permission \in EnrollmentPermissions
      /\ \A g \in AuditGrants : g.permission = "audit.read"
  BY DEF FirstGrants, EnrollmentGrants, AuditGrants, Granted, FirstPermissions,
         EnrollmentPermissions
<1>4. /\ EnrollmentGrants \cap FirstGrants = {}
      /\ AuditGrants \cap (FirstGrants \cup EnrollmentGrants) = {}
  BY <1>2, <1>3
<1>5. /\ \A t \in CoreTables : t.name \in {"customers", "licenses", "license_entitlements", "installations"}
      /\ \A t \in AuthTables : t.name \in {"admin_users", "admin_sessions"}
      /\ \A t \in RbacTables : t.name \in {"permissions", "admin_roles", "role_permissions", "admin_user_roles"}
      /\ \A t \in EnrollmentTables : t.name \in {"installation_enrollments", "installation_credentials"}
      /\ \A t \in AuditTables : t.name = "audit_events"
      /\ \A t \in HealthTables : t.name = "installation_health"
  BY DEF CoreTables, AuthTables, AdminUsers, RbacTables, RolePermissionsTable, AdminUserRoles,
         EnrollmentTables, AuditTables, HealthTables, Table
<1>6. /\ AuthTables \cap CoreTables = {}
      /\ RbacTables \cap (CoreTables \cup AuthTables) = {}
      /\ EnrollmentTables \cap (CoreTables \cup AuthTables \cup RbacTables) = {}
      /\ AuditTables \cap (CoreTables \cup AuthTables \cup RbacTables \cup EnrollmentTables) = {}
      /\ HealthTables \cap (CoreTables \cup AuthTables \cup RbacTables \cup EnrollmentTables
                            \cup AuditTables) = {}
  BY <1>5
<1> QED
  BY <1>1, <1>2, <1>4, <1>6

-----------------------------------------------------------------------------
(* What each migration undoes. *)

\* The rows of administrators and of their roles after the revert of migration n.
RowsDown(x, n, d) ==
  /\ x.users = (IF n = 2 THEN {} ELSE d.users)
  /\ x.suspended = (IF n = 2 THEN {} ELSE d.suspended)
  /\ x.userRoles = (IF n = 3 THEN {} ELSE d.userRoles)

WithoutUsers(d) == [d EXCEPT !.users = {}, !.suspended = {}]

LEMMA ForgetsUsers ==
  ASSUME NEW d \in Database, NEW x, x = WithoutUsers(d)
  PROVE  /\ x \in Database
         /\ x.schemas = d.schemas /\ x.tables = d.tables
         /\ x.permissions = d.permissions /\ x.roles = d.roles /\ x.grants = d.grants
         /\ x.users = {} /\ x.suspended = {} /\ x.userRoles = d.userRoles
  BY DEF Database, WithoutUsers

WithoutRoles(d) ==
  [d EXCEPT !.permissions = {}, !.roles = {}, !.grants = {}, !.userRoles = {}]

LEMMA ForgetsRoles ==
  ASSUME NEW d \in Database, NEW x, x = WithoutRoles(d)
  PROVE  /\ x \in Database
         /\ x.schemas = d.schemas /\ x.tables = d.tables
         /\ x.permissions = {} /\ x.roles = {} /\ x.grants = {}
         /\ x.users = d.users /\ x.suspended = d.suspended /\ x.userRoles = {}
  BY DEF Database, WithoutRoles

LEMMA DownSees ==
  ASSUME NEW n \in 1..8, NEW d \in Database, Sees(d, n), NEW x, x = Down(n, d)
  PROVE  x \in Database /\ Sees(x, n - 1) /\ RowsDown(x, n, d)
<1>1. CASE n = 1
  <2>1. PICK y : y = WithoutTables(d, CoreTables)
    OBVIOUS
  <2>2. x = WithoutSchemas(y, CoreSchemas)
    BY <1>1, <2>1 DEF Down, CoreDown
  <2>3. /\ y \in Database
        /\ y.schemas = d.schemas /\ y.tables = d.tables \ CoreTables
        /\ y.permissions = d.permissions /\ y.roles = d.roles /\ y.grants = d.grants
        /\ y.users = d.users /\ y.suspended = d.suspended /\ y.userRoles = d.userRoles
    BY <2>1, DropsTables
  <2>4. /\ x \in Database
        /\ x.schemas = y.schemas \ CoreSchemas /\ x.tables = y.tables
        /\ x.permissions = y.permissions /\ x.roles = y.roles /\ x.grants = y.grants
        /\ x.users = y.users /\ x.suspended = y.suspended /\ x.userRoles = y.userRoles
    BY <2>2, <2>3, DropsSchemas
  <2>5. /\ SchemasAt(n - 1) = SchemasAt(n) \ CoreSchemas
        /\ TablesAt(n - 1) = TablesAt(n) \ CoreTables
        /\ PermissionsAt(n - 1) = PermissionsAt(n)
        /\ RolesAt(n - 1) = RolesAt(n)
        /\ GrantsAt(n - 1) = GrantsAt(n)
    BY <1>1, NothingTwice DEF SchemasAt, TablesAt, PermissionsAt, RolesAt, GrantsAt, At
  <2>6. Sees(x, n - 1)
    BY <2>3, <2>4, <2>5 DEF Sees
  <2> QED
    BY <1>1, <2>3, <2>4, <2>5, <2>6 DEF RowsDown
<1>2. CASE n = 2
  <2>1. PICK y : y = WithoutTables(d, AuthTables)
    OBVIOUS
  <2>2. PICK z : z = WithoutSchemas(y, {"access_management"})
    OBVIOUS
  <2>3. x = WithoutUsers(z)
    BY <1>2, <2>1, <2>2 DEF Down, AuthDown, WithoutUsers
  <2>4. /\ y \in Database
        /\ y.schemas = d.schemas /\ y.tables = d.tables \ AuthTables
        /\ y.permissions = d.permissions /\ y.roles = d.roles /\ y.grants = d.grants
        /\ y.users = d.users /\ y.suspended = d.suspended /\ y.userRoles = d.userRoles
    BY <2>1, DropsTables
  <2>5. /\ z \in Database
        /\ z.schemas = y.schemas \ {"access_management"} /\ z.tables = y.tables
        /\ z.permissions = y.permissions /\ z.roles = y.roles /\ z.grants = y.grants
        /\ z.users = y.users /\ z.suspended = y.suspended /\ z.userRoles = y.userRoles
    BY <2>2, <2>4, DropsSchemas
  <2>6. /\ x \in Database
        /\ x.schemas = z.schemas /\ x.tables = z.tables
        /\ x.permissions = z.permissions /\ x.roles = z.roles /\ x.grants = z.grants
        /\ x.users = {} /\ x.suspended = {} /\ x.userRoles = z.userRoles
    BY <2>3, <2>5, ForgetsUsers
  <2>7. /\ SchemasAt(n - 1) = SchemasAt(n) \ {"access_management"}
        /\ TablesAt(n - 1) = TablesAt(n) \ AuthTables
        /\ PermissionsAt(n - 1) = PermissionsAt(n)
        /\ RolesAt(n - 1) = RolesAt(n)
        /\ GrantsAt(n - 1) = GrantsAt(n)
    BY <1>2, NothingTwice DEF SchemasAt, TablesAt, PermissionsAt, RolesAt, GrantsAt, At
  <2>8. Sees(x, n - 1)
    BY <2>4, <2>5, <2>6, <2>7 DEF Sees
  <2> QED
    BY <1>2, <2>4, <2>5, <2>6, <2>7, <2>8 DEF RowsDown
<1>3. CASE n = 3
  <2>1. PICK y : y = WithoutTables(d, RbacTables)
    OBVIOUS
  <2>2. x = WithoutRoles(y)
    BY <1>3, <2>1 DEF Down, RbacDown, WithoutRoles
  <2>3. /\ y \in Database
        /\ y.schemas = d.schemas /\ y.tables = d.tables \ RbacTables
        /\ y.permissions = d.permissions /\ y.roles = d.roles /\ y.grants = d.grants
        /\ y.users = d.users /\ y.suspended = d.suspended /\ y.userRoles = d.userRoles
    BY <2>1, DropsTables
  <2>4. /\ x \in Database
        /\ x.schemas = y.schemas /\ x.tables = y.tables
        /\ x.permissions = {} /\ x.roles = {} /\ x.grants = {}
        /\ x.users = y.users /\ x.suspended = y.suspended /\ x.userRoles = {}
    BY <2>2, <2>3, ForgetsRoles
  <2>5. /\ SchemasAt(n - 1) = SchemasAt(n)
        /\ TablesAt(n - 1) = TablesAt(n) \ RbacTables
        /\ PermissionsAt(n - 1) = {}
        /\ RolesAt(n - 1) = {}
        /\ GrantsAt(n - 1) = {}
    BY <1>3, NothingTwice DEF SchemasAt, TablesAt, PermissionsAt, RolesAt, GrantsAt, At
  <2>6. Sees(x, n - 1)
    BY <2>3, <2>4, <2>5 DEF Sees
  <2> QED
    BY <1>3, <2>3, <2>4, <2>5, <2>6 DEF RowsDown
<1>4. CASE n = 4
  <2>1. x = WithoutTables(d, EnrollmentTables)
    BY <1>4 DEF Down, EnrollmentDown
  <2>2. /\ x \in Database
        /\ x.schemas = d.schemas /\ x.tables = d.tables \ EnrollmentTables
        /\ x.permissions = d.permissions /\ x.roles = d.roles /\ x.grants = d.grants
        /\ x.users = d.users /\ x.suspended = d.suspended /\ x.userRoles = d.userRoles
    BY <2>1, DropsTables
  <2>3. /\ SchemasAt(n - 1) = SchemasAt(n)
        /\ TablesAt(n - 1) = TablesAt(n) \ EnrollmentTables
        /\ PermissionsAt(n - 1) = PermissionsAt(n)
        /\ RolesAt(n - 1) = RolesAt(n)
        /\ GrantsAt(n - 1) = GrantsAt(n)
    BY <1>4, NothingTwice DEF SchemasAt, TablesAt, PermissionsAt, RolesAt, GrantsAt, At
  <2>4. Sees(x, n - 1)
    BY <2>2, <2>3 DEF Sees
  <2> QED
    BY <1>4, <2>2, <2>3, <2>4 DEF RowsDown
<1>5. CASE n = 5
  <2>1. PICK p : p = d.permissions \ EnrollmentPermissions
    OBVIOUS
  <2>2. PICK g : g = d.grants \ EnrollmentGrants
    OBVIOUS
  <2>3. p \in SUBSET PermissionCodes /\ g \in SUBSET Grants
    BY <2>1, <2>2 DEF Database, Grants
  <2>4. x = Revoked(d, p, g)
    BY <1>5, <2>1, <2>2 DEF Down, EnrollmentRbacDown, Revoked
  <2>5. /\ x \in Database
        /\ x.schemas = d.schemas /\ x.tables = d.tables
        /\ x.permissions = p /\ x.roles = d.roles /\ x.grants = g
        /\ x.users = d.users /\ x.suspended = d.suspended /\ x.userRoles = d.userRoles
    BY <2>3, <2>4, RevokesCatalogue
  <2>6. /\ SchemasAt(n - 1) = SchemasAt(n)
        /\ TablesAt(n - 1) = TablesAt(n)
        /\ PermissionsAt(n - 1) = PermissionsAt(n) \ EnrollmentPermissions
        /\ RolesAt(n - 1) = RolesAt(n)
        /\ GrantsAt(n - 1) = GrantsAt(n) \ EnrollmentGrants
    BY <1>5, NothingTwice DEF SchemasAt, TablesAt, PermissionsAt, RolesAt, GrantsAt, At
  <2>7. Sees(x, n - 1)
    BY <2>1, <2>2, <2>5, <2>6 DEF Sees
  <2> QED
    BY <1>5, <2>1, <2>2, <2>5, <2>6, <2>7 DEF RowsDown
<1>6. CASE n = 6
  <2>1. PICK y : y = WithoutTables(d, AuditTables)
    OBVIOUS
  <2>2. x = WithoutSchemas(y, {"audit"})
    BY <1>6, <2>1 DEF Down, AuditDown
  <2>3. /\ y \in Database
        /\ y.schemas = d.schemas /\ y.tables = d.tables \ AuditTables
        /\ y.permissions = d.permissions /\ y.roles = d.roles /\ y.grants = d.grants
        /\ y.users = d.users /\ y.suspended = d.suspended /\ y.userRoles = d.userRoles
    BY <2>1, DropsTables
  <2>4. /\ x \in Database
        /\ x.schemas = y.schemas \ {"audit"} /\ x.tables = y.tables
        /\ x.permissions = y.permissions /\ x.roles = y.roles /\ x.grants = y.grants
        /\ x.users = y.users /\ x.suspended = y.suspended /\ x.userRoles = y.userRoles
    BY <2>2, <2>3, DropsSchemas
  <2>5. /\ SchemasAt(n - 1) = SchemasAt(n) \ {"audit"}
        /\ TablesAt(n - 1) = TablesAt(n) \ AuditTables
        /\ PermissionsAt(n - 1) = PermissionsAt(n)
        /\ RolesAt(n - 1) = RolesAt(n)
        /\ GrantsAt(n - 1) = GrantsAt(n)
    BY <1>6, NothingTwice DEF SchemasAt, TablesAt, PermissionsAt, RolesAt, GrantsAt, At
  <2>6. Sees(x, n - 1)
    BY <2>3, <2>4, <2>5 DEF Sees
  <2> QED
    BY <1>6, <2>3, <2>4, <2>5, <2>6 DEF RowsDown
<1>7. CASE n = 7
  <2>1. x = WithoutTables(d, HealthTables)
    BY <1>7 DEF Down, HealthDown
  <2>2. /\ x \in Database
        /\ x.schemas = d.schemas /\ x.tables = d.tables \ HealthTables
        /\ x.permissions = d.permissions /\ x.roles = d.roles /\ x.grants = d.grants
        /\ x.users = d.users /\ x.suspended = d.suspended /\ x.userRoles = d.userRoles
    BY <2>1, DropsTables
  <2>3. /\ SchemasAt(n - 1) = SchemasAt(n)
        /\ TablesAt(n - 1) = TablesAt(n) \ HealthTables
        /\ PermissionsAt(n - 1) = PermissionsAt(n)
        /\ RolesAt(n - 1) = RolesAt(n)
        /\ GrantsAt(n - 1) = GrantsAt(n)
    BY <1>7, NothingTwice DEF SchemasAt, TablesAt, PermissionsAt, RolesAt, GrantsAt, At
  <2>4. Sees(x, n - 1)
    BY <2>2, <2>3 DEF Sees
  <2> QED
    BY <1>7, <2>2, <2>3, <2>4 DEF RowsDown
<1>8. CASE n = 8
  <2>1. PICK p : p = d.permissions \ {"audit.read"}
    OBVIOUS
  <2>2. PICK g : g = d.grants \ AuditGrants
    OBVIOUS
  <2>3. p \in SUBSET PermissionCodes /\ g \in SUBSET Grants
    BY <2>1, <2>2 DEF Database, Grants
  <2>4. x = Revoked(d, p, g)
    BY <1>8, <2>1, <2>2 DEF Down, AuditRbacDown, Revoked
  <2>5. /\ x \in Database
        /\ x.schemas = d.schemas /\ x.tables = d.tables
        /\ x.permissions = p /\ x.roles = d.roles /\ x.grants = g
        /\ x.users = d.users /\ x.suspended = d.suspended /\ x.userRoles = d.userRoles
    BY <2>3, <2>4, RevokesCatalogue
  <2>6. /\ SchemasAt(n - 1) = SchemasAt(n)
        /\ TablesAt(n - 1) = TablesAt(n)
        /\ PermissionsAt(n - 1) = PermissionsAt(n) \ {"audit.read"}
        /\ RolesAt(n - 1) = RolesAt(n)
        /\ GrantsAt(n - 1) = GrantsAt(n) \ AuditGrants
    BY <1>8, NothingTwice DEF SchemasAt, TablesAt, PermissionsAt, RolesAt, GrantsAt, At
  <2>7. Sees(x, n - 1)
    BY <2>1, <2>2, <2>5, <2>6 DEF Sees
  <2> QED
    BY <1>8, <2>1, <2>2, <2>5, <2>6, <2>7 DEF RowsDown
<1> QED
  BY <1>1, <1>2, <1>3, <1>4, <1>5, <1>6, <1>7, <1>8

-----------------------------------------------------------------------------
(* Any number of migrations in a row. *)

RunSees(d, from, to) ==
  LET x == Migrated(d, from, to)
  IN /\ x \in Database /\ Sees(x, to)
     /\ x.users = d.users /\ x.suspended = d.suspended
     /\ x.userRoles = IF from < 3 /\ 3 <= to THEN Backfilled(d) ELSE d.userRoles

LEMMA Runs ==
  ASSUME NEW d \in Database, NEW from \in 0..Latest, Sees(d, from)
  PROVE  \A to \in from..Latest : RunSees(d, from, to)
<1> DEFINE Fine(n) == n \in from..Latest => RunSees(d, from, n)
<1>1. RunSees(d, from, from)
  <2>1. Migrated(d, from, from) = d
    BY MigratedNone
  <2> QED
    BY <2>1 DEF RunSees
<1>2. \A n \in 0..from : Fine(n)
  BY <1>1 DEF Latest
<1>3. ASSUME NEW n \in 0..(Latest - 1), Fine(n)
      PROVE  Fine(n + 1)
  <2>1. CASE n < from
    BY <1>2, <2>1 DEF Latest
  <2>2. CASE from <= n
    <3>1. n + 1 \in from..Latest /\ n \in from..Latest /\ n + 1 # from /\ n + 1 \in 1..8
          /\ (n + 1) - 1 = n
      BY <2>2 DEF Latest
    <3>2. PICK y : y = Migrated(d, from, n)
      OBVIOUS
    <3>3. PICK x : x = Migrated(d, from, n + 1)
      OBVIOUS
    <3>4. x = Up(n + 1, y)
      BY <3>1, <3>2, <3>3, MigratedMore
    <3>5. /\ y \in Database /\ Sees(y, n)
          /\ y.users = d.users /\ y.suspended = d.suspended
          /\ y.userRoles = IF from < 3 /\ 3 <= n THEN Backfilled(d) ELSE d.userRoles
      BY <1>3, <3>1, <3>2 DEF RunSees
    <3>6. x \in Database /\ Sees(x, n + 1) /\ RowsUp(x, n + 1, y)
      BY <3>1, <3>4, <3>5, UpSees
    <3>7. x.userRoles = IF from < 3 /\ 3 <= n + 1 THEN Backfilled(d) ELSE d.userRoles
      <4>1. CASE n + 1 = 3
        BY <2>2, <3>5, <3>6, <4>1 DEF RowsUp, Backfilled
      <4>2. CASE n + 1 # 3
        BY <2>2, <3>5, <3>6, <4>2 DEF RowsUp
      <4> QED
        BY <4>1, <4>2
    <3>8. x.users = d.users /\ x.suspended = d.suspended
      BY <3>5, <3>6 DEF RowsUp
    <3>9. RunSees(d, from, n + 1)
      BY <3>3, <3>6, <3>7, <3>8 DEF RunSees
    <3> QED
      BY <3>9
  <2> QED
    BY <2>1, <2>2 DEF Latest
<1> HIDE DEF Fine
<1>4. \A n \in 0..8 : Fine(n)
  <2>1. Fine(0) BY <1>2 DEF Latest
  <2>2. Fine(1) BY <1>2, <1>3, <2>1 DEF Latest
  <2>3. Fine(2) BY <1>2, <1>3, <2>2 DEF Latest
  <2>4. Fine(3) BY <1>2, <1>3, <2>3 DEF Latest
  <2>5. Fine(4) BY <1>2, <1>3, <2>4 DEF Latest
  <2>6. Fine(5) BY <1>2, <1>3, <2>5 DEF Latest
  <2>7. Fine(6) BY <1>2, <1>3, <2>6 DEF Latest
  <2>8. Fine(7) BY <1>2, <1>3, <2>7 DEF Latest
  <2>9. Fine(8) BY <1>2, <1>3, <2>8 DEF Latest
  <2> QED
    BY <2>1, <2>2, <2>3, <2>4, <2>5, <2>6, <2>7, <2>8, <2>9
<1> QED
  BY <1>4 DEF Fine, Latest

LEMMA AppliedIs ==
  ASSUME NEW n \in 0..Latest
  PROVE  /\ AfterMigration[n] \in Database /\ Sees(AfterMigration[n], n)
         /\ AfterMigration[n].users = {}
<1>1. RunSees(EmptyDatabase, 0, n)
  BY EmptySees, Runs DEF Latest
<1>2. AfterMigration[n] = Migrated(EmptyDatabase, 0, n)
  BY DEF AfterMigration
<1>3. EmptyDatabase.users = {}
  BY DEF EmptyDatabase
<1> QED
  BY <1>1, <1>2, <1>3 DEF RunSees

LEMMA PartsAre ==
  ASSUME NEW d \in Database, NEW n \in 0..Latest
  PROVE  (\A part \in Parts : d[part] = AfterMigration[n][part]) <=> Sees(d, n)
<1>1. PICK a : a = AfterMigration[n]
  OBVIOUS
<1>2. a \in Database /\ Sees(a, n)
  BY <1>1, AppliedIs
<1>3. /\ d["schemas"] = d.schemas /\ d["tables"] = d.tables
      /\ d["permissions"] = d.permissions /\ d["roles"] = d.roles /\ d["grants"] = d.grants
      /\ a["schemas"] = a.schemas /\ a["tables"] = a.tables
      /\ a["permissions"] = a.permissions /\ a["roles"] = a.roles /\ a["grants"] = a.grants
  OBVIOUS
<1>4. (\A part \in Parts : d[part] = a[part])
        <=> /\ d.schemas = a.schemas /\ d.tables = a.tables
            /\ d.permissions = a.permissions /\ d.roles = a.roles /\ d.grants = a.grants
  BY <1>3 DEF Parts
<1>5. Sees(d, n) <=> /\ d.schemas = a.schemas /\ d.tables = a.tables
                     /\ d.permissions = a.permissions /\ d.roles = a.roles
                     /\ d.grants = a.grants
  BY <1>2 DEF Sees
<1> QED
  BY <1>1, <1>4, <1>5

-----------------------------------------------------------------------------
(* Rows of administrators. *)

WithUsers(d, u) == [d EXCEPT !.users = u]
WithSuspended(d, u) == [d EXCEPT !.suspended = u]
WithUserRoles(d, u) == [d EXCEPT !.userRoles = u]

SameCatalogue(x, d) ==
  /\ x.schemas = d.schemas /\ x.tables = d.tables
  /\ x.permissions = d.permissions /\ x.roles = d.roles /\ x.grants = d.grants

LEMMA SavesUsers ==
  ASSUME NEW d \in Database, NEW u \in SUBSET Emails, NEW x, x = WithUsers(d, u)
  PROVE  /\ x \in Database /\ SameCatalogue(x, d)
         /\ x.users = u /\ x.suspended = d.suspended /\ x.userRoles = d.userRoles
  BY DEF Database, WithUsers, SameCatalogue

LEMMA SavesSuspended ==
  ASSUME NEW d \in Database, NEW u \in SUBSET Emails, NEW x, x = WithSuspended(d, u)
  PROVE  /\ x \in Database /\ SameCatalogue(x, d)
         /\ x.users = d.users /\ x.suspended = u /\ x.userRoles = d.userRoles
  BY DEF Database, WithSuspended, SameCatalogue

LEMMA SavesUserRoles ==
  ASSUME NEW d \in Database, NEW u \in SUBSET [user : Emails, role : RoleCodes],
         NEW x, x = WithUserRoles(d, u)
  PROVE  /\ x \in Database /\ SameCatalogue(x, d)
         /\ x.users = d.users /\ x.suspended = d.suspended /\ x.userRoles = u
  BY DEF Database, WithUserRoles, SameCatalogue

-----------------------------------------------------------------------------
(* Handlers. *)

LEMMA IdleTypes ==
  /\ IdleTool \in Tool /\ IdleTool.pc = "idle"
  /\ IdleRequest \in Request /\ IdleRequest.pc = "idle"
  BY DEF IdleTool, Tool, IdleRequest, Request

\* A request that has been through a guard keeps no local.
LEMMA DecidedIs ==
  ASSUME NEW pc \in {"idle", "Run", "Unauthorized", "Forbidden", "Failed"},
         NEW x, x = [IdleRequest EXCEPT !.pc = pc]
  PROVE  x \in Request /\ x.pc = pc
  BY DEF IdleRequest, Request

\* A route of the administrative plane names one permission.
LEMMA AdminRoutes ==
  ASSUME NEW route \in Routes, route.plane = "admin"
  PROVE  \E code \in PermissionCodes : route.needs = {code}
<1>1. \/ \E op \in {"live", "ready", "aggregate", "LoginAdmin", "RefreshAdminSession",
                    "LogoutAdmin"} : route = Public(op)
      \/ route = AuthenticatedOnly("GetAdminProfile")
      \/ route = InstallationEnrollment("EnrollInstallation")
      \/ route \in {InstallationAuthenticated("InstallationSession"),
                    InstallationAuthenticated("RecordInstallationHeartbeat")}
      \/ route \in CustomerRoutes \cup LicenseRoutes \cup InstallationRoutes
                   \cup InstallationLifecycleRoutes \cup AuditRoutes
  BY DEF Routes, HealthRoutes, AuthRoutes, InstallationAuthRoutes, InstallationHealthRoutes
<1>2. route \in CustomerRoutes \cup LicenseRoutes \cup InstallationRoutes
                \cup InstallationLifecycleRoutes \cup AuditRoutes
  BY <1>1 DEF Public, AuthenticatedOnly, InstallationEnrollment, InstallationAuthenticated
<1>3. CASE route \in CustomerRoutes
  BY <1>3 DEF CustomerRoutes, RequirePermissions, PermissionCodes
<1>4. CASE route \in LicenseRoutes
  BY <1>4 DEF LicenseRoutes, RequirePermissions, PermissionCodes
<1>5. CASE route \in InstallationRoutes
  BY <1>5 DEF InstallationRoutes, RequirePermissions, PermissionCodes
<1>6. CASE route \in InstallationLifecycleRoutes
  BY <1>6 DEF InstallationLifecycleRoutes, RequirePermissions, PermissionCodes
<1>7. CASE route \in AuditRoutes
  BY <1>7 DEF AuditRoutes, RequirePermissions, PermissionCodes
<1> QED
  BY <1>2, <1>3, <1>4, <1>5, <1>6, <1>7

\* The table of administrators' roles is there from migration 3 on.
LEMMA RolesTable ==
  ASSUME NEW n \in 0..Latest
  PROVE  AdminUserRoles \in TablesAt(n) <=> n >= 3
<1>1. AdminUserRoles \in RbacTables
  BY DEF RbacTables
<1>2. AdminUserRoles \notin CoreTables \cup AuthTables
  BY <1>1, NothingTwice
<1> QED
  <2>1. CASE n >= 3
    BY <1>1, <2>1 DEF TablesAt, At
  <2>2. CASE n < 3
    BY <1>2, <2>2 DEF TablesAt, At, Latest
  <2> QED
    BY <2>1, <2>2 DEF Latest

LEMMA Seen ==
  ASSUME TypeOK
  PROVE  CatalogueApplied <=> Sees(db, applied)
  BY PartsAre DEF TypeOK, CatalogueApplied

LEMMA RolesExist ==
  ASSUME TypeOK, CatalogueApplied
  PROVE  Exists(AdminUserRoles) <=> applied >= 3
  BY Seen, RolesTable DEF TypeOK, Sees, Exists

-----------------------------------------------------------------------------
(* The steps keep the invariant. *)

\* EveryAdminHasRole for one administrator.
HasRole(e) == \/ [user |-> e, role |-> "PLATFORM_ADMIN"] \in db.userRoles
              \/ \E b \in Tools : tool[b] = [pc |-> "Assign", email |-> e]
              \/ e \in interrupted

\* The rows of administrators change, the catalogue does not.
LEMMA RowsOnly ==
  ASSUME IInv, db' \in Database, SameCatalogue(db', db), applied' = applied
  PROVE  CatalogueApplied' /\ (Exists(AdminUserRoles)' <=> Exists(AdminUserRoles))
<1>1. Sees(db, applied)
  BY Seen DEF IInv
<1>2. Sees(db', applied')
  BY <1>1 DEF Sees, SameCatalogue
<1>3. applied' \in 0..Latest
  BY DEF IInv, TypeOK
<1>4. CatalogueApplied'
  BY <1>2, <1>3, PartsAre DEF CatalogueApplied
<1> QED
  BY <1>4 DEF SameCatalogue, Exists

\* A step of one command line.
LEMMA ToolStep ==
  ASSUME TypeOK, NEW b \in Tools, NEW x \in Tool, ToolBecomes(b, x)
  PROVE  /\ tool' \in [Tools -> Tool] /\ tool'[b] = x
         /\ \A c \in Tools \ {b} : tool'[c] = tool[c]
  BY DEF TypeOK, ToolBecomes

\* A step of one request.
LEMMA RequestStep ==
  ASSUME TypeOK, NEW r \in Requests, NEW x \in Request, RequestBecomes(r, x)
  PROVE  /\ req' \in [Requests -> Request] /\ req'[r] = x
         /\ \A q \in Requests \ {r} : req'[q] = req[q]
  BY DEF TypeOK, RequestBecomes

LEMMA BootstrapCheckKeeps ==
  ASSUME IInv, NEW b \in Tools, NEW e \in Emails, BootstrapCheck(b, e)
  PROVE  IInv'
<1>1. PICK x : x = [pc |-> "Save", email |-> e]
  OBVIOUS
<1>2. x \in Tool /\ x.pc = "Save" /\ x.email = e
  BY <1>1 DEF Tool
<1>3. /\ tool' \in [Tools -> Tool] /\ tool'[b] = x
      /\ \A c \in Tools \ {b} : tool'[c] = tool[c]
  BY <1>1, <1>2, ToolStep DEF BootstrapCheck, IInv
<1>4. db.users = {} /\ UNCHANGED <<db, applied, req, ever, interrupted>>
  BY DEF BootstrapCheck
<1>5. TypeOK'
  BY <1>3, <1>4 DEF IInv, TypeOK
<1>6. LocalsSet'
  BY <1>2, <1>3, <1>4 DEF IInv, LocalsSet
<1>7. CatalogueApplied'
  BY <1>4 DEF IInv, CatalogueApplied
<1>8. EveryAdminHasRole'
  BY <1>4 DEF EveryAdminHasRole
<1> QED
  BY <1>5, <1>6, <1>7, <1>8 DEF IInv

LEMMA BootstrapSaveKeeps ==
  ASSUME IInv, NEW b \in Tools, BootstrapSave(b)
  PROVE  IInv'
<1>1. PICK e : e = tool[b].email
  OBVIOUS
<1>2. tool[b].pc = "Save" /\ tool[b] \in Tool /\ e \in Emails
      /\ UNCHANGED <<applied, req, interrupted>>
  BY <1>1 DEF BootstrapSave, IInv, TypeOK, LocalsSet
<1>3. CASE Exists(AdminUsers) /\ e \notin db.users
  <2>1. PICK u : u = db.users \cup {e}
    OBVIOUS
  <2>2. PICK x : x = [tool[b] EXCEPT !.pc = "Assign"]
    OBVIOUS
  <2>3. db' = WithUsers(db, u) /\ ever' = ever \cup {e} /\ ToolBecomes(b, x)
    BY <1>1, <1>3, <2>1, <2>2 DEF BootstrapSave, WithUsers
  <2>4. x \in Tool /\ x = [pc |-> "Assign", email |-> e] /\ x.pc = "Assign" /\ x.email = e
    BY <1>1, <1>2, <2>2 DEF Tool
  <2>5. /\ tool' \in [Tools -> Tool] /\ tool'[b] = x
        /\ \A c \in Tools \ {b} : tool'[c] = tool[c]
    BY <2>3, <2>4, ToolStep DEF IInv
  <2>6. db \in Database /\ u \in SUBSET Emails
    BY <1>2, <2>1 DEF IInv, TypeOK, Database
  <2>7. /\ db' \in Database /\ SameCatalogue(db', db)
        /\ db'.users = u /\ db'.suspended = db.suspended /\ db'.userRoles = db.userRoles
    BY <2>3, <2>6, SavesUsers
  <2>8. TypeOK'
    BY <1>2, <2>3, <2>5, <2>7 DEF IInv, TypeOK
  <2>9. LocalsSet'
    BY <1>2, <2>4, <2>5 DEF IInv, LocalsSet
  <2>10. CatalogueApplied' /\ (Exists(AdminUserRoles)' <=> Exists(AdminUserRoles))
    BY <1>2, <2>7, RowsOnly
  <2>11. ASSUME Exists(AdminUserRoles)', NEW f \in db'.users
         PROVE  HasRole(f)'
    <3>1. CASE f = e
      BY <2>4, <2>5, <3>1 DEF HasRole
    <3>2. CASE f # e
      <4>1. HasRole(f)
        BY <2>1, <2>7, <2>10, <2>11, <3>2 DEF IInv, EveryAdminHasRole, HasRole
      <4>2. \A c \in Tools : tool[c] = [pc |-> "Assign", email |-> f] => c # b
        BY <1>2
      <4> QED
        BY <1>2, <2>5, <2>7, <4>1, <4>2 DEF HasRole
    <3> QED
      BY <3>1, <3>2
  <2>12. EveryAdminHasRole'
    BY <2>11 DEF EveryAdminHasRole, HasRole
  <2> QED
    BY <2>8, <2>9, <2>10, <2>12 DEF IInv
<1>4. CASE ~(Exists(AdminUsers) /\ e \notin db.users)
  <2>1. ToolBecomes(b, IdleTool) /\ UNCHANGED <<db, ever>>
    BY <1>1, <1>4 DEF BootstrapSave
  <2>2. /\ tool' \in [Tools -> Tool] /\ tool'[b].pc = "idle"
        /\ \A c \in Tools \ {b} : tool'[c] = tool[c]
    BY <2>1, ToolStep, IdleTypes DEF IInv
  <2>3. TypeOK' /\ LocalsSet' /\ CatalogueApplied'
    BY <1>2, <2>1, <2>2 DEF IInv, TypeOK, LocalsSet, CatalogueApplied
  <2>4. ASSUME NEW f \in db.users, HasRole(f)
        PROVE  HasRole(f)'
    <3>1. \A c \in Tools : tool[c] = [pc |-> "Assign", email |-> f] => c # b
      BY <1>2
    <3> QED
      BY <1>2, <2>1, <2>2, <2>4, <3>1 DEF HasRole
  <2>5. EveryAdminHasRole'
    BY <2>1, <2>4 DEF IInv, EveryAdminHasRole, HasRole, Exists
  <2> QED
    BY <2>3, <2>5 DEF IInv
<1> QED
  BY <1>3, <1>4

\* A command line that assigns the role, fails to or dies: the administrator has
\* the role or is interrupted.
LEMMA BootstrapEnds ==
  ASSUME IInv, NEW b \in Tools, ToolBecomes(b, IdleTool),
         db' \in Database, SameCatalogue(db', db), db'.users = db.users,
         db.userRoles \subseteq db'.userRoles,
         interrupted \subseteq interrupted', interrupted' \subseteq Emails,
         UNCHANGED <<applied, req, ever>>,
         tool[b].pc = "Assign" =>
           \/ [user |-> tool[b].email, role |-> "PLATFORM_ADMIN"] \in db'.userRoles
           \/ tool[b].email \in interrupted'
  PROVE  IInv'
<1>1. /\ tool' \in [Tools -> Tool] /\ tool'[b].pc = "idle"
      /\ \A c \in Tools \ {b} : tool'[c] = tool[c]
  BY ToolStep, IdleTypes DEF IInv
<1>2. TypeOK'
  BY <1>1 DEF IInv, TypeOK
<1>3. LocalsSet'
  BY <1>1 DEF IInv, LocalsSet
<1>4. CatalogueApplied' /\ (Exists(AdminUserRoles)' <=> Exists(AdminUserRoles))
  BY RowsOnly
<1>5. ASSUME NEW f \in db.users, HasRole(f)
      PROVE  HasRole(f)'
  <2>1. CASE tool[b] = [pc |-> "Assign", email |-> f]
    <3>1. tool[b].pc = "Assign" /\ tool[b].email = f
      BY <2>1
    <3> QED
      BY <3>1 DEF HasRole
  <2>2. CASE tool[b] # [pc |-> "Assign", email |-> f]
    BY <1>1, <1>5, <2>2 DEF HasRole
  <2> QED
    BY <2>1, <2>2
<1>6. EveryAdminHasRole'
  BY <1>4, <1>5 DEF IInv, EveryAdminHasRole, HasRole
<1> QED
  BY <1>2, <1>3, <1>4, <1>6 DEF IInv

LEMMA BootstrapAssignKeeps ==
  ASSUME IInv, NEW b \in Tools, BootstrapAssign(b)
  PROVE  IInv'
<1>1. PICK e : e = tool[b].email
  OBVIOUS
<1>2. /\ tool[b].pc = "Assign" /\ e \in Emails /\ db \in Database
      /\ interrupted \subseteq Emails
      /\ ToolBecomes(b, IdleTool) /\ UNCHANGED <<applied, req, ever>>
  BY <1>1 DEF BootstrapAssign, IInv, TypeOK, LocalsSet
<1>3. CASE Exists(AdminUserRoles) /\ e \in db.users /\ "PLATFORM_ADMIN" \in db.roles
  <2>1. PICK u : u = db.userRoles \cup {[user |-> e, role |-> "PLATFORM_ADMIN"]}
    OBVIOUS
  <2>2. u \in SUBSET [user : Emails, role : RoleCodes]
    BY <1>2, <2>1 DEF Database, RoleCodes
  <2>3. db' = WithUserRoles(db, u) /\ UNCHANGED interrupted
    BY <1>1, <1>3, <2>1 DEF BootstrapAssign, WithUserRoles
  <2>4. /\ db' \in Database /\ SameCatalogue(db', db)
        /\ db'.users = db.users /\ db'.userRoles = u
    BY <1>2, <2>2, <2>3, SavesUserRoles
  <2> QED
    BY <1>1, <1>2, <2>1, <2>3, <2>4, BootstrapEnds
<1>4. CASE ~(Exists(AdminUserRoles) /\ e \in db.users /\ "PLATFORM_ADMIN" \in db.roles)
  <2>1. interrupted' = interrupted \cup {e} /\ UNCHANGED db
    BY <1>1, <1>4 DEF BootstrapAssign
  <2>2. SameCatalogue(db', db)
    BY <2>1 DEF SameCatalogue
  <2> QED
    BY <1>1, <1>2, <2>1, <2>2, BootstrapEnds
<1> QED
  BY <1>3, <1>4

LEMMA ToolCrashKeeps ==
  ASSUME IInv, NEW b \in Tools, ToolCrash(b)
  PROVE  IInv'
<1>1. /\ tool[b].email \in Emails /\ interrupted \subseteq Emails /\ db \in Database
      /\ ToolBecomes(b, IdleTool) /\ UNCHANGED <<db, applied, req, ever>>
  BY DEF ToolCrash, IInv, TypeOK, LocalsSet
<1>2. /\ interrupted \subseteq interrupted' /\ interrupted' \subseteq Emails
      /\ tool[b].pc = "Assign" => tool[b].email \in interrupted'
  BY <1>1 DEF ToolCrash
<1>3. SameCatalogue(db', db)
  BY <1>1 DEF SameCatalogue
<1> QED
  BY <1>1, <1>2, <1>3, BootstrapEnds

\* Requests write nothing but their own locals.
LEMMA RequestKeeps ==
  ASSUME IInv, NEW r \in Requests, NEW x \in Request, RequestBecomes(r, x),
         UNCHANGED <<db, applied, tool, ever, interrupted>>,
         x.pc = "Resolve" => \E code \in PermissionCodes : x.route.needs = {code}
  PROVE  IInv'
<1>1. /\ req' \in [Requests -> Request] /\ req'[r] = x
      /\ \A q \in Requests \ {r} : req'[q] = req[q]
  BY RequestStep DEF IInv
<1>2. TypeOK' /\ LocalsSet'
  BY <1>1 DEF IInv, TypeOK, LocalsSet
<1>3. CatalogueApplied' /\ EveryAdminHasRole'
  BY DEF IInv, CatalogueApplied, EveryAdminHasRole, Exists
<1> QED
  BY <1>2, <1>3 DEF IInv

LEMMA RequestTokenKeeps ==
  ASSUME IInv, NEW r \in Requests, NEW route \in Routes, NEW e \in Emails,
         RequestToken(r, route, e)
  PROVE  IInv'
<1>1. PICK unauthorized : unauthorized = [IdleRequest EXCEPT !.pc = "Unauthorized"]
  OBVIOUS
<1>2. PICK passed : passed = [IdleRequest EXCEPT !.pc = "Run"]
  OBVIOUS
<1>3. PICK resolving : resolving = [pc |-> "Resolve", route |-> route, caller |-> e]
  OBVIOUS
<1>4. PICK x : x = IF ~SkipsAccessToken(route) /\ ~Verifies(e) THEN unauthorized
                   ELSE IF SkipsAuthorization(route) THEN passed ELSE resolving
  OBVIOUS
<1>5. RequestBecomes(r, x) /\ UNCHANGED <<db, applied, tool, ever, interrupted>>
  BY <1>1, <1>2, <1>3, <1>4 DEF RequestToken
<1>6. /\ unauthorized \in Request /\ unauthorized.pc = "Unauthorized"
      /\ passed \in Request /\ passed.pc = "Run"
  BY <1>1, <1>2, DecidedIs
<1>7. resolving \in Request /\ resolving.route = route
  BY <1>3 DEF Request
<1>8. x \in Request /\ (x.pc = "Resolve" => x.route = route /\ ~SkipsAuthorization(route))
  BY <1>4, <1>6, <1>7
<1>9. x.pc = "Resolve" => \E code \in PermissionCodes : x.route.needs = {code}
  BY <1>8, AdminRoutes DEF SkipsAuthorization
<1> QED
  BY <1>5, <1>8, <1>9, RequestKeeps

LEMMA RequestResolveIs ==
  ASSUME IInv, NEW r \in Requests, RequestResolve(r)
  PROVE  LET effective == Effective(req[r].caller)
             readable == {AdminUsers, AdminUserRoles, RolePermissionsTable} \subseteq db.tables
                           /\ effective \subseteq PermissionCodes
         IN \E x \in Request :
              /\ RequestBecomes(r, x) /\ req'[r] = x
              /\ UNCHANGED <<db, applied, tool, ever, interrupted>>
              /\ x.pc = IF ~readable THEN "Failed"
                        ELSE IF Authorized(req[r].route, effective) THEN "Run" ELSE "Forbidden"
<1> DEFINE effective == Effective(req[r].caller)
           readable == {AdminUsers, AdminUserRoles, RolePermissionsTable} \subseteq db.tables
                         /\ effective \subseteq PermissionCodes
<1>1. PICK pc : pc = IF readable THEN (IF Authorized(req[r].route, effective)
                                       THEN "Run" ELSE "Forbidden")
                                 ELSE "Failed"
  OBVIOUS
<1>2. PICK x : x = [IdleRequest EXCEPT !.pc = pc]
  OBVIOUS
<1>3. RequestBecomes(r, x) /\ UNCHANGED <<db, applied, tool, ever, interrupted>>
  BY <1>1, <1>2 DEF RequestResolve
<1>4. x \in Request /\ x.pc = pc
  BY <1>1, <1>2, DecidedIs
<1>5. req'[r] = x
  BY <1>3, <1>4, RequestStep DEF IInv
<1> QED
  BY <1>1, <1>3, <1>4, <1>5

LEMMA RequestResolveKeeps ==
  ASSUME IInv, NEW r \in Requests, RequestResolve(r)
  PROVE  IInv'
<1>1. PICK x \in Request : /\ RequestBecomes(r, x)
                           /\ UNCHANGED <<db, applied, tool, ever, interrupted>>
                           /\ x.pc # "Resolve"
  BY RequestResolveIs
<1> QED
  BY <1>1, RequestKeeps

LEMMA RequestAnswerKeeps ==
  ASSUME IInv, NEW r \in Requests, RequestAnswer(r)
  PROVE  IInv'
<1>1. PICK x : x = IdleRequest
  OBVIOUS
<1>2. x \in Request /\ x.pc = "idle"
  BY <1>1, IdleTypes
<1>3. RequestBecomes(r, x) /\ UNCHANGED <<db, applied, tool, ever, interrupted>>
  BY <1>1 DEF RequestAnswer
<1> QED
  BY <1>2, <1>3, RequestKeeps

LEMMA MigrationRunKeeps ==
  ASSUME IInv, MigrationRun
  PROVE  IInv'
<1>1. /\ applied \in 0..Latest /\ db \in Database /\ Sees(db, applied)
      /\ db' = Migrated(db, applied, Latest) /\ applied' = Latest
      /\ applied < Latest
      /\ interrupted' = IF applied < 3 THEN {} ELSE interrupted
      /\ UNCHANGED <<tool, req, ever>>
  BY Seen DEF MigrationRun, IInv, TypeOK
<1>2. RunSees(db, applied, Latest)
  BY <1>1, Runs DEF Latest
<1>3. /\ db' \in Database /\ Sees(db', Latest)
      /\ db'.users = db.users /\ db'.suspended = db.suspended
      /\ db'.userRoles = IF applied < 3 THEN Backfilled(db) ELSE db.userRoles
  BY <1>1, <1>2 DEF RunSees, Latest
<1>4. TypeOK'
  BY <1>1, <1>3 DEF IInv, TypeOK, Latest
<1>5. LocalsSet'
  BY <1>1 DEF IInv, LocalsSet
<1>6. CatalogueApplied'
  BY <1>1, <1>3, PartsAre DEF CatalogueApplied, Latest
<1>7. /\ applied \in Nat /\ tool' = tool
      /\ applied >= 3 => interrupted' = interrupted
  BY <1>1
<1>8. ASSUME NEW e \in db.users, Exists(AdminUserRoles)'
      PROVE  HasRole(e)'
  <2>1. CASE applied < 3
    <3>1. [user |-> e, role |-> "PLATFORM_ADMIN"] \in db'.userRoles
      BY <1>3, <2>1 DEF Backfilled
    <3> QED
      BY <3>1 DEF HasRole
  <2>2. CASE applied >= 3
    <3>1. Exists(AdminUserRoles)
      BY <2>2, RolesExist DEF IInv
    <3>2. HasRole(e)
      BY <3>1 DEF IInv, EveryAdminHasRole, HasRole
    <3>3. db'.userRoles = db.userRoles
      BY <1>3, <1>7, <2>2
    <3> QED
      BY <1>7, <2>2, <3>2, <3>3 DEF HasRole
  <2> QED
    BY <1>7, <2>1, <2>2
<1>9. EveryAdminHasRole'
  BY <1>3, <1>8 DEF EveryAdminHasRole, HasRole
<1> QED
  BY <1>4, <1>5, <1>6, <1>9 DEF IInv

LEMMA MigrationRevertKeeps ==
  ASSUME IInv, MigrationRevert
  PROVE  IInv'
<1>1. /\ applied \in 1..8 /\ db \in Database /\ Sees(db, applied)
      /\ db' = Down(applied, db) /\ applied' = applied - 1
      /\ UNCHANGED <<tool, req, ever, interrupted>>
  BY Seen DEF MigrationRevert, IInv, TypeOK, Latest
<1>2. applied \in 1..8 /\ tool' = tool /\ interrupted' = interrupted
  BY <1>1
<1>3. db' \in Database /\ Sees(db', applied - 1) /\ RowsDown(db', applied, db)
  BY <1>1, DownSees
<1>4. TypeOK'
  BY <1>1, <1>3 DEF IInv, TypeOK, Latest
<1>5. LocalsSet'
  BY <1>1 DEF IInv, LocalsSet
<1>6. CatalogueApplied'
  BY <1>1, <1>3, PartsAre DEF CatalogueApplied, Latest
<1>7. ASSUME Exists(AdminUserRoles)'
      PROVE  \A e \in db'.users : HasRole(e)'
  <2>1. AdminUserRoles \in TablesAt(applied - 1)
    BY <1>3, <1>7 DEF Exists, Sees
  <2>2. applied > 3
    BY <1>1, <2>1, RolesTable DEF Latest
  <2>3. Exists(AdminUserRoles)
    BY <1>2, <2>2, RolesExist DEF IInv
  <2>4. db'.users = db.users /\ db'.userRoles = db.userRoles
    BY <1>2, <1>3, <2>2 DEF RowsDown
  <2>5. \A e \in db.users : HasRole(e)
    BY <2>3 DEF IInv, EveryAdminHasRole, HasRole
  <2> QED
    BY <1>2, <2>4, <2>5 DEF HasRole
<1>8. EveryAdminHasRole'
  BY <1>7 DEF EveryAdminHasRole, HasRole
<1> QED
  BY <1>4, <1>5, <1>6, <1>8 DEF IInv

LEMMA SuspendKeeps ==
  ASSUME IInv, NEW e \in Emails, Suspend(e)
  PROVE  IInv'
<1>1. PICK u : u = db.suspended \cup {e}
  OBVIOUS
<1>2. /\ db \in Database /\ u \in SUBSET Emails
      /\ db' = WithSuspended(db, u) /\ UNCHANGED <<applied, tool, req, ever, interrupted>>
  BY <1>1 DEF Suspend, WithSuspended, IInv, TypeOK, Database
<1>3. /\ db' \in Database /\ SameCatalogue(db', db)
      /\ db'.users = db.users /\ db'.userRoles = db.userRoles
  BY <1>2, SavesSuspended
<1>4. CatalogueApplied' /\ (Exists(AdminUserRoles)' <=> Exists(AdminUserRoles))
  BY <1>2, <1>3, RowsOnly
<1>5. TypeOK' /\ LocalsSet'
  BY <1>2, <1>3 DEF IInv, TypeOK, LocalsSet
<1>6. EveryAdminHasRole'
  BY <1>2, <1>3, <1>4 DEF IInv, EveryAdminHasRole
<1> QED
  BY <1>4, <1>5, <1>6 DEF IInv

-----------------------------------------------------------------------------
(* The inductive invariant. *)

LEMMA InitEstablishes == Init => IInv
<1> SUFFICES ASSUME Init PROVE IInv
  OBVIOUS
<1>1. applied \in 0..Latest /\ db \in Database /\ db.users = {}
  BY AppliedIs DEF Init
<1>2. TypeOK
  <2>1. tool \in [Tools -> Tool] /\ req \in [Requests -> Request]
    BY IdleTypes DEF Init
  <2> QED
    BY <1>1, <2>1 DEF Init, TypeOK
<1>3. LocalsSet
  BY IdleTypes DEF Init, LocalsSet
<1>4. CatalogueApplied
  BY DEF Init, CatalogueApplied
<1>5. EveryAdminHasRole
  BY <1>1 DEF EveryAdminHasRole
<1> QED
  BY <1>2, <1>3, <1>4, <1>5 DEF IInv

LEMMA StepKeeps == IInv /\ [Next]_vars => IInv'
<1> SUFFICES ASSUME IInv, [Next]_vars PROVE IInv'
  OBVIOUS
<1>1. CASE \E b \in Tools : \/ \E e \in Emails : BootstrapCheck(b, e)
                            \/ BootstrapSave(b)
                            \/ BootstrapAssign(b)
                            \/ ToolCrash(b)
  BY <1>1, BootstrapCheckKeeps, BootstrapSaveKeeps, BootstrapAssignKeeps, ToolCrashKeeps
<1>2. CASE \E r \in Requests : \/ \E route \in Routes, e \in Emails : RequestToken(r, route, e)
                               \/ RequestResolve(r)
                               \/ RequestAnswer(r)
  BY <1>2, RequestTokenKeeps, RequestResolveKeeps, RequestAnswerKeeps
<1>3. CASE MigrationRun
  BY <1>3, MigrationRunKeeps
<1>4. CASE MigrationRevert
  BY <1>4, MigrationRevertKeeps
<1>5. CASE \E e \in Emails : Suspend(e)
  BY <1>5, SuspendKeeps
<1>6. CASE UNCHANGED vars
  BY <1>6 DEF vars, IInv, TypeOK, LocalsSet, CatalogueApplied, EveryAdminHasRole, Exists
<1> QED
  BY <1>1, <1>2, <1>3, <1>4, <1>5, <1>6 DEF Next

LEMMA Invariance == Spec => []IInv
  BY InitEstablishes, StepKeeps, PTL DEF Spec

-----------------------------------------------------------------------------
(* What the catalogue is after the last migration. *)

LEMMA GrantedIs ==
  ASSUME NEW role, NEW codes, NEW r, NEW c
  PROVE  [role |-> r, permission |-> c] \in Granted(role, codes) <=> r = role /\ c \in codes
  BY DEF Granted

LEMMA RolePermissionsAre ==
  /\ RolePermissions["PLATFORM_VIEWER"]
       = {"customers.read", "licenses.read", "installations.read"}
  /\ RolePermissions["PLATFORM_OPERATOR"]
       = PermissionCodes \ {"licenses.entitlements.manage", "installations.credentials.manage"}
  /\ RolePermissions["PLATFORM_ADMIN"] = PermissionCodes
  BY DEF RolePermissions

\* No migration grants more than the code declares.
LEMMA GrantsWithin ==
  ASSUME NEW n, NEW r \in RoleCodes, NEW c, [role |-> r, permission |-> c] \in GrantsAt(n)
  PROVE  c \in RolePermissions[r]
<1>1. \/ [role |-> r, permission |-> c] \in FirstGrants
      \/ [role |-> r, permission |-> c] \in EnrollmentGrants
      \/ [role |-> r, permission |-> c] \in AuditGrants
  BY DEF GrantsAt, At
<1>2. CASE [role |-> r, permission |-> c] \in FirstGrants
  BY <1>2, GrantedIs, RolePermissionsAre DEF FirstGrants, FirstPermissions, PermissionCodes
<1>3. CASE [role |-> r, permission |-> c] \in EnrollmentGrants
  BY <1>3, GrantedIs, RolePermissionsAre
     DEF EnrollmentGrants, EnrollmentPermissions, PermissionCodes
<1>4. CASE [role |-> r, permission |-> c] \in AuditGrants
  BY <1>4, GrantedIs, RolePermissionsAre DEF AuditGrants, PermissionCodes
<1> QED
  BY <1>1, <1>2, <1>3, <1>4

\* All of them together grant all of it.
LEMMA GrantsComplete ==
  ASSUME NEW r \in RoleCodes, NEW c \in RolePermissions[r]
  PROVE  [role |-> r, permission |-> c] \in GrantsAt(Latest)
<1>1. GrantsAt(Latest) = FirstGrants \cup EnrollmentGrants \cup AuditGrants
  BY DEF GrantsAt, At, Latest
<1>2. CASE r = "PLATFORM_VIEWER"
  BY <1>1, <1>2, GrantedIs, RolePermissionsAre DEF FirstGrants
<1>3. CASE r = "PLATFORM_OPERATOR"
  BY <1>1, <1>3, GrantedIs, RolePermissionsAre
     DEF FirstGrants, EnrollmentGrants, AuditGrants, PermissionCodes
<1>4. CASE r = "PLATFORM_ADMIN"
  BY <1>1, <1>4, GrantedIs, RolePermissionsAre
     DEF FirstGrants, FirstPermissions, EnrollmentGrants, EnrollmentPermissions, AuditGrants,
         PermissionCodes
<1> QED
  BY <1>2, <1>3, <1>4 DEF RoleCodes

LEMMA GrantIsPair ==
  ASSUME NEW n, NEW g \in GrantsAt(n)
  PROVE  /\ g \in Grants
         /\ g = [role |-> g.role, permission |-> g.permission]
<1>1. g \in Grants
  BY MadeTypes DEF GrantsAt, At
<1> QED
  BY <1>1 DEF Grants

LEMMA LatestCatalogue ==
  /\ TablesAt(Latest) = EntityTables
  /\ PermissionsAt(Latest) = PermissionCodes
  /\ GrantsAt(Latest) = UNION {Granted(role, RolePermissions[role]) : role \in RoleCodes}
<1>1. TablesAt(Latest) = EntityTables
  BY DEF TablesAt, At, Latest, EntityTables
<1>2. PermissionsAt(Latest) = PermissionCodes
  <2>1. PermissionsAt(Latest) = FirstPermissions \cup EnrollmentPermissions \cup {"audit.read"}
    BY DEF PermissionsAt, At, Latest
  <2> QED
    BY <2>1 DEF FirstPermissions, EnrollmentPermissions, PermissionCodes
<1>3. ASSUME NEW g \in GrantsAt(Latest)
      PROVE  g \in UNION {Granted(role, RolePermissions[role]) : role \in RoleCodes}
  <2>1. g.role \in RoleCodes /\ g = [role |-> g.role, permission |-> g.permission]
    BY GrantIsPair DEF Grants
  <2>2. g.permission \in RolePermissions[g.role]
    BY <1>3, <2>1, GrantsWithin
  <2>3. g \in Granted(g.role, RolePermissions[g.role])
    BY <2>1, <2>2, GrantedIs
  <2> QED
    BY <2>1, <2>3
<1>4. ASSUME NEW role \in RoleCodes, NEW g \in Granted(role, RolePermissions[role])
      PROVE  g \in GrantsAt(Latest)
  <2>1. PICK c \in RolePermissions[role] : g = [role |-> role, permission |-> c]
    BY <1>4 DEF Granted
  <2> QED
    BY <2>1, GrantsComplete
<1> QED
  BY <1>1, <1>2, <1>3, <1>4

\* What a schema holds is dropped before the schema is.
LEMMA SchemasEmpty ==
  ASSUME IInv
  PROVE  RevertSucceeds
<1>1. db \in Database /\ db.tables = TablesAt(applied)
  BY Seen DEF IInv, TypeOK, Sees
<1>2. /\ \A t \in CoreTables : t.schema \in CoreSchemas
      /\ \A t \in AuthTables : t.schema = "access_management"
      /\ \A t \in RbacTables : t.schema = "access_management"
      /\ \A t \in EnrollmentTables : t.schema = "installations"
      /\ "installations" \in CoreSchemas /\ "installations" \notin {"access_management", "audit"}
  BY DEF CoreTables, CoreSchemas, AuthTables, AdminUsers, RbacTables, RolePermissionsTable,
         AdminUserRoles, EnrollmentTables, Table
<1>3. ASSUME NEW tables
      PROVE  WithoutTables(db, tables).tables = db.tables \ tables
  BY <1>1, DropsTables
<1>4. applied = 1 => Droppable(WithoutTables(db, CoreTables), CoreSchemas)
  <2>1. TablesAt(1) = CoreTables
    BY DEF TablesAt, At
  <2> QED
    BY <1>1, <1>3, <2>1 DEF Droppable
<1>5. applied = 2 => Droppable(WithoutTables(db, AuthTables), {"access_management"})
  <2>1. TablesAt(2) = CoreTables \cup AuthTables
    BY DEF TablesAt, At
  <2> QED
    BY <1>1, <1>2, <1>3, <2>1, NothingTwice DEF Droppable
<1>6. applied = 6 => Droppable(WithoutTables(db, AuditTables), {"audit"})
  <2>1. TablesAt(6) = CoreTables \cup AuthTables \cup RbacTables \cup EnrollmentTables
                      \cup AuditTables
    BY DEF TablesAt, At
  <2> QED
    BY <1>1, <1>2, <1>3, <2>1, NothingTwice DEF Droppable
<1> QED
  BY <1>4, <1>5, <1>6 DEF RevertSucceeds

-----------------------------------------------------------------------------
(* The theorems. *)

\* Every variable keeps its type: the rows the migrations and the bootstraps
\* write are rows of the catalogue of permission.ts and admin-role.ts.
THEOREM TypeCorrect == Spec => []TypeOK
  BY Invariance, PTL DEF IInv

\* However migration:run and migration:revert alternate, with administrators
\* being created and suspended meanwhile, the catalogue is that of the applied
\* migrations, no DROP SCHEMA fails, and the last one leaves what permission.ts
\* and admin-role.ts declare.
THEOREM CatalogueKept == Spec => []CatalogueInStep
<1>1. IInv => CatalogueInStep
  <2> SUFFICES ASSUME IInv PROVE CatalogueInStep
    OBVIOUS
  <2>1. \A part \in Parts : db[part] = AfterMigration[applied][part]
    BY DEF IInv, CatalogueApplied
  <2>2. RevertSucceeds
    BY SchemasEmpty
  <2>3. applied = Latest => /\ db.tables = EntityTables
                            /\ db.permissions = PermissionCodes
                            /\ db.grants = UNION {Granted(role, RolePermissions[role]) :
                                                    role \in RoleCodes}
    BY Seen, LatestCatalogue DEF IInv, Sees
  <2> QED
    BY <2>1, <2>2, <2>3 DEF CatalogueInStep
<1> QED
  BY <1>1, Invariance, PTL

\* Whatever number of bootstraps race each other, crash, or meet a migration,
\* where there are roles no administrator lacks PLATFORM_ADMIN but one whose
\* bootstrap is between its two transactions or was cut off there.
THEOREM RoleForEveryAdmin == Spec => []EveryAdminHasRole
  BY Invariance, PTL DEF IInv

\* What AdminAuthorizationGuard answers is what the rows say at that moment.
LEMMA GuardDecides ==
  ASSUME IInv, NEW r \in Requests, RequestResolve(r)
  PROVE  LET roles == {role \in RoleCodes : [user |-> req[r].caller, role |-> role] \in db.userRoles}
             active == req[r].caller \in db.users \ db.suspended
         IN /\ req'[r].pc = "Run" =>
                 active /\ \E role \in roles : req[r].route.needs \subseteq RolePermissions[role]
            /\ applied = Latest => req'[r].pc # "Failed"
            /\ active /\ "PLATFORM_ADMIN" \in roles /\ applied = Latest =>
                 req'[r].pc = "Run"
<1>1. PICK e : e = req[r].caller
  OBVIOUS
<1>2. PICK effective : effective = Effective(e)
  OBVIOUS
<1>3. PICK readable : readable = (/\ {AdminUsers, AdminUserRoles, RolePermissionsTable} \subseteq db.tables
                                  /\ effective \subseteq PermissionCodes)
  OBVIOUS
<1>4. req'[r].pc = IF ~readable THEN "Failed"
                   ELSE IF Authorized(req[r].route, effective) THEN "Run" ELSE "Forbidden"
  BY <1>1, <1>2, <1>3, RequestResolveIs
<1>5. PICK code \in PermissionCodes : req[r].route.needs = {code}
  BY DEF RequestResolve, IInv, LocalsSet
<1>6. Authorized(req[r].route, effective) <=> code \in effective
  BY <1>5 DEF Authorized
<1>7. db \in Database /\ Sees(db, applied) /\ applied \in 0..Latest
  BY Seen DEF IInv, TypeOK
<1>8. \A g \in db.grants : g \in Grants /\ g = [role |-> g.role, permission |-> g.permission]
  BY <1>7, GrantIsPair DEF Sees
<1>9. \A c : c \in effective <=>
        /\ e \in db.users \ db.suspended
        /\ \E g \in db.grants : g.permission = c /\ [user |-> e, role |-> g.role] \in db.userRoles
  BY <1>2 DEF Effective
<1>10. ASSUME req'[r].pc = "Run"
       PROVE  /\ e \in db.users \ db.suspended
              /\ \E role \in RoleCodes : /\ [user |-> e, role |-> role] \in db.userRoles
                                         /\ req[r].route.needs \subseteq RolePermissions[role]
  <2>1. code \in effective
    BY <1>4, <1>6, <1>10
  <2>2. PICK g \in db.grants : g.permission = code /\ [user |-> e, role |-> g.role] \in db.userRoles
    BY <1>9, <2>1
  <2>3. g.role \in RoleCodes /\ [role |-> g.role, permission |-> code] \in GrantsAt(applied)
    BY <1>7, <1>8, <2>2 DEF Grants, Sees
  <2>4. code \in RolePermissions[g.role]
    BY <2>3, GrantsWithin
  <2> QED
    BY <1>5, <1>9, <2>1, <2>2, <2>3, <2>4
<1>11. ASSUME applied = Latest
       PROVE  readable
  <2>1. {AdminUsers, AdminUserRoles, RolePermissionsTable} \subseteq EntityTables
    BY DEF EntityTables, AuthTables, RbacTables
  <2>2. ASSUME NEW c \in effective
        PROVE  c \in PermissionCodes
    <3>1. PICK g \in db.grants : g.permission = c
      BY <1>9
    <3> QED
      BY <1>8, <3>1 DEF Grants
  <2> QED
    BY <1>3, <1>7, <1>11, <2>1, <2>2, LatestCatalogue DEF Sees
<1>12. ASSUME e \in db.users \ db.suspended, applied = Latest,
              [user |-> e, role |-> "PLATFORM_ADMIN"] \in db.userRoles
       PROVE  code \in effective
  <2>1. PICK g : g = [role |-> "PLATFORM_ADMIN", permission |-> code]
    OBVIOUS
  <2>2. "PLATFORM_ADMIN" \in RoleCodes /\ code \in RolePermissions["PLATFORM_ADMIN"]
    BY RolePermissionsAre DEF RoleCodes
  <2>3. g \in db.grants
    BY <1>7, <1>12, <2>1, <2>2, GrantsComplete DEF Sees
  <2> QED
    BY <1>9, <1>12, <2>1, <2>3
<1>13. applied = Latest => req'[r].pc # "Failed"
  BY <1>4, <1>11
<1>14. e \in db.users \ db.suspended /\ applied = Latest
         /\ [user |-> e, role |-> "PLATFORM_ADMIN"] \in db.userRoles => req'[r].pc = "Run"
  BY <1>4, <1>6, <1>11, <1>12
<1> QED
  BY <1>1, <1>10, <1>13, <1>14

\* Only the guard takes a request out of Resolve.
LEMMA ResolveEnds ==
  ASSUME IInv, [Next]_vars, NEW r \in Requests, req[r].pc = "Resolve", req'[r].pc # "Resolve"
  PROVE  RequestResolve(r)
<1>1. req' # req
  OBVIOUS
<1>2. PICK q \in Requests : \/ \E route \in Routes, e \in Emails : RequestToken(q, route, e)
                            \/ RequestResolve(q)
                            \/ RequestAnswer(q)
  BY <1>1 DEF Next, vars, BootstrapCheck, BootstrapSave, BootstrapAssign, ToolCrash,
              MigrationRun, MigrationRevert, Suspend
<1>3. \E x : RequestBecomes(q, x)
  BY <1>2 DEF RequestToken, RequestResolve, RequestAnswer
<1>4. q = r
  BY <1>3 DEF RequestBecomes, IInv, TypeOK
<1> QED
  BY <1>2, <1>4 DEF RequestToken, RequestAnswer

\* For any number of requests, administrators and routes: nothing gets past the
\* guard without a role that lists what the route needs at that moment, and with
\* every migration applied nothing fails and PLATFORM_ADMIN gets everywhere.
THEOREM GuardFollowsRoles == Spec => RolesDecide
<1> DEFINE Decides ==
      \A r \in Requests : req[r].pc = "Resolve" /\ req'[r].pc # "Resolve" =>
        LET roles == {role \in RoleCodes : [user |-> req[r].caller, role |-> role] \in db.userRoles}
            active == req[r].caller \in db.users \ db.suspended
        IN /\ req'[r].pc = "Run" =>
                active /\ \E role \in roles : req[r].route.needs \subseteq RolePermissions[role]
           /\ applied = Latest => req'[r].pc # "Failed"
           /\ active /\ "PLATFORM_ADMIN" \in roles /\ applied = Latest =>
                req'[r].pc = "Run"
<1>1. IInv /\ [Next]_vars => [Decides]_vars
  BY ResolveEnds, GuardDecides
<1> QED
  BY <1>1, Invariance, PTL DEF Spec, RolesDecide

=================================================================================
