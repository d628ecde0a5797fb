SPECIFICATION MCSpec
CONSTANTS
  Admins = {a1}
  Requests = {r1, r2}
  MaxFailedLoginAttempts = 3
  LockDuration = 2
  MaxTime = 4
  MaxLogins = 6
  NoAdmin = NoAdmin
  Emails = {e1, e2}
  Tools = {b1, b2}
  Callers = {q1}
  NoEmail = NoEmail
SYMMETRY Symmetry
INVARIANTS TypesOK LockedByFailures CountedExactly CatalogueInStep EveryAdminHasRole
PROPERTIES RolesDecide
CHECK_DEADLOCK FALSE
