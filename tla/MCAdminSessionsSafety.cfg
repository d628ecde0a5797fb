SPECIFICATION Spec
CONSTANTS
  MaxSession = 3
  Users = {u1, u2}
  Requests = {r1, r2}
  NoUser = NoUser
  NoOne = NoOne
SYMMETRY Symmetry
INVARIANTS
  TypeOK
  OneLiveToken
PROPERTIES
  ReplayEndsSeen
  EndsForCause
  ImplementsContract
