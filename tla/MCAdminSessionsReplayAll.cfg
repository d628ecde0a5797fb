SPECIFICATION Spec
CONSTANTS
  MaxSession = 4
  Users = {u1}
  Requests = {r1, r2}
  NoUser = NoUser
  NoOne = NoOne
PROPERTY ReplayEndsAll
