SPECIFICATION FairSpec
CONSTANTS
  MaxSession = 3
  Users = {u1}
  Requests = {r1, r2}
  NoUser = NoUser
  NoOne = NoOne
PROPERTY Answered
