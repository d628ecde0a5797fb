SPECIFICATION FairSpec
CONSTANTS
  Installations = {i1, i2}
  Codes = {c1, c2}
  Credentials = {k1, k2}
  Requests = {r1, r2}
  Endpoints = {"issue", "enroll", "revoke"}
  NoInstallation = NoInstallation
  NoCode = NoCode
  NoCredential = NoCredential
  NoOne = NoOne
PROPERTIES
  ImplementsContract
  Answered
