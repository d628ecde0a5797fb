SPECIFICATION FairSpec
CONSTANTS
  Licenses = {l1, l2}
  LicenseNumbers = {n1}
  Codes = {c1}
  Requests = {r1, r2}
  Puts = {p1, p2}
  NoLicense = NoLicense
  NoNumber = NoNumber
INVARIANTS
  TypeOK
  NumberNamesOne
  CodeOnce
PROPERTIES
  AloneIsExact
  Answered
