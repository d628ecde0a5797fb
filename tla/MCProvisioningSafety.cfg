SPECIFICATION FairSpec
CONSTANTS
  small = small
  large = large
  Licenses = {small, large}
  MaxInstallations <- Capacities
  NoLicense = NoLicense
  NoCode = NoCode
  NoId = NoId
  NoOne = NoOne
  Ids = {i1, i2, i3}
  InstallationCodes = {c1, c2}
  Targets = {"DECOMMISSIONED"}
  Requests = {r1, r2}
INVARIANTS
  TypeOK
  WithinCapacity
  CodeNamesOne
PROPERTIES
  ImplementsContract
  Answered
