SPECIFICATION Spec
CONSTANTS
  small = small
  large = large
  Licenses = {small, large}
  MaxInstallations <- Capacities
  NoLicense = NoLicense
  NoCode = NoCode
  NoId = NoId
  NoOne = NoOne
  Ids = {i1, i2}
  InstallationCodes = {c1, c2}
  Targets = {"SUSPENDED", "DECOMMISSIONED"}
  Requests = {r1, r2}
INVARIANT WithinCapacity
