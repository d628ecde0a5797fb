SPECIFICATION Spec
SYMMETRY Symmetry
CONSTANTS
  Licenses = {l1}
  LicenseNumbers = {n1}
  Codes = {c1, c2}
  Requests = {r1, r2}
  Puts = {p1, p2, p3}
  NoLicense = NoLicense
  NoNumber = NoNumber
PROPERTIES
  ReplaceIsWholesale
