SPECIFICATION Spec
CONSTANTS
  Installations = {i1}
  Codes = {c1, c2, c3}
  Credentials = {k1, k2, k3}
  Requests = {r1, r2}
  Endpoints = {"issue", "enroll", "change", "revoke"}
  NoInstallation = NoInstallation
  NoCode = NoCode
  NoCredential = NoCredential
  NoOne = NoOne
SYMMETRY Symmetry
INVARIANTS
  TypeOK
  OneActiveCredential
  CodeBuysOneCredential
  CodesInOrder
  OperatesAfterEnrollment
  AuditTruthful
  DeadlockFree
PROPERTIES
  CredentialWhileOperating
  ActivationByEnrollment
