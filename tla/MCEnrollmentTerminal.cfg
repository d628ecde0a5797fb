SPECIFICATION Spec
CONSTANTS
  Installations = {i1}
  Codes = {c1}
  Credentials = {k1}
  Requests = {r1, r2}
  Endpoints = {"issue", "enroll", "change"}
  NoInstallation = NoInstallation
  NoCode = NoCode
  NoCredential = NoCredential
  NoOne = NoOne
PROPERTY DecommissionedIsTerminal
