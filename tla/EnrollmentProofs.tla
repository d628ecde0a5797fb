-------------------------- MODULE EnrollmentProofs --------------------------
(***************************************************************************)
(* Theorems about Enrollment, for every set of Installations, codes,       *)
(* credentials, requests and endpoints.                                    *)
(***************************************************************************)
EXTENDS EnrollmentInv, TLAPS

USE NoneAssumption

(* Types.                                                                  *)

LEMMA IdleType == Idle \in Request /\ Fits(Idle)
  BY DEF Idle, Request, PCs, NewInstallation, InstallationRow, Statuses,
         Purposes, AuditActions, Fits, Issuing, Enrolling

LEMMA ToAuditType ==
  ASSUME Typed, NEW r \in Requests, req[r].pc # "idle", NEW act \in AuditActions
  PROVE  ToAudit(r, act) \in Request /\ Fits(ToAudit(r, act))
<1>1. req[r].inst \in Installations
  BY DEF Typed, LocalsSet, Fits
<1> QED
  BY <1>1 DEF ToAudit, Idle, Request, PCs, NewInstallation, InstallationRow,
       Statuses, Purposes, AuditActions, Fits, Issuing, Enrolling

LEMMA BecomesType ==
  ASSUME Typed, NEW r \in Requests, NEW x \in Request, Fits(x), Becomes(r, x)
  PROVE  req' \in [Requests -> Request] /\ LocalsSet'
<1>1. req' \in [Requests -> Request]
  BY DEF Typed, TypeOK, Becomes
<1>2. \A q \in Requests : req'[q] = x \/ req'[q] = req[q]
  BY DEF Typed, TypeOK, Becomes
<1>3. \A q \in Requests : Fits(req'[q])
  BY <1>2 DEF Typed, LocalsSet
<1> QED
  BY <1>1, <1>3 DEF LocalsSet

LEMMA ReleasedType ==
  ASSUME Typed, NEW r \in Requests
  PROVE  Released(r) \in [Rows -> Requests \cup {NoOne}]
  BY DEF Typed, TypeOK, Released

LEMMA AcquireType ==
  ASSUME Typed, NEW r \in Requests, NEW x, Acquire(x, r)
  PROVE  lock' \in [Rows -> Requests \cup {NoOne}]
  BY DEF Typed, TypeOK, Acquire

LEMMA RollbackType ==
  ASSUME Typed, NEW r \in Requests, Rollback(r)
  PROVE  Typed'
  BY IdleType, ReleasedType, BecomesType DEF Typed, TypeOK, Rollback

LEMMA InitType == Init => Typed
  BY IdleType DEF Init, Typed, TypeOK, LocalsSet, NewInstallation, InstallationRow,
       Statuses, UnusedCode, EnrollmentRow, Purposes, UnusedCredential,
       CredentialRow, NoAudit, AuditEvent, NoEvent, AuditActions

LEMMA NextType == Typed /\ [Next]_vars => Typed'
<1> SUFFICES ASSUME Typed, [Next]_vars PROVE Typed'
  OBVIOUS
<1>1. ASSUME NEW r \in Requests, NEW i \in Installations, NEW p \in Purposes,
             NEW c \in Codes, IssueRequest(r, i, p, c)
      PROVE  Typed'
  <2> DEFINE x == [Idle EXCEPT !.pc = "IssueLock", !.inst = i, !.purpose = p,
                               !.code = c]
  <2>1. x \in Request
    BY IdleType DEF Request, PCs
  <2>2. Fits(x)
    BY DEF Fits, Idle, Issuing, Enrolling
  <2> QED
    BY <1>1, <2>2, <2>1, BecomesType DEF IssueRequest, Typed, TypeOK
<1>2. ASSUME NEW r \in Requests, IssueLock(r)
      PROVE  Typed'
  <2> DEFINE x == [req[r] EXCEPT !.pc = "IssueFind"]
  <2>1. CASE Rollback(r)
    BY <2>1, RollbackType
  <2>2. CASE ~Rollback(r)
    <3>1. x \in Request /\ Fits(x)
      BY <1>2 DEF IssueLock, Typed, TypeOK, LocalsSet, Request, PCs, Fits, Issuing, Enrolling
    <3> QED
      BY <1>2, <2>2, <3>1, BecomesType, AcquireType DEF IssueLock, Typed, TypeOK
  <2> QED
    BY <2>1, <2>2
<1>3. ASSUME NEW r \in Requests, IssueFind(r)
      PROVE  Typed'
  <2>1. CASE Becomes(r, [req[r] EXCEPT !.pc = "IssueCommit"])
    <3>1. [req[r] EXCEPT !.pc = "IssueCommit"] \in Request
      BY DEF Typed, TypeOK, Request, PCs
    <3>2. Fits([req[r] EXCEPT !.pc = "IssueCommit"])
      BY <1>3 DEF IssueFind, Typed, TypeOK, LocalsSet, Request, Fits, Issuing, Enrolling
    <3> QED
      BY <1>3, <2>1, <3>1, <3>2, BecomesType DEF IssueFind, Typed, TypeOK
  <2>2. ASSUME NEW c \in Codes,
               Becomes(r, [req[r] EXCEPT !.pc = "IssueRevoke", !.prior = c])
        PROVE  Typed'
    <3>0. req[r] \in Request
      BY DEF Typed, TypeOK
    <3>1. [req[r] EXCEPT !.pc = "IssueRevoke", !.prior = c] \in Request
      BY <3>0 DEF Request, PCs
    <3>2. Fits([req[r] EXCEPT !.pc = "IssueRevoke", !.prior = c])
      BY <1>3 DEF IssueFind, Typed, TypeOK, LocalsSet, Request, Fits, Issuing, Enrolling
    <3> QED
      BY <1>3, <2>2, <3>1, <3>2, BecomesType DEF IssueFind, Typed, TypeOK
  <2> QED
    BY <1>3, <2>1, <2>2 DEF IssueFind
<1>4. ASSUME NEW r \in Requests, IssueRevoke(r)
      PROVE  Typed'
  <2> DEFINE x == [req[r] EXCEPT !.pc = "IssueCommit"]
  <2>1. x \in Request /\ Fits(x)
    BY <1>4 DEF IssueRevoke, Typed, TypeOK, LocalsSet, Request, PCs, Fits, Issuing, Enrolling
  <2> QED
    BY <1>4, <2>1, BecomesType, AcquireType DEF IssueRevoke, Typed, TypeOK
<1>5. ASSUME NEW r \in Requests, IssueCommit(r)
      PROVE  Typed'
  <2>1. [UnusedCode EXCEPT !.installation = req[r].inst, !.purpose = req[r].purpose]
          \in EnrollmentRow
    BY DEF UnusedCode, EnrollmentRow, Typed, TypeOK, Request, Purposes
  <2>2. enrollments' \in [Codes -> EnrollmentRow]
    BY <1>5, <2>1 DEF IssueCommit, Typed, TypeOK, EnrollmentRow
  <2>3. ToAudit(r, "ENROLLMENT_ISSUED") \in Request /\ Fits(ToAudit(r, "ENROLLMENT_ISSUED"))
    BY <1>5, ToAuditType DEF IssueCommit, AuditActions
  <2> QED
    BY <1>5, <2>2, <2>3, BecomesType, ReleasedType DEF IssueCommit, Typed, TypeOK
<1>6. ASSUME NEW r \in Requests, NEW c \in Codes, EnrollRequest(r, c)
      PROVE  Typed'
  <2> DEFINE x == [Idle EXCEPT !.pc = "EnrollLock", !.code = c,
                               !.inst = enrollments[c].installation]
  <2>1. enrollments[c].installation \in Installations
    BY <1>6 DEF EnrollRequest, Issued, Typed, TypeOK, EnrollmentRow
  <2>2. x \in Request
    BY IdleType, <2>1 DEF Request, PCs
  <2>3. Fits(x)
    BY <2>1 DEF Idle, Fits, Issuing, Enrolling
  <2> QED
    BY <1>6, <2>2, <2>3, BecomesType DEF EnrollRequest, Typed, TypeOK
<1>7. ASSUME NEW r \in Requests, EnrollLock(r)
      PROVE  Typed'
  <2>1. installations[req[r].inst] \in InstallationRow
    BY <1>7 DEF EnrollLock, Typed, TypeOK, LocalsSet, Fits
  <2>2. ASSUME NEW row \in InstallationRow
        PROVE  /\ [req[r] EXCEPT !.pc = "EnrollVerify", !.row = row] \in Request
               /\ Fits([req[r] EXCEPT !.pc = "EnrollVerify", !.row = row])
    BY <1>7 DEF EnrollLock, Typed, TypeOK, LocalsSet, Request, PCs, Fits, Issuing, Enrolling
  <2> QED
    BY <1>7, <2>1, <2>2, BecomesType, AcquireType DEF EnrollLock, Typed, TypeOK
<1>8. ASSUME NEW r \in Requests, EnrollVerify(r)
      PROVE  Typed'
  <2> DEFINE x == [req[r] EXCEPT !.pc = "EnrollReaders"]
  <2>1. CASE Rollback(r)
    BY <2>1, RollbackType
  <2>2. CASE ~Rollback(r)
    <3>1. x \in Request /\ Fits(x)
      BY <1>8 DEF EnrollVerify, Typed, TypeOK, LocalsSet, Request, PCs, Fits, Issuing, Enrolling
    <3> QED
      BY <1>8, <2>2, <3>1, BecomesType, AcquireType DEF EnrollVerify, Typed, TypeOK
  <2> QED
    BY <2>1, <2>2
<1>9. ASSUME NEW r \in Requests, EnrollReaders(r)
      PROVE  Typed'
  <2>1. CASE Rollback(r)
    BY <2>1, RollbackType
  <2>2. CASE Becomes(r, [req[r] EXCEPT !.pc = "EnrollCommit"])
             /\ UNCHANGED <<installations, enrollments, credentials, audit, lock>>
    <3>1. [req[r] EXCEPT !.pc = "EnrollCommit"] \in Request
      BY DEF Typed, TypeOK, Request, PCs
    <3>2. Fits([req[r] EXCEPT !.pc = "EnrollCommit"])
      BY <1>9 DEF EnrollReaders, Typed, TypeOK, LocalsSet, Request, Fits, Issuing, Enrolling
    <3> QED
      BY <2>2, <3>1, <3>2, BecomesType DEF Typed, TypeOK
  <2>3. ASSUME NEW k \in Credentials,
               Becomes(r, [req[r] EXCEPT !.pc = "EnrollCommit", !.cred = k]),
               UNCHANGED <<installations, enrollments, credentials, audit, lock>>
        PROVE  Typed'
    <3> DEFINE x == [req[r] EXCEPT !.pc = "EnrollCommit", !.cred = k]
    <3>1. req[r] \in Request /\ Fits(req[r]) /\ req[r].pc = "EnrollReaders"
      BY <1>9 DEF EnrollReaders, Typed, TypeOK, LocalsSet
    <3>2. x \in Request
      BY <3>1 DEF Request, PCs
    <3>3. x.pc = "EnrollCommit" /\ x.inst = req[r].inst /\ x.code = req[r].code
      BY <3>1 DEF Request
    <3>4. Fits(x)
      BY <3>1, <3>3 DEF Fits, Issuing, Enrolling
    <3> QED
      BY <2>3, <3>2, <3>4, BecomesType DEF Typed, TypeOK
  <2> QED
    BY <1>9, <2>1, <2>2, <2>3 DEF EnrollReaders
<1>10. ASSUME NEW r \in Requests, EnrollCommit(r)
       PROVE  Typed'
  <2>1. req[r].inst \in Installations /\ req[r].code \in Codes
    BY <1>10 DEF EnrollCommit, Typed, LocalsSet, Fits, Issuing, Enrolling
  <2>2. enrollments' \in [Codes -> EnrollmentRow]
    <3>1. enrollments' = [enrollments EXCEPT ![req[r].code].consumed = TRUE]
      BY <1>10 DEF EnrollCommit
    <3> QED
      BY <2>1, <3>1 DEF Typed, TypeOK, EnrollmentRow
  <2>3. installations' \in [Installations -> InstallationRow]
    BY <1>10 DEF EnrollCommit, Typed, TypeOK, InstallationRow, Statuses
  <2>4. credentials' \in [Credentials -> CredentialRow]
    <3>1. [installation |-> req[r].inst, code |-> req[r].code, revoked |-> FALSE]
            \in CredentialRow
      BY <2>1 DEF CredentialRow
    <3>2. \A k \in Credentials : [credentials[k] EXCEPT !.revoked = TRUE] \in CredentialRow
      BY DEF Typed, TypeOK, CredentialRow
    <3> QED
      BY <1>10, <3>1, <3>2 DEF EnrollCommit, Typed, TypeOK
  <2>5. ToAudit(r, "ENROLLMENT_CONSUMED") \in Request
          /\ Fits(ToAudit(r, "ENROLLMENT_CONSUMED"))
    BY <1>10, ToAuditType DEF EnrollCommit, AuditActions
  <2> QED
    BY <1>10, <2>2, <2>3, <2>4, <2>5, BecomesType, ReleasedType
    DEF EnrollCommit, Typed, TypeOK
<1>11. ASSUME NEW r \in Requests, NEW i \in Installations, NEW s \in Statuses,
              ChangeRead(r, i, s)
       PROVE  Typed'
  <2>1. [installations[i] EXCEPT !.status = s] \in InstallationRow
    BY DEF Typed, TypeOK, InstallationRow
  <2>2. ASSUME NEW row \in InstallationRow
        PROVE  /\ [Idle EXCEPT !.pc = "ChangeSelect", !.inst = i, !.row = row] \in Request
               /\ Fits([Idle EXCEPT !.pc = "ChangeSelect", !.inst = i, !.row = row])
    BY IdleType DEF Request, PCs, Fits, Issuing, Enrolling
  <2> QED
    BY <1>11, <2>1, <2>2, BecomesType DEF ChangeRead, Typed, TypeOK
<1>12. ASSUME NEW r \in Requests, ChangeSelect(r)
       PROVE  Typed'
  <2>1. installations[req[r].inst] \in InstallationRow
    BY <1>12 DEF ChangeSelect, Typed, TypeOK, LocalsSet, Fits
  <2>2. ASSUME NEW row \in InstallationRow
        PROVE  /\ [req[r] EXCEPT !.pc = "ChangeUpdate", !.base = row] \in Request
               /\ Fits([req[r] EXCEPT !.pc = "ChangeUpdate", !.base = row])
    BY <1>12 DEF ChangeSelect, Typed, TypeOK, LocalsSet, Request, PCs, Fits, Issuing, Enrolling
  <2> QED
    BY <1>12, <2>1, <2>2, BecomesType DEF ChangeSelect, Typed, TypeOK
<1>13. ASSUME NEW r \in Requests, ChangeUpdate(r)
       PROVE  Typed'
  <2>1. installations' \in [Installations -> InstallationRow]
    BY <1>13 DEF ChangeUpdate, Typed, TypeOK, Request, InstallationRow
  <2>2. ToAudit(r, "STATUS_CHANGED") \in Request /\ Fits(ToAudit(r, "STATUS_CHANGED"))
    BY <1>13, ToAuditType DEF ChangeUpdate, AuditActions
  <2> QED
    BY <1>13, <2>1, <2>2, BecomesType DEF ChangeUpdate, Typed, TypeOK
<1>14. ASSUME NEW r \in Requests, NEW i \in Installations, RevokeFind(r, i)
       PROVE  Typed'
  <2>1. PICK k \in Credentials :
          Becomes(r, [Idle EXCEPT !.pc = "RevokeSave", !.inst = i, !.cred = k])
    BY <1>14 DEF RevokeFind
  <2>2. /\ [Idle EXCEPT !.pc = "RevokeSave", !.inst = i, !.cred = k] \in Request
        /\ Fits([Idle EXCEPT !.pc = "RevokeSave", !.inst = i, !.cred = k])
    BY IdleType DEF Request, PCs, Fits, Issuing, Enrolling
  <2> QED
    BY <1>14, <2>1, <2>2, BecomesType DEF RevokeFind, Typed, TypeOK
<1>15. ASSUME NEW r \in Requests, RevokeSave(r)
       PROVE  Typed'
  <2>1. credentials' \in [Credentials -> CredentialRow]
    BY <1>15 DEF RevokeSave, Typed, TypeOK, CredentialRow
  <2>2. ToAudit(r, "CREDENTIAL_REVOKED") \in Request
          /\ Fits(ToAudit(r, "CREDENTIAL_REVOKED"))
    BY <1>15, ToAuditType DEF RevokeSave, AuditActions
  <2> QED
    BY <1>15, <2>1, <2>2, BecomesType DEF RevokeSave, Typed, TypeOK
<1>16. ASSUME NEW r \in Requests, Audit(r)
       PROVE  Typed'
  <2>1. audit' \in AuditEvent
    BY <1>16 DEF Audit, Typed, TypeOK, AuditEvent, Request
  <2> QED
    BY <1>16, <2>1, IdleType, BecomesType DEF Audit, Typed, TypeOK
<1>17. ASSUME NEW r \in Requests, Crash(r)
       PROVE  Typed'
  BY <1>17, RollbackType DEF Crash
<1>18. ASSUME NEW c \in Codes, Expire(c)
       PROVE  Typed'
  <2>1. enrollments' \in [Codes -> EnrollmentRow]
    BY <1>18 DEF Expire, Typed, TypeOK, EnrollmentRow
  <2> QED
    BY <1>18, <2>1 DEF Expire, Typed, TypeOK, LocalsSet
<1>19. CASE UNCHANGED vars
  BY <1>19 DEF vars, Typed, TypeOK, LocalsSet
<1> QED
  BY <1>1, <1>2, <1>3, <1>4, <1>5, <1>6, <1>7, <1>8, <1>9, <1>10, <1>11, <1>12,
     <1>13, <1>14, <1>15, <1>16, <1>17, <1>18, <1>19
  DEF Next, Arrive, WaitForInstallation, Continue

\* Every variable keeps the type TypeOK gives it, in every behaviour: no
\* handler ever works on an Installation, code or credential it has not set.
THEOREM TypeCorrect == Spec => []TypeOK
<1>1. Typed => TypeOK
  BY DEF Typed
<1> QED
  BY InitType, NextType, <1>1, PTL DEF Spec

-----------------------------------------------------------------------------
(* Row locks.  Each request moves its own locks; the three ways it can do  *)
(* so are the three lemmas below.                                          *)

LEMMA KeepsLocks ==
  ASSUME Typed, LocksHeld, NEW r \in Requests, NEW x, Becomes(r, x),
         Holding(x) = Holding(req[r]), lock' = lock
  PROVE  LocksHeld'
<1>1. \A q \in Requests : Holding(req'[q]) = Holding(req[q])
  BY DEF Typed, TypeOK, Becomes
<1> QED
  BY <1>1 DEF LocksHeld, Rows

LEMMA TakesLock ==
  ASSUME Typed, LocksHeld, NEW r \in Requests, NEW x, Becomes(r, x),
         NEW y \in Rows, Acquire(y, r), Holding(x) = Holding(req[r]) \cup {y}
  PROVE  LocksHeld'
<1>1. /\ req' = [req EXCEPT ![r] = x] /\ req \in [Requests -> Request]
      /\ lock' = [lock EXCEPT ![y] = r] /\ lock \in [Rows -> Requests \cup {NoOne}]
      /\ lock[y] \in {NoOne, r}
  BY DEF Typed, TypeOK, Becomes, Acquire, Free
<1>2. ASSUME NEW q \in Requests, NEW z \in Rows
      PROVE  lock'[z] = q <=> z \in Holding(req'[q])
  <2>1. lock[z] = q <=> z \in Holding(req[q])
    BY DEF LocksHeld
  <2>2. CASE q = r
    <3>1. Holding(req'[q]) = Holding(req[q]) \cup {y}
      BY <1>1, <2>2
    <3>2. lock'[z] = IF z = y THEN r ELSE lock[z]
      BY <1>1
    <3> QED
      BY <2>1, <2>2, <3>1, <3>2
  <2>3. CASE q # r
    <3>1. req'[q] = req[q]
      BY <1>1, <2>3
    <3>2. lock'[z] = IF z = y THEN r ELSE lock[z]
      BY <1>1
    <3>3. lock[y] # q
      BY <1>1, <2>3
    <3> QED
      BY <2>1, <2>3, <3>1, <3>2, <3>3
  <2> QED
    BY <2>2, <2>3
<1> QED
  BY <1>2 DEF LocksHeld, Rows

LEMMA DropsLocks ==
  ASSUME Typed, LocksHeld, NEW r \in Requests, NEW x, Becomes(r, x),
         lock' = Released(r), Holding(x) = {}
  PROVE  LocksHeld'
<1>1. /\ req' = [req EXCEPT ![r] = x] /\ req \in [Requests -> Request]
      /\ \A z \in Rows : lock'[z] = IF lock[z] = r THEN NoOne ELSE lock[z]
  BY DEF Typed, TypeOK, Becomes, Released
<1>2. ASSUME NEW q \in Requests, NEW z \in Rows
      PROVE  lock'[z] = q <=> z \in Holding(req'[q])
  <2>1. lock[z] = q <=> z \in Holding(req[q])
    BY DEF LocksHeld
  <2>2. CASE q = r
    <3>1. Holding(req'[q]) = {}
      BY <1>1, <2>2
    <3> QED
      BY <1>1, <2>2, <3>1
  <2>3. CASE q # r
    <3>1. req'[q] = req[q]
      BY <1>1, <2>3
    <3> QED
      BY <1>1, <2>1, <2>3, <3>1
  <2> QED
    BY <2>2, <2>3
<1> QED
  BY <1>2 DEF LocksHeld, Rows

LEMMA NothingHeld == Holding(Idle) = {}
  BY DEF Holding, InstallationLocked, Idle

LEMMA NothingHeldToAudit ==
  ASSUME NEW r \in Requests, NEW act PROVE Holding(ToAudit(r, act)) = {}
  BY DEF Holding, InstallationLocked, ToAudit, Idle

LEMMA RollbackLocks ==
  ASSUME Typed, LocksHeld, NEW r \in Requests, Rollback(r) PROVE LocksHeld'
  BY NothingHeld, DropsLocks DEF Rollback

LEMMA InitLocks == Init => LocksHeld
<1> SUFFICES ASSUME Init PROVE LocksHeld
  OBVIOUS
<1>1. \A r \in Requests : Holding(req[r]) = {}
  BY NothingHeld DEF Init
<1> QED
  BY <1>1 DEF Init, LocksHeld


LEMMA NextLocks == Typed /\ LocksHeld /\ [Next]_vars => LocksHeld'
<1> SUFFICES ASSUME Typed, LocksHeld, [Next]_vars PROVE LocksHeld'
  OBVIOUS
<1> USE DEF Holding, InstallationLocked
<1>0. \A r \in Requests : req[r] \in Request /\ Fits(req[r])
  BY DEF Typed, TypeOK, LocalsSet
<1>1. ASSUME NEW r \in Requests, NEW i \in Installations, NEW p \in Purposes,
             NEW c \in Codes, IssueRequest(r, i, p, c)
      PROVE  LocksHeld'
  <2> DEFINE x == [Idle EXCEPT !.pc = "IssueLock", !.inst = i, !.purpose = p,
                               !.code = c]
  <2>1. x.pc = "IssueLock"
    BY DEF Idle
  <2>2. req[r].pc = "idle" /\ Becomes(r, x) /\ lock' = lock
    BY <1>1 DEF IssueRequest
  <2>3. Holding(x) = Holding(req[r])
    BY <2>1, <2>2
  <2> QED
    BY <2>2, <2>3, KeepsLocks
<1>2. ASSUME NEW r \in Requests, IssueLock(r)
      PROVE  LocksHeld'
  <2> DEFINE x == [req[r] EXCEPT !.pc = "IssueFind"]
  <2>1. CASE Rollback(r)
    BY <2>1, RollbackLocks
  <2>2. CASE ~Rollback(r)
    <3>1. req[r].pc = "IssueLock" /\ Becomes(r, x) /\ Acquire(req[r].inst, r)
      BY <1>2, <2>2 DEF IssueLock
    <3>2. x.pc = "IssueFind" /\ x.inst = req[r].inst
      BY <1>0 DEF Request
    <3>3. req[r].inst \in Installations
      BY <1>0, <3>1 DEF Fits
    <3>4. Holding(x) = Holding(req[r]) \cup {req[r].inst}
      BY <3>1, <3>2, <3>3
    <3> QED
      BY <3>1, <3>3, <3>4, TakesLock DEF Rows
  <2> QED
    BY <2>1, <2>2
<1>3. ASSUME NEW r \in Requests, IssueFind(r)
      PROVE  LocksHeld'
  <2>1. req[r].pc = "IssueFind" /\ req[r].prior = NoCode /\ lock' = lock
    BY <1>0, <1>3 DEF IssueFind, Fits
  <2>2. ASSUME NEW x, Becomes(r, x), x.inst = req[r].inst,
               \/ x.pc = "IssueCommit" /\ x.prior = NoCode
               \/ x.pc = "IssueRevoke"
        PROVE  LocksHeld'
    BY <2>1, <2>2, KeepsLocks
  <2>3. CASE Becomes(r, [req[r] EXCEPT !.pc = "IssueCommit"])
    BY <1>0, <2>1, <2>2, <2>3 DEF Request
  <2>4. ASSUME NEW c \in Codes,
               Becomes(r, [req[r] EXCEPT !.pc = "IssueRevoke", !.prior = c])
        PROVE  LocksHeld'
    BY <1>0, <2>1, <2>2, <2>4 DEF Request
  <2> QED
    BY <1>3, <2>3, <2>4 DEF IssueFind
<1>4. ASSUME NEW r \in Requests, IssueRevoke(r)
      PROVE  LocksHeld'
  <2> DEFINE x == [req[r] EXCEPT !.pc = "IssueCommit"]
  <2>1. req[r].pc = "IssueRevoke" /\ Becomes(r, x) /\ Acquire(req[r].prior, r)
    BY <1>4 DEF IssueRevoke
  <2>2. x.pc = "IssueCommit" /\ x.inst = req[r].inst /\ x.prior = req[r].prior
    BY <1>0 DEF Request
  <2>3. req[r].prior \in Codes
    BY <1>0, <2>1 DEF Fits
  <2>4. Holding(x) = Holding(req[r]) \cup {req[r].prior}
    BY <2>1, <2>2, <2>3
  <2> QED
    BY <2>1, <2>3, <2>4, TakesLock DEF Rows
<1>5. ASSUME NEW r \in Requests, IssueCommit(r)
      PROVE  LocksHeld'
  BY <1>5, NothingHeldToAudit, DropsLocks DEF IssueCommit
<1>6. ASSUME NEW r \in Requests, NEW c \in Codes, EnrollRequest(r, c)
      PROVE  LocksHeld'
  <2> DEFINE x == [Idle EXCEPT !.pc = "EnrollLock", !.code = c,
                               !.inst = enrollments[c].installation]
  <2>1. x.pc = "EnrollLock"
    BY DEF Idle
  <2>2. req[r].pc = "idle" /\ Becomes(r, x) /\ lock' = lock
    BY <1>6 DEF EnrollRequest
  <2>3. Holding(x) = Holding(req[r])
    BY <2>1, <2>2
  <2> QED
    BY <2>2, <2>3, KeepsLocks
<1>7. ASSUME NEW r \in Requests, EnrollLock(r)
      PROVE  LocksHeld'
  <2> DEFINE x == [req[r] EXCEPT !.pc = "EnrollVerify",
                                 !.row = installations[req[r].inst]]
  <2>1. req[r].pc = "EnrollLock" /\ Becomes(r, x) /\ Acquire(req[r].inst, r)
    BY <1>7 DEF EnrollLock, EnrollLockOrder
  <2>2. x.pc = "EnrollVerify" /\ x.inst = req[r].inst
    BY <1>0 DEF Request
  <2>3. req[r].inst \in Installations
    BY <1>0, <2>1 DEF Fits
  <2>4. Holding(x) = Holding(req[r]) \cup {req[r].inst}
    BY <2>1, <2>2, <2>3
  <2> QED
    BY <2>1, <2>3, <2>4, TakesLock DEF Rows
<1>8. ASSUME NEW r \in Requests, EnrollVerify(r)
      PROVE  LocksHeld'
  <2> DEFINE x == [req[r] EXCEPT !.pc = "EnrollReaders"]
  <2>1. CASE Rollback(r)
    BY <2>1, RollbackLocks
  <2>2. CASE ~Rollback(r)
    <3>1. req[r].pc = "EnrollVerify" /\ Becomes(r, x) /\ Acquire(req[r].code, r)
      BY <1>8, <2>2 DEF EnrollVerify, EnrollLockOrder
    <3>2. x.pc = "EnrollReaders" /\ x.inst = req[r].inst /\ x.code = req[r].code
      BY <1>0 DEF Request
    <3>3. req[r].code \in Codes
      BY <1>0, <3>1 DEF Fits, Enrolling
    <3>4. Holding(x) = Holding(req[r]) \cup {req[r].code}
      BY <3>1, <3>2, <3>3
    <3> QED
      BY <3>1, <3>3, <3>4, TakesLock DEF Rows
  <2> QED
    BY <2>1, <2>2
<1>9. ASSUME NEW r \in Requests, EnrollReaders(r)
      PROVE  LocksHeld'
  <2>1. CASE Rollback(r)
    BY <2>1, RollbackLocks
  <2>2. CASE ~Rollback(r)
    <3>1. req[r].pc = "EnrollReaders" /\ lock' = lock
      BY <1>9, <2>2 DEF EnrollReaders
    <3>2. ASSUME NEW x, Becomes(r, x), x.inst = req[r].inst, x.code = req[r].code,
                 x.pc = "EnrollCommit"
          PROVE  LocksHeld'
      BY <3>1, <3>2, KeepsLocks
    <3>3. CASE Becomes(r, [req[r] EXCEPT !.pc = "EnrollCommit"])
      BY <1>0, <3>2, <3>3 DEF Request
    <3>4. ASSUME NEW k \in Credentials,
                 Becomes(r, [req[r] EXCEPT !.pc = "EnrollCommit", !.cred = k])
          PROVE  LocksHeld'
      BY <1>0, <3>2, <3>4 DEF Request
    <3> QED
      BY <1>9, <2>2, <3>3, <3>4 DEF EnrollReaders
  <2> QED
    BY <2>1, <2>2
<1>10. ASSUME NEW r \in Requests, EnrollCommit(r)
       PROVE  LocksHeld'
  BY <1>10, NothingHeldToAudit, DropsLocks DEF EnrollCommit
<1>11. ASSUME NEW r \in Requests, NEW i \in Installations, NEW s \in Statuses,
              ChangeRead(r, i, s)
       PROVE  LocksHeld'
  <2> DEFINE x == [Idle EXCEPT !.pc = "ChangeSelect", !.inst = i,
                               !.row = [installations[i] EXCEPT !.status = s]]
  <2>1. x.pc = "ChangeSelect"
    BY DEF Idle
  <2>2. req[r].pc = "idle" /\ Becomes(r, x) /\ lock' = lock
    BY <1>11 DEF ChangeRead
  <2>3. Holding(x) = Holding(req[r])
    BY <2>1, <2>2
  <2> QED
    BY <2>2, <2>3, KeepsLocks
<1>12. ASSUME NEW r \in Requests, ChangeSelect(r)
       PROVE  LocksHeld'
  <2> DEFINE x == [req[r] EXCEPT !.pc = "ChangeUpdate",
                                 !.base = installations[req[r].inst]]
  <2>1. x.pc = "ChangeUpdate"
    BY <1>0 DEF Request
  <2>2. req[r].pc = "ChangeSelect" /\ Becomes(r, x) /\ lock' = lock
    BY <1>12 DEF ChangeSelect
  <2>3. Holding(x) = Holding(req[r])
    BY <2>1, <2>2
  <2> QED
    BY <2>2, <2>3, KeepsLocks
<1>13. ASSUME NEW r \in Requests,
              \/ req[r].pc = "ChangeUpdate" /\ Becomes(r, ToAudit(r, "STATUS_CHANGED"))
              \/ req[r].pc = "RevokeSave" /\ Becomes(r, ToAudit(r, "CREDENTIAL_REVOKED"))
              \/ req[r].pc = "Audit" /\ Becomes(r, Idle),
              lock' = lock
       PROVE  LocksHeld'
  <2>1. Holding(req[r]) = {}
    BY <1>13
  <2> QED
    BY <1>13, <2>1, NothingHeld, NothingHeldToAudit, KeepsLocks
<1>14. ASSUME NEW r \in Requests, NEW i \in Installations, RevokeFind(r, i)
       PROVE  LocksHeld'
  <2>1. PICK k \in Credentials :
          Becomes(r, [Idle EXCEPT !.pc = "RevokeSave", !.inst = i, !.cred = k])
    BY <1>14 DEF RevokeFind
  <2> DEFINE x == [Idle EXCEPT !.pc = "RevokeSave", !.inst = i, !.cred = k]
  <2>2. x.pc = "RevokeSave"
    BY DEF Idle
  <2>3. req[r].pc = "idle" /\ lock' = lock
    BY <1>14 DEF RevokeFind
  <2>4. Holding(x) = Holding(req[r])
    BY <2>2, <2>3
  <2> QED
    BY <2>1, <2>3, <2>4, KeepsLocks
<1>15. ASSUME NEW r \in Requests, Crash(r)
       PROVE  LocksHeld'
  BY <1>15, RollbackLocks DEF Crash
<1>16. CASE UNCHANGED <<lock, req>>
  BY <1>16 DEF LocksHeld
<1> QED
  BY <1>1, <1>2, <1>3, <1>4, <1>5, <1>6, <1>7, <1>8, <1>9, <1>10, <1>11, <1>12,
     <1>13, <1>14, <1>15, <1>16
  DEF Next, Arrive, WaitForInstallation, Continue, Expire, vars, ChangeUpdate,
      RevokeSave, Audit

LEMMA LocksAvoidCircles == Typed /\ LocksHeld => DeadlockFree
<1> SUFFICES ASSUME Typed, LocksHeld, NEW S \in SUBSET Requests, S # {},
                    \A r \in S : \E q \in S : WaitsFor(r, q)
             PROVE  FALSE
  BY DEF DeadlockFree
\* Who makes another wait holds a row.
<1>1. \A r, q \in Requests : WaitsFor(r, q) =>
        \E x \in Rows : x \in Wants(r) /\ x \in Holding(req[q])
  <2> SUFFICES ASSUME NEW r \in Requests, NEW q \in Requests,
                      NEW x \in Wants(r), lock[x] = q
               PROVE  x \in Rows /\ x \in Holding(req[q])
    BY DEF WaitsFor
  <2>1. Fits(req[r])
    BY DEF Typed, LocalsSet
  <2>2. x \in Rows
    BY <2>1 DEF Wants, Fits, Rows, EnrollLockOrder, Issuing, Enrolling
  <2> QED
    BY <2>2 DEF LocksHeld
\* Who holds a row and waits, waits for a code.
<1>2. \A q \in Requests, y \in Rows : \A x \in Wants(q) :
        y \in Holding(req[q]) => x \in Codes
  <2> SUFFICES ASSUME NEW q \in Requests, NEW y \in Holding(req[q]), NEW x \in Wants(q)
               PROVE  x \in Codes
    OBVIOUS
  <2>1. Fits(req[q])
    BY DEF Typed, LocalsSet
  <2> QED
    BY <2>1 DEF Holding, InstallationLocked, Wants, Fits, EnrollLockOrder, Enrolling
\* Who holds a code does not wait.
<1>3. \A q \in Requests, x \in Codes : x \in Holding(req[q]) => Wants(q) = {}
  BY RowsAssumption DEF Holding, Wants
<1>4. PICK r1 \in S : TRUE
  OBVIOUS
<1>5. PICK r2 \in S : WaitsFor(r1, r2)
  BY <1>4
<1>6. PICK r3 \in S : WaitsFor(r2, r3)
  BY <1>5
<1>7. PICK x \in Rows : x \in Wants(r2) /\ x \in Holding(req[r3])
  BY <1>1, <1>6
<1>8. x \in Codes
  BY <1>1, <1>2, <1>5, <1>7
<1>9. PICK r4 \in S : WaitsFor(r3, r4)
  BY <1>6
<1> QED
  BY <1>3, <1>7, <1>8, <1>9 DEF WaitsFor

\* However many requests issue, enroll, change and revoke at the same time,
\* they never wait for each other in a circle: every transaction locks its
\* Installation before a code, and one that holds a code waits for nothing.
THEOREM NoDeadlock == Spec => []DeadlockFree
<1>1. Init => Typed /\ LocksHeld
  BY InitType, InitLocks
<1>2. Typed /\ LocksHeld /\ [Next]_vars => (Typed /\ LocksHeld)'
  BY NextType, NextLocks
<1> QED
  BY <1>1, <1>2, LocksAvoidCircles, PTL DEF Spec

-----------------------------------------------------------------------------
(* The rows.  Every step either leaves the tables alone or lets them grow: *)
(* a row keeps what it belongs to, what was consumed or revoked stays so,  *)
(* and no Installation goes back to PENDING.                               *)

Grows ==
  /\ \A c \in Codes :
       Issued(c) => /\ enrollments'[c].installation = enrollments[c].installation
                    /\ enrollments'[c].purpose = enrollments[c].purpose
                    /\ enrollments[c].consumed => enrollments'[c].consumed
  /\ \A k \in Credentials :
       credentials[k].installation # NoInstallation
         => /\ credentials'[k].installation = credentials[k].installation
            /\ credentials[k].revoked => credentials'[k].revoked
  /\ \A i \in Installations :
       installations[i].status # "PENDING" => installations'[i].status # "PENDING"

\* The step leaves alone what the holder of the lock of Installation i reads.
Untouched(i) ==
  /\ installations'[i] = installations[i]
  /\ \A c \in Codes : enrollments[c].installation = i => Open(c)' = Open(c)
  /\ \A c \in Codes : Open(c)' /\ enrollments'[c].installation = i
                        => Open(c) /\ enrollments[c].installation = i
  /\ \A k \in Credentials : Active(k)' /\ credentials'[k].installation = i
                              => Active(k) /\ credentials[k].installation = i

\* Two requests between locking an Installation and the end of their
\* transactions work for different ones.
LEMMA Exclusive ==
  ASSUME Typed, LocksHeld, NEW r \in Requests, NEW q \in Requests,
         req[r].pc \in InstallationLocked, req[q].pc \in InstallationLocked,
         req[r].inst = req[q].inst
  PROVE  r = q
<1>1. req[r].inst \in Installations
  BY DEF Typed, LocalsSet, Fits, InstallationLocked
<1>2. req[r].inst \in Holding(req[r]) /\ req[r].inst \in Holding(req[q])
  BY <1>1 DEF Holding
<1>3. req[r].inst \in Rows
  BY <1>1 DEF Rows
<1> QED
  BY <1>2, <1>3 DEF LocksHeld

\* Who finds the lock of Installation i free is alone with it.
LEMMA FreeMeansAlone ==
  ASSUME Typed, LocksHeld, NEW r \in Requests, NEW i \in Installations, Free(i, r),
         NEW q \in Requests, req[q].pc \in InstallationLocked, req[q].inst = i
  PROVE  q = r
<1>1. i \in Holding(req[q])
  BY DEF Holding
<1> QED
  BY <1>1 DEF LocksHeld, Free, Rows

LEMMA EnrolledGrows ==
  ASSUME Grows, NEW i \in Installations, Enrolled(i) PROVE Enrolled(i)'
<1>1. PICK c \in Codes : /\ enrollments[c].installation = i
                         /\ enrollments[c].purpose = "INITIAL"
                         /\ enrollments[c].consumed
  BY DEF Enrolled
<1>2. Issued(c)
  BY <1>1 DEF Issued
<1> QED
  BY <1>1, <1>2 DEF Grows, Enrolled

LEMMA CommittedGrows ==
  ASSUME Grows, NEW i \in Installations, NEW act, Committed(act, i)
  PROVE  Committed(act, i)'
<1>1. ASSUME NEW c \in Codes, enrollments[c].installation = i
      PROVE  /\ enrollments'[c].installation = i
             /\ enrollments[c].consumed => enrollments'[c].consumed
  BY <1>1 DEF Grows, Issued
<1>2. ASSUME NEW k \in Credentials, credentials[k].installation = i
      PROVE  /\ credentials'[k].installation = i
             /\ credentials[k].revoked => credentials'[k].revoked
  BY <1>2 DEF Grows
<1> QED
  BY <1>1, <1>2 DEF Committed, Grows

\* What a request relies on survives a step of the others that lets the rows
\* grow, keeps off the Installation it has locked and its fresh code.
LEMMA OthersSound ==
  ASSUME Grows, NEW x \in Request, Fits(x), Sound(x),
         x.pc \in InstallationLocked => Untouched(x.inst),
         x.pc \in Issuing => ~Issued(x.code)'
  PROVE  Sound(x)'
<1>0. x.pc # "idle" => x.inst \in Installations
  BY DEF Fits
<1>1. IssueRelies(x)'
  <2>1. CASE x.pc \in {"IssueFind", "IssueRevoke", "IssueCommit"}
    <3>1. Untouched(x.inst) /\ IssueRelies(x)
      BY <2>1 DEF Sound, InstallationLocked
    <3>2. x.prior \in Codes \cup {NoCode}
      BY DEF Request
    <3> QED
      BY <2>1, <3>1, <3>2 DEF Untouched, IssueRelies, Grows, Open
  <2>2. CASE ~(x.pc \in {"IssueFind", "IssueRevoke", "IssueCommit"})
    BY <2>2 DEF IssueRelies
  <2> QED
    BY <2>1, <2>2
<1>2. EnrollRelies(x)'
  <2>1. CASE x.pc \in Enrolling
    <3>1. EnrollRelies(x) /\ x.code \in Codes
      BY <2>1 DEF Sound, Fits
    <3>2. /\ Issued(x.code) /\ enrollments[x.code].installation = x.inst
          /\ enrollments'[x.code].installation = x.inst
          /\ enrollments'[x.code].purpose = enrollments[x.code].purpose
      BY <2>1, <3>1 DEF Grows, EnrollRelies
    <3>3. x.pc # "EnrollLock" => Untouched(x.inst)
      BY <2>1 DEF Enrolling, InstallationLocked
    <3>4. x.pc = "EnrollCommit" /\ x.cred # NoCredential
            => credentials'[x.cred].installation = x.inst
      BY <1>0, <3>1 DEF EnrollRelies, Request, Grows
    <3> QED
      BY <2>1, <3>1, <3>2, <3>3, <3>4 DEF Untouched, EnrollRelies, Enrolling, Issued, Open
  <2>2. CASE ~(x.pc \in Enrolling)
    BY <2>2 DEF EnrollRelies, Enrolling
  <2> QED
    BY <2>1, <2>2
<1>3. ChangeRelies(x)'
  BY <1>0, EnrolledGrows DEF Sound, ChangeRelies, Changing, Grows
<1>4. RevokeRelies(x)'
  BY <1>0 DEF Sound, RevokeRelies, Grows, Fits
<1>5. AuditRelies(x)'
  BY <1>0, CommittedGrows DEF Sound, AuditRelies
<1> QED
  BY <1>1, <1>2, <1>3, <1>4, <1>5 DEF Sound

\* As long as an Installation is PENDING no INITIAL code of it was consumed:
\* the credential that bought would be there.
LEMMA PendingNotEnrolled ==
  ASSUME Tables, NEW i \in Installations, installations[i].status = "PENDING"
  PROVE  ~Enrolled(i)
<1> SUFFICES ASSUME Enrolled(i) PROVE FALSE
  OBVIOUS
<1>1. PICK d \in Codes : enrollments[d].installation = i /\ enrollments[d].consumed
  BY DEF Enrolled
<1>2. PICK k \in Credentials : credentials[k].installation = i
  BY <1>1 DEF Tables, CodeBuysOneCredential
<1> QED
  BY <1>2 DEF Tables, OperatesAfterEnrollment

LEMMA IdleSound == Sound(Idle)
  BY DEF Sound, IssueRelies, EnrollRelies, ChangeRelies, RevokeRelies, AuditRelies,
         Issuing, Enrolling, Changing, Idle

\* A request with only its record left relies on nothing else.
LEMMA AuditSuffices ==
  ASSUME NEW y, y.pc = "Audit", Committed(y.act, y.inst)' PROVE Sound(y)'
  BY DEF Sound, IssueRelies, EnrollRelies, ChangeRelies, RevokeRelies, AuditRelies,
         Issuing, Enrolling, Changing

\* Steps that leave the three tables alone: request r goes on with locals x.
LEMMA LocalStep ==
  ASSUME IInv, UNCHANGED <<installations, enrollments, credentials>>,
         NEW r \in Requests, NEW x, Becomes(r, x), Sound(x),
         x.pc \in Issuing
           => \/ req[r].pc \in Issuing /\ x.code = req[r].code
              \/ \A q \in Requests : req[q].code # x.code
  PROVE  FreshCodes' /\ AllSound' /\ Tables'
<1>0. /\ req' = [req EXCEPT ![r] = x] /\ req \in [Requests -> Request]
      /\ \A q \in Requests : req'[q] = IF q = r THEN x ELSE req[q]
  BY DEF IInv, Typed, TypeOK, Becomes
<1>1. FreshCodes'
  BY <1>0 DEF IInv, DataSound, FreshCodes
<1>2. ASSUME NEW y, Sound(y) PROVE Sound(y)'
  BY <1>2 DEF Sound, IssueRelies, EnrollRelies, ChangeRelies, RevokeRelies,
       AuditRelies, Committed, Enrolled, Issued, Open, Active
<1>3. AllSound'
  <2> SUFFICES ASSUME NEW q \in Requests PROVE Sound(req[q])'
    BY DEF AllSound
  <2>1. PICK y : y = req'[q]
    OBVIOUS
  <2>2. Sound(y)
    BY <1>0, <2>1 DEF IInv, DataSound, AllSound
  <2>3. Sound(y)'
    BY <1>2, <2>2
  <2> QED
    BY <2>1, <2>3
<1>4. Tables'
  BY DEF IInv, DataSound, Tables, BlankRows, OneOpenCode, OneActiveCredential,
       CodeBuysOneCredential, ConsumedOrRevoked, OperatesAfterEnrollment,
       FirstEnrollmentOnce, Enrolled, Issued, Open, Active
<1> QED
  BY <1>1, <1>3, <1>4

LEMMA OtherRequest ==
  ASSUME IInv, Grows, NEW q \in Requests, req'[q] = req[q],
         req[q].pc \in InstallationLocked => Untouched(req[q].inst),
         req[q].pc \in Issuing
           => enrollments'[req[q].code].installation = NoInstallation
  PROVE  Sound(req[q])'
<1>1. PICK y \in Request : y = req[q]
  BY DEF IInv, Typed, TypeOK
<1>2. Fits(y) /\ Sound(y)
  BY <1>1 DEF IInv, DataSound, Typed, LocalsSet, AllSound
<1>3. /\ y.pc \in InstallationLocked => Untouched(y.inst)
      /\ y.pc \in Issuing => ~Issued(y.code)'
  BY <1>1 DEF Issued, Untouched
<1>4. Sound(y)'
  BY <1>2, <1>3, OthersSound
<1> QED
  BY <1>1, <1>4

\* Steps that commit to the tables: request r is left with its record to write.
LEMMA CommitStep ==
  ASSUME IInv, Grows, NEW r \in Requests, NEW x, Becomes(r, x), UNCHANGED audit,
         x.pc = "Audit", Committed(x.act, x.inst)', Tables',
         \A q \in Requests \ {r} :
           /\ req[q].pc \in InstallationLocked => Untouched(req[q].inst)
           /\ req[q].pc \in Issuing
                => enrollments'[req[q].code].installation = NoInstallation
  PROVE  DataSound'
<1>0. /\ req' = [req EXCEPT ![r] = x] /\ req \in [Requests -> Request]
      /\ \A q \in Requests : req'[q] = IF q = r THEN x ELSE req[q]
  BY DEF IInv, Typed, TypeOK, Becomes
<1>1. FreshCodes'
  BY <1>0 DEF IInv, DataSound, FreshCodes, Issuing
<1>2. AllSound'
  <2> SUFFICES ASSUME NEW q \in Requests PROVE Sound(req[q])'
    BY DEF AllSound
  <2>1. CASE q = r
    <3>1. Sound(x)'
      BY AuditSuffices
    <3> QED
      BY <1>0, <2>1, <3>1
  <2>2. CASE q # r
    BY <1>0, <2>2, OtherRequest
  <2> QED
    BY <2>1, <2>2
<1>3. AuditSound'
  BY CommittedGrows DEF IInv, DataSound, AuditSound
<1> QED
  BY <1>1, <1>2, <1>3 DEF DataSound

\* ... and the audit trail with them.
LEMMA QuietStep ==
  ASSUME IInv, UNCHANGED <<installations, enrollments, credentials, audit>>,
         NEW r \in Requests, NEW x, Becomes(r, x), Sound(x),
         x.pc \in Issuing
           => \/ req[r].pc \in Issuing /\ x.code = req[r].code
              \/ \A q \in Requests : req[q].code # x.code
  PROVE  DataSound'
<1>1. FreshCodes' /\ AllSound' /\ Tables'
  BY LocalStep
<1>2. AuditSound'
  BY DEF IInv, DataSound, AuditSound, Committed
<1> QED
  BY <1>1, <1>2 DEF DataSound

LEMMA RollbackKeeps ==
  ASSUME IInv, NEW r \in Requests, Rollback(r) PROVE DataSound'
<1>1. Becomes(r, Idle) /\ Idle.pc \notin Issuing
  BY DEF Rollback, Idle, Issuing
<1> QED
  BY <1>1, IdleSound, QuietStep DEF Rollback

LEMMA IssueRequestKeeps ==
  ASSUME IInv, NEW r \in Requests, NEW i \in Installations, NEW p \in Purposes,
         NEW c \in Codes, IssueRequest(r, i, p, c)
  PROVE  DataSound'
<1> DEFINE x == [Idle EXCEPT !.pc = "IssueLock", !.inst = i, !.purpose = p,
                             !.code = c]
<1>1. x.pc = "IssueLock" /\ x.code = c
  BY DEF Idle
<1>2. Becomes(r, x) /\ ~Issued(c) /\ \A q \in Requests : req[q].code # c
  BY DEF IssueRequest
<1>3. UNCHANGED <<installations, enrollments, credentials, audit>>
  BY DEF IssueRequest
<1> HIDE DEF x
<1>4. Sound(x)
  BY <1>1, <1>2 DEF Sound, IssueRelies, EnrollRelies, ChangeRelies, RevokeRelies,
     AuditRelies, Issuing, Enrolling, Changing
<1> QED
  BY <1>1, <1>2, <1>3, <1>4, QuietStep

LEMMA IssueLockKeeps ==
  ASSUME IInv, NEW r \in Requests, IssueLock(r)
  PROVE  DataSound'
<1>1. CASE Rollback(r)
  BY <1>1, RollbackKeeps
<1>2. CASE ~Rollback(r)
  <2> DEFINE x == [req[r] EXCEPT !.pc = "IssueFind"]
  <2>1. /\ req[r].pc = "IssueLock" /\ Becomes(r, x)
        /\ installations[req[r].inst].status \in EligibleStatuses(req[r].purpose)
        /\ UNCHANGED <<installations, enrollments, credentials, audit>>
    BY <1>2 DEF IssueLock
  <2>2. req[r] \in Request /\ Sound(req[r])
    BY DEF IInv, DataSound, Typed, TypeOK, AllSound
  <2>3. /\ x.pc = "IssueFind" /\ x.code = req[r].code /\ x.inst = req[r].inst
        /\ x.purpose = req[r].purpose
    BY <2>2 DEF Request
  <2> HIDE DEF x
  <2>4. Sound(x)
    BY <2>1, <2>2, <2>3 DEF Sound, IssueRelies, EnrollRelies, ChangeRelies,
       RevokeRelies, AuditRelies, Issuing, Enrolling, Changing
  <2> QED
    BY <2>1, <2>3, <2>4, QuietStep DEF Issuing
<1> QED
  BY <1>1, <1>2

LEMMA IssueFindKeeps ==
  ASSUME IInv, NEW r \in Requests, IssueFind(r)
  PROVE  DataSound'
<1>0. /\ req[r].pc = "IssueFind" /\ req[r] \in Request /\ Sound(req[r])
      /\ UNCHANGED <<installations, enrollments, credentials, audit>>
      /\ req[r].inst \in Installations /\ req[r].prior = NoCode
  BY DEF IssueFind, IInv, DataSound, Typed, TypeOK, AllSound, LocalsSet, Fits
<1>1. \A c \in Codes : FoundOpen(c, req[r].inst)
                         <=> Open(c) /\ enrollments[c].installation = req[r].inst
  BY <1>0 DEF FoundOpen, Open, Issued
<1>2. ASSUME NEW x, Becomes(r, x), x.code = req[r].code, x.inst = req[r].inst,
             x.purpose = req[r].purpose, x.pc \in {"IssueRevoke", "IssueCommit"},
             \A c \in Codes : FoundOpen(c, req[r].inst) => c = x.prior,
             x.prior # NoCode => x.prior \in Codes /\ FoundOpen(x.prior, req[r].inst)
      PROVE  DataSound'
  <2>1. Sound(x)
    BY <1>0, <1>1, <1>2 DEF Sound, IssueRelies, EnrollRelies, ChangeRelies,
       RevokeRelies, AuditRelies, Issuing, Enrolling, Changing
  <2> QED
    BY <1>0, <1>2, <2>1, QuietStep DEF Issuing
<1>3. CASE /\ {c \in Codes : FoundOpen(c, req[r].inst)} = {}
           /\ Becomes(r, [req[r] EXCEPT !.pc = "IssueCommit"])
  <2> DEFINE x == [req[r] EXCEPT !.pc = "IssueCommit"]
  <2>1. /\ x.pc = "IssueCommit" /\ x.code = req[r].code /\ x.inst = req[r].inst
        /\ x.purpose = req[r].purpose /\ x.prior = NoCode
    BY <1>0 DEF Request
  <2>2. Becomes(r, x)
    BY <1>3
  <2> HIDE DEF x
  <2> QED
    BY <1>2, <1>3, <2>1, <2>2
<1>4. ASSUME NEW d \in Codes, FoundOpen(d, req[r].inst),
             Becomes(r, [req[r] EXCEPT !.pc = "IssueRevoke", !.prior = d])
      PROVE  DataSound'
  <2> DEFINE x == [req[r] EXCEPT !.pc = "IssueRevoke", !.prior = d]
  <2>1. /\ x.pc = "IssueRevoke" /\ x.code = req[r].code /\ x.inst = req[r].inst
        /\ x.purpose = req[r].purpose /\ x.prior = d
    BY <1>0 DEF Request
  <2>2. Becomes(r, x)
    BY <1>4
  <2>3. \A c \in Codes : FoundOpen(c, req[r].inst) => c = d
    BY <1>1, <1>4 DEF IInv, DataSound, Tables, OneOpenCode
  <2> HIDE DEF x
  <2> QED
    BY <1>2, <1>4, <2>1, <2>2, <2>3
<1> QED
  BY <1>3, <1>4 DEF IssueFind

LEMMA IssueRevokeKeeps ==
  ASSUME IInv, NEW r \in Requests, IssueRevoke(r)
  PROVE  DataSound'
<1> DEFINE x == [req[r] EXCEPT !.pc = "IssueCommit"]
<1>1. /\ req[r].pc = "IssueRevoke" /\ Becomes(r, x)
      /\ UNCHANGED <<installations, enrollments, credentials, audit>>
      /\ req[r] \in Request /\ Sound(req[r])
  BY DEF IssueRevoke, IInv, DataSound, Typed, TypeOK, AllSound
<1>2. /\ x.pc = "IssueCommit" /\ x.code = req[r].code /\ x.inst = req[r].inst
      /\ x.purpose = req[r].purpose /\ x.prior = req[r].prior
  BY <1>1 DEF Request
<1> HIDE DEF x
<1>3. Sound(x)
  BY <1>1, <1>2 DEF Sound, IssueRelies, EnrollRelies, ChangeRelies,
     RevokeRelies, AuditRelies, Issuing, Enrolling, Changing
<1> QED
  BY <1>1, <1>2, <1>3, QuietStep DEF Issuing

LEMMA EnrollRequestKeeps ==
  ASSUME IInv, NEW r \in Requests, NEW c \in Codes, EnrollRequest(r, c)
  PROVE  DataSound'
<1> DEFINE x == [Idle EXCEPT !.pc = "EnrollLock", !.code = c,
                             !.inst = enrollments[c].installation]
<1>1. x.pc = "EnrollLock" /\ x.code = c /\ x.inst = enrollments[c].installation
  BY DEF Idle
<1>2. /\ Becomes(r, x) /\ Issued(c)
      /\ UNCHANGED <<installations, enrollments, credentials, audit>>
  BY DEF EnrollRequest
<1> HIDE DEF x
<1>3. Sound(x)
  BY <1>1, <1>2 DEF Sound, IssueRelies, EnrollRelies, ChangeRelies, RevokeRelies,
     AuditRelies, Issuing, Enrolling, Changing
<1> QED
  BY <1>1, <1>2, <1>3, QuietStep DEF Issuing

LEMMA EnrollLockKeeps ==
  ASSUME IInv, NEW r \in Requests, EnrollLock(r)
  PROVE  DataSound'
<1> DEFINE x == [req[r] EXCEPT !.pc = "EnrollVerify",
                               !.row = installations[req[r].inst]]
<1>1. /\ req[r].pc = "EnrollLock" /\ Becomes(r, x)
      /\ UNCHANGED <<installations, enrollments, credentials, audit>>
      /\ req[r] \in Request /\ Sound(req[r])
  BY DEF EnrollLock, IInv, DataSound, Typed, TypeOK, AllSound
<1>2. /\ x.pc = "EnrollVerify" /\ x.code = req[r].code /\ x.inst = req[r].inst
      /\ x.row = installations[req[r].inst]
  BY <1>1 DEF Request
<1> HIDE DEF x
<1>3. Sound(x)
  BY <1>1, <1>2 DEF Sound, IssueRelies, EnrollRelies, ChangeRelies,
     RevokeRelies, AuditRelies, Issuing, Enrolling, Changing
<1> QED
  BY <1>1, <1>2, <1>3, QuietStep DEF Issuing

LEMMA EnrollVerifyKeeps ==
  ASSUME IInv, NEW r \in Requests, EnrollVerify(r)
  PROVE  DataSound'
<1>1. CASE Rollback(r)
  BY <1>1, RollbackKeeps
<1>2. CASE ~Rollback(r)
  <2> DEFINE x == [req[r] EXCEPT !.pc = "EnrollReaders"]
  <2>1. /\ req[r].pc = "EnrollVerify" /\ Becomes(r, x) /\ Consumable(req[r].code)
        /\ req[r].row.status \in EligibleStatuses(enrollments[req[r].code].purpose)
        /\ UNCHANGED <<installations, enrollments, credentials, audit>>
    BY <1>2 DEF EnrollVerify
  <2>2. req[r] \in Request /\ Sound(req[r])
    BY DEF IInv, DataSound, Typed, TypeOK, AllSound
  <2>3. /\ x.pc = "EnrollReaders" /\ x.code = req[r].code /\ x.inst = req[r].inst
        /\ x.row = req[r].row
    BY <2>2 DEF Request
  <2> HIDE DEF x
  <2>4. Sound(x)
    BY <2>1, <2>2, <2>3 DEF Sound, IssueRelies, EnrollRelies, ChangeRelies,
       RevokeRelies, AuditRelies, Issuing, Enrolling, Changing, Open, Consumable
  <2> QED
    BY <2>1, <2>3, <2>4, QuietStep DEF Issuing
<1> QED
  BY <1>1, <1>2

LEMMA EnrollReadersKeeps ==
  ASSUME IInv, NEW r \in Requests, EnrollReaders(r)
  PROVE  DataSound'
<1>0. /\ req[r].pc = "EnrollReaders" /\ req[r] \in Request /\ Sound(req[r])
      /\ req[r].inst \in Installations /\ req[r].cred = NoCredential
  BY DEF EnrollReaders, IInv, DataSound, Typed, TypeOK, AllSound, LocalsSet, Fits
<1>1. \A k \in Credentials : FoundActive(k, req[r].inst)
                         <=> Active(k) /\ credentials[k].installation = req[r].inst
  BY <1>0 DEF FoundActive, Active
<1>2. CASE Rollback(r)
  BY <1>2, RollbackKeeps
<1>3. ASSUME NEW x, Becomes(r, x), x.pc = "EnrollCommit", x.code = req[r].code,
             x.inst = req[r].inst, x.row = req[r].row,
             \A k \in Credentials : FoundActive(k, req[r].inst) => k = x.cred,
             x.cred # NoCredential
               => x.cred \in Credentials /\ FoundActive(x.cred, req[r].inst),
             UNCHANGED <<installations, enrollments, credentials, audit>>
      PROVE  DataSound'
  <2>1. Sound(x)
    BY <1>0, <1>1, <1>3 DEF Sound, IssueRelies, EnrollRelies, ChangeRelies,
       RevokeRelies, AuditRelies, Issuing, Enrolling, Changing
  <2> QED
    BY <1>3, <2>1, QuietStep DEF Issuing
<1>4. CASE /\ {k \in Credentials : FoundActive(k, req[r].inst)} = {}
           /\ Becomes(r, [req[r] EXCEPT !.pc = "EnrollCommit"])
           /\ UNCHANGED <<installations, enrollments, credentials, audit, lock>>
  <2> DEFINE x == [req[r] EXCEPT !.pc = "EnrollCommit"]
  <2>1. /\ x.pc = "EnrollCommit" /\ x.code = req[r].code /\ x.inst = req[r].inst
        /\ x.row = req[r].row /\ x.cred = NoCredential
    BY <1>0 DEF Request
  <2>2. Becomes(r, x)
    BY <1>4
  <2> HIDE DEF x
  <2> QED
    BY <1>3, <1>4, <2>1, <2>2
<1>5. ASSUME NEW l \in Credentials, FoundActive(l, req[r].inst),
             Becomes(r, [req[r] EXCEPT !.pc = "EnrollCommit", !.cred = l]),
             UNCHANGED <<installations, enrollments, credentials, audit, lock>>
      PROVE  DataSound'
  <2> DEFINE x == [req[r] EXCEPT !.pc = "EnrollCommit", !.cred = l]
  <2>1. /\ x.pc = "EnrollCommit" /\ x.code = req[r].code /\ x.inst = req[r].inst
        /\ x.row = req[r].row /\ x.cred = l
    BY <1>0 DEF Request
  <2>2. Becomes(r, x)
    BY <1>5
  <2>3. \A k \in Credentials : FoundActive(k, req[r].inst) => k = l
    BY <1>1, <1>5 DEF IInv, DataSound, Tables, OneActiveCredential
  <2> HIDE DEF x
  <2> QED
    BY <1>3, <1>5, <2>1, <2>2, <2>3
<1> QED
  BY <1>2, <1>4, <1>5 DEF EnrollReaders

LEMMA ChangeReadKeeps ==
  ASSUME IInv, NEW r \in Requests, NEW i \in Installations, NEW s \in Statuses,
         ChangeRead(r, i, s)
  PROVE  DataSound'
<1> DEFINE row == [installations[i] EXCEPT !.status = s]
           x == [Idle EXCEPT !.pc = "ChangeSelect", !.inst = i, !.row = row]
<1>1. x.pc = "ChangeSelect" /\ x.inst = i /\ x.row = row
  BY DEF Idle
<1>2. row.status = s
  BY DEF IInv, Typed, TypeOK, InstallationRow
<1>3. /\ Becomes(r, x) /\ <<installations[i].status, s>> \in AdminTransitions
      /\ UNCHANGED <<installations, enrollments, credentials, audit>>
  BY DEF ChangeRead
<1> HIDE DEF x
<1>4. s # "PENDING" /\ (s \in {"ACTIVE", "SUSPENDED"} => Enrolled(i))
  BY <1>3 DEF AdminTransitions, IInv, DataSound, Tables, OperatesAfterEnrollment
<1>5. Sound(x)
  BY <1>1, <1>2, <1>4 DEF Sound, IssueRelies, EnrollRelies, ChangeRelies,
     RevokeRelies, AuditRelies, Issuing, Enrolling, Changing
<1> QED
  BY <1>1, <1>3, <1>5, QuietStep DEF Issuing

LEMMA ChangeSelectKeeps ==
  ASSUME IInv, NEW r \in Requests, ChangeSelect(r)
  PROVE  DataSound'
<1> DEFINE x == [req[r] EXCEPT !.pc = "ChangeUpdate",
                               !.base = installations[req[r].inst]]
<1>1. /\ req[r].pc = "ChangeSelect" /\ Becomes(r, x)
      /\ UNCHANGED <<installations, enrollments, credentials, audit>>
      /\ req[r] \in Request /\ Sound(req[r])
  BY DEF ChangeSelect, IInv, DataSound, Typed, TypeOK, AllSound
<1>2. /\ x.pc = "ChangeUpdate" /\ x.inst = req[r].inst /\ x.row = req[r].row
      /\ x.base = installations[req[r].inst]
  BY <1>1 DEF Request
<1> HIDE DEF x
<1>3. Sound(x)
  BY <1>1, <1>2 DEF Sound, IssueRelies, EnrollRelies, ChangeRelies,
     RevokeRelies, AuditRelies, Issuing, Enrolling, Changing
<1> QED
  BY <1>1, <1>2, <1>3, QuietStep DEF Issuing

LEMMA RevokeFindKeeps ==
  ASSUME IInv, NEW r \in Requests, NEW i \in Installations, RevokeFind(r, i)
  PROVE  DataSound'
<1>1. PICK k \in Credentials :
        /\ FoundActive(k, i)
        /\ Becomes(r, [Idle EXCEPT !.pc = "RevokeSave", !.inst = i, !.cred = k])
  BY DEF RevokeFind
<1> DEFINE x == [Idle EXCEPT !.pc = "RevokeSave", !.inst = i, !.cred = k]
<1>2. x.pc = "RevokeSave" /\ x.inst = i /\ x.cred = k
  BY DEF Idle
<1>3. Becomes(r, x) /\ UNCHANGED <<installations, enrollments, credentials, audit>>
  BY <1>1 DEF RevokeFind
<1> HIDE DEF x
<1>4. Sound(x)
  BY <1>1, <1>2 DEF Sound, IssueRelies, EnrollRelies, ChangeRelies, RevokeRelies,
     AuditRelies, Issuing, Enrolling, Changing, FoundActive
<1> QED
  BY <1>2, <1>3, <1>4, QuietStep DEF Issuing

LEMMA AuditKeeps ==
  ASSUME IInv, NEW r \in Requests, Audit(r)
  PROVE  DataSound'
<1>1. /\ req[r].pc = "Audit" /\ Becomes(r, Idle) /\ Sound(req[r])
      /\ UNCHANGED <<installations, enrollments, credentials>>
      /\ req[r].inst \in Installations
  BY DEF Audit, IInv, DataSound, AllSound, Typed, LocalsSet, Fits
<1>2. FreshCodes' /\ AllSound' /\ Tables'
  <2>1. Idle.pc \notin Issuing
    BY DEF Idle, Issuing
  <2> QED
    BY <1>1, <2>1, IdleSound, LocalStep
<1>3. AuditSound'
  <2>1. CASE audit' = [action |-> req[r].act, resource |-> req[r].inst]
    BY <1>1, <2>1 DEF Sound, AuditRelies, AuditSound, Committed
  <2>2. CASE UNCHANGED audit
    BY <1>1, <2>2 DEF IInv, DataSound, AuditSound, Committed
  <2> QED
    BY <2>1, <2>2 DEF Audit
<1> QED
  BY <1>2, <1>3 DEF DataSound

-----------------------------------------------------------------------------
(* The steps that change a table.                                          *)

LEMMA ExpireKeeps ==
  ASSUME IInv, NEW c \in Codes, Expire(c)
  PROVE  DataSound'
<1>1. /\ Issued(c) /\ enrollments \in [Codes -> EnrollmentRow]
      /\ enrollments' = [enrollments EXCEPT ![c].expired = TRUE]
      /\ UNCHANGED <<installations, credentials, audit, req>>
  BY DEF Expire, IInv, Typed, TypeOK
<1>2. /\ \A d \in Codes : /\ enrollments'[d].installation = enrollments[d].installation
                          /\ enrollments'[d].purpose = enrollments[d].purpose
                          /\ enrollments'[d].consumed = enrollments[d].consumed
                          /\ enrollments'[d].revoked = enrollments[d].revoked
      /\ \A d \in Codes \ {c} : enrollments'[d] = enrollments[d]
  BY <1>1 DEF EnrollmentRow
<1>3. Grows
  BY <1>1, <1>2 DEF Grows
<1>4. \A i \in Installations : Untouched(i)
  BY <1>1, <1>2 DEF Untouched, Open, Issued, Active
<1>5. AllSound'
  <2> SUFFICES ASSUME NEW q \in Requests PROVE Sound(req[q])'
    BY DEF AllSound
  <2>1. Fits(req[q]) /\ Sound(req[q])
    BY DEF IInv, DataSound, Typed, LocalsSet, AllSound
  <2>2. req[q].pc \in InstallationLocked => Untouched(req[q].inst)
    BY <1>4, <2>1 DEF Fits, InstallationLocked
  <2>3. req[q].pc \in Issuing
          => enrollments'[req[q].code].installation = NoInstallation
    BY <1>2, <2>1 DEF Sound, IssueRelies, Issued, Fits
  <2> QED
    BY <1>1, <1>3, <2>2, <2>3, OtherRequest
<1>6. BlankRows'
  BY <1>1, <1>2 DEF IInv, DataSound, Tables, BlankRows, Issued
<1>7. Tables'
  BY <1>1, <1>2, <1>6 DEF IInv, DataSound, Tables, OneOpenCode, OneActiveCredential,
     CodeBuysOneCredential, ConsumedOrRevoked, OperatesAfterEnrollment,
     FirstEnrollmentOnce, Enrolled, Issued, Open, Active
<1>8. AuditSound' /\ FreshCodes'
  BY <1>1, <1>3, CommittedGrows DEF IInv, DataSound, AuditSound, FreshCodes
<1> QED
  BY <1>5, <1>7, <1>8 DEF DataSound

\* A revocation only takes a credential away.
LEMMA RevokeSaveWrites ==
  ASSUME IInv, NEW r \in Requests, RevokeSave(r),
         NEW i, i = req[r].inst, NEW k, k = req[r].cred
  PROVE  /\ req[r].pc = "RevokeSave" /\ k \in Credentials /\ i \in Installations
         /\ credentials[k].installation = i
         /\ UNCHANGED <<installations, enrollments, audit>>
         /\ \A l \in Credentials :
              /\ credentials'[l].installation = credentials[l].installation
              /\ credentials'[l].code = credentials[l].code
              /\ credentials[l].revoked => credentials'[l].revoked
              /\ l # k => credentials'[l] = credentials[l]
         /\ credentials'[k].revoked
<1>1. /\ req[r].pc = "RevokeSave" /\ k \in Credentials /\ i \in Installations
      /\ credentials[k].installation = i
  BY DEF RevokeSave, IInv, DataSound, Typed, LocalsSet, Fits, AllSound, Sound, RevokeRelies
<1>2. /\ credentials \in [Credentials -> CredentialRow]
      /\ credentials' = [credentials EXCEPT ![k].revoked = TRUE]
      /\ UNCHANGED <<installations, enrollments, audit>>
  BY DEF RevokeSave, IInv, Typed, TypeOK
<1> QED
  BY <1>1, <1>2 DEF CredentialRow

LEMMA RevokeSaveKeeps ==
  ASSUME IInv, NEW r \in Requests, RevokeSave(r)
  PROVE  DataSound'
<1>1. PICK i, k : i = req[r].inst /\ k = req[r].cred
  OBVIOUS
<1>2. /\ k \in Credentials /\ i \in Installations /\ credentials[k].installation = i
      /\ UNCHANGED <<installations, enrollments, audit>>
  BY <1>1, RevokeSaveWrites
<1>3. /\ \A l \in Credentials :
           /\ credentials'[l].installation = credentials[l].installation
           /\ credentials'[l].code = credentials[l].code
           /\ credentials[l].revoked => credentials'[l].revoked
           /\ l # k => credentials'[l] = credentials[l]
      /\ credentials'[k].revoked
  BY <1>1, RevokeSaveWrites
<1>4. Grows
  BY <1>2, <1>3 DEF Grows
<1>5. \A j \in Installations : Untouched(j)
  BY <1>2, <1>3 DEF Untouched, Open, Issued, Active
<1>6. Tables'
  <2>1. credentials[k].code # NoCode
    BY <1>2 DEF IInv, DataSound, Tables, BlankRows, UnusedCredential
  <2>2. BlankRows'
    BY <1>2, <1>3, <2>1 DEF IInv, DataSound, Tables, BlankRows, Issued
  <2> QED
    BY <1>2, <1>3, <2>2 DEF IInv, DataSound, Tables, OneOpenCode,
       OneActiveCredential, CodeBuysOneCredential, ConsumedOrRevoked,
       OperatesAfterEnrollment, FirstEnrollmentOnce, Enrolled, Issued, Open, Active
<1>7. \A q \in Requests :
        /\ req[q].pc \in InstallationLocked => Untouched(req[q].inst)
        /\ req[q].pc \in Issuing
             => enrollments'[req[q].code].installation = NoInstallation
  BY <1>2, <1>5 DEF IInv, DataSound, Typed, LocalsSet, Fits, InstallationLocked,
     AllSound, Sound, IssueRelies, Issued
<1>8. PICK x : x = ToAudit(r, "CREDENTIAL_REVOKED")
  OBVIOUS
<1>9. /\ x.pc = "Audit" /\ x.act = "CREDENTIAL_REVOKED" /\ x.inst = i
      /\ Becomes(r, x)
  BY <1>1, <1>8 DEF ToAudit, Idle, RevokeSave
<1>10. Committed(x.act, x.inst)'
  BY <1>2, <1>3, <1>9 DEF Committed
<1> QED
  BY <1>2, <1>4, <1>6, <1>7, <1>9, <1>10, CommitStep

\* A status change saves what may be a stale row, but waits for the lock: it
\* cannot take an Installation back to PENDING, and what it makes operate was
\* enrolled when it was read.
LEMMA ChangeUpdateWrites ==
  ASSUME IInv, NEW r \in Requests, ChangeUpdate(r), NEW i, i = req[r].inst
  PROVE  /\ i \in Installations /\ Free(i, r)
         /\ UNCHANGED <<enrollments, credentials, audit>>
         /\ \A j \in Installations \ {i} : installations'[j] = installations[j]
         /\ installations'[i].status # "PENDING"
         /\ installations'[i].status \in {"ACTIVE", "SUSPENDED"} => Enrolled(i)
<1>1. /\ req[r].pc = "ChangeUpdate" /\ i \in Installations /\ Sound(req[r])
      /\ installations \in [Installations -> InstallationRow] /\ Free(i, r)
      /\ UNCHANGED <<enrollments, credentials, audit>>
  BY DEF ChangeUpdate, IInv, DataSound, Typed, TypeOK, LocalsSet, Fits, AllSound
<1>2. /\ installations'[i].status = IF req[r].row.status # req[r].base.status
                                    THEN req[r].row.status ELSE installations[i].status
      /\ \A j \in Installations \ {i} : installations'[j] = installations[j]
  BY <1>1 DEF ChangeUpdate
<1>3. installations'[i].status # "PENDING"
  BY <1>1, <1>2 DEF Sound, ChangeRelies, Changing
<1>4. installations'[i].status \in {"ACTIVE", "SUSPENDED"} => Enrolled(i)
  BY <1>1, <1>2 DEF Sound, ChangeRelies, Changing, IInv, DataSound, Tables,
     OperatesAfterEnrollment
<1> QED
  BY <1>1, <1>2, <1>3, <1>4

LEMMA ChangeUpdateKeeps ==
  ASSUME IInv, NEW r \in Requests, ChangeUpdate(r)
  PROVE  DataSound'
<1>1. PICK i : i = req[r].inst
  OBVIOUS
<1>2. /\ i \in Installations /\ Free(i, r)
      /\ UNCHANGED <<enrollments, credentials, audit>>
      /\ \A j \in Installations \ {i} : installations'[j] = installations[j]
      /\ installations'[i].status # "PENDING"
      /\ installations'[i].status \in {"ACTIVE", "SUSPENDED"} => Enrolled(i)
  BY <1>1, ChangeUpdateWrites
<1>3. Grows
  BY <1>2 DEF Grows
<1>4. \A j \in Installations \ {i} : Untouched(j)
  BY <1>2 DEF Untouched, Open, Issued, Active
<1>5. Tables'
  BY <1>2 DEF IInv, DataSound, Tables, BlankRows, OneOpenCode,
     OneActiveCredential, CodeBuysOneCredential, ConsumedOrRevoked,
     OperatesAfterEnrollment, FirstEnrollmentOnce, Enrolled, Issued, Open, Active
<1>6. ASSUME NEW q \in Requests \ {r}
      PROVE  /\ req[q].pc \in InstallationLocked => Untouched(req[q].inst)
             /\ req[q].pc \in Issuing
                  => enrollments'[req[q].code].installation = NoInstallation
  <2>1. Fits(req[q]) /\ Sound(req[q])
    BY DEF IInv, DataSound, Typed, LocalsSet, AllSound
  <2>2. req[q].pc \in InstallationLocked => req[q].inst \in Installations \ {i}
    BY <1>2, <2>1, FreeMeansAlone DEF IInv, Fits, InstallationLocked
  <2> QED
    BY <1>2, <1>4, <2>1, <2>2 DEF Sound, IssueRelies, Issued
<1>7. PICK x : x = ToAudit(r, "STATUS_CHANGED")
  OBVIOUS
<1>8. /\ x.pc = "Audit" /\ x.act = "STATUS_CHANGED" /\ x.inst = i
      /\ Becomes(r, x)
  BY <1>1, <1>7 DEF ToAudit, Idle, ChangeUpdate
<1>9. Committed(x.act, x.inst)'
  BY <1>2, <1>8 DEF Committed
<1> QED
  BY <1>2, <1>3, <1>5, <1>6, <1>8, <1>9, CommitStep

\* An issuance revokes the one open code it found and puts its own in place.
LEMMA IssueCommitWrites ==
  ASSUME IInv, NEW r \in Requests, IssueCommit(r), NEW i, i = req[r].inst,
         NEW new, new = req[r].code, NEW prior, prior = req[r].prior
  PROVE  /\ i \in Installations /\ new \in Codes /\ prior # new
         /\ UNCHANGED <<installations, credentials, audit>>
         /\ ~Issued(new) /\ enrollments'[new].installation = i
         /\ enrollments'[new].purpose = req[r].purpose
         /\ ~enrollments'[new].consumed /\ ~enrollments'[new].revoked
         /\ \A c \in Codes \ {new} :
              /\ enrollments'[c].installation = enrollments[c].installation
              /\ enrollments'[c].purpose = enrollments[c].purpose
              /\ enrollments'[c].consumed = enrollments[c].consumed
              /\ c # prior => enrollments'[c] = enrollments[c]
              /\ c = prior => /\ Open(c) /\ enrollments[c].installation = i
                              /\ enrollments'[c].revoked
         /\ \A c \in Codes : Open(c) /\ enrollments[c].installation = i => c = prior
         /\ installations[i].status \in EligibleStatuses(req[r].purpose)
<1>1. /\ req[r].pc = "IssueCommit" /\ i \in Installations /\ new \in Codes
      /\ prior \in Codes \cup {NoCode}
      /\ Sound(req[r]) /\ req[r] \in Request /\ ~Issued(new)
      /\ UNCHANGED <<installations, credentials, audit>>
  BY DEF IssueCommit, IInv, DataSound, Typed, TypeOK, LocalsSet, Fits, AllSound,
     Sound, IssueRelies, Issuing, Request
<1>2. /\ prior # NoCode => Open(prior) /\ enrollments[prior].installation = i
      /\ \A c \in Codes : Open(c) /\ enrollments[c].installation = i => c = prior
      /\ installations[i].status \in EligibleStatuses(req[r].purpose)
  BY <1>1 DEF Sound, IssueRelies
<1>3. prior # new
  BY <1>1, <1>2 DEF Open
<1>4. /\ enrollments'[new].installation = i
      /\ enrollments'[new].purpose = req[r].purpose
      /\ ~enrollments'[new].consumed /\ ~enrollments'[new].revoked
  BY <1>1 DEF IssueCommit, UnusedCode
<1>5. \A c \in Codes \ {new} :
        /\ enrollments'[c].installation = enrollments[c].installation
        /\ enrollments'[c].purpose = enrollments[c].purpose
        /\ enrollments'[c].consumed = enrollments[c].consumed
        /\ c # prior => enrollments'[c] = enrollments[c]
        /\ c = prior => enrollments'[c].revoked
  <2>1. \A c \in Codes : enrollments[c] \in EnrollmentRow
    BY DEF IInv, Typed, TypeOK
  <2>2. \A c \in Codes \ {new} :
          enrollments'[c] = IF c = prior THEN [enrollments[c] EXCEPT !.revoked = TRUE]
                                         ELSE enrollments[c]
    BY DEF IssueCommit
  <2> QED
    BY <2>1, <2>2 DEF EnrollmentRow
<1> QED
  BY <1>1, <1>2, <1>3, <1>4, <1>5

LEMMA IssueCommitKeeps ==
  ASSUME IInv, NEW r \in Requests, IssueCommit(r)
  PROVE  DataSound'
<1>1. PICK i, new, prior : i = req[r].inst /\ new = req[r].code /\ prior = req[r].prior
  OBVIOUS
<1>2. /\ i \in Installations /\ new \in Codes /\ prior # new
      /\ UNCHANGED <<installations, credentials, audit>>
      /\ ~Issued(new) /\ enrollments'[new].installation = i
      /\ enrollments'[new].purpose = req[r].purpose
      /\ ~enrollments'[new].consumed /\ ~enrollments'[new].revoked
  BY <1>1, IssueCommitWrites
<1>3. \A c \in Codes \ {new} :
        /\ enrollments'[c].installation = enrollments[c].installation
        /\ enrollments'[c].purpose = enrollments[c].purpose
        /\ enrollments'[c].consumed = enrollments[c].consumed
        /\ c # prior => enrollments'[c] = enrollments[c]
        /\ c = prior => /\ Open(c) /\ enrollments[c].installation = i
                        /\ enrollments'[c].revoked
  BY <1>1, IssueCommitWrites
<1>4. /\ \A c \in Codes : Open(c) /\ enrollments[c].installation = i => c = prior
      /\ installations[i].status \in EligibleStatuses(req[r].purpose)
  BY <1>1, IssueCommitWrites
<1>5. Grows
  BY <1>2, <1>3 DEF Grows, Issued
<1>6. ASSUME NEW j \in Installations, j # i PROVE Untouched(j)
  BY <1>2, <1>3, <1>6 DEF Untouched, Open, Issued, Active
<1>7. Tables'
  <2>1. ~enrollments[new].consumed
    BY <1>2 DEF IInv, DataSound, Tables, BlankRows, UnusedCode
  <2>2. BlankRows'
    BY <1>2, <1>3 DEF IInv, DataSound, Tables, BlankRows, Issued, Open
  <2>3. OneOpenCode'
    BY <1>2, <1>3, <1>4 DEF IInv, DataSound, Tables, OneOpenCode, Open, Issued
  <2>4. OneActiveCredential' /\ ConsumedOrRevoked'
    BY <1>2, <1>3 DEF IInv, DataSound, Tables, OneActiveCredential, Active,
       ConsumedOrRevoked, Open
  <2>5. CodeBuysOneCredential'
    BY <1>2, <1>3, <2>1 DEF IInv, DataSound, Tables, CodeBuysOneCredential
  <2>6. \A j \in Installations : Enrolled(j) => Enrolled(j)'
    BY <1>5, EnrolledGrows
  <2>7. req[r].purpose = "RECOVERY" => Enrolled(i)
    BY <1>2, <1>4 DEF IInv, DataSound, Tables, OperatesAfterEnrollment, EligibleStatuses
  <2>8. OperatesAfterEnrollment'
    BY <1>2, <1>3, <2>6, <2>7 DEF IInv, DataSound, Tables, OperatesAfterEnrollment
  <2>9. FirstEnrollmentOnce'
    BY <1>2, <1>3 DEF IInv, DataSound, Tables, FirstEnrollmentOnce
  <2> QED
    BY <2>2, <2>3, <2>4, <2>5, <2>8, <2>9 DEF Tables
<1>8. ASSUME NEW q \in Requests \ {r}
      PROVE  /\ req[q].pc \in InstallationLocked => Untouched(req[q].inst)
             /\ req[q].pc \in Issuing
                  => enrollments'[req[q].code].installation = NoInstallation
  <2>1. Fits(req[q]) /\ Sound(req[q])
    BY DEF IInv, DataSound, Typed, LocalsSet, AllSound
  <2>2. req[r].pc = "IssueCommit"
    BY DEF IssueCommit
  <2>3. req[q].pc \in InstallationLocked => req[q].inst \in Installations /\ req[q].inst # i
    BY <1>1, <2>1, <2>2, Exclusive DEF IInv, Fits, InstallationLocked
  <2>4. req[q].pc \in Issuing => req[q].code # new
    BY <1>1, <2>2 DEF IInv, DataSound, FreshCodes, Issuing
  <2>5. req[q].pc \in Issuing => req[q].code \in Codes /\ ~Issued(req[q].code)
    BY <2>1 DEF Sound, IssueRelies, Fits
  <2> QED
    BY <1>3, <1>6, <2>3, <2>4, <2>5 DEF Issued
<1>9. PICK x : x = ToAudit(r, "ENROLLMENT_ISSUED")
  OBVIOUS
<1>10. /\ x.pc = "Audit" /\ x.act = "ENROLLMENT_ISSUED" /\ x.inst = i
       /\ Becomes(r, x)
  BY <1>1, <1>9 DEF ToAudit, Idle, IssueCommit
<1>11. Committed(x.act, x.inst)'
  <2>1. \E c \in Codes : enrollments'[c].installation = x.inst
    BY <1>2, <1>10
  <2> QED
    BY <1>10, <2>1 DEF Committed
<1> QED
  BY <1>2, <1>5, <1>7, <1>8, <1>10, <1>11, CommitStep

\* An enrollment spends its code for the one working credential.
LEMMA EnrollCommitWrites ==
  ASSUME IInv, NEW r \in Requests, EnrollCommit(r), NEW i, i = req[r].inst,
         NEW c, c = req[r].code, NEW old, old = req[r].cred
  PROVE  /\ i \in Installations /\ c \in Codes /\ UNCHANGED audit
         /\ Open(c) /\ enrollments[c].installation = i
         /\ installations[i].status = "PENDING" => enrollments[c].purpose = "INITIAL"
         /\ installations[i].status # "PENDING" => enrollments[c].purpose = "RECOVERY"
         /\ installations'[i].status \in {"ACTIVE", "SUSPENDED"}
         /\ installations[i].status = "PENDING" => installations'[i].status = "ACTIVE"
         /\ \A j \in Installations \ {i} : installations'[j] = installations[j]
         /\ \A k \in Credentials :
              Active(k) /\ credentials[k].installation = i => k = old
         /\ \A d \in Codes :
              /\ enrollments'[d].installation = enrollments[d].installation
              /\ enrollments'[d].purpose = enrollments[d].purpose
              /\ enrollments'[d].revoked = enrollments[d].revoked
              /\ d # c => enrollments'[d] = enrollments[d]
         /\ enrollments'[c].consumed
         /\ \E new \in Credentials :
              /\ credentials'[new].installation = i /\ credentials'[new].code = c
              /\ ~credentials'[new].revoked
              /\ credentials[new].installation = NoInstallation
              /\ credentials[new].code = NoCode
              /\ \A k \in Credentials \ {new} :
                   /\ credentials'[k].installation = credentials[k].installation
                   /\ credentials'[k].code = credentials[k].code
                   /\ credentials[k].revoked => credentials'[k].revoked
                   /\ k # old => credentials'[k] = credentials[k]
                   /\ k = old => /\ credentials[k].installation = i
                                 /\ credentials'[k].revoked
<1>1. /\ req[r].pc = "EnrollCommit" /\ i \in Installations /\ c \in Codes
      /\ Sound(req[r]) /\ UNCHANGED audit
  BY DEF EnrollCommit, IInv, DataSound, Typed, LocalsSet, Fits, AllSound, Enrolling
<1>2. /\ Open(c) /\ enrollments[c].installation = i
      /\ req[r].row = installations[i]
      /\ installations[i].status \in EligibleStatuses(enrollments[c].purpose)
      /\ \A k \in Credentials : Active(k) /\ credentials[k].installation = i => k = old
      /\ old \in Credentials => credentials[old].installation = i
  BY <1>1 DEF Sound, EnrollRelies, Enrolling
<1>3. /\ \A d \in Codes :
           /\ enrollments'[d].installation = enrollments[d].installation
           /\ enrollments'[d].purpose = enrollments[d].purpose
           /\ enrollments'[d].revoked = enrollments[d].revoked
           /\ d # c => enrollments'[d] = enrollments[d]
      /\ enrollments'[c].consumed
  <2>1. /\ enrollments \in [Codes -> EnrollmentRow]
        /\ enrollments' = [enrollments EXCEPT ![c].consumed = TRUE]
    BY DEF EnrollCommit, IInv, Typed, TypeOK
  <2> QED
    BY <1>1, <2>1 DEF EnrollmentRow
<1>4. enrollments[c].purpose \in {"INITIAL", "RECOVERY"}
  BY <1>1 DEF IInv, Typed, TypeOK, EnrollmentRow, Purposes
<1>5. /\ installations[i].status = "PENDING" => enrollments[c].purpose = "INITIAL"
      /\ installations[i].status # "PENDING" => enrollments[c].purpose = "RECOVERY"
  BY <1>2, <1>4 DEF EligibleStatuses
<1>6. /\ \A j \in Installations \ {i} : installations'[j] = installations[j]
      /\ installations'[i].status \in {"ACTIVE", "SUSPENDED"}
      /\ installations[i].status = "PENDING" => installations'[i].status = "ACTIVE"
  <2>1. installations \in [Installations -> InstallationRow]
    BY DEF IInv, Typed, TypeOK
  <2>2. installations[i].status \in {"PENDING", "ACTIVE", "SUSPENDED"}
    BY <1>2, <1>4 DEF EligibleStatuses
  <2> QED
    BY <1>1, <1>2, <1>5, <2>1, <2>2 DEF EnrollCommit, Activates
<1>7. PICK new \in Credentials :
        /\ credentials[new] = UnusedCredential
        /\ credentials' =
             [k \in Credentials |->
                IF k = new THEN [installation |-> i, code |-> c, revoked |-> FALSE]
                ELSE IF k = old THEN [credentials[k] EXCEPT !.revoked = TRUE]
                ELSE credentials[k]]
  BY DEF EnrollCommit
<1>8. /\ credentials'[new].installation = i /\ credentials'[new].code = c
      /\ ~credentials'[new].revoked
      /\ credentials[new].installation = NoInstallation
      /\ credentials[new].code = NoCode
  BY <1>7 DEF UnusedCredential
<1>9. \A k \in Credentials \ {new} :
        /\ credentials'[k].installation = credentials[k].installation
        /\ credentials'[k].code = credentials[k].code
        /\ credentials[k].revoked => credentials'[k].revoked
        /\ k # old => credentials'[k] = credentials[k]
        /\ k = old => credentials'[k].revoked
  <2>1. \A k \in Credentials : credentials[k] \in CredentialRow
    BY DEF IInv, Typed, TypeOK
  <2>2. \A k \in Credentials \ {new} :
          credentials'[k] = IF k = old THEN [credentials[k] EXCEPT !.revoked = TRUE]
                                       ELSE credentials[k]
    BY <1>7
  <2> QED
    BY <2>1, <2>2 DEF CredentialRow
<1> QED
  BY <1>1, <1>2, <1>3, <1>5, <1>6, <1>8, <1>9

LEMMA EnrollCommitKeeps ==
  ASSUME IInv, NEW r \in Requests, EnrollCommit(r)
  PROVE  DataSound'
<1>1. PICK i, c, old : i = req[r].inst /\ c = req[r].code /\ old = req[r].cred
  OBVIOUS
<1>2. /\ i \in Installations /\ c \in Codes /\ UNCHANGED audit
      /\ Open(c) /\ enrollments[c].installation = i
      /\ \A k \in Credentials : Active(k) /\ credentials[k].installation = i => k = old
  BY <1>1, EnrollCommitWrites
<1>3. /\ \A d \in Codes :
           /\ enrollments'[d].installation = enrollments[d].installation
           /\ enrollments'[d].purpose = enrollments[d].purpose
           /\ enrollments'[d].revoked = enrollments[d].revoked
           /\ d # c => enrollments'[d] = enrollments[d]
      /\ enrollments'[c].consumed
  BY <1>1, EnrollCommitWrites
<1>4. /\ installations[i].status = "PENDING" => enrollments[c].purpose = "INITIAL"
      /\ installations[i].status # "PENDING" => enrollments[c].purpose = "RECOVERY"
      /\ installations'[i].status \in {"ACTIVE", "SUSPENDED"}
      /\ \A j \in Installations \ {i} : installations'[j] = installations[j]
  BY <1>1, EnrollCommitWrites
<1>5. PICK new \in Credentials :
        /\ credentials'[new].installation = i /\ credentials'[new].code = c
        /\ ~credentials'[new].revoked
        /\ credentials[new].installation = NoInstallation
        /\ credentials[new].code = NoCode
        /\ \A k \in Credentials \ {new} :
             /\ credentials'[k].installation = credentials[k].installation
             /\ credentials'[k].code = credentials[k].code
             /\ credentials[k].revoked => credentials'[k].revoked
             /\ k # old => credentials'[k] = credentials[k]
             /\ k = old => credentials[k].installation = i /\ credentials'[k].revoked
  BY <1>1, EnrollCommitWrites
<1>6. Grows
  BY <1>3, <1>4, <1>5 DEF Grows
<1>7. ASSUME NEW j \in Installations, j # i PROVE Untouched(j)
  BY <1>2, <1>3, <1>4, <1>5, <1>7 DEF Untouched, Open, Issued, Active
<1>8. Enrolled(i)'
  <2>1. CASE enrollments[c].purpose = "INITIAL"
    BY <1>2, <1>3, <2>1 DEF Enrolled
  <2>2. CASE enrollments[c].purpose # "INITIAL"
    <3>1. enrollments[c].purpose = "RECOVERY"
      BY <1>4, <2>2
    <3>2. Enrolled(i)
      BY <1>2, <3>1 DEF IInv, DataSound, Tables, OperatesAfterEnrollment
    <3> QED
      BY <1>2, <1>6, <3>2, EnrolledGrows
  <2> QED
    BY <2>1, <2>2
<1>9. Tables'
  <2>1. BlankRows'
    BY <1>2, <1>3, <1>5 DEF IInv, DataSound, Tables, BlankRows, Issued, Open
  <2>2. OneOpenCode' /\ ConsumedOrRevoked'
    <3>1. ~enrollments[c].revoked
      BY <1>2 DEF Open
    <3> QED
      BY <1>2, <1>3, <3>1 DEF IInv, DataSound, Tables, OneOpenCode, Open, Issued,
         ConsumedOrRevoked
  <2>3. OneActiveCredential'
    BY <1>2, <1>5 DEF IInv, DataSound, Tables, OneActiveCredential, Active
  <2>4. CodeBuysOneCredential'
    <3>1. \A k \in Credentials : credentials[k].code # c
      BY <1>2 DEF IInv, DataSound, Tables, CodeBuysOneCredential, Open
    <3> QED
      BY <1>2, <1>3, <1>5, <3>1 DEF IInv, DataSound, Tables, CodeBuysOneCredential
  <2>5. OperatesAfterEnrollment'
    <3>1. \A j \in Installations : Enrolled(j) => Enrolled(j)'
      BY <1>6, EnrolledGrows
    <3> QED
      BY <1>2, <1>3, <1>4, <1>5, <1>8, <3>1
      DEF IInv, DataSound, Tables, OperatesAfterEnrollment
  <2>6. FirstEnrollmentOnce'
    <3>1. enrollments[c].purpose = "INITIAL" => ~Enrolled(i)
      BY <1>2, <1>4, PendingNotEnrolled DEF IInv, DataSound
    <3> QED
      BY <1>2, <1>3, <3>1 DEF IInv, DataSound, Tables, FirstEnrollmentOnce, Enrolled
  <2> QED
    BY <2>1, <2>2, <2>3, <2>4, <2>5, <2>6 DEF Tables
<1>10. ASSUME NEW q \in Requests \ {r}
       PROVE  /\ req[q].pc \in InstallationLocked => Untouched(req[q].inst)
              /\ req[q].pc \in Issuing
                   => enrollments'[req[q].code].installation = NoInstallation
  <2>1. Fits(req[q]) /\ Sound(req[q]) /\ req[r].pc = "EnrollCommit"
    BY DEF IInv, DataSound, Typed, LocalsSet, AllSound, EnrollCommit
  <2>2. req[q].pc \in InstallationLocked => req[q].inst \in Installations /\ req[q].inst # i
    BY <1>1, <2>1, Exclusive DEF IInv, Fits, InstallationLocked
  <2>3. req[q].pc \in Issuing => req[q].code \in Codes /\ ~Issued(req[q].code)
    BY <2>1 DEF Sound, IssueRelies, Fits
  <2> QED
    BY <1>3, <1>7, <2>2, <2>3 DEF Issued
<1>11. PICK x : x = ToAudit(r, "ENROLLMENT_CONSUMED")
  OBVIOUS
<1>12. /\ x.pc = "Audit" /\ x.act = "ENROLLMENT_CONSUMED" /\ x.inst = i
       /\ Becomes(r, x)
  BY <1>1, <1>11 DEF ToAudit, Idle, EnrollCommit
<1>13. Committed(x.act, x.inst)'
  <2>1. \E d \in Codes : enrollments'[d].installation = x.inst /\ enrollments'[d].consumed
    BY <1>2, <1>3, <1>12
  <2> QED
    BY <1>12, <2>1 DEF Committed
<1> QED
  BY <1>2, <1>6, <1>9, <1>10, <1>12, <1>13, CommitStep

-----------------------------------------------------------------------------
(* What every step does to the tables, and the theorems.                   *)

\* Only five kinds of step change one of the three tables.
LEMMA Writers ==
  ASSUME [Next]_vars
  PROVE  \/ UNCHANGED <<installations, enrollments, credentials>>
         \/ \E c \in Codes : Expire(c)
         \/ \E r \in Requests :
              IssueCommit(r) \/ EnrollCommit(r) \/ ChangeUpdate(r) \/ RevokeSave(r)
  BY DEF Next, vars, Arrive, WaitForInstallation, Continue, Crash, Rollback,
         IssueRequest, IssueLock, IssueFind, IssueRevoke, EnrollRequest, EnrollLock,
         EnrollVerify, EnrollReaders, ChangeRead, ChangeSelect, RevokeFind, Audit

LEMMA InitDataSound == Init => DataSound
<1> SUFFICES ASSUME Init PROVE DataSound
  OBVIOUS
<1>1. FreshCodes
  BY DEF Init, FreshCodes, Idle, Issuing
<1>2. AllSound
  BY IdleSound DEF Init, AllSound
<1>3. AuditSound
  BY DEF Init, AuditSound
<1>4. Tables
  BY DEF Init, Tables, BlankRows, OneOpenCode, OneActiveCredential,
     CodeBuysOneCredential, ConsumedOrRevoked, OperatesAfterEnrollment,
     FirstEnrollmentOnce, Issued, Open, Active, NewInstallation, UnusedCode,
     UnusedCredential
<1> QED
  BY <1>1, <1>2, <1>3, <1>4 DEF DataSound

LEMMA NextKeeps == IInv /\ [Next]_vars => DataSound'
<1> SUFFICES ASSUME IInv, [Next]_vars PROVE DataSound'
  OBVIOUS
<1>1. ASSUME NEW r \in Requests, Arrive(r) PROVE DataSound'
  BY <1>1, IssueRequestKeeps, EnrollRequestKeeps, ChangeReadKeeps, RevokeFindKeeps DEF Arrive
<1>2. ASSUME NEW r \in Requests, WaitForInstallation(r) PROVE DataSound'
  BY <1>2, IssueLockKeeps, EnrollLockKeeps, ChangeUpdateKeeps DEF WaitForInstallation
<1>3. ASSUME NEW r \in Requests, Continue(r) PROVE DataSound'
  BY <1>3, IssueFindKeeps, IssueRevokeKeeps, IssueCommitKeeps, EnrollVerifyKeeps,
     EnrollReadersKeeps, EnrollCommitKeeps, ChangeSelectKeeps, RevokeSaveKeeps, AuditKeeps
  DEF Continue
<1>4. ASSUME NEW r \in Requests, Crash(r) PROVE DataSound'
  BY <1>4, RollbackKeeps DEF Crash
<1>5. CASE UNCHANGED vars
  BY <1>5 DEF vars, IInv, DataSound, FreshCodes, AllSound, Sound, IssueRelies, EnrollRelies,
     ChangeRelies, RevokeRelies, AuditRelies, Committed, AuditSound, Tables, BlankRows,
     OneOpenCode, OneActiveCredential, CodeBuysOneCredential, ConsumedOrRevoked,
     OperatesAfterEnrollment, FirstEnrollmentOnce, Enrolled, Issued, Open, Active
<1> QED
  BY <1>1, <1>2, <1>3, <1>4, <1>5, ExpireKeeps DEF Next

LEMMA AlwaysIInv == Spec => []IInv
<1>1. Init => IInv
  BY InitType, InitLocks, InitDataSound DEF IInv
<1>2. IInv /\ [Next]_vars => IInv'
  BY NextType, NextLocks, NextKeeps DEF IInv
<1> QED
  BY <1>1, <1>2, PTL DEF Spec

\* An Installation never has two credentials that work, however enrollments and
\* revocations of it interleave and whatever crashes in between.
THEOREM OneCredential == Spec => []OneActiveCredential
<1>1. IInv => OneActiveCredential
  BY DEF IInv, DataSound, Tables
<1> QED
  BY <1>1, AlwaysIInv, PTL

\* A code buys at most one credential, of its own Installation, and is spent
\* exactly when that credential exists: presenting it many times at once does
\* not help, and a crash loses neither half.
THEOREM CodeExchangedOnce == Spec => []CodeBuysOneCredential
<1>1. IInv => CodeBuysOneCredential
  BY DEF IInv, DataSound, Tables
<1> QED
  BY <1>1, AlwaysIInv, PTL

\* Each Installation has at most one open code, no code is both exchanged and
\* revoked, and the first enrollment happens once.
THEOREM CodesStayInOrder == Spec => []CodesInOrder
<1>1. IInv => CodesInOrder
  BY DEF IInv, DataSound, Tables, CodesInOrder
<1> QED
  BY <1>1, AlwaysIInv, PTL

\* An Installation operates, or is offered a recovery code, only after it has
\* been enrolled, however stale the row an administrative change saves.
THEOREM EnrolledBeforeOperating == Spec => []OperatesAfterEnrollment
<1>1. IInv => OperatesAfterEnrollment
  BY DEF IInv, DataSound, Tables
<1> QED
  BY <1>1, AlwaysIInv, PTL

\* The newest audit record names something that has been committed.
THEOREM AuditTells == Spec => []AuditTruthful
<1>1. IInv => AuditTruthful
  BY DEF IInv, DataSound, AuditSound, Committed, AuditTruthful, NoAudit, NoEvent
<1> QED
  BY <1>1, AlwaysIInv, PTL

\* A credential starts to work only while its Installation is ACTIVE or
\* SUSPENDED: decommissioning and enrollment of the same Installation exclude
\* each other by its row lock.
THEOREM CredentialsForOperating == Spec => CredentialWhileOperating
<1>1. ASSUME IInv, [Next]_vars, NEW k \in Credentials, Active(k)', ~Active(k)
      PROVE  installations'[credentials'[k].installation].status
               \in {"ACTIVE", "SUSPENDED"}
  <2>1. CASE UNCHANGED credentials
    BY <1>1, <2>1 DEF Active
  <2>2. ASSUME NEW r \in Requests, RevokeSave(r) PROVE FALSE
    <3>1. PICK i, l : i = req[r].inst /\ l = req[r].cred
      OBVIOUS
    <3> QED
      BY <1>1, <2>2, <3>1, RevokeSaveWrites DEF Active
  <2>3. ASSUME NEW r \in Requests, EnrollCommit(r)
        PROVE  installations'[credentials'[k].installation].status
                 \in {"ACTIVE", "SUSPENDED"}
    <3>1. PICK i, c, old : i = req[r].inst /\ c = req[r].code /\ old = req[r].cred
      OBVIOUS
    <3>2. installations'[i].status \in {"ACTIVE", "SUSPENDED"}
      BY <1>1, <2>3, <3>1, EnrollCommitWrites
    <3>3. PICK new \in Credentials :
            /\ credentials'[new].installation = i
            /\ \A l \in Credentials \ {new} :
                 /\ credentials'[l].installation = credentials[l].installation
                 /\ credentials[l].revoked => credentials'[l].revoked
      BY <1>1, <2>3, <3>1, EnrollCommitWrites
    <3>4. k = new
      BY <1>1, <3>3 DEF Active
    <3> QED
      BY <3>2, <3>3, <3>4
  <2> QED
    BY <1>1, <2>1, <2>2, <2>3, Writers DEF Expire, IssueCommit, ChangeUpdate
<1>2. IInv /\ [Next]_vars
        => \A k \in Credentials :
             Active(k)' /\ ~Active(k)
               => installations'[credentials'[k].installation].status
                    \in {"ACTIVE", "SUSPENDED"}
  BY <1>1
<1> QED
  BY <1>2, AlwaysIInv, PTL DEF Spec, CredentialWhileOperating

\* An Installation leaves PENDING by being decommissioned or by the step that
\* consumes its INITIAL code, and never comes back.
THEOREM ActivatedByEnrollment == Spec => ActivationByEnrollment
<1> DEFINE P(i) ==
      /\ installations'[i].status = "PENDING" => installations[i].status = "PENDING"
      /\ installations[i].status = "PENDING" /\ installations'[i].status # "PENDING"
           => \/ installations'[i].status = "DECOMMISSIONED"
              \/ installations'[i].status = "ACTIVE" /\ ~Enrolled(i) /\ Enrolled(i)'
<1>1. ASSUME IInv, [Next]_vars, NEW i \in Installations PROVE P(i)
  <2>1. CASE UNCHANGED installations
    BY <2>1
  <2>2. ASSUME NEW r \in Requests, ChangeUpdate(r) PROVE P(i)
    <3>1. PICK j : j = req[r].inst
      OBVIOUS
    <3>2. /\ j \in Installations /\ UNCHANGED <<enrollments, credentials, audit>>
          /\ \A h \in Installations \ {j} : installations'[h] = installations[h]
          /\ installations'[j].status # "PENDING"
          /\ installations'[j].status \in {"ACTIVE", "SUSPENDED"} => Enrolled(j)
      BY <1>1, <2>2, <3>1, ChangeUpdateWrites
    <3>3. CASE i # j
      BY <3>2, <3>3
    <3>4. CASE i = j
      <4>1. installations[i].status = "PENDING" => ~Enrolled(i)
        BY <1>1, PendingNotEnrolled DEF IInv, DataSound
      <4>2. installations'[i].status \in Statuses
        BY <1>1, NextType DEF IInv, Typed, TypeOK, InstallationRow
      <4> QED
        BY <3>2, <3>4, <4>1, <4>2 DEF Statuses
    <3> QED
      BY <3>3, <3>4
  <2>3. ASSUME NEW r \in Requests, EnrollCommit(r) PROVE P(i)
    <3>1. PICK j, c, old : j = req[r].inst /\ c = req[r].code /\ old = req[r].cred
      OBVIOUS
    <3>2. /\ c \in Codes /\ enrollments[c].installation = j
          /\ installations[j].status = "PENDING" => enrollments[c].purpose = "INITIAL"
          /\ installations'[j].status \in {"ACTIVE", "SUSPENDED"}
          /\ installations[j].status = "PENDING" => installations'[j].status = "ACTIVE"
          /\ \A h \in Installations \ {j} : installations'[h] = installations[h]
      BY <1>1, <2>3, <3>1, EnrollCommitWrites
    <3>3. /\ enrollments'[c].installation = enrollments[c].installation
          /\ enrollments'[c].purpose = enrollments[c].purpose
          /\ enrollments'[c].consumed
      BY <1>1, <2>3, <3>1, EnrollCommitWrites
    <3>4. CASE i # j
      BY <3>2, <3>4
    <3>5. CASE i = j
      <4>1. installations[i].status = "PENDING" => ~Enrolled(i)
        BY <1>1, PendingNotEnrolled DEF IInv, DataSound
      <4>2. installations[i].status = "PENDING" => Enrolled(i)'
        BY <3>2, <3>3, <3>5 DEF Enrolled
      <4> QED
        BY <3>2, <3>5, <4>1, <4>2
    <3> QED
      BY <3>4, <3>5
  <2> QED
    BY <1>1, <2>1, <2>2, <2>3, Writers DEF Expire, IssueCommit, RevokeSave
<1>2. IInv /\ [Next]_vars => \A i \in Installations : P(i)
  BY <1>1
<1>3. (\A i \in Installations : P(i)) =>
        \A i \in Installations :
          LET old == installations[i].status
              new == installations'[i].status
          IN /\ new = "PENDING" => old = "PENDING"
             /\ old = "PENDING" /\ new # "PENDING"
                  => \/ new = "DECOMMISSIONED"
                     \/ new = "ACTIVE" /\ ~Enrolled(i) /\ Enrolled(i)'
  OBVIOUS
<1> QED
  BY <1>2, <1>3, AlwaysIInv, PTL DEF Spec, ActivationByEnrollment

-----------------------------------------------------------------------------
(* The handlers implement EnrollmentContract.                              *)

LEMMA TheOneOf ==
  /\ \A none : TheOne({}, none) = none
  /\ \A x, none : TheOne({x}, none) = x
  BY DEF TheOne

\* Seen through the contract, a step of the handlers offers a code, exchanges
\* one, withdraws a credential, or does nothing.
LEMMA NextImplements == IInv /\ [Next]_vars => [Contract!Next]_(Contract!cvars)
<1> SUFFICES ASSUME IInv, [Next]_vars PROVE [Contract!Next]_(Contract!cvars)
  OBVIOUS
<1> DEFINE offered == [i \in Installations |-> TheOne(OpenCodes(i), NoCode)]
           working == [i \in Installations |-> TheOne(ActiveCredentials(i), NoCredential)]
           given == {c \in Codes : Issued(c)}
           handed == {k \in Credentials : credentials[k].installation # NoInstallation}
<1>1. CASE UNCHANGED <<offered, working, given, handed>>
  BY <1>1 DEF Contract!cvars
<1>2. CASE UNCHANGED <<installations, enrollments, credentials>>
  <2>1. UNCHANGED <<offered, working, given, handed>>
    BY <1>2 DEF OpenCodes, ActiveCredentials, Open, Active, Issued
  <2> QED
    BY <1>1, <2>1
<1>3. ASSUME NEW c \in Codes, Expire(c)
      PROVE  UNCHANGED <<offered, working, given, handed>>
  <2>1. \A d \in Codes : /\ enrollments'[d].installation = enrollments[d].installation
                         /\ enrollments'[d].consumed = enrollments[d].consumed
                         /\ enrollments'[d].revoked = enrollments[d].revoked
    BY <1>3 DEF Expire, IInv, Typed, TypeOK, EnrollmentRow
  <2>2. \A d \in Codes : Open(d)' = Open(d) /\ Issued(d)' = Issued(d)
    BY <2>1 DEF Open, Issued
  <2>3. \A i \in Installations : OpenCodes(i)' = OpenCodes(i)
    BY <2>1, <2>2 DEF OpenCodes
  <2>4. UNCHANGED offered /\ UNCHANGED given
    BY <2>2, <2>3
  <2> QED
    BY <1>3, <2>4 DEF Expire, ActiveCredentials, Active
<1>4. ASSUME NEW r \in Requests, ChangeUpdate(r)
      PROVE  UNCHANGED <<offered, working, given, handed>>
  BY <1>4 DEF ChangeUpdate, OpenCodes, ActiveCredentials, Open, Active, Issued
<1>5. ASSUME NEW r \in Requests, RevokeSave(r)
      PROVE  [Contract!Next]_(Contract!cvars)
  <2>1. PICK i, k : i = req[r].inst /\ k = req[r].cred
    OBVIOUS
  <2>2. /\ k \in Credentials /\ i \in Installations
        /\ credentials[k].installation = i
        /\ UNCHANGED <<installations, enrollments, audit>>
        /\ \A l \in Credentials :
             /\ credentials'[l].installation = credentials[l].installation
             /\ l # k => credentials'[l] = credentials[l]
        /\ credentials[k].revoked => credentials'[k].revoked
        /\ credentials'[k].revoked
    BY <1>5, <2>1, RevokeSaveWrites
  <2>3. UNCHANGED <<offered, given, handed>>
    BY <2>2 DEF OpenCodes, Open, Issued
  <2>4. \A j \in Installations \ {i} : ActiveCredentials(j)' = ActiveCredentials(j)
    BY <2>2 DEF ActiveCredentials, Active
  <2>5. CASE credentials[k].revoked
    <3>1. \A j \in Installations : ActiveCredentials(j)' = ActiveCredentials(j)
      BY <2>2, <2>5 DEF ActiveCredentials, Active
    <3>2. UNCHANGED working
      BY <3>1
    <3> QED
      BY <1>1, <2>3, <3>2
  <2>6. CASE ~credentials[k].revoked
    <3>1. ActiveCredentials(i) = {k} /\ ActiveCredentials(i)' = {}
      BY <2>2, <2>6 DEF ActiveCredentials, Active, IInv, DataSound, Tables, OneActiveCredential
    <3>2. working[i] = k /\ working'[i] = NoCredential
      BY <2>2, <3>1, TheOneOf
    <3>3. working' = [working EXCEPT ![i] = NoCredential]
      BY <2>2, <2>4, <3>2
    <3>4. Contract!Withdraw(i)
      BY <2>2, <2>3, <3>2, <3>3 DEF Contract!Withdraw
    <3> QED
      BY <2>2, <3>4 DEF Contract!Next
  <2> QED
    BY <2>5, <2>6
<1>6. ASSUME NEW r \in Requests, IssueCommit(r)
      PROVE  Contract!Next
  <2>1. PICK i, new, prior : i = req[r].inst /\ new = req[r].code /\ prior = req[r].prior
    OBVIOUS
  <2>2. /\ i \in Installations /\ new \in Codes /\ prior # new
        /\ UNCHANGED <<installations, credentials, audit>>
        /\ ~Issued(new) /\ enrollments'[new].installation = i
        /\ ~enrollments'[new].consumed /\ ~enrollments'[new].revoked
    BY <1>6, <2>1, IssueCommitWrites
  <2>3. \A c \in Codes \ {new} :
          /\ enrollments'[c].installation = enrollments[c].installation
          /\ enrollments'[c].consumed = enrollments[c].consumed
          /\ c # prior => enrollments'[c] = enrollments[c]
          /\ c = prior => /\ Open(c) /\ enrollments[c].installation = i
                          /\ enrollments'[c].revoked
    BY <1>6, <2>1, IssueCommitWrites
  <2>4. \A c \in Codes : Open(c) /\ enrollments[c].installation = i => c = prior
    BY <1>6, <2>1, IssueCommitWrites
  <2>5. OpenCodes(i)' = {new}
    BY <2>2, <2>3, <2>4 DEF OpenCodes, Open, Issued
  <2>6. \A j \in Installations \ {i} : OpenCodes(j)' = OpenCodes(j)
    BY <2>2, <2>3 DEF OpenCodes, Open, Issued
  <2>7. offered' = [offered EXCEPT ![i] = new]
    BY <2>2, <2>5, <2>6, TheOneOf
  <2>8. new \notin given /\ given' = given \cup {new}
    BY <2>2, <2>3 DEF Issued
  <2>9. UNCHANGED <<working, handed>>
    BY <2>2 DEF ActiveCredentials, Active
  <2>10. Contract!Offer(i, new)
    BY <2>7, <2>8, <2>9 DEF Contract!Offer
  <2> QED
    BY <2>2, <2>10 DEF Contract!Next
<1>7. ASSUME NEW r \in Requests, EnrollCommit(r)
      PROVE  Contract!Next
  <2>1. PICK i, c, old : i = req[r].inst /\ c = req[r].code /\ old = req[r].cred
    OBVIOUS
  <2>2. /\ i \in Installations /\ c \in Codes
        /\ Open(c) /\ enrollments[c].installation = i
        /\ \A k \in Credentials : Active(k) /\ credentials[k].installation = i => k = old
    BY <1>7, <2>1, EnrollCommitWrites
  <2>3. /\ \A d \in Codes :
             /\ enrollments'[d].installation = enrollments[d].installation
             /\ enrollments'[d].revoked = enrollments[d].revoked
             /\ d # c => enrollments'[d] = enrollments[d]
        /\ enrollments'[c].consumed
    BY <1>7, <2>1, EnrollCommitWrites
  <2>4. PICK new \in Credentials :
          /\ credentials'[new].installation = i /\ ~credentials'[new].revoked
          /\ credentials[new].installation = NoInstallation
          /\ \A k \in Credentials \ {new} :
               /\ credentials'[k].installation = credentials[k].installation
               /\ k # old => credentials'[k] = credentials[k]
               /\ k = old => /\ credentials[k].installation = i
                             /\ credentials'[k].revoked
    BY <1>7, <2>1, EnrollCommitWrites
  <2>5. OpenCodes(i) = {c} /\ OpenCodes(i)' = {}
    BY <2>2, <2>3 DEF OpenCodes, Open, Issued, IInv, DataSound, Tables, OneOpenCode
  <2>6. \A j \in Installations \ {i} : OpenCodes(j)' = OpenCodes(j)
    BY <2>2, <2>3 DEF OpenCodes, Open, Issued
  <2>7. offered[i] # NoCode /\ offered' = [offered EXCEPT ![i] = NoCode]
    BY <2>2, <2>5, <2>6, TheOneOf
  <2>8. ActiveCredentials(i)' = {new}
    BY <2>2, <2>4 DEF ActiveCredentials, Active
  <2>9. \A j \in Installations \ {i} : ActiveCredentials(j)' = ActiveCredentials(j)
    BY <2>2, <2>4 DEF ActiveCredentials, Active
  <2>10. working' = [working EXCEPT ![i] = new]
    BY <2>2, <2>8, <2>9, TheOneOf
  <2>11. new \notin handed /\ handed' = handed \cup {new}
    BY <2>2, <2>4
  <2>12. UNCHANGED given
    BY <2>3 DEF Issued
  <2>13. Contract!Exchange(i, new)
    BY <2>7, <2>10, <2>11, <2>12 DEF Contract!Exchange
  <2> QED
    BY <2>2, <2>4, <2>13 DEF Contract!Next
<1> QED
  BY <1>1, <1>2, <1>3, <1>4, <1>5, <1>6, <1>7, Writers

\* The handlers, interleaved at every await and crashing anywhere, do what
\* EnrollmentContract says and nothing else: its codes and credentials take
\* each other's place in single steps.
THEOREM EnrollmentImplements == Spec => ImplementsContract
<1>1. ASSUME Init PROVE Contract!Init
  <2>1. /\ \A c \in Codes : ~Issued(c)
        /\ \A k \in Credentials : credentials[k].installation = NoInstallation
    BY <1>1 DEF Init, Issued, UnusedCode, UnusedCredential
  <2>2. \A i \in Installations : OpenCodes(i) = {} /\ ActiveCredentials(i) = {}
    BY <2>1 DEF OpenCodes, ActiveCredentials, Open, Active
  <2> QED
    BY <2>1, <2>2, TheOneOf DEF Contract!Init
<1> QED
  BY <1>1, NextImplements, AlwaysIInv, PTL DEF Spec, ImplementsContract, Contract!Spec
=============================================================================
