---------------------------- MODULE EnrollmentInv ----------------------------
(***************************************************************************)
(* What holds of Enrollment between the steps of a handler: the facts that *)
(* make its safety properties inductive.  Each conjunct says what a        *)
(* request may rely on at a program counter because of the row locks it    *)
(* holds there, or what a stale read still guarantees without them.        *)
(***************************************************************************)
EXTENDS Enrollment

Issuing == {"IssueLock", "IssueFind", "IssueRevoke", "IssueCommit"}
Enrolling == {"EnrollLock", "EnrollVerify", "EnrollReaders", "EnrollCommit"}
Changing == {"ChangeSelect", "ChangeUpdate"}

InstallationLocked == {"IssueFind", "IssueRevoke", "IssueCommit",
                       "EnrollVerify", "EnrollReaders", "EnrollCommit"}

\* The locals a handler uses are set when it uses them.
Fits(x) ==
  /\ x.pc # "idle" => x.inst \in Installations
  /\ x.pc \in Issuing \cup Enrolling => x.code \in Codes
  /\ x.pc \in {"IssueLock", "IssueFind"} => x.prior = NoCode
  /\ x.pc = "IssueRevoke" => x.prior \in Codes
  /\ x.pc \in {"EnrollLock", "EnrollVerify", "EnrollReaders"} => x.cred = NoCredential
  /\ x.pc = "RevokeSave" => x.cred \in Credentials

LocalsSet == \A r \in Requests : Fits(req[r])

\* The rows whose lock a request with these locals holds: its Installation's
\* first, then that of the code it revokes or consumes.
Holding(x) ==
  {i \in Installations : x.pc \in InstallationLocked /\ i = x.inst}
    \cup {c \in Codes : \/ x.pc = "IssueCommit" /\ c = x.prior
                        \/ x.pc \in {"EnrollReaders", "EnrollCommit"} /\ c = x.code}

\* A row lock is held exactly where the handler is between taking it and the
\* end of its transaction.
LocksHeld == \A r \in Requests : \A x \in Rows : lock[x] = r <=> x \in Holding(req[r])

\* A row that was never inserted is blank.
BlankRows ==
  /\ \A c \in Codes : ~Issued(c) => enrollments[c] = UnusedCode
  /\ \A k \in Credentials :
       credentials[k].installation = NoInstallation => credentials[k] = UnusedCredential
  /\ \A k \in Credentials :
       credentials[k].code = NoCode => credentials[k] = UnusedCredential

\* No two issuances under way were given the same fresh id.
FreshCodes ==
  \A r, q \in Requests :
    req[r].pc \in Issuing /\ req[q].pc \in Issuing /\ req[r].code = req[q].code
      => r = q

\* What a request with locals x may rely on, between its steps.

\* An issuance owns its fresh id; under the lock its Installation stays
\* eligible, and the open code it found stays the only one there is.
IssueRelies(x) ==
  /\ x.pc \in Issuing => ~Issued(x.code)
  /\ x.pc \in {"IssueFind", "IssueRevoke", "IssueCommit"}
       => installations[x.inst].status \in EligibleStatuses(x.purpose)
  /\ x.pc \in {"IssueRevoke", "IssueCommit"}
       => /\ \A c \in Codes : Open(c) /\ enrollments[c].installation = x.inst
                                => c = x.prior
          /\ x.prior # NoCode
               => Open(x.prior) /\ enrollments[x.prior].installation = x.inst

\* An enrollment works for the Installation of its code; what it read and
\* verified under the locks is still so when it commits.
EnrollRelies(x) ==
  /\ x.pc \in Enrolling
       => Issued(x.code) /\ enrollments[x.code].installation = x.inst
  /\ x.pc \in {"EnrollVerify", "EnrollReaders", "EnrollCommit"}
       => x.row = installations[x.inst]
  /\ x.pc \in {"EnrollReaders", "EnrollCommit"}
       => /\ Open(x.code)
          /\ x.row.status \in EligibleStatuses(enrollments[x.code].purpose)
  /\ x.pc = "EnrollCommit"
       => /\ \A k \in Credentials :
               Active(k) /\ credentials[k].installation = x.inst => k = x.cred
          /\ x.cred # NoCredential => credentials[x.cred].installation = x.inst

\* The row a status change is about to save may be stale, but its target was
\* legal once: never PENDING, and operating only after enrollment.
ChangeRelies(x) ==
  /\ x.pc \in Changing
       => /\ x.row.status # "PENDING"
          /\ x.row.status \in {"ACTIVE", "SUSPENDED"} => Enrolled(x.inst)
  /\ x.pc = "ChangeUpdate" /\ x.base.status # "PENDING"
       => installations[x.inst].status # "PENDING"

\* The credential a revocation found is still one of its Installation.
RevokeRelies(x) ==
  x.pc = "RevokeSave" => credentials[x.cred].installation = x.inst

\* What an audit record of this action on Installation i says has happened.
Committed(action, i) ==
  /\ action = "ENROLLMENT_ISSUED"
       => \E c \in Codes : enrollments[c].installation = i
  /\ action = "ENROLLMENT_CONSUMED"
       => \E c \in Codes : enrollments[c].installation = i /\ enrollments[c].consumed
  /\ action = "CREDENTIAL_REVOKED"
       => \E k \in Credentials : credentials[k].installation = i /\ credentials[k].revoked
  /\ action = "STATUS_CHANGED" => installations[i].status # "PENDING"

\* A request that is left with its record to write has committed.
AuditRelies(x) == x.pc = "Audit" => Committed(x.act, x.inst)

Sound(x) == /\ IssueRelies(x) /\ EnrollRelies(x) /\ ChangeRelies(x)
            /\ RevokeRelies(x) /\ AuditRelies(x)

AllSound == \A r \in Requests : Sound(req[r])

\* The newest record, if there is one, is of something that has happened.
AuditSound == \/ audit = NoAudit
              \/ audit.resource \in Installations /\ Committed(audit.action, audit.resource)

\* What the rows alone satisfy.
Tables == /\ BlankRows
          /\ OneOpenCode /\ OneActiveCredential /\ CodeBuysOneCredential
          /\ ConsumedOrRevoked /\ OperatesAfterEnrollment /\ FirstEnrollmentOnce

DataSound == FreshCodes /\ AllSound /\ AuditSound /\ Tables

\* TypeOK alone is not inductive: that a handler reads the row of an
\* Installation, and not of NoInstallation, needs LocalsSet.
Typed == TypeOK /\ LocalsSet

IInv == Typed /\ LocksHeld /\ DataSound

=============================================================================
