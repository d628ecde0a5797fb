----------------------------- MODULE Enrollment -----------------------------
(***************************************************************************)
(* The enrollment, credential and lifecycle handlers of an Installation,   *)
(* run by concurrent HTTP requests over one PostgreSQL database in READ    *)
(* COMMITTED isolation:                                                    *)
(*                                                                         *)
(*   IssueInstallationEnrollmentUseCase   IssueRequest .. IssueCommit      *)
(*   EnrollInstallationUseCase            EnrollRequest .. EnrollCommit    *)
(*   ChangeInstallationStatusUseCase      ChangeRead .. ChangeUpdate       *)
(*   RevokeInstallationCredentialUseCase  RevokeFind .. RevokeSave         *)
(*                                                                         *)
(* An action is what a handler does between two awaits that another        *)
(* request can tell apart.  The rows hold what is COMMITTED: what a        *)
(* transaction writes is applied by its commit step, from what its earlier *)
(* statements read.  A row lock belongs to the request whose transaction   *)
(* took it with SELECT ... FOR UPDATE or UPDATE, until it ends.            *)
(*                                                                         *)
(* Timestamps are abstracted to whether they are set (registeredAt,        *)
(* consumedAt, revokedAt) or have been passed (expiresAt).  The partial    *)
(* unique indexes on open codes and active credentials are left out on     *)
(* purpose: OneOpenCode and OneActiveCredential say that the handlers by   *)
(* themselves never run into them.                                         *)
(***************************************************************************)
EXTENDS InstallationStatus, FiniteSets

CONSTANTS Installations,   \* ids of Installations that have been created
          Codes,           \* ids the id generator can give to enrollments
          Credentials,     \* ids the id generator can give to credentials
          Requests,        \* HTTP requests the API can serve at one time
          Endpoints,       \* the endpoints clients call
          NoInstallation, NoCode, NoCredential, NoOne

ASSUME NoneAssumption == /\ NoInstallation \notin Installations
                         /\ NoCode \notin Codes
                         /\ NoCredential \notin Credentials
                         /\ NoOne \notin Requests

\* Installations and enrollments are rows of different tables.
ASSUME EndpointsAssumption ==
         Endpoints \subseteq {"issue", "enroll", "change", "revoke"}

ASSUME RowsAssumption == Installations \cap Codes = {}

VARIABLES installations,   \* table installations.installations
          enrollments,     \* table installations.installation_enrollments
          credentials,     \* table installations.installation_credentials
          audit,           \* the newest row of audit.audit_events, if any
          lock,            \* the request that holds the row lock, or NoOne
          req              \* the handler each request is in, and its locals

vars == <<installations, enrollments, credentials, audit, lock, req>>

-----------------------------------------------------------------------------
(* The domain. *)

Purposes == {"INITIAL", "RECOVERY"}
NoEvent == "NONE"
AuditActions == {"ENROLLMENT_ISSUED", "ENROLLMENT_CONSUMED",
                 "STATUS_CHANGED", "CREDENTIAL_REVOKED"}

AuditEvent == [action : AuditActions \cup {NoEvent},
               resource : Installations \cup {NoInstallation}]

NoAudit == [action |-> NoEvent, resource |-> NoInstallation]

EligibleStatuses(purpose) ==
  IF purpose = "INITIAL" THEN {"PENDING"} ELSE {"ACTIVE", "SUSPENDED"}

InstallationRow == [status : Statuses, registered : BOOLEAN]

EnrollmentRow == [installation : Installations \cup {NoInstallation},
                  purpose : Purposes,
                  consumed : BOOLEAN, revoked : BOOLEAN, expired : BOOLEAN]

\* "code" is the enrollment the credential was exchanged for: the table does
\* not keep it, the properties need it.
CredentialRow == [installation : Installations \cup {NoInstallation},
                  code : Codes \cup {NoCode}, revoked : BOOLEAN]

NewInstallation == [status |-> "PENDING", registered |-> FALSE]

UnusedCode == [installation |-> NoInstallation, purpose |-> "INITIAL",
               consumed |-> FALSE, revoked |-> FALSE, expired |-> FALSE]

UnusedCredential ==
  [installation |-> NoInstallation, code |-> NoCode, revoked |-> FALSE]

Issued(c) == enrollments[c].installation # NoInstallation

\* Faulty variants, named <definition>_<fault>, stand before the definition
\* they vary: each shows that some property notices the fault.
Consumable_TwiceOver(c) == ~enrollments[c].revoked /\ ~enrollments[c].expired

\* InstallationEnrollment.isConsumable
Consumable(c) == /\ ~enrollments[c].consumed
                 /\ ~enrollments[c].revoked
                 /\ ~enrollments[c].expired

FoundOpen_Unexpired(c, i) == enrollments[c].installation = i /\ Consumable(c)

FoundOpen_AnyInstallation(c, i) == /\ Issued(c)
                                   /\ ~enrollments[c].consumed
                                   /\ ~enrollments[c].revoked

\* The predicate of findOpenEnrollmentByInstallationId: expiry plays no part.
FoundOpen(c, i) == /\ enrollments[c].installation = i
                   /\ ~enrollments[c].consumed
                   /\ ~enrollments[c].revoked

FoundActive_OfActiveOnly(k, i) == /\ credentials[k].installation = i
                                  /\ ~credentials[k].revoked
                                  /\ installations[i].status = "ACTIVE"

\* The predicate of findActiveCredentialByInstallationId.
FoundActive(k, i) == credentials[k].installation = i /\ ~credentials[k].revoked

-----------------------------------------------------------------------------
(* Requests. *)

PCs == {"idle",
        "IssueLock", "IssueFind", "IssueRevoke", "IssueCommit",
        "EnrollLock", "EnrollVerify", "EnrollReaders", "EnrollCommit",
        "ChangeSelect", "ChangeUpdate", "RevokeSave", "Audit"}

Request == [pc : PCs,
            inst : Installations \cup {NoInstallation},
            purpose : Purposes,
            code : Codes \cup {NoCode},           \* issued or presented
            prior : Codes \cup {NoCode},          \* the open one to revoke
            cred : Credentials \cup {NoCredential}, \* the active one found
            row : InstallationRow,                \* the domain object
            base : InstallationRow,               \* what save() diffs against
            act : AuditActions]                   \* what is left to record

Idle == [pc |-> "idle", inst |-> NoInstallation, purpose |-> "INITIAL",
         code |-> NoCode, prior |-> NoCode, cred |-> NoCredential,
         row |-> NewInstallation, base |-> NewInstallation,
         act |-> "STATUS_CHANGED"]

\* Request r goes on as x says; no other request moves.
Becomes(r, x) == req' = [req EXCEPT ![r] = x]

ToAudit_Purpose(r, act) ==
  [Idle EXCEPT !.pc = "Audit", !.inst = req[r].inst, !.act = req[r].purpose]

\* What is left of a request whose use case has committed: an audit record.
ToAudit(r, act) == [Idle EXCEPT !.pc = "Audit", !.inst = req[r].inst, !.act = act]

Rows == Installations \cup Codes

Free(x, r) == lock[x] \in {NoOne, r}

Acquire(x, r) == Free(x, r) /\ lock' = [lock EXCEPT ![x] = r]

Released(r) == [x \in Rows |-> IF lock[x] = r THEN NoOne ELSE lock[x]]

Rollback_Audited(r) ==
  /\ lock' = Released(r)
  /\ Becomes(r, IF req[r].pc = "EnrollVerify"
                THEN ToAudit(r, "ENROLLMENT_CONSUMED") ELSE Idle)
  /\ UNCHANGED <<installations, enrollments, credentials, audit>>

Rollback_KeepsLocks(r) ==
  /\ Becomes(r, Idle)
  /\ UNCHANGED <<installations, enrollments, credentials, audit, lock>>

\* The use case throws, or returns, without having changed a row: an open
\* transaction is rolled back.
Rollback(r) == /\ lock' = Released(r)
               /\ Becomes(r, Idle)
               /\ UNCHANGED <<installations, enrollments, credentials, audit>>
-----------------------------------------------------------------------------
(* IssueInstallationEnrollmentUseCase: POST .../enrollment and .../recovery. *)

\* A fresh id, which idGenerator never gives twice, is set aside on arrival.
IssueRequest(r, i, p, c) ==
  /\ req[r].pc = "idle"
  /\ ~Issued(c) /\ \A q \in Requests : req[q].code # c
  /\ Becomes(r, [Idle EXCEPT !.pc = "IssueLock", !.inst = i, !.purpose = p,
                             !.code = c])
  /\ UNCHANGED <<installations, enrollments, credentials, audit, lock>>

\* findInstallationForUpdate, then the eligibility of the locked row.
IssueLock(r) ==
  LET i == req[r].inst IN
  /\ req[r].pc = "IssueLock"
  /\ Free(i, r)
  /\ \/ /\ installations[i].status \in EligibleStatuses(req[r].purpose)
        /\ Acquire(i, r)
        /\ Becomes(r, [req[r] EXCEPT !.pc = "IssueFind"])
        /\ UNCHANGED <<installations, enrollments, credentials, audit>>
     \/ /\ installations[i].status \notin EligibleStatuses(req[r].purpose)
        /\ Rollback(r)

\* findOpenEnrollmentByInstallationId: a plain read inside the transaction.
IssueFind(r) ==
  LET open == {c \in Codes : FoundOpen(c, req[r].inst)} IN
  /\ req[r].pc = "IssueFind"
  /\ \/ /\ open = {}
        /\ Becomes(r, [req[r] EXCEPT !.pc = "IssueCommit"])
     \/ \E c \in open :
          Becomes(r, [req[r] EXCEPT !.pc = "IssueRevoke", !.prior = c])
  /\ UNCHANGED <<installations, enrollments, credentials, audit, lock>>

\* The UPDATE that revokes the prior open enrollment takes its row lock.
IssueRevoke(r) ==
  /\ req[r].pc = "IssueRevoke"
  /\ Acquire(req[r].prior, r)
  /\ Becomes(r, [req[r] EXCEPT !.pc = "IssueCommit"])
  /\ UNCHANGED <<installations, enrollments, credentials, audit>>

\* The prior code comes out revoked and the new one open, in one commit.
IssueCommit(r) ==
  /\ req[r].pc = "IssueCommit"
  /\ enrollments' =
       [c \in Codes |->
          IF c = req[r].code
          THEN [UnusedCode EXCEPT !.installation = req[r].inst,
                                  !.purpose = req[r].purpose]
          ELSE IF c = req[r].prior THEN [enrollments[c] EXCEPT !.revoked = TRUE]
          ELSE enrollments[c]]
  /\ lock' = Released(r)
  /\ Becomes(r, ToAudit(r, "ENROLLMENT_ISSUED"))
  /\ UNCHANGED <<installations, credentials, audit>>

-----------------------------------------------------------------------------
(* EnrollInstallationUseCase: POST /installation-auth/enroll.              *)

EnrollLockOrder_CodeFirst(r) == <<req[r].code, req[r].inst>>

\* The order in which the two rows are locked.
EnrollLockOrder(r) == <<req[r].inst, req[r].code>>

\* Phase 1: an unlocked read tells which Installation to lock.
EnrollRequest(r, c) ==
  /\ req[r].pc = "idle"
  /\ Issued(c)
  /\ Becomes(r, [Idle EXCEPT !.pc = "EnrollLock", !.code = c,
                             !.inst = enrollments[c].installation])
  /\ UNCHANGED <<installations, enrollments, credentials, audit, lock>>

EnrollLock_PlainRead(r) ==
  /\ req[r].pc = "EnrollLock"
  /\ Becomes(r, [req[r] EXCEPT !.pc = "EnrollVerify",
                             !.row = installations[req[r].inst]])
  /\ UNCHANGED <<installations, enrollments, credentials, audit, lock>>

\* Phase 2, first statement: findInstallationForUpdate.
EnrollLock(r) ==
  /\ req[r].pc = "EnrollLock"
  /\ Acquire(EnrollLockOrder(r)[1], r)
  /\ Becomes(r, [req[r] EXCEPT !.pc = "EnrollVerify",
                             !.row = installations[req[r].inst]])
  /\ UNCHANGED <<installations, enrollments, credentials, audit>>

\* findEnrollmentForUpdate and the checks on the locked rows.  A presented
\* secret may also fail to match the hash: the rollback is always possible.
EnrollVerify(r) ==
  LET c == req[r].code IN
  /\ req[r].pc = "EnrollVerify"
  /\ Free(EnrollLockOrder(r)[2], r)
  /\ \/ /\ Consumable(c)
        /\ req[r].row.status \in EligibleStatuses(enrollments[c].purpose)
        /\ Acquire(EnrollLockOrder(r)[2], r)
        /\ Becomes(r, [req[r] EXCEPT !.pc = "EnrollReaders"])
        /\ UNCHANGED <<installations, enrollments, credentials, audit>>
     \/ Rollback(r)

\* The Customer and License readers answer from other bounded contexts; then
\* findActiveCredentialByInstallationId, a plain read in the transaction.
EnrollReaders(r) ==
  LET active == {k \in Credentials : FoundActive(k, req[r].inst)} IN
  /\ req[r].pc = "EnrollReaders"
  /\ \/ /\ \/ /\ active = {}
              /\ Becomes(r, [req[r] EXCEPT !.pc = "EnrollCommit"])
           \/ \E k \in active :
                Becomes(r, [req[r] EXCEPT !.pc = "EnrollCommit", !.cred = k])
        /\ UNCHANGED <<installations, enrollments, credentials, audit, lock>>
     \/ Rollback(r)

\* Installation.activate runs for an INITIAL code on a PENDING Installation.
Activates(r) == /\ enrollments[req[r].code].purpose = "INITIAL"
                /\ req[r].row.status = "PENDING"

\* Code consumed, Installation activated, old credential revoked and new one
\* issued become visible together.
EnrollCommit(r) ==
  LET i == req[r].inst
      c == req[r].code
  IN
  /\ req[r].pc = "EnrollCommit"
  /\ enrollments' = [enrollments EXCEPT ![c].consumed = TRUE]
  /\ installations' =
       IF Activates(r)
       THEN [installations EXCEPT ![i] = [status |-> "ACTIVE", registered |-> TRUE]]
       ELSE installations
  /\ \E new \in Credentials :
       /\ credentials[new] = UnusedCredential
       /\ credentials' =
            [k \in Credentials |->
               IF k = new THEN [installation |-> i, code |-> c, revoked |-> FALSE]
               ELSE IF k = req[r].cred THEN [credentials[k] EXCEPT !.revoked = TRUE]
               ELSE credentials[k]]
  /\ lock' = Released(r)
  /\ Becomes(r, ToAudit(r, "ENROLLMENT_CONSUMED"))
  /\ UNCHANGED audit

-----------------------------------------------------------------------------
(* ChangeInstallationStatusUseCase: no lock between the read and the save. *)

\* findById and Installation.changeStatus; a refused transition throws.
ChangeRead(r, i, s) ==
  /\ req[r].pc = "idle"
  /\ <<installations[i].status, s>> \in AdminTransitions
  /\ Becomes(r, [Idle EXCEPT !.pc = "ChangeSelect", !.inst = i,
                             !.row = [installations[i] EXCEPT !.status = s]])
  /\ UNCHANGED <<installations, enrollments, credentials, audit, lock>>

\* repository.save() first selects the row it is going to diff against.
ChangeSelect(r) ==
  /\ req[r].pc = "ChangeSelect"
  /\ Becomes(r, [req[r] EXCEPT !.pc = "ChangeUpdate",
                             !.base = installations[req[r].inst]])
  /\ UNCHANGED <<installations, enrollments, credentials, audit, lock>>

\* Then updates the columns that differ, once no transaction holds the row.
ChangeUpdate(r) ==
  LET i == req[r].inst
      row == req[r].row
      base == req[r].base
      Column(written, selected, current) ==
        IF written # selected THEN written ELSE current
  IN
  /\ req[r].pc = "ChangeUpdate"
  /\ Free(i, r)
  /\ installations' =
       [installations EXCEPT ![i] =
          [status |-> Column(row.status, base.status, @.status),
           registered |-> Column(row.registered, base.registered, @.registered)]]
  /\ Becomes(r, ToAudit(r, "STATUS_CHANGED"))
  /\ UNCHANGED <<enrollments, credentials, audit, lock>>

-----------------------------------------------------------------------------
(* RevokeInstallationCredentialUseCase: no lock either.                    *)

\* findActiveByInstallationId; with no active credential nothing happens.
RevokeFind(r, i) ==
  /\ req[r].pc = "idle"
  /\ \E k \in Credentials :
       /\ FoundActive(k, i)
       /\ Becomes(r, [Idle EXCEPT !.pc = "RevokeSave", !.inst = i, !.cred = k])
  /\ UNCHANGED <<installations, enrollments, credentials, audit, lock>>

RevokeSave(r) ==
  /\ req[r].pc = "RevokeSave"
  /\ credentials' = [credentials EXCEPT ![req[r].cred].revoked = TRUE]
  /\ Becomes(r, ToAudit(r, "CREDENTIAL_REVOKED"))
  /\ UNCHANGED <<installations, enrollments, audit, lock>>

-----------------------------------------------------------------------------
(* What surrounds the handlers.                                            *)

\* auditRecorder.record, after the commit; a failed insert is swallowed.
Audit(r) ==
  /\ req[r].pc = "Audit"
  /\ \/ audit' = [action |-> req[r].act, resource |-> req[r].inst]
     \/ UNCHANGED audit
  /\ Becomes(r, Idle)
  /\ UNCHANGED <<installations, enrollments, credentials, lock>>

\* The API process, or its connection, dies: PostgreSQL rolls back.
Crash(r) == req[r].pc # "idle" /\ Rollback(r)

\* The clock passes expiresAt of a code that is still open.
Expire(c) ==
  /\ Issued(c) /\ Consumable(c)
  /\ enrollments' = [enrollments EXCEPT ![c].expired = TRUE]
  /\ UNCHANGED <<installations, credentials, audit, lock, req>>

Init ==
  /\ installations = [i \in Installations |-> NewInstallation]
  /\ enrollments = [c \in Codes |-> UnusedCode]
  /\ credentials = [k \in Credentials |-> UnusedCredential]
  /\ audit = NoAudit
  /\ lock = [x \in Rows |-> NoOne]
  /\ req = [r \in Requests |-> Idle]

Arrive(r) ==
  \/ /\ "issue" \in Endpoints
     /\ \E i \in Installations, p \in Purposes, c \in Codes : IssueRequest(r, i, p, c)
  \/ "enroll" \in Endpoints /\ \E c \in Codes : EnrollRequest(r, c)
  \/ /\ "change" \in Endpoints
     /\ \E i \in Installations, s \in Statuses : ChangeRead(r, i, s)
  \/ "revoke" \in Endpoints /\ \E i \in Installations : RevokeFind(r, i)

\* The steps that may have to wait for the row lock of an Installation.
WaitForInstallation(r) == IssueLock(r) \/ EnrollLock(r) \/ ChangeUpdate(r)

Continue(r) ==
  \/ IssueFind(r) \/ IssueRevoke(r) \/ IssueCommit(r)
  \/ EnrollVerify(r) \/ EnrollReaders(r) \/ EnrollCommit(r)
  \/ ChangeSelect(r) \/ RevokeSave(r) \/ Audit(r)

Next ==
  \/ \E r \in Requests : Arrive(r) \/ WaitForInstallation(r) \/ Continue(r) \/ Crash(r)
  \/ \E c \in Codes : Expire(c)

Spec == Init /\ [][Next]_vars

\* A handler that is not waiting goes on (the event loop runs every promise),
\* and PostgreSQL queues the waiters of a row lock: none is passed over for
\* ever.  Nothing makes a client send a request, a process crash or time pass.
Fairness == \A r \in Requests : /\ WF_vars(Continue(r))
                                /\ SF_vars(WaitForInstallation(r))

FairSpec == Spec /\ Fairness

-----------------------------------------------------------------------------
(* Properties.                                                             *)

TypeOK ==
  /\ installations \in [Installations -> InstallationRow]
  /\ enrollments \in [Codes -> EnrollmentRow]
  /\ credentials \in [Credentials -> CredentialRow]
  /\ audit \in AuditEvent
  /\ lock \in [Rows -> Requests \cup {NoOne}]
  /\ req \in [Requests -> Request]

Open(c) == Issued(c) /\ ~enrollments[c].consumed /\ ~enrollments[c].revoked

Active(k) ==
  credentials[k].installation # NoInstallation /\ ~credentials[k].revoked

\* However issuances and enrollments interleave, an Installation never has two
\* open codes: the unique index behind IssueCommit is never hit.
OneOpenCode ==
  \A c, d \in Codes :
    Open(c) /\ Open(d) /\ enrollments[c].installation = enrollments[d].installation
      => c = d

\* Nor two working credentials, whatever admins revoke meanwhile: the unique
\* index behind EnrollCommit is never hit.
OneActiveCredential ==
  \A k, l \in Credentials :
    Active(k) /\ Active(l) /\ credentials[k].installation = credentials[l].installation
      => k = l

\* A code is exchanged at most once, however often it is presented at the same
\* time, for a credential of its own Installation; and it is spent exactly when
\* that credential exists, even if the process dies in between.
CodeBuysOneCredential ==
  /\ \A k, l \in Credentials :
       credentials[k].code = credentials[l].code /\ credentials[k].code # NoCode
         => k = l
  /\ \A c \in Codes : enrollments[c].consumed
                        <=> \E k \in Credentials : credentials[k].code = c
  /\ \A k \in Credentials : \A c \in Codes :
       credentials[k].code = c
         => credentials[k].installation = enrollments[c].installation

\* A code replaced by a newer one is not exchanged, and an exchanged code is
\* not revoked by an issuance that found it open before.
ConsumedOrRevoked ==
  \A c \in Codes : ~(enrollments[c].consumed /\ enrollments[c].revoked)

Enrolled(i) ==
  \E c \in Codes : /\ enrollments[c].installation = i
                   /\ enrollments[c].purpose = "INITIAL"
                   /\ enrollments[c].consumed

\* However stale the row a status change saves: an Installation operates, or is
\* offered a recovery code, only after its initial code was consumed; and as
\* long as it is PENDING it has been given nothing.
OperatesAfterEnrollment ==
  \A i \in Installations :
    /\ installations[i].status \in {"ACTIVE", "SUSPENDED"} => Enrolled(i)
    /\ \A c \in Codes :
         enrollments[c].installation = i /\ enrollments[c].purpose = "RECOVERY"
           => Enrolled(i)
    /\ installations[i].status = "PENDING"
         => /\ ~installations[i].registered
            /\ \A k \in Credentials : credentials[k].installation # i

\* An Installation is enrolled for the first time once.
FirstEnrollmentOnce ==
  \A c, d \in Codes :
    /\ enrollments[c].installation = enrollments[d].installation
    /\ enrollments[c].purpose = "INITIAL" /\ enrollments[c].consumed
    /\ enrollments[d].purpose = "INITIAL" /\ enrollments[d].consumed
    => c = d

\* Per Installation: at most one code that could be exchanged, a code that ends
\* in one way only, and one first enrollment.
CodesInOrder == OneOpenCode /\ ConsumedOrRevoked /\ FirstEnrollmentOnce

\* The audit trail names nothing that did not commit: record() runs only after
\* runExclusive has resolved.
AuditTruthful ==
  /\ audit.action = "ENROLLMENT_ISSUED"
       => \E c \in Codes : enrollments[c].installation = audit.resource
  /\ audit.action = "ENROLLMENT_CONSUMED"
       => \E c \in Codes : enrollments[c].installation = audit.resource
                             /\ enrollments[c].consumed
  /\ audit.action = "CREDENTIAL_REVOKED"
       => \E k \in Credentials : credentials[k].installation = audit.resource
                                   /\ credentials[k].revoked
  /\ audit.action = "STATUS_CHANGED"
       => installations[audit.resource].status # "PENDING"

\* The rows whose lock the next step of request r needs.
Wants(r) ==
  CASE req[r].pc \in {"IssueLock", "ChangeUpdate"} -> {req[r].inst}
    [] req[r].pc = "EnrollLock" -> {EnrollLockOrder(r)[1]}
    [] req[r].pc = "EnrollVerify" -> {EnrollLockOrder(r)[2]}
    [] req[r].pc = "IssueRevoke" -> {req[r].prior}
    [] OTHER -> {}

WaitsFor(r, q) == \E x \in Wants(r) : lock[x] = q /\ q # r

\* Requests never wait for each other's row locks in a circle: locking the
\* Installation first, in both transactions, removes the deadlock class.
DeadlockFree ==
  \A S \in SUBSET Requests :
    S # {} => \E r \in S : \A q \in S : ~WaitsFor(r, q)

\* A credential is only ever issued to an Installation that is ACTIVE or
\* SUSPENDED at that moment: a decommissioning waits for the enrollment it
\* overtook, and an enrollment sees a decommissioning it waited for.
CredentialWhileOperating ==
  [][\A k \in Credentials :
       Active(k)' /\ ~Active(k)
         => installations'[credentials'[k].installation].status
              \in {"ACTIVE", "SUSPENDED"}]_vars

\* An Installation leaves PENDING by being decommissioned, or by a step that
\* consumes its initial code, and never comes back: no administrative save,
\* stale or not, reaches ACTIVE from PENDING.
ActivationByEnrollment ==
  [][\A i \in Installations :
       LET old == installations[i].status
           new == installations'[i].status
       IN /\ new = "PENDING" => old = "PENDING"
          /\ old = "PENDING" /\ new # "PENDING"
               => \/ new = "DECOMMISSIONED"
                  \/ new = "ACTIVE" /\ ~Enrolled(i) /\ Enrolled(i)']_vars

\* Every request is answered: no handler keeps a row lock others wait for.
Answered == \A r \in Requests : req[r].pc # "idle" ~> req[r].pc = "idle"

OpenCodes(i) == {c \in Codes : Open(c) /\ enrollments[c].installation = i}

ActiveCredentials(i) ==
  {k \in Credentials : Active(k) /\ credentials[k].installation = i}

TheOne(S, none) == IF S = {} THEN none ELSE CHOOSE x \in S : TRUE

\* Seen from the outside: at most one code on offer and one working credential
\* per Installation, exchanged for one another in single steps.
Contract == INSTANCE EnrollmentContract WITH
  offered <- [i \in Installations |-> TheOne(OpenCodes(i), NoCode)],
  working <- [i \in Installations |-> TheOne(ActiveCredentials(i), NoCredential)],
  given <- {c \in Codes : Issued(c)},
  handed <- {k \in Credentials : credentials[k].installation # NoInstallation}

\* The handlers, interleaved and crashing, implement that contract.
ImplementsContract == Contract!Spec

\* What the comment of installation-status.ts says: DECOMMISSIONED is terminal.
DecommissionedIsTerminal ==
  [][\A i \in Installations :
       installations[i].status = "DECOMMISSIONED"
         => installations'[i].status = "DECOMMISSIONED"]_vars

=============================================================================
