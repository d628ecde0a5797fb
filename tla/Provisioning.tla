---------------------------- MODULE Provisioning ----------------------------
(***************************************************************************)
(* The creation of Installations under Licenses of limited capacity, next  *)
(* to the status changes that give capacity back, run by concurrent HTTP   *)
(* requests over PostgreSQL in READ COMMITTED isolation.                   *)
(*                                                                         *)
(*   CreateInstallationUseCase         CreateRequest .. CreateAudit        *)
(*   ChangeInstallationStatusUseCase   ChangeRead .. ChangeUpdate          *)
(*   Installation.activate             Activate (see Enrollment)           *)
(*                                                                         *)
(* Rows hold what is COMMITTED.  "lock" covers what one creation can make  *)
(* another wait for: the advisory lock of a License and, once a row is     *)
(* inserted but not committed, its entry in the unique index on codes.     *)
(* The Customer and License readers, which may refuse a creation before    *)
(* any of this, belong to other components: a refused request leaves no    *)
(* trace.                                                                  *)
(***************************************************************************)
EXTENDS InstallationStatus, Naturals, FiniteSets

CONSTANTS Ids,                \* what the id generator can give
          InstallationCodes,  \* the codes administrators choose
          Licenses,
          MaxInstallations,   \* capacity of each License, fixed for its life
          Targets,            \* the statuses administrators change to
          Requests,           \* HTTP requests the API can serve at one time
          NoLicense, NoCode, NoId, NoOne

ASSUME CapacityAssumption == MaxInstallations \in [Licenses -> Nat]

ASSUME TargetsAssumption == Targets \subseteq Statuses

ASSUME NoneAssumption == /\ NoLicense \notin Licenses
                         /\ NoCode \notin InstallationCodes
                         /\ NoId \notin Ids
                         /\ NoOne \notin Requests

\* A license id and an installation code are keys of different locks.
ASSUME KeysAssumption == Licenses \cap InstallationCodes = {}

VARIABLES installations,   \* table installations.installations
          recorded,        \* Installations the audit trail says were created
          lock,            \* the request that holds a lock, or NoOne
          req              \* the handler each request is in, and its locals

vars == <<installations, recorded, lock, req>>

-----------------------------------------------------------------------------
(* Rows and requests. *)

InstallationRow == [license : Licenses \cup {NoLicense},
                    code : InstallationCodes \cup {NoCode},
                    status : Statuses]

NoInstallation == [license |-> NoLicense, code |-> NoCode, status |-> "PENDING"]

\* Faulty variants, named <definition>_<fault>, stand before the definition
\* they vary: each shows that some property notices the fault.
NewInstallation_Swapped(l, code) ==
  [license |-> code, code |-> l, status |-> "PENDING"]

\* Installation.create
NewInstallation(l, code) == [license |-> l, code |-> code, status |-> "PENDING"]

Exists(i) == installations[i].license # NoLicense

\* What countNonDecommissionedByLicense counts.
Seats(l) == {i \in Ids : /\ installations[i].license = l
                         /\ installations[i].status # "DECOMMISSIONED"}

CodeTaken(code) == \E i \in Ids : installations[i].code = code

PCs == {"idle", "CreateLock", "CreateCount", "CreateFind", "CreateSave",
        "CreateCommit", "CreateAudit", "ChangeSelect", "ChangeUpdate"}

Request == [pc : PCs,
            id : Ids \cup {NoId},
            license : Licenses \cup {NoLicense},
            code : InstallationCodes \cup {NoCode},
            status : Statuses,     \* what the domain object says
            base : Statuses]       \* what save() diffs it against

Idle == [pc |-> "idle", id |-> NoId, license |-> NoLicense, code |-> NoCode,
         status |-> "PENDING", base |-> "PENDING"]

Becomes(r, x) == req' = [req EXCEPT ![r] = x]

Goes(r, pc) == Becomes(r, [req[r] EXCEPT !.pc = pc])

Keys == Licenses \cup InstallationCodes

Free(k, r) == lock[k] \in {NoOne, r}

Acquire(k, r) == Free(k, r) /\ lock' = [lock EXCEPT ![k] = r]

Released(r) == [k \in Keys |-> IF lock[k] = r THEN NoOne ELSE lock[k]]

Rollback_KeepsLocks(r) ==
  Becomes(r, Idle) /\ UNCHANGED <<installations, recorded, lock>>

\* The use case throws: nothing the transaction wrote is kept.
Rollback(r) == /\ lock' = Released(r)
               /\ Becomes(r, Idle)
               /\ UNCHANGED <<installations, recorded>>

-----------------------------------------------------------------------------
(* CreateInstallationUseCase: POST /installations.                         *)

\* The readers have agreed, the domain object with its fresh id is made.
CreateRequest(r, i, l, code) ==
  /\ req[r].pc = "idle"
  /\ ~Exists(i) /\ \A q \in Requests : req[q].id # i
  /\ Becomes(r, [Idle EXCEPT !.pc = "CreateLock", !.id = i, !.license = l,
                             !.code = code])
  /\ UNCHANGED <<installations, recorded, lock>>

CreateLock_Unlocked(r) ==
  /\ req[r].pc = "CreateLock"
  /\ Goes(r, "CreateCount")
  /\ UNCHANGED <<installations, recorded, lock>>

\* pg_advisory_xact_lock
CreateLock(r) ==
  /\ req[r].pc = "CreateLock"
  /\ Acquire(req[r].license, r)
  /\ Goes(r, "CreateCount")
  /\ UNCHANGED <<installations, recorded>>

CreateCount_OffByOne(r) ==
  LET l == req[r].license
      full == Cardinality(Seats(l)) > MaxInstallations[l]
  IN /\ req[r].pc = "CreateCount"
     /\ \/ full /\ Rollback(r)
        \/ ~full /\ Goes(r, "CreateFind") /\ UNCHANGED <<installations, recorded, lock>>

\* countNonDecommissionedByLicense, else LicenseCapacityExceededError.
CreateCount(r) ==
  LET l == req[r].license
      full == Cardinality(Seats(l)) >= MaxInstallations[l]
  IN /\ req[r].pc = "CreateCount"
     /\ \/ full /\ Rollback(r)
        \/ ~full /\ Goes(r, "CreateFind") /\ UNCHANGED <<installations, recorded, lock>>

\* findInstallationByCode, else InstallationCodeAlreadyExistsError.
CreateFind(r) ==
  /\ req[r].pc = "CreateFind"
  /\ \/ CodeTaken(req[r].code) /\ Rollback(r)
     \/ /\ ~CodeTaken(req[r].code)
        /\ Goes(r, "CreateSave")
        /\ UNCHANGED <<installations, recorded, lock>>

CreateSave_NotUnique(r) ==
  /\ req[r].pc = "CreateSave"
  /\ Goes(r, "CreateCommit")
  /\ UNCHANGED <<installations, recorded, lock>>

\* The INSERT.  The lock of one License does not keep a creation under another
\* from using the code: the unique index makes this one wait for it, and fail
\* if it commits.
CreateSave(r) ==
  /\ req[r].pc = "CreateSave"
  /\ Free(req[r].code, r)
  /\ \/ CodeTaken(req[r].code) /\ Rollback(r)
     \/ /\ ~CodeTaken(req[r].code)
        /\ Acquire(req[r].code, r)
        /\ Goes(r, "CreateCommit")
        /\ UNCHANGED <<installations, recorded>>

CreateCommit(r) ==
  /\ req[r].pc = "CreateCommit"
  /\ installations' = [installations EXCEPT
                         ![req[r].id] = NewInstallation(req[r].license, req[r].code)]
  /\ lock' = Released(r)
  /\ Becomes(r, [Idle EXCEPT !.pc = "CreateAudit", !.id = req[r].id])
  /\ UNCHANGED recorded

\* auditRecorder.record, after the commit; a failed insert is swallowed.
CreateAudit(r) ==
  /\ req[r].pc = "CreateAudit"
  /\ recorded' \in {recorded, recorded \cup {req[r].id}}
  /\ Becomes(r, Idle)
  /\ UNCHANGED <<installations, lock>>

-----------------------------------------------------------------------------
(* What else changes the status of an Installation.                        *)

\* ChangeInstallationStatusUseCase: findById, and a transition it allows.
ChangeRead(r, i, s) ==
  /\ req[r].pc = "idle"
  /\ Exists(i)
  /\ <<installations[i].status, s>> \in AdminTransitions
  /\ Becomes(r, [Idle EXCEPT !.pc = "ChangeSelect", !.id = i, !.status = s])
  /\ UNCHANGED <<installations, recorded, lock>>

\* save() selects the row it is going to diff against ...
ChangeSelect(r) ==
  /\ req[r].pc = "ChangeSelect"
  /\ Becomes(r, [req[r] EXCEPT !.pc = "ChangeUpdate",
                               !.base = installations[req[r].id].status])
  /\ UNCHANGED <<installations, recorded, lock>>

\* ... and writes the status if it differs.  No creation locks this row.
ChangeUpdate(r) ==
  /\ req[r].pc = "ChangeUpdate"
  /\ \/ /\ req[r].status # req[r].base
        /\ installations' = [installations EXCEPT ![req[r].id].status = req[r].status]
     \/ /\ req[r].status = req[r].base
        /\ UNCHANGED installations
  /\ Becomes(r, Idle)
  /\ UNCHANGED <<recorded, lock>>

\* An enrollment activates under a row lock it holds until it commits.
Activate(i) ==
  /\ Exists(i) /\ installations[i].status = "PENDING"
  /\ installations' = [installations EXCEPT ![i].status = "ACTIVE"]
  /\ UNCHANGED <<recorded, lock, req>>

\* The process or its connection dies: PostgreSQL rolls back.
Crash(r) == req[r].pc # "idle" /\ Rollback(r)

-----------------------------------------------------------------------------
Init == /\ installations = [i \in Ids |-> NoInstallation]
        /\ recorded = {}
        /\ lock = [k \in Keys |-> NoOne]
        /\ req = [r \in Requests |-> Idle]

Arrive(r) ==
  \E i \in Ids :
    \/ \E l \in Licenses, code \in InstallationCodes : CreateRequest(r, i, l, code)
    \/ \E s \in Targets : ChangeRead(r, i, s)

\* Steps that may wait for another transaction.
Wait(r) == CreateLock(r) \/ CreateSave(r)

Continue(r) == \/ CreateCount(r) \/ CreateFind(r) \/ CreateCommit(r)
               \/ CreateAudit(r) \/ ChangeSelect(r) \/ ChangeUpdate(r)

Next == \/ \E r \in Requests : Arrive(r) \/ Wait(r) \/ Continue(r) \/ Crash(r)
        \/ \E i \in Ids : Activate(i)

Spec == Init /\ [][Next]_vars

\* A handler that does not wait goes on, and PostgreSQL grants a lock in the
\* order it was asked for.
Fairness == \A r \in Requests : WF_vars(Continue(r)) /\ SF_vars(Wait(r))

FairSpec == Spec /\ Fairness

-----------------------------------------------------------------------------
(* Properties.                                                             *)

TypeOK == /\ installations \in [Ids -> InstallationRow]
          /\ recorded \subseteq Ids
          /\ lock \in [Keys -> Requests \cup {NoOne}]
          /\ req \in [Requests -> Request]

\* However many creations under one License run at the same time, it never
\* carries more Installations than it was sold for.
WithinCapacity ==
  \A l \in Licenses : Cardinality(Seats(l)) <= MaxInstallations[l]

\* A code names one Installation, also when two creations under different
\* Licenses, which the advisory locks do not keep apart, choose it.
CodeNamesOne ==
  \A i, j \in Ids :
    Exists(i) /\ Exists(j) /\ installations[i].code = installations[j].code => i = j

\* Every creation and status change is answered: waiting for the code of
\* another License's creation while holding a lock never closes a circle.
Answered == \A r \in Requests : req[r].pc # "idle" ~> req[r].pc = "idle"

\* Seen from the outside, seats are taken one by one and given back for good.
Contract == INSTANCE ProvisioningContract WITH
  seated <- [l \in Licenses |-> Seats(l)],
  code <- [i \in Ids |-> installations[i].code]

\* The handlers, interleaved and crashing, implement that contract.
ImplementsContract == Contract!Spec

=============================================================================
