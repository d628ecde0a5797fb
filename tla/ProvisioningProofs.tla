------------------------- MODULE ProvisioningProofs -------------------------
(***************************************************************************)
(* Theorems about Provisioning, for every set of Licenses, ids, codes and  *)
(* requests and every capacity.                                            *)
(***************************************************************************)
EXTENDS ProvisioningInv, FiniteSetTheorems, TLAPS

USE CapacityAssumption, TargetsAssumption, NoneAssumption, KeysAssumption

(* Types. *)

LEMMA IdleType == Idle \in Request /\ Fits(Idle)
  BY DEF Idle, Request, PCs, Statuses, Fits, Creating, InTransaction, Counted, Changing

LEMMA BecomesType ==
  ASSUME Typed, NEW r \in Requests, NEW x \in Request, Fits(x), Becomes(r, x)
  PROVE  req' \in [Requests -> Request] /\ LocalsSet'
<1>1. req' \in [Requests -> Request]
  BY DEF Typed, TypeOK, Becomes
<1>2. \A q \in Requests : req'[q] = x \/ req'[q] = req[q]
  BY DEF Typed, TypeOK, Becomes
<1>3. \A q \in Requests : Fits(req'[q])
  BY <1>2 DEF Typed, LocalsSet
<1> QED
  BY <1>1, <1>3 DEF LocalsSet

\* A creation that goes on to its next statement keeps its locals.
LEMMA GoesType ==
  ASSUME Typed, NEW r \in Requests, req[r].pc \in Creating,
         NEW pc \in Creating, Goes(r, pc)
  PROVE  req' \in [Requests -> Request] /\ LocalsSet'
<1>1. req[r] \in Request /\ Fits(req[r])
  BY DEF Typed, TypeOK, LocalsSet
<1>2. [req[r] EXCEPT !.pc = pc] \in Request
  BY <1>1 DEF Request, PCs, Creating, InTransaction, Counted
<1>3. Fits([req[r] EXCEPT !.pc = pc])
  BY <1>1 DEF Fits, Request, Creating, InTransaction, Counted, Changing
<1> QED
  BY <1>2, <1>3, BecomesType DEF Goes

LEMMA ReleasedType ==
  ASSUME TypeOK, NEW r \in Requests
  PROVE  Released(r) \in [Keys -> Requests \cup {NoOne}]
  BY DEF TypeOK, Released

LEMMA AcquireType ==
  ASSUME TypeOK, NEW r \in Requests, NEW k \in Keys, Acquire(k, r)
  PROVE  lock' \in [Keys -> Requests \cup {NoOne}]
  BY DEF TypeOK, Acquire

LEMMA RollbackType ==
  ASSUME Typed, NEW r \in Requests, Rollback(r)
  PROVE  Typed'
<1>1. req' \in [Requests -> Request] /\ LocalsSet'
  BY IdleType, BecomesType DEF Rollback
<1> QED
  BY <1>1, ReleasedType DEF Rollback, Typed, TypeOK

LEMMA InitType == Init => Typed
<1> SUFFICES ASSUME Init PROVE Typed
  OBVIOUS
<1>1. req \in [Requests -> Request] /\ LocalsSet
  BY IdleType DEF Init, LocalsSet
<1>2. installations \in [Ids -> InstallationRow]
  BY DEF Init, NoInstallation, InstallationRow, Statuses
<1> QED
  BY <1>1, <1>2 DEF Init, Typed, TypeOK

LEMMA NextType == Typed /\ [Next]_vars => Typed'
<1> SUFFICES ASSUME Typed, [Next]_vars PROVE Typed'
  OBVIOUS
<1> USE DEF Typed
<1>1. ASSUME NEW r \in Requests, NEW i \in Ids, NEW l \in Licenses,
             NEW code \in InstallationCodes, CreateRequest(r, i, l, code)
      PROVE  Typed'
  <2> DEFINE x == [Idle EXCEPT !.pc = "CreateLock", !.id = i, !.license = l, !.code = code]
  <2>1. x \in Request /\ Fits(x)
    BY DEF Idle, Request, PCs, Statuses, Fits, Creating, InTransaction, Counted, Changing
  <2>2. req' \in [Requests -> Request] /\ LocalsSet'
    BY <1>1, <2>1, BecomesType DEF CreateRequest
  <2> QED
    BY <1>1, <2>2 DEF CreateRequest, TypeOK
<1>2. ASSUME NEW r \in Requests, CreateLock(r) PROVE Typed'
  <2>1. req[r].license \in Keys
    BY <1>2 DEF CreateLock, LocalsSet, Fits, Creating, Keys
  <2>2. req' \in [Requests -> Request] /\ LocalsSet'
    BY <1>2, GoesType DEF CreateLock, Creating, InTransaction
  <2> QED
    BY <1>2, <2>1, <2>2, AcquireType DEF CreateLock, TypeOK
<1>3. ASSUME NEW r \in Requests, CreateCount(r) PROVE Typed'
  <2>1. CASE Rollback(r)
    BY <2>1, RollbackType
  <2>2. CASE Goes(r, "CreateFind") /\ UNCHANGED <<installations, recorded, lock>>
    <3>1. req' \in [Requests -> Request] /\ LocalsSet'
      BY <1>3, <2>2, GoesType DEF CreateCount, Creating, InTransaction, Counted
    <3> QED
      BY <2>2, <3>1 DEF TypeOK
  <2> QED
    BY <1>3, <2>1, <2>2 DEF CreateCount
<1>4. ASSUME NEW r \in Requests, CreateFind(r) PROVE Typed'
  <2>1. CASE Rollback(r)
    BY <2>1, RollbackType
  <2>2. CASE Goes(r, "CreateSave") /\ UNCHANGED <<installations, recorded, lock>>
    <3>1. req' \in [Requests -> Request] /\ LocalsSet'
      BY <1>4, <2>2, GoesType DEF CreateFind, Creating, InTransaction, Counted
    <3> QED
      BY <2>2, <3>1 DEF TypeOK
  <2> QED
    BY <1>4, <2>1, <2>2 DEF CreateFind
<1>5. ASSUME NEW r \in Requests, CreateSave(r) PROVE Typed'
  <2>1. CASE Rollback(r)
    BY <2>1, RollbackType
  <2>2. CASE /\ Acquire(req[r].code, r) /\ Goes(r, "CreateCommit")
             /\ UNCHANGED <<installations, recorded>>
    <3>1. req' \in [Requests -> Request] /\ LocalsSet'
      BY <1>5, <2>2, GoesType DEF CreateSave, Creating, InTransaction, Counted
    <3>2. req[r].code \in Keys
      BY <1>5 DEF CreateSave, LocalsSet, Fits, Creating, InTransaction, Counted, Keys
    <3> QED
      BY <2>2, <3>1, <3>2, AcquireType DEF TypeOK
  <2> QED
    BY <1>5, <2>1, <2>2 DEF CreateSave
<1>6. ASSUME NEW r \in Requests, CreateCommit(r) PROVE Typed'
  <2> DEFINE x == [Idle EXCEPT !.pc = "CreateAudit", !.id = req[r].id]
  <2>1. Fits(req[r]) /\ req[r].pc = "CreateCommit"
    BY <1>6 DEF LocalsSet, CreateCommit
  <2>2. /\ req[r].id \in Ids /\ req[r].license \in Licenses
        /\ req[r].code \in InstallationCodes
    BY <2>1 DEF Fits, Creating, InTransaction, Counted
  <2>3. x \in Request /\ Fits(x)
    BY <2>2 DEF Idle, Request, PCs, Statuses, Fits, Creating, InTransaction, Counted, Changing
  <2>4. req' \in [Requests -> Request] /\ LocalsSet'
    BY <1>6, <2>3, BecomesType DEF CreateCommit
  <2>5. NewInstallation(req[r].license, req[r].code) \in InstallationRow
    BY <2>2 DEF NewInstallation, InstallationRow, Statuses
  <2>6. installations' \in [Ids -> InstallationRow]
    BY <1>6, <2>5 DEF CreateCommit, TypeOK
  <2> QED
    BY <1>6, <2>4, <2>6, ReleasedType DEF CreateCommit, TypeOK
<1>7. ASSUME NEW r \in Requests, CreateAudit(r) PROVE Typed'
  <2>1. req' \in [Requests -> Request] /\ LocalsSet'
    BY <1>7, IdleType, BecomesType DEF CreateAudit
  <2>2. req[r].id \in Ids
    BY <1>7 DEF CreateAudit, LocalsSet, Fits
  <2> QED
    BY <1>7, <2>1, <2>2 DEF CreateAudit, TypeOK
<1>8. ASSUME NEW r \in Requests, NEW i \in Ids, NEW s \in Targets, ChangeRead(r, i, s)
      PROVE  Typed'
  <2> DEFINE x == [Idle EXCEPT !.pc = "ChangeSelect", !.id = i, !.status = s]
  <2>1. x \in Request /\ Fits(x)
    BY DEF Idle, Request, PCs, Statuses, Fits, Creating, InTransaction, Counted, Changing
  <2>2. req' \in [Requests -> Request] /\ LocalsSet'
    BY <1>8, <2>1, BecomesType DEF ChangeRead
  <2> QED
    BY <1>8, <2>2 DEF ChangeRead, TypeOK
<1>9. ASSUME NEW r \in Requests, ChangeSelect(r) PROVE Typed'
  <2> DEFINE x == [req[r] EXCEPT !.pc = "ChangeUpdate",
                                 !.base = installations[req[r].id].status]
  <2>1. req[r] \in Request /\ Fits(req[r]) /\ req[r].pc = "ChangeSelect"
    BY <1>9 DEF TypeOK, LocalsSet, ChangeSelect
  <2>2. req[r].id \in Ids /\ req[r].status \in Targets
    BY <2>1 DEF Fits, Changing
  <2>3. installations[req[r].id].status \in Statuses
    BY <2>2 DEF TypeOK, InstallationRow
  <2>4. x \in Request
    BY <2>1, <2>3 DEF Request, PCs
  <2>5. Fits(x)
    BY <2>1, <2>2 DEF Request, Fits, Creating, InTransaction, Counted, Changing
  <2>6. req' \in [Requests -> Request] /\ LocalsSet'
    BY <1>9, <2>4, <2>5, BecomesType DEF ChangeSelect
  <2> QED
    BY <1>9, <2>6 DEF ChangeSelect, TypeOK
<1>10. ASSUME NEW r \in Requests, ChangeUpdate(r) PROVE Typed'
  <2>1. req' \in [Requests -> Request] /\ LocalsSet'
    BY <1>10, IdleType, BecomesType DEF ChangeUpdate
  <2>2. req[r].id \in Ids /\ req[r].status \in Statuses
    BY <1>10 DEF ChangeUpdate, LocalsSet, Fits, Changing
  <2>3. installations' \in [Ids -> InstallationRow]
    BY <1>10, <2>2 DEF ChangeUpdate, TypeOK, InstallationRow
  <2> QED
    BY <1>10, <2>1, <2>3 DEF ChangeUpdate, TypeOK
<1>11. ASSUME NEW r \in Requests, Crash(r) PROVE Typed'
  BY <1>11, RollbackType DEF Crash
<1>12. ASSUME NEW i \in Ids, Activate(i) PROVE Typed'
  <2>1. installations' \in [Ids -> InstallationRow]
    BY <1>12 DEF Activate, TypeOK, InstallationRow, Statuses
  <2> QED
    BY <1>12, <2>1 DEF Activate, TypeOK, LocalsSet
<1>13. CASE UNCHANGED vars
  BY <1>13 DEF vars, TypeOK, LocalsSet
<1> QED
  BY <1>1, <1>2, <1>3, <1>4, <1>5, <1>6, <1>7, <1>8, <1>9, <1>10, <1>11, <1>12, <1>13
     DEF Next, Arrive, Wait, Continue

\* Every variable keeps its type and no handler uses a local it has not set.
THEOREM TypeCorrect == Spec => []TypeOK
<1>1. Typed => TypeOK
  BY DEF Typed
<1> QED
  BY <1>1, InitType, NextType, PTL DEF Spec

(* Locks. *)

LEMMA OnlyMoves ==
  ASSUME Typed, NEW r \in Requests, NEW x, Becomes(r, x)
  PROVE  /\ req'[r] = x
         /\ \A q \in Requests : q # r => req'[q] = req[q]
  BY DEF Typed, TypeOK, Becomes

\* A transaction that ends gives up its own locks only.
LEMMA EndKeepsLocks ==
  ASSUME Typed, LocksHeld, NEW r \in Requests, NEW x, Becomes(r, x),
         x.pc \notin InTransaction, lock' = Released(r)
  PROVE  LocksHeld'
<1> SUFFICES ASSUME NEW q \in Requests, req'[q].pc \in InTransaction
             PROVE  /\ lock'[req'[q].license] = q
                    /\ req'[q].pc = "CreateCommit" => lock'[req'[q].code] = q
  BY DEF LocksHeld, InTransaction, Counted
<1>1. q # r /\ req'[q] = req[q]
  BY OnlyMoves
<1>2. Fits(req[q])
  BY DEF Typed, LocalsSet
<1>3. req[q].license \in Keys /\ req[q].code \in Keys
  BY <1>1, <1>2 DEF Fits, Creating, Keys
<1> QED
  BY <1>1, <1>3 DEF LocksHeld, Released

LEMMA RollbackLocks ==
  ASSUME Typed, LocksHeld, NEW r \in Requests, Rollback(r)
  PROVE  LocksHeld'
  BY EndKeepsLocks DEF Rollback, Idle, InTransaction, Counted

\* A request that takes no lock and is not left in a transaction.
LEMMA FrameLocks ==
  ASSUME Typed, LocksHeld, NEW r \in Requests, NEW x, Becomes(r, x),
         x.pc \notin InTransaction, UNCHANGED lock
  PROVE  LocksHeld'
  BY OnlyMoves DEF LocksHeld, InTransaction, Counted

\* A lock that is taken was nobody else's.
LEMMA TakeKeepsLocks ==
  ASSUME TypeOK, NEW r \in Requests, NEW k \in Keys, Acquire(k, r),
         NEW q \in Requests, q # r, NEW j \in Keys, lock[j] = q
  PROVE  lock'[j] = q
  BY DEF TypeOK, Acquire, Free

LEMMA NextLocks == Typed /\ LocksHeld /\ [Next]_vars => LocksHeld'
<1> SUFFICES ASSUME Typed, LocksHeld, [Next]_vars PROVE LocksHeld'
  OBVIOUS
<1>0. \A q \in Requests :
        req[q].pc \in Creating => req[q].license \in Keys /\ req[q].code \in Keys
  BY DEF Typed, LocalsSet, Fits, Keys
<1>1. ASSUME NEW r \in Requests, NEW i \in Ids, NEW l \in Licenses,
             NEW code \in InstallationCodes, CreateRequest(r, i, l, code)
      PROVE  LocksHeld'
  BY <1>1, FrameLocks DEF CreateRequest, Idle, InTransaction, Counted
<1>2. ASSUME NEW r \in Requests, CreateLock(r) PROVE LocksHeld'
  <2>1. req[r].license \in Keys /\ req[r] \in Request
    BY <1>0, <1>2 DEF CreateLock, Creating, Typed, TypeOK
  <2>2. /\ req'[r] = [req[r] EXCEPT !.pc = "CreateCount"]
        /\ \A q \in Requests : q # r => req'[q] = req[q]
    BY <1>2, OnlyMoves DEF CreateLock, Goes
  <2>3. lock'[req[r].license] = r
    BY <1>2, <2>1 DEF CreateLock, Acquire, Typed, TypeOK
  <2>4. \A q \in Requests, j \in Keys : q # r /\ lock[j] = q => lock'[j] = q
    BY <1>2, <2>1, TakeKeepsLocks DEF CreateLock, Typed
  <2>5. req'[r].pc = "CreateCount" /\ req'[r].license = req[r].license
    BY <2>1, <2>2 DEF Request
  <2>6. ASSUME NEW q \in Requests, q # r
        PROVE  /\ req'[q].pc \in InTransaction => lock'[req'[q].license] = q
               /\ req'[q].pc = "CreateCommit" => lock'[req'[q].code] = q
    BY <1>0, <2>2, <2>4, <2>6 DEF LocksHeld, Creating, InTransaction, Counted
  <2> QED
    BY <2>3, <2>5, <2>6 DEF LocksHeld
<1>3. ASSUME NEW r \in Requests, NEW pc \in {"CreateFind", "CreateSave"}, Goes(r, pc),
             req[r].pc \in {"CreateCount", "CreateFind"}, UNCHANGED lock
      PROVE  LocksHeld'
  <2>1. /\ req'[r] = [req[r] EXCEPT !.pc = pc]
        /\ \A q \in Requests : q # r => req'[q] = req[q]
    BY <1>3, OnlyMoves DEF Goes
  <2>2. req'[r].pc = pc /\ req'[r].license = req[r].license
    BY <2>1 DEF Typed, TypeOK, Request
  <2> QED
    BY <1>3, <2>1, <2>2 DEF LocksHeld, InTransaction, Counted
<1>4. ASSUME NEW r \in Requests, CreateCount(r) PROVE LocksHeld'
  BY <1>3, <1>4, RollbackLocks DEF CreateCount
<1>5. ASSUME NEW r \in Requests, CreateFind(r) PROVE LocksHeld'
  BY <1>3, <1>5, RollbackLocks DEF CreateFind
<1>6. ASSUME NEW r \in Requests, CreateSave(r) PROVE LocksHeld'
  <2>1. CASE Rollback(r)
    BY <2>1, RollbackLocks
  <2>2. CASE Acquire(req[r].code, r) /\ Goes(r, "CreateCommit")
    <3>1. /\ req[r].code \in Keys /\ req[r].license \in Keys /\ req[r] \in Request
          /\ req[r].pc \in InTransaction
      BY <1>0, <1>6 DEF CreateSave, Creating, InTransaction, Counted, Typed, TypeOK
    <3>2. /\ req'[r] = [req[r] EXCEPT !.pc = "CreateCommit"]
          /\ \A q \in Requests : q # r => req'[q] = req[q]
      BY <2>2, OnlyMoves DEF Goes
    <3>3. lock'[req[r].code] = r /\ lock'[req[r].license] = r
      BY <2>2, <3>1 DEF Acquire, LocksHeld, Typed, TypeOK
    <3>4. \A q \in Requests, j \in Keys : q # r /\ lock[j] = q => lock'[j] = q
      BY <2>2, <3>1, TakeKeepsLocks DEF Typed
    <3>5. /\ req'[r].pc = "CreateCommit" /\ req'[r].license = req[r].license
          /\ req'[r].code = req[r].code
      BY <3>1, <3>2 DEF Request
    <3>6. ASSUME NEW q \in Requests, q # r
          PROVE  /\ req'[q].pc \in InTransaction => lock'[req'[q].license] = q
                 /\ req'[q].pc = "CreateCommit" => lock'[req'[q].code] = q
      BY <1>0, <3>2, <3>4, <3>6 DEF LocksHeld, Creating, InTransaction, Counted
    <3> QED
      BY <3>3, <3>5, <3>6 DEF LocksHeld
  <2> QED
    BY <1>6, <2>1, <2>2 DEF CreateSave
<1>7. ASSUME NEW r \in Requests, CreateCommit(r) PROVE LocksHeld'
  BY <1>7, EndKeepsLocks DEF CreateCommit, Idle, InTransaction, Counted
<1>8. ASSUME NEW r \in Requests, CreateAudit(r) PROVE LocksHeld'
  BY <1>8, FrameLocks DEF CreateAudit, Idle, InTransaction, Counted
<1>9. ASSUME NEW r \in Requests, NEW i \in Ids, NEW s \in Targets, ChangeRead(r, i, s)
      PROVE  LocksHeld'
  BY <1>9, FrameLocks DEF ChangeRead, Idle, InTransaction, Counted
<1>10. ASSUME NEW r \in Requests, ChangeSelect(r) PROVE LocksHeld'
  <2> DEFINE x == [req[r] EXCEPT !.pc = "ChangeUpdate",
                                 !.base = installations[req[r].id].status]
  <2>1. x.pc = "ChangeUpdate"
    BY DEF Typed, TypeOK, Request
  <2> QED
    BY <1>10, <2>1, FrameLocks DEF ChangeSelect, InTransaction, Counted
<1>11. ASSUME NEW r \in Requests, ChangeUpdate(r) PROVE LocksHeld'
  BY <1>11, FrameLocks DEF ChangeUpdate, Idle, InTransaction, Counted
<1>12. ASSUME NEW r \in Requests, Crash(r) PROVE LocksHeld'
  BY <1>12, RollbackLocks DEF Crash
<1>13. ASSUME NEW i \in Ids, Activate(i) PROVE LocksHeld'
  BY <1>13 DEF Activate, LocksHeld
<1>14. CASE UNCHANGED vars
  BY <1>14 DEF vars, LocksHeld
<1> QED
  BY <1>1, <1>2, <1>4, <1>5, <1>6, <1>7, <1>8, <1>9, <1>10, <1>11, <1>12, <1>13, <1>14
     DEF Next, Arrive, Wait, Continue

(* Rows. *)

\* Only a commit of CreateInstallationUseCase makes a row; the others at most
\* change the status of one.
LEMMA RowAdded ==
  ASSUME Typed, NEW r \in Requests, CreateCommit(r)
  PROVE  /\ req[r].id \in Ids /\ req[r].license \in Licenses
         /\ req[r].code \in InstallationCodes
         /\ installations'[req[r].id] = NewInstallation(req[r].license, req[r].code)
         /\ \A i \in Ids : i # req[r].id => installations'[i] = installations[i]
<1>1. Fits(req[r])
  BY DEF Typed, LocalsSet
<1>2. req[r].id \in Ids /\ req[r].license \in Licenses /\ req[r].code \in InstallationCodes
  BY <1>1 DEF CreateCommit, Fits, Creating, InTransaction, Counted
<1> QED
  BY <1>2 DEF CreateCommit, Typed, TypeOK

LEMMA KeysKept ==
  ASSUME Typed, [Next]_vars, \A r \in Requests : ~CreateCommit(r)
  PROVE  \A i \in Ids : /\ installations'[i].license = installations[i].license
                        /\ installations'[i].code = installations[i].code
<1>1. ASSUME NEW r \in Requests, ChangeUpdate(r)
      PROVE  \A i \in Ids : /\ installations'[i].license = installations[i].license
                            /\ installations'[i].code = installations[i].code
  BY <1>1 DEF ChangeUpdate, Typed, TypeOK, InstallationRow
<1>2. ASSUME NEW j \in Ids, Activate(j)
      PROVE  \A i \in Ids : /\ installations'[i].license = installations[i].license
                            /\ installations'[i].code = installations[i].code
  BY <1>2 DEF Activate, Typed, TypeOK, InstallationRow
<1>3. CASE UNCHANGED installations
  BY <1>3
<1> QED
  BY <1>1, <1>2, <1>3 DEF Next, Arrive, Wait, Continue, Crash, vars, CreateRequest,
     CreateLock, CreateCount, CreateFind, CreateSave, CreateAudit, ChangeRead,
     ChangeSelect, Rollback

LEMMA NextRows == Typed /\ WholeRows /\ [Next]_vars => WholeRows'
<1> SUFFICES ASSUME Typed, WholeRows, [Next]_vars PROVE WholeRows'
  OBVIOUS
<1>1. CASE \E r \in Requests : CreateCommit(r)
  <2>1. PICK r \in Requests : CreateCommit(r)
    BY <1>1
  <2> DEFINE new == NewInstallation(req[r].license, req[r].code)
  <2>2. new.license # NoLicense /\ new.code # NoCode
    BY <2>1, RowAdded DEF NewInstallation
  <2>3. \A i \in Ids : installations'[i] = installations[i] \/ installations'[i] = new
    BY <2>1, RowAdded
  <2> QED
    BY <2>2, <2>3 DEF WholeRows, Exists
<1>2. CASE \A r \in Requests : ~CreateCommit(r)
  BY <1>2, KeysKept DEF WholeRows, Exists
<1> QED
  BY <1>1, <1>2

(* Codes. *)

\* Whoever is about to commit an Installation already was, or has just been
\* let in by the unique index.
LEMMA WhoCommits ==
  ASSUME Typed, [Next]_vars, NEW q \in Requests, req'[q].pc = "CreateCommit"
  PROVE  \/ req'[q] = req[q]
         \/ /\ req'[q].code = req[q].code
            /\ ~CodeTaken(req[q].code)
            /\ UNCHANGED installations
<1> SUFFICES ASSUME req'[q] # req[q]
             PROVE  /\ req'[q].code = req[q].code
                    /\ ~CodeTaken(req[q].code)
                    /\ UNCHANGED installations
  OBVIOUS
<1>1. ASSUME NEW r \in Requests, NEW x, Becomes(r, x)
      PROVE  q = r /\ x.pc = "CreateCommit"
  BY <1>1, OnlyMoves
<1>2. req[q] \in Request
  BY DEF Typed, TypeOK
<1>3. Idle.pc # "CreateCommit"
  BY DEF Idle
<1>4. ASSUME NEW r \in Requests, NEW pc \in PCs \ {"CreateCommit"} PROVE ~Goes(r, pc)
  BY <1>1, <1>4 DEF Goes, Typed, TypeOK, Request
<1>5. ASSUME NEW r \in Requests, CreateSave(r) PROVE CreateSave(q) /\ Goes(q, "CreateCommit")
  BY <1>1, <1>3, <1>5 DEF CreateSave, Rollback, Goes
<1>6. ~(\E r \in Requests : CreateSave(r)) => FALSE
  <2> SUFFICES ASSUME \A r \in Requests : ~CreateSave(r) PROVE FALSE
    OBVIOUS
  <2>1. ASSUME NEW r \in Requests, Arrive(r) PROVE FALSE
    <3>1. ASSUME NEW i, NEW l, NEW code, CreateRequest(r, i, l, code) PROVE FALSE
      <4>1. [Idle EXCEPT !.pc = "CreateLock", !.id = i, !.license = l, !.code = code].pc
              = "CreateLock"
        BY DEF Idle
      <4> QED
        BY <1>1, <3>1, <4>1 DEF CreateRequest
    <3>2. ASSUME NEW i, NEW s, ChangeRead(r, i, s) PROVE FALSE
      <4>1. [Idle EXCEPT !.pc = "ChangeSelect", !.id = i, !.status = s].pc = "ChangeSelect"
        BY DEF Idle
      <4> QED
        BY <1>1, <3>2, <4>1 DEF ChangeRead
    <3> QED
      BY <2>1, <3>1, <3>2 DEF Arrive
  <2>2. ASSUME NEW r \in Requests, Rollback(r) PROVE FALSE
    BY <1>1, <1>3, <2>2 DEF Rollback
  <2>3. ASSUME NEW r \in Requests, CreateLock(r) \/ CreateCount(r) \/ CreateFind(r)
        PROVE  FALSE
    BY <1>4, <2>2, <2>3 DEF CreateLock, CreateCount, CreateFind, PCs
  <2>4. ASSUME NEW r \in Requests, CreateCommit(r) PROVE FALSE
    <3>1. [Idle EXCEPT !.pc = "CreateAudit", !.id = req[r].id].pc = "CreateAudit"
      BY DEF Idle
    <3> QED
      BY <1>1, <2>4, <3>1 DEF CreateCommit
  <2>5. ASSUME NEW r \in Requests, ChangeSelect(r) PROVE FALSE
    <3>1. [req[r] EXCEPT !.pc = "ChangeUpdate",
                         !.base = installations[req[r].id].status].pc = "ChangeUpdate"
      BY DEF Typed, TypeOK, Request
    <3> QED
      BY <1>1, <2>5, <3>1 DEF ChangeSelect
  <2>7. ASSUME NEW r \in Requests, CreateAudit(r) \/ ChangeUpdate(r) PROVE FALSE
    BY <1>1, <1>3, <2>7 DEF CreateAudit, ChangeUpdate
  <2>6. ASSUME UNCHANGED req PROVE FALSE
    BY <2>6
  <2> QED
    BY <2>1, <2>2, <2>3, <2>4, <2>5, <2>6, <2>7
       DEF Next, Wait, Continue, Crash, Activate, vars
<1>7. CreateSave(q) /\ Goes(q, "CreateCommit")
  BY <1>5, <1>6
<1>8. req'[q] = [req[q] EXCEPT !.pc = "CreateCommit"]
  BY <1>7, OnlyMoves DEF Goes
<1>9. ~Rollback(q)
  BY <1>1, <1>3 DEF Rollback
<1> QED
  BY <1>2, <1>7, <1>8, <1>9 DEF CreateSave, Request

LEMMA NextCodes ==
  ASSUME Typed, LocksHeld, CodeFree, CodeNamesOne, [Next]_vars
  PROVE  CodeFree' /\ CodeNamesOne'
<1>1. CASE \A r \in Requests : ~CreateCommit(r)
  <2>1. \A code : CodeTaken(code)' <=> CodeTaken(code)
    BY <1>1, KeysKept DEF CodeTaken
  <2>2. CodeNamesOne'
    BY <1>1, KeysKept DEF CodeNamesOne, Exists
  <2>3. CodeFree'
    BY <2>1, WhoCommits DEF CodeFree
  <2> QED
    BY <2>2, <2>3
<1>2. ASSUME NEW r \in Requests, CreateCommit(r)
      PROVE  CodeFree' /\ CodeNamesOne'
  <2>1. ~CodeTaken(req[r].code) /\ lock[req[r].code] = r
    BY <1>2 DEF CodeFree, LocksHeld, CreateCommit
  <2> DEFINE new == NewInstallation(req[r].license, req[r].code)
  <2>4. new.code = req[r].code
    BY DEF NewInstallation
  <2>5. /\ installations'[req[r].id] = new
        /\ \A i \in Ids : i # req[r].id => installations'[i] = installations[i]
    BY <1>2, RowAdded
  <2>2. CodeNamesOne'
    BY <2>1, <2>4, <2>5 DEF CodeNamesOne, CodeTaken, Exists
  <2>3. ASSUME NEW q \in Requests, req'[q].pc = "CreateCommit"
        PROVE  \A i \in Ids : installations'[i].code # req'[q].code
    <3>1. [Idle EXCEPT !.pc = "CreateAudit", !.id = req[r].id].pc = "CreateAudit"
      BY DEF Idle
    <3>2. q # r /\ req'[q] = req[q]
      BY <1>2, <2>3, <3>1, OnlyMoves DEF CreateCommit
    <3>3. ~CodeTaken(req[q].code) /\ req[q].code # req[r].code
      BY <2>1, <2>3, <3>2 DEF CodeFree, LocksHeld
    <3> QED
      BY <2>4, <2>5, <3>2, <3>3 DEF CodeTaken
  <2> QED
    BY <2>2, <2>3 DEF CodeFree, CodeTaken
<1> QED
  BY <1>1, <1>2

(* Ids. *)

\* A step of one request that makes no row keeps the reservations, if it takes
\* no id another creation has and claims no row that does not exist.
LEMMA ReservesAlone ==
  ASSUME Typed, IdsReserved, NEW r \in Requests, NEW x, Becomes(r, x),
         \A i \in Ids : Exists(i)' <=> Exists(i),
         \A i \in recorded' : Exists(i), x.pc # "idle" => x.id \in Ids,
         x.pc \in Creating => ~Exists(x.id) /\ \A q \in Requests : q # r => req[q].id # x.id,
         x.pc \notin Creating /\ x.pc # "idle" => Exists(x.id),
         \A q \in Requests : q # r /\ req[q].pc \in Creating => req[q].id # x.id,
         recorded' \subseteq Ids
  PROVE  IdsReserved'
<1>1. req'[r] = x /\ \A q \in Requests : q # r => req'[q] = req[q]
  BY OnlyMoves
<1>2. \A q \in Requests : req[q].pc # "idle" => req[q].id \in Ids
  BY DEF Typed, LocalsSet, Fits
<1>3. \A q \in Requests :
        req'[q].pc # "idle"
          => (installations'[req'[q].id].license # NoLicense <=> Exists(req'[q].id))
  BY <1>1, <1>2 DEF Exists
<1>4. "idle" \notin Creating
  BY DEF Creating, InTransaction, Counted
<1>5. ASSUME NEW q \in Requests
      PROVE  IF req'[q].pc \in Creating
             THEN /\ ~Exists(req'[q].id)
                  /\ \A p \in Requests \ {q} : req'[p].id # req'[q].id
             ELSE req'[q].pc # "idle" => Exists(req'[q].id)
  <2>1. CASE q = r
    BY <1>1, <2>1
  <2>2. CASE q # r
    BY <1>1, <2>2 DEF IdsReserved
  <2> QED
    BY <2>1, <2>2
<1>6. \A i \in recorded' : Exists(i)'
  OBVIOUS
<1> QED
  BY <1>3, <1>4, <1>5, <1>6 DEF IdsReserved, Exists

\* A request that is left idle claims nothing.
LEMMA ReservesIdle ==
  ASSUME Typed, IdsReserved, NEW r \in Requests, Becomes(r, Idle),
         \A i \in Ids : Exists(i)' <=> Exists(i), \A i \in recorded' : Exists(i),
         recorded' \subseteq Ids
  PROVE  IdsReserved'
<1>1. Idle.pc = "idle" /\ Idle.id = NoId
  BY DEF Idle
<1>2. "idle" \notin Creating
  BY DEF Creating, InTransaction, Counted
<1>3. \A q \in Requests : req[q].pc \in Creating => req[q].id # NoId
  BY <1>2 DEF Typed, LocalsSet, Fits
<1> QED
  BY <1>1, <1>2, <1>3, ReservesAlone

LEMMA ReservesRollback ==
  ASSUME Typed, IdsReserved, NEW r \in Requests, Rollback(r)
  PROVE  IdsReserved'
<1>1. \A i \in Ids : Exists(i)' <=> Exists(i)
  BY DEF Rollback, Exists
<1> QED
  BY <1>1, ReservesIdle DEF Rollback, IdsReserved, Typed, TypeOK

\* A creation that goes on keeps its id.
LEMMA ReservesGoes ==
  ASSUME Typed, IdsReserved, NEW r \in Requests, req[r].pc \in Creating,
         NEW pc \in Creating, Goes(r, pc), UNCHANGED <<installations, recorded>>
  PROVE  IdsReserved'
<1> DEFINE x == [req[r] EXCEPT !.pc = pc]
<1>1. x.pc = pc /\ x.id = req[r].id
  BY DEF Typed, TypeOK, Request
<1>2. "idle" \notin Creating
  BY DEF Creating, InTransaction, Counted
<1>3. req[r].id \in Ids
  BY <1>2 DEF Typed, LocalsSet, Fits
<1>4. \A i \in Ids : Exists(i)' <=> Exists(i)
  BY DEF Exists
<1>5. /\ ~Exists(x.id)
      /\ \A q \in Requests : q # r => req[q].id # x.id
  BY <1>1 DEF IdsReserved
<1>6. recorded' \subseteq Ids /\ \A i \in recorded' : Exists(i)
  BY DEF Typed, TypeOK, IdsReserved
<1> HIDE DEF x
<1>7. Becomes(r, x)
  BY DEF Goes, x
<1> QED
  BY <1>1, <1>2, <1>3, <1>4, <1>5, <1>6, <1>7, ReservesAlone

LEMMA NextIds ==
  ASSUME Typed, WholeRows, IdsReserved, [Next]_vars
  PROVE  IdsReserved'
<1>0. recorded \subseteq Ids /\ \A i \in recorded : Exists(i)
  BY DEF Typed, TypeOK, IdsReserved
<1>a. "idle" \notin Creating /\ "CreateAudit" \notin Creating
      /\ "ChangeSelect" \notin Creating /\ "ChangeUpdate" \notin Creating
  BY DEF Creating, InTransaction, Counted
<1>b. \A q \in Requests : req[q].pc # "idle" => req[q].id \in Ids
  BY DEF Typed, LocalsSet, Fits
<1>1. CASE UNCHANGED vars
  BY <1>1 DEF vars, IdsReserved, Exists
<1>2. ASSUME NEW r \in Requests, CreateCommit(r) PROVE IdsReserved'
  <2> DEFINE x == [Idle EXCEPT !.pc = "CreateAudit", !.id = req[r].id]
  <2>1. x.pc = "CreateAudit" /\ x.id = req[r].id
    BY DEF Idle
  <2>2. req'[r] = x /\ \A q \in Requests : q # r => req'[q] = req[q]
    BY <1>2, OnlyMoves DEF CreateCommit
  <2>3. req[r].pc \in Creating /\ req[r].id \in Ids
    BY <1>2, <1>b DEF CreateCommit, Creating, InTransaction, Counted
  <2>4. NewInstallation(req[r].license, req[r].code).license # NoLicense
    BY <1>2, RowAdded DEF NewInstallation
  <2>5. \A i \in Ids : Exists(i)' <=> (Exists(i) \/ i = req[r].id)
    BY <1>2, <2>4, RowAdded DEF Exists
  <2>9. \A i \in Ids : installations'[i].license # NoLicense <=> (Exists(i) \/ i = req[r].id)
    BY <2>5 DEF Exists
  <2>6. \A q \in Requests : q # r => req[q].id # req[r].id
    BY <2>3 DEF IdsReserved
  <2> HIDE DEF x
  <2>7. ASSUME NEW q \in Requests
        PROVE  (IF req[q].pc \in Creating
                THEN /\ ~Exists(req[q].id)
                     /\ \A p \in Requests \ {q} : req[p].id # req[q].id
                ELSE req[q].pc # "idle" => Exists(req[q].id))'
    <3>1. CASE q = r
      BY <1>a, <2>1, <2>2, <2>3, <2>9, <3>1 DEF Exists
    <3>2. CASE q # r
      <4>1. req'[q] = req[q] /\ req[q].id # req[r].id
        BY <2>2, <2>6, <3>2
      <4>2. req[q].pc # "idle"
              => (installations'[req[q].id].license # NoLicense <=> Exists(req[q].id))
        BY <1>b, <2>9, <4>1
      <4>3. \A p \in Requests : req'[p].id = req[p].id
        BY <2>1, <2>2
      <4> QED
        BY <1>a, <4>1, <4>2, <4>3 DEF IdsReserved, Exists
    <3> QED
      BY <3>1, <3>2
  <2>8. \A i \in recorded' : Exists(i)'
    BY <1>0, <1>2, <2>5 DEF CreateCommit
  <2> QED
    BY <2>7, <2>8 DEF IdsReserved
<1>3. CASE \A r \in Requests : ~CreateCommit(r)
  <2>0. \A i \in Ids : Exists(i)' <=> Exists(i)
    BY <1>3, KeysKept DEF Exists
  <2>1. ASSUME NEW r \in Requests, NEW i \in Ids, NEW l \in Licenses,
               NEW code \in InstallationCodes, CreateRequest(r, i, l, code)
        PROVE  IdsReserved'
    <3> DEFINE x == [Idle EXCEPT !.pc = "CreateLock", !.id = i, !.license = l, !.code = code]
    <3>1. x.pc = "CreateLock" /\ x.id = i
      BY DEF Idle
    <3>2. Becomes(r, x) /\ ~Exists(i) /\ (\A q \in Requests : req[q].id # i) /\ recorded' = recorded
      BY <2>1 DEF CreateRequest
    <3>3. "CreateLock" \in Creating
      BY DEF Creating
    <3> HIDE DEF x
    <3> QED
      BY <1>0, <2>0, <3>1, <3>2, <3>3, ReservesAlone
  <2>2. ASSUME NEW r \in Requests, NEW i \in Ids, NEW s \in Targets, ChangeRead(r, i, s)
        PROVE  IdsReserved'
    <3> DEFINE x == [Idle EXCEPT !.pc = "ChangeSelect", !.id = i, !.status = s]
    <3>1. x.pc = "ChangeSelect" /\ x.id = i
      BY DEF Idle
    <3>2. Becomes(r, x) /\ Exists(i) /\ recorded' = recorded
      BY <2>2 DEF ChangeRead
    <3>3. \A q \in Requests : req[q].pc \in Creating => req[q].id # i
      BY <3>2 DEF IdsReserved
    <3> HIDE DEF x
    <3> QED
      BY <1>0, <1>a, <2>0, <3>1, <3>2, <3>3, ReservesAlone
  <2>3. ASSUME NEW r \in Requests, ChangeSelect(r) PROVE IdsReserved'
    <3> DEFINE x == [req[r] EXCEPT !.pc = "ChangeUpdate",
                                   !.base = installations[req[r].id].status]
    <3>1. x.pc = "ChangeUpdate" /\ x.id = req[r].id
      BY DEF Typed, TypeOK, Request
    <3>2. Becomes(r, x) /\ req[r].pc = "ChangeSelect" /\ recorded' = recorded
      BY <2>3 DEF ChangeSelect
    <3>3. Exists(req[r].id) /\ req[r].id \in Ids
      BY <1>a, <1>b, <3>2 DEF IdsReserved
    <3>4. \A q \in Requests : req[q].pc \in Creating => req[q].id # req[r].id
      BY <3>3 DEF IdsReserved
    <3> HIDE DEF x
    <3> QED
      BY <1>0, <1>a, <2>0, <3>1, <3>2, <3>3, <3>4, ReservesAlone
  <2>4. ASSUME NEW r \in Requests, CreateAudit(r) PROVE IdsReserved'
    <3>1. Exists(req[r].id) /\ req[r].id \in Ids
      BY <1>a, <1>b, <2>4 DEF CreateAudit, IdsReserved
    <3> QED
      BY <1>0, <2>0, <2>4, <3>1, ReservesIdle DEF CreateAudit
  <2>5. ASSUME NEW r \in Requests, ChangeUpdate(r) PROVE IdsReserved'
    BY <1>0, <2>0, <2>5, ReservesIdle DEF ChangeUpdate
  <2>6. ASSUME NEW r \in Requests, Rollback(r) PROVE IdsReserved'
    BY <2>6, ReservesRollback
  <2>7. ASSUME NEW r \in Requests,
               CreateLock(r) \/ CreateCount(r) \/ CreateFind(r) \/ CreateSave(r)
        PROVE  IdsReserved'
    <3>1. CASE Rollback(r)
      BY <2>6, <3>1
    <3>2. CASE ~Rollback(r)
      <4>1. /\ req[r].pc \in Creating /\ UNCHANGED <<installations, recorded>>
            /\ \E pc \in Creating : Goes(r, pc)
        BY <2>7, <3>2 DEF CreateLock, CreateCount, CreateFind, CreateSave, Creating,
             InTransaction, Counted
      <4> QED
        BY <4>1, ReservesGoes
    <3> QED
      BY <3>1, <3>2
  <2>8. ASSUME NEW i \in Ids, Activate(i) PROVE IdsReserved'
    <3>1. \A q \in Requests : req'[q] = req[q]
      BY <2>8 DEF Activate
    <3>2. recorded' = recorded
      BY <2>8 DEF Activate
    <3>3. \A j \in Ids : installations'[j].license # NoLicense <=> Exists(j)
      BY <2>0 DEF Exists
    <3> QED
      BY <1>0, <1>a, <1>b, <2>0, <3>1, <3>2, <3>3 DEF IdsReserved, Exists
  <2> QED
    BY <1>1, <1>3, <2>1, <2>2, <2>3, <2>4, <2>5, <2>6, <2>7, <2>8
       DEF Next, Arrive, Wait, Continue, Crash
<1> QED
  BY <1>2, <1>3

LEMMA InitInv == Init => IInv
<1> SUFFICES ASSUME Init PROVE IInv
  OBVIOUS
<1>1. \A r \in Requests : req[r] = Idle
  BY DEF Init
<1>2. Idle.pc = "idle"
  BY DEF Idle
<1>3. "idle" \notin Creating /\ "idle" \notin InTransaction
  BY DEF Creating, InTransaction, Counted
<1>4. \A i \in Ids : installations[i].license = NoLicense /\ installations[i].code = NoCode
  BY DEF Init, NoInstallation
<1>5. LocksHeld /\ CodeFree
  BY <1>1, <1>2, <1>3 DEF LocksHeld, CodeFree
<1>6. CodeNamesOne /\ WholeRows
  BY <1>4 DEF CodeNamesOne, WholeRows, Exists
<1>7. IdsReserved
  BY <1>1, <1>2, <1>3 DEF IdsReserved, Init
<1> QED
  BY <1>5, <1>6, <1>7, InitType DEF IInv

LEMMA NextInv == IInv /\ [Next]_vars => IInv'
<1> SUFFICES ASSUME IInv, [Next]_vars PROVE IInv'
  OBVIOUS
<1>1. Typed' /\ LocksHeld' /\ CodeFree' /\ CodeNamesOne'
  BY NextType, NextLocks, NextCodes DEF IInv
<1>2. WholeRows' /\ IdsReserved'
  BY NextRows, NextIds DEF IInv
<1> QED
  BY <1>1, <1>2 DEF IInv

\* Whatever statuses administrators may set: a code names one Installation,
\* although creations under different Licenses do not exclude each other.
THEOREM CodesUnique == Spec => []CodeNamesOne
<1>1. IInv => CodeNamesOne
  BY DEF IInv
<1> QED
  BY <1>1, InitInv, NextInv, PTL DEF Spec

(* Seats. *)

\* A commit takes one seat of its License.
LEMMA SeatTaken ==
  ASSUME IInv, NEW r \in Requests, CreateCommit(r), NEW l \in Licenses
  PROVE  Seats(l)' = IF l = req[r].license THEN Seats(l) \cup {req[r].id} ELSE Seats(l)
<1> DEFINE new == NewInstallation(req[r].license, req[r].code)
<1>1. new.license = req[r].license /\ new.status = "PENDING"
  BY DEF NewInstallation
<1>2. /\ req[r].id \in Ids
      /\ installations'[req[r].id] = new
      /\ \A i \in Ids : i # req[r].id => installations'[i] = installations[i]
  BY RowAdded DEF IInv
<1>3. installations[req[r].id].license # l
  BY DEF IInv, IdsReserved, Exists, CreateCommit, Creating, InTransaction, Counted
<1> QED
  BY <1>1, <1>2, <1>3 DEF Seats

\* If decommissioning is the only change administrators make, no other step
\* takes one: at most it gives one back.
LEMMA SeatsGivenBack ==
  ASSUME IInv, Targets \subseteq {"DECOMMISSIONED"}, [Next]_vars,
         \A r \in Requests : ~CreateCommit(r), NEW l \in Licenses
  PROVE  Seats(l)' \subseteq Seats(l)
<1>1. \A i \in Ids : installations'[i].license = installations[i].license
  BY KeysKept DEF IInv
<1>2. ASSUME NEW r \in Requests, ChangeUpdate(r) PROVE Seats(l)' \subseteq Seats(l)
  <2>1. req[r].status = "DECOMMISSIONED" /\ req[r].id \in Ids
    BY <1>2 DEF IInv, Typed, LocalsSet, Fits, ChangeUpdate, Changing
  <2>2. \A i \in Ids : installations'[i].status \in {"DECOMMISSIONED", installations[i].status}
    BY <1>2, <2>1 DEF ChangeUpdate, IInv, Typed, TypeOK, InstallationRow
  <2> QED
    BY <1>1, <2>2 DEF Seats
<1>3. ASSUME NEW j \in Ids, Activate(j) PROVE Seats(l)' \subseteq Seats(l)
  <2>1. \A i \in Ids : installations[i].status = "DECOMMISSIONED"
                         => installations'[i].status = "DECOMMISSIONED"
    BY <1>3 DEF Activate, IInv, Typed, TypeOK, InstallationRow
  <2> QED
    BY <1>1, <2>1 DEF Seats
<1>4. CASE UNCHANGED installations
  BY <1>4 DEF Seats
<1> QED
  BY <1>2, <1>3, <1>4 DEF Next, Arrive, Wait, Continue, Crash, vars, CreateRequest,
     CreateLock, CreateCount, CreateFind, CreateSave, CreateAudit, ChangeRead,
     ChangeSelect, Rollback

\* Whoever has counted the seats had done so before, or has just found one.
LEMMA WhoCounts ==
  ASSUME Typed, [Next]_vars, NEW q \in Requests, req'[q].pc \in Counted
  PROVE  \/ req[q].pc \in Counted /\ req'[q].license = req[q].license
         \/ /\ req'[q].license = req[q].license
            /\ ~(Cardinality(Seats(req[q].license)) >= MaxInstallations[req[q].license])
            /\ UNCHANGED installations
<1> SUFFICES ASSUME req'[q] # req[q]
             PROVE  /\ req'[q].license = req[q].license
                    /\ \/ req[q].pc \in Counted
                       \/ /\ ~(Cardinality(Seats(req[q].license))
                                 >= MaxInstallations[req[q].license])
                          /\ UNCHANGED installations
  OBVIOUS
<1>1. ASSUME NEW r \in Requests, NEW x, Becomes(r, x)
      PROVE  q = r /\ x.pc \in Counted
  BY <1>1, OnlyMoves
<1>2. Idle.pc \notin Counted
  BY DEF Idle, Counted
<1>3. ~Rollback(q) /\ \A r \in Requests : ~Rollback(r)
  BY <1>1, <1>2 DEF Rollback
<1>4. ASSUME NEW pc, Goes(q, pc) PROVE req'[q].license = req[q].license
  <2>1. [req[q] EXCEPT !.pc = pc].license = req[q].license
    BY DEF Typed, TypeOK, Request
  <2> QED
    BY <1>4, <2>1, OnlyMoves DEF Goes
<1>5. ASSUME NEW r \in Requests, CreateCount(r) \/ CreateFind(r) \/ CreateSave(r)
      PROVE  q = r /\ \E pc \in Counted : Goes(q, pc)
  <2>1. PICK pc \in Counted : Goes(r, pc)
    BY <1>3, <1>5 DEF CreateCount, CreateFind, CreateSave, Counted
  <2> QED
    BY <1>1, <2>1 DEF Goes
<1>6. CASE \E r \in Requests : CreateCount(r) \/ CreateFind(r) \/ CreateSave(r)
  <2>1. CreateCount(q) \/ CreateFind(q) \/ CreateSave(q)
    BY <1>5, <1>6
  <2>2. req'[q].license = req[q].license
    BY <1>4, <1>5, <2>1
  <2> QED
    BY <1>3, <2>1, <2>2 DEF CreateCount, CreateFind, CreateSave, Counted
<1>7. CASE ~ \E r \in Requests : CreateCount(r) \/ CreateFind(r) \/ CreateSave(r)
  <2>1. ASSUME NEW r \in Requests, Arrive(r) PROVE FALSE
    <3>1. ASSUME NEW i, NEW l, NEW code, CreateRequest(r, i, l, code) PROVE FALSE
      <4>1. [Idle EXCEPT !.pc = "CreateLock", !.id = i, !.license = l, !.code = code].pc
              \notin Counted
        BY DEF Idle, Counted
      <4> QED
        BY <1>1, <3>1, <4>1 DEF CreateRequest
    <3>2. ASSUME NEW i, NEW s, ChangeRead(r, i, s) PROVE FALSE
      <4>1. [Idle EXCEPT !.pc = "ChangeSelect", !.id = i, !.status = s].pc \notin Counted
        BY DEF Idle, Counted
      <4> QED
        BY <1>1, <3>2, <4>1 DEF ChangeRead
    <3> QED
      BY <2>1, <3>1, <3>2 DEF Arrive
  <2>2. ASSUME NEW r \in Requests, CreateLock(r) PROVE FALSE
    <3>1. [req[r] EXCEPT !.pc = "CreateCount"].pc \notin Counted
      BY DEF Typed, TypeOK, Request, Counted
    <3> QED
      BY <1>1, <2>2, <3>1 DEF CreateLock, Goes
  <2>3. ASSUME NEW r \in Requests, CreateCommit(r) PROVE FALSE
    <3>1. [Idle EXCEPT !.pc = "CreateAudit", !.id = req[r].id].pc \notin Counted
      BY DEF Idle, Counted
    <3> QED
      BY <1>1, <2>3, <3>1 DEF CreateCommit
  <2>4. ASSUME NEW r \in Requests, ChangeSelect(r) PROVE FALSE
    <3>1. [req[r] EXCEPT !.pc = "ChangeUpdate",
                         !.base = installations[req[r].id].status].pc \notin Counted
      BY DEF Typed, TypeOK, Request, Counted
    <3> QED
      BY <1>1, <2>4, <3>1 DEF ChangeSelect
  <2>5. ASSUME NEW r \in Requests, CreateAudit(r) \/ ChangeUpdate(r) PROVE FALSE
    BY <1>1, <1>2, <2>5 DEF CreateAudit, ChangeUpdate
  <2>6. ASSUME UNCHANGED req PROVE FALSE
    BY <2>6
  <2> QED
    BY <1>3, <1>7, <2>1, <2>2, <2>3, <2>4, <2>5, <2>6
       DEF Next, Wait, Continue, Crash, Activate, vars
<1> QED
  BY <1>6, <1>7

LEMMA InitCapacity == Init => CapacityInv
<1> SUFFICES ASSUME Init PROVE CapacityInv
  OBVIOUS
<1>1. ASSUME NEW l \in Licenses PROVE Seats(l) = {}
  BY DEF Init, NoInstallation, Seats
<1>2. IsFiniteSet({}) /\ Cardinality({}) = 0
  BY FS_EmptySet
<1>3. SeatLeft
  BY DEF Init, SeatLeft, Idle, Counted
<1> QED
  BY <1>1, <1>2, <1>3 DEF CapacityInv, FiniteSeats, WithinCapacity

LEMMA NextCapacity ==
  ASSUME IInv, CapacityInv, Targets \subseteq {"DECOMMISSIONED"}, [Next]_vars
  PROVE  CapacityInv'
<1>0. \A l \in Licenses : /\ IsFiniteSet(Seats(l))
                          /\ Cardinality(Seats(l)) \in Nat
                          /\ MaxInstallations[l] \in Nat
                          /\ Cardinality(Seats(l)) <= MaxInstallations[l]
  BY FS_CardinalityType DEF CapacityInv, FiniteSeats, WithinCapacity
<1>1. \A q \in Requests : req'[q].pc \in Counted => req'[q].license \in Licenses
  BY NextInv DEF IInv, Typed, LocalsSet, Fits, Creating, InTransaction
\* It is enough to bound the seats, and to leave one to whoever has counted.
<1> SUFFICES ASSUME NEW l \in Licenses
             PROVE  /\ IsFiniteSet(Seats(l)')
                    /\ Cardinality(Seats(l)') <= MaxInstallations[l]
                    /\ \A q \in Requests :
                         req'[q].pc \in Counted /\ req'[q].license = l
                           => Cardinality(Seats(l)') < MaxInstallations[l]
  BY <1>1 DEF CapacityInv, SeatLeft, FiniteSeats, WithinCapacity
<1>2. CASE \A r \in Requests : ~CreateCommit(r)
  <2>1. /\ IsFiniteSet(Seats(l)')
        /\ Cardinality(Seats(l)') \in Nat
        /\ Cardinality(Seats(l)') <= Cardinality(Seats(l))
    BY <1>0, <1>2, SeatsGivenBack, FS_Subset, FS_CardinalityType
  <2>2. ASSUME NEW q \in Requests, req'[q].pc \in Counted, req'[q].license = l
        PROVE  Cardinality(Seats(l)) < MaxInstallations[l]
    <3>1. \/ req[q].pc \in Counted /\ req[q].license = l
          \/ ~(Cardinality(Seats(l)) >= MaxInstallations[l])
      BY <2>2, WhoCounts DEF IInv
    <3> QED
      BY <1>0, <3>1 DEF CapacityInv, SeatLeft
  <2> QED
    BY <1>0, <2>1, <2>2
<1>3. ASSUME NEW r \in Requests, CreateCommit(r), l = req[r].license
      PROVE  /\ IsFiniteSet(Seats(l)')
             /\ Cardinality(Seats(l)') <= MaxInstallations[l]
             /\ \A q \in Requests : ~(req'[q].pc \in Counted /\ req'[q].license = l)
  <2>1. req[r].pc \in Counted
    BY <1>3 DEF CreateCommit, Counted
  <2>2. Cardinality(Seats(l)) < MaxInstallations[l]
    BY <1>3, <2>1 DEF CapacityInv, SeatLeft
  <2>3. /\ IsFiniteSet(Seats(l)')
        /\ Cardinality(Seats(l)') \in Nat
        /\ Cardinality(Seats(l)') <= Cardinality(Seats(l)) + 1
    <3>1. Seats(l)' = Seats(l) \cup {req[r].id}
      BY <1>3, SeatTaken
    <3>2. /\ IsFiniteSet(Seats(l) \cup {req[r].id})
          /\ Cardinality(Seats(l) \cup {req[r].id})
               = IF req[r].id \in Seats(l) THEN Cardinality(Seats(l))
                                           ELSE Cardinality(Seats(l)) + 1
      BY <1>0, FS_AddElement
    <3> QED
      BY <1>0, <3>1, <3>2
  <2>4. ASSUME NEW q \in Requests, req'[q].pc \in Counted, req'[q].license = l
        PROVE  FALSE
    <3>1. [Idle EXCEPT !.pc = "CreateAudit", !.id = req[r].id].pc \notin Counted
      BY DEF Idle, Counted
    <3>2. q # r /\ req'[q] = req[q]
      BY <1>3, <2>4, <3>1, OnlyMoves DEF CreateCommit, IInv
    <3>3. lock[l] = q /\ lock[l] = r
      BY <1>3, <2>1, <2>4, <3>2 DEF IInv, LocksHeld, InTransaction
    <3> QED
      BY <3>2, <3>3
  <2> QED
    BY <1>0, <2>2, <2>3, <2>4
<1>4. ASSUME NEW r \in Requests, CreateCommit(r), l # req[r].license
      PROVE  /\ IsFiniteSet(Seats(l)')
             /\ Cardinality(Seats(l)') <= MaxInstallations[l]
             /\ \A q \in Requests :
                  req'[q].pc \in Counted /\ req'[q].license = l
                    => Cardinality(Seats(l)') < MaxInstallations[l]
  <2>1. Seats(l)' = Seats(l)
    BY <1>4, SeatTaken
  <2>2. ASSUME NEW q \in Requests, req'[q].pc \in Counted, req'[q].license = l
        PROVE  Cardinality(Seats(l)) < MaxInstallations[l]
    <3>1. \/ req[q].pc \in Counted /\ req[q].license = l
          \/ ~(Cardinality(Seats(l)) >= MaxInstallations[l])
      BY <2>2, WhoCounts DEF IInv
    <3> QED
      BY <1>0, <3>1 DEF CapacityInv, SeatLeft
  <2> QED
    BY <1>0, <2>1, <2>2
<1> QED
  BY <1>2, <1>3, <1>4

\* A License never carries more Installations than its capacity, however many
\* creations run at the same time, as long as administrators do nothing but
\* decommission: the count made under the advisory lock stays good until the
\* transaction ends.
THEOREM CapacityKept ==
  ASSUME Targets \subseteq {"DECOMMISSIONED"}
  PROVE  Spec => []WithinCapacity
<1>1. Init => IInv /\ CapacityInv
  BY InitInv, InitCapacity
<1>2. IInv /\ CapacityInv /\ [Next]_vars => (IInv /\ CapacityInv)'
  BY NextInv, NextCapacity
<1>3. IInv /\ CapacityInv => WithinCapacity
  BY DEF CapacityInv
<1> QED
  BY <1>1, <1>2, <1>3, PTL DEF Spec

(* The refinement: what the table shows of each step is a step of           *)
(* ProvisioningContract.                                                    *)

seated == [l \in Licenses |-> Seats(l)]
codeOf == [i \in Ids |-> installations[i].code]

\* Decommissioning an Installation gives its seat back, if it had one.
LEMMA ChangeImplements ==
  ASSUME IInv, Targets \subseteq {"DECOMMISSIONED"}, NEW r \in Requests, ChangeUpdate(r)
  PROVE  Contract!Next \/ UNCHANGED Contract!cvars
<1>1. PICK i, l : i = req[r].id /\ l = installations[req[r].id].license
  OBVIOUS
<1>2. req[r].status = "DECOMMISSIONED" /\ i \in Ids /\ req[r].pc = "ChangeUpdate"
  BY <1>1 DEF IInv, Typed, LocalsSet, Fits, ChangeUpdate, Changing
<1>3. l \in Licenses
  BY <1>1, <1>2
     DEF IInv, IdsReserved, Exists, Typed, TypeOK, InstallationRow, Creating, InTransaction, Counted
<1>4. CASE UNCHANGED installations
  BY <1>4 DEF Contract!cvars, ChangeUpdate, Seats
<1>5. CASE installations' = [installations EXCEPT ![i].status = "DECOMMISSIONED"]
  <2>1. /\ installations'[i].status = "DECOMMISSIONED"
        /\ installations'[i].license = installations[i].license
        /\ installations'[i].code = installations[i].code
        /\ \A j \in Ids \ {i} : installations'[j] = installations[j]
    BY <1>2, <1>5 DEF IInv, Typed, TypeOK, InstallationRow
  <2>2. \A m \in Licenses : Seats(m)' = IF m = l THEN Seats(m) \ {i} ELSE Seats(m)
    BY <1>1, <1>2, <2>1 DEF Seats
  <2>3. seated' = [seated EXCEPT ![l] = seated[l] \ {i}]
    BY <2>2 DEF seated
  <2>4. UNCHANGED <<codeOf, recorded>>
    BY <2>1 DEF codeOf, ChangeUpdate
  <2>5. CASE i \in Seats(l)
    <3>1. i \in seated[l]
      BY <1>3, <2>5 DEF seated
    <3>2. Contract!Leave(l, i)
      BY <2>3, <2>4, <3>1 DEF Contract!Leave, seated, codeOf
    <3> QED
      BY <1>2, <1>3, <3>2 DEF Contract!Next
  <2>6. CASE i \notin Seats(l)
    <3>1. \A m \in Licenses : Seats(m)' = Seats(m)
      BY <2>2, <2>6
    <3>2. UNCHANGED <<seated, codeOf, recorded>>
      BY <2>4, <3>1 DEF seated
    <3> QED
      BY <3>2 DEF Contract!cvars, seated, codeOf
  <2> QED
    BY <2>5, <2>6
<1> QED
  BY <1>1, <1>2, <1>4, <1>5 DEF ChangeUpdate

\* The contract counts as the system does.
LEMMA SameCardinality == \A S : Contract!Cardinality(S) = Cardinality(S)
  BY DEF Cardinality, Contract!Cardinality

LEMMA NextImplements ==
  ASSUME IInv, CapacityInv, Targets \subseteq {"DECOMMISSIONED"}, [Next]_vars
  PROVE  [Contract!Next]_(Contract!cvars)
<1>1. ASSUME UNCHANGED <<installations, recorded>> PROVE UNCHANGED Contract!cvars
  BY <1>1 DEF Contract!cvars, Seats
<1>2. ASSUME NEW i \in Ids, Activate(i) PROVE UNCHANGED Contract!cvars
  <2>1. \A j \in Ids : /\ installations'[j].license = installations[j].license
                       /\ installations'[j].code = installations[j].code
                       /\ installations'[j].status = "DECOMMISSIONED"
                            <=> installations[j].status = "DECOMMISSIONED"
    BY <1>2 DEF Activate, IInv, Typed, TypeOK, InstallationRow
  <2>2. recorded' = recorded
    BY <1>2 DEF Activate
  <2> QED
    BY <2>1, <2>2 DEF Contract!cvars, Seats
<1>3. ASSUME NEW r \in Requests, CreateAudit(r)
      PROVE  Contract!Next \/ UNCHANGED Contract!cvars
  <2>1. PICK i : i = req[r].id
    OBVIOUS
  <2>2. i \in Ids /\ installations[i].code # NoCode
    BY <1>3, <2>1 DEF IInv, IdsReserved, WholeRows, Typed, LocalsSet, Fits, CreateAudit,
       Creating, InTransaction, Counted
  <2>3. UNCHANGED <<seated, codeOf>>
    BY <1>3 DEF CreateAudit, seated, codeOf, Seats
  <2>4. CASE recorded' = recorded
    BY <2>3, <2>4 DEF Contract!cvars, seated, codeOf
  <2>5. CASE recorded' = recorded \cup {i}
    <3>1. codeOf[i] # NoCode
      BY <2>2 DEF codeOf
    <3>2. Contract!Record(i)
      BY <2>3, <2>5, <3>1 DEF Contract!Record, seated, codeOf
    <3> QED
      BY <2>2, <3>2 DEF Contract!Next
  <2> QED
    BY <1>3, <2>1, <2>4, <2>5 DEF CreateAudit
<1>4. ASSUME NEW r \in Requests, CreateCommit(r) PROVE Contract!Next
  <2>1. PICK i, l, c : i = req[r].id /\ l = req[r].license /\ c = req[r].code
    OBVIOUS
  <2>2. /\ i \in Ids /\ l \in Licenses /\ c \in InstallationCodes
        /\ ~Exists(i) /\ ~CodeTaken(c)
        /\ Cardinality(Seats(l)) < MaxInstallations[l]
    BY <1>4, <2>1 DEF CreateCommit, IInv, IdsReserved, CodeFree, Typed, LocalsSet, Fits,
       Creating, InTransaction, Counted, CapacityInv, SeatLeft
  <2>3. /\ installations'[i].code = c
        /\ \A j \in Ids : j # i => installations'[j] = installations[j]
    <3>1. /\ installations'[i] = NewInstallation(l, c)
          /\ \A j \in Ids : j # i => installations'[j] = installations[j]
      BY <1>4, <2>1, RowAdded DEF IInv
    <3> QED
      BY <3>1 DEF NewInstallation
  <2>4. seated' = [seated EXCEPT ![l] = seated[l] \cup {i}]
    BY <1>4, <2>1, SeatTaken DEF seated
  <2>5. codeOf' = [codeOf EXCEPT ![i] = c]
    BY <2>2, <2>3 DEF codeOf
  <2>6. codeOf[i] = NoCode /\ \A j \in Ids : codeOf[j] # c
    BY <2>2 DEF codeOf, CodeTaken, IInv, WholeRows
  <2>7. recorded' = recorded
    BY <1>4 DEF CreateCommit
  <2>8. Contract!Cardinality(seated[l]) < MaxInstallations[l]
    BY <2>2, SameCardinality DEF seated
  <2>9. Contract!Seat(l, i, c)
    BY <2>4, <2>5, <2>6, <2>7, <2>8 DEF Contract!Seat, seated, codeOf
  <2> QED
    BY <2>2, <2>9 DEF Contract!Next
<1>5. \/ UNCHANGED <<installations, recorded>>
      \/ \E i \in Ids : Activate(i)
      \/ \E r \in Requests : CreateAudit(r) \/ CreateCommit(r) \/ ChangeUpdate(r)
  BY DEF Next, vars, Arrive, Wait, Continue, Crash, CreateRequest, CreateLock, CreateCount,
     CreateFind, CreateSave, ChangeRead, ChangeSelect, Rollback
<1> QED
  BY <1>1, <1>2, <1>3, <1>4, <1>5, ChangeImplements

\* As long as administrators do nothing but decommission, the handlers do what
\* ProvisioningContract says and nothing else: a seat is taken in one step,
\* while there is one, under a code nobody has, and given back for good; and
\* the audit trail names Installations that came to be.
THEOREM ProvisioningImplements ==
  ASSUME Targets \subseteq {"DECOMMISSIONED"}
  PROVE  Spec => ImplementsContract
<1>1. Init => IInv /\ CapacityInv
  BY InitInv, InitCapacity
<1>2. IInv /\ CapacityInv /\ [Next]_vars => (IInv /\ CapacityInv)'
  BY NextInv, NextCapacity
<1>3. IInv /\ CapacityInv /\ [Next]_vars => [Contract!Next]_(Contract!cvars)
  BY NextImplements
<1>4. ASSUME Init PROVE Contract!Init
  <2>1. \A i \in Ids : installations[i].license = NoLicense /\ installations[i].code = NoCode
    BY <1>4 DEF Init, NoInstallation
  <2>2. \A l \in Licenses : Seats(l) = {}
    BY <2>1 DEF Seats
  <2>3. recorded = {}
    BY <1>4 DEF Init
  <2> QED
    BY <2>1, <2>2, <2>3 DEF Contract!Init
<1> QED
  BY <1>1, <1>2, <1>3, <1>4, PTL DEF Spec, ImplementsContract, Contract!Spec

=============================================================================
