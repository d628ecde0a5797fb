------------------------ MODULE AdminSessionsProofs ------------------------
(***************************************************************************)
(* Theorems about AdminSessions, for every number of sessions and every    *)
(* set of administrators and requests.                                     *)
(***************************************************************************)
EXTENDS AdminSessionsInv, WellFoundedInduction, TLAPS

USE MaxSessionAssumption, NobodyAssumption

-----------------------------------------------------------------------------
(* The order in which an UPDATE visits its rows.                           *)

LEMMA FirstIsMember ==
  ASSUME NEW S \in SUBSET Nat, S # {}
  PROVE  FirstOf(S) \in S
<1>1. PICK s \in S : \A t \in S : <<t, s>> \notin OpToRel(<, Nat)
  BY WFMin, NatLessThanWellFounded
<1>2. ASSUME NEW t \in S, t < s PROVE FALSE
  <2>1. <<t, s>> \in OpToRel(<, Nat)
    <3>1. <<t, s>> \in Nat \X Nat /\ <<t, s>>[1] = t /\ <<t, s>>[2] = s
      OBVIOUS
    <3> QED
      BY <1>2, <3>1 DEF OpToRel
  <2> QED
    BY <1>1, <2>1
<1>3. \A t \in S : s <= t
  BY <1>2
<1> QED
  BY <1>3 DEF FirstOf

-----------------------------------------------------------------------------
(* Types.                                                                  *)

LEMMA NoSessionIsNone == NoSession \notin Sessions /\ Sessions \subseteq Nat
  BY DEF NoSession, Sessions

LEMMA IdleType == Idle \in Request
  BY DEF Idle, Request, PCs

LEMMA UnusedType == UnusedSession \in SessionRow
  BY DEF UnusedSession, SessionRow

LEMMA NewSessionIs ==
  ASSUME NEW u \in Users, NEW p \in Sessions \cup {NoSession}
  PROVE  /\ NewSession(u, p) \in SessionRow
         /\ NewSession(u, p).user = u /\ NewSession(u, p).parent = p
         /\ ~NewSession(u, p).revoked
  BY DEF NewSession, UnusedSession, SessionRow

LEMMA BecomesType ==
  ASSUME TypeOK, NEW r \in Requests, NEW x \in Request, Becomes(r, x)
  PROVE  req' \in [Requests -> Request]
  BY DEF TypeOK, Becomes

LEMMA ReleasedType ==
  ASSUME TypeOK, NEW r \in Requests
  PROVE  Released(r) \in [Sessions -> Requests \cup {NoOne}]
  BY DEF TypeOK, Released

LEMMA AcquireType ==
  ASSUME TypeOK, NEW r \in Requests, NEW s, Acquire(s, r)
  PROVE  lock' \in [Sessions -> Requests \cup {NoOne}]
  BY DEF TypeOK, Acquire

LEMMA RollbackType ==
  ASSUME TypeOK, NEW r \in Requests, Rollback(r)
  PROVE  TypeOK'
  BY IdleType, BecomesType, ReleasedType DEF Rollback, TypeOK

-----------------------------------------------------------------------------
(* The rows.  Every step lets them grow: a session keeps its administrator *)
(* and its parent, and what has been revoked stays so.                     *)

Grows ==
  \A s \in Sessions :
    Exists(s) => /\ sessions'[s].user = sessions[s].user
                 /\ sessions'[s].parent = sessions[s].parent
                 /\ sessions[s].revoked => sessions'[s].revoked

\* What request r does with row locks does not concern the others, and it ends
\* no session whose row one of them has locked.
KeepsOff(r) ==
  /\ \A q \in Requests \ {r} : \A s \in Sessions : lock'[s] = q <=> lock[s] = q
  /\ \A s \in Sessions : Active(s) => Active(s)' \/ lock[s] \in {NoOne, r}

LEMMA GrowsExists ==
  ASSUME Grows, NEW s \in Sessions, Exists(s)
  PROVE  Exists(s)' /\ (~Active(s) => ~Active(s)')
  BY DEF Grows, Exists, Active

\* What another request relies on is left alone.
LEMMA OthersRely ==
  ASSUME IInv, Grows, NEW r \in Requests, KeepsOff(r), NEW q \in Requests, q # r,
         req'[q] = req[q]
  PROVE  (Relies(q) /\ HeldWithin(q))'
<1>1. Relies(q) /\ HeldWithin(q) /\ req[q] \in Request
  BY DEF IInv, AllSound, TypeOK
<1>2. HeldWithin(q)'
  BY <1>1 DEF HeldWithin, KeepsOff
<1>3. PICK x \in Request : x = req[q] /\ x = req'[q]
  BY <1>1
<1>4. x.pc # "idle" => x.session \in Sessions /\ Exists(x.session)
  BY <1>1, <1>3 DEF Relies
<1>5. x.pc # "idle" => x.session \in Sessions /\ Exists(x.session)'
  BY <1>4, GrowsExists
<1>6. x.pc = "RefreshCommit" => lock'[x.session] = q /\ Active(x.session)'
  <2>1. x.pc = "RefreshCommit" => lock[x.session] = q /\ Active(x.session)
    BY <1>1, <1>3 DEF Relies
  <2> QED
    BY <1>4, <2>1 DEF KeepsOff
<1>7. x.pc \in {"RevokeAllScan", "RevokeAllLock"}
        => x.genuine /\ sessions'[x.session].revoked
  BY <1>1, <1>3, <1>4 DEF Relies, Grows
<1>8. ASSUME x.pc = "RevokeAllLock", NEW s \in x.seen
      PROVE  /\ Exists(s)' /\ sessions'[s].user = sessions'[x.session].user
             /\ s \in x.todo \/ lock'[s] = q \/ ~Active(s)'
  <2>1. s \in Sessions
    BY DEF Request
  <2>2. /\ Exists(s) /\ sessions[s].user = sessions[x.session].user
        /\ s \in x.todo \/ lock[s] = q \/ ~Active(s)
    BY <1>1, <1>3, <1>8 DEF Relies
  <2> QED
    BY <1>4, <1>8, <2>1, <2>2, GrowsExists DEF Grows, KeepsOff
<1>9. x.pc = "RevokeAllLock" => x.todo \subseteq x.seen
  BY <1>1, <1>3 DEF Relies
<1>10. Relies(q)'
  <2>1. ASSUME x.pc = "RevokeAllLock"
        PROVE  /\ x.todo \subseteq x.seen
               /\ \A s \in x.seen :
                    /\ Exists(s)' /\ sessions'[s].user = sessions'[x.session].user
                    /\ s \in x.todo \/ lock'[s] = q \/ ~Active(s)'
    BY <1>8, <1>9, <2>1
  <2> QED
    BY <1>3, <1>5, <1>6, <1>7, <2>1 DEF Relies, Exists, Active
<1> QED
  BY <1>2, <1>10

\* A step of request r is sound if r can rely on what it goes on with.
LEMMA SoundStep ==
  ASSUME IInv, Grows, NEW r \in Requests, KeepsOff(r), NEW x, Becomes(r, x),
         (Relies(r) /\ HeldWithin(r))'
  PROVE  AllSound'
<1>1. \A q \in Requests \ {r} : req'[q] = req[q]
  BY DEF IInv, TypeOK, Becomes
<1>2. ASSUME NEW q \in Requests, q # r PROVE (Relies(q) /\ HeldWithin(q))'
  BY <1>1, <1>2, OthersRely
<1> QED
  BY <1>2 DEF AllSound

LEMMA ReleasedKeepsOff ==
  ASSUME TypeOK, NEW r \in Requests, lock' = Released(r)
  PROVE  /\ \A q \in Requests \ {r} : \A s \in Sessions : lock'[s] = q <=> lock[s] = q
         /\ \A s \in Sessions : lock'[s] # r
  BY DEF TypeOK, Released

LEMMA AcquireKeepsOff ==
  ASSUME TypeOK, NEW r \in Requests, NEW t \in Sessions, Acquire(t, r)
  PROVE  /\ \A q \in Requests \ {r} : \A s \in Sessions : lock'[s] = q <=> lock[s] = q
         /\ \A s \in Sessions : lock'[s] = r <=> lock[s] = r \/ s = t
  BY DEF TypeOK, Acquire, Free

\* Steps that change no session.
LEMMA SameRows ==
  ASSUME IInv, UNCHANGED sessions
  PROVE  /\ Grows /\ BlankRows' /\ OneLiveToken'
         /\ \A s \in Sessions : Exists(s)' = Exists(s) /\ Active(s)' = Active(s)
  BY DEF IInv, Grows, BlankRows, OneLiveToken, OneSuccessor, ExchangedIsDead,
     Exists, Active

LEMMA IdleRelies ==
  ASSUME NEW r \in Requests, req'[r] = Idle, \A s \in Sessions : lock'[s] # r
  PROVE  (Relies(r) /\ HeldWithin(r))'
  BY DEF Relies, HeldWithin, Idle

LEMMA RollbackKeeps ==
  ASSUME IInv, NEW r \in Requests, Rollback(r)
  PROVE  IInv'
<1>1. TypeOK /\ Becomes(r, Idle) /\ lock' = Released(r) /\ UNCHANGED sessions
  BY DEF IInv, Rollback
<1>2. Grows /\ BlankRows' /\ OneLiveToken' /\ KeepsOff(r) /\ \A s \in Sessions : lock'[s] # r
  BY <1>1, SameRows, ReleasedKeepsOff DEF KeepsOff
<1>3. req'[r] = Idle
  BY <1>1 DEF TypeOK, Becomes
<1>4. AllSound'
  BY <1>1, <1>2, <1>3, IdleRelies, SoundStep
<1> QED
  BY <1>1, <1>2, <1>4, RollbackType DEF IInv

\* Steps that change neither a session nor a row lock.
LEMMA LocalStep ==
  ASSUME IInv, UNCHANGED <<sessions, lock>>, NEW r \in Requests, NEW x \in Request,
         Becomes(r, x), (Relies(r) /\ HeldWithin(r))'
  PROVE  IInv'
<1>1. TypeOK'
  BY BecomesType DEF IInv, TypeOK
<1>2. Grows /\ BlankRows' /\ OneLiveToken' /\ KeepsOff(r)
  BY SameRows DEF KeepsOff
<1> QED
  BY <1>1, <1>2, SoundStep DEF IInv

\* Steps that take one row lock.
LEMMA LockStep ==
  ASSUME IInv, UNCHANGED sessions, NEW r \in Requests, NEW x \in Request,
         NEW s \in Sessions, Acquire(s, r), Becomes(r, x), (Relies(r) /\ HeldWithin(r))'
  PROVE  IInv'
<1>1. TypeOK'
  BY BecomesType, AcquireType DEF IInv, TypeOK
<1>2. Grows /\ BlankRows' /\ OneLiveToken' /\ KeepsOff(r)
  BY SameRows, AcquireKeepsOff DEF KeepsOff, IInv
<1> QED
  BY <1>1, <1>2, SoundStep DEF IInv

-----------------------------------------------------------------------------
(* The handlers keep IInv.                                                 *)

LEMMA RefreshRequestKeeps ==
  ASSUME IInv, NEW r \in Requests, NEW s \in Sessions, NEW genuine \in BOOLEAN,
         RefreshRequest(r, s, genuine)
  PROVE  IInv'
<1> DEFINE x == [Idle EXCEPT !.pc = "RefreshLock", !.session = s, !.genuine = genuine]
<1>1. x \in Request /\ x.pc = "RefreshLock" /\ x.session = s
  BY IdleType DEF Request, PCs, Idle
<1>2. /\ req[r].pc = "idle" /\ Exists(s) /\ Becomes(r, x) /\ UNCHANGED <<sessions, lock>>
      /\ req \in [Requests -> Request] /\ HeldWithin(r)
  BY DEF RefreshRequest, IInv, TypeOK, AllSound
<1> HIDE DEF x
<1>3. req'[r] = x
  BY <1>2 DEF Becomes
<1>4. (Relies(r) /\ HeldWithin(r))'
  BY <1>1, <1>2, <1>3 DEF Relies, HeldWithin, Exists
<1> QED
  BY <1>1, <1>2, <1>4, LocalStep

LEMMA RefreshLockKeeps ==
  ASSUME IInv, NEW r \in Requests, RefreshLock(r)
  PROVE  IInv'
<1>1. /\ req[r].pc = "RefreshLock" /\ req \in [Requests -> Request]
      /\ Relies(r) /\ HeldWithin(r) /\ req[r].session \in Sessions
      /\ Exists(req[r].session)
  BY DEF RefreshLock, IInv, TypeOK, AllSound, Relies
<1>2. CASE Rollback(r)
  BY <1>2, RollbackKeeps
<1>3. ASSUME NEW pc, pc = "RevokeAllScan" \/ pc = "RefreshCommit",
             Acquire(req[r].session, r), UNCHANGED sessions,
             Becomes(r, [req[r] EXCEPT !.pc = pc]),
             pc = "RevokeAllScan" => req[r].genuine /\ sessions[req[r].session].revoked,
             pc = "RefreshCommit" => ~sessions[req[r].session].revoked
      PROVE  IInv'
  <2> DEFINE x == [req[r] EXCEPT !.pc = pc]
  <2>1. /\ x \in Request /\ x.pc = pc /\ x.session = req[r].session
        /\ x.genuine = req[r].genuine
    BY <1>1, <1>3 DEF Request, PCs
  <2>2. PICK s \in Sessions : s = req[r].session
    BY <1>1
  <2>3. Acquire(s, r) /\ Becomes(r, x)
    BY <1>3, <2>2
  <2> HIDE DEF x
  <2>4. req'[r] = x
    BY <1>1, <2>3 DEF Becomes
  <2>5. \A t \in Sessions : lock'[t] = r <=> lock[t] = r \/ t = s
    BY <2>3, AcquireKeepsOff DEF IInv
  <2>6. HeldWithin(r)'
    BY <1>1, <1>3, <2>1, <2>2, <2>4, <2>5 DEF HeldWithin
  <2>7. Relies(r)'
    BY <1>1, <1>3, <2>1, <2>2, <2>4, <2>5 DEF Relies, Exists, Active
  <2> QED
    BY <1>3, <2>1, <2>3, <2>6, <2>7, LockStep
<1> QED
  BY <1>2, <1>3 DEF RefreshLock

LEMMA RevokeAllScanKeeps ==
  ASSUME IInv, NEW r \in Requests, RevokeAllScan(r)
  PROVE  IInv'
<1> DEFINE rows == Matching(sessions[req[r].session].user)
           x == [req[r] EXCEPT !.pc = "RevokeAllLock", !.seen = rows, !.todo = rows]
<1>1. /\ req[r].pc = "RevokeAllScan" /\ req \in [Requests -> Request]
      /\ Relies(r) /\ HeldWithin(r) /\ Becomes(r, x) /\ UNCHANGED <<sessions, lock>>
  BY DEF RevokeAllScan, IInv, TypeOK, AllSound
<1>2. rows \in SUBSET Sessions
  BY DEF Matching
<1>3. /\ x \in Request /\ x.pc = "RevokeAllLock" /\ x.session = req[r].session
      /\ x.genuine = req[r].genuine /\ x.seen = rows /\ x.todo = rows
  BY <1>1, <1>2 DEF Request, PCs
<1> HIDE DEF x
<1>4. req'[r] = x
  BY <1>1 DEF Becomes
<1>5. HeldWithin(r)'
  BY <1>1, <1>3, <1>4 DEF HeldWithin
<1>6. Relies(r)'
  BY <1>1, <1>3, <1>4 DEF Relies, Matching, Exists, Active
<1> QED
  BY <1>1, <1>3, <1>5, <1>6, LocalStep

LEMMA RevokeAllLockKeeps ==
  ASSUME IInv, NEW r \in Requests, RevokeAllLock(r)
  PROVE  IInv'
<1>1. /\ req[r].pc = "RevokeAllLock" /\ req \in [Requests -> Request]
      /\ Relies(r) /\ HeldWithin(r) /\ UNCHANGED sessions
  BY DEF RevokeAllLock, IInv, TypeOK, AllSound
<1>2. PICK s : s = FirstOf(req[r].todo)
  OBVIOUS
<1>3. s \in req[r].todo /\ s \in Sessions /\ s \in req[r].seen
  <2>1. req[r].todo # {} /\ req[r].todo \subseteq req[r].seen
    BY <1>1 DEF RevokeAllLock, Relies
  <2>2. req[r].todo \in SUBSET Sessions
    BY <1>1 DEF Request
  <2> QED
    BY <1>2, <2>1, <2>2, FirstIsMember, NoSessionIsNone
<1> DEFINE x == [req[r] EXCEPT !.todo = req[r].todo \ {s}]
<1>4. /\ x \in Request /\ x.pc = "RevokeAllLock" /\ x.session = req[r].session
      /\ x.genuine = req[r].genuine /\ x.seen = req[r].seen
      /\ x.todo = req[r].todo \ {s}
  BY <1>1 DEF Request
<1>5. Becomes(r, x)
  BY <1>2 DEF RevokeAllLock
<1> HIDE DEF x
<1>6. req'[r] = x
  BY <1>1, <1>5 DEF Becomes
<1>7. ASSUME \A t \in Sessions : lock'[t] = r <=> lock[t] = r \/ (t = s /\ Active(s)),
             Active(s) \/ lock' = lock
      PROVE  (Relies(r) /\ HeldWithin(r))'
  <2>1. HeldWithin(r)'
    BY <1>1, <1>3, <1>4, <1>6, <1>7 DEF HeldWithin
  <2>2. \A t \in req[r].seen : t \in Sessions
    BY <1>1 DEF Request
  <2>3. Relies(r)'
    BY <1>1, <1>3, <1>4, <1>6, <1>7, <2>2 DEF Relies, Exists, Active
  <2> QED
    BY <2>1, <2>3
<1>8. CASE Active(s) /\ Acquire(s, r)
  <2>1. \A t \in Sessions : lock'[t] = r <=> lock[t] = r \/ t = s
    BY <1>3, <1>8, AcquireKeepsOff DEF IInv
  <2> QED
    BY <1>1, <1>3, <1>4, <1>5, <1>7, <1>8, <2>1, LockStep
<1>9. CASE ~Active(s) /\ UNCHANGED lock
  BY <1>1, <1>4, <1>5, <1>7, <1>9, LocalStep
<1> QED
  BY <1>2, <1>8, <1>9 DEF RevokeAllLock

LEMMA RejectKeeps ==
  ASSUME IInv, NEW r \in Requests, Reject(r)
  PROVE  IInv'
<1>1. /\ req[r].pc = "Replayed" /\ req \in [Requests -> Request] /\ HeldWithin(r)
      /\ Becomes(r, Idle) /\ UNCHANGED <<sessions, lock>>
  BY DEF Reject, IInv, TypeOK, AllSound
<1>2. req'[r] = Idle /\ \A s \in Sessions : lock'[s] # r
  BY <1>1 DEF Becomes, HeldWithin
<1> QED
  BY <1>1, <1>2, IdleType, IdleRelies, LocalStep

LEMMA LogoutFindKeeps ==
  ASSUME IInv, NEW r \in Requests, NEW s \in Sessions, LogoutFind(r, s)
  PROVE  IInv'
<1> DEFINE x == [Idle EXCEPT !.pc = "LogoutSelect", !.session = s]
<1>1. x \in Request /\ x.pc = "LogoutSelect" /\ x.session = s
  BY IdleType DEF Request, PCs, Idle
<1>2. /\ req[r].pc = "idle" /\ Active(s) /\ Becomes(r, x) /\ UNCHANGED <<sessions, lock>>
      /\ req \in [Requests -> Request] /\ HeldWithin(r)
  BY DEF LogoutFind, IInv, TypeOK, AllSound
<1> HIDE DEF x
<1>3. req'[r] = x
  BY <1>2 DEF Becomes
<1>4. (Relies(r) /\ HeldWithin(r))'
  BY <1>1, <1>2, <1>3 DEF Relies, HeldWithin, Exists, Active
<1> QED
  BY <1>1, <1>2, <1>4, LocalStep

LEMMA LogoutSelectKeeps ==
  ASSUME IInv, NEW r \in Requests, LogoutSelect(r)
  PROVE  IInv'
<1> DEFINE x == [req[r] EXCEPT !.pc = "LogoutUpdate",
                               !.base = sessions[req[r].session].replaced]
<1>1. /\ req[r].pc = "LogoutSelect" /\ Becomes(r, x) /\ UNCHANGED <<sessions, lock>>
      /\ req \in [Requests -> Request] /\ Relies(r) /\ HeldWithin(r)
  BY DEF LogoutSelect, IInv, TypeOK, AllSound
<1>2. sessions[req[r].session].replaced \in Sessions \cup {NoSession}
  BY <1>1 DEF IInv, TypeOK, Relies, SessionRow
<1>3. x \in Request /\ x.pc = "LogoutUpdate" /\ x.session = req[r].session
  BY <1>1, <1>2 DEF Request, PCs
<1> HIDE DEF x
<1>4. req'[r] = x
  BY <1>1 DEF Becomes
<1>5. (Relies(r) /\ HeldWithin(r))'
  BY <1>1, <1>3, <1>4 DEF Relies, HeldWithin, Exists, Active
<1> QED
  BY <1>1, <1>3, <1>5, LocalStep

-----------------------------------------------------------------------------
(* The steps that change a session.                                        *)

\* The step may end sessions, and opens none.
OnlyEnds ==
  \A s \in Sessions : /\ sessions'[s].user = sessions[s].user
                      /\ sessions'[s].parent = sessions[s].parent
                      /\ sessions[s].revoked => sessions'[s].revoked
                      /\ ~Exists(s) => sessions'[s] = sessions[s]

LEMMA OnlyEndsKeeps ==
  ASSUME IInv, OnlyEnds
  PROVE  Grows /\ BlankRows' /\ OneLiveToken'
<1>1. /\ BlankRows'
      /\ \A s \in Sessions : Exists(s)' = Exists(s) /\ (Active(s)' => Active(s))
  BY DEF IInv, OnlyEnds, BlankRows, Exists, Active
<1>2. ASSUME NEW s \in Sessions, NEW t \in Sessions, Exists(s)', Exists(t)',
             sessions'[s].parent # NoSession
      PROVE  /\ sessions'[s].parent = sessions'[t].parent => s = t
             /\ sessions'[sessions'[s].parent].user = sessions'[s].user
             /\ ~Active(sessions[s].parent)'
  <2>1. /\ sessions[s].parent = sessions[t].parent => s = t
        /\ sessions[sessions[s].parent].user = sessions[s].user
        /\ ~Active(sessions[s].parent)
    BY <1>1, <1>2 DEF IInv, OnlyEnds, OneLiveToken, OneSuccessor, ExchangedIsDead
  <2>2. PICK p \in Sessions : p = sessions[s].parent /\ p = sessions'[s].parent
    BY <1>2 DEF IInv, TypeOK, SessionRow, OnlyEnds
  <2>3. ~Active(p)'
    BY <1>1, <2>1, <2>2
  <2> QED
    BY <2>1, <2>2, <2>3 DEF OnlyEnds, Active, Exists
<1>3. OneSuccessor'
  BY <1>2 DEF OneSuccessor
<1>4. ExchangedIsDead'
  <2> SUFFICES ASSUME NEW s \in Sessions, Exists(s)', sessions'[s].parent # NoSession
               PROVE  ~Active(sessions[s].parent)'
    BY DEF ExchangedIsDead
  <2> QED
    BY <1>2
<1> QED
  BY <1>1, <1>3, <1>4 DEF OneLiveToken, Grows, OnlyEnds

LEMMA ExpireWrites ==
  ASSUME TypeOK, NEW s \in Sessions, Expire(s)
  PROVE  /\ sessions' \in [Sessions -> SessionRow] /\ UNCHANGED <<lock, req>>
         /\ Exists(s)
         /\ \A t \in Sessions : /\ sessions'[t].user = sessions[t].user
                                /\ sessions'[t].parent = sessions[t].parent
                                /\ sessions'[t].revoked = sessions[t].revoked
                                /\ t # s => sessions'[t] = sessions[t]
<1>1. /\ sessions \in [Sessions -> SessionRow] /\ Exists(s) /\ UNCHANGED <<lock, req>>
      /\ sessions' = [sessions EXCEPT ![s].expired = TRUE]
  BY DEF TypeOK, Expire, Active
<1> QED
  BY <1>1 DEF SessionRow

LEMMA ExpireKeeps ==
  ASSUME IInv, NEW s \in Sessions, Expire(s)
  PROVE  IInv'
<1>1. /\ sessions' \in [Sessions -> SessionRow] /\ UNCHANGED <<lock, req>>
      /\ Exists(s)
      /\ \A t \in Sessions : /\ sessions'[t].user = sessions[t].user
                             /\ sessions'[t].parent = sessions[t].parent
                             /\ sessions'[t].revoked = sessions[t].revoked
                             /\ t # s => sessions'[t] = sessions[t]
  BY ExpireWrites DEF IInv
<1>2. OnlyEnds /\ TypeOK'
  BY <1>1 DEF OnlyEnds, IInv, TypeOK
<1>3. Grows /\ BlankRows' /\ OneLiveToken'
  BY <1>2, OnlyEndsKeeps
<1>4. \A r \in Requests : KeepsOff(r)
  BY <1>1 DEF KeepsOff, Active, Exists
<1>5. ASSUME NEW q \in Requests PROVE (Relies(q) /\ HeldWithin(q))'
  <2>1. Relies(q) /\ HeldWithin(q) /\ req[q] \in Request
    BY DEF IInv, AllSound, TypeOK
  <2>2. \A t \in req[q].seen : t \in Sessions
    BY <2>1 DEF Request
  <2> QED
    BY <1>1, <2>1, <2>2 DEF Relies, HeldWithin, Exists, Active
<1> QED
  BY <1>2, <1>3, <1>5 DEF IInv, AllSound

LEMMA LoginWrites ==
  ASSUME TypeOK, NEW u \in Users, NEW s \in Sessions, Login(u, s)
  PROVE  /\ sessions' \in [Sessions -> SessionRow] /\ UNCHANGED <<lock, req>>
         /\ ~Exists(s)
         /\ sessions'[s].user = u /\ sessions'[s].parent = NoSession
         /\ ~sessions'[s].revoked
         /\ \A t \in Sessions \ {s} : sessions'[t] = sessions[t]
<1>1. /\ sessions \in [Sessions -> SessionRow] /\ ~Exists(s) /\ UNCHANGED <<lock, req>>
      /\ sessions' = [sessions EXCEPT ![s] = NewSession(u, NoSession)]
  BY DEF TypeOK, Login, FreshRow
<1> QED
  BY <1>1, NewSessionIs

LEMMA LoginKeeps ==
  ASSUME IInv, NEW u \in Users, NEW s \in Sessions, Login(u, s)
  PROVE  IInv'
<1>1. /\ sessions' \in [Sessions -> SessionRow] /\ UNCHANGED <<lock, req>>
      /\ ~Exists(s)
      /\ sessions'[s].user = u /\ sessions'[s].parent = NoSession
      /\ ~sessions'[s].revoked
      /\ \A t \in Sessions \ {s} : sessions'[t] = sessions[t]
  BY LoginWrites DEF IInv
<1>2. TypeOK'
  BY <1>1 DEF IInv, TypeOK
<1>3. \A t \in Sessions : Exists(t) => t # s /\ Exists(t)' /\ Active(t)' = Active(t)
  BY <1>1 DEF Exists, Active
<1>4. \A t \in Sessions : Exists(t)' /\ sessions'[t].parent # NoSession
                            => t # s /\ Exists(t) /\ sessions'[t] = sessions[t]
  BY <1>1 DEF Exists
<1>5. BlankRows'
  BY <1>1 DEF IInv, BlankRows, Exists
<1>6. ASSUME NEW t \in Sessions, Exists(t), sessions[t].parent # NoSession
      PROVE  /\ sessions[t].parent \in Sessions /\ Exists(sessions[t].parent)
             /\ sessions[t].parent # s
  BY <1>1, <1>6 DEF IInv, TypeOK, SessionRow, OneLiveToken, OneSuccessor, Exists
<1>7. OneSuccessor'
  <2> SUFFICES ASSUME NEW t \in Sessions, NEW v \in Sessions, Exists(t)', Exists(v)',
                      sessions'[t].parent # NoSession
               PROVE  /\ sessions'[t].parent = sessions'[v].parent => t = v
                      /\ sessions'[sessions'[t].parent].user = sessions'[t].user
    BY DEF OneSuccessor
  <2>1. t # s /\ Exists(t) /\ sessions'[t] = sessions[t]
    BY <1>4
  <2>2. sessions'[t].parent = sessions'[v].parent => Exists(v) /\ sessions'[v] = sessions[v]
    BY <1>4
  <2> QED
    BY <1>1, <1>6, <2>1, <2>2 DEF IInv, OneLiveToken, OneSuccessor
<1>8. ExchangedIsDead'
  <2> SUFFICES ASSUME NEW t \in Sessions, Exists(t)', sessions'[t].parent # NoSession
               PROVE  ~Active(sessions[t].parent)'
    BY DEF ExchangedIsDead
  <2>1. t # s /\ Exists(t) /\ sessions'[t] = sessions[t]
    BY <1>4
  <2>2. PICK p \in Sessions : p = sessions[t].parent /\ p # s /\ ~Active(p)
    BY <1>6, <2>1 DEF IInv, OneLiveToken, ExchangedIsDead
  <2> QED
    BY <1>1, <2>1, <2>2 DEF Active, Exists
<1>9. ASSUME NEW q \in Requests PROVE (Relies(q) /\ HeldWithin(q))'
  <2>1. Relies(q) /\ HeldWithin(q) /\ req[q] \in Request
    BY DEF IInv, AllSound, TypeOK
  <2>2. \A t \in req[q].seen : t \in Sessions
    BY <2>1 DEF Request
  <2> QED
    BY <1>1, <1>3, <2>1, <2>2 DEF Relies, HeldWithin, Exists, Active
<1> QED
  BY <1>2, <1>5, <1>7, <1>8, <1>9 DEF IInv, AllSound, OneLiveToken

\* A rotation ends the session it holds and opens its one successor.
LEMMA RefreshCommitWrites ==
  ASSUME IInv, NEW r \in Requests, RefreshCommit(r), ~Rollback(r),
         NEW s, s = req[r].session
  PROVE  /\ req[r].pc = "RefreshCommit" /\ s \in Sessions /\ Exists(s) /\ Active(s)
         /\ lock[s] = r /\ lock' = Released(r) /\ Becomes(r, Idle)
         /\ sessions' \in [Sessions -> SessionRow]
         /\ \E new \in Sessions :
              /\ ~Exists(new) /\ new # s
              /\ sessions'[new].user = sessions[s].user /\ sessions'[new].parent = s
              /\ ~sessions'[new].revoked
              /\ sessions'[s].user = sessions[s].user
              /\ sessions'[s].parent = sessions[s].parent
              /\ sessions'[s].revoked
              /\ \A t \in Sessions \ {s, new} : sessions'[t] = sessions[t]
<1>1. /\ req[r].pc = "RefreshCommit" /\ s \in Sessions /\ Exists(s) /\ Active(s)
      /\ lock[s] = r /\ lock' = Released(r) /\ Becomes(r, Idle)
      /\ sessions \in [Sessions -> SessionRow]
  BY DEF RefreshCommit, IInv, AllSound, Relies, TypeOK
<1>2. PICK new \in Sessions : FreshRow(new) /\ sessions' = Rotated(s, new)
  BY DEF RefreshCommit
<1>3. ~Exists(new) /\ new # s
  BY <1>1, <1>2 DEF FreshRow
<1> DEFINE row == NewSession(sessions[s].user, s)
<1>4. row \in SessionRow /\ row.user = sessions[s].user /\ row.parent = s /\ ~row.revoked
  <2>1. sessions[s].user \in Users
    BY <1>1 DEF SessionRow, Exists
  <2> QED
    BY <1>1, <2>1, NewSessionIs
<1>5. sessions' = [sessions EXCEPT ![s].revoked = TRUE, ![s].replaced = new, ![new] = row]
  BY <1>2 DEF Rotated
<1> HIDE DEF row
<1>6. /\ sessions' \in [Sessions -> SessionRow]
      /\ sessions'[new] = row
      /\ sessions'[s].user = sessions[s].user
      /\ sessions'[s].parent = sessions[s].parent
      /\ sessions'[s].revoked
      /\ \A t \in Sessions \ {s, new} : sessions'[t] = sessions[t]
  BY <1>1, <1>3, <1>4, <1>5 DEF SessionRow
<1> QED
  BY <1>1, <1>3, <1>4, <1>6

LEMMA RefreshCommitKeeps ==
  ASSUME IInv, NEW r \in Requests, RefreshCommit(r)
  PROVE  IInv'
<1>1. CASE Rollback(r)
  BY <1>1, RollbackKeeps
<1>2. CASE ~Rollback(r)
  <2>1. PICK s : s = req[r].session
    OBVIOUS
  <2>2. /\ req[r].pc = "RefreshCommit" /\ s \in Sessions /\ Exists(s) /\ Active(s)
        /\ lock[s] = r /\ lock' = Released(r) /\ Becomes(r, Idle)
        /\ sessions' \in [Sessions -> SessionRow]
    BY <1>2, <2>1, RefreshCommitWrites
  <2>3. PICK new \in Sessions :
          /\ ~Exists(new) /\ new # s
          /\ sessions'[new].user = sessions[s].user /\ sessions'[new].parent = s
          /\ ~sessions'[new].revoked
          /\ sessions'[s].user = sessions[s].user
          /\ sessions'[s].parent = sessions[s].parent
          /\ sessions'[s].revoked
          /\ \A t \in Sessions \ {s, new} : sessions'[t] = sessions[t]
    BY <1>2, <2>1, RefreshCommitWrites
  <2>4. TypeOK'
    BY <2>2, IdleType, BecomesType, ReleasedType DEF IInv, TypeOK
  <2>5. Grows
    BY <2>2, <2>3 DEF Grows
  <2>6. \A t \in Sessions : Active(t) /\ t # s => Active(t)'
    BY <2>3 DEF Active, Exists
  <2>7. KeepsOff(r) /\ \A t \in Sessions : lock'[t] # r
    BY <2>2, <2>6, ReleasedKeepsOff DEF KeepsOff, IInv
  <2>8. BlankRows'
    BY <2>2, <2>3 DEF IInv, BlankRows, Exists
  <2>9. \A t \in Sessions : Exists(t)' /\ t # new
          => Exists(t) /\ sessions'[t].parent = sessions[t].parent
                       /\ sessions'[t].user = sessions[t].user
    BY <2>2, <2>3 DEF Exists
  <2>10. ASSUME NEW t \in Sessions, Exists(t), sessions[t].parent # NoSession
         PROVE  /\ sessions[t].parent \in Sessions /\ Exists(sessions[t].parent)
                /\ sessions[t].parent \notin {new, s}
    BY <2>2, <2>3, <2>10
    DEF IInv, TypeOK, SessionRow, OneLiveToken, OneSuccessor, ExchangedIsDead, Exists
  <2>11. OneSuccessor'
    <3> SUFFICES ASSUME NEW t \in Sessions, NEW v \in Sessions, Exists(t)', Exists(v)',
                        sessions'[t].parent # NoSession
                 PROVE  /\ sessions'[t].parent = sessions'[v].parent => t = v
                        /\ sessions'[sessions'[t].parent].user = sessions'[t].user
      BY DEF OneSuccessor
    <3>1. CASE t = new
      BY <2>2, <2>3, <2>9, <2>10, <3>1, NoSessionIsNone
    <3>2. CASE t # new
      <4>1. Exists(t) /\ sessions'[t].parent = sessions[t].parent
            /\ sessions'[t].user = sessions[t].user
        BY <2>9, <3>2
      <4>2. v # new => Exists(v) /\ sessions'[v].parent = sessions[v].parent
        BY <2>9
      <4>3. PICK p \in Sessions : p = sessions[t].parent /\ Exists(p) /\ p \notin {new, s}
        BY <2>10, <4>1
      <4>4. sessions[p].user = sessions[t].user
        BY <4>1, <4>3 DEF IInv, OneLiveToken, OneSuccessor
      <4>5. sessions[t].parent = sessions[v].parent /\ Exists(v) => t = v
        BY <4>1 DEF IInv, OneLiveToken, OneSuccessor
      <4> QED
        BY <2>3, <4>1, <4>2, <4>3, <4>4, <4>5
    <3> QED
      BY <3>1, <3>2
  <2>12. ExchangedIsDead'
    <3> SUFFICES ASSUME NEW t \in Sessions, Exists(t)', sessions'[t].parent # NoSession
                 PROVE  ~Active(sessions[t].parent)'
      BY DEF ExchangedIsDead
    <3>1. CASE t = new
      BY <2>3, <3>1 DEF Active
    <3>2. CASE t # new
      <4>1. Exists(t) /\ sessions'[t].parent = sessions[t].parent
        BY <2>9, <3>2
      <4>2. PICK p \in Sessions : p = sessions[t].parent /\ p \notin {new, s} /\ ~Active(p)
        BY <2>10, <4>1 DEF IInv, OneLiveToken, ExchangedIsDead
      <4> QED
        BY <2>3, <4>1, <4>2 DEF Active, Exists
    <3> QED
      BY <3>1, <3>2
  <2>13. req'[r] = Idle
    BY <2>2 DEF IInv, TypeOK, Becomes
  <2>14. AllSound'
    BY <2>2, <2>5, <2>7, <2>13, IdleRelies, SoundStep
  <2> QED
    BY <2>4, <2>8, <2>11, <2>12, <2>14 DEF IInv, OneLiveToken
<1> QED
  BY <1>1, <1>2

\* The mass revocation ends the sessions it holds, all of one administrator.
LEMMA RevokeAllCommitEnds ==
  ASSUME IInv, NEW r \in Requests, RevokeAllCommit(r), NEW s, s = req[r].session
  PROVE  /\ req[r].pc = "RevokeAllLock" /\ req[r].genuine
         /\ s \in Sessions /\ Exists(s) /\ sessions[s].revoked
         /\ sessions' \in [Sessions -> SessionRow] /\ OnlyEnds
         /\ \A t \in Sessions : lock[t] # r => sessions'[t] = sessions[t]
         /\ \A t \in Sessions : lock[t] = r => /\ sessions'[t].revoked
                                               /\ sessions[t].user = sessions[s].user
         /\ \A t \in req[r].seen : lock[t] = r \/ ~Active(t)
<1>1. /\ req[r].pc = "RevokeAllLock" /\ req[r].todo = {} /\ req[r] \in Request
      /\ Relies(r) /\ HeldWithin(r) /\ sessions \in [Sessions -> SessionRow]
  BY DEF RevokeAllCommit, IInv, AllSound, TypeOK
<1>2. /\ s \in Sessions /\ Exists(s) /\ req[r].genuine /\ sessions[s].revoked
      /\ \A t \in req[r].seen : /\ Exists(t) /\ sessions[t].user = sessions[s].user
                                /\ lock[t] = r \/ ~Active(t)
  BY <1>1 DEF Relies
<1>3. \A t \in Sessions : lock[t] = r => t = s \/ t \in req[r].seen
  BY <1>1 DEF HeldWithin
<1>4. \A t \in Sessions :
        sessions'[t] = IF lock[t] = r THEN [sessions[t] EXCEPT !.revoked = TRUE]
                                      ELSE sessions[t]
  BY DEF RevokeAllCommit
<1>5. sessions' \in [Sessions -> SessionRow]
  BY <1>1 DEF RevokeAllCommit, SessionRow
<1>6. \A t \in Sessions : /\ sessions'[t].user = sessions[t].user
                          /\ sessions'[t].parent = sessions[t].parent
                          /\ sessions[t].revoked => sessions'[t].revoked
                          /\ lock[t] = r => sessions'[t].revoked
                          /\ lock[t] # r => sessions'[t] = sessions[t]
  BY <1>1, <1>4 DEF SessionRow
<1>7. OnlyEnds
  BY <1>2, <1>3, <1>6 DEF OnlyEnds
<1> QED
  BY <1>1, <1>2, <1>3, <1>5, <1>6, <1>7

LEMMA RevokeAllCommitWrites ==
  ASSUME IInv, NEW r \in Requests, RevokeAllCommit(r), NEW s, s = req[r].session
  PROVE  /\ s \in Sessions /\ Exists(s) /\ lock' = Released(r)
         /\ Becomes(r, [Idle EXCEPT !.pc = "Replayed", !.session = s])
         /\ sessions' \in [Sessions -> SessionRow] /\ OnlyEnds
         /\ \A t \in Sessions : lock[t] # r => sessions'[t] = sessions[t]
<1>1. lock' = Released(r)
  BY DEF RevokeAllCommit
<1>2. Becomes(r, [Idle EXCEPT !.pc = "Replayed", !.session = s])
  BY DEF RevokeAllCommit
<1> QED
  BY <1>1, <1>2, RevokeAllCommitEnds

LEMMA RevokeAllCommitKeeps ==
  ASSUME IInv, NEW r \in Requests, RevokeAllCommit(r)
  PROVE  IInv'
<1>1. PICK s : s = req[r].session
  OBVIOUS
<1> DEFINE x == [Idle EXCEPT !.pc = "Replayed", !.session = s]
<1>2. /\ s \in Sessions /\ Exists(s) /\ lock' = Released(r) /\ Becomes(r, x)
      /\ sessions' \in [Sessions -> SessionRow] /\ OnlyEnds
      /\ \A t \in Sessions : lock[t] # r => sessions'[t] = sessions[t]
  BY <1>1, RevokeAllCommitWrites
<1>3. x \in Request /\ x.pc = "Replayed" /\ x.session = s
  BY <1>2, IdleType DEF Request, PCs, Idle
<1> HIDE DEF x
<1>4. TypeOK'
  BY <1>2, <1>3, BecomesType, ReleasedType DEF IInv, TypeOK
<1>5. Grows /\ BlankRows' /\ OneLiveToken'
  BY <1>2, OnlyEndsKeeps
<1>6. KeepsOff(r) /\ \A t \in Sessions : lock'[t] # r
  BY <1>2, ReleasedKeepsOff DEF KeepsOff, IInv, Active, Exists
<1>7. req'[r] = x
  BY <1>2 DEF IInv, TypeOK, Becomes
<1>8. Exists(s)'
  BY <1>2, <1>5, GrowsExists
<1>9. (Relies(r) /\ HeldWithin(r))'
  BY <1>2, <1>3, <1>6, <1>7, <1>8 DEF Relies, HeldWithin, Exists
<1>10. AllSound'
  BY <1>2, <1>5, <1>6, <1>9, SoundStep
<1> QED
  BY <1>4, <1>5, <1>10 DEF IInv

\* A logout ends its own session.
LEMMA LogoutUpdateWrites ==
  ASSUME IInv, NEW r \in Requests, LogoutUpdate(r), NEW s, s = req[r].session
  PROVE  /\ req[r].pc = "LogoutUpdate" /\ s \in Sessions /\ Exists(s) /\ Free(s, r)
         /\ Becomes(r, Idle) /\ UNCHANGED lock
         /\ sessions' \in [Sessions -> SessionRow] /\ OnlyEnds
         /\ sessions'[s].revoked
         /\ \A t \in Sessions \ {s} : sessions'[t] = sessions[t]
<1>1. /\ req[r].pc = "LogoutUpdate" /\ s \in Sessions /\ Exists(s) /\ Free(s, r)
      /\ Becomes(r, Idle) /\ UNCHANGED lock /\ sessions \in [Sessions -> SessionRow]
  BY DEF LogoutUpdate, IInv, AllSound, Relies, TypeOK
<1>2. PICK v \in Sessions \cup {NoSession} :
        sessions' = [sessions EXCEPT ![s].revoked = TRUE, ![s].replaced = v]
  <2> DEFINE v == IF req[r].base # NoSession THEN NoSession ELSE sessions[s].replaced
  <2>1. v \in Sessions \cup {NoSession}
    BY <1>1 DEF SessionRow
  <2>2. sessions' = [sessions EXCEPT ![s].revoked = TRUE, ![s].replaced = v]
    BY <1>1 DEF LogoutUpdate
  <2> QED
    BY <2>1, <2>2
<1>3. /\ sessions' \in [Sessions -> SessionRow]
      /\ sessions'[s].user = sessions[s].user
      /\ sessions'[s].parent = sessions[s].parent
      /\ sessions'[s].revoked
      /\ \A t \in Sessions \ {s} : sessions'[t] = sessions[t]
  <2> DEFINE row == [sessions[s] EXCEPT !.revoked = TRUE, !.replaced = v]
  <2>1. /\ row \in SessionRow /\ row.revoked
        /\ row.user = sessions[s].user /\ row.parent = sessions[s].parent
    BY <1>1 DEF SessionRow
  <2>2. sessions' = [sessions EXCEPT ![s] = row]
    BY <1>1, <1>2
  <2> HIDE DEF row
  <2> QED
    BY <1>1, <2>1, <2>2
<1>4. OnlyEnds
  BY <1>1, <1>3 DEF OnlyEnds
<1> QED
  BY <1>1, <1>3, <1>4

LEMMA LogoutUpdateKeeps ==
  ASSUME IInv, NEW r \in Requests, LogoutUpdate(r)
  PROVE  IInv'
<1>1. PICK s : s = req[r].session
  OBVIOUS
<1>2. /\ req[r].pc = "LogoutUpdate" /\ s \in Sessions /\ Exists(s) /\ Free(s, r)
      /\ Becomes(r, Idle) /\ UNCHANGED lock
      /\ sessions' \in [Sessions -> SessionRow] /\ OnlyEnds
      /\ \A t \in Sessions \ {s} : sessions'[t] = sessions[t]
  BY <1>1, LogoutUpdateWrites
<1>3. TypeOK'
  BY <1>2, IdleType, BecomesType DEF IInv, TypeOK
<1>4. Grows /\ BlankRows' /\ OneLiveToken'
  BY <1>2, OnlyEndsKeeps
<1>5. KeepsOff(r)
  BY <1>2 DEF KeepsOff, Free, Active, Exists
<1>6. req'[r] = Idle /\ \A t \in Sessions : lock'[t] # r
  BY <1>2 DEF IInv, TypeOK, Becomes, AllSound, HeldWithin
<1>7. AllSound'
  BY <1>2, <1>4, <1>5, <1>6, IdleRelies, SoundStep
<1> QED
  BY <1>3, <1>4, <1>7 DEF IInv

-----------------------------------------------------------------------------
(* The theorems.                                                           *)

LEMMA InitIInv == Init => IInv
<1> SUFFICES ASSUME Init PROVE IInv
  OBVIOUS
<1>1. TypeOK
  BY IdleType, UnusedType DEF Init, TypeOK
<1>2. \A s \in Sessions : sessions[s] = UnusedSession /\ ~Exists(s) /\ lock[s] = NoOne
  BY DEF Init, UnusedSession, Exists
<1>3. BlankRows /\ OneLiveToken
  BY <1>2 DEF BlankRows, OneLiveToken, OneSuccessor, ExchangedIsDead
<1>4. AllSound
  BY <1>2 DEF Init, AllSound, Relies, HeldWithin, Idle
<1> QED
  BY <1>1, <1>3, <1>4 DEF IInv

LEMMA NextIInv == IInv /\ [Next]_vars => IInv'
<1> SUFFICES ASSUME IInv, [Next]_vars PROVE IInv'
  OBVIOUS
<1>1. ASSUME NEW r \in Requests, Arrive(r) PROVE IInv'
  BY <1>1, RefreshRequestKeeps, LogoutFindKeeps DEF Arrive
<1>2. ASSUME NEW r \in Requests, Wait(r) PROVE IInv'
  BY <1>2, RefreshLockKeeps, RevokeAllLockKeeps, LogoutUpdateKeeps DEF Wait
<1>3. ASSUME NEW r \in Requests, Continue(r) PROVE IInv'
  BY <1>3, RefreshCommitKeeps, RevokeAllScanKeeps, RevokeAllCommitKeeps, RejectKeeps,
     LogoutSelectKeeps, RollbackKeeps
  DEF Continue, DeadlockAbort
<1>4. ASSUME NEW r \in Requests, Crash(r) PROVE IInv'
  BY <1>4, RollbackKeeps DEF Crash
<1>5. CASE UNCHANGED vars
  BY <1>5 DEF vars, IInv, TypeOK, BlankRows, OneLiveToken, OneSuccessor,
     ExchangedIsDead, AllSound, Relies, HeldWithin, Exists, Active
<1> QED
  BY <1>1, <1>2, <1>3, <1>4, <1>5, ExpireKeeps, LoginKeeps DEF Next

LEMMA AlwaysIInv == Spec => []IInv
  BY InitIInv, NextIInv, PTL DEF Spec

\* Every variable keeps its type: no handler works on a session it has not
\* found.
THEOREM TypeCorrect == Spec => []TypeOK
<1>1. IInv => TypeOK
  BY DEF IInv
<1> QED
  BY <1>1, AlwaysIInv, PTL

\* A login has at most one live refresh token, the last of a chain without
\* branches, however many requests rotate, replay or end it at the same time.
THEOREM LiveTokenUnique == Spec => []OneLiveToken
<1>1. IInv => OneLiveToken
  BY DEF IInv
<1> QED
  BY <1>1, AlwaysIInv, PTL

\* Only these steps change a session.
LEMMA Writers ==
  ASSUME [Next]_vars
  PROVE  \/ UNCHANGED sessions
         \/ \E s \in Sessions : Expire(s) \/ \E u \in Users : Login(u, s)
         \/ \E r \in Requests : \/ RefreshCommit(r) /\ ~Rollback(r)
                                \/ RevokeAllCommit(r) \/ LogoutUpdate(r)
  BY DEF Next, vars, Arrive, Wait, Continue, Crash, DeadlockAbort, Rollback,
         RefreshRequest, LogoutFind, RefreshLock, RevokeAllLock, RevokeAllScan,
         Reject, LogoutSelect

\* A session ends by its own rotation or logout, or by the mass revocation that
\* a genuine replay of an ended session of the same administrator sets off.
THEOREM SessionsEndForCause == Spec => EndsForCause
<1> DEFINE P(s) == \E r \in Requests :
                     \/ req[r].session = s /\ req[r].pc \in {"RefreshCommit", "LogoutUpdate"}
                     \/ /\ req[r].pc = "RevokeAllLock" /\ req[r].genuine
                        /\ sessions[req[r].session].revoked
                        /\ sessions[req[r].session].user = sessions[s].user
<1>1. ASSUME IInv, [Next]_vars, NEW s \in Sessions, Active(s), ~Active(s)' PROVE P(s)
  <2>1. CASE UNCHANGED sessions
    BY <1>1, <2>1 DEF Active, Exists
  <2>2. ASSUME NEW t \in Sessions, Expire(t) PROVE FALSE
    BY <1>1, <2>2, ExpireWrites DEF IInv, Active, Exists
  <2>3. ASSUME NEW t \in Sessions, NEW u \in Users, Login(u, t) PROVE FALSE
    BY <1>1, <2>3, LoginWrites DEF IInv, Active, Exists
  <2>4. ASSUME NEW r \in Requests, RefreshCommit(r), ~Rollback(r) PROVE P(s)
    <3>1. PICK t : t = req[r].session
      OBVIOUS
    <3>2. req[r].pc = "RefreshCommit" /\ t \in Sessions
      BY <1>1, <2>4, <3>1, RefreshCommitWrites
    <3>3. PICK new \in Sessions :
            /\ ~Exists(new)
            /\ \A v \in Sessions \ {t, new} : sessions'[v] = sessions[v]
      BY <1>1, <2>4, <3>1, RefreshCommitWrites
    <3>4. s = t
      BY <1>1, <3>2, <3>3 DEF Active, Exists
    <3> QED
      BY <3>1, <3>2, <3>4
  <2>5. ASSUME NEW r \in Requests, RevokeAllCommit(r) PROVE P(s)
    <3>1. PICK t : t = req[r].session
      OBVIOUS
    <3>2. /\ req[r].pc = "RevokeAllLock" /\ req[r].genuine /\ sessions[t].revoked
          /\ \A v \in Sessions : lock[v] # r => sessions'[v] = sessions[v]
          /\ \A v \in Sessions : lock[v] = r => sessions[v].user = sessions[t].user
      BY <1>1, <2>5, <3>1, RevokeAllCommitEnds
    <3>3. lock[s] = r
      BY <1>1, <3>2 DEF Active, Exists
    <3> QED
      BY <3>1, <3>2, <3>3
  <2>6. ASSUME NEW r \in Requests, LogoutUpdate(r) PROVE P(s)
    <3>1. PICK t : t = req[r].session
      OBVIOUS
    <3>2. /\ req[r].pc = "LogoutUpdate"
          /\ \A v \in Sessions \ {t} : sessions'[v] = sessions[v]
      BY <1>1, <2>6, <3>1, LogoutUpdateWrites
    <3>3. s = t
      BY <1>1, <3>2 DEF Active, Exists
    <3> QED
      BY <3>1, <3>2, <3>3
  <2> QED
    BY <1>1, <2>1, <2>2, <2>3, <2>4, <2>5, <2>6, Writers
<1>2. IInv /\ [Next]_vars => \A s \in Sessions : Active(s) /\ ~Active(s)' => P(s)
  BY <1>1
<1> QED
  BY <1>2, AlwaysIInv, PTL DEF Spec, EndsForCause

\* A request comes to answer a replay only by committing a mass revocation.
LEMMA OnlyReplayed ==
  ASSUME TypeOK, [Next]_vars, NEW r \in Requests, req'[r].pc = "Replayed",
         req[r].pc # "Replayed"
  PROVE  RevokeAllCommit(r)
<1>1. req \in [Requests -> Request]
  BY DEF TypeOK
<1>2. ASSUME NEW q \in Requests, NEW x, Becomes(q, x), x.pc # "Replayed"
      PROVE  FALSE
  BY <1>1, <1>2 DEF Becomes
<1>3. Idle.pc # "Replayed"
  BY DEF Idle
<1>4. ASSUME NEW q \in Requests, Rollback(q) PROVE FALSE
  BY <1>2, <1>3, <1>4 DEF Rollback
<1>5. ASSUME NEW q \in Requests, RefreshLock(q) PROVE FALSE
  <2>1. ASSUME NEW p \in {"RevokeAllScan", "RefreshCommit"}
        PROVE  [req[q] EXCEPT !.pc = p].pc # "Replayed"
    BY <1>1, <2>1 DEF Request
  <2> QED
    BY <1>2, <1>4, <1>5, <2>1 DEF RefreshLock
<1>6. ASSUME NEW q \in Requests, Arrive(q) PROVE FALSE
  <2>1. \E p \in {"RefreshLock", "LogoutSelect"} : \E s, g :
           \/ Becomes(q, [Idle EXCEPT !.pc = p, !.session = s, !.genuine = g])
           \/ Becomes(q, [Idle EXCEPT !.pc = p, !.session = s])
    BY <1>6 DEF Arrive, RefreshRequest, LogoutFind
  <2> QED
    BY <1>2, <2>1 DEF Idle
<1>7. ASSUME NEW q \in Requests, RevokeAllLock(q) PROVE FALSE
  <2> DEFINE x == [req[q] EXCEPT !.todo = @ \ {FirstOf(req[q].todo)}]
  <2>1. x.pc = "RevokeAllLock" /\ Becomes(q, x)
    BY <1>1, <1>7 DEF RevokeAllLock, Request
  <2> QED
    BY <1>2, <2>1
<1>8. ASSUME NEW q \in Requests, RevokeAllScan(q) PROVE FALSE
  <2> DEFINE rows == Matching(sessions[req[q].session].user)
             x == [req[q] EXCEPT !.pc = "RevokeAllLock", !.seen = rows, !.todo = rows]
  <2>1. x.pc = "RevokeAllLock" /\ Becomes(q, x)
    BY <1>1, <1>8 DEF RevokeAllScan, Request
  <2> QED
    BY <1>2, <2>1
<1>9. ASSUME NEW q \in Requests, LogoutSelect(q) PROVE FALSE
  <2> DEFINE x == [req[q] EXCEPT !.pc = "LogoutUpdate",
                                 !.base = sessions[req[q].session].replaced]
  <2>1. x.pc = "LogoutUpdate" /\ Becomes(q, x)
    BY <1>1, <1>9 DEF LogoutSelect, Request
  <2> QED
    BY <1>2, <2>1
<1>10. ASSUME NEW q \in Requests,
              LogoutUpdate(q) \/ Reject(q) \/ RefreshCommit(q) \/ DeadlockAbort(q) \/ Crash(q)
       PROVE  FALSE
  BY <1>2, <1>3, <1>4, <1>10 DEF LogoutUpdate, Reject, RefreshCommit, DeadlockAbort, Crash
<1>11. ASSUME NEW q \in Requests, RevokeAllCommit(q) PROVE q = r
  BY <1>1, <1>11 DEF RevokeAllCommit, Becomes
<1>12. req' # req
  OBVIOUS
<1>13. PICK q \in Requests : Arrive(q) \/ Wait(q) \/ Continue(q) \/ Crash(q)
  BY <1>12 DEF Next, vars, Login, Expire
<1> QED
  BY <1>5, <1>6, <1>7, <1>8, <1>9, <1>10, <1>11, <1>13 DEF Wait, Continue

\* The sessions a mass revocation saw active have ended when the replay is
\* answered with 401: the revocation is not rolled back with it.
THEOREM ReplayEndsWhatItSaw == Spec => ReplayEndsSeen
<1>1. ASSUME IInv, [Next]_vars, NEW r \in Requests, req'[r].pc = "Replayed",
             req[r].pc # "Replayed", NEW s \in req[r].seen
      PROVE  ~Active(s)'
  <2>1. RevokeAllCommit(r)
    <3>1. TypeOK
      BY <1>1 DEF IInv
    <3> QED
      BY <1>1, <3>1, OnlyReplayed
  <2>2. PICK t : t = req[r].session
    OBVIOUS
  <2>3. s \in Sessions
    BY <1>1 DEF IInv, TypeOK, Request
  <2>4. CASE lock[s] = r
    BY <1>1, <2>1, <2>2, <2>3, <2>4, RevokeAllCommitEnds DEF Active
  <2>5. CASE lock[s] # r
    <3>1. ~Active(s) /\ sessions'[s] = sessions[s]
      BY <1>1, <2>1, <2>2, <2>3, <2>5, RevokeAllCommitEnds
    <3> QED
      BY <3>1 DEF Active, Exists
  <2> QED
    BY <2>4, <2>5
<1>2. IInv /\ [Next]_vars
        => \A r \in Requests :
             req'[r].pc = "Replayed" /\ req[r].pc # "Replayed"
               => \A s \in req[r].seen : ~Active(s)'
  BY <1>1
<1> QED
  BY <1>2, AlwaysIInv, PTL DEF Spec, ReplayEndsSeen

-----------------------------------------------------------------------------
(* The refinement: what the token tables show of each step is a step of    *)
(* AdminSessionContract.                                                   *)

live == {s \in Sessions : Active(s)}
owner == [s \in Sessions |-> sessions[s].user]
from == [s \in Sessions |-> sessions[s].parent]

\* A mass revocation or a logout ends tokens of one administrator.
LEMMA EndImplements ==
  ASSUME IInv, OnlyEnds, NEW u \in Users,
         \A s \in Sessions : Active(s) /\ ~Active(s)' => sessions[s].user = u
  PROVE  Contract!End(u)
<1>1. \A s \in Sessions : /\ sessions'[s].user = sessions[s].user
                          /\ sessions'[s].parent = sessions[s].parent
                          /\ Active(s)' => Active(s)
  BY DEF OnlyEnds, Active, Exists
<1>2. UNCHANGED <<owner, from>>
  BY <1>1 DEF owner, from
<1>3. live' \in SUBSET live
  BY <1>1 DEF live
<1>4. \A s \in live \ live' : owner[s] = u
  BY DEF live, owner
<1> QED
  BY <1>2, <1>3, <1>4 DEF Contract!End, live, owner, from

LEMMA NextImplements ==
  ASSUME IInv, [Next]_vars
  PROVE  [Contract!Next]_(Contract!cvars)
<1>1. CASE UNCHANGED sessions
  BY <1>1 DEF Contract!cvars, Active, Exists
<1>2. ASSUME NEW s \in Sessions, Expire(s)
      PROVE  UNCHANGED Contract!cvars
  BY <1>2, ExpireWrites DEF Contract!cvars, IInv, Active, Exists
<1>3. ASSUME NEW s \in Sessions, NEW u \in Users, Login(u, s)
      PROVE  Contract!Next
  <2>1. /\ sessions[s].user = NoUser /\ sessions[s].parent = NoSession
        /\ sessions'[s].user = u /\ sessions'[s].parent = NoSession
        /\ ~sessions'[s].revoked
        /\ \A t \in Sessions \ {s} : sessions'[t] = sessions[t]
    BY <1>3, LoginWrites DEF IInv, BlankRows, Exists, UnusedSession
  <2>2. live' = live \cup {s}
    BY <2>1, NobodyAssumption DEF live, Active, Exists
  <2>3. owner' = [owner EXCEPT ![s] = u] /\ owner[s] = NoUser
    BY <2>1 DEF owner
  <2>4. UNCHANGED from
    BY <2>1 DEF from
  <2>5. Contract!Open(s, u)
    BY <2>2, <2>3, <2>4 DEF Contract!Open, live, owner, from
  <2> QED
    BY <2>5 DEF Contract!Next
<1>4. ASSUME NEW r \in Requests, RefreshCommit(r), ~Rollback(r)
      PROVE  Contract!Next
  <2>1. PICK s : s = req[r].session
    OBVIOUS
  <2>2. s \in Sessions /\ Active(s)
    BY <1>4, <2>1, RefreshCommitWrites
  <2>3. PICK new \in Sessions :
              /\ ~Exists(new) /\ new # s
              /\ sessions'[new].user = sessions[s].user /\ sessions'[new].parent = s
              /\ ~sessions'[new].revoked
              /\ sessions'[s].user = sessions[s].user
              /\ sessions'[s].parent = sessions[s].parent
              /\ sessions'[s].revoked
              /\ \A t \in Sessions \ {s, new} : sessions'[t] = sessions[t]
    BY <1>4, <2>1, RefreshCommitWrites
  <2>4. live' = (live \ {s}) \cup {new}
    BY <2>2, <2>3 DEF live, Active, Exists
  <2>5. owner' = [owner EXCEPT ![new] = owner[s]]
    BY <2>2, <2>3 DEF owner
  <2>6. from' = [from EXCEPT ![new] = s]
    BY <2>3 DEF from
  <2>7. s \in live /\ owner[new] = NoUser
    BY <2>2, <2>3 DEF live, owner, Exists
  <2>8. Contract!Exchange(s, new)
    BY <2>4, <2>5, <2>6, <2>7 DEF Contract!Exchange, live, owner, from
  <2> QED
    BY <2>2, <2>3, <2>8 DEF Contract!Next
<1>5. ASSUME NEW r \in Requests, RevokeAllCommit(r)
      PROVE  Contract!Next
  <2>1. PICK s : s = req[r].session
    OBVIOUS
  <2>2. /\ s \in Sessions /\ Exists(s)
        /\ \A t \in Sessions : lock[t] # r => sessions'[t] = sessions[t]
        /\ \A t \in Sessions : lock[t] = r => sessions[t].user = sessions[s].user
    BY <1>5, <2>1, RevokeAllCommitEnds
  <2>3. OnlyEnds
    BY <1>5, <2>1, RevokeAllCommitEnds
  <2>4. sessions[s].user \in Users
    BY <2>2 DEF IInv, TypeOK, SessionRow, Exists
  <2>5. \A t \in Sessions : Active(t) /\ ~Active(t)' => sessions[t].user = sessions[s].user
    BY <2>2 DEF Active, Exists
  <2> QED
    BY <2>3, <2>4, <2>5, EndImplements DEF Contract!Next
<1>6. ASSUME NEW r \in Requests, LogoutUpdate(r)
      PROVE  Contract!Next
  <2>1. PICK s : s = req[r].session
    OBVIOUS
  <2>2. /\ s \in Sessions /\ Exists(s) /\ OnlyEnds
        /\ \A t \in Sessions \ {s} : sessions'[t] = sessions[t]
    BY <1>6, <2>1, LogoutUpdateWrites
  <2>3. sessions[s].user \in Users
    BY <2>2 DEF IInv, TypeOK, SessionRow, Exists
  <2>4. \A t \in Sessions : Active(t) /\ ~Active(t)' => sessions[t].user = sessions[s].user
    BY <2>2 DEF Active, Exists
  <2> QED
    BY <2>2, <2>3, <2>4, EndImplements DEF Contract!Next
<1> QED
  BY <1>1, <1>2, <1>3, <1>4, <1>5, <1>6, Writers

\* Requests that rotate, replay, end and log in at the same time, and crash
\* anywhere, do to the tokens what AdminSessionContract says and nothing else:
\* each is exchanged once, for the same administrator, and dies for good.
THEOREM SessionsImplement == Spec => ImplementsContract
<1>1. ASSUME Init PROVE Contract!Init
  <2>1. \A s \in Sessions : ~Active(s) /\ sessions[s].user = NoUser
                            /\ sessions[s].parent = NoSession
    BY <1>1 DEF Init, UnusedSession, Active, Exists
  <2> QED
    BY <2>1 DEF Contract!Init
<1> QED
  BY <1>1, NextImplements, AlwaysIInv, PTL DEF Spec, ImplementsContract, Contract!Spec
=============================================================================
