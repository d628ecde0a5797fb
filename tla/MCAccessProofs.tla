--------------------------- MODULE MCAccessProofs ---------------------------
(***************************************************************************)
(* Theorems about LoginLockout, for every set of administrators and        *)
(* requests, every limit and every duration of a lock; and those of        *)
(* AccessProofs, carried over to the composition of both.                  *)
(***************************************************************************)
EXTENDS MCAccess, FiniteSetTheorems, TLAPS

USE LockAssumption

(***************************************************************************)
(* LockedByFailures is not inductive: the counter a login saves is the one *)
(* it noted in memory, so that what holds of the row must hold of every    *)
(* AdminUser in memory.                                                    *)
(***************************************************************************)

Row == [status : {"ACTIVE", "SUSPENDED"}, failed : Nat, lockedUntil : Nat]

Handler == [pc : PCs, admin : Admins \cup {NoAdmin}, user : Row, base : Row, valid : BOOLEAN]

Account == [wrong : Nat, streak : Nat, until : Nat, disturbed : BOOLEAN]

Typed == /\ users \in [Admins -> Row]
         /\ req \in [Requests -> Handler]
         /\ \A r \in Requests : req[r].pc # "idle" => req[r].admin \in Admins
         /\ now \in Nat
         /\ history \in [Admins -> Account]

\* The wrong passwords presented account for what a row says.
Justified(row, wrong) == /\ row.failed <= wrong
                         /\ row.lockedUntil # Null => wrong >= MaxFailedLoginAttempts

InMemory == \A r \in Requests :
              req[r].pc # "idle" => Justified(req[r].user, history[req[r].admin].wrong)

IInv == Typed /\ InMemory /\ LockedByFailures

\* What save() writes: column by column the value in memory or the one that was there.
Saved(x, row) == [column \in DOMAIN row |-> IF x.user[column] # x.base[column]
                                            THEN x.user[column] ELSE row[column]]

LEMMA SavedRow ==
  ASSUME NEW x \in Handler, NEW row \in Row
  PROVE  /\ Saved(x, row) \in Row
         /\ Saved(x, row).failed = IF x.user.failed # x.base.failed
                                   THEN x.user.failed ELSE row.failed
         /\ Saved(x, row).lockedUntil = IF x.user.lockedUntil # x.base.lockedUntil
                                        THEN x.user.lockedUntil ELSE row.lockedUntil
<1>1. DOMAIN row = {"status", "failed", "lockedUntil"}
  BY DEF Row
<1>2. x.user \in Row /\ x.base \in Row
  BY DEF Handler
<1>3. /\ Saved(x, row)["status"] = IF x.user.status # x.base.status
                                   THEN x.user.status ELSE row.status
      /\ Saved(x, row)["failed"] = IF x.user.failed # x.base.failed
                                   THEN x.user.failed ELSE row.failed
      /\ Saved(x, row)["lockedUntil"] = IF x.user.lockedUntil # x.base.lockedUntil
                                        THEN x.user.lockedUntil ELSE row.lockedUntil
  BY <1>1 DEF Saved
<1>4. Saved(x, row) = [status |-> Saved(x, row)["status"], failed |-> Saved(x, row)["failed"],
                       lockedUntil |-> Saved(x, row)["lockedUntil"]]
  BY <1>1 DEF Saved
<1>5. /\ Saved(x, row)["status"] \in {"ACTIVE", "SUSPENDED"}
      /\ Saved(x, row)["failed"] \in Nat
      /\ Saved(x, row)["lockedUntil"] \in Nat
  BY <1>2, <1>3 DEF Row
<1> QED
  BY <1>3, <1>4, <1>5 DEF Row

LEMMA IdleHandler == Idle \in Handler /\ NewUser \in Row
  BY DEF Idle, Handler, PCs, NewUser, Row, Null

\* A step of one request leaves the locals of the others.
LEMMA BecomesTyped ==
  ASSUME Typed, NEW r \in Requests, NEW x \in Handler, Becomes(r, x)
  PROVE  /\ req' \in [Requests -> Handler] /\ req'[r] = x
         /\ \A q \in Requests \ {r} : req'[q] = req[q]
  BY DEF Typed, Becomes

LEMMA RecordedRow ==
  ASSUME Typed, NEW user \in Row
  PROVE  /\ RecordFailedLogin(user) \in Row
         /\ RecordFailedLogin(user).failed = user.failed + 1
         /\ RecordFailedLogin(user).lockedUntil =
              IF user.failed + 1 >= MaxFailedLoginAttempts THEN now + LockDuration
                                                           ELSE user.lockedUntil
         /\ RecordSuccessfulLogin(user) \in Row
         /\ RecordSuccessfulLogin(user).failed = 0
         /\ RecordSuccessfulLogin(user).lockedUntil = Null
<1> DEFINE until == IF user.failed + 1 >= MaxFailedLoginAttempts THEN now + LockDuration
                                                                 ELSE user.lockedUntil
<1>1. user.failed \in Nat /\ user.lockedUntil \in Nat /\ now \in Nat
  BY DEF Typed, Row
<1>2. until \in Nat /\ user.failed + 1 \in Nat
  BY <1>1
<1>3. RecordFailedLogin(user) = [user EXCEPT !.failed = user.failed + 1, !.lockedUntil = until]
  BY DEF RecordFailedLogin
<1> HIDE DEF until
<1>4. /\ RecordFailedLogin(user) \in Row
      /\ RecordFailedLogin(user).failed = user.failed + 1
      /\ RecordFailedLogin(user).lockedUntil = until
  BY <1>2, <1>3 DEF Row
<1>5. /\ RecordSuccessfulLogin(user) \in Row
      /\ RecordSuccessfulLogin(user).failed = 0
      /\ RecordSuccessfulLogin(user).lockedUntil = Null
  BY DEF RecordSuccessfulLogin, Row, Null
<1> QED
  BY <1>4, <1>5 DEF until

LEMMA PresentedAccount ==
  ASSUME now \in Nat, NEW h \in Account, NEW valid \in BOOLEAN
  PROVE  /\ Presented(h, valid) \in Account
         /\ Presented(h, valid).wrong = IF valid THEN h.wrong ELSE h.wrong + 1
         /\ Presented(h, valid).disturbed = h.disturbed
         /\ valid => /\ Presented(h, valid).streak = 0
                     /\ Presented(h, valid).until = Null
         /\ ~valid /\ ~(now < h.until) =>
              /\ Presented(h, valid).streak = h.streak + 1
              /\ Presented(h, valid).until = IF h.streak + 1 >= MaxFailedLoginAttempts
                                             THEN now + LockDuration ELSE h.until
<1>1. h.wrong + 1 \in Nat /\ h.streak + 1 \in Nat /\ h.until \in Nat
  BY DEF Account
<1>2. CASE valid
  BY <1>2 DEF Presented, Account, Null
<1>3. CASE ~valid /\ now < h.until
  <2>1. Presented(h, valid) = [h EXCEPT !.wrong = h.wrong + 1]
    BY <1>3 DEF Presented
  <2> QED
    BY <1>1, <1>3, <2>1 DEF Account
<1>4. CASE ~valid /\ ~(now < h.until)
  <2> DEFINE until == IF h.streak + 1 >= MaxFailedLoginAttempts THEN now + LockDuration
                                                                ELSE h.until
  <2>1. until \in Nat
    BY <1>1
  <2>2. Presented(h, valid) = [h EXCEPT !.wrong = h.wrong + 1, !.streak = h.streak + 1,
                                        !.until = until]
    BY <1>4 DEF Presented
  <2> HIDE DEF until
  <2>3. /\ Presented(h, valid) \in Account
        /\ Presented(h, valid).wrong = h.wrong + 1
        /\ Presented(h, valid).disturbed = h.disturbed
        /\ Presented(h, valid).streak = h.streak + 1
        /\ Presented(h, valid).until = until
    BY <1>1, <2>1, <2>2 DEF Account
  <2> QED
    BY <1>4, <2>3 DEF until
<1> QED
  BY <1>2, <1>3, <1>4

LEMMA InitIInv == Init => IInv
<1> SUFFICES ASSUME Init PROVE IInv
  OBVIOUS
<1>1. \A s \in {"ACTIVE", "SUSPENDED"} : [NewUser EXCEPT !.status = s] \in Row
        /\ [NewUser EXCEPT !.status = s].failed = 0
        /\ [NewUser EXCEPT !.status = s].lockedUntil = Null
  BY DEF NewUser, Row, Null
<1>2. users \in [Admins -> Row]
      /\ \A a \in Admins : users[a].failed = 0 /\ users[a].lockedUntil = Null
  <2> DEFINE Rows == {[NewUser EXCEPT !.status = s] : s \in {"ACTIVE", "SUSPENDED"}}
  <2>1. \A row \in Rows : row \in Row /\ row.failed = 0 /\ row.lockedUntil = Null
    BY <1>1
  <2>2. users \in [Admins -> Rows]
    BY DEF Init
  <2> HIDE DEF Rows
  <2> QED
    BY <2>1, <2>2
<1>3. NoHistory \in Account /\ NoHistory.wrong = 0
  BY DEF NoHistory, Account, Null
<1>4. Idle.pc = "idle"
  BY DEF Idle
<1> QED
  BY <1>2, <1>3, <1>4, IdleHandler DEF Init, IInv, Typed, InMemory, LockedByFailures

\* The failures that were presented never become fewer, so that a step that
\* leaves the rows and one handler's locals justified keeps the invariant.
LEMMA StepIInv ==
  ASSUME IInv, NEW r \in Requests, NEW x \in Handler, Becomes(r, x),
         x.pc # "idle" => /\ x.admin \in Admins
                          /\ Justified(x.user, history'[x.admin].wrong),
         users' \in [Admins -> Row], now' \in Nat, history' \in [Admins -> Account],
         \A a \in Admins : /\ history'[a].wrong >= history[a].wrong
                           /\ Justified(users'[a], history'[a].wrong)
  PROVE  IInv'
<1>1. /\ req' \in [Requests -> Handler] /\ req'[r] = x
      /\ \A q \in Requests \ {r} : req'[q] = req[q]
  BY BecomesTyped DEF IInv
<1>2. Typed'
  BY <1>1 DEF IInv, Typed
<1>3. ASSUME NEW q \in Requests, req'[q].pc # "idle"
      PROVE  Justified(req'[q].user, history'[req'[q].admin].wrong)
  <2>1. CASE q = r
    BY <1>1, <1>3, <2>1
  <2>2. CASE q # r
    <3>1. /\ req'[q] = req[q] /\ req[q].admin \in Admins /\ req[q].user \in Row
          /\ Justified(req[q].user, history[req[q].admin].wrong)
      BY <1>1, <1>3, <2>2 DEF IInv, Typed, InMemory, Handler
    <3>2. history[req[q].admin] \in Account /\ history'[req[q].admin] \in Account
      BY <3>1 DEF IInv, Typed
    <3> QED
      BY <3>1, <3>2 DEF Justified, Row, Account
  <2> QED
    BY <2>1, <2>2
<1>4. InMemory'
  BY <1>3 DEF InMemory
<1>5. LockedByFailures'
  BY DEF LockedByFailures, Justified
<1> QED
  BY <1>2, <1>4, <1>5 DEF IInv

LEMMA NextIInv == IInv /\ [Next]_vars => IInv'
<1> SUFFICES ASSUME IInv, [Next]_vars PROVE IInv'
  OBVIOUS
<1>0. /\ users \in [Admins -> Row] /\ req \in [Requests -> Handler]
      /\ now \in Nat /\ history \in [Admins -> Account]
      /\ \A a \in Admins : Justified(users[a], history[a].wrong)
  BY DEF IInv, Typed, LockedByFailures, Justified
<1>1. ASSUME NEW r \in Requests, NEW a \in Admins, LoginRead(r, a)
      PROVE  IInv'
  <2>1. /\ history' \in [Admins -> Account]
        /\ \A b \in Admins : history'[b].wrong = history[b].wrong
    BY <1>0, <1>1 DEF LoginRead, Account
  <2>2. CASE CanAttemptLogin(users[a])
    <3> DEFINE x == [Idle EXCEPT !.pc = "Verify", !.admin = a, !.user = users[a]]
    <3>1. x \in Handler /\ x.admin = a /\ x.user = users[a]
      BY <1>0, IdleHandler DEF Handler, PCs, Idle
    <3>2. Becomes(r, x) /\ users' = users /\ now' = now
      BY <1>1, <2>2 DEF LoginRead
    <3> HIDE DEF x
    <3>3. Justified(x.user, history'[x.admin].wrong)
      BY <1>0, <2>1, <3>1
    <3>4. \A b \in Admins : history'[b].wrong >= history[b].wrong
      BY <1>0, <2>1 DEF Account
    <3> QED
      BY <1>0, <2>1, <3>1, <3>2, <3>3, <3>4, StepIInv
  <2>3. CASE ~CanAttemptLogin(users[a])
    <3>1. req' = req /\ users' = users /\ now' = now
      BY <1>1, <2>3 DEF LoginRead
    <3> QED
      BY <2>1, <3>1 DEF IInv, Typed, InMemory, LockedByFailures
  <2> QED
    BY <2>2, <2>3
<1>2. ASSUME NEW r \in Requests, NEW valid \in BOOLEAN, LoginVerify(r, valid)
      PROVE  IInv'
  <2> DEFINE a == req[r].admin
             u == IF valid THEN RecordSuccessfulLogin(req[r].user)
                           ELSE RecordFailedLogin(req[r].user)
             x == [req[r] EXCEPT !.pc = "Select", !.valid = valid, !.user = u]
  <2>1. /\ a \in Admins /\ req[r].user \in Row
        /\ Justified(req[r].user, history[a].wrong)
    BY <1>0, <1>2 DEF LoginVerify, IInv, Typed, InMemory, Handler
  <2>2. /\ history' \in [Admins -> Account]
        /\ \A b \in Admins : b # a => history'[b] = history[b]
        /\ history'[a].wrong = IF valid THEN history[a].wrong ELSE history[a].wrong + 1
    <3>1. history' = [history EXCEPT ![a] = Presented(history[a], valid)]
      BY <1>2 DEF LoginVerify
    <3> QED
      BY <1>0, <2>1, <3>1, PresentedAccount
  <2>3. u \in Row /\ Justified(u, history'[a].wrong)
    <3>1. /\ RecordFailedLogin(req[r].user) \in Row
          /\ RecordFailedLogin(req[r].user).failed = req[r].user.failed + 1
          /\ RecordFailedLogin(req[r].user).lockedUntil =
               IF req[r].user.failed + 1 >= MaxFailedLoginAttempts
               THEN now + LockDuration ELSE req[r].user.lockedUntil
          /\ RecordSuccessfulLogin(req[r].user) \in Row
          /\ RecordSuccessfulLogin(req[r].user).failed = 0
          /\ RecordSuccessfulLogin(req[r].user).lockedUntil = Null
      BY <2>1, RecordedRow DEF IInv
    <3>2. req[r].user.failed \in Nat /\ history[a].wrong \in Nat
      BY <1>0, <2>1 DEF Row, Account
    <3> QED
      BY <2>1, <2>2, <3>1, <3>2 DEF Justified
  <2>4. x \in Handler /\ x.admin = a /\ x.user = u
    BY <1>0, <2>3 DEF Handler, PCs
  <2>5. Becomes(r, x) /\ users' = users /\ now' = now
    BY <1>2 DEF LoginVerify
  <2> HIDE DEF x, u
  <2>6. \A b \in Admins : /\ history'[b].wrong >= history[b].wrong
                          /\ Justified(users[b], history'[b].wrong)
    <3> TAKE b \in Admins
    <3>1. history[b].wrong \in Nat /\ users[b] \in Row
      BY <1>0 DEF Account
    <3> QED
      BY <1>0, <2>2, <3>1 DEF Justified, Row
  <2> QED
    BY <1>0, <2>1, <2>2, <2>3, <2>4, <2>5, <2>6, StepIInv
<1>3. ASSUME NEW r \in Requests, LoginSelect(r)
      PROVE  IInv'
  <2> DEFINE x == [req[r] EXCEPT !.pc = "Update", !.base = users[req[r].admin]]
  <2>1. /\ req[r].admin \in Admins
        /\ Justified(req[r].user, history[req[r].admin].wrong)
    BY <1>0, <1>3 DEF LoginSelect, IInv, Typed, InMemory
  <2>2. x \in Handler /\ x.admin = req[r].admin /\ x.user = req[r].user
    BY <1>0, <2>1 DEF Handler, PCs
  <2>3. /\ Becomes(r, x)
        /\ users' = users /\ now' = now /\ history' = history
    BY <1>3 DEF LoginSelect
  <2> HIDE DEF x
  <2>4. \A b \in Admins : history[b].wrong >= history[b].wrong
    BY <1>0 DEF Account
  <2> QED
    BY <1>0, <2>1, <2>2, <2>3, <2>4, StepIInv
<1>4. ASSUME NEW r \in Requests, LoginUpdate(r)
      PROVE  IInv'
  <2> DEFINE a == req[r].admin
             x == IF req[r].valid THEN [req[r] EXCEPT !.pc = "Session"] ELSE Idle
  <2>1. /\ a \in Admins /\ req[r].user \in Row /\ req[r] \in Handler
        /\ Justified(req[r].user, history[a].wrong)
    BY <1>0, <1>4 DEF LoginUpdate, IInv, Typed, InMemory, Handler
  <2>2. users' = [users EXCEPT ![a] = Saved(req[r], @)]
    BY <1>4 DEF LoginUpdate, Saved
  <2>3. Saved(req[r], users[a]) \in Row /\ Justified(Saved(req[r], users[a]), history[a].wrong)
    BY <1>0, <2>1, SavedRow DEF Justified
  <2>4. /\ users' \in [Admins -> Row]
        /\ \A b \in Admins : Justified(users'[b], history[b].wrong)
    BY <1>0, <2>1, <2>2, <2>3
  <2>5. x \in Handler /\ (x.pc # "idle" => x.admin = a /\ x.user = req[r].user)
    BY <1>0, IdleHandler DEF Handler, PCs, Idle
  <2>6. Becomes(r, x) /\ now' = now /\ history' = history
    BY <1>4 DEF LoginUpdate
  <2> HIDE DEF x
  <2>7. \A b \in Admins : history[b].wrong >= history[b].wrong
    BY <1>0 DEF Account
  <2> QED
    BY <1>0, <2>1, <2>4, <2>5, <2>6, <2>7, StepIInv
<1>5. ASSUME NEW r \in Requests, LoginSession(r) \/ Crash(r)
      PROVE  IInv'
  <2>1. Becomes(r, Idle) /\ users' = users /\ now' = now
    BY <1>5 DEF LoginSession, Crash
  <2>2. /\ history' \in [Admins -> Account]
        /\ \A b \in Admins : history'[b].wrong = history[b].wrong
    <3>1. CASE LoginSession(r)
      BY <1>0, <3>1 DEF LoginSession
    <3>2. CASE Crash(r)
      <4> DEFINE a == req[r].admin
                 h == [history[a] EXCEPT !.disturbed = @ \/ req[r].pc \in {"Select", "Update"}]
      <4>1. a \in Admins
        BY <3>2 DEF Crash, IInv, Typed
      <4>2. (history[a].disturbed \/ req[r].pc \in {"Select", "Update"}) \in BOOLEAN
        OBVIOUS
      <4>3. h \in Account /\ h.wrong = history[a].wrong
        BY <1>0, <4>1, <4>2 DEF Account
      <4>4. history' = [history EXCEPT ![a] = h]
        BY <3>2 DEF Crash
      <4> HIDE DEF h
      <4> QED
        BY <1>0, <4>1, <4>3, <4>4
    <3> QED
      BY <1>5, <3>1, <3>2
  <2>3. \A b \in Admins : history'[b].wrong >= history[b].wrong
    BY <1>0, <2>2 DEF Account
  <2>4. Idle.pc = "idle"
    BY DEF Idle
  <2> QED
    BY <1>0, <2>1, <2>2, <2>3, <2>4, IdleHandler, StepIInv
<1>6. CASE Tick \/ UNCHANGED vars
  BY <1>0, <1>6 DEF Tick, vars, IInv, Typed, InMemory, LockedByFailures
<1> QED
  BY <1>1, <1>2, <1>3, <1>4, <1>5, <1>6 DEF Next

(***************************************************************************)
(* However the logins of an account interleave, and wherever the process   *)
(* dies, the counter of an account never exceeds the wrong passwords that  *)
(* were presented to it, and it is locked only after as many as the limit  *)
(* (LoginAdminUseCase.execute, AdminUser.recordFailedLogin).               *)
(***************************************************************************)
THEOREM LoginLockedByFailures == Spec => []LockedByFailures
<1>1. IInv => LockedByFailures
  BY DEF IInv
<1> QED
  BY InitIInv, NextIInv, <1>1, PTL DEF Spec

(***************************************************************************)
(* CountedExactly speaks of accounts that no login is busy with.  While    *)
(* one is, the history is ahead of the row from the verification of the    *)
(* password to the save, and what the login has in memory is what it says. *)
(***************************************************************************)

Matches(row, h) == row.failed = h.streak /\ row.lockedUntil = h.until

Unsaved == {"Select", "Update"}

\* The locals of a login of an account whose row and history are row and h.
Counts(x, row, h) == /\ x.pc \in {"Verify"} \cup Unsaved => Matches(x.user, h)
                     /\ x.pc = "Verify" => h.until <= now
                     /\ x.pc = "Update" => x.base = row

Exact(a) ==
  ~history[a].disturbed =>
    /\ \A q, r \in Busy(a) : q = r
    /\ \A r \in Busy(a) : Counts(req[r], users[a], history[a])
    /\ (\A r \in Busy(a) : req[r].pc \notin Unsaved) => Matches(users[a], history[a])

EInv == IInv /\ \A a \in Admins : Exact(a)

LEMMA OtherAccount ==
  ASSUME NEW b \in Admins, Exact(b), NEW r \in Requests,
         r \notin Busy(b), r \notin Busy(b)',
         \A q \in Requests \ {r} : req'[q] = req[q],
         users'[b] = users[b], history'[b] = history[b], now' = now
  PROVE  Exact(b)'
<1>1. Busy(b)' = Busy(b)
  BY DEF Busy
<1>2. \A q \in Busy(b) : req'[q] = req[q] /\ q \in Requests
  BY DEF Busy
<1> QED
  BY <1>1, <1>2 DEF Exact, Counts, Matches

LEMMA InitEInv == Init => EInv
<1> SUFFICES ASSUME Init PROVE EInv
  OBVIOUS
<1>1. \A a \in Admins : Busy(a) = {}
  BY DEF Init, Busy, Idle
<1>2. \A a \in Admins : users[a].failed = 0 /\ users[a].lockedUntil = 0
  <2> DEFINE Rows == {[NewUser EXCEPT !.status = s] : s \in {"ACTIVE", "SUSPENDED"}}
  <2>1. \A row \in Rows : row.failed = 0 /\ row.lockedUntil = 0
    BY DEF NewUser, Null
  <2>2. users \in [Admins -> Rows]
    BY DEF Init
  <2> HIDE DEF Rows
  <2> QED
    BY <2>1, <2>2
<1>3. \A a \in Admins : history[a].streak = 0 /\ history[a].until = 0
  BY DEF Init, NoHistory, Null
<1> QED
  BY <1>1, <1>2, <1>3, InitIInv DEF EInv, Exact, Matches

LEMMA NextExact ==
  ASSUME EInv, [Next]_vars, NEW b \in Admins
  PROVE  Exact(b)'
<1>0. /\ users \in [Admins -> Row] /\ req \in [Requests -> Handler]
      /\ now \in Nat /\ history \in [Admins -> Account] /\ Exact(b)
      /\ \A r \in Requests : req[r].pc # "idle" => req[r].admin \in Admins
  BY DEF EInv, IInv, Typed
<1>a. ASSUME NEW r \in Requests, NEW x \in Handler, Becomes(r, x)
      PROVE  /\ req' \in [Requests -> Handler] /\ req'[r] = x
             /\ \A q \in Requests \ {r} : req'[q] = req[q]
             /\ r \in Busy(b)' <=> x.pc # "idle" /\ x.admin = b
             /\ \A q \in Requests \ {r} : q \in Busy(b)' <=> q \in Busy(b)
  <2>1. /\ req' \in [Requests -> Handler] /\ req'[r] = x
        /\ \A q \in Requests \ {r} : req'[q] = req[q]
    BY <1>a, BecomesTyped DEF EInv, IInv
  <2> QED
    BY <2>1 DEF Busy
<1>b. Idle \in Handler /\ Idle.pc = "idle"
  BY IdleHandler DEF Idle
<1>1. ASSUME NEW r \in Requests, NEW a \in Admins, LoginRead(r, a)
      PROVE  Exact(b)'
  <2>1. /\ users' = users /\ now' = now /\ r \notin Busy(b)
        /\ a # b => history'[b] = history[b]
        /\ history'[b].streak = history[b].streak /\ history'[b].until = history[b].until
    BY <1>0, <1>1 DEF LoginRead, Busy, Account
  <2>2. a = b => history'[b].disturbed = (history[b].disturbed \/ Busy(b) # {})
    BY <1>0, <1>1 DEF LoginRead, Account
  <2>3. CASE CanAttemptLogin(users[a])
    <3> DEFINE x == [Idle EXCEPT !.pc = "Verify", !.admin = a, !.user = users[a]]
    <3>1. x \in Handler /\ x.admin = a /\ x.user = users[a] /\ x.pc = "Verify"
      BY <1>0, IdleHandler DEF Handler, PCs, Idle
    <3>2. Becomes(r, x)
      BY <1>1, <2>3 DEF LoginRead
    <3> HIDE DEF x
    <3>3. /\ req'[r] = x /\ \A q \in Requests \ {r} : req'[q] = req[q]
          /\ r \in Busy(b)' <=> a = b
          /\ \A q \in Requests \ {r} : q \in Busy(b)' <=> q \in Busy(b)
      BY <1>a, <3>1, <3>2
    <3>4. CASE a # b
      BY <1>0, <2>1, <3>3, <3>4, OtherAccount
    <3>5. ASSUME a = b, ~history'[b].disturbed
          PROVE  Exact(b)'
      <4>1. Busy(b) = {} /\ ~history[b].disturbed
        BY <2>2, <3>5
      <4>2. Matches(users[b], history[b])
        BY <1>0, <4>1 DEF Exact
      <4>3. Busy(b)' = {r}
        BY <3>3, <3>5, <4>1 DEF Busy
      <4>4. history[b].until <= now
        BY <1>0, <2>3, <3>5, <4>2 DEF CanAttemptLogin, IsLocked, Matches, Row, Account
      <4>5. Matches(x.user, history'[b]) /\ history'[b].until <= now'
        BY <2>1, <3>1, <3>5, <4>2, <4>4 DEF Matches
      <4>6. Matches(users'[b], history'[b])
        BY <2>1, <4>2 DEF Matches
      <4> QED
        BY <3>1, <3>3, <4>3, <4>5, <4>6 DEF Exact, Counts
    <3> QED
      BY <3>4, <3>5 DEF Exact
  <2>4. CASE ~CanAttemptLogin(users[a])
    <3>1. req' = req
      BY <1>1, <2>4 DEF LoginRead
    <3>2. Busy(b)' = Busy(b)
      BY <3>1 DEF Busy
    <3>3. ~history'[b].disturbed => ~history[b].disturbed
      BY <2>1, <2>2
    <3> QED
      BY <1>0, <2>1, <3>1, <3>2, <3>3 DEF Exact, Counts, Matches
  <2> QED
    BY <2>3, <2>4
<1>2. ASSUME NEW r \in Requests, NEW valid \in BOOLEAN, LoginVerify(r, valid)
      PROVE  Exact(b)'
  <2> DEFINE a == req[r].admin
             u == IF valid THEN RecordSuccessfulLogin(req[r].user)
                           ELSE RecordFailedLogin(req[r].user)
             x == [req[r] EXCEPT !.pc = "Select", !.valid = valid, !.user = u]
  <2>1. a \in Admins /\ req[r].user \in Row /\ req[r].pc = "Verify"
    BY <1>0, <1>2 DEF LoginVerify, Handler
  <2>2. /\ RecordFailedLogin(req[r].user) \in Row
        /\ RecordFailedLogin(req[r].user).failed = req[r].user.failed + 1
        /\ RecordFailedLogin(req[r].user).lockedUntil =
             IF req[r].user.failed + 1 >= MaxFailedLoginAttempts
             THEN now + LockDuration ELSE req[r].user.lockedUntil
        /\ RecordSuccessfulLogin(req[r].user) \in Row
        /\ RecordSuccessfulLogin(req[r].user).failed = 0
        /\ RecordSuccessfulLogin(req[r].user).lockedUntil = Null
    BY <2>1, RecordedRow DEF EInv, IInv
  <2>3. x \in Handler /\ x.admin = a /\ x.user = u /\ x.pc = "Select"
    <3>1. u \in Row
      BY <2>2
    <3> HIDE DEF u
    <3> QED
      BY <1>0, <3>1 DEF Handler, PCs
  <2>4. Becomes(r, x) /\ users' = users /\ now' = now
        /\ history' = [history EXCEPT ![a] = Presented(history[a], valid)]
    BY <1>2 DEF LoginVerify
  <2> HIDE DEF x
  <2>5. /\ req'[r] = x /\ \A q \in Requests \ {r} : req'[q] = req[q]
        /\ r \in Busy(b)' <=> a = b
        /\ r \in Busy(b) <=> a = b
        /\ \A q \in Requests \ {r} : q \in Busy(b)' <=> q \in Busy(b)
    BY <1>a, <2>1, <2>3, <2>4 DEF Busy
  <2>6. CASE a # b
    BY <1>0, <2>1, <2>4, <2>5, <2>6, OtherAccount
  <2>7. ASSUME a = b, ~history'[b].disturbed
        PROVE  Exact(b)'
    <3>1. history[b] \in Account /\ history'[b] = Presented(history[b], valid)
      BY <1>0, <2>4, <2>7
    <3>2. /\ history'[b].disturbed = history[b].disturbed
          /\ valid => history'[b].streak = 0 /\ history'[b].until = Null
          /\ ~valid /\ ~(now < history[b].until) =>
               /\ history'[b].streak = history[b].streak + 1
               /\ history'[b].until = IF history[b].streak + 1 >= MaxFailedLoginAttempts
                                      THEN now + LockDuration ELSE history[b].until
      BY <1>0, <3>1, PresentedAccount
    <3>3. /\ \A q \in Busy(b) : q = r
          /\ Matches(req[r].user, history[b]) /\ history[b].until <= now
      BY <1>0, <2>1, <2>5, <2>7, <3>2 DEF Exact, Counts
    <3>4. ~(now < history[b].until)
      BY <1>0, <3>1, <3>3 DEF Account
    <3>5. Matches(u, history'[b])
      BY <2>2, <3>2, <3>3, <3>4 DEF Matches
    <3>6. Busy(b)' = {r}
      BY <2>5, <2>7, <3>3 DEF Busy
    <3> HIDE DEF u
    <3> QED
      BY <2>3, <2>5, <3>5, <3>6 DEF Exact, Counts, Unsaved
  <2> QED
    BY <2>6, <2>7 DEF Exact
<1>3. ASSUME NEW r \in Requests, LoginSelect(r)
      PROVE  Exact(b)'
  <2> DEFINE a == req[r].admin
             x == [req[r] EXCEPT !.pc = "Update", !.base = users[a]]
  <2>1. a \in Admins /\ req[r].pc = "Select" /\ Becomes(r, x)
        /\ users' = users /\ now' = now /\ history' = history
    BY <1>0, <1>3 DEF LoginSelect
  <2>2. /\ x \in Handler /\ x.admin = a /\ x.user = req[r].user
        /\ x.pc = "Update" /\ x.base = users[a]
    BY <1>0, <2>1 DEF Handler, PCs
  <2> HIDE DEF x
  <2>3. /\ req'[r] = x /\ \A q \in Requests \ {r} : req'[q] = req[q]
        /\ r \in Busy(b)' <=> a = b
        /\ r \in Busy(b) <=> a = b
        /\ \A q \in Requests \ {r} : q \in Busy(b)' <=> q \in Busy(b)
    BY <1>a, <2>1, <2>2 DEF Busy
  <2>4. CASE a # b
    BY <1>0, <2>1, <2>3, <2>4, OtherAccount
  <2>5. ASSUME a = b, ~history[b].disturbed
        PROVE  Exact(b)'
    <3>1. (\A q \in Busy(b) : q = r) /\ Matches(req[r].user, history[b])
      BY <1>0, <2>1, <2>3, <2>5 DEF Exact, Counts, Unsaved
    <3>2. Busy(b)' = {r}
      BY <2>3, <2>5, <3>1 DEF Busy
    <3> QED
      BY <2>1, <2>2, <2>3, <2>5, <3>1, <3>2 DEF Exact, Counts, Matches, Unsaved
  <2> QED
    BY <2>1, <2>4, <2>5 DEF Exact
<1>4. ASSUME NEW r \in Requests, LoginUpdate(r)
      PROVE  Exact(b)'
  <2> DEFINE a == req[r].admin
             x == IF req[r].valid THEN [req[r] EXCEPT !.pc = "Session"] ELSE Idle
  <2>1. /\ a \in Admins /\ req[r].pc = "Update" /\ Becomes(r, x)
        /\ now' = now /\ history' = history
        /\ users' = [users EXCEPT ![a] = Saved(req[r], @)]
    BY <1>0, <1>4 DEF LoginUpdate, Saved
  <2>2. x \in Handler /\ x.pc \in {"idle", "Session"} /\ (x.pc # "idle" => x.admin = a)
    BY <1>0, <1>b DEF Handler, PCs
  <2> HIDE DEF x
  <2>3. /\ req'[r] = x /\ \A q \in Requests \ {r} : req'[q] = req[q]
        /\ r \in Busy(b)' <=> x.pc # "idle" /\ a = b
        /\ r \in Busy(b) <=> a = b
        /\ \A q \in Requests \ {r} : q \in Busy(b)' <=> q \in Busy(b)
    BY <1>a, <2>1, <2>2 DEF Busy
  <2>4. CASE a # b
    BY <1>0, <2>1, <2>3, <2>4, OtherAccount
  <2>5. ASSUME a = b, ~history[b].disturbed
        PROVE  Exact(b)'
    <3>1. /\ \A q \in Busy(b) : q = r
          /\ Matches(req[r].user, history[b]) /\ req[r].base = users[b]
      BY <1>0, <2>1, <2>3, <2>5 DEF Exact, Counts, Unsaved
    <3>2. /\ users'[b] = Saved(req[r], users[b])
          /\ Saved(req[r], users[b]).failed = req[r].user.failed
          /\ Saved(req[r], users[b]).lockedUntil = req[r].user.lockedUntil
      BY <1>0, <2>1, <2>5, <3>1, SavedRow
    <3>3. Matches(users'[b], history[b])
      BY <3>1, <3>2 DEF Matches
    <3>4. \A q \in Busy(b)' : q = r
      BY <2>3, <3>1 DEF Busy
    <3> QED
      BY <2>1, <2>2, <2>3, <3>3, <3>4 DEF Exact, Counts, Unsaved
  <2> QED
    BY <2>1, <2>4, <2>5 DEF Exact
<1>5. ASSUME NEW r \in Requests, LoginSession(r) \/ Crash(r)
      PROVE  Exact(b)'
  <2> DEFINE a == req[r].admin
  <2>1. /\ a \in Admins /\ req[r].pc # "idle" /\ Becomes(r, Idle)
        /\ users' = users /\ now' = now
    BY <1>0, <1>5 DEF LoginSession, Crash
  <2>2. /\ r \notin Busy(b)' /\ (r \in Busy(b) <=> a = b)
        /\ \A q \in Requests \ {r} : req'[q] = req[q]
        /\ \A q \in Requests \ {r} : q \in Busy(b)' <=> q \in Busy(b)
    BY <1>a, <1>b, <2>1 DEF Busy
  <2>3. CASE a # b
    <3>1. history'[b] = history[b]
      BY <1>0, <1>5, <2>1, <2>3 DEF LoginSession, Crash
    <3> QED
      BY <1>0, <2>1, <2>2, <2>3, <3>1, OtherAccount
  <2>4. ASSUME a = b, ~history'[b].disturbed
        PROVE  Exact(b)'
    <3>1. /\ history'[b].streak = history[b].streak /\ history'[b].until = history[b].until
          /\ ~history[b].disturbed /\ req[r].pc \notin Unsaved
      <4>1. CASE LoginSession(r)
        BY <2>4, <4>1 DEF LoginSession, Unsaved
      <4>2. CASE Crash(r)
        <5>1. history' = [history EXCEPT ![b].disturbed =
                            history[b].disturbed \/ req[r].pc \in {"Select", "Update"}]
          BY <2>4, <4>2 DEF Crash
        <5>2. history'[b].disturbed =
                (history[b].disturbed \/ req[r].pc \in {"Select", "Update"})
          BY <1>0, <5>1 DEF Account
        <5>3. history'[b].streak = history[b].streak /\ history'[b].until = history[b].until
          BY <1>0, <5>1 DEF Account
        <5> QED
          BY <2>4, <5>2, <5>3 DEF Unsaved
      <4> QED
        BY <1>5, <4>1, <4>2
    <3>2. \A q \in Busy(b) : q = r
      BY <1>0, <2>2, <2>4, <3>1 DEF Exact
    <3>3. Matches(users[b], history[b])
      BY <1>0, <3>1, <3>2 DEF Exact
    <3>4. Busy(b)' = {}
      BY <2>2, <3>2 DEF Busy
    <3>5. Matches(users'[b], history'[b])
      BY <2>1, <3>1, <3>3 DEF Matches
    <3> QED
      BY <3>4, <3>5 DEF Exact
  <2> QED
    BY <2>3, <2>4 DEF Exact
<1>6. CASE Tick \/ UNCHANGED vars
  <2>1. /\ users' = users /\ req' = req /\ history' = history
        /\ now' \in Nat /\ now <= now'
    BY <1>0, <1>6 DEF Tick, vars
  <2>2. history[b].until \in Nat
    BY <1>0 DEF Account
  <2>3. ASSUME NEW x, Counts(x, users[b], history[b])
        PROVE  Counts(x, users[b], history[b])'
    BY <1>0, <2>1, <2>2, <2>3 DEF Counts, Matches
  <2>4. Busy(b)' = Busy(b)
    BY <2>1 DEF Busy
  <2> QED
    BY <1>0, <2>1, <2>2, <2>4 DEF Exact, Counts, Matches
<1> QED
  BY <1>1, <1>2, <1>3, <1>4, <1>5, <1>6 DEF Next

(***************************************************************************)
(* As long as no two logins of an account overlap, and none dies between   *)
(* the verification of its password and its save, the row is what the      *)
(* documentation promises: the failures since the last success, and a lock *)
(* that begins with the one that reaches the limit                         *)
(* (AdminUser.recordFailedLogin, recordSuccessfulLogin).                   *)
(***************************************************************************)
THEOREM LoginCountedExactly == Spec => []CountedExactly
<1>1. EInv /\ [Next]_vars => EInv'
  BY NextIInv, NextExact DEF EInv
<1>2. EInv => CountedExactly
  BY DEF EInv, Exact, CountedExactly, Matches
<1> QED
  BY InitEInv, <1>1, <1>2, PTL DEF Spec

-----------------------------------------------------------------------------
(***************************************************************************)
(* The types of LoginLockout bound its counters by the logins that         *)
(* arrived, each of which presents at most one password: a login that has  *)
(* yet to verify its own leaves room for one more failure.                 *)
(***************************************************************************)

Verifying == {r \in Requests : req[r].pc = "Verify"}

Within(row) == row.failed <= MaxLogins /\ row.lockedUntil <= now + LockDuration

Counted(a) == /\ history[a].wrong + Cardinality(Verifying) <= logins
              /\ history[a].streak <= history[a].wrong
              /\ history[a].until <= now + LockDuration

Bounds == /\ now \in 0..MaxTime
          /\ logins \in 0..MaxLogins
          /\ IsFiniteSet(Verifying)
          /\ \A a \in Admins : Counted(a) /\ Within(users[a])
          /\ \A r \in Requests : Within(req[r].user) /\ Within(req[r].base)

LEMMA RowInBounds ==
  ASSUME now \in 0..MaxTime, NEW row \in Row, Within(row)
  PROVE  row \in UserRow
<1>1. /\ row.status \in {"ACTIVE", "SUSPENDED"} /\ row.failed \in Nat /\ row.lockedUntil \in Nat
      /\ row = [status |-> row.status, failed |-> row.failed, lockedUntil |-> row.lockedUntil]
  BY DEF Row
<1>2. row.failed \in 0..MaxLogins
  BY <1>1 DEF Within
<1>3. row.lockedUntil \in Times
  BY <1>1 DEF Within, Times
<1> QED
  BY <1>1, <1>2, <1>3 DEF UserRow

LEMMA BoundsType == IInv /\ Bounds => TypeOK
<1> SUFFICES ASSUME IInv, Bounds PROVE TypeOK
  OBVIOUS
<1>1. users \in [Admins -> UserRow]
  BY RowInBounds DEF IInv, Typed, Bounds
<1>2. ASSUME NEW r \in Requests PROVE req[r] \in Request
  <2>1. req[r] \in Handler /\ req[r].user \in Row /\ req[r].base \in Row
    BY DEF IInv, Typed, Handler
  <2>2. req[r].user \in UserRow /\ req[r].base \in UserRow
    BY <2>1, RowInBounds DEF Bounds
  <2> QED
    BY <2>1, <2>2 DEF Handler, Request
<1>3. ASSUME NEW a \in Admins PROVE history[a] \in History
  <2>1. PICK h \in Account : h = history[a]
    BY DEF IInv, Typed
  <2>2. /\ h.wrong \in Nat /\ h.streak \in Nat /\ h.until \in Nat /\ h.disturbed \in BOOLEAN
        /\ h = [wrong |-> h.wrong, streak |-> h.streak, until |-> h.until,
                disturbed |-> h.disturbed]
    BY DEF Account
  <2>3. h.wrong \in 0..MaxLogins /\ h.streak \in 0..MaxLogins
    <3>1. Cardinality(Verifying) \in Nat
      BY FS_CardinalityType DEF Bounds
    <3>2. h.wrong + Cardinality(Verifying) <= logins /\ h.streak <= h.wrong /\ logins \in 0..MaxLogins
      BY <2>1 DEF Bounds, Counted
    <3> QED
      BY <2>2, <3>1, <3>2
  <2>4. h.until \in Times
    BY <2>1, <2>2 DEF Bounds, Counted, Times
  <2> QED
    BY <2>1, <2>2, <2>3, <2>4 DEF History
<1> QED
  BY <1>1, <1>2, <1>3 DEF IInv, Typed, Bounds, TypeOK

LEMMA InitBounds == Init => Bounds
<1> SUFFICES ASSUME Init PROVE Bounds
  OBVIOUS
<1>1. \A s \in {"ACTIVE", "SUSPENDED"} : [NewUser EXCEPT !.status = s].failed = 0
        /\ [NewUser EXCEPT !.status = s].lockedUntil = 0
  BY DEF NewUser, Null
<1>2. \A a \in Admins : users[a].failed = 0 /\ users[a].lockedUntil = 0
  <2> DEFINE Rows == {[NewUser EXCEPT !.status = s] : s \in {"ACTIVE", "SUSPENDED"}}
  <2>1. \A row \in Rows : row.failed = 0 /\ row.lockedUntil = 0
    BY <1>1
  <2>2. users \in [Admins -> Rows]
    BY DEF Init
  <2> HIDE DEF Rows
  <2> QED
    BY <2>1, <2>2
<1>3. /\ NoHistory.wrong = 0 /\ NoHistory.streak = 0 /\ NoHistory.until = 0
      /\ Idle.user = NewUser /\ Idle.base = NewUser /\ Idle.pc = "idle"
      /\ NewUser.failed = 0 /\ NewUser.lockedUntil = 0
  BY DEF NoHistory, Idle, NewUser, Null
<1>4. Verifying = {}
  BY <1>3 DEF Init, Verifying
<1>5. IsFiniteSet(Verifying) /\ Cardinality(Verifying) = 0
  BY <1>4, FS_EmptySet
<1>6. now = 1 /\ logins = 0
  BY DEF Init
<1>7. \A a \in Admins : Counted(a) /\ Within(users[a])
  <2>1. \A a \in Admins : history[a].wrong = 0 /\ history[a].streak = 0 /\ history[a].until = 0
    BY <1>3 DEF Init
  <2>2. 0 <= MaxLogins /\ 0 <= 1 + LockDuration /\ 0 + 0 <= 0
    OBVIOUS
  <2>3. TAKE a \in Admins
  <2>4. Counted(a)
    BY <1>5, <1>6, <2>1, <2>2 DEF Counted
  <2>5. Within(users[a])
    BY <1>2, <1>6, <2>2 DEF Within
  <2> QED
    BY <2>4, <2>5
<1>8. \A r \in Requests : Within(req[r].user) /\ Within(req[r].base)
  BY <1>3, <1>6 DEF Init, Within
<1> QED
  BY <1>5, <1>6, <1>7, <1>8 DEF Bounds

\* How a step of one request changes the number of logins with a password to verify.
LEMMA VerifyingStep ==
  ASSUME IInv, IsFiniteSet(Verifying), NEW r \in Requests, NEW x \in Handler, Becomes(r, x)
  PROVE  /\ IsFiniteSet(Verifying') /\ Cardinality(Verifying) \in Nat
         /\ Cardinality(Verifying') \in Nat
         /\ x.pc = "Verify" => Cardinality(Verifying') <= Cardinality(Verifying) + 1
         /\ x.pc # "Verify" => Cardinality(Verifying') <= Cardinality(Verifying)
         /\ x.pc # "Verify" /\ req[r].pc = "Verify"
              => Cardinality(Verifying') + 1 = Cardinality(Verifying)
<1>1. req'[r] = x /\ \A q \in Requests \ {r} : req'[q] = req[q]
  BY BecomesTyped DEF IInv
<1>2. Cardinality(Verifying) \in Nat
  BY FS_CardinalityType
<1>3. CASE x.pc = "Verify"
  <2>1. Verifying' = Verifying \cup {r}
    BY <1>1, <1>3 DEF Verifying
  <2>2. IsFiniteSet(Verifying') /\ Cardinality(Verifying') \in Nat
    BY <2>1, FS_AddElement, FS_CardinalityType
  <2>3. Cardinality(Verifying') \in {Cardinality(Verifying), Cardinality(Verifying) + 1}
    BY <2>1, FS_AddElement
  <2> QED
    BY <1>2, <1>3, <2>2, <2>3
<1>4. CASE x.pc # "Verify"
  <2>1. Verifying' = Verifying \ {r} /\ (r \in Verifying <=> req[r].pc = "Verify")
    BY <1>1, <1>4 DEF Verifying
  <2>2. IsFiniteSet(Verifying') /\ Cardinality(Verifying') \in Nat
    BY <2>1, FS_RemoveElement, FS_CardinalityType
  <2> QED
    BY <1>2, <1>4, <2>1, <2>2, FS_RemoveElement
<1> QED
  BY <1>3, <1>4

\* A step of a request, at one time, keeps the bounds if it does so for what it writes.
LEMMA StepBounds ==
  ASSUME IInv, Bounds, NEW r \in Requests, NEW x \in Handler, Becomes(r, x),
         now' = now, logins' \in 0..MaxLogins,
         IsFiniteSet(Verifying'), Within(x.user), Within(x.base),
         \A a \in Admins : Counted(a)' /\ Within(users'[a])
  PROVE  Bounds'
<1>1. req'[r] = x /\ \A q \in Requests \ {r} : req'[q] = req[q]
  BY BecomesTyped DEF IInv
<1>2. \A row : Within(row)' <=> Within(row)
  BY DEF Within
<1>3. \A q \in Requests : Within(req'[q].user) /\ Within(req'[q].base)
  BY <1>1 DEF Bounds
<1>4. \A q \in Requests : Within(req[q].user)' /\ Within(req[q].base)'
  BY <1>3 DEF Within
<1>5. \A a \in Admins : Within(users[a])'
  BY DEF Within
<1> QED
  BY <1>4, <1>5 DEF Bounds

\* So does one after which no more passwords wait and no failure was counted.
LEMMA QuietBounds ==
  ASSUME IInv, Bounds, NEW r \in Requests, NEW x \in Handler, Becomes(r, x),
         x.pc # "Verify", now' = now, logins' = logins,
         Within(x.user), Within(x.base), \A a \in Admins : Within(users'[a]),
         \A a \in Admins : /\ history'[a].wrong = history[a].wrong
                           /\ history'[a].streak = history[a].streak
                           /\ history'[a].until = history[a].until
  PROVE  Bounds'
<1>1. /\ IsFiniteSet(Verifying') /\ Cardinality(Verifying) \in Nat
      /\ Cardinality(Verifying') \in Nat /\ Cardinality(Verifying') <= Cardinality(Verifying)
  BY VerifyingStep DEF Bounds
<1>2. \A a \in Admins : history[a].wrong \in Nat
  BY DEF IInv, Typed, Account
<1>3. \A a \in Admins : Counted(a)
  BY DEF Bounds
<1>4. logins \in 0..MaxLogins
  BY DEF Bounds
<1>5. \A a \in Admins : Counted(a)'
  BY <1>1, <1>2, <1>3, <1>4 DEF Counted
<1> QED
  BY <1>1, <1>4, <1>5, StepBounds

LEMMA NextBounds == IInv /\ Bounds /\ [Next]_vars => Bounds'
<1> SUFFICES ASSUME IInv, Bounds, [Next]_vars PROVE Bounds'
  OBVIOUS
<1>0. /\ users \in [Admins -> Row] /\ req \in [Requests -> Handler]
      /\ now \in Nat /\ history \in [Admins -> Account]
      /\ logins \in Nat /\ logins <= MaxLogins /\ IsFiniteSet(Verifying)
      /\ Cardinality(Verifying) \in Nat
  BY FS_CardinalityType DEF IInv, Typed, Bounds
<1>00. /\ \A r \in Requests : Within(req[r].user) /\ Within(req[r].base)
       /\ \A a \in Admins : Within(users[a]) /\ Counted(a)
  BY DEF Bounds
<1>a. \A b \in Admins : /\ history[b].wrong \in Nat /\ history[b].streak \in Nat
                        /\ history[b].until \in Nat
  BY <1>0 DEF Account
<1>b. Within(Idle.user) /\ Within(Idle.base) /\ Idle.pc = "idle"
  <2>1. Idle.user = NewUser /\ Idle.base = NewUser /\ Idle.pc = "idle"
        /\ NewUser.failed = 0 /\ NewUser.lockedUntil = 0
    BY DEF Idle, NewUser, Null
  <2> QED
    BY <1>0, <2>1 DEF Within
<1>1. ASSUME NEW r \in Requests, NEW a \in Admins, LoginRead(r, a)
      PROVE  Bounds'
  <2>1. /\ \A b \in Admins : /\ history'[b].wrong = history[b].wrong
                             /\ history'[b].streak = history[b].streak
                             /\ history'[b].until = history[b].until
        /\ req[r].pc = "idle" /\ logins' = logins + 1 /\ logins' \in 0..MaxLogins
        /\ users' = users /\ now' = now
    BY <1>0, <1>1 DEF LoginRead, Account
  <2>2. CASE CanAttemptLogin(users[a])
    <3> DEFINE x == [Idle EXCEPT !.pc = "Verify", !.admin = a, !.user = users[a]]
    <3>1. x \in Handler /\ x.pc = "Verify" /\ x.user = users[a] /\ x.base = Idle.base
      BY <1>0, IdleHandler DEF Handler, PCs, Idle
    <3>2. Becomes(r, x)
      BY <1>1, <2>2 DEF LoginRead
    <3> HIDE DEF x
    <3>3. IsFiniteSet(Verifying') /\ Cardinality(Verifying') \in Nat
          /\ Cardinality(Verifying') <= Cardinality(Verifying) + 1
      BY <1>0, <3>1, <3>2, VerifyingStep
    <3>4. \A b \in Admins : Counted(b)'
      BY <1>0, <1>00, <1>a, <2>1, <3>3 DEF Counted
    <3> QED
      BY <1>00, <1>b, <2>1, <3>1, <3>2, <3>3, <3>4, StepBounds
  <2>3. CASE ~CanAttemptLogin(users[a])
    <3>1. req' = req
      BY <1>1, <2>3 DEF LoginRead
    <3>2. Verifying' = Verifying
      BY <3>1 DEF Verifying
    <3>3. \A b \in Admins : Counted(b)'
      BY <1>0, <1>00, <1>a, <2>1, <3>2 DEF Counted
    <3> QED
      BY <2>1, <3>1, <3>2, <3>3 DEF Bounds, Within
  <2> QED
    BY <2>2, <2>3
<1>2. ASSUME NEW r \in Requests, NEW valid \in BOOLEAN, LoginVerify(r, valid)
      PROVE  Bounds'
  <2> DEFINE a == req[r].admin
             u == IF valid THEN RecordSuccessfulLogin(req[r].user)
                           ELSE RecordFailedLogin(req[r].user)
             x == [req[r] EXCEPT !.pc = "Select", !.valid = valid, !.user = u]
  <2>1. /\ a \in Admins /\ req[r].user \in Row /\ req[r].pc = "Verify"
        /\ req[r].user.failed <= history[a].wrong
    BY <1>0, <1>2 DEF LoginVerify, IInv, Typed, InMemory, Handler, Justified
  <2>2. /\ history' = [history EXCEPT ![a] = Presented(history[a], valid)]
        /\ Becomes(r, x) /\ users' = users /\ now' = now /\ logins' = logins
    BY <1>2 DEF LoginVerify
  <2>3. /\ u \in Row
        /\ u.failed = IF valid THEN 0 ELSE req[r].user.failed + 1
        /\ u.lockedUntil \in {0, now + LockDuration, req[r].user.lockedUntil}
    BY <2>1, RecordedRow DEF IInv, Null
  <2>4. x \in Handler /\ x.pc = "Select" /\ x.user = u /\ x.base = req[r].base
    BY <1>0, <2>3 DEF Handler, PCs
  <2> HIDE DEF x, u
  <2>5. /\ IsFiniteSet(Verifying') /\ Cardinality(Verifying') \in Nat
        /\ Cardinality(Verifying') + 1 = Cardinality(Verifying)
    BY <1>0, <2>1, <2>2, <2>4, VerifyingStep
  <2>6. PICK c, d : c = Cardinality(Verifying) /\ d = Cardinality(Verifying')
    OBVIOUS
  <2>7. /\ history[a] \in Account
        /\ history[a].wrong + c <= logins /\ history[a].streak <= history[a].wrong
        /\ history[a].until <= now + LockDuration
    BY <1>0, <1>00, <2>1, <2>6 DEF Counted
  <2>8. PICK h \in Account : h = Presented(history[a], valid)
    BY <1>0, <2>7, PresentedAccount
  <2>9. /\ h.wrong = IF valid THEN history[a].wrong ELSE history[a].wrong + 1
        /\ \/ valid /\ h.streak = 0 /\ h.until = 0
           \/ ~valid /\ h.streak = history[a].streak /\ h.until = history[a].until
           \/ ~valid /\ h.streak = history[a].streak + 1
                     /\ h.until \in {now + LockDuration, history[a].until}
    <3>1. CASE valid \/ ~(now < history[a].until)
      BY <1>0, <2>7, <2>8, <3>1, PresentedAccount DEF Null
    <3>2. CASE ~valid /\ now < history[a].until
      <4>1. h = [history[a] EXCEPT !.wrong = history[a].wrong + 1]
        BY <2>8, <3>2 DEF Presented
      <4> QED
        BY <2>7, <3>2, <4>1 DEF Account
    <3> QED
      BY <3>1, <3>2
  <2>10. /\ h.wrong + d <= logins /\ h.streak <= h.wrong /\ h.until <= now + LockDuration
         /\ h.wrong <= history[a].wrong + 1
    BY <1>0, <1>a, <2>1, <2>5, <2>6, <2>7, <2>9
  <2>11. ASSUME NEW b \in Admins PROVE Counted(b)'
    <3>1. CASE b = a
      BY <1>0, <2>1, <2>2, <2>6, <2>8, <2>10, <3>1 DEF Counted
    <3>2. CASE b # a
      BY <1>0, <1>00, <1>a, <2>1, <2>2, <2>5, <3>2 DEF Counted
    <3> QED
      BY <3>1, <3>2
  <2>12. Within(u)
    <3>1. /\ req[r].user.failed \in Nat /\ req[r].user.lockedUntil \in Nat
          /\ req[r].user.failed <= MaxLogins /\ req[r].user.lockedUntil <= now + LockDuration
      BY <1>00, <2>1 DEF Row, Within
    <3>2. u.lockedUntil <= now + LockDuration
      BY <1>0, <2>3, <3>1
    <3>3. req[r].user.failed + 1 <= MaxLogins
      BY <1>0, <1>a, <2>1, <2>5, <2>6, <2>7, <3>1
    <3> QED
      BY <2>3, <3>1, <3>2, <3>3 DEF Within
  <2> QED
    BY <1>0, <1>00, <2>2, <2>4, <2>5, <2>11, <2>12, StepBounds
<1>3. ASSUME NEW r \in Requests, LoginSelect(r)
      PROVE  Bounds'
  <2> DEFINE x == [req[r] EXCEPT !.pc = "Update", !.base = users[req[r].admin]]
  <2>1. req[r].admin \in Admins /\ req[r].pc = "Select"
    BY <1>3 DEF LoginSelect, IInv, Typed
  <2>2. /\ x \in Handler /\ x.pc = "Update" /\ x.user = req[r].user
        /\ x.base = users[req[r].admin]
    BY <1>0, <2>1 DEF Handler, PCs
  <2>3. Becomes(r, x) /\ UNCHANGED <<users, now, logins, history>>
    BY <1>3 DEF LoginSelect
  <2> HIDE DEF x
  <2> QED
    BY <1>0, <1>00, <2>1, <2>2, <2>3, QuietBounds
<1>4. ASSUME NEW r \in Requests, LoginUpdate(r)
      PROVE  Bounds'
  <2> DEFINE a == req[r].admin
             x == IF req[r].valid THEN [req[r] EXCEPT !.pc = "Session"] ELSE Idle
  <2>1. /\ a \in Admins /\ req[r] \in Handler
        /\ Becomes(r, x) /\ UNCHANGED <<now, logins, history>>
        /\ users' = [users EXCEPT ![a] = Saved(req[r], @)]
    BY <1>0, <1>4 DEF LoginUpdate, Saved, IInv, Typed
  <2>2. Within(Saved(req[r], users[a]))
    <3>1. PICK row \in Row : row = users[a]
      BY <1>0, <2>1
    <3>2. Within(row) /\ Within(req[r].user)
      BY <1>00, <2>1, <3>1
    <3>3. Within(Saved(req[r], row))
      BY <2>1, <3>2, SavedRow DEF Within
    <3> QED
      BY <3>1, <3>3
  <2>3. \A b \in Admins : Within(users'[b])
    BY <1>0, <1>00, <2>1, <2>2
  <2>4. x \in Handler /\ x.pc # "Verify" /\ Within(x.user) /\ Within(x.base)
    BY <1>00, <1>b, <2>1, IdleHandler DEF Handler, PCs
  <2> HIDE DEF x
  <2> QED
    BY <2>1, <2>3, <2>4, QuietBounds
<1>5. ASSUME NEW r \in Requests, LoginSession(r) \/ Crash(r)
      PROVE  Bounds'
  <2>1. Becomes(r, Idle) /\ UNCHANGED <<users, now, logins>>
    BY <1>5 DEF LoginSession, Crash
  <2>2. \A b \in Admins : /\ history'[b].wrong = history[b].wrong
                          /\ history'[b].streak = history[b].streak
                          /\ history'[b].until = history[b].until
    BY <1>0, <1>5 DEF LoginSession, Crash, Account
  <2> QED
    BY <1>00, <1>b, <2>1, <2>2, IdleHandler, QuietBounds
<1>6. CASE Tick \/ UNCHANGED vars
  <2>1. /\ users' = users /\ req' = req /\ history' = history /\ logins' = logins
        /\ now' \in 0..MaxTime /\ now <= now'
    BY <1>0, <1>6 DEF Tick, vars, Bounds
  <2>2. Verifying' = Verifying
    BY <2>1 DEF Verifying
  <2>3. \A row \in Row : Within(row) => row.failed <= MaxLogins /\ row.lockedUntil <= now' + LockDuration
    <3> SUFFICES ASSUME NEW row \in Row, Within(row)
                 PROVE  row.failed <= MaxLogins /\ row.lockedUntil <= now' + LockDuration
      OBVIOUS
    <3>1. row.lockedUntil \in Nat
      BY DEF Row
    <3> QED
      BY <1>0, <2>1, <3>1 DEF Within
  <2>4. \A r \in Requests : req[r].user \in Row /\ req[r].base \in Row
    BY <1>0 DEF Handler
  <2>5. \A b \in Admins : Counted(b)'
    BY <1>0, <1>00, <1>a, <2>1, <2>2 DEF Counted
  <2> QED
    BY <1>0, <1>00, <2>1, <2>2, <2>3, <2>4, <2>5 DEF Bounds, Within
<1> QED
  BY <1>1, <1>2, <1>3, <1>4, <1>5, <1>6 DEF Next

\* Rows, logins and accounts keep their types, however the logins interleave.
THEOREM LoginTypes == Spec => []TypeOK
  BY InitIInv, NextIInv, InitBounds, NextBounds, BoundsType, PTL DEF Spec

-----------------------------------------------------------------------------
(* The parts of the composition: a step of one scene leaves the other alone. *)

LEMMA LoginPart == MCSpec => Spec
<1>1. [LoginNext \/ AccessNext]_mcvars => [Next]_vars
  BY DEF LoginNext, LoginScene, AccessNext, AccessScene, mcvars, Next
<1> QED
  BY <1>1, PTL DEF MCSpec, MCInit, Spec

LEMMA AccessPart == MCSpec => A!Spec
<1>1. [LoginNext \/ AccessNext]_mcvars => [A!Next]_(A!vars)
  <2>1. CASE LoginNext
    BY <2>1 DEF LoginNext, LoginScene, accessVars, A!vars
  <2>2. CASE AccessNext
    BY <2>2 DEF AccessNext, AccessScene, A!Next
  <2>3. CASE UNCHANGED mcvars
    BY <2>3 DEF mcvars, accessVars, A!vars
  <2> QED
    BY <2>1, <2>2, <2>3
<1> QED
  BY <1>1, PTL DEF MCSpec, MCInit, A!Spec

\* Every variable of the composition keeps its type.
THEOREM AccessTypes == MCSpec => []TypesOK
  BY LoginPart, LoginTypes, AccessPart, A!TypeCorrect, PTL DEF TypesOK

\* What AccessProofs proves of Access holds while administrators log in: the
\* catalogue in the database is that of the applied migrations.
THEOREM CatalogueKept == MCSpec => []CatalogueInStep
  BY AccessPart, A!CatalogueKept DEF CatalogueInStep

\* ... bootstrap and backfill leave no administrator without a role (AccessProofs).
THEOREM RoleForEveryAdmin == MCSpec => []EveryAdminHasRole
  BY AccessPart, A!RoleForEveryAdmin DEF EveryAdminHasRole

\* ... and roles alone decide what gets past the authorization guard (AccessProofs).
THEOREM GuardFollowsRoles == MCSpec => RolesDecide
  BY AccessPart, A!GuardFollowsRoles DEF RolesDecide

=============================================================================
