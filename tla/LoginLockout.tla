----------------------------- MODULE LoginLockout -----------------------------
(***************************************************************************)
(* The failed-login counter and the lock window of administrators, kept in *)
(* two columns of admin_users that concurrent logins read, change in       *)
(* memory and save, without a lock.                                        *)
(*                                                                         *)
(*   LoginAdminUseCase   LoginRead, LoginVerify, LoginSelect, LoginUpdate, *)
(*                       LoginSession                                      *)
(*                                                                         *)
(* Whether a password is right is a choice of LoginVerify.  The clock only *)
(* moves by Tick; time 0 stands for NULL.                                  *)
(***************************************************************************)
EXTENDS Naturals

CONSTANTS Admins,                  \* rows of admin_users
          Requests,                \* logins the API can serve at one time
          MaxFailedLoginAttempts,  \* 5 in the code
          LockDuration,            \* LOCK_DURATION_MS, in ticks of the clock
          MaxTime,                 \* bound: the clock stops here
          MaxLogins,               \* bound: login requests of a behaviour
          NoAdmin

ASSUME LockAssumption == /\ MaxFailedLoginAttempts \in Nat \ {0}
                         /\ LockDuration \in Nat \ {0}
                         /\ MaxTime \in Nat \ {0}
                         /\ MaxLogins \in Nat
                         /\ NoAdmin \notin Admins

VARIABLES users,     \* table access_management.admin_users
          req,       \* the handler each request is in, and its locals
          now,       \* the clock
          logins,    \* how many logins have arrived
          history    \* what has really happened to each account

vars == <<users, req, now, logins, history>>

-----------------------------------------------------------------------------
(* Rows, requests and the history the properties speak of. *)

Times == 0..(MaxTime + LockDuration)
Null == 0

UserRow == [status : {"ACTIVE", "SUSPENDED"}, failed : 0..MaxLogins, lockedUntil : Times]

NewUser == [status |-> "ACTIVE", failed |-> 0, lockedUntil |-> Null]

PCs == {"idle", "Verify", "Select", "Update", "Session"}

Request == [pc : PCs,
            admin : Admins \cup {NoAdmin},
            user : UserRow,       \* the AdminUser in memory
            base : UserRow,       \* the row as save() selects it again
            valid : BOOLEAN]      \* the password was right

Idle == [pc |-> "idle", admin |-> NoAdmin, user |-> NewUser, base |-> NewUser,
         valid |-> FALSE]

Becomes(r, x) == req' = [req EXCEPT ![r] = x]

Busy(a) == {r \in Requests : req[r].pc # "idle" /\ req[r].admin = a}

\* "wrong" counts the wrong passwords verified, "streak" those since the last
\* right one, "until" is the end of the lock they call for; "disturbed" says
\* that two logins overlapped or that one was cut off before it saved.
History == [wrong : 0..MaxLogins, streak : 0..MaxLogins, until : Times,
            disturbed : BOOLEAN]

NoHistory == [wrong |-> 0, streak |-> 0, until |-> Null, disturbed |-> FALSE]

\* A password was right or wrong; a wrong one under a lock extends nothing.
Presented(h, valid) ==
  IF valid THEN [h EXCEPT !.streak = 0, !.until = Null]
  ELSE IF now < h.until THEN [h EXCEPT !.wrong = h.wrong + 1]
  ELSE [h EXCEPT !.wrong = h.wrong + 1, !.streak = h.streak + 1,
                 !.until = IF h.streak + 1 >= MaxFailedLoginAttempts
                           THEN now + LockDuration ELSE h.until]

-----------------------------------------------------------------------------
(* AdminUser. *)

IsLocked(user) == user.lockedUntil > now

CanAttemptLogin(user) == user.status = "ACTIVE" /\ ~IsLocked(user)

RecordFailedLogin_OneEarly(user) ==
  [user EXCEPT !.failed = @ + 1,
               !.lockedUntil = IF user.failed + 2 >= MaxFailedLoginAttempts
                               THEN now + LockDuration ELSE @]

RecordFailedLogin(user) ==
  [user EXCEPT !.failed = @ + 1,
               !.lockedUntil = IF user.failed + 1 >= MaxFailedLoginAttempts
                               THEN now + LockDuration ELSE @]

RecordSuccessfulLogin_KeepsCount(user) == [user EXCEPT !.lockedUntil = Null]

RecordSuccessfulLogin(user) == [user EXCEPT !.failed = 0, !.lockedUntil = Null]

-----------------------------------------------------------------------------
(* LoginAdminUseCase: POST /auth/login.                                    *)

\* findByEmail, and the gate: an unknown email is an account that may not
\* attempt either, and is refused after a dummy verification.
LoginRead(r, a) ==
  /\ req[r].pc = "idle"
  /\ logins < MaxLogins
  /\ logins' = logins + 1
  /\ IF CanAttemptLogin(users[a])
     THEN Becomes(r, [Idle EXCEPT !.pc = "Verify", !.admin = a, !.user = users[a]])
     ELSE UNCHANGED req
  /\ history' = [history EXCEPT ![a].disturbed = @ \/ Busy(a) # {}]
  /\ UNCHANGED <<users, now>>

\* The password is compared with the hash, and the AdminUser notes the outcome.
LoginVerify(r, valid) ==
  LET a == req[r].admin
  IN /\ req[r].pc = "Verify"
     /\ Becomes(r, [req[r] EXCEPT !.pc = "Select", !.valid = valid,
                                  !.user = IF valid THEN RecordSuccessfulLogin(@)
                                                    ELSE RecordFailedLogin(@)])
     /\ history' = [history EXCEPT ![a] = Presented(history[a], valid)]
     /\ UNCHANGED <<users, now, logins>>

\* users.save: Repository.save selects the row again ...
LoginSelect(r) ==
  /\ req[r].pc = "Select"
  /\ Becomes(r, [req[r] EXCEPT !.pc = "Update", !.base = users[req[r].admin]])
  /\ UNCHANGED <<users, now, logins, history>>

\* ... and writes the columns that differ from that second read.
LoginUpdate(r) ==
  LET x == req[r]
      Differs(column) == x.user[column] # x.base[column]
  IN /\ x.pc = "Update"
     /\ users' = [users EXCEPT ![x.admin] =
          [column \in DOMAIN @ |-> IF Differs(column) THEN x.user[column] ELSE @[column]]]
     /\ Becomes(r, IF x.valid THEN [x EXCEPT !.pc = "Session"] ELSE Idle)
     /\ UNCHANGED <<now, logins, history>>

\* The session is inserted and the tokens are issued: AdminSessions!Login.
LoginSession(r) ==
  /\ req[r].pc = "Session"
  /\ Becomes(r, Idle)
  /\ UNCHANGED <<users, now, logins, history>>

\* The process dies: what the AdminUser noted in memory is lost.
Crash(r) ==
  LET a == req[r].admin
  IN /\ req[r].pc # "idle"
     /\ Becomes(r, Idle)
     /\ history' = [history EXCEPT ![a].disturbed = @ \/ req[r].pc \in {"Select", "Update"}]
     /\ UNCHANGED <<users, now, logins>>

Tick == now < MaxTime /\ now' = now + 1 /\ UNCHANGED <<users, req, logins, history>>

-----------------------------------------------------------------------------

Init == /\ users \in [Admins -> {[NewUser EXCEPT !.status = s] : s \in {"ACTIVE", "SUSPENDED"}}]
        /\ req = [r \in Requests |-> Idle]
        /\ now = 1
        /\ logins = 0
        /\ history = [a \in Admins |-> NoHistory]

Next == \/ \E r \in Requests :
             \/ \E a \in Admins : LoginRead(r, a)
             \/ \E valid \in BOOLEAN : LoginVerify(r, valid)
             \/ LoginSelect(r)
             \/ LoginUpdate(r)
             \/ LoginSession(r)
             \/ Crash(r)
        \/ Tick

Spec == Init /\ [][Next]_vars

-----------------------------------------------------------------------------
(* Properties. *)

TypeOK == /\ users \in [Admins -> UserRow]
          /\ req \in [Requests -> Request]
          /\ now \in 0..MaxTime
          /\ logins \in 0..MaxLogins
          /\ history \in [Admins -> History]

\* However the logins interleave, the counter never exceeds the wrong passwords
\* that were presented, and only MaxFailedLoginAttempts of them lock an account:
\* lost updates can only err to the administrator's side (admin-user.ts:77).
LockedByFailures ==
  \A a \in Admins : /\ users[a].failed <= history[a].wrong
                    /\ users[a].lockedUntil # Null
                         => history[a].wrong >= MaxFailedLoginAttempts

\* As long as no two logins of an account overlap, the row says what the
\* documentation promises: the failures since the last success, and a lock that
\* begins with the one that reaches the limit and is never extended.
CountedExactly ==
  \A a \in Admins : ~history[a].disturbed /\ Busy(a) = {}
                      => /\ users[a].failed = history[a].streak
                         /\ users[a].lockedUntil = history[a].until

=============================================================================
