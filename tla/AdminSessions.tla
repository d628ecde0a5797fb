---------------------------- MODULE AdminSessions ----------------------------
(***************************************************************************)
(* The refresh sessions of administrators: rotation, replay detection and  *)
(* logout, run by concurrent HTTP requests over PostgreSQL in READ         *)
(* COMMITTED isolation.                                                    *)
(*                                                                         *)
(*   LoginAdminUseCase           Login (its last write, the session row)   *)
(*   RefreshAdminSessionUseCase  RefreshRequest .. RefreshCommit, and on a *)
(*                               replay RevokeAllScan .. RevokeAllCommit   *)
(*   LogoutAdminUseCase          LogoutFind .. LogoutUpdate                *)
(*                                                                         *)
(* Rows hold what is COMMITTED; a row lock belongs to the request whose    *)
(* transaction took it.  A session's refresh token is its id and a secret: *)
(* "genuine" says that the secret presented is the one that was handed     *)
(* out.  Sessions are numbered in the order their rows were inserted, the  *)
(* order an UPDATE of many rows visits them in.                            *)
(***************************************************************************)
EXTENDS Naturals, FiniteSets

CONSTANTS MaxSession,   \* rows the table may come to have
          Users,        \* administrators
          Requests,     \* HTTP requests the API can serve at one time
          NoUser, NoOne

ASSUME MaxSessionAssumption == MaxSession \in Nat

ASSUME NobodyAssumption == NoUser \notin Users /\ NoOne \notin Requests

VARIABLES sessions,   \* table access_management.admin_sessions
          lock,       \* the request that holds the row lock, or NoOne
          req         \* the handler each request is in, and its locals

vars == <<sessions, lock, req>>

-----------------------------------------------------------------------------
(* Rows and requests. *)

Sessions == 1..MaxSession
NoSession == 0

\* "parent" is the session this one was rotated from: the table keeps the
\* inverse, replaced_by_session_id ("replaced"), the properties need both.
SessionRow == [user : Users \cup {NoUser}, revoked : BOOLEAN, expired : BOOLEAN,
               replaced : Sessions \cup {NoSession},
               parent : Sessions \cup {NoSession}]

UnusedSession == [user |-> NoUser, revoked |-> FALSE, expired |-> FALSE,
                  replaced |-> NoSession, parent |-> NoSession]

NewSession_Swapped(u, parent) == [UnusedSession EXCEPT !.user = parent, !.parent = u]

\* AdminSession.create
NewSession(u, parent) == [UnusedSession EXCEPT !.user = u, !.parent = parent]

Exists(s) == sessions[s].user # NoUser

\* The row an INSERT would make: no row is ever deleted.
FreshRow(s) == ~Exists(s) /\ \A t \in 1..(s - 1) : Exists(t)

Active(s) == Exists(s) /\ ~sessions[s].revoked

PCs == {"idle", "RefreshLock", "RefreshCommit", "RevokeAllScan", "RevokeAllLock",
        "Replayed", "LogoutSelect", "LogoutUpdate"}

Request == [pc : PCs,
            session : Sessions \cup {NoSession},
            genuine : BOOLEAN,
            seen : SUBSET Sessions,             \* the snapshot of the UPDATE
            todo : SUBSET Sessions,             \* the rows it has yet to visit
            base : Sessions \cup {NoSession}]   \* "replaced" as save() selects it

Idle == [pc |-> "idle", session |-> NoSession, genuine |-> FALSE,
         seen |-> {}, todo |-> {}, base |-> NoSession]

Becomes(r, x) == req' = [req EXCEPT ![r] = x]

Free(s, r) == lock[s] \in {NoOne, r}

Acquire(s, r) == Free(s, r) /\ lock' = [lock EXCEPT ![s] = r]

Released(r) == [s \in Sessions |-> IF lock[s] = r THEN NoOne ELSE lock[s]]

Rollback_KeepsLocks(r) == Becomes(r, Idle) /\ UNCHANGED <<sessions, lock>>

\* The use case throws inside the transaction: nothing it wrote is kept.
Rollback(r) == /\ lock' = Released(r)
               /\ Becomes(r, Idle)
               /\ UNCHANGED sessions

-----------------------------------------------------------------------------
(* LoginAdminUseCase: the session is inserted by a statement of its own.   *)

Login(u, s) ==
  /\ FreshRow(s)
  /\ sessions' = [sessions EXCEPT ![s] = NewSession(u, NoSession)]
  /\ UNCHANGED <<lock, req>>

-----------------------------------------------------------------------------
(* RefreshAdminSessionUseCase: POST /auth/refresh.                         *)

RefreshRequest(r, s, genuine) ==
  /\ req[r].pc = "idle"
  /\ Exists(s)
  /\ Becomes(r, [Idle EXCEPT !.pc = "RefreshLock", !.session = s, !.genuine = genuine])
  /\ UNCHANGED <<sessions, lock>>

RefreshLock_PlainRead(r) ==
  LET s == req[r].session
  IN /\ req[r].pc = "RefreshLock"
     /\ IF ~req[r].genuine \/ (~sessions[s].revoked /\ sessions[s].expired)
        THEN Becomes(r, Idle)
        ELSE Becomes(r, [req[r] EXCEPT !.pc = IF sessions[s].revoked
                                              THEN "RevokeAllScan"
                                              ELSE "RefreshCommit"])
     /\ UNCHANGED <<sessions, lock>>

RefreshLock_SecretLast(r) ==
  LET s == req[r].session
  IN /\ req[r].pc = "RefreshLock"
     /\ Free(s, r)
     /\ \/ /\ ~sessions[s].revoked
           /\ ~req[r].genuine \/ sessions[s].expired
           /\ Rollback(r)
        \/ /\ sessions[s].revoked
           /\ Acquire(s, r)
           /\ Becomes(r, [req[r] EXCEPT !.pc = "RevokeAllScan"])
           /\ UNCHANGED sessions
        \/ /\ req[r].genuine /\ ~sessions[s].revoked /\ ~sessions[s].expired
           /\ Acquire(s, r)
           /\ Becomes(r, [req[r] EXCEPT !.pc = "RefreshCommit"])
           /\ UNCHANGED sessions

\* findByIdForUpdate, then the secret, then the replay, then the expiry.
RefreshLock(r) ==
  LET s == req[r].session
  IN /\ req[r].pc = "RefreshLock"
     /\ Free(s, r)
     /\ \/ /\ ~req[r].genuine
           /\ Rollback(r)
        \/ /\ req[r].genuine /\ sessions[s].revoked
           /\ Acquire(s, r)
           /\ Becomes(r, [req[r] EXCEPT !.pc = "RevokeAllScan"])
           /\ UNCHANGED sessions
        \/ /\ req[r].genuine /\ ~sessions[s].revoked /\ sessions[s].expired
           /\ Rollback(r)
        \/ /\ req[r].genuine /\ ~sessions[s].revoked /\ ~sessions[s].expired
           /\ Acquire(s, r)
           /\ Becomes(r, [req[r] EXCEPT !.pc = "RefreshCommit"])
           /\ UNCHANGED sessions

\* The successor inserted, the old session revoked and pointing to it.
Rotated(s, new) ==
  [sessions EXCEPT ![s].revoked = TRUE, ![s].replaced = new,
                   ![new] = NewSession(sessions[s].user, s)]

\* Both become visible in one commit.  A full table, which only the bound
\* MaxSession makes, refuses the insert.
RefreshCommit(r) ==
  /\ req[r].pc = "RefreshCommit"
  /\ \/ /\ \E new \in Sessions :
             FreshRow(new) /\ sessions' = Rotated(req[r].session, new)
        /\ lock' = Released(r)
        /\ Becomes(r, Idle)
     \/ (\A s \in Sessions : Exists(s)) /\ Rollback(r)

Matching_AllUsers(u) == {s \in Sessions : Active(s)}

\* The WHERE clause of revokeAllActiveForUser.
Matching(u) == {s \in Sessions : Active(s) /\ sessions[s].user = u}

\* The UPDATE sees the rows that are committed when it starts.
RevokeAllScan(r) ==
  LET rows == Matching(sessions[req[r].session].user)
  IN /\ req[r].pc = "RevokeAllScan"
     /\ Becomes(r, [req[r] EXCEPT !.pc = "RevokeAllLock", !.seen = rows, !.todo = rows])
     /\ UNCHANGED <<sessions, lock>>

FirstOf(S) == CHOOSE s \in S : \A t \in S : s <= t

\* It locks them in turn, waiting where it must, and skips a row that another
\* transaction has revoked since.
RevokeAllLock(r) ==
  LET s == FirstOf(req[r].todo)
  IN /\ req[r].pc = "RevokeAllLock"
     /\ req[r].todo # {}
     /\ Free(s, r)
     /\ \/ Active(s) /\ Acquire(s, r)
        \/ ~Active(s) /\ UNCHANGED lock
     /\ Becomes(r, [req[r] EXCEPT !.todo = @ \ {s}])
     /\ UNCHANGED sessions

RevokeAllCommit_Throws(r) ==
  /\ req[r].pc = "RevokeAllLock"
  /\ req[r].todo = {}
  /\ lock' = Released(r)
  /\ Becomes(r, [Idle EXCEPT !.pc = "Replayed", !.session = req[r].session])
  /\ UNCHANGED sessions

\* The callback returns "replayDetected" instead of throwing: this commits.
RevokeAllCommit(r) ==
  /\ req[r].pc = "RevokeAllLock"
  /\ req[r].todo = {}
  /\ sessions' = [s \in Sessions |-> IF lock[s] = r
                                     THEN [sessions[s] EXCEPT !.revoked = TRUE]
                                     ELSE sessions[s]]
  /\ lock' = Released(r)
  /\ Becomes(r, [Idle EXCEPT !.pc = "Replayed", !.session = req[r].session])

\* InvalidRefreshTokenError, thrown once the transaction has committed.
Reject(r) ==
  /\ req[r].pc = "Replayed"
  /\ Becomes(r, Idle)
  /\ UNCHANGED <<sessions, lock>>

-----------------------------------------------------------------------------
(* LogoutAdminUseCase: POST /auth/logout; no transaction, no lock.         *)

\* findById; a revoked session is left alone.
LogoutFind(r, s) ==
  /\ req[r].pc = "idle"
  /\ Active(s)
  /\ Becomes(r, [Idle EXCEPT !.pc = "LogoutSelect", !.session = s])
  /\ UNCHANGED <<sessions, lock>>

\* save() selects the row it will diff the domain object against.
LogoutSelect(r) ==
  /\ req[r].pc = "LogoutSelect"
  /\ Becomes(r, [req[r] EXCEPT !.pc = "LogoutUpdate",
                               !.base = sessions[req[r].session].replaced])
  /\ UNCHANGED <<sessions, lock>>

\* The object read says "not replaced": a successor selected since is erased.
LogoutUpdate(r) ==
  LET s == req[r].session
  IN /\ req[r].pc = "LogoutUpdate"
     /\ Free(s, r)
     /\ sessions' = [sessions EXCEPT
                       ![s].revoked = TRUE,
                       ![s].replaced = IF req[r].base # NoSession THEN NoSession ELSE @]
     /\ Becomes(r, Idle)
     /\ UNCHANGED lock

-----------------------------------------------------------------------------
(* What surrounds the handlers.                                            *)

\* The process or its connection dies, or the access token cannot be signed.
Crash(r) == req[r].pc # "idle" /\ Rollback(r)

\* The clock passes expiresAt.  Nothing asks whether a revoked session has
\* expired: the replay is detected first.
Expire(s) == /\ Active(s) /\ ~sessions[s].expired
             /\ sessions' = [sessions EXCEPT ![s].expired = TRUE]
             /\ UNCHANGED <<lock, req>>

\* The row whose lock the next step of request r needs.
Wants(r) ==
  CASE req[r].pc \in {"RefreshLock", "LogoutUpdate"} -> {req[r].session}
    [] req[r].pc = "RevokeAllLock" /\ req[r].todo # {} -> {FirstOf(req[r].todo)}
    [] OTHER -> {}

WaitsFor(r, q) == \E s \in Wants(r) : lock[s] = q /\ q # r

Stuck(S) == S # {} /\ \A r \in S : \E q \in S : WaitsFor(r, q)

\* PostgreSQL aborts one of the transactions that wait in a circle.
DeadlockAbort(r) ==
  /\ \E S \in SUBSET Requests :
       r \in S /\ Stuck(S) /\ \A T \in SUBSET S : Stuck(T) => T = S
  /\ Rollback(r)

Init == /\ sessions = [s \in Sessions |-> UnusedSession]
        /\ lock = [s \in Sessions |-> NoOne]
        /\ req = [r \in Requests |-> Idle]

Arrive(r) == \E s \in Sessions :
               \/ \E genuine \in BOOLEAN : RefreshRequest(r, s, genuine)
               \/ LogoutFind(r, s)

\* Steps that may wait for a row lock.
Wait(r) == RefreshLock(r) \/ RevokeAllLock(r) \/ LogoutUpdate(r)

Continue(r) == \/ RefreshCommit(r) \/ RevokeAllScan(r) \/ RevokeAllCommit(r)
               \/ Reject(r) \/ LogoutSelect(r) \/ DeadlockAbort(r)

Next == \/ \E r \in Requests : Arrive(r) \/ Wait(r) \/ Continue(r) \/ Crash(r)
        \/ \E s \in Sessions : Expire(s) \/ \E u \in Users : Login(u, s)

Spec == Init /\ [][Next]_vars

\* A handler that does not wait goes on, a row lock is granted in the order it
\* was asked for, and the deadlock detector does its work.
Fairness == \A r \in Requests : WF_vars(Continue(r)) /\ SF_vars(Wait(r))

FairSpec == Spec /\ Fairness

-----------------------------------------------------------------------------
(* Properties.                                                             *)

TypeOK == /\ sessions \in [Sessions -> SessionRow]
          /\ lock \in [Sessions -> Requests \cup {NoOne}]
          /\ req \in [Requests -> Request]

\* A refresh token is exchanged for one successor at most, however many
\* requests present it at the same time, and always for the same administrator.
OneSuccessor ==
  \A s, t \in Sessions :
    Exists(s) /\ Exists(t) /\ sessions[s].parent # NoSession
      => /\ sessions[s].parent = sessions[t].parent => s = t
         /\ sessions[sessions[s].parent].user = sessions[s].user

\* A token that has been exchanged is dead, whoever saves its session later: a
\* login has at most one live token.
ExchangedIsDead ==
  \A s \in Sessions : Exists(s) /\ sessions[s].parent # NoSession
                        => ~Active(sessions[s].parent)

\* Whatever is rotated, replayed or saved late, a login has one live token at
\* most, the last of a chain without branches.
OneLiveToken == OneSuccessor /\ ExchangedIsDead

\* A session ends by its own rotation or logout, or because somebody proved to
\* hold the secret of an ended session of the same administrator: a session id
\* alone never ends the other sessions.
EndsForCause ==
  [][\A s \in Sessions :
       Active(s) /\ ~Active(s)' =>
         \E r \in Requests :
           \/ req[r].session = s /\ req[r].pc \in {"RefreshCommit", "LogoutUpdate"}
           \/ /\ req[r].pc = "RevokeAllLock" /\ req[r].genuine
              /\ sessions[req[r].session].revoked
              /\ sessions[req[r].session].user = sessions[s].user]_vars

\* The mass revocation survives the 401 that answers a replay: every session
\* the UPDATE saw active has ended when the request is rejected.
ReplayEndsSeen ==
  [][\A r \in Requests :
       req'[r].pc = "Replayed" /\ req[r].pc # "Replayed"
         => \A s \in req[r].seen : ~Active(s)']_vars

\* Every request is answered, even when transactions wait in a circle.
Answered == \A r \in Requests : req[r].pc # "idle" ~> req[r].pc = "idle"

\* Seen from the outside, tokens are opened, exchanged one for one, and ended
\* for good.
Contract == INSTANCE AdminSessionContract WITH
  Tokens <- Sessions, NoToken <- NoSession,
  live <- {s \in Sessions : Active(s)},
  owner <- [s \in Sessions |-> sessions[s].user],
  from <- [s \in Sessions |-> sessions[s].parent]

\* The handlers, interleaved and crashing, implement that contract.
ImplementsContract == Contract!Spec

\* What the use case and the documentation say of a replay: every other active
\* session of that administrator is revoked.  Said here of the sessions that
\* were active when the UPDATE started, and of what they were exchanged for
\* while it waited; a login meanwhile is another matter.
ReplayEndsAll ==
  [][\A r \in Requests :
       req'[r].pc = "Replayed" /\ req[r].pc # "Replayed"
         => \A s \in Sessions :
              s \in req[r].seen \/ sessions[s].parent \in req[r].seen
                => ~Active(s)']_vars

=============================================================================
