------------------------------- MODULE Heartbeat -------------------------------
(***************************************************************************)
(* Heartbeats of Installations and the operational health computed of them.*)
(*                                                                         *)
(*   InstallationAuthGuard                Authenticate                     *)
(*   RecordInstallationHeartbeatUseCase   Receive, Write                   *)
(*   GetInstallationHealthUseCase         ViewStatus, ViewSnapshot,        *)
(*                                        ViewAnswer                       *)
(*   ListInstallationsUseCase             ViewList, ViewAnswer             *)
(*                                                                         *)
(* The status and the credential of an Installation change here in one     *)
(* step each; Enrollment is about how they do.                             *)
(***************************************************************************)
EXTENDS InstallationStatus, Naturals, FiniteSets

CONSTANTS Installations,
          Beats,            \* the heartbeats that are sent, each once
          Views,            \* questions for the health of an Installation
          StaleAfter,       \* INSTALLATION_HEARTBEAT_STALE_AFTER_SECONDS, in ticks
          OfflineAfter,     \* INSTALLATION_HEARTBEAT_OFFLINE_AFTER_SECONDS
          MaxTime,          \* bound: the clock stops here
          MaxCredentials,   \* bound: credentials issued to an Installation
          NoBeat

ASSUME ThresholdAssumption == /\ StaleAfter \in Nat \ {0}
                              /\ OfflineAfter \in Nat \ {0}
                              /\ OfflineAfter > StaleAfter
                              /\ MaxTime \in Nat \ {0}
                              /\ MaxCredentials \in Nat
                              /\ NoBeat \notin Beats

VARIABLES installations,   \* status, newest credential, and whether it is revoked
          health,          \* table installations.installation_health
          beats,           \* each heartbeat, from its guard to its answer
          views,           \* each question, and what it has read
          now              \* the clock of the API

vars == <<installations, health, beats, views, now>>

-----------------------------------------------------------------------------
(* Rows and requests.  A heartbeat stands for its own app_version and      *)
(* client_reported_at; time 0 stands for NULL.                             *)

Null == 0

Installation == [status : Statuses, credential : 0..MaxCredentials, revoked : BOOLEAN]

NoRow == [firstSeen |-> Null, lastSeen |-> Null, report |-> NoBeat]

HealthRow == [firstSeen : 0..MaxTime, lastSeen : 0..MaxTime, report : Beats \cup {NoBeat}]

HealthStatuses == {"NEVER_SEEN", "ONLINE", "STALE", "OFFLINE"}

Beat == [pc : {"unsent", "Receive", "Write", "written", "refused", "lost"},
         from : Installations, receivedAt : 0..MaxTime]

View == [pc : {"idle", "Snapshot", "Answer", "answered"},
         of : Installations,
         lifecycle : Statuses,                      \* the status it has read
         lastSeen : 0..MaxTime,                     \* the snapshot it has read
         answer : HealthStatuses,
         at : 0..MaxTime,                           \* when it was answered
         before : SUBSET Beats,                     \* history: written when it began
         after : SUBSET Beats]                      \* history: written when it read

Heard(i) == {b \in Beats : beats[b].pc = "written" /\ beats[b].from = i}

-----------------------------------------------------------------------------
(* What enrollments and administrators do to an Installation.              *)

\* A code is consumed: a new credential, the old one revoked, PENDING ends.
Enroll(i) ==
  /\ installations[i].status # "DECOMMISSIONED"
  /\ installations[i].credential < MaxCredentials
  /\ installations' = [installations EXCEPT ![i] =
       [status |-> IF @.status = "PENDING" THEN "ACTIVE" ELSE @.status,
        credential |-> @.credential + 1, revoked |-> FALSE]]
  /\ UNCHANGED <<health, beats, views, now>>

ChangeStatus(i, to) ==
  /\ <<installations[i].status, to>> \in AdminTransitions
  /\ installations' = [installations EXCEPT ![i].status = to]
  /\ UNCHANGED <<health, beats, views, now>>

Revoke(i) ==
  /\ installations[i].credential > 0 /\ ~installations[i].revoked
  /\ installations' = [installations EXCEPT ![i].revoked = TRUE]
  /\ UNCHANGED <<health, beats, views, now>>

-----------------------------------------------------------------------------
(* POST /installation-health/heartbeat.                                    *)

\* One query joins the credential with its Installation: 401 for a credential
\* that is not the valid one, 403 while the Installation is not ACTIVE.
Verified(i, credential) ==
  /\ credential = installations[i].credential /\ ~installations[i].revoked
  /\ installations[i].status = "ACTIVE"

Authenticate(b, i, credential) ==
  /\ beats[b].pc = "unsent"
  /\ credential \in 1..installations[i].credential
  /\ beats' = [beats EXCEPT ![b].from = i,
                            ![b].pc = IF Verified(i, credential) THEN "Receive" ELSE "refused"]
  /\ UNCHANGED <<installations, health, views, now>>

\* The instant of receipt is the server's clock, read before the write.
Receive(b) ==
  /\ beats[b].pc = "Receive"
  /\ beats' = [beats EXCEPT ![b].pc = "Write", ![b].receivedAt = now]
  /\ UNCHANGED <<installations, health, views, now>>

Upsert_LastWriter(row, b) ==
  [firstSeen |-> IF row = NoRow THEN beats[b].receivedAt ELSE row.firstSeen,
   lastSeen |-> IF beats[b].receivedAt > row.lastSeen THEN beats[b].receivedAt
                                                      ELSE row.lastSeen,
   report |-> b]

\* INSERT ... ON CONFLICT DO UPDATE: the newer receipt wins, as a whole.
Upsert(row, b) ==
  LET at == beats[b].receivedAt
  IN IF row = NoRow THEN [firstSeen |-> at, lastSeen |-> at, report |-> b]
     ELSE IF at >= row.lastSeen THEN [row EXCEPT !.lastSeen = at, !.report = b]
     ELSE row

Write(b) ==
  LET i == beats[b].from
  IN /\ beats[b].pc = "Write"
     /\ health' = [health EXCEPT ![i] = Upsert(@, b)]
     /\ beats' = [beats EXCEPT ![b].pc = "written"]
     /\ UNCHANGED <<installations, views, now>>

\* The process dies under the request.
Lose(b) ==
  /\ beats[b].pc \in {"Receive", "Write"}
  /\ beats' = [beats EXCEPT ![b].pc = "lost"]
  /\ UNCHANGED <<installations, health, views, now>>

-----------------------------------------------------------------------------
(* GET /installations/:id/health and GET /installations.                   *)

ByAge(lastSeen) ==
  LET age == now - lastSeen
  IN IF lastSeen = Null THEN "NEVER_SEEN"
     ELSE IF age < StaleAfter THEN "ONLINE"
     ELSE IF age < OfflineAfter THEN "STALE"
     ELSE "OFFLINE"

computeInstallationHealth_NoOverride(lifecycle, lastSeen) == ByAge(lastSeen)

computeInstallationHealth(lifecycle, lastSeen) ==
  IF lifecycle \in {"SUSPENDED", "DECOMMISSIONED"} THEN "OFFLINE" ELSE ByAge(lastSeen)

ViewStatus(v, i) ==
  /\ views[v].pc = "idle"
  /\ views' = [views EXCEPT ![v].pc = "Snapshot", ![v].of = i, ![v].before = Heard(i),
                            ![v].lifecycle = installations[i].status]
  /\ UNCHANGED <<installations, health, beats, now>>

ViewSnapshot(v) ==
  LET i == views[v].of
  IN /\ views[v].pc = "Snapshot"
     /\ views' = [views EXCEPT ![v].pc = "Answer", ![v].lastSeen = health[i].lastSeen,
                               ![v].after = Heard(i)]
     /\ UNCHANGED <<installations, health, beats, now>>

\* The list reads both columns in one query.
ViewList(v, i) ==
  /\ views[v].pc = "idle"
  /\ views' = [views EXCEPT ![v].pc = "Answer", ![v].of = i,
                            ![v].lifecycle = installations[i].status,
                            ![v].lastSeen = health[i].lastSeen,
                            ![v].before = Heard(i), ![v].after = Heard(i)]
  /\ UNCHANGED <<installations, health, beats, now>>

ViewAnswer(v) ==
  /\ views[v].pc = "Answer"
  /\ views' = [views EXCEPT ![v].pc = "answered", ![v].at = now,
                 ![v].answer = computeInstallationHealth(views[v].lifecycle, views[v].lastSeen)]
  /\ UNCHANGED <<installations, health, beats, now>>

Tick == now < MaxTime /\ now' = now + 1 /\ UNCHANGED <<installations, health, beats, views>>

-----------------------------------------------------------------------------

Init == /\ installations = [i \in Installations |->
                              [status |-> "PENDING", credential |-> 0, revoked |-> FALSE]]
        /\ health = [i \in Installations |-> NoRow]
        /\ \E i \in Installations :
             /\ beats = [b \in Beats |-> [pc |-> "unsent", from |-> i, receivedAt |-> Null]]
             /\ views = [v \in Views |->
                  [pc |-> "idle", of |-> i, lifecycle |-> "PENDING", lastSeen |-> Null,
                   answer |-> "NEVER_SEEN", at |-> Null, before |-> {}, after |-> {}]]
        /\ now = 1

Next == \/ \E i \in Installations : \/ Enroll(i)
                                    \/ \E to \in Statuses : ChangeStatus(i, to)
                                    \/ Revoke(i)
        \/ \E b \in Beats : \/ \E i \in Installations, c \in 1..MaxCredentials :
                                 Authenticate(b, i, c)
                            \/ Receive(b) \/ Write(b) \/ Lose(b)
        \/ \E v \in Views : \/ \E i \in Installations : ViewStatus(v, i) \/ ViewList(v, i)
                            \/ ViewSnapshot(v) \/ ViewAnswer(v)
        \/ Tick

Spec == Init /\ [][Next]_vars

-----------------------------------------------------------------------------
(* Properties. *)

TypeOK == /\ installations \in [Installations -> Installation]
          /\ health \in [Installations -> HealthRow]
          /\ beats \in [Beats -> Beat]
          /\ views \in [Views -> View]
          /\ now \in 1..MaxTime

\* In whatever order the writes happen, the row of an Installation is, as a
\* whole, its heartbeat with the latest instant of receipt, and it has a row as
\* soon as one was written (typeorm-installation-health.repository.ts).
LatestWins ==
  \A i \in Installations :
    IF Heard(i) = {} THEN health[i] = NoRow
    ELSE LET b == health[i].report
         IN /\ b \in Heard(i)
            /\ health[i].lastSeen = beats[b].receivedAt
            /\ \A c \in Heard(i) : beats[c].receivedAt <= health[i].lastSeen
            /\ \E c \in Heard(i) : beats[c].receivedAt = health[i].firstSeen

\* Although a question reads the status, the snapshot and the clock one after
\* the other, ONLINE is never answered without a heartbeat younger than the
\* threshold, nor withheld from an ACTIVE Installation that had sent one by then;
\* NEVER_SEEN only if none was written when the question came; and a status that
\* is not operative is OFFLINE however fresh its last heartbeat.
AnswerVouched ==
  \A v \in Views :
    LET x == views[v]
        Fresh(b) == x.at - beats[b].receivedAt < StaleAfter
    IN x.pc = "answered" =>
         /\ x.answer = "ONLINE" => \E b \in x.after : Fresh(b)
         /\ x.lifecycle = "ACTIVE" /\ (\E b \in x.before : Fresh(b)) => x.answer = "ONLINE"
         /\ x.answer = "NEVER_SEEN" => x.before = {}
         /\ x.lifecycle \in {"SUSPENDED", "DECOMMISSIONED"} => x.answer = "OFFLINE"

=============================================================================
