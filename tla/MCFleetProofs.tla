--------------------------- MODULE MCFleetProofs ---------------------------
(***************************************************************************)
(* Theorems about Heartbeat, for every set of Installations, heartbeats    *)
(* and questions, and every pair of thresholds; about ConnectionPool, for  *)
(* any number of requests and connections; and those of CustomersProofs,   *)
(* carried over to the composition.                                        *)
(***************************************************************************)
EXTENDS MCFleet, FiniteSetTheorems, SequenceTheorems, TLAPS

USE ThresholdAssumption

(* Types. *)

LEMMA BeatFields ==
  ASSUME TypeOK, NEW b \in Beats
  PROVE  /\ beats[b].from \in Installations
         /\ beats[b].receivedAt \in 0..MaxTime
  BY DEF TypeOK, Beat

LEMMA UpsertType ==
  ASSUME TypeOK, NEW b \in Beats, NEW row \in HealthRow
  PROVE  Upsert(row, b) \in HealthRow
  BY BeatFields DEF Upsert, HealthRow

LEMMA AnswerType ==
  ASSUME NEW lifecycle, NEW lastSeen
  PROVE  computeInstallationHealth(lifecycle, lastSeen) \in HealthStatuses
  BY DEF computeInstallationHealth, ByAge, HealthStatuses

LEMMA HeardBeats == \A i : Heard(i) \subseteq Beats
  BY DEF Heard

LEMMA ViewStepType ==
  ASSUME TypeOK, NEW v \in Views, NEW x \in View, views' = [views EXCEPT ![v] = x],
         UNCHANGED <<installations, health, beats, now>>
  PROVE  TypeOK'
  BY DEF TypeOK

LEMMA BeatStepType ==
  ASSUME TypeOK, NEW b \in Beats, NEW x \in Beat, beats' = [beats EXCEPT ![b] = x],
         UNCHANGED <<installations, health, views, now>>
  PROVE  TypeOK'
  BY DEF TypeOK

LEMMA InitType == Init => TypeOK
<1> SUFFICES ASSUME Init PROVE TypeOK
  OBVIOUS
<1>1. NoRow \in HealthRow
  BY DEF NoRow, HealthRow, Null
<1>2. [status |-> "PENDING", credential |-> 0, revoked |-> FALSE] \in Installation
  BY DEF Installation, Statuses
<1>3. \A i \in Installations :
        [pc |-> "unsent", from |-> i, receivedAt |-> Null] \in Beat
  BY DEF Beat, Null
<1>4. \A i \in Installations :
        [pc |-> "idle", of |-> i, lifecycle |-> "PENDING", lastSeen |-> Null,
         answer |-> "NEVER_SEEN", at |-> Null, before |-> {}, after |-> {}] \in View
  BY DEF View, Null, HealthStatuses, Statuses
<1>5. beats \in [Beats -> Beat] /\ views \in [Views -> View]
  <2>1. PICK i \in Installations :
          /\ beats = [b \in Beats |-> [pc |-> "unsent", from |-> i, receivedAt |-> Null]]
          /\ views = [v \in Views |->
               [pc |-> "idle", of |-> i, lifecycle |-> "PENDING", lastSeen |-> Null,
                answer |-> "NEVER_SEEN", at |-> Null, before |-> {}, after |-> {}]]
    BY DEF Init
  <2> QED
    BY <1>3, <1>4, <2>1
<1> QED
  <2>1. health \in [Installations -> HealthRow]
    BY <1>1 DEF Init
  <2>2. installations \in [Installations -> Installation]
    BY <1>2 DEF Init
  <2>3. now \in 1..MaxTime
    BY DEF Init
  <2> QED
    BY <1>5, <2>1, <2>2, <2>3 DEF TypeOK

LEMMA NextType == TypeOK /\ [Next]_vars => TypeOK'
<1> SUFFICES ASSUME TypeOK, [Next]_vars PROVE TypeOK'
  OBVIOUS
<1> USE DEF TypeOK
<1>1. ASSUME NEW i \in Installations, Enroll(i)
      PROVE  TypeOK'
  <2> DEFINE s == IF installations[i].status = "PENDING" THEN "ACTIVE"
                                                         ELSE installations[i].status
             row == [status |-> s, credential |-> installations[i].credential + 1,
                     revoked |-> FALSE]
  <2>1. s \in Statuses /\ installations[i].credential + 1 \in 0..MaxCredentials
    BY <1>1 DEF Enroll, Installation, Statuses
  <2>2. installations' = [installations EXCEPT ![i] = row]
    BY <1>1 DEF Enroll
  <2> HIDE DEF s
  <2>3. row \in Installation
    BY <2>1 DEF Installation
  <2> HIDE DEF row
  <2> QED
    BY <1>1, <2>2, <2>3 DEF Enroll
<1>2. ASSUME NEW i \in Installations, NEW to \in Statuses, ChangeStatus(i, to)
      PROVE  TypeOK'
  BY <1>2 DEF ChangeStatus, Installation
<1>3. ASSUME NEW i \in Installations, Revoke(i)
      PROVE  TypeOK'
  BY <1>3 DEF Revoke, Installation
<1>4. ASSUME NEW b \in Beats, NEW i \in Installations, NEW c \in 1..MaxCredentials,
             Authenticate(b, i, c)
      PROVE  TypeOK'
  <2> DEFINE p == IF Verified(i, c) THEN "Receive" ELSE "refused"
  <2>1. beats' = [beats EXCEPT ![b].from = i, ![b].pc = p]
    BY <1>4 DEF Authenticate
  <2>2. p \in {"Receive", "refused"}
    OBVIOUS
  <2> HIDE DEF p
  <2>3. beats' \in [Beats -> Beat]
    BY <2>1, <2>2 DEF Beat
  <2> QED
    BY <1>4, <2>3 DEF Authenticate
<1>5. ASSUME NEW b \in Beats, Receive(b)
      PROVE  TypeOK'
  <2> DEFINE x == [beats[b] EXCEPT !.pc = "Write", !.receivedAt = now]
  <2>1. now \in 0..MaxTime /\ beats[b] \in Beat
    OBVIOUS
  <2>2. x \in Beat
    BY <2>1 DEF Beat
  <2>3. beats' = [beats EXCEPT ![b] = x] /\ UNCHANGED <<installations, health, views, now>>
    BY <1>5 DEF Receive
  <2> HIDE DEF x
  <2> QED
    BY <2>2, <2>3, BeatStepType
<1>6. ASSUME NEW b \in Beats, Write(b)
      PROVE  TypeOK'
  <2>1. beats' \in [Beats -> Beat]
    BY <1>6 DEF Write, Beat
  <2>2. Upsert(health[beats[b].from], b) \in HealthRow
    BY BeatFields, UpsertType
  <2>3. health' = [health EXCEPT ![beats[b].from] = Upsert(health[beats[b].from], b)]
    BY <1>6 DEF Write
  <2> QED
    BY <1>6, <2>1, <2>2, <2>3 DEF Write
<1>7. ASSUME NEW b \in Beats, Lose(b)
      PROVE  TypeOK'
  BY <1>7 DEF Lose, Beat
<1>8. ASSUME NEW v \in Views, NEW i \in Installations, ViewStatus(v, i)
      PROVE  TypeOK'
  <2> DEFINE x == [views[v] EXCEPT !.pc = "Snapshot", !.of = i, !.before = Heard(i),
                                   !.lifecycle = installations[i].status]
  <2>1. installations[i].status \in Statuses /\ Heard(i) \in SUBSET Beats
    BY HeardBeats DEF Installation
  <2>2. x \in View
    BY <2>1 DEF View
  <2>3. views' = [views EXCEPT ![v] = x]
    BY <1>8 DEF ViewStatus
  <2>5. UNCHANGED <<installations, health, beats, now>>
    BY <1>8 DEF ViewStatus
  <2> HIDE DEF x
  <2> QED
    BY <2>2, <2>3, <2>5, ViewStepType
<1>9. ASSUME NEW v \in Views, NEW i \in Installations, ViewList(v, i)
      PROVE  TypeOK'
  <2> DEFINE x == [views[v] EXCEPT !.pc = "Answer", !.of = i,
                                   !.lifecycle = installations[i].status,
                                   !.lastSeen = health[i].lastSeen,
                                   !.before = Heard(i), !.after = Heard(i)]
  <2>1. /\ installations[i].status \in Statuses /\ health[i].lastSeen \in 0..MaxTime
        /\ Heard(i) \in SUBSET Beats
    BY HeardBeats DEF Installation, HealthRow
  <2>2. x \in View
    BY <2>1 DEF View
  <2>3. views' = [views EXCEPT ![v] = x]
    BY <1>9 DEF ViewList
  <2>5. UNCHANGED <<installations, health, beats, now>>
    BY <1>9 DEF ViewList
  <2> HIDE DEF x
  <2> QED
    BY <2>2, <2>3, <2>5, ViewStepType
<1>10. ASSUME NEW v \in Views, ViewSnapshot(v)
       PROVE  TypeOK'
  <2> DEFINE i == views[v].of
             x == [views[v] EXCEPT !.pc = "Answer", !.lastSeen = health[i].lastSeen,
                                   !.after = Heard(i)]
  <2>1. i \in Installations
    BY DEF View
  <2>2. health[i].lastSeen \in 0..MaxTime /\ Heard(i) \in SUBSET Beats
    BY <2>1, HeardBeats DEF HealthRow
  <2>3. x \in View
    BY <2>2 DEF View
  <2>4. views' = [views EXCEPT ![v] = x]
    BY <1>10 DEF ViewSnapshot
  <2>5. UNCHANGED <<installations, health, beats, now>>
    BY <1>10 DEF ViewSnapshot
  <2> HIDE DEF x
  <2> QED
    BY <2>3, <2>4, <2>5, ViewStepType
<1>11. ASSUME NEW v \in Views, ViewAnswer(v)
       PROVE  TypeOK'
  <2> DEFINE h == computeInstallationHealth(views[v].lifecycle, views[v].lastSeen)
  <2>1. h \in HealthStatuses
    BY AnswerType
  <2> DEFINE x == [views[v] EXCEPT !.pc = "answered", !.at = now, !.answer = h]
  <2>2. views' = [views EXCEPT ![v] = x]
    BY <1>11 DEF ViewAnswer
  <2>5. UNCHANGED <<installations, health, beats, now>>
    BY <1>11 DEF ViewAnswer
  <2>6. now \in 0..MaxTime /\ views[v] \in View
    OBVIOUS
  <2> HIDE DEF h
  <2>3. x \in View
    BY <2>1, <2>6 DEF View
  <2> HIDE DEF x
  <2> QED
    BY <2>2, <2>3, <2>5, ViewStepType
<1>12. CASE Tick
  BY <1>12 DEF Tick
<1>13. CASE UNCHANGED vars
  BY <1>13 DEF vars
<1> QED
  BY <1>1, <1>2, <1>3, <1>4, <1>5, <1>6, <1>7, <1>8, <1>9, <1>10, <1>11, <1>12, <1>13
  DEF Next

(***************************************************************************)
(* Rows of installations, installation_health, heartbeats and questions    *)
(* keep their types, the clock its bounds.                                 *)
(***************************************************************************)
THEOREM HeartbeatTypes == Spec => []TypeOK
  BY InitType, NextType, PTL DEF Spec

(***************************************************************************)
(* LatestWins is almost inductive: it also takes that an instant of        *)
(* receipt is never the NULL that tells a row from none.                   *)
(***************************************************************************)

Written == {b \in Beats : beats[b].pc = "written"}

Stamped == \A b \in Beats : beats[b].pc \in {"Write", "written"} => beats[b].receivedAt >= 1

\* LatestWins of one row and the heartbeats heard of its Installation.
Latest(row, heard) ==
  IF heard = {} THEN row = NoRow
  ELSE /\ row.report \in heard
       /\ row.lastSeen = beats[row.report].receivedAt
       /\ \A c \in heard : beats[c].receivedAt <= row.lastSeen
       /\ \E c \in heard : beats[c].receivedAt = row.firstSeen

LInv == TypeOK /\ Stamped /\ LatestWins

\* The steps of a heartbeat; all others leave heartbeats and rows alone.
LEMMA BeatSteps ==
  [Next]_vars =>
    \/ \E b \in Beats, i \in Installations, k \in 1..MaxCredentials : Authenticate(b, i, k)
    \/ \E b \in Beats : Receive(b) \/ Write(b) \/ Lose(b)
    \/ UNCHANGED <<beats, health>>
<1>1. ASSUME NEW i \in Installations,
             Enroll(i) \/ (\E to \in Statuses : ChangeStatus(i, to)) \/ Revoke(i)
      PROVE  UNCHANGED <<beats, health>>
  BY <1>1 DEF Enroll, ChangeStatus, Revoke
<1>2. ASSUME NEW v \in Views, NEW i \in Installations, ViewStatus(v, i) \/ ViewList(v, i)
      PROVE  UNCHANGED <<beats, health>>
  BY <1>2 DEF ViewStatus, ViewList
<1>3. ASSUME NEW v \in Views, ViewSnapshot(v) \/ ViewAnswer(v)
      PROVE  UNCHANGED <<beats, health>>
  BY <1>3 DEF ViewSnapshot, ViewAnswer
<1>4. Tick \/ UNCHANGED vars => UNCHANGED <<beats, health>>
  BY DEF Tick, vars
<1> QED
  BY <1>1, <1>2, <1>3, <1>4 DEF Next

\* A heartbeat that was written stays as it is.
LEMMA WrittenFrozen ==
  ASSUME TypeOK, [Next]_vars, NEW b \in Written
  PROVE  beats'[b] = beats[b] /\ b \in Written'
<1>1. b \in Beats /\ beats[b].pc = "written"
  BY DEF Written
<1>2. ASSUME NEW c \in Beats, NEW i \in Installations, NEW k \in 1..MaxCredentials,
             Authenticate(c, i, k)
      PROVE  beats'[b] = beats[b]
  BY <1>1, <1>2 DEF Authenticate, TypeOK
<1>3. ASSUME NEW c \in Beats, Receive(c) \/ Write(c) \/ Lose(c)
      PROVE  beats'[b] = beats[b]
  BY <1>1, <1>3 DEF Receive, Write, Lose, TypeOK
<1>5. beats'[b] = beats[b]
  BY <1>2, <1>3, BeatSteps
<1>6. beats' \in [Beats -> Beat]
  BY NextType DEF TypeOK
<1> QED
  BY <1>1, <1>5 DEF Written

\* Only Write adds to what was heard, and to what was stored.
LEMMA HeardOrWrite ==
  ASSUME TypeOK, Stamped, [Next]_vars
  PROVE  /\ Stamped'
         /\ \/ health' = health /\ \A i \in Installations : Heard(i)' = Heard(i)
            \/ \E b \in Beats :
                 /\ Write(b)
                 /\ beats'[b].receivedAt = beats[b].receivedAt
                 /\ \A i \in Installations :
                      Heard(i)' = IF i = beats[b].from THEN Heard(i) \cup {b} ELSE Heard(i)
<1>1. ASSUME NEW b \in Beats, NEW i \in Installations, NEW k \in 1..MaxCredentials,
             Authenticate(b, i, k)
      PROVE  Stamped' /\ health' = health /\ \A j \in Installations : Heard(j)' = Heard(j)
  <2>1. /\ beats[b].pc = "unsent" /\ beats'[b].pc \in {"Receive", "refused"}
        /\ \A c \in Beats \ {b} : beats'[c] = beats[c]
    BY <1>1 DEF Authenticate, TypeOK, Beat
  <2> QED
    BY <1>1, <2>1 DEF Authenticate, Stamped, Heard
<1>2. ASSUME NEW b \in Beats, Receive(b)
      PROVE  Stamped' /\ health' = health /\ \A j \in Installations : Heard(j)' = Heard(j)
  <2>1. /\ beats[b].pc = "Receive" /\ beats'[b].pc = "Write" /\ beats'[b].receivedAt = now
        /\ \A c \in Beats \ {b} : beats'[c] = beats[c]
    BY <1>2 DEF Receive, TypeOK, Beat
  <2>2. now >= 1
    BY DEF TypeOK
  <2> QED
    BY <1>2, <2>1, <2>2 DEF Receive, Stamped, Heard
<1>3. ASSUME NEW b \in Beats, Lose(b)
      PROVE  Stamped' /\ health' = health /\ \A j \in Installations : Heard(j)' = Heard(j)
  <2>1. /\ beats[b].pc \in {"Receive", "Write"} /\ beats'[b].pc = "lost"
        /\ \A c \in Beats \ {b} : beats'[c] = beats[c]
    BY <1>3 DEF Lose, TypeOK, Beat
  <2> QED
    BY <1>3, <2>1 DEF Lose, Stamped, Heard
<1>4. ASSUME NEW b \in Beats, Write(b)
      PROVE  /\ Stamped' /\ beats'[b].receivedAt = beats[b].receivedAt
             /\ \A i \in Installations :
                  Heard(i)' = IF i = beats[b].from THEN Heard(i) \cup {b} ELSE Heard(i)
  <2>1. /\ beats[b].pc = "Write" /\ beats'[b].pc = "written"
        /\ beats'[b].from = beats[b].from
        /\ beats'[b].receivedAt = beats[b].receivedAt
        /\ \A c \in Beats \ {b} : beats'[c] = beats[c]
    BY <1>4 DEF Write, TypeOK, Beat
  <2> QED
    BY <2>1 DEF Stamped, Heard
<1>5. CASE UNCHANGED <<beats, health>>
  BY <1>5 DEF Stamped, Heard
<1> QED
  BY <1>1, <1>2, <1>3, <1>4, <1>5, BeatSteps

LEMMA LatestIff == LatestWins <=> \A i \in Installations : Latest(health[i], Heard(i))
  BY DEF LatestWins, Latest

LEMMA UpsertLatest ==
  ASSUME TypeOK, Stamped, NEW i \in Installations, NEW b \in Beats, beats[b].pc = "Write",
         Latest(health[i], Heard(i))
  PROVE  Latest(Upsert(health[i], b), Heard(i) \cup {b})
<1>1. /\ \A c \in Heard(i) \cup {b} : beats[c].receivedAt \in Nat /\ beats[c].receivedAt >= 1
      /\ Heard(i) \cup {b} # {}
  BY BeatFields DEF Stamped, Heard
<1>2. CASE Heard(i) = {}
  <2>1. health[i] = NoRow
    BY <1>2 DEF Latest
  <2>2. Upsert(health[i], b) = [firstSeen |-> beats[b].receivedAt,
                                lastSeen |-> beats[b].receivedAt, report |-> b]
    BY <2>1 DEF Upsert
  <2> QED
    BY <1>1, <1>2, <2>2 DEF Latest
<1>3. CASE Heard(i) # {}
  <2>1. /\ health[i].report \in Heard(i)
        /\ health[i].lastSeen = beats[health[i].report].receivedAt
        /\ \A c \in Heard(i) : beats[c].receivedAt <= health[i].lastSeen
        /\ \E c \in Heard(i) : beats[c].receivedAt = health[i].firstSeen
    BY <1>3 DEF Latest
  <2>2. health[i] # NoRow
    BY <1>1, <2>1 DEF NoRow, Null
  <2>3. health[i] \in HealthRow /\ health[i].lastSeen \in Nat
    BY <1>1, <2>1 DEF TypeOK
  <2>4. CASE beats[b].receivedAt >= health[i].lastSeen
    <3> DEFINE row == [health[i] EXCEPT !.lastSeen = beats[b].receivedAt, !.report = b]
    <3>1. Upsert(health[i], b) = row
      BY <2>2, <2>4 DEF Upsert
    <3>2. /\ row.report = b /\ row.lastSeen = beats[b].receivedAt
          /\ row.firstSeen = health[i].firstSeen
      BY <2>3 DEF HealthRow
    <3> HIDE DEF row
    <3> QED
      BY <1>1, <2>1, <2>3, <2>4, <3>1, <3>2 DEF Latest
  <2>5. CASE ~(beats[b].receivedAt >= health[i].lastSeen)
    <3>1. Upsert(health[i], b) = health[i]
      BY <2>2, <2>5 DEF Upsert
    <3> QED
      BY <1>1, <2>1, <2>3, <2>5, <3>1 DEF Latest
  <2> QED
    BY <2>4, <2>5
<1> QED
  BY <1>2, <1>3

LEMMA NextLInv == LInv /\ [Next]_vars => LInv'
<1> SUFFICES ASSUME LInv, [Next]_vars PROVE LInv'
  OBVIOUS
<1>1. TypeOK' /\ Stamped'
  BY NextType, HeardOrWrite DEF LInv
<1>2. \A i \in Installations : Latest(health[i], Heard(i))
  BY LatestIff DEF LInv
<1>5. \A c \in Written : beats'[c] = beats[c]
  BY WrittenFrozen DEF LInv
<1>6. \A i \in Installations : \A c \in Heard(i) : beats'[c] = beats[c]
  BY <1>5 DEF Heard, Written
<1>7. ASSUME NEW i \in Installations
      PROVE  Latest(health[i], Heard(i))'
  <2>1. CASE health' = health /\ \A j \in Installations : Heard(j)' = Heard(j)
    BY <1>2, <1>6, <2>1 DEF Latest
  <2>2. ASSUME NEW b \in Beats, Write(b), beats'[b].receivedAt = beats[b].receivedAt,
               \A j \in Installations :
                 Heard(j)' = IF j = beats[b].from THEN Heard(j) \cup {b} ELSE Heard(j)
        PROVE  Latest(health[i], Heard(i))'
    <3>1. /\ beats[b].pc = "Write" /\ beats[b].from \in Installations
          /\ health' = [health EXCEPT ![beats[b].from] = Upsert(health[beats[b].from], b)]
          /\ health \in [Installations -> HealthRow]
      BY <2>2, BeatFields DEF Write, LInv, TypeOK
    <3>2. CASE i = beats[b].from
      <4>1. health'[i] = Upsert(health[i], b) /\ Heard(i)' = Heard(i) \cup {b}
        BY <2>2, <3>1, <3>2
      <4>2. Latest(health'[i], Heard(i) \cup {b})
        BY <1>2, <3>1, <4>1, UpsertLatest DEF LInv
      <4>3. \A c \in Heard(i) \cup {b} : beats'[c].receivedAt = beats[c].receivedAt
        BY <1>6, <2>2
      <4> QED
        BY <4>1, <4>2, <4>3 DEF Latest
    <3>3. CASE i # beats[b].from
      <4>1. health'[i] = health[i] /\ Heard(i)' = Heard(i)
        BY <2>2, <3>1, <3>3
      <4> QED
        BY <1>2, <1>6, <4>1 DEF Latest
    <3> QED
      BY <3>2, <3>3
  <2> QED
    BY <2>1, <2>2, HeardOrWrite DEF LInv
<1>8. LatestWins'
  BY <1>7 DEF LatestWins, Latest
<1> QED
  BY <1>1, <1>8 DEF LInv

LEMMA InitLInv == Init => LInv
<1> SUFFICES ASSUME Init PROVE LInv
  OBVIOUS
<1>1. \A b \in Beats : beats[b].pc = "unsent"
  BY DEF Init
<1>2. \A i \in Installations : Heard(i) = {} /\ health[i] = NoRow
  BY <1>1 DEF Init, Heard
<1> QED
  BY <1>1, <1>2, InitType DEF LInv, Stamped, LatestWins

(***************************************************************************)
(* Whatever the order in which heartbeats are written, the row of an       *)
(* Installation is the one received last, as a whole                       *)
(* (TypeOrmInstallationHealthRepository.recordHeartbeat).                  *)
(***************************************************************************)
THEOREM HeartbeatLatestWins == Spec => []LatestWins
<1>1. LInv => LatestWins
  BY DEF LInv
<1> QED
  BY InitLInv, NextLInv, <1>1, PTL DEF Spec

(***************************************************************************)
(* What a question has read stays true of the heartbeats that were written *)
(* by then, so that its answer can be vouched for.                         *)
(***************************************************************************)

\* A snapshot of the row that was made of some heartbeats.
SnapshotOf(lastSeen, heard) ==
  IF heard = {} THEN lastSeen = Null
  ELSE /\ \E b \in heard : beats[b].receivedAt = lastSeen
       /\ \A b \in heard : beats[b].receivedAt <= lastSeen
       /\ lastSeen >= 1

Vouched(x) ==
  LET Fresh(b) == x.at - beats[b].receivedAt < StaleAfter
  IN x.pc = "answered" =>
       /\ x.answer = "ONLINE" => \E b \in x.after : Fresh(b)
       /\ x.lifecycle = "ACTIVE" /\ (\E b \in x.before : Fresh(b)) => x.answer = "ONLINE"
       /\ x.answer = "NEVER_SEEN" => x.before = {}
       /\ x.lifecycle \in {"SUSPENDED", "DECOMMISSIONED"} => x.answer = "OFFLINE"

Read(x) == /\ x.pc = "Snapshot" => x.before \subseteq Heard(x.of)
           /\ x.pc \in {"Answer", "answered"} => /\ x.before \subseteq x.after
                                                 /\ x.after \subseteq Written
           /\ x.pc = "Answer" => SnapshotOf(x.lastSeen, x.after)

VInv == LInv /\ \A v \in Views : Read(views[v]) /\ Vouched(views[v])

LEMMA RowIsSnapshot ==
  ASSUME LInv, NEW i \in Installations
  PROVE  SnapshotOf(health[i].lastSeen, Heard(i)) /\ Heard(i) \subseteq Written
<1>1. \A c \in Heard(i) : beats[c].receivedAt >= 1 /\ c \in Written
  BY DEF LInv, Stamped, Heard, Written
<1>2. Latest(health[i], Heard(i))
  BY LatestIff DEF LInv
<1> QED
  BY <1>1, <1>2 DEF Latest, SnapshotOf, NoRow, Null

LEMMA AnswerVouches ==
  ASSUME LInv, NEW x \in View, x.before \subseteq x.after, x.after \subseteq Written,
         SnapshotOf(x.lastSeen, x.after)
  PROVE  LET answer == computeInstallationHealth(x.lifecycle, x.lastSeen)
             Fresh(b) == now - beats[b].receivedAt < StaleAfter
         IN /\ answer = "ONLINE" => \E b \in x.after : Fresh(b)
            /\ x.lifecycle = "ACTIVE" /\ (\E b \in x.before : Fresh(b)) => answer = "ONLINE"
            /\ answer = "NEVER_SEEN" => x.before = {}
            /\ x.lifecycle \in {"SUSPENDED", "DECOMMISSIONED"} => answer = "OFFLINE"
<1> DEFINE answer == computeInstallationHealth(x.lifecycle, x.lastSeen)
           Fresh(b) == now - beats[b].receivedAt < StaleAfter
<1>1. /\ now \in Nat /\ x.lastSeen \in Nat
      /\ \A b \in x.after : beats[b].receivedAt \in Nat
  BY BeatFields DEF LInv, TypeOK, View, Written
<1>2. x.lifecycle \in {"SUSPENDED", "DECOMMISSIONED"} => answer = "OFFLINE"
  BY DEF computeInstallationHealth
<1>3. ASSUME x.lifecycle \notin {"SUSPENDED", "DECOMMISSIONED"}, x.lastSeen = Null
      PROVE  answer = "NEVER_SEEN" /\ x.after = {}
  BY <1>3 DEF computeInstallationHealth, ByAge, SnapshotOf, Null
<1>4. ASSUME x.lifecycle \notin {"SUSPENDED", "DECOMMISSIONED"}, x.lastSeen # Null
      PROVE  /\ answer # "NEVER_SEEN"
             /\ answer = "ONLINE" <=> now - x.lastSeen < StaleAfter
  BY <1>4 DEF computeInstallationHealth, ByAge
<1>5. ASSUME x.lastSeen # Null
      PROVE  /\ \E b \in x.after : beats[b].receivedAt = x.lastSeen
             /\ \A b \in x.after : beats[b].receivedAt <= x.lastSeen
  BY <1>5 DEF SnapshotOf
<1> HIDE DEF answer
<1>6. answer = "ONLINE" => \E b \in x.after : Fresh(b)
  <2>1. ASSUME answer = "ONLINE"
        PROVE  x.lastSeen # Null /\ now - x.lastSeen < StaleAfter
    BY <1>2, <1>3, <1>4, <2>1
  <2> QED
    BY <1>5, <2>1
<1>7. ASSUME x.lifecycle = "ACTIVE", NEW b \in x.before, Fresh(b)
      PROVE  answer = "ONLINE"
  <2>1. b \in x.after /\ beats[b].receivedAt <= x.lastSeen /\ x.lastSeen # Null
    BY <1>3, <1>5, <1>7
  <2> QED
    BY <1>1, <1>4, <1>7, <2>1
<1>8. answer = "NEVER_SEEN" => x.before = {}
  BY <1>2, <1>3, <1>4
<1> QED
  BY <1>2, <1>6, <1>7, <1>8 DEF answer

LEMMA InitVInv == Init => VInv
<1> SUFFICES ASSUME Init PROVE VInv
  OBVIOUS
<1>1. \A v \in Views : views[v].pc = "idle"
  BY DEF Init
<1> QED
  BY <1>1, InitLInv DEF VInv, Read, Vouched

\* A step that leaves the question alone.
LEMMA OtherView ==
  ASSUME LInv, [Next]_vars, NEW x \in View, Read(x), Vouched(x)
  PROVE  Read(x)' /\ Vouched(x)'
<1>1. \A b \in Written : beats'[b] = beats[b] /\ b \in Written'
  BY WrittenFrozen DEF LInv
<1>2. Heard(x.of) \subseteq Heard(x.of)'
  BY <1>1 DEF Heard, Written
<1>3. ASSUME x.pc \in {"Answer", "answered"}
      PROVE  /\ \A b \in x.after : beats'[b] = beats[b] /\ b \in Written'
             /\ x.before \subseteq x.after
  BY <1>1, <1>3 DEF Read
<1>4. Read(x)'
  BY <1>2, <1>3 DEF Read, SnapshotOf
<1>5. Vouched(x)'
  BY <1>3 DEF Vouched
<1> QED
  BY <1>4, <1>5

LEMMA NextVInv == VInv /\ [Next]_vars => VInv'
<1> SUFFICES ASSUME VInv, [Next]_vars PROVE VInv'
  OBVIOUS
<1>1. LInv' /\ LInv
  BY NextLInv DEF VInv
<1>2. views \in [Views -> View] /\ \A v \in Views : Read(views[v]) /\ Vouched(views[v])
  BY DEF VInv, LInv, TypeOK
<1>3. ASSUME NEW v \in Views, views'[v] = views[v]
      PROVE  Read(views[v])' /\ Vouched(views[v])'
  <2>1. Read(views[v]) /\ Vouched(views[v]) /\ views[v] \in View
    BY <1>2
  <2> DEFINE x == views[v]
  <2> QED
    BY <1>1, <1>3, <2>1, OtherView DEF Read, Vouched, SnapshotOf
<1>4. ASSUME UNCHANGED views
      PROVE  VInv'
  BY <1>1, <1>3, <1>4 DEF VInv
\* A question's own step leaves heartbeats and rows alone.
<1>5. ASSUME NEW v \in Views, NEW x \in View, views' = [views EXCEPT ![v] = x],
             UNCHANGED <<beats, now>>, Read(x), Vouched(x)
      PROVE  VInv'
  <2>1. Read(views'[v]) /\ Vouched(views'[v])
    BY <1>2, <1>5
  <2>2. Read(views[v])' /\ Vouched(views[v])'
    BY <1>5, <2>1 DEF Read, Vouched, SnapshotOf, Heard, Written
  <2>3. \A w \in Views \ {v} : views'[w] = views[w]
    BY <1>2, <1>5
  <2> QED
    BY <1>1, <1>3, <2>2, <2>3 DEF VInv
<1>6. ASSUME NEW v \in Views, NEW i \in Installations, ViewStatus(v, i)
      PROVE  VInv'
  <2> DEFINE x == [views[v] EXCEPT !.pc = "Snapshot", !.of = i, !.before = Heard(i),
                                   !.lifecycle = installations[i].status]
  <2>1. installations[i].status \in Statuses /\ Heard(i) \in SUBSET Beats
    BY <1>1, HeardBeats DEF LInv, TypeOK, Installation
  <2>2. x \in View /\ x.pc = "Snapshot" /\ x.before = Heard(i) /\ x.of = i
    BY <1>2, <2>1 DEF View
  <2>3. views' = [views EXCEPT ![v] = x] /\ UNCHANGED <<beats, now>>
    BY <1>6 DEF ViewStatus
  <2> HIDE DEF x
  <2>4. Read(x) /\ Vouched(x)
    BY <2>2 DEF Read, Vouched
  <2> QED
    BY <1>5, <2>2, <2>3, <2>4
<1>7. ASSUME NEW v \in Views, NEW i \in Installations, ViewList(v, i)
      PROVE  VInv'
  <2> DEFINE x == [views[v] EXCEPT !.pc = "Answer", !.of = i,
                                   !.lifecycle = installations[i].status,
                                   !.lastSeen = health[i].lastSeen,
                                   !.before = Heard(i), !.after = Heard(i)]
  <2>1. /\ installations[i].status \in Statuses /\ health[i].lastSeen \in 0..MaxTime
        /\ Heard(i) \in SUBSET Beats
    BY <1>1, HeardBeats DEF LInv, TypeOK, Installation, HealthRow
  <2>2. /\ x \in View /\ x.pc = "Answer" /\ x.before = Heard(i) /\ x.after = Heard(i)
        /\ x.lastSeen = health[i].lastSeen
    BY <1>2, <2>1 DEF View
  <2>3. views' = [views EXCEPT ![v] = x] /\ UNCHANGED <<beats, now>>
    BY <1>7 DEF ViewList
  <2> HIDE DEF x
  <2>4. Read(x) /\ Vouched(x)
    BY <1>1, <2>2, RowIsSnapshot DEF Read, Vouched
  <2> QED
    BY <1>5, <2>2, <2>3, <2>4
<1>8. ASSUME NEW v \in Views, ViewSnapshot(v)
      PROVE  VInv'
  <2> DEFINE i == views[v].of
             x == [views[v] EXCEPT !.pc = "Answer", !.lastSeen = health[i].lastSeen,
                                   !.after = Heard(i)]
  <2>1. i \in Installations /\ views[v].before \subseteq Heard(i)
    BY <1>2, <1>8 DEF ViewSnapshot, View, Read
  <2>2. health[i].lastSeen \in 0..MaxTime /\ Heard(i) \in SUBSET Beats
    BY <1>1, <2>1, HeardBeats DEF LInv, TypeOK, HealthRow
  <2>3. /\ x \in View /\ x.pc = "Answer" /\ x.before = views[v].before
        /\ x.after = Heard(i) /\ x.lastSeen = health[i].lastSeen
    BY <1>2, <2>2 DEF View
  <2>4. views' = [views EXCEPT ![v] = x] /\ UNCHANGED <<beats, now>>
    BY <1>8 DEF ViewSnapshot
  <2> HIDE DEF x
  <2>5. Read(x) /\ Vouched(x)
    BY <1>1, <2>1, <2>3, RowIsSnapshot DEF Read, Vouched
  <2> QED
    BY <1>5, <2>3, <2>4, <2>5
<1>9. ASSUME NEW v \in Views, ViewAnswer(v)
      PROVE  VInv'
  <2> DEFINE h == computeInstallationHealth(views[v].lifecycle, views[v].lastSeen)
             x == [views[v] EXCEPT !.pc = "answered", !.at = now, !.answer = h]
  <2>1. /\ views[v] \in View /\ h \in HealthStatuses /\ now \in 0..MaxTime
        /\ views[v].before \subseteq views[v].after /\ views[v].after \subseteq Written
        /\ SnapshotOf(views[v].lastSeen, views[v].after)
    BY <1>1, <1>2, <1>9, AnswerType DEF ViewAnswer, Read, LInv, TypeOK
  <2>2. LET Fresh(b) == now - beats[b].receivedAt < StaleAfter
        IN /\ h = "ONLINE" => \E b \in views[v].after : Fresh(b)
           /\ views[v].lifecycle = "ACTIVE" /\ (\E b \in views[v].before : Fresh(b))
                => h = "ONLINE"
           /\ h = "NEVER_SEEN" => views[v].before = {}
           /\ views[v].lifecycle \in {"SUSPENDED", "DECOMMISSIONED"} => h = "OFFLINE"
    BY <1>1, <2>1, AnswerVouches
  <2>3. views' = [views EXCEPT ![v] = x] /\ UNCHANGED <<beats, now>>
    BY <1>9 DEF ViewAnswer
  <2> HIDE DEF h
  <2>4. /\ x \in View /\ x.pc = "answered" /\ x.at = now /\ x.answer = h
        /\ x.before = views[v].before /\ x.after = views[v].after
        /\ x.lifecycle = views[v].lifecycle
    BY <2>1 DEF View
  <2> HIDE DEF x
  <2>5. Read(x) /\ Vouched(x)
    BY <2>1, <2>2, <2>4 DEF Read, Vouched
  <2> QED
    BY <1>5, <2>3, <2>4, <2>5
<1>10. ASSUME NEW i \in Installations,
              Enroll(i) \/ (\E to \in Statuses : ChangeStatus(i, to)) \/ Revoke(i)
       PROVE  UNCHANGED views
  BY <1>10 DEF Enroll, ChangeStatus, Revoke
<1>11. ASSUME NEW b \in Beats,
              \/ \E i \in Installations, k \in 1..MaxCredentials : Authenticate(b, i, k)
              \/ Receive(b) \/ Write(b) \/ Lose(b)
       PROVE  UNCHANGED views
  BY <1>11 DEF Authenticate, Receive, Write, Lose
<1>12. Tick \/ UNCHANGED vars => UNCHANGED views
  BY DEF Tick, vars
<1> QED
  BY <1>4, <1>6, <1>7, <1>8, <1>9, <1>10, <1>11, <1>12 DEF Next

(***************************************************************************)
(* Although a question reads the status, the snapshot and the clock one    *)
(* after the other, no answer claims more than the heartbeats written by   *)
(* then, nor hides one that was fresh when the question came               *)
(* (GetInstallationHealthUseCase, ListInstallationsUseCase).               *)
(***************************************************************************)
THEOREM HeartbeatAnswerVouched == Spec => []AnswerVouched
<1>1. VInv => AnswerVouched
  BY DEF VInv, Vouched, AnswerVouched
<1> QED
  BY InitVInv, NextVInv, <1>1, PTL DEF Spec

-----------------------------------------------------------------------------
(* ConnectionPool. *)

HIDE ThresholdAssumption
USE PoolAssumption DEF P!ConstantsFit

Holding(n) == {r \in Callers : held[r] >= n}

LEMMA PoolUsed == /\ P!Used = Cardinality(Holding(1)) + Cardinality(Holding(2))
                  /\ IsFiniteSet(Callers)
  BY DEF P!Used, P!HoldAtLeast, Holding, P!Cardinality, Cardinality, IsFiniteSet, P!IsFiniteSet

LEMMA HoldingFinite ==
  ASSUME NEW n
  PROVE  IsFiniteSet(Holding(n)) /\ Cardinality(Holding(n)) \in Nat
  BY PoolUsed, FS_Subset, FS_CardinalityType, Holding(n) \subseteq Callers DEF Holding

\* A step of one request leaves the others alone.
LEMMA CallSteps ==
  ASSUME P!TypeOK, NEW r \in Callers, NEW x \in P!Request, P!Becomes(r, x)
  PROVE  /\ call' \in [Callers -> P!Request] /\ call'[r] = x
         /\ \A q \in Callers \ {r} : call'[q] = call[q]
  BY DEF P!Becomes, P!TypeOK

LEMMA IdleCall == P!Idle \in P!Request /\ P!Idle.pc = "idle" /\ P!Idle.asks = 0
  BY DEF P!Idle, P!Request, P!Kinds

-----------------------------------------------------------------------------

LEMMA CountedKept ==
  ASSUME P!IInv, NEW r \in Callers, NEW x \in P!Request, P!Becomes(r, x),
         held' = [held EXCEPT ![r] = P!Connections(x.pc)]
  PROVE  held' \in [Callers -> 0..2] /\ P!Counted'
<1>1. P!TypeOK
  BY DEF P!IInv
<1>2. P!Connections(x.pc) \in 0..2
  BY DEF P!Connections
<1>3. held' \in [Callers -> 0..2] /\ held'[r] = P!Connections(x.pc)
      /\ \A q \in Callers \ {r} : held'[q] = held[q]
  BY <1>1, <1>2 DEF P!TypeOK
<1> QED
  BY <1>1, <1>3, CallSteps DEF P!IInv, P!Counted

\* A request joins the queue, leaves it at its head, or does neither.
LEMMA QueueJoined ==
  ASSUME P!IInv, NEW r \in Callers, NEW x \in P!Request, P!Becomes(r, x),
         call[r].pc \notin P!Queueing, x.pc \in P!Queueing, queue' = P!Append(queue, r)
  PROVE  queue' \in P!Seq(Callers) /\ P!Queued'
<1>1. queue \in P!Seq(Callers) /\ P!TypeOK /\ P!Queued
  BY DEF P!IInv, P!TypeOK
<1>2. /\ queue' \in P!Seq(Callers)
      /\ P!Len(queue') = P!Len(queue) + 1
      /\ \A n \in 1..P!Len(queue) : queue'[n] = queue[n]
      /\ queue'[P!Len(queue) + 1] = r
  BY <1>1
<1>3. \A n \in 1..P!Len(queue) : queue[n] \in Callers \ {r}
  BY <1>1 DEF P!Queued
<1>4. /\ call'[r] = x
      /\ \A q \in Callers \ {r} : call'[q] = call[q]
  BY <1>1, CallSteps
<1>5. P!Len(queue) \in Nat
  BY <1>1
<1>6. \A n \in 1..P!Len(queue') : n \in 1..P!Len(queue) \/ n = P!Len(queue) + 1
  BY <1>2, <1>5
<1>7. \A n \in 1..P!Len(queue') : call'[queue'[n]].pc \in P!Queueing
  BY <1>2, <1>1, <1>3, <1>4, <1>6 DEF P!Queued
<1>8. ASSUME NEW q \in Callers, call'[q].pc \in P!Queueing
      PROVE  \E n \in 1..P!Len(queue') : queue'[n] = q
  <2>1. CASE q = r
    BY <2>1, <1>2, <1>5
  <2>2. CASE q # r
    <3>1. PICK n \in 1..P!Len(queue) : queue[n] = q
      BY <1>1, <1>4, <1>8, <2>2 DEF P!Queued
    <3> QED
      BY <3>1, <1>2, <1>5
  <2> QED
    BY <2>1, <2>2
<1>9. \A m, n \in 1..P!Len(queue') : queue'[m] = queue'[n] => m = n
  BY <1>1, <1>2, <1>3, <1>6 DEF P!Queued
<1> QED
  BY <1>2, <1>7, <1>8, <1>9 DEF P!Queued

LEMMA QueueServed ==
  ASSUME P!IInv, queue # <<>>, NEW r, r = P!Head(queue), NEW x \in P!Request, P!Becomes(r, x),
         x.pc \notin P!Queueing, queue' = P!Tail(queue)
  PROVE  r \in Callers /\ call[r].pc \in P!Queueing
         /\ queue' \in P!Seq(Callers) /\ P!Queued'
<1>1. queue \in P!Seq(Callers) /\ P!TypeOK /\ P!Queued
  BY DEF P!IInv, P!TypeOK
<1>2. /\ queue' \in P!Seq(Callers) /\ P!Len(queue) \in Nat \ {0}
      /\ P!Len(queue') = P!Len(queue) - 1
      /\ \A n \in 1..P!Len(queue') : queue'[n] = queue[n + 1]
      /\ r = queue[1] /\ r \in Callers
  BY <1>1
<1>3. /\ call'[r] = x
      /\ \A q \in Callers \ {r} : call'[q] = call[q]
  BY <1>1, <1>2, CallSteps
<1>4. \A n \in 2..P!Len(queue) : queue[n] \in Callers \ {r}
  BY <1>1, <1>2 DEF P!Queued
<1>5. \A n \in 1..P!Len(queue') : n + 1 \in 2..P!Len(queue) /\ n + 1 \in 1..P!Len(queue)
  BY <1>2
<1>6. \A n \in 1..P!Len(queue') : call'[queue'[n]].pc \in P!Queueing
  BY <1>1, <1>2, <1>3, <1>4, <1>5 DEF P!Queued
<1>7. ASSUME NEW q \in Callers, call'[q].pc \in P!Queueing
      PROVE  \E n \in 1..P!Len(queue') : queue'[n] = q
  <2>1. q # r
    BY <1>3, <1>7
  <2>2. PICK n \in 1..P!Len(queue) : queue[n] = q
    BY <1>1, <1>3, <1>7, <2>1 DEF P!Queued
  <2>3. n # 1 /\ n - 1 \in 1..P!Len(queue') /\ (n - 1) + 1 = n
    BY <1>2, <2>1, <2>2
  <2> QED
    BY <1>2, <2>2, <2>3
<1>8. ASSUME NEW m \in 1..P!Len(queue'), NEW n \in 1..P!Len(queue'), queue'[m] = queue'[n]
      PROVE  m = n
  <2>1. queue[m + 1] = queue[n + 1]
    BY <1>2, <1>8
  <2>2. m + 1 = n + 1
    BY <1>1, <1>5, <2>1 DEF P!Queued
  <2> QED
    BY <2>2
<1>9. call[r].pc \in P!Queueing
  BY <1>1, <1>2 DEF P!Queued
<1> QED
  BY <1>2, <1>6, <1>7, <1>8, <1>9 DEF P!Queued

LEMMA QueueSame ==
  ASSUME P!IInv, NEW r \in Callers, NEW x \in P!Request, P!Becomes(r, x),
         call[r].pc \notin P!Queueing, x.pc \notin P!Queueing, UNCHANGED queue
  PROVE  queue' \in P!Seq(Callers) /\ P!Queued'
<1>1. queue \in P!Seq(Callers) /\ P!TypeOK /\ P!Queued
  BY DEF P!IInv, P!TypeOK
<1>2. /\ call'[r] = x
      /\ \A q \in Callers \ {r} : call'[q] = call[q]
  BY <1>1, CallSteps
<1>3. \A n \in 1..P!Len(queue) : queue[n] \in Callers \ {r}
  BY <1>1 DEF P!Queued
<1> QED
  BY <1>1, <1>2, <1>3 DEF P!Queued

-----------------------------------------------------------------------------

\* A request keeps the lock it works under, or has none.
LEMMA LocksKept ==
  ASSUME P!IInv, NEW r \in Callers, NEW x \in P!Request, P!Becomes(r, x), UNCHANGED lock,
         call[r].pc \in P!Locking => x.pc \in P!Locking /\ x.on = call[r].on,
         x.pc \in P!Locking /\ x.kind # "query" =>
           call[r].pc \in P!Locking /\ x.kind = call[r].kind
  PROVE  P!Locked'
<1>1. P!TypeOK /\ P!Locked
  BY DEF P!IInv
<1>2. /\ call' \in [Callers -> P!Request] /\ call'[r] = x
      /\ \A q \in Callers \ {r} : call'[q] = call[q]
  BY <1>1, CallSteps
<1>3. \A i \in Sites : lock[i] \in Callers \cup {NoOne}
  BY <1>1 DEF P!TypeOK
<1> QED
  BY <1>1, <1>2, <1>3 DEF P!Locked

LEMMA LockTaken ==
  ASSUME P!IInv, NEW r \in Callers, NEW x \in P!Request, P!Becomes(r, x),
         call[r].pc \notin P!Locking, x.on = call[r].on, x.pc \in P!Locking,
         lock[x.on] = NoOne, lock' = [lock EXCEPT ![x.on] = r]
  PROVE  lock' \in [Sites -> Callers \cup {NoOne}] /\ P!Locked'
<1>1. P!TypeOK /\ P!Locked
  BY DEF P!IInv
<1>2. /\ call' \in [Callers -> P!Request] /\ call'[r] = x
      /\ \A q \in Callers \ {r} : call'[q] = call[q]
  BY <1>1, CallSteps
<1>3. lock \in [Sites -> Callers \cup {NoOne}] /\ x.on \in Sites
  BY <1>1 DEF P!TypeOK, P!Request
<1>4. /\ lock' \in [Sites -> Callers \cup {NoOne}] /\ lock'[x.on] = r
      /\ \A i \in Sites \ {x.on} : lock'[i] = lock[i]
  BY <1>3
<1>5. \A i \in Sites : lock[i] # NoOne => lock[i] # r
  BY <1>1 DEF P!Locked
<1>6. \A i \in Sites : lock'[i] # NoOne =>
        call'[lock'[i]].on = i /\ call'[lock'[i]].pc \in P!Locking
  BY <1>1, <1>2, <1>3, <1>4, <1>5 DEF P!Locked
<1>7. ASSUME NEW q \in Callers, call'[q].kind # "query", call'[q].pc \in P!Locking
      PROVE  lock'[call'[q].on] = q
  <2>1. CASE q = r
    BY <2>1, <1>2, <1>4
  <2>2. CASE q # r
    <3>1. call[q].on \in Sites /\ lock[call[q].on] = q
      BY <2>2, <1>1, <1>2, <1>7 DEF P!Locked, P!TypeOK, P!Request
    <3>2. call[q].on # x.on
      BY <3>1
    <3> QED
      BY <2>2, <3>1, <3>2, <1>2, <1>4
  <2> QED
    BY <2>1, <2>2
<1> QED
  BY <1>4, <1>6, <1>7 DEF P!Locked

LEMMA LocksReleased ==
  ASSUME P!IInv, NEW r \in Callers, P!Becomes(r, P!Idle),
         lock' = [i \in Sites |-> IF lock[i] = r THEN NoOne ELSE lock[i]]
  PROVE  lock' \in [Sites -> Callers \cup {NoOne}] /\ P!Locked'
<1>1. P!TypeOK /\ P!Locked
  BY DEF P!IInv
<1>2. /\ call' \in [Callers -> P!Request] /\ call'[r] = P!Idle
      /\ \A q \in Callers \ {r} : call'[q] = call[q]
  BY <1>1, CallSteps, IdleCall
<1>3. lock' \in [Sites -> Callers \cup {NoOne}]
  BY <1>1 DEF P!TypeOK
<1>4. \A i \in Sites : lock[i] \in Callers \cup {NoOne}
  BY <1>1 DEF P!TypeOK
<1>5. ASSUME NEW i \in Sites, lock'[i] # NoOne
      PROVE  call'[lock'[i]].on = i /\ call'[lock'[i]].pc \in P!Locking
  <2>1. lock'[i] = lock[i] /\ lock[i] \in Callers \ {r}
    BY <1>4, <1>5
  <2> QED
    BY <2>1, <1>1, <1>2 DEF P!Locked
<1>6. ASSUME NEW q \in Callers, call'[q].kind # "query", call'[q].pc \in P!Locking
      PROVE  lock'[call'[q].on] = q
  <2>1. q # r
    BY <1>2, <1>6, IdleCall DEF P!Locking
  <2>2. call[q].on \in Sites /\ lock[call[q].on] = q
    BY <2>1, <1>1, <1>2, <1>6 DEF P!Locked, P!TypeOK, P!Request
  <2> QED
    BY <2>1, <2>2, <1>2
<1> QED
  BY <1>3, <1>5, <1>6 DEF P!Locked

\* Nobody holds more than before; or one request holds one more.
LEMMA UsedNoMore ==
  ASSUME P!IInv, held' \in [Callers -> 0..2], \A q \in Callers : held'[q] <= held[q]
  PROVE  (P!Used <= PoolSize)'
<1>1. held \in [Callers -> 0..2] /\ P!Used <= PoolSize
  BY DEF P!IInv, P!TypeOK
<1>2. ASSUME NEW n \in {1, 2}
      PROVE  Cardinality(Holding(n)') <= Cardinality(Holding(n))
                /\ Cardinality(Holding(n)') \in Nat
  <2>1. Holding(n)' \in SUBSET Holding(n)
    BY <1>1 DEF Holding
  <2> QED
    BY <2>1, HoldingFinite, FS_Subset, FS_CardinalityType
<1>3. P!Used' = Cardinality(Holding(1)') + Cardinality(Holding(2)')
  BY DEF P!Used, P!HoldAtLeast, Holding, P!Cardinality, Cardinality
<1>4. /\ Cardinality(Holding(1)') <= Cardinality(Holding(1))
      /\ Cardinality(Holding(2)') <= Cardinality(Holding(2))
      /\ Cardinality(Holding(1)') \in Nat /\ Cardinality(Holding(2)') \in Nat
      /\ Cardinality(Holding(1)) \in Nat /\ Cardinality(Holding(2)) \in Nat
  BY <1>2, HoldingFinite
<1>5. P!Used' <= P!Used
  BY <1>3, <1>4, PoolUsed
<1> QED
  BY <1>1, <1>3, <1>4, <1>5, PoolUsed

LEMMA UsedOneMore ==
  ASSUME P!IInv, NEW r \in Callers, held[r] \in {0, 1}, P!Used < PoolSize,
         held' = [held EXCEPT ![r] = held[r] + 1]
  PROVE  (P!Used <= PoolSize)'
<1>1. held \in [Callers -> 0..2]
  BY DEF P!IInv, P!TypeOK
<1>2. held'[r] = held[r] + 1 /\ \A q \in Callers \ {r} : held'[q] = held[q]
  BY <1>1
<1>3. PICK n \in {1, 2} : n = held[r] + 1
  BY <1>1
<1>4. Holding(n)' = Holding(n) \cup {r} /\ r \notin Holding(n)
  BY <1>1, <1>2, <1>3 DEF Holding
<1>5. \A m \in {1, 2} \ {n} : Holding(m)' = Holding(m)
  BY <1>1, <1>2, <1>3 DEF Holding
<1>6. Cardinality(Holding(n)') = Cardinality(Holding(n)) + 1
  BY <1>4, HoldingFinite, FS_AddElement
<1>7. P!Used' = Cardinality(Holding(1)') + Cardinality(Holding(2)')
  BY DEF P!Used, P!HoldAtLeast, Holding, P!Cardinality, Cardinality
<1>8. Cardinality(Holding(1)) \in Nat /\ Cardinality(Holding(2)) \in Nat
  BY HoldingFinite
<1>9. P!Used' = P!Used + 1
  BY <1>3, <1>5, <1>6, <1>7, <1>8, PoolUsed
<1> QED
  BY <1>8, <1>9, PoolUsed

-----------------------------------------------------------------------------

LEMMA PoolInit == P!Init => P!IInv
<1> SUFFICES ASSUME P!Init PROVE P!IInv
  OBVIOUS
<1>1. call = [r \in Callers |-> P!Idle] /\ held = [r \in Callers |-> 0]
      /\ queue = <<>> /\ lock = [i \in Sites |-> NoOne]
  BY DEF P!Init
<1>2. Holding(1) = {} /\ Holding(2) = {}
  BY <1>1 DEF Holding
<1>3. P!Used = 0
  BY <1>2, PoolUsed, FS_EmptySet
<1>4. P!TypeOK
  BY <1>1, <1>3, IdleCall DEF P!TypeOK
<1>5. P!Counted /\ \A r \in Callers : P!Roles(call[r])
  BY <1>1, IdleCall DEF P!Counted, P!Connections, P!Roles
<1>6. P!Queued
  BY <1>1, IdleCall DEF P!Queued, P!Queueing
<1>7. P!Locked
  BY <1>1, IdleCall DEF P!Locked, P!Locking
<1> QED
  BY <1>4, <1>5, <1>6, <1>7 DEF P!IInv

\* The parts of the invariant together, after a step of one request.
LEMMA PoolStep ==
  ASSUME P!IInv, NEW r \in Callers, NEW x \in P!Request, P!Becomes(r, x), P!Roles(x),
         held' = [held EXCEPT ![r] = P!Connections(x.pc)],
         (P!Used <= PoolSize)', queue' \in P!Seq(Callers), P!Queued',
         lock' \in [Sites -> Callers \cup {NoOne}], P!Locked'
  PROVE  P!IInv'
<1>1. P!TypeOK /\ \A q \in Callers : P!Roles(call[q])
  BY DEF P!IInv
<1>2. /\ call' \in [Callers -> P!Request] /\ call'[r] = x
      /\ \A q \in Callers \ {r} : call'[q] = call[q]
  BY <1>1, CallSteps
<1>3. held' \in [Callers -> 0..2] /\ P!Counted'
  BY CountedKept
<1>4. P!TypeOK'
  BY <1>2, <1>3 DEF P!TypeOK
<1>5. \A q \in Callers : P!Roles(call'[q])
  BY <1>1, <1>2
<1> QED
  BY <1>3, <1>4, <1>5 DEF P!IInv

\* What a request is and holds.
LEMMA PoolFields ==
  ASSUME P!IInv, NEW r \in Callers
  PROVE  /\ call[r] \in P!Request /\ P!Roles(call[r])
         /\ held \in [Callers -> 0..2] /\ held[r] = P!Connections(call[r].pc)
         /\ lock \in [Sites -> Callers \cup {NoOne}]
  BY DEF P!IInv, P!TypeOK, P!Counted

\* A request that gains no connection leaves the pool within its size.
LEMMA NoConnectionMore ==
  ASSUME P!IInv, NEW r \in Callers, NEW n \in 0..2, n <= held[r],
         held' = [held EXCEPT ![r] = n]
  PROVE  (P!Used <= PoolSize)'
<1>1. held' \in [Callers -> 0..2] /\ \A q \in Callers : held'[q] <= held[q]
  BY DEF P!IInv, P!TypeOK
<1> QED
  BY <1>1, UsedNoMore

LEMMA NoConnectionChange ==
  ASSUME P!IInv, UNCHANGED held
  PROVE  (P!Used <= PoolSize)'
<1>1. held' \in [Callers -> 0..2] /\ \A q \in Callers : held'[q] <= held[q]
  BY DEF P!IInv, P!TypeOK
<1> QED
  BY <1>1, UsedNoMore

LEMMA ArriveKeeps ==
  ASSUME P!IInv, NEW r \in Callers, NEW kind \in P!Kinds, NEW i \in Sites, P!Arrive(r, kind, i)
  PROVE  P!IInv'
<1> DEFINE y == [pc |-> "connect", kind |-> kind, on |-> i,
                 asks |-> IF kind = "enrollment" THEN 2 ELSE 0]
<1>1. call[r].pc = "idle" /\ P!Becomes(r, y) /\ queue' = P!Append(queue, r)
      /\ UNCHANGED <<held, lock>>
  BY DEF P!Arrive
<1>2. PICK x : x = y
  OBVIOUS
<1>3. x \in P!Request /\ P!Roles(x) /\ x.pc = "connect"
  BY <1>2 DEF P!Request, P!Roles, P!Kinds
<1>4. P!Becomes(r, x)
  BY <1>1, <1>2
<1> HIDE DEF y
<1>5. held' = [held EXCEPT ![r] = P!Connections(x.pc)]
  BY <1>1, <1>3, PoolFields DEF P!Connections
<1>6. (P!Used <= PoolSize)'
  BY <1>1, NoConnectionChange
<1>7. queue' \in P!Seq(Callers) /\ P!Queued'
  BY <1>1, <1>3, <1>4, QueueJoined DEF P!Queueing
<1>8. P!Locked'
  BY <1>1, <1>3, <1>4, LocksKept DEF P!Locking
<1> QED
  BY <1>1, <1>3, <1>4, <1>5, <1>6, <1>7, <1>8, PoolFields, PoolStep

LEMMA GrantKeeps ==
  ASSUME P!IInv, P!Grant
  PROVE  P!IInv'
<1>1. PICK r : r = P!Head(queue)
  OBVIOUS
<1> DEFINE pc == CASE call[r].pc = "connectReader" -> "ask"
                   [] call[r].kind = "query"       -> "work"
                   [] OTHER                        -> "lock"
           y == [call[r] EXCEPT !.pc = pc]
<1>2. /\ queue # <<>> /\ P!Used < PoolSize /\ queue' = P!Tail(queue) /\ UNCHANGED lock
      /\ held' = [held EXCEPT ![r] = held[r] + 1] /\ P!Becomes(r, y)
  BY <1>1 DEF P!Grant
<1>3. r \in Callers /\ call[r].pc \in P!Queueing
  <2>1. queue \in P!Seq(Callers) /\ P!Queued
    BY DEF P!IInv, P!TypeOK
  <2> QED
    BY <1>1, <1>2, <2>1 DEF P!Queued
<1>4. call[r] \in P!Request /\ P!Roles(call[r])
  BY <1>3, PoolFields
<1>5. PICK x : x = y
  OBVIOUS
<1>6. /\ x.kind = call[r].kind /\ x.on = call[r].on /\ x.asks = call[r].asks
      /\ x.pc = pc /\ x \in P!Request
  BY <1>4, <1>5 DEF P!Request
<1>7. \/ call[r].pc = "connectReader" /\ x.pc = "ask"
      \/ call[r].pc = "connect" /\ x.kind = "query" /\ x.pc = "work"
      \/ call[r].pc = "connect" /\ x.kind # "query" /\ x.pc = "lock"
  BY <1>3, <1>4, <1>6 DEF P!Queueing, P!Roles
<1>8. P!Becomes(r, x)
  BY <1>2, <1>5
<1> HIDE DEF y, pc
<1>9. P!Roles(x)
  BY <1>4, <1>6, <1>7 DEF P!Roles
<1>10. held[r] \in {0, 1} /\ P!Connections(x.pc) = held[r] + 1
  BY <1>3, <1>7, PoolFields DEF P!Connections
<1>11. (P!Used <= PoolSize)'
  BY <1>2, <1>3, <1>10, UsedOneMore
<1>12. queue' \in P!Seq(Callers) /\ P!Queued'
  BY <1>1, <1>2, <1>6, <1>7, <1>8, QueueServed DEF P!Queueing
<1>13. P!Locked'
  BY <1>2, <1>3, <1>6, <1>7, <1>8, LocksKept DEF P!Locking
<1> QED
  BY <1>2, <1>3, <1>6, <1>8, <1>9, <1>10, <1>11, <1>12, <1>13, PoolFields, PoolStep

LEMMA TakeLockKeeps ==
  ASSUME P!IInv, NEW r \in Callers, P!TakeLock(r)
  PROVE  P!IInv'
<1>1. /\ call[r].pc = "lock" /\ lock[call[r].on] = NoOne
      /\ lock' = [lock EXCEPT ![call[r].on] = r]
      /\ P!Becomes(r, [call[r] EXCEPT !.pc = "work"]) /\ UNCHANGED <<held, queue>>
  BY DEF P!TakeLock
<1>2. PICK x : x = [call[r] EXCEPT !.pc = "work"]
  OBVIOUS
<1>3. /\ x.kind = call[r].kind /\ x.on = call[r].on /\ x.asks = call[r].asks
      /\ x.pc = "work" /\ x \in P!Request
  BY <1>2, PoolFields DEF P!Request
<1>4. P!Becomes(r, x) /\ P!Roles(x)
  BY <1>1, <1>2, <1>3, PoolFields DEF P!Roles
<1>5. held' = [held EXCEPT ![r] = P!Connections(x.pc)]
  BY <1>1, <1>3, PoolFields DEF P!Connections
<1>6. (P!Used <= PoolSize)'
  BY <1>1, NoConnectionChange
<1>7. queue' \in P!Seq(Callers) /\ P!Queued'
  BY <1>1, <1>3, <1>4, QueueSame DEF P!Queueing
<1>8. lock' \in [Sites -> Callers \cup {NoOne}] /\ P!Locked'
  BY <1>1, <1>3, <1>4, LockTaken DEF P!Locking
<1> QED
  BY <1>3, <1>4, <1>5, <1>6, <1>7, <1>8, PoolStep

LEMMA AskReaderKeeps ==
  ASSUME P!IInv, NEW r \in Callers, P!AskReader(r)
  PROVE  P!IInv'
<1>1. /\ call[r].pc = "work" /\ call[r].asks > 0
      /\ P!Becomes(r, [call[r] EXCEPT !.pc = "connectReader"])
      /\ queue' = P!Append(queue, r) /\ UNCHANGED <<held, lock>>
  BY DEF P!AskReader
<1>2. PICK x : x = [call[r] EXCEPT !.pc = "connectReader"]
  OBVIOUS
<1>3. /\ x.kind = call[r].kind /\ x.on = call[r].on /\ x.asks = call[r].asks
      /\ x.pc = "connectReader" /\ x \in P!Request
  BY <1>2, PoolFields DEF P!Request
<1>4. P!Becomes(r, x) /\ P!Roles(x)
  BY <1>1, <1>2, <1>3, PoolFields DEF P!Roles
<1>5. held' = [held EXCEPT ![r] = P!Connections(x.pc)]
  BY <1>1, <1>3, PoolFields DEF P!Connections
<1>6. (P!Used <= PoolSize)'
  BY <1>1, NoConnectionChange
<1>7. queue' \in P!Seq(Callers) /\ P!Queued'
  BY <1>1, <1>3, <1>4, QueueJoined DEF P!Queueing
<1>8. P!Locked'
  BY <1>1, <1>3, <1>4, LocksKept DEF P!Locking
<1> QED
  BY <1>1, <1>3, <1>4, <1>5, <1>6, <1>7, <1>8, PoolFields, PoolStep

LEMMA ReaderAnswersKeeps ==
  ASSUME P!IInv, NEW r \in Callers, P!ReaderAnswers(r)
  PROVE  P!IInv'
<1> DEFINE y == [call[r] EXCEPT !.pc = "work", !.asks = call[r].asks - 1]
<1>1. /\ call[r].pc = "ask" /\ held' = [held EXCEPT ![r] = 1]
      /\ P!Becomes(r, y) /\ UNCHANGED <<queue, lock>>
  BY DEF P!ReaderAnswers
<1>2. PICK x : x = y
  OBVIOUS
<1>3. call[r].asks \in 1..2 /\ call[r].kind = "enrollment" /\ held[r] = 2
  BY <1>1, PoolFields DEF P!Roles, P!Request, P!Connections
<1>4. /\ x.kind = call[r].kind /\ x.on = call[r].on /\ x.asks = call[r].asks - 1
      /\ x.pc = "work" /\ x \in P!Request
  <2>1. call[r].asks - 1 \in 0..2
    BY <1>3
  <2>2. call[r] \in P!Request
    BY PoolFields
  <2> QED
    BY <1>2, <2>1, <2>2 DEF P!Request
<1>5. P!Becomes(r, x) /\ P!Roles(x)
  BY <1>1, <1>2, <1>3, <1>4 DEF P!Roles
<1> HIDE DEF y
<1>6. held' = [held EXCEPT ![r] = P!Connections(x.pc)]
  BY <1>1, <1>4 DEF P!Connections
<1>7. (P!Used <= PoolSize)'
  <2>1. 1 \in 0..2 /\ 1 <= held[r]
    BY <1>3
  <2> QED
    BY <1>1, <2>1, NoConnectionMore
<1>8. queue' \in P!Seq(Callers) /\ P!Queued'
  BY <1>1, <1>4, <1>5, QueueSame DEF P!Queueing
<1>9. P!Locked'
  BY <1>1, <1>4, <1>5, LocksKept DEF P!Locking
<1> QED
  BY <1>1, <1>4, <1>5, <1>6, <1>7, <1>8, <1>9, PoolFields, PoolStep

LEMMA LeavesKeeps ==
  ASSUME P!IInv, NEW r \in Callers, P!Complete(r) \/ P!Refuse(r)
  PROVE  P!IInv'
<1>1. /\ call[r].pc \in {"work", "ask"} /\ held' = [held EXCEPT ![r] = 0]
      /\ P!Becomes(r, P!Idle) /\ UNCHANGED queue
      /\ lock' = [i \in Sites |-> IF lock[i] = r THEN NoOne ELSE lock[i]]
  BY DEF P!Complete, P!Refuse, P!Leaves
<1>2. P!Idle \in P!Request /\ P!Roles(P!Idle)
  BY IdleCall DEF P!Roles
<1>3. held' = [held EXCEPT ![r] = P!Connections(P!Idle.pc)]
  BY <1>1, IdleCall DEF P!Connections
<1>4. (P!Used <= PoolSize)'
  <2>1. 0 \in 0..2 /\ 0 <= held[r]
    BY PoolFields DEF P!Connections
  <2> QED
    BY <1>1, <2>1, NoConnectionMore
<1>5. queue' \in P!Seq(Callers) /\ P!Queued'
  BY <1>1, <1>2, IdleCall, QueueSame DEF P!Queueing
<1>6. lock' \in [Sites -> Callers \cup {NoOne}] /\ P!Locked'
  BY <1>1, LocksReleased
<1> QED
  BY <1>1, <1>2, <1>3, <1>4, <1>5, <1>6, PoolStep

LEMMA PoolNextKeeps == P!IInv /\ [P!Next]_(P!vars) => P!IInv'
<1> SUFFICES ASSUME P!IInv, [P!Next]_(P!vars) PROVE P!IInv'
  OBVIOUS
<1>1. CASE UNCHANGED P!vars
  BY <1>1 DEF P!vars, P!IInv, P!TypeOK, P!Used, P!HoldAtLeast, P!Counted, P!Queued, P!Locked
<1>2. CASE P!Grant
  BY <1>2, GrantKeeps
<1>3. ASSUME NEW r \in Callers,
             \/ \E kind \in P!Kinds, i \in Sites : P!Arrive(r, kind, i)
             \/ P!TakeLock(r) \/ P!AskReader(r) \/ P!ReaderAnswers(r)
             \/ P!Complete(r) \/ P!Refuse(r)
      PROVE  P!IInv'
  BY <1>3, ArriveKeeps, TakeLockKeeps, AskReaderKeeps, ReaderAnswersKeeps, LeavesKeeps
<1> QED
  BY <1>1, <1>2, <1>3 DEF P!Next

\* Who waits for ever: nobody works, and the locks waited for are held by
\* requests in the queue, so that the pool is used up by transactions.
LEMMA StallExplained == P!IInv => P!StallTakesAll
<1> SUFFICES ASSUME P!IInv, P!Stalled
             PROVE  /\ P!Cardinality({r \in Callers : held[r] > 0 /\ call[r].kind # "query"})
                         = PoolSize
                    /\ \E r \in Callers : /\ call[r].pc = "connectReader"
                                          /\ held[r] = 1 /\ lock[call[r].on] = r
  BY DEF P!StallTakesAll
<1>1. P!TypeOK /\ P!Queued /\ P!Locked
  BY DEF P!IInv
<1>2. ASSUME NEW r \in Callers
      PROVE  /\ call[r].pc \in {"idle", "connect", "lock", "connectReader"}
             /\ held[r] \in 0..1
             /\ held[r] > 0 => call[r].pc \in {"lock", "connectReader"} /\ call[r].kind # "query"
             /\ call[r].pc = "connectReader" => held[r] = 1 /\ lock[call[r].on] = r
  <2>1. call[r] \in P!Request /\ P!Roles(call[r]) /\ held[r] = P!Connections(call[r].pc)
    BY PoolFields
  <2>2. call[r].pc \in {"idle", "connect", "lock", "connectReader"}
    BY <2>1 DEF P!Stalled, P!Request
  <2>3. call[r].pc = "connectReader" => call[r].kind # "query"
    BY <2>1 DEF P!Roles
  <2> QED
    BY <2>1, <2>2, <2>3, <1>1 DEF P!Connections, P!Roles, P!Locked, P!Locking
<1>3. ASSUME NEW r \in Callers, call[r].pc = "lock"
      PROVE  \E q \in Callers : call[q].pc = "connectReader"
  <2>1. call[r].on \in Sites /\ lock[call[r].on] # NoOne /\ lock[call[r].on] \in Callers
    BY <1>1, <1>3 DEF P!Stalled, P!TypeOK, P!Request
  <2>2. call[lock[call[r].on]].pc \in P!Locking
    BY <1>1, <2>1 DEF P!Locked
  <2> QED
    BY <1>2, <2>1, <2>2 DEF P!Locking
<1>4. P!Used = PoolSize
  <2>1. PICK r \in Callers : call[r].pc # "idle"
    BY DEF P!Stalled
  <2>2. \E q \in Callers : call[q].pc \in P!Queueing
    BY <1>2, <1>3, <2>1 DEF P!Queueing
  <2>3. queue # <<>>
    BY <1>1, <2>2 DEF P!Queued
  <2> QED
    BY <2>3 DEF P!Stalled
<1>5. Holding(2) = {} /\ Holding(1) = {r \in Callers : held[r] > 0 /\ call[r].kind # "query"}
  BY <1>2 DEF Holding
<1>6. P!Used = Cardinality(Holding(1))
  <2>1. Cardinality(Holding(2)) = 0 /\ Cardinality(Holding(1)) \in Nat
    BY <1>5, FS_EmptySet, HoldingFinite
  <2> QED
    BY <2>1, PoolUsed
<1>7. Cardinality(Holding(1)) = P!Cardinality(Holding(1))
  BY DEF Cardinality, P!Cardinality
<1>8. \E r \in Callers : call[r].pc = "connectReader"
  <2>1. Holding(1) # {}
    BY <1>4, <1>6, FS_EmptySet
  <2> QED
    BY <1>2, <1>3, <1>5, <2>1
<1> QED
  BY <1>2, <1>4, <1>5, <1>6, <1>7, <1>8

-----------------------------------------------------------------------------
(* Listing. *)

HIDE PoolAssumption DEF P!ConstantsFit
USE ListingAssumption DEF L!ConstantsFit

LEMMA Counts == \A S : L!Cardinality(S) = Cardinality(S) /\ (L!IsFiniteSet(S) <=> IsFiniteSet(S))
  BY DEF L!Cardinality, Cardinality, L!IsFiniteSet, IsFiniteSet

\* The rows up to the end of a page, and how many pages there are.
LEMMA PageEnds ==
  ASSUME NEW p \in Nat \ {0}, NEW s \in Nat \ {0}
  PROVE  /\ (p - 1) * s \in Nat /\ p * s \in Nat /\ p * s = (p - 1) * s + s
         /\ p <= p * s
<1>1. (p - 1) * s \in Nat /\ p * s \in Nat /\ p * s = (p - 1) * s + s
  OBVIOUS
<1>2. p - 1 <= (p - 1) * s
  <2>1. p - 1 \in Nat /\ s - 1 \in Nat
    OBVIOUS
  <2>2. (p - 1) * (s - 1) \in Nat /\ (p - 1) * s = (p - 1) * (s - 1) + (p - 1)
    BY <2>1
  <2> QED
    BY <2>1, <2>2
<1> QED
  BY <1>1, <1>2

LEMMA MorePages ==
  ASSUME NEW t \in Nat, NEW p \in Nat, NEW s \in Nat \ {0}
  PROVE  /\ L!TotalPages(t, s) \in Nat
         /\ p < L!TotalPages(t, s) <=> p * s < t
<1> DEFINE q == (t + s - 1) \div s
<1>1. q \in Nat /\ q * s \in Nat /\ q * s <= t + s - 1 /\ t + s - 1 < q * s + s
  OBVIOUS
<1>2. p * s \in Nat
  OBVIOUS
<1>3. ASSUME p < q PROVE p * s < t
  <2>1. PICK d \in Nat : q = p + 1 + d
    <3>1. q - p - 1 \in Nat /\ q = p + 1 + (q - p - 1)
      BY <1>1, <1>3
    <3> QED
      BY <3>1
  <2>2. q * s = p * s + s + d * s /\ d * s \in Nat
    BY <2>1
  <2> HIDE DEF q
  <2> QED
    BY <1>1, <1>2, <2>2
<1>4. ASSUME p >= q PROVE p * s >= t
  <2>1. PICK d \in Nat : p = q + d
    <3>1. p - q \in Nat /\ p = q + (p - q)
      BY <1>1, <1>4
    <3> QED
      BY <3>1
  <2>2. p * s = q * s + d * s /\ d * s \in Nat
    BY <1>1, <2>1
  <2> HIDE DEF q
  <2> QED
    BY <1>1, <1>2, <2>2
<1> HIDE DEF q
<1>5. L!TotalPages(t, s) = q
  BY DEF L!TotalPages, q
<1> QED
  BY <1>1, <1>2, <1>3, <1>4, <1>5

LEMMA MatchingFinite ==
  /\ L!Matching \subseteq Rows /\ IsFiniteSet(L!Matching) /\ Cardinality(L!Matching) \in Nat
  /\ Cardinality(L!Matching) <= Cardinality(Rows) /\ Cardinality(Rows) \in Nat
<1>1. IsFiniteSet(Rows) /\ L!Matching \subseteq Rows
  BY Counts DEF L!Matching
<1> QED
  BY <1>1, FS_Subset, FS_CardinalityType

\* The rows that are shown before x.
Ahead(x) == {y \in L!Matching : L!Before(y, x)}

LEMMA RankIs ==
  ASSUME NEW x
  PROVE  /\ L!Rank(x) = Cardinality(Ahead(x)) /\ IsFiniteSet(Ahead(x))
         /\ L!Rank(x) \in Nat /\ L!Rank(x) <= Cardinality(L!Matching)
<1>1. L!Rank(x) = Cardinality(Ahead(x)) /\ Ahead(x) \in SUBSET L!Matching
  BY Counts DEF L!Rank, Ahead
<1> QED
  BY <1>1, MatchingFinite, FS_Subset, FS_CardinalityType

\* An order is a sequence of all rows that match.
LEMMA OrderType ==
  ASSUME NEW s \in L!Orders, NEW n, n = Cardinality(L!Matching)
  PROVE  /\ s \in [1..n -> L!Matching] /\ s \in Seq(Rows) /\ Len(s) = n
         /\ \A i, j \in 1..n : s[i] = s[j] => i = j
         /\ L!Matching = {s[i] : i \in 1..n}
<1>1. s \in [1..n -> L!Matching] /\ \A i, j \in 1..n : i # j => s[i] # s[j]
  BY Counts DEF L!Orders, L!SetToSeqs
<1>2. s \in Seq(Rows) /\ Len(s) = n
  <2>1. n \in Nat /\ s \in [1..n -> Rows]
    BY <1>1, MatchingFinite
  <2>2. s \in Seq(Rows)
    BY <2>1, SeqDef
  <2> QED
    BY <2>1, <2>2, LenProperties
<1>3. s \in Injection(1..n, L!Matching)
  BY <1>1 DEF Injection, IsInjective
<1>4. Cardinality(1..n) = Cardinality(L!Matching)
  BY MatchingFinite, FS_Interval
<1>5. s \in Surjection(1..n, L!Matching)
  BY <1>3, <1>4, MatchingFinite, FS_Injection
<1>6. L!Matching = {s[i] : i \in 1..n}
  BY <1>1, <1>5 DEF Surjection
<1> QED
  BY <1>1, <1>2, <1>6

\* Where instants do not tie, or ties are broken, the order is the one of ranks.
LEMMA OrderRank ==
  ASSUME table \in [Rows -> L!Row], L!Ordered,
         NEW s \in L!Orders, NEW n, n = Cardinality(L!Matching), NEW k \in 1..n
  PROVE  L!Rank(s[k]) = k - 1
<1>0. n \in Nat
  BY MatchingFinite
<1>1. /\ s \in [1..n -> L!Matching] /\ \A i, j \in 1..n : s[i] = s[j] => i = j
      /\ L!Matching = {s[i] : i \in 1..n}
  BY OrderType
<1>2. \A x \in Rows : table[x].created \in Nat
  BY DEF L!Row
<1>3. \A x \in L!Matching : x \in Rows /\ x \in Nat /\ table[x].created > 0
  BY DEF L!Matching
<1>4. ASSUME NEW i \in 1..n, NEW j \in 1..n, i < j
      PROVE  L!Before(s[i], s[j]) /\ ~L!Before(s[j], s[i])
  <2>1. /\ table[s[i]].created >= table[s[j]].created
        /\ list = "audit" /\ table[s[i]].created = table[s[j]].created => s[i] > s[j]
    BY <1>1, <1>4 DEF L!Orders
  <2>2. s[i] \in L!Matching /\ s[j] \in L!Matching /\ s[i] # s[j]
    <3>1. i # j
      BY <1>0, <1>4
    <3> QED
      BY <1>1, <3>1
  <2>3. list # "audit" => table[s[i]].created # table[s[j]].created
    BY <1>3, <2>2 DEF L!Ordered, L!Ties
  <2>4. /\ table[s[i]].created \in Nat /\ table[s[j]].created \in Nat
        /\ s[i] \in Nat /\ s[j] \in Nat
    BY <1>2, <1>3, <2>2
  <2> QED
    BY <2>1, <2>3, <2>4 DEF L!Before
<1>5. ~L!Before(s[k], s[k])
  <2>1. s[k] \in L!Matching
    BY <1>1
  <2>2. table[s[k]].created \in Nat /\ s[k] \in Nat
    BY <1>2, <1>3, <2>1
  <2> QED
    BY <2>2 DEF L!Before
<1>6. \A i \in 1..n : L!Before(s[i], s[k]) <=> i \in 1..(k - 1)
  <2>1. ASSUME NEW i \in 1..n PROVE i \in 1..(k - 1) <=> i < k
    BY <1>0
  <2>2. ASSUME NEW i \in 1..n PROVE i < k \/ i = k \/ k < i
    BY <1>0
  <2> QED
    BY <1>4, <1>5, <2>1, <2>2
<1> DEFINE f == [i \in 1..(k - 1) |-> s[i]]
<1>7. 1..(k - 1) \subseteq 1..n
  BY <1>0
<1>8. f \in Bijection(1..(k - 1), Ahead(s[k]))
  <2>1. f \in [1..(k - 1) -> Ahead(s[k])]
    BY <1>1, <1>6, <1>7 DEF Ahead
  <2>2. \A i, j \in 1..(k - 1) : f[i] = f[j] => i = j
    BY <1>1, <1>7
  <2>3. \A y \in Ahead(s[k]) : \E i \in 1..(k - 1) : f[i] = y
    <3> SUFFICES ASSUME NEW y \in Ahead(s[k]) PROVE \E i \in 1..(k - 1) : f[i] = y
      OBVIOUS
    <3>1. PICK i \in 1..n : y = s[i]
      BY <1>1 DEF Ahead
    <3>2. i \in 1..(k - 1)
      BY <1>6, <3>1 DEF Ahead
    <3> QED
      BY <3>1, <3>2
  <2> QED
    BY <2>1, <2>2, <2>3 DEF Bijection, Injection, Surjection, IsInjective
<1>9. IsFiniteSet(1..(k - 1)) /\ Cardinality(1..(k - 1)) = k - 1
  BY FS_Interval
<1>10. Cardinality(Ahead(s[k])) = k - 1
  BY <1>8, <1>9, FS_Bijection DEF ExistsBijection
<1> QED
  BY <1>10, RankIs

\* A page, as far as it goes: what follows the first a of the n rows in s.
PageOf(s, n, a, z, items) ==
  /\ items \in Seq(Rows)
  /\ Len(items) = IF a < n THEN (IF a + z < n THEN z ELSE n - a) ELSE 0
  /\ \A i \in 1..Len(items) : a + i \in 1..n /\ items[i] = s[a + i]

LEMMA PageCut ==
  ASSUME NEW s \in L!Orders, NEW p \in Nat \ {0}, NEW z \in Nat \ {0}
  PROVE  PageOf(s, Cardinality(L!Matching), (p - 1) * z, z, L!Cut(s, p, z))
<1>0. PICK n, a, items : n = Cardinality(L!Matching) /\ a = (p - 1) * z /\ items = L!Cut(s, p, z)
  OBVIOUS
<1>1. n \in Nat /\ s \in [1..n -> L!Matching] /\ s \in Seq(Rows) /\ Len(s) = n
  BY <1>0, OrderType, MatchingFinite
<1>2. a \in Nat /\ p * z = a + z
  BY <1>0, PageEnds
<1>3. PICK e : e = IF a + z < n THEN a + z ELSE n
  OBVIOUS
<1>4. e \in Nat /\ e <= n /\ items = SubSeq(s, a + 1, e)
  BY <1>0, <1>1, <1>2, <1>3 DEF L!Cut
<1>5. \A i \in (a + 1)..e : i \in 1..n /\ s[i] \in Rows
  BY <1>1, <1>2, <1>4, ElementOfSeq
<1>6. /\ items \in Seq(Rows)
      /\ Len(items) = IF a + 1 <= e THEN e - (a + 1) + 1 ELSE 0
      /\ \A i \in 1..(e - (a + 1) + 1) : items[i] = s[(a + 1) + i - 1]
  BY <1>2, <1>4, <1>5, SubSeqProperties
<1>7. Len(items) = IF a < n THEN (IF a + z < n THEN z ELSE n - a) ELSE 0
  BY <1>1, <1>2, <1>3, <1>6
<1>8. ASSUME NEW i \in 1..Len(items)
      PROVE  a + i \in 1..n /\ items[i] = s[a + i]
  <2>1. i \in 1..(e - (a + 1) + 1) /\ (a + 1) + i - 1 = a + i /\ a + i \in (a + 1)..e
    BY <1>2, <1>4, <1>6
  <2> QED
    BY <1>5, <1>6, <2>1
<1> QED
  BY <1>0, <1>6, <1>7, <1>8 DEF PageOf

\* It shows the rows whose ranks lie in it.
LEMMA PageShows ==
  ASSUME table \in [Rows -> L!Row], L!Ordered, NEW s \in L!Orders,
         NEW p \in Nat \ {0}, NEW z \in Nat \ {0}, NEW a, a = (p - 1) * z,
         NEW items, items = L!Cut(s, p, z), NEW x
  PROVE  x \in L!ToSet(items) <=>
           x \in L!Matching /\ a <= L!Rank(x) /\ L!Rank(x) < a + z
<1>1. PICK n : n = Cardinality(L!Matching)
  OBVIOUS
<1>0. n \in Nat /\ a \in Nat
  BY <1>1, MatchingFinite, PageEnds
<1>2. /\ s \in [1..n -> L!Matching] /\ L!Matching = {s[i] : i \in 1..n}
  BY <1>1, OrderType
<1>3. /\ items \in Seq(Rows)
      /\ Len(items) = IF a < n THEN (IF a + z < n THEN z ELSE n - a) ELSE 0
      /\ \A i \in 1..Len(items) : a + i \in 1..n /\ items[i] = s[a + i]
  <2>1. PageOf(s, n, a, z, items)
    BY <1>1, PageCut
  <2> QED
    BY <2>1 DEF PageOf
<1>4. L!ToSet(items) = {items[i] : i \in 1..Len(items)}
  BY <1>3, LenProperties DEF L!ToSet
<1>5. \A k \in 1..n : L!Rank(s[k]) = k - 1
  BY <1>1, OrderRank
<1>6. ASSUME x \in L!ToSet(items)
      PROVE  x \in L!Matching /\ a <= L!Rank(x) /\ L!Rank(x) < a + z
  <2>1. PICK i \in 1..Len(items) : x = items[i]
    BY <1>4, <1>6
  <2>2. x = s[a + i] /\ a + i \in 1..n
    BY <1>3, <2>1
  <2>3. L!Rank(x) = (a + i) - 1
    BY <1>5, <2>2
  <2>4. Len(items) \in Nat /\ Len(items) <= z
    BY <1>0, <1>3
  <2>5. i <= z /\ i >= 1 /\ i \in Nat
    BY <2>1, <2>4
  <2>6. a <= L!Rank(x) /\ L!Rank(x) < a + z
    BY <1>0, <2>3, <2>5
  <2> QED
    BY <1>2, <2>2, <2>6
<1>7. ASSUME x \in L!Matching, a <= L!Rank(x), L!Rank(x) < a + z
      PROVE  x \in L!ToSet(items)
  <2>1. PICK k \in 1..n : x = s[k]
    BY <1>2, <1>7
  <2>2. a <= k - 1 /\ k - 1 < a + z
    BY <1>5, <1>7, <2>1
  <2>3. k - a \in 1..Len(items) /\ a + (k - a) = k
    <3>1. PICK m : m = Len(items)
      OBVIOUS
    <3>2. a < n /\ m = IF a + z < n THEN z ELSE n - a
      BY <1>0, <1>3, <2>2, <3>1
    <3>3. k - a >= 1 /\ k - a <= m /\ k - a \in Nat /\ m \in Nat /\ a + (k - a) = k
      BY <1>0, <2>2, <3>2
    <3> QED
      BY <3>1, <3>3
  <2> QED
    BY <1>3, <1>4, <2>1, <2>3
<1> QED
  BY <1>6, <1>7

-----------------------------------------------------------------------------

\* A row is never shown before itself.
LEMMA RankBelow ==
  ASSUME table \in [Rows -> L!Row], NEW x \in L!Matching
  PROVE  L!Rank(x) < Cardinality(L!Matching)
<1>1. x \in Rows /\ x \in Nat /\ table[x].created \in Nat
  BY DEF L!Matching, L!Row
<1>2. ~L!Before(x, x)
  BY <1>1 DEF L!Before
<1>3. Ahead(x) \in SUBSET L!Matching /\ Ahead(x) # L!Matching
  BY <1>2 DEF Ahead
<1>4. Cardinality(Ahead(x)) # Cardinality(L!Matching)
  BY <1>3, MatchingFinite, FS_Subset
<1> QED
  BY <1>4, RankIs, MatchingFinite

\* What a walk knows.
LEMMA WalkFields ==
  ASSUME L!IInv
  PROVE  /\ walk \in L!Walker /\ table \in [Rows -> L!Row] /\ list \in L!Lists
         /\ walk.pc \in {"idle", "Count", "Page", "Summaries", "Turn", "done"}
         /\ walk.page \in Nat \ {0} /\ walk.page <= Cardinality(Rows) + 1
         /\ walk.size \in Nat \ {0} /\ walk.size \in MinPageSize..MaxPageSize
         /\ walk.total \in Nat /\ walk.total <= Cardinality(Rows)
         /\ walk.items \in Seq(Rows) /\ walk.seen \in Seq(Rows)
         /\ walk.start \subseteq Rows
<1>1. walk \in L!Walker /\ table \in [Rows -> L!Row] /\ list \in L!Lists /\ walk.pc # "failed"
  BY DEF L!IInv, L!TypeOK
<1>2. /\ walk.pc \in {"idle", "Count", "Page", "Summaries", "Turn", "done"}
      /\ walk.page \in 1..(Cardinality(Rows) + 1) /\ walk.total \in 0..Cardinality(Rows)
      /\ walk.size \in MinPageSize..MaxPageSize
      /\ walk.items \in Seq(Rows) /\ walk.seen \in Seq(Rows) /\ walk.start \subseteq Rows
  BY <1>1, Counts DEF L!Walker
<1>3. Cardinality(Rows) \in Nat
  BY MatchingFinite
<1> QED
  BY <1>1, <1>2, <1>3

\* The parts of the invariant together, after a step of the walk.
LEMMA WalkStep ==
  ASSUME L!IInv, UNCHANGED <<list, table, owners, listNow>>, walk' \in L!Walker,
         walk'.pc # "failed", L!Bounded',
         walk'.pc # "idle" /\ ~walk'.left /\ L!Ordered => L!NothingSkipped',
         walk'.pc # "idle" /\ ~walk'.left /\ ~walk'.came /\ L!Ordered => L!NothingTwice'
  PROVE  L!IInv'
<1>1. L!Ordered' <=> L!Ordered
  BY DEF L!Ordered, L!Ties
<1>2. L!TypeOK' /\ L!OwnersKnown'
  BY DEF L!IInv, L!TypeOK, L!OwnersKnown
<1> QED
  BY <1>1, <1>2 DEF L!IInv

LEMMA RanksSame ==
  ASSUME UNCHANGED <<list, table>>
  PROVE  /\ L!Matching' = L!Matching /\ (L!CountsFirst' <=> L!CountsFirst)
         /\ \A x : L!Rank(x)' = L!Rank(x)
<1>1. L!Matching' = L!Matching
  BY DEF L!Matching
<1>2. \A x, y : L!Before(y, x)' <=> L!Before(y, x)
  BY DEF L!Before
<1> QED
  BY <1>1, <1>2 DEF L!Rank, L!CountsFirst

LEMMA WalkKeeps ==
  ASSUME L!IInv, NEW asked \in Asked, L!Walk(asked)
  PROVE  L!IInv'
<1>1. /\ walk.pc = "idle" /\ UNCHANGED <<list, table, owners, listNow>>
      /\ walk' = [L!NoWalk EXCEPT !.pc = IF L!CountsFirst THEN "Count" ELSE "Page",
                                  !.size = L!PageSize(asked), !.start = L!Matching]
  BY DEF L!Walk
<1>2. L!PageSize(asked) \in MinPageSize..MaxPageSize /\ L!PageSize(asked) \in Nat \ {0}
  BY DEF L!PageSize
<1>3. /\ walk'.pc = IF L!CountsFirst THEN "Count" ELSE "Page"
      /\ walk'.page = 1 /\ walk'.size = L!PageSize(asked) /\ walk'.total = 0
      /\ walk'.items = <<>> /\ walk'.seen = <<>> /\ walk'.start = L!Matching
      /\ walk'.left = FALSE /\ walk'.came = FALSE /\ walk'.slipped = FALSE
  BY <1>1 DEF L!NoWalk
<1>4. walk' \in L!Walker
  <2>1. 1 \in 1..(Cardinality(Rows) + 1) /\ 0 \in 0..Cardinality(Rows)
    BY MatchingFinite
  <2>2. L!Matching \in SUBSET Rows /\ <<>> \in Seq(Rows)
    BY MatchingFinite
  <2> QED
    BY <1>1, <1>2, <2>1, <2>2, Counts DEF L!Walker, L!NoWalk
<1>5. L!Bounded'
  BY <1>1, <1>3, RanksSame DEF L!Bounded, L!Counting
<1>6. L!Reached' = 0 /\ ~L!Counting' /\ ~L!TotalKnown'
  BY <1>1, <1>2, <1>3, RanksSame DEF L!Reached, L!PageRead, L!Counting, L!TotalKnown
<1>7. L!NothingSkipped'
  <2>1. \A x : L!Rank(x)' >= 0
    BY <1>1, RanksSame, RankIs
  <2> QED
    BY <1>1, <1>3, <1>6, <2>1, RanksSame DEF L!NothingSkipped
<1>8. L!NothingTwice'
  <2>1. L!Matching' = walk'.start
    BY <1>1, <1>3, RanksSame
  <2>2. L!ToSet(walk'.seen) = {x \in walk'.start : L!Rank(x)' < L!Reached'}
    BY <1>1, <1>3, <1>6, RanksSame, RankIs DEF L!ToSet
  <2>3. L!Cardinality(walk'.start) \in Nat /\ Len(walk'.seen) = 0
    BY <1>3, MatchingFinite, Counts
  <2> QED
    BY <1>3, <1>6, <2>1, <2>2, <2>3 DEF L!NothingTwice
<1> QED
  BY <1>1, <1>3, <1>4, <1>5, <1>7, <1>8, WalkStep

LEMMA SummariesKeeps ==
  ASSUME L!IInv, L!Summaries
  PROVE  L!IInv'
<1>1. walk.pc = "Summaries" /\ UNCHANGED <<list, table, owners, listNow>>
  BY DEF L!Summaries
<1>2. \A n \in DOMAIN walk.items : table[walk.items[n]].owner \in owners \cup {NoOwner}
  BY WalkFields, LenProperties, ElementOfSeq DEF L!IInv, L!OwnersKnown
<1>3. walk' = [walk EXCEPT !.pc = "Turn", !.items = <<>>]
  BY <1>2 DEF L!Summaries
<1>4. /\ walk'.pc = "Turn" /\ walk'.page = walk.page /\ walk'.size = walk.size
      /\ walk'.total = walk.total /\ walk'.seen = walk.seen /\ walk'.start = walk.start
      /\ walk'.left = walk.left /\ walk'.came = walk.came /\ walk'.slipped = walk.slipped
      /\ walk' \in L!Walker
  <2>1. <<>> \in Seq(Rows)
    OBVIOUS
  <2> QED
    BY <1>3, <2>1, WalkFields DEF L!Walker
<1>5. L!Bounded'
  BY <1>4 DEF L!Bounded, L!Counting
<1>6. L!Reached' = L!Reached /\ ~L!Counting' /\ L!TotalKnown' /\ L!TotalKnown /\ L!Missing' = L!Missing
  BY <1>1, <1>4 DEF L!Reached, L!PageRead, L!Counting, L!TotalKnown, L!Missing
<1>7. L!NothingSkipped => L!NothingSkipped'
  BY <1>1, <1>4, <1>6, RanksSame DEF L!NothingSkipped
<1>8. L!NothingTwice => L!NothingTwice'
  BY <1>1, <1>4, <1>6, RanksSame DEF L!NothingTwice
<1> QED
  BY <1>1, <1>4, <1>5, <1>7, <1>8, WalkStep DEF L!IInv

\* The next page, or the end of the walk.
LEMMA TurnKeeps ==
  ASSUME L!IInv, L!Turn
  PROVE  L!IInv'
<1>1. walk.pc = "Turn" /\ UNCHANGED <<list, table, owners, listNow>>
  BY DEF L!Turn
<1>2. CASE walk.page < L!TotalPages(walk.total, walk.size)
  <2>1. walk' = [walk EXCEPT !.pc = IF L!CountsFirst THEN "Count" ELSE "Page",
                             !.page = walk.page + 1]
    BY <1>2 DEF L!Turn
  <2>2. walk.page + 1 \in 1..(Cardinality(Rows) + 1)
    <3>1. walk.page * walk.size < walk.total
      BY <1>2, WalkFields, MorePages
    <3>2. walk.page <= walk.page * walk.size /\ walk.page * walk.size \in Nat
      BY WalkFields, PageEnds
    <3> QED
      BY <3>1, <3>2, WalkFields, MatchingFinite
  <2>3. /\ walk'.pc = IF L!CountsFirst THEN "Count" ELSE "Page"
        /\ walk'.page = walk.page + 1 /\ walk'.size = walk.size
        /\ walk'.total = walk.total /\ walk'.seen = walk.seen /\ walk'.start = walk.start
        /\ walk'.left = walk.left /\ walk'.came = walk.came /\ walk'.slipped = walk.slipped
        /\ walk' \in L!Walker
    BY <2>1, <2>2, WalkFields, Counts DEF L!Walker
  <2>4. ~L!Counting' /\ ~L!TotalKnown' /\ walk'.pc \notin {"idle", "done", "Summaries", "Turn"}
        /\ ~(walk'.pc = "Page" /\ L!CountsFirst') /\ ~L!PageRead'
    BY <1>1, <2>3, RanksSame DEF L!Counting, L!TotalKnown, L!PageRead
  <2>5. L!Reached' = L!Reached /\ L!Missing' = L!Missing
    <3>1. (walk.page + 1) - 1 = walk.page
      BY WalkFields
    <3> QED
      BY <1>1, <2>3, <2>4, <3>1 DEF L!Reached, L!PageRead, L!Missing
  <2>6. L!Bounded'
    BY <2>4 DEF L!Bounded
  <2>7. L!NothingSkipped => L!NothingSkipped'
    BY <1>1, <2>3, <2>4, <2>5, RanksSame DEF L!NothingSkipped
  <2>8. L!NothingTwice => L!NothingTwice'
    BY <1>1, <2>3, <2>4, <2>5, RanksSame DEF L!NothingTwice
  <2> QED
    BY <1>1, <2>3, <2>4, <2>6, <2>7, <2>8, WalkStep DEF L!IInv
<1>3. CASE ~(walk.page < L!TotalPages(walk.total, walk.size))
  <2>1. walk' = [walk EXCEPT !.pc = "done"]
    BY <1>3 DEF L!Turn
  <2>2. /\ walk'.pc = "done" /\ walk'.page = walk.page /\ walk'.size = walk.size
        /\ walk'.total = walk.total /\ walk'.seen = walk.seen /\ walk'.start = walk.start
        /\ walk'.left = walk.left /\ walk'.came = walk.came /\ walk'.slipped = walk.slipped
        /\ walk' \in L!Walker
    BY <2>1, WalkFields DEF L!Walker
  <2>3. L!Reached' = L!Reached /\ ~L!Counting' /\ L!TotalKnown' /\ L!TotalKnown
        /\ L!Missing' = L!Missing
    BY <1>1, <2>2 DEF L!Reached, L!PageRead, L!Counting, L!TotalKnown, L!Missing
  <2>4. L!Bounded'
    <3>1. walk.page >= L!TotalPages(walk.total, walk.size)
      <4>1. L!TotalPages(walk.total, walk.size) \in Nat /\ walk.page \in Nat
        BY WalkFields, MorePages
      <4> QED
        BY <1>3, <4>1
    <3>2. L!TotalPages(walk'.total, walk'.size) = L!TotalPages(walk.total, walk.size)
      BY <2>2
    <3> QED
      BY <2>2, <2>3, <3>1, <3>2 DEF L!Bounded, L!TotalPages
  <2>5. L!NothingSkipped => L!NothingSkipped'
    BY <1>1, <2>2, <2>3, RanksSame DEF L!NothingSkipped
  <2>6. L!NothingTwice => L!NothingTwice'
    BY <1>1, <2>2, <2>3, RanksSame DEF L!NothingTwice
  <2> QED
    BY <1>1, <2>2, <2>4, <2>5, <2>6, WalkStep DEF L!IInv
<1> QED
  BY <1>2, <1>3

\* What comes after a page of the rows in x has been shown.
LEMMA CountKeeps ==
  ASSUME L!IInv, L!Count
  PROVE  L!IInv'
<1>1. walk.pc = "Count" /\ UNCHANGED <<list, table, owners, listNow>>
  BY DEF L!Count
<1>2. PICK total \in L!Totals :
        walk' = [walk EXCEPT !.pc = IF L!CountsFirst THEN "Page" ELSE "Summaries",
                             !.total = total]
  BY DEF L!Count
<1>3. PICK n : n = Cardinality(L!Matching)
  OBVIOUS
<1>4. n \in Nat /\ n <= Cardinality(Rows) /\ Cardinality(Rows) \in Nat
  BY <1>3, MatchingFinite
<1>5. PICK a : a = (walk.page - 1) * walk.size
  OBVIOUS
<1>6. a \in Nat /\ walk.page * walk.size = a + walk.size /\ Len(walk.items) \in Nat
  BY <1>5, WalkFields, PageEnds, LenProperties
<1>7. \/ total = n
      \/ /\ L!Counting /\ walk.items # <<>> /\ Len(walk.items) # walk.size
         /\ total = a + Len(walk.items)
  BY <1>1, <1>3, <1>5, Counts DEF L!Totals, L!Counting
<1>8. /\ L!Counting => Len(walk.items) <= walk.size
      /\ L!Counting /\ walk.items # <<>> => a + Len(walk.items) <= Cardinality(Rows)
  BY <1>5, Counts DEF L!IInv, L!Bounded
<1>9. total \in 0..Cardinality(Rows)
  BY <1>4, <1>6, <1>7, <1>8
<1>10. /\ walk'.pc = IF L!CountsFirst THEN "Page" ELSE "Summaries"
       /\ walk'.page = walk.page /\ walk'.size = walk.size
       /\ walk'.total = total /\ walk'.seen = walk.seen /\ walk'.start = walk.start
       /\ walk'.left = walk.left /\ walk'.came = walk.came /\ walk'.slipped = walk.slipped
       /\ walk' \in L!Walker
  BY <1>2, <1>9, WalkFields, Counts DEF L!Walker
<1>11. ~L!Counting' /\ L!TotalKnown' /\ walk'.pc \notin {"idle", "done", "failed"}
  BY <1>1, <1>10, RanksSame DEF L!Counting, L!TotalKnown
<1>12. L!Reached' = L!Reached /\ L!Missing' = L!Missing
  BY <1>1, <1>10, RanksSame DEF L!Reached, L!PageRead, L!Missing
<1>13. L!Bounded'
  BY <1>11 DEF L!Bounded
<1>14. ASSUME L!NothingSkipped PROVE L!NothingSkipped'
  <2>1. walk'.pc = "Page" /\ L!CountsFirst => total = n
    BY <1>1, <1>7, <1>10 DEF L!Counting
  <2>2. ASSUME walk'.pc = "Summaries", NEW x \in L!Missing
        PROVE  total > walk.page * walk.size
    <3>1. L!Counting /\ L!Reached = walk.page * walk.size
      BY <1>1, <1>10, <2>2 DEF L!Counting, L!Reached, L!PageRead
    <3>2. Len(walk.items) = walk.size
      BY <1>14, <2>2, <3>1 DEF L!NothingSkipped
    <3>3. x \in L!Matching /\ L!Rank(x) >= walk.page * walk.size
      BY <1>14, <2>2, <3>1 DEF L!NothingSkipped, L!Missing
    <3>4. L!Rank(x) < n /\ L!Rank(x) \in Nat
      BY <1>3, <3>3, RankBelow, RankIs, WalkFields
    <3> QED
      BY <1>4, <1>6, <1>7, <3>2, <3>3, <3>4, WalkFields
  <2>3. walk'.pc \in {"Summaries", "Turn", "done"} => walk'.pc = "Summaries"
    BY <1>10
  <2>4. L!Cardinality(L!Matching)' = n
    BY <1>1, <1>3, RanksSame, Counts
  <2> QED
    BY <1>1, <1>10, <1>11, <1>12, <1>14, <2>1, <2>2, <2>3, <2>4, RanksSame DEF L!NothingSkipped
<1>15. ASSUME L!NothingTwice PROVE L!NothingTwice'
  <2>1. n = L!Cardinality(walk.start)
    BY <1>3, <1>15, Counts DEF L!NothingTwice
  <2>2. ASSUME L!Counting, walk.items # <<>>, Len(walk.items) # walk.size
        PROVE  a + Len(walk.items) = n
    <3>1. Len(walk.items) < walk.size
      BY <1>6, <1>8, <2>2, WalkFields
    <3> QED
      BY <1>5, <1>15, <2>1, <2>2, <3>1 DEF L!NothingTwice
  <2>3. total = n
    BY <1>7, <2>2
  <2> QED
    BY <1>1, <1>10, <1>11, <1>12, <1>15, <2>1, <2>3, RanksSame DEF L!NothingTwice
<1> QED
  BY <1>1, <1>10, <1>11, <1>13, <1>14, <1>15, WalkStep DEF L!IInv

\* A page is shown.
LEMMA PageKeeps ==
  ASSUME L!IInv, L!Page
  PROVE  L!IInv'
<1>1. walk.pc = "Page" /\ UNCHANGED <<list, table, owners, listNow>>
  BY DEF L!Page
<1>2. PICK s, items :
        /\ s \in L!Orders
        /\ items = L!Cut(s, walk.page, walk.size)
        /\ walk' = [walk EXCEPT !.pc = IF L!CountsFirst THEN "Summaries" ELSE "Count",
                                !.items = items, !.seen = walk.seen \o items]
  BY DEF L!Page
<1>3. PICK n, a : n = Cardinality(L!Matching) /\ a = (walk.page - 1) * walk.size
  OBVIOUS
<1>4. n \in Nat /\ n <= Cardinality(Rows) /\ Cardinality(Rows) \in Nat
  BY <1>3, MatchingFinite
<1>5. a \in Nat /\ walk.page * walk.size = a + walk.size
  BY <1>3, WalkFields, PageEnds
<1>6. PageOf(s, n, a, walk.size, items)
  BY <1>2, <1>3, WalkFields, PageCut
<1>7. /\ items \in Seq(Rows)
      /\ Len(items) = IF a < n THEN (IF a + walk.size < n THEN walk.size ELSE n - a) ELSE 0
  BY <1>6 DEF PageOf
<1>8. /\ walk.seen \o items \in Seq(Rows)
      /\ Len(walk.seen \o items) = Len(walk.seen) + Len(items)
      /\ L!ToSet(walk.seen \o items) = L!ToSet(walk.seen) \cup L!ToSet(items)
  <2>1. walk.seen \in Seq(Rows)
    BY WalkFields
  <2>2. walk.seen \o items \in Seq(Rows)
        /\ Len(walk.seen \o items) = Len(walk.seen) + Len(items)
    BY <1>7, <2>1
  <2>3. \A i \in 1..(Len(walk.seen) + Len(items)) :
          (walk.seen \o items)[i] = IF i <= Len(walk.seen) THEN walk.seen[i]
                                                           ELSE items[i - Len(walk.seen)]
    BY <1>7, <2>1
  <2>4. Len(walk.seen) \in Nat /\ Len(items) \in Nat
    BY <1>7, <2>1
  <2>5. /\ L!ToSet(walk.seen \o items) = {(walk.seen \o items)[i] : i \in 1..(Len(walk.seen) + Len(items))}
        /\ L!ToSet(walk.seen) = {walk.seen[i] : i \in 1..Len(walk.seen)}
        /\ L!ToSet(items) = {items[i] : i \in 1..Len(items)}
    BY <1>7, <2>1, <2>2, LenProperties DEF L!ToSet
  <2>6. L!ToSet(walk.seen \o items) \subseteq L!ToSet(walk.seen) \cup L!ToSet(items)
    <3> SUFFICES ASSUME NEW i \in 1..(Len(walk.seen) + Len(items))
                 PROVE  (walk.seen \o items)[i] \in L!ToSet(walk.seen) \cup L!ToSet(items)
      BY <2>5
    <3>1. CASE i <= Len(walk.seen)
      <4>1. i \in 1..Len(walk.seen)
        BY <2>4, <3>1
      <4> QED
        BY <2>3, <2>5, <3>1, <4>1
    <3>2. CASE ~(i <= Len(walk.seen))
      <4>1. i - Len(walk.seen) \in 1..Len(items)
        BY <2>4, <3>2
      <4> QED
        BY <2>3, <2>5, <3>2, <4>1
    <3> QED
      BY <3>1, <3>2
  <2>7. \A i \in 1..Len(walk.seen) : walk.seen[i] \in L!ToSet(walk.seen \o items)
    <3> SUFFICES ASSUME NEW i \in 1..Len(walk.seen)
                 PROVE  walk.seen[i] \in L!ToSet(walk.seen \o items)
      OBVIOUS
    <3>1. i \in 1..(Len(walk.seen) + Len(items)) /\ i <= Len(walk.seen)
      BY <2>4
    <3> QED
      BY <2>3, <2>5, <3>1
  <2>8. \A i \in 1..Len(items) : items[i] \in L!ToSet(walk.seen \o items)
    <3> SUFFICES ASSUME NEW i \in 1..Len(items)
                 PROVE  items[i] \in L!ToSet(walk.seen \o items)
      OBVIOUS
    <3>1. /\ i + Len(walk.seen) \in 1..(Len(walk.seen) + Len(items))
          /\ ~(i + Len(walk.seen) <= Len(walk.seen))
          /\ (i + Len(walk.seen)) - Len(walk.seen) = i
      BY <2>4
    <3>2. (walk.seen \o items)[i + Len(walk.seen)] = items[i]
      BY <2>3, <3>1
    <3> QED
      BY <2>5, <3>1, <3>2
  <2> QED
    BY <2>2, <2>5, <2>6, <2>7, <2>8
<1>9. /\ walk'.pc = IF L!CountsFirst THEN "Summaries" ELSE "Count"
      /\ walk'.page = walk.page /\ walk'.size = walk.size
      /\ walk'.total = walk.total /\ walk'.start = walk.start
      /\ walk'.items = items /\ walk'.seen = walk.seen \o items
      /\ walk'.left = walk.left /\ walk'.came = walk.came /\ walk'.slipped = walk.slipped
      /\ walk' \in L!Walker
  BY <1>2, <1>7, <1>8, WalkFields DEF L!Walker
<1>10. /\ L!Counting' <=> walk'.pc = "Count"
       /\ L!CountsFirst => L!TotalKnown /\ walk'.pc = "Summaries"
       /\ ~L!CountsFirst => walk'.pc = "Count"
       /\ L!TotalKnown' => L!TotalKnown
       /\ walk'.pc \notin {"idle", "done", "failed", "Page", "Turn"}
  BY <1>1, <1>9, RanksSame DEF L!Counting, L!TotalKnown
<1>11. L!Reached = a /\ L!Reached' = a + walk.size
  BY <1>1, <1>3, <1>5, <1>9, RanksSame DEF L!Reached, L!PageRead
<1>12. Len(items) \in Nat /\ Len(items) <= walk.size /\ (a + Len(items) <= n \/ Len(items) = 0)
  BY <1>4, <1>5, <1>7, WalkFields
<1>13. L!Bounded'
  <2>1. walk'.items # <<>> => Len(items) # 0
    BY <1>7, <1>9
  <2>2. Len(walk'.items) <= walk'.size
    BY <1>9, <1>12, WalkFields
  <2>3. walk'.items # <<>> => (walk'.page - 1) * walk'.size + Len(walk'.items) <= L!Cardinality(Rows)
    BY <1>3, <1>4, <1>5, <1>9, <1>12, <2>1, Counts
  <2> QED
    BY <1>10, <2>2, <2>3 DEF L!Bounded
<1>14. ASSUME L!Ordered, NEW x
       PROVE  x \in L!ToSet(items) <=>
                x \in L!Matching /\ a <= L!Rank(x) /\ L!Rank(x) < a + walk.size
  BY <1>2, <1>3, <1>14, WalkFields, PageShows
<1>15. ASSUME L!Ordered, L!NothingSkipped PROVE L!NothingSkipped'
  <2>1. ASSUME NEW x \in L!Missing'
        PROVE  /\ L!Rank(x) \in Nat /\ L!Rank(x) >= a + walk.size /\ L!Rank(x) < n
    <3>1. x \in L!Missing /\ x \notin L!ToSet(items)
      BY <1>8, <1>9 DEF L!Missing
    <3>2. x \in L!Matching /\ L!Rank(x) >= a
      BY <1>11, <1>15, <3>1 DEF L!NothingSkipped, L!Missing
    <3>3. L!Rank(x) \in Nat /\ L!Rank(x) < n
      BY <1>3, <3>2, RankIs, RankBelow, WalkFields
    <3> QED
      BY <1>5, <1>14, <1>15, <3>1, <3>2, <3>3, WalkFields
  <2>2. L!Missing' # {} => a + walk.size < n
    BY <1>4, <1>5, <2>1, WalkFields
  <2>3. L!Missing' # {} => Len(items) = walk.size
    BY <1>4, <1>5, <1>7, <2>2, WalkFields
  <2>4. ~walk.slipped /\ L!CountsFirst => walk.total = n
    BY <1>1, <1>3, <1>15, Counts DEF L!NothingSkipped
  <2>5. ~walk.slipped /\ L!CountsFirst /\ L!Missing' # {} => walk.total > walk.page * walk.size
    BY <1>5, <2>2, <2>4
  <2>6. walk.start \subseteq L!Matching
    BY <1>15 DEF L!NothingSkipped
  <2>7. \A x \in L!Missing' : L!Rank(x)' >= L!Reached'
    BY <1>1, <1>11, <2>1, RanksSame
  <2>8. ~walk'.slipped =>
          /\ walk'.pc = "Page" /\ L!CountsFirst' => walk'.total = L!Cardinality(L!Matching)'
          /\ walk'.pc \in {"Summaries", "Turn", "done"} /\ L!Missing' # {} =>
               walk'.total > walk'.page * walk'.size
    BY <1>9, <1>10, <2>5
  <2> QED
    BY <1>1, <1>9, <2>3, <2>6, <2>7, <2>8, RanksSame DEF L!NothingSkipped
<1>16. ASSUME L!Ordered, L!NothingTwice PROVE L!NothingTwice'
  <2>1. L!Matching = walk.start /\ n = L!Cardinality(walk.start)
    BY <1>3, <1>16, Counts DEF L!NothingTwice
  <2>2. L!ToSet(walk.seen) = {x \in walk.start : L!Rank(x) < a}
    BY <1>11, <1>16 DEF L!NothingTwice
  <2>3. L!ToSet(walk'.seen) = {x \in walk'.start : L!Rank(x)' < L!Reached'}
    <3>1. ASSUME NEW x
          PROVE  x \in L!ToSet(walk.seen) \cup L!ToSet(items)
                   <=> x \in walk.start /\ L!Rank(x) < a + walk.size
      <4>1. L!Rank(x) \in Nat
        BY RankIs
      <4> QED
        BY <1>5, <1>14, <1>16, <2>1, <2>2, <4>1, WalkFields
    <3> QED
      BY <1>1, <1>8, <1>9, <1>11, <3>1, RanksSame
  <2>4. Len(walk.seen) = IF a < n THEN a ELSE n
    BY <1>11, <1>16, <2>1 DEF L!NothingTwice
  <2>5. Len(walk.seen \o items) = IF a + walk.size < n THEN a + walk.size ELSE n
    BY <1>4, <1>5, <1>7, <1>8, <2>4, WalkFields
  <2>6. L!TotalKnown' => walk'.total = n
    BY <1>9, <1>10, <1>16, <2>1 DEF L!NothingTwice
  <2>7. walk'.items # <<>> /\ Len(walk'.items) < walk'.size =>
          (walk'.page - 1) * walk'.size + Len(walk'.items) = n
    <3>1. items # <<>> => Len(items) # 0
      BY <1>7
    <3> QED
      BY <1>3, <1>4, <1>5, <1>7, <1>9, <3>1, WalkFields
  <2> QED
    BY <1>1, <1>9, <1>11, <2>1, <2>3, <2>5, <2>6, <2>7, RanksSame DEF L!NothingTwice
<1> QED
  BY <1>1, <1>9, <1>10, <1>13, <1>15, <1>16, WalkStep DEF L!IInv

-----------------------------------------------------------------------------
(* What comes or goes between two steps of a walk. *)

\* The instants of rows do not change once they are there.
Kept == \A x \in Rows : table[x].created > 0 => table'[x].created = table[x].created

LEMMA OrderedBefore ==
  ASSUME Kept, UNCHANGED list, L!Ordered', table \in [Rows -> L!Row]
  PROVE  L!Ordered
<1>1. L!Ties => L!Ties'
  BY DEF L!Ties, Kept
<1> QED
  BY <1>1 DEF L!Ordered

\* More rows in the list never bring a row forward.
LEMMA RanksGrow ==
  ASSUME Kept, UNCHANGED list, table' \in [Rows -> L!Row], L!Matching \subseteq L!Matching',
         NEW x \in L!Matching
  PROVE  L!Rank(x)' \in Nat /\ L!Rank(x)' >= L!Rank(x)
<1>1. \A y \in L!Matching : y \in Rows /\ table[y].created > 0 /\ table'[y].created = table[y].created
  BY DEF L!Matching, Kept
<1>2. Ahead(x) \subseteq Ahead(x)'
  BY <1>1 DEF Ahead, L!Before
<1>3. IsFiniteSet(Ahead(x)')
  <2>1. Ahead(x)' \in SUBSET Rows /\ IsFiniteSet(Rows)
    BY Counts DEF Ahead, L!Matching
  <2> QED
    BY <2>1, FS_Subset
<1>4. L!Rank(x)' = Cardinality(Ahead(x)')
  BY Counts DEF L!Rank, Ahead
<1> QED
  BY <1>2, <1>3, <1>4, RankIs, FS_Subset, FS_CardinalityType

LEMMA RanksStay ==
  ASSUME Kept, UNCHANGED list, L!Matching' = L!Matching, NEW x \in L!Matching
  PROVE  L!Rank(x)' = L!Rank(x)
<1>1. \A y \in L!Matching : table'[y].created = table[y].created
  BY DEF L!Matching, Kept
<1>2. {y \in L!Matching' : L!Before(y, x)'} = {y \in L!Matching : L!Before(y, x)}
  BY <1>1 DEF L!Before
<1> QED
  BY <1>2 DEF L!Rank

\* A change of the table, noted by the walk.
LEMMA TableStep ==
  ASSUME L!IInv, walk.pc # "done", ~walk.left, Kept, table' \in [Rows -> L!Row],
         UNCHANGED <<list, owners, listNow>>, L!OwnersKnown',
         NEW came \in BOOLEAN, NEW left \in BOOLEAN, L!Noted(came, left),
         ~left => L!Matching \subseteq L!Matching',
         ~left /\ ~came => L!Matching' = L!Matching
  PROVE  L!IInv'
<1>1. CASE walk.pc = "idle"
  <2>1. walk' = walk
    BY <1>1 DEF L!Noted
  <2> QED
    BY <1>1, <2>1 DEF L!IInv, L!TypeOK, L!Bounded, L!Counting
<1>2. CASE walk.pc # "idle"
  <2>1. walk' = [walk EXCEPT !.came = walk.came \/ came, !.left = walk.left \/ left,
                   !.slipped = walk.slipped \/ (came /\ L!CountsFirst /\ walk.pc = "Page")]
    BY <1>2 DEF L!Noted
  <2>2. walk \in L!Walker /\ walk.came \in BOOLEAN /\ walk.slipped \in BOOLEAN /\ walk.left \in BOOLEAN
    BY WalkFields DEF L!Walker
  <2>3. /\ walk'.pc = walk.pc /\ walk'.page = walk.page /\ walk'.size = walk.size
        /\ walk'.total = walk.total /\ walk'.items = walk.items
        /\ walk'.seen = walk.seen /\ walk'.start = walk.start
    BY <2>1, <2>2 DEF L!Walker
  <2>4. /\ walk'.came = (walk.came \/ came) /\ walk'.left = (walk.left \/ left)
        /\ walk'.slipped = (walk.slipped \/ (came /\ L!CountsFirst /\ walk.pc = "Page"))
    BY <2>1, <2>2 DEF L!Walker
  <2>5. walk' \in L!Walker
    BY <2>1, <2>2 DEF L!Walker
  <2>6. L!TypeOK'
    BY <2>5 DEF L!IInv, L!TypeOK
  <2>7. (L!CountsFirst' <=> L!CountsFirst) /\ (L!Counting' <=> L!Counting)
        /\ (L!PageRead' <=> L!PageRead) /\ (L!TotalKnown' <=> L!TotalKnown)
    BY <2>3 DEF L!CountsFirst, L!Counting, L!PageRead, L!TotalKnown
  <2>8. L!Reached' = L!Reached /\ L!Missing' = L!Missing /\ L!Missing \subseteq walk.start
    BY <2>3, <2>7 DEF L!Reached, L!Missing
  <2>9. L!Bounded'
    BY <2>3, <2>7 DEF L!IInv, L!Bounded, L!TotalPages
  <2>10. L!Reached \in Nat
    BY WalkFields, PageEnds DEF L!Reached
  <2>11. ASSUME ~walk'.left, L!Ordered' PROVE L!NothingSkipped'
    <3>1. ~left /\ L!Ordered /\ L!NothingSkipped
      BY <1>2, <2>4, <2>11, OrderedBefore, WalkFields DEF L!IInv
    <3>2. L!Matching \subseteq L!Matching' /\ walk.start \subseteq L!Matching
      BY <3>1 DEF L!NothingSkipped
    <3>3. ASSUME NEW x \in L!Missing PROVE L!Rank(x)' >= L!Reached
      <4>1. L!Rank(x) >= L!Reached /\ x \in L!Matching
        BY <2>8, <3>1, <3>2 DEF L!NothingSkipped
      <4>2. L!Rank(x)' \in Nat /\ L!Rank(x)' >= L!Rank(x) /\ L!Rank(x) \in Nat
        BY <3>2, <4>1, RanksGrow, RankIs
      <4> QED
        BY <2>10, <4>1, <4>2
    <3>4. ASSUME ~walk'.slipped
          PROVE  /\ ~walk.slipped
                 /\ walk.pc = "Page" /\ L!CountsFirst => L!Matching' = L!Matching
      BY <2>4, <3>1, <3>4
    <3>5. L!Cardinality(L!Matching)' = L!Cardinality(L!Matching')
      OBVIOUS
    <3>6. ~walk'.slipped =>
            /\ walk'.pc = "Page" /\ L!CountsFirst' => walk'.total = L!Cardinality(L!Matching)'
            /\ walk'.pc \in {"Summaries", "Turn", "done"} /\ L!Missing' # {} =>
                 walk'.total > walk'.page * walk'.size
      BY <2>3, <2>7, <2>8, <3>1, <3>4, <3>5 DEF L!NothingSkipped
    <3>7. L!Counting' /\ L!Missing' # {} => Len(walk'.items) = walk'.size
      BY <2>3, <2>7, <2>8, <3>1 DEF L!NothingSkipped
    <3> QED
      BY <2>3, <2>8, <3>2, <3>3, <3>6, <3>7 DEF L!NothingSkipped
  <2>12. ASSUME ~walk'.left, ~walk'.came, L!Ordered' PROVE L!NothingTwice'
    <3>1. ~left /\ ~came /\ L!Ordered /\ L!NothingTwice
      BY <1>2, <2>4, <2>12, OrderedBefore, WalkFields DEF L!IInv
    <3>2. L!Matching' = L!Matching /\ L!Matching = walk.start
      BY <3>1 DEF L!NothingTwice
    <3>3. L!ToSet(walk'.seen) = {x \in walk'.start : L!Rank(x)' < L!Reached'}
      <4>1. L!ToSet(walk'.seen) = {x \in walk.start : L!Rank(x) < L!Reached}
        BY <2>3, <3>1 DEF L!NothingTwice
      <4>2. \A x \in walk.start : L!Rank(x)' = L!Rank(x)
        BY <3>2, RanksStay
      <4> QED
        BY <2>3, <2>8, <4>1, <4>2
    <3> QED
      BY <2>3, <2>7, <2>8, <3>1, <3>2, <3>3 DEF L!NothingTwice
  <2> QED
    BY <2>3, <2>6, <2>9, <2>11, <2>12, WalkFields DEF L!IInv
<1> QED
  BY <1>1, <1>2

\* A row is inserted some time after its instant was read from the clock.
LEMMA InsertKeeps ==
  ASSUME L!IInv, walk.pc \notin {"done", "failed"}, ~walk.left,
         NEW x \in Rows, NEW created \in 1..listNow, NEW matches \in BOOLEAN,
         NEW owner \in Owners \cup {NoOwner}, L!Insert(x, created, matches, owner)
  PROVE  L!IInv'
<1>1. table \in [Rows -> L!Row] /\ listNow \in 1..ListTime
  BY DEF L!IInv, L!TypeOK
<1>2. PICK row : row = [created |-> created, matches |-> matches, owner |-> owner]
  OBVIOUS
<1>3. row \in L!Row /\ row.created > 0 /\ row.matches = matches /\ row.owner = owner
  <2>1. created \in 0..ListTime /\ created > 0
    BY <1>1
  <2> QED
    BY <1>2, <2>1 DEF L!Row
<1>4. /\ table[x].created = 0 /\ table' = [table EXCEPT ![x] = row]
      /\ owner \in owners \cup {NoOwner} /\ L!Noted(matches, FALSE)
      /\ UNCHANGED <<list, owners, listNow>>
  <2>1. table[x] = L!NoRow /\ table' = [table EXCEPT ![x] = row]
    BY <1>2 DEF L!Insert
  <2>2. owner \in owners \cup {NoOwner} /\ L!Noted(matches, FALSE)
        /\ UNCHANGED <<list, owners, listNow>>
    BY DEF L!Insert
  <2>3. L!NoRow.created = 0
    BY DEF L!NoRow
  <2> QED
    BY <2>1, <2>2, <2>3
<1>5. table' \in [Rows -> L!Row] /\ table'[x] = row /\ \A y \in Rows \ {x} : table'[y] = table[y]
  BY <1>1, <1>3, <1>4
<1>6. Kept
  BY <1>4, <1>5 DEF Kept
<1>7. L!OwnersKnown'
  BY <1>3, <1>4, <1>5 DEF L!IInv, L!OwnersKnown
<1>8. x \notin L!Matching
  BY <1>4 DEF L!Matching
<1>9. L!Matching \subseteq L!Matching'
  BY <1>5, <1>8 DEF L!Matching
<1>10. ~matches => L!Matching' = L!Matching
  BY <1>3, <1>5, <1>8 DEF L!Matching
<1> QED
  BY <1>4, <1>5, <1>6, <1>7, <1>9, <1>10, TableStep

\* A status change moves a row into the filter or out of it.
LEMMA RefilterKeeps ==
  ASSUME L!IInv, walk.pc \notin {"done", "failed"}, ~walk.left,
         NEW x \in Rows, L!Refilter(x)
  PROVE  L!IInv'
<1>1. table \in [Rows -> L!Row] /\ table[x].matches \in BOOLEAN /\ table[x] \in L!Row
  BY DEF L!IInv, L!TypeOK, L!Row
<1>2. PICK row : row = [table[x] EXCEPT !.matches = ~table[x].matches]
  OBVIOUS
<1>3. /\ row \in L!Row /\ row.created = table[x].created /\ row.owner = table[x].owner
      /\ row.matches = ~table[x].matches
  BY <1>1, <1>2 DEF L!Row
<1>4. table' = [table EXCEPT ![x] = row] /\ L!Noted(~table[x].matches, table[x].matches)
      /\ UNCHANGED <<list, owners, listNow>>
  BY <1>1, <1>2 DEF L!Refilter
<1>5. table' \in [Rows -> L!Row] /\ table'[x] = row /\ \A y \in Rows \ {x} : table'[y] = table[y]
  BY <1>1, <1>3, <1>4
<1>6. Kept
  BY <1>3, <1>5 DEF Kept
<1>7. L!OwnersKnown'
  BY <1>3, <1>4, <1>5 DEF L!IInv, L!OwnersKnown
<1>8. ~table[x].matches => L!Matching \subseteq L!Matching'
  BY <1>5 DEF L!Matching
<1>9. (~table[x].matches) \in BOOLEAN
  OBVIOUS
<1> QED
  BY <1>1, <1>4, <1>5, <1>6, <1>7, <1>8, <1>9, TableStep

LEMMA MeanwhileKeeps ==
  ASSUME L!IInv, L!Meanwhile
  PROVE  L!IInv'
<1>1. walk.pc \notin {"done", "failed"} /\ ~walk.left
  BY DEF L!Meanwhile
<1>2. ASSUME UNCHANGED <<list, table, walk>>, L!TypeOK', owners \subseteq owners'
      PROVE  L!IInv'
  <2>1. L!OwnersKnown'
    BY <1>2 DEF L!IInv, L!OwnersKnown
  <2>2. L!Ordered' <=> L!Ordered
    BY <1>2 DEF L!Ordered, L!Ties
  <2>3. /\ (L!Counting' <=> L!Counting) /\ L!Reached' = L!Reached /\ L!Missing' = L!Missing
        /\ (L!TotalKnown' <=> L!TotalKnown) /\ L!Bounded'
    BY <1>2 DEF L!IInv, L!Counting, L!CountsFirst, L!Reached, L!PageRead, L!Missing,
                L!TotalKnown, L!Bounded, L!TotalPages
  <2>4. L!NothingSkipped => L!NothingSkipped'
    BY <1>2, <2>3, RanksSame DEF L!NothingSkipped
  <2>5. L!NothingTwice => L!NothingTwice'
    BY <1>2, <2>3, RanksSame DEF L!NothingTwice
  <2> QED
    BY <1>2, <2>1, <2>2, <2>3, <2>4, <2>5 DEF L!IInv
<1>3. ASSUME NEW o \in Owners, L!InsertOwner(o) PROVE L!IInv'
  BY <1>2, <1>3 DEF L!InsertOwner, L!IInv, L!TypeOK
<1>4. CASE L!Tick
  <2>1. listNow + 1 \in 1..ListTime
    BY <1>4 DEF L!Tick, L!IInv, L!TypeOK
  <2> QED
    BY <1>2, <1>4, <2>1 DEF L!Tick, L!IInv, L!TypeOK
<1> QED
  BY <1>1, <1>3, <1>4, InsertKeeps, RefilterKeeps DEF L!Meanwhile

LEMMA ListingInit == L!Init => L!IInv
<1> SUFFICES ASSUME L!Init PROVE L!IInv
  OBVIOUS
<1>1. L!NoRow \in L!Row
  BY DEF L!NoRow, L!Row
<1>2. L!NoWalk \in L!Walker /\ L!NoWalk.pc = "idle"
  <2>1. 1 \in 1..(Cardinality(Rows) + 1) /\ 0 \in 0..Cardinality(Rows) /\ <<>> \in Seq(Rows)
    BY MatchingFinite
  <2>2. MinPageSize \in MinPageSize..MaxPageSize
    OBVIOUS
  <2> QED
    BY <2>1, <2>2, Counts DEF L!NoWalk, L!Walker
<1>3. L!TypeOK
  BY <1>1, <1>2 DEF L!Init, L!TypeOK
<1>4. L!OwnersKnown
  BY DEF L!Init, L!OwnersKnown, L!NoRow
<1> QED
  BY <1>2, <1>3, <1>4 DEF L!Init, L!IInv, L!Bounded, L!Counting

LEMMA ListingNextKeeps == L!IInv /\ [L!Next]_(L!vars) => L!IInv'
<1> SUFFICES ASSUME L!IInv, [L!Next]_(L!vars) PROVE L!IInv'
  OBVIOUS
<1>1. CASE UNCHANGED L!vars
  BY <1>1 DEF L!vars, L!IInv, L!TypeOK, L!OwnersKnown, L!Bounded, L!Counting, L!CountsFirst,
              L!TotalPages, L!Ordered, L!Ties, L!NothingSkipped, L!NothingTwice, L!Missing,
              L!Reached, L!PageRead, L!TotalKnown, L!Matching, L!Rank, L!Before
<1>2. ASSUME NEW asked \in Asked,
             \/ L!ListCustomers(asked) \/ L!ListLicenses(asked)
             \/ L!ListInstallations(asked) \/ L!ListAuditEvents(asked)
      PROVE  L!IInv'
  BY <1>2, WalkKeeps DEF L!ListCustomers, L!ListLicenses, L!ListInstallations, L!ListAuditEvents
<1> QED
  BY <1>1, <1>2, CountKeeps, PageKeeps, SummariesKeeps, TurnKeeps, MeanwhileKeeps DEF L!Next

\* A walk that is done has asked for as many pages as the total calls for: a row
\* not shown would have called for one more.
LEMMA WalkShows == L!IInv => L!WalkExact
<1> SUFFICES ASSUME L!IInv, walk.pc = "done", ~walk.left, L!Ordered
             PROVE  /\ ~walk.slipped => walk.start \subseteq L!ToSet(walk.seen)
                    /\ ~walk.came => /\ L!ToSet(walk.seen) = walk.start
                                     /\ Len(walk.seen) = walk.total
                                     /\ walk.total = L!Cardinality(walk.start)
  BY DEF L!IInv, L!WalkExact, L!Ordered
<1>1. walk.total <= walk.page * walk.size /\ walk.page * walk.size \in Nat /\ walk.total \in Nat
  <2>1. L!TotalPages(walk.total, walk.size) \in Nat
        /\ walk.page >= L!TotalPages(walk.total, walk.size)
    BY WalkFields, MorePages DEF L!IInv, L!Bounded
  <2>2. ~(walk.page < L!TotalPages(walk.total, walk.size))
    BY <2>1, WalkFields
  <2>3. ~(walk.page * walk.size < walk.total)
    BY <2>2, WalkFields, MorePages
  <2> QED
    BY <2>3, WalkFields, PageEnds
<1>2. ASSUME ~walk.slipped PROVE walk.start \subseteq L!ToSet(walk.seen)
  <2>1. L!Missing # {} => walk.total > walk.page * walk.size
    BY <1>2 DEF L!IInv, L!NothingSkipped
  <2> QED
    BY <1>1, <2>1 DEF L!Missing
<1>3. ASSUME ~walk.came
      PROVE  /\ L!ToSet(walk.seen) = walk.start
             /\ Len(walk.seen) = walk.total
             /\ walk.total = L!Cardinality(walk.start)
  <2>1. L!NothingTwice /\ L!Reached = walk.page * walk.size /\ L!TotalKnown
    BY <1>3 DEF L!IInv, L!Reached, L!PageRead, L!TotalKnown
  <2>2. walk.total = L!Cardinality(walk.start) /\ L!Matching = walk.start
        /\ walk.total = Cardinality(L!Matching)
    BY <2>1, Counts DEF L!NothingTwice
  <2>3. \A x \in walk.start : L!Rank(x) < L!Reached
    <3>1. ASSUME NEW x \in walk.start PROVE L!Rank(x) < L!Reached
      <4>1. L!Rank(x) \in Nat /\ L!Rank(x) < walk.total
        BY <2>2, RankIs, RankBelow, WalkFields
      <4> QED
        BY <1>1, <2>1, <4>1
    <3> QED
      BY <3>1
  <2>4. L!ToSet(walk.seen) = walk.start
    BY <2>1, <2>3 DEF L!NothingTwice
  <2>5. Len(walk.seen) = walk.total
    BY <1>1, <2>1, <2>2 DEF L!NothingTwice
  <2> QED
    BY <2>2, <2>4, <2>5
<1> QED
  BY <1>2, <1>3

-----------------------------------------------------------------------------
(* The parts of the composition: a step of one scene leaves the others alone. *)

LEMMA HeartbeatPart == MCSpec => Spec
<1>1. [HeartbeatNext \/ CustomersNext \/ ListingNext \/ PoolNext]_mcvars => [Next]_vars
  <2>1. CASE HeartbeatNext
    BY <2>1 DEF HeartbeatNext, HeartbeatScene, Next
  <2>2. CASE CustomersNext \/ ListingNext \/ PoolNext
    BY <2>2 DEF CustomersNext, CustomersScene, ListingNext, ListingScene, PoolNext, PoolScene
  <2>3. CASE UNCHANGED mcvars
    BY <2>3 DEF mcvars
  <2> QED
    BY <2>1, <2>2, <2>3
<1> QED
  BY <1>1, PTL DEF MCSpec, MCInit, Spec

LEMMA CustomersPart == MCSpec => C!Spec
<1>1. [HeartbeatNext \/ CustomersNext \/ ListingNext \/ PoolNext]_mcvars => [C!Next]_(C!vars)
  <2>1. CASE CustomersNext
    BY <2>1 DEF CustomersNext, CustomersScene, C!Next
  <2>2. CASE HeartbeatNext \/ ListingNext \/ PoolNext
    BY <2>2 DEF HeartbeatNext, HeartbeatScene, ListingNext, ListingScene, PoolNext, PoolScene,
                customersVars, C!vars
  <2>3. CASE UNCHANGED mcvars
    BY <2>3 DEF mcvars, customersVars, C!vars
  <2> QED
    BY <2>1, <2>2, <2>3
<1> QED
  BY <1>1, PTL DEF MCSpec, MCInit, C!Spec

LEMMA PoolPart == MCSpec => P!Spec
<1>1. [HeartbeatNext \/ CustomersNext \/ ListingNext \/ PoolNext]_mcvars => [P!Next]_(P!vars)
  <2>1. CASE PoolNext
    BY <2>1 DEF PoolNext, PoolScene, P!Next
  <2>2. CASE HeartbeatNext \/ CustomersNext \/ ListingNext
    BY <2>2 DEF HeartbeatNext, HeartbeatScene, CustomersNext, CustomersScene,
                ListingNext, ListingScene, poolVars, P!vars
  <2>3. CASE UNCHANGED mcvars
    BY <2>3 DEF mcvars, poolVars, P!vars
  <2> QED
    BY <2>1, <2>2, <2>3
<1> QED
  BY <1>1, PTL DEF MCSpec, MCInit, P!Spec

LEMMA ListingPart == MCSpec => L!Spec
<1>1. [HeartbeatNext \/ CustomersNext \/ ListingNext \/ PoolNext]_mcvars => [L!Next]_(L!vars)
  <2>1. CASE ListingNext
    BY <2>1 DEF ListingNext, ListingScene, L!Next
  <2>2. CASE HeartbeatNext \/ CustomersNext \/ PoolNext
    BY <2>2 DEF HeartbeatNext, HeartbeatScene, CustomersNext, CustomersScene,
                PoolNext, PoolScene, listingVars, L!vars
  <2>3. CASE UNCHANGED mcvars
    BY <2>3 DEF mcvars, listingVars, L!vars
  <2> QED
    BY <2>1, <2>2, <2>3
<1> QED
  BY <1>1, PTL DEF MCSpec, MCInit, L!Spec

\* Every variable of the composition keeps its type.
THEOREM FleetTypes == MCSpec => []TypesOK
<1>1. L!Spec => []L!TypeOK
  <2>1. L!IInv => L!TypeOK
    BY DEF L!IInv
  <2> QED
    BY <2>1, ListingInit, ListingNextKeeps, PTL DEF L!Spec
<1>2. P!Spec => []P!TypeOK
  <2>1. P!IInv => P!TypeOK
    BY DEF P!IInv
  <2> QED
    BY <2>1, PoolInit, PoolNextKeeps, PTL DEF P!Spec
<1>3. C!Spec => []C!TypeOK
  BY CustomersAssumption, C!TypeCorrect
<1> QED
  BY <1>1, <1>2, <1>3, HeartbeatPart, HeartbeatTypes, CustomersPart, ListingPart, PoolPart, PTL
     DEF TypesOK

\* For any rows, page sizes and number of pages, with rows coming and entering the
\* filter at any moment: a walk shows everything that was there when it began, and
\* while nothing comes everything once and as many as the total says
\* (normalizePagination, buildPaginatedResult and list() of the repositories).
THEOREM FleetWalkExact == MCSpec => []WalkExact
<1>1. L!Spec => []L!WalkExact
  BY ListingInit, ListingNextKeeps, WalkShows, PTL DEF L!Spec
<1> QED
  BY <1>1, ListingPart DEF WalkExact

\* What CustomersProofs proves of Customers holds beside everything else the API
\* does: the trail of a Customer replays to its row.
THEOREM FleetTrailReplays == MCSpec => []TrailReplays
  BY CustomersAssumption, CustomersPart, C!TrailTells DEF TrailReplays

\* ... and nothing is created for a Customer that was not ACTIVE when its request
\* came or since (CustomersProofs).
THEOREM FleetNothingForClosed == MCSpec => NothingForClosed
  BY CustomersAssumption, CustomersPart, C!NothingIsCreatedForClosed DEF NothingForClosed

\* For any number of requests and Installations and any size of the pool: when
\* nobody can go on, the whole pool is held by transactions, and one of them is
\* an enrollment under its row lock that waits for the connection of a reader
\* (DataSource.transaction, EnrollInstallationUseCase).
THEOREM PoolStallTakesAll == MCSpec => []StallTakesAll
<1>1. P!Spec => []P!StallTakesAll
  BY PoolInit, PoolNextKeeps, StallExplained, PTL DEF P!Spec
<1> QED
  BY <1>1, PoolPart DEF StallTakesAll

=============================================================================
