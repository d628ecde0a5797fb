# Verification of the POS Cloud control plane

`src/` is a TypeScript monorepo: a modular monolith in NestJS over PostgreSQL
(through TypeORM) and Redis. This directory holds TLA+ modules of its core, TLC
configurations that check them on small instances, and theorems that TLAPS
proves for every instance.

The program has few long algorithms. What is hard in it is that every HTTP
request is a handler of its own that reads rows, decides, and writes rows, while
other requests do the same; that some handlers do this under row locks and
others on a row they read a while ago; and that a process may die between two
steps. The modules model that.

## Running the checks

    tlc -config MCEnrollmentSafety.cfg MCEnrollment      (any cfg of PROJECT.json)
    tlapm EnrollmentProofs.tla

## The system: an inventory

Paths are under `src/libs/control-plane/` unless they start with `src/`.

| Component | State | Operations | Interacts with |
|---|---|---|---|
| Installation enrollment and lifecycle (`installations`) | tables `installations`, `installation_enrollments`, `installation_credentials` | issue an initial or recovery code, enroll with a code, change status, revoke the credential | reads Customer and License through ports; writes audit events |
| Installation creation (`installations`) | table `installations`, advisory lock per License | create under a License of limited capacity | same |
| Heartbeat and health (`installations`) | table `installation_health` | record a heartbeat; compute health from the last one | behind the guard that authenticates an Installation by its credential |
| Admin sessions (`access-management`) | table `admin_sessions` | login, refresh (rotation, replay detection), logout | access tokens are signed, not stored |
| Login lockout (`access-management`) | columns of `admin_users` | login: count failures, lock for a while | precedes the session of a login |
| Roles, permissions, first administrator (`access-management`) | `admin_users`, roles seeded by migrations | bootstrap, assign role, resolve permissions per request | guards of every controller |
| Licensing (`licensing`) | tables `licenses`, `license_entitlements` | create, change status, replace entitlements | read by Installations |
| Customer management (`customer-management`) | table `customers` | create, change status | read by Licensing and Installations |
| Audit (`audit`) | table `audit_events`, append only | record (best effort, after the commit), list | called by every use case that changes something |
| Cross-context readers (`src/apps/api/src/control-plane/adapters`) | none | answer questions of one context about another | contexts never share a database transaction |
| Lists (every context) | none | a page, its total and the names of what its rows refer to, in two or three queries | rows inserted and changed meanwhile |
| Migrations (`src/libs/database`) | tables, permissions, roles and grants; the ledger of migrations | run, revert | the bootstrap and the guards read what they seed |
| Connection pool (`src/libs/database`) | connections of the `DataSource` | taken by every query and every transaction | row locks are waited for with a connection in hand |
| API shell, worker, migration tooling, configuration, shared kernel, observability, messaging | none that outlives a request | wiring, health probes, parsing of the environment, logging | — |

### What is hard, and what makes each component correct

* **Enrollment.** Issuing a code revokes the open one; enrolling consumes a code,
  replaces the credential and may activate the Installation, four rows in one
  transaction. Both lock the Installation row first and a code row second.
  Status changes and revocations take no lock. Correct means: at most one open
  code and one working credential per Installation, a code buys one credential,
  nothing is issued to a decommissioned Installation, nobody waits in a circle,
  and the audit trail never names what was rolled back.
* **Creation.** Two creations under one License must not count the same free
  seat (advisory lock); two under different Licenses must not take the same
  code (unique index). A seat is given back by decommissioning. Correct means
  that capacity is never exceeded and codes are unique.
* **Sessions.** A refresh token is exchanged for one successor under the row lock
  of its session; presenting an exchanged token ends every session of that
  administrator. Correct means that a token has one successor, that an
  exchanged token is dead for good, and that the mass revocation is not lost.
* **Licensing.** A License and its entitlements are one aggregate, read without a
  lock and saved as a whole: a status change saves the entitlements it read, a
  replacement saves the status it read, and they lock the two tables in opposite
  orders. Correct means that a request nobody interferes with does exactly what
  it was asked for, that numbers and codes stay unique whatever happens, and that
  circular waits end.
* **Login lockout.** Read, verify, save, without a lock. Correct means: exact while
  logins of one account do not overlap, and erring to the administrator's side
  only when they do.
* **Customer management.** Read, decide, save, without a lock, and an audit event
  after it. Correct means that the trail replays to the row unless changes
  overlapped or were cut off, and that nothing is created for a Customer that was
  closed all the while.
* **Heartbeat.** Heartbeats may be written in another order than they were
  received; the latest must win as a whole. Health is computed from a status, a
  snapshot and a clock read one after the other.
* **Roles and bootstrap.** Check, insert and assign are three transactions, the
  migrations backfill roles for administrators of earlier releases, and a token
  outlives the roles of its bearer. Correct means that no administrator falls
  between backfill and assignment, and that the roles in the database at the
  moment of the query decide.
* **Migrations.** Permissions and grants are seeded by three migrations and deleted by
  their reverts. Correct means that the catalogue always is that of the applied
  migrations, and that of the code once all are.
* **Lists.** Correct means that a walk through all pages shows what was there, as far
  as the order and the number of queries allow.
* **Connection pool.** The readers called inside the enrollment transaction take a
  second connection of the pool while the first is held.

## Modules

| Module | Models |
|---|---|
| `InstallationStatus` | the statuses and the transition table of `installation-status.ts` |
| `Enrollment` | the four use cases that change an Installation after its creation |
| `EnrollmentContract` | what enrollment promises, in atomic steps |
| `EnrollmentInv`, `EnrollmentProofs` | inductive facts and theorems |
| `Provisioning` | creation under capacity, next to status changes |
| `ProvisioningContract`, `ProvisioningInv`, `ProvisioningProofs` | likewise |
| `AdminSessions`, `AdminSessionContract` | refresh sessions, and what they promise |
| `AdminSessionsInv`, `AdminSessionsProofs` | inductive invariant and theorems |
| `Licensing` | creation, replacement of entitlements and status change of Licenses |
| `LicensingInv`, `LicensingProofs` | inductive facts and theorems |
| `LoginLockout` | the counter of failed logins and the lock window |
| `Rbac` | permissions, roles, the routes of every controller with their decorators, and what the two guards make of them |
| `Migrations` | what each of the eight migrations creates, seeds and drops |
| `Access` | bootstrap, guards, runs and reverts of migrations, on the two modules above |
| `AccessInv`, `AccessProofs` | inductive invariant and theorems |
| `Heartbeat` | the guard of Installations, the upsert of heartbeats, health as it is asked for |
| `Customers` | Customers, their audit trail, and what other contexts create for them through the readers |
| `CustomersInv`, `CustomersProofs` | inductive invariant and theorems |
| `Listing` | the four paginated lists, and a client that walks through one |
| `ListingInv` | its inductive invariant |
| `ConnectionPool` | the connections of the API and the row locks waited for on them |
| `ConnectionPoolInv` | its inductive invariant |
| `MCAccess` | composes `LoginLockout` with `Access` |
| `MCAccessProofs` | theorems about `LoginLockout`, and those of the composition |
| `MCFleet` | composes `Heartbeat`, `Customers`, `Listing` and `ConnectionPool` |
| `MCFleetProofs` | theorems about `Heartbeat`, `ConnectionPool` and `Listing`, and those of the composition |
| `MC...` | the other instances TLC checks |

Which module composes which: `Enrollment`, `Provisioning` and `Heartbeat` extend
`InstallationStatus`; `Migrations` extends `Rbac`, and `Access` extends `Migrations`.
`Customers` stands between Licensing, Provisioning and Enrollment: it has their
first steps (asking the readers) and their last (the row is there), with every
status change of the two contexts asked in between; what happens inside their
transactions is the subject of their own modules.

### How state and actions correspond to the code

Table variables (`installations`, `enrollments`, `credentials`, `sessions`) hold
what is **committed**. `req[r]` is the handler request `r` is in: a program counter
named after the next step, and the locals the handler reads later. One HTTP
request runs from `await` to `await` without interruption, so a step is what lies
between two of them; several writes of one transaction become visible together,
at its commit, and are one step there. `lock` says which transaction holds a row
(or advisory) lock.

PostgreSQL and TypeORM are modelled from how the code uses them:

* READ COMMITTED: every statement sees what is committed when it starts. A
  `SELECT ... FOR UPDATE` waits for the lock and then reads the newest row. An
  `UPDATE` of many rows works on those it saw at its start, locks them one by
  one, and evaluates its condition again on a row that has changed meanwhile.
* `Repository.save(entity)` of an entity read earlier selects the row again and
  updates the columns that differ from that second read. The two statements are
  two steps (`ChangeSelect`, `ChangeUpdate`; `LogoutSelect`, `LogoutUpdate`): what
  commits between them is overwritten in part.
* A crash (`Crash`) ends the handler and rolls back its open transaction, at any
  step. A thrown error does the same (`Rollback`).
* Unique indexes. `Provisioning` models the one on codes, since a creation under
  another License runs into it. `Enrollment` leaves out those on open codes and on
  active credentials **on purpose**: the comments call them a backstop, and the
  properties `CodesInOrder` and `OneActiveCredential` show that it is never needed.

* `Licensing` has no lock table: who has locked what follows from the locals of a
  request (the rows it deleted, the keys it inserted, whether it has updated the
  License), and `WaitsFor` says who waits for whom. A `DELETE` sees the rows
  committed when it starts, waits for those another transaction has deleted, and
  skips them if that one commits; an `INSERT` waits for whoever decides whether its
  key is in the unique index. `DeadlockAbort` is PostgreSQL's detector.
* `manager.save` of entitlements selects them by id and inserts those that are not
  there (`ChangeMatch`): rows a replacement has removed since they were read come
  back.

* `ON CONFLICT DO UPDATE` is one step on the newest row (`Heartbeat!Upsert`). A `GREATEST`
  and two `CASE` of the code are one comparison there, since they compare the same
  two instants.
* TypeORM's `getManyAndCount` runs the page and then the total, and may derive the
  total from a page that is not full (`Listing!Totals`). The list of Installations
  counts first.
* pg-pool hands out at most `PoolSize` connections and serves its queue in order; a
  transaction keeps its connection while it waits for a row lock.
* A migration is one transaction. `CREATE` and `INSERT` fail on what is there already,
  `DROP SCHEMA` on what is not empty.

Abstractions: ids, codes and secrets are model values, and a wrong secret is a
request that is not `genuine`. Time is an event that may happen to a code or a
session (`Expire`), or a clock that ticks where instants are compared (`LoginLockout`,
`Heartbeat`, `Listing`). In `Enrollment` and `Provisioning` the answers of the Customer and License readers are a free
choice, which covers every state of those components and every interleaving with
them; `Customers` is about those interleavings. Validation of request bodies and
message texts are left out. Audit events are kept as the last one (`Enrollment`), as a
set (`Provisioning`) or in their order (`Customers`); their insert may fail silently, as
`AuditRecorderAdapter.record` lets it.

In `Listing` a row either matches the filter or does not. What can be filtered by
decides whether it may start or stop to match: nothing but a status ever changes,
and an audit event has none.

`Enrollment` and `Provisioning` overlap in the status change, which matters to both,
and share the transition table. `Provisioning` does not repeat enrollment: it has
only its effect on the status (`Activate`).

## Runs

| Run | Shows |
|---|---|
| `enrollment_safety` | one Installation, three codes and credentials, two requests at a time, every endpoint, crashes and expiry: 925 000 states up to symmetry |
| `enrollment_contract` | two Installations, two codes and credentials: `EnrollmentContract` is implemented, every request is answered |
| `enrollment_terminal` | **violation**: two status changes bring a DECOMMISSIONED Installation back |
| `sessions_safety` | three sessions of two administrators: safety properties and `AdminSessionContract` |
| `sessions_liveness` | every refresh and logout is answered, circular waits included |
| `sessions_replay_all` | **violation**: a successor born during the mass revocation survives it |
| `provisioning_safety` | Licenses of one and two seats, three Installations, two codes: capacity, unique codes, `ProvisioningContract`, every request answered |
| `provisioning_exceeded` | **violation**: a stale status change exceeds the capacity |
| `licensing_safety` | two Licenses that want one number, one code, two requests of any kind: unique numbers and codes, exact effects, every request answered |
| `licensing_wholesale` | **violation**: two replacements leave the union of their sets |
| `access_safety` | logins of one administrator, three failures to a lock; two bootstraps, two administrators, one request at every route, the eight migrations run and reverted: counter and lock, catalogue, roles, guards |
| `fleet_safety` | two heartbeats and a question about one Installation; two Customers and four requests; a walk through each of the four lists; three requests on a pool of two connections: 710 000 states |

The last two compose components that do not share state. Each behaviour is about
one of them (`scene`), so that their states add up; the properties hold of all.
They stop where their clocks and counters end, hence `CHECK_DEADLOCK FALSE` there.

Two of the properties are conjunctions. `CodesInOrder` says that an Installation has one
open code at most, that no code is both consumed and revoked, and that only the first
enrollment activates; `OneLiveToken` that a refresh token has one successor at most, and
that an exchanged token stays dead.

Every property of a passing run has a mutant in PROJECT.json: a faulty variant of
a definition, which stands beside it in its module (`Rollback_KeepsLocks` beside
`Rollback`), and under which TLC finds the property violated.

### Bounds, and why they are enough

* **Two requests at a time.** They interleave at every step, and a third takes part
  as soon as one has ended, so any number take part one after the other. The
  interferences the locks are there for are between two requests. Circular waits
  of more are excluded by a theorem (`NoDeadlock`), and `CapacityKept` covers any
  number of concurrent creations.
* **Three codes and credentials of one Installation**: an open code, the one that
  replaces it, and one more for a recovery. **Two Installations** in the contract run
  show that requests for one never touch the other; status changes are left out
  there (they touch neither codes nor credentials) and are in the safety run.
* **Three sessions**: one that is rotated, its successor, and another login, of the
  same or another administrator. The violation takes four.
* **Licenses of one and two seats, three Installations, two codes**: full and not
  full, the last seat wanted twice, one code wanted under two Licenses.
* **One number, one code, two sets of entitlements** in `licensing_safety`: with a stale
  copy, a committed row and an empty set, every row can be removed, brought back
  and run into. The violation takes two codes and three sets. A name of a set is
  given again when nothing refers to it, so these bounds bound no history.
* **Logins**: two at a time, six in all, three failures to a lock of two ticks: a lock
  can begin, end, be overwritten by a login that passed the gate before it, and
  begin again. The limit of the code is five; only the number of failures below it
  changes.
* **Access**: two bootstraps are enough to race, two emails to collide or not, and one
  request at a time, since requests change nothing. All routes, permissions and
  migrations are the real ones. A database starts at any release.
* **Heartbeats**: two, so that one overtakes the other; four instants cover before, at
  and after both thresholds (one and two ticks); one question, which has three
  steps. Requests of different Installations share nothing.
* **Customers**: two, two requests at a time, four in all: a closing, a reopening or
  another change, and a creation in between.
* **Lists**: three rows, pages of one and two, two instants: full and partial pages,
  ties, a row inserted before or after the page that is read. What came is told from
  what left, since an offset cannot cope with the latter: a row that leaves the filter
  moves those behind it to the page before.
* **Pool**: two connections, three requests, two Installations. A stall takes two
  connections and two requests; the third shows that others wait with them.
* Ids are not reused; when they run out, nothing new arrives. Status changes in
  `provisioning_safety` only decommission: what else may happen is the subject of
  `provisioning_exceeded`.

### Fairness

`FairSpec` assumes, of each request: weak fairness of the steps that wait for
nobody (the event loop resumes every handler whose promise has settled), and
strong fairness of those that wait for a lock (PostgreSQL queues the waiters of a
lock). `AdminSessions` and `Licensing` also assume that the deadlock detector of PostgreSQL
(`deadlock_timeout`, on by default) aborts some transaction of a circle. No fairness
is assumed of clients, of crashes or of time. `CHECK_DEADLOCK` stays on in these runs: an idle
system can always take a step. `access_safety` and `fleet_safety` check safety only and
assume no fairness; that requests of a pool may wait for ever is what
`StallTakesAll` is about.

## What is proved

* `EnrollmentProofs!TypeCorrect`, `NoDeadlock`: for any sets of Installations, codes,
  credentials and requests. Type correctness needs that a handler's locals are set
  where it uses them (`LocalsSet`). `NoDeadlock` needs `LocksHeld`, which ties the
  lock table to the program counters: a request that waits for a code row holds an
  Installation row, one that waits for an Installation row holds nothing. So in a
  set of requests each of which waits for another of the set, none could wait for
  an Installation, and those that wait for codes all hold theirs: the code they
  wait for belongs to the same Installation, whose row only one of them can hold.
* `OneCredential`, `CodeExchangedOnce`, `CodesStayInOrder`, `EnrolledBeforeOperating`
  and `AuditTells` are the safety invariants of the same component. They rest on
  `EnrollmentInv!IInv`: what the tables say (`Tables`), what a handler that is half way
  knows of them (`AllSound`: a fresh id is not given twice, what an issuance or an
  enrollment verified under its locks is still so when it commits (`IssueRelies`,
  `EnrollRelies`), while the row a status change saves may be stale and only its target
  was legal once (`ChangeRelies`)), and who holds which lock (`LocksHeld`).
  Every action that writes has one lemma that says what it writes; every part of the
  invariant that it can disturb follows from that and from the locks. From the same
  invariant come two action properties, `CredentialsForOperating` and
  `ActivatedByEnrollment`, and `EnrollmentImplements`: every step of the handlers is
  a step of `EnrollmentContract` or leaves its variables alone.
* `ProvisioningProofs!TypeCorrect`, `CodesUnique`, `CapacityKept`. `WithinCapacity` is not
  inductive: `CreateCommit` inserts a row without looking at the count. What makes
  it so is that the seat found at `CreateCount` is still there at the commit
  (`SeatLeft`), because every other creation under that License is kept out by the
  advisory lock (`LocksHeld`) and everything else only gives seats back. The last
  part is why `CapacityKept` assumes that administrators only decommission
  (`Targets \subseteq {"DECOMMISSIONED"}`): without it the statement is false, as
  `provisioning_exceeded` shows. `CodesUnique` needs no such assumption.
* `ProvisioningImplements`: under the assumption of `CapacityKept`, for the same reason,
  `Provisioning` implements `ProvisioningContract`. A commit of the handlers is the
  contract's atomic creation because `SeatLeft` still holds when it happens, and the
  rows that are there are counted by both modules alike (`SameCardinality`).

* `AdminSessionsProofs!TypeCorrect`, `LiveTokenUnique`, `SessionsEndForCause`,
  `ReplayEndsWhatItSaw`, `SessionsImplement`. `OneLiveToken` is a statement about rows
  that are written in two transactions (the successor and the rotated row commit
  together, a logout saves the row it read before): `Relies` says that the session
  about to be rotated is locked by who rotates it and still active, and that a mass
  revocation started from a genuine replay and reaches the sessions of one
  administrator, each of which it has still to do, holds, or found ended; `HeldWithin`,
  that a request holds no row but its session's and those it saw. `SessionsEndForCause` and `ReplayEndsWhatItSaw` are action properties;
  `SessionsImplement` shows that the handlers implement `AdminSessionContract`, in
  which a session is rotated, ended or ended together with others in one step.

* `LicensingProofs!TypeCorrect`, `NumbersUnique`, `CodesUnique`,
  `CirclesTakeReplacements`, `ExactWhenAlone`. The tables hold only what is committed,
  so `CodeOnce` says nothing of a commit to come: `Grounded` ties the rows a
  transaction has deleted and the keys it has inserted to the tables, `Apart` ties
  the locals of two transactions to each other (this is what the locks buy), and a
  commit then keeps both. `Apart` also shows that two status changes that have
  passed the License row are at different Licenses, hence never wait for each
  other's keys: a circle takes a replacement. `ExactWhenAlone` is the action property
  `AloneIsExact`; its invariant `AloneInv` says how far a handler has come that
  nobody interferes with (`OnCourse`), and that no other is at its License. No run
  checks `CircleNeedsReplacement`, which two requests cannot violate; TLC has
  confirmed the invariants on the instance of `licensing_wholesale`.

* `MCFleetProofs!HeartbeatTypes`, `HeartbeatLatestWins`, `HeartbeatAnswerVouched`.
  `LatestWins` also takes that an instant of receipt is never the NULL that tells a row
  from none (`Stamped`). For the answers, `Read` says what a question knows at each of
  its steps: the snapshot it has read was that of the heartbeats written by then, and a
  heartbeat that was written never changes (`WrittenFrozen`), so what was true when the
  snapshot was read can still be said when the answer is given.
* `MCAccessProofs!LoginLockedByFailures`, `LoginCountedExactly`. What a login saves
  is what it has in memory, so that `InMemory` asks of every AdminUser in memory what
  the property asks of the row. `CountedExactly` speaks of accounts no login is busy
  with; `Exact` says what holds meanwhile: from the verification of the password to the
  save the history is ahead of the row, and the only login of the account has in memory
  what it says. Both proofs speak of `Nat` where `TypeOK` has the bounds of the run:
  nothing in them depends on `MaxLogins` or `MaxTime`. That the bounds are kept takes
  an argument of its own (`Bounds`): a login that has yet to verify its password leaves
  room for one more failure, so that the wrong passwords of an account and the logins
  in `Verifying` are never more than the logins that have arrived.
* `MCFleetProofs!FleetWalkExact`: for any number of rows, any page sizes, and each of the
  four lists. The page a query returns is some sequence sorted by instant, so the first
  thing to know is which row stands where: where instants differ or ties are broken
  the order is total, and the row at place k is the one with k - 1 rows before it
  (`OrderRank`), whatever sequence was chosen. A page then shows exactly the rows whose
  `Rank` lies in it (`PageShows`). `NothingSkipped` says that a row of the start that was
  not shown has a rank behind what was read, which an insertion can only increase, and
  that the total keeps the walk going as long as there is one: the list of Installations,
  which counts first, needs that nothing slipped in between. `NothingTwice` says that
  while nothing comes or goes what was shown is the list up to there. That no list
  fails for a name it does not find needs that owners are never deleted (`OwnersKnown`).
* `MCFleetProofs!PoolStallTakesAll`: for any number of requests, Installations and
  connections. In a stall nobody works and nobody is being answered. Who waits for a row
  lock waits for a holder, who then can only wait for its second connection
  (`Locked`), and stands in the queue for it (`Queued`). So the queue is not empty and
  the pool is used up; as every request then holds at most one connection
  (`Counted`), and a query that holds one can go on, the sum of the connections is the
  number of transactions on Installations that hold one.

* `CustomersProofs!TypeCorrect`, `TrailTells`, `NothingIsCreatedForClosed`. A trail ends
  where the row is, or where the only change under way started: that, for every change
  under way (`Told`, and `Due`, the event it is about to insert), is what `TrailReplays` needs
  between the commit and the event. For `NothingForClosed` the invariant says that a
  request that has got past a reader was open (or found its License usable) at some
  moment since it came (`Noticed`). These theorems take the assumption on the constants as a
  hypothesis (`ConstantsFit`): `MCFleet` takes `Customers` by INSTANCE, so that TLC
  evaluates it there as `CustomersAssumption`.
* `AccessProofs!TypeCorrect`, `CatalogueKept`, `RoleForEveryAdmin`, `GuardFollowsRoles`. The
  lemmas compute what each of the eight migrations makes and undoes (`UpSees`,
  `DownSees`), and that nothing is made twice (`NothingTwice`), which is why a
  revert takes away no more than its migration brought. `Migrated` is a recursive
  function; its value is established for up to eight steps (`MigratedChain`,
  `MigratedMore`), so that `Runs` gives the database after any number of migrations
  in a row in closed form. `RoleForEveryAdmin` is inductive next to it:
  the backfill runs exactly when the table of roles comes to be, and whoever is saved
  after that is between the two transactions of its bootstrap until it has the role or
  is interrupted. `GuardFollowsRoles` is the action property `RolesDecide`: no migration
  grants more than the code declares (`GrantsWithin`), all of them together grant all
  of it (`GrantsComplete`), and a route that is not public names one permission
  (`AdminRoutes`).

* The runs `access_safety` and `fleet_safety` check compositions, and the theorems are
  carried over to them: `CatalogueKept`, `RoleForEveryAdmin`, `GuardFollowsRoles` and
  `AccessTypes` in `MCAccessProofs`, `FleetTrailReplays`, `FleetNothingForClosed`,
  `FleetWalkExact`, `PoolStallTakesAll` and `FleetTypes` in `MCFleetProofs`. A step of one scene is
  a step of one component and leaves the variables of the others alone, so that a
  behaviour of `MCSpec` is one of every component (`LoginPart`, `AccessPart`, `HeartbeatPart`,
  `CustomersPart`, `ListingPart`, `PoolPart`). `MCAccess` and `MCFleet` take the modules of
  proofs or invariants by INSTANCE to this end.

The inductive invariants are in the modules whose names end in `Inv` (those of
`Heartbeat` and `LoginLockout` beside their proofs). TLC has confirmed
each of them on the instance of a run, or a smaller one, before it was proved.

The proofs assume the ASSUMEs of the modules: capacities are numbers, "none"
values differ from real ones, ids of different kinds do not overlap; and, where a
theorem says so, that administrators only decommission. Those of `Customers`, `Listing`
and `ConnectionPool` are called `ConstantsFit`, and `MCFleet` assumes them
(`CustomersAssumption`, `ListingAssumption`, `PoolAssumption`): rows are numbered, since the tie
breaker of the audit list compares ids; page sizes and the pool are not empty;
requests are finitely many, as their connections are counted.

What remains with TLC alone:

* `Answered` of every component: the prover has neither fairness nor ENABLED.
* the four violations, which are refuted by a behaviour and not by a proof.

## What the checks found

1. `ChangeInstallationStatusUseCase` checks a transition on a row it read without a
   lock and saves it later: DECOMMISSIONED is not terminal (`enrollment_terminal`),
   and a License may carry more Installations than it was sold for
   (`provisioning_exceeded`).
2. The mass revocation after a replay misses the successor of a session that is
   being rotated at that moment (`sessions_replay_all`).

3. Two concurrent replacements of the entitlements of a License leave the union of
   both sets (`licensing_wholesale`): no lock on the License comes before the
   `DELETE`, which does not see what the other has inserted.

Smaller disagreements met on the way, of which no run is kept:

* The replay branch asks whether a session is revoked, and logout revokes too: the
  token of a session that was only logged out ends the administrator's other
  sessions, though `admin-authentication.md` speaks of a rotated row.
* A logout saved over a rotation erases `replaced_by_session_id`; a decommissioning
  read while PENDING and saved after an enrollment clears `registered_at`.
* EXPIRED and REVOKED are terminal (`license-status.ts:9`), and are not for the same
  reason as in 1; a replacement of entitlements that read the License while it was
  ACTIVE makes a REVOKED one ACTIVE again, since it saves the status it read.
* A key of an entitlement that is already there makes `save` report that the License
  *number* exists: it translates every unique violation into that error.
* A login that passed the gate before another locked the account saves later: if the
  password was right, it clears a lock just set; concurrent failures save the same
  count, and some are lost (`admin-user.ts:66-88`). `LockedByFailures` says that no
  lock comes too early for it.
* Two bootstraps with different emails that race create two administrators. A crash
  after the first insert leaves one without a role whom no retry repairs, which the
  comment of `bootstrap-first-admin.use-case.ts` accepts; the backfill of the third
  migration would repair it, but does not run again by itself. Reverting that migration
  and running it again gives PLATFORM_ADMIN to every administrator.
* `compute-installation-health.ts:38` says that PENDING never comes with a last heartbeat.
  `GetInstallationHealthUseCase` reads the status before the snapshot, and an enrollment
  and a heartbeat fit in between: it answers PENDING and ONLINE. Lines 19-22 say that a
  suspension freezes the last heartbeat; one that is past the guard is still written.
* The lists of Customers, Licenses and Installations are ordered by an instant
  without a tie breaker, which the list of audit events has, and Installations are
  counted before their page is read.
* One enrollment and `PoolSize - 1` transactions that wait for its row lock are enough
  to stall the whole pool: the enrollment waits for a connection for its reader, all
  others wait for it. `data-source-options.ts` sets no timeout that would end this.
* A heartbeat whose version is only blanks passes the DTO (a string of 1 to 50
  characters) and fails the CHECK `ck_installation_health_app_version_not_empty` of the
  table: the client gets a 500, not a 400.
* `installation-enrollment.md` (lines 193-198), ADR-014 and ADR-015 still describe a
  race on the capacity that the advisory lock has closed.

## Plan

All components with a state of their own are modelled, and every invariant and action
property of a passing run is proved for all values of the constants. What could still
be added: the audit events of Licensing and of access management, should somebody come
to read them, and the worker, once it has a job.

## Not modelled, and why

The worker, observability and messaging keep no state that outlives a request and
run nothing concurrently; so does most of the API shell, the configuration and the
shared kernel: wiring, parsing and formatting. Validation of codes, names, numbers
and dates are functions of one value. Lookups by id are single reads of a committed row
(the one of health, which makes two, is modelled). Password hashing, token signing and
TLS are outside the program. Redis is only pinged. The events of Licensing and of access
management are written like those of the other contexts and read by nobody but the
list. `GET /auth/me` reads the roles as the guard does.
