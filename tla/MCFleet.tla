--------------------------------- MODULE MCFleet ---------------------------------
(***************************************************************************)
(* Model checking of what the API does day by day: heartbeats and health   *)
(* (Heartbeat), Customers and what is created for them (Customers), lists  *)
(* that are walked page by page (Listing), and the connections all of it   *)
(* runs on (ConnectionPool).  "scene" says which of them a behaviour is    *)
(* about, so that their states add up instead of multiplying.              *)
(***************************************************************************)
EXTENDS Heartbeat

CONSTANTS Ids, Codes, Requests, MaxRequests, NoCode, NoId,          \* Customers
          Rows, Owners, MinPageSize, DefaultPageSize, MaxPageSize,  \* Listing
          Asked, ListTime, NoOwner,
          Callers, Sites, PoolSize, NoOne                           \* ConnectionPool

VARIABLES customers, licenses, served, trail, req, count, disturbed,
          list, table, owners, listNow, walk,
          call, held, queue, lock,
          scene

\* Customers comes with the theorems about it, for those about the composition.
C == INSTANCE CustomersProofs
L == INSTANCE ListingInv WITH now <- listNow, MaxTime <- ListTime
P == INSTANCE ConnectionPoolInv WITH req <- call, Requests <- Callers, Installations <- Sites

customersVars == <<customers, licenses, served, trail, req, count, disturbed>>
listingVars == <<list, table, owners, listNow, walk>>
poolVars == <<call, held, queue, lock>>

mcvars == <<vars, customersVars, listingVars, poolVars, scene>>

ASSUME CustomersAssumption == C!ConstantsFit

ASSUME PoolAssumption == P!ConstantsFit

ASSUME ListingAssumption == L!ConstantsFit

-----------------------------------------------------------------------------

HeartbeatScene == scene = "heartbeat" /\ UNCHANGED <<customersVars, listingVars, poolVars, scene>>
CustomersScene == scene = "customers" /\ UNCHANGED <<vars, listingVars, poolVars, scene>>
ListingScene   == scene = "listing"   /\ UNCHANGED <<vars, customersVars, poolVars, scene>>
PoolScene      == scene = "pool"      /\ UNCHANGED <<vars, customersVars, listingVars, scene>>

MCInit == /\ Init /\ C!Init /\ L!Init /\ P!Init
          /\ scene \in {"heartbeat", "customers", "listing", "pool"}
          /\ scene # "listing" => list = "audit"

HeartbeatNext ==
  \/ \E i \in Installations :
       \/ HeartbeatScene /\ Enroll(i)
       \/ \E to \in Statuses : HeartbeatScene /\ ChangeStatus(i, to)
       \/ HeartbeatScene /\ Revoke(i)
  \/ \E b \in Beats :
       \/ \E i \in Installations, c \in 1..MaxCredentials : HeartbeatScene /\ Authenticate(b, i, c)
       \/ HeartbeatScene /\ Receive(b)
       \/ HeartbeatScene /\ Write(b)
       \/ HeartbeatScene /\ Lose(b)
  \/ \E v \in Views :
       \/ \E i \in Installations : HeartbeatScene /\ ViewStatus(v, i)
       \/ \E i \in Installations : HeartbeatScene /\ ViewList(v, i)
       \/ HeartbeatScene /\ ViewSnapshot(v)
       \/ HeartbeatScene /\ ViewAnswer(v)
  \/ HeartbeatScene /\ Tick

CustomersNext ==
  \/ \E r \in Requests :
       \/ \E c \in Ids, code \in Codes : CustomersScene /\ C!CreateFind(r, c, code)
       \/ \E c \in Ids, to \in C!Statuses : CustomersScene /\ C!ChangeRead(r, c, to)
       \/ \E c \in Ids, thing \in C!Things : CustomersScene /\ C!Begin(r, c, thing)
       \/ CustomersScene /\ C!CreateSave(r)
       \/ CustomersScene /\ C!ChangeSelect(r)
       \/ CustomersScene /\ C!ChangeUpdate(r)
       \/ CustomersScene /\ C!Audit(r)
       \/ CustomersScene /\ C!AskCustomer(r)
       \/ CustomersScene /\ C!AskLicense(r)
       \/ \E window \in C!Windows : CustomersScene /\ C!Serve(r, window)
       \/ CustomersScene /\ C!Crash(r)
  \/ \E c \in Ids, license \in C!License : CustomersScene /\ C!LicenseTurns(c, license)

ListingNext ==
  \/ \E asked \in Asked :
       \/ ListingScene /\ L!ListCustomers(asked)
       \/ ListingScene /\ L!ListLicenses(asked)
       \/ ListingScene /\ L!ListInstallations(asked)
       \/ ListingScene /\ L!ListAuditEvents(asked)
  \/ ListingScene /\ L!Count
  \/ ListingScene /\ L!Page
  \/ ListingScene /\ L!Summaries
  \/ ListingScene /\ L!Turn
  \/ ListingScene /\ L!Meanwhile

PoolNext ==
  \/ \E r \in Callers :
       \/ \E kind \in P!Kinds, i \in Sites : PoolScene /\ P!Arrive(r, kind, i)
       \/ PoolScene /\ P!TakeLock(r)
       \/ PoolScene /\ P!AskReader(r)
       \/ PoolScene /\ P!ReaderAnswers(r)
       \/ PoolScene /\ P!Complete(r)
       \/ PoolScene /\ P!Refuse(r)
  \/ PoolScene /\ P!Grant

MCSpec == MCInit /\ [][HeartbeatNext \/ CustomersNext \/ ListingNext \/ PoolNext]_mcvars

-----------------------------------------------------------------------------
(* The properties of the instances, under names of this module. *)

\* The types of all four parts.
TypesOK == TypeOK /\ C!TypeOK /\ L!TypeOK /\ P!TypeOK

\* The audit trail of a Customer replays to its row (Customers).
TrailReplays == C!TrailReplays

\* A Customer that is not ACTIVE gains nothing, except from requests that were
\* under way (Customers).
NothingForClosed == C!NothingForClosed

\* A list is answered, and a walk through its pages shows what it holds (Listing).
WalkExact == L!WalkExact

\* Requests wait for ever only when the whole pool is taken (ConnectionPool).
StallTakesAll == P!StallTakesAll

=============================================================================
