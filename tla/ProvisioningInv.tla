--------------------------- MODULE ProvisioningInv ---------------------------
(***************************************************************************)
(* What holds of Provisioning between the steps of a handler: the facts    *)
(* that make its safety properties inductive.                              *)
(***************************************************************************)
EXTENDS Provisioning

Counted == {"CreateFind", "CreateSave", "CreateCommit"}
InTransaction == {"CreateCount"} \cup Counted
Creating == {"CreateLock"} \cup InTransaction
Changing == {"ChangeSelect", "ChangeUpdate"}

\* The locals a handler uses are set when it uses them.
Fits(x) ==
  /\ x.pc # "idle" => x.id \in Ids
  /\ x.pc \in Creating => x.license \in Licenses /\ x.code \in InstallationCodes
  /\ x.pc \in Changing => x.status \in Targets

LocalsSet == \A r \in Requests : Fits(req[r])

Typed == TypeOK /\ LocalsSet

\* A creation holds the advisory lock of its License from the count on, and
\* its code from the insert on.
LocksHeld ==
  \A r \in Requests :
    /\ req[r].pc \in InTransaction => lock[req[r].license] = r
    /\ req[r].pc = "CreateCommit" => lock[req[r].code] = r

\* What it found then is still so: there is a seat, and nobody has the code.
SeatLeft ==
  \A r \in Requests :
    req[r].pc \in Counted
      => Cardinality(Seats(req[r].license)) < MaxInstallations[req[r].license]

CodeFree ==
  \A r \in Requests : req[r].pc = "CreateCommit" => ~CodeTaken(req[r].code)

FiniteSeats == \A l \in Licenses : IsFiniteSet(Seats(l))

\* A row has a License and a code, or neither.
WholeRows == \A i \in Ids : Exists(i) <=> installations[i].code # NoCode

\* The id of a creation is its own until it commits; every other handler, and
\* the audit trail, works on a row that exists.
IdsReserved ==
  /\ \A r \in Requests :
       IF req[r].pc \in Creating
       THEN /\ ~Exists(req[r].id)
            /\ \A q \in Requests \ {r} : req[q].id # req[r].id
       ELSE req[r].pc # "idle" => Exists(req[r].id)
  /\ \A i \in recorded : Exists(i)

\* These hold whatever status an administrator may set,
IInv == Typed /\ LocksHeld /\ CodeFree /\ CodeNamesOne /\ WholeRows /\ IdsReserved

\* and these if that is DECOMMISSIONED only.
CapacityInv == SeatLeft /\ FiniteSeats /\ WithinCapacity

=============================================================================
