------------------------------ MODULE Licensing ------------------------------
(***************************************************************************)
(* Licenses and their entitlements, one aggregate in two tables, changed   *)
(* by concurrent HTTP requests over PostgreSQL in READ COMMITTED isolation.*)
(*                                                                         *)
(*   CreateLicenseUseCase               CreateFind, CreateSave             *)
(*   ReplaceLicenseEntitlementsUseCase  ReplaceRead .. ReplaceCommit       *)
(*   ChangeLicenseStatusUseCase         ChangeRead .. ChangeCommit         *)
(*                                                                         *)
(* Tables hold what is COMMITTED; what a transaction has deleted and       *)
(* inserted so far is in the locals of its request, and so are its locks:  *)
(* the rows it deleted, the keys it inserted, the License row it updated.  *)
(* Each use case reads the aggregate without a lock, changes it in memory, *)
(* and saves in a transaction of its own.  The audit event it writes after *)
(* that is left out: it touches nothing here, and may be lost.             *)
(***************************************************************************)
EXTENDS FiniteSets

CONSTANTS Licenses,       \* what the id generator can give
          LicenseNumbers,
          Codes,          \* entitlement codes
          Requests,       \* HTTP requests the API can serve at one time
          Puts,           \* names for the sets of entitlements that are sent
          NoLicense, NoNumber

ASSUME NoneAssumption == NoLicense \notin Licenses /\ NoNumber \notin LicenseNumbers

VARIABLES licenses,       \* table licensing.licenses
          entitlements,   \* table licensing.license_entitlements
          req             \* the handler each request is in, and its locals

vars == <<licenses, entitlements, req>>

-----------------------------------------------------------------------------
(* Rows and requests. *)

Statuses == {"ACTIVE", "SUSPENDED", "EXPIRED", "REVOKED"}

\* ALLOWED_TRANSITIONS
Transitions == ({"ACTIVE"} \X {"SUSPENDED", "EXPIRED", "REVOKED"})
                 \cup ({"SUSPENDED"} \X {"ACTIVE", "EXPIRED", "REVOKED"})

LicenseRow == [status : Statuses, number : LicenseNumbers \cup {NoNumber}]

NoRow == [status |-> "ACTIVE", number |-> NoNumber]

\* License.create
NewLicense(n) == [status |-> "ACTIVE", number |-> n]

\* Every set of entitlements gets fresh ids: an id is the set it came with and
\* the code it has there.
Entitlement == [license : Licenses, put : Puts, code : Codes]

PCs == {"idle", "CreateSave",
        "ReplaceScan", "ReplaceDelete", "ReplaceInsert", "ReplaceUpdate",
        "ReplaceCommit",
        "ChangeLoad", "ChangeSelect", "ChangeUpdate", "ChangeMatch", "ChangeInsert"}

Request == [pc : PCs,
            license : Licenses \cup {NoLicense},
            number : LicenseNumbers \cup {NoNumber},
            status : Statuses,                \* what the domain object says
            base : Statuses,                  \* what save() diffs it against
            items : SUBSET Entitlement,       \* the domain object's entitlements
            seen : SUBSET Entitlement,        \* what the DELETE found
            gone : SUBSET Entitlement,        \* deleted,
            added : SUBSET Entitlement,       \* inserted,
            todo : SUBSET Entitlement,        \* and to be inserted
            alone : BOOLEAN]   \* history: no other request worked on the License

Idle == [pc |-> "idle", license |-> NoLicense, number |-> NoNumber,
         status |-> "ACTIVE", base |-> "ACTIVE", items |-> {}, seen |-> {},
         gone |-> {}, added |-> {}, todo |-> {}, alone |-> FALSE]

Exists(l) == licenses[l].number # NoNumber

NumberTaken(n) == \E l \in Licenses : licenses[l].number = n

Of(l) == {e \in entitlements : e.license = l}

Key(e) == <<e.license, e.code>>

Becomes(r, x) == req' = [req EXCEPT ![r] = x]

Goes(r, pc) == Becomes(r, [req[r] EXCEPT !.pc = pc])

Busy(l) == {q \in Requests : req[q].license = l}

\* A request begins to work on a License, alone or not.
Begins(r, x) ==
  req' = [q \in Requests |->
            IF q = r THEN [x EXCEPT !.alone = Busy(x.license) = {}]
            ELSE IF q \in Busy(x.license) THEN [req[q] EXCEPT !.alone = FALSE]
            ELSE req[q]]

\* The entitlements of a table, a domain object or a transaction.
InUse == entitlements \cup UNION {req[q].items \cup req[q].seen : q \in Requests}

\* LicenseEntitlement.create, for each item sent.  A name nothing refers to any
\* more may be given again: nobody can tell.
NewEntitlements(l, p, codes) == {[license |-> l, put |-> p, code |-> c] : c \in codes}

Fresh(p) == \A e \in InUse : e.put # p

\* The use case throws or the process dies: nothing of its transaction stays.
Rollback(r) == Becomes(r, Idle) /\ UNCHANGED <<licenses, entitlements>>

-----------------------------------------------------------------------------
(* Locks, as the locals of the requests say who holds them.                *)

HoldsLicense == {"ReplaceCommit", "ChangeMatch", "ChangeInsert"}

LicenseHolders(r) ==
  {q \in Requests \ {r} : req[q].license = req[r].license /\ req[q].pc \in HoldsLicense}

\* Those that have deleted a row which the DELETE of r found.
RowHolders(r) == {q \in Requests \ {r} : req[q].gone \cap req[r].seen # {}}

\* Those whose commit decides whether the key of e is in the unique index.
KeyHolders(r, e) ==
  {q \in Requests \ {r} : \E f \in req[q].gone \cup req[q].added : Key(f) = Key(e)}

\* Whom a waiting request waits for.
WaitsFor(r, q) ==
  \/ req[r].pc = "ReplaceDelete" /\ q \in RowHolders(r)
  \/ /\ req[r].pc \in {"ReplaceInsert", "ChangeInsert"} /\ req[r].todo # {}
     /\ \A e \in req[r].todo : KeyHolders(r, e) # {}
     /\ \E e \in req[r].todo : q \in KeyHolders(r, e)
  \/ req[r].pc \in {"ReplaceUpdate", "ChangeUpdate"} /\ q \in LicenseHolders(r)

Stuck(S) == S # {} /\ \A r \in S : \E q \in S : WaitsFor(r, q)

-----------------------------------------------------------------------------
(* CreateLicenseUseCase: POST /licenses.                                   *)

\* The Customer may refuse it without a trace.  The number looks free.
CreateFind(r, l, n, p, codes) ==
  /\ req[r].pc = "idle"
  /\ ~Exists(l) /\ Busy(l) = {}
  /\ ~NumberTaken(n)
  /\ codes = {} \/ Fresh(p)
  /\ Begins(r, [Idle EXCEPT !.pc = "CreateSave", !.license = l, !.number = n,
                            !.items = NewEntitlements(l, p, codes)])
  /\ UNCHANGED <<licenses, entitlements>>

\* Faulty variants, named <definition>_<fault>, stand before the definition
\* they vary: each shows that some property notices the fault.
CreateSave_NotUnique(r) ==
  /\ req[r].pc = "CreateSave"
  /\ licenses' = [licenses EXCEPT ![req[r].license] = NewLicense(req[r].number)]
  /\ entitlements' = entitlements \cup req[r].items
  /\ Becomes(r, Idle)

\* save(): the transaction inserts rows nobody else knows of.  Only the unique
\* index on numbers can refuse it.
CreateSave(r) ==
  /\ req[r].pc = "CreateSave"
  /\ \/ NumberTaken(req[r].number) /\ Rollback(r)
     \/ /\ ~NumberTaken(req[r].number)
        /\ licenses' = [licenses EXCEPT ![req[r].license] = NewLicense(req[r].number)]
        /\ entitlements' = entitlements \cup req[r].items
        /\ Becomes(r, Idle)

-----------------------------------------------------------------------------
(* What both transactions below do.                                        *)

Insert_NotUnique(r, e) ==
  /\ e \in req[r].todo /\ KeyHolders(r, e) = {}
  /\ Becomes(r, [req[r] EXCEPT !.todo = @ \ {e}, !.added = @ \cup {e}])
  /\ UNCHANGED <<licenses, entitlements>>

\* The INSERT comes to row e: it waits for whoever is about to delete or insert
\* its key, and fails if the key is there.
Insert(r, e) ==
  /\ e \in req[r].todo /\ KeyHolders(r, e) = {}
  /\ \/ /\ \E f \in entitlements \ req[r].gone : Key(f) = Key(e)
        /\ Rollback(r)
     \/ /\ \A f \in entitlements \ req[r].gone : Key(f) # Key(e)
        /\ Becomes(r, [req[r] EXCEPT !.todo = @ \ {e}, !.added = @ \cup {e}])
        /\ UNCHANGED <<licenses, entitlements>>

\* save() updates the columns that differ from the row it selected.
Commit(r) ==
  /\ licenses' = IF req[r].status # req[r].base
                 THEN [licenses EXCEPT ![req[r].license].status = req[r].status]
                 ELSE licenses
  /\ entitlements' = (entitlements \ req[r].gone) \cup req[r].added
  /\ Becomes(r, Idle)

-----------------------------------------------------------------------------
(* ReplaceLicenseEntitlementsUseCase: PUT /licenses/:id/entitlements.      *)

ReplaceRead_Active(r, l, p, codes) ==
  /\ req[r].pc = "idle" /\ Exists(l)
  /\ codes = {} \/ Fresh(p)
  /\ Begins(r, [Idle EXCEPT !.pc = "ReplaceScan", !.license = l,
                            !.items = NewEntitlements(l, p, codes)])
  /\ UNCHANGED <<licenses, entitlements>>

\* findById, and the new set takes the place of the one read.
ReplaceRead(r, l, p, codes) ==
  /\ req[r].pc = "idle" /\ Exists(l)
  /\ codes = {} \/ Fresh(p)
  /\ Begins(r, [Idle EXCEPT !.pc = "ReplaceScan", !.license = l,
                            !.status = licenses[l].status,
                            !.items = NewEntitlements(l, p, codes)])
  /\ UNCHANGED <<licenses, entitlements>>

\* The DELETE works on the rows committed when it starts ...
ReplaceScan(r) ==
  /\ req[r].pc = "ReplaceScan"
  /\ Becomes(r, [req[r] EXCEPT !.pc = "ReplaceDelete", !.seen = Of(req[r].license)])
  /\ UNCHANGED <<licenses, entitlements>>

ReplaceDelete_NoRecheck(r) ==
  /\ req[r].pc = "ReplaceDelete" /\ RowHolders(r) = {}
  /\ Becomes(r, [req[r] EXCEPT !.pc = "ReplaceInsert", !.seen = {},
                               !.gone = req[r].seen,
                               !.todo = req[r].items])
  /\ UNCHANGED <<licenses, entitlements>>

\* ... waits for those another transaction has deleted, and skips them if that
\* one commits.
ReplaceDelete(r) ==
  /\ req[r].pc = "ReplaceDelete" /\ RowHolders(r) = {}
  /\ Becomes(r, [req[r] EXCEPT !.pc = "ReplaceInsert", !.seen = {},
                               !.gone = req[r].seen \cap entitlements,
                               !.todo = req[r].items])
  /\ UNCHANGED <<licenses, entitlements>>

ReplaceInsert(r) ==
  req[r].pc = "ReplaceInsert" /\ \E e \in req[r].todo : Insert(r, e)

\* save() of the License selects the row ...
ReplaceSelect(r) ==
  /\ req[r].pc = "ReplaceInsert" /\ req[r].todo = {}
  /\ Becomes(r, [req[r] EXCEPT !.pc = "ReplaceUpdate",
                               !.base = licenses[req[r].license].status])
  /\ UNCHANGED <<licenses, entitlements>>

\* ... and updates it: updated_at, and the status it read if another has
\* changed it since.
ReplaceUpdate(r) ==
  /\ req[r].pc = "ReplaceUpdate" /\ LicenseHolders(r) = {}
  /\ Goes(r, "ReplaceCommit")
  /\ UNCHANGED <<licenses, entitlements>>

ReplaceCommit(r) == req[r].pc = "ReplaceCommit" /\ Commit(r)

-----------------------------------------------------------------------------
(* ChangeLicenseStatusUseCase: PATCH /licenses/:id/status.                 *)

\* findById selects the License, with a status that allows the transition ...
ChangeRead(r, l, s) ==
  /\ req[r].pc = "idle" /\ Exists(l)
  /\ <<licenses[l].status, s>> \in Transitions
  /\ Begins(r, [Idle EXCEPT !.pc = "ChangeLoad", !.license = l, !.status = s])
  /\ UNCHANGED <<licenses, entitlements>>

\* ... and then its entitlements.
ChangeLoad(r) ==
  /\ req[r].pc = "ChangeLoad"
  /\ Becomes(r, [req[r] EXCEPT !.pc = "ChangeSelect", !.items = Of(req[r].license)])
  /\ UNCHANGED <<licenses, entitlements>>

ChangeSelect(r) ==
  /\ req[r].pc = "ChangeSelect"
  /\ Becomes(r, [req[r] EXCEPT !.pc = "ChangeUpdate",
                               !.base = licenses[req[r].license].status])
  /\ UNCHANGED <<licenses, entitlements>>

ChangeUpdate(r) ==
  /\ req[r].pc = "ChangeUpdate" /\ LicenseHolders(r) = {}
  /\ Goes(r, "ChangeMatch")
  /\ UNCHANGED <<licenses, entitlements>>

\* save() of the entitlements selects them by id: those that are no longer
\* there are inserted again.
ChangeMatch(r) ==
  /\ req[r].pc = "ChangeMatch"
  /\ Becomes(r, [req[r] EXCEPT !.pc = "ChangeInsert",
                               !.todo = req[r].items \ entitlements])
  /\ UNCHANGED <<licenses, entitlements>>

ChangeInsert(r) ==
  req[r].pc = "ChangeInsert" /\ \E e \in req[r].todo : Insert(r, e)

ChangeCommit(r) == req[r].pc = "ChangeInsert" /\ req[r].todo = {} /\ Commit(r)

-----------------------------------------------------------------------------
(* What may happen to any transaction.                                     *)

DeadlockAbort_Off(r) == FALSE

\* PostgreSQL aborts one of the transactions that wait in a circle.
DeadlockAbort(r) ==
  /\ \E S \in SUBSET Requests :
       r \in S /\ Stuck(S) /\ \A T \in SUBSET S : Stuck(T) => T = S
  /\ Rollback(r)

\* The process or its connection dies.
Crash(r) == req[r].pc # "idle" /\ Rollback(r)

Init == /\ licenses = [l \in Licenses |-> NoRow]
        /\ entitlements = {}
        /\ req = [r \in Requests |-> Idle]

Arrive(r) ==
  \E l \in Licenses :
    \/ \E p \in Puts, codes \in SUBSET Codes :
         \/ \E n \in LicenseNumbers : CreateFind(r, l, n, p, codes)
         \/ ReplaceRead(r, l, p, codes)
    \/ \E s \in Statuses : ChangeRead(r, l, s)

\* Steps that may wait for another transaction.
Wait(r) == \/ ReplaceDelete(r) \/ ReplaceInsert(r) \/ ReplaceUpdate(r)
           \/ ChangeUpdate(r) \/ ChangeInsert(r)

Continue(r) == \/ CreateSave(r)
               \/ ReplaceScan(r) \/ ReplaceSelect(r) \/ ReplaceCommit(r)
               \/ ChangeLoad(r) \/ ChangeSelect(r) \/ ChangeMatch(r) \/ ChangeCommit(r)
               \/ DeadlockAbort(r)

Next == \E r \in Requests : Arrive(r) \/ Wait(r) \/ Continue(r) \/ Crash(r)

Spec == Init /\ [][Next]_vars

\* A handler that does not wait goes on, PostgreSQL grants a lock in the order
\* it was asked for, and its deadlock detector does its work.
Fairness == \A r \in Requests : WF_vars(Continue(r)) /\ SF_vars(Wait(r))

FairSpec == Spec /\ Fairness

-----------------------------------------------------------------------------
(* Properties.                                                             *)

\* Every variable has its type.  What a transaction has deleted is still
\* committed, what it has inserted is not, and an idle request has nothing.
TypeOK == /\ licenses \in [Licenses -> LicenseRow]
          /\ entitlements \subseteq Entitlement
          /\ req \in [Requests -> Request]
          /\ \A r \in Requests :
               /\ req[r].pc = "idle" => req[r] = Idle
               /\ req[r].gone \subseteq entitlements
               /\ req[r].added \cap entitlements = {}

\* A number names one License, although the lookup and the insert of
\* CreateLicenseUseCase are apart.
NumberNamesOne ==
  \A l, m \in Licenses :
    Exists(l) /\ Exists(m) /\ licenses[l].number = licenses[m].number => l = m

Replacing(x) == x.pc \in {"ReplaceScan", "ReplaceDelete", "ReplaceInsert",
                          "ReplaceUpdate", "ReplaceCommit"}

Changing(x) == x.pc \in {"ChangeLoad", "ChangeSelect", "ChangeUpdate",
                         "ChangeMatch", "ChangeInsert"}

\* What a step does to a License on which a request works alone.
Exact(r, l) ==
  /\ req[r].alone /\ req[r].license = l
  /\ Of(l)' # Of(l) \/ licenses'[l] # licenses[l]
  => /\ Replacing(req[r]) => Of(l)' = req[r].items /\ licenses'[l] = licenses[l]
     /\ Changing(req[r]) => /\ Of(l)' = Of(l)
                            /\ <<licenses[l].status, licenses'[l].status>> \in Transitions
                            /\ licenses'[l].status = req[r].status

\* Whatever goes on at other Licenses, a request that has a License to itself
\* does what it was asked for and nothing else: a replacement leaves exactly
\* the new set and the status, a status change makes one allowed transition and
\* leaves the entitlements.
AloneIsExact == [][\A r \in Requests, l \in Licenses : Exact(r, l)]_vars

\* An entitlement is switched on twice by nobody: however a stale save, a
\* replacement and a second replacement mix, a License has each code once.
CodeOnce == \A e, f \in entitlements : Key(e) = Key(f) => e = f

\* Every request is answered, even when transactions wait in a circle.
Answered == \A r \in Requests : req[r].pc # "idle" ~> req[r].pc = "idle"

\* What the comment of replaceEntitlements says: the items sent are the complete
\* desired set and replace the collection wholesale.
ReplaceIsWholesale ==
  [][\A r \in Requests, l \in Licenses :
       req[r].pc = "ReplaceCommit" /\ req[r].license = l /\ Of(l)' # Of(l)
         => Of(l)' = req[r].items]_vars

=============================================================================
