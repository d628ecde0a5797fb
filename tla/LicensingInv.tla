---------------------------- MODULE LicensingInv ----------------------------
(***************************************************************************)
(* What holds of Licensing between the steps of a handler: the facts that  *)
(* make its safety properties inductive.                                   *)
(***************************************************************************)
EXTENDS Licensing

HasDeleted == {"ReplaceInsert", "ReplaceUpdate", "ReplaceCommit"}

\* A domain object whose entitlements are its own: not read from the table.
Owns(x) == x.pc \in {"CreateSave", "ReplaceScan", "ReplaceDelete"} \cup HasDeleted

\* The locals of a handler by themselves.
Fits(x) ==
  /\ x.pc # "idle" => x.license \in Licenses
  /\ x.pc = "CreateSave" => x.number \in LicenseNumbers
  /\ \A e \in x.items \cup x.seen \cup x.gone : e.license = x.license
  /\ \A e, f \in x.items : Key(e) = Key(f) => e = f
  /\ x.todo \cup x.added \subseteq x.items
  /\ x.pc \notin HasDeleted => x.gone = {}
  /\ x.pc \notin HasDeleted \cup {"ChangeInsert"} => x.added = {}
  /\ x.pc \notin {"ReplaceInsert", "ChangeInsert"} => x.todo = {}

\* The locals of a handler and the tables: its License exists unless it is about
\* to create it, nobody has touched the rows it deleted, and the keys it
\* inserted are free but for those rows.
Grounded(x) ==
  /\ x.pc = "CreateSave" => ~Exists(x.license)
  /\ x.pc \notin {"idle", "CreateSave"} => Exists(x.license)
  /\ x.gone \subseteq entitlements
  /\ x.added \cap entitlements = {}
  /\ \A e \in x.added, f \in entitlements \ x.gone : Key(e) # Key(f)
  /\ Owns(x) => x.items \cap entitlements = {}

\* The locals of two handlers: what their locks keep apart.
Apart(x, y) ==
  /\ x.gone \cap y.gone = {}
  /\ \A e \in x.added, f \in y.added \cup y.gone : Key(e) # Key(f)
  /\ \A e \in y.added, f \in x.gone : Key(e) # Key(f)
  /\ Owns(x) \/ Owns(y) => x.items \cap y.items = {}
  /\ x.pc = "CreateSave" \/ y.pc = "CreateSave" => x.license # y.license
  /\ x.pc \in HoldsLicense /\ y.pc \in HoldsLicense => x.license # y.license

Handlers == /\ \A r \in Requests : Fits(req[r]) /\ Grounded(req[r])
            /\ \A q, r \in Requests : q # r => Apart(req[q], req[r])

\* An entitlement belongs to a License that exists.
RowsExist == \A e \in entitlements : Exists(e.license)

IInv == TypeOK /\ Handlers /\ RowsExist /\ CodeOnce /\ NumberNamesOne

HasBase == {"ReplaceUpdate", "ReplaceCommit", "ChangeUpdate", "ChangeMatch", "ChangeInsert"}

\* How far a handler has come in what it was asked for, if nobody interferes.
OnCourse(x) ==
  LET l == x.license
  IN /\ Replacing(x) => x.status = licenses[l].status
     /\ x.pc \in HasBase => x.base = licenses[l].status
     /\ x.pc = "ReplaceDelete" => x.seen = Of(l)
     /\ x.pc \in HasDeleted => x.gone = Of(l) /\ x.items = x.added \cup x.todo
     /\ Changing(x) => <<licenses[l].status, x.status>> \in Transitions
     /\ Changing(x) /\ x.pc # "ChangeLoad" => x.items = Of(l)
     /\ x.pc = "ChangeInsert" => x.todo = {} /\ x.added = {}

AloneInv ==
  \A r \in Requests :
    req[r].alone => /\ req[r].pc # "idle" /\ OnCourse(req[r])
                    /\ \A q \in Requests \ {r} : req[q].license # req[r].license

\* Transactions that wait for each other in a circle, one of which PostgreSQL
\* has to abort, always take a replacement of entitlements: status changes lock
\* in one order, the License first.
CircleNeedsReplacement ==
  \A S \in SUBSET Requests : Stuck(S) => \E r \in S : Replacing(req[r])

=============================================================================
