--------------------------- MODULE LicensingProofs ---------------------------
(***************************************************************************)
(* Theorems about Licensing, for every set of Licenses, numbers, codes and *)
(* requests.                                                               *)
(***************************************************************************)
EXTENDS LicensingInv, TLAPS

USE NoneAssumption

(* What a handler's next locals have to satisfy. *)

LEMMA IdleFits == Idle \in Request /\ Fits(Idle) /\ Grounded(Idle)
  BY DEF Idle, Request, PCs, Statuses, Fits, HasDeleted, Grounded, Owns

LEMMA IdleApart ==
  ASSUME TypeOK, NEW q \in Requests, Fits(req[q]), Idle.license = NoLicense
  PROVE  Apart(Idle, req[q])
<1>1. req[q] \in Request
  BY DEF TypeOK
<1>2. req[q].pc = "CreateSave" => req[q].license \in Licenses
  BY DEF Fits
<1> QED
  BY <1>1, <1>2 DEF Apart, Idle, Owns, HasDeleted, HoldsLicense

LEMMA ApartSymmetric ==
  ASSUME NEW x, NEW y, Apart(x, y)
  PROVE  Apart(y, x)
<1>1. \A e \in y.added, f \in x.added : Key(e) # Key(f)
  BY DEF Apart
<1> QED
  BY <1>1 DEF Apart

\* A history flag disturbs nothing.
SameBut(x, y) == \/ x = y
                 \/ y.pc # "idle" /\ x = [y EXCEPT !.alone = FALSE]

\* A step that leaves the tables alone and gives a handler locals that fit.
LEMMA StepKeepsIInv ==
  ASSUME IInv, NEW r \in Requests, NEW x \in Request,
         req' \in [Requests -> Request], req'[r] = x,
         \A q \in Requests \ {r} : SameBut(req'[q], req[q]),
         UNCHANGED <<licenses, entitlements>>,
         x.pc = "idle" => x = Idle,
         Fits(x), Grounded(x),
         \A q \in Requests \ {r} : Apart(x, req[q])
  PROVE  IInv'
<1> USE DEF IInv
<1>1. ASSUME NEW q \in Requests \ {r}
      PROVE  /\ req'[q].pc = "idle" => req'[q] = Idle
             /\ Fits(req'[q]) /\ Grounded(req'[q])
             /\ \A z \in Request : Apart(z, req[q]) => Apart(z, req'[q])
             /\ \A z \in Request : Apart(req[q], z) => Apart(req'[q], z)
  <2>1. req[q] \in Request /\ Fits(req[q]) /\ Grounded(req[q])
    BY DEF TypeOK, Handlers
  <2>2. req[q].pc = "idle" => req[q] = Idle
    BY DEF TypeOK
  <2>3. CASE req'[q] = req[q]
    BY <2>1, <2>2, <2>3
  <2>4. CASE req[q].pc # "idle" /\ req'[q] = [req[q] EXCEPT !.alone = FALSE]
    <3>1. /\ req'[q].pc = req[q].pc /\ req'[q].license = req[q].license
          /\ req'[q].number = req[q].number
          /\ req'[q].items = req[q].items /\ req'[q].seen = req[q].seen
          /\ req'[q].gone = req[q].gone /\ req'[q].added = req[q].added
          /\ req'[q].todo = req[q].todo
      BY <2>1, <2>4 DEF Request
    <3>2. req'[q].pc # "idle"
      BY <2>4, <3>1
    <3>3. Fits(req'[q])
      BY <2>1, <3>1 DEF Fits
    <3>4. Grounded(req'[q])
      BY <2>1, <3>1 DEF Grounded, Owns
    <3> QED
      BY <3>1, <3>2, <3>3, <3>4 DEF Apart, Owns
  <2> QED
    BY <2>3, <2>4 DEF SameBut
<1>2. \A q \in Requests : Fits(req'[q]) /\ Grounded(req'[q])
  BY <1>1
<1>3. Exists(x.license)' = Exists(x.license)
  BY DEF Exists
<1>4. \A q \in Requests : Fits(req[q])' /\ Grounded(req[q])'
  BY <1>2 DEF Fits, Grounded, Exists
<1>5. ASSUME NEW p \in Requests, NEW q \in Requests, p # q
      PROVE  Apart(req'[p], req'[q])
  <2>1. CASE p = r
    BY <1>1, <1>5, <2>1
  <2>2. CASE q = r
    <3>1. Apart(x, req'[p])
      BY <1>1, <1>5, <2>2
    <3> QED
      BY <2>2, <3>1, ApartSymmetric
  <2>3. CASE p # r /\ q # r
    <3>1. Apart(req[p], req[q])
      BY <1>5 DEF Handlers
    <3>2. Apart(req[p], req'[q])
      BY <1>1, <2>3, <3>1 DEF TypeOK
    <3> QED
      BY <1>1, <2>3, <3>2
  <2> QED
    BY <2>1, <2>2, <2>3
<1>6. Handlers'
  BY <1>4, <1>5 DEF Handlers, Apart, Owns
<1>7. TypeOK'
  <2>1. \A q \in Requests : req'[q].pc = "idle" => req'[q] = Idle
    BY <1>1
  <2> QED
    BY <1>2, <2>1 DEF TypeOK, Grounded
<1> QED
  BY <1>6, <1>7 DEF RowsExist, CodeOnce, NumberNamesOne, Exists

LEMMA BecomesKeepsIInv ==
  ASSUME IInv, NEW r \in Requests, NEW x \in Request, Becomes(r, x),
         UNCHANGED <<licenses, entitlements>>,
         x.pc = "idle" => x = Idle,
         Fits(x), Grounded(x),
         \A q \in Requests \ {r} : Apart(x, req[q])
  PROVE  IInv'
<1>1. req \in [Requests -> Request]
  BY DEF IInv, TypeOK
<1>2. /\ req' \in [Requests -> Request] /\ req'[r] = x
      /\ \A q \in Requests \ {r} : req'[q] = req[q]
  BY <1>1 DEF Becomes
<1>3. \A q \in Requests \ {r} : SameBut(req'[q], req[q])
  BY <1>2 DEF SameBut
<1> QED
  BY <1>2, <1>3, StepKeepsIInv

LEMMA BeginsKeepsIInv ==
  ASSUME IInv, NEW r \in Requests, NEW x \in Request, Begins(r, x),
         UNCHANGED <<licenses, entitlements>>,
         x.pc # "idle", Fits(x), Grounded(x),
         \A q \in Requests \ {r} : Apart(x, req[q])
  PROVE  IInv'
<1> DEFINE y == [x EXCEPT !.alone = Busy(x.license) = {}]
<1>1. req \in [Requests -> Request]
  BY DEF IInv, TypeOK
<1>2. /\ y \in Request
      /\ y.pc = x.pc /\ y.license = x.license /\ y.number = x.number
      /\ y.items = x.items /\ y.seen = x.seen /\ y.gone = x.gone
      /\ y.added = x.added /\ y.todo = x.todo
  BY DEF Request
<1> HIDE DEF y
<1>3. ASSUME NEW q \in Requests, req[q].license = x.license
      PROVE  req[q].pc # "idle"
  <2>1. x.license \in Licenses
    BY DEF Fits
  <2>2. Idle.license = NoLicense
    BY DEF Idle
  <2> QED
    BY <1>3, <2>1, <2>2 DEF IInv, TypeOK
<1>4. ASSUME NEW q \in Requests
      PROVE  [req[q] EXCEPT !.alone = FALSE] \in Request
  BY <1>1 DEF Request
<1>5. req' = [q \in Requests |->
                IF q = r THEN y
                ELSE IF q \in Busy(x.license) THEN [req[q] EXCEPT !.alone = FALSE]
                ELSE req[q]]
  BY DEF Begins, y
<1>6. req' \in [Requests -> Request] /\ req'[r] = y
  <2>1. \A q \in Requests : req[q] \in Request
    BY <1>1
  <2> QED
    BY <1>2, <1>4, <1>5, <2>1
<1>7. \A q \in Requests \ {r} : SameBut(req'[q], req[q])
  BY <1>3, <1>5 DEF SameBut, Busy
<1>8. Fits(y) /\ Grounded(y)
  BY <1>2 DEF Fits, Grounded, Owns
<1>9. \A q \in Requests \ {r} : Apart(y, req[q])
  BY <1>2 DEF Apart, Owns
<1> QED
  BY <1>2, <1>6, <1>7, <1>8, <1>9, StepKeepsIInv

LEMMA RollbackKeepsIInv ==
  ASSUME IInv, NEW r \in Requests, Rollback(r)
  PROVE  IInv'
<1>1. \A q \in Requests : Apart(Idle, req[q])
  BY IdleApart DEF IInv, Handlers, Idle
<1> QED
  BY <1>1, IdleFits, BecomesKeepsIInv DEF Rollback

-----------------------------------------------------------------------------
(* One lemma for each action. *)

LEMMA NewEntitlementsOwn ==
  ASSUME NEW l \in Licenses, NEW p \in Puts, NEW codes \in SUBSET Codes,
         codes = {} \/ Fresh(p)
  PROVE  LET items == NewEntitlements(l, p, codes)
         IN /\ items \in SUBSET Entitlement
            /\ \A e \in items : e.license = l
            /\ \A e, f \in items : Key(e) = Key(f) => e = f
            /\ items \cap entitlements = {}
            /\ \A q \in Requests : items \cap req[q].items = {}
<1> DEFINE items == NewEntitlements(l, p, codes)
<1>1. \A e \in items : e.put = p /\ e.license = l
  BY DEF NewEntitlements
<1>2. \A e \in items : e \in Entitlement
  BY DEF NewEntitlements, Entitlement
<1>3. \A e, f \in items : Key(e) = Key(f) => e = f
  BY DEF NewEntitlements, Key
<1>4. items \cap InUse = {}
  <2>1. CASE codes = {}
    BY <2>1 DEF NewEntitlements
  <2>2. CASE Fresh(p)
    BY <1>1, <2>2 DEF Fresh
  <2> QED
    BY <2>1, <2>2
<1>5. entitlements \subseteq InUse /\ \A q \in Requests : req[q].items \subseteq InUse
  BY DEF InUse
<1> QED
  BY <1>1, <1>2, <1>3, <1>4, <1>5

LEMMA CreateFindKeepsIInv ==
  ASSUME IInv, NEW r \in Requests, NEW l \in Licenses, NEW n \in LicenseNumbers,
         NEW p \in Puts, NEW codes \in SUBSET Codes, CreateFind(r, l, n, p, codes)
  PROVE  IInv'
<1> DEFINE items == NewEntitlements(l, p, codes)
           x == [Idle EXCEPT !.pc = "CreateSave", !.license = l, !.number = n,
                             !.items = items]
<1>1. /\ items \in SUBSET Entitlement
      /\ \A e \in items : e.license = l
      /\ \A e, f \in items : Key(e) = Key(f) => e = f
      /\ items \cap entitlements = {}
      /\ \A q \in Requests : items \cap req[q].items = {}
  BY NewEntitlementsOwn DEF CreateFind
<1> HIDE DEF items
<1>2. /\ x \in Request /\ x.pc = "CreateSave" /\ x.license = l /\ x.number = n
      /\ x.items = items /\ x.seen = {} /\ x.gone = {} /\ x.added = {} /\ x.todo = {}
  BY <1>1 DEF Idle, Request, PCs, Statuses
<1>3. Begins(r, x) /\ UNCHANGED <<licenses, entitlements>> /\ ~Exists(l) /\ Busy(l) = {}
  BY DEF CreateFind, items
<1> HIDE DEF x
<1>4. Fits(x)
  BY <1>1, <1>2 DEF Fits, HasDeleted
<1>5. Grounded(x)
  BY <1>1, <1>2, <1>3 DEF Grounded
<1>6. ASSUME NEW q \in Requests \ {r} PROVE Apart(x, req[q])
  <2>1. req[q].license # l
    BY <1>3 DEF Busy
  <2> QED
    BY <1>1, <1>2, <2>1 DEF Apart, HoldsLicense
<1> QED
  BY <1>2, <1>3, <1>4, <1>5, <1>6, BeginsKeepsIInv

\* A License that exists is not one that is being created.
LEMMA ExistingIsNotNew ==
  ASSUME IInv, NEW q \in Requests, NEW l, Exists(l), req[q].pc = "CreateSave"
  PROVE  l # req[q].license
  BY DEF IInv, Handlers, Grounded

LEMMA ReplaceReadKeepsIInv ==
  ASSUME IInv, NEW r \in Requests, NEW l \in Licenses,
         NEW p \in Puts, NEW codes \in SUBSET Codes, ReplaceRead(r, l, p, codes)
  PROVE  IInv'
<1> DEFINE items == NewEntitlements(l, p, codes)
           x == [Idle EXCEPT !.pc = "ReplaceScan", !.license = l,
                             !.status = licenses[l].status, !.items = items]
<1>1. /\ items \in SUBSET Entitlement
      /\ \A e \in items : e.license = l
      /\ \A e, f \in items : Key(e) = Key(f) => e = f
      /\ items \cap entitlements = {}
      /\ \A q \in Requests : items \cap req[q].items = {}
  BY NewEntitlementsOwn DEF ReplaceRead
<1> HIDE DEF items
<1>2. licenses[l].status \in Statuses
  BY DEF IInv, TypeOK, LicenseRow
<1>3. /\ x \in Request /\ x.pc = "ReplaceScan" /\ x.license = l
      /\ x.items = items /\ x.seen = {} /\ x.gone = {} /\ x.added = {} /\ x.todo = {}
  BY <1>1, <1>2 DEF Idle, Request, PCs, Statuses
<1>4. Begins(r, x) /\ UNCHANGED <<licenses, entitlements>> /\ Exists(l)
  BY DEF ReplaceRead, items
<1> HIDE DEF x
<1>5. Fits(x)
  BY <1>1, <1>3 DEF Fits, HasDeleted
<1>6. Grounded(x)
  BY <1>1, <1>3, <1>4 DEF Grounded
<1>7. ASSUME NEW q \in Requests \ {r} PROVE Apart(x, req[q])
  BY <1>1, <1>3, <1>4, ExistingIsNotNew DEF Apart, HoldsLicense
<1> QED
  BY <1>3, <1>4, <1>5, <1>6, <1>7, BeginsKeepsIInv

LEMMA ChangeReadKeepsIInv ==
  ASSUME IInv, NEW r \in Requests, NEW l \in Licenses, NEW s \in Statuses,
         ChangeRead(r, l, s)
  PROVE  IInv'
<1> DEFINE x == [Idle EXCEPT !.pc = "ChangeLoad", !.license = l, !.status = s]
<1>1. /\ x \in Request /\ x.pc = "ChangeLoad" /\ x.license = l /\ x.items = {}
      /\ x.seen = {} /\ x.gone = {} /\ x.added = {} /\ x.todo = {}
  BY DEF Idle, Request, PCs, Statuses
<1>2. Begins(r, x) /\ UNCHANGED <<licenses, entitlements>> /\ Exists(l)
  BY DEF ChangeRead
<1> HIDE DEF x
<1>3. Fits(x)
  BY <1>1 DEF Fits, HasDeleted
<1>4. Grounded(x)
  BY <1>1, <1>2 DEF Grounded
<1>5. ASSUME NEW q \in Requests \ {r} PROVE Apart(x, req[q])
  BY <1>1, <1>2, ExistingIsNotNew DEF Apart, HoldsLicense
<1> QED
  BY <1>1, <1>2, <1>3, <1>4, <1>5, BeginsKeepsIInv

\* What is known of a handler that goes on.
LEMMA HandlerFacts ==
  ASSUME IInv, NEW r \in Requests
  PROVE  /\ req[r] \in Request /\ Fits(req[r]) /\ Grounded(req[r])
         /\ \A q \in Requests \ {r} : Apart(req[r], req[q]) /\ Fits(req[q]) /\ Grounded(req[q])
  BY DEF IInv, TypeOK, Handlers

LEMMA ReplaceScanKeepsIInv ==
  ASSUME IInv, NEW r \in Requests, ReplaceScan(r)
  PROVE  IInv'
<1> DEFINE x == [req[r] EXCEPT !.pc = "ReplaceDelete", !.seen = Of(req[r].license)]
<1>1. req[r] \in Request /\ Fits(req[r]) /\ Grounded(req[r])
  BY HandlerFacts
<1>2. req[r].pc = "ReplaceScan" /\ Becomes(r, x) /\ UNCHANGED <<licenses, entitlements>>
  BY DEF ReplaceScan
<1>3. Of(req[r].license) \in SUBSET Entitlement
  BY DEF Of, IInv, TypeOK
<1>4. /\ x \in Request /\ x.pc = "ReplaceDelete" /\ x.license = req[r].license
      /\ x.items = req[r].items /\ x.seen = Of(req[r].license) /\ x.gone = req[r].gone
      /\ x.added = req[r].added /\ x.todo = req[r].todo
  BY <1>1, <1>3 DEF Request, PCs
<1> HIDE DEF x
<1>5. Fits(x)
  BY <1>1, <1>2, <1>4 DEF Fits, HasDeleted, Of
<1>6. Grounded(x)
  BY <1>1, <1>2, <1>4 DEF Grounded, Owns
<1>7. ASSUME NEW q \in Requests \ {r} PROVE Apart(x, req[q])
  <2>1. Apart(req[r], req[q])
    BY HandlerFacts
  <2> QED
    BY <1>2, <1>4, <2>1 DEF Apart, Owns, HoldsLicense
<1> QED
  BY <1>2, <1>4, <1>5, <1>6, <1>7, BecomesKeepsIInv

LEMMA ReplaceDeleteKeepsIInv ==
  ASSUME IInv, NEW r \in Requests, ReplaceDelete(r)
  PROVE  IInv'
<1> DEFINE x == [req[r] EXCEPT !.pc = "ReplaceInsert", !.seen = {},
                               !.gone = req[r].seen \cap entitlements,
                               !.todo = req[r].items]
<1>1. req[r] \in Request /\ Fits(req[r]) /\ Grounded(req[r])
  BY HandlerFacts
<1>2. /\ req[r].pc = "ReplaceDelete" /\ RowHolders(r) = {} /\ Becomes(r, x)
      /\ UNCHANGED <<licenses, entitlements>>
  BY DEF ReplaceDelete
<1>3. /\ x \in Request /\ x.pc = "ReplaceInsert" /\ x.license = req[r].license
      /\ x.items = req[r].items /\ x.seen = {}
      /\ x.gone = req[r].seen \cap entitlements
      /\ x.added = req[r].added /\ x.todo = req[r].items
  BY <1>1 DEF Request, PCs
<1>4. req[r].added = {}
  BY <1>1, <1>2 DEF Fits, HasDeleted
<1> HIDE DEF x
<1>5. Fits(x)
  BY <1>1, <1>2, <1>3, <1>4 DEF Fits, HasDeleted
<1>6. Grounded(x)
  BY <1>1, <1>2, <1>3, <1>4 DEF Grounded, Owns
<1>7. ASSUME NEW q \in Requests \ {r} PROVE Apart(x, req[q])
  <2>1. Apart(req[r], req[q]) /\ Grounded(req[q])
    BY HandlerFacts
  <2>2. req[q].gone \cap req[r].seen = {}
    BY <1>2 DEF RowHolders
  <2>3. \A e \in req[q].added, f \in x.gone : Key(e) # Key(f)
    BY <1>3, <2>1, <2>2 DEF Grounded
  <2> QED
    BY <1>2, <1>3, <1>4, <2>1, <2>2, <2>3 DEF Apart, Owns, HasDeleted, HoldsLicense
<1> QED
  BY <1>2, <1>3, <1>5, <1>6, <1>7, BecomesKeepsIInv

LEMMA InsertKeepsIInv ==
  ASSUME IInv, NEW r \in Requests, req[r].pc \in {"ReplaceInsert", "ChangeInsert"},
         NEW e \in req[r].todo, Insert(r, e)
  PROVE  IInv'
<1> DEFINE x == [req[r] EXCEPT !.todo = @ \ {e}, !.added = @ \cup {e}]
<1>1. CASE Rollback(r)
  BY <1>1, RollbackKeepsIInv
<1>2. CASE /\ \A f \in entitlements \ req[r].gone : Key(f) # Key(e)
           /\ Becomes(r, x) /\ UNCHANGED <<licenses, entitlements>>
  <2>1. req[r] \in Request /\ Fits(req[r]) /\ Grounded(req[r])
    BY HandlerFacts
  <2>2. e \in req[r].items /\ e \in Entitlement
    BY <2>1 DEF Fits, Request
  <2>3. /\ x \in Request /\ x.pc = req[r].pc /\ x.license = req[r].license
        /\ x.items = req[r].items /\ x.seen = req[r].seen /\ x.gone = req[r].gone
        /\ x.added = req[r].added \cup {e} /\ x.todo = req[r].todo \ {e}
    BY <2>1, <2>2 DEF Request
  <2> HIDE DEF x
  <2>4. Fits(x)
    BY <2>1, <2>2, <2>3 DEF Fits, HasDeleted
  <2>5. e \notin entitlements
    <3>1. CASE req[r].pc = "ReplaceInsert"
      BY <2>1, <2>2, <3>1 DEF Grounded, Owns, HasDeleted
    <3>2. CASE req[r].pc = "ChangeInsert"
      BY <1>2, <2>1, <3>2 DEF Fits, HasDeleted
    <3> QED
      BY <3>1, <3>2
  <2>6. Grounded(x)
    BY <1>2, <2>1, <2>3, <2>5 DEF Grounded, Owns
  <2>7. ASSUME NEW q \in Requests \ {r} PROVE Apart(x, req[q])
    <3>1. Apart(req[r], req[q])
      BY HandlerFacts
    <3>2. \A f \in req[q].gone \cup req[q].added : Key(f) # Key(e)
      BY DEF Insert, KeyHolders
    <3> QED
      BY <2>3, <3>1, <3>2 DEF Apart, Owns
  <2> QED
    BY <1>2, <2>3, <2>4, <2>6, <2>7, BecomesKeepsIInv
<1> QED
  BY <1>1, <1>2 DEF Insert

\* The steps that only select the License row for save(), or lock it.
LEMMA SelectKeepsIInv ==
  ASSUME IInv, NEW r \in Requests, ReplaceSelect(r) \/ ChangeSelect(r)
  PROVE  IInv'
<1> DEFINE pc == IF req[r].pc = "ReplaceInsert" THEN "ReplaceUpdate" ELSE "ChangeUpdate"
           x == [req[r] EXCEPT !.pc = pc, !.base = licenses[req[r].license].status]
<1>1. req[r] \in Request /\ Fits(req[r]) /\ Grounded(req[r])
  BY HandlerFacts
<1>2. /\ \/ req[r].pc = "ReplaceInsert" /\ req[r].todo = {}
         \/ req[r].pc = "ChangeSelect"
      /\ Becomes(r, x) /\ UNCHANGED <<licenses, entitlements>>
  BY DEF ReplaceSelect, ChangeSelect
<1>3. licenses[req[r].license].status \in Statuses
  BY <1>1, <1>2 DEF Fits, IInv, TypeOK, LicenseRow
<1>4. /\ x \in Request /\ x.pc = pc /\ x.license = req[r].license
      /\ x.items = req[r].items /\ x.seen = req[r].seen /\ x.gone = req[r].gone
      /\ x.added = req[r].added /\ x.todo = req[r].todo
  BY <1>1, <1>3 DEF Request, PCs
<1> HIDE DEF x
<1>5. Fits(x)
  BY <1>1, <1>2, <1>4 DEF Fits, HasDeleted
<1>6. Grounded(x)
  BY <1>1, <1>2, <1>4 DEF Grounded, Owns, HasDeleted
<1>7. ASSUME NEW q \in Requests \ {r} PROVE Apart(x, req[q])
  <2>1. Apart(req[r], req[q])
    BY HandlerFacts
  <2> QED
    BY <1>2, <1>4, <2>1 DEF Apart, Owns, HasDeleted, HoldsLicense
<1>8. x.pc # "idle"
  BY <1>4
<1> QED
  BY <1>2, <1>4, <1>5, <1>6, <1>7, <1>8, BecomesKeepsIInv

LEMMA UpdateKeepsIInv ==
  ASSUME IInv, NEW r \in Requests, ReplaceUpdate(r) \/ ChangeUpdate(r)
  PROVE  IInv'
<1> DEFINE pc == IF req[r].pc = "ReplaceUpdate" THEN "ReplaceCommit" ELSE "ChangeMatch"
           x == [req[r] EXCEPT !.pc = pc]
<1>1. req[r] \in Request /\ Fits(req[r]) /\ Grounded(req[r])
  BY HandlerFacts
<1>2. /\ req[r].pc \in {"ReplaceUpdate", "ChangeUpdate"} /\ LicenseHolders(r) = {}
      /\ Becomes(r, x) /\ UNCHANGED <<licenses, entitlements>>
  BY DEF ReplaceUpdate, ChangeUpdate, Goes
<1>3. /\ x \in Request /\ x.pc = pc /\ x.license = req[r].license
      /\ x.items = req[r].items /\ x.seen = req[r].seen /\ x.gone = req[r].gone
      /\ x.added = req[r].added /\ x.todo = req[r].todo
  BY <1>1 DEF Request, PCs
<1> HIDE DEF x
<1>4. Fits(x)
  BY <1>1, <1>2, <1>3 DEF Fits, HasDeleted
<1>5. Grounded(x)
  BY <1>1, <1>2, <1>3 DEF Grounded, Owns, HasDeleted
<1>6. ASSUME NEW q \in Requests \ {r} PROVE Apart(x, req[q])
  <2>1. Apart(req[r], req[q])
    BY HandlerFacts
  <2>2. req[q].pc \in HoldsLicense => req[q].license # req[r].license
    BY <1>2 DEF LicenseHolders
  <2> QED
    BY <1>2, <1>3, <2>1, <2>2 DEF Apart, Owns, HasDeleted, HoldsLicense
<1>7. x.pc # "idle"
  BY <1>3
<1> QED
  BY <1>2, <1>3, <1>4, <1>5, <1>6, <1>7, BecomesKeepsIInv

LEMMA ChangeLoadKeepsIInv ==
  ASSUME IInv, NEW r \in Requests, ChangeLoad(r)
  PROVE  IInv'
<1> DEFINE x == [req[r] EXCEPT !.pc = "ChangeSelect", !.items = Of(req[r].license)]
<1>1. req[r] \in Request /\ Fits(req[r]) /\ Grounded(req[r])
  BY HandlerFacts
<1>2. req[r].pc = "ChangeLoad" /\ Becomes(r, x) /\ UNCHANGED <<licenses, entitlements>>
  BY DEF ChangeLoad
<1>3. Of(req[r].license) \in SUBSET Entitlement
  BY DEF Of, IInv, TypeOK
<1>4. /\ x \in Request /\ x.pc = "ChangeSelect" /\ x.license = req[r].license
      /\ x.items = Of(req[r].license) /\ x.seen = req[r].seen /\ x.gone = req[r].gone
      /\ x.added = req[r].added /\ x.todo = req[r].todo
  BY <1>1, <1>3 DEF Request, PCs
<1>5. req[r].added = {} /\ req[r].todo = {} /\ req[r].gone = {}
  BY <1>1, <1>2 DEF Fits, HasDeleted
<1> HIDE DEF x
<1>6. Fits(x)
  BY <1>1, <1>2, <1>4, <1>5 DEF Fits, HasDeleted, Of, IInv, CodeOnce
<1>7. Grounded(x)
  BY <1>1, <1>2, <1>4, <1>5 DEF Grounded, Owns, HasDeleted
<1>8. ASSUME NEW q \in Requests \ {r} PROVE Apart(x, req[q])
  <2>1. Apart(req[r], req[q]) /\ Grounded(req[q])
    BY HandlerFacts
  <2>2. Owns(req[q]) => x.items \cap req[q].items = {}
    BY <1>4, <2>1 DEF Grounded, Of
  <2> QED
    BY <1>2, <1>4, <1>5, <2>1, <2>2 DEF Apart, Owns, HasDeleted, HoldsLicense
<1> QED
  BY <1>2, <1>4, <1>6, <1>7, <1>8, BecomesKeepsIInv

LEMMA ChangeMatchKeepsIInv ==
  ASSUME IInv, NEW r \in Requests, ChangeMatch(r)
  PROVE  IInv'
<1> DEFINE x == [req[r] EXCEPT !.pc = "ChangeInsert",
                               !.todo = req[r].items \ entitlements]
<1>1. req[r] \in Request /\ Fits(req[r]) /\ Grounded(req[r])
  BY HandlerFacts
<1>2. req[r].pc = "ChangeMatch" /\ Becomes(r, x) /\ UNCHANGED <<licenses, entitlements>>
  BY DEF ChangeMatch
<1>3. /\ x \in Request /\ x.pc = "ChangeInsert" /\ x.license = req[r].license
      /\ x.items = req[r].items /\ x.seen = req[r].seen /\ x.gone = req[r].gone
      /\ x.added = req[r].added /\ x.todo = req[r].items \ entitlements
  BY <1>1 DEF Request, PCs
<1> HIDE DEF x
<1>4. Fits(x)
  BY <1>1, <1>2, <1>3 DEF Fits, HasDeleted
<1>5. Grounded(x)
  BY <1>1, <1>2, <1>3 DEF Grounded, Owns, HasDeleted
<1>6. ASSUME NEW q \in Requests \ {r} PROVE Apart(x, req[q])
  <2>1. Apart(req[r], req[q])
    BY HandlerFacts
  <2> QED
    BY <1>2, <1>3, <2>1 DEF Apart, Owns, HasDeleted, HoldsLicense
<1> QED
  BY <1>2, <1>3, <1>4, <1>5, <1>6, BecomesKeepsIInv

\* A step that writes the tables and ends its request.
LEMMA WriteKeepsIInv ==
  ASSUME IInv, NEW r \in Requests, Becomes(r, Idle),
         licenses' \in [Licenses -> LicenseRow], entitlements' \subseteq Entitlement,
         \A q \in Requests \ {r} : Grounded(req[q])',
         RowsExist', CodeOnce', NumberNamesOne'
  PROVE  IInv'
<1>1. req \in [Requests -> Request] /\ \A q \in Requests : req[q].pc = "idle" => req[q] = Idle
  BY DEF IInv, TypeOK
<1>2. /\ req' \in [Requests -> Request] /\ req'[r] = Idle
      /\ \A q \in Requests \ {r} : req'[q] = req[q]
  BY <1>1, IdleFits DEF Becomes
<1>3. \A q \in Requests : Fits(req'[q])
  BY <1>2, IdleFits, HandlerFacts
<1>4. Grounded(req[r])'
  BY <1>2 DEF Grounded, Idle, Owns, HasDeleted
<1>5. ASSUME NEW p \in Requests, NEW q \in Requests, p # q
      PROVE  Apart(req'[p], req'[q])
  <2>1. CASE p = r
    BY <1>2, <1>5, <2>1, IdleApart, HandlerFacts DEF IInv, Idle
  <2>2. CASE q = r
    <3>1. Apart(req'[q], req'[p])
      BY <1>2, <1>5, <2>2, IdleApart, HandlerFacts DEF IInv, Idle
    <3> QED
      BY <3>1, ApartSymmetric
  <2>3. CASE p # r /\ q # r
    BY <1>2, <1>5, <2>3 DEF IInv, Handlers
  <2> QED
    BY <2>1, <2>2, <2>3
<1>6. \A q \in Requests : Grounded(req[q])'
  BY <1>4
<1>7. Handlers'
  BY <1>3, <1>5, <1>6 DEF Handlers
<1>8. TypeOK'
  BY <1>1, <1>2, <1>6 DEF TypeOK, Grounded
<1> QED
  BY <1>7, <1>8 DEF IInv

LEMMA CreateSaveKeepsIInv ==
  ASSUME IInv, NEW r \in Requests, CreateSave(r)
  PROVE  IInv'
<1> DEFINE l == req[r].license
           n == req[r].number
           items == req[r].items
<1>1. CASE Rollback(r)
  BY <1>1, RollbackKeepsIInv
<1>2. CASE /\ ~NumberTaken(n)
           /\ licenses' = [licenses EXCEPT ![l] = NewLicense(n)]
           /\ entitlements' = entitlements \cup items
           /\ Becomes(r, Idle)
  <2>1. req[r] \in Request /\ Fits(req[r]) /\ Grounded(req[r]) /\ req[r].pc = "CreateSave"
    BY HandlerFacts DEF CreateSave
  <2>2. /\ l \in Licenses /\ n \in LicenseNumbers /\ ~Exists(l)
        /\ items \subseteq Entitlement /\ items \cap entitlements = {}
        /\ \A e \in items : e.license = l
        /\ \A e, f \in items : Key(e) = Key(f) => e = f
    BY <2>1 DEF Fits, Grounded, Owns, Request
  <2>3. licenses \in [Licenses -> LicenseRow] /\ entitlements \subseteq Entitlement
    BY DEF IInv, TypeOK
  <2>4. ASSUME NEW q \in Requests \ {r}
        PROVE  /\ Fits(req[q]) /\ Grounded(req[q]) /\ req[q] \in Request
               /\ req[q].license # l /\ items \cap req[q].items = {}
    BY <2>1, HandlerFacts DEF Apart, Owns
  <2> HIDE DEF l, n, items
  <2>5. NewLicense(n) \in LicenseRow /\ NewLicense(n).number = n /\ n # NoNumber
    BY <2>2 DEF NewLicense, LicenseRow, Statuses
  <2>6. \A m \in Licenses : licenses'[m] = IF m = l THEN NewLicense(n) ELSE licenses[m]
    BY <1>2, <2>3
  <2>7. licenses' \in [Licenses -> LicenseRow] /\ entitlements' \subseteq Entitlement
    BY <1>2, <2>2, <2>3, <2>5
  <2>8. \A m \in Licenses : Exists(m)' <=> Exists(m) \/ m = l
    BY <2>5, <2>6 DEF Exists
  <2>9. ASSUME NEW q \in Requests \ {r} PROVE Grounded(req[q])'
    <3>1. \A e \in items : e \notin req[q].added
      BY <2>2, <2>4 DEF Fits
    <3>2. \A e \in req[q].added, f \in items : Key(e) # Key(f)
      BY <2>2, <2>4 DEF Fits, Key
    <3>3. req'[q] = req[q]
      BY <1>2 DEF Becomes, IInv, TypeOK
    <3>4. req[q].pc # "idle" => req[q].license \in Licenses /\ req[q].license # l
      BY <2>4 DEF Fits
    <3>5. /\ req[q].pc = "CreateSave" => ~Exists(req[q].license)'
          /\ req[q].pc \notin {"idle", "CreateSave"} => Exists(req[q].license)'
      <4>1. req[q].pc # "idle" => licenses'[req[q].license] = licenses[req[q].license]
        BY <2>6, <3>4
      <4> QED
        BY <2>4, <3>3, <4>1 DEF Grounded, Exists
    <3>6. req[q].gone \subseteq entitlements' /\ req[q].added \cap entitlements' = {}
      BY <1>2, <2>4, <3>1 DEF Grounded
    <3>7. \A e \in req[q].added, f \in entitlements' \ req[q].gone : Key(e) # Key(f)
      BY <1>2, <2>4, <3>2 DEF Grounded
    <3>8. Owns(req[q]) => req[q].items \cap entitlements' = {}
      BY <1>2, <2>4 DEF Grounded
    <3> QED
      BY <3>3, <3>5, <3>6, <3>7, <3>8 DEF Grounded, Owns
  <2>10. RowsExist'
    BY <1>2, <2>2, <2>3, <2>7, <2>8 DEF RowsExist, IInv, Entitlement
  <2>11. CodeOnce'
    <3>1. \A e \in entitlements, f \in items : Key(e) # Key(f)
      BY <2>2 DEF IInv, RowsExist, Key
    <3> QED
      BY <1>2, <2>2, <3>1 DEF CodeOnce, IInv
  <2>12. NumberNamesOne'
    <3>1. \A m \in Licenses : licenses[m].number # n
      BY <1>2 DEF NumberTaken
    <3> QED
      BY <2>5, <2>6, <3>1 DEF NumberNamesOne, Exists, IInv
  <2> QED
    BY <1>2, <2>7, <2>9, <2>10, <2>11, <2>12, WriteKeepsIInv
<1> QED
  BY <1>1, <1>2 DEF CreateSave

LEMMA CommitKeepsIInv ==
  ASSUME IInv, NEW r \in Requests, Commit(r), req[r].pc \notin {"idle", "CreateSave"}
  PROVE  IInv'
<1>1. req[r] \in Request /\ Fits(req[r]) /\ Grounded(req[r])
  BY HandlerFacts
<1>2. /\ req[r].license \in Licenses /\ Exists(req[r].license)
      /\ req[r].status \in Statuses
      /\ req[r].added \subseteq req[r].items /\ req[r].added \subseteq Entitlement
      /\ \A e \in req[r].added : e.license = req[r].license
      /\ \A e, f \in req[r].added : Key(e) = Key(f) => e = f
  BY <1>1 DEF Fits, Grounded, Request
<1>3. licenses \in [Licenses -> LicenseRow] /\ entitlements \subseteq Entitlement
  BY DEF IInv, TypeOK
<1>4. entitlements' = (entitlements \ req[r].gone) \cup req[r].added
  BY DEF Commit
<1>5. licenses' \in [Licenses -> LicenseRow] /\ entitlements' \subseteq Entitlement
  <2>1. \A x \in LicenseRow : [x EXCEPT !.status = req[r].status] \in LicenseRow
    BY <1>2 DEF LicenseRow
  <2>2. CASE licenses' = licenses
    BY <1>2, <1>3, <1>4, <2>2
  <2>3. CASE licenses' = [licenses EXCEPT ![req[r].license].status = req[r].status]
    BY <1>2, <1>3, <1>4, <2>1, <2>3
  <2> QED
    BY <2>2, <2>3 DEF Commit
<1>6. \A m \in Licenses : licenses'[m].number = licenses[m].number
  BY <1>2, <1>3 DEF Commit, LicenseRow
<1>7. ASSUME NEW q \in Requests \ {r} PROVE Grounded(req[q])'
  <2>1. /\ Fits(req[q]) /\ Grounded(req[q]) /\ Apart(req[r], req[q]) /\ req[q] \in Request
    BY HandlerFacts
  <2>2. req'[q] = req[q]
    BY DEF Commit, Becomes, IInv, TypeOK
  <2>3. req[q].pc # "idle" => Exists(req[q].license)' = Exists(req[q].license)
    BY <1>6, <2>1, <2>2 DEF Exists, Fits
  <2>4. req[q].gone \subseteq entitlements'
    BY <1>4, <2>1 DEF Grounded, Apart
  <2>5. \A e \in req[q].added, f \in entitlements' \ req[q].gone : Key(e) # Key(f)
    BY <1>4, <2>1 DEF Grounded, Apart
  <2>6. req[q].added \cap entitlements' = {}
    BY <1>4, <2>1 DEF Grounded, Apart
  <2>7. Owns(req[q]) => req[q].items \cap entitlements' = {}
    BY <1>2, <1>4, <2>1 DEF Grounded, Apart
  <2>8. /\ req[q].pc = "CreateSave" => ~Exists(req[q].license)'
        /\ req[q].pc \notin {"idle", "CreateSave"} => Exists(req[q].license)'
    BY <2>1, <2>3 DEF Grounded
  <2> QED
    BY <2>2, <2>4, <2>5, <2>6, <2>7, <2>8 DEF Grounded, Owns
<1>8. RowsExist'
  <2>1. \A e \in entitlements' : e.license \in Licenses /\ Exists(e.license)
    BY <1>2, <1>3, <1>4, <1>5 DEF IInv, RowsExist, Entitlement
  <2> QED
    BY <1>6, <2>1 DEF RowsExist, Exists
<1>9. CodeOnce'
  BY <1>1, <1>2, <1>4 DEF CodeOnce, IInv, Grounded
<1>10. NumberNamesOne'
  BY <1>6 DEF NumberNamesOne, Exists, IInv
<1> QED
  BY <1>5, <1>7, <1>8, <1>9, <1>10, WriteKeepsIInv DEF Commit

-----------------------------------------------------------------------------
(* The invariant and what follows from it.                                 *)

LEMMA InitIInv == Init => IInv
<1> SUFFICES ASSUME Init PROVE IInv
  OBVIOUS
<1>1. req \in [Requests -> Request] /\ \A r \in Requests : req[r] = Idle
  BY IdleFits DEF Init
<1>2. licenses \in [Licenses -> LicenseRow] /\ \A l \in Licenses : ~Exists(l)
  BY DEF Init, NoRow, LicenseRow, Statuses, Exists
<1>3. Idle.gone = {} /\ Idle.added = {}
  BY DEF Idle
<1>4. TypeOK
  BY <1>1, <1>2, <1>3 DEF Init, TypeOK
<1>5. Handlers
  BY <1>1, <1>4, IdleFits, IdleApart DEF Handlers, Idle
<1> QED
  BY <1>2, <1>4, <1>5 DEF Init, IInv, RowsExist, CodeOnce, NumberNamesOne

LEMMA NextIInv == IInv /\ [Next]_vars => IInv'
<1> SUFFICES ASSUME IInv, [Next]_vars PROVE IInv'
  OBVIOUS
<1>1. ASSUME NEW r \in Requests, Arrive(r) PROVE IInv'
  BY <1>1, CreateFindKeepsIInv, ReplaceReadKeepsIInv, ChangeReadKeepsIInv DEF Arrive
<1>2. ASSUME NEW r \in Requests, Wait(r) PROVE IInv'
  <2>1. CASE ReplaceDelete(r)
    BY <2>1, ReplaceDeleteKeepsIInv
  <2>2. CASE ReplaceInsert(r) \/ ChangeInsert(r)
    BY <2>2, InsertKeepsIInv DEF ReplaceInsert, ChangeInsert
  <2>3. CASE ReplaceUpdate(r) \/ ChangeUpdate(r)
    BY <2>3, UpdateKeepsIInv
  <2> QED
    BY <1>2, <2>1, <2>2, <2>3 DEF Wait
<1>3. ASSUME NEW r \in Requests, Continue(r) PROVE IInv'
  <2>1. CASE CreateSave(r)
    BY <2>1, CreateSaveKeepsIInv
  <2>2. CASE ReplaceScan(r)
    BY <2>2, ReplaceScanKeepsIInv
  <2>3. CASE ReplaceSelect(r) \/ ChangeSelect(r)
    BY <2>3, SelectKeepsIInv
  <2>4. CASE ReplaceCommit(r) \/ ChangeCommit(r)
    BY <2>4, CommitKeepsIInv DEF ReplaceCommit, ChangeCommit
  <2>5. CASE ChangeLoad(r)
    BY <2>5, ChangeLoadKeepsIInv
  <2>6. CASE ChangeMatch(r)
    BY <2>6, ChangeMatchKeepsIInv
  <2>7. CASE DeadlockAbort(r)
    BY <2>7, RollbackKeepsIInv DEF DeadlockAbort
  <2> QED
    BY <1>3, <2>1, <2>2, <2>3, <2>4, <2>5, <2>6, <2>7 DEF Continue
<1>4. ASSUME NEW r \in Requests, Crash(r) PROVE IInv'
  BY <1>4, RollbackKeepsIInv DEF Crash
<1>5. CASE UNCHANGED vars
  BY <1>5 DEF vars, IInv, TypeOK, Handlers, Fits, Grounded, Apart, Owns, RowsExist,
       CodeOnce, NumberNamesOne, Exists
<1> QED
  BY <1>1, <1>2, <1>3, <1>4, <1>5 DEF Next

\* Every variable keeps its type, what a transaction has deleted stays committed
\* until it ends, and nobody else inserts what it has inserted.
THEOREM TypeCorrect == Spec => []TypeOK
<1>1. IInv => TypeOK
  BY DEF IInv
<1> QED
  BY <1>1, InitIInv, NextIInv, PTL DEF Spec

\* A License never has a code twice, however replacements and stale saves mix.
THEOREM CodesUnique == Spec => []CodeOnce
<1>1. IInv => CodeOnce
  BY DEF IInv
<1> QED
  BY <1>1, InitIInv, NextIInv, PTL DEF Spec

\* A number never names two Licenses.
THEOREM NumbersUnique == Spec => []NumberNamesOne
<1>1. IInv => NumberNamesOne
  BY DEF IInv
<1> QED
  BY <1>1, InitIInv, NextIInv, PTL DEF Spec

\* A status change that waits in a circle for a key waits for a replacement: who
\* else could hold it has locked the same License.
LEMMA NoCircleOfChanges == IInv => CircleNeedsReplacement
<1> SUFFICES ASSUME IInv, NEW S \in SUBSET Requests, Stuck(S),
                    \A r \in S : ~Replacing(req[r])
             PROVE  FALSE
  BY DEF CircleNeedsReplacement
<1>1. \A r \in S : req[r].pc \in {"ChangeUpdate", "ChangeInsert"}
  BY DEF Stuck, WaitsFor, Replacing
<1>2. ASSUME NEW r \in S, req[r].pc = "ChangeInsert" PROVE FALSE
  <2>1. PICK q \in S : WaitsFor(r, q)
    BY DEF Stuck
  <2>2. PICK e \in req[r].todo : q \in KeyHolders(r, e)
    BY <1>2, <2>1 DEF WaitsFor
  <2>3. q \in Requests \ {r} /\ \E f \in req[q].gone \cup req[q].added : Key(f) = Key(e)
    BY <2>2 DEF KeyHolders
  <2>4. Fits(req[r]) /\ Fits(req[q]) /\ Apart(req[r], req[q])
    BY <2>3, HandlerFacts
  <2>5. req[q].pc = "ChangeInsert"
    BY <1>1, <2>3, <2>4 DEF Fits, HasDeleted
  <2>6. req[r].license = req[q].license
    BY <2>2, <2>3, <2>4 DEF Fits, Key
  <2> QED
    BY <1>2, <2>4, <2>5, <2>6 DEF Apart, HoldsLicense
<1>3. ASSUME NEW r \in S, req[r].pc = "ChangeUpdate" PROVE FALSE
  <2>1. PICK q \in S : WaitsFor(r, q)
    BY DEF Stuck
  <2>2. req[q].pc \in HoldsLicense
    BY <1>3, <2>1 DEF WaitsFor, LicenseHolders
  <2> QED
    BY <1>1, <1>2, <2>2 DEF HoldsLicense
<1> QED
  BY <1>1, <1>2, <1>3 DEF Stuck

\* Status changes alone never wait for each other in a circle, however many run
\* at one time: only replacements of entitlements, which lock the other way
\* round, make PostgreSQL abort a transaction.
THEOREM CirclesTakeReplacements == Spec => []CircleNeedsReplacement
  BY NoCircleOfChanges, InitIInv, NextIInv, PTL DEF Spec

-----------------------------------------------------------------------------
(* A request that has a License to itself.                                 *)

\* What such a request relies on is about its own License only.
LEMMA AloneStep ==
  ASSUME AloneInv, NEW r \in Requests,
         \A q \in Requests \ {r} :
           /\ req'[q].license = req[q].license
           /\ req'[q].alone => req'[q] = req[q] /\ req'[r].license # req[q].license
           /\ req[q].alone => /\ Of(req[q].license)' = Of(req[q].license)
                              /\ licenses'[req[q].license] = licenses[req[q].license],
         req'[r].alone => /\ req'[r].pc # "idle" /\ OnCourse(req[r])'
                          /\ \A q \in Requests \ {r} : req[q].license # req'[r].license
  PROVE  AloneInv'
<1>1. ASSUME NEW q \in Requests \ {r}, req'[q].alone
      PROVE  /\ req'[q].pc # "idle" /\ OnCourse(req[q])'
             /\ \A p \in Requests \ {q} : req'[p].license # req'[q].license
  <2>1. /\ req'[q] = req[q] /\ req[q].alone
    BY <1>1
  <2>2. /\ req[q].pc # "idle" /\ OnCourse(req[q])
        /\ \A p \in Requests \ {q} : req[p].license # req[q].license
    BY <2>1 DEF AloneInv
  <2>3. OnCourse(req[q])'
    BY <1>1, <2>1, <2>2 DEF OnCourse, Replacing, Changing
  <2> QED
    BY <1>1, <2>1, <2>2, <2>3
<1> QED
  BY <1>1 DEF AloneInv

\* A handler goes on, and the tables stay.
LEMMA AloneGoesOn ==
  ASSUME IInv, AloneInv, NEW r \in Requests, NEW x, Becomes(r, x),
         UNCHANGED <<licenses, entitlements>>,
         x.license = req[r].license, x.alone = req[r].alone, x.pc # "idle",
         x.alone => OnCourse(x)
  PROVE  AloneInv'
<1>1. req'[r] = x /\ \A q \in Requests \ {r} : req'[q] = req[q]
  BY DEF Becomes, IInv, TypeOK
<1>2. x.alone => OnCourse(req[r])'
  BY <1>1 DEF OnCourse, Replacing, Changing, Of
<1>3. \A q \in Requests \ {r} : req[q].alone => req[r].license # req[q].license
  BY DEF AloneInv
<1>4. \A q \in Requests : Of(req[q].license)' = Of(req'[q].license)
  BY DEF Of
<1>5. \A q \in Requests \ {r} : Of(req[q].license)' = Of(req[q].license)
  BY <1>1, <1>4
<1>6. x.alone => \A q \in Requests \ {r} : req[q].license # x.license
  BY DEF AloneInv
<1> QED
  BY <1>1, <1>2, <1>3, <1>5, <1>6, AloneStep

LEMMA AloneRollback ==
  ASSUME IInv, AloneInv, NEW r \in Requests, Rollback(r)
  PROVE  AloneInv'
<1>1. req'[r] = Idle /\ \A q \in Requests \ {r} : req'[q] = req[q]
  BY DEF Rollback, Becomes, IInv, TypeOK
<1>2. Idle.alone = FALSE /\ Idle.license = NoLicense
  BY DEF Idle
<1>3. \A q \in Requests : req[q].alone => req[q].license \in Licenses
  BY HandlerFacts DEF AloneInv, Fits
<1>4. \A q \in Requests \ {r} : Of(req[q].license)' = Of(req[q].license)
  BY <1>1 DEF Of, Rollback
<1> QED
  BY <1>1, <1>2, <1>3, <1>4, AloneStep DEF Rollback

LEMMA AloneBegins ==
  ASSUME IInv, AloneInv, NEW r \in Requests, NEW x \in Request, Begins(r, x),
         UNCHANGED <<licenses, entitlements>>, req[r].pc = "idle",
         x.pc # "idle", OnCourse(x)
  PROVE  AloneInv'
<1> DEFINE y == [x EXCEPT !.alone = Busy(x.license) = {}]
<1>1. /\ y.pc = x.pc /\ y.license = x.license /\ y.items = x.items /\ y.seen = x.seen
      /\ y.gone = x.gone /\ y.added = x.added /\ y.todo = x.todo
      /\ y.status = x.status /\ y.base = x.base
      /\ y.alone => Busy(x.license) = {}
  BY DEF Request
<1>2. req' = [q \in Requests |->
                IF q = r THEN y
                ELSE IF q \in Busy(x.license) THEN [req[q] EXCEPT !.alone = FALSE]
                ELSE req[q]]
  BY DEF Begins
<1> HIDE DEF y
<1>3. OnCourse(y)
  BY <1>1 DEF OnCourse, Replacing, Changing
<1>4. req'[r] = y
  BY <1>2
<1>5. OnCourse(req[r])'
  BY <1>3, <1>4 DEF OnCourse, Replacing, Changing, Of
<1>6. ASSUME NEW q \in Requests \ {r}
      PROVE  /\ req'[q].license = req[q].license
             /\ req'[q].alone => req'[q] = req[q] /\ y.license # req[q].license
  <2>1. req[q] \in Request
    BY HandlerFacts
  <2>2. CASE q \in Busy(x.license)
    BY <1>2, <2>1, <2>2 DEF Request
  <2>3. CASE q \notin Busy(x.license)
    BY <1>1, <1>2, <2>3 DEF Busy
  <2> QED
    BY <2>2, <2>3
<1>7. \A q \in Requests \ {r} : Of(req[q].license)' = Of(req[q].license)
  BY <1>6 DEF Of
<1>8. y.alone => \A q \in Requests \ {r} : req[q].license # y.license
  BY <1>1 DEF Busy
<1> QED
  BY <1>1, <1>4, <1>5, <1>6, <1>7, <1>8, AloneStep

\* A commit writes the License of its request only.
LEMMA CommitIsLocal ==
  ASSUME IInv, NEW r \in Requests, Commit(r), req[r].pc # "idle",
         NEW l \in Licenses, l # req[r].license
  PROVE  Of(l)' = Of(l) /\ licenses'[l] = licenses[l]
<1>1. Fits(req[r]) /\ req[r].added \subseteq req[r].items
  BY HandlerFacts DEF Fits
<1>2. \A e \in req[r].gone \cup req[r].added : e.license # l
  BY <1>1 DEF Fits
<1>3. Of(l)' = Of(l)
  BY <1>2 DEF Of, Commit
<1>4. licenses'[l] = licenses[l]
  BY DEF Commit, IInv, TypeOK
<1> QED
  BY <1>3, <1>4

LEMMA AloneEnds ==
  ASSUME IInv, AloneInv, NEW r \in Requests, Becomes(r, Idle),
         \A l \in Licenses : l # req[r].license =>
           Of(l)' = Of(l) /\ licenses'[l] = licenses[l]
  PROVE  AloneInv'
<1>1. req'[r] = Idle /\ \A q \in Requests \ {r} : req'[q] = req[q]
  BY DEF Becomes, IInv, TypeOK
<1>2. Idle.alone = FALSE /\ Idle.license = NoLicense
  BY DEF Idle
<1>3. \A q \in Requests : req[q].alone => req[q].license \in Licenses
  BY HandlerFacts DEF AloneInv, Fits
<1>4. ASSUME NEW q \in Requests \ {r}, req[q].alone
      PROVE  /\ Of(req[q].license)' = Of(req[q].license)
             /\ licenses'[req[q].license] = licenses[req[q].license]
  <2>1. req[q].license \in Licenses /\ req[q].license # req[r].license
    BY <1>3, <1>4 DEF AloneInv
  <2> DEFINE l == req[q].license
  <2>2. {e \in entitlements' : e.license = l} = Of(l) /\ licenses'[l] = licenses[l]
    BY <2>1 DEF Of
  <2> QED
    BY <1>1, <2>2 DEF Of
<1> QED
  BY <1>1, <1>2, <1>3, <1>4, AloneStep

LEMMA AloneArrive ==
  ASSUME IInv, AloneInv, NEW r \in Requests, Arrive(r)
  PROVE  AloneInv'
<1>1. ASSUME NEW l \in Licenses, NEW n \in LicenseNumbers, NEW p \in Puts,
             NEW codes \in SUBSET Codes, CreateFind(r, l, n, p, codes)
      PROVE  AloneInv'
  <2> DEFINE items == NewEntitlements(l, p, codes)
             x == [Idle EXCEPT !.pc = "CreateSave", !.license = l, !.number = n,
                               !.items = items]
  <2>1. items \in SUBSET Entitlement
    BY <1>1, NewEntitlementsOwn DEF CreateFind
  <2> HIDE DEF items
  <2>2. x \in Request /\ x.pc = "CreateSave"
    BY <2>1 DEF Idle, Request, PCs, Statuses
  <2>3. req[r].pc = "idle" /\ Begins(r, x) /\ UNCHANGED <<licenses, entitlements>>
    BY <1>1 DEF CreateFind, items
  <2> HIDE DEF x
  <2>4. OnCourse(x)
    BY <2>2 DEF OnCourse, Replacing, Changing, HasBase, HasDeleted
  <2> QED
    BY <2>2, <2>3, <2>4, AloneBegins
<1>2. ASSUME NEW l \in Licenses, NEW p \in Puts, NEW codes \in SUBSET Codes,
             ReplaceRead(r, l, p, codes)
      PROVE  AloneInv'
  <2> DEFINE items == NewEntitlements(l, p, codes)
             x == [Idle EXCEPT !.pc = "ReplaceScan", !.license = l,
                               !.status = licenses[l].status, !.items = items]
  <2>1. items \in SUBSET Entitlement /\ licenses[l].status \in Statuses
    BY <1>2, NewEntitlementsOwn DEF ReplaceRead, IInv, TypeOK, LicenseRow
  <2> HIDE DEF items
  <2>2. /\ x \in Request /\ x.pc = "ReplaceScan" /\ x.license = l
        /\ x.status = licenses[l].status
    BY <2>1 DEF Idle, Request, PCs, Statuses
  <2>3. req[r].pc = "idle" /\ Begins(r, x) /\ UNCHANGED <<licenses, entitlements>>
    BY <1>2 DEF ReplaceRead, items
  <2> HIDE DEF x
  <2>4. OnCourse(x)
    BY <2>2 DEF OnCourse, Replacing, Changing, HasBase, HasDeleted
  <2> QED
    BY <2>2, <2>3, <2>4, AloneBegins
<1>3. ASSUME NEW l \in Licenses, NEW s \in Statuses, ChangeRead(r, l, s)
      PROVE  AloneInv'
  <2> DEFINE x == [Idle EXCEPT !.pc = "ChangeLoad", !.license = l, !.status = s]
  <2>1. x \in Request /\ x.pc = "ChangeLoad" /\ x.license = l /\ x.status = s
    BY DEF Idle, Request, PCs, Statuses
  <2>2. /\ req[r].pc = "idle" /\ Begins(r, x) /\ UNCHANGED <<licenses, entitlements>>
        /\ <<licenses[l].status, s>> \in Transitions
    BY <1>3 DEF ChangeRead
  <2> HIDE DEF x
  <2>3. OnCourse(x)
    BY <2>1, <2>2 DEF OnCourse, Replacing, Changing, HasBase, HasDeleted
  <2> QED
    BY <2>1, <2>2, <2>3, AloneBegins
<1> QED
  BY <1>1, <1>2, <1>3 DEF Arrive

LEMMA AloneWait ==
  ASSUME IInv, AloneInv, NEW r \in Requests, Wait(r)
  PROVE  AloneInv'
<1>1. /\ req[r] \in Request /\ Fits(req[r])
      /\ req[r].alone => OnCourse(req[r])
  BY HandlerFacts DEF AloneInv
<1>2. CASE ReplaceDelete(r)
  <2> DEFINE x == [req[r] EXCEPT !.pc = "ReplaceInsert", !.seen = {},
                                 !.gone = req[r].seen \cap entitlements,
                                 !.todo = req[r].items]
  <2>1. /\ x.pc = "ReplaceInsert" /\ x.license = req[r].license /\ x.alone = req[r].alone
        /\ x.items = req[r].items /\ x.status = req[r].status
        /\ x.gone = req[r].seen \cap entitlements
        /\ x.added = req[r].added /\ x.todo = req[r].items
    BY <1>1 DEF Request
  <2>2. req[r].pc = "ReplaceDelete" /\ Becomes(r, x) /\ UNCHANGED <<licenses, entitlements>>
    BY <1>2 DEF ReplaceDelete
  <2>3. req[r].added = {}
    BY <1>1, <2>2 DEF Fits, HasDeleted
  <2>4. req[r].alone => x.gone = Of(req[r].license)
    BY <1>1, <2>1, <2>2 DEF OnCourse, Of
  <2> HIDE DEF x
  <2>5. x.alone => OnCourse(x)
    BY <1>1, <2>1, <2>2, <2>3, <2>4 DEF OnCourse, Replacing, Changing, HasBase
  <2> QED
    BY <2>1, <2>2, <2>5, AloneGoesOn
<1>3. ASSUME NEW e \in req[r].todo, Insert(r, e),
             req[r].pc \in {"ReplaceInsert", "ChangeInsert"}
      PROVE  AloneInv'
  <2> DEFINE x == [req[r] EXCEPT !.todo = @ \ {e}, !.added = @ \cup {e}]
  <2>1. CASE Rollback(r)
    BY <2>1, AloneRollback
  <2>2. CASE Becomes(r, x) /\ UNCHANGED <<licenses, entitlements>>
    <3>1. /\ x.pc = req[r].pc /\ x.license = req[r].license /\ x.alone = req[r].alone
          /\ x.items = req[r].items /\ x.status = req[r].status /\ x.gone = req[r].gone
          /\ x.added = req[r].added \cup {e} /\ x.todo = req[r].todo \ {e}
      BY <1>1 DEF Request
    <3>2. x.added \cup x.todo = req[r].added \cup req[r].todo
      BY <1>3, <3>1
    <3>3. req[r].alone => req[r].pc = "ReplaceInsert"
      BY <1>1, <1>3 DEF OnCourse
    <3> HIDE DEF x
    <3>4. x.alone => OnCourse(x)
      BY <1>1, <3>1, <3>2, <3>3 DEF OnCourse, Replacing, Changing, HasBase, HasDeleted
    <3>5. x.pc # "idle"
      BY <1>3, <3>1
    <3> QED
      BY <2>2, <3>1, <3>4, <3>5, AloneGoesOn
  <2> QED
    BY <1>3, <2>1, <2>2 DEF Insert
<1>4. CASE ReplaceUpdate(r) \/ ChangeUpdate(r)
  <2> DEFINE pc == IF req[r].pc = "ReplaceUpdate" THEN "ReplaceCommit" ELSE "ChangeMatch"
             x == [req[r] EXCEPT !.pc = pc]
  <2>1. /\ x.pc = pc /\ x.license = req[r].license /\ x.alone = req[r].alone
        /\ x.items = req[r].items /\ x.status = req[r].status /\ x.base = req[r].base
        /\ x.gone = req[r].gone /\ x.added = req[r].added /\ x.todo = req[r].todo
    BY <1>1 DEF Request
  <2>2. /\ req[r].pc \in {"ReplaceUpdate", "ChangeUpdate"} /\ Becomes(r, x)
        /\ UNCHANGED <<licenses, entitlements>>
    BY <1>4 DEF ReplaceUpdate, ChangeUpdate, Goes
  <2> HIDE DEF x
  <2>3. x.alone => OnCourse(x)
    BY <1>1, <2>1, <2>2 DEF OnCourse, Replacing, Changing, HasBase, HasDeleted
  <2>4. x.pc # "idle"
    BY <2>1
  <2> QED
    BY <2>1, <2>2, <2>3, <2>4, AloneGoesOn
<1> QED
  BY <1>2, <1>3, <1>4 DEF Wait, ReplaceInsert, ChangeInsert

LEMMA CreateSaveIsLocal ==
  ASSUME IInv, NEW r \in Requests, CreateSave(r), NEW l \in Licenses, l # req[r].license
  PROVE  Of(l)' = Of(l) /\ licenses'[l] = licenses[l]
<1>1. \A e \in req[r].items : e.license # l
  BY HandlerFacts DEF Fits
<1>2. CASE Rollback(r)
  BY <1>2 DEF Rollback, Of
<1>3. CASE /\ licenses' = [licenses EXCEPT ![req[r].license] = NewLicense(req[r].number)]
           /\ entitlements' = entitlements \cup req[r].items
  BY <1>1, <1>3 DEF Of, IInv, TypeOK
<1> QED
  BY <1>2, <1>3 DEF CreateSave

LEMMA AloneContinue ==
  ASSUME IInv, AloneInv, NEW r \in Requests, Continue(r)
  PROVE  AloneInv'
<1>1. /\ req[r] \in Request /\ Fits(req[r])
      /\ req[r].alone => OnCourse(req[r])
  BY HandlerFacts DEF AloneInv
<1>2. CASE CreateSave(r)
  <2>1. CASE Rollback(r)
    BY <2>1, AloneRollback
  <2>2. CASE Becomes(r, Idle)
    BY <1>2, <2>2, CreateSaveIsLocal, AloneEnds
  <2> QED
    BY <1>2, <2>1, <2>2 DEF CreateSave
<1>3. CASE ReplaceScan(r)
  <2> DEFINE x == [req[r] EXCEPT !.pc = "ReplaceDelete", !.seen = Of(req[r].license)]
  <2>1. /\ x.pc = "ReplaceDelete" /\ x.license = req[r].license /\ x.alone = req[r].alone
        /\ x.status = req[r].status /\ x.seen = Of(req[r].license)
    BY <1>1 DEF Request
  <2>2. req[r].pc = "ReplaceScan" /\ Becomes(r, x) /\ UNCHANGED <<licenses, entitlements>>
    BY <1>3 DEF ReplaceScan
  <2> HIDE DEF x
  <2>3. x.alone => OnCourse(x)
    BY <1>1, <2>1, <2>2 DEF OnCourse, Replacing, Changing, HasBase, HasDeleted
  <2> QED
    BY <2>1, <2>2, <2>3, AloneGoesOn
<1>4. CASE ReplaceSelect(r) \/ ChangeSelect(r)
  <2> DEFINE pc == IF req[r].pc = "ReplaceInsert" THEN "ReplaceUpdate" ELSE "ChangeUpdate"
             x == [req[r] EXCEPT !.pc = pc, !.base = licenses[req[r].license].status]
  <2>1. /\ x.pc = pc /\ x.license = req[r].license /\ x.alone = req[r].alone
        /\ x.items = req[r].items /\ x.status = req[r].status
        /\ x.base = licenses[req[r].license].status
        /\ x.gone = req[r].gone /\ x.added = req[r].added /\ x.todo = req[r].todo
    BY <1>1 DEF Request
  <2>2. /\ req[r].pc \in {"ReplaceInsert", "ChangeSelect"} /\ Becomes(r, x)
        /\ UNCHANGED <<licenses, entitlements>>
    BY <1>4 DEF ReplaceSelect, ChangeSelect
  <2> HIDE DEF x
  <2>3. x.alone => OnCourse(x)
    BY <1>1, <2>1, <2>2 DEF OnCourse, Replacing, Changing, HasBase, HasDeleted
  <2>4. x.pc # "idle"
    BY <2>1
  <2> QED
    BY <2>1, <2>2, <2>3, <2>4, AloneGoesOn
<1>5. CASE ReplaceCommit(r) \/ ChangeCommit(r)
  <2>1. Commit(r) /\ req[r].pc # "idle"
    BY <1>5 DEF ReplaceCommit, ChangeCommit
  <2> QED
    BY <2>1, CommitIsLocal, AloneEnds DEF Commit
<1>6. CASE ChangeLoad(r)
  <2> DEFINE x == [req[r] EXCEPT !.pc = "ChangeSelect", !.items = Of(req[r].license)]
  <2>1. /\ x.pc = "ChangeSelect" /\ x.license = req[r].license /\ x.alone = req[r].alone
        /\ x.status = req[r].status /\ x.items = Of(req[r].license)
    BY <1>1 DEF Request
  <2>2. req[r].pc = "ChangeLoad" /\ Becomes(r, x) /\ UNCHANGED <<licenses, entitlements>>
    BY <1>6 DEF ChangeLoad
  <2> HIDE DEF x
  <2>3. x.alone => OnCourse(x)
    BY <1>1, <2>1, <2>2 DEF OnCourse, Replacing, Changing, HasBase, HasDeleted
  <2> QED
    BY <2>1, <2>2, <2>3, AloneGoesOn
<1>7. CASE ChangeMatch(r)
  <2> DEFINE x == [req[r] EXCEPT !.pc = "ChangeInsert",
                                 !.todo = req[r].items \ entitlements]
  <2>1. /\ x.pc = "ChangeInsert" /\ x.license = req[r].license /\ x.alone = req[r].alone
        /\ x.status = req[r].status /\ x.base = req[r].base /\ x.items = req[r].items
        /\ x.added = req[r].added /\ x.todo = req[r].items \ entitlements
    BY <1>1 DEF Request
  <2>2. req[r].pc = "ChangeMatch" /\ Becomes(r, x) /\ UNCHANGED <<licenses, entitlements>>
    BY <1>7 DEF ChangeMatch
  <2>3. req[r].added = {}
    BY <1>1, <2>2 DEF Fits, HasDeleted
  <2>4. req[r].alone => req[r].items \ entitlements = {}
    BY <1>1, <2>2 DEF OnCourse, Changing, Of
  <2> HIDE DEF x
  <2>5. x.alone => OnCourse(x)
    BY <1>1, <2>1, <2>2, <2>3, <2>4 DEF OnCourse, Replacing, Changing, HasBase, HasDeleted
  <2> QED
    BY <2>1, <2>2, <2>5, AloneGoesOn
<1>8. CASE DeadlockAbort(r)
  BY <1>8, AloneRollback DEF DeadlockAbort
<1> QED
  BY <1>2, <1>3, <1>4, <1>5, <1>6, <1>7, <1>8 DEF Continue

LEMMA NextAlone == IInv /\ AloneInv /\ [Next]_vars => AloneInv'
<1> SUFFICES ASSUME IInv, AloneInv, [Next]_vars PROVE AloneInv'
  OBVIOUS
<1>1. ASSUME NEW r \in Requests, Crash(r) PROVE AloneInv'
  BY <1>1, AloneRollback DEF Crash
<1>2. CASE UNCHANGED vars
  BY <1>2 DEF vars, AloneInv, OnCourse, Replacing, Changing, Of
<1> QED
  BY <1>1, <1>2, AloneArrive, AloneWait, AloneContinue DEF Next

LEMMA InitAlone == Init => AloneInv
  BY DEF Init, AloneInv, Idle

LEMMA CommitIsExact ==
  ASSUME IInv, AloneInv, NEW r \in Requests, NEW l \in Licenses, req[r].license = l,
         ReplaceCommit(r) \/ ChangeCommit(r)
  PROVE  Exact(r, l)
<1> SUFFICES ASSUME req[r].alone PROVE Exact(r, l)
  BY DEF Exact
<1>1. Fits(req[r]) /\ OnCourse(req[r]) /\ req[r].pc \in {"ReplaceCommit", "ChangeInsert"}
  BY HandlerFacts DEF AloneInv, ReplaceCommit, ChangeCommit
<1>2. /\ l \in Licenses /\ req[r].base = licenses[l].status
      /\ \A e \in req[r].added : e.license = l
  BY <1>1 DEF Fits, OnCourse, HasBase
<1>3. /\ entitlements' = (entitlements \ req[r].gone) \cup req[r].added
      /\ licenses' = IF req[r].status # req[r].base
                     THEN [licenses EXCEPT ![l].status = req[r].status] ELSE licenses
  BY DEF ReplaceCommit, ChangeCommit, Commit
<1>4. {e \in entitlements' : e.license = l} = (Of(l) \ req[r].gone) \cup req[r].added
  BY <1>2, <1>3 DEF Of
<1>5. CASE req[r].pc = "ReplaceCommit"
  <2>1. /\ req[r].status = req[r].base /\ req[r].gone = Of(l)
        /\ req[r].items = req[r].added
    BY <1>1, <1>2, <1>5 DEF Fits, OnCourse, Replacing, HasDeleted
  <2>2. {e \in entitlements' : e.license = l} = req[r].items /\ licenses' = licenses
    BY <1>3, <1>4, <2>1
  <2> QED
    BY <1>5, <2>2 DEF Exact, Of, Changing
<1>6. CASE req[r].pc = "ChangeInsert"
  <2>1. /\ <<licenses[l].status, req[r].status>> \in Transitions
        /\ req[r].gone = {} /\ req[r].added = {}
    BY <1>1, <1>6 DEF Fits, OnCourse, Changing, HasDeleted
  <2>2. req[r].status # req[r].base
    BY <1>2, <2>1 DEF Transitions
  <2>3. licenses'[l].status = req[r].status
    BY <1>2, <1>3, <2>2 DEF IInv, TypeOK, LicenseRow
  <2>4. {e \in entitlements' : e.license = l} = Of(l)
    BY <1>4, <2>1
  <2> QED
    BY <1>6, <2>1, <2>3, <2>4 DEF Exact, Of, Replacing
<1> QED
  BY <1>1, <1>5, <1>6

LEMMA NextIsExact ==
  IInv /\ AloneInv /\ [Next]_vars => \A r \in Requests, l \in Licenses : Exact(r, l)
<1> SUFFICES ASSUME IInv, AloneInv, [Next]_vars,
                    NEW r \in Requests, NEW l \in Licenses,
                    req[r].alone, req[r].license = l
             PROVE  Exact(r, l)
  BY DEF Exact
<1>1. CASE UNCHANGED <<licenses, entitlements>>
  BY <1>1 DEF Exact, Of
<1>2. ASSUME NEW q \in Requests, CreateSave(q) PROVE Exact(r, l)
  <2>1. CASE q = r
    BY <1>2, <2>1 DEF CreateSave, Exact, Replacing, Changing
  <2>2. CASE q # r
    BY <1>2, <2>2, CreateSaveIsLocal DEF AloneInv, Exact
  <2> QED
    BY <2>1, <2>2
<1>3. ASSUME NEW q \in Requests, ReplaceCommit(q) \/ ChangeCommit(q) PROVE Exact(r, l)
  <2>1. CASE q = r
    BY <1>3, <2>1, CommitIsExact
  <2>2. CASE q # r
    <3>1. Commit(q) /\ req[q].pc # "idle" /\ req[q].license # l
      BY <1>3, <2>2 DEF ReplaceCommit, ChangeCommit, AloneInv
    <3> QED
      BY <3>1, CommitIsLocal DEF Exact
  <2> QED
    BY <2>1, <2>2
<1>4. ASSUME NEW q \in Requests, ~CreateSave(q), ~ReplaceCommit(q), ~ChangeCommit(q),
             Arrive(q) \/ Wait(q) \/ Continue(q) \/ Crash(q)
      PROVE  UNCHANGED <<licenses, entitlements>>
  BY <1>4 DEF Arrive, Wait, Continue, Crash, Rollback, CreateFind, ReplaceRead, ChangeRead,
       ReplaceDelete, ReplaceInsert, ReplaceUpdate, ChangeUpdate, ChangeInsert, Insert,
       ReplaceScan, ReplaceSelect, ChangeLoad, ChangeSelect, ChangeMatch, DeadlockAbort
<1> QED
  BY <1>1, <1>2, <1>3, <1>4 DEF Next, vars

\* A request that has its License to itself does what it was asked for and
\* nothing else, whatever happens at other Licenses: a replacement leaves exactly
\* the new set, a status change makes one allowed transition.
THEOREM ExactWhenAlone == Spec => AloneIsExact
<1>1. IInv /\ AloneInv /\ [Next]_vars
        => [\A r \in Requests, l \in Licenses : Exact(r, l)]_vars
  BY NextIsExact
<1> QED
  BY <1>1, InitIInv, NextIInv, InitAlone, NextAlone, PTL DEF Spec, AloneIsExact

=============================================================================
