------------------------------- MODULE Customers -------------------------------
(***************************************************************************)
(* Customers, their status changes with the audit trail of them, and what  *)
(* the other contexts create for a Customer after having asked, through    *)
(* the reader adapters, whether it is ACTIVE and its License usable.       *)
(*                                                                         *)
(*   CreateCustomerUseCase         CreateFind, CreateSave, Audit           *)
(*   ChangeCustomerStatusUseCase   ChangeRead, ChangeSelect, ChangeUpdate, *)
(*                                 Audit                                   *)
(*   CreateLicenseUseCase          AskCustomer, Serve                      *)
(*   CreateInstallationUseCase     AskCustomer, AskLicense, Serve          *)
(*   EnrollInstallationUseCase     AskCustomer, AskLicense, Serve          *)
(*                                                                         *)
(* Each Customer has one License here.  How Licenses and Installations are *)
(* stored is the subject of Licensing, Provisioning and Enrollment.        *)
(***************************************************************************)
EXTENDS Naturals, Sequences

CONSTANTS Ids,          \* Customers the id generator can give
          Codes,        \* the codes administrators choose
          Requests,     \* HTTP requests the API can serve at one time
          MaxRequests,  \* bound: HTTP requests of a behaviour
          NoCode, NoId

\* What is asked of these constants.
ConstantsFit == MaxRequests \in Nat /\ NoCode \notin Codes /\ NoId \notin Ids

VARIABLES customers,   \* table control_plane.customers
          licenses,    \* the License of each Customer
          served,      \* what was created for each Customer
          trail,       \* the audit events of each Customer, oldest first
          req,         \* the handler each request is in, and its locals
          count,       \* how many requests have arrived
          disturbed    \* history: Customers whose changes overlapped or were cut off

vars == <<customers, licenses, served, trail, req, count, disturbed>>

-----------------------------------------------------------------------------
(* Rows, events and requests. *)

Statuses == {"ACTIVE", "SUSPENDED", "INACTIVE"}

\* isCustomerStatusTransitionAllowed
Transitions == {<<"ACTIVE", "SUSPENDED">>, <<"ACTIVE", "INACTIVE">>,
                <<"SUSPENDED", "ACTIVE">>, <<"SUSPENDED", "INACTIVE">>}

CustomerRow == [code : Codes \cup {NoCode}, status : Statuses]

NoCustomer == [code |-> NoCode, status |-> "INACTIVE"]

Exists(c) == customers[c] # NoCustomer

\* What License.isUsable looks at; "window" is where the clock stands in
\* [validFrom, validUntil].
Windows == {"before", "within", "after"}

License == [status : {"none", "ACTIVE", "SUSPENDED", "EXPIRED", "REVOKED"},
            window : Windows]

IsUsable_AnyTime(license) == license.status = "ACTIVE"

IsUsable(license) == license.status = "ACTIVE" /\ license.window = "within"

Things == {"license", "installation", "credential"}

Event == [from : Statuses \cup {"none"}, to : Statuses]

Request == [pc : {"idle", "CreateSave", "ChangeSelect", "ChangeUpdate", "Audit",
                  "AskCustomer", "AskLicense", "Serve"},
            of : Ids \cup {NoId},
            code : Codes \cup {NoCode},
            from : Statuses \cup {"none"}, status : Statuses,   \* the Customer in memory
            base : Statuses,                                    \* what save() selects again
            thing : Things,
            open : BOOLEAN,      \* history: the Customer was ACTIVE since it began
            usable : BOOLEAN]    \* history: the License was usable since it began

Idle == [pc |-> "idle", of |-> NoId, code |-> NoCode, from |-> "none", status |-> "ACTIVE",
         base |-> "ACTIVE", thing |-> "license", open |-> FALSE, usable |-> FALSE]

Becomes(r, x) == req' = [req EXCEPT ![r] = x]

Arrives == count < MaxRequests /\ count' = count + 1

Changing(c) == {r \in Requests : /\ req[r].of = c
                                 /\ req[r].pc \in {"ChangeSelect", "ChangeUpdate", "Audit"}}

\* Every request under way for c notes that c is ACTIVE, or its License usable.
Noted(f, c) == [r \in Requests |->
  IF f[r].of # c THEN f[r]
  ELSE [f[r] EXCEPT !.open = @ \/ customers'[c].status = "ACTIVE",
                    !.usable = @ \/ licenses'[c] = [status |-> "ACTIVE", window |-> "within"]]]

-----------------------------------------------------------------------------
(* CreateCustomerUseCase: POST /customers.                                 *)

CreateFind(r, c, code) ==
  /\ req[r].pc = "idle" /\ Arrives
  /\ ~Exists(c) /\ \A q \in Requests : req[q].of # c
  /\ \A d \in Ids : customers[d].code # code
  /\ Becomes(r, [Idle EXCEPT !.pc = "CreateSave", !.of = c, !.code = code])
  /\ UNCHANGED <<customers, licenses, served, trail, disturbed>>

\* Customer.create
NewCustomer(code) == [code |-> code, status |-> "ACTIVE"]

\* The UNIQUE constraint on the code decides between two that found it free.
CreateSave(r) ==
  LET x == req[r]
      taken == \E d \in Ids : customers[d].code = x.code
  IN /\ x.pc = "CreateSave"
     /\ customers' = IF taken THEN customers
                     ELSE [customers EXCEPT ![x.of] = NewCustomer(x.code)]
     /\ Becomes(r, IF taken THEN Idle ELSE [x EXCEPT !.pc = "Audit"])
     /\ UNCHANGED <<licenses, served, trail, count, disturbed>>

-----------------------------------------------------------------------------
(* ChangeCustomerStatusUseCase: PATCH /customers/:id/status.               *)

ChangeRead_Unchecked(r, c, to) ==
  /\ req[r].pc = "idle" /\ Arrives
  /\ Exists(c) /\ customers[c].status # to
  /\ Becomes(r, [Idle EXCEPT !.pc = "ChangeSelect", !.of = c,
                             !.from = customers[c].status, !.status = to])
  /\ disturbed' = IF Changing(c) # {} THEN disturbed \cup {c} ELSE disturbed
  /\ UNCHANGED <<customers, licenses, served, trail>>

ChangeRead(r, c, to) ==
  /\ req[r].pc = "idle" /\ Arrives
  /\ Exists(c) /\ <<customers[c].status, to>> \in Transitions
  /\ Becomes(r, [Idle EXCEPT !.pc = "ChangeSelect", !.of = c,
                             !.from = customers[c].status, !.status = to])
  /\ disturbed' = IF Changing(c) # {} THEN disturbed \cup {c} ELSE disturbed
  /\ UNCHANGED <<customers, licenses, served, trail>>

ChangeSelect(r) ==
  /\ req[r].pc = "ChangeSelect"
  /\ Becomes(r, [req[r] EXCEPT !.pc = "ChangeUpdate", !.base = customers[req[r].of].status])
  /\ UNCHANGED <<customers, licenses, served, trail, count, disturbed>>

ChangeUpdate(r) ==
  LET x == req[r]
      c == x.of
  IN /\ x.pc = "ChangeUpdate"
     /\ customers' = [customers EXCEPT ![c].status = IF x.status # x.base THEN x.status ELSE @]
     /\ UNCHANGED <<licenses, served, trail, count, disturbed>>
     /\ req' = Noted([req EXCEPT ![r].pc = "Audit"], c)

\* auditRecorder.record, after the commit and outside of it.
Audit(r) ==
  LET x == req[r]
  IN /\ x.pc = "Audit"
     /\ trail' = [trail EXCEPT ![x.of] = Append(@, [from |-> x.from, to |-> x.status])]
     /\ Becomes(r, Idle)
     /\ UNCHANGED <<customers, licenses, served, count, disturbed>>

-----------------------------------------------------------------------------
(* What the other contexts create for a Customer.                          *)

Begin(r, c, thing) ==
  /\ req[r].pc = "idle" /\ Arrives
  /\ Exists(c)
  /\ thing = "credential" => "installation" \in served[c]
  /\ UNCHANGED <<customers, licenses, served, trail, disturbed>>
  /\ req' = Noted([req EXCEPT ![r] = [Idle EXCEPT !.pc = "AskCustomer", !.of = c,
                                                  !.thing = thing]], c)

\* CustomerReaderAdapter
AskCustomer(r) ==
  LET x == req[r]
      next == IF x.thing = "license" THEN "Serve" ELSE "AskLicense"
  IN /\ x.pc = "AskCustomer"
     /\ Becomes(r, IF customers[x.of].status = "ACTIVE" THEN [x EXCEPT !.pc = next] ELSE Idle)
     /\ UNCHANGED <<customers, licenses, served, trail, count, disturbed>>

\* LicenseReaderAdapter and GetLicenseSummaryUseCase
AskLicense(r) ==
  LET x == req[r]
  IN /\ x.pc = "AskLicense"
     /\ Becomes(r, IF IsUsable(licenses[x.of]) THEN [x EXCEPT !.pc = "Serve"] ELSE Idle)
     /\ UNCHANGED <<customers, licenses, served, trail, count, disturbed>>

\* The transaction of the other context; a License is ACTIVE from the start,
\* whatever its window.
Serve(r, window) ==
  LET x == req[r]
      c == x.of
  IN /\ x.pc = "Serve"
     /\ x.thing = "license" => licenses[c].status = "none"
     /\ licenses' = IF x.thing = "license"
                    THEN [licenses EXCEPT ![c] = [status |-> "ACTIVE", window |-> window]]
                    ELSE licenses
     /\ served' = [served EXCEPT ![c] = @ \cup {x.thing}]
     /\ UNCHANGED <<customers, trail, count, disturbed>>
     /\ req' = Noted([req EXCEPT ![r] = Idle], c)

\* A status change of the License, or the clock reaching an end of its window.
LicenseTurns(c, license) ==
  /\ licenses[c].status # "none" /\ licenses[c] # license
  /\ licenses[c].status \in {"ACTIVE", "SUSPENDED"} \/ license.status = licenses[c].status
  /\ license.status # "none"
  /\ <<licenses[c].window, license.window>> \notin
        {<<"within", "before">>, <<"after", "before">>, <<"after", "within">>}
  /\ licenses' = [licenses EXCEPT ![c] = license]
  /\ UNCHANGED <<customers, served, trail, count, disturbed>>
  /\ req' = Noted(req, c)

\* The process dies, or the recorder swallows the failure of its insert: what
\* was committed has no event.
Crash(r) ==
  /\ req[r].pc # "idle"
  /\ Becomes(r, Idle)
  /\ disturbed' = IF req[r].pc = "Audit" THEN disturbed \cup {req[r].of} ELSE disturbed
  /\ UNCHANGED <<customers, licenses, served, trail, count>>

-----------------------------------------------------------------------------

Init == /\ customers = [c \in Ids |-> NoCustomer]
        /\ licenses = [c \in Ids |-> [status |-> "none", window |-> "before"]]
        /\ served = [c \in Ids |-> {}]
        /\ trail = [c \in Ids |-> <<>>]
        /\ req = [r \in Requests |-> Idle]
        /\ count = 0
        /\ disturbed = {}

Next == \/ \E r \in Requests :
             \/ \E c \in Ids : \/ \E code \in Codes : CreateFind(r, c, code)
                               \/ \E to \in Statuses : ChangeRead(r, c, to)
                               \/ \E thing \in Things : Begin(r, c, thing)
             \/ CreateSave(r) \/ ChangeSelect(r) \/ ChangeUpdate(r) \/ Audit(r)
             \/ AskCustomer(r) \/ AskLicense(r)
             \/ \E window \in Windows : Serve(r, window)
             \/ Crash(r)
        \/ \E c \in Ids, license \in License : LicenseTurns(c, license)

Spec == Init /\ [][Next]_vars

-----------------------------------------------------------------------------
(* Properties. *)

TypeOK == /\ customers \in [Ids -> CustomerRow]
          /\ licenses \in [Ids -> License]
          /\ served \in [Ids -> SUBSET Things]
          /\ trail \in [Ids -> Seq(Event)]
          /\ req \in [Requests -> Request]
          /\ count \in 0..MaxRequests
          /\ disturbed \in SUBSET Ids

\* Unless changes of a Customer overlapped or one was cut off, its audit trail
\* can be replayed: it begins with the creation, each event continues where the
\* one before ended, INACTIVE ends it, and the last one says what the row says.
TrailReplays ==
  \A c \in Ids :
    LET t == trail[c]
    IN Exists(c) /\ c \notin disturbed =>
         /\ \A n \in 1..Len(t) :
              IF n = 1 THEN t[n] = [from |-> "none", to |-> "ACTIVE"]
              ELSE t[n].from = t[n - 1].to /\ <<t[n].from, t[n].to>> \in Transitions
         /\ t # <<>> /\ Changing(c) = {} => t[Len(t)].to = customers[c].status

\* Nothing is created for a Customer by a request during all of which the
\* Customer was not ACTIVE, nor under a License that was never usable during it:
\* a Customer once closed gains nothing but from requests already under way.
NothingForClosed ==
  [][\A r \in Requests : req[r].pc = "Serve" /\ (served' # served \/ licenses' # licenses)
                           /\ req'[r].pc = "idle"
       => req[r].open /\ (req[r].thing # "license" => req[r].usable)]_vars

=============================================================================
