----------------------------- MODULE CustomersInv -----------------------------
(***************************************************************************)
(* What holds of Customers between the steps of a handler: the facts that  *)
(* make its safety properties inductive.                                   *)
(***************************************************************************)
EXTENDS Customers

\* Every handler but a creation is about a Customer that exists; a creation has
\* its id to itself until it is committed.
Reserved ==
  \A r \in Requests :
    LET x == req[r] IN
    IF x.pc = "CreateSave"
    THEN /\ x.of \in Ids /\ x.code \in Codes /\ x.from = "none" /\ x.status = "ACTIVE"
         /\ ~Exists(x.of)
         /\ \A q \in Requests \ {r} : req[q].of # x.of
    ELSE x.pc # "idle" => x.of \in Ids /\ Exists(x.of)

\* A row that exists has a code, and what has no row has no trail.
WholeRows ==
  \A c \in Ids : /\ Exists(c) <=> customers[c].code # NoCode
                 /\ ~Exists(c) => trail[c] = <<>>

Continuous(t) ==
  \A n \in 1..Len(t) :
    IF n = 1 THEN t[n] = [from |-> "none", to |-> "ACTIVE"]
    ELSE t[n].from = t[n - 1].to /\ <<t[n].from, t[n].to>> \in Transitions

\* The event that a handler is about to record continues the trail.
Follows(t, from, to) ==
  IF t = <<>> THEN from = "none" /\ to = "ACTIVE"
  ELSE from = t[Len(t)].to /\ <<from, to>> \in Transitions

\* Where the row stands between the read and the event of a change x.
Due(x, t, status) ==
  /\ Follows(t, x.from, x.status)
  /\ IF x.pc = "Audit" THEN status = x.status
     ELSE t # <<>> /\ status = x.from /\ (x.pc = "ChangeUpdate" => x.base = status)

\* One change at a time, and the trail as far as it has got.
Told(c) ==
  /\ Continuous(trail[c])
  /\ \A q, r \in Changing(c) : q = r
  /\ \A r \in Changing(c) : Due(req[r], trail[c], customers[c].status)
  /\ Changing(c) = {} => trail[c] # <<>> /\ trail[c][Len(trail[c])].to = customers[c].status

AllTold == \A c \in Ids \ disturbed : Exists(c) => Told(c)

\* What a request that creates something has seen of its Customer and License,
\* and that it has noted what is so now.
Noticed(x, status, usable) ==
  /\ x.pc \in {"AskLicense", "Serve"} => x.open
  /\ x.pc = "Serve" /\ x.thing # "license" => x.usable
  /\ x.pc \in {"AskCustomer", "AskLicense", "Serve"}
       => /\ status = "ACTIVE" => x.open
          /\ usable => x.usable

AllNoticed ==
  \A r \in Requests :
    Noticed(req[r], customers[req[r].of].status, IsUsable(licenses[req[r].of]))

IInv == TypeOK /\ Reserved /\ WholeRows /\ AllTold /\ AllNoticed

=============================================================================
