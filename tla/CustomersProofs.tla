---------------------------- MODULE CustomersProofs ----------------------------
(***************************************************************************)
(* Theorems about Customers, for every set of Customers, codes and         *)
(* requests, any number of which may arrive.                               *)
(***************************************************************************)
EXTENDS CustomersInv, SequenceTheorems, TLAPS

-----------------------------------------------------------------------------
(* Types. *)

LEMMA IdleType == Idle \in Request /\ Idle.pc = "idle" /\ Idle.of = NoId
  BY DEF Idle, Request, Statuses, Things

LEMMA RowTypes ==
  /\ NoCustomer \in CustomerRow
  /\ \A code \in Codes : /\ NewCustomer(code) \in CustomerRow
                         /\ NewCustomer(code).code = code
                         /\ NewCustomer(code).status = "ACTIVE"
  BY DEF NoCustomer, NewCustomer, CustomerRow, Statuses

\* A step of request r alone.
LEMMA BecomesOne ==
  ASSUME TypeOK, NEW r \in Requests, NEW x, Becomes(r, x)
  PROVE  /\ req'[r] = x
         /\ \A q \in Requests \ {r} : req'[q] = req[q]
         /\ x \in Request => req' \in [Requests -> Request]
  BY DEF TypeOK, Becomes

\* What a request goes on with, apart from what it has noted.
Alike(x, y) == /\ x.pc = y.pc /\ x.of = y.of /\ x.code = y.code
               /\ x.from = y.from /\ x.status = y.status /\ x.base = y.base
               /\ x.thing = y.thing
               /\ y.open => x.open
               /\ y.usable => x.usable

LEMMA NotedIs ==
  ASSUME NEW f \in [Requests -> Request], NEW c
  PROVE  /\ Noted(f, c) \in [Requests -> Request]
         /\ \A r \in Requests :
              /\ Alike(Noted(f, c)[r], f[r])
              /\ f[r].of # c => Noted(f, c)[r] = f[r]
              /\ f[r].of = c =>
                   /\ customers'[c].status = "ACTIVE" => Noted(f, c)[r].open
                   /\ licenses'[c] = [status |-> "ACTIVE", window |-> "within"]
                        => Noted(f, c)[r].usable
<1> DEFINE a == customers'[c].status = "ACTIVE"
           u == licenses'[c] = [status |-> "ACTIVE", window |-> "within"]
           g(q) == [f[q] EXCEPT !.open = f[q].open \/ a, !.usable = f[q].usable \/ u]
<1>1. Noted(f, c) = [q \in Requests |-> IF f[q].of # c THEN f[q] ELSE g(q)]
  BY DEF Noted
<1>2. a \in BOOLEAN /\ u \in BOOLEAN
  OBVIOUS
<1> HIDE DEF a, u
<1>3. ASSUME NEW q \in Requests
      PROVE  /\ g(q) \in Request /\ Alike(g(q), f[q])
             /\ a => g(q).open
             /\ u => g(q).usable
  BY <1>2 DEF Request, Alike
<1> HIDE DEF g
<1>4. \A q \in Requests : Alike(f[q], f[q])
  BY DEF Alike
<1> QED
  BY <1>1, <1>3, <1>4 DEF a, u

LEMMA UsableIs ==
  ASSUME NEW license \in License
  PROVE  IsUsable(license) <=> license = [status |-> "ACTIVE", window |-> "within"]
  BY DEF License, Windows, IsUsable

-----------------------------------------------------------------------------
(* What a step of request r leaves to the others.                          *)

Others(r) == \A q \in Requests \ {r} : Alike(req'[q], req[q])

LEMMA BecomesOthers ==
  ASSUME TypeOK, NEW r \in Requests, NEW x, Becomes(r, x)
  PROVE  Others(r) /\ req'[r] = x
  BY BecomesOne DEF Others, Alike

LEMMA NotedOthers ==
  ASSUME TypeOK, NEW r \in Requests, NEW x \in Request, NEW c,
         req' = Noted([req EXCEPT ![r] = x], c)
  PROVE  /\ req' \in [Requests -> Request] /\ Others(r) /\ Alike(req'[r], x)
         /\ \A q \in Requests : req'[q].of = c =>
              /\ customers'[c].status = "ACTIVE" => req'[q].open
              /\ licenses'[c] = [status |-> "ACTIVE", window |-> "within"]
                   => req'[q].usable
<1>1. PICK f : f = [req EXCEPT ![r] = x]
  OBVIOUS
<1>2. /\ f \in [Requests -> Request] /\ f[r] = x
      /\ \A q \in Requests \ {r} : f[q] = req[q]
  BY <1>1 DEF TypeOK
<1>3. req' = Noted(f, c)
  BY <1>1
<1>4. \A q \in Requests : Alike(req'[q], f[q])
  BY <1>2, <1>3, NotedIs
<1>5. req' \in [Requests -> Request]
  <2>1. f \in [Requests -> Request]
    BY <1>2
  <2>2. Noted(f, c) \in [Requests -> Request]
    BY <2>1, NotedIs, Zenon
  <2> QED
    BY <1>3, <2>2
<1>6. \A q \in Requests : req'[q].of = f[q].of
  BY <1>4 DEF Alike
<1>7. \A q \in Requests : f[q].of = c =>
              /\ customers'[c].status = "ACTIVE" => req'[q].open
              /\ licenses'[c] = [status |-> "ACTIVE", window |-> "within"]
                   => req'[q].usable
  BY <1>2, <1>3, NotedIs
<1> QED
  BY <1>2, <1>4, <1>5, <1>6, <1>7 DEF Others

Holds(r, x) ==
  IF x.pc = "CreateSave"
  THEN /\ x.of \in Ids /\ x.code \in Codes /\ x.from = "none" /\ x.status = "ACTIVE"
       /\ ~Exists(x.of)
       /\ \A q \in Requests \ {r} : req[q].of # x.of
  ELSE x.pc # "idle" => x.of \in Ids /\ Exists(x.of)

LEMMA ReservedStep ==
  ASSUME Reserved, NEW r \in Requests, Others(r),
         \A c \in Ids : Exists(c) => Exists(c)',
         \A q \in Requests \ {r} : req[q].pc = "CreateSave"
            => customers'[req[q].of] = NoCustomer /\ req'[r].of # req[q].of,
         NEW x, x = req'[r], Holds(r, x)'
  PROVE  Reserved'
<1> SUFFICES ASSUME NEW q \in Requests, q # r
             PROVE  IF req'[q].pc = "CreateSave"
                    THEN /\ req'[q].of \in Ids /\ req'[q].code \in Codes
                         /\ req'[q].from = "none" /\ req'[q].status = "ACTIVE"
                         /\ customers'[req'[q].of] = NoCustomer
                         /\ \A p \in Requests \ {q} : req'[p].of # req'[q].of
                    ELSE req'[q].pc # "idle"
                           => req'[q].of \in Ids /\ customers'[req'[q].of] # NoCustomer
  BY DEF Reserved, Holds, Exists
<1>1. Alike(req'[q], req[q])
  BY DEF Others
<1>2. PICK c : c = req[q].of /\ c = req'[q].of
  BY <1>1 DEF Alike
<1>3. CASE req'[q].pc = "CreateSave"
  <2>1. /\ req[q].pc = "CreateSave" /\ c \in Ids /\ req[q].code \in Codes
        /\ req[q].from = "none" /\ req[q].status = "ACTIVE"
        /\ \A p \in Requests \ {q} : req[p].of # c
    BY <1>1, <1>2, <1>3 DEF Reserved, Alike
  <2>2. \A p \in Requests \ {q} : req'[p].of # c
    <3>1. \A p \in Requests \ {r} : req'[p].of = req[p].of
      BY DEF Others, Alike
    <3> QED
      BY <1>2, <2>1, <3>1
  <2>3. customers'[c] = NoCustomer
    BY <1>2, <2>1
  <2> QED
    BY <1>1, <1>2, <1>3, <2>1, <2>2, <2>3 DEF Alike, Exists
<1>4. CASE req'[q].pc # "CreateSave" /\ req'[q].pc # "idle"
  <2>1. c \in Ids /\ Exists(c)
    BY <1>1, <1>2, <1>4 DEF Reserved, Alike
  <2>2. customers'[c] # NoCustomer
    BY <2>1 DEF Exists
  <2> QED
    BY <1>2, <1>4, <2>1, <2>2 DEF Exists
<1> QED
  BY <1>3, <1>4

-----------------------------------------------------------------------------
(* The trail of a Customer.                                                *)

LEMMA OthersChanging ==
  ASSUME NEW r \in Requests, Others(r), NEW c
  PROVE  \A q \in Requests \ {r} : q \in Changing(c)' <=> q \in Changing(c)
  BY DEF Others, Alike, Changing

\* A step that has nothing to do with changes of c.
LEMMA ToldSame ==
  ASSUME NEW c \in Ids, Told(c), NEW r \in Requests, Others(r),
         r \notin Changing(c), r \notin Changing(c)',
         customers'[c] = customers[c], trail'[c] = trail[c]
  PROVE  Told(c)'
<1>1. Changing(c)' = Changing(c)
  BY OthersChanging DEF Changing
<1>2. \A q \in Changing(c) : Alike(req'[q], req[q])
  BY DEF Others, Changing
<1>3. \A q \in Changing(c) : Due(req'[q], trail[c], customers[c].status)
  BY <1>2 DEF Told, Due, Alike
<1> QED
  BY <1>1, <1>3 DEF Told

\* A step of the only change of c that is under way then.
LEMMA ToldAlone ==
  ASSUME NEW c \in Ids, NEW r \in Requests, Others(r), Changing(c) \subseteq {r},
         r \in Changing(c)', NEW t, t = trail'[c], Continuous(t),
         Due(req'[r], t, customers'[c].status)
  PROVE  Told(c)'
<1>1. Changing(c)' = {r}
  BY OthersChanging DEF Changing
<1> QED
  BY <1>1 DEF Told

\* The last step of the only change of c.
LEMMA ToldLast ==
  ASSUME NEW c \in Ids, NEW r \in Requests, Others(r), Changing(c) \subseteq {r},
         r \notin Changing(c)', NEW t, t = trail'[c], Continuous(t),
         t # <<>>, t[Len(t)].to = customers'[c].status
  PROVE  Told(c)'
<1>1. Changing(c)' = {}
  BY OthersChanging DEF Changing
<1> QED
  BY <1>1 DEF Told

\* A trail goes on with an event that follows.
LEMMA Continues ==
  ASSUME NEW t \in Seq(Event), Continuous(t), NEW e \in Event, Follows(t, e.from, e.to)
  PROVE  LET u == Append(t, e)
         IN  Continuous(u) /\ u # <<>> /\ u[Len(u)] = e
<1>1. PICK u : u = Append(t, e)
  OBVIOUS
<1>2. /\ Len(u) = Len(t) + 1 /\ u[Len(u)] = e /\ Len(t) \in Nat /\ u # <<>>
      /\ \A n \in 1..Len(t) : u[n] = t[n]
  BY <1>1
<1>3. CASE t = <<>>
  <2>1. e = [from |-> "none", to |-> "ACTIVE"] /\ Len(u) = 1
    BY <1>2, <1>3 DEF Follows, Event
  <2> QED
    BY <1>1, <1>2, <2>1 DEF Continuous
<1>4. CASE t # <<>>
  <2>1. Len(t) # 0 /\ e.from = t[Len(t)].to /\ <<e.from, e.to>> \in Transitions
    BY <1>4 DEF Follows
  <2>2. ASSUME NEW n \in 1..Len(u)
        PROVE  IF n = 1 THEN u[n] = [from |-> "none", to |-> "ACTIVE"]
               ELSE u[n].from = u[n - 1].to /\ <<u[n].from, u[n].to>> \in Transitions
    <3>1. CASE n = Len(u)
      <4>1. n - 1 = Len(t) /\ n # 1 /\ n - 1 \in 1..Len(t)
        BY <1>2, <2>1, <3>1
      <4> QED
        BY <1>2, <2>1, <3>1, <4>1
    <3>2. CASE n # Len(u)
      <4>1. n \in 1..Len(t) /\ (n # 1 => n - 1 \in 1..Len(t))
        BY <1>2, <3>2
      <4> QED
        BY <1>2, <4>1 DEF Continuous
    <3> QED
      BY <3>1, <3>2
  <2>3. Continuous(u)
    BY <2>2 DEF Continuous
  <2> QED
    BY <1>1, <1>2, <2>3
<1> QED
  BY <1>3, <1>4

-----------------------------------------------------------------------------
(* What the others have noted.                                             *)

Asks(q) == req[q].pc \in {"AskCustomer", "AskLicense", "Serve"}

LEMMA NoticedStep ==
  ASSUME AllNoticed, NEW r \in Requests, Others(r),
         \A q \in Requests \ {r} : Asks(q) =>
           /\ customers'[req[q].of].status = "ACTIVE"
                => customers[req[q].of].status = "ACTIVE" \/ req'[q].open
           /\ IsUsable(licenses'[req[q].of])
                => IsUsable(licenses[req[q].of]) \/ req'[q].usable,
         NEW x, x = req'[r],
         Noticed(x, customers'[x.of].status, IsUsable(licenses'[x.of]))
  PROVE  AllNoticed'
<1> SUFFICES ASSUME NEW q \in Requests, q # r
             PROVE  Noticed(req'[q], customers'[req'[q].of].status,
                          IsUsable(licenses'[req'[q].of]))
  BY DEF AllNoticed, IsUsable
<1>1. Alike(req'[q], req[q])
  BY DEF Others
<1>2. Noticed(req[q], customers[req[q].of].status, IsUsable(licenses[req[q].of]))
  BY DEF AllNoticed
<1> QED
  BY <1>1, <1>2 DEF Alike, Noticed, Asks

LEMMA NoticedSame ==
  ASSUME AllNoticed, NEW r \in Requests, Others(r), UNCHANGED <<customers, licenses>>,
         NEW x, x = req'[r],
         Noticed(x, customers[x.of].status, IsUsable(licenses[x.of]))
  PROVE  AllNoticed'
  BY NoticedStep

-----------------------------------------------------------------------------
(* The steps of the handlers.                                              *)

\* Requests that write nothing: only the one that moves is looked at.
LEMMA QuietStep ==
  ASSUME IInv, NEW r \in Requests, NEW x \in Request, Others(r),
         req' \in [Requests -> Request], x = req'[r],
         UNCHANGED <<customers, licenses, served, trail>>,
         count' \in 0..MaxRequests, disturbed' \in SUBSET Ids, disturbed \subseteq disturbed',
         Holds(r, x),
         \A q \in Requests \ {r} : req[q].pc = "CreateSave" => x.of # req[q].of,
         Noticed(x, customers[x.of].status, IsUsable(licenses[x.of])),
         \A c \in Ids \ disturbed' : Exists(c) /\ (r \in Changing(c) \/ r \in Changing(c)')
            => Told(c)'
  PROVE  IInv'
<1>1. TypeOK'
  BY DEF IInv, TypeOK
<1>2. Reserved'
  <2>1. \A q \in Requests \ {r} : req[q].pc = "CreateSave" => customers[req[q].of] = NoCustomer
    BY DEF IInv, Reserved, Exists
  <2>2. Holds(r, x)'
    <3>1. \A q \in Requests \ {r} : req'[q].of = req[q].of
      BY DEF Others, Alike
    <3> QED
      BY <3>1 DEF Holds, Exists
  <2>3. \A c \in Ids : Exists(c) => Exists(c)'
    BY DEF Exists
  <2> QED
    BY <2>1, <2>2, <2>3, ReservedStep DEF IInv
<1>3. WholeRows'
  BY DEF IInv, WholeRows, Exists
<1>4. AllTold'
  <2> SUFFICES ASSUME NEW c \in Ids \ disturbed', customers[c] # NoCustomer
               PROVE  Told(c)'
    BY DEF AllTold, Exists
  <2>1. Told(c)
    BY DEF IInv, AllTold, Exists
  <2> QED
    BY <2>1, ToldSame DEF Exists
<1>5. AllNoticed'
  BY NoticedSame DEF IInv
<1> QED
  BY <1>1, <1>2, <1>3, <1>4, <1>5 DEF IInv

LEMMA ArrivesType ==
  ASSUME ConstantsFit, TypeOK, Arrives
  PROVE  count' \in 0..MaxRequests
  BY DEF ConstantsFit, TypeOK, Arrives

\* A creation has an id that no other handler is about.
LEMMA ReservedApart ==
  ASSUME ConstantsFit, Reserved, NEW r \in Requests, NEW q \in Requests \ {r},
         req[q].pc = "CreateSave"
  PROVE  /\ req[q].of \in Ids /\ req[q].of # NoId /\ req[q].of # req[r].of
         /\ customers[req[q].of] = NoCustomer
  BY DEF ConstantsFit, Reserved, Exists

LEMMA CreateFindKeeps ==
  ASSUME ConstantsFit, IInv, NEW r \in Requests, NEW c \in Ids, NEW code \in Codes,
         CreateFind(r, c, code)
  PROVE  IInv'
<1> DEFINE x == [Idle EXCEPT !.pc = "CreateSave", !.of = c, !.code = code]
<1>1. /\ req[r].pc = "idle" /\ ~Exists(c) /\ Becomes(r, x)
      /\ \A q \in Requests : req[q].of # c
      /\ UNCHANGED <<customers, licenses, served, trail, disturbed>> /\ TypeOK
  BY DEF CreateFind, IInv
<1>2. /\ x \in Request /\ x.pc = "CreateSave" /\ x.of = c /\ x.code = code
      /\ x.from = "none" /\ x.status = "ACTIVE"
  BY DEF Idle, Request, Statuses, Things
<1> HIDE DEF x
<1>3. req'[r] = x /\ Others(r) /\ req' \in [Requests -> Request]
  BY <1>1, <1>2, BecomesOne, BecomesOthers
<1>4. Holds(r, x) /\ Noticed(x, customers[x.of].status, IsUsable(licenses[x.of]))
  BY <1>1, <1>2 DEF Holds, Noticed
<1>5. \A d : r \notin Changing(d) /\ r \notin Changing(d)'
  BY <1>1, <1>2, <1>3 DEF Changing
<1>6. count' \in 0..MaxRequests
  BY <1>1, ArrivesType DEF CreateFind
<1>7. disturbed' = disturbed /\ disturbed' \in SUBSET Ids
  BY <1>1 DEF TypeOK
<1> QED
  BY <1>1, <1>2, <1>3, <1>4, <1>5, <1>6, <1>7, QuietStep

LEMMA ChangeReadKeeps ==
  ASSUME ConstantsFit, IInv, NEW r \in Requests, NEW c \in Ids, NEW to \in Statuses,
         ChangeRead(r, c, to)
  PROVE  IInv'
<1> DEFINE x == [Idle EXCEPT !.pc = "ChangeSelect", !.of = c,
                             !.from = customers[c].status, !.status = to]
<1>1. /\ req[r].pc = "idle" /\ Exists(c) /\ Becomes(r, x)
      /\ <<customers[c].status, to>> \in Transitions
      /\ UNCHANGED <<customers, licenses, served, trail>> /\ TypeOK
  BY DEF ChangeRead, IInv
<1>2. customers[c].status \in Statuses
  BY <1>1 DEF TypeOK, CustomerRow
<1>3. /\ x \in Request /\ x.pc = "ChangeSelect" /\ x.of = c
      /\ x.from = customers[c].status /\ x.status = to
  BY <1>2 DEF Idle, Request, Things, Statuses
<1> HIDE DEF x
<1>4. req'[r] = x /\ Others(r) /\ req' \in [Requests -> Request]
  BY <1>1, <1>3, BecomesOne, BecomesOthers
<1>5. Holds(r, x) /\ Noticed(x, customers[x.of].status, IsUsable(licenses[x.of]))
  BY <1>1, <1>3 DEF Holds, Noticed
<1>6. count' \in 0..MaxRequests
  BY <1>1, ArrivesType DEF ChangeRead
<1>7. \A q \in Requests \ {r} : req[q].pc = "CreateSave" => x.of # req[q].of
  BY <1>1, <1>3 DEF IInv, Reserved
<1>8. disturbed' = IF Changing(c) # {} THEN disturbed \cup {c} ELSE disturbed
  BY DEF ChangeRead
<1>9. disturbed \subseteq disturbed' /\ disturbed' \in SUBSET Ids
  BY <1>1, <1>8 DEF TypeOK
<1>10. ASSUME NEW d \in Ids \ disturbed', Exists(d), r \in Changing(d) \/ r \in Changing(d)'
       PROVE  Told(d)'
  <2>1. d = c /\ Changing(c) = {} /\ r \in Changing(c)' /\ c \notin disturbed
    BY <1>1, <1>3, <1>4, <1>8, <1>10 DEF Changing
  <2>2. PICK t : t = trail[c]
    OBVIOUS
  <2>3. Continuous(t) /\ t # <<>> /\ t[Len(t)].to = customers[c].status
    BY <1>1, <2>1, <2>2 DEF IInv, AllTold, Told
  <2>4. Due(x, t, customers[c].status)
    BY <1>1, <1>3, <2>3 DEF Due, Follows
  <2> QED
    BY <1>1, <1>4, <2>1, <2>2, <2>3, <2>4, ToldAlone
<1> QED
  BY <1>1, <1>3, <1>4, <1>5, <1>6, <1>7, <1>9, <1>10, QuietStep

LEMMA ChangeSelectKeeps ==
  ASSUME ConstantsFit, IInv, NEW r \in Requests, ChangeSelect(r)
  PROVE  IInv'
<1> DEFINE x == [req[r] EXCEPT !.pc = "ChangeUpdate", !.base = customers[req[r].of].status]
<1>1. /\ req[r].pc = "ChangeSelect" /\ Becomes(r, x) /\ req[r] \in Request
      /\ UNCHANGED <<customers, licenses, served, trail, count, disturbed>> /\ TypeOK
  BY DEF ChangeSelect, IInv, TypeOK
<1>2. PICK c : c = req[r].of
  OBVIOUS
<1>3. c \in Ids /\ Exists(c) /\ customers[c].status \in Statuses
  BY <1>1, <1>2 DEF IInv, Reserved, TypeOK, CustomerRow
<1>4. /\ x \in Request /\ x.pc = "ChangeUpdate" /\ x.of = c
      /\ x.from = req[r].from /\ x.status = req[r].status
      /\ x.base = customers[c].status
  BY <1>1, <1>2, <1>3 DEF Request
<1> HIDE DEF x
<1>5. req'[r] = x /\ Others(r) /\ req' \in [Requests -> Request]
  BY <1>1, <1>4, BecomesOne, BecomesOthers
<1>6. Holds(r, x) /\ Noticed(x, customers[x.of].status, IsUsable(licenses[x.of]))
  BY <1>3, <1>4 DEF Holds, Noticed
<1>7. \A q \in Requests \ {r} : req[q].pc = "CreateSave" => x.of # req[q].of
  BY <1>2, <1>4, ReservedApart DEF IInv
<1>8. ASSUME NEW d \in Ids \ disturbed', Exists(d), r \in Changing(d) \/ r \in Changing(d)'
      PROVE  Told(d)'
  <2>1. d = c /\ r \in Changing(c) /\ r \in Changing(c)' /\ c \notin disturbed
    BY <1>1, <1>2, <1>4, <1>5, <1>8 DEF Changing
  <2>2. PICK t : t = trail[c]
    OBVIOUS
  <2>3. Told(c)
    BY <1>3, <2>1 DEF IInv, AllTold
  <2>4. Changing(c) = {r} /\ Continuous(t) /\ Due(req[r], t, customers[c].status)
    BY <2>1, <2>2, <2>3 DEF Told
  <2>5. Due(x, t, customers[c].status)
    BY <1>1, <1>4, <2>4 DEF Due
  <2> QED
    BY <1>1, <1>3, <1>5, <2>1, <2>2, <2>4, <2>5, ToldAlone
<1>9. count' \in 0..MaxRequests /\ disturbed' \in SUBSET Ids /\ disturbed \subseteq disturbed'
  BY <1>1 DEF TypeOK
<1> QED
  BY <1>1, <1>4, <1>5, <1>6, <1>7, <1>8, <1>9, QuietStep

LEMMA AskKeeps ==
  ASSUME ConstantsFit, IInv, NEW r \in Requests, AskCustomer(r) \/ AskLicense(r)
  PROVE  IInv'
<1>1. /\ req[r].pc \in {"AskCustomer", "AskLicense"} /\ req[r] \in Request
      /\ UNCHANGED <<customers, licenses, served, trail, count, disturbed>> /\ TypeOK
  BY DEF AskCustomer, AskLicense, IInv, TypeOK
<1>2. PICK c : c = req[r].of
  OBVIOUS
<1>3. c \in Ids /\ Exists(c) /\ Noticed(req[r], customers[c].status, IsUsable(licenses[c]))
  BY <1>1, <1>2 DEF IInv, Reserved, AllNoticed
<1>4. ASSUME NEW p \in {"AskLicense", "Serve"}
      PROVE  LET y == [req[r] EXCEPT !.pc = p]
             IN  /\ y \in Request /\ y.pc = p /\ y.of = c /\ y.thing = req[r].thing
                 /\ y.open = req[r].open /\ y.usable = req[r].usable
  BY <1>1, <1>2, <1>4 DEF Request
<1>5. \E x \in Request :
        /\ Becomes(r, x)
        /\ \/ x = Idle
           \/ /\ x.of = c /\ x.thing = req[r].thing
              /\ x.open = req[r].open /\ x.usable = req[r].usable
              /\ \/ /\ req[r].pc = "AskCustomer" /\ customers[c].status = "ACTIVE"
                    /\ x.pc \in {"AskLicense", "Serve"}
                    /\ x.pc = "Serve" => x.thing = "license"
                 \/ /\ req[r].pc = "AskLicense" /\ IsUsable(licenses[c])
                    /\ x.pc = "Serve"
  <2>1. CASE AskCustomer(r) /\ customers[c].status = "ACTIVE"
    <3> DEFINE p == IF req[r].thing = "license" THEN "Serve" ELSE "AskLicense"
    <3>1. Becomes(r, [req[r] EXCEPT !.pc = p]) /\ req[r].pc = "AskCustomer"
      BY <1>2, <2>1 DEF AskCustomer
    <3> QED
      BY <1>4, <2>1, <3>1
  <2>2. CASE AskLicense(r) /\ IsUsable(licenses[c])
    <3>1. Becomes(r, [req[r] EXCEPT !.pc = "Serve"]) /\ req[r].pc = "AskLicense"
      BY <1>2, <2>2 DEF AskLicense
    <3> QED
      BY <1>4, <2>2, <3>1
  <2>3. CASE Becomes(r, Idle)
    BY <2>3, IdleType
  <2> QED
    BY <1>2, <2>1, <2>2, <2>3 DEF AskCustomer, AskLicense
<1>6. PICK x \in Request :
        /\ Becomes(r, x)
        /\ \/ x = Idle
           \/ /\ x.of = c /\ x.thing = req[r].thing
              /\ x.open = req[r].open /\ x.usable = req[r].usable
              /\ \/ /\ req[r].pc = "AskCustomer" /\ customers[c].status = "ACTIVE"
                    /\ x.pc \in {"AskLicense", "Serve"}
                    /\ x.pc = "Serve" => x.thing = "license"
                 \/ /\ req[r].pc = "AskLicense" /\ IsUsable(licenses[c])
                    /\ x.pc = "Serve"
  BY <1>5
<1>7. req'[r] = x /\ Others(r) /\ req' \in [Requests -> Request]
  BY <1>1, <1>6, BecomesOne, BecomesOthers
<1>8. Holds(r, x)
  BY <1>3, <1>6, IdleType DEF Holds
<1>9. Noticed(x, customers[x.of].status, IsUsable(licenses[x.of]))
  BY <1>3, <1>6, IdleType DEF Noticed
<1>10. \A q \in Requests \ {r} : req[q].pc = "CreateSave" => x.of # req[q].of
  BY <1>2, <1>6, ReservedApart, IdleType DEF IInv
<1>11. \A d : r \notin Changing(d) /\ r \notin Changing(d)'
  BY <1>1, <1>6, <1>7, IdleType DEF Changing
<1>12. count' \in 0..MaxRequests /\ disturbed' \in SUBSET Ids /\ disturbed \subseteq disturbed'
  BY <1>1 DEF TypeOK
<1> QED
  BY <1>1, <1>7, <1>8, <1>9, <1>10, <1>11, <1>12, QuietStep

LEMMA CrashKeeps ==
  ASSUME ConstantsFit, IInv, NEW r \in Requests, Crash(r)
  PROVE  IInv'
<1>1. /\ req[r].pc # "idle" /\ Becomes(r, Idle) /\ req[r] \in Request
      /\ UNCHANGED <<customers, licenses, served, trail, count>> /\ TypeOK
      /\ disturbed' = IF req[r].pc = "Audit" THEN disturbed \cup {req[r].of} ELSE disturbed
  BY DEF Crash, IInv, TypeOK
<1>2. req'[r] = Idle /\ Others(r) /\ req' \in [Requests -> Request]
  BY <1>1, IdleType, BecomesOne, BecomesOthers
<1>3. req[r].of \in Ids
  BY <1>1 DEF IInv, Reserved
<1>4. disturbed \subseteq disturbed' /\ disturbed' \in SUBSET Ids /\ count' \in 0..MaxRequests
  BY <1>1, <1>3 DEF TypeOK
<1>5. Holds(r, Idle) /\ Noticed(Idle, customers[Idle.of].status, IsUsable(licenses[Idle.of]))
  BY IdleType DEF Holds, Noticed
<1>6. \A q \in Requests \ {r} : req[q].pc = "CreateSave" => Idle.of # req[q].of
  BY ReservedApart, IdleType DEF IInv
<1>7. ASSUME NEW d \in Ids \ disturbed', Exists(d), r \in Changing(d) \/ r \in Changing(d)'
      PROVE  Told(d)'
  <2>1. /\ r \in Changing(d) /\ r \notin Changing(d)' /\ d \notin disturbed
        /\ req[r].pc \in {"ChangeSelect", "ChangeUpdate"}
    BY <1>1, <1>2, <1>4, <1>7, IdleType DEF Changing
  <2>2. PICK t : t = trail[d]
    OBVIOUS
  <2>3. Told(d)
    BY <1>7, <2>1 DEF IInv, AllTold
  <2>4. Changing(d) \subseteq {r} /\ Continuous(t) /\ Due(req[r], t, customers[d].status)
    BY <2>1, <2>2, <2>3 DEF Told
  <2>5. t # <<>> /\ t[Len(t)].to = customers[d].status
    BY <2>1, <2>4 DEF Due, Follows
  <2> QED
    BY <1>1, <1>2, <2>1, <2>2, <2>4, <2>5, ToldLast
<1> QED
  BY <1>1, <1>2, <1>4, <1>5, <1>6, <1>7, IdleType, QuietStep

\* Requests that write: what they write is about one Customer.
LEMMA WriteStep ==
  ASSUME ConstantsFit, IInv, NEW r \in Requests, NEW x \in Request, x = req'[r], Others(r),
         TypeOK', disturbed \subseteq disturbed',
         NEW c \in Ids,
         \A d \in Ids \ {c} : /\ customers'[d] = customers[d] /\ licenses'[d] = licenses[d]
                              /\ trail'[d] = trail[d]
                              /\ r \notin Changing(d) /\ r \notin Changing(d)',
         customers'[c] # NoCustomer, customers'[c].code # NoCode,
         x.pc # "CreateSave", x.of \in {c, NoId}, x.pc # "idle" => x.of = c,
         \A q \in Requests \ {r} : req[q].pc = "CreateSave" => req[q].of # c,
         Noticed(x, customers'[x.of].status, IsUsable(licenses'[x.of])),
         \A q \in Requests \ {r} : Asks(q) /\ req[q].of = c =>
           /\ customers'[c].status = "ACTIVE" => customers[c].status = "ACTIVE" \/ req'[q].open
           /\ IsUsable(licenses'[c]) => IsUsable(licenses[c]) \/ req'[q].usable,
         c \notin disturbed' => Told(c)'
  PROVE  IInv'
<1>1. Reserved'
  <2>1. \A q \in Requests \ {r} : req[q].pc = "CreateSave"
          => customers'[req[q].of] = NoCustomer /\ req'[r].of # req[q].of
    BY ReservedApart DEF IInv
  <2>2. Holds(r, x)'
    BY DEF Holds, Exists
  <2>3. \A d \in Ids : Exists(d) => Exists(d)'
    BY DEF Exists
  <2> QED
    BY <2>1, <2>2, <2>3, ReservedStep DEF IInv
<1>2. WholeRows'
  BY DEF IInv, WholeRows, Exists
<1>3. AllTold'
  <2> SUFFICES ASSUME NEW d \in Ids \ disturbed', customers'[d] # NoCustomer, d # c
               PROVE  Told(d)'
    BY DEF AllTold, Exists
  <2>1. Told(d)
    BY DEF IInv, AllTold, Exists
  <2> QED
    BY <2>1, ToldSame
<1>4. AllNoticed'
  <2>1. \A q \in Requests \ {r} : Asks(q) =>
           /\ customers'[req[q].of].status = "ACTIVE"
                => customers[req[q].of].status = "ACTIVE" \/ req'[q].open
           /\ IsUsable(licenses'[req[q].of])
                => IsUsable(licenses[req[q].of]) \/ req'[q].usable
    <3> SUFFICES ASSUME NEW q \in Requests \ {r}, Asks(q)
                 PROVE  /\ customers'[req[q].of].status = "ACTIVE"
                             => customers[req[q].of].status = "ACTIVE" \/ req'[q].open
                        /\ IsUsable(licenses'[req[q].of])
                             => IsUsable(licenses[req[q].of]) \/ req'[q].usable
      OBVIOUS
    <3>1. req[q].of \in Ids
      BY DEF Asks, IInv, Reserved
    <3>2. CASE req[q].of = c
      BY <3>2
    <3>3. CASE req[q].of # c
      BY <3>1, <3>3
    <3> QED
      BY <3>2, <3>3
  <2> QED
    BY <2>1, NoticedStep DEF IInv
<1> QED
  BY <1>1, <1>2, <1>3, <1>4 DEF IInv

LEMMA BeginKeeps ==
  ASSUME ConstantsFit, IInv, NEW r \in Requests, NEW c \in Ids, NEW thing \in Things,
         Begin(r, c, thing)
  PROVE  IInv'
<1> DEFINE y == [Idle EXCEPT !.pc = "AskCustomer", !.of = c, !.thing = thing]
<1>1. /\ req[r].pc = "idle" /\ Exists(c) /\ req' = Noted([req EXCEPT ![r] = y], c)
      /\ UNCHANGED <<customers, licenses, served, trail, disturbed>> /\ TypeOK
  BY DEF Begin, IInv
<1>2. y \in Request /\ y.pc = "AskCustomer" /\ y.of = c
  BY DEF Idle, Request, Statuses, Things
<1> HIDE DEF y
<1>3. PICK x : x = req'[r]
  OBVIOUS
<1>4. /\ req' \in [Requests -> Request] /\ Others(r) /\ Alike(x, y)
      /\ x.of = c =>
           /\ customers'[c].status = "ACTIVE" => x.open
           /\ licenses'[c] = [status |-> "ACTIVE", window |-> "within"] => x.usable
  BY <1>1, <1>2, <1>3, NotedOthers
<1>5. x \in Request /\ x.pc = "AskCustomer" /\ x.of = c
  BY <1>2, <1>3, <1>4 DEF Alike
<1>6. Holds(r, x)
  BY <1>1, <1>5 DEF Holds
<1>7. Noticed(x, customers[x.of].status, IsUsable(licenses[x.of]))
  <2>1. IsUsable(licenses[c]) <=> licenses[c] = [status |-> "ACTIVE", window |-> "within"]
    BY <1>1, UsableIs DEF TypeOK
  <2> QED
    BY <1>1, <1>4, <1>5, <2>1 DEF Noticed
<1>8. \A q \in Requests \ {r} : req[q].pc = "CreateSave" => x.of # req[q].of
  BY <1>1, <1>5 DEF IInv, Reserved
<1>9. \A d : r \notin Changing(d) /\ r \notin Changing(d)'
  BY <1>1, <1>3, <1>5 DEF Changing
<1>10. count' \in 0..MaxRequests
  BY <1>1, ArrivesType DEF Begin
<1>11. disturbed' = disturbed /\ disturbed' \in SUBSET Ids
  BY <1>1 DEF TypeOK
<1> QED
  BY <1>1, <1>3, <1>4, <1>5, <1>6, <1>7, <1>8, <1>9, <1>10, <1>11, QuietStep

LEMMA CreateSaveKeeps ==
  ASSUME ConstantsFit, IInv, NEW r \in Requests, CreateSave(r)
  PROVE  IInv'
<1>1. PICK c, code : c = req[r].of /\ code = req[r].code
  OBVIOUS
<1>2. /\ req[r].pc = "CreateSave" /\ req[r] \in Request /\ TypeOK
      /\ UNCHANGED <<licenses, served, trail, count, disturbed>>
  BY DEF CreateSave, IInv, TypeOK
<1>3. /\ c \in Ids /\ code \in Codes /\ ~Exists(c)
      /\ req[r].from = "none" /\ req[r].status = "ACTIVE"
      /\ \A q \in Requests \ {r} : req[q].of # c
  BY <1>1, <1>2 DEF IInv, Reserved
<1>4. CASE UNCHANGED customers /\ Becomes(r, Idle)
  <2>1. req'[r] = Idle /\ Others(r) /\ req' \in [Requests -> Request]
    BY <1>2, <1>4, IdleType, BecomesOne, BecomesOthers
  <2>2. Holds(r, Idle) /\ Noticed(Idle, customers[Idle.of].status, IsUsable(licenses[Idle.of]))
    BY IdleType DEF Holds, Noticed
  <2>3. \A q \in Requests \ {r} : req[q].pc = "CreateSave" => Idle.of # req[q].of
    BY ReservedApart, IdleType DEF IInv
  <2>4. \A d : r \notin Changing(d) /\ r \notin Changing(d)'
    BY <1>2, <2>1, IdleType DEF Changing
  <2>5. count' \in 0..MaxRequests /\ disturbed' \in SUBSET Ids /\ disturbed \subseteq disturbed'
    BY <1>2 DEF TypeOK
  <2> QED
    BY <1>2, <1>4, <2>1, <2>2, <2>3, <2>4, <2>5, IdleType, QuietStep
<1> DEFINE x == [req[r] EXCEPT !.pc = "Audit"]
<1>5. /\ x \in Request /\ x.pc = "Audit" /\ x.of = c
      /\ x.from = "none" /\ x.status = "ACTIVE"
  BY <1>1, <1>2, <1>3 DEF Request
<1>6. CASE customers' = [customers EXCEPT ![c] = NewCustomer(code)] /\ Becomes(r, x)
  <2> HIDE DEF x
  <2>1. req'[r] = x /\ Others(r) /\ req' \in [Requests -> Request]
    BY <1>2, <1>5, <1>6, BecomesOne, BecomesOthers
  <2>2. /\ customers'[c] = NewCustomer(code)
        /\ \A d \in Ids \ {c} : customers'[d] = customers[d]
        /\ customers' \in [Ids -> CustomerRow]
    BY <1>2, <1>3, <1>6, RowTypes DEF TypeOK
  <2>3. customers'[c].code # NoCode /\ customers'[c] # NoCustomer
        /\ customers'[c].status = "ACTIVE"
    BY <1>3, <2>2, RowTypes DEF ConstantsFit, NoCustomer
  <2>4. TypeOK'
    BY <1>2, <2>1, <2>2 DEF TypeOK
  <2>5. \A d \in Ids \ {c} : r \notin Changing(d) /\ r \notin Changing(d)'
    BY <1>2, <1>5, <2>1 DEF Changing
  <2>6. Noticed(x, customers'[x.of].status, IsUsable(licenses'[x.of]))
    BY <1>5 DEF Noticed
  <2>7. Changing(c) \subseteq {r} /\ r \in Changing(c)'
    BY <1>3, <1>5, <2>1 DEF Changing
  <2>8. trail'[c] = <<>> /\ Continuous(<<>>)
    BY <1>2, <1>3 DEF IInv, WholeRows, Continuous
  <2>9. Due(x, <<>>, "ACTIVE")
    BY <1>5 DEF Due, Follows
  <2>10. Told(c)'
    BY <1>3, <2>1, <2>3, <2>7, <2>8, <2>9, ToldAlone
  <2> QED
    BY <1>2, <1>3, <1>5, <2>1, <2>2, <2>3, <2>4, <2>5, <2>6, <2>10, WriteStep
<1> QED
  BY <1>1, <1>4, <1>6 DEF CreateSave

LEMMA ChangeUpdateKeeps ==
  ASSUME ConstantsFit, IInv, NEW r \in Requests, ChangeUpdate(r)
  PROVE  IInv'
<1>1. PICK c : c = req[r].of
  OBVIOUS
<1> DEFINE y == [req[r] EXCEPT !.pc = "Audit"]
           s == IF req[r].status # req[r].base THEN req[r].status ELSE customers[c].status
<1>2. /\ req[r].pc = "ChangeUpdate" /\ req[r] \in Request /\ TypeOK
      /\ customers' = [customers EXCEPT ![c].status = s]
      /\ UNCHANGED <<licenses, served, trail, count, disturbed>>
      /\ req' = Noted([req EXCEPT ![r].pc = "Audit"], c)
  BY <1>1 DEF ChangeUpdate, IInv, TypeOK
<1>3. c \in Ids /\ Exists(c) /\ customers[c].code # NoCode
  BY <1>1, <1>2 DEF IInv, Reserved, WholeRows
<1>4. /\ y \in Request /\ y.pc = "Audit" /\ y.of = c
      /\ y.from = req[r].from /\ y.status = req[r].status
  BY <1>1, <1>2 DEF Request
<1>5. req' = Noted([req EXCEPT ![r] = y], c)
  BY <1>2
<1>6. s \in Statuses
  BY <1>2, <1>3 DEF Request, TypeOK, CustomerRow
<1> HIDE DEF y
<1>7. /\ customers' \in [Ids -> CustomerRow]
      /\ customers'[c].status = s /\ customers'[c].code = customers[c].code
      /\ \A d \in Ids \ {c} : customers'[d] = customers[d]
  <2>1. customers \in [Ids -> CustomerRow]
    BY <1>2 DEF TypeOK
  <2> HIDE DEF s
  <2> QED
    BY <1>2, <1>3, <1>6, <2>1 DEF CustomerRow
<1>8. PICK x : x = req'[r]
  OBVIOUS
<1>9. /\ req' \in [Requests -> Request] /\ Others(r) /\ Alike(x, y)
      /\ \A q \in Requests : req'[q].of = c =>
           (customers'[c].status = "ACTIVE" => req'[q].open)
  BY <1>2, <1>4, <1>5, <1>8, NotedOthers
<1>10. /\ x \in Request /\ x.pc = "Audit" /\ x.of = c
       /\ x.from = req[r].from /\ x.status = req[r].status
  BY <1>4, <1>8, <1>9 DEF Alike
<1>11. TypeOK'
  BY <1>2, <1>7, <1>9 DEF TypeOK
<1>12. customers'[c].code # NoCode /\ customers'[c] # NoCustomer
  BY <1>3, <1>7 DEF NoCustomer
<1>13. \A d \in Ids \ {c} : r \notin Changing(d) /\ r \notin Changing(d)'
  BY <1>1, <1>8, <1>10 DEF Changing
<1>14. \A q \in Requests \ {r} : req[q].pc = "CreateSave" => req[q].of # c
  BY <1>1, ReservedApart DEF IInv
<1>15. Noticed(x, customers'[x.of].status, IsUsable(licenses'[x.of]))
  BY <1>10 DEF Noticed
<1>16. \A q \in Requests \ {r} : Asks(q) /\ req[q].of = c =>
          /\ customers'[c].status = "ACTIVE" => customers[c].status = "ACTIVE" \/ req'[q].open
          /\ IsUsable(licenses'[c]) => IsUsable(licenses[c]) \/ req'[q].usable
  <2> SUFFICES ASSUME NEW q \in Requests \ {r}, req[q].of = c
               PROVE  customers'[c].status = "ACTIVE" => req'[q].open
    BY <1>2 DEF IsUsable
  <2>1. req'[q].of = c
    BY <1>9 DEF Others, Alike
  <2> QED
    BY <1>9, <2>1
<1>17. ASSUME c \notin disturbed' PROVE Told(c)'
  <2>1. Told(c) /\ r \in Changing(c)
    BY <1>1, <1>2, <1>3, <1>17 DEF IInv, AllTold, Changing
  <2>2. PICK t : t = trail[c]
    OBVIOUS
  <2>3. Changing(c) = {r} /\ Continuous(t) /\ Due(req[r], t, customers[c].status)
    BY <2>1, <2>2 DEF Told
  <2>4. /\ Follows(t, req[r].from, req[r].status) /\ t # <<>>
        /\ customers[c].status = req[r].from /\ req[r].base = customers[c].status
    BY <1>2, <2>3 DEF Due
  <2>5. <<req[r].from, req[r].status>> \in Transitions
    BY <2>4 DEF Follows
  <2>6. req[r].status # req[r].base
    BY <2>4, <2>5 DEF Transitions
  <2>7. Due(x, t, customers'[c].status)
    BY <1>7, <1>10, <2>4, <2>6 DEF Due
  <2>8. r \in Changing(c)' /\ t = trail'[c]
    BY <1>2, <1>8, <1>10, <2>2 DEF Changing
  <2> QED
    BY <1>3, <1>8, <1>9, <2>3, <2>7, <2>8, ToldAlone
<1> HIDE DEF s
<1> QED
  BY <1>2, <1>3, <1>7, <1>8, <1>9, <1>10, <1>11, <1>12, <1>13, <1>14, <1>15, <1>16, <1>17,
     WriteStep

LEMMA AuditKeeps ==
  ASSUME ConstantsFit, IInv, NEW r \in Requests, Audit(r)
  PROVE  IInv'
<1>1. PICK c, t : c = req[r].of /\ t = trail[c]
  OBVIOUS
<1> DEFINE e == [from |-> req[r].from, to |-> req[r].status]
           u == Append(t, e)
<1>2. /\ req[r].pc = "Audit" /\ req[r] \in Request /\ TypeOK /\ Becomes(r, Idle)
      /\ UNCHANGED <<customers, licenses, served, count, disturbed>>
      /\ trail' = [trail EXCEPT ![c] = u]
  BY <1>1 DEF Audit, IInv, TypeOK
<1>3. c \in Ids /\ Exists(c) /\ customers[c].code # NoCode
  BY <1>1, <1>2 DEF IInv, Reserved, WholeRows
<1>4. e \in Event /\ e.from = req[r].from /\ e.to = req[r].status /\ t \in Seq(Event)
  BY <1>1, <1>2, <1>3 DEF Event, Request, TypeOK
<1> HIDE DEF e
<1>5. /\ trail' \in [Ids -> Seq(Event)] /\ trail'[c] = u
      /\ \A d \in Ids \ {c} : trail'[d] = trail[d]
  BY <1>2, <1>3, <1>4 DEF TypeOK
<1>6. req'[r] = Idle /\ Others(r) /\ req' \in [Requests -> Request]
  BY <1>2, IdleType, BecomesOne, BecomesOthers
<1>7. TypeOK'
  BY <1>2, <1>5, <1>6 DEF TypeOK
<1>8. customers'[c] # NoCustomer /\ customers'[c].code # NoCode
  BY <1>2, <1>3 DEF Exists
<1>9. \A d \in Ids \ {c} : r \notin Changing(d) /\ r \notin Changing(d)'
  BY <1>1, <1>6, IdleType DEF Changing
<1>10. \A q \in Requests \ {r} : req[q].pc = "CreateSave" => req[q].of # c
  BY <1>1, ReservedApart DEF IInv
<1>11. ASSUME c \notin disturbed' PROVE Told(c)'
  <2>1. Told(c) /\ r \in Changing(c)
    BY <1>1, <1>2, <1>3, <1>11 DEF IInv, AllTold, Changing
  <2>2. Changing(c) = {r} /\ Continuous(t) /\ Due(req[r], t, customers[c].status)
    BY <1>1, <2>1 DEF Told
  <2>3. Follows(t, e.from, e.to) /\ customers'[c].status = e.to
    BY <1>2, <1>4, <2>2 DEF Due
  <2>4. Continuous(u) /\ u # <<>> /\ u[Len(u)] = e
    BY <1>4, <2>2, <2>3, Continues
  <2>5. r \notin Changing(c)'
    BY <1>6, IdleType DEF Changing
  <2> HIDE DEF u
  <2> QED
    BY <1>3, <1>5, <1>6, <2>2, <2>3, <2>4, <2>5, ToldLast
<1>12. Noticed(Idle, customers'[Idle.of].status, IsUsable(licenses'[Idle.of]))
  BY IdleType DEF Noticed
<1>13. /\ disturbed \subseteq disturbed'
       /\ \A d \in Ids : customers'[d] = customers[d] /\ licenses'[d] = licenses[d]
  BY <1>2
<1> HIDE DEF u
<1>14. \A q \in Requests \ {r} : Asks(q) /\ req[q].of = c =>
          /\ customers'[c].status = "ACTIVE" => customers[c].status = "ACTIVE" \/ req'[q].open
          /\ IsUsable(licenses'[c]) => IsUsable(licenses[c]) \/ req'[q].usable
  <2>1. customers'[c] = customers[c] /\ licenses'[c] = licenses[c]
    BY <1>3, <1>13
  <2> QED
    BY <2>1 DEF IsUsable
<1>15. PICK x \in Request : x = Idle
  BY IdleType
<1>16. /\ x = req'[r] /\ x.pc = "idle" /\ x.of = NoId
       /\ Noticed(x, customers'[x.of].status, IsUsable(licenses'[x.of]))
  BY <1>6, <1>12, <1>15, IdleType
<1>17. \A d \in Ids \ {c} : /\ customers'[d] = customers[d] /\ licenses'[d] = licenses[d]
                            /\ trail'[d] = trail[d]
                            /\ r \notin Changing(d) /\ r \notin Changing(d)'
  BY <1>5, <1>9, <1>13
<1> QED
  BY <1>3, <1>6, <1>7, <1>8, <1>10, <1>11, <1>13, <1>14, <1>16, <1>17, WriteStep

LEMMA ServeKeeps ==
  ASSUME ConstantsFit, IInv, NEW r \in Requests, NEW window \in Windows, Serve(r, window)
  PROVE  IInv'
<1>1. PICK c : c = req[r].of
  OBVIOUS
<1>2. /\ req[r].pc = "Serve" /\ req[r] \in Request /\ TypeOK
      /\ UNCHANGED <<customers, trail, count, disturbed>>
      /\ served' = [served EXCEPT ![c] = served[c] \cup {req[r].thing}]
      /\ \/ licenses' = licenses
         \/ licenses' = [licenses EXCEPT ![c] = [status |-> "ACTIVE", window |-> window]]
      /\ req' = Noted([req EXCEPT ![r] = Idle], c)
  BY <1>1 DEF Serve, IInv, TypeOK
<1>3. c \in Ids /\ Exists(c) /\ customers[c].code # NoCode
  BY <1>1, <1>2 DEF IInv, Reserved, WholeRows
<1>4. /\ licenses' \in [Ids -> License]
      /\ \A d \in Ids \ {c} : licenses'[d] = licenses[d]
  <2>1. [status |-> "ACTIVE", window |-> window] \in License
    BY DEF License
  <2> QED
    BY <1>2, <1>3, <2>1 DEF TypeOK
<1>5. PICK x : x = req'[r]
  OBVIOUS
<1>6. /\ req' \in [Requests -> Request] /\ Others(r) /\ Alike(x, Idle)
      /\ \A q \in Requests : req'[q].of = c =>
           (licenses'[c] = [status |-> "ACTIVE", window |-> "within"] => req'[q].usable)
  BY <1>2, <1>5, IdleType, NotedOthers
<1>7. x \in Request /\ x.pc = "idle" /\ x.of = NoId
  BY <1>5, <1>6, IdleType DEF Alike
<1>8. served' \in [Ids -> SUBSET Things]
  <2>1. req[r].thing \in Things /\ served \in [Ids -> SUBSET Things]
    BY <1>2 DEF Request, TypeOK
  <2> QED
    BY <1>2, <1>3, <2>1
<1>9. TypeOK'
  BY <1>2, <1>4, <1>6, <1>8 DEF TypeOK
<1>10. customers'[c] # NoCustomer /\ customers'[c].code # NoCode
  BY <1>2, <1>3 DEF Exists
<1>11. \A d \in Ids : r \notin Changing(d) /\ r \notin Changing(d)'
  BY <1>2, <1>5, <1>7 DEF Changing
<1>12. \A q \in Requests \ {r} : req[q].pc = "CreateSave" => req[q].of # c
  BY <1>1, ReservedApart DEF IInv
<1>13. Noticed(x, customers'[x.of].status, IsUsable(licenses'[x.of]))
  BY <1>7 DEF Noticed
<1>14. \A q \in Requests \ {r} : Asks(q) /\ req[q].of = c =>
          /\ customers'[c].status = "ACTIVE" => customers[c].status = "ACTIVE" \/ req'[q].open
          /\ IsUsable(licenses'[c]) => IsUsable(licenses[c]) \/ req'[q].usable
  <2>1. IsUsable(licenses'[c]) => licenses'[c] = [status |-> "ACTIVE", window |-> "within"]
    BY <1>3, <1>4, UsableIs
  <2> SUFFICES ASSUME NEW q \in Requests \ {r}, req[q].of = c
               PROVE  IsUsable(licenses'[c]) => req'[q].usable
    BY <1>2
  <2>2. req'[q].of = c
    BY <1>6 DEF Others, Alike
  <2> QED
    BY <1>6, <2>1, <2>2
<1>15. ASSUME c \notin disturbed' PROVE Told(c)'
  <2>1. Told(c)
    BY <1>2, <1>3, <1>15 DEF IInv, AllTold
  <2> QED
    BY <1>2, <1>3, <1>6, <1>11, <2>1, ToldSame
<1>16. /\ disturbed \subseteq disturbed'
       /\ \A d \in Ids : customers'[d] = customers[d] /\ trail'[d] = trail[d]
  BY <1>2
<1> QED
  BY <1>3, <1>4, <1>5, <1>6, <1>7, <1>9, <1>10, <1>11, <1>12, <1>13, <1>14, <1>15, <1>16,
     WriteStep

LEMMA LicenseTurnsKeeps ==
  ASSUME ConstantsFit, IInv, NEW c \in Ids, NEW license \in License, LicenseTurns(c, license)
  PROVE  IInv'
<1>1. /\ licenses' = [licenses EXCEPT ![c] = license] /\ req' = Noted(req, c) /\ TypeOK
      /\ UNCHANGED <<customers, served, trail, count, disturbed>>
  BY DEF LicenseTurns, IInv
<1>2. /\ licenses' \in [Ids -> License] /\ licenses'[c] = license
      /\ \A d \in Ids \ {c} : licenses'[d] = licenses[d]
  BY <1>1 DEF TypeOK
<1>3. /\ \A q \in Requests : Alike(req'[q], req[q])
      /\ \A q \in Requests : req[q].of = c =>
           (licenses'[c] = [status |-> "ACTIVE", window |-> "within"] => req'[q].usable)
  BY <1>1, NotedIs DEF TypeOK
<1>4. req' \in [Requests -> Request]
  <2>1. req \in [Requests -> Request]
    BY <1>1 DEF TypeOK
  <2>2. Noted(req, c) \in [Requests -> Request]
    BY <2>1, NotedIs, Zenon
  <2> QED
    BY <1>1, <2>2
<1>5. TypeOK'
  BY <1>1, <1>2, <1>4 DEF TypeOK
<1>6. Reserved'
  BY <1>1, <1>3 DEF IInv, Reserved, Alike, Exists
<1>7. WholeRows'
  BY <1>1 DEF IInv, WholeRows, Exists
<1>8. AllTold'
  <2> SUFFICES ASSUME NEW d \in Ids \ disturbed, customers[d] # NoCustomer
               PROVE  Told(d)'
    BY <1>1 DEF AllTold, Exists
  <2>1. Told(d)
    BY DEF IInv, AllTold, Exists
  <2>2. Changing(d)' = Changing(d)
    BY <1>3 DEF Changing, Alike
  <2>3. \A q \in Changing(d) : Due(req'[q], trail[d], customers[d].status)
    BY <1>3, <2>1 DEF Told, Due, Alike, Changing
  <2> QED
    BY <1>1, <2>1, <2>2, <2>3 DEF Told
<1>9. AllNoticed'
  <2> SUFFICES ASSUME NEW q \in Requests
               PROVE  Noticed(req'[q], customers'[req'[q].of].status,
                            IsUsable(licenses'[req'[q].of]))
    BY DEF AllNoticed, IsUsable
  <2>1. /\ Alike(req'[q], req[q])
        /\ Noticed(req[q], customers[req[q].of].status, IsUsable(licenses[req[q].of]))
    BY <1>3 DEF IInv, AllNoticed
  <2>2. req[q].pc # "idle" => req[q].of \in Ids
    BY DEF IInv, Reserved
  <2>3. CASE req[q].of = c
    <3>1. IsUsable(licenses'[c]) => req'[q].usable
      BY <1>2, <1>3, <2>3, UsableIs
    <3> QED
      BY <1>1, <2>1, <2>3, <3>1 DEF Alike, Noticed
  <2>4. CASE req[q].of # c
    BY <1>1, <1>2, <2>1, <2>2, <2>4 DEF Alike, Noticed
  <2> QED
    BY <2>3, <2>4
<1> QED
  BY <1>5, <1>6, <1>7, <1>8, <1>9 DEF IInv

-----------------------------------------------------------------------------
(* The theorems. *)

LEMMA InitIInv == ASSUME ConstantsFit, Init PROVE IInv
<1>1. /\ \A c \in Ids : customers[c] = NoCustomer /\ trail[c] = <<>>
      /\ \A r \in Requests : req[r] = Idle
  BY DEF Init
<1>2. TypeOK
  <2>1. [status |-> "none", window |-> "before"] \in License
    BY DEF License, Windows
  <2>2. <<>> \in Seq(Event)
    OBVIOUS
  <2>3. count \in 0..MaxRequests
    BY DEF Init, ConstantsFit
  <2> QED
    BY <2>1, <2>2, <2>3, IdleType, RowTypes DEF Init, TypeOK
<1>3. Reserved
  BY <1>1, IdleType DEF Reserved
<1>4. WholeRows /\ AllTold
  BY <1>1 DEF WholeRows, AllTold, Exists, NoCustomer
<1>5. AllNoticed
  BY <1>1, IdleType DEF AllNoticed, Noticed
<1> QED
  BY <1>2, <1>3, <1>4, <1>5 DEF IInv

LEMMA NextIInv == ASSUME ConstantsFit, IInv, [Next]_vars PROVE IInv'
<1>1. CASE UNCHANGED vars
  BY <1>1 DEF vars, IInv, TypeOK, Reserved, WholeRows, AllTold, AllNoticed, Told, Changing,
     Exists, IsUsable
<1> QED
  BY <1>1, CreateFindKeeps, ChangeReadKeeps, BeginKeeps, CreateSaveKeeps, ChangeSelectKeeps,
     ChangeUpdateKeeps, AuditKeeps, AskKeeps, ServeKeeps, CrashKeeps, LicenseTurnsKeeps
  DEF Next

LEMMA AlwaysIInv == ASSUME ConstantsFit PROVE Spec => []IInv
<1>1. Init => IInv
  BY InitIInv
<1>2. IInv /\ [Next]_vars => IInv'
  BY NextIInv
<1> QED
  BY <1>1, <1>2, PTL DEF Spec

\* Every variable keeps its type.
THEOREM TypeCorrect == ASSUME ConstantsFit PROVE Spec => []TypeOK
<1>1. IInv => TypeOK
  BY DEF IInv
<1> QED
  BY <1>1, AlwaysIInv, PTL

\* The audit trail of a Customer replays to its row, although each event is
\* inserted after the change has committed: as long as its changes do not
\* overlap and none is cut off before its event.
THEOREM TrailTells == ASSUME ConstantsFit PROVE Spec => []TrailReplays
<1>1. ASSUME IInv PROVE TrailReplays
  <2> SUFFICES ASSUME NEW c \in Ids, Exists(c), c \notin disturbed, NEW t, t = trail[c]
               PROVE  /\ Continuous(t)
                      /\ t # <<>> /\ Changing(c) = {} => t[Len(t)].to = customers[c].status
    BY DEF TrailReplays, Continuous
  <2>1. Told(c)
    BY <1>1 DEF IInv, AllTold
  <2> QED
    BY <2>1 DEF Told
<1> QED
  BY <1>1, AlwaysIInv, PTL

\* Whatever the readers answered, and however long ago, nothing is created for
\* a Customer that has not been ACTIVE, or under a License that has not been
\* usable, at some time while the request was under way.
THEOREM NothingIsCreatedForClosed == ASSUME ConstantsFit PROVE Spec => NothingForClosed
<1>1. IInv => \A r \in Requests : req[r].pc = "Serve"
                => req[r].open /\ (req[r].thing # "license" => req[r].usable)
  BY DEF IInv, AllNoticed, Noticed
<1>2. IInv /\ [Next]_vars =>
        \A r \in Requests : req[r].pc = "Serve" /\ (served' # served \/ licenses' # licenses)
                               /\ req'[r].pc = "idle"
           => req[r].open /\ (req[r].thing # "license" => req[r].usable)
  BY <1>1
<1> QED
  BY <1>2, AlwaysIInv, PTL DEF Spec, NothingForClosed

=============================================================================
