-------------------------------- MODULE Listing --------------------------------
(***************************************************************************)
(* The paginated lists of the administrative API: Customers, Licenses,     *)
(* Installations and audit events.  A page is cut by OFFSET and LIMIT out  *)
(* of an order by creation, newest first; the total comes of a query of    *)
(* its own; and the names of related Customers and Licenses of a third.    *)
(* Between these, and between one page and the next, rows are inserted and *)
(* enter or leave the filter.                                              *)
(*                                                                         *)
(*   ListCustomersUseCase, ...    ListCustomers, ListLicenses,             *)
(*                                ListInstallations, ListAuditEvents       *)
(*   list() of the repositories   Count, Page                              *)
(*   getRelationSummaries         Summaries                                *)
(*                                                                         *)
(* A client that walks through all pages of a list drives it: Turn.        *)
(***************************************************************************)
EXTENDS Naturals, SequencesExt

CONSTANTS Rows,             \* ids, numbers: what a tie is broken by, if at all
          Owners,           \* Customers and Licenses that rows refer to
          MinPageSize, DefaultPageSize, MaxPageSize,   \* 1, 25 and 100
          Asked,            \* the page sizes the use cases are asked for; 0 is none
          MaxTime,          \* bound: the clock stops here
          NoOwner

ConstantsFit == /\ Rows \subseteq Nat /\ IsFiniteSet(Rows)
                /\ MinPageSize \in Nat \ {0}
                /\ MaxPageSize \in Nat
                /\ DefaultPageSize \in MinPageSize..MaxPageSize
                /\ Asked \subseteq Nat
                /\ MaxTime \in Nat \ {0}

VARIABLES list,     \* which of the lists it is
          table,    \* its table
          owners,   \* the Customers and Licenses that exist
          now,      \* the clock
          walk      \* the client and the request it is in

vars == <<list, table, owners, now, walk>>

-----------------------------------------------------------------------------
(* Rows, and the walk through their pages. *)

Lists == {"customers", "licenses", "installations", "audit"}

\* What a list can be filtered by, and which of it changes once a row exists.
CustomerFilters     == {"status", "search"}
LicenseFilters      == {"customerId", "status", "edition", "search"}
InstallationFilters == {"customerId", "licenseId", "platform", "status", "search"}
AuditFilters        == {"actorType", "actorId", "action", "resourceType", "resourceId",
                        "correlationId", "from", "to"}
Changes             == {"status"}

Filters == CASE list = "customers"     -> CustomerFilters
             [] list = "licenses"      -> LicenseFilters
             [] list = "installations" -> InstallationFilters
             [] list = "audit"         -> AuditFilters

\* The lists whose rows are shown with the names of what they refer to: a
\* License with its Customer, an Installation with both.
Related == {"licenses", "installations"}

\* created is created_at or occurred_at, taken from the clock before the row is
\* inserted; 0 is a row that does not exist.
Row == [created : 0..MaxTime, matches : BOOLEAN, owner : Owners \cup {NoOwner}]

NoRow == [created |-> 0, matches |-> FALSE, owner |-> NoOwner]

Matching == {x \in Rows : table[x].created > 0 /\ table[x].matches}

\* normalizePagination, for the size of a page.
PageSize_Unbounded(asked) == IF asked = 0 THEN DefaultPageSize ELSE asked

PageSize(asked) ==
  IF asked = 0 THEN DefaultPageSize
  ELSE IF asked < MinPageSize THEN MinPageSize
  ELSE IF asked > MaxPageSize THEN MaxPageSize ELSE asked

Walker == [pc : {"idle", "Count", "Page", "Summaries", "Turn", "done", "failed"},
           page : 1..(Cardinality(Rows) + 1),
           size : MinPageSize..MaxPageSize,
           total : 0..Cardinality(Rows),
           items : Seq(Rows),       \* the page just read
           seen : Seq(Rows),        \* the pages of this walk, one after the other
           start : SUBSET Rows,     \* history: what matched when it began
           left : BOOLEAN,          \* history: a row has left the filter since
           came : BOOLEAN,          \* history: a row has come into the list since
           slipped : BOOLEAN]       \* history: one came between a total and its page

NoWalk == [pc |-> "idle", page |-> 1, size |-> MinPageSize, total |-> 0, items |-> <<>>,
           seen |-> <<>>, start |-> {}, left |-> FALSE, came |-> FALSE,
           slipped |-> FALSE]

-----------------------------------------------------------------------------
(* The queries. *)

\* ORDER BY created_at DESC, and for audit events id DESC: the orders in which
\* the database may return the rows.
Orders ==
  {s \in SetToSeqs(Matching) : \A m, n \in DOMAIN s :
     m < n => /\ table[s[m]].created >= table[s[n]].created
              /\ list = "audit" /\ table[s[m]].created = table[s[n]].created
                   => s[m] > s[n]}

\* OFFSET (page - 1) * pageSize LIMIT pageSize
Cut_OffByOne(s, page, size) ==
  SubSeq(s, page * size, IF page * size + size - 1 < Len(s) THEN page * size + size - 1 ELSE Len(s))

Cut(s, page, size) ==
  SubSeq(s, (page - 1) * size + 1, IF page * size < Len(s) THEN page * size ELSE Len(s))

\* buildPaginatedResult: totalPages is total / pageSize, rounded up.
TotalPages(total, size) == (total + size - 1) \div size

\* Installations are counted before their page is read, the others after it.
CountsFirst == list = "installations"

\* The query DTOs refuse a page size out of bounds, and the use cases clamp it.
Walk(asked) ==
  /\ walk.pc = "idle"
  /\ walk' = [NoWalk EXCEPT !.pc = IF CountsFirst THEN "Count" ELSE "Page",
                            !.size = PageSize(asked), !.start = Matching]
  /\ UNCHANGED <<list, table, owners, now>>

ListCustomers(asked)     == list = "customers"     /\ Walk(asked)
ListLicenses(asked)      == list = "licenses"      /\ Walk(asked)
ListInstallations(asked) == list = "installations" /\ Walk(asked)
ListAuditEvents(asked)   == list = "audit"         /\ Walk(asked)

\* getManyAndCount saves itself the second query where a page that is not full
\* tells the total.
Totals ==
  {Cardinality(Matching)} \cup
  (IF CountsFirst \/ walk.items = <<>> \/ Len(walk.items) = walk.size THEN {}
   ELSE {(walk.page - 1) * walk.size + Len(walk.items)})

Count ==
  /\ walk.pc = "Count"
  /\ \E total \in Totals :
       walk' = [walk EXCEPT !.pc = IF CountsFirst THEN "Page" ELSE "Summaries",
                            !.total = total]
  /\ UNCHANGED <<list, table, owners, now>>

Page ==
  /\ walk.pc = "Page"
  /\ \E s \in Orders :
       LET items == Cut(s, walk.page, walk.size)
       IN walk' = [walk EXCEPT !.pc = IF CountsFirst THEN "Summaries" ELSE "Count",
                               !.items = items, !.seen = @ \o items]
  /\ UNCHANGED <<list, table, owners, now>>

\* requireSummary throws if a row refers to what was not found: 500.
Summaries ==
  LET found == \A n \in DOMAIN walk.items :
                 table[walk.items[n]].owner \in owners \cup {NoOwner}
  IN /\ walk.pc = "Summaries"
     /\ walk' = [walk EXCEPT !.pc = IF found THEN "Turn" ELSE "failed", !.items = <<>>]
     /\ UNCHANGED <<list, table, owners, now>>

\* The client asks for the next page until the last answer says there is none.
Turn ==
  /\ walk.pc = "Turn"
  /\ walk' = IF walk.page < TotalPages(walk.total, walk.size)
             THEN [walk EXCEPT !.pc = IF CountsFirst THEN "Count" ELSE "Page",
                               !.page = @ + 1]
             ELSE [walk EXCEPT !.pc = "done"]
  /\ UNCHANGED <<list, table, owners, now>>

-----------------------------------------------------------------------------
(* What happens meanwhile. *)

InsertOwner(o) ==
  /\ list \in Related /\ o \notin owners
  /\ owners' = owners \cup {o}
  /\ UNCHANGED <<list, table, now, walk>>

Noted(came, left) ==
  walk' = IF walk.pc = "idle" THEN walk
          ELSE [walk EXCEPT !.came = @ \/ came, !.left = @ \/ left,
                            !.slipped = @ \/ (came /\ CountsFirst /\ walk.pc = "Page")]

\* A row is inserted some time after its instant was read from the clock, and
\* only under an owner that exists.
Insert(x, created, matches, owner) ==
  /\ table[x] = NoRow
  /\ owner \in IF list \in Related THEN owners ELSE {NoOwner}
  /\ table' = [table EXCEPT ![x] = [created |-> created, matches |-> matches, owner |-> owner]]
  /\ Noted(matches, FALSE)
  /\ UNCHANGED <<list, owners, now>>

\* A status change moves a row into the filter or out of it; audit events never.
Refilter(x) ==
  /\ Filters \cap Changes # {} /\ table[x] # NoRow
  /\ table' = [table EXCEPT ![x].matches = ~@]
  /\ Noted(~table[x].matches, table[x].matches)
  /\ UNCHANGED <<list, owners, now>>

Tick == now < MaxTime /\ now' = now + 1 /\ UNCHANGED <<list, table, owners, walk>>

-----------------------------------------------------------------------------

Init == /\ list \in Lists
        /\ table = [x \in Rows |-> NoRow]
        /\ owners = {}
        /\ now = 1
        /\ walk = NoWalk

\* Bound: nothing more comes or goes once the walk is over, or once a row has
\* left during it, which is more than an offset can cope with.
Meanwhile ==
  /\ walk.pc \notin {"done", "failed"} /\ ~walk.left
  /\ \/ \E o \in Owners : InsertOwner(o)
     \/ \E x \in Rows, created \in 1..now, matches \in BOOLEAN,
           owner \in Owners \cup {NoOwner} : Insert(x, created, matches, owner)
     \/ \E x \in Rows : Refilter(x)
     \/ Tick

Next == \/ \E asked \in Asked : \/ ListCustomers(asked) \/ ListLicenses(asked)
                               \/ ListInstallations(asked) \/ ListAuditEvents(asked)
        \/ Count \/ Page \/ Summaries \/ Turn
        \/ Meanwhile

Spec == Init /\ [][Next]_vars

-----------------------------------------------------------------------------
(* Properties. *)

TypeOK == /\ list \in Lists
          /\ table \in [Rows -> Row]
          /\ owners \in SUBSET Owners
          /\ now \in 1..MaxTime
          /\ walk \in Walker

Ties == \E x, y \in Rows : x # y /\ table[x].created > 0 /\ table[x].created = table[y].created

\* No list is answered with an internal error for a name that is not found; and
\* a walk through all pages shows every row that was in the list when it began,
\* unless one left the filter meanwhile; a list without a tie breaker needs all
\* instants to differ, and one that counts first needs that nothing comes
\* between a total and its page.  If nothing came or left, no row is shown
\* twice and the total is the number of rows shown.
WalkExact ==
  /\ walk.pc # "failed"
  /\ walk.pc = "done" /\ ~walk.left /\ (list = "audit" \/ ~Ties) =>
       /\ ~walk.slipped => walk.start \subseteq ToSet(walk.seen)
       /\ ~walk.came => /\ ToSet(walk.seen) = walk.start
                        /\ Len(walk.seen) = walk.total
                        /\ walk.total = Cardinality(walk.start)

=============================================================================
