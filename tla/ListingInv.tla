-------------------------------- MODULE ListingInv --------------------------------
(***************************************************************************)
(* The inductive invariant of Listing: what the theorems about it rest on  *)
(* and what TLC can check beforehand.                                      *)
(***************************************************************************)
EXTENDS Listing

\* The order of a list, where it is one: y is shown before x.
Before(y, x) == \/ table[y].created > table[x].created
                \/ list = "audit" /\ table[y].created = table[x].created /\ y > x

Ordered == list = "audit" \/ ~Ties

\* How many rows are shown before x.
Rank(x) == Cardinality({y \in Matching : Before(y, x)})

\* Where the walk stands: the page it has read last, the rows up to the end of
\* that page, and the rows of its start it has not shown.
PageRead == walk.pc \in {"Summaries", "Turn", "done"} \/ (walk.pc = "Count" /\ ~CountsFirst)
TotalKnown == walk.pc \in {"Summaries", "Turn", "done"} \/ (walk.pc = "Page" /\ CountsFirst)
Reached == (IF PageRead THEN walk.page ELSE walk.page - 1) * walk.size
Missing == walk.start \ ToSet(walk.seen)

\* Between a page and its total (all lists but that of Installations).
Counting == walk.pc = "Count" /\ ~CountsFirst

OwnersKnown == \A x \in Rows : table[x].owner \in owners \cup {NoOwner}

\* A page lies within the table, and only the last one ends a walk.
Bounded ==
  /\ Counting =>
       /\ Len(walk.items) <= walk.size
       /\ walk.items # <<>> =>
            (walk.page - 1) * walk.size + Len(walk.items) <= Cardinality(Rows)
  /\ walk.pc = "done" => walk.page >= TotalPages(walk.total, walk.size)

\* What is still to be shown lies behind what was read, and keeps the walk going.
NothingSkipped ==
  /\ walk.start \subseteq Matching
  /\ \A x \in Missing : Rank(x) >= Reached
  /\ Counting /\ Missing # {} => Len(walk.items) = walk.size
  /\ ~walk.slipped =>
       /\ walk.pc = "Page" /\ CountsFirst => walk.total = Cardinality(Matching)
       /\ walk.pc \in {"Summaries", "Turn", "done"} /\ Missing # {} =>
            walk.total > walk.page * walk.size

\* While nothing comes, the pages shown are the list up to where the walk stands.
NothingTwice ==
  /\ Matching = walk.start
  /\ ToSet(walk.seen) = {x \in walk.start : Rank(x) < Reached}
  /\ Len(walk.seen) = IF Reached < Cardinality(walk.start) THEN Reached
                                                         ELSE Cardinality(walk.start)
  /\ TotalKnown => walk.total = Cardinality(walk.start)
  /\ Counting /\ walk.items # <<>> /\ Len(walk.items) < walk.size =>
       (walk.page - 1) * walk.size + Len(walk.items) = Cardinality(walk.start)

IInv == /\ TypeOK
        /\ OwnersKnown
        /\ walk.pc # "failed"
        /\ Bounded
        /\ walk.pc # "idle" /\ ~walk.left /\ Ordered => NothingSkipped
        /\ walk.pc # "idle" /\ ~walk.left /\ ~walk.came /\ Ordered => NothingTwice

====================================================================================
