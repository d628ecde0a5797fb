------------------------------ MODULE ConnectionPool ------------------------------
(***************************************************************************)
(* The connections of one API process and the row locks waited for on them.*)
(* Every query and every transaction takes a connection from the pool of   *)
(* the DataSource, which data-source-options.ts gives neither a size nor a *)
(* timeout.  A transaction on an Installation (an issuance, the save of a  *)
(* status change) then waits for its row lock with the connection in hand. *)
(* Enrollment alone takes a second connection while it holds the first and *)
(* the lock: inside its transaction it asks the readers of Customers and   *)
(* Licenses, which query through the pool.                                 *)
(***************************************************************************)
EXTENDS Naturals, Sequences, FiniteSets

CONSTANTS Requests,        \* HTTP requests the API can serve at one time
          Installations,
          PoolSize,        \* connections of the pool
          NoOne

ConstantsFit == /\ IsFiniteSet(Requests) /\ NoOne \notin Requests
                /\ Installations # {}
                /\ PoolSize \in Nat \ {0}

VARIABLES req,      \* what each request is doing
          held,     \* connections each request holds
          queue,    \* requests that wait for a connection, first come first served
          lock      \* the request that holds the row lock of an Installation

vars == <<req, held, queue, lock>>

-----------------------------------------------------------------------------

Kinds == {"query", "locking", "enrollment"}

Request == [pc : {"idle", "connect", "lock", "work", "connectReader", "ask"},
            kind : Kinds, on : Installations,
            asks : 0..2]    \* readers still to be asked: Customer, then License

Idle == [pc |-> "idle", kind |-> "query", on |-> CHOOSE i \in Installations : TRUE, asks |-> 0]

Becomes(r, x) == req' = [req EXCEPT ![r] = x]

HoldAtLeast(n) == Cardinality({r \in Requests : held[r] >= n})
Used == HoldAtLeast(1) + HoldAtLeast(2)

Arrive(r, kind, i) ==
  /\ req[r].pc = "idle"
  /\ Becomes(r, [pc |-> "connect", kind |-> kind, on |-> i,
                 asks |-> IF kind = "enrollment" THEN 2 ELSE 0])
  /\ queue' = Append(queue, r)
  /\ UNCHANGED <<held, lock>>

\* The pool serves its queue in order.
Grant ==
  /\ queue # <<>> /\ Used < PoolSize
  /\ LET r == Head(queue)
     IN /\ held' = [held EXCEPT ![r] = @ + 1]
        /\ Becomes(r, [req[r] EXCEPT !.pc = CASE @ = "connectReader"     -> "ask"
                                              [] req[r].kind = "query"   -> "work"
                                              [] OTHER                   -> "lock"])
  /\ queue' = Tail(queue)
  /\ UNCHANGED lock

\* findInstallationForUpdate, or the UPDATE of a save.
TakeLock(r) ==
  /\ req[r].pc = "lock" /\ lock[req[r].on] = NoOne
  /\ lock' = [lock EXCEPT ![req[r].on] = r]
  /\ Becomes(r, [req[r] EXCEPT !.pc = "work"])
  /\ UNCHANGED <<held, queue>>

\* findCustomerSummary and findLicenseSummary, within the transaction.
AskReader(r) ==
  /\ req[r].pc = "work" /\ req[r].asks > 0
  /\ Becomes(r, [req[r] EXCEPT !.pc = "connectReader"])
  /\ queue' = Append(queue, r)
  /\ UNCHANGED <<held, lock>>

ReaderAnswers(r) ==
  /\ req[r].pc = "ask"
  /\ held' = [held EXCEPT ![r] = 1]
  /\ Becomes(r, [req[r] EXCEPT !.pc = "work", !.asks = @ - 1])
  /\ UNCHANGED <<queue, lock>>

\* Commit and rollback release the lock, and the connection after it.
Leaves(r) ==
  /\ Becomes(r, Idle)
  /\ lock' = [i \in Installations |-> IF lock[i] = r THEN NoOne ELSE lock[i]]
  /\ UNCHANGED queue

\* The query is answered, or the transaction commits.
Complete(r) ==
  /\ req[r].pc = "work" /\ req[r].asks = 0
  /\ Leaves(r)
  /\ held' = [held EXCEPT ![r] = 0]

Refuse_Leaks(r) ==
  /\ req[r].pc \in {"work", "ask"}
  /\ Leaves(r)
  /\ held' = [held EXCEPT ![r] = IF req[r].kind = "enrollment" THEN 1 ELSE 0]

\* The callback throws, or the connection breaks: DataSource.transaction rolls
\* back and gives the connection back either way.
Refuse(r) ==
  /\ req[r].pc \in {"work", "ask"}
  /\ Leaves(r)
  /\ held' = [held EXCEPT ![r] = 0]

Init == /\ req = [r \in Requests |-> Idle]
        /\ held = [r \in Requests |-> 0]
        /\ queue = <<>>
        /\ lock = [i \in Installations |-> NoOne]

Next == \/ \E r \in Requests :
             \/ \E kind \in Kinds, i \in Installations : Arrive(r, kind, i)
             \/ TakeLock(r) \/ AskReader(r) \/ ReaderAnswers(r)
             \/ Complete(r) \/ Refuse(r)
        \/ Grant

Spec == Init /\ [][Next]_vars

-----------------------------------------------------------------------------
(* Properties. *)

TypeOK == /\ req \in [Requests -> Request]
          /\ held \in [Requests -> 0..2]
          /\ queue \in Seq(Requests)
          /\ lock \in [Installations -> Requests \cup {NoOne}]
          /\ Used <= PoolSize

\* Somebody waits, and nobody who could let him go on can move.
Stalled ==
  /\ \E r \in Requests : req[r].pc # "idle"
  /\ queue # <<>> => Used = PoolSize
  /\ \A r \in Requests : /\ req[r].pc \notin {"work", "ask"}
                         /\ req[r].pc = "lock" => lock[req[r].on] # NoOne

\* All requests wait for ever only if as many transactions on Installations are
\* under way as the pool has connections, and one of them is an enrollment that
\* holds its row lock and waits for the connection of a reader.  One enrollment
\* is enough if the other connections are held by those who wait for its lock.
StallTakesAll ==
  Stalled =>
    /\ Cardinality({r \in Requests : held[r] > 0 /\ req[r].kind # "query"}) = PoolSize
    /\ \E r \in Requests : /\ req[r].pc = "connectReader"
                           /\ held[r] = 1 /\ lock[req[r].on] = r

=============================================================================
