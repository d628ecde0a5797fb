----------------------------- MODULE ConnectionPoolInv -----------------------------
(***************************************************************************)
(* The inductive invariant of ConnectionPool: what the theorems about it   *)
(* rest on and what TLC can check beforehand.                              *)
(***************************************************************************)
EXTENDS ConnectionPool

Queueing == {"connect", "connectReader"}
Locking  == {"work", "connectReader", "ask"}

\* How many connections a request holds where it stands.
Connections(pc) == IF pc \in {"idle", "connect"} THEN 0 ELSE IF pc = "ask" THEN 2 ELSE 1

Counted == \A r \in Requests : held[r] = Connections(req[r].pc)

\* Who waits for a connection is in the queue, and nobody is in it twice.
Queued ==
  /\ \A n \in 1..Len(queue) : req[queue[n]].pc \in Queueing
  /\ \A r \in Requests : req[r].pc \in Queueing => \E n \in 1..Len(queue) : queue[n] = r
  /\ \A m, n \in 1..Len(queue) : queue[m] = queue[n] => m = n

\* Only an enrollment asks readers, and only a transaction waits for a lock.
Roles(x) == /\ x.asks > 0 => x.kind = "enrollment"
            /\ x.pc \in {"connectReader", "ask"} => x.asks > 0
            /\ x.pc = "lock" => x.kind # "query"

\* A lock is held by whom works under it, and a transaction that works holds it.
Locked ==
  /\ \A i \in Installations : lock[i] # NoOne =>
       req[lock[i]].on = i /\ req[lock[i]].pc \in Locking
  /\ \A r \in Requests : req[r].kind # "query" /\ req[r].pc \in Locking =>
       lock[req[r].on] = r

IInv == /\ TypeOK
        /\ Counted
        /\ Queued
        /\ \A r \in Requests : Roles(req[r])
        /\ Locked

====================================================================================
