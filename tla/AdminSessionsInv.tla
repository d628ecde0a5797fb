-------------------------- MODULE AdminSessionsInv --------------------------
(***************************************************************************)
(* What holds of AdminSessions between the steps of a handler: the facts   *)
(* that make its safety properties inductive.                              *)
(***************************************************************************)
EXTENDS AdminSessions

\* A row that was never inserted is blank.
BlankRows == \A s \in Sessions : ~Exists(s) => sessions[s] = UnusedSession

\* What request r may rely on: its session exists; the one it is about to
\* rotate is locked and still active; a mass revocation started from a genuine
\* replay and reaches the sessions of one administrator, and what it has
\* visited is locked or has ended already.
Relies(r) ==
  LET x == req[r] IN
  /\ x.pc # "idle" => x.session \in Sessions /\ Exists(x.session)
  /\ x.pc = "RefreshCommit" => lock[x.session] = r /\ Active(x.session)
  /\ x.pc \in {"RevokeAllScan", "RevokeAllLock"}
       => x.genuine /\ sessions[x.session].revoked
  /\ x.pc = "RevokeAllLock"
       => /\ x.todo \subseteq x.seen
          /\ \A s \in x.seen :
               /\ Exists(s) /\ sessions[s].user = sessions[x.session].user
               /\ s \in x.todo \/ lock[s] = r \/ ~Active(s)

\* A request holds the row of its session from the read FOR UPDATE to the end
\* of its transaction, and in a mass revocation some of the rows it saw.
HeldWithin(r) ==
  \A s \in Sessions : lock[s] = r
    => \/ req[r].pc \in {"RefreshCommit", "RevokeAllScan", "RevokeAllLock"}
          /\ s = req[r].session
       \/ req[r].pc = "RevokeAllLock" /\ s \in req[r].seen

AllSound == \A r \in Requests : Relies(r) /\ HeldWithin(r)

IInv == TypeOK /\ BlankRows /\ OneLiveToken /\ AllSound

=============================================================================
