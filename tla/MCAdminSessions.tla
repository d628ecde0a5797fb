-------------------------- MODULE MCAdminSessions --------------------------
(***************************************************************************)
(* AdminSessions on small instances.  Requests and administrators are      *)
(* interchangeable; sessions are not, their rows lie in an order.          *)
(***************************************************************************)
EXTENDS AdminSessionsInv, TLC

Symmetry == Permutations(Requests) \cup Permutations(Users)

=============================================================================
