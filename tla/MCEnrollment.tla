---------------------------- MODULE MCEnrollment ----------------------------
(***************************************************************************)
(* Enrollment on small instances.  Requests, codes and credentials are     *)
(* interchangeable, so their permutations are symmetries of the safety     *)
(* runs; the liveness run uses none.                                       *)
(***************************************************************************)
EXTENDS EnrollmentInv, TLC

Symmetry == Permutations(Requests) \cup Permutations(Codes)
              \cup Permutations(Credentials)

=============================================================================
