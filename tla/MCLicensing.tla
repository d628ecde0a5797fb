----------------------------- MODULE MCLicensing -----------------------------
(***************************************************************************)
(* Licensing on small instances.  Requests, Licenses, their numbers, codes *)
(* and the names of sets are interchangeable.                              *)
(***************************************************************************)
EXTENDS Licensing, TLC

Symmetry == Permutations(Requests) \cup Permutations(Licenses) \cup Permutations(Puts)
              \cup Permutations(LicenseNumbers) \cup Permutations(Codes)

=============================================================================
