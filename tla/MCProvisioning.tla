--------------------------- MODULE MCProvisioning ---------------------------
(***************************************************************************)
(* Provisioning on small instances.  The first License has room for one    *)
(* Installation and the second for two, so Licenses are no symmetry.       *)
(***************************************************************************)
EXTENDS ProvisioningInv

CONSTANTS small, large

Capacities == [l \in {small, large} |-> IF l = small THEN 1 ELSE 2]

=============================================================================
