------------------------- MODULE InstallationStatus -------------------------
(***************************************************************************)
(* The life of an Installation as an administrator may change it.  Nothing *)
(* here leads from PENDING to ACTIVE: only an enrollment does that.        *)
(***************************************************************************)

Statuses == {"PENDING", "ACTIVE", "SUSPENDED", "DECOMMISSIONED"}

\* Faulty variants, named <definition>_<fault>, stand before the definition
\* they vary: each shows that some property notices the fault.
AdminTransitions_PendingToActive ==
  {<<"PENDING", "ACTIVE">>, <<"PENDING", "DECOMMISSIONED">>,
   <<"ACTIVE", "SUSPENDED">>, <<"ACTIVE", "DECOMMISSIONED">>,
   <<"SUSPENDED", "ACTIVE">>, <<"SUSPENDED", "DECOMMISSIONED">>}

AdminTransitions_PendingToSuspended ==
  {<<"PENDING", "SUSPENDED">>, <<"PENDING", "DECOMMISSIONED">>,
   <<"ACTIVE", "SUSPENDED">>, <<"ACTIVE", "DECOMMISSIONED">>,
   <<"SUSPENDED", "ACTIVE">>, <<"SUSPENDED", "DECOMMISSIONED">>}

\* isInstallationAdminTransitionAllowed, as a set of pairs from, to.
AdminTransitions ==
  {<<"PENDING", "DECOMMISSIONED">>, <<"ACTIVE", "SUSPENDED">>,
   <<"ACTIVE", "DECOMMISSIONED">>, <<"SUSPENDED", "ACTIVE">>,
   <<"SUSPENDED", "DECOMMISSIONED">>}

=============================================================================
