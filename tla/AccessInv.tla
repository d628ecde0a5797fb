-------------------------------- MODULE AccessInv --------------------------------
(***************************************************************************)
(* The inductive invariant of Access: what the theorems of AccessProofs    *)
(* rest on and what TLC can check beforehand.                              *)
(***************************************************************************)
EXTENDS Access

\* A handler uses a local only after it has set it, and the authorization guard
\* resolves permissions only for routes that require exactly one.
LocalsSet ==
  /\ \A b \in Tools : tool[b].pc # "idle" => tool[b].email \in Emails
  /\ \A r \in Requests : req[r].pc = "Resolve" =>
       \E code \in PermissionCodes : req[r].route.needs = {code}

\* The catalogue is that of the applied migrations: what CatalogueInStep says of
\* reverts and of the last release follows from it.
CatalogueApplied == \A part \in Parts : db[part] = AfterMigration[applied][part]

IInv == TypeOK /\ LocalsSet /\ CatalogueApplied /\ EveryAdminHasRole

=================================================================================
