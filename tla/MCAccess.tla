-------------------------------- MODULE MCAccess --------------------------------
(***************************************************************************)
(* Model checking of the two parts that decide who gets into the           *)
(* administrative API: the lockout of logins (LoginLockout) and the roles, *)
(* guards and migrations (Access).  They share no table that both write;   *)
(* "scene" says which of them a behaviour is about, so that their states   *)
(* add up instead of multiplying.                                          *)
(***************************************************************************)
EXTENDS LoginLockout, TLC

CONSTANTS Emails, Tools, Callers, NoEmail

VARIABLES db, applied, tool, accessReq, ever, interrupted,   \* of Access
          scene

\* With the theorems about it, for those about the composition.
A == INSTANCE AccessProofs WITH req <- accessReq, Requests <- Callers

accessVars == <<db, applied, tool, accessReq, ever, interrupted>>

mcvars == <<vars, accessVars, scene>>

ASSUME NoEmailAssumption == NoEmail \notin Emails

Symmetry == Permutations(Emails) \cup Permutations(Tools)

-----------------------------------------------------------------------------

LoginScene == scene = "login" /\ UNCHANGED <<accessVars, scene>>
AccessScene == scene = "access" /\ UNCHANGED <<vars, scene>>

MCInit == Init /\ A!Init /\ scene \in {"login", "access"} /\ (scene = "login" => applied = 0)

LoginNext ==
  \/ \E r \in Requests : \/ \E a \in Admins : LoginScene /\ LoginRead(r, a)
                         \/ \E valid \in BOOLEAN : LoginScene /\ LoginVerify(r, valid)
                         \/ LoginScene /\ LoginSelect(r)
                         \/ LoginScene /\ LoginUpdate(r)
                         \/ LoginScene /\ LoginSession(r)
                         \/ LoginScene /\ Crash(r)
  \/ LoginScene /\ Tick

AccessNext ==
  \/ \E b \in Tools : \/ \E e \in Emails : AccessScene /\ A!BootstrapCheck(b, e)
                      \/ AccessScene /\ A!BootstrapSave(b)
                      \/ AccessScene /\ A!BootstrapAssign(b)
                      \/ AccessScene /\ A!ToolCrash(b)
  \/ \E r \in Callers :
       \/ \E route \in A!Routes, e \in Emails : AccessScene /\ A!RequestToken(r, route, e)
       \/ AccessScene /\ A!RequestResolve(r)
       \/ AccessScene /\ A!RequestAnswer(r)
  \/ AccessScene /\ A!MigrationRun
  \/ AccessScene /\ A!MigrationRevert
  \/ \E e \in Emails : AccessScene /\ A!Suspend(e)

MCSpec == MCInit /\ [][LoginNext \/ AccessNext]_mcvars

-----------------------------------------------------------------------------
(* The properties of Access, under names of this module. *)

\* The types of both parts.
TypesOK == TypeOK /\ A!TypeOK

\* The catalogue in the database is that of the applied migrations (Access).
CatalogueInStep == A!CatalogueInStep

\* Bootstrap and backfill leave no administrator without a role (Access).
EveryAdminHasRole == A!EveryAdminHasRole

\* Roles alone decide what gets past the authorization guard (Access).
RolesDecide == A!RolesDecide

=============================================================================
