------------------------ MODULE ProvisioningContract ------------------------
(***************************************************************************)
(* What the creation of Installations promises of each License: a seat is  *)
(* taken while there is one, under a code nobody has; a seat given back is *)
(* never claimed again by the same Installation; and the audit trail names *)
(* only Installations that came to be.                                     *)
(***************************************************************************)
EXTENDS Naturals, FiniteSets

CONSTANTS Licenses, Ids, InstallationCodes, MaxInstallations, NoCode

VARIABLES seated,    \* the Installations that count against each License
          code,      \* the code of each Installation, NoCode before it exists
          recorded   \* the Installations recorded as created

cvars == <<seated, code, recorded>>

Init == /\ seated = [l \in Licenses |-> {}]
        /\ code = [i \in Ids |-> NoCode]
        /\ recorded = {}

Seat(l, i, c) == /\ code[i] = NoCode /\ \A j \in Ids : code[j] # c
                 /\ Cardinality(seated[l]) < MaxInstallations[l]
                 /\ seated' = [seated EXCEPT ![l] = @ \cup {i}]
                 /\ code' = [code EXCEPT ![i] = c]
                 /\ UNCHANGED recorded

Leave(l, i) == /\ i \in seated[l]
               /\ seated' = [seated EXCEPT ![l] = @ \ {i}]
               /\ UNCHANGED <<code, recorded>>

Record(i) == /\ code[i] # NoCode
             /\ recorded' = recorded \cup {i}
             /\ UNCHANGED <<seated, code>>

Next == \E i \in Ids :
          \/ \E l \in Licenses :
               \/ \E c \in InstallationCodes : Seat(l, i, c)
               \/ Leave(l, i)
          \/ Record(i)

Spec == Init /\ [][Next]_cvars

=============================================================================
