------------------------- MODULE EnrollmentContract -------------------------
(***************************************************************************)
(* What enrollment promises of each Installation, with no request, lock or *)
(* row in sight: there is at most one code on offer and at most one        *)
(* credential that works.  A newer offer takes the place of the older one, *)
(* a code is exchanged once and at that moment the new credential takes    *)
(* the place of the old one, and neither a code nor a credential that has  *)
(* been replaced, spent or withdrawn is ever good again.                   *)
(***************************************************************************)
CONSTANTS Installations, Codes, Credentials, NoCode, NoCredential

VARIABLES offered,   \* the code on offer for each Installation, or NoCode
          working,   \* its working credential, or NoCredential
          given,     \* the codes ever put on offer
          handed     \* the credentials ever handed out

cvars == <<offered, working, given, handed>>

Init == /\ offered = [i \in Installations |-> NoCode]
        /\ working = [i \in Installations |-> NoCredential]
        /\ given = {}
        /\ handed = {}

Offer(i, c) == /\ c \notin given
               /\ offered' = [offered EXCEPT ![i] = c]
               /\ given' = given \cup {c}
               /\ UNCHANGED <<working, handed>>

Exchange(i, k) == /\ offered[i] # NoCode
                  /\ k \notin handed
                  /\ offered' = [offered EXCEPT ![i] = NoCode]
                  /\ working' = [working EXCEPT ![i] = k]
                  /\ handed' = handed \cup {k}
                  /\ UNCHANGED given

Withdraw(i) == /\ working[i] # NoCredential
               /\ working' = [working EXCEPT ![i] = NoCredential]
               /\ UNCHANGED <<offered, given, handed>>

Next == \E i \in Installations :
          \/ \E c \in Codes : Offer(i, c)
          \/ \E k \in Credentials : Exchange(i, k)
          \/ Withdraw(i)

Spec == Init /\ [][Next]_cvars

=============================================================================
