------------------------ MODULE AdminSessionContract ------------------------
(***************************************************************************)
(* What the refresh sessions promise: each token is opened once, by a      *)
(* login or in exchange for another live token of the same administrator,  *)
(* which dies at that moment; and a token that has died stays dead.  Any   *)
(* number of one administrator's tokens may be ended together.             *)
(***************************************************************************)
CONSTANTS Tokens, Users, NoUser, NoToken

VARIABLES live,   \* the tokens that can still be exchanged
          owner,  \* whose token it is, NoUser before it is opened
          from    \* the token it was handed out for, if not for a password

cvars == <<live, owner, from>>

Init == /\ live = {}
        /\ owner = [t \in Tokens |-> NoUser]
        /\ from = [t \in Tokens |-> NoToken]

Open(t, u) == /\ owner[t] = NoUser
              /\ live' = live \cup {t}
              /\ owner' = [owner EXCEPT ![t] = u]
              /\ UNCHANGED from

Exchange(t, new) == /\ t \in live /\ owner[new] = NoUser
                    /\ live' = (live \ {t}) \cup {new}
                    /\ owner' = [owner EXCEPT ![new] = owner[t]]
                    /\ from' = [from EXCEPT ![new] = t]

End(u) == /\ live' \in SUBSET live
          /\ \A t \in live \ live' : owner[t] = u
          /\ UNCHANGED <<owner, from>>

Next == \/ \E t \in Tokens, u \in Users : Open(t, u)
        \/ \E t, new \in Tokens : Exchange(t, new)
        \/ \E u \in Users : End(u)

Spec == Init /\ [][Next]_cvars

=============================================================================
