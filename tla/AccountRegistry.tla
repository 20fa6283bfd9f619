-------------------------- MODULE AccountRegistry ---------------------------
(***************************************************************************)
(* What the user administration of the Verifier App promises about         *)
(* accounts, with nothing of sessions, requests and statements: the first  *)
(* account is a superadmin, a superadmin is for ever, all other accounts   *)
(* come after it, and an account that was removed does not come back.      *)
(***************************************************************************)
CONSTANT UserIds

VARIABLE account  \* account[i]: what is registered under id i

Kinds == {"none", "super", "plain", "removed"}

Init == account = [i \in UserIds |-> "none"]

Found(i) ==
    /\ account[i] = "none"
    /\ account' = [account EXCEPT ![i] = "super"]

Register(i) ==
    /\ account[i] = "none"
    /\ \E boss \in UserIds : account[boss] = "super"
    /\ account' = [account EXCEPT ![i] = "plain"]

Remove(i) ==
    /\ account[i] = "plain"
    /\ account' = [account EXCEPT ![i] = "removed"]

Next == \E i \in UserIds : Found(i) \/ Register(i) \/ Remove(i)

Spec == Init /\ [][Next]_account
=============================================================================
