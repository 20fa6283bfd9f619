------------------------------ MODULE AuditLog ------------------------------
(***************************************************************************)
(* What the verification journal promises, with nothing of how it keeps    *)
(* the promise: every user has a list of recorded verifications that only  *)
(* grows at its end, and a verification event is recorded at most once.    *)
(* The journal of the server (module Journal) implements this.             *)
(***************************************************************************)
EXTENDS Sequences

CONSTANTS Users,      \* authenticated usernames, one journal each
          Requests    \* verification events (calls of append_verification)

VARIABLE log          \* log[u]: the events of user u, oldest first

Init == log = [u \in Users |-> << >>]

Recorded(r) == \E u \in Users : \E i \in DOMAIN log[u] : log[u][i] = r

Record(u, r) ==
    /\ ~ Recorded(r)
    /\ log' = [log EXCEPT ![u] = Append(@, r)]

Next == \E u \in Users, r \in Requests : Record(u, r)

Spec == Init /\ [][Next]_log
=============================================================================
