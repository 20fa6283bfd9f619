------------------------ MODULE TransactionLifecycle ------------------------
(***************************************************************************)
(* What the OpenID4VP service promises about a transaction, whatever the   *)
(* store does in between: it is created once; one call may consume it and  *)
(* may then grant one attestation for it; a transaction that is no longer  *)
(* open never opens again.                                                 *)
(***************************************************************************)
CONSTANT Ids

VARIABLE phase  \* phase[i]: where transaction i is in its life

Phases == {"unborn", "open", "consumed", "granted", "closed"}

Init == phase = [i \in Ids |-> "unborn"]

Move(S, from, to) ==
    /\ S # {}
    /\ \A i \in S : phase[i] \in from
    /\ phase' = [i \in Ids |-> IF i \in S THEN to ELSE phase[i]]

Create(i) == Move({i}, {"unborn"}, "open")
Consume(i) == Move({i}, {"open"}, "consumed")
Grant(i) == Move({i}, {"consumed"}, "granted")

\* Open transactions expire or are lost with the process, consumed ones are
\* given up by the call that consumed them, or lost with it.
Close(S) == Move(S, {"open", "consumed"}, "closed")

Next == \/ \E i \in Ids : Create(i) \/ Consume(i) \/ Grant(i)
        \/ \E S \in SUBSET Ids : Close(S)

Spec == Init /\ [][Next]_phase
=============================================================================
