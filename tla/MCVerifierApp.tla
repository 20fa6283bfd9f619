--------------------------- MODULE MCVerifierApp ----------------------------
(***************************************************************************)
(* Instances of VerifierApp for TLC.                                       *)
(***************************************************************************)
EXTENDS VerifierApp, TLC

CONSTANTS u1, u2, e1, e2, w1, w2

MCUserIds == {u1, u2}
MCEmails == {e1, e2}
MCWorkers == {w1, w2}

Interchangeable ==
    Permutations(MCUserIds) \cup Permutations(MCEmails) \cup Permutations(MCWorkers)

NoChange == [role |-> {}, active |-> {}, password |-> {}]

Deactivate == [NoChange EXCEPT !.active = {FALSE}]
Promote == [NoChange EXCEPT !.role = {"admin"}]
MCChanges == {Deactivate, Promote}

MCCalls == [bootstrap |-> 2, login |-> 1, logout |-> 1, create |-> 1, update |-> 2,
            delete |-> 1, generate |-> 1, status |-> 1, restart |-> 1]
=============================================================================
