----------------------------- MODULE MCJournal ------------------------------
(***************************************************************************)
(* An instance of Journal for TLC: three requests of one user, so that one *)
(* can lose the compare-and-swap twice.                                    *)
(***************************************************************************)
EXTENDS Journal

CONSTANTS alice, bob, r1, r2, r3, i1

MCUsers == {alice, bob}

\* The requests compete for the head of one user; the other stays without an
\* entry, as the auditor may find it.
MCRequests == {r1, r2, r3}
MCOwner == [r \in MCRequests |-> alice]

OneInstance == {i1}
AllOnOne == [r \in MCRequests |-> i1]
NoSkew == [i \in {i1} |-> 0]
=============================================================================
