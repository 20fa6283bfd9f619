------------------------------- MODULE MCDcql -------------------------------
(***************************************************************************)
(* Dcql with one or two well-formed identifiers of each kind. The queries  *)
(* of relying parties combine the ways in which a list of claims, its      *)
(* claim_sets, and a list of credential queries can be right and wrong.    *)
(***************************************************************************)
EXTENDS Dcql

A == "a"
B == "b"
Built == "built"
Fallback == "fallback"
Age == "age_over_18"
Accented == "accented"
Empty == ""

MCAscii == {A, B, Built, Fallback, Age}
MCUnicode == {Accented}
MCMalformed == {Empty}

\* Selections: none, several, one that repeats a claim, one of each alphabet.
MCClaimLists == {<<>>, <<Age>>, <<Age, A>>, <<A, A>>, <<Accented>>, <<A, Empty>>}

ClaimOf(id) == [id |-> id, prefix |-> Config["mdl"].prefix, name |-> Age]

MCClaims ==
    {NONE, <<>>, <<ClaimOf(A)>>, <<ClaimOf(A), ClaimOf(B)>>,
     <<ClaimOf(A), ClaimOf(A)>>, <<ClaimOf(NONE), ClaimOf(NONE)>>,
     <<ClaimOf(A), ClaimOf(NONE)>>, <<ClaimOf(Accented)>>, <<ClaimOf(Empty)>>}

CredentialOf(id, claims, sets, authorities) ==
    [id |-> id, format |-> "mso_mdoc", type |-> Config["mdl"].type, foreign |-> FALSE,
     claims |-> claims, claimSets |-> sets, authorities |-> authorities]

Alone == {CredentialOf(A, claims, sets, "some") :
            claims \in MCClaims, sets \in {NONE, {}, {A}, {A, B}}}

Plain(id) == CredentialOf(id, <<ClaimOf(A)>>, {A}, "absent")

Foreign(c) == [c EXCEPT !.foreign = TRUE]

MCSupplied ==
    {[credentials |-> <<c>>, credentialSets |-> NONE] : c \in Alone}
    \cup {[credentials |-> <<Plain(A), c>>, credentialSets |-> NONE] :
            c \in {Plain(A), Plain(B), Foreign(Plain(B)), Foreign(Plain(A)), Plain(Accented), Plain(Empty),
                   CredentialOf(B, NONE, NONE, "empty"),
                   CredentialOf(B, <<>>, {A}, "absent")}}
    \cup {[credentials |-> <<Plain(A), Plain(B)>>, credentialSets |-> sets] :
            sets \in {{}, {{}}, {{A}}, {{A, B}, {B}}, {{A}, {Accented}}}}
    \cup {[credentials |-> <<>>, credentialSets |-> NONE]}
=============================================================================
