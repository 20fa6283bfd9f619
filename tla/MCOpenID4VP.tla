---------------------------- MODULE MCOpenID4VP -----------------------------
(***************************************************************************)
(* Instances of OpenID4VP for TLC.                                         *)
(***************************************************************************)
EXTENDS OpenID4VP, TLC

CONSTANTS n1, n2, t1, t2, w1, w2

MCNonces == {n1, n2}
MCIds == {t1, t2}
MCWorkers == {w1, w2}

\* Nothing tells one id or one worker from the other.
Interchangeable == Permutations(MCIds) \cup Permutations(MCWorkers)

Mdoc == [format |-> "mdoc", nonce |-> {n1}, genuine |-> TRUE]
SdJwt == [format |-> "sdjwt", nonce |-> {n1}, genuine |-> TRUE]
Json == [format |-> "json", nonce |-> {n1}, genuine |-> FALSE]

OneNonce == {n1}
MdocAndJson == {Mdoc, Json}
OneSdJwt == {SdJwt}

MCCalls == [fetch |-> 1, poll |-> 1, post |-> 1, refuse |-> 1, verify |-> 2,
            restart |-> 0]

MemoryCalls == [MCCalls EXCEPT !.refuse = 0, !.restart = 1]
=============================================================================
