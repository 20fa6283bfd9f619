--------------------------- MODULE MCVerifierPage ---------------------------
(* Instances of VerifierPage for TLC. *)
EXTENDS VerifierPage

CONSTANTS u1, u2

MCUsers == {u1, u2}
MCTypes == {"proof-of-age", "mdl"}
NoTypes == {}
MCOperators == {[role |-> "admin", types |-> {}],
                [role |-> "verifier", types |-> {"mdl"}]}

=============================================================================
