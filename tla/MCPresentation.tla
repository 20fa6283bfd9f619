--------------------------- MODULE MCPresentation ---------------------------
(***************************************************************************)
(* A small instance: two authorities of which one is trusted, two holder   *)
(* keys, an mDoc and an SD-JWT from each authority, with and without a     *)
(* portrait, the SD-JWTs with and without a holder key.                    *)
(***************************************************************************)
EXTENDS Presentation, TLC

CONSTANTS ca1, ca2, dev1, dev2, pid, av, name, s1, s2, rp1, rp2, smith

Photo == [name |-> Portrait, value |-> JP2]
Name  == [name |-> name, value |-> smith]

MCCatalogue ==
    {[format |-> "mdoc", authority |-> ca1, docType |-> pid, clear |-> {},
      hidden |-> {Photo}, device |-> dev1],
     [format |-> "mdoc", authority |-> ca2, docType |-> pid, clear |-> {},
      hidden |-> {Name}, device |-> dev1],
     [format |-> "sdjwt", authority |-> ca1, docType |-> av, clear |-> {Name},
      hidden |-> {Photo}, device |-> dev1],
     [format |-> "sdjwt", authority |-> ca2, docType |-> av, clear |-> {Name},
      hidden |-> {}, device |-> NONE]}

Symmetry == Permutations({s1, s2})
=============================================================================
