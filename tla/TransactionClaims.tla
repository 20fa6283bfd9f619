------------------------- MODULE TransactionClaims --------------------------
(***************************************************************************)
(* What the OpenID4VP service promises about a transaction over a store    *)
(* that reads and writes in separate statements.  A transaction that is    *)
(* created is one claim to an attestation: its row, and later the call     *)
(* that removed the row.  A claim is recorded, once, and what is recorded  *)
(* may be granted, once; either may be dropped before.  The only other     *)
(* claims come from a stale write that inserts a deleted row again, and    *)
(* they are counted.                                                       *)
(***************************************************************************)
EXTENDS Naturals

CONSTANT Ids

VARIABLES
    born,      \* the transactions that were created
    claims,    \* claims[i]: claims on i that are neither recorded nor dropped
    records,   \* records[i]: records of verifications of i
    cleared,   \* cleared[i]: recorded claims neither granted nor dropped
    granted,   \* granted[i]: attestations of success for i
    reopened   \* reopened[i]: how often i was opened again

Init ==
    /\ born = {}
    /\ claims = [i \in Ids |-> 0]
    /\ records = [i \in Ids |-> 0]
    /\ cleared = [i \in Ids |-> 0]
    /\ granted = [i \in Ids |-> 0]
    /\ reopened = [i \in Ids |-> 0]

Create(i) ==
    /\ i \notin born
    /\ born' = born \cup {i}
    /\ claims' = [claims EXCEPT ![i] = 1]
    /\ UNCHANGED <<records, cleared, granted, reopened>>

\* The claim is on record; the call that made it goes on, or fails now.
Record(i) ==
    /\ claims[i] > 0
    /\ claims' = [claims EXCEPT ![i] = @ - 1]
    /\ records' = [records EXCEPT ![i] = @ + 1]
    /\ cleared' \in {cleared, [cleared EXCEPT ![i] = @ + 1]}
    /\ UNCHANGED <<born, granted, reopened>>

Grant(i) ==
    /\ cleared[i] > 0
    /\ cleared' = [cleared EXCEPT ![i] = @ - 1]
    /\ granted' = [granted EXCEPT ![i] = @ + 1]
    /\ UNCHANGED <<born, claims, records, reopened>>

\* Where there is no journal the answer itself is the record.
Settle(i) ==
    /\ claims[i] > 0
    /\ claims' = [claims EXCEPT ![i] = @ - 1]
    /\ records' = [records EXCEPT ![i] = @ + 1]
    /\ granted' = [granted EXCEPT ![i] = @ + 1]
    /\ UNCHANGED <<born, cleared, reopened>>

Reopen(i) ==
    /\ i \in born
    /\ claims' = [claims EXCEPT ![i] = @ + 1]
    /\ reopened' = [reopened EXCEPT ![i] = @ + 1]
    /\ UNCHANGED <<born, records, cleared, granted>>

\* Rows expire, calls fail, the process ends with all of its calls.
Drop ==
    /\ claims' \in [Ids -> Nat] /\ cleared' \in [Ids -> Nat]
    /\ \A i \in Ids : claims'[i] <= claims[i] /\ cleared'[i] <= cleared[i]
    /\ UNCHANGED <<born, records, granted, reopened>>

Next ==
    \/ Drop
    \/ \E i \in Ids : Create(i) \/ Record(i) \/ Grant(i) \/ Settle(i) \/ Reopen(i)

Spec == Init /\ [][Next]_<<born, claims, records, cleared, granted, reopened>>
=============================================================================
