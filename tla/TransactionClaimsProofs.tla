---------------------- MODULE TransactionClaimsProofs -----------------------
(***************************************************************************)
(* What the ledger of claims promises, for any set of transactions.        *)
(***************************************************************************)
EXTENDS TransactionClaims, TLAPS

ledger == <<born, claims, records, cleared, granted, reopened>>

TypeOK ==
    /\ claims \in [Ids -> Nat] /\ records \in [Ids -> Nat]
    /\ cleared \in [Ids -> Nat] /\ granted \in [Ids -> Nat]
    /\ reopened \in [Ids -> Nat]

\* A transaction that was not created has no claims and no records.
NoneBeforeBirth == \A i \in Ids \ born : claims[i] = 0 /\ records[i] = 0

\* What is recorded and what may still be recorded comes from the creation of
\* a transaction or from a write that opened it again, and what is granted and
\* what may still be granted comes from a record.
Accounted ==
    \A i \in Ids : /\ records[i] + claims[i] <= 1 + reopened[i]
                   /\ granted[i] + cleared[i] <= records[i]

Inv == TypeOK /\ NoneBeforeBirth /\ Accounted

LEMMA InvStep == Inv /\ [Next]_ledger => Inv'
<1> SUFFICES ASSUME Inv, [Next]_ledger PROVE  Inv'
  OBVIOUS
<1> USE DEF Inv, TypeOK, NoneBeforeBirth, Accounted
<1>1. ASSUME NEW i \in Ids, Create(i) PROVE Inv'
  BY <1>1 DEF Create
<1>2. ASSUME NEW i \in Ids, Record(i) PROVE Inv'
  <2>1. /\ claims[i] - 1 \in Nat /\ records[i] + 1 \in Nat /\ cleared[i] + 1 \in Nat
        /\ i \in born
    BY <1>2 DEF Record
  <2>2. /\ claims' = [claims EXCEPT ![i] = claims[i] - 1]
        /\ records' = [records EXCEPT ![i] = records[i] + 1]
        /\ cleared' = cleared \/ cleared' = [cleared EXCEPT ![i] = cleared[i] + 1]
        /\ UNCHANGED <<born, granted, reopened>>
    BY <1>2 DEF Record
  <2>3. TypeOK' /\ NoneBeforeBirth'
    BY <2>1, <2>2
  <2>4. Accounted'
    BY <2>1, <2>2
  <2> QED
    BY <2>3, <2>4
<1>3. ASSUME NEW i \in Ids, Grant(i) PROVE Inv'
  <2>1. cleared[i] - 1 \in Nat /\ granted[i] + 1 \in Nat
    BY <1>3 DEF Grant
  <2> QED
    BY <1>3, <2>1 DEF Grant
<1>4. ASSUME NEW i \in Ids, Settle(i) PROVE Inv'
  <2>1. /\ claims[i] - 1 \in Nat /\ records[i] + 1 \in Nat /\ granted[i] + 1 \in Nat
        /\ i \in born
    BY <1>4 DEF Settle
  <2>2. TypeOK' /\ NoneBeforeBirth'
    BY <1>4, <2>1 DEF Settle
  <2>3. Accounted'
    BY <1>4, <2>1 DEF Settle
  <2> QED
    BY <2>2, <2>3
<1>5. ASSUME NEW i \in Ids, Reopen(i) PROVE Inv'
  BY <1>5 DEF Reopen
<1>6. CASE Drop
  <2>1. TypeOK' /\ Accounted'
    BY <1>6 DEF Drop
  <2>2. NoneBeforeBirth'
    BY <1>6 DEF Drop
  <2> QED
    BY <2>1, <2>2
<1>7. CASE UNCHANGED ledger
  BY <1>7 DEF ledger
<1> QED
  BY <1>1, <1>2, <1>3, <1>4, <1>5, <1>6, <1>7 DEF Next

\* No transaction is recorded more often than it was opened, or granted more
\* often than it was recorded.
THEOREM ClaimsAreAccounted == Spec => []Accounted
<1>1. Init => Inv
  BY DEF Init, Inv, TypeOK, NoneBeforeBirth, Accounted
<1>2. Inv => Accounted
  BY DEF Inv
<1> QED
  BY <1>1, <1>2, InvStep, PTL DEF Spec, ledger
=============================================================================
