-------------------------- MODULE OpenID4VPProofs ---------------------------
(***************************************************************************)
(* Proofs about module OpenID4VP, for any number of transactions, workers, *)
(* calls and tokens, and any life time of a transaction.                   *)
(***************************************************************************)
EXTENDS OpenID4VP, FiniteSetTheorems, TLAPS

-----------------------------------------------------------------------------
(* The inductive invariant *)

\* A row descends from the row that init_transaction inserted, in cs.
Kept(cs, row) ==
    /\ \E c \in cs : /\ c.id = row.id /\ c.state = row.state
                     /\ c.nonce = row.nonce /\ c.expires = row.expires
    /\ \A a, b \in row.response : a = b

\* What a call in progress works with belongs together: one state, one id and
\* one token; rows found for the state, whose nonce accepts the token; an id
\* of a transaction with this state.
Coherent(cs, s) ==
    /\ \A row \in s.tx : Kept(cs, row)
    /\ \A a, b \in s.state : a = b
    /\ \A a, b \in s.id : a = b
    /\ \A a, b \in s.token : a = b
    /\ s.pc \in {"consume", "delete", "attest", "qr_journal"} =>
          \A row \in s.tx : /\ row.state \in s.state
                            /\ \A token \in s.token : token.nonce \subseteq {row.nonce}
    /\ s.pc \in {"delete", "attest", "qr_verify", "qr_journal"} =>
          \A i \in s.id : \E c \in cs : c.id = i /\ c.state \in s.state
    /\ s.pc = "respond" => \A i \in s.id : \E c \in cs : c.id = i

\* An id is created once, a generated state names one transaction for ever.
CreatedOnce ==
    \A c, d \in created :
        /\ c.id = d.id => c = d
        /\ c.state = d.state => c.id = d.id \/ c.state \in SuppliedStates

RowsKept == \A row \in table : Kept(created, row)

SlotsCoherent == \A w \in Workers : Coherent(created, slot[w])

CallsInv == CreatedOnce /\ RowsKept /\ KeysUnique /\ SlotsCoherent

\* Who has a claim on transaction i: the row itself, a call that removed the
\* row and is about to record it, one that did and is about to respond, and an
\* attestation that was granted.
Recording(w, i) == slot[w].pc = "attest" /\ i \in slot[w].id

Responding(w, i) == slot[w].pc = "respond" /\ i \in slot[w].id

Attesting(w, i) == Recording(w, i) \/ Responding(w, i)

\* Over an atomic store at most one of these claims exists at a time, and none
\* before the transaction is created.
NothingReinserted == \A w \in Workers : slot[w].pc \notin {"write", "mark_write"}

RowsUnused ==
    \A row \in table : /\ granted[row.id] = 0
                       /\ \A w \in Workers : ~ Attesting(w, row.id)

AttestersAlone ==
    \A w \in Workers, i \in Ids : Attesting(w, i) =>
        /\ granted[i] = 0
        /\ \A v \in Workers : Attesting(v, i) => v = w

GrantedCreated ==
    \A i \in Ids : granted[i] > 0 => \E c \in created : c.id = i

ClaimsInv ==
    /\ NothingReinserted
    /\ RowsUnused
    /\ AttestersAlone
    /\ GrantedCreated
    /\ SingleUse

-----------------------------------------------------------------------------
(* Type correctness *)

LEMMA IdleType == Idle \in SlotType
BY DEF Idle, SlotType

LEMMA EnterType ==
    ASSUME slot \in [Workers -> SlotType], NEW w \in Workers,
           NEW s \in SlotType, Enter(w, s)
    PROVE  slot' \in [Workers -> SlotType]
BY DEF Enter

LEMMA LeaveType ==
    ASSUME slot \in [Workers -> SlotType], NEW w \in Workers, Leave(w)
    PROVE  slot' \in [Workers -> SlotType]
BY IdleType, EnterType DEF Leave

LEMMA TakeType ==
    ASSUME calls \in [Kinds -> Nat], NEW kind \in Kinds, Take(kind)
    PROVE  calls' \in [Kinds -> Nat]
<1>1. calls[kind] - 1 \in Nat
  BY DEF Take
<1> QED
  BY <1>1 DEF Take

\* The rows and slots that the actions build.
LEMMA RowTypes ==
    ASSUME NEW row \in Row, NEW token \in Tokens
    PROVE  /\ Received(row, token) \in Row
           /\ Refused(row) \in Row
           /\ Verified(row) \in Row
BY DEF Row, Received, Refused, Verified

LEMMA UpsertType ==
    ASSUME table \subseteq Row, revived \in [Ids -> Nat],
           NEW row \in Row, Upsert(row)
    PROVE  table' \subseteq Row /\ revived' \in [Ids -> Nat]
<1>1. row.id \in Ids /\ revived[row.id] + 1 \in Nat
  BY DEF Row
<1> QED
  BY <1>1 DEF Upsert

LEMMA InitType == Init => TypeOK
BY IdleType, CallsAssumption DEF Init, TypeOK

LEMMA InitTransactionType ==
    ASSUME TypeOK,
           NEW i \in Ids, NEW s \in States, NEW n \in Nonces,
           InitTransaction(i, s, n)
    PROVE  TypeOK'
<1> DEFINE row == [id |-> i, state |-> s, nonce |-> n, expires |-> now + TTL,
                   status |-> "pending", response |-> {}, refused |-> FALSE]
<1>1. now + TTL \in Nat
  BY TimeAssumption DEF TypeOK
<1>2. row \in Row
  BY <1>1 DEF Row
<1>3. table' = table \cup {row} /\ created' = created \cup {row}
  BY DEF InitTransaction
<1> QED
  BY <1>2, <1>3 DEF InitTransaction, TypeOK

\* The two ways in which a direct_post call goes on.
LEMMA UpdateType ==
    ASSUME TypeOK, NEW w \in Workers, NEW row \in table, NEW new \in Row,
           Update(w, row, new)
    PROVE  table' \subseteq Row /\ slot' \in [Workers -> SlotType]
<1>1. [Idle EXCEPT !.pc = "write", !.tx = {new}] \in SlotType
  BY DEF Idle, SlotType
<1> QED
  BY <1>1, EnterType DEF Update, TypeOK

LEMMA CallType ==
    ASSUME TypeOK, NEW w \in Workers, Call(w)
    PROVE  TypeOK'
<1>1. CASE \E i \in Ids : Fetch(w, i)
  <2>1. PICK i \in Ids : Fetch(w, i)
    BY <1>1
  <2>2. [Idle EXCEPT !.pc = "purge", !.id = {i}] \in SlotType
    BY DEF Idle, SlotType
  <2>3. table' \subseteq Row /\ slot' \in [Workers -> SlotType]
    BY <2>1, <2>2, EnterType DEF Fetch, Delete, TypeOK
  <2>4. calls' \in [Kinds -> Nat]
    BY <2>1, TakeType DEF Fetch, TypeOK, Kinds
  <2> QED
    BY <2>1, <2>3, <2>4 DEF Fetch, history, TypeOK
<1>2. CASE \E i \in Ids : Poll(w, i)
  <2>1. PICK i \in Ids : Poll(w, i)
    BY <1>2
  <2>2. [Idle EXCEPT !.pc = "status", !.id = {i}] \in SlotType
    BY DEF Idle, SlotType
  <2>3. slot' \in [Workers -> SlotType]
    BY <2>1, <2>2, EnterType DEF Poll, TypeOK
  <2>4. calls' \in [Kinds -> Nat]
    BY <2>1, TakeType DEF Poll, TypeOK, Kinds
  <2> QED
    BY <2>1, <2>3, <2>4 DEF Poll, history, TypeOK
<1>3. CASE \E s \in States : Refuse(w, s)
  <2>1. PICK s \in States : Refuse(w, s)
    BY <1>3
  <2>2. PICK row \in ByState(s) : Update(w, row, Refused(row))
    BY <2>1 DEF Refuse
  <2>3. row \in table /\ Refused(row) \in Row
    BY <2>2 DEF ByState, TypeOK, Row, Refused
  <2>4. table' \subseteq Row /\ slot' \in [Workers -> SlotType]
    BY <2>2, <2>3, UpdateType
  <2>5. calls' \in [Kinds -> Nat]
    BY <2>1, TakeType DEF Refuse, TypeOK, Kinds
  <2> QED
    BY <2>1, <2>4, <2>5 DEF Refuse, history, TypeOK
<1>4. CASE \E s \in States, token \in Tokens : Post(w, s, token)
  <2>1. PICK s \in States, token \in Tokens : Post(w, s, token)
    BY <1>4
  <2>2. PICK row \in ByState(s) : Update(w, row, Received(row, token))
    BY <2>1 DEF Post
  <2>3. row \in table /\ Received(row, token) \in Row
    BY <2>2, RowTypes DEF ByState, TypeOK
  <2>4. table' \subseteq Row /\ slot' \in [Workers -> SlotType]
    BY <2>2, <2>3, UpdateType
  <2>5. calls' \in [Kinds -> Nat]
    BY <2>1, TakeType DEF Post, TypeOK, Kinds
  <2> QED
    BY <2>1, <2>4, <2>5 DEF Post, history, TypeOK
<1>5. CASE \E state \in SUBSET States, token \in Tokens : Verify(w, state, token)
  <2>1. PICK state \in SUBSET States, token \in Tokens : Verify(w, state, token)
    BY <1>5
  <2>2. PICK tx \in IF state = {} THEN {{}} ELSE UNION {Lookup(s) : s \in state} :
           Enter(w, [Idle EXCEPT !.pc = IF state = {} THEN "attest" ELSE "consume",
                                 !.state = state, !.token = {token}, !.tx = tx])
    BY <2>1 DEF Verify
  <2>3. tx \subseteq Row
    BY <2>2 DEF Lookup, ByState, TypeOK
  <2>4. [Idle EXCEPT !.pc = IF state = {} THEN "attest" ELSE "consume",
                     !.state = state, !.token = {token}, !.tx = tx] \in SlotType
    BY <2>3 DEF Idle, SlotType
  <2>5. slot' \in [Workers -> SlotType]
    BY <2>2, <2>4, EnterType DEF TypeOK
  <2>6. calls' \in [Kinds -> Nat]
    BY <2>1, TakeType DEF Verify, TypeOK, Kinds
  <2> QED
    BY <2>1, <2>5, <2>6 DEF Verify, history, TypeOK
<1>6. ASSUME NEW s \in States
      PROVE  {s} \in SUBSET States /\ {} \in SUBSET States
  OBVIOUS
<1> QED
  BY <1>1, <1>2, <1>3, <1>4, <1>5, <1>6 DEF Call

LEMMA ConsumeType ==
    ASSUME TypeOK, NEW w \in Workers,
           ConsumeFind(w) \/ ConsumeDelete(w) \/ Attest(w) \/ Respond(w)
    PROVE  TypeOK'
<1>1. slot[w] \in SlotType
  BY DEF TypeOK
<1>2. CASE ConsumeFind(w)
  <2>1. ASSUME NEW row \in Row
        PROVE  [slot[w] EXCEPT !.pc = "delete", !.id = {row.id}] \in SlotType
    BY <1>1 DEF SlotType, Row
  <2>2. UNION {ByState(s) : s \in slot[w].state} \subseteq Row
    BY DEF ByState, TypeOK
  <2>3. slot' \in [Workers -> SlotType]
    BY <1>2, <2>1, <2>2, EnterType, LeaveType DEF ConsumeFind, TypeOK
  <2> QED
    BY <1>2, <2>3 DEF ConsumeFind, history, TypeOK
<1>3. CASE ConsumeDelete(w)
  <2>1. [slot[w] EXCEPT !.pc = "attest"] \in SlotType
    BY <1>1 DEF SlotType
  <2>2. slot' \in [Workers -> SlotType] /\ table' \subseteq Row
    BY <1>3, <2>1, EnterType, LeaveType DEF ConsumeDelete, Delete, TypeOK
  <2> QED
    BY <1>3, <2>2 DEF ConsumeDelete, history, TypeOK
<1>4. CASE Attest(w) \/ Respond(w)
  <2>1. [Idle EXCEPT !.pc = "respond", !.id = slot[w].id] \in SlotType
    BY <1>1 DEF SlotType, Idle
  <2>2. slot' \in [Workers -> SlotType]
    BY <1>4, <2>1, EnterType, LeaveType DEF Attest, Respond, ToResponse, TypeOK
  <2>3. OneMore(journaled, w) \in [Ids -> Nat] /\ OneMore(granted, w) \in [Ids -> Nat]
    BY DEF OneMore, TypeOK
  <2> QED
    BY <1>4, <2>2, <2>3 DEF Attest, Respond, TypeOK
<1> QED
  BY <1>2, <1>3, <1>4

LEMMA PollType ==
    ASSUME TypeOK, NEW w \in Workers,
           PollStatus(w) \/ PollVerify(w) \/ PollJournal(w)
    PROVE  TypeOK'
<1>1. slot[w] \in SlotType
  BY DEF TypeOK
<1>2. CASE PollStatus(w)
  <2>1. ASSUME NEW row \in Row
        PROVE  [slot[w] EXCEPT !.pc = "qr_verify", !.state = {row.state},
                               !.token = row.response] \in SlotType
    BY <1>1 DEF SlotType, Row
  <2>2. slot' \in [Workers -> SlotType]
    BY <1>2, <2>1, EnterType, LeaveType DEF PollStatus, TypeOK
  <2> QED
    BY <1>2, <2>2 DEF PollStatus, history, TypeOK
<1>3. CASE PollVerify(w)
  <2>1. ASSUME NEW tx \in SUBSET Row
        PROVE  [slot[w] EXCEPT !.pc = "qr_journal", !.tx = tx] \in SlotType
    BY <1>1 DEF SlotType
  <2>2. UNION {Lookup(s) : s \in slot[w].state} \subseteq SUBSET Row
    BY DEF Lookup, ByState, TypeOK
  <2>3. slot' \in [Workers -> SlotType]
    BY <1>3, <2>1, <2>2, EnterType, LeaveType DEF PollVerify, TypeOK
  <2> QED
    BY <1>3, <2>3 DEF PollVerify, history, TypeOK
<1>4. CASE PollJournal(w)
  <2>1. [slot[w] EXCEPT !.pc = "mark", !.tx = {}] \in SlotType
    BY <1>1 DEF SlotType
  <2>2. slot' \in [Workers -> SlotType]
    BY <1>4, <2>1, EnterType DEF PollJournal, TypeOK
  <2>3. qrJournaled' \in [Ids -> Nat]
    BY <1>4 DEF PollJournal, TypeOK
  <2> QED
    BY <1>4, <2>2, <2>3 DEF PollJournal, TypeOK
<1> QED
  BY <1>2, <1>3, <1>4

LEMMA WriteType ==
    ASSUME TypeOK, NEW w \in Workers,
           Purge(w) \/ Write(w) \/ Mark(w) \/ MarkWrite(w)
    PROVE  TypeOK'
<1>1. slot[w] \in SlotType
  BY DEF TypeOK
<1>2. slot[w].tx \subseteq Row
  BY <1>1 DEF SlotType
<1>3. CASE Purge(w)
  <2>1. slot' \in [Workers -> SlotType] /\ table' \subseteq Row
    BY <1>3, LeaveType DEF Purge, Delete, TypeOK
  <2> QED
    BY <1>3, <2>1 DEF Purge, history, TypeOK
<1>4. CASE Write(w)
  <2>1. slot' \in [Workers -> SlotType]
    BY <1>4, LeaveType DEF Write, TypeOK
  <2>2. table' \subseteq Row /\ revived' \in [Ids -> Nat]
    BY <1>2, <1>4, UpsertType DEF Write, TypeOK
  <2> QED
    BY <1>4, <2>1, <2>2 DEF Write, TypeOK
<1>5. ASSUME ShowVerified(w)
      PROVE  slot' \in [Workers -> SlotType] /\ shown' \in [Ids -> Nat]
  BY <1>5, LeaveType DEF ShowVerified, TypeOK
<1>6. CASE Mark(w)
  <2>1. ASSUME NEW row \in table
        PROVE  /\ Verified(row) \in Row
               /\ [slot[w] EXCEPT !.pc = "mark_write", !.tx = {Verified(row)}]
                     \in SlotType
    BY <1>1 DEF SlotType, TypeOK, Verified, Row
  <2>2. CASE ShowVerified(w)
    <3>1. PICK rows \in SUBSET table :
             \/ table' = (table \ rows) \cup {Verified(row) : row \in rows}
             \/ table' = table
      BY <1>6 DEF Mark
    <3>2. {Verified(row) : row \in rows} \subseteq Row
      BY <2>1
    <3>3. table' \subseteq Row
      BY <3>1, <3>2 DEF TypeOK
    <3> QED
      BY <1>5, <1>6, <2>2, <3>3 DEF Mark, TypeOK
  <2>3. CASE UNCHANGED <<table, shown>>
              /\ \E row \in table :
                    Enter(w, [slot[w] EXCEPT !.pc = "mark_write",
                                             !.tx = {Verified(row)}])
    <3>1. slot' \in [Workers -> SlotType]
      BY <2>1, <2>3, EnterType DEF TypeOK
    <3> QED
      BY <1>6, <2>3, <3>1 DEF Mark, TypeOK
  <2> QED
    BY <1>6, <2>2, <2>3 DEF Mark
<1>7. CASE MarkWrite(w)
  <2>1. table' \subseteq Row /\ revived' \in [Ids -> Nat]
    BY <1>2, <1>7, UpsertType DEF MarkWrite, TypeOK
  <2> QED
    BY <1>5, <1>7, <2>1 DEF MarkWrite, TypeOK
<1> QED
  BY <1>3, <1>4, <1>6, <1>7

LEMMA TypeStep == TypeOK /\ [Next]_vars => TypeOK'
<1> SUFFICES ASSUME TypeOK, [Next]_vars PROVE TypeOK'
  OBVIOUS
<1>1. CASE \E i \in Ids, s \in States, n \in Nonces : InitTransaction(i, s, n)
  BY <1>1, InitTransactionType
<1>2. CASE \E w \in Workers : Call(w)
  BY <1>2, CallType
<1>3. CASE \E w \in Workers : Step(w)
  BY <1>3, ConsumeType, PollType, WriteType DEF Step
<1>4. CASE \E w \in Workers : Abandon(w)
  BY <1>4, LeaveType DEF Abandon, history, TypeOK
<1>5. CASE Tick
  BY <1>5 DEF Tick, history, TypeOK
<1>6. CASE Restart
  <2>1. calls' \in [Kinds -> Nat]
    BY <1>6, TakeType DEF Restart, TypeOK, Kinds
  <2> QED
    BY <1>6, <2>1, IdleType DEF Restart, history, TypeOK
<1>7. CASE UNCHANGED vars
  BY <1>7 DEF vars, history, TypeOK
<1> QED
  BY <1>1, <1>2, <1>3, <1>4, <1>5, <1>6, <1>7 DEF Next

\* Every variable keeps its type, in every instance of the service.
THEOREM TypeCorrect == Spec => []TypeOK
BY InitType, TypeStep, PTL DEF Spec

-----------------------------------------------------------------------------
(* Rows and calls in progress *)

\* What was created stays created, and with it all that refers to it.
LEMMA KeptMonotone ==
    ASSUME NEW cs, NEW ds, cs \subseteq ds, NEW row, Kept(cs, row)
    PROVE  Kept(ds, row)
BY DEF Kept

LEMMA CoherentMonotone ==
    ASSUME NEW cs, NEW ds, cs \subseteq ds, NEW s, Coherent(cs, s)
    PROVE  Coherent(ds, s)
<1>1. \A row \in s.tx : Kept(ds, row)
  BY KeptMonotone DEF Coherent
<1> QED
  BY <1>1 DEF Coherent

\* verify_vp_token compares the nonce of the presentation, if it has one, with
\* the nonce of the transaction, if one was found.
LEMMA AcceptedCompares ==
    ASSUME NEW token \in Tokens, NEW tx, Accepted(token, tx), NEW row \in tx
    PROVE  token.nonce \subseteq {row.nonce}
<1>1. token.format \in {"mdoc", "sdjwt", "json"}
  BY TokensAssumption DEF TokenType
<1> QED
  BY <1>1 DEF Accepted, NonceAccepted

LEMMA IdleCoherent ==
    ASSUME NEW cs
    PROVE  Coherent(cs, Idle)
BY DEF Coherent, Idle

LEMMA SlotsAfterEnter ==
    ASSUME TypeOK, CallsInv, NEW w \in Workers, NEW s,
           Coherent(created, s), Enter(w, s), UNCHANGED created
    PROVE  SlotsCoherent'
BY DEF TypeOK, CallsInv, SlotsCoherent, Enter

LEMMA SlotsAfterLeave ==
    ASSUME TypeOK, CallsInv, NEW w \in Workers, Leave(w), UNCHANGED created
    PROVE  SlotsCoherent'
BY IdleCoherent, SlotsAfterEnter DEF Leave

\* A DELETE, and the loss of a table that is not persistent.
LEMMA TableShrinks ==
    ASSUME CallsInv, table' \subseteq table, UNCHANGED created
    PROVE  RowsKept' /\ KeysUnique'
BY DEF CallsInv, RowsKept, KeysUnique

\* A row is replaced under a lock.
LEMMA RowReplaced ==
    ASSUME CallsInv, NEW row \in table, NEW new,
           new.id = row.id, new.state = row.state, Kept(created, new),
           table' = (table \ {row}) \cup {new}, UNCHANGED created
    PROVE  RowsKept' /\ KeysUnique'
<1>1. RowsKept'
  BY DEF CallsInv, RowsKept
<1>2. KeysUnique'
  BY DEF CallsInv, KeysUnique
<1> QED
  BY <1>1, <1>2

\* A row that was read some time ago is written back.
LEMMA RowUpserted ==
    ASSUME CallsInv, NEW row, Kept(created, row), Upsert(row), UNCHANGED created
    PROVE  RowsKept' /\ KeysUnique'
<1>1. CASE Conflict(row)
  BY <1>1, TableShrinks DEF Upsert
<1>2. CASE ~ Conflict(row)
  <2>1. table' = {other \in table : other.id # row.id} \cup {row}
    BY <1>2 DEF Upsert
  <2>2. \A other \in table : other.state = row.state => other.id = row.id
    BY <1>2 DEF Conflict
  <2>3. RowsKept'
    BY <2>1 DEF CallsInv, RowsKept
  <2>4. KeysUnique'
    BY <2>1, <2>2 DEF CallsInv, KeysUnique
  <2> QED
    BY <2>3, <2>4
<1> QED
  BY <1>1, <1>2

\* What the endpoints make of a row that is kept, is kept.
LEMMA ChangedRowsKept ==
    ASSUME NEW row \in Row, Kept(created, row), NEW token
    PROVE  /\ Kept(created, Received(row, token))
           /\ Kept(created, Refused(row))
           /\ Kept(created, Verified(row))
           /\ Received(row, token).id = row.id /\ Received(row, token).state = row.state
           /\ Refused(row).id = row.id /\ Refused(row).state = row.state
           /\ Verified(row).id = row.id /\ Verified(row).state = row.state
BY DEF Row, Kept, Received, Refused, Verified

LEMMA InitCalls == Init => CallsInv
BY IdleCoherent
   DEF Init, CallsInv, CreatedOnce, RowsKept, KeysUnique, SlotsCoherent

LEMMA InitTransactionCalls ==
    ASSUME TypeOK, CallsInv, NEW i \in Ids, NEW s \in States, NEW n \in Nonces,
           InitTransaction(i, s, n)
    PROVE  CallsInv'
<1> DEFINE row == [id |-> i, state |-> s, nonce |-> n, expires |-> now + TTL,
                   status |-> "pending", response |-> {}, refused |-> FALSE]
<1>1. /\ \A c \in created : c.id # i
      /\ s \in SuppliedStates \/ \A c \in created : c.state # s
      /\ ~ Conflict(row)
      /\ table' = table \cup {row}
      /\ created' = created \cup {row}
      /\ slot' = slot
  BY DEF InitTransaction
<1>2. /\ row.id = i /\ row.state = s
      /\ \A a, b \in row.response : a = b
  OBVIOUS
<1>3. Kept(created', row)
  BY <1>1, <1>2 DEF Kept
<1> HIDE DEF row
<1>4. created \subseteq created'
  BY <1>1
<1>5. CreatedOnce'
  BY <1>1, <1>2 DEF CallsInv, CreatedOnce
<1>6. RowsKept'
  BY <1>1, <1>3, <1>4, KeptMonotone DEF CallsInv, RowsKept
<1>7. \A other \in table : other.id # row.id
  BY <1>1, <1>2 DEF CallsInv, RowsKept, Kept
<1>8. KeysUnique'
  BY <1>1, <1>7 DEF CallsInv, KeysUnique, Conflict
<1>9. SlotsCoherent'
  BY <1>1, <1>4, CoherentMonotone DEF CallsInv, SlotsCoherent
<1> QED
  BY <1>5, <1>6, <1>8, <1>9 DEF CallsInv

\* A step that leaves the transactions created as they are.
LEMMA CallsFrom ==
    ASSUME CallsInv, RowsKept', KeysUnique', SlotsCoherent', UNCHANGED created
    PROVE  CallsInv'
BY DEF CallsInv, CreatedOnce

LEMMA UpdateCalls ==
    ASSUME TypeOK, CallsInv, NEW w \in Workers, NEW row \in table, NEW new,
           new.id = row.id, new.state = row.state, Kept(created, new),
           Update(w, row, new), UNCHANGED created
    PROVE  CallsInv'
<1>1. CASE Atomic
  <2>1. RowsKept' /\ KeysUnique'
    BY <1>1, RowReplaced DEF Update
  <2>2. SlotsCoherent'
    BY <1>1 DEF Update, CallsInv, SlotsCoherent
  <2> QED
    BY <2>1, <2>2, CallsFrom
<1>2. CASE ~ Atomic
  <2> DEFINE s == [Idle EXCEPT !.pc = "write", !.tx = {new}]
  <2>1. Coherent(created, s)
    BY DEF Coherent, Idle
  <2>2. Enter(w, s) /\ table' = table
    BY <1>2 DEF Update
  <2> HIDE DEF s
  <2>3. SlotsCoherent'
    BY <2>1, <2>2, SlotsAfterEnter
  <2> QED
    BY <2>2, <2>3, TableShrinks, CallsFrom
<1> QED
  BY <1>1, <1>2

LEMMA CallCalls ==
    ASSUME TypeOK, CallsInv, NEW w \in Workers, Call(w)
    PROVE  CallsInv'
<1>1. CASE \E i \in Ids : Fetch(w, i) \/ Poll(w, i)
  <2>1. PICK i \in Ids : Fetch(w, i) \/ Poll(w, i)
    BY <1>1
  <2>2. table' \subseteq table /\ UNCHANGED created
    BY <2>1 DEF Fetch, Poll, Delete, history
  <2>3. /\ Coherent(created, [Idle EXCEPT !.pc = "purge", !.id = {i}])
        /\ Coherent(created, [Idle EXCEPT !.pc = "status", !.id = {i}])
    BY DEF Coherent, Idle
  <2>4. SlotsCoherent'
    <3>1. CASE UNCHANGED slot
      BY <2>2, <3>1 DEF CallsInv, SlotsCoherent
    <3>2. CASE \/ Enter(w, [Idle EXCEPT !.pc = "purge", !.id = {i}])
               \/ Enter(w, [Idle EXCEPT !.pc = "status", !.id = {i}])
      BY <2>2, <2>3, <3>2, SlotsAfterEnter
    <3> QED
      BY <2>1, <3>1, <3>2 DEF Fetch, Poll
  <2> QED
    BY <2>2, <2>4, TableShrinks, CallsFrom
<1>2. CASE \E s \in States : Refuse(w, s) \/ \E token \in Tokens : Post(w, s, token)
  <2>1. PICK row \in table :
           /\ \/ Update(w, row, Refused(row))
              \/ \E token \in Tokens : Update(w, row, Received(row, token))
           /\ UNCHANGED created
    BY <1>2 DEF Refuse, Post, ByState, history
  <2>2. row \in Row /\ Kept(created, row)
    BY DEF TypeOK, CallsInv, RowsKept
  <2> QED
    BY <2>1, <2>2, ChangedRowsKept, UpdateCalls
<1>3. CASE \E state \in SUBSET States, token \in Tokens :
              Verify(w, state, token) /\ \A s, t \in state : s = t
  <2>1. PICK state \in SUBSET States, token \in Tokens :
           Verify(w, state, token) /\ \A s, t \in state : s = t
    BY <1>3
  <2>2. PICK tx \in IF state = {} THEN {{}} ELSE UNION {Lookup(s) : s \in state} :
           /\ Accepted(token, tx)
           /\ Enter(w, [Idle EXCEPT !.pc = IF state = {} THEN "attest" ELSE "consume",
                                    !.state = state, !.token = {token}, !.tx = tx])
    BY <2>1 DEF Verify
  <2> DEFINE s == [Idle EXCEPT !.pc = IF state = {} THEN "attest" ELSE "consume",
                               !.state = state, !.token = {token}, !.tx = tx]
  <2>3. tx \subseteq table /\ \A row \in tx : row.state \in state
    BY <2>2 DEF Lookup, ByState
  <2>4. \A row \in tx : token.nonce \subseteq {row.nonce}
    BY <2>2, AcceptedCompares
  <2>5. /\ s.tx = tx /\ s.state = state /\ s.id = {} /\ s.token = {token}
        /\ s.pc \in {"attest", "consume"}
    BY DEF Idle
  <2>6. Coherent(created, s)
    BY <2>1, <2>3, <2>4, <2>5 DEF Coherent, CallsInv, RowsKept
  <2>7. Enter(w, s) /\ UNCHANGED <<table, created>>
    BY <2>1, <2>2 DEF Verify, history
  <2> HIDE DEF s
  <2>8. SlotsCoherent'
    BY <2>6, <2>7, SlotsAfterEnter
  <2> QED
    BY <2>7, <2>8, TableShrinks, CallsFrom
<1>4. ASSUME NEW s \in States
      PROVE  /\ {s} \in SUBSET States /\ {} \in SUBSET States
             /\ \A a, b \in {s} : a = b
             /\ \A a, b \in {} : a = b
  OBVIOUS
<1> QED
  BY <1>1, <1>2, <1>3, <1>4 DEF Call

LEMMA ConsumeCalls ==
    ASSUME TypeOK, CallsInv, NEW w \in Workers,
           ConsumeFind(w) \/ ConsumeDelete(w) \/ Attest(w) \/ Respond(w)
    PROVE  CallsInv'
<1>1. table' \subseteq table /\ UNCHANGED created
  BY DEF ConsumeFind, ConsumeDelete, Attest, Respond, Delete, history
<1>2. Coherent(created, slot[w]) /\ slot[w] \in SlotType
  BY DEF CallsInv, SlotsCoherent, TypeOK
<1>3. SlotsCoherent'
  <2>1. CASE Leave(w)
    BY <1>1, <2>1, SlotsAfterLeave
  <2>2. CASE ConsumeFind(w) /\ ~ Leave(w)
    <3>1. PICK row \in UNION {ByState(s) : s \in slot[w].state} :
             Enter(w, [slot[w] EXCEPT !.pc = "delete", !.id = {row.id}])
      BY <2>2 DEF ConsumeFind
    <3> DEFINE s == [slot[w] EXCEPT !.pc = "delete", !.id = {row.id}]
    <3>2. /\ s.pc = "delete" /\ s.id = {row.id} /\ s.tx = slot[w].tx
          /\ s.state = slot[w].state /\ s.token = slot[w].token
      BY <1>2 DEF SlotType
    <3>3. \E c \in created : c.id = row.id /\ c.state \in slot[w].state
      BY <3>1 DEF ByState, CallsInv, RowsKept, Kept
    <3>4. slot[w].pc = "consume"
      BY <2>2 DEF ConsumeFind
    <3>5. Coherent(created, s)
      BY <1>2, <3>2, <3>3, <3>4 DEF Coherent
    <3> QED
      BY <1>1, <3>1, <3>5, SlotsAfterEnter
  <2>3. CASE ConsumeDelete(w) /\ ~ Leave(w)
    <3> DEFINE s == [slot[w] EXCEPT !.pc = "attest"]
    <3>1. Enter(w, s) /\ slot[w].pc = "delete"
      BY <2>3 DEF ConsumeDelete
    <3>2. /\ s.pc = "attest" /\ s.id = slot[w].id /\ s.tx = slot[w].tx
          /\ s.state = slot[w].state /\ s.token = slot[w].token
      BY <1>2 DEF SlotType
    <3>3. Coherent(created, s)
      BY <1>2, <3>1, <3>2 DEF Coherent
    <3> QED
      BY <1>1, <3>1, <3>3, SlotsAfterEnter
  <2>4. CASE ToResponse(w) /\ slot[w].pc = "attest"
    <3> DEFINE s == [Idle EXCEPT !.pc = "respond", !.id = slot[w].id]
    <3>1. /\ s.pc = "respond" /\ s.id = slot[w].id
          /\ s.tx = {} /\ s.state = {} /\ s.token = {}
      BY DEF Idle
    <3>2. Coherent(created, s)
      BY <1>2, <2>4, <3>1 DEF Coherent
    <3>3. Enter(w, s)
      BY <2>4 DEF ToResponse
    <3> QED
      BY <1>1, <3>2, <3>3, SlotsAfterEnter
  <2> QED
    BY <2>1, <2>2, <2>3, <2>4 DEF Attest, Respond
<1> QED
  BY <1>1, <1>3, TableShrinks, CallsFrom

LEMMA PollCalls ==
    ASSUME TypeOK, CallsInv, NEW w \in Workers,
           PollStatus(w) \/ PollVerify(w) \/ PollJournal(w)
    PROVE  CallsInv'
<1>1. UNCHANGED <<table, created>>
  BY DEF PollStatus, PollVerify, PollJournal, history
<1>2. Coherent(created, slot[w]) /\ slot[w] \in SlotType
  BY DEF CallsInv, SlotsCoherent, TypeOK
<1>3. SlotsCoherent'
  <2>1. CASE Leave(w)
    BY <1>1, <2>1, SlotsAfterLeave
  <2>2. CASE PollStatus(w) /\ ~ Leave(w)
    <3>1. PICK row \in table :
             /\ row.id \in slot[w].id
             /\ Enter(w, [slot[w] EXCEPT !.pc = "qr_verify", !.state = {row.state},
                                         !.token = row.response])
      BY <2>2 DEF PollStatus
    <3> DEFINE s == [slot[w] EXCEPT !.pc = "qr_verify", !.state = {row.state},
                                    !.token = row.response]
    <3>2. /\ s.pc = "qr_verify" /\ s.id = slot[w].id /\ s.tx = slot[w].tx
          /\ s.state = {row.state} /\ s.token = row.response
      BY <1>2 DEF SlotType
    <3>3. Kept(created, row)
      BY DEF CallsInv, RowsKept
    <3>4. \A i \in slot[w].id : \E c \in created : c.id = i /\ c.state \in {row.state}
      BY <1>2, <3>1, <3>3 DEF Coherent, Kept
    <3>5. Coherent(created, s)
      BY <1>2, <3>2, <3>3, <3>4 DEF Coherent, Kept
    <3> QED
      BY <1>1, <3>1, <3>5, SlotsAfterEnter
  <2>3. CASE PollVerify(w) /\ ~ Leave(w)
    <3>1. PICK tx \in UNION {Lookup(s) : s \in slot[w].state},
               token \in slot[w].token :
             /\ Accepted(token, tx)
             /\ Enter(w, [slot[w] EXCEPT !.pc = "qr_journal", !.tx = tx])
      BY <2>3 DEF PollVerify
    <3> DEFINE s == [slot[w] EXCEPT !.pc = "qr_journal", !.tx = tx]
    <3>2. /\ s.pc = "qr_journal" /\ s.id = slot[w].id /\ s.tx = tx
          /\ s.state = slot[w].state /\ s.token = slot[w].token
      BY <1>2 DEF SlotType
    <3>3. tx \subseteq table /\ \A row \in tx : row.state \in slot[w].state
      BY <3>1 DEF Lookup, ByState
    <3>4. \A row \in tx, t \in slot[w].token : t.nonce \subseteq {row.nonce}
      BY <1>2, <3>1, AcceptedCompares DEF Coherent, SlotType
    <3>5. slot[w].pc = "qr_verify"
      BY <2>3 DEF PollVerify
    <3>6. \A row \in tx : Kept(created, row)
      BY <3>3 DEF CallsInv, RowsKept
    <3> HIDE DEF s
    <3>7. Coherent(created, s)
      BY <1>2, <3>2, <3>3, <3>4, <3>5, <3>6 DEF Coherent
    <3> QED
      BY <1>1, <3>1, <3>7, SlotsAfterEnter DEF s
  <2>4. CASE PollJournal(w)
    <3> DEFINE s == [slot[w] EXCEPT !.pc = "mark", !.tx = {}]
    <3>1. Enter(w, s)
      BY <2>4 DEF PollJournal
    <3>2. /\ s.pc = "mark" /\ s.id = slot[w].id /\ s.tx = {}
          /\ s.state = slot[w].state /\ s.token = slot[w].token
      BY <1>2 DEF SlotType
    <3>3. Coherent(created, s)
      BY <1>2, <3>2 DEF Coherent
    <3> QED
      BY <1>1, <3>1, <3>3, SlotsAfterEnter
  <2> QED
    BY <2>1, <2>2, <2>3, <2>4
<1> QED
  BY <1>1, <1>3, TableShrinks, CallsFrom

LEMMA WriteCalls ==
    ASSUME TypeOK, CallsInv, NEW w \in Workers,
           Purge(w) \/ Write(w) \/ Mark(w) \/ MarkWrite(w)
    PROVE  CallsInv'
<1>1. UNCHANGED created
  BY DEF Purge, Write, Mark, MarkWrite, history
<1>2. Coherent(created, slot[w]) /\ slot[w] \in SlotType
  BY DEF CallsInv, SlotsCoherent, TypeOK
<1>3. CASE Purge(w)
  <2>1. table' \subseteq table /\ Leave(w)
    BY <1>3 DEF Purge, Delete
  <2> QED
    BY <1>1, <2>1, TableShrinks, SlotsAfterLeave, CallsFrom
<1>4. CASE Write(w) \/ MarkWrite(w)
  <2>1. Leave(w)
    BY <1>4 DEF Write, MarkWrite, ShowVerified
  <2>2. CASE \E row \in slot[w].tx : Upsert(row)
    <3>1. RowsKept' /\ KeysUnique'
      BY <1>1, <1>2, <2>2, RowUpserted DEF Coherent
    <3> QED
      BY <1>1, <2>1, <3>1, SlotsAfterLeave, CallsFrom
  <2>3. CASE UNCHANGED table
    BY <1>1, <2>1, <2>3, TableShrinks, SlotsAfterLeave, CallsFrom
  <2> QED
    BY <1>4, <2>2, <2>3 DEF Write, MarkWrite
<1>5. CASE Mark(w)
  <2> DEFINE rows == {row \in table : row.id \in slot[w].id}
  <2>1. ASSUME NEW row \in rows
        PROVE  /\ row \in table /\ row \in Row
               /\ Verified(row).id = row.id /\ Verified(row).state = row.state
               /\ Kept(created, Verified(row))
    BY ChangedRowsKept DEF TypeOK, CallsInv, RowsKept
  <2>2. CASE rows = {} \/ Atomic
    <3>1. Leave(w) /\ table' = (table \ rows) \cup {Verified(row) : row \in rows}
      BY <1>5, <2>2 DEF Mark, ShowVerified
    <3>2. CASE rows = {}
      BY <1>1, <3>1, <3>2, TableShrinks, SlotsAfterLeave, CallsFrom
    <3>3. CASE rows # {}
      <4>1. PICK row \in rows : TRUE
        BY <3>3
      <4>2. rows = {row}
        BY <1>2, <4>1 DEF Coherent, CallsInv, KeysUnique
      <4>3. table' = (table \ {row}) \cup {Verified(row)}
        BY <3>1, <4>2
      <4>4. RowsKept' /\ KeysUnique'
        BY <1>1, <2>1, <4>3, RowReplaced
      <4> QED
        BY <1>1, <3>1, <4>4, SlotsAfterLeave, CallsFrom
    <3> QED
      BY <3>2, <3>3
  <2>3. CASE ~ (rows = {} \/ Atomic)
    <3>1. PICK row \in rows :
             Enter(w, [slot[w] EXCEPT !.pc = "mark_write", !.tx = {Verified(row)}])
      BY <1>5, <2>3 DEF Mark
    <3> DEFINE s == [slot[w] EXCEPT !.pc = "mark_write", !.tx = {Verified(row)}]
    <3>2. /\ s.pc = "mark_write" /\ s.id = slot[w].id /\ s.tx = {Verified(row)}
          /\ s.state = slot[w].state /\ s.token = slot[w].token
      BY <1>2 DEF SlotType
    <3>3. Kept(created, Verified(row))
      BY <2>1
    <3> HIDE DEF s
    <3>4. Coherent(created, s)
      BY <1>2, <3>2, <3>3 DEF Coherent
    <3>5. Enter(w, s) /\ table' = table
      BY <1>5, <2>3, <3>1 DEF Mark, s
    <3> QED
      BY <1>1, <3>4, <3>5, SlotsAfterEnter, TableShrinks, CallsFrom
  <2> QED
    BY <2>2, <2>3
<1> QED
  BY <1>3, <1>4, <1>5

LEMMA CallsStep == TypeOK /\ CallsInv /\ [Next]_vars => CallsInv'
<1> SUFFICES ASSUME TypeOK, CallsInv, [Next]_vars PROVE CallsInv'
  OBVIOUS
<1>1. CASE \E i \in Ids, s \in States, n \in Nonces : InitTransaction(i, s, n)
  BY <1>1, InitTransactionCalls
<1>2. CASE \E w \in Workers : Call(w)
  BY <1>2, CallCalls
<1>3. CASE \E w \in Workers : Step(w)
  BY <1>3, ConsumeCalls, PollCalls, WriteCalls DEF Step
<1>4. CASE \E w \in Workers : Abandon(w)
  BY <1>4, SlotsAfterLeave, TableShrinks, CallsFrom DEF Abandon, history
<1>5. CASE Tick \/ UNCHANGED vars
  <2>1. UNCHANGED <<table, created, slot>>
    BY <1>5 DEF Tick, vars, history
  <2>2. SlotsCoherent'
    BY <2>1 DEF CallsInv, SlotsCoherent
  <2> QED
    BY <2>1, <2>2, TableShrinks, CallsFrom
<1>6. CASE Restart
  <2>1. table' \subseteq table /\ UNCHANGED created
    BY <1>6 DEF Restart, history
  <2>2. SlotsCoherent'
    BY <1>6, IdleCoherent DEF Restart, SlotsCoherent
  <2> QED
    BY <2>1, <2>2, TableShrinks, CallsFrom
<1> QED
  BY <1>1, <1>2, <1>3, <1>4, <1>5, <1>6 DEF Next

LEMMA CallsInvariant == Spec => [](TypeOK /\ CallsInv)
<1>1. Init => TypeOK /\ CallsInv
  BY InitType, InitCalls
<1>2. (TypeOK /\ CallsInv) /\ [Next]_vars => (TypeOK /\ CallsInv)'
  BY TypeStep, CallsStep
<1> QED
  BY <1>1, <1>2, PTL DEF Spec

\* No two rows share an id or a state, however the statements of the calls
\* interleave: find_by_state and update_by_state have one answer.
THEOREM KeysCorrect == Spec => []KeysUnique
<1>1. CallsInv => KeysUnique
  BY DEF CallsInv
<1> QED
  BY <1>1, CallsInvariant, PTL

\* A stale write never leaves the request data of one transaction in another.
THEOREM RequestDataCorrect == Spec => []RequestDataKept
<1>1. CallsInv => RequestDataKept
  BY DEF CallsInv, RowsKept, Kept, RequestDataKept
<1> QED
  BY <1>1, CallsInvariant, PTL

\* With a generated state, a call consumes the transaction that it checked the
\* presentation against, whatever happened in between.
THEOREM CheckedCorrect == Spec => []CheckedAgainstOwn
<1>1. CallsInv => CheckedAgainstOwn
  <2> SUFFICES ASSUME CallsInv,
                      NEW w \in Workers, NEW i \in slot[w].id, NEW row \in slot[w].tx,
                      slot[w].pc \in {"delete", "attest", "qr_journal"},
                      slot[w].state \cap SuppliedStates = {}
               PROVE  /\ row.id = i
                      /\ \A token \in slot[w].token : token.nonce \subseteq {row.nonce}
    BY DEF CheckedAgainstOwn
  <2>1. Coherent(created, slot[w])
    BY DEF CallsInv, SlotsCoherent
  <2>2. PICK c \in created : c.id = i /\ c.state \in slot[w].state
    BY <2>1 DEF Coherent
  <2>3. PICK d \in created : d.id = row.id /\ d.state = row.state
    BY <2>1 DEF Coherent, Kept
  <2>4. c.state = d.state
    BY <2>1, <2>2, <2>3 DEF Coherent
  <2>5. c.state \notin SuppliedStates
    BY <2>2
  <2>6. c.id = d.id
    BY <2>4, <2>5 DEF CallsInv, CreatedOnce
  <2> QED
    BY <2>1, <2>2, <2>3, <2>6 DEF Coherent
<1> QED
  BY <1>1, CallsInvariant, PTL

-----------------------------------------------------------------------------
(* The QR poll and the journal                                             *)

\* Call w has been through the journal and will answer "verified" for i.
Marking(w, i) == slot[w].pc \in {"mark", "mark_write"} /\ i \in slot[w].id

Markers(i) == {w \in Workers : Marking(w, i)}

\* Every answer "verified", given or on its way, has an entry of its own.
ShownPaidFor ==
    \A i \in Ids : /\ IsFiniteSet(Markers(i))
                   /\ shown[i] + Cardinality(Markers(i)) <= qrJournaled[i]

LEMMA ShownStep ==
    ASSUME ~ Failures, JournalEnabled, TypeOK, ShownPaidFor, [Next]_vars
    PROVE  ShownPaidFor'
<1>1. /\ shown \in [Ids -> Nat] /\ qrJournaled \in [Ids -> Nat]
      /\ slot \in [Workers -> SlotType]
  BY DEF TypeOK
<1>2. \A i \in Ids :
         /\ IsFiniteSet(Markers(i)) /\ Cardinality(Markers(i)) \in Nat
         /\ shown[i] + Cardinality(Markers(i)) <= qrJournaled[i]
  BY FS_CardinalityType DEF ShownPaidFor
<1>3. ASSUME UNCHANGED <<shown, qrJournaled>>,
             \A w \in Workers, i \in Ids : Marking(w, i)' => Marking(w, i)
      PROVE  ShownPaidFor'
  <2> SUFFICES ASSUME NEW i \in Ids
               PROVE  /\ IsFiniteSet(Markers(i)')
                      /\ shown'[i] + Cardinality(Markers(i)') <= qrJournaled'[i]
    BY DEF ShownPaidFor
  <2>1. Markers(i)' \subseteq Markers(i)
    BY <1>3 DEF Markers
  <2>2. /\ IsFiniteSet(Markers(i)') /\ Cardinality(Markers(i)') \in Nat
        /\ Cardinality(Markers(i)') <= Cardinality(Markers(i))
    BY <1>2, <2>1, FS_Subset, FS_CardinalityType
  <2> QED
    BY <1>1, <1>2, <1>3, <2>2
<1>4. ASSUME NEW w \in Workers, PollJournal(w)
      PROVE  ShownPaidFor'
  <2>1. /\ slot[w].pc = "qr_journal" /\ slot'[w].pc = "mark"
        /\ slot'[w].id = slot[w].id
        /\ \A v \in Workers \ {w} : slot'[v] = slot[v]
    BY <1>1, <1>4 DEF PollJournal, Enter, SlotType
  <2> SUFFICES ASSUME NEW i \in Ids
               PROVE  /\ IsFiniteSet(Markers(i)')
                      /\ shown'[i] + Cardinality(Markers(i)') <= qrJournaled'[i]
    BY DEF ShownPaidFor
  <2>2. /\ shown' = shown
        /\ qrJournaled'[i] = IF i \in slot[w].id
                             THEN qrJournaled[i] + 1 ELSE qrJournaled[i]
    BY <1>4 DEF PollJournal
  <2>3. CASE i \in slot[w].id
    <3>1. Markers(i)' = Markers(i) \cup {w} /\ w \notin Markers(i)
      BY <2>1, <2>3 DEF Markers, Marking
    <3>2. /\ IsFiniteSet(Markers(i)')
          /\ Cardinality(Markers(i)') = Cardinality(Markers(i)) + 1
      BY <1>2, <3>1, FS_AddElement
    <3> QED
      BY <1>1, <1>2, <2>2, <2>3, <3>2
  <2>4. CASE i \notin slot[w].id
    <3>1. Markers(i)' = Markers(i)
      BY <2>1, <2>4 DEF Markers, Marking
    <3> QED
      BY <1>1, <1>2, <2>2, <2>4, <3>1
  <2> QED
    BY <2>3, <2>4
<1>5. ASSUME NEW w \in Workers, ShowVerified(w), qrJournaled' = qrJournaled,
             slot[w].pc \in {"mark", "mark_write"}
      PROVE  ShownPaidFor'
  <2>1. /\ slot'[w].pc = "idle"
        /\ \A v \in Workers \ {w} : slot'[v] = slot[v]
    BY <1>1, <1>5 DEF ShowVerified, Leave, Enter, Idle
  <2> SUFFICES ASSUME NEW i \in Ids
               PROVE  /\ IsFiniteSet(Markers(i)')
                      /\ shown'[i] + Cardinality(Markers(i)') <= qrJournaled'[i]
    BY DEF ShownPaidFor
  <2>2. shown'[i] = IF i \in slot[w].id THEN shown[i] + 1 ELSE shown[i]
    BY <1>5 DEF ShowVerified
  <2>3. CASE i \in slot[w].id
    <3>1. Markers(i)' = Markers(i) \ {w} /\ w \in Markers(i)
      BY <1>5, <2>1, <2>3 DEF Markers, Marking
    <3>2. /\ IsFiniteSet(Markers(i)')
          /\ Cardinality(Markers(i)') = Cardinality(Markers(i)) - 1
      BY <1>2, <3>1, FS_RemoveElement
    <3> QED
      BY <1>1, <1>2, <1>5, <2>2, <2>3, <3>2
  <2>4. CASE i \notin slot[w].id
    <3>1. Markers(i)' = Markers(i)
      BY <2>1, <2>4 DEF Markers, Marking
    <3> QED
      BY <1>1, <1>2, <1>5, <2>2, <2>4, <3>1
  <2> QED
    BY <2>3, <2>4
<1>6. ASSUME NEW w \in Workers, Mark(w)
      PROVE  ShownPaidFor'
  <2>1. CASE ShowVerified(w)
    BY <1>5, <1>6, <2>1 DEF Mark
  <2>2. ASSUME NEW row, Enter(w, [slot[w] EXCEPT !.pc = "mark_write", !.tx = {row}]),
               shown' = shown
        PROVE  ShownPaidFor'
    <3>1. slot[w].pc = "mark" /\ qrJournaled' = qrJournaled
      BY <1>6 DEF Mark
    <3>2. \A v \in Workers, i \in Ids : Marking(v, i)' => Marking(v, i)
      BY <1>1, <2>2, <3>1 DEF Enter, Marking, SlotType
    <3> QED
      BY <1>3, <2>2, <3>1, <3>2
  <2> QED
    BY <1>6, <2>1, <2>2 DEF Mark
<1>7. ASSUME NEW w \in Workers, MarkWrite(w)
      PROVE  ShownPaidFor'
  BY <1>5, <1>7 DEF MarkWrite
<1>8. ASSUME NEW w \in Workers, NEW s, Enter(w, s), s.pc \notin {"mark", "mark_write"},
             UNCHANGED <<shown, qrJournaled>>
      PROVE  ShownPaidFor'
  <2>1. \A v \in Workers, i \in Ids : Marking(v, i)' => Marking(v, i)
    BY <1>1, <1>8 DEF Enter, Marking
  <2> QED
    BY <1>3, <1>8, <2>1
<1>9. ASSUME UNCHANGED <<slot, shown, qrJournaled>>
      PROVE  ShownPaidFor'
  BY <1>3, <1>9 DEF Marking
<1>10. ASSUME NEW w \in Workers, Leave(w), UNCHANGED <<shown, qrJournaled>>
       PROVE  ShownPaidFor'
  BY <1>8, <1>10 DEF Leave, Idle
<1>11. ASSUME NEW w \in Workers, Call(w)
       PROVE  ShownPaidFor'
  <2>1. UNCHANGED <<shown, qrJournaled>>
    BY <1>11 DEF Call, Fetch, Poll, Post, Refuse, Verify, history
  <2>2. CASE \E i \in Ids : Fetch(w, i)
    <3>1. \A i : [Idle EXCEPT !.pc = "purge", !.id = {i}].pc = "purge"
      BY DEF Idle
    <3> QED
      BY <1>8, <1>9, <2>1, <2>2, <3>1 DEF Fetch
  <2>3. CASE \E i \in Ids : Poll(w, i)
    <3>1. \A i : [Idle EXCEPT !.pc = "status", !.id = {i}].pc = "status"
      BY DEF Idle
    <3> QED
      BY <1>8, <2>1, <2>3, <3>1 DEF Poll
  <2>4. CASE \E row, new : Update(w, row, new)
    <3>1. \A new : [Idle EXCEPT !.pc = "write", !.tx = {new}].pc = "write"
      BY DEF Idle
    <3> QED
      BY <1>8, <1>9, <2>1, <2>4, <3>1 DEF Update
  <2>5. CASE \E state \in SUBSET States, token \in Tokens : Verify(w, state, token)
    <3>1. \A p, state, token, tx :
             [Idle EXCEPT !.pc = p, !.state = state, !.token = {token}, !.tx = tx].pc = p
      BY DEF Idle
    <3>2. \E p \in {"attest", "consume"} : \E state, token, tx :
             Enter(w, [Idle EXCEPT !.pc = p, !.state = state, !.token = {token},
                                   !.tx = tx])
      BY <2>5 DEF Verify
    <3> QED
      BY <1>8, <2>1, <3>1, <3>2
  <2>6. ASSUME NEW s \in States
        PROVE  {s} \in SUBSET States /\ {} \in SUBSET States
    OBVIOUS
  <2> QED
    BY <1>11, <2>2, <2>3, <2>4, <2>5, <2>6 DEF Call, Refuse, Post
<1>12. ASSUME NEW w \in Workers,
              Purge(w) \/ Write(w) \/ ConsumeFind(w) \/ ConsumeDelete(w) \/ Attest(w)
              \/ Respond(w) \/ PollStatus(w) \/ PollVerify(w)
       PROVE  ShownPaidFor'
  <2>1. UNCHANGED <<shown, qrJournaled>>
    BY <1>12 DEF Purge, Write, ConsumeFind, ConsumeDelete, Attest, Respond, PollStatus,
       PollVerify, history
  <2>2. slot[w] \in SlotType
    BY <1>1
  <2>3. CASE ConsumeFind(w)
    <3>1. \A i : [slot[w] EXCEPT !.pc = "delete", !.id = {i}].pc = "delete"
      BY <2>2 DEF SlotType
    <3> QED
      BY <1>8, <1>10, <2>1, <2>3, <3>1 DEF ConsumeFind
  <2>4. CASE ConsumeDelete(w)
    <3>1. [slot[w] EXCEPT !.pc = "attest"].pc = "attest"
      BY <2>2 DEF SlotType
    <3> QED
      BY <1>8, <1>10, <2>1, <2>4, <3>1 DEF ConsumeDelete
  <2>5. CASE PollStatus(w)
    <3>1. \A s, t : [slot[w] EXCEPT !.pc = "qr_verify", !.state = s,
                                    !.token = t].pc = "qr_verify"
      BY <2>2 DEF SlotType
    <3> QED
      BY <1>8, <1>10, <2>1, <2>5, <3>1 DEF PollStatus
  <2>6. CASE PollVerify(w)
    <3>1. \A tx : [slot[w] EXCEPT !.pc = "qr_journal", !.tx = tx].pc = "qr_journal"
      BY <2>2 DEF SlotType
    <3> QED
      BY <1>8, <1>10, <2>1, <2>6, <3>1 DEF PollVerify
  <2>7. CASE Attest(w)
    <3>1. [Idle EXCEPT !.pc = "respond", !.id = slot[w].id].pc = "respond"
      BY DEF Idle
    <3> QED
      BY <1>8, <1>10, <2>1, <2>7, <3>1 DEF Attest, ToResponse
  <2> QED
    BY <1>10, <1>12, <2>1, <2>3, <2>4, <2>5, <2>6, <2>7 DEF Purge, Write, Respond
<1>13. CASE Restart
  <2>1. \A w \in Workers : slot'[w].pc = "idle"
    BY <1>13 DEF Restart, Idle
  <2> QED
    BY <1>3, <1>13, <2>1 DEF Restart, Marking, history
<1>14. CASE Tick \/ (\E i \in Ids, s \in States, n \in Nonces : InitTransaction(i, s, n))
            \/ UNCHANGED vars
  BY <1>9, <1>14 DEF Tick, InitTransaction, history, vars
<1>15. \A w \in Workers : ~ Abandon(w)
  BY DEF Abandon
<1> QED
  BY <1>4, <1>6, <1>7, <1>11, <1>12, <1>13, <1>14, <1>15 DEF Next, Step

\* While nothing fails, the QR poll writes an entry for every answer "verified",
\* through restarts and for all interleavings of polls: the journal error that
\* verify_vp_token_for_qr drops is the only way to an answer without an entry.
THEOREM QrRecordedWithoutFailures == ASSUME ~ Failures PROVE Spec => []QrRecorded
<1>1. Init => (JournalEnabled => ShownPaidFor)
  <2> SUFFICES ASSUME Init, NEW i \in Ids
               PROVE  /\ IsFiniteSet(Markers(i))
                      /\ shown[i] + Cardinality(Markers(i)) <= qrJournaled[i]
    BY DEF ShownPaidFor
  <2>1. Markers(i) = {} /\ shown[i] = 0 /\ qrJournaled[i] = 0
    BY DEF Init, Markers, Marking, Idle
  <2> QED
    BY <2>1, FS_EmptySet
<1>2. TypeOK /\ (JournalEnabled => ShownPaidFor) /\ [Next]_vars
         => (JournalEnabled => ShownPaidFor)'
  BY ShownStep
<1>3. TypeOK /\ (JournalEnabled => ShownPaidFor) => QrRecorded
  <2> SUFFICES ASSUME TypeOK, ShownPaidFor, NEW i \in Ids
               PROVE  shown[i] <= qrJournaled[i]
    BY DEF QrRecorded
  <2>1. shown[i] \in Nat /\ qrJournaled[i] \in Nat
    BY DEF TypeOK
  <2>2. Cardinality(Markers(i)) \in Nat
        /\ shown[i] + Cardinality(Markers(i)) <= qrJournaled[i]
    BY FS_CardinalityType DEF ShownPaidFor
  <2> QED
    BY <2>1, <2>2
<1> QED
  BY <1>1, <1>2, <1>3, InitType, TypeStep, PTL DEF Spec

-----------------------------------------------------------------------------
(* The life of a transaction over an atomic store *)

\* A step that claims no transaction: rows and attesting calls may disappear.
Quiet ==
    /\ UNCHANGED <<created, revived, granted, journaled>>
    /\ \A row \in table' : \E old \in table : old.id = row.id
    /\ \A w \in Workers, i \in Ids : /\ Recording(w, i)' => Recording(w, i)
                                     /\ Responding(w, i)' => Responding(w, i)

LEMMA QuietSlot ==
    ASSUME TypeOK, NEW w \in Workers, NEW s, Enter(w, s),
           s.pc \in {"attest", "respond"} => s.id = {}
    PROVE  \A v \in Workers, i \in Ids : /\ Recording(v, i)' => Recording(v, i)
                                         /\ Responding(v, i)' => Responding(v, i)
BY DEF TypeOK, Enter, Recording, Responding

LEMMA QuietLeave ==
    ASSUME TypeOK, NEW w \in Workers, Leave(w)
    PROVE  \A v \in Workers, i \in Ids : /\ Recording(v, i)' => Recording(v, i)
                                         /\ Responding(v, i)' => Responding(v, i)
BY QuietSlot DEF Leave, Idle

\* Only these steps claim a transaction.
Consumes(w, i) == /\ ConsumeDelete(w)
                  /\ slot[w].id = {i}
                  /\ ById(i) # {}

Records(w, i) == /\ Attest(w)
                 /\ slot[w].id = {i}
                 /\ IF JournalEnabled
                    THEN journaled' = [journaled EXCEPT ![i] = @ + 1]
                    ELSE journaled' = journaled /\ ToResponse(w)

Grants(w, i) == /\ Respond(w)
                /\ slot[w].id = {i}
                /\ granted' = [granted EXCEPT ![i] = @ + 1]

\* The stale write: a row that was deleted is in the table again.
Reinserts(w, i) ==
    /\ slot[w].pc \in {"write", "mark_write"}
    /\ UNCHANGED <<created, granted, journaled>>
    /\ revived' = [revived EXCEPT ![i] = @ + 1]
    /\ ById(i) = {}
    /\ ById(i)' # {}
    /\ \E c \in created : c.id = i
    /\ \A j \in Ids \ {i} : ById(j)' = {} <=> ById(j) = {}
    /\ \A v \in Workers, j \in Ids : /\ Recording(v, j)' <=> Recording(v, j)
                                     /\ Responding(v, j)' <=> Responding(v, j)

\* Of a write back, only the insertion of a deleted row is not quiet.
LEMMA WriteBack ==
    ASSUME TypeOK, CallsInv, NEW w \in Workers, Write(w) \/ MarkWrite(w)
    PROVE  Quiet \/ \E i \in Ids : Reinserts(w, i)
<1>1. /\ Leave(w)
      /\ UNCHANGED <<created, granted, journaled>>
      /\ \/ \E row \in slot[w].tx : Upsert(row)
         \/ UNCHANGED <<table, revived>>
  BY DEF Write, MarkWrite, ShowVerified
<1>2. \A v \in Workers, i \in Ids : /\ Recording(v, i)' => Recording(v, i)
                                    /\ Responding(v, i)' => Responding(v, i)
  BY <1>1, QuietLeave
<1>3. CASE UNCHANGED <<table, revived>>
  BY <1>1, <1>2, <1>3 DEF Quiet
<1>4. ASSUME NEW row \in slot[w].tx, Upsert(row)
      PROVE  Quiet \/ \E i \in Ids : Reinserts(w, i)
  <2>1. row.id \in Ids /\ \E c \in created : c.id = row.id
    BY <1>4 DEF TypeOK, SlotType, Row, CallsInv, SlotsCoherent, Coherent, Kept
  <2>2. CASE Conflict(row)
    BY <1>3, <1>4, <2>2 DEF Upsert
  <2>3. CASE ~ Conflict(row) /\ ById(row.id) # {}
    <3>1. /\ table' = {other \in table : other.id # row.id} \cup {row}
          /\ revived' = revived
      BY <1>4, <2>3 DEF Upsert
    <3>2. \E old \in table : old.id = row.id
      BY <2>3 DEF ById
    <3> QED
      BY <1>1, <1>2, <3>1, <3>2 DEF Quiet
  <2>4. CASE ~ Conflict(row) /\ ById(row.id) = {}
    <3>1. /\ table' = {other \in table : other.id # row.id} \cup {row}
          /\ revived' = [revived EXCEPT ![row.id] = @ + 1]
      BY <1>4, <2>4 DEF Upsert
    <3>2. slot[w].pc \in {"write", "mark_write"}
      BY DEF Write, MarkWrite
    <3>3. ById(row.id)' # {} /\ \A j \in Ids \ {row.id} : ById(j)' = ById(j)
      BY <3>1 DEF ById
    <3>4. \A v \in Workers, j \in Ids : /\ Recording(v, j)' <=> Recording(v, j)
                                        /\ Responding(v, j)' <=> Responding(v, j)
      BY <1>1, <3>2 DEF TypeOK, Leave, Enter, Idle, Recording, Responding
    <3> QED
      BY <1>1, <2>1, <2>4, <3>1, <3>2, <3>3, <3>4 DEF Reinserts
  <2> QED
    BY <2>2, <2>3, <2>4
<1> QED
  BY <1>1, <1>3, <1>4

LEMMA StepsAreQuiet ==
    ASSUME TypeOK, CallsInv, [Next]_vars
    PROVE  \/ Quiet
           \/ \E i \in Ids, s \in States, n \in Nonces : InitTransaction(i, s, n)
           \/ \E w \in Workers, i \in Ids : Consumes(w, i)
           \/ \E w \in Workers, i \in Ids : Records(w, i)
           \/ \E w \in Workers, i \in Ids : Grants(w, i)
           \/ \E w \in Workers, i \in Ids : Reinserts(w, i)
<1>1. ASSUME UNCHANGED slot
      PROVE  \A w \in Workers, i \in Ids : /\ Recording(w, i)' => Recording(w, i)
                                           /\ Responding(w, i)' => Responding(w, i)
  BY <1>1 DEF Recording, Responding
<1>2. ASSUME NEW w \in Workers, Call(w)
      PROVE  Quiet
  <2>1. UNCHANGED <<created, revived, granted, journaled>>
    BY <1>2 DEF Call, Fetch, Poll, Post, Refuse, Verify, history
  <2>2. \A row \in table' : \E old \in table : old.id = row.id
    <3>1. ASSUME NEW row \in table, NEW new, new.id = row.id, Update(w, row, new)
          PROVE  \A r \in table' : \E old \in table : old.id = r.id
      BY <3>1 DEF Update
    <3>2. CASE \E s \in States : Refuse(w, s) \/ \E token \in Tokens : Post(w, s, token)
      <4>1. PICK row \in table :
               \/ Update(w, row, Refused(row))
               \/ \E token \in Tokens : Update(w, row, Received(row, token))
        BY <3>2 DEF Refuse, Post, ByState
      <4>2. row \in Row
        BY DEF TypeOK
      <4>3. /\ Refused(row).id = row.id
            /\ \A token \in Tokens : Received(row, token).id = row.id
        BY <4>2 DEF Refused, Received, Row
      <4> QED
        BY <3>1, <4>1, <4>3
    <3>3. CASE table' \subseteq table
      BY <3>3
    <3> QED
      BY <1>2, <3>2, <3>3 DEF Call, Fetch, Poll, Verify, Delete
  <2>3. CASE UNCHANGED slot
    BY <1>1, <2>1, <2>2, <2>3 DEF Quiet
  <2>4. CASE \E s : Enter(w, s) /\ (s.pc \in {"attest", "respond"} => s.id = {})
    BY <2>1, <2>2, <2>4, QuietSlot DEF Quiet
  <2>5. ASSUME NEW i \in Ids
        PROVE  /\ [Idle EXCEPT !.pc = "status", !.id = {i}].pc \notin {"attest", "respond"}
               /\ [Idle EXCEPT !.pc = "purge", !.id = {i}].pc \notin {"attest", "respond"}
    BY DEF Idle
  <2>6. ASSUME NEW state, NEW token, NEW tx
        PROVE  LET s == [Idle EXCEPT !.pc = IF state = {} THEN "attest" ELSE "consume",
                                     !.state = state, !.token = {token}, !.tx = tx]
               IN  s.pc \in {"attest", "respond"} => s.id = {}
    BY DEF Idle
  <2>7. CASE \E i \in Ids : Fetch(w, i)
    BY <2>3, <2>4, <2>5, <2>7 DEF Fetch
  <2>8. CASE \E i \in Ids : Poll(w, i)
    BY <2>4, <2>5, <2>8 DEF Poll
  <2>9. CASE \E s \in States : Refuse(w, s) \/ \E token \in Tokens : Post(w, s, token)
    <3>1. ASSUME NEW tx
          PROVE  [Idle EXCEPT !.pc = "write", !.tx = tx].pc \notin {"attest", "respond"}
      BY DEF Idle
    <3> QED
      BY <2>3, <2>4, <2>9, <3>1 DEF Refuse, Post, Update
  <2>10. CASE \E token \in Tokens : \E state \in SUBSET States : Verify(w, state, token)
    <3>1. PICK token, state, tx :
             Enter(w, [Idle EXCEPT !.pc = IF state = {} THEN "attest" ELSE "consume",
                                   !.state = state, !.token = {token}, !.tx = tx])
      BY <2>10 DEF Verify
    <3> DEFINE s == [Idle EXCEPT !.pc = IF state = {} THEN "attest" ELSE "consume",
                                 !.state = state, !.token = {token}, !.tx = tx]
    <3>2. Enter(w, s) /\ (s.pc \in {"attest", "respond"} => s.id = {})
      BY <2>6, <3>1
    <3> QED
      BY <2>4, <3>2
  <2>11. \A s \in States : {s} \in SUBSET States /\ {} \in SUBSET States
    OBVIOUS
  <2> QED
    BY <1>2, <2>7, <2>8, <2>9, <2>10, <2>11 DEF Call
<1>3. ASSUME NEW w \in Workers, Step(w)
      PROVE  Quiet \/ \E i \in Ids : Consumes(w, i) \/ Records(w, i)
                                  \/ Grants(w, i) \/ Reinserts(w, i)
  <2>1. slot[w] \in SlotType /\ Coherent(created, slot[w]) /\ created' = created
    BY <1>3
       DEF TypeOK, CallsInv, SlotsCoherent, Step, Purge, Write, ConsumeFind,
           ConsumeDelete, Attest, Respond, PollStatus, PollVerify, PollJournal, Mark,
           MarkWrite,
           history
  <2>2. CASE Purge(w)
    <3>1. Leave(w) /\ table' \subseteq table /\ UNCHANGED <<revived, granted, journaled>>
      BY <2>2 DEF Purge, Delete, history
    <3> QED
      BY <2>1, <3>1, QuietLeave DEF Quiet
  <2>3. CASE ConsumeFind(w) \/ PollStatus(w) \/ PollVerify(w) \/ PollJournal(w)
    <3>1. UNCHANGED <<table, revived, granted, journaled>>
      BY <2>3 DEF ConsumeFind, PollStatus, PollVerify, PollJournal, history
    <3>2. ASSUME NEW s, Enter(w, s), s.pc \notin {"attest", "respond"}
          PROVE  Quiet
      BY <2>1, <3>1, <3>2, QuietSlot DEF Quiet
    <3>3. ASSUME NEW id, NEW state, NEW token, NEW tx
          PROVE  /\ LET s == [slot[w] EXCEPT !.pc = "delete", !.id = id]
                    IN  s.pc \notin {"attest", "respond"}
                 /\ LET s == [slot[w] EXCEPT !.pc = "qr_verify", !.state = state,
                                             !.token = token]
                    IN  s.pc \notin {"attest", "respond"}
                 /\ LET s == [slot[w] EXCEPT !.pc = "qr_journal", !.tx = tx]
                    IN  s.pc \notin {"attest", "respond"}
                 /\ LET s == [slot[w] EXCEPT !.pc = "mark", !.tx = tx]
                    IN  s.pc \notin {"attest", "respond"}
      BY <2>1 DEF SlotType
    <3>4. CASE Leave(w)
      BY <2>1, <3>1, <3>4, QuietLeave DEF Quiet
    <3>5. CASE ConsumeFind(w) /\ ~ Leave(w)
      BY <3>2, <3>3, <3>5 DEF ConsumeFind
    <3>6. CASE PollStatus(w) /\ ~ Leave(w)
      BY <3>2, <3>3, <3>6 DEF PollStatus
    <3>7. CASE PollVerify(w) /\ ~ Leave(w)
      BY <3>2, <3>3, <3>7 DEF PollVerify
    <3>8. CASE PollJournal(w)
      BY <3>2, <3>3, <3>8 DEF PollJournal
    <3> QED
      BY <2>3, <3>4, <3>5, <3>6, <3>7, <3>8
  <2>4. CASE Mark(w)
    <3> DEFINE rows == {row \in table : row.id \in slot[w].id}
    <3>1. UNCHANGED <<revived, granted, journaled>>
      BY <2>4 DEF Mark
    <3>2. CASE rows = {} \/ Atomic
      <4>1. Leave(w) /\ table' = (table \ rows) \cup {Verified(row) : row \in rows}
        BY <2>4, <3>2 DEF Mark, ShowVerified
      <4>2. \A row \in table : Verified(row).id = row.id
        BY DEF TypeOK, Verified, Row
      <4>3. \A row \in table' : \E old \in table : old.id = row.id
        BY <4>1, <4>2
      <4> QED
        BY <2>1, <3>1, <4>1, <4>3, QuietLeave DEF Quiet
    <3>3. CASE ~ (rows = {} \/ Atomic)
      <4>1. PICK row : Enter(w, [slot[w] EXCEPT !.pc = "mark_write",
                                               !.tx = {Verified(row)}])
        BY <2>4, <3>3 DEF Mark
      <4>2. table' = table
        BY <2>4, <3>3 DEF Mark
      <4>3. [slot[w] EXCEPT !.pc = "mark_write", !.tx = {Verified(row)}].pc \notin {"attest", "respond"}
        BY <2>1 DEF SlotType
      <4> QED
        BY <2>1, <3>1, <4>1, <4>2, <4>3, QuietSlot DEF Quiet
    <3> QED
      BY <3>2, <3>3
  <2>5. CASE ConsumeDelete(w)
    <3>1. PICK i \in slot[w].id :
             IF ById(i) = {} THEN Leave(w) /\ UNCHANGED table
             ELSE Delete(i) /\ Enter(w, [slot[w] EXCEPT !.pc = "attest"])
      BY <2>5 DEF ConsumeDelete
    <3>2. i \in Ids /\ slot[w].id = {i}
      BY <2>1 DEF SlotType, Coherent
    <3>3. CASE ById(i) = {}
      BY <2>1, <2>5, <3>1, <3>3, QuietLeave DEF Quiet, ConsumeDelete, history
    <3>4. CASE ById(i) # {}
      BY <2>5, <3>2, <3>4 DEF Consumes
    <3> QED
      BY <3>3, <3>4
  <2>6. CASE Attest(w)
    <3>1. /\ UNCHANGED <<table, created, revived, granted>>
          /\ ToResponse(w) \/ Leave(w)
          /\ IF JournalEnabled THEN journaled' = OneMore(journaled, w)
             ELSE journaled' = journaled /\ ToResponse(w)
      BY <2>6 DEF Attest
    <3>2. CASE slot[w].id = {}
      <4>1. journaled' = journaled
        BY <3>1, <3>2 DEF OneMore, TypeOK
      <4>2. \A v \in Workers, i \in Ids : /\ Recording(v, i)' => Recording(v, i)
                                          /\ Responding(v, i)' => Responding(v, i)
        <5>1. [Idle EXCEPT !.pc = "respond", !.id = slot[w].id].id = {}
          BY <3>2 DEF Idle
        <5> QED
          BY <3>1, <5>1, QuietSlot, QuietLeave DEF ToResponse
      <4> QED
        BY <3>1, <4>1, <4>2 DEF Quiet
    <3>3. CASE slot[w].id # {}
      <4>1. PICK i \in Ids : slot[w].id = {i}
        BY <2>1, <3>3 DEF SlotType, Coherent
      <4>2. OneMore(journaled, w) = [journaled EXCEPT ![i] = @ + 1]
        BY <4>1 DEF OneMore, TypeOK
      <4> QED
        BY <2>6, <3>1, <4>1, <4>2 DEF Records
    <3> QED
      BY <3>2, <3>3
  <2>7. CASE Respond(w)
    <3>1. /\ UNCHANGED <<table, created, revived, journaled>>
          /\ Leave(w)
          /\ granted' = OneMore(granted, w)
      BY <2>7 DEF Respond
    <3>2. CASE slot[w].id = {}
      <4>1. granted' = granted
        BY <3>1, <3>2 DEF OneMore, TypeOK
      <4> QED
        BY <3>1, <4>1, QuietLeave DEF Quiet
    <3>3. CASE slot[w].id # {}
      <4>1. PICK i \in Ids : slot[w].id = {i}
        BY <2>1, <3>3 DEF SlotType, Coherent
      <4>2. OneMore(granted, w) = [granted EXCEPT ![i] = @ + 1]
        BY <4>1 DEF OneMore, TypeOK
      <4> QED
        BY <2>7, <3>1, <4>1, <4>2 DEF Grants
    <3> QED
      BY <3>2, <3>3
  <2>8. CASE Write(w) \/ MarkWrite(w)
    BY <2>8, WriteBack
  <2> QED
    BY <1>3, <2>2, <2>3, <2>4, <2>5, <2>6, <2>7, <2>8 DEF Step
<1>4. ASSUME NEW w \in Workers, Abandon(w)
      PROVE  Quiet
  BY <1>4, QuietLeave DEF Abandon, Quiet, history
<1>5. CASE Tick \/ UNCHANGED vars
  <2>1. UNCHANGED <<slot, table, created, revived, granted, journaled>>
    BY <1>5 DEF Tick, vars, history
  <2> QED
    BY <1>1, <2>1 DEF Quiet
<1>6. CASE Restart
  <2>1. /\ slot' = [w \in Workers |-> Idle]
        /\ table' \subseteq table
        /\ UNCHANGED <<created, revived, granted, journaled>>
    BY <1>6 DEF Restart, history
  <2>2. \A w \in Workers : slot'[w].pc = "idle"
    BY <2>1 DEF Idle
  <2> QED
    BY <2>1, <2>2 DEF Quiet, Recording, Responding
<1> QED
  BY <1>2, <1>3, <1>4, <1>5, <1>6 DEF Next

\* Of no interest to an atomic store: claims are given up, or recorded.
Harmless ==
    /\ UNCHANGED <<created, granted>>
    /\ \A row \in table' : \E old \in table : old.id = row.id
    /\ \A w \in Workers, i \in Ids : Attesting(w, i)' => Attesting(w, i)

LEMMA RecordsHarmless ==
    ASSUME TypeOK, NEW w \in Workers, NEW i \in Ids, Records(w, i)
    PROVE  Harmless
<1>1. /\ UNCHANGED <<table, created, granted>>
      /\ slot[w].pc = "attest"
      /\ ToResponse(w) \/ Leave(w)
  BY DEF Records, Attest
<1>2. CASE ToResponse(w)
  <2>1. /\ slot'[w].pc = "respond" /\ slot'[w].id = slot[w].id
        /\ \A v \in Workers \ {w} : slot'[v] = slot[v]
    BY <1>2 DEF TypeOK, ToResponse, Enter, Idle
  <2> QED
    BY <1>1, <2>1 DEF Harmless, Attesting, Recording, Responding
<1>3. CASE Leave(w)
  BY <1>1, <1>3, QuietLeave DEF Harmless, Attesting
<1> QED
  BY <1>1, <1>2, <1>3

LEMMA QuietHarmless == Quiet => Harmless
BY DEF Quiet, Harmless, Attesting

\* Over an atomic store no call holds a row that it read, to write it later.
LEMMA NothingReinsertedStep ==
    ASSUME Atomic, TypeOK, NothingReinserted, [Next]_vars
    PROVE  NothingReinserted'
<1>1. ASSUME NEW w \in Workers, NEW s, Enter(w, s), s.pc \notin {"write", "mark_write"}
      PROVE  NothingReinserted'
  BY <1>1 DEF TypeOK, Enter, NothingReinserted
<1>2. ASSUME NEW w \in Workers, Leave(w)
      PROVE  NothingReinserted'
  BY <1>1, <1>2 DEF Leave, Idle
<1>3. CASE UNCHANGED slot
  BY <1>3 DEF NothingReinserted
<1>4. ASSUME NEW w \in Workers, Call(w)
      PROVE  NothingReinserted'
  <2>1. CASE \E s \in States : Refuse(w, s) \/ \E token \in Tokens : Post(w, s, token)
    BY <1>3, <2>1 DEF Refuse, Post, Update
  <2>2. CASE \E i \in Ids : Fetch(w, i) \/ Poll(w, i)
    <3>1. ASSUME NEW i \in Ids
          PROVE  [Idle EXCEPT !.pc = "status", !.id = {i}].pc = "status"
      BY DEF Idle
    <3> QED
      BY <1>1, <1>3, <2>2, <3>1 DEF Fetch, Poll
  <2>3. CASE \E token \in Tokens, state \in SUBSET States : Verify(w, state, token)
    <3>1. ASSUME NEW state, NEW token, NEW tx
          PROVE  [Idle EXCEPT !.pc = IF state = {} THEN "attest" ELSE "consume",
                              !.state = state, !.token = {token}, !.tx = tx].pc
                   \in {"attest", "consume"}
      BY DEF Idle
    <3> QED
      BY <1>1, <2>3, <3>1 DEF Verify
  <2>4. \A s \in States : {s} \in SUBSET States /\ {} \in SUBSET States
    OBVIOUS
  <2> QED
    BY <1>4, <2>1, <2>2, <2>3, <2>4 DEF Call
<1>5. ASSUME NEW w \in Workers, Step(w)
      PROVE  NothingReinserted'
  <2>1. /\ slot[w] \in SlotType
        /\ slot[w].pc \notin {"write", "mark_write"}
    BY DEF TypeOK, NothingReinserted
  <2>2. CASE Purge(w) \/ Attest(w) \/ Respond(w) \/ Mark(w)
    <3>1. [Idle EXCEPT !.pc = "respond", !.id = slot[w].id].pc = "respond"
      BY DEF Idle
    <3>2. ToResponse(w) => NothingReinserted'
      BY <1>1, <3>1 DEF ToResponse
    <3>3. CASE Attest(w)
      BY <1>2, <3>2, <3>3 DEF Attest
    <3> QED
      BY <1>2, <2>2, <3>3 DEF Purge, Respond, Mark, ShowVerified
  <2>3. CASE ConsumeFind(w) \/ ConsumeDelete(w) \/ PollStatus(w) \/ PollVerify(w)
               \/ PollJournal(w)
    <3>1. ASSUME NEW id, NEW state, NEW token, NEW tx
          PROVE  /\ [slot[w] EXCEPT !.pc = "delete", !.id = id].pc = "delete"
                 /\ [slot[w] EXCEPT !.pc = "attest"].pc = "attest"
                 /\ [slot[w] EXCEPT !.pc = "qr_verify", !.state = state,
                                     !.token = token].pc = "qr_verify"
                 /\ [slot[w] EXCEPT !.pc = "qr_journal", !.tx = tx].pc = "qr_journal"
                 /\ [slot[w] EXCEPT !.pc = "mark", !.tx = tx].pc = "mark"
      BY <2>1 DEF SlotType
    <3>2. CASE ConsumeFind(w)
      BY <1>1, <1>2, <3>1, <3>2 DEF ConsumeFind
    <3>3. CASE ConsumeDelete(w)
      <4>1. Leave(w) \/ Enter(w, [slot[w] EXCEPT !.pc = "attest"])
        BY <3>3 DEF ConsumeDelete
      <4> QED
        BY <1>1, <1>2, <3>1, <4>1
    <3>4. CASE PollStatus(w)
      <4>1. \/ Leave(w)
            \/ \E state, token : Enter(w, [slot[w] EXCEPT !.pc = "qr_verify",
                                           !.state = state, !.token = token])
        BY <3>4 DEF PollStatus
      <4>2. ASSUME NEW state, NEW token,
                   Enter(w, [slot[w] EXCEPT !.pc = "qr_verify",
                                            !.state = state, !.token = token])
            PROVE  NothingReinserted'
        <5>1. [slot[w] EXCEPT !.pc = "qr_verify", !.state = state,
                              !.token = token].pc = "qr_verify"
          BY <3>1
        <5> QED
          BY <1>1, <4>2, <5>1
      <4> QED
        BY <1>2, <4>1, <4>2
    <3>5. CASE PollVerify(w)
      <4>1. \/ Leave(w)
            \/ \E tx : Enter(w, [slot[w] EXCEPT !.pc = "qr_journal", !.tx = tx])
        BY <3>5 DEF PollVerify
      <4> QED
        BY <1>1, <1>2, <3>1, <4>1
    <3>6. CASE PollJournal(w)
      BY <1>1, <3>1, <3>6 DEF PollJournal
    <3> QED
      BY <2>3, <3>2, <3>3, <3>4, <3>5, <3>6
  <2> QED
    BY <1>5, <2>1, <2>2, <2>3 DEF Step, Write, MarkWrite
<1>6. CASE Restart
  BY <1>6 DEF Restart, NothingReinserted, Idle
<1> QED
  BY <1>2, <1>3, <1>4, <1>5, <1>6
     DEF Next, InitTransaction, Abandon, Tick, vars

LEMMA ClaimsStep ==
    ASSUME Atomic, TypeOK, CallsInv, ClaimsInv, [Next]_vars
    PROVE  ClaimsInv'
<1>1. NothingReinserted'
  BY NothingReinsertedStep DEF ClaimsInv
<1>2. granted \in [Ids -> Nat] /\ table \subseteq Row /\ created \subseteq Row
  BY DEF TypeOK
<1>3. CASE Harmless
  <2>1. RowsUnused'
    <3> SUFFICES ASSUME NEW row \in table'
                 PROVE  /\ granted'[row.id] = 0
                        /\ \A w \in Workers : ~ Attesting(w, row.id)'
      BY DEF RowsUnused, Attesting
    <3>1. PICK old \in table : old.id = row.id
      BY <1>3 DEF Harmless
    <3>2. row.id \in Ids
      BY <1>2, <3>1 DEF Row
    <3> QED
      BY <1>3, <3>1, <3>2 DEF Harmless, ClaimsInv, RowsUnused
  <2>2. AttestersAlone'
    BY <1>3 DEF Harmless, ClaimsInv, AttestersAlone
  <2>3. GrantedCreated' /\ SingleUse'
    BY <1>3 DEF Harmless, ClaimsInv, GrantedCreated, SingleUse
  <2> QED
    BY <1>1, <2>1, <2>2, <2>3 DEF ClaimsInv
<1>4. CASE \E i \in Ids, s \in States, n \in Nonces : InitTransaction(i, s, n)
  <2>1. PICK i \in Ids, s \in States, n \in Nonces : InitTransaction(i, s, n)
    BY <1>4
  <2>2. PICK row : /\ row.id = i
                   /\ table' = table \cup {row}
                   /\ created' = created \cup {row}
                   /\ UNCHANGED <<slot, granted>>
                   /\ \A c \in created : c.id # i
    BY <2>1 DEF InitTransaction
  <2>3. granted[i] = 0
    BY <1>2, <2>2 DEF ClaimsInv, GrantedCreated
  <2>4. \A w \in Workers : ~ Attesting(w, i)
    BY <2>2 DEF CallsInv, SlotsCoherent, Coherent, Attesting, Recording, Responding
  <2>5. RowsUnused'
    BY <2>2, <2>3, <2>4 DEF ClaimsInv, RowsUnused, Attesting, Recording, Responding
  <2>6. AttestersAlone'
    BY <2>2 DEF ClaimsInv, AttestersAlone, Attesting, Recording, Responding
  <2>7. GrantedCreated' /\ SingleUse'
    BY <2>2 DEF ClaimsInv, GrantedCreated, SingleUse
  <2> QED
    BY <1>1, <2>5, <2>6, <2>7 DEF ClaimsInv
<1>5. CASE \E w \in Workers, i \in Ids : Consumes(w, i)
  <2>1. PICK w \in Workers, i \in Ids : Consumes(w, i)
    BY <1>5
  <2>2. /\ table' = {row \in table : row.id # i}
        /\ Enter(w, [slot[w] EXCEPT !.pc = "attest"])
        /\ UNCHANGED <<created, granted>>
    BY <2>1 DEF Consumes, ConsumeDelete, Delete, history
  <2>3. \E row \in table : row.id = i
    BY <2>1 DEF Consumes, ById
  <2>4. granted[i] = 0 /\ \A v \in Workers : ~ Attesting(v, i)
    BY <2>3 DEF ClaimsInv, RowsUnused
  <2>5. \A v \in Workers, j \in Ids :
           Attesting(v, j)' <=> Attesting(v, j) \/ (v = w /\ j = i)
    <3>1. slot \in [Workers -> SlotType] /\ slot[w] \in SlotType
      BY DEF TypeOK
    <3>2. slot[w].id = {i} /\ slot[w].pc = "delete"
      BY <2>1 DEF Consumes, ConsumeDelete
    <3>3. slot'[w].pc = "attest" /\ slot'[w].id = {i}
      BY <2>2, <3>1, <3>2 DEF Enter, SlotType
    <3>4. \A v \in Workers \ {w} : slot'[v] = slot[v]
      BY <2>2, <3>1 DEF Enter
    <3> QED
      BY <3>2, <3>3, <3>4 DEF Attesting, Recording, Responding
  <2>6. RowsUnused'
    <3> SUFFICES ASSUME NEW row \in table'
                 PROVE  /\ granted'[row.id] = 0
                        /\ \A v \in Workers : ~ Attesting(v, row.id)'
      BY DEF RowsUnused, Attesting
    <3>1. row \in table /\ row.id # i /\ row.id \in Ids
      BY <1>2, <2>2 DEF Row
    <3> QED
      BY <2>2, <2>5, <3>1 DEF ClaimsInv, RowsUnused
  <2>7. AttestersAlone'
    BY <2>2, <2>4, <2>5 DEF ClaimsInv, AttestersAlone
  <2>8. GrantedCreated' /\ SingleUse'
    BY <2>2 DEF ClaimsInv, GrantedCreated, SingleUse
  <2> QED
    BY <1>1, <2>6, <2>7, <2>8 DEF ClaimsInv
<1>6. CASE \E w \in Workers, i \in Ids : Grants(w, i)
  <2>1. PICK w \in Workers, i \in Ids : Grants(w, i)
    BY <1>6
  <2>2. /\ UNCHANGED <<table, created>>
        /\ Leave(w)
        /\ granted' = [granted EXCEPT ![i] = @ + 1]
    BY <2>1 DEF Grants, Respond
  <2>3. Attesting(w, i)
    BY <2>1 DEF Grants, Respond, Attesting, Responding
  <2>4. /\ granted[i] = 0
        /\ \A v \in Workers : Attesting(v, i) => v = w
        /\ \A row \in table : row.id # i
    BY <2>3 DEF ClaimsInv, AttestersAlone, RowsUnused
  <2>5. \A v \in Workers, j \in Ids : Attesting(v, j)' => Attesting(v, j) /\ v # w
    BY <2>2 DEF TypeOK, Leave, Enter, Idle, Attesting, Recording, Responding
  <2>6. granted'[i] = 1 /\ \A j \in Ids \ {i} : granted'[j] = granted[j]
    BY <1>2, <2>2, <2>4
  <2>7. RowsUnused'
    <3> SUFFICES ASSUME NEW row \in table
                 PROVE  /\ granted'[row.id] = 0
                        /\ \A v \in Workers : ~ Attesting(v, row.id)'
      BY <2>2 DEF RowsUnused, Attesting
    <3>1. row.id \in Ids \ {i}
      BY <1>2, <2>4 DEF Row
    <3> QED
      BY <2>5, <2>6, <3>1 DEF ClaimsInv, RowsUnused
  <2>8. AttestersAlone'
    BY <2>4, <2>5, <2>6 DEF ClaimsInv, AttestersAlone
  <2>9. \E c \in created : c.id = i
    BY <2>3 DEF CallsInv, SlotsCoherent, Coherent, Attesting, Recording, Responding
  <2>10. GrantedCreated' /\ SingleUse'
    BY <2>2, <2>6, <2>9 DEF ClaimsInv, GrantedCreated, SingleUse
  <2> QED
    BY <1>1, <2>7, <2>8, <2>10 DEF ClaimsInv
<1>7. ~ \E w \in Workers, i \in Ids : Reinserts(w, i)
  BY DEF Reinserts, ClaimsInv, NothingReinserted
<1> QED
  BY <1>3, <1>4, <1>5, <1>6, <1>7, StepsAreQuiet, QuietHarmless, RecordsHarmless

LEMMA InitClaims == Init => ClaimsInv
BY DEF Init, ClaimsInv, NothingReinserted, RowsUnused, AttestersAlone, GrantedCreated,
       SingleUse, Attesting, Recording, Responding, Idle

LEMMA ClaimsInvariant ==
    ASSUME Atomic
    PROVE  Spec => [](TypeOK /\ CallsInv /\ ClaimsInv)
<1>1. Init => TypeOK /\ CallsInv /\ ClaimsInv
  BY InitType, InitCalls, InitClaims
<1>2. (TypeOK /\ CallsInv /\ ClaimsInv) /\ [Next]_vars
         => (TypeOK /\ CallsInv /\ ClaimsInv)'
  BY TypeStep, CallsStep, ClaimsStep
<1> QED
  BY <1>1, <1>2, PTL DEF Spec

\* Over a store that updates a row under one lock, a transaction yields one
\* attestation of success, for any number of concurrent verifications.
THEOREM SingleUseCorrect ==
    ASSUME Atomic
    PROVE  Spec => []SingleUse
<1>1. ClaimsInv => SingleUse
  BY DEF ClaimsInv
<1> QED
  BY <1>1, ClaimsInvariant, PTL

-----------------------------------------------------------------------------
(* The claims on a transaction over any store.  They are counted: the row,  *)
(* the calls that removed it and are about to record it, and those that are *)
(* about to respond.  The service implements the ledger of claims, and what *)
(* the ledger promises is proved in TransactionClaimsProofs.                *)

Recorders(i) == {w \in Workers : Recording(w, i)}

Responders(i) == {w \in Workers : Responding(w, i)}

CallersFinite ==
    \A i \in Ids : IsFiniteSet(Recorders(i)) /\ IsFiniteSet(Responders(i))

LedgerInv == TypeOK /\ CallsInv /\ CallersFinite

Born == {c.id : c \in created}

NumRows(i) == IF ById(i) = {} THEN 0 ELSE 1

NumRecorders(i) == Cardinality(Recorders(i))

NumResponders(i) == Cardinality(Responders(i))

\* A journal entry is the record of a claim; without a journal the answer is,
\* and the claim is open until then.
Claims ==
    [i \in Ids |-> NumRows(i) + NumRecorders(i)
                   + (IF JournalEnabled THEN 0 ELSE NumResponders(i))]

RecordsKept == IF JournalEnabled THEN journaled ELSE granted

Cleared == [i \in Ids |-> IF JournalEnabled THEN NumResponders(i) ELSE 0]

Ledger == INSTANCE TransactionClaimsProofs
            WITH born <- Born, claims <- Claims, records <- RecordsKept,
                 cleared <- Cleared, reopened <- revived

\* A step that makes no caller leaves no more of them.
LEMMA FewerCallers ==
    ASSUME CallersFinite, NEW i \in Ids,
           \A w \in Workers : /\ Recording(w, i)' => Recording(w, i)
                              /\ Responding(w, i)' => Responding(w, i)
    PROVE  /\ IsFiniteSet(Recorders(i)') /\ IsFiniteSet(Responders(i)')
           /\ NumRecorders(i)' \in Nat /\ NumRecorders(i)' <= NumRecorders(i)
           /\ NumResponders(i)' \in Nat /\ NumResponders(i)' <= NumResponders(i)
<1>1. Recorders(i)' \subseteq Recorders(i) /\ Responders(i)' \subseteq Responders(i)
  BY DEF Recorders, Responders
<1>2. IsFiniteSet(Recorders(i)) /\ IsFiniteSet(Responders(i))
  BY DEF CallersFinite
<1>3. /\ IsFiniteSet(Recorders(i)') /\ IsFiniteSet(Responders(i)')
      /\ Cardinality(Recorders(i)') <= Cardinality(Recorders(i))
      /\ Cardinality(Responders(i)') <= Cardinality(Responders(i))
  BY <1>1, <1>2, FS_Subset
<1>4. Cardinality(Recorders(i)') \in Nat /\ Cardinality(Responders(i)') \in Nat
  BY <1>3, FS_CardinalityType
<1> QED
  BY <1>3, <1>4 DEF NumRecorders, NumResponders

\* A step of one call makes one more caller at most.
LEMMA CallersOfOne ==
    ASSUME CallersFinite, NEW w \in Workers, \A v \in Workers \ {w} : slot'[v] = slot[v]
    PROVE  CallersFinite'
<1> SUFFICES ASSUME NEW i \in Ids
             PROVE  IsFiniteSet(Recorders(i)') /\ IsFiniteSet(Responders(i)')
  BY DEF CallersFinite
<1>1. /\ Recorders(i)' \subseteq Recorders(i) \cup {w}
      /\ Responders(i)' \subseteq Responders(i) \cup {w}
  BY DEF Recorders, Responders, Recording, Responding
<1>2. IsFiniteSet(Recorders(i) \cup {w}) /\ IsFiniteSet(Responders(i) \cup {w})
  BY FS_AddElement DEF CallersFinite
<1> QED
  BY <1>1, <1>2, FS_Subset

\* What a step that claims a transaction does with the calls.
LEMMA ClaimingSlots ==
    ASSUME TypeOK, NEW w \in Workers, NEW i \in Ids
    PROVE  /\ Consumes(w, i) =>
                 /\ slot'[w].pc = "attest" /\ slot'[w].id = {i}
                 /\ \A v \in Workers \ {w} : slot'[v] = slot[v]
           /\ Records(w, i) =>
                 /\ \/ slot'[w].pc = "idle" /\ JournalEnabled
                    \/ slot'[w].pc = "respond" /\ slot'[w].id = {i}
                 /\ \A v \in Workers \ {w} : slot'[v] = slot[v]
           /\ Grants(w, i) =>
                 /\ slot'[w].pc = "idle"
                 /\ \A v \in Workers \ {w} : slot'[v] = slot[v]
<1>1. slot[w] \in SlotType /\ slot \in [Workers -> SlotType]
  BY DEF TypeOK
<1>2. ASSUME Consumes(w, i)
      PROVE  /\ slot'[w].pc = "attest" /\ slot'[w].id = {i}
             /\ \A v \in Workers \ {w} : slot'[v] = slot[v]
  <2>1. Enter(w, [slot[w] EXCEPT !.pc = "attest"]) /\ slot[w].id = {i}
    BY <1>2 DEF Consumes, ConsumeDelete
  <2> QED
    BY <1>1, <2>1 DEF Enter, SlotType
<1>3. ASSUME Records(w, i)
      PROVE  /\ \/ slot'[w].pc = "idle" /\ JournalEnabled
                \/ slot'[w].pc = "respond" /\ slot'[w].id = {i}
             /\ \A v \in Workers \ {w} : slot'[v] = slot[v]
  <2>1. slot[w].id = {i} /\ (ToResponse(w) \/ (Leave(w) /\ JournalEnabled))
    BY <1>3 DEF Records, Attest
  <2>2. CASE ToResponse(w)
    <3>1. slot'[w].pc = "respond" /\ slot'[w].id = {i}
      BY <1>1, <2>1, <2>2 DEF ToResponse, Enter, Idle
    <3> QED
      BY <1>1, <2>2, <3>1 DEF ToResponse, Enter
  <2>3. CASE Leave(w) /\ JournalEnabled
    BY <1>1, <2>3 DEF Leave, Enter, Idle
  <2> QED
    BY <2>1, <2>2, <2>3
<1>4. ASSUME Grants(w, i)
      PROVE  slot'[w].pc = "idle" /\ \A v \in Workers \ {w} : slot'[v] = slot[v]
  BY <1>1, <1>4 DEF Grants, Respond, Leave, Enter, Idle
<1> QED
  BY <1>2, <1>3, <1>4

LEMMA CallersFiniteStep ==
    ASSUME TypeOK, CallsInv, CallersFinite, [Next]_vars
    PROVE  CallersFinite'
<1>1. CASE Quiet
  BY <1>1, FewerCallers DEF Quiet, CallersFinite
<1>2. CASE \E i \in Ids, s \in States, n \in Nonces : InitTransaction(i, s, n)
  <2>1. slot' = slot
    BY <1>2 DEF InitTransaction
  <2> QED
    BY <2>1 DEF CallersFinite, Recorders, Responders, Recording, Responding
<1>3. CASE \E w \in Workers, i \in Ids : Consumes(w, i) \/ Records(w, i) \/ Grants(w, i)
  BY <1>3, ClaimingSlots, CallersOfOne
<1>4. CASE \E w \in Workers, i \in Ids : Reinserts(w, i)
  BY <1>4, FewerCallers DEF Reinserts, CallersFinite
<1> QED
  BY <1>1, <1>2, <1>3, <1>4, StepsAreQuiet

LEMMA LedgerInvariant == Spec => []LedgerInv
<1>1. Init => CallersFinite
  <2> SUFFICES ASSUME Init, NEW i \in Ids
               PROVE  IsFiniteSet(Recorders(i)) /\ IsFiniteSet(Responders(i))
    BY DEF CallersFinite
  <2>1. Recorders(i) = {} /\ Responders(i) = {}
    BY DEF Init, Recorders, Responders, Recording, Responding, Idle
  <2> QED
    BY <2>1, FS_EmptySet
<1>2. Init => LedgerInv
  BY <1>1, InitType, InitCalls DEF LedgerInv
<1>3. LedgerInv /\ [Next]_vars => LedgerInv'
  BY TypeStep, CallsStep, CallersFiniteStep DEF LedgerInv
<1> QED
  BY <1>2, <1>3, PTL DEF Spec

LEMMA CountsNat ==
    ASSUME LedgerInv, NEW i \in Ids
    PROVE  NumRows(i) \in Nat /\ NumRecorders(i) \in Nat /\ NumResponders(i) \in Nat
<1>1. IsFiniteSet(Recorders(i)) /\ IsFiniteSet(Responders(i))
  BY DEF LedgerInv, CallersFinite
<1> QED
  BY <1>1, FS_CardinalityType DEF NumRows, NumRecorders, NumResponders

LEMMA ClaimsAt ==
    ASSUME NEW i \in Ids
    PROVE  /\ Claims[i] = NumRows(i) + NumRecorders(i)
                          + (IF JournalEnabled THEN 0 ELSE NumResponders(i))
           /\ Cleared[i] = IF JournalEnabled THEN NumResponders(i) ELSE 0
BY DEF Claims, Cleared

\* The counts of a transaction that a step does not claim stay.
LEMMA OthersCounts ==
    ASSUME NEW w \in Workers, \A v \in Workers \ {w} : slot'[v] = slot[v],
           NEW j \in Ids, ById(j)' = ById(j),
           Recording(w, j)' <=> Recording(w, j),
           Responding(w, j)' <=> Responding(w, j)
    PROVE  /\ NumRows(j)' = NumRows(j) /\ NumRecorders(j)' = NumRecorders(j)
           /\ NumResponders(j)' = NumResponders(j)
<1>1. Recorders(j)' = Recorders(j) /\ Responders(j)' = Responders(j)
  BY DEF Recorders, Responders, Recording, Responding
<1> QED
  BY <1>1 DEF NumRows, NumRecorders, NumResponders

\* How the counts of transaction i change with a step that claims it.
LEMMA ClaimingCounts ==
    ASSUME LedgerInv, LedgerInv', NEW w \in Workers, NEW i \in Ids
    PROVE  /\ Consumes(w, i) =>
                 /\ NumRows(i) = 1 /\ NumRows(i)' = 0
                 /\ NumRecorders(i)' = NumRecorders(i) + 1
                 /\ NumResponders(i)' = NumResponders(i)
           /\ Records(w, i) =>
                 /\ NumRows(i)' = NumRows(i)
                 /\ NumRecorders(i)' = NumRecorders(i) - 1
                 /\ \/ NumResponders(i)' = NumResponders(i) /\ JournalEnabled
                    \/ NumResponders(i)' = NumResponders(i) + 1
           /\ Grants(w, i) =>
                 /\ NumRows(i)' = NumRows(i)
                 /\ NumRecorders(i)' = NumRecorders(i)
                 /\ NumResponders(i)' = NumResponders(i) - 1
<1>1. /\ TypeOK
      /\ IsFiniteSet(Recorders(i)) /\ IsFiniteSet(Responders(i))
  BY DEF LedgerInv, CallersFinite
<1>2. ASSUME Consumes(w, i)
      PROVE  /\ NumRows(i) = 1 /\ NumRows(i)' = 0
             /\ NumRecorders(i)' = NumRecorders(i) + 1
             /\ NumResponders(i)' = NumResponders(i)
  <2>1. slot[w].pc = "delete" /\ ById(i) # {} /\ ById(i)' = {}
    BY <1>2 DEF Consumes, ConsumeDelete, Delete, ById
  <2>2. /\ Recorders(i)' = Recorders(i) \cup {w} /\ w \notin Recorders(i)
        /\ Responders(i)' = Responders(i)
    BY <1>1, <1>2, <2>1, ClaimingSlots
       DEF Recorders, Responders, Recording, Responding
  <2> QED
    BY <1>1, <2>1, <2>2, FS_AddElement DEF NumRows, NumRecorders, NumResponders
<1>3. ASSUME Records(w, i)
      PROVE  /\ NumRows(i)' = NumRows(i)
             /\ NumRecorders(i)' = NumRecorders(i) - 1
             /\ \/ NumResponders(i)' = NumResponders(i) /\ JournalEnabled
                \/ NumResponders(i)' = NumResponders(i) + 1
  <2>1. /\ slot[w].pc = "attest" /\ slot[w].id = {i}
        /\ ById(i)' = ById(i)
    BY <1>3 DEF Records, Attest, ById
  <2>2. /\ Recorders(i)' = Recorders(i) \ {w} /\ w \in Recorders(i)
        /\ w \notin Responders(i)
        /\ \/ Responders(i)' = Responders(i) /\ JournalEnabled
           \/ Responders(i)' = Responders(i) \cup {w}
    BY <1>1, <1>3, <2>1, ClaimingSlots
       DEF Recorders, Responders, Recording, Responding
  <2>3. NumRecorders(i)' = NumRecorders(i) - 1
    BY <1>1, <2>2, FS_RemoveElement DEF NumRecorders
  <2>4. \/ NumResponders(i)' = NumResponders(i) /\ JournalEnabled
        \/ NumResponders(i)' = NumResponders(i) + 1
    BY <1>1, <2>2, FS_AddElement DEF NumResponders
  <2> QED
    BY <2>1, <2>3, <2>4 DEF NumRows
<1>4. ASSUME Grants(w, i)
      PROVE  /\ NumRows(i)' = NumRows(i)
             /\ NumRecorders(i)' = NumRecorders(i)
             /\ NumResponders(i)' = NumResponders(i) - 1
  <2>1. /\ slot[w].pc = "respond" /\ slot[w].id = {i}
        /\ ById(i)' = ById(i)
    BY <1>4 DEF Grants, Respond, ById
  <2>2. /\ Responders(i)' = Responders(i) \ {w} /\ w \in Responders(i)
        /\ Recorders(i)' = Recorders(i)
    BY <1>1, <1>4, <2>1, ClaimingSlots
       DEF Recorders, Responders, Recording, Responding
  <2> QED
    BY <1>1, <2>1, <2>2, FS_RemoveElement DEF NumRows, NumRecorders, NumResponders
<1> QED
  BY <1>2, <1>3, <1>4

\* Every step of the service is a step of the ledger, or none.
LEMMA LedgerStep ==
    ASSUME LedgerInv, LedgerInv', [Next]_vars
    PROVE  [Ledger!Next]_(Ledger!ledger)
<1>1. /\ TypeOK /\ TypeOK' /\ CallsInv
      /\ granted \in [Ids -> Nat] /\ revived \in [Ids -> Nat]
      /\ journaled \in [Ids -> Nat]
      /\ table \subseteq Row /\ created \subseteq Row
  BY DEF LedgerInv, TypeOK
<1>2. ASSUME NEW i \in Ids
      PROVE  /\ NumRows(i) \in Nat /\ NumRecorders(i) \in Nat
             /\ NumResponders(i) \in Nat
             /\ NumRows(i)' \in Nat /\ NumRecorders(i)' \in Nat
             /\ NumResponders(i)' \in Nat
             /\ Claims[i] = NumRows(i) + NumRecorders(i)
                            + (IF JournalEnabled THEN 0 ELSE NumResponders(i))
             /\ Cleared[i] = IF JournalEnabled THEN NumResponders(i) ELSE 0
             /\ Claims'[i] = NumRows(i)' + NumRecorders(i)'
                             + (IF JournalEnabled THEN 0 ELSE NumResponders(i)')
             /\ Cleared'[i] = IF JournalEnabled THEN NumResponders(i)' ELSE 0
  <2>1. NumRows(i)' \in Nat /\ NumRecorders(i)' \in Nat /\ NumResponders(i)' \in Nat
    <3>1. IsFiniteSet(Recorders(i)') /\ IsFiniteSet(Responders(i)')
      BY DEF LedgerInv, CallersFinite
    <3> QED
      BY <3>1, FS_CardinalityType DEF NumRows, NumRecorders, NumResponders
  <2>2. /\ Claims'[i] = NumRows(i)' + NumRecorders(i)'
                        + (IF JournalEnabled THEN 0 ELSE NumResponders(i)')
        /\ Cleared'[i] = IF JournalEnabled THEN NumResponders(i)' ELSE 0
    BY DEF Claims, Cleared
  <2> QED
    BY <2>1, <2>2, CountsNat, ClaimsAt
<1>3. /\ DOMAIN Claims = Ids /\ DOMAIN Claims' = Ids
      /\ DOMAIN Cleared = Ids /\ DOMAIN Cleared' = Ids
      /\ Claims = [j \in Ids |-> Claims[j]] /\ Claims' = [j \in Ids |-> Claims'[j]]
      /\ Cleared = [j \in Ids |-> Cleared[j]] /\ Cleared' = [j \in Ids |-> Cleared'[j]]
  BY DEF Claims, Cleared
<1>4. CASE Quiet
  <2>1. UNCHANGED <<Born, granted, journaled, RecordsKept, revived>>
    BY <1>4 DEF Quiet, Born, RecordsKept
  <2>2. ASSUME NEW i \in Ids
        PROVE  /\ Claims'[i] \in Nat /\ Claims'[i] <= Claims[i]
               /\ Cleared'[i] \in Nat /\ Cleared'[i] <= Cleared[i]
    <3>1. NumRows(i)' <= NumRows(i)
      BY <1>4 DEF Quiet, ById, NumRows
    <3>2. NumRecorders(i)' <= NumRecorders(i) /\ NumResponders(i)' <= NumResponders(i)
      BY <1>4, FewerCallers DEF Quiet, LedgerInv
    <3> QED
      BY <1>2, <3>1, <3>2
  <2>3. Claims' \in [Ids -> Nat] /\ Cleared' \in [Ids -> Nat]
    BY <1>3, <2>2
  <2>4. Ledger!Drop
    BY <2>1, <2>2, <2>3 DEF Ledger!Drop
  <2> QED
    BY <2>4 DEF Ledger!Next
<1>5. CASE \E i \in Ids, s \in States, n \in Nonces : InitTransaction(i, s, n)
  <2>1. PICK i \in Ids, s \in States, n \in Nonces : InitTransaction(i, s, n)
    BY <1>5
  <2>2. PICK row : /\ row.id = i
                   /\ table' = table \cup {row}
                   /\ created' = created \cup {row}
                   /\ UNCHANGED <<slot, granted, journaled, revived>>
                   /\ \A c \in created : c.id # i
    BY <2>1 DEF InitTransaction
  <2>3. /\ i \notin Born /\ Born' = Born \cup {i}
        /\ RecordsKept' = RecordsKept
    BY <2>2 DEF Born, RecordsKept
  <2>4. /\ Recorders(i) = {} /\ Responders(i) = {}
        /\ \A j \in Ids : Recorders(j)' = Recorders(j) /\ Responders(j)' = Responders(j)
    BY <1>1, <2>2
       DEF CallsInv, SlotsCoherent, Coherent, Recorders, Responders, Recording, Responding
  <2>5. /\ NumRecorders(i) = 0 /\ NumResponders(i) = 0
        /\ \A j \in Ids : /\ NumRecorders(j)' = NumRecorders(j)
                          /\ NumResponders(j)' = NumResponders(j)
    BY <2>4, FS_EmptySet DEF NumRecorders, NumResponders
  <2>6. NumRows(i)' = 1 /\ \A j \in Ids \ {i} : NumRows(j)' = NumRows(j)
    BY <2>2 DEF ById, NumRows
  <2>7. /\ Claims'[i] = 1 /\ \A j \in Ids \ {i} : Claims'[j] = Claims[j]
        /\ \A j \in Ids : Cleared'[j] = Cleared[j]
    BY <1>2, <2>5, <2>6
  <2>8. Claims' = [Claims EXCEPT ![i] = 1] /\ Cleared' = Cleared
    BY <1>3, <2>7
  <2>9. Ledger!Create(i)
    BY <2>2, <2>3, <2>8 DEF Ledger!Create
  <2> QED
    BY <2>9 DEF Ledger!Next
<1>6. ASSUME NEW w \in Workers, NEW i \in Ids, Consumes(w, i)
      PROVE  UNCHANGED Ledger!ledger
  <2>1. /\ table' = {row \in table : row.id # i}
        /\ UNCHANGED <<created, granted, journaled, revived>>
        /\ slot[w].pc = "delete"
    BY <1>6 DEF Consumes, ConsumeDelete, Delete, history
  <2>2. ASSUME NEW j \in Ids \ {i}
        PROVE  /\ NumRows(j)' = NumRows(j) /\ NumRecorders(j)' = NumRecorders(j)
               /\ NumResponders(j)' = NumResponders(j)
    <3>1. ById(j)' = ById(j)
      BY <2>1 DEF ById
    <3>2. /\ Recording(w, j)' <=> Recording(w, j)
          /\ Responding(w, j)' <=> Responding(w, j)
      BY <1>1, <1>6, <2>1, ClaimingSlots DEF Recording, Responding
    <3> QED
      BY <1>1, <1>6, <3>1, <3>2, ClaimingSlots, OthersCounts
  <2>3. \A j \in Ids : Claims'[j] = Claims[j] /\ Cleared'[j] = Cleared[j]
    BY <1>2, <1>6, <2>2, ClaimingCounts
  <2>4. Claims' = Claims /\ Cleared' = Cleared
    BY <1>3, <2>3
  <2> QED
    BY <2>1, <2>4 DEF Ledger!ledger, Born, RecordsKept
<1>7. ASSUME NEW w \in Workers, NEW i \in Ids, Records(w, i)
      PROVE  Ledger!Record(i) \/ UNCHANGED Ledger!ledger
  <2>1. /\ UNCHANGED <<table, created, granted, revived>>
        /\ slot[w].pc = "attest" /\ slot[w].id = {i}
        /\ journaled' = IF JournalEnabled THEN [journaled EXCEPT ![i] = @ + 1]
                        ELSE journaled
        /\ JournalEnabled \/ ToResponse(w)
    BY <1>7 DEF Records, Attest
  <2>2. ASSUME NEW j \in Ids \ {i}
        PROVE  /\ NumRows(j)' = NumRows(j) /\ NumRecorders(j)' = NumRecorders(j)
               /\ NumResponders(j)' = NumResponders(j)
    <3>1. ById(j)' = ById(j)
      BY <2>1 DEF ById
    <3>2. /\ Recording(w, j)' <=> Recording(w, j)
          /\ Responding(w, j)' <=> Responding(w, j)
      BY <1>1, <1>7, <2>1, ClaimingSlots DEF Recording, Responding
    <3> QED
      BY <1>1, <1>7, <3>1, <3>2, ClaimingSlots, OthersCounts
  <2>3. /\ NumRows(i)' = NumRows(i)
        /\ NumRecorders(i)' = NumRecorders(i) - 1
        /\ \/ NumResponders(i)' = NumResponders(i) /\ JournalEnabled
           \/ NumResponders(i)' = NumResponders(i) + 1
    BY <1>7, ClaimingCounts
  <2>4. CASE JournalEnabled
    <3>1. Claims[i] > 0 /\ Claims'[i] = Claims[i] - 1
      BY <1>2, <2>3, <2>4
    <3>2. Cleared'[i] \in {Cleared[i], Cleared[i] + 1}
      BY <1>2, <2>3, <2>4
    <3>3. \A j \in Ids \ {i} : Claims'[j] = Claims[j] /\ Cleared'[j] = Cleared[j]
      BY <1>2, <2>2
    <3>4. /\ Claims' = [Claims EXCEPT ![i] = @ - 1]
          /\ Cleared' \in {Cleared, [Cleared EXCEPT ![i] = @ + 1]}
      BY <1>3, <3>1, <3>2, <3>3
    <3>5. RecordsKept' = [RecordsKept EXCEPT ![i] = @ + 1] /\ Born' = Born
      BY <2>1, <2>4 DEF RecordsKept, Born
    <3> QED
      BY <2>1, <3>1, <3>4, <3>5 DEF Ledger!Record
  <2>5. CASE ~ JournalEnabled
    <3>1. NumResponders(i)' = NumResponders(i) + 1
      BY <2>3, <2>5
    <3>2. \A j \in Ids : Claims'[j] = Claims[j] /\ Cleared'[j] = Cleared[j]
      BY <1>2, <2>2, <2>3, <2>5, <3>1
    <3>3. Claims' = Claims /\ Cleared' = Cleared
      BY <1>3, <3>2
    <3> QED
      BY <2>1, <2>5, <3>3 DEF Ledger!ledger, Born, RecordsKept
  <2> QED
    BY <2>4, <2>5
<1>8. ASSUME NEW w \in Workers, NEW i \in Ids, Grants(w, i)
      PROVE  Ledger!Grant(i) \/ Ledger!Settle(i)
  <2>1. /\ UNCHANGED <<table, created, journaled, revived>>
        /\ slot[w].pc = "respond" /\ slot[w].id = {i}
        /\ granted' = [granted EXCEPT ![i] = @ + 1]
    BY <1>8 DEF Grants, Respond
  <2>2. ASSUME NEW j \in Ids \ {i}
        PROVE  /\ NumRows(j)' = NumRows(j) /\ NumRecorders(j)' = NumRecorders(j)
               /\ NumResponders(j)' = NumResponders(j)
    <3>1. ById(j)' = ById(j)
      BY <2>1 DEF ById
    <3>2. /\ Recording(w, j)' <=> Recording(w, j)
          /\ Responding(w, j)' <=> Responding(w, j)
      BY <1>1, <1>8, <2>1, ClaimingSlots DEF Recording, Responding
    <3> QED
      BY <1>1, <1>8, <3>1, <3>2, ClaimingSlots, OthersCounts
  <2>3. /\ NumRows(i)' = NumRows(i) /\ NumRecorders(i)' = NumRecorders(i)
        /\ NumResponders(i)' = NumResponders(i) - 1
    BY <1>8, ClaimingCounts
  <2>4. \A j \in Ids \ {i} : Claims'[j] = Claims[j] /\ Cleared'[j] = Cleared[j]
    BY <1>2, <2>2
  <2>5. CASE JournalEnabled
    <3>1. /\ Cleared[i] > 0 /\ Cleared'[i] = Cleared[i] - 1
          /\ Claims'[i] = Claims[i]
      BY <1>2, <2>3, <2>5
    <3>2. Claims' = Claims /\ Cleared' = [Cleared EXCEPT ![i] = @ - 1]
      BY <1>3, <2>4, <3>1
    <3>3. RecordsKept' = RecordsKept /\ Born' = Born
      BY <2>1, <2>5 DEF RecordsKept, Born
    <3> QED
      BY <2>1, <3>1, <3>2, <3>3 DEF Ledger!Grant
  <2>6. CASE ~ JournalEnabled
    <3>1. /\ Claims[i] > 0 /\ Claims'[i] = Claims[i] - 1
          /\ Cleared'[i] = Cleared[i]
      BY <1>2, <2>3, <2>6
    <3>2. Cleared' = Cleared /\ Claims' = [Claims EXCEPT ![i] = @ - 1]
      BY <1>3, <2>4, <3>1
    <3>3. RecordsKept' = [RecordsKept EXCEPT ![i] = @ + 1] /\ Born' = Born
      BY <2>1, <2>6 DEF RecordsKept, Born
    <3> QED
      BY <2>1, <3>1, <3>2, <3>3 DEF Ledger!Settle
  <2> QED
    BY <2>5, <2>6
<1>9. ASSUME NEW w \in Workers, NEW i \in Ids, Reinserts(w, i)
      PROVE  Ledger!Reopen(i)
  <2>1. /\ UNCHANGED <<created, granted, journaled>>
        /\ revived' = [revived EXCEPT ![i] = @ + 1]
        /\ i \in Born
    BY <1>9 DEF Reinserts, Born
  <2>2. \A j \in Ids : Recorders(j)' = Recorders(j) /\ Responders(j)' = Responders(j)
    BY <1>9 DEF Reinserts, Recorders, Responders
  <2>3. \A j \in Ids : /\ NumRecorders(j)' = NumRecorders(j)
                       /\ NumResponders(j)' = NumResponders(j)
    BY <2>2 DEF NumRecorders, NumResponders
  <2>4. /\ NumRows(i) = 0 /\ NumRows(i)' = 1
        /\ \A j \in Ids \ {i} : NumRows(j)' = NumRows(j)
    BY <1>9 DEF Reinserts, NumRows
  <2>5. /\ Claims'[i] = Claims[i] + 1
        /\ \A j \in Ids \ {i} : Claims'[j] = Claims[j]
        /\ \A j \in Ids : Cleared'[j] = Cleared[j]
    BY <1>2, <2>3, <2>4
  <2>6. Claims' = [Claims EXCEPT ![i] = @ + 1] /\ Cleared' = Cleared
    BY <1>3, <2>5
  <2> QED
    BY <2>1, <2>6 DEF Ledger!Reopen, Born, RecordsKept
<1> QED
  BY <1>1, <1>4, <1>5, <1>6, <1>7, <1>8, <1>9, StepsAreQuiet DEF Ledger!Next

\* Over any store, the in-memory one and the one that reads and writes in two
\* statements, with or without a journal, the service implements the ledger of
\* claims (TransactionClaims): whatever interleaves, fails or restarts, a claim
\* comes from init_transaction or from a stale write that inserts a deleted row,
\* is recorded once, and granted only then, once.
THEOREM LedgerCorrect == Spec => Ledger!Spec
<1>1. Init => Ledger!Init
  <2> SUFFICES ASSUME Init PROVE Ledger!Init
    OBVIOUS
  <2>1. Born = {}
    BY DEF Init, Born
  <2>2. ASSUME NEW i \in Ids PROVE Recorders(i) = {} /\ Responders(i) = {} /\ ById(i) = {}
    BY DEF Init, Recorders, Responders, Recording, Responding, Idle, ById
  <2>3. Claims = [i \in Ids |-> 0] /\ Cleared = [i \in Ids |-> 0]
    BY <2>2, FS_EmptySet DEF Claims, Cleared, NumRows, NumRecorders, NumResponders
  <2> QED
    BY <2>1, <2>3 DEF Init, Ledger!Init, RecordsKept
<1>2. LedgerInv /\ LedgerInv' /\ [Next]_vars => [Ledger!Next]_(Ledger!ledger)
  BY LedgerStep
<1>3. Spec => []LedgerInv
  BY LedgerInvariant
<1> QED
  BY <1>1, <1>2, <1>3, PTL DEF Spec, Ledger!Spec, Ledger!ledger

\* What the ledger promises, about the counters of the service.
LEMMA LedgerAccounts == Spec => [](LedgerInv /\ Ledger!Accounted)
<1>1. Spec => []Ledger!Accounted
  BY LedgerCorrect, Ledger!ClaimsAreAccounted, PTL
<1> QED
  BY <1>1, LedgerInvariant, PTL

LEMMA ClaimsNat ==
    ASSUME LedgerInv, NEW i \in Ids
    PROVE  /\ Claims[i] \in Nat /\ Cleared[i] \in Nat
           /\ granted[i] \in Nat /\ journaled[i] \in Nat /\ revived[i] \in Nat
           /\ RecordsKept[i] = IF JournalEnabled THEN journaled[i] ELSE granted[i]
<1>1. granted[i] \in Nat /\ journaled[i] \in Nat /\ revived[i] \in Nat
  BY DEF LedgerInv, TypeOK
<1> QED
  BY <1>1, CountsNat, ClaimsAt DEF RecordsKept

\* Over any store, a transaction yields one attestation of success and one more
\* for each time that a stale write inserted its deleted row again: the DELETE
\* of consume_transaction is the only other way to a claim.
THEOREM SingleUseUnlessRevivedCorrect == Spec => []SingleUseUnlessRevived
<1>1. LedgerInv /\ Ledger!Accounted => SingleUseUnlessRevived
  <2> SUFFICES ASSUME LedgerInv, Ledger!Accounted, NEW i \in Ids
               PROVE  granted[i] <= 1 + revived[i]
    BY DEF SingleUseUnlessRevived
  <2>1. /\ RecordsKept[i] + Claims[i] <= 1 + revived[i]
        /\ granted[i] + Cleared[i] <= RecordsKept[i]
    BY DEF Ledger!Accounted
  <2> QED
    BY <2>1, ClaimsNat
<1> QED
  BY <1>1, LedgerAccounts, PTL

\* Over any store, no attestation leaves the server that is not on record, and a
\* transaction is recorded once and once more for each re-insertion, whatever
\* calls race for it, and whatever fails or ends between the DELETE, the entry
\* and the response.
THEOREM RecordedOnceBeforeGrantedCorrect == Spec => []RecordedOnceBeforeGranted
<1>1. LedgerInv /\ Ledger!Accounted => RecordedOnceBeforeGranted
  <2> SUFFICES ASSUME LedgerInv, Ledger!Accounted, JournalEnabled, NEW i \in Ids
               PROVE  granted[i] <= journaled[i] /\ journaled[i] <= 1 + revived[i]
    BY DEF RecordedOnceBeforeGranted
  <2>1. /\ RecordsKept[i] + Claims[i] <= 1 + revived[i]
        /\ granted[i] + Cleared[i] <= RecordsKept[i]
    BY DEF Ledger!Accounted
  <2> QED
    BY <2>1, ClaimsNat
<1> QED
  BY <1>1, LedgerAccounts, PTL

-----------------------------------------------------------------------------
(* The lifecycle over an atomic store                                       *)

\* What the phases of the refinement mapping stand for.
PhasesMean ==
    \A i \in Ids :
        /\ PhaseOf(i) \in {"unborn", "open", "consumed", "granted", "closed"}
        /\ PhaseOf(i) = "unborn" <=> \A c \in created : c.id # i
        /\ PhaseOf(i) = "open" <=> \E row \in table : row.id = i
        /\ PhaseOf(i) = "granted" <=> granted[i] > 0
        /\ PhaseOf(i) = "consumed" <=> \E w \in Workers : Attesting(w, i)

ServiceInv == TypeOK /\ CallsInv /\ ClaimsInv

LEMMA PhasesDisjoint == Atomic /\ ServiceInv => PhasesMean
<1> SUFFICES ASSUME Atomic, ServiceInv, NEW i \in Ids
             PROVE  /\ PhaseOf(i) \in {"unborn", "open", "consumed", "granted", "closed"}
                    /\ PhaseOf(i) = "unborn" <=> \A c \in created : c.id # i
                    /\ PhaseOf(i) = "open" <=> \E row \in table : row.id = i
                    /\ PhaseOf(i) = "granted" <=> granted[i] > 0
                    /\ PhaseOf(i) = "consumed" <=> \E w \in Workers : Attesting(w, i)
  BY DEF PhasesMean
<1> DEFINE unborn == \A c \in created : c.id # i
           open == \E row \in table : row.id = i
           done == granted[i] > 0
           consumed == \E w \in Workers : Attesting(w, i)
<1>1. unborn => ~ open /\ ~ done /\ ~ consumed
  BY DEF ServiceInv, CallsInv, RowsKept, Kept, ClaimsInv, GrantedCreated,
         SlotsCoherent, Coherent, Attesting, Recording, Responding
<1>2. open => ~ done /\ ~ consumed
  BY DEF ServiceInv, ClaimsInv, RowsUnused
<1>3. consumed => ~ done
  BY DEF ServiceInv, ClaimsInv, AttestersAlone
<1>4. /\ PhaseOf(i) =
            CASE unborn -> "unborn" [] open -> "open" [] done -> "granted"
              [] consumed -> "consumed" [] OTHER -> "closed"
  <2>1. open <=> ById(i) # {}
    BY DEF ById
  <2>2. consumed <=> \E w \in Workers : slot[w].pc \in {"attest", "respond"}
                                          /\ i \in slot[w].id
    BY DEF Attesting, Recording, Responding
  <2> QED
    BY <2>1, <2>2 DEF PhaseOf
<1> HIDE DEF unborn, open, done, consumed
<1>5. /\ PhaseOf(i) \in {"unborn", "open", "consumed", "granted", "closed"}
      /\ PhaseOf(i) = "unborn" <=> unborn
      /\ PhaseOf(i) = "open" <=> open
      /\ PhaseOf(i) = "granted" <=> done
      /\ PhaseOf(i) = "consumed" <=> consumed
  BY <1>1, <1>2, <1>3, <1>4
<1> QED
  BY <1>5 DEF unborn, open, done, consumed

LEMMA PhasesDisjointNext ==
    ASSUME Atomic
    PROVE  ServiceInv' => PhasesMean'
<1>1. ServiceInv => PhasesMean
  BY PhasesDisjoint
<1> QED
  BY <1>1, PTL

\* The mapped phases move from one phase to another for the ids in S only.
LEMMA LifecycleMove ==
    ASSUME NEW S \in SUBSET Ids, S # {}, NEW from, NEW to,
           \A i \in S : PhaseOf(i) \in from /\ PhaseOf(i)' = to,
           \A i \in Ids \ S : PhaseOf(i)' = PhaseOf(i)
    PROVE  Lifecycle!Move(S, from, to)
<1>1. \A i \in S : Phase[i] \in from
  BY DEF Phase
<1>2. Phase' = [i \in Ids |-> IF i \in S THEN to ELSE Phase[i]]
  BY DEF Phase
<1> QED
  BY <1>1, <1>2 DEF Lifecycle!Move

\* Every step of the service is a step of the lifecycle, or none.
LEMMA LifecycleStep ==
    ASSUME Atomic, ServiceInv, ServiceInv', [Next]_vars
    PROVE  [Lifecycle!Next]_Phase
<1>1. PhasesMean /\ PhasesMean'
  BY PhasesDisjoint, PhasesDisjointNext
<1>2. granted \in [Ids -> Nat] /\ granted' \in [Ids -> Nat]
  BY DEF ServiceInv, TypeOK
<1>3. CASE Harmless
  <2> DEFINE S == {i \in Ids : PhaseOf(i)' # PhaseOf(i)}
  <2>1. ASSUME NEW i \in S
        PROVE  PhaseOf(i) \in {"open", "consumed"} /\ PhaseOf(i)' = "closed"
    <3>1. /\ PhaseOf(i)' = "unborn" <=> PhaseOf(i) = "unborn"
          /\ PhaseOf(i)' = "granted" <=> PhaseOf(i) = "granted"
          /\ PhaseOf(i)' = "open" => PhaseOf(i) = "open"
          /\ PhaseOf(i)' = "consumed" => PhaseOf(i) = "consumed"
      BY <1>1, <1>3 DEF Harmless, PhasesMean
    <3>2. /\ PhaseOf(i) \in {"unborn", "open", "consumed", "granted", "closed"}
          /\ PhaseOf(i)' \in {"unborn", "open", "consumed", "granted", "closed"}
      BY <1>1 DEF PhasesMean
    <3> QED
      BY <3>1, <3>2
  <2>2. CASE S = {}
    BY <2>2 DEF Phase
  <2>3. CASE S # {}
    <3>1. Lifecycle!Move(S, {"open", "consumed"}, "closed")
      <4>1. \A i \in Ids \ S : PhaseOf(i)' = PhaseOf(i)
        OBVIOUS
      <4>2. S \in SUBSET Ids
        OBVIOUS
      <4>3. \A i \in S : PhaseOf(i) \in {"open", "consumed"} /\ PhaseOf(i)' = "closed"
        BY <2>1
      <4> HIDE DEF S
      <4> QED
        BY <2>3, <4>1, <4>2, <4>3, LifecycleMove
    <3> QED
      BY <3>1 DEF Lifecycle!Next, Lifecycle!Close
  <2> QED
    BY <2>2, <2>3
<1>4. CASE \E i \in Ids, s \in States, n \in Nonces : InitTransaction(i, s, n)
  <2>1. PICK i \in Ids, s \in States, n \in Nonces : InitTransaction(i, s, n)
    BY <1>4
  <2>2. PICK row : /\ row.id = i
                   /\ table' = table \cup {row}
                   /\ created' = created \cup {row}
                   /\ UNCHANGED <<slot, granted>>
                   /\ \A c \in created : c.id # i
    BY <2>1 DEF InitTransaction
  <2>3. PhaseOf(i) = "unborn" /\ PhaseOf(i)' = "open"
    BY <1>1, <2>2 DEF PhasesMean
  <2>4. ASSUME NEW j \in Ids \ {i} PROVE PhaseOf(j)' = PhaseOf(j)
    BY <2>2 DEF PhaseOf, ById
  <2>5. Lifecycle!Move({i}, {"unborn"}, "open")
    BY <2>3, <2>4, LifecycleMove
  <2> QED
    BY <2>5 DEF Lifecycle!Next, Lifecycle!Create
<1>5. CASE \E w \in Workers, i \in Ids : Consumes(w, i)
  <2>1. PICK w \in Workers, i \in Ids : Consumes(w, i)
    BY <1>5
  <2>2. /\ table' = {row \in table : row.id # i}
        /\ Enter(w, [slot[w] EXCEPT !.pc = "attest"])
        /\ UNCHANGED <<created, granted>>
        /\ slot[w].pc = "delete" /\ slot[w].id = {i}
    BY <2>1 DEF Consumes, ConsumeDelete, Delete, history
  <2>3. \E row \in table : row.id = i
    BY <2>1 DEF Consumes, ById
  <2>4. /\ slot'[w].pc = "attest" /\ slot'[w].id = {i}
        /\ \A v \in Workers \ {w} : slot'[v] = slot[v]
    BY <2>2 DEF ServiceInv, TypeOK, Enter, SlotType
  <2>5. PhaseOf(i) = "open"
    BY <1>1, <2>3 DEF PhasesMean
  <2>6. PhaseOf(i)' = "consumed"
    BY <1>1, <2>4 DEF PhasesMean, Attesting, Recording, Responding
  <2>7. ASSUME NEW j \in Ids \ {i} PROVE PhaseOf(j)' = PhaseOf(j)
    <3>1. ById(j)' = ById(j)
      BY <2>2 DEF ById
    <3>2. (\E v \in Workers : Attesting(v, j)') <=> \E v \in Workers : Attesting(v, j)
      BY <2>2, <2>4 DEF Attesting, Recording, Responding
    <3> QED
      BY <2>2, <3>1, <3>2 DEF PhaseOf, Attesting, Recording, Responding
  <2>8. Lifecycle!Move({i}, {"open"}, "consumed")
    BY <2>5, <2>6, <2>7, LifecycleMove
  <2> QED
    BY <2>8 DEF Lifecycle!Next, Lifecycle!Consume
<1>6. CASE \E w \in Workers, i \in Ids : Grants(w, i)
  <2>1. PICK w \in Workers, i \in Ids : Grants(w, i)
    BY <1>6
  <2>2. /\ UNCHANGED <<table, created>>
        /\ Leave(w)
        /\ granted' = [granted EXCEPT ![i] = @ + 1]
        /\ slot[w].pc = "respond" /\ slot[w].id = {i}
    BY <2>1 DEF Grants, Respond
  <2>3. PhaseOf(i) = "consumed"
    BY <1>1, <2>2 DEF PhasesMean, Attesting, Recording, Responding
  <2>4. PhaseOf(i)' = "granted"
    BY <1>1, <1>2, <2>2 DEF PhasesMean
  <2>5. ASSUME NEW j \in Ids \ {i} PROVE PhaseOf(j)' = PhaseOf(j)
    <3>1. ById(j)' = ById(j) /\ granted'[j] = granted[j]
      BY <1>2, <2>2 DEF ById
    <3>2. (\E v \in Workers : Attesting(v, j)') <=> \E v \in Workers : Attesting(v, j)
      BY <2>2 DEF ServiceInv, TypeOK, Leave, Enter, Idle, Attesting,
                     Recording, Responding
    <3> QED
      BY <2>2, <3>1, <3>2 DEF PhaseOf, Attesting, Recording, Responding
  <2>6. Lifecycle!Move({i}, {"consumed"}, "granted")
    BY <2>3, <2>4, <2>5, LifecycleMove
  <2> QED
    BY <2>6 DEF Lifecycle!Next, Lifecycle!Grant
<1>7. ~ \E w \in Workers, i \in Ids : Reinserts(w, i)
  BY DEF Reinserts, ServiceInv, ClaimsInv, NothingReinserted
<1> QED
  BY <1>3, <1>4, <1>5, <1>6, <1>7, StepsAreQuiet, QuietHarmless, RecordsHarmless
     DEF ServiceInv

\* Over such a store the service implements the lifecycle: whatever interleaves,
\* fails or restarts, no transaction opens again or is consumed twice.
THEOREM LifecycleCorrect ==
    ASSUME Atomic
    PROVE  Spec => IsLifecycle
<1>1. Init => Lifecycle!Init
  <2>1. Init => PhasesMean /\ created = {}
    BY InitType, InitCalls, InitClaims, PhasesDisjoint DEF ServiceInv, Init
  <2> QED
    BY <2>1 DEF PhasesMean, Phase, Lifecycle!Init
<1>2. ServiceInv /\ ServiceInv' /\ [Next]_vars => [Lifecycle!Next]_Phase
  BY LifecycleStep
<1>3. Spec => []ServiceInv
  BY ClaimsInvariant DEF ServiceInv
<1> QED
  BY <1>1, <1>2, <1>3, PTL DEF Spec, IsLifecycle, Lifecycle!Spec
=============================================================================
