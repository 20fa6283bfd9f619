------------------------- MODULE VerifierAppProofs --------------------------
(***************************************************************************)
(* Proofs about module VerifierApp, for any users, emails, requests,       *)
(* transactions, workers and life time of a transaction.                   *)
(***************************************************************************)
EXTENDS VerifierApp, TLAPS

-----------------------------------------------------------------------------
(* Type correctness *)

LEMMA IdleType == Idle \in SlotType
BY DEF Idle, SlotType

LEMMA EnterType ==
    ASSUME slot \in [Workers -> SlotType], NEW w \in Workers,
           NEW s \in SlotType, Enter(w, s)
    PROVE  slot' \in [Workers -> SlotType]
BY DEF Enter

LEMMA LeaveType ==
    ASSUME slot \in [Workers -> SlotType], NEW w \in Workers, Leave(w)
    PROVE  slot' \in [Workers -> SlotType]
BY IdleType, EnterType DEF Leave

LEMMA TakeType ==
    ASSUME calls \in [Kinds -> Nat], NEW kind \in Kinds, Take(kind)
    PROVE  calls' \in [Kinds -> Nat]
<1>1. calls[kind] - 1 \in Nat
  BY DEF Take
<1> QED
  BY <1>1 DEF Take

\* A field of a change, or what the row has in its place.
LEMMA GivenIsOneOf ==
    ASSUME NEW field, NEW default
    PROVE  Given(field, default) \in field \cup {default}
BY DEF Given

LEMMA MergedType ==
    ASSUME NEW row \in User, NEW change \in ChangeType
    PROVE  /\ Merged(row, change) \in User
           /\ Merged(row, change).id = row.id
           /\ Merged(row, change).email = row.email
           /\ Merged(row, change).superadmin = row.superadmin
           /\ Merged(row, change).role \in change.role \cup {row.role}
           /\ Merged(row, change).active \in change.active \cup {row.active}
           /\ Merged(row, change).password \in change.password \cup {row.password}
<1>1. /\ Given(change.role, row.role) \in change.role \cup {row.role}
      /\ Given(change.active, row.active) \in change.active \cup {row.active}
      /\ Given(change.password, row.password)
            \in change.password \cup {row.password}
  BY GivenIsOneOf
<1>2. /\ change.role \subseteq Roles /\ change.active \subseteq BOOLEAN
      /\ change.password \subseteq Passwords
  BY DEF ChangeType
<1>3. /\ Given(change.role, row.role) \in Roles
      /\ Given(change.active, row.active) \in BOOLEAN
      /\ Given(change.password, row.password) \in Passwords
  BY <1>1, <1>2 DEF User
<1> QED
  BY <1>1, <1>3 DEF Merged, User

LEMMA InitType == Init => TypeOK
BY IdleType, CallsAssumption DEF Init, TypeOK

LEMMA PrepareType ==
    ASSUME TypeOK, NEW w \in Workers, NEW i \in UserIds, NEW row \in User,
           Prepare(w, i, row), calls' \in [Kinds -> Nat]
    PROVE  TypeOK'
<1>1. [Idle EXCEPT !.pc = "insert", !.row = {row}] \in SlotType
  BY DEF Idle, SlotType
<1>2. [id |-> i, set |-> [role |-> {row.role}, active |-> {TRUE},
                          password |-> {row.password}]]
         \in [id : UserIds, set : ChangeType]
  BY DEF User, ChangeType
<1>3. slot' \in [Workers -> SlotType]
  BY <1>1, EnterType DEF Prepare, TypeOK
<1> QED
  BY <1>2, <1>3 DEF Prepare, TypeOK

LEMMA AccountCallType ==
    ASSUME TypeOK, NEW w \in Workers, NEW e \in Emails, NEW p \in Passwords,
           NEW i \in UserIds,
           \/ Login(w, e, p)
           \/ Bootstrap(w, i, e, p)
           \/ \E a \in UserIds, r \in Roles : CreateUser(w, a, i, e, p, r)
    PROVE  TypeOK'
<1>1. CASE Login(w, e, p)
  <2>1. PICK row \in users : Enter(w, [Idle EXCEPT !.pc = "login", !.row = {row}])
    BY <1>1 DEF Login
  <2>2. [Idle EXCEPT !.pc = "login", !.row = {row}] \in SlotType
    BY DEF Idle, SlotType, TypeOK
  <2>3. slot' \in [Workers -> SlotType]
    BY <2>1, <2>2, EnterType DEF TypeOK
  <2>4. calls' \in [Kinds -> Nat]
    BY <1>1, TakeType DEF Login, Begin, TypeOK, Kinds
  <2> QED
    BY <1>1, <2>3, <2>4 DEF Login, history, TypeOK
<1>2. CASE Bootstrap(w, i, e, p)
  <2>1. [id |-> i, email |-> e, password |-> p, role |-> "admin",
         active |-> TRUE, superadmin |-> TRUE] \in User
    BY DEF User, Roles
  <2>2. calls' \in [Kinds -> Nat]
    BY <1>2, TakeType DEF Bootstrap, Begin, TypeOK, Kinds
  <2> QED
    BY <1>2, <2>1, <2>2, PrepareType DEF Bootstrap
<1>3. ASSUME NEW a \in UserIds, NEW r \in Roles, CreateUser(w, a, i, e, p, r)
      PROVE  TypeOK'
  <2>1. [id |-> i, email |-> e, password |-> p, role |-> r,
         active |-> TRUE, superadmin |-> FALSE] \in User
    BY DEF User
  <2>2. calls' \in [Kinds -> Nat]
    BY <1>3, TakeType DEF CreateUser, Begin, TypeOK, Kinds
  <2> QED
    BY <1>3, <2>1, <2>2, PrepareType DEF CreateUser
<1> QED
  BY <1>1, <1>2, <1>3

LEMMA AdminCallType ==
    ASSUME TypeOK, NEW w \in Workers, NEW a \in UserIds, NEW i \in UserIds,
           \/ DeleteUser(w, a, i)
           \/ \E change \in Changes : UpdateUser(w, a, i, change)
    PROVE  TypeOK'
<1>1. CASE DeleteUser(w, a, i)
  <2>1. [Idle EXCEPT !.pc = "delete_read", !.target = {i}] \in SlotType
    BY DEF Idle, SlotType
  <2>2. slot' \in [Workers -> SlotType] /\ calls' \in [Kinds -> Nat]
    BY <1>1, <2>1, EnterType, TakeType DEF DeleteUser, Begin, TypeOK, Kinds
  <2> QED
    BY <1>1, <2>2 DEF DeleteUser, history, TypeOK
<1>2. ASSUME NEW change \in Changes, UpdateUser(w, a, i, change)
      PROVE  TypeOK'
  <2>1. change \in ChangeType
    BY ChangesAssumption
  <2>2. [Idle EXCEPT !.pc = "update_read", !.target = {i}, !.change = {change}]
           \in SlotType
    BY <2>1 DEF Idle, SlotType
  <2>3. slot' \in [Workers -> SlotType] /\ calls' \in [Kinds -> Nat]
    BY <1>2, <2>2, EnterType, TakeType DEF UpdateUser, Begin, TypeOK, Kinds
  <2> QED
    BY <1>2, <2>3 DEF UpdateUser, history, TypeOK
<1> QED
  BY <1>1, <1>2

LEMMA QrCallType ==
    ASSUME TypeOK, NEW w \in Workers, NEW a \in UserIds,
           GenerateQr(w, a) \/ \E t \in Txs : QrStatus(w, a, t)
    PROVE  TypeOK'
<1>1. CurrentUser(a) \subseteq User
  BY DEF CurrentUser, UserById, TypeOK
<1>2. CASE GenerateQr(w, a)
  <2>1. ASSUME NEW row \in User
        PROVE  [Idle EXCEPT !.pc = "init", !.row = {row}] \in SlotType
    BY DEF Idle, SlotType
  <2>2. slot' \in [Workers -> SlotType]
    BY <1>1, <1>2, <2>1, EnterType DEF GenerateQr, TypeOK
  <2>3. calls' \in [Kinds -> Nat]
    BY <1>2, TakeType DEF GenerateQr, Begin, TypeOK, Kinds
  <2> QED
    BY <1>2, <2>2, <2>3 DEF GenerateQr, history, TypeOK
<1>3. ASSUME NEW t \in Txs, QrStatus(w, a, t)
      PROVE  TypeOK'
  <2>1. Owner(t) \subseteq Entry
    BY DEF Owner, TypeOK
  <2>2. ASSUME NEW row \in User
        PROVE  [Idle EXCEPT !.pc = "poll", !.row = {row}, !.tx = {t},
                            !.entry = Owner(t)] \in SlotType
    BY <2>1 DEF Idle, SlotType
  <2>3. slot' \in [Workers -> SlotType]
    BY <1>1, <1>3, <2>2, EnterType DEF QrStatus, TypeOK
  <2>4. calls' \in [Kinds -> Nat]
    BY <1>3, TakeType DEF QrStatus, Begin, TypeOK, Kinds
  <2> QED
    BY <1>3, <2>3, <2>4 DEF QrStatus, history, TypeOK
<1> QED
  BY <1>2, <1>3

LEMMA CallType ==
    ASSUME TypeOK, NEW w \in Workers, Call(w)
    PROVE  TypeOK'
<1>1. CASE \E e \in Emails, p \in Passwords : Login(w, e, p)
  <2>1. CASE UserIds = {}
    <3>1. users = {}
      BY <2>1 DEF TypeOK, User
    <3> QED
      BY <1>1, <3>1 DEF Login
  <2>2. CASE UserIds # {}
    BY <1>1, <2>2, AccountCallType
  <2> QED
    BY <2>1, <2>2
<1>2. CASE \E e \in Emails, p \in Passwords, i \in UserIds :
              \/ Bootstrap(w, i, e, p)
              \/ \E a \in UserIds, r \in Roles : CreateUser(w, a, i, e, p, r)
  BY <1>2, AccountCallType
<1>3. CASE \E a \in UserIds :
              \/ \E i \in UserIds :
                    \/ DeleteUser(w, a, i)
                    \/ \E change \in Changes : UpdateUser(w, a, i, change)
              \/ GenerateQr(w, a)
              \/ \E t \in Txs : QrStatus(w, a, t)
  BY <1>3, AdminCallType, QrCallType
<1> QED
  BY <1>1, <1>2, <1>3 DEF Call

LEMMA InsertType ==
    ASSUME TypeOK, NEW w \in Workers, Insert(w)
    PROVE  TypeOK'
<1>1. slot[w] \in SlotType /\ slot[w].row \subseteq User
  BY DEF TypeOK, SlotType
<1>2. [slot[w] EXCEPT !.pc = "first_login"] \in SlotType
  BY <1>1 DEF SlotType
<1>3. slot' \in [Workers -> SlotType]
  BY <1>2, EnterType, LeaveType DEF Insert, TypeOK
<1>4. users' \subseteq User /\ born' \subseteq UserIds
  BY <1>1 DEF Insert, User, TypeOK
<1> QED
  BY <1>3, <1>4 DEF Insert, TypeOK

LEMMA SessionType ==
    ASSUME TypeOK, NEW w \in Workers, FirstLogin(w) \/ LoginSession(w)
    PROVE  TypeOK'
<1>1. slot[w].row \subseteq User
  BY DEF TypeOK, SlotType
<1>2. {row.id : row \in slot[w].row} \subseteq UserIds
  BY <1>1 DEF User
<1>3. sessions' \subseteq UserIds
  BY <1>2 DEF FirstLogin, LoginSession, TypeOK
<1>4. slot' \in [Workers -> SlotType]
  BY LeaveType DEF FirstLogin, LoginSession, TypeOK
<1> QED
  BY <1>3, <1>4 DEF FirstLogin, LoginSession, history, TypeOK

LEMMA AdminStepType ==
    ASSUME TypeOK, NEW w \in Workers,
           UpdateRead(w) \/ UpdateWrite(w) \/ DeleteRead(w) \/ DeleteWrite(w)
    PROVE  TypeOK'
<1>1. /\ slot[w] \in SlotType
      /\ slot[w].row \subseteq User
      /\ slot[w].change \subseteq ChangeType
  BY DEF TypeOK, SlotType
<1>2. CASE UpdateRead(w)
  <2>1. ASSUME NEW row \in User, NEW change \in ChangeType
        PROVE  [slot[w] EXCEPT !.pc = "update", !.row = {Merged(row, change)}]
                  \in SlotType
    BY <1>1, MergedType DEF SlotType
  <2>2. slot' \in [Workers -> SlotType]
    BY <1>1, <1>2, <2>1, EnterType, LeaveType DEF UpdateRead, TypeOK
  <2> QED
    BY <1>2, <2>2 DEF UpdateRead, history, TypeOK
<1>3. CASE UpdateWrite(w)
  <2>1. slot' \in [Workers -> SlotType] /\ users' \subseteq User
    BY <1>1, <1>3, LeaveType DEF UpdateWrite, TypeOK
  <2> QED
    BY <1>3, <2>1 DEF UpdateWrite, history, TypeOK
<1>4. CASE DeleteRead(w)
  <2>1. [slot[w] EXCEPT !.pc = "delete"] \in SlotType
    BY <1>1 DEF SlotType
  <2>2. slot' \in [Workers -> SlotType]
    BY <1>4, <2>1, EnterType, LeaveType DEF DeleteRead, TypeOK
  <2> QED
    BY <1>4, <2>2 DEF DeleteRead, history, TypeOK
<1>5. CASE DeleteWrite(w)
  <2>1. slot' \in [Workers -> SlotType] /\ users' \subseteq User
    BY <1>5, LeaveType DEF DeleteWrite, TypeOK
  <2> QED
    BY <1>5, <2>1 DEF DeleteWrite, history, TypeOK
<1> QED
  BY <1>2, <1>3, <1>4, <1>5

LEMMA InitTransactionType ==
    ASSUME TypeOK, NEW w \in Workers, NEW t \in Txs, InitTransaction(w, t)
    PROVE  TypeOK'
<1>1. now + 1 \in Nat /\ now + TTL \in Nat
  BY TimeAssumption DEF TypeOK
<1>2. [slot[w] EXCEPT !.pc = "map", !.tx = {t}] \in SlotType
  BY DEF TypeOK, SlotType
<1>3. slot' \in [Workers -> SlotType]
  BY <1>2, EnterType DEF InitTransaction, TypeOK
<1>4. txs' \subseteq Tx
  BY <1>1 DEF InitTransaction, TypeOK, Tx
<1> QED
  BY <1>1, <1>3, <1>4 DEF InitTransaction, TypeOK

LEMMA QrStepType ==
    ASSUME TypeOK, NEW w \in Workers, MapInsert(w) \/ PollAnswer(w)
    PROVE  TypeOK'
<1>1. /\ slot[w].row \subseteq User /\ slot[w].tx \subseteq Txs
      /\ slot[w].entry \subseteq Entry
  BY DEF TypeOK, SlotType
<1>2. CASE MapInsert(w)
  <2>1. PICK row \in slot[w].row, t \in slot[w].tx :
           /\ qrMap' = {e \in qrMap : e.expires > now /\ e.tx # t} \cup
                       {[tx |-> t, user |-> row.id, email |-> row.email,
                         expires |-> EntryExpiry]}
           /\ started' = started \cup
                       {[tx |-> t, user |-> row.id, email |-> row.email]}
    BY <1>2 DEF MapInsert
  <2>2. EntryExpiry \in Nat /\ t \in Txs /\ row.id \in UserIds /\ row.email \in Emails
    BY <1>1, TimeAssumption DEF EntryExpiry, TypeOK, User
  <2>3. qrMap' \subseteq Entry
    BY <2>1, <2>2 DEF Entry, TypeOK
  <2>4. started' \subseteq [tx : Txs, user : UserIds, email : Emails]
    BY <2>1, <2>2 DEF TypeOK
  <2>5. slot' \in [Workers -> SlotType]
    BY <1>2, LeaveType DEF MapInsert, TypeOK
  <2> QED
    BY <1>2, <2>3, <2>4, <2>5 DEF MapInsert, TypeOK
<1>3. CASE PollAnswer(w)
  <2>1. AttributedTo(w) \subseteq Emails
    BY <1>1 DEF AttributedTo, Entry
  <2>2. journal' \subseteq [tx : Txs, email : SUBSET Emails]
    BY <1>1, <1>3, <2>1 DEF PollAnswer, TypeOK
  <2>3. slot' \in [Workers -> SlotType] /\ txs' \subseteq Tx
    BY <1>3, LeaveType DEF PollAnswer, TypeOK
  <2> QED
    BY <1>3, <2>2, <2>3 DEF PollAnswer, TypeOK
<1> QED
  BY <1>2, <1>3

LEMMA TypeStep == TypeOK /\ [Next]_vars => TypeOK'
<1> SUFFICES ASSUME TypeOK, [Next]_vars PROVE TypeOK'
  OBVIOUS
<1>1. CASE \E w \in Workers : Call(w)
  BY <1>1, CallType
<1>2. CASE \E w \in Workers : Step(w)
  BY <1>2, InsertType, SessionType, AdminStepType, InitTransactionType, QrStepType
     DEF Step
<1>3. CASE \E w \in Workers : Abandon(w)
  BY <1>3, LeaveType DEF Abandon, history, TypeOK
<1>4. CASE \E i \in UserIds : Logout(i)
  <2>1. calls' \in [Kinds -> Nat]
    BY <1>4, TakeType DEF Logout, TypeOK, Kinds
  <2> QED
    BY <1>4, <2>1 DEF Logout, history, TypeOK
<1>5. CASE Tick
  BY <1>5 DEF Tick, history, TypeOK
<1>6. CASE Restart
  <2>1. calls' \in [Kinds -> Nat]
    BY <1>6, TakeType DEF Restart, TypeOK, Kinds
  <2> QED
    BY <1>6, <2>1, IdleType DEF Restart, history, TypeOK
<1>7. CASE UNCHANGED vars
  BY <1>7 DEF vars, history, TypeOK
<1> QED
  BY <1>1, <1>2, <1>3, <1>4, <1>5, <1>6, <1>7 DEF Next

\* Every variable keeps its type, in every instance of the backend.
THEOREM TypeCorrect == Spec => []TypeOK
BY InitType, TypeStep, PTL DEF Spec

-----------------------------------------------------------------------------
(* The inductive invariants *)

\* An account is inserted once, by one call.
BornOnce ==
    /\ born \subseteq issued
    /\ \A row \in users : row.id \in born
    /\ \A w \in Workers : \A row \in slot[w].row :
          slot[w].pc = "insert" =>
             /\ row.id \in issued \ born
             /\ \A v \in Workers : \A other \in slot[v].row :
                   slot[v].pc = "insert" /\ other.id = row.id => v = w

\* A row that is about to be written back differs from the present one in
\* nothing that identifies the account.
UpdatesKeepIdentity ==
    \A w \in Workers : \A new \in slot[w].row :
        slot[w].pc = "update" =>
           /\ new.id \in born
           /\ \A row \in users : row.id = new.id =>
                 row.email = new.email /\ row.superadmin = new.superadmin

AccountsInv == BornOnce /\ AccountsUnique /\ UpdatesKeepIdentity

\* Somebody is there who cannot be removed.
SomeSuperadmin == \E row \in users : row.superadmin

\* The first account is a superadmin, and no call is about to delete one.
SuperadminStays ==
    /\ users # {} => SomeSuperadmin
    /\ \A w \in Workers :
          /\ slot[w].pc = "insert" =>
                \A row \in slot[w].row : row.superadmin \/ SomeSuperadmin
          /\ \A i, j \in slot[w].target : i = j
          /\ slot[w].pc = "delete" => \A i \in slot[w].target :
                i \in born /\ \A row \in users : row.id = i => ~ row.superadmin

\* A transaction is started once, by the user in the map, whose entry lasts
\* longer than the transaction.
StartedOnce ==
    /\ \A tx \in txs : tx.id \in issued
    /\ \A s \in started : s.tx \in issued
    /\ \A s, r \in started : s.tx = r.tx => s = r

EntriesStarted ==
    /\ \A e \in qrMap : [tx |-> e.tx, user |-> e.user, email |-> e.email] \in started
    /\ \A tx \in txs, s \in started : s.tx = tx.id /\ now <= tx.expires =>
          \E e \in qrMap : e.tx = tx.id /\ e.expires > tx.expires

\* A call that is about to enter a transaction into the map.
MapsFresh ==
    \A w \in Workers : \A t \in slot[w].tx :
        slot[w].pc = "map" =>
           /\ t \in issued
           /\ \A s \in started : s.tx # t
           /\ \A tx \in txs : tx.id = t => tx.expires < now + TTL
           /\ \A v \in Workers : slot[v].pc = "map" /\ t \in slot[v].tx => v = w

\* A poll of a live transaction knows its owner, and has compared.
PollsChecked ==
    \A w \in Workers :
        slot[w].pc = "poll" =>
           /\ \A t \in slot[w].tx :
                 /\ \E s \in started : s.tx = t
                 /\ Alive(t) => slot[w].entry # {}
                 /\ \A e \in slot[w].entry : e.tx = t
           /\ \A e \in slot[w].entry :
                 /\ [tx |-> e.tx, user |-> e.user, email |-> e.email] \in started
                 /\ \A row \in slot[w].row : e.user = row.id \/ row.role = "admin"

OwnersInv == StartedOnce /\ EntriesStarted /\ MapsFresh /\ PollsChecked

-----------------------------------------------------------------------------
(* The actions in groups *)

Registration(w) ==
    \E i \in UserIds, e \in Emails, p \in Passwords :
        \/ Bootstrap(w, i, e, p)
        \/ \E a \in UserIds, r \in Roles : CreateUser(w, a, i, e, p, r)

Update(w) ==
    \/ \E a, i \in UserIds, change \in Changes : UpdateUser(w, a, i, change)
    \/ UpdateRead(w) \/ UpdateWrite(w)

Deletion(w) ==
    (\E a, i \in UserIds : DeleteUser(w, a, i)) \/ DeleteRead(w) \/ DeleteWrite(w)

\* What changes neither accounts nor transactions.
SignIn(w) ==
    \/ \E e \in Emails, p \in Passwords : Login(w, e, p)
    \/ FirstLogin(w) \/ LoginSession(w) \/ Abandon(w)

Polling(w) ==
    \/ \E a \in UserIds, t \in Txs : QrStatus(w, a, t)
    \/ PollAnswer(w)

Starting(w) ==
    \/ \E a \in UserIds : GenerateQr(w, a)
    \/ \E t \in Txs : InitTransaction(w, t)
    \/ MapInsert(w)

Environment == (\E i \in UserIds : Logout(i)) \/ Tick \/ Restart \/ UNCHANGED vars

LEMMA NextSplits ==
    ASSUME [Next]_vars
    PROVE  \/ \E w \in Workers : Registration(w) \/ Insert(w)
           \/ \E w \in Workers : Update(w)
           \/ \E w \in Workers : Deletion(w)
           \/ \E w \in Workers : SignIn(w)
           \/ \E w \in Workers : Polling(w)
           \/ \E w \in Workers : Starting(w)
           \/ Environment
<1>1. ASSUME NEW w \in Workers, Call(w)
      PROVE  \/ Registration(w) \/ Update(w) \/ Deletion(w) \/ SignIn(w)
             \/ Polling(w) \/ Starting(w)
  BY <1>1 DEF Call, Registration, Update, Deletion, SignIn, Polling, Starting
<1>2. ASSUME NEW w \in Workers, Step(w) \/ Abandon(w)
      PROVE  \/ Insert(w) \/ Update(w) \/ Deletion(w) \/ SignIn(w)
             \/ Polling(w) \/ Starting(w)
  BY <1>2 DEF Step, Update, Deletion, SignIn, Polling, Starting
<1>3. CASE \E w \in Workers : Call(w) \/ Step(w) \/ Abandon(w)
  BY <1>1, <1>2, <1>3
<1>4. CASE (\E i \in UserIds : Logout(i)) \/ Tick \/ Restart \/ UNCHANGED vars
  BY <1>4 DEF Environment
<1> QED
  BY <1>3, <1>4 DEF Next

LEMMA SlotAfterEnter ==
    ASSUME TypeOK, NEW w \in Workers, NEW s, Enter(w, s)
    PROVE  /\ slot'[w] = s
           /\ \A v \in Workers : v # w => slot'[v] = slot[v]
BY DEF Enter, TypeOK

LEMMA SlotAfterLeave ==
    ASSUME TypeOK, NEW w \in Workers, Leave(w)
    PROVE  /\ slot'[w] = Idle /\ slot'[w].pc = "idle"
           /\ \A v \in Workers : v # w => slot'[v] = slot[v]
BY SlotAfterEnter DEF Leave, Idle

\* What a registration prepares.
LEMMA RegistrationPrepares ==
    ASSUME NEW w \in Workers, Registration(w)
    PROVE  \E i \in UserIds, row \in User :
              /\ Prepare(w, i, row)
              /\ row.id = i /\ row.active = TRUE
              /\ row.superadmin \/ users # {}
<1>1. PICK i \in UserIds, e \in Emails, p \in Passwords :
         \/ Bootstrap(w, i, e, p)
         \/ \E a \in UserIds, r \in Roles : CreateUser(w, a, i, e, p, r)
  BY DEF Registration
<1>2. CASE Bootstrap(w, i, e, p)
  <2> DEFINE row == [id |-> i, email |-> e, password |-> p, role |-> "admin",
                     active |-> TRUE, superadmin |-> TRUE]
  <2>1. row \in User
    BY DEF User, Roles
  <2>2. Prepare(w, i, row)
    BY <1>2 DEF Bootstrap
  <2> QED
    BY <2>1, <2>2
<1>3. ASSUME NEW a \in UserIds, NEW r \in Roles, CreateUser(w, a, i, e, p, r)
      PROVE  \E row \in User :
                /\ Prepare(w, i, row)
                /\ row.id = i /\ row.active = TRUE
                /\ row.superadmin \/ users # {}
  <2> DEFINE row == [id |-> i, email |-> e, password |-> p, role |-> r,
                     active |-> TRUE, superadmin |-> FALSE]
  <2>1. row \in User
    BY DEF User
  <2>2. Prepare(w, i, row) /\ users # {}
    BY <1>3 DEF CreateUser, CurrentAdmin, CurrentUser, UserById
  <2> QED
    BY <2>1, <2>2
<1> QED
  BY <1>1, <1>2, <1>3

\* What the other calls leave alone.
LEMMA DeletionEffect ==
    ASSUME TypeOK, NEW w \in Workers, Deletion(w)
    PROVE  /\ users' \subseteq users
           /\ UNCHANGED <<now, txs, qrMap, history>>
           /\ slot'[w].pc \in {"idle", "delete_read", "delete"}
           /\ \A v \in Workers : v # w => slot'[v] = slot[v]
<1>1. ASSUME NEW a \in UserIds, NEW i \in UserIds, DeleteUser(w, a, i)
      PROVE  slot'[w].pc = "delete_read" /\ \A v \in Workers : v # w => slot'[v] = slot[v]
  <2>1. [Idle EXCEPT !.pc = "delete_read", !.target = {i}].pc = "delete_read"
    BY DEF Idle
  <2> QED
    BY <1>1, <2>1, SlotAfterEnter DEF DeleteUser
<1>2. CASE DeleteRead(w)
  <2>1. [slot[w] EXCEPT !.pc = "delete"].pc = "delete"
    BY DEF TypeOK, SlotType
  <2> QED
    BY <1>2, <2>1, SlotAfterEnter, SlotAfterLeave DEF DeleteRead
<1>3. CASE DeleteWrite(w)
  BY <1>3, SlotAfterLeave DEF DeleteWrite
<1> QED
  BY <1>1, <1>2, <1>3 DEF Deletion, DeleteUser, DeleteRead, DeleteWrite

LEMMA SignInEffect ==
    ASSUME TypeOK, NEW w \in Workers, SignIn(w)
    PROVE  /\ UNCHANGED <<now, users, txs, qrMap, history>>
           /\ slot'[w].pc \in {"idle", "login"}
           /\ slot'[w].target = {}
           /\ \A v \in Workers : v # w => slot'[v] = slot[v]
<1>1. ASSUME NEW e \in Emails, NEW p \in Passwords, Login(w, e, p)
      PROVE  /\ slot'[w].pc = "login" /\ slot'[w].target = {}
             /\ \A v \in Workers : v # w => slot'[v] = slot[v]
  <2>1. \A row : /\ [Idle EXCEPT !.pc = "login", !.row = {row}].pc = "login"
                 /\ [Idle EXCEPT !.pc = "login", !.row = {row}].target = {}
    BY DEF Idle
  <2> QED
    BY <1>1, <2>1, SlotAfterEnter DEF Login
<1>2. ASSUME FirstLogin(w) \/ LoginSession(w) \/ Abandon(w)
      PROVE  /\ slot'[w].pc = "idle" /\ slot'[w].target = {}
             /\ \A v \in Workers : v # w => slot'[v] = slot[v]
  BY <1>2, SlotAfterLeave DEF FirstLogin, LoginSession, Abandon, Idle
<1> QED
  BY <1>1, <1>2 DEF SignIn, Login, FirstLogin, LoginSession, Abandon

LEMMA PollingEffect ==
    ASSUME TypeOK, NEW w \in Workers, Polling(w)
    PROVE  /\ UNCHANGED <<now, users, qrMap, issued, born, started>>
           /\ slot'[w].pc \in {"idle", "poll"}
           /\ slot'[w].target = {}
           /\ \A v \in Workers : v # w => slot'[v] = slot[v]
<1>1. ASSUME NEW a \in UserIds, NEW t \in Txs, QrStatus(w, a, t)
      PROVE  /\ slot'[w].pc = "poll" /\ slot'[w].target = {}
             /\ \A v \in Workers : v # w => slot'[v] = slot[v]
  <2>1. PICK row \in CurrentUser(a) :
           Enter(w, [Idle EXCEPT !.pc = "poll", !.row = {row}, !.tx = {t},
                                 !.entry = Owner(t)])
    BY <1>1 DEF QrStatus
  <2> DEFINE s == [Idle EXCEPT !.pc = "poll", !.row = {row}, !.tx = {t},
                               !.entry = Owner(t)]
  <2>2. s.pc = "poll" /\ s.target = {}
    BY DEF Idle
  <2> HIDE DEF s
  <2> QED
    BY <2>1, <2>2, SlotAfterEnter DEF s
<1>2. CASE PollAnswer(w)
  BY <1>2, SlotAfterLeave DEF PollAnswer, Idle
<1> QED
  BY <1>1, <1>2, SlotAfterLeave DEF Polling, QrStatus, PollAnswer, history, Idle

LEMMA StartingEffect ==
    ASSUME TypeOK, NEW w \in Workers, Starting(w)
    PROVE  /\ UNCHANGED <<users, born, journal>>
           /\ issued \subseteq issued' /\ started \subseteq started'
           /\ slot'[w].pc \in {"idle", "init", "map"}
           /\ slot'[w].target = {} \/ slot'[w].target = slot[w].target
           /\ \A v \in Workers : v # w => slot'[v] = slot[v]
<1>1. ASSUME NEW a \in UserIds, GenerateQr(w, a)
      PROVE  /\ slot'[w].pc = "init" /\ slot'[w].target = {}
             /\ \A v \in Workers : v # w => slot'[v] = slot[v]
  <2>1. \A row : /\ [Idle EXCEPT !.pc = "init", !.row = {row}].pc = "init"
                 /\ [Idle EXCEPT !.pc = "init", !.row = {row}].target = {}
    BY DEF Idle
  <2> QED
    BY <1>1, <2>1, SlotAfterEnter DEF GenerateQr
<1>2. ASSUME NEW t \in Txs, InitTransaction(w, t)
      PROVE  /\ slot'[w].pc = "map" /\ slot'[w].target = slot[w].target
             /\ \A v \in Workers : v # w => slot'[v] = slot[v]
  <2>1. /\ [slot[w] EXCEPT !.pc = "map", !.tx = {t}].pc = "map"
        /\ [slot[w] EXCEPT !.pc = "map", !.tx = {t}].target = slot[w].target
    BY DEF TypeOK, SlotType
  <2> QED
    BY <1>2, <2>1, SlotAfterEnter DEF InitTransaction
<1>3. CASE MapInsert(w)
  BY <1>3, SlotAfterLeave DEF MapInsert, Idle
<1> QED
  BY <1>1, <1>2, <1>3 DEF Starting, GenerateQr, InitTransaction, MapInsert, history

LEMMA EnvironmentEffect ==
    ASSUME TypeOK, Environment
    PROVE  /\ users' \subseteq users
           /\ KeepUsers => users' = users
           /\ UNCHANGED history
           /\ \A w \in Workers : slot'[w] = slot[w] \/ slot'[w] = Idle
BY DEF Environment, Logout, Tick, Restart, vars, history

-----------------------------------------------------------------------------
(* Accounts are unique *)

LEMMA AccountsQuiet ==
    ASSUME AccountsInv, users' \subseteq users, born' = born,
           issued \subseteq issued',
           \A w \in Workers :
              slot'[w] = slot[w] \/ slot'[w].pc \notin {"insert", "update"}
    PROVE  AccountsInv'
<1>1. BornOnce'
  BY DEF AccountsInv, BornOnce
<1>2. AccountsUnique'
  BY DEF AccountsInv, AccountsUnique
<1>3. UpdatesKeepIdentity'
  BY DEF AccountsInv, UpdatesKeepIdentity
<1> QED
  BY <1>1, <1>2, <1>3 DEF AccountsInv

LEMMA AccountsRegistration ==
    ASSUME TypeOK, AccountsInv, NEW w \in Workers, Registration(w)
    PROVE  AccountsInv'
<1>1. PICK i \in UserIds, row \in User : Prepare(w, i, row) /\ row.id = i
  BY RegistrationPrepares
<1>2. /\ slot'[w].pc = "insert" /\ slot'[w].row = {row}
      /\ \A v \in Workers : v # w => slot'[v] = slot[v]
  <2>1. /\ [Idle EXCEPT !.pc = "insert", !.row = {row}].pc = "insert"
        /\ [Idle EXCEPT !.pc = "insert", !.row = {row}].row = {row}
    BY DEF Idle
  <2> QED
    BY <1>1, <2>1, SlotAfterEnter DEF Prepare
<1>3. /\ i \notin issued /\ issued' = issued \cup {i}
      /\ UNCHANGED <<users, born>>
  BY <1>1 DEF Prepare
<1>4. BornOnce'
  BY <1>1, <1>2, <1>3 DEF AccountsInv, BornOnce
<1>5. AccountsUnique'
  BY <1>3 DEF AccountsInv, AccountsUnique
<1>6. UpdatesKeepIdentity'
  BY <1>2, <1>3 DEF AccountsInv, UpdatesKeepIdentity
<1> QED
  BY <1>4, <1>5, <1>6 DEF AccountsInv

\* The INSERT: refused, or of an id that no row and no other call has.
LEMMA AccountsInsert ==
    ASSUME TypeOK, AccountsInv, NEW w \in Workers, Insert(w)
    PROVE  AccountsInv'
<1>1. PICK row \in slot[w].row :
         IF EmailTaken(row) THEN Leave(w) /\ UNCHANGED <<users, born>>
         ELSE /\ users' = users \cup {row}
              /\ born' = born \cup {row.id}
              /\ IF row.superadmin
                 THEN Enter(w, [slot[w] EXCEPT !.pc = "first_login"])
                 ELSE Leave(w)
  BY DEF Insert
<1>2. [slot[w] EXCEPT !.pc = "first_login"].pc = "first_login"
  BY DEF TypeOK, SlotType
<1>3. /\ slot'[w].pc \in {"idle", "first_login"}
      /\ \A v \in Workers : v # w => slot'[v] = slot[v]
  BY <1>1, <1>2, SlotAfterEnter, SlotAfterLeave
<1>4. slot[w].pc = "insert" /\ UNCHANGED issued
  BY DEF Insert
<1>5. CASE EmailTaken(row)
  BY <1>1, <1>3, <1>4, <1>5, AccountsQuiet
<1>6. CASE ~ EmailTaken(row)
  <2>1. users' = users \cup {row} /\ born' = born \cup {row.id}
    BY <1>1, <1>6
  <2>2. row.id \in issued \ born
    BY <1>4 DEF AccountsInv, BornOnce
  <2>3. BornOnce'
    BY <1>3, <1>4, <2>1, <2>2 DEF AccountsInv, BornOnce
  <2>4. AccountsUnique'
    BY <1>6, <2>1, <2>2 DEF AccountsInv, AccountsUnique, BornOnce, EmailTaken
  <2>5. UpdatesKeepIdentity'
    BY <1>3, <2>1, <2>2 DEF AccountsInv, UpdatesKeepIdentity
  <2> QED
    BY <2>3, <2>4, <2>5 DEF AccountsInv
<1> QED
  BY <1>5, <1>6

LEMMA AccountsUpdate ==
    ASSUME TypeOK, AccountsInv, NEW w \in Workers, Update(w)
    PROVE  AccountsInv'
<1>1. ASSUME NEW a \in UserIds, NEW i \in UserIds, NEW change \in Changes,
             UpdateUser(w, a, i, change)
      PROVE  AccountsInv'
  <2>1. /\ slot'[w].pc = "update_read"
        /\ \A v \in Workers : v # w => slot'[v] = slot[v]
    <3>1. [Idle EXCEPT !.pc = "update_read", !.target = {i},
                       !.change = {change}].pc = "update_read"
      BY DEF Idle
    <3> QED
      BY <1>1, <3>1, SlotAfterEnter DEF UpdateUser
  <2> QED
    BY <1>1, <2>1, AccountsQuiet DEF UpdateUser, history
<1>2. CASE UpdateRead(w)
  <2>1. UNCHANGED <<users, born, issued>>
    BY <1>2 DEF UpdateRead, history
  <2>2. CASE Leave(w)
    BY <2>1, <2>2, SlotAfterLeave, AccountsQuiet
  <2>3. ASSUME NEW row \in users, NEW change \in slot[w].change,
               Enter(w, [slot[w] EXCEPT !.pc = "update",
                                        !.row = {Merged(row, change)}])
        PROVE  AccountsInv'
    <3>1. /\ [slot[w] EXCEPT !.pc = "update", !.row = {Merged(row, change)}].pc
                = "update"
          /\ [slot[w] EXCEPT !.pc = "update", !.row = {Merged(row, change)}].row
                = {Merged(row, change)}
      BY DEF TypeOK, SlotType
    <3>2. /\ slot'[w].pc = "update" /\ slot'[w].row = {Merged(row, change)}
          /\ \A v \in Workers : v # w => slot'[v] = slot[v]
      BY <2>3, <3>1, SlotAfterEnter
    <3>3. row \in User /\ change \in ChangeType
      BY DEF TypeOK, SlotType
    <3>4. /\ Merged(row, change).id = row.id
          /\ Merged(row, change).email = row.email
          /\ Merged(row, change).superadmin = row.superadmin
      BY <3>3, MergedType
    <3>5. BornOnce' /\ AccountsUnique'
      BY <2>1, <3>2 DEF AccountsInv, BornOnce, AccountsUnique
    <3>6. row.id \in born /\ \A other \in users : other.id = row.id => other = row
      BY DEF AccountsInv, BornOnce, AccountsUnique
    <3>7. UpdatesKeepIdentity'
      BY <2>1, <3>2, <3>4, <3>6 DEF AccountsInv, UpdatesKeepIdentity
    <3> QED
      BY <3>5, <3>7 DEF AccountsInv
  <2> QED
    BY <1>2, <2>2, <2>3 DEF UpdateRead
<1>3. CASE UpdateWrite(w)
  <2>1. PICK new \in slot[w].row :
           users' = {row \in users : row.id # new.id}
                    \cup {new : row \in UserById(new.id)}
    BY <1>3 DEF UpdateWrite
  <2>2. /\ slot[w].pc = "update" /\ UNCHANGED <<born, issued>>
        /\ slot'[w].pc = "idle" /\ \A v \in Workers : v # w => slot'[v] = slot[v]
    BY <1>3, SlotAfterLeave DEF UpdateWrite, history
  <2>3. CASE UserById(new.id) = {}
    <3>1. users' \subseteq users
      BY <2>1, <2>3
    <3> QED
      BY <2>2, <3>1, AccountsQuiet
  <2>4. CASE UserById(new.id) # {}
    <3>1. PICK old \in users : old.id = new.id
      BY <2>4 DEF UserById
    <3>2. users' = {row \in users : row.id # new.id} \cup {new}
      BY <2>1, <2>4
    <3>3. old.email = new.email /\ old.superadmin = new.superadmin
      BY <2>2, <3>1 DEF AccountsInv, UpdatesKeepIdentity
    <3>4. BornOnce'
      BY <2>2, <3>1, <3>2 DEF AccountsInv, BornOnce
    <3>5. AccountsUnique'
      BY <3>1, <3>2, <3>3 DEF AccountsInv, AccountsUnique
    <3>6. UpdatesKeepIdentity'
      BY <2>2, <3>1, <3>2, <3>3 DEF AccountsInv, UpdatesKeepIdentity
    <3> QED
      BY <3>4, <3>5, <3>6 DEF AccountsInv
  <2> QED
    BY <2>3, <2>4
<1> QED
  BY <1>1, <1>2, <1>3 DEF Update

LEMMA AccountsStep == TypeOK /\ AccountsInv /\ [Next]_vars => AccountsInv'
<1> SUFFICES ASSUME TypeOK, AccountsInv, [Next]_vars PROVE AccountsInv'
  OBVIOUS
<1>1. CASE \E w \in Workers : Registration(w) \/ Insert(w)
  BY <1>1, AccountsRegistration, AccountsInsert
<1>2. CASE \E w \in Workers : Update(w)
  BY <1>2, AccountsUpdate
<1>3. CASE \E w \in Workers : Deletion(w)
  BY <1>3, DeletionEffect, AccountsQuiet DEF history
<1>4. CASE \E w \in Workers : SignIn(w)
  BY <1>4, SignInEffect, AccountsQuiet DEF history
<1>5. CASE \E w \in Workers : Polling(w)
  BY <1>5, PollingEffect, AccountsQuiet
<1>6. CASE \E w \in Workers : Starting(w)
  BY <1>6, StartingEffect, AccountsQuiet
<1>7. CASE Environment
  BY <1>7, EnvironmentEffect, AccountsQuiet DEF history, Idle
<1> QED
  BY <1>1, <1>2, <1>3, <1>4, <1>5, <1>6, <1>7, NextSplits

LEMMA AccountsInit == Init => AccountsInv
BY DEF Init, AccountsInv, BornOnce, AccountsUnique, UpdatesKeepIdentity, Idle

\* No order of requests gives two accounts one id or one email: an id is
\* inserted once, emails are compared at the INSERT, and an update writes back
\* the email that the account has.
THEOREM AccountsCorrect == Spec => []AccountsUnique
<1>1. Init => TypeOK /\ AccountsInv
  BY InitType, AccountsInit
<1>2. TypeOK /\ AccountsInv /\ [Next]_vars => (TypeOK /\ AccountsInv)'
  BY TypeStep, AccountsStep
<1>3. TypeOK /\ AccountsInv => AccountsUnique
  BY DEF AccountsInv
<1> QED
  BY <1>1, <1>2, <1>3, PTL DEF Spec

-----------------------------------------------------------------------------
(* The accounts implement AccountRegistry *)

LEMMA SuperadminQuiet ==
    ASSUME SuperadminStays, users' = users, born' = born,
           \A w \in Workers :
              \/ slot'[w] = slot[w]
              \/ /\ slot'[w].pc \notin {"insert", "delete"}
                 /\ slot'[w].target = {} \/ slot'[w].target = slot[w].target
    PROVE  SuperadminStays'
BY DEF SuperadminStays, SomeSuperadmin

LEMMA SuperadminRegistration ==
    ASSUME TypeOK, SuperadminStays, NEW w \in Workers, Registration(w)
    PROVE  SuperadminStays'
<1>1. PICK i \in UserIds, row \in User :
         Prepare(w, i, row) /\ (row.superadmin \/ users # {})
  BY RegistrationPrepares
<1>2. /\ [Idle EXCEPT !.pc = "insert", !.row = {row}].pc = "insert"
      /\ [Idle EXCEPT !.pc = "insert", !.row = {row}].row = {row}
      /\ [Idle EXCEPT !.pc = "insert", !.row = {row}].target = {}
  BY DEF Idle
<1>3. /\ slot'[w].pc = "insert" /\ slot'[w].row = {row} /\ slot'[w].target = {}
      /\ \A v \in Workers : v # w => slot'[v] = slot[v]
  BY <1>1, <1>2, SlotAfterEnter DEF Prepare
<1>4. UNCHANGED <<users, born>>
  BY <1>1 DEF Prepare
<1> QED
  BY <1>1, <1>3, <1>4 DEF SuperadminStays, SomeSuperadmin

LEMMA SuperadminInsert ==
    ASSUME TypeOK, AccountsInv, SuperadminStays, NEW w \in Workers, Insert(w)
    PROVE  SuperadminStays'
<1>1. PICK row \in slot[w].row :
         IF EmailTaken(row) THEN Leave(w) /\ UNCHANGED <<users, born>>
         ELSE /\ users' = users \cup {row}
              /\ born' = born \cup {row.id}
              /\ IF row.superadmin
                 THEN Enter(w, [slot[w] EXCEPT !.pc = "first_login"])
                 ELSE Leave(w)
  BY DEF Insert
<1>2. /\ [slot[w] EXCEPT !.pc = "first_login"].pc = "first_login"
      /\ [slot[w] EXCEPT !.pc = "first_login"].target = slot[w].target
      /\ Idle.target = {}
  BY DEF TypeOK, SlotType, Idle
<1>3. /\ slot'[w].pc \in {"idle", "first_login"}
      /\ slot'[w].target = {} \/ slot'[w].target = slot[w].target
      /\ \A v \in Workers : v # w => slot'[v] = slot[v]
  BY <1>1, <1>2, SlotAfterEnter, SlotAfterLeave
<1>4. CASE EmailTaken(row)
  BY <1>1, <1>3, <1>4, SuperadminQuiet
<1>5. CASE ~ EmailTaken(row)
  <2>1. users' = users \cup {row} /\ born' = born \cup {row.id}
    BY <1>1, <1>5
  <2>2. slot[w].pc = "insert"
    BY DEF Insert
  <2>3. row.superadmin \/ SomeSuperadmin
    BY <2>2 DEF SuperadminStays
  <2>4. SomeSuperadmin'
    BY <2>1, <2>3 DEF SomeSuperadmin
  <2>5. row.id \notin born
    BY <2>2 DEF AccountsInv, BornOnce
  <2>6. ASSUME NEW v \in Workers, slot'[v].pc = "delete", NEW i \in slot'[v].target
        PROVE  i \in born' /\ \A other \in users' : other.id = i => ~ other.superadmin
    BY <1>3, <2>1, <2>5, <2>6 DEF SuperadminStays
  <2>7. \A v \in Workers : \A i, j \in slot'[v].target : i = j
    BY <1>3 DEF SuperadminStays
  <2> QED
    BY <2>4, <2>6, <2>7 DEF SuperadminStays
<1> QED
  BY <1>4, <1>5

LEMMA SuperadminUpdate ==
    ASSUME TypeOK, AccountsInv, SuperadminStays, NEW w \in Workers, Update(w)
    PROVE  SuperadminStays'
<1>1. ASSUME NEW a \in UserIds, NEW i \in UserIds, NEW change \in Changes,
             UpdateUser(w, a, i, change)
      PROVE  SuperadminStays'
  <2> DEFINE s == [Idle EXCEPT !.pc = "update_read", !.target = {i},
                               !.change = {change}]
  <2>1. s.pc = "update_read" /\ s.target = {i}
    BY DEF Idle
  <2>2. Enter(w, s)
    BY <1>1 DEF UpdateUser
  <2> HIDE DEF s
  <2>3. slot'[w] = s /\ \A v \in Workers : v # w => slot'[v] = slot[v]
    BY <2>2, SlotAfterEnter
  <2>4. UNCHANGED <<users, born>>
    BY <1>1 DEF UpdateUser, history
  <2> QED
    BY <2>1, <2>3, <2>4 DEF SuperadminStays, SomeSuperadmin
<1>2. CASE UpdateRead(w)
  <2>1. UNCHANGED <<users, born>>
    BY <1>2 DEF UpdateRead, history
  <2>2. CASE Leave(w)
    <3>1. slot'[w].target = {}
      BY <2>2, SlotAfterLeave DEF Idle
    <3> QED
      BY <2>1, <2>2, <3>1, SlotAfterLeave, SuperadminQuiet
  <2>3. ASSUME NEW row \in users, NEW change \in slot[w].change,
               Enter(w, [slot[w] EXCEPT !.pc = "update",
                                        !.row = {Merged(row, change)}])
        PROVE  SuperadminStays'
    <3>1. /\ [slot[w] EXCEPT !.pc = "update", !.row = {Merged(row, change)}].pc
                = "update"
          /\ [slot[w] EXCEPT !.pc = "update", !.row = {Merged(row, change)}].target
                = slot[w].target
      BY DEF TypeOK, SlotType
    <3>2. /\ slot'[w].pc = "update" /\ slot'[w].target = slot[w].target
          /\ \A v \in Workers : v # w => slot'[v] = slot[v]
      BY <2>3, <3>1, SlotAfterEnter
    <3> QED
      BY <2>1, <3>2, SuperadminQuiet
  <2> QED
    BY <1>2, <2>2, <2>3 DEF UpdateRead
<1>3. CASE UpdateWrite(w)
  <2>1. PICK new \in slot[w].row :
           users' = {row \in users : row.id # new.id}
                    \cup {new : row \in UserById(new.id)}
    BY <1>3 DEF UpdateWrite
  <2>2. /\ slot[w].pc = "update" /\ UNCHANGED born
        /\ slot'[w].pc = "idle" /\ slot'[w].target = {}
        /\ \A v \in Workers : v # w => slot'[v] = slot[v]
    BY <1>3, SlotAfterLeave DEF UpdateWrite, history, Idle
  <2>3. \A row \in users : row.id = new.id => row.superadmin = new.superadmin
    BY <2>2 DEF AccountsInv, UpdatesKeepIdentity
  <2>4. \A row \in users' : \E old \in users :
           row.id = old.id /\ row.superadmin = old.superadmin
    BY <2>1, <2>3 DEF UserById
  <2>5. SomeSuperadmin => SomeSuperadmin'
    BY <2>1, <2>3 DEF SomeSuperadmin, UserById
  <2>6. users' # {} => users # {}
    BY <2>4
  <2>7. ASSUME NEW v \in Workers, slot'[v].pc = "delete", NEW i \in slot'[v].target
        PROVE  i \in born' /\ \A row \in users' : row.id = i => ~ row.superadmin
    BY <2>2, <2>4, <2>7 DEF SuperadminStays
  <2>8. \A v \in Workers : \A i, j \in slot'[v].target : i = j
    BY <2>2 DEF SuperadminStays
  <2>9. \A v \in Workers : slot'[v].pc = "insert" =>
           \A row \in slot'[v].row : row.superadmin \/ SomeSuperadmin'
    BY <2>2, <2>5 DEF SuperadminStays
  <2> QED
    BY <2>5, <2>6, <2>7, <2>8, <2>9 DEF SuperadminStays
<1> QED
  BY <1>1, <1>2, <1>3 DEF Update

\* The row that is deleted is none of a superadmin: nothing has become one
\* since delete_user looked.
LEMMA SuperadminDeletion ==
    ASSUME TypeOK, AccountsInv, SuperadminStays, NEW w \in Workers, Deletion(w)
    PROVE  SuperadminStays'
<1>1. ASSUME NEW a \in UserIds, NEW i \in UserIds, DeleteUser(w, a, i)
      PROVE  SuperadminStays'
  <2> DEFINE s == [Idle EXCEPT !.pc = "delete_read", !.target = {i}]
  <2>1. s.pc = "delete_read" /\ s.target = {i}
    BY DEF Idle
  <2>2. Enter(w, s)
    BY <1>1 DEF DeleteUser
  <2> HIDE DEF s
  <2>3. slot'[w] = s /\ \A v \in Workers : v # w => slot'[v] = slot[v]
    BY <2>2, SlotAfterEnter
  <2>4. UNCHANGED <<users, born>>
    BY <1>1 DEF DeleteUser, history
  <2> QED
    BY <2>1, <2>3, <2>4 DEF SuperadminStays, SomeSuperadmin
<1>2. CASE DeleteRead(w)
  <2>1. UNCHANGED <<users, born>>
    BY <1>2 DEF DeleteRead, history
  <2>2. CASE Leave(w)
    <3>1. slot'[w].target = {}
      BY <2>2, SlotAfterLeave DEF Idle
    <3> QED
      BY <2>1, <2>2, <3>1, SlotAfterLeave, SuperadminQuiet
  <2>3. ASSUME NEW row \in users, row.id \in slot[w].target, ~ row.superadmin,
               Enter(w, [slot[w] EXCEPT !.pc = "delete"])
        PROVE  SuperadminStays'
    <3>1. /\ [slot[w] EXCEPT !.pc = "delete"].pc = "delete"
          /\ [slot[w] EXCEPT !.pc = "delete"].target = slot[w].target
      BY DEF TypeOK, SlotType
    <3>2. /\ slot'[w].pc = "delete" /\ slot'[w].target = slot[w].target
          /\ \A v \in Workers : v # w => slot'[v] = slot[v]
      BY <2>3, <3>1, SlotAfterEnter
    <3>3. \A i \in slot[w].target : i = row.id
      BY <2>3 DEF SuperadminStays
    <3>4. /\ row.id \in born
          /\ \A other \in users : other.id = row.id => other = row
      BY DEF AccountsInv, BornOnce, AccountsUnique
    <3> QED
      BY <2>1, <2>3, <3>2, <3>3, <3>4 DEF SuperadminStays, SomeSuperadmin
  <2> QED
    BY <1>2, <2>2, <2>3 DEF DeleteRead
<1>3. CASE DeleteWrite(w)
  <2>1. /\ users' = {row \in users : row.id \notin slot[w].target}
        /\ UNCHANGED born /\ slot[w].pc = "delete"
    BY <1>3 DEF DeleteWrite, history
  <2>2. /\ slot'[w].pc = "idle" /\ slot'[w].target = {}
        /\ \A v \in Workers : v # w => slot'[v] = slot[v]
    BY <1>3, SlotAfterLeave DEF DeleteWrite, Idle
  <2>3. SomeSuperadmin => SomeSuperadmin'
    BY <2>1 DEF SuperadminStays, SomeSuperadmin
  <2> QED
    BY <2>1, <2>2, <2>3 DEF SuperadminStays, SomeSuperadmin
<1> QED
  BY <1>1, <1>2, <1>3 DEF Deletion

LEMMA SuperadminStep ==
    ASSUME KeepUsers
    PROVE  TypeOK /\ AccountsInv /\ SuperadminStays /\ [Next]_vars
              => SuperadminStays'
<1> SUFFICES ASSUME TypeOK, AccountsInv, SuperadminStays, [Next]_vars
             PROVE  SuperadminStays'
  OBVIOUS
<1>1. CASE \E w \in Workers : Registration(w) \/ Insert(w)
  BY <1>1, SuperadminRegistration, SuperadminInsert
<1>2. CASE \E w \in Workers : Update(w)
  BY <1>2, SuperadminUpdate
<1>3. CASE \E w \in Workers : Deletion(w)
  BY <1>3, SuperadminDeletion
<1>4. CASE \E w \in Workers : SignIn(w)
  BY <1>4, SignInEffect, SuperadminQuiet DEF history
<1>5. CASE \E w \in Workers : Polling(w)
  BY <1>5, PollingEffect, SuperadminQuiet
<1>6. CASE \E w \in Workers : Starting(w)
  BY <1>6, StartingEffect, SuperadminQuiet
<1>7. CASE Environment
  BY <1>7, EnvironmentEffect, SuperadminQuiet DEF history, Idle
<1> QED
  BY <1>1, <1>2, <1>3, <1>4, <1>5, <1>6, <1>7, NextSplits

LEMMA SuperadminInit == Init => SuperadminStays
BY DEF Init, SuperadminStays, SomeSuperadmin, Idle

\* AccountOf, without the order of its cases.
LEMMA AccountOfRows ==
    ASSUME AccountsInv, NEW i \in UserIds
    PROVE  /\ \A row \in users : row.id = i =>
                 AccountOf(i) = IF row.superadmin THEN "super" ELSE "plain"
           /\ (\A row \in users : row.id # i) =>
                 AccountOf(i) = IF i \in born THEN "removed" ELSE "none"
BY DEF AccountOf, AccountsInv, AccountsUnique

LEMMA RegistryStutters ==
    ASSUME AccountsInv, AccountsInv', born' = born,
           \A row \in users : \E new \in users' :
              new.id = row.id /\ new.superadmin = row.superadmin,
           \A new \in users' : \E row \in users :
              new.id = row.id /\ new.superadmin = row.superadmin
    PROVE  \A i \in UserIds : AccountOf(i)' = AccountOf(i)
BY DEF AccountOf

LEMMA RegistryInsert ==
    ASSUME TypeOK, AccountsInv, AccountsInv', SuperadminStays,
           NEW w \in Workers, Insert(w)
    PROVE  Registry!Next \/ \A i \in UserIds : AccountOf(i)' = AccountOf(i)
<1>1. PICK row \in slot[w].row :
         IF EmailTaken(row) THEN UNCHANGED <<users, born>>
         ELSE users' = users \cup {row} /\ born' = born \cup {row.id}
  BY DEF Insert
<1>2. row \in User /\ slot[w].pc = "insert"
  BY DEF TypeOK, SlotType, Insert
<1>3. CASE EmailTaken(row)
  BY <1>1, <1>3, RegistryStutters
<1>4. CASE ~ EmailTaken(row)
  <2>1. users' = users \cup {row} /\ born' = born \cup {row.id}
    BY <1>1, <1>4
  <2>2. row.id \in UserIds /\ row.superadmin \in BOOLEAN
    BY <1>2 DEF User
  <2>3. row.id \notin born /\ \A other \in users : other.id # row.id
    BY <1>2 DEF AccountsInv, BornOnce
  <2>4. AccountOf(row.id) = "none"
    BY <2>2, <2>3, AccountOfRows
  <2>5. AccountOf(row.id)' = IF row.superadmin THEN "super" ELSE "plain"
    BY <2>1, <2>2 DEF AccountOf, AccountsInv, AccountsUnique
  <2>6. \A i \in UserIds \ {row.id} : AccountOf(i)' = AccountOf(i)
    BY <2>1 DEF AccountOf
  <2> DEFINE account == [i \in UserIds |-> AccountOf(i)]
  <2>7. account' = [account EXCEPT ![row.id] =
                       IF row.superadmin THEN "super" ELSE "plain"]
    BY <2>2, <2>5, <2>6
  <2>8. account[row.id] = "none"
    BY <2>2, <2>4
  <2>9. CASE row.superadmin
    BY <2>2, <2>7, <2>8, <2>9 DEF Registry!Next, Registry!Found
  <2>10. CASE ~ row.superadmin
    <3>1. PICK boss \in users : boss.superadmin
      BY <1>2, <2>10 DEF SuperadminStays, SomeSuperadmin
    <3>2. boss.id \in UserIds
      BY DEF TypeOK, User
    <3>3. account[boss.id] = "super"
      BY <3>1, <3>2, AccountOfRows
    <3> QED
      BY <2>2, <2>7, <2>8, <2>10, <3>2, <3>3 DEF Registry!Next, Registry!Register
  <2> QED
    BY <2>9, <2>10
<1> QED
  BY <1>3, <1>4

LEMMA RegistryUpdate ==
    ASSUME TypeOK, AccountsInv, AccountsInv', NEW w \in Workers, Update(w)
    PROVE  \A i \in UserIds : AccountOf(i)' = AccountOf(i)
<1>1. CASE ~ UpdateWrite(w)
  <2>1. UNCHANGED <<users, born>>
    BY <1>1 DEF Update, UpdateUser, UpdateRead, history
  <2> QED
    BY <2>1, RegistryStutters
<1>2. CASE UpdateWrite(w)
  <2>1. PICK new \in slot[w].row :
           users' = {row \in users : row.id # new.id}
                    \cup {new : row \in UserById(new.id)}
    BY <1>2 DEF UpdateWrite
  <2>2. UNCHANGED born /\ slot[w].pc = "update"
    BY <1>2 DEF UpdateWrite, history
  <2>3. \A row \in users : row.id = new.id => row.superadmin = new.superadmin
    BY <2>2 DEF AccountsInv, UpdatesKeepIdentity
  <2>4. \A row \in users : \E other \in users' :
           other.id = row.id /\ other.superadmin = row.superadmin
    BY <2>1, <2>3 DEF UserById
  <2>5. \A other \in users' : \E row \in users :
           other.id = row.id /\ other.superadmin = row.superadmin
    BY <2>1, <2>3 DEF UserById
  <2> QED
    BY <2>2, <2>4, <2>5, RegistryStutters
<1> QED
  BY <1>1, <1>2

LEMMA RegistryDeletion ==
    ASSUME TypeOK, AccountsInv, AccountsInv', SuperadminStays,
           NEW w \in Workers, Deletion(w)
    PROVE  Registry!Next \/ \A i \in UserIds : AccountOf(i)' = AccountOf(i)
<1>1. CASE ~ DeleteWrite(w)
  <2>1. UNCHANGED <<users, born>>
    BY <1>1 DEF Deletion, DeleteUser, DeleteRead, history
  <2> QED
    BY <2>1, RegistryStutters
<1>2. CASE DeleteWrite(w)
  <2>1. /\ users' = {row \in users : row.id \notin slot[w].target}
        /\ UNCHANGED born /\ slot[w].pc = "delete"
    BY <1>2 DEF DeleteWrite, history
  <2>2. CASE \A row \in users : row.id \notin slot[w].target
    BY <2>1, <2>2, RegistryStutters
  <2>3. CASE \E row \in users : row.id \in slot[w].target
    <3>1. PICK row \in users : row.id \in slot[w].target
      BY <2>3
    <3>2. slot[w].target = {row.id} /\ row.id \in UserIds
      BY <3>1 DEF SuperadminStays, TypeOK, User
    <3>3. row.id \in born /\ ~ row.superadmin
      BY <2>1, <3>1 DEF SuperadminStays
    <3>4. AccountOf(row.id) = "plain"
      BY <3>2, <3>3, AccountOfRows
    <3>5. AccountOf(row.id)' = "removed"
      BY <2>1, <3>2, <3>3 DEF AccountOf
    <3>6. \A i \in UserIds \ {row.id} : AccountOf(i)' = AccountOf(i)
      BY <2>1, <3>2 DEF AccountOf
    <3> DEFINE account == [i \in UserIds |-> AccountOf(i)]
    <3>7. account[row.id] = "plain" /\ account' = [account EXCEPT ![row.id] = "removed"]
      BY <3>2, <3>4, <3>5, <3>6
    <3> QED
      BY <3>2, <3>7 DEF Registry!Next, Registry!Remove
  <2> QED
    BY <2>2, <2>3
<1> QED
  BY <1>1, <1>2

LEMMA RegistryStep ==
    ASSUME KeepUsers
    PROVE  TypeOK /\ AccountsInv /\ AccountsInv' /\ SuperadminStays /\ [Next]_vars
              => [Registry!Next]_([i \in UserIds |-> AccountOf(i)])
<1> SUFFICES ASSUME TypeOK, AccountsInv, AccountsInv', SuperadminStays, [Next]_vars
             PROVE  \/ Registry!Next
                    \/ \A i \in UserIds : AccountOf(i)' = AccountOf(i)
  OBVIOUS
<1>1. CASE \E w \in Workers : Registration(w)
  <2>1. UNCHANGED <<users, born>>
    BY <1>1, RegistrationPrepares DEF Prepare
  <2> QED
    BY <2>1, RegistryStutters
<1>2. CASE \E w \in Workers : Insert(w)
  BY <1>2, RegistryInsert
<1>3. CASE \E w \in Workers : Update(w)
  BY <1>3, RegistryUpdate
<1>4. CASE \E w \in Workers : Deletion(w)
  BY <1>4, RegistryDeletion
<1>5. CASE \/ \E w \in Workers : SignIn(w)
           \/ \E w \in Workers : Polling(w)
           \/ \E w \in Workers : Starting(w)
           \/ Environment
  <2>1. UNCHANGED <<users, born>>
    BY <1>5, SignInEffect, PollingEffect, StartingEffect, EnvironmentEffect
       DEF history
  <2> QED
    BY <2>1, RegistryStutters
<1> QED
  BY <1>1, <1>2, <1>3, <1>4, <1>5, NextSplits

LEMMA RegistryInit == Init => Registry!Init
BY DEF Init, Registry!Init, AccountOf

\* With a user store that survives restarts the accounts implement
\* AccountRegistry: whatever updates, deletions and bootstraps overlap, a
\* superadmin is never removed, no account comes back, and there is always a
\* superadmin when there is an account.
THEOREM ImplementsRegistry ==
    ASSUME KeepUsers
    PROVE  Spec => IsRegistry
<1>1. Init => TypeOK /\ AccountsInv /\ SuperadminStays
  BY InitType, AccountsInit, SuperadminInit
<1>2. TypeOK /\ AccountsInv /\ SuperadminStays /\ [Next]_vars
         => (TypeOK /\ AccountsInv /\ SuperadminStays)'
  BY TypeStep, AccountsStep, SuperadminStep
<1>3. TypeOK /\ AccountsInv /\ AccountsInv' /\ SuperadminStays /\ [Next]_vars
         => [Registry!Next]_([i \in UserIds |-> AccountOf(i)])
  BY RegistryStep
<1>4. Init => Registry!Init
  BY RegistryInit
<1> QED
  BY <1>1, <1>2, <1>3, <1>4, PTL DEF Spec, IsRegistry, Registry!Spec

-----------------------------------------------------------------------------
(* A transaction belongs to the user who started it *)

LEMMA AliveIsOlder ==
    ASSUME TypeOK, NEW t,
           Alive(t)', \A tx \in txs' : tx.id = t => tx \in txs,
           now' \in Nat, now' >= now
    PROVE  Alive(t)
<1>1. PICK tx \in txs' : tx.id = t /\ now' <= tx.expires
  BY DEF Alive
<1>2. tx \in txs /\ tx.expires \in Nat /\ now \in Nat
  BY <1>1 DEF TypeOK, Tx
<1> QED
  BY <1>1, <1>2 DEF Alive

\* What neither starts nor polls, and at most forgets transactions.
LEMMA OwnersQuiet ==
    ASSUME TypeOK, TypeOK', OwnersInv, txs' \subseteq txs, now' >= now,
           UNCHANGED <<issued, started>>,
           qrMap' = qrMap \/ (qrMap' = {} /\ txs' = {}),
           \A w \in Workers :
              slot'[w] = slot[w] \/ slot'[w].pc \notin {"map", "poll"}
    PROVE  OwnersInv'
<1>1. StartedOnce'
  BY DEF OwnersInv, StartedOnce
<1>2. \A tx \in txs : now' <= tx.expires => now <= tx.expires
  BY DEF TypeOK, Tx
<1>3. EntriesStarted'
  BY <1>2 DEF OwnersInv, EntriesStarted
<1>4. \A tx \in txs : tx.expires < now + TTL => tx.expires < now' + TTL
  BY TimeAssumption DEF TypeOK, Tx
<1>5. MapsFresh'
  BY <1>4 DEF OwnersInv, MapsFresh
<1>6. \A t : Alive(t)' => Alive(t)
  BY AliveIsOlder DEF TypeOK
<1>7. ASSUME NEW w \in Workers, slot'[w].pc = "poll"
      PROVE  slot'[w] = slot[w]
  BY <1>7
<1>8. PollsChecked'
  BY <1>6, <1>7 DEF OwnersInv, PollsChecked
<1> QED
  BY <1>1, <1>3, <1>5, <1>8 DEF OwnersInv

\* init_transaction: an id that was not given out before.
LEMMA OwnersInitTransaction ==
    ASSUME TypeOK, TypeOK', OwnersInv, NEW w \in Workers, NEW t \in Txs,
           InitTransaction(w, t)
    PROVE  OwnersInv'
<1> DEFINE new == [id |-> t, expires |-> now + TTL]
<1>1. /\ t \notin issued /\ issued' = issued \cup {t}
      /\ txs' = txs \cup {new} /\ now' = now + 1
      /\ UNCHANGED <<qrMap, started>>
  BY DEF InitTransaction
<1>2. /\ now \in Nat /\ TTL \in Nat /\ \A tx \in txs : tx.expires \in Nat
  BY TimeAssumption DEF TypeOK, Tx
<1>3. new.id = t /\ new.expires = now + TTL
  OBVIOUS
<1>4. [slot[w] EXCEPT !.pc = "map", !.tx = {t}].pc = "map"
      /\ [slot[w] EXCEPT !.pc = "map", !.tx = {t}].tx = {t}
  BY DEF TypeOK, SlotType
<1>5. /\ slot'[w].pc = "map" /\ slot'[w].tx = {t}
      /\ \A v \in Workers : v # w => slot'[v] = slot[v]
  BY <1>4, SlotAfterEnter DEF InitTransaction
<1> HIDE DEF new
<1>6. \A s \in started : s.tx # t
  BY <1>1 DEF OwnersInv, StartedOnce
<1>7. \A tx \in txs : tx.id # t
  BY <1>1 DEF OwnersInv, StartedOnce
<1>8. StartedOnce'
  BY <1>1, <1>3 DEF OwnersInv, StartedOnce
<1>9. EntriesStarted'
  BY <1>1, <1>2, <1>3, <1>6 DEF OwnersInv, EntriesStarted
<1>10. MapsFresh'
  <2>1. ASSUME NEW v \in Workers, v # w, slot[v].pc = "map", NEW u \in slot[v].tx
        PROVE  /\ u \in issued' /\ u # t
               /\ \A s \in started' : s.tx # u
               /\ \A tx \in txs' : tx.id = u => tx.expires < now' + TTL
               /\ \A x \in Workers : slot[x].pc = "map" /\ u \in slot[x].tx => x = v
    BY <1>1, <1>2, <1>3, <2>1 DEF OwnersInv, MapsFresh
  <2>2. \A tx \in txs' : tx.id = t => tx.expires < now' + TTL
    BY <1>1, <1>2, <1>3, <1>7
  <2> QED
    BY <1>1, <1>5, <1>6, <2>1, <2>2 DEF MapsFresh
<1>11. ASSUME NEW u, u # t, Alive(u)'
       PROVE  Alive(u)
  BY <1>1, <1>2, <1>3, <1>11, AliveIsOlder
<1>12. PollsChecked'
  BY <1>1, <1>5, <1>6, <1>11 DEF OwnersInv, PollsChecked
<1> QED
  BY <1>8, <1>9, <1>10, <1>12 DEF OwnersInv

\* The new entry lasts longer than the transaction; what the map drops has
\* expired, and so have the transactions it belonged to.
LEMMA OwnersMapInsert ==
    ASSUME TypeOK, TypeOK', OwnersInv, NEW w \in Workers, MapInsert(w)
    PROVE  OwnersInv'
<1>1. PICK row \in slot[w].row, t \in slot[w].tx :
         /\ qrMap' = {e \in qrMap : e.expires > now /\ e.tx # t} \cup
                     {[tx |-> t, user |-> row.id, email |-> row.email,
                       expires |-> EntryExpiry]}
         /\ started' = started \cup
                     {[tx |-> t, user |-> row.id, email |-> row.email]}
  BY DEF MapInsert
<1> DEFINE entry == [tx |-> t, user |-> row.id, email |-> row.email,
                     expires |-> EntryExpiry]
           start == [tx |-> t, user |-> row.id, email |-> row.email]
<1>2. /\ entry.tx = t /\ entry.user = row.id /\ entry.email = row.email
      /\ entry.expires = now + TTL
      /\ start.tx = t /\ start = [tx |-> entry.tx, user |-> entry.user,
                                  email |-> entry.email]
  BY DEF EntryExpiry
<1>3. /\ qrMap' = {e \in qrMap : e.expires > now /\ e.tx # t} \cup {entry}
      /\ started' = started \cup {start}
  BY <1>1
<1> HIDE DEF entry, start
<1>4. /\ slot[w].pc = "map" /\ slot'[w].pc = "idle"
      /\ \A v \in Workers : v # w => slot'[v] = slot[v]
      /\ UNCHANGED <<now, txs, issued>>
  BY SlotAfterLeave DEF MapInsert
<1>5. /\ t \in issued /\ \A s \in started : s.tx # t
      /\ \A tx \in txs : tx.id = t => tx.expires < now + TTL
      /\ \A v \in Workers : slot[v].pc = "map" /\ t \in slot[v].tx => v = w
  BY <1>4 DEF OwnersInv, MapsFresh
<1>6. StartedOnce'
  BY <1>2, <1>3, <1>4, <1>5 DEF OwnersInv, StartedOnce
<1>7. EntriesStarted'
  <2>1. \A e \in qrMap' :
           [tx |-> e.tx, user |-> e.user, email |-> e.email] \in started'
    BY <1>2, <1>3 DEF OwnersInv, EntriesStarted
  <2>2. ASSUME NEW tx \in txs, NEW s \in started', s.tx = tx.id, now <= tx.expires
        PROVE  \E e \in qrMap' : e.tx = tx.id /\ e.expires > tx.expires
    <3>1. CASE tx.id = t
      <4>1. tx.expires < entry.expires
        BY <1>2, <1>5, <3>1
      <4>2. entry.expires > tx.expires
        BY <1>2, <4>1, TimeAssumption DEF TypeOK, Tx
      <4> QED
        BY <1>2, <1>3, <3>1, <4>2
    <3>2. CASE tx.id # t
      <4>1. s \in started
        BY <1>2, <1>3, <2>2, <3>2
      <4>2. PICK e \in qrMap : e.tx = tx.id /\ e.expires > tx.expires
        BY <2>2, <4>1 DEF OwnersInv, EntriesStarted
      <4>3. e.expires > now
        BY <2>2, <4>2 DEF TypeOK, Tx, Entry
      <4> QED
        BY <1>3, <3>2, <4>2, <4>3
    <3> QED
      BY <3>1, <3>2
  <2> QED
    BY <1>4, <2>1, <2>2 DEF EntriesStarted
<1>8. MapsFresh'
  <2>1. ASSUME NEW v \in Workers, v # w, slot[v].pc = "map", NEW u \in slot[v].tx
        PROVE  u # t
    BY <1>5, <2>1
  <2>2. ASSUME NEW v \in Workers, slot'[v].pc = "map"
        PROVE  v # w /\ slot'[v] = slot[v]
    BY <1>4, <2>2
  <2> QED
    BY <1>2, <1>3, <1>4, <2>1, <2>2 DEF OwnersInv, MapsFresh
<1>9. \A u : Alive(u)' <=> Alive(u)
  BY <1>4 DEF Alive
<1>10. ASSUME NEW v \in Workers, slot'[v].pc = "poll"
       PROVE  slot'[v] = slot[v]
  BY <1>4, <1>10
<1>11. PollsChecked'
  BY <1>3, <1>9, <1>10 DEF OwnersInv, PollsChecked
<1> QED
  BY <1>6, <1>7, <1>8, <1>11 DEF OwnersInv

LEMMA OwnersQrStatus ==
    ASSUME TypeOK, OwnersInv, NEW w \in Workers, NEW a \in UserIds, NEW t \in Txs,
           QrStatus(w, a, t)
    PROVE  OwnersInv'
<1>1. PICK row \in CurrentUser(a) :
         /\ \A e \in Owner(t) : e.user = row.id \/ row.role = "admin"
         /\ Enter(w, [Idle EXCEPT !.pc = "poll", !.row = {row}, !.tx = {t},
                                  !.entry = Owner(t)])
  BY DEF QrStatus
<1> DEFINE s == [Idle EXCEPT !.pc = "poll", !.row = {row}, !.tx = {t},
                             !.entry = Owner(t)]
<1>2. s.pc = "poll" /\ s.row = {row} /\ s.tx = {t} /\ s.entry = Owner(t)
  BY DEF Idle
<1>3. Enter(w, s)
  BY <1>1
<1> HIDE DEF s
<1>4. slot'[w] = s /\ \A v \in Workers : v # w => slot'[v] = slot[v]
  BY <1>3, SlotAfterEnter
<1>5. /\ UNCHANGED <<now, txs, qrMap, issued, started>>
      /\ \E r \in started : r.tx = t
  BY DEF QrStatus, history
<1>6. StartedOnce' /\ EntriesStarted' /\ MapsFresh'
  BY <1>2, <1>4, <1>5 DEF OwnersInv, StartedOnce, EntriesStarted, MapsFresh
<1>7. Alive(t) => Owner(t) # {}
  <2>1. SUFFICES ASSUME Alive(t) PROVE Owner(t) # {}
    OBVIOUS
  <2>2. PICK tx \in txs : tx.id = t /\ now <= tx.expires
    BY <2>1 DEF Alive
  <2>3. PICK e \in qrMap : e.tx = t /\ e.expires > tx.expires
    BY <1>5, <2>2 DEF OwnersInv, EntriesStarted
  <2>4. e.expires > now
    BY <2>2, <2>3 DEF TypeOK, Tx, Entry
  <2> QED
    BY <2>3, <2>4 DEF Owner
<1>8. \A e \in Owner(t) :
         e.tx = t /\ [tx |-> e.tx, user |-> e.user, email |-> e.email] \in started
  BY DEF Owner, OwnersInv, EntriesStarted
<1>9. \A u : Alive(u)' <=> Alive(u)
  BY <1>5 DEF Alive
<1>10. /\ \A u \in s.tx :
             /\ \E r \in started : r.tx = u
             /\ Alive(u) => s.entry # {}
             /\ \A e \in s.entry : e.tx = u
       /\ \A e \in s.entry :
             /\ [tx |-> e.tx, user |-> e.user, email |-> e.email] \in started
             /\ \A other \in s.row : e.user = other.id \/ other.role = "admin"
  BY <1>1, <1>2, <1>5, <1>7, <1>8
<1>11. ASSUME NEW v \in Workers, slot'[v].pc = "poll"
       PROVE  /\ \A u \in slot'[v].tx :
                    /\ \E r \in started' : r.tx = u
                    /\ Alive(u)' => slot'[v].entry # {}
                    /\ \A e \in slot'[v].entry : e.tx = u
              /\ \A e \in slot'[v].entry :
                    /\ [tx |-> e.tx, user |-> e.user, email |-> e.email] \in started'
                    /\ \A other \in slot'[v].row :
                          e.user = other.id \/ other.role = "admin"
  <2>1. CASE v = w
    BY <1>4, <1>5, <1>9, <1>10, <2>1
  <2>2. CASE v # w
    BY <1>4, <1>5, <1>9, <1>11, <2>2 DEF OwnersInv, PollsChecked
  <2> QED
    BY <2>1, <2>2
<1>12. PollsChecked'
  BY <1>11 DEF PollsChecked
<1> QED
  BY <1>6, <1>12 DEF OwnersInv

LEMMA OwnersStep ==
    ASSUME KeepTransactions => ~ Restart
    PROVE  TypeOK /\ TypeOK' /\ OwnersInv /\ [Next]_vars => OwnersInv'
<1> SUFFICES ASSUME TypeOK, TypeOK', OwnersInv, [Next]_vars PROVE OwnersInv'
  OBVIOUS
<1>0. now \in Nat /\ now' \in Nat
  BY DEF TypeOK
<1>1. CASE \E w \in Workers : Registration(w) \/ Insert(w)
  <2>1. PICK w \in Workers : Registration(w) \/ Insert(w)
    BY <1>1
  <2>2. UNCHANGED <<now, txs, qrMap, started>>
    BY <2>1, RegistrationPrepares DEF Prepare, Insert
  <2>3. issued \subseteq issued'
    BY <2>1, RegistrationPrepares DEF Prepare, Insert
  <2>4. /\ slot'[w].pc \notin {"map", "poll"}
        /\ \A v \in Workers : v # w => slot'[v] = slot[v]
    <3>1. /\ [slot[w] EXCEPT !.pc = "first_login"].pc = "first_login"
          /\ \A row : [Idle EXCEPT !.pc = "insert", !.row = {row}].pc = "insert"
      BY DEF TypeOK, SlotType, Idle
    <3>2. CASE Registration(w)
      BY <3>1, <3>2, RegistrationPrepares, SlotAfterEnter DEF Prepare
    <3>3. CASE Insert(w)
      BY <3>1, <3>3, SlotAfterEnter, SlotAfterLeave DEF Insert
    <3> QED
      BY <2>1, <3>2, <3>3
  <2>5. \A u : Alive(u)' <=> Alive(u)
    BY <2>2 DEF Alive
  <2>6. StartedOnce' /\ EntriesStarted' /\ MapsFresh'
    BY <2>2, <2>3, <2>4 DEF OwnersInv, StartedOnce, EntriesStarted, MapsFresh
  <2>7. PollsChecked'
    BY <2>2, <2>4, <2>5 DEF OwnersInv, PollsChecked
  <2> QED
    BY <2>6, <2>7 DEF OwnersInv
<1>2. CASE \E w \in Workers : Update(w)
  <2>1. PICK w \in Workers : Update(w)
    BY <1>2
  <2>2. UNCHANGED <<now, txs, qrMap, issued, started>>
    BY <2>1 DEF Update, UpdateUser, UpdateRead, UpdateWrite, history
  <2>3. /\ slot'[w].pc \notin {"map", "poll"}
        /\ \A v \in Workers : v # w => slot'[v] = slot[v]
    <3>1. ASSUME NEW a \in UserIds, NEW i \in UserIds, NEW change \in Changes,
                 UpdateUser(w, a, i, change)
          PROVE  /\ slot'[w].pc = "update_read"
                 /\ \A v \in Workers : v # w => slot'[v] = slot[v]
      <4>1. [Idle EXCEPT !.pc = "update_read", !.target = {i},
                         !.change = {change}].pc = "update_read"
        BY DEF Idle
      <4> QED
        BY <3>1, <4>1, SlotAfterEnter DEF UpdateUser
    <3>2. CASE UpdateRead(w)
      <4>1. \A row : [slot[w] EXCEPT !.pc = "update", !.row = {row}].pc = "update"
        BY DEF TypeOK, SlotType
      <4> QED
        BY <3>2, <4>1, SlotAfterEnter, SlotAfterLeave DEF UpdateRead
    <3>3. CASE UpdateWrite(w)
      BY <3>3, SlotAfterLeave DEF UpdateWrite
    <3> QED
      BY <2>1, <3>1, <3>2, <3>3 DEF Update
  <2> QED
    BY <1>0, <2>2, <2>3, OwnersQuiet
<1>3. CASE \E w \in Workers : Deletion(w)
  BY <1>0, <1>3, DeletionEffect, OwnersQuiet DEF history
<1>4. CASE \E w \in Workers : SignIn(w)
  BY <1>0, <1>4, SignInEffect, OwnersQuiet DEF history
<1>5. CASE \E w \in Workers, a \in UserIds, t \in Txs : QrStatus(w, a, t)
  BY <1>5, OwnersQrStatus
<1>6. CASE \E w \in Workers : PollAnswer(w)
  <2>1. PICK w \in Workers : PollAnswer(w)
    BY <1>6
  <2>2. txs' \subseteq txs /\ UNCHANGED <<now, qrMap, issued, started>>
    BY <2>1 DEF PollAnswer
  <2> QED
    BY <1>0, <2>1, <2>2, SlotAfterLeave, OwnersQuiet DEF PollAnswer
<1>7. CASE \E w \in Workers, a \in UserIds : GenerateQr(w, a)
  <2>1. PICK w \in Workers, a \in UserIds : GenerateQr(w, a)
    BY <1>7
  <2>2. \A row : [Idle EXCEPT !.pc = "init", !.row = {row}].pc = "init"
    BY DEF Idle
  <2>3. slot'[w].pc = "init" /\ \A v \in Workers : v # w => slot'[v] = slot[v]
    BY <2>1, <2>2, SlotAfterEnter DEF GenerateQr
  <2>4. UNCHANGED <<now, txs, qrMap, issued, started>>
    BY <2>1 DEF GenerateQr, history
  <2> QED
    BY <1>0, <2>3, <2>4, OwnersQuiet
<1>8. CASE \E w \in Workers, t \in Txs : InitTransaction(w, t)
  BY <1>8, OwnersInitTransaction
<1>9. CASE \E w \in Workers : MapInsert(w)
  BY <1>9, OwnersMapInsert
<1>10. CASE Environment
  <2>1. /\ UNCHANGED <<issued, started>> /\ now' >= now /\ txs' \subseteq txs
        /\ qrMap' = qrMap \/ (qrMap' = {} /\ txs' = {})
    BY <1>0, <1>10 DEF Environment, Logout, Tick, Restart, vars, history
  <2>2. \A w \in Workers : slot'[w] = slot[w] \/ slot'[w].pc \notin {"map", "poll"}
    BY <1>10, EnvironmentEffect DEF Idle
  <2> QED
    BY <2>1, <2>2, OwnersQuiet
<1> QED
  BY <1>1, <1>2, <1>3, <1>4, <1>5, <1>6, <1>7, <1>8, <1>9, <1>10, NextSplits
     DEF Polling, Starting

LEMMA OwnersInit == Init => OwnersInv
BY DEF Init, OwnersInv, StartedOnce, EntriesStarted, MapsFresh, PollsChecked, Idle

\* No process has ended and left its transactions without the map.
MapIntact == KeepTransactions => calls["restart"] = Calls["restart"]

RestartsLeft == calls["restart"] <= Calls["restart"]

\* Every step makes at most one call.
LEMMA OneCall ==
    ASSUME TypeOK, [Next]_vars
    PROVE  UNCHANGED calls \/ \E kind \in Kinds : Take(kind)
<1>1. ASSUME NEW w \in Workers, Call(w)
      PROVE  \E kind \in Kinds : Take(kind)
  BY <1>1 DEF Call, Login, Bootstrap, CreateUser, DeleteUser, UpdateUser, GenerateQr,
     QrStatus, Begin, Kinds
<1>2. ASSUME NEW w \in Workers, Step(w) \/ Abandon(w)
      PROVE  UNCHANGED calls
  BY <1>2 DEF Step, Insert, FirstLogin, LoginSession, UpdateRead, UpdateWrite,
     DeleteRead, DeleteWrite, InitTransaction, MapInsert, PollAnswer, Abandon
<1>3. CASE \E w \in Workers : Call(w) \/ Step(w) \/ Abandon(w)
  BY <1>1, <1>2, <1>3
<1>4. CASE Restart \/ \E i \in UserIds : Logout(i)
  BY <1>4 DEF Restart, Logout, Kinds
<1>5. CASE Tick \/ UNCHANGED vars
  BY <1>5 DEF Tick, vars
<1> QED
  BY <1>3, <1>4, <1>5 DEF Next

\* A map that is intact was so before, and the step was no restart over a store
\* that keeps its transactions.
LEMMA MapIntactBefore ==
    ASSUME TypeOK, RestartsLeft, [Next]_vars
    PROVE  /\ RestartsLeft'
           /\ MapIntact' => MapIntact /\ (KeepTransactions => ~ Restart)
<1>1. /\ calls["restart"] \in Nat /\ Calls["restart"] \in Nat
      /\ calls \in [Kinds -> Nat] /\ "restart" \in Kinds
  BY CallsAssumption DEF TypeOK, Kinds
<1>2. \A kind \in Kinds : Take(kind) => calls'["restart"] <= calls["restart"]
  BY <1>1 DEF Take
<1>3. calls'["restart"] \in Nat /\ calls'["restart"] <= calls["restart"]
  <2>1. calls' \in [Kinds -> Nat]
    BY <1>1, OneCall, TakeType
  <2> QED
    BY <1>1, <1>2, <2>1, OneCall
<1>4. Restart => calls'["restart"] < calls["restart"]
  BY <1>1 DEF Restart, Take
<1> QED
  BY <1>1, <1>3, <1>4 DEF RestartsLeft, MapIntact

LEMMA OwnersWhileIntact == Spec => [](TypeOK /\ RestartsLeft /\ (MapIntact => OwnersInv))
<1>1. Init => TypeOK /\ RestartsLeft /\ (MapIntact => OwnersInv)
  <2>1. Init => RestartsLeft
    BY CallsAssumption DEF Init, RestartsLeft, Kinds
  <2> QED
    BY <2>1, InitType, OwnersInit
<1>2. TypeOK /\ RestartsLeft /\ (MapIntact => OwnersInv) /\ [Next]_vars
         => (TypeOK /\ RestartsLeft /\ (MapIntact => OwnersInv))'
  BY TypeStep, OwnersStep, MapIntactBefore
<1> QED
  BY <1>1, <1>2, PTL DEF Spec

LEMMA OwnersPoll == OwnersInv => PolledByOwner
<1>1. SUFFICES ASSUME OwnersInv, NEW w \in Workers, NEW row \in slot[w].row,
                      NEW t \in slot[w].tx, slot[w].pc = "poll", Alive(t)
               PROVE  \/ row.role = "admin"
                      \/ \E s \in started : s.tx = t /\ s.user = row.id
  BY DEF PolledByOwner
<1>2. PICK e \in slot[w].entry : e.tx = t
  BY <1>1 DEF OwnersInv, PollsChecked
<1>3. /\ [tx |-> e.tx, user |-> e.user, email |-> e.email] \in started
      /\ e.user = row.id \/ row.role = "admin"
  BY <1>1 DEF OwnersInv, PollsChecked
<1> QED
  BY <1>2, <1>3

\* As long as no restart took the map away from transactions that are kept, it
\* never opens a live transaction to a user who did not start it, however calls
\* overlap and whenever entries are pruned.
THEOREM OwnersUntilRestart == Spec => [](MapIntact => PolledByOwner)
BY OwnersWhileIntact, OwnersPoll, PTL

\* With the transactions in memory, which end together with the map, that holds
\* through all restarts.
THEOREM OwnersCorrect ==
    ASSUME ~ KeepTransactions
    PROVE  Spec => []PolledByOwner
<1>1. MapIntact
  BY DEF MapIntact
<1> QED
  BY <1>1, OwnersUntilRestart, PTL

\* What is journaled for a poll is journaled for the user of the entry.
LEMMA AttributionStep ==
    TypeOK /\ OwnersInv /\ AttributedToStarter /\ [Next]_vars
       => AttributedToStarter'
<1> SUFFICES ASSUME TypeOK, OwnersInv, AttributedToStarter, [Next]_vars
             PROVE  AttributedToStarter'
  OBVIOUS
<1>1. CASE UNCHANGED journal /\ started \subseteq started'
  BY <1>1 DEF AttributedToStarter
<1>2. CASE \E w \in Workers : PollAnswer(w)
  <2>1. PICK w \in Workers : PollAnswer(w)
    BY <1>2
  <2>2. UNCHANGED started
    BY <2>1 DEF PollAnswer
  <2>3. ASSUME NEW t \in slot[w].tx, Alive(t)
        PROVE  \E s \in started : s.tx = t /\ AttributedTo(w) = {s.email}
    <3>1. slot[w].pc = "poll"
      BY <2>1 DEF PollAnswer
    <3>2. PICK e \in slot[w].entry : TRUE
      BY <2>3, <3>1 DEF OwnersInv, PollsChecked
    <3>3. ASSUME NEW f \in slot[w].entry
          PROVE  /\ f.tx = t
                 /\ [tx |-> f.tx, user |-> f.user, email |-> f.email] \in started
      BY <2>3, <3>1 DEF OwnersInv, PollsChecked
    <3>4. ASSUME NEW f \in slot[w].entry
          PROVE  f.email = e.email
      <4> DEFINE s == [tx |-> f.tx, user |-> f.user, email |-> f.email]
                 r == [tx |-> e.tx, user |-> e.user, email |-> e.email]
      <4>1. s \in started /\ r \in started /\ s.tx = r.tx
        BY <3>3
      <4>2. s = r
        BY <4>1 DEF OwnersInv, StartedOnce
      <4>3. s.email = r.email
        BY <4>2
      <4> QED
        BY <4>3
    <3>5. AttributedTo(w) = {e.email}
      BY <3>4 DEF AttributedTo
    <3> QED
      BY <3>3, <3>5
  <2>4. \A j \in journal' : j \in journal \/
           \E t \in slot[w].tx : Alive(t) /\ j = [tx |-> t, email |-> AttributedTo(w)]
    BY <2>1 DEF PollAnswer
  <2> QED
    BY <2>2, <2>3, <2>4 DEF AttributedToStarter
<1>3. \/ UNCHANGED journal /\ started \subseteq started'
      \/ \E w \in Workers : PollAnswer(w)
  <2>1. CASE \E w \in Workers : Registration(w) \/ Insert(w)
    BY <2>1, RegistrationPrepares DEF Prepare, Insert
  <2>2. CASE \E w \in Workers : Update(w)
    BY <2>2 DEF Update, UpdateUser, UpdateRead, UpdateWrite, history
  <2>3. CASE \E w \in Workers : Polling(w)
    BY <2>3 DEF Polling, QrStatus, history
  <2> QED
    BY <2>1, <2>2, <2>3, NextSplits, DeletionEffect, SignInEffect, StartingEffect,
       EnvironmentEffect DEF history
<1> QED
  BY <1>1, <1>2, <1>3

LEMMA AttributionWhileIntact ==
    Spec => [](/\ TypeOK /\ RestartsLeft
               /\ MapIntact => OwnersInv /\ AttributedToStarter)
<1>1. Init => /\ TypeOK /\ RestartsLeft
              /\ MapIntact => OwnersInv /\ AttributedToStarter
  <2>1. Init => RestartsLeft /\ AttributedToStarter
    BY CallsAssumption DEF Init, RestartsLeft, Kinds, AttributedToStarter
  <2> QED
    BY <2>1, InitType, OwnersInit
<1>2. /\ TypeOK /\ RestartsLeft /\ (MapIntact => OwnersInv /\ AttributedToStarter)
      /\ [Next]_vars
      => (/\ TypeOK /\ RestartsLeft
          /\ MapIntact => OwnersInv /\ AttributedToStarter)'
  BY TypeStep, OwnersStep, AttributionStep, MapIntactBefore
<1> QED
  BY <1>1, <1>2, PTL DEF Spec

\* Each QR verification in the journal bears the name of the user who started
\* the transaction, also when an administrator polled it, until a restart takes
\* the map away from transactions that are kept ...
THEOREM AttributionUntilRestart == Spec => [](MapIntact => AttributedToStarter)
BY AttributionWhileIntact, PTL

\* ... and for transactions in memory through all restarts.
THEOREM AttributionCorrect ==
    ASSUME ~ KeepTransactions
    PROVE  Spec => []AttributedToStarter
<1>1. MapIntact
  BY DEF MapIntact
<1> QED
  BY <1>1, AttributionUntilRestart, PTL
=============================================================================
