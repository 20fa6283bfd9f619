---------------------------- MODULE VerifierApp -----------------------------
(***************************************************************************)
(* The backend of the Verifier App (crates/ewqwe-credential-verifier-ui):  *)
(* user accounts, sessions, the one-time bootstrap, the administration of  *)
(* users, and the ownership of QR transactions.                            *)
(*                                                                         *)
(* A call runs on a worker, one statement of a store per step.  Reading    *)
(* the session and hashing a password touch no shared state and belong to  *)
(* the step before them.  An optional value is a set with no or one        *)
(* element.  Names of people and allowed credential types are left out:    *)
(* they are written like role, is_active and password, and a request that  *)
(* asks for a type it is not allowed changes nothing.                      *)
(***************************************************************************)
EXTENDS Integers, FiniteSets

CONSTANTS
    UserIds,          \* ids of users (UUIDs)
    Emails,           \* normalised email addresses
    Passwords,
    Changes,          \* bodies of PUT /admin/users/{id}
    Txs,              \* ids of QR transactions (UUIDs)
    Workers,          \* calls that the server handles at the same time
    Calls,            \* Calls[k]: how many calls of kind k are made
    TTL,              \* transaction_ttl_secs
    MaxTime,          \* bound of the clock
    KeepUsers,        \* verifier_ui.db is sqlite_file
    KeepSessions,     \* verifier_ui.session_secret is set
    KeepTransactions  \* the transaction store is sqlite_file

Roles == {"admin", "verifier"}

Kinds == {"bootstrap", "login", "logout", "create", "update", "delete",
          "generate", "status", "restart"}

\* UserChanges: an empty set means "no change".
ChangeType == [role : SUBSET Roles, active : SUBSET BOOLEAN,
               password : SUBSET Passwords]

ASSUME ChangesAssumption == Changes \subseteq ChangeType
ASSUME CallsAssumption == Calls \in [Kinds -> Nat]
ASSUME TimeAssumption == TTL \in Nat /\ MaxTime \in Nat
ASSUME KeepAssumption == /\ KeepUsers \in BOOLEAN /\ KeepSessions \in BOOLEAN
                         /\ KeepTransactions \in BOOLEAN

VARIABLES
    now,      \* the clock of the server
    users,    \* the rows of qrcode_app_users
    sessions, \* the user ids in the session cookies of browsers
    txs,      \* QR transactions in the transaction store
    qrMap,    \* QrUserMap
    slot,     \* slot[w]: the call that worker w handles
    calls,    \* calls[k]: calls of kind k still to be made
    issued,   \* ids of users and transactions given out so far (history)
    born,     \* ids of users that were inserted (history)
    started,  \* who started which QR transaction (history)
    journal   \* to whom verifications of QR transactions were attributed

history == <<issued, born, started, journal>>
vars == <<now, users, sessions, txs, qrMap, slot, calls, history>>

-----------------------------------------------------------------------------
(* Users and transactions *)

User == [id : UserIds, email : Emails, password : Passwords, role : Roles,
         active : BOOLEAN, superadmin : BOOLEAN]

Tx == [id : Txs, expires : Nat]

\* QrUserEntry, with the transaction it is stored under.
Entry == [tx : Txs, user : UserIds, email : Emails, expires : Nat]

UserById(i) == {row \in users : row.id = i}

\* current_user: the cookie names a row of the store that is active.
CurrentUser(i) == {row \in UserById(i) : i \in sessions /\ row.active}

\* require_admin
CurrentAdmin(i) == {row \in CurrentUser(i) : row.role = "admin"}

Given(field, default) == IF field = {} THEN default ELSE CHOOSE v \in field : TRUE

\* MUTANT: a role that is left out is written as the empty string.
MergedNoRole(row, change) ==
    [row EXCEPT !.role = Given(change.role, ""),
                !.active = Given(change.active, row.active),
                !.password = Given(change.password, row.password)]

\* The values that update_user writes: those of the request, else those it
\* has read.
Merged(row, change) ==
    [row EXCEPT !.role = Given(change.role, row.role),
                !.active = Given(change.active, row.active),
                !.password = Given(change.password, row.password)]

Alive(t) == \E tx \in txs : tx.id = t /\ now <= tx.expires

-----------------------------------------------------------------------------
(* Calls in progress *)

SlotType == [pc : {"idle", "insert", "first_login", "login", "update_read",
                   "update", "delete_read", "delete", "init", "map", "poll"},
             target : SUBSET UserIds, row : SUBSET User,
             change : SUBSET ChangeType, tx : SUBSET Txs, entry : SUBSET Entry]

Idle == [pc |-> "idle", target |-> {}, row |-> {}, change |-> {}, tx |-> {},
         entry |-> {}]

Take(kind) ==
    /\ calls[kind] > 0
    /\ calls' = [calls EXCEPT ![kind] = @ - 1]

Begin(w, kind) == slot[w].pc = "idle" /\ Take(kind)

Enter(w, s) == slot' = [slot EXCEPT ![w] = s]
Leave(w) == Enter(w, Idle)

Init ==
    /\ now = 0
    /\ users = {}
    /\ sessions = {}
    /\ txs = {}
    /\ qrMap = {}
    /\ slot = [w \in Workers |-> Idle]
    /\ calls = Calls
    /\ issued = {}
    /\ born = {}
    /\ started = {}
    /\ journal = {}

-----------------------------------------------------------------------------
(* Accounts *)

\* A request for a new account: its id is given out, the INSERT follows.
Prepare(w, i, row) ==
    /\ i \notin issued
    /\ issued' = issued \cup {i}
    /\ Enter(w, [Idle EXCEPT !.pc = "insert", !.row = {row}])
    /\ UNCHANGED <<now, users, sessions, txs, qrMap, born, started, journal>>

\* bootstrap: user_count is 0; the password is hashed on another thread.
Bootstrap(w, i, e, p) ==
    /\ Begin(w, "bootstrap")
    /\ users = {}
    /\ Prepare(w, i, [id |-> i, email |-> e, password |-> p, role |-> "admin",
                      active |-> TRUE, superadmin |-> TRUE])

\* create_user, called by admin a.
CreateUser(w, a, i, e, p, r) ==
    /\ Begin(w, "create")
    /\ CurrentAdmin(a) # {}
    /\ Prepare(w, i, [id |-> i, email |-> e, password |-> p, role |-> r,
                      active |-> TRUE, superadmin |-> FALSE])

\* MUTANT: no unique index on email.
EmailUnchecked(row) == FALSE

EmailTaken(row) == \E other \in users : other.email = row.email

\* The INSERT; a second row with one email violates the unique index.  Then
\* bootstrap reads the row back and logs in.
Insert(w) ==
    /\ slot[w].pc = "insert"
    /\ \E row \in slot[w].row :
         IF EmailTaken(row) THEN Leave(w) /\ UNCHANGED <<users, born>>
         ELSE /\ users' = users \cup {row}
              /\ born' = born \cup {row.id}
              /\ IF row.superadmin
                 THEN Enter(w, [slot[w] EXCEPT !.pc = "first_login"])
                 ELSE Leave(w)
    /\ UNCHANGED <<now, sessions, txs, qrMap, calls, issued, started, journal>>

FirstLogin(w) ==
    /\ slot[w].pc = "first_login"
    /\ sessions' = sessions \cup
                     {row.id : row \in {r \in slot[w].row : UserById(r.id) # {}}}
    /\ Leave(w)
    /\ UNCHANGED <<now, users, txs, qrMap, calls, history>>

\* login reads the row, then verifies the password on another thread.
Login(w, e, p) ==
    /\ Begin(w, "login")
    /\ \E row \in users :
         /\ row.email = e /\ row.active /\ row.password = p
         /\ Enter(w, [Idle EXCEPT !.pc = "login", !.row = {row}])
    /\ UNCHANGED <<now, users, sessions, txs, qrMap, history>>

LoginSession(w) ==
    /\ slot[w].pc = "login"
    /\ sessions' = sessions \cup {row.id : row \in slot[w].row}
    /\ Leave(w)
    /\ UNCHANGED <<now, users, txs, qrMap, calls, history>>

Logout(i) ==
    /\ Take("logout")
    /\ i \in sessions
    /\ sessions' = sessions \ {i}
    /\ UNCHANGED <<now, users, txs, qrMap, slot, history>>

\* update_user, called by admin a for user i.
UpdateUser(w, a, i, change) ==
    /\ Begin(w, "update")
    /\ CurrentAdmin(a) # {}
    /\ Enter(w, [Idle EXCEPT !.pc = "update_read", !.target = {i},
                             !.change = {change}])
    /\ UNCHANGED <<now, users, sessions, txs, qrMap, history>>

\* update_user of the store reads the current row ...
UpdateRead(w) ==
    /\ slot[w].pc = "update_read"
    /\ LET rows == {row \in users : row.id \in slot[w].target} IN
       IF rows = {} THEN Leave(w)
       ELSE \E row \in rows, change \in slot[w].change :
               Enter(w, [slot[w] EXCEPT !.pc = "update", !.row = {Merged(row, change)}])
    /\ UNCHANGED <<now, users, sessions, txs, qrMap, calls, history>>

\* MUTANT: INSERT OR REPLACE in place of UPDATE.
UpdateReplaces(w) ==
    /\ slot[w].pc = "update"
    /\ \E new \in slot[w].row :
         users' = {row \in users : row.id # new.id} \cup {new}
    /\ Leave(w)
    /\ UNCHANGED <<now, sessions, txs, qrMap, calls, history>>

\* ... and writes all columns back, if the row is still there.
UpdateWrite(w) ==
    /\ slot[w].pc = "update"
    /\ \E new \in slot[w].row :
         users' = {row \in users : row.id # new.id}
                  \cup {new : row \in UserById(new.id)}
    /\ Leave(w)
    /\ UNCHANGED <<now, sessions, txs, qrMap, calls, history>>

\* delete_user, called by admin a for user i.
DeleteUser(w, a, i) ==
    /\ Begin(w, "delete")
    /\ CurrentAdmin(a) # {}
    /\ Enter(w, [Idle EXCEPT !.pc = "delete_read", !.target = {i}])
    /\ UNCHANGED <<now, users, sessions, txs, qrMap, history>>

\* delete_user of the store reads the row and refuses a superadmin ...
DeleteRead(w) ==
    /\ slot[w].pc = "delete_read"
    /\ IF \E row \in users : row.id \in slot[w].target /\ ~ row.superadmin
       THEN Enter(w, [slot[w] EXCEPT !.pc = "delete"])
       ELSE Leave(w)
    /\ UNCHANGED <<now, users, sessions, txs, qrMap, calls, history>>

\* ... and then deletes by id.
DeleteWrite(w) ==
    /\ slot[w].pc = "delete"
    /\ users' = {row \in users : row.id \notin slot[w].target}
    /\ Leave(w)
    /\ UNCHANGED <<now, sessions, txs, qrMap, calls, history>>

-----------------------------------------------------------------------------
(* QR transactions *)

\* generate_qr by user a.
GenerateQr(w, a) ==
    /\ Begin(w, "generate")
    /\ \E row \in CurrentUser(a) :
         Enter(w, [Idle EXCEPT !.pc = "init", !.row = {row}])
    /\ UNCHANGED <<now, users, sessions, txs, qrMap, history>>

\* init_transaction.  It writes the row and renders the QR code, which takes
\* time: the clock has moved when generate_qr reads it next.
InitTransaction(w, t) ==
    /\ slot[w].pc = "init"
    /\ t \notin issued
    /\ now < MaxTime
    /\ now' = now + 1
    /\ issued' = issued \cup {t}
    /\ txs' = txs \cup {[id |-> t, expires |-> now + TTL]}
    /\ Enter(w, [slot[w] EXCEPT !.pc = "map", !.tx = {t}])
    /\ UNCHANGED <<users, sessions, qrMap, calls, born, started, journal>>

\* MUTANT: the entry expires with the clock of the transaction's creation.
ExpiryTooEarly == now + TTL - 1

EntryExpiry == now + TTL

\* qr_map.insert prunes what has expired; the answer gives the id away.
MapInsert(w) ==
    /\ slot[w].pc = "map"
    /\ \E row \in slot[w].row, t \in slot[w].tx :
         /\ qrMap' = {e \in qrMap : e.expires > now /\ e.tx # t} \cup
                     {[tx |-> t, user |-> row.id, email |-> row.email,
                       expires |-> EntryExpiry]}
         /\ started' = started \cup {[tx |-> t, user |-> row.id, email |-> row.email]}
    /\ Leave(w)
    /\ UNCHANGED <<now, users, sessions, txs, calls, issued, born, journal>>

\* qr_map.get
Owner(t) == {e \in qrMap : e.tx = t /\ e.expires > now}

\* qr_status by user a: an unknown owner is nobody's objection.
QrStatus(w, a, t) ==
    /\ Begin(w, "status")
    /\ \E s \in started : s.tx = t
    /\ \E row \in CurrentUser(a) :
         /\ \A e \in Owner(t) : e.user = row.id \/ row.role = "admin"
         /\ Enter(w, [Idle EXCEPT !.pc = "poll", !.row = {row}, !.tx = {t},
                                  !.entry = Owner(t)])
    /\ UNCHANGED <<now, users, sessions, txs, qrMap, history>>

\* MUTANT: the verification is attributed to whoever polled.
PollerOf(w) == {row.email : row \in slot[w].row}

\* owner_email; "system" when the map does not know the owner.
AttributedTo(w) == {e.email : e \in slot[w].entry}

\* get_transaction_status, and the verification of a response that may have
\* arrived.  An expired row is deleted.
PollAnswer(w) ==
    /\ slot[w].pc = "poll"
    /\ \E t \in slot[w].tx :
         IF Alive(t)
         THEN /\ \/ journal' = journal \cup
                        {[tx |-> t, email |-> AttributedTo(w)]}
                 \/ UNCHANGED journal
              /\ UNCHANGED txs
         ELSE /\ txs' = {tx \in txs : tx.id # t}
              /\ UNCHANGED journal
    /\ Leave(w)
    /\ UNCHANGED <<now, users, sessions, qrMap, calls, issued, born, started>>

-----------------------------------------------------------------------------
(* The environment *)

\* A statement fails, or the client hangs up and the call is dropped.
Abandon(w) ==
    /\ slot[w].pc # "idle"
    /\ Leave(w)
    /\ UNCHANGED <<now, users, sessions, txs, qrMap, calls, history>>

Tick ==
    /\ now < MaxTime
    /\ now' = now + 1
    /\ UNCHANGED <<users, sessions, txs, qrMap, slot, calls, history>>

\* The process ends and starts again: a new session key unless one is set,
\* the stores in memory are empty, and so is the map.
Restart ==
    /\ Take("restart")
    /\ users' = IF KeepUsers THEN users ELSE {}
    /\ sessions' = IF KeepSessions THEN sessions ELSE {}
    /\ txs' = IF KeepTransactions THEN txs ELSE {}
    /\ qrMap' = {}
    /\ slot' = [w \in Workers |-> Idle]
    /\ UNCHANGED <<now, history>>

-----------------------------------------------------------------------------
Step(w) ==
    \/ Insert(w) \/ FirstLogin(w) \/ LoginSession(w)
    \/ UpdateRead(w) \/ UpdateWrite(w) \/ DeleteRead(w) \/ DeleteWrite(w)
    \/ (\E t \in Txs : InitTransaction(w, t)) \/ MapInsert(w) \/ PollAnswer(w)

Call(w) ==
    \/ \E e \in Emails, p \in Passwords :
          \/ Login(w, e, p)
          \/ \E i \in UserIds :
                \/ Bootstrap(w, i, e, p)
                \/ \E a \in UserIds, r \in Roles : CreateUser(w, a, i, e, p, r)
    \/ \E a \in UserIds :
          \/ \E i \in UserIds :
                \/ DeleteUser(w, a, i)
                \/ \E change \in Changes : UpdateUser(w, a, i, change)
          \/ GenerateQr(w, a)
          \/ \E t \in Txs : QrStatus(w, a, t)

Next ==
    \/ \E w \in Workers : Call(w) \/ Step(w) \/ Abandon(w)
    \/ \E i \in UserIds : Logout(i)
    \/ Tick
    \/ Restart

Spec == Init /\ [][Next]_vars

-----------------------------------------------------------------------------
(* Properties *)

\* The values of the state have their types.
TypeOK ==
    /\ now \in Nat
    /\ users \subseteq User
    /\ sessions \subseteq UserIds
    /\ txs \subseteq Tx
    /\ qrMap \subseteq Entry
    /\ slot \in [Workers -> SlotType]
    /\ calls \in [Kinds -> Nat]
    /\ issued \subseteq UserIds \cup Txs
    /\ born \subseteq UserIds
    /\ started \subseteq [tx : Txs, user : UserIds, email : Emails]
    /\ journal \subseteq [tx : Txs, email : SUBSET Emails]

\* Neither an id nor an email names two accounts, so a session and a login
\* mean one person, whatever requests were under way together.
AccountsUnique ==
    \A row, other \in users :
        row.id = other.id \/ row.email = other.email => row = other

\* "`None` fields mean "no change"" (UserChanges, models.rs): what a request to
\* change an account does not name stays as it is, whatever other changes of
\* this account were under way; a deactivation, say, is not undone by a request
\* about the role.
UnnamedFieldsKept ==
    [][\A w \in Workers : UpdateWrite(w) =>
         \A row \in users, change \in slot[w].change :
             row.id \in slot[w].target => Merged(row, change) \in users']_vars

\* A transaction that is still alive is polled by the user who started it or
\* by an administrator, although the map is pruned and entries expire.
PolledByOwner ==
    \A w \in Workers : \A row \in slot[w].row, t \in slot[w].tx :
        slot[w].pc = "poll" /\ Alive(t) =>
            \/ row.role = "admin"
            \/ \E s \in started : s.tx = t /\ s.user = row.id

\* A QR verification is attributed to the user who started the transaction,
\* whoever polled it ("attribute journal entries to the correct Verifier App
\* user", qr_user_map.rs).
AttributedToStarter ==
    \A j \in journal : \E s \in started : s.tx = j.tx /\ j.email = {s.email}

\* What is registered under an id.
AccountOf(i) ==
    CASE \E row \in users : row.id = i /\ row.superadmin -> "super"
      [] \E row \in users : row.id = i /\ ~ row.superadmin -> "plain"
      [] OTHER -> IF i \in born THEN "removed" ELSE "none"

Registry == INSTANCE AccountRegistry
    WITH account <- [i \in UserIds |-> AccountOf(i)]

\* With a user store that survives restarts, no order of requests removes a
\* superadmin, brings an account back, or leaves accounts without one: once
\* there is an account, bootstrap stays closed.
IsRegistry == Registry!Spec
=============================================================================
