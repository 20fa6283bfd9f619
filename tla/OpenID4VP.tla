----------------------------- MODULE OpenID4VP ------------------------------
(***************************************************************************)
(* The life of an OpenID4VP transaction in the credential verifier: the    *)
(* transaction store (crates/ewqwe-openid4vp/src/stores), the service over *)
(* it (service.rs) and the endpoints that use the service: init, request,  *)
(* status, direct_post, POST /ewqwe_api/verify and the QR status poll of   *)
(* the Verifier App.                                                       *)
(*                                                                         *)
(* A call runs on a worker, one statement of the store per step, so the    *)
(* statements of concurrent calls interleave.  An optional value of the    *)
(* code (None or Some) is a set with no or one element.                    *)
(***************************************************************************)
EXTENDS Integers, FiniteSets

CONSTANTS
    Ids,            \* transaction ids (UUIDs)
    States,         \* values of the OpenID4VP state parameter
    SuppliedStates, \* the states a relying party names itself in init
    Nonces,         \* nonces, server generated or given by the relying party
    Tokens,         \* VP tokens that wallets and callers present
    Workers,        \* calls that the server handles at the same time
    Calls,          \* Calls[k]: how many calls of kind k are made
    TTL,            \* transaction_ttl_secs
    MaxTime,        \* bound of the clock
    Atomic,         \* the store updates a row under one lock (in-memory store)
    Persistent,     \* the table survives a restart (sqlite_file)
    JournalEnabled, \* journal_config.enabled
    Failures        \* storage, journal and attestation may fail

Kinds == {"fetch", "poll", "post", "refuse", "verify", "restart"}

\* A token without a nonce: an SD-JWT whose key binding names none, or plain
\* JSON.  genuine: signatures, issuer and validity period are in order.
TokenType == [format : {"mdoc", "sdjwt", "json"},
              nonce : SUBSET Nonces,
              genuine : BOOLEAN]

ASSUME StatesAssumption == SuppliedStates \subseteq States
ASSUME TokensAssumption == Tokens \subseteq TokenType
ASSUME CallsAssumption == Calls \in [Kinds -> Nat]
ASSUME TimeAssumption == TTL \in Nat /\ MaxTime \in Nat
ASSUME SwitchesAssumption == /\ Atomic \in BOOLEAN /\ Persistent \in BOOLEAN
                             /\ JournalEnabled \in BOOLEAN
                             /\ Failures \in BOOLEAN

VARIABLES
    now,        \* the clock of the server
    table,      \* the rows of the table transactions
    slot,       \* slot[w]: the call that worker w handles
    calls,      \* calls[k]: calls of kind k still to be made
    created,    \* rows as init_transaction inserted them (history)
    revived,    \* revived[i]: how often a deleted row i was inserted again
    granted,    \* granted[i]: attestations of success that consumed i
    journaled,  \* journaled[i]: journal entries of POST /verify about i
    shown,      \* shown[i]: QR verifications of i answered "verified"
    qrJournaled \* qrJournaled[i]: journal entries of QR verifications of i

history == <<created, revived, granted, journaled, shown, qrJournaled>>
vars == <<now, table, slot, calls, history>>

-----------------------------------------------------------------------------
(* Rows, and the statements of the store *)

Row == [id : Ids, state : States, nonce : Nonces, expires : Nat,
        status : {"pending", "received", "verified", "error"},
        response : SUBSET Tokens, refused : BOOLEAN]

ById(i) == {row \in table : row.id = i}
ByState(s) == {row \in table : row.state = s}

\* MUTANT: an INSERT that does not look at the unique index on state.
NoConflict(row) == FALSE

\* INSERT and upsert fail on a second row with the same state.
Conflict(row) == \E other \in table : other.state = row.state /\ other.id # row.id

\* MUTANT: ON CONFLICT(state): the row keeps its id and gets the data.
UpsertOnState(row) ==
    /\ table' = IF ByState(row.state) = {} THEN table \cup {row}
                ELSE {other \in table : other.state # row.state} \cup
                     {[row EXCEPT !.id = other.id] : other \in ByState(row.state)}
    /\ UNCHANGED revived

\* set: INSERT ... ON CONFLICT(id) DO UPDATE.  A row that was deleted after
\* it was read is inserted again.
Upsert(row) ==
    IF Conflict(row) THEN UNCHANGED <<table, revived>>
    ELSE /\ table' = {other \in table : other.id # row.id} \cup {row}
         /\ revived' = IF ById(row.id) = {}
                       THEN [revived EXCEPT ![row.id] = @ + 1] ELSE revived

Delete(i) == table' = {row \in table : row.id # i}

Expired(row) == row.expires < now

-----------------------------------------------------------------------------
(* Verification of a VP token against the transaction found for its state *)

\* verify_vp_token: a nonce is compared when both sides have one.
NonceAccepted(token, tx) ==
    \A row \in tx : token.nonce \subseteq {row.nonce}

\* MUTANT: the presentation is checked without the transaction.
AcceptedAnyNonce(token, tx) ==
    CASE token.format = "mdoc"  -> tx # {} /\ token.genuine
      [] token.format = "sdjwt" -> token.genuine
      [] token.format = "json"  -> TRUE

\* verify_vp_token_against_cas: the mDoc transcript is rebuilt from the stored
\* nonce, so an mDoc needs the transaction.  Plain JSON carries no signature
\* that could be checked; those in Tokens name an issuer and are not expired.
Accepted(token, tx) ==
    CASE token.format = "mdoc"  -> /\ tx # {} /\ token.genuine
                                   /\ \A row \in tx : token.nonce = {row.nonce}
      [] token.format = "sdjwt" -> token.genuine /\ NonceAccepted(token, tx)
      [] token.format = "json"  -> NonceAccepted(token, tx)

\* get_transaction_by_state in verify_presentation: a storage error is logged
\* and taken for "no transaction".
Lookup(s) == {ByState(s)} \cup (IF Failures THEN {{}} ELSE {})

-----------------------------------------------------------------------------
(* Calls in progress.  tx: the rows (none or one) that the call works with *)

SlotType == [pc : {"idle", "purge", "write", "status", "qr_verify", "qr_journal",
                   "mark", "mark_write", "consume", "delete", "attest", "respond"},
             id : SUBSET Ids, state : SUBSET States, token : SUBSET Tokens,
             tx : SUBSET Row]

Idle == [pc |-> "idle", id |-> {}, state |-> {}, token |-> {}, tx |-> {}]

Take(kind) ==
    /\ calls[kind] > 0
    /\ calls' = [calls EXCEPT ![kind] = @ - 1]

Enter(w, s) == slot' = [slot EXCEPT ![w] = s]
Leave(w) == Enter(w, Idle)

Init ==
    /\ now = 0
    /\ table = {}
    /\ slot = [w \in Workers |-> Idle]
    /\ calls = Calls
    /\ created = {}
    /\ revived = [i \in Ids |-> 0]
    /\ granted = [i \in Ids |-> 0]
    /\ journaled = [i \in Ids |-> 0]
    /\ shown = [i \in Ids |-> 0]
    /\ qrJournaled = [i \in Ids |-> 0]

-----------------------------------------------------------------------------
(* init_transaction *)

\* A generated state is new; the relying party may reuse its own.  A state
\* that another row has makes the INSERT fail, and nothing changes.
InitTransaction(i, s, n) ==
    LET row == [id |-> i, state |-> s, nonce |-> n, expires |-> now + TTL,
                status |-> "pending", response |-> {}, refused |-> FALSE]
    IN  /\ \A c \in created : c.id # i
        /\ s \in SuppliedStates \/ \A c \in created : c.state # s
        /\ ~ Conflict(row)
        /\ table' = table \cup {row}
        /\ created' = created \cup {row}
        /\ UNCHANGED <<now, slot, calls, revived, granted, journaled, shown,
                       qrJournaled>>

-----------------------------------------------------------------------------
(* is_expired, the first statement of get_authorization_request and of     *)
(* get_transaction_status: an expired row is deleted                       *)

\* An endpoint other than the QR poll finds the row expired.  Of a row that
\* is alive these endpoints only read.
Fetch(w, i) ==
    /\ slot[w].pc = "idle"
    /\ Take("fetch")
    /\ \E row \in ById(i) : Expired(row)
    /\ IF Atomic THEN Delete(i) /\ UNCHANGED slot
       ELSE /\ Enter(w, [Idle EXCEPT !.pc = "purge", !.id = {i}])
            /\ UNCHANGED table
    /\ UNCHANGED <<now, history>>

\* The DELETE of is_expired.
Purge(w) ==
    /\ slot[w].pc = "purge"
    /\ \E i \in slot[w].id : Delete(i)
    /\ Leave(w)
    /\ UNCHANGED <<now, calls, history>>

-----------------------------------------------------------------------------
(* direct_post: handle_wallet_response and handle_wallet_error *)

Received(row, token) == [row EXCEPT !.response = {token}, !.status = "received"]

\* MUTANT: a status that the type does not have.
RefusedUnknown(row) == [row EXCEPT !.refused = TRUE, !.status = "refused"]

Refused(row) == [row EXCEPT !.refused = TRUE, !.status = "error"]

\* MUTANT: the lock is released between reading and writing.
UpdateUnlocked(w, row, new) ==
    /\ Enter(w, [Idle EXCEPT !.pc = "write", !.tx = {new}])
    /\ UNCHANGED table

\* update_by_state: a row is replaced at once, or written by an upsert later.
Update(w, row, new) ==
    IF Atomic
    THEN /\ table' = (table \ {row}) \cup {new}
         /\ UNCHANGED slot
    ELSE /\ Enter(w, [Idle EXCEPT !.pc = "write", !.tx = {new}])
         /\ UNCHANGED table

Post(w, s, token) ==
    /\ slot[w].pc = "idle"
    /\ Take("post")
    /\ \E row \in ByState(s) : Update(w, row, Received(row, token))
    /\ UNCHANGED <<now, history>>

Refuse(w, s) ==
    /\ slot[w].pc = "idle"
    /\ Take("refuse")
    /\ \E row \in ByState(s) : Update(w, row, Refused(row))
    /\ UNCHANGED <<now, history>>

\* The upsert that ends update_by_state.
Write(w) ==
    /\ slot[w].pc = "write"
    /\ \E row \in slot[w].tx : Upsert(row)
    /\ Leave(w)
    /\ UNCHANGED <<now, calls, created, granted, journaled, shown, qrJournaled>>

-----------------------------------------------------------------------------
(* POST /ewqwe_api/verify: verify_credential_endpoint *)

\* verify_presentation.  state: none or one; none in the DC API flow.  Callers
\* know the states they supplied and those of transactions that were created.
\* Any answer but "accepted" leaves everything as it is.
Verify(w, state, token) ==
    /\ slot[w].pc = "idle"
    /\ Take("verify")
    /\ \A s \in state : s \in SuppliedStates \/ \E c \in created : c.state = s
    /\ \E tx \in IF state = {} THEN {{}} ELSE UNION {Lookup(s) : s \in state} :
          /\ Accepted(token, tx)
          /\ Enter(w, [Idle EXCEPT !.pc = IF state = {} THEN "attest" ELSE "consume",
                                   !.state = state, !.token = {token}, !.tx = tx])
    /\ UNCHANGED <<now, table, history>>

\* consume_transaction_by_state looks the transaction up once more.
ConsumeFind(w) ==
    /\ slot[w].pc = "consume"
    /\ LET found == UNION {ByState(s) : s \in slot[w].state} IN
       IF found = {} THEN Leave(w)     \* "could not be consumed"
       ELSE \E row \in found :
               Enter(w, [slot[w] EXCEPT !.pc = "delete", !.id = {row.id}])
    /\ UNCHANGED <<now, table, calls, history>>

\* MUTANT: the answer of the DELETE is ignored.
ConsumeDeleteBlind(w) ==
    /\ slot[w].pc = "delete"
    /\ \E i \in slot[w].id :
         Delete(i) /\ Enter(w, [slot[w] EXCEPT !.pc = "attest"])
    /\ UNCHANGED <<now, calls, history>>

\* The DELETE tells whether this call removed the row.
ConsumeDelete(w) ==
    /\ slot[w].pc = "delete"
    /\ \E i \in slot[w].id :
         IF ById(i) = {} THEN Leave(w) /\ UNCHANGED table
         ELSE Delete(i) /\ Enter(w, [slot[w] EXCEPT !.pc = "attest"])
    /\ UNCHANGED <<now, calls, history>>

\* What the response needs no more is dropped.
ToResponse(w) == Enter(w, [Idle EXCEPT !.pc = "respond", !.id = slot[w].id])

\* One more for the transaction that the call works on.
OneMore(counts, w) ==
    [i \in Ids |-> IF i \in slot[w].id THEN counts[i] + 1 ELSE counts[i]]

\* MUTANT: a failure of the journal is only logged.
AttestUnrecorded(w) ==
    /\ slot[w].pc = "attest"
    /\ \/ JournalEnabled /\ journaled' = OneMore(journaled, w)
       \/ (JournalEnabled => Failures) /\ UNCHANGED journaled
    /\ ToResponse(w)
    /\ UNCHANGED <<now, table, calls, created, revived, granted, shown, qrJournaled>>

\* create_attestation and append_verification, when there is a journal.  An
\* error of either ends the call without an attestation; that of the journal may
\* also come after the entry was committed.
Attest(w) ==
    /\ slot[w].pc = "attest"
    /\ \/ JournalEnabled /\ journaled' = OneMore(journaled, w) /\ ToResponse(w)
       \/ JournalEnabled /\ Failures /\ journaled' = OneMore(journaled, w) /\ Leave(w)
       \/ ~ JournalEnabled /\ UNCHANGED journaled /\ ToResponse(w)
    /\ UNCHANGED <<now, table, calls, created, revived, granted, shown, qrJournaled>>

\* The caller gets the attestation, unless the call was dropped or the process
\* ended after the entry.
Respond(w) ==
    /\ slot[w].pc = "respond"
    /\ granted' = OneMore(granted, w)
    /\ Leave(w)
    /\ UNCHANGED <<now, table, calls, created, revived, journaled, shown, qrJournaled>>

-----------------------------------------------------------------------------
(* GET /verifier_ui/api/qr/{id}/status: qr_status *)

\* is_expired finds the row alive.
Poll(w, i) ==
    /\ slot[w].pc = "idle"
    /\ Take("poll")
    /\ \E row \in ById(i) : ~ Expired(row)
    /\ Enter(w, [Idle EXCEPT !.pc = "status", !.id = {i}])
    /\ UNCHANGED <<now, table, history>>

\* get: a response that waits for verification is taken along.
PollStatus(w) ==
    /\ slot[w].pc = "status"
    /\ LET waiting == {row \in table : /\ row.id \in slot[w].id
                                       /\ row.status = "received"
                                       /\ row.response # {}} IN
       IF waiting = {} THEN Leave(w)
       ELSE \E row \in waiting :
               Enter(w, [slot[w] EXCEPT !.pc = "qr_verify", !.state = {row.state},
                                        !.token = row.response])
    /\ UNCHANGED <<now, table, calls, history>>

\* verify_vp_token_for_qr: verify_presentation with that response.
PollVerify(w) ==
    /\ slot[w].pc = "qr_verify"
    /\ \E tx \in UNION {Lookup(s) : s \in slot[w].state}, token \in slot[w].token :
         IF Accepted(token, tx)
         THEN Enter(w, [slot[w] EXCEPT !.pc = "qr_journal", !.tx = tx])
         ELSE Leave(w)
    /\ UNCHANGED <<now, table, calls, history>>

\* append_verification; a failure is logged and forgotten.
PollJournal(w) ==
    /\ slot[w].pc = "qr_journal"
    /\ \E recorded \in IF Failures THEN BOOLEAN ELSE {TRUE} :
         qrJournaled' = [i \in Ids |->
                           IF recorded /\ JournalEnabled /\ i \in slot[w].id
                           THEN qrJournaled[i] + 1 ELSE qrJournaled[i]]
    /\ Enter(w, [slot[w] EXCEPT !.pc = "mark", !.tx = {}])
    /\ UNCHANGED <<now, table, calls, created, revived, granted, journaled, shown>>

ShowVerified(w) ==
    /\ shown' = [i \in Ids |-> IF i \in slot[w].id THEN shown[i] + 1 ELSE shown[i]]
    /\ Leave(w)

Verified(row) == [row EXCEPT !.status = "verified"]

\* mark_transaction_verified: update_status, at once or in two statements.
\* The answer is "verified" whether the row is still there or not.
Mark(w) ==
    /\ slot[w].pc = "mark"
    /\ LET rows == {row \in table : row.id \in slot[w].id} IN
       IF rows = {} \/ Atomic
       THEN /\ table' = (table \ rows) \cup {Verified(row) : row \in rows}
            /\ ShowVerified(w)
       ELSE /\ \E row \in rows : Enter(w, [slot[w] EXCEPT !.pc = "mark_write",
                                                          !.tx = {Verified(row)}])
            /\ UNCHANGED <<table, shown>>
    /\ UNCHANGED <<now, calls, created, revived, granted, journaled, qrJournaled>>

\* The upsert that ends update_status; its failure is logged only.
MarkWrite(w) ==
    /\ slot[w].pc = "mark_write"
    /\ \/ \E row \in slot[w].tx : Upsert(row)
       \/ Failures /\ UNCHANGED <<table, revived>>
    /\ ShowVerified(w)
    /\ UNCHANGED <<now, calls, created, granted, journaled, qrJournaled>>

-----------------------------------------------------------------------------
(* The environment *)

\* A statement fails, or the client hangs up and the call is dropped.
Abandon(w) ==
    /\ Failures
    /\ slot[w].pc # "idle"
    /\ Leave(w)
    /\ UNCHANGED <<now, table, calls, history>>

Tick ==
    /\ now < MaxTime
    /\ now' = now + 1
    /\ UNCHANGED <<table, slot, calls, history>>

\* The process ends and starts again.
Restart ==
    /\ Take("restart")
    /\ slot' = [w \in Workers |-> Idle]
    /\ table' = IF Persistent THEN table ELSE {}
    /\ UNCHANGED <<now, history>>

-----------------------------------------------------------------------------
Step(w) ==
    \/ Purge(w) \/ Write(w)
    \/ ConsumeFind(w) \/ ConsumeDelete(w) \/ Attest(w) \/ Respond(w)
    \/ PollStatus(w) \/ PollVerify(w) \/ PollJournal(w) \/ Mark(w) \/ MarkWrite(w)

Call(w) ==
    \/ \E i \in Ids : Fetch(w, i) \/ Poll(w, i)
    \/ \E s \in States : Refuse(w, s) \/ \E token \in Tokens : Post(w, s, token)
    \/ \E token \in Tokens :
          Verify(w, {}, token) \/ \E s \in States : Verify(w, {s}, token)

Next ==
    \/ \E i \in Ids, s \in States, n \in Nonces : InitTransaction(i, s, n)
    \/ \E w \in Workers : Call(w) \/ Step(w) \/ Abandon(w)
    \/ Tick
    \/ Restart

Spec == Init /\ [][Next]_vars

-----------------------------------------------------------------------------
(* Properties *)

\* The values of the state have their types.
TypeOK ==
    /\ now \in Nat
    /\ table \subseteq Row /\ created \subseteq Row
    /\ slot \in [Workers -> SlotType]
    /\ calls \in [Kinds -> Nat]
    /\ revived \in [Ids -> Nat] /\ granted \in [Ids -> Nat]
    /\ journaled \in [Ids -> Nat] /\ shown \in [Ids -> Nat]
    /\ qrJournaled \in [Ids -> Nat]

\* Neither an id nor a state names two transactions: find_by_state and
\* update_by_state are not ambiguous (TransactionStore, transaction.rs).
KeysUnique ==
    \A row, other \in table :
        row.id = other.id \/ row.state = other.state => row = other

\* The state, the nonce and the expiry of a transaction never change: no
\* update writes what it read of one transaction over another.
RequestDataKept ==
    \A row \in table : \E c \in created :
        /\ c.id = row.id /\ c.state = row.state
        /\ c.nonce = row.nonce /\ c.expires = row.expires

\* A call consumes, or answers "verified" for, the transaction that it found
\* for its state and checked the presentation against, whatever other calls
\* did between these statements.  States that relying parties supply are left
\* out: they can name a newer transaction by the time of the DELETE.
CheckedAgainstOwn ==
    \A w \in Workers : \A i \in slot[w].id, row \in slot[w].tx :
        slot[w].pc \in {"delete", "attest", "qr_journal"}
        /\ slot[w].state \cap SuppliedStates = {}
        => /\ row.id = i
           /\ \A token \in slot[w].token : token.nonce \subseteq {row.nonce}

\* A transaction yields one attestation of success, unless it was inserted
\* again after its deletion.
SingleUseUnlessRevived == \A i \in Ids : granted[i] <= 1 + revived[i]

\* A verification is on record before its attestation leaves the server, whatever
\* fails or ends between the DELETE, the entry and the response; and a
\* transaction is recorded once, unless it was inserted again: the calls that
\* race for it write no second entry, those that fail and are repeated neither.
RecordedOnceBeforeGranted ==
    JournalEnabled => \A i \in Ids :
        granted[i] <= journaled[i] /\ journaled[i] <= 1 + revived[i]

\* A transaction yields one attestation of success: "The verifier enforces
\* this with a nonce and with single-use transactions" (security-model.md).
SingleUse == \A i \in Ids : granted[i] <= 1

\* "An expired transaction can no longer be verified" (configure-storage.md):
\* no verification is accepted against a row that is past its expiry.
ExpiredNotVerified ==
    [][\A w \in Workers :
         slot[w].pc = "idle" /\ slot'[w].pc = "consume"
         => \A row \in slot'[w].tx : ~ Expired(row)]_vars

\* "The journal records every accepted verification" (verification-journal.md):
\* the QR poll does not answer "verified" more often than it wrote entries.
QrRecorded ==
    JournalEnabled => \A i \in Ids : shown[i] <= qrJournaled[i]

\* Where transaction i is in its life, seen from the table and the calls.
PhaseOf(i) ==
    CASE \A c \in created : c.id # i -> "unborn"
      [] ById(i) # {} -> "open"
      [] granted[i] > 0 -> "granted"
      [] \E w \in Workers : slot[w].pc \in {"attest", "respond"}
                            /\ i \in slot[w].id -> "consumed"
      [] OTHER -> "closed"

Phase == [i \in Ids |-> PhaseOf(i)]

Lifecycle == INSTANCE TransactionLifecycle WITH phase <- Phase

\* Over a store that updates a row under one lock, the service implements the
\* lifecycle: no order of requests, restarts and failures opens a transaction
\* again or consumes it twice.
IsLifecycle == Lifecycle!Spec

=============================================================================
