# TLA+ models of the EWQWE credential verifier

This directory holds TLA+ modules that model the EWQWE credential verifier
(`crates/`, and the parts of `typescript/` that take part in its protocols), the TLC
configurations that check them on small instances, and proofs that TLAPS checks for
every instance. `PROJECT.json` is the index: it lists the components, the runs, the source
lines behind every definition, the mutations that show each property to be sensitive to
the code, the disagreements found between code and documentation, and the hazards.

Run a configuration with `tlc -config journal.cfg MCJournal` and a proof with
`tlapm JournalProofs.tla`.

## 1. The system

A relying party asks the **credential verifier server** for a presentation of
credentials. The server creates an OpenID4VP transaction, a wallet fetches the
authorization request, posts its VP token to `direct_post`, and the relying
party, having polled the status, submits the token to
`POST /ewqwe_api/verify`. The server verifies it, consumes the transaction,
issues a signed attestation and records the verification in a journal. The
**Verifier App** embedded in the server does the same for a person at a
counter: its page shows a QR code and polls; the poll itself verifies.

| Component | State | Operations | Interaction |
|---|---|---|---|
| Verification journal (`server/src/journal`) | tables `journal_entries`, `journal_heads` (SQLite in memory or file, PostgreSQL shared by instances) | `get_head`, `append_entry`, `append_verification`, `verify_chain`, `list_entries`, `list_qrcode_app_entries` | called by the verification endpoint, by the QR poll and by the journal endpoints |
| Transaction store (`openid4vp/src/stores`) | one row per transaction: id, state, nonce, expiry, status, wallet response | `set`, `get`, `find_by_state`, `delete`, `update`, `update_by_state`, `is_expired` | called by the service only |
| OpenID4VP service (`openid4vp/src/service.rs`) | the response encryption key | `init_transaction`, `get_authorization_request`, `handle_wallet_response`, `handle_wallet_error`, `get_transaction_status`, `mark_transaction_verified`, `verify_presentation`, `consume_transaction_by_state` | called by concurrent HTTP handlers |
| Verification endpoints and QR verifier (`server/src/server`) | none | `verify_credential_endpoint`, `verify_vp_token_for_qr`, DC API endpoint | service, then attestation, then journal |
| VP token verification (`openid4vp/src/verification.rs`) and credential formats (`digital-credential`) | none | format detection, nonce, issuer, signature, validity and device authentication checks; issuance and presentation | called by `verify_presentation` |
| Attestation issuer (`server/src/attestation`) | signing key | `create_attestation` (JWT or COSE), JWKS | called after the consumption |
| DCQL, profiles, protocol types (`openid4vp/src/dcql.rs`, `config.rs`, `types.rs`) | none | building and validating queries | `init_transaction` |
| Verifier App backend (`credential-verifier-ui/src`) | table `qrcode_app_users`, session cookies, map from QR transactions to users | bootstrap, login, user administration, QR init, QR status, journal views | service, QR verifier, journal |
| Verifier App page (`credential-verifier-ui/ui/src/app`) | operator, page, QR code and poll timer, form for users, page of the journal | sign-in, navigation, start, poll every two seconds, cancel, edit, browse | HTTP to the backend |
| TypeScript client library (`typescript/`) | none | building and checking queries, checking an attestation | HTTP to the server |
| Server configuration, TLS, authentication (`server/src/parameters`, `tls`) | parameters | which authentication a configuration enables, how middlewares combine | every endpoint |
| Client library in Rust, logging, relying party demo, reverse proxy, container | none that the server depends on | - | HTTP |

### What is hard, and what makes each part correct

*Journal.* Appends of one user race on the head; the compare-and-swap is
retried a bounded number of times; a commit can succeed and report an error;
several instances share the database and not their clocks; the audit reads in
two queries. Correct means: one chain per user without forks or gaps, answers
that tell the truth about what is recorded, at most one entry per
verification, giving up only when others got through, an audit that does not
accuse an intact journal.

*Transactions.* Every statement of the SQLite store is a transaction of its
own, the endpoints consist of several, and calls are dropped when the client
hangs up. Correct means: states and ids stay unambiguous, no write mixes two
requests, what is consumed is what was verified, a transaction yields one
attestation, no attestation leaves without its journal entry, expiry and nonce
are enforced, a final status is final.

*Presentations.* A presentation is accepted by a combination of checks that differs by
format, against a transcript that the wallet and the verifier each rebuild from the same
request, with keys that change at a restart, by two endpoints of which one has no
transaction. Correct means: what is attested was signed by a trusted authority and
presented by its holder for this transaction; a wallet that does everything right is not
refused; an attestation is about the transaction and client it was asked for.

*Queries.* Two builders and two validators, in two languages, in loops over lists with
sets of what was seen. Correct means: the loops decide the rules, the validators agree
where one relies on the other, and the query asks for what was selected.

*Verifier App backend.* Check-then-act across the password hash (bootstrap),
read-modify-write of users, sessions that outlive the user's rights, an
in-memory map that does not survive a restart while transactions do, overlapping
polls. Correct means: accounts stay unambiguous, once there is one bootstrap stays
closed, rights follow the store at every request, a QR transaction is seen by its user only.

*Verifier App page.* Requests are awaited, intervals and timeouts go on, and the operator
clicks meanwhile; answers come in any order and are not compared with what the page shows by
then. Correct means: no interval outlives its QR code, what is shown belongs to what the
page is about, the form is submitted to the user it shows, and polling stops in the end.

`PROJECT.json` lists each hazard at its line with the properties that watch it. Beside those,
the code is exposed to some that are facts about one statement and not behaviours:
an audit of a journal without rows is valid whatever its head says (`postgres.rs:366`);
`POST /verify` looks the QR user up by state while the map is keyed by id
(`verify_endpoint.rs:338`); a session is only as current as the last look at the
user (`routes.rs:71`); nothing keeps the last administrator from being demoted
(`routes.rs:571`); the certificate and the key of the attestation signer are not compared
when they are loaded; the nonce of a DC API call is the caller's and not remembered;
claims of several namespaces are flattened into one map (`attestation_struct.rs:65`).

## 2. Modules

| Module | Content |
|---|---|
| `AuditLog` | abstract: one list of verifications per user, only growing, each event at most once |
| `Journal` | the journal: concurrent `append_verification` calls and `verify_chain` calls |
| `TransactionLifecycle` | abstract: a transaction is created, consumed once, granted once, or closed |
| `TransactionClaims` | abstract: the claims to an attestation, made by the creation of a transaction or by a stale write, recorded once, then granted once, or dropped |
| `OpenID4VP` | transaction store, service and the endpoints over them |
| `CredentialFormats` | operators: what an authority signs, what a wallet presents, what the verifier concludes, by format |
| `Presentation` | the life of a credential over those operators: issued, requested, presented, verified by two endpoints, attested, accepted |
| `Dcql` | how the query of a transaction is built and validated |
| `AccountRegistry` | abstract: the first account is a superadmin for ever, others come after it, removed ones do not come back |
| `VerifierApp` | accounts, sessions, administration of users and ownership of QR transactions |
| `VerifierPage` | the page of the Verifier App with its timers and requests |
| `MC...` | instances of these for TLC |
| `...Proofs` | theorems about the module of that name |

**How they fit together.** `OpenID4VP` has the statements on the table of transactions and
takes of a VP token only its format, nonce and genuineness; `Presentation` has what
decides genuineness, takes of the table one row per session, and has the statements of one verification and one
wallet answer at a time, since what it asks is about one answer. That a transaction is used once is a question to `OpenID4VP`. `Dcql` has
what `init_transaction` does with the query before the row is written. `VerifierApp` and
`OpenID4VP` meet in `qr_status`: the former has who may poll and to whom the entry
is attributed, the latter what the poll does to the transaction. `VerifierPage`
is composed with both through what they promise of a transaction: one status, that polls
read, and that wallets, the verification in a poll, and expiry change.

### Journal and the code

| Variable | Code |
|---|---|
| `entries`, `head` | the two tables of `stores/sqlite.rs` and `stores/postgres.rs` |
| `pc`, `attempt`, `seen`, `stamp` | the locals of one run of `append_verification` (`mod.rs`): where it is, `attempt`, `current_head`, `created_at` |
| `clock`, `Skew` | `Utc::now()` of each instance |
| `audit` | one call of `verify_chain`: rows read, head still to be read, verdict; `moved` is a history variable |

`GetHead`, `BuildEntry`, `Commit`, `Stale` are the steps of one iteration of the
retry loop. `Commit` is one step because the code runs it as one database
transaction under a lock (`append_lock` in SQLite, the locked head row in PostgreSQL);
`AfterCommit` says that the caller may learn of it as an error. `StorageError`
is any other failure, including the death of the request. `AuditRows` and
`AuditHead` are the two queries of `verify_chain`.

Abstractions. SHA-256 is injective: a hash stands for the text that is hashed. That text is
username, previous hash and attestation hash one after the other, without separators
(`compute_entry_hash`), and the attestation column is free text. So a row has two fields that may hold a
previous hash, `prev` and `lead`, the beginning of its attestation column, and `EntryHash` does not tell in which
of them it stands (`BoundaryIsNotHashed`). Appends leave `lead` empty; their hashes are
the sequence of all that went into the chain. Names of users of which one followed by a hash begins another are left out.
The hash of an attestation is the request, because each attestation has a fresh identifier. Metadata columns of entries are left out. The clock moves
between two appends, since a database round trip lies between them.

### OpenID4VP and the code

| Variable | Code |
|---|---|
| `table` | table `transactions`: the row, with `response` (`wallet_response`) and `refused` (`wallet_error` is set) |
| `slot` | one HTTP call per worker: which statement comes next (`pc`) and its locals |
| `now` | `Utc::now()`; the expiry of a row is `now + TTL` at its creation |
| `calls` | how many calls of each kind are still to come (a bound) |
| `created`, `revived`, `granted`, `journaled`, `shown`, `qrJournaled` | history: rows as created, re-insertions, attestations, entries, answers of the QR poll |

| Actions | Handler |
|---|---|
| `InitTransaction` | `init_transaction` (relying party and QR init) |
| `Fetch`, `Purge` | `get_authorization_request` and `get_transaction_status`; only the deletion of an expired row changes anything |
| `Post`, `Refuse`, `Write` | `direct_post`: `handle_wallet_response` and `handle_wallet_error`, which read the row and write it back |
| `Verify`, `ConsumeFind`, `ConsumeDelete`, `Attest`, `Respond` | `POST /verify`: verification, second lookup, deletion, attestation and journal, response |
| `Poll`, `PollStatus`, `PollVerify`, `PollJournal`, `Mark`, `MarkWrite` | `qr_status`: expiry, status, verification, journal, marking |
| `Abandon`, `Restart`, `Tick` | a failing statement or a dropped call, the end of the process, time |

With `Atomic = FALSE` the store is SQLite, the only one a configuration can
select (`sqlite_memory`, `sqlite_file`): an update reads, then upserts. With
`Atomic = TRUE` it is `InMemoryTransactionStore`, which the tests of the crate
use and which updates under one lock. `Persistent` tells whether rows survive a
restart.

Abstractions. A VP token is its format, its nonce if it has one, and whether it
is genuine (signatures, issuer, validity, device authentication, holder binding).
The remaining comparisons (audience, session transcript) are those of the nonce:
they bind the token to the same stored row. Request contents (DCQL, client
metadata, JAR, encryption) never change after creation and are left out.
Where the code has an optional value the model has a set with at most one element.

### CredentialFormats, Presentation and the code

| Variable | Code |
|---|---|
| `clock` | `Utc::now()` |
| `issued` | what authorities have signed: `MobileSecurityObject`s and payloads of SD-JWT VCs, as this repository's issuer builds them |
| `tx` | one transaction per session: whether it is stored, its `client_id`, and which encryption key the wallet saw in the request object |
| `posted` | the VP token stored for it |
| `responseKey`, `signingKey` | which response encryption key and which attestation certificate the process has loaded |
| `storing` | calls of `direct_post` between the reading of the row and its upsert |
| `calls` | calls of `POST /verify` whose token has verified: how far their consumption is, and the locals the attestation is made of |
| `answers` | what the two verification endpoints answered with a result: the call, the time it took, the attestation |

| Definitions | Code |
|---|---|
| `Built`, `Issue` | the builders of mDocs and SD-JWTs, and their dates |
| `InitTransaction`, `RequestObject`, `Fetch` | the profile fixes the client; the signed request object carries the key |
| `DeviceAuth`, `KeyBindingJwt`, `MdocPresentation`, `SdJwtPresentation`, `Faithful` | what a wallet of this repository builds |
| `Defective`, `AsJson`, `Presentable` | the same with one thing wrong, without signatures, and two together |
| `Decrypts`, `TwoDots`, `Post`, `StoreAnswer` | `direct_post.jwt`: decryption and the recognition of a nested JWS; `update_by_state`, which reads the row and upserts it, also after its deletion |
| `MdocIntact`, `SdJwtSigned`, `SdJwtFlags`, `JsonFlags`, `Verdict` | `verify_vp_token` and the verifiers it calls: the order of checks, which of them are errors and which are flags of a result |
| `Lookup`, `Verify`, `Find`, `Delete`, `AnswerCall`, `Fail` | `POST /ewqwe_api/verify`: a lookup whose storage error counts as no transaction, the verification, and the statements of the consumption |
| `SubjectOf`, `NonceOf`, `Attest`, `Respond` | what the attestation names, with and without a transaction |
| `VerifyDcApi` | `POST /ewqwe_api/dc_api/verify` |
| `Acceptable` | how a relying party checks an attestation against the published keys |
| `Restart` | a new response key; another certificate when the files were replaced |

Abstractions. Cryptography is symbolic: a signature is the content it was made over, a
digest is the item it was taken of, a proof names the key and the transcript. The
chain of an issuer is one leaf below one authority. `parse_vp_token` is given the format, and
of several presentations in one token an arbitrary one is verified, as the iteration over the
`HashMap` does. A call that only returns an error changes nothing and is no action. The nonce of a presentation that
was verified without its transaction is that of its Key Binding JWT. Appending to the journal is `OpenID4VP`'s.

### Dcql and the code

| Variable | Code |
|---|---|
| `haip` | whether the configuration has the keys for signed requests |
| `asked`, `profile`, `query` | the request for a transaction: who asks for what, the profile that follows, the query |
| `side`, `prechecked` | which validator runs: `isValidDCQLQuery` of the client library, then `DCQLQuery::is_valid` |
| `step`, `i`, `j`, `credIds`, `claimIds` | the place in the loops of a validator, `seen_cred_ids`, `seen_claim_ids` |

`AppAsks`, `ClientAsks` and `PartyAsks` are the ways to a query (`AppQuery`, `ClientQuery`, a
default, or one written by hand). `Start`, `CheckCredential`, `CheckClaim`,
`CheckClaimSets`, `CheckCredentialSets` are the rounds of both validators, which differ in
their alphabets and in what comes before; `Answer` ends the request. On the server two refusals come first: the body is
read into typed structures (`Unparsed`), and the keys of the profile are looked for (`Unconfigured`).

A query written by hand has in each credential query a flag `foreign`: it has a member that the types of the server
refuse and that `isValidDCQLQuery` does not look at. There are three kinds: nested `type_values` (`dcql.ts:133`,
a list of strings in `types.rs:297`), a type of trusted authorities other than the three known ones (`dcql.ts:62`,
`types.rs:172`), and negative indices in a path (`types.rs:82`).

Abstractions. Identifiers are members of three classes: those both alphabets have, those only
Rust's Unicode `is_alphanumeric` takes, and those neither takes. The grouping of
`claim_sets` and `options` makes no difference to a validator, so they are sets. The one query
id that a builder makes is `BuiltId`; labels, values, purposes are left out.

### VerifierApp and the code

| Variable | Code |
|---|---|
| `users` | table `qrcode_app_users` |
| `sessions` | the user ids in the signed cookies that browsers hold (`Identity::login`, `logout`) |
| `txs` | transactions that `generate_qr` creates, with their expiry |
| `qrMap` | `QrUserMap`: an entry per transaction, with its own expiry |
| `slot` | one HTTP call per worker: which statement comes next (`pc`) and its locals |
| `now`, `calls` | `Utc::now()`; how many calls of each kind are still to come (a bound) |
| `issued`, `born`, `started`, `journal` | history: ids given out, ids inserted, who started which transaction, who was named in the journal |

| Actions | Handler |
|---|---|
| `Bootstrap`, `Insert`, `FirstLogin` | `bootstrap`: count the users, hash, insert, log in |
| `Login`, `LoginSession`, `Logout` | `login`, `logout` |
| `CreateUser`, `Insert` | `create_user` |
| `UpdateUser`, `UpdateRead`, `UpdateWrite` | `update_user`: rights, read of the row, write of all columns |
| `DeleteUser`, `DeleteRead`, `DeleteWrite` | `delete_user`: rights, read of the row, `DELETE` |
| `GenerateQr`, `InitTransaction`, `MapInsert` | `generate_qr` |
| `QrStatus`, `PollAnswer` | `qr_status`: rights and owner; status, verification and journal |
| `Abandon`, `Restart`, `Tick` | a failing statement or a dropped call, the end of the process, time |

`CurrentUser` reads the store, as `current_user` does, at the first step of a call and
not again. Argon2 runs on another thread and takes long, so a step of another call may
come before the statement after it. `KeepUsers`, `KeepTransactions` say whether
`verifier_ui.db` and the transaction store are files, `KeepSessions` whether a
`session_secret` is set; the map of owners is always lost.

Abstractions. A body of `PUT /admin/users/{id}` is the set of values it gives per field,
empty for a field that it leaves out. Names and allowed credential types are left out: they are
written like the other columns, and a call that asks for a type it is not allowed ends
without a change. The clock moves within `InitTransaction`, since the row is written
and the QR code rendered between the two readings of the clock, which have a resolution
of nanoseconds: the entry of the map expires later than its transaction. Whether an
accepted wallet response has arrived is a free choice of `PollAnswer`.

### VerifierPage and the code

| Variable | Code |
|---|---|
| `user`, `page` | `currentUser`, `currentPage` |
| `area`, `current`, `timer` | the `qr-area` that is shown, `currentTransactionId`, `pollTimer` |
| `ticking`, `starts` | intervals and timeouts that the browser runs |
| `target`, `form`, `open` | `editingUserId`, the user whose data the form shows, whether it is shown |
| `offset`, `rows`, `more` | `journalOffset`, the page in the table, the button for the next one |
| `request` | the calls of `apiFetch` that are awaited, with their answers |
| `session`, `status` | the backend: whether it knows the cookie, the status of each transaction |
| `clicks` | how many clicks are still to come (a bound) |
| `verdict`, `late` | history: whose verdict is shown; what was replaced while its answer was under way |

A function that awaits is two actions, the part before the call and the part that
`Deliver` runs with the answer: `GenerateQR` and `GenerateAnswer`, `TimerFires` and
`PollAnswer`, `OpenEditUserModal` and `EditAnswer`, `SubmitUserModal` and `SubmitAnswer`,
`LoadJournal` and `JournalAnswer`, `DoLogout` and `LogoutAnswer`. Between them anything
else may happen. `DoLogin` is one step: a form that is submitted again before the answer is left out. A
click is possible where the page shows its button. `Answer...`, `WalletPosts`, `Expire` are
the backend, `Lose` the network.

Abstractions. The answers of the backend are those that `VerifierApp` and `OpenID4VP` allow
for the status a transaction has; the page does not distinguish the reasons of a refusal.
Settings, the deletion of users and what a filter of the journal selects are left out.

## 3. Runs

| Run | Question | Instance | States |
|---|---|---|---|
| `journal` | do concurrent appends keep one chain, tell the truth, implement `AuditLog`, and end, does an audit of a quiet journal find it valid, and which altered ones? | 3 requests of one user, 2 retries, an auditor who reads the journal of that user or of another without entries | 48 600 |
| `openid4vp_sqlite` | do keys, requests and consumptions stay apart under interleaving, failure and expiry, and is what is granted recorded before, once? | 2 ids, 2 states (one of them chosen by the relying party), 2 nonces, 2 workers | 2 939 463 |
| `openid4vp_memory` | does the service over an atomic store implement `TransactionLifecycle`, restarts included? | the same, 1 nonce, mDoc and JSON tokens | 373 287 |
| `presentation` | is a verified presentation vouched for, is an attestation bound to its transaction, and is a presentation made by the book verified? | 2 authorities of which 1 is trusted, 2 holder keys, 4 kinds of credentials, 2 sessions, 2 clients (one encrypting), 1 restart, rows that survive it, 1 answer | 648 250 |
| `dcql` | do the loops of the validators decide the rules, do the validators agree, is the selection asked for? | 6 selections, 50 queries of a relying party, all types and profiles | 18 465 |
| `verifier_app` | do accounts and ownership of QR transactions stand overlapping calls, clock and restarts? | 2 ids, 2 emails, 2 workers, 2 bootstraps, 2 updates and one call of each other kind | 850 678 |
| `page` | does what the page shows belong to what it is about, and does polling end? | 2 transactions, 2 users, 3 clicks, 2 requests under way, an administrator and a verifier with one type | 654 946 |
| `single_use` | is a transaction consumed once over SQLite? No. | no failures | - |
| `expired` | is an expired transaction refused? No. | clock 0..1, TTL 0 | - |
| `qr_recorded` | is every QR verification recorded? No, not when the journal fails. | failures | - |
| `lost_update` | does a change of an account leave alone what it does not name? No. | as `verifier_app` | - |
| `disclosures` | does a verified SD-JWT attest only what was signed? No. | as `presentation` | - |

The runs that end in a counterexample each check one sentence of the
documentation or of a comment; section 6 tells what they show.

**Why the bounds are enough.** `MaxCasRetries = 2` with three requests of one user
makes a request lose, retry and give up; losing a third time adds nothing, as the
proofs confirm for every value, as they do for requests of several users and for several
instances. In every state `AlterationsFound` tries every loss that leaves an entry, every insertion, with or
without the loss of another entry, every change of one entry, over all hashes that occur, and every loss together with a
shift of the columns of an entry that is left; `TamperEvident` is about all sets of rows. In `OpenID4VP` two workers are what an overtaking needs:
one holds what it read, the other changes it. Two transactions and a state that may
be reused let a state name first one and then the other. Two calls of `verify`, and
one each of the calls that write rows, are enough for a read before a
deletion, the deletion, the write after it and a second consumption. `TTL = 0` with
`MaxTime = 1` makes rows expire between any two steps.

In `Presentation` every defect is applied to every kind of credential, so each check of each
format is the only one that fails somewhere. One answer is enough, since every property is about one answer and the state, and the wallet's
answer, stored again after the deletion of its row, and a restart may come between any two statements of the call that gives it
(`MaxStoring`, `MaxCalls`: one of each at a time; calls that race for a row are in `OpenID4VP`). Two sessions of clients of different profiles let an answer be posted
for one and named for the other, encrypted or not; one restart comes before or after the request, the
answer and the attestation, with and without a new certificate. `MaxFetched = 1` and
`MaxIssued = 1` keep one wallet with one credential: credentials and wallets do not meet anywhere but in the
order of `answers`. `Lifetime = AttestationLife = 0` with `MaxTime = 1` lets a
credential and an attestation expire before any later step.

In `Dcql` the written queries have up to two credential queries and two claims, so that an
identifier can be repeated within a list and across lists, and each rule can be
the only one broken. In `VerifierApp` two bootstraps and a creation give out more ids than
there are, so that two accounts, in every order of creation, meet every other call; two
changes, which may overlap, deactivate or promote, so that each field that decides about rights is
written; `TTL = 1` with `MaxTime = 2` lets entries and transactions expire before,
between and after the steps of a poll. One QR code is enough for its ownership, since
entries of the map meet only in the pruning, which the proofs cover for any number.
In `VerifierPage` three clicks start a code, replace or leave it, and act
once more; two requests under way are what it takes for one to overtake the other.
Symmetry is used in the runs without a liveness property, on ids, emails,
workers and sessions, where nothing distinguishes them. The proofs hold without the bounds.

**Deadlock.** Runs of a finite number of calls, clicks or answers end; their configurations
say so with `CHECK_DEADLOCK FALSE`. `dcql` has no such bound and checks for deadlock:
every request for a transaction is decided.

**Fairness.** `FairSpec` of `Journal` has weak fairness for the append steps of each request:
the asynchronous runtime polls every task that can go on, and each of its
awaits is a database statement that returns. Nothing is assumed of storage errors, and
nobody has to ask for an audit. `FairSpec` of `VerifierPage` says that intervals fire
while the browser runs the page, that requests are answered or fail, that
answers are handled, and that the clock of the backend moves on. The operator need not click, a
wallet need not answer, a timeout may be late for ever, and any poll may get lost
(which ends the polling, since the page takes an exception for a failure). The other modules
have no liveness property: calls may be dropped at any point and no client is obliged to call.

**Mutants.** Each property of a passing run has an operator marked `MUTANT` in the module:
a plausible mistake in the code (no comparison of heads, retry after a commit error, a
deletion whose answer is ignored, an upsert on the wrong column, a digest that is
looked up and not compared, a set of seen ids that is not reset, an interval that is not
cleared, ...) under which TLC finds the property violated.

**The words "unless late".** Four properties of the page except what was overtaken: `late` records that
something was replaced while its answer was under way. Without the exception they
are false, and the code does nothing to make them true; with it they say that nothing
else can go wrong, whatever the order. Two more names end in an exception of that kind:
`SingleUseUnlessRevived` (a row that came back after its deletion) and
`FaithfulVerifiesUnlessRekeyed` (the key the wallet encrypted to is gone).

## 4. Theorems

All of these hold for every number of users, requests, instances, auditors,
transactions, workers, tokens, authorities, sessions, credentials, queries and clicks.

`JournalProofs`

| Theorem | Statement | Assumption |
|---|---|---|
| `TypeCorrect` | `Spec => []TypeOK` | |
| `ChainCorrect` | `Spec => []OneChain` | |
| `AnswersCorrect` | `Spec => []AnswerMatchesRecord` | |
| `RetriesCorrect` | `Spec => []RetriesArePaidFor` | |
| `TimeCorrect` | `Spec => []TimeFollowsChain` | `OneClock`: all skews are equal |
| `AuditCorrect` | `Spec => []QuietAuditValid` | `OneClock` |
| `AlterationsCorrect` | `Spec => []AlterationsFound` | |
| `TamperEvident` | in every state, a finite set of rows but the empty one that the walk of `verify_chain` accepts, in any order of time, says nothing that was not recorded, and says all of it when every attestation column is as it was written | |
| `ImplementsAuditLog` | `Spec => Log!Spec` | |
| `RetriesEnd` | `Remaining(r)`, what is left to do for a request, is at most `3 * MaxCasRetries`, zero only when it is answered, and every step of the request makes it smaller | |
| `IndexNeverRefuses` | a request about to append never meets its own hash in the table | |

`OneChain` is not inductive: that a commit does not fork the chain needs to know where the
entries lie on it. `IndInv` says this in terms of hashes as sequences: every entry's hash
is a beginning of the head of its user (`OnTheChain`), there is an entry for every length
up to that of the head (`NoGaps`, `Counted`), and hashes and attestations are unique
(`UniqueHashes`, `OneEntryEach`). The compare-and-swap extends that sequence by one;
`OneChain` and the refinement of `AuditLog` follow. For the answers, `IndInv` keeps
for each request whether it is recorded already (`RecordedWhenDone`, `OkIsRecorded`); for
the retries, that the head a request has read begins the present head, so that finding
another head means that an entry of somebody else was added. `TimeInv` adds what relates
the stamps of built and recorded entries to the one clock.

For `AuditCorrect`, `TimeInv` says that in the order of the stamps the lengths grow
(`TimesGrow`), and `AuditsInv` that an audit between its queries has seen the rows of the
head it is about to read, unless that head moved. Growing lengths out of `1..n`, `n` of
them, are `1..n`: the sorted rows are the links of the chain in their order, and the
walk over them succeeds. This is shown by counting: an injection of `1..k` into the lengths up
to the `k`-th.

`TamperEvident` is about rows that no append wrote, with digests of any form in them (`Row`). A walk that finds every
link and every hash right goes, if it ends at the head, through the beginnings of the head, the longest last
(`WalkEndsAtHead`, from the last row backwards), because a digest that is a chain hash was computed from a
single chain hash, whichever column that stood in (`ChainHashFromOne`). So each row has the hash of an entry that was recorded,
and with it the attestation hash and the hash before it. Only the first row has no predecessor; if nothing stands in its attestation
column before the attestation hash, its hash has length one, and no entry is missing. If something does, the walk has
begun later in the chain: the oldest entries are gone. The steps along the walk are inductions. `Climb` makes them from the least
counterexample, which `WellFoundedInduction` gives as a statement about sets; the usual
theorems take a predicate, which none of the provers instantiates. The property holds in every
state, so an append after an alteration does not mend it: the new link continues the recorded head.
The walk is not promised to find the loss of all rows, that of the oldest rows behind a shifted boundary, a change of columns that are not hashed, or
a forger who can also write the head (sections 5 and 6).

`RetriesEnd` and `IndexNeverRefuses` are what `Answered` rests on: a request that is not answered
has a step to take, and no more than finitely many. What stays with TLC is the last inference, from the
fairness of these steps to the answer.

`TransactionClaimsProofs` and `OpenID4VPProofs`

| Theorem | Statement | Assumption |
|---|---|---|
| `TypeCorrect` | `Spec => []TypeOK` | |
| `KeysCorrect` | `Spec => []KeysUnique` | |
| `RequestDataCorrect` | `Spec => []RequestDataKept` | |
| `CheckedCorrect` | `Spec => []CheckedAgainstOwn` | |
| `RecordedOnceBeforeGrantedCorrect` | `Spec => []RecordedOnceBeforeGranted` | |
| `QrRecordedWithoutFailures` | `Spec => []QrRecorded` | `~ Failures` |
| `SingleUseUnlessRevivedCorrect` | `Spec => []SingleUseUnlessRevived` | |
| `LedgerCorrect` | `Spec => Ledger!Spec`, the module `TransactionClaims` | |
| `ClaimsAreAccounted` | `Spec => []Accounted`, of `TransactionClaims` | |
| `SingleUseCorrect` | `Spec => []SingleUse` | `Atomic` |
| `LifecycleCorrect` | `Spec => Lifecycle!Spec` | `Atomic` |

`CallsInv` is the invariant behind the first group: ids and generated states are
created once (`CreatedOnce`), every row keeps what it was created with
(`RowsKept`), and what a call holds in its locals is such a row, found under the
state the call asked for (`SlotsCoherent`). The last part is what makes stale rows
harmless: they can bring back an old status, never the data of another
request. `LedgerCorrect` counts the claims on a transaction: the row itself, and the calls that removed
it and are about to record (`Recorders`); and, of the claims on record, the calls about to respond (`Responders`). `StepsAreQuiet` shows
which kinds of steps touch them. Over any store these are the steps of `TransactionClaims`: the creation makes a claim, the
entry in the journal turns it into a record, the response grants it, a stale write that inserts a deleted row makes another claim, and
the `DELETE`, which passes the claim of the row to the call, is a stutter; a failure and a restart may only drop claims.
`SingleUseUnlessRevivedCorrect` and `RecordedOnceBeforeGrantedCorrect` are what `TransactionClaimsProofs` proves of that ledger
(`ClaimsAreAccounted`: what is recorded and may still be recorded is at most one more than the number of
re-insertions, and what was granted and may still be granted is at most what was recorded), read through the refinement. They are
no guard of one step: that an attestation has its entry, and only one, depends on the answer of the `DELETE`, on what a failure
leaves behind, and on the order of the entry and the response. `QrRecorded` is violated only because an error of the journal is dropped:
without failures, `ShownPaidFor` gives each answer "verified", given or on its way, an entry of its
own, however many polls of one transaction overlap. `ClaimsInv` is the invariant for atomic stores: without an interrupted
update no row is inserted again (`NothingReinserted`), the rows present are not
granted (`RowsUnused`), and at most one call is between the deletion of a row and its
attestation (`AttestersAlone`), which the answer of the `DELETE` guarantees. The
refinement maps a transaction to a phase that it reads off the table, the calls and
the count of attestations.

`PresentationProofs`

| Theorem | Statement |
|---|---|
| `TypeCorrect` | `Spec => []TypeOK` |
| `MdocIsVouchedFor` | `Spec => []MdocVouchedFor` |
| `SdJwtIsVouchedFor` | `Spec => []SdJwtVouchedFor` |
| `AttestationIsBound` | `Spec => []AttestationBound` |
| `FaithfulIsVerified` | `Spec => []FaithfulVerifiesUnlessRekeyed` |

The properties speak of answers that were given long ago, and hold of them because
each answer keeps what the checks had established when its call verified. `Inv` says so of the calls that are under way
(`Established`, with `MdocEstablished` and `SdJwtEstablished`; `Paid`: a call past the second lookup has seen a row of its
state) and of the answers (`Recorded`), adds what holds of an answer between the reading and the upsert of its row (`Underway`), and what makes a signature
count: wallets have no issuer signature that no authority made (`Genuine`). That the verification
establishes what the answer says, whether or not the lookup has failed, is the heart of the proof (`VerifyEstablishes`), one lemma per format and
endpoint; that nothing which comes before the answer, a row that is written back or deleted included, takes it away is `EstablishedKept`. What is proved
of SD-JWTs is what the code establishes, and no more: a Key Binding JWT without a nonce, and a lookup that failed, leave
the proof unbound. `FaithfulIsVerified` is the converse and evaluates the same checks forward
on what a wallet builds.

`DcqlProofs`

| Theorem | Statement |
|---|---|
| `TypeCorrect` | `Spec => []TypeOK` |
| `VerdictIsCorrect` | `Spec => []VerdictIsWellFormedness` |
| `PrecheckedIsAccepted` | `Spec => []PrecheckedIsServed` |
| `SelectionIsCorrect` | `Spec => []SelectionIsAsked` |

`Inv` has the invariants of the two nested loops: before round `i` the credential queries before
it are well-formed and `credIds` are exactly their distinct ids (`AtCredential`); before round
`j` the same of the claims before it (`AtClaim`). When a loop ends they are the rules;
when a round refuses, the item it looks at breaks one. A query that the client has passed is well-formed in
the smaller alphabet, hence in the larger, so only the two refusals before the rounds are left. What the builders
make is always read (`BuiltIsTyped`).

`VerifierAppProofs`

| Theorem | Statement | Assumption |
|---|---|---|
| `TypeCorrect` | `Spec => []TypeOK` | |
| `AccountsCorrect` | `Spec => []AccountsUnique` | |
| `ImplementsRegistry` | `Spec => Registry!Spec` | `KeepUsers` |
| `OwnersUntilRestart` | `Spec => [](MapIntact => PolledByOwner)` | |
| `AttributionUntilRestart` | `Spec => [](MapIntact => AttributedToStarter)` | |
| `OwnersCorrect` | `Spec => []PolledByOwner` | `~ KeepTransactions` |
| `AttributionCorrect` | `Spec => []AttributedToStarter` | `~ KeepTransactions` |

`AccountsInv`: an id is inserted once (`BornOnce`: a call about to insert holds an id
that no row and no other call has), and a row about to be written back agrees with the
present row in all that identifies the account (`UpdatesKeepIdentity`). `SuperadminStays` says that a call past the check of
`delete_user` does not aim at a superadmin: an update cannot have made one since.
`OwnersInv` relates map, transactions and calls: a transaction that was answered and is
alive has an entry that outlives it (`EntriesStarted`), which holds because a call about to
insert into the map does so later than it created the transaction (`MapsFresh`); a poll
that found no entry polls nothing alive (`PollsChecked`). The assumptions are needed: users in
memory are gone after a restart and bootstrap opens again; transactions in a file
outlive the map. The two theorems without the assumption say that this is all: `MapIntact` holds until the
first restart over a store that keeps its transactions, and as long as it does, ownership stands.

`VerifierPageProofs`

| Theorem | Statement |
|---|---|
| `TypeCorrect` | `Spec => []TypeOK` |
| `CodesArePolled` | `Spec => []CodeIsPolled` |
| `VerdictIsCurrent` | `Spec => []VerdictIsCurrentUnlessLate` |
| `FormIsTarget` | `Spec => []FormIsTargetUnlessLate` |
| `RowsAreCurrent` | `Spec => []RowsAreCurrentUnlessLate` |
| `NoPollingElsewhere` | `Spec => []NoPollingElsewhereUnlessLate` |
| `PollingIsBounded` | `Spec => [](CodesLeft \in 0 .. (Clicks + 1)) /\ [][Progress]_vars` |

`Inv` relates what the page shows to what it has asked for: every request under way is about
what the page is about now, or `late` says that it was overtaken (`Sound`). With it, an
answer that arrives is about the right thing. `Screen` ties intervals, timer and current
transaction together, `Elsewhere` counts a code that is still on its way among the things
left behind, and `Known` says that only transactions of the backend are polled.

`PollingIsBounded` is what `PollingEnds` rests on. `CodesLeft` counts what a new QR code can still come from: a
click, a timeout, a request under way. No step makes it more, and a step that starts an interval makes it less. A
transaction that is over stays over (`Over`), a poll of it and a lost poll get an answer that ends the
polling, and such an answer is kept until it has ended it (`PollsEnd`). What stays with TLC is that polls are sent,
answered and delivered.

The strengthened invariants were checked by TLC as invariants before they were
proved.

**Model-checked only.** `Answered` and `PollingEnds` (liveness is out of the prover's reach, as is
`ENABLED`; their variants are proved), and the counterexamples. Two theorems confine these:
`QrRecordedWithoutFailures` and `SingleUseCorrect` name the one circumstance without which there is none.
What a recursive definition computes is out of reach too, and no module declares one: the walk of `verify_chain` is
a statement about every place of a sequence.

## 5. What is not modelled

- *Encodings and algorithms.* CBOR, JOSE, COSE, certificates, HTTP and the wording of answers. Chains of
  more than one CA, and `pki.rs`, which also makes certificates for tests.
- *Settings and allowed types* of the Verifier App: independent keys, and a filter on single calls.
- *Page:* the settings page, deleting users, translations.
- *Configuration, TLS and authentication:* read once at startup; a filter of single requests
  without a state of its own. What is left is a table of cases.
- *Journal endpoints* answer with what `list_entries` and `verify_chain` return.
- *Rust client library, logging, demo, reverse proxy, container:* no state of interest.
- *Damaged journals* are modelled as rows that an audit finds in place of those recorded, over a head that is
  right. A wrong head, alone or with matching rows, and an audit that itself reads while rows are altered are not.
- *Several presentations in one token:* the code verifies one of them and does not compare it with
  the query; nothing in the repository says what should happen.
- In `Dcql`, `convert_presentation_definition_to_dcql` has no caller in the server, and the
  branch for `national-id-sd-jwt` in `dcql.rs` cannot be reached, since the configuration of
  the backend does not know that type.

## 6. Disagreements between code and documentation

With a run that shows them:

- **A consumed transaction can come back** (`single_use`). `update_by_state` of the SQLite store
  writes what it read with an upsert, also when the row has been deleted in between.
  `SingleUseUnlessRevivedCorrect` proves that nothing else breaks single use; over an
  atomic store `SingleUseCorrect` proves `SingleUse`.
- **Expired transactions can be verified** (`expired`). Only polling removes them.
- **A QR verification may go unrecorded** (`qr_recorded`). A failed append is only logged;
  `QrRecordedWithoutFailures` proves that this is the only cause.
- **An update of an account can undo another** (`lost_update`). `update_user` writes what a request does not name as it
  was read before (`stores/sqlite.rs:277`), against "`None` fields mean "no change"" (`models.rs:127`): a deactivation is undone by a change
  of the role that was under way.
- **An SD-JWT attests disclosures that nobody signed** (`disclosures`). The decoder inserts
  every disclosure, and no digest is recomputed. `SdJwtVouchedFor` says what is left:
  type, clear claims, expiry, the holder when there is a Key Binding JWT, and the transaction when that JWT has a nonce.

Seen while modelling; the models have the behaviour, or leave it out as said:

- An audit can accuse an intact journal: rows and head are two queries (`sqlite.rs:464`), and an
  append in between makes the answer `valid: false` (`verification-journal.md:147`).
  `AuditCorrect` proves that this is the only cause with one clock.
- Any change of an entry is said to break the chain (`verification-journal.md:10`, `configure-storage.md:47`). It does not:
  what is hashed is previous hash and attestation column without a separator (`mod.rs:356`), so the oldest entries may be dropped
  when the previous hash of the first that is left is moved in front of its attestation hash. `verify_chain` then answers `valid`, with
  fewer `entries_verified`. `TamperEvident`, with its lemma `WalkEndsAtHead`, proves that, of the columns that are hashed, this is the only alteration that
  passes, as long as one entry is left. `doc_type`, `summary`, `created_at`, `client_id` and others are not hashed, and a journal that has lost all
  its rows is answered `valid`.
- A failed verification is attested as well, by both endpoints, with `verified` set and the presented claims
  (`verify_endpoint.rs:279`, `dc_api_endpoint.rs:164`, `attestation_struct.rs:108`), against the comments at `verify_endpoint.rs:384` and
  `attestation_struct.rs:17` and `verification-process.md:104`. The `success` of the answer around it is right. `Respond` in `Presentation`
  does so; the properties are about successes.
- A Key Binding JWT without a nonce is accepted for any transaction (`verification.rs:243`, `sd_jwt_verification.rs:165`), against
  "A presentation is valid for the request that created it and for no other request" (`security-model.md:81`). `SdJwtVouchedFor` makes the exception.
- A storage error of the lookup by state counts as no transaction (`service.rs:761`): nonce and client are not compared, the attestation has a fresh
  subject and the client of the call, and the transaction is consumed all the same. `SdJwtVouchedFor` and `AttestationBound` say what is left.
- An mDoc can be verified twice when a stale write brings its transaction back (the finding `single_use`), against
  `verification-process.md:77`.
- What the client's validator accepts, the server's typed deserialization may refuse (section 2, `Dcql`).
- Instances that share a PostgreSQL database stamp entries with their own clocks, and `verify_chain`
  sorts by the stamps (`postgres.rs:359`); `TimeCorrect` therefore assumes one clock.
- `verified` is not final: wallet posts and errors overwrite it (`service.rs:571`, against the
  comment at `:679`). `TransactionLifecycle` allows it.
- Bootstrap can succeed twice when two calls count no users before either inserts (`routes.rs:89`,
  against `:81`). `ImplementsRegistry` shows that it stays closed for calls that begin later.
- A decrypted answer with exactly two dots is taken for a nested JWS (`crypto.rs:640`): an SD-JWT
  without a Key Binding JWT in an encrypted answer is refused (`TwoDots`).
- The comment on identifiers says `[A-Za-z0-9_-]`, `is_alphanumeric` is Unicode (`types.rs:369`).
- The client library and the server give the proof-of-age document type different names in
  one place (`eu.europa.ec.av.1.mdoc` and `eu.europa.ec.av.1`).
- A request without a credential type has the default query of proof-of-age and the profile of the others.

## 7. Plan

The journal, the service with its endpoints, the formats, the queries, and the Verifier App with its page
are modelled, checked and proved. What would add to this, in this order:

1. *Relying party flow*: init, poll and verify of the demo, composed with `TransactionLifecycle`
   in place of the service.
2. *Chains of issuers* with intermediate CAs, and several presentations per token once it is
   settled which of them count.
3. *Authentication and parameters*: which combination of TLS client certificates, tokens and
   sessions a configuration accepts.
4. *Proofs*: what `AuditLog`, `TransactionLifecycle` and `AccountRegistry` promise, proved of the
   abstract modules and read through the refinements, as with `TransactionClaims`; a bound on the rounds of
   the validators in `Dcql`.
