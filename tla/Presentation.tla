--------------------------- MODULE Presentation ---------------------------
(***************************************************************************)
(* The life of a credential: an authority issues it, a wallet answers an   *)
(* authorization request with part of it, the verifier checks the answer   *)
(* (POST /ewqwe_api/verify) and signs an attestation, and the relying      *)
(* party checks the attestation against the published keys.                *)
(*                                                                         *)
(* The store of the transactions is reduced to one row per session, whose  *)
(* races OpenID4VP follows further. What this module adds is the content:  *)
(* which presentations verify, under which keys and at which time. A call  *)
(* goes through its statements one by one (lookup and verification, find,  *)
(* delete, answer), and so does the storing of a wallet's answer (read,    *)
(* upsert). A call that only returns an error changes nothing.             *)
(***************************************************************************)
EXTENDS CredentialFormats

CONSTANTS
    Catalogue,        \* what the authorities issue, before it is dated
    Lifetime,         \* of a credential
    AttestationLife,  \* DEFAULT_VALIDITY_SECONDS
    Durable,          \* whether the transaction store survives a restart
    MaxTime, MaxIssued, MaxFetched, MaxStoring, MaxCalls, MaxAnswers,
    MaxRestarts       \* bounds

ASSUME PresentationAssumption ==
    /\ Catalogue \subseteq
         [format : {"mdoc", "sdjwt"}, authority : Authorities,
          docType : DocTypes, clear : SUBSET Item, hidden : SUBSET Item,
          device : Devices \cup {NONE}]
    /\ \A t \in Catalogue : t.format = "mdoc" =>
         t.clear = {} /\ t.device # NONE
    /\ {Lifetime, AttestationLife, MaxTime, MaxRestarts} \subseteq Nat
    /\ Durable \in BOOLEAN

VARIABLES
    clock,
    issued,       \* credentials the authorities have signed
    tx,           \* the transaction of each session
    posted,       \* the VP token stored for each session, {} before it comes
    responseKey,  \* which response encryption key the service has
    signingKey,   \* which attestation certificate the service has
    storing,      \* answers whose row is read and not yet written back
    calls,        \* calls of POST /verify whose token has verified
    answers       \* what the two endpoints have answered with a result

vars == <<clock, issued, tx, posted, responseKey, signingKey, storing, calls,
          answers>>

Transaction ==
    [status : {"none", "open", "used", "lost"}, client : Clients \cup {NONE},
     seen : Nat \cup {NONE}]

Attestation ==
    [sub : Sessions \cup {NONE}, aud : Clients, nonce : Sessions \cup {NONE},
     docType : DocTypes, claims : SUBSET Item, verified : BOOLEAN,
     exp : Nat, key : Nat]

\* The token a wallet has sent for a session.
Storing == [session : Sessions, token : SUBSET Presentation]

(***************************************************************************)
(* A call whose presentation was verified at a time: the state that it     *)
(* names, what its attestation will name (sub is the transaction that was  *)
(* found, NONE stands for a fresh id), and how far its consumption is.     *)
(***************************************************************************)
Call ==
    [step : {"verified", "found", "consumed"}, presentation : Presentation,
     session : Sessions \cup {NONE}, at : Nat, sub : Sessions \cup {NONE},
     aud : Clients, nonce : Sessions \cup {NONE}]

\* took is the time from the verification to the attestation.
Answer == [success : BOOLEAN, call : Call, took : Nat, attestation : Attestation]

Init ==
    /\ clock = 0
    /\ issued = {}
    /\ tx = [s \in Sessions |-> [status |-> "none", client |-> NONE, seen |-> NONE]]
    /\ posted = [s \in Sessions |-> {}]
    /\ responseKey = 0 /\ signingKey = 0
    /\ storing = {} /\ calls = {} /\ answers = {}

----------------------------------------------------------------------------
\* MUTANT: a credential without an end of its validity.
IssueUndated(template) ==
    /\ Cardinality(issued) < MaxIssued
    /\ issued' = issued \cup {[Built(template, clock, Lifetime) EXCEPT !.until = NONE]}
    /\ UNCHANGED <<clock, tx, posted, responseKey, signingKey, storing, calls, answers>>

\* A credential is built for a holder key and signed by an authority.
Issue(template) ==
    /\ Cardinality(issued) < MaxIssued
    /\ issued' = issued \cup {Built(template, clock, Lifetime)}
    /\ UNCHANGED <<clock, tx, posted, responseKey, signingKey, storing, calls, answers>>

\* A relying party opens a transaction in a profile, which fixes the client_id.
InitTransaction(s, c) ==
    /\ tx[s].status = "none"
    /\ tx' = [tx EXCEPT ![s] = [status |-> "open", client |-> c, seen |-> NONE]]
    /\ UNCHANGED <<clock, issued, posted, responseKey, signingKey, storing, calls,
                   answers>>

\* HAIP answers are encrypted (direct_post.jwt), those of Annex A are not.
Encrypted(s) == tx[s].client \in HaipClients

\* The request object that is signed for the wallet names the encryption key of
\* the service in its client_metadata.
RequestObject(s) == [tx[s] EXCEPT !.seen = responseKey]

\* The wallet fetches the request. Bounds: MaxFetched sessions have a wallet,
\* and the wallet fetches before it answers.
Fetch(s) ==
    /\ tx[s].status = "open" /\ posted[s] = {}
    /\ Cardinality({r \in Sessions \ {s} : tx[r].seen # NONE}) < MaxFetched
    /\ tx' = [tx EXCEPT ![s] = RequestObject(s)]
    /\ UNCHANGED <<clock, issued, posted, responseKey, signingKey, storing, calls,
                   answers>>

----------------------------------------------------------------------------
\* The device signs the session transcript as the wallet saw the request.
DeviceAuth(c, s) ==
    [kind |-> "signature", device |-> c.device,
     over |-> Transcript(tx[s].client, s, "direct_post", Encrypted(s), tx[s].seen)]

\* A Key Binding JWT names the nonce and the audience.
KeyBindingJwt(c, s) ==
    [kind |-> "signature", device |-> c.device,
     over |-> Transcript(tx[s].client, s, "direct_post", FALSE, NONE)]

\* What a wallet builds of an mDoc: the disclosed items, the issuer's signature
\* and chain, and a proof.
MdocPresentation(c, items, proof) ==
    [format |-> "mdoc", docType |-> c.docType, content |-> c,
     signedOver |-> c, disclosed |-> items, chain |-> TRUE, proof |-> proof]

\* What it builds of an SD-JWT, with or without a Key Binding JWT.
SdJwtPresentation(c, items, bound, s) ==
    [format |-> "sdjwt", docType |-> c.docType, content |-> c,
     signedOver |-> c, disclosed |-> items, chain |-> TRUE,
     proof |-> IF bound THEN KeyBindingJwt(c, s) ELSE NONE]

IsFaithful(p, s) ==
    /\ p.content \in issued
    /\ p.disclosed \subseteq p.content.hidden
    /\ IF p.content.format = "mdoc"
       THEN p = MdocPresentation(p.content, p.disclosed, DeviceAuth(p.content, s))
       ELSE \E bound \in BOOLEAN :
            /\ bound => p.content.device # NONE
            /\ p = SdJwtPresentation(p.content, p.disclosed, bound, s)

\* The faithful presentations of one credential.
FaithfulOf(c, s) ==
    IF c.format = "mdoc"
    THEN {MdocPresentation(c, items, DeviceAuth(c, s)) : items \in SUBSET c.hidden}
    ELSE {SdJwtPresentation(c, items, bound, s) : items \in SUBSET c.hidden,
            bound \in {b \in BOOLEAN : b => c.device # NONE}}

Faithful(s) == UNION {FaithfulOf(c, s) : c \in issued}

\* One thing wrong with a presentation: a value the authority did not sign, an
\* extended validity, another doctype, no chain, or a proof that is missing, a
\* MAC, made with another key, for another session or another endpoint. A Key
\* Binding JWT may also name no nonce.
Defective(p) ==
    {[p EXCEPT !.disclosed = {[i EXCEPT !.value = v] : i \in @}] : v \in Values}
    \cup {[p EXCEPT !.content.until = @ + 1], [p EXCEPT !.chain = FALSE]}
    \cup {[p EXCEPT !.docType = d] : d \in DocTypes}
    \cup (IF p.proof = NONE THEN {}
          ELSE {[p EXCEPT !.proof = NONE]}
               \cup {[p EXCEPT !.proof.device = d] : d \in Devices}
               \cup {[p EXCEPT !.proof.over.nonce = n] : n \in Sessions}
               \cup {[p EXCEPT !.proof.over.uri = "client_id"]}
               \cup (IF p.format = "mdoc"
                       THEN {[p EXCEPT !.proof.kind = "mac"]}
                       ELSE {[p EXCEPT !.proof.over.nonce = NONE]}))

\* A presentation in plain JSON, with no signature of any kind.
AsJson(p) == [p EXCEPT !.format = "json", !.signedOver = NONE, !.proof = NONE]

Presentable(s) ==
    LET all == {p \in Faithful(s) : p.disclosed = p.content.hidden} IN
        {{p} : p \in Faithful(s)}
        \cup {{p} : p \in UNION {Defective(q) : q \in all}}
        \cup {{AsJson(p)} : p \in all}
        \cup {{p, q} : p, q \in all}

----------------------------------------------------------------------------
\* The text of a decrypted answer is taken for a nested JWS when it has exactly
\* two dots: the issuer JWT of a single SD-JWT without a Key Binding JWT.
TwoDots(token) ==
    /\ Cardinality({p \in token : p.format = "sdjwt"}) = 1
    /\ \A p \in token : p.format = "sdjwt" => p.proof = NONE

\* The content encryption key comes out the same on both sides.
SharedSecret(s) == tx[s].seen = responseKey

Decrypts(s, token, nested) ==
    Encrypted(s) => SharedSecret(s) /\ (nested \/ ~ TwoDots(token))

\* What a wallet may send for a session. One that has answered sends the same
\* again (a bound: OpenID4VP models another answer).
Sendable(s) == IF posted[s] = {} THEN Presentable(s) ELSE {posted[s]}

\* The wallet posts its answer, encrypted when the request asks for it, and
\* update_by_state reads the row of its state.
Post(s) ==
    /\ Cardinality(storing) < MaxStoring
    /\ tx[s].status = "open" /\ tx[s].seen # NONE
    /\ \E token \in Sendable(s), nested \in BOOLEAN :
         /\ Decrypts(s, token, nested)
         /\ storing' = storing \cup {[session |-> s, token |-> token]}
    /\ UNCHANGED <<clock, issued, tx, posted, responseKey, signingKey, calls,
                   answers>>

\* The row is written back with the answer. SQLite upserts it, also when it was
\* deleted meanwhile; in memory read and write are under one lock.
StoreAnswer(u) ==
    /\ u \in storing
    /\ Durable \/ tx[u.session].status = "open"
    /\ storing' = storing \ {u}
    /\ posted' = [posted EXCEPT ![u.session] = u.token]
    /\ tx' = [tx EXCEPT ![u.session].status = "open"]
    /\ UNCHANGED <<clock, issued, responseKey, signingKey, calls, answers>>

----------------------------------------------------------------------------
\* A transaction that belongs to the state of the call is stored.
Found(s) == s # NONE /\ tx[s].status = "open"

\* MUTANT: the transcript is rebuilt without the thumbprint of the key.
StoredWithoutKey(s) ==
    IF ~ Found(s) THEN NONE
    ELSE [client |-> tx[s].client, nonce |-> s, encrypted |-> FALSE]

\* That transaction, as the verification uses it.
Stored(s) ==
    IF ~ Found(s) THEN NONE
    ELSE [client |-> tx[s].client, nonce |-> s, encrypted |-> Encrypted(s)]

\* The end of an attestation's life.
Expiry == clock + AttestationLife

\* create_attestation: the verified flag is always set, and the claims of the
\* presentation are always embedded.
Attest(sub, aud, nonce, p, claims) ==
    [sub |-> sub, aud |-> aud, nonce |-> nonce, docType |-> TypeOf(p),
     claims |-> claims, verified |-> TRUE, exp |-> Expiry, key |-> signingKey]

\* The result is answered with an attestation. The portrait is converted when
\* that works.
Respond(success, v) ==
    \E claims \in {Claims(v.presentation), AsJpeg(Claims(v.presentation))} :
      answers' = answers \cup
        {[success |-> success, call |-> v, took |-> clock - v.at,
          attestation |-> Attest(v.sub, v.aud, v.nonce, v.presentation, claims)]}

\* MUTANT: the attestation names the state of the call, found or not.
SubjectIsState(s, t) == s

\* The subject of the attestation: the transaction that was found.
SubjectOf(s, t) == IF t = NONE THEN NONE ELSE s

\* The nonce that the attestation names: the transaction's, if there is one.
NonceOf(p, t) ==
    IF t # NONE THEN t.nonce
    ELSE IF p.format = "sdjwt" /\ p.proof # NONE THEN p.proof.over.nonce
    ELSE NONE

\* What the lookup of a state may return: an error of the database is taken for
\* no transaction.
Lookup(s) == {Stored(s)} \cup (IF Durable THEN {NONE} ELSE {})

\* POST /verify with the answer stored for a session, and the state and the
\* client_id of the call: the lookup, the verification, and the answer when the
\* result is not valid. Of a token with several presentations one is verified,
\* whichever the HashMap yields first.
Verify(source, s, c) ==
    /\ Cardinality(calls) < MaxCalls
    /\ Cardinality(answers) < MaxAnswers
    /\ \E p \in posted[source], t \in Lookup(s) :
      LET verdict == Verdict(p, t, c, responseKey, clock)
          call == [step |-> IF s = NONE THEN "consumed" ELSE "verified",
                   presentation |-> p, session |-> s, at |-> clock,
                   sub |-> SubjectOf(s, t),
                   aud |-> IF c # NONE THEN c ELSE t.client,
                   nonce |-> NonceOf(p, t)]
      IN
      /\ c # NONE \/ t # NONE
      /\ \/ /\ verdict = "invalid"
            /\ Respond(FALSE, call)
            /\ UNCHANGED calls
         \/ /\ verdict = "valid"
            /\ calls' = calls \cup {call}
            /\ UNCHANGED answers
    /\ UNCHANGED <<clock, issued, tx, posted, responseKey, signingKey, storing>>

\* A call reaches another step.
Proceed(v, step) == calls' = (calls \ {v}) \cup {[v EXCEPT !.step = step]}

\* consume_transaction_by_state finds the row of the state again ...
Find(v) ==
    /\ v \in calls /\ v.step = "verified"
    /\ Found(v.session)
    /\ Proceed(v, "found")
    /\ UNCHANGED <<clock, issued, tx, posted, responseKey, signingKey, storing,
                   answers>>

\* ... and deletes it.
Delete(v) ==
    /\ v \in calls /\ v.step = "found"
    /\ Found(v.session)
    /\ tx' = [tx EXCEPT ![v.session].status = "used"]
    /\ Proceed(v, "consumed")
    /\ UNCHANGED <<clock, issued, posted, responseKey, signingKey, storing,
                   answers>>

\* The valid result is answered, with the clock and the key of that moment.
AnswerCall(v) ==
    /\ v \in calls /\ v.step = "consumed"
    /\ calls' = calls \ {v}
    /\ Respond(TRUE, v)
    /\ UNCHANGED <<clock, issued, tx, posted, responseKey, signingKey, storing>>

\* A call ends with an error, because there is nothing to consume or a store or
\* the journal fails, and what it has done stays done.
Fail(v) ==
    /\ v \in calls
    /\ calls' = calls \ {v}
    /\ UNCHANGED <<clock, issued, tx, posted, responseKey, signingKey, storing,
                   answers>>

\* What a wallet answers through the browser, to the client and with the nonce
\* of the page, and what of it may be wrong.
BrowserPresentable(client, nonce) ==
    LET proof(c) == [kind |-> "signature", device |-> c.device,
                     over |-> Transcript(client, nonce, "client_id", FALSE, NONE)]
        whole == {MdocPresentation(c, c.hidden, proof(c)) :
                    c \in {d \in issued : d.format = "mdoc"}}
    IN  whole \cup UNION {Defective(p) : p \in whole}

\* POST /dc_api/verify: an mDoc that is intact and within its validity is
\* answered, with success when it is trusted. There is no transaction. A
\* doc_type of the call that is not that of the mDoc is an error.
VerifyDcApi(client, nonce) ==
    /\ Cardinality(answers) < MaxAnswers
    /\ \E p \in BrowserPresentable(client, nonce) :
         /\ MdocIntact(p, Transcript(client, nonce, "client_id", FALSE, NONE))
         /\ WithinValidity(p.content, clock)
         /\ Respond(ChainTrusted(p),
                    [step |-> "consumed", presentation |-> p, session |-> NONE,
                     at |-> clock, sub |-> NONE, aud |-> client, nonce |-> nonce])
    /\ UNCHANGED <<clock, issued, tx, posted, responseKey, signingKey, storing,
                   calls>>

\* The relying party fetches the JWKS and imports the key that is published now.
SignedByPublished(attestation) == attestation.key = signingKey

\* An attestation is good when its signature verifies and it has not expired.
Acceptable(attestation) ==
    SignedByPublished(attestation) /\ clock <= attestation.exp

----------------------------------------------------------------------------
\* The attestation key is read from its files, which may have been replaced.
LoadedSigningKey(replaced) == IF replaced THEN signingKey + 1 ELSE signingKey

\* The response encryption key is made anew.
FreshResponseKey == responseKey + 1

\* The server restarts. What was under way and transactions in memory are gone.
Restart(replaced) ==
    /\ responseKey < MaxRestarts
    /\ responseKey' = FreshResponseKey
    /\ signingKey' = LoadedSigningKey(replaced)
    /\ tx' = IF Durable THEN tx
             ELSE [s \in Sessions |-> IF tx[s].status = "open"
                     THEN [tx[s] EXCEPT !.status = "lost"] ELSE tx[s]]
    /\ storing' = {} /\ calls' = {}
    /\ UNCHANGED <<clock, issued, posted, answers>>

Tick ==
    /\ clock < MaxTime
    /\ clock' = clock + 1
    /\ UNCHANGED <<issued, tx, posted, responseKey, signingKey, storing, calls, answers>>

Next ==
    \/ \E t \in Catalogue : Issue(t)
    \/ \E s \in Sessions, c \in Clients : InitTransaction(s, c)
    \/ \E s \in Sessions : Fetch(s) \/ Post(s)
    \/ \E source \in Sessions, s \in Sessions \cup {NONE},
          c \in Clients \cup {NONE} : Verify(source, s, c)
    \/ \E u \in storing : StoreAnswer(u)
    \/ \E v \in calls : Find(v) \/ Delete(v) \/ AnswerCall(v) \/ Fail(v)
    \/ \E c \in Clients, n \in Sessions : VerifyDcApi(c, n)
    \/ \E replaced \in BOOLEAN : Restart(replaced)
    \/ Tick

Spec == Init /\ [][Next]_vars

----------------------------------------------------------------------------
\* The values of the state have their types.
TypeOK ==
    /\ clock \in Nat /\ responseKey \in Nat /\ signingKey \in Nat
    /\ issued \subseteq Credential
    /\ tx \in [Sessions -> Transaction]
    /\ posted \in [Sessions -> SUBSET Presentation]
    /\ storing \subseteq Storing /\ calls \subseteq Call /\ answers \subseteq Answer

Successes(format) ==
    {a \in answers : a.success /\ a.call.presentation.format = format}

(***************************************************************************)
(* A verified mDoc is vouched for from end to end, by either endpoint: a   *)
(* trusted authority issued a credential of the attested type, it was      *)
(* valid at the time of the verification, every attested claim is one the  *)
(* authority signed (a portrait possibly converted), and the credential's  *)
(* own holder key signed for the very nonce and client that the            *)
(* attestation names, and for the endpoint that verified it.               *)
(***************************************************************************)
MdocVouchedFor ==
    \A a \in Successes("mdoc") : \E c \in issued :
      /\ c.authority \in TrustedCAs
      /\ c.docType = a.attestation.docType
      /\ WithinValidity(c, a.call.at)
      /\ a.attestation.claims \subseteq c.hidden \cup AsJpeg(c.hidden)
      /\ a.call.presentation.proof.kind = "signature"
      /\ a.call.presentation.proof.device = c.device
      /\ a.call.presentation.proof.over.nonce = a.attestation.nonce
      /\ a.call.presentation.proof.over.client = a.attestation.aud
      /\ a.call.presentation.proof.over.uri =
           IF a.call.session = NONE THEN "client_id" ELSE "direct_post"

(***************************************************************************)
(* What holds of a verified SD-JWT: a trusted authority signed its type    *)
(* and clear claims, it had not expired, and a Key Binding JWT, when there *)
(* is one, was made by the named holder. When the JWT names a nonce and    *)
(* the call found its transaction, the nonce is that transaction's: a JWT  *)
(* without a nonce, or a lookup that failed, leaves the proof unbound.     *)
(***************************************************************************)
SdJwtVouchedFor ==
    \A a \in Successes("sdjwt") :
      LET p == a.call.presentation
      IN \E c \in issued :
        /\ c.authority \in TrustedCAs
        /\ c.docType = a.attestation.docType
        /\ NotExpired(c, a.call.at)
        /\ a.attestation.claims \subseteq
             p.disclosed \cup c.clear \cup AsJpeg(p.disclosed \cup c.clear)
        /\ p.proof # NONE =>
             /\ p.proof.device = c.device
             /\ a.attestation.sub # NONE =>
                  p.proof.over.nonce \in {NONE, a.attestation.sub}

(***************************************************************************)
(* What a wallet does by the book is verified: a stored answer that is     *)
(* faithful to a credential of a trusted authority, still valid, verifies  *)
(* for its own session as long as the service has the encryption key the   *)
(* wallet saw. The two sides build the same transcript.                    *)
(***************************************************************************)
FaithfulVerifiesUnlessRekeyed ==
    \A s \in Sessions : \A p \in posted[s] :
      (/\ tx[s].status = "open" /\ SharedSecret(s)
       /\ IsFaithful(p, s)
       /\ p.content.authority \in TrustedCAs
       /\ WithinValidity(p.content, clock))
      => Verdict(p, Stored(s), tx[s].client, responseKey, clock) = "valid"

(***************************************************************************)
(* What an attestation of a success is good for. As long as the relying    *)
(* party finds it valid, the credential expired at most an attestation's   *)
(* life ago, and the time the call took. Its subject, if it names a        *)
(* session, is the state of the call, with the nonce of that session and   *)
(* the client that opened it, whatever client the call named. And a        *)
(* success that names a state was paid for with a transaction of it, also  *)
(* when the lookup failed and the attestation has a fresh subject.         *)
(***************************************************************************)
AttestationBound ==
    \A a \in answers : a.success =>
      /\ Acceptable(a.attestation) =>
           clock <= a.call.presentation.content.until + a.took + AttestationLife
      /\ a.attestation.sub # NONE =>
           /\ a.attestation.sub = a.call.session
           /\ a.attestation.nonce = a.call.session
           /\ a.attestation.aud = tx[a.call.session].client
      /\ a.call.session # NONE => tx[a.call.session].status # "none"

(***************************************************************************)
(* "For each presented disclosure, recompute the digest and check that it  *)
(* appears in the _sd array": a verified SD-JWT attests only what the      *)
(* authority signed (credential-formats.md:316).                           *)
(***************************************************************************)
DisclosuresWereSigned ==
    \A a \in Successes("sdjwt") : LET c == a.call.presentation.content IN
      a.attestation.claims \subseteq
        c.clear \cup c.hidden \cup AsJpeg(c.clear \cup c.hidden)

=============================================================================
