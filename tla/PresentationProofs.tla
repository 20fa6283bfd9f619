------------------------ MODULE PresentationProofs ------------------------
(***************************************************************************)
(* Proofs about Presentation, for any authorities, devices, claims,        *)
(* sessions and clients, any lifetimes and bounds, and for transactions    *)
(* that survive a restart or not.                                          *)
(*                                                                         *)
(* The inductive invariant Inv adds to the type invariant what wallets can *)
(* present (every signature in an answer was made by an authority) and     *)
(* what each call, and each success that comes of one, keeps of its        *)
(* verification (Established, Recorded) while rows are deleted and written *)
(* back, keys replaced and credentials expire.                             *)
(***************************************************************************)
EXTENDS Presentation, TLAPS

----------------------------------------------------------------------------
(* What holds of the state, and of each answer in it *)

\* Transactions know their client from the start.
Held == \A s \in Sessions : tx[s].status # "none" => tx[s].client \in Clients

\* An mDoc names a device key.
DeviceNamed == \A c \in issued : c.format = "mdoc" => c.device # NONE

\* Only authorities make issuer signatures.
Signed(p, certs) == p.format # "json" => p.signedOver \in certs
Genuine == \A s \in Sessions : \A p \in posted[s] : Signed(p, issued)

\* An answer on its way is signed like a stored one, and its session was opened.
Underway ==
    \A u \in storing : /\ \A p \in u.token : Signed(p, issued)
                       /\ tx[u.session].status # "none"

\* What the two endpoints have established of an mDoc.
MdocEstablished(v, certs) ==
    LET p == v.presentation IN
    /\ p.signedOver \in certs /\ p.signedOver = p.content
    /\ p.content.authority \in TrustedCAs
    /\ p.docType = p.content.docType
    /\ WithinValidity(p.content, v.at)
    /\ p.disclosed \subseteq p.content.hidden
    /\ p.proof # NONE /\ p.proof.kind = "signature"
    /\ p.proof.device = p.content.device
    /\ p.proof.over.nonce = v.nonce
    /\ p.proof.over.client = v.aud
    /\ p.proof.over.uri = IF v.session = NONE THEN "client_id" ELSE "direct_post"

\* What POST /verify has established of an SD-JWT.
SdJwtEstablished(v, certs) ==
    LET p == v.presentation IN
    /\ p.signedOver \in certs /\ p.signedOver = p.content
    /\ p.content.authority \in TrustedCAs
    /\ NotExpired(p.content, v.at)
    /\ p.proof # NONE =>
         /\ p.proof.device = p.content.device
         /\ v.sub # NONE => p.proof.over.nonce \in {NONE, v.sub}

\* What a verification has established, whatever the format.
Established(v, certs, rows) ==
    /\ v.at <= v.presentation.content.until
    /\ v.sub # NONE => /\ v.sub = v.session /\ v.nonce = v.session
                       /\ rows[v.session].status # "none"
                       /\ v.aud = rows[v.session].client
    /\ v.presentation.format = "mdoc" => MdocEstablished(v, certs)
    /\ v.presentation.format = "sdjwt" => SdJwtEstablished(v, certs)

\* A call that is past the find has seen a row of its session.
Paid(v, rows) ==
    v.session # NONE /\ v.step # "verified" => rows[v.session].status # "none"

\* The record of one answer: its attestation says what its call established.
Recorded(a, certs, rows) ==
    a.success =>
      /\ Established(a.call, certs, rows)
      /\ Paid(a.call, rows) /\ a.call.step = "consumed"
      /\ a.attestation.exp = a.call.at + a.took + AttestationLife
      /\ a.attestation.sub = a.call.sub
      /\ a.attestation.aud = a.call.aud
      /\ a.attestation.nonce = a.call.nonce
      /\ a.attestation.docType = TypeOf(a.call.presentation)
      /\ a.attestation.claims \in
           {Claims(a.call.presentation), AsJpeg(Claims(a.call.presentation))}

\* No call began in the future.
Begun == \A v \in calls : v.at <= clock

Inv ==
    /\ TypeOK /\ Held /\ DeviceNamed /\ Genuine /\ Underway /\ Begun
    /\ \A v \in calls : Established(v, issued, tx) /\ Paid(v, tx)
    /\ \A a \in answers : Recorded(a, issued, tx)

----------------------------------------------------------------------------
(* What is issued and what is presented *)

LEMMA BuiltTyped ==
    ASSUME NEW t \in Catalogue, NEW now \in Nat
    PROVE  /\ Built(t, now, Lifetime) \in Credential
           /\ Built(t, now, Lifetime).format = "mdoc" =>
                Built(t, now, Lifetime).device # NONE
<1>1. /\ t \in [format : {"mdoc", "sdjwt"}, authority : Authorities,
                docType : DocTypes, clear : SUBSET Item, hidden : SUBSET Item,
                device : Devices \cup {NONE}]
      /\ t.format = "mdoc" => t.device # NONE
      /\ Lifetime \in Nat
  BY PresentationAssumption
<1>. QED  BY <1>1 DEF Built, Credential

LEMMA TranscriptTyped ==
    ASSUME NEW client \in Clients, NEW nonce \in Sessions,
           NEW uri \in {"direct_post", "client_id"}, NEW encrypted \in BOOLEAN,
           NEW thumbprint \in Nat \cup {NONE}
    PROVE  Transcript(client, nonce, uri, encrypted, thumbprint) \in Context
BY DEF Transcript, Context

LEMMA MdocTyped ==
    ASSUME NEW c \in Credential, NEW items \in SUBSET c.hidden, NEW proof \in Proof
    PROVE  /\ MdocPresentation(c, items, proof) \in Presentation
           /\ MdocPresentation(c, items, proof).signedOver = c
BY DEF MdocPresentation, Presentation, Credential

LEMMA DefectiveTyped ==
    ASSUME NEW p \in Presentation, NEW q \in Defective(p)
    PROVE  q \in Presentation /\ q.signedOver = p.signedOver /\ q.format = p.format
<1>1. CASE q \in {[p EXCEPT !.disclosed = {[i EXCEPT !.value = v] : i \in @}]
                    : v \in Values}
  <2>1. PICK v \in Values : q = [p EXCEPT !.disclosed = {[i EXCEPT !.value = v] : i \in p.disclosed}]
    BY <1>1
  <2>2. {[i EXCEPT !.value = v] : i \in p.disclosed} \subseteq Item
    BY DEF Presentation, Item
  <2>. QED  BY <2>1, <2>2 DEF Presentation
<1>2. CASE q = [p EXCEPT !.content.until = @ + 1]
  <2>1. [p.content EXCEPT !.until = @ + 1] \in Credential
    BY DEF Presentation, Credential
  <2>. QED  BY <1>2, <2>1 DEF Presentation
<1>3. CASE q = [p EXCEPT !.chain = FALSE]
  BY <1>3 DEF Presentation
<1>4. CASE q \in {[p EXCEPT !.docType = d] : d \in DocTypes}
  BY <1>4 DEF Presentation
<1>5. CASE /\ p.proof # NONE
           /\ q \in {[p EXCEPT !.proof = NONE]}
               \cup {[p EXCEPT !.proof.device = d] : d \in Devices}
               \cup {[p EXCEPT !.proof.over.nonce = n] : n \in Sessions}
               \cup {[p EXCEPT !.proof.over.uri = "client_id"]}
               \cup (IF p.format = "mdoc"
                       THEN {[p EXCEPT !.proof.kind = "mac"]}
                       ELSE {[p EXCEPT !.proof.over.nonce = NONE]})
  <2>1. PICK r \in Proof \cup {NONE} : q = [p EXCEPT !.proof = r]
    <3>1. p.proof \in Proof
      BY <1>5 DEF Presentation
    <3>2. CASE q = [p EXCEPT !.proof = NONE]
      BY <3>2
    <3>3. CASE q \in {[p EXCEPT !.proof.device = d] : d \in Devices}
      <4>1. PICK d \in Devices : q = [p EXCEPT !.proof.device = d]
        BY <3>3
      <4>2. [p.proof EXCEPT !.device = d] \in Proof
        BY <3>1 DEF Proof
      <4>. QED  BY <4>1, <4>2
    <3>4. CASE q \in {[p EXCEPT !.proof.over.nonce = n] : n \in Sessions \cup {NONE}}
      <4>1. PICK n \in Sessions \cup {NONE} : q = [p EXCEPT !.proof.over.nonce = n]
        BY <3>4
      <4>2. [p.proof EXCEPT !.over.nonce = n] \in Proof
        BY <3>1 DEF Proof, Context
      <4>. QED  BY <4>1, <4>2
    <3>5. CASE q = [p EXCEPT !.proof.over.uri = "client_id"]
      <4>1. [p.proof EXCEPT !.over.uri = "client_id"] \in Proof
        BY <3>1 DEF Proof, Context
      <4>. QED  BY <3>5, <4>1
    <3>6. CASE q = [p EXCEPT !.proof.kind = "mac"]
      <4>1. [p.proof EXCEPT !.kind = "mac"] \in Proof
        BY <3>1 DEF Proof
      <4>. QED  BY <3>6, <4>1
    <3>. QED  BY <1>5, <3>2, <3>3, <3>4, <3>5, <3>6
  <2>. QED  BY <2>1 DEF Presentation
<1>. QED  BY <1>1, <1>2, <1>3, <1>4, <1>5 DEF Defective

LEMMA SdJwtTyped ==
    ASSUME NEW c \in Credential, NEW items \in SUBSET c.hidden,
           NEW bound \in BOOLEAN, NEW s \in Sessions,
           bound => KeyBindingJwt(c, s) \in Proof
    PROVE  /\ SdJwtPresentation(c, items, bound, s) \in Presentation
           /\ SdJwtPresentation(c, items, bound, s).signedOver = c
<1>. DEFINE r == IF bound THEN KeyBindingJwt(c, s) ELSE NONE
<1>1. r \in Proof \cup {NONE}
  OBVIOUS
<1>. HIDE DEF r
<1>2. SdJwtPresentation(c, items, bound, s) =
        [format |-> "sdjwt", docType |-> c.docType, content |-> c,
         signedOver |-> c, disclosed |-> items, chain |-> TRUE, proof |-> r]
  BY DEF SdJwtPresentation, r
<1>. QED  BY <1>1, <1>2 DEF Presentation, Credential

LEMMA ProofsTyped ==
    ASSUME TypeOK, NEW c \in Credential, NEW s \in Sessions,
           tx[s].client \in Clients, c.device \in Devices
    PROVE  DeviceAuth(c, s) \in Proof /\ KeyBindingJwt(c, s) \in Proof
<1>1. tx[s].seen \in Nat \cup {NONE}
  BY DEF TypeOK, Transaction
<1>2. Transcript(tx[s].client, s, "direct_post", Encrypted(s), tx[s].seen) \in Context
  BY <1>1 DEF Transcript, Context
<1>3. Transcript(tx[s].client, s, "direct_post", FALSE, NONE) \in Context
  BY TranscriptTyped
<1>. QED  BY <1>2, <1>3 DEF DeviceAuth, KeyBindingJwt, Proof

LEMMA FaithfulTyped ==
    ASSUME TypeOK, DeviceNamed, NEW s \in Sessions, tx[s].client \in Clients,
           NEW p \in Faithful(s)
    PROVE  p \in Presentation /\ p.signedOver \in issued
<1>1. PICK c \in issued : p \in FaithfulOf(c, s)
  BY DEF Faithful
<1>2. c \in Credential
  BY DEF TypeOK
<1>3. c.device # NONE => DeviceAuth(c, s) \in Proof /\ KeyBindingJwt(c, s) \in Proof
  BY <1>2, ProofsTyped DEF Credential
<1>4. CASE c.format = "mdoc"
  <2>1. PICK items \in SUBSET c.hidden : p = MdocPresentation(c, items, DeviceAuth(c, s))
    BY <1>1, <1>4 DEF FaithfulOf
  <2>2. DeviceAuth(c, s) \in Proof
    BY <1>3, <1>4 DEF DeviceNamed
  <2>. QED  BY <1>2, <2>1, <2>2, MdocTyped
<1>5. CASE c.format # "mdoc"
  <2>1. PICK items \in SUBSET c.hidden, bound \in {b \in BOOLEAN : b => c.device # NONE} :
          p = SdJwtPresentation(c, items, bound, s)
    BY <1>1, <1>5 DEF FaithfulOf
  <2>. QED  BY <1>2, <1>3, <2>1, SdJwtTyped
<1>. QED  BY <1>4, <1>5

LEMMA PresentableTyped ==
    ASSUME TypeOK, DeviceNamed, NEW s \in Sessions, tx[s].client \in Clients,
           NEW token \in Presentable(s)
    PROVE  token \subseteq Presentation /\ \A p \in token : Signed(p, issued)
<1>. SUFFICES ASSUME NEW p \in token
              PROVE  p \in Presentation /\ Signed(p, issued)
  OBVIOUS
<1>1. CASE p \in Faithful(s)
  BY <1>1, FaithfulTyped DEF Signed
<1>2. CASE \E q \in Faithful(s) : p \in Defective(q)
  BY <1>2, FaithfulTyped, DefectiveTyped DEF Signed
<1>3. CASE \E q \in Faithful(s) : p = AsJson(q)
  <2>1. PICK q \in Faithful(s) : p = AsJson(q)
    BY <1>3
  <2>2. q \in Presentation
    BY FaithfulTyped
  <2>. QED  BY <2>1, <2>2 DEF AsJson, Presentation, Signed
<1>. QED  BY <1>1, <1>2, <1>3 DEF Presentable

LEMMA BrowserTyped ==
    ASSUME TypeOK, DeviceNamed, NEW client \in Clients, NEW nonce \in Sessions,
           NEW p \in BrowserPresentable(client, nonce)
    PROVE  p \in Presentation /\ p.signedOver \in issued /\ p.format = "mdoc"
<1>. DEFINE proof(c) == [kind |-> "signature", device |-> c.device,
                         over |-> Transcript(client, nonce, "client_id", FALSE, NONE)]
            whole == {MdocPresentation(c, c.hidden, proof(c)) :
                        c \in {d \in issued : d.format = "mdoc"}}
<1>1. ASSUME NEW q \in whole
      PROVE  q \in Presentation /\ q.signedOver \in issued /\ q.format = "mdoc"
  <2>1. PICK c \in issued : c.format = "mdoc" /\ q = MdocPresentation(c, c.hidden, proof(c))
    OBVIOUS
  <2>2. c \in Credential /\ c.device \in Devices
    BY <2>1 DEF TypeOK, DeviceNamed, Credential
  <2>3. Transcript(client, nonce, "client_id", FALSE, NONE) \in Context
    BY TranscriptTyped
  <2>4. proof(c) \in Proof
    BY <2>2, <2>3 DEF Proof
  <2>5. q.format = "mdoc"
    BY <2>1 DEF MdocPresentation
  <2>. QED  BY <2>1, <2>2, <2>4, <2>5, MdocTyped
<1>2. \/ p \in whole
      \/ \E q \in whole : p \in Defective(q)
  BY DEF BrowserPresentable
<1>. QED  BY <1>1, <1>2, DefectiveTyped

LEMMA ClaimsTyped ==
    ASSUME NEW p \in Presentation
    PROVE  /\ Claims(p) \subseteq Item
           /\ AsJpeg(Claims(p)) \subseteq Item
           /\ TypeOf(p) \in DocTypes
<1>1. p.disclosed \subseteq Item /\ p.content.clear \subseteq Item
      /\ p.docType \in DocTypes /\ p.content.docType \in DocTypes
  BY DEF Presentation, Credential
<1>2. Claims(p) \subseteq Item
  BY <1>1 DEF Claims
<1>3. ASSUME NEW i \in Item
      PROVE  (IF i.name = Portrait /\ i.value = JP2 THEN [i EXCEPT !.value = JPEG] ELSE i) \in Item
  BY FormatsAssumption DEF Item
<1>4. AsJpeg(Claims(p)) \subseteq Item
  BY <1>2, <1>3 DEF AsJpeg
<1>. QED  BY <1>1, <1>2, <1>4 DEF TypeOf

----------------------------------------------------------------------------
(* What a verification establishes *)

LEMMA MdocIntactFacts ==
    ASSUME NEW p \in Presentation, NEW context \in Context, MdocIntact(p, context)
    PROVE  /\ p.signedOver = p.content /\ p.content.docType = p.docType
           /\ p.disclosed \subseteq p.content.hidden
           /\ p.proof # NONE /\ p.proof.kind = "signature"
           /\ p.proof.device = p.content.device /\ p.proof.over = context
BY DEF MdocIntact, SignatureVerifies, DigestsMatch, DeviceSigned, HolderKeyMade

LEMMA TrustedFacts ==
    ASSUME NEW p, ChainTrusted(p)
    PROVE  p.content.authority \in TrustedCAs
BY FormatsAssumption DEF ChainTrusted, LeafOf

LEMMA MdocValid ==
    ASSUME NEW p \in Presentation, NEW t, NEW thumbprint, NEW now,
           MdocVerdict(p, t, thumbprint, now) = "valid"
    PROVE  /\ t # NONE
           /\ MdocIntact(p, Transcript(t.client, t.nonce, "direct_post",
                                       t.encrypted, thumbprint))
           /\ WithinValidity(p.content, now)
           /\ ChainTrusted(p)
BY DEF MdocVerdict

LEMMA SdJwtValid ==
    ASSUME NEW p \in Presentation, NEW t, NEW now,
           FlagsVerdict(SdJwtFlags(p, t, now)) = "valid"
    PROVE  /\ p.signedOver = p.content
           /\ p.content.authority \in TrustedCAs
           /\ NotExpired(p.content, now)
           /\ p.proof # NONE =>
                /\ p.proof.device = p.content.device
                /\ t # NONE => p.proof.over.nonce \in {NONE, t.nonce}
<1>1. /\ SdJwtSigned(p) /\ ChainTrusted(p) /\ NotExpired(p.content, now)
      /\ t = NONE \/ NonceMatches(p, t)
  BY DEF FlagsVerdict, SdJwtFlags, AllHold
<1>. QED
  BY <1>1, TrustedFacts
  DEF SdJwtSigned, SignatureVerifies, KeyBound, HolderKeyMade, NonceMatches

LEMMA JsonValid ==
    ASSUME NEW p \in Presentation, NEW now \in Nat,
           FlagsVerdict(JsonFlags(p, now)) = "valid"
    PROVE  NotExpired(p.content, now)
<1>1. AllHold(JsonFlags(p, now))
  BY DEF FlagsVerdict
<1>2. JsonFlags(p, now).fresh
  BY <1>1 DEF AllHold
<1>. QED  BY <1>2 DEF JsonFlags

\* Whatever the format, a verdict "valid" means that the validity has not ended.
LEMMA ValidIsFresh ==
    ASSUME NEW p \in Presentation, NEW t, NEW client, NEW thumbprint, NEW now \in Nat,
           Verdict(p, t, client, thumbprint, now) = "valid"
    PROVE  /\ now <= p.content.until
           /\ t # NONE /\ client # NONE => client = t.client
<1>1. p.content.until \in Nat
  BY DEF Presentation, Credential
<1>2. /\ FormatVerdict(p, t, thumbprint, now) = "valid"
      /\ t # NONE /\ client # NONE => client = t.client
  BY DEF Verdict
<1>3. CASE p.format = "mdoc"
  BY <1>2, <1>3, MdocValid DEF FormatVerdict, WithinValidity
<1>4. CASE p.format = "sdjwt"
  BY <1>1, <1>2, <1>4, SdJwtValid DEF FormatVerdict, NotExpired
<1>5. CASE p.format = "json"
  BY <1>1, <1>2, <1>5, JsonValid DEF FormatVerdict, NotExpired
<1>. QED  BY <1>2, <1>3, <1>4, <1>5 DEF Presentation

----------------------------------------------------------------------------
(* Records are kept *)

\* Sessions stay opened by their client and credentials stay issued.
Kept ==
    /\ tx' \in [Sessions -> Transaction]
    /\ \A s \in Sessions : tx[s].status # "none" =>
         tx'[s].status # "none" /\ tx'[s].client = tx[s].client
    /\ \A s \in Sessions : tx'[s].status # "none" => tx'[s].client \in Clients
    /\ issued \subseteq issued'

LEMMA EstablishedKept ==
    ASSUME Kept, NEW v \in Call
    PROVE  /\ Established(v, issued, tx) => Established(v, issued', tx')
           /\ Paid(v, tx) => Paid(v, tx')
<1>1. v.session \in Sessions \cup {NONE} /\ v.sub \in Sessions \cup {NONE}
  BY DEF Call
<1>2. MdocEstablished(v, issued) => MdocEstablished(v, issued')
  BY DEF Kept, MdocEstablished
<1>3. SdJwtEstablished(v, issued) => SdJwtEstablished(v, issued')
  BY DEF Kept, SdJwtEstablished
<1>4. Paid(v, tx) => Paid(v, tx')
  BY <1>1 DEF Kept, Paid
<1>. QED  BY <1>1, <1>2, <1>3, <1>4 DEF Kept, Established

LEMMA RecordKept ==
    ASSUME Kept, NEW a \in Answer, Recorded(a, issued, tx)
    PROVE  Recorded(a, issued', tx')
<1>1. a.call \in Call
  BY DEF Answer
<1>. QED  BY <1>1, EstablishedKept DEF Recorded

\* A step that adds no call and no answer preserves what is kept of them.
LEMMA SurroundingsKept ==
    ASSUME Inv, Kept, calls' \subseteq calls, answers' = answers, clock' \in Nat,
           clock' >= clock
    PROVE  /\ calls' \subseteq Call /\ answers' \subseteq Answer
           /\ Held' /\ Begun'
           /\ \A v \in calls' : Established(v, issued', tx') /\ Paid(v, tx')
           /\ \A a \in answers' : Recorded(a, issued', tx')
<1>1. calls \subseteq Call /\ answers \subseteq Answer /\ clock \in Nat
  BY DEF Inv, TypeOK
<1>2. \A v \in calls' : Established(v, issued', tx') /\ Paid(v, tx')
  BY <1>1, EstablishedKept DEF Inv
<1>3. \A a \in answers' : Recorded(a, issued', tx')
  BY <1>1, RecordKept DEF Inv
<1>4. Held'
  BY DEF Kept, Held
<1>5. Begun'
  BY <1>1 DEF Inv, Begun, Call
<1>. QED  BY <1>1, <1>2, <1>3, <1>4, <1>5

----------------------------------------------------------------------------
(* The steps that only move the surroundings *)

LEMMA InitInv == Init => Inv
<1>. SUFFICES ASSUME Init PROVE Inv
  OBVIOUS
<1>1. TypeOK
  BY DEF Init, TypeOK, Transaction
<1>. QED
  BY <1>1 DEF Init, Inv, Held, DeviceNamed, Genuine, Underway, Begun

LEMMA IssueInv ==
    ASSUME Inv, NEW t \in Catalogue, Issue(t)
    PROVE  Inv'
<1>1. /\ Built(t, clock, Lifetime) \in Credential
      /\ Built(t, clock, Lifetime).format = "mdoc" =>
           Built(t, clock, Lifetime).device # NONE
  BY BuiltTyped DEF Inv, TypeOK
<1>2. Kept
  BY DEF Inv, TypeOK, Held, Issue, Kept
<1>3. /\ issued' = issued \cup {Built(t, clock, Lifetime)}
      /\ UNCHANGED <<clock, tx, posted, responseKey, signingKey, storing, calls, answers>>
  BY DEF Issue
<1>4. clock \in Nat
  BY DEF Inv, TypeOK
<1>5. TypeOK' /\ DeviceNamed' /\ Genuine' /\ Underway'
  BY <1>1, <1>3 DEF Inv, TypeOK, DeviceNamed, Genuine, Underway, Signed
<1>. QED  BY <1>2, <1>3, <1>4, <1>5, SurroundingsKept DEF Inv

LEMMA InitTransactionInv ==
    ASSUME Inv, NEW s \in Sessions, NEW c \in Clients, InitTransaction(s, c)
    PROVE  Inv'
<1>1. tx \in [Sessions -> Transaction] /\ clock \in Nat
  BY DEF Inv, TypeOK
<1>2. UNCHANGED <<clock, issued, posted, responseKey, signingKey, storing, calls, answers>>
  BY DEF InitTransaction
<1>3. Kept
  BY <1>1 DEF Inv, Held, InitTransaction, Kept, Transaction
<1>4. TypeOK' /\ DeviceNamed' /\ Genuine'
  BY <1>2, <1>3 DEF Inv, TypeOK, DeviceNamed, Genuine, Signed, Kept
<1>5. Underway'
  BY <1>2, <1>3 DEF Inv, TypeOK, Underway, Signed, Kept, Storing
<1>. QED  BY <1>1, <1>2, <1>3, <1>4, <1>5, SurroundingsKept DEF Inv

LEMMA FetchInv ==
    ASSUME Inv, NEW s \in Sessions, Fetch(s)
    PROVE  Inv'
<1>1. /\ tx \in [Sessions -> Transaction] /\ clock \in Nat /\ responseKey \in Nat
  BY DEF Inv, TypeOK
<1>2. UNCHANGED <<clock, issued, posted, responseKey, signingKey, storing, calls, answers>>
  BY DEF Fetch
<1>3. Kept
  BY <1>1 DEF Inv, Held, Fetch, RequestObject, Kept, Transaction
<1>4. TypeOK' /\ DeviceNamed' /\ Genuine'
  BY <1>2, <1>3 DEF Inv, TypeOK, DeviceNamed, Genuine, Signed, Kept
<1>5. Underway'
  BY <1>2, <1>3 DEF Inv, TypeOK, Underway, Signed, Kept, Storing
<1>. QED  BY <1>1, <1>2, <1>3, <1>4, <1>5, SurroundingsKept DEF Inv

LEMMA SendableTyped ==
    ASSUME Inv, NEW s \in Sessions, tx[s].client \in Clients, NEW token \in Sendable(s)
    PROVE  token \subseteq Presentation /\ \A p \in token : Signed(p, issued)
<1>1. CASE posted[s] = {}
  BY <1>1, PresentableTyped DEF Sendable, Inv
<1>2. CASE posted[s] # {}
  BY <1>2 DEF Sendable, Inv, TypeOK, Genuine
<1>. QED  BY <1>1, <1>2

LEMMA PostInv ==
    ASSUME Inv, NEW s \in Sessions, Post(s)
    PROVE  Inv'
<1>1. tx[s].client \in Clients /\ tx[s].status # "none"
  BY DEF Inv, Held, Post
<1>2. PICK token \in Sendable(s) :
        storing' = storing \cup {[session |-> s, token |-> token]}
  BY DEF Post
<1>3. token \subseteq Presentation /\ \A p \in token : Signed(p, issued)
  BY <1>1, SendableTyped
<1>4. UNCHANGED <<clock, issued, tx, posted, responseKey, signingKey, calls, answers>>
  BY DEF Post
<1>5. TypeOK'
  BY <1>2, <1>3, <1>4 DEF Inv, TypeOK, Storing
<1>6. Underway'
  BY <1>1, <1>2, <1>3, <1>4 DEF Inv, Underway
<1>7. DeviceNamed' /\ Genuine' /\ Kept /\ clock \in Nat
  BY <1>4 DEF Inv, TypeOK, Held, DeviceNamed, Genuine, Kept
<1>. QED  BY <1>4, <1>5, <1>6, <1>7, SurroundingsKept DEF Inv

LEMMA StoreAnswerInv ==
    ASSUME Inv, NEW u \in storing, StoreAnswer(u)
    PROVE  Inv'
<1>1. /\ u.session \in Sessions /\ u.token \subseteq Presentation
      /\ \A p \in u.token : Signed(p, issued)
      /\ tx[u.session].status # "none"
      /\ tx \in [Sessions -> Transaction] /\ clock \in Nat
  BY DEF Inv, TypeOK, Storing, Underway
<1>2. /\ storing' = storing \ {u}
      /\ posted' = [posted EXCEPT ![u.session] = u.token]
      /\ tx' = [tx EXCEPT ![u.session].status = "open"]
      /\ UNCHANGED <<clock, issued, responseKey, signingKey, calls, answers>>
  BY DEF StoreAnswer
<1>3. Kept
  BY <1>1, <1>2 DEF Inv, Held, Kept, Transaction
<1>4. TypeOK'
  BY <1>1, <1>2, <1>3 DEF Inv, TypeOK, Kept
<1>5. Genuine'
  BY <1>1, <1>2 DEF Inv, TypeOK, Genuine
<1>6. Underway'
  BY <1>2, <1>3 DEF Inv, TypeOK, Underway, Storing, Kept
<1>7. DeviceNamed'
  BY <1>2 DEF Inv, DeviceNamed
<1>8. /\ calls' \subseteq calls /\ answers' = answers
      /\ clock' \in Nat /\ clock' >= clock
  BY <1>1, <1>2
<1>9. /\ Held' /\ Begun'
      /\ \A v \in calls' : Established(v, issued', tx') /\ Paid(v, tx')
      /\ \A a \in answers' : Recorded(a, issued', tx')
  BY <1>3, <1>8, SurroundingsKept
<1>. QED  BY <1>4, <1>5, <1>6, <1>7, <1>9 DEF Inv

LEMMA RestartInv ==
    ASSUME Inv, NEW replaced \in BOOLEAN, Restart(replaced)
    PROVE  Inv'
<1>1. tx \in [Sessions -> Transaction] /\ clock \in Nat
  BY DEF Inv, TypeOK
<1>2. /\ UNCHANGED <<clock, issued, posted, answers>>
      /\ storing' = {} /\ calls' = {}
      /\ responseKey' \in Nat /\ signingKey' \in Nat
  BY DEF Restart, Inv, TypeOK, FreshResponseKey, LoadedSigningKey
<1>3. Kept
  BY <1>1, <1>2 DEF Inv, Held, Restart, Kept, Transaction
<1>4. TypeOK' /\ DeviceNamed' /\ Genuine' /\ Underway'
  BY <1>2, <1>3 DEF Inv, TypeOK, DeviceNamed, Genuine, Signed, Underway, Kept
<1>5. calls' \subseteq calls /\ clock' >= clock
  BY <1>1, <1>2
<1>. QED  BY <1>1, <1>2, <1>3, <1>4, <1>5, SurroundingsKept DEF Inv

LEMMA TickInv ==
    ASSUME Inv, Tick
    PROVE  Inv'
<1>1. /\ clock \in Nat /\ clock' = clock + 1
      /\ UNCHANGED <<issued, tx, posted, responseKey, signingKey, storing, calls, answers>>
  BY DEF Inv, TypeOK, Tick
<1>2. TypeOK' /\ DeviceNamed' /\ Genuine' /\ Underway' /\ Kept
  BY <1>1 DEF Inv, TypeOK, Held, DeviceNamed, Genuine, Signed, Underway, Kept
<1>3. clock' \in Nat /\ clock' >= clock
  BY <1>1
<1>. QED  BY <1>1, <1>2, <1>3, SurroundingsKept DEF Inv

----------------------------------------------------------------------------
(* The two verification endpoints *)

\* The attestation of an answer has its type.
LEMMA AttestTyped ==
    ASSUME TypeOK, NEW sub \in Sessions \cup {NONE}, NEW aud \in Clients,
           NEW nonce \in Sessions \cup {NONE}, NEW p \in Presentation,
           NEW claims \in {Claims(p), AsJpeg(Claims(p))}
    PROVE  Attest(sub, aud, nonce, p, claims) \in Attestation
<1>1. clock + AttestationLife \in Nat /\ signingKey \in Nat
  BY PresentationAssumption DEF TypeOK
<1>2. claims \in SUBSET Item /\ TypeOf(p) \in DocTypes
  BY ClaimsTyped
<1>. QED  BY <1>1, <1>2 DEF Attest, Attestation, Expiry

\* An answer is typed, and the answer of a success records what its call has
\* established.
LEMMA Responded ==
    ASSUME Inv, NEW success \in BOOLEAN, NEW v \in Call, v.at <= clock,
           Respond(success, v),
           success => /\ Established(v, issued, tx) /\ Paid(v, tx)
                      /\ v.step = "consumed"
    PROVE  /\ answers' \subseteq Answer
           /\ \A a \in answers' : Recorded(a, issued, tx)
<1>. DEFINE p == v.presentation
<1>1. PICK claims \in {Claims(p), AsJpeg(Claims(p))} :
        answers' = answers \cup
          {[success |-> success, call |-> v, took |-> clock - v.at,
            attestation |-> Attest(v.sub, v.aud, v.nonce, p, claims)]}
  BY DEF Respond
<1>. DEFINE a == [success |-> success, call |-> v, took |-> clock - v.at,
                  attestation |-> Attest(v.sub, v.aud, v.nonce, p, claims)]
<1>2. /\ v.sub \in Sessions \cup {NONE} /\ v.aud \in Clients
      /\ v.nonce \in Sessions \cup {NONE} /\ p \in Presentation
      /\ v.at \in Nat /\ clock \in Nat /\ AttestationLife \in Nat
  BY PresentationAssumption DEF Call, Inv, TypeOK
<1>3. Attest(v.sub, v.aud, v.nonce, p, claims) \in Attestation
  BY <1>2, AttestTyped DEF Inv
<1>4. clock - v.at \in Nat
  BY <1>2
<1>5. a \in Answer
  BY <1>3, <1>4 DEF Answer
<1>6. clock + AttestationLife = v.at + (clock - v.at) + AttestationLife
  BY <1>2
<1>7. Recorded(a, issued, tx)
  BY <1>6 DEF Recorded, Attest, Expiry
<1>. HIDE DEF a
<1>8. answers' = answers \cup {a}
  BY <1>1 DEF a
<1>. QED  BY <1>5, <1>7, <1>8 DEF Inv, TypeOK

\* A step at the endpoints changes calls and answers only.
LEMMA EndpointInv ==
    ASSUME Inv, UNCHANGED <<clock, issued, tx, posted, responseKey, signingKey, storing>>,
           calls' \subseteq Call, answers' \subseteq Answer,
           \A v \in calls' : /\ Established(v, issued, tx) /\ Paid(v, tx)
                             /\ v.at <= clock,
           \A a \in answers' : Recorded(a, issued, tx)
    PROVE  Inv'
BY DEF Inv, TypeOK, Held, DeviceNamed, Genuine, Underway, Signed, Begun

\* POST /dc_api/verify.
LEMMA VerifyDcApiInv ==
    ASSUME Inv, NEW client \in Clients, NEW nonce \in Sessions,
           VerifyDcApi(client, nonce)
    PROVE  Inv'
<1>. DEFINE context == Transcript(client, nonce, "client_id", FALSE, NONE)
            v(p) == [step |-> "consumed", presentation |-> p, session |-> NONE,
                     at |-> clock, sub |-> NONE, aud |-> client, nonce |-> nonce]
<1>1. PICK p \in BrowserPresentable(client, nonce) :
        /\ MdocIntact(p, context)
        /\ WithinValidity(p.content, clock)
        /\ Respond(ChainTrusted(p), v(p))
  BY DEF VerifyDcApi
<1>2. p \in Presentation /\ p.signedOver \in issued /\ p.format = "mdoc"
  BY BrowserTyped DEF Inv
<1>3. context \in Context /\ clock \in Nat
  BY TranscriptTyped DEF Inv, TypeOK
<1>4. v(p) \in Call /\ v(p).at <= clock
  BY <1>2, <1>3 DEF Call
<1>5. ChainTrusted(p) \in BOOLEAN
  BY DEF ChainTrusted
<1>6. ASSUME ChainTrusted(p)
      PROVE  Established(v(p), issued, tx)
  <2>1. context.nonce = nonce /\ context.client = client /\ context.uri = "client_id"
    BY DEF Transcript
  <2>. HIDE DEF context
  <2>2. MdocEstablished(v(p), issued)
    BY <1>1, <1>2, <1>3, <1>6, <2>1, MdocIntactFacts, TrustedFacts DEF MdocEstablished
  <2>3. clock <= p.content.until
    BY <1>1 DEF WithinValidity
  <2>. QED  BY <1>2, <2>2, <2>3 DEF Established
<1>7. Paid(v(p), tx) /\ v(p).step = "consumed"
  BY DEF Paid
<1>. HIDE DEF v
<1>8. answers' \subseteq Answer /\ \A a \in answers' : Recorded(a, issued, tx)
  BY <1>1, <1>4, <1>5, <1>6, <1>7, Responded
<1>9. UNCHANGED <<clock, issued, tx, posted, responseKey, signingKey, storing, calls>>
  BY DEF VerifyDcApi
<1>. QED  BY <1>8, <1>9, EndpointInv DEF Inv, TypeOK, Begun

\* The transaction of an open session, and what a lookup returns of it.
LEMMA LookupFacts ==
    ASSUME Inv, NEW s \in Sessions \cup {NONE}, NEW t \in Lookup(s), t # NONE
    PROVE  /\ Found(s) /\ s \in Sessions /\ tx[s].status # "none"
           /\ t = Stored(s) /\ t \in Request
           /\ t.client = tx[s].client /\ t.nonce = s
<1>1. t = Stored(s) /\ Found(s)
  BY DEF Lookup, Stored
<1>2. s \in Sessions /\ tx[s].client \in Clients /\ tx[s].status # "none"
  BY <1>1 DEF Found, Inv, Held
<1>3. Encrypted(s) \in BOOLEAN
  BY DEF Encrypted
<1>. QED  BY <1>1, <1>2, <1>3 DEF Stored, Request

\* POST /verify establishes what it says, for a valid verdict.
LEMMA VerifyEstablishes ==
    ASSUME Inv, NEW source \in Sessions, NEW p \in posted[source],
           NEW s \in Sessions \cup {NONE}, NEW t \in Lookup(s),
           NEW c \in Clients \cup {NONE}, c # NONE \/ t # NONE,
           Verdict(p, t, c, responseKey, clock) = "valid",
           NEW v \in Call, v.presentation = p, v.session = s, v.at = clock,
           v.sub = SubjectOf(s, t), v.nonce = NonceOf(p, t),
           v.aud = IF c # NONE THEN c ELSE t.client
    PROVE  Established(v, issued, tx)
<1>1. /\ p \in Presentation /\ Signed(p, issued) /\ clock \in Nat
      /\ responseKey \in Nat
  BY DEF Inv, TypeOK, Genuine
<1>2. /\ clock <= p.content.until
      /\ t # NONE /\ c # NONE => c = t.client
      /\ FormatVerdict(p, t, responseKey, clock) = "valid"
  BY <1>1, ValidIsFresh DEF Verdict
<1>3. t # NONE => /\ s \in Sessions /\ s # NONE /\ tx[s].status # "none"
                  /\ v.aud = tx[s].client /\ v.nonce = s /\ v.sub = s
  BY <1>2, LookupFacts DEF NonceOf, SubjectOf, Found
<1>4. t = NONE => v.sub = NONE
  BY DEF SubjectOf
<1>5. ASSUME p.format = "mdoc" PROVE MdocEstablished(v, issued)
  <2>. DEFINE context == Transcript(t.client, t.nonce, "direct_post",
                                    t.encrypted, responseKey)
  <2>1. MdocVerdict(p, t, responseKey, clock) = "valid"
    BY <1>2, <1>5 DEF FormatVerdict
  <2>2. /\ t # NONE /\ MdocIntact(p, context)
        /\ WithinValidity(p.content, clock) /\ ChainTrusted(p)
    BY <1>1, <2>1, MdocValid
  <2>3. /\ context.nonce = s /\ context.client = tx[s].client
        /\ context.uri = "direct_post"
    BY <2>2, LookupFacts DEF Transcript
  <2>4. context \in Context
    BY <1>1, <2>2, LookupFacts DEF Transcript, Context, Request
  <2>. HIDE DEF context
  <2>. QED
    BY <1>1, <1>3, <1>5, <2>2, <2>3, <2>4, MdocIntactFacts, TrustedFacts
    DEF MdocEstablished, Signed
<1>6. ASSUME p.format = "sdjwt" PROVE SdJwtEstablished(v, issued)
  <2>1. FlagsVerdict(SdJwtFlags(p, t, clock)) = "valid"
    BY <1>2, <1>6 DEF FormatVerdict
  <2>2. t # NONE => t.nonce = v.sub
    BY <1>3, LookupFacts
  <2>. QED
    BY <1>1, <1>4, <1>6, <2>1, <2>2, SdJwtValid DEF SdJwtEstablished, Signed
<1>. QED  BY <1>2, <1>3, <1>4, <1>5, <1>6 DEF Established

LEMMA VerifyInv ==
    ASSUME Inv, NEW source \in Sessions, NEW s \in Sessions \cup {NONE},
           NEW c \in Clients \cup {NONE}, Verify(source, s, c)
    PROVE  Inv'
<1>. DEFINE call(p, t) ==
              [step |-> IF s = NONE THEN "consumed" ELSE "verified",
               presentation |-> p, session |-> s, at |-> clock,
               sub |-> SubjectOf(s, t),
               aud |-> IF c # NONE THEN c ELSE t.client,
               nonce |-> NonceOf(p, t)]
            verdict(p, t) == Verdict(p, t, c, responseKey, clock)
<1>1. PICK p \in posted[source], t \in Lookup(s) :
        /\ c # NONE \/ t # NONE
        /\ \/ /\ verdict(p, t) = "invalid"
              /\ Respond(FALSE, call(p, t))
              /\ UNCHANGED calls
           \/ /\ verdict(p, t) = "valid"
              /\ calls' = calls \cup {call(p, t)}
              /\ UNCHANGED answers
  BY DEF Verify
<1>. DEFINE v == call(p, t)
<1>2. p \in Presentation /\ clock \in Nat
  BY DEF Inv, TypeOK
<1>3. v \in Call /\ v.at <= clock
  <2>1. (IF c # NONE THEN c ELSE t.client) \in Clients
    BY <1>1, LookupFacts DEF Request
  <2>2. NonceOf(p, t) \in Sessions \cup {NONE}
    BY <1>2, LookupFacts DEF NonceOf, Presentation, Proof, Context
  <2>3. SubjectOf(s, t) \in Sessions \cup {NONE}
    BY DEF SubjectOf
  <2>. QED  BY <1>2, <2>1, <2>2, <2>3 DEF Call
<1>4. UNCHANGED <<clock, issued, tx, posted, responseKey, signingKey, storing>>
  BY DEF Verify
<1>5. CASE verdict(p, t) = "invalid"
  <2>1. Respond(FALSE, v) /\ UNCHANGED calls
    BY <1>1, <1>5
  <2>. HIDE DEF v
  <2>2. answers' \subseteq Answer /\ \A a \in answers' : Recorded(a, issued, tx)
    BY <1>3, <2>1, Responded
  <2>. QED  BY <1>4, <2>1, <2>2, EndpointInv DEF Inv, TypeOK, Begun
<1>6. CASE verdict(p, t) = "valid"
  <2>1. calls' = calls \cup {v} /\ UNCHANGED answers
    BY <1>1, <1>6
  <2>2. Established(v, issued, tx)
    BY <1>1, <1>3, <1>6, VerifyEstablishes
  <2>3. Paid(v, tx)
    BY DEF Paid
  <2>. HIDE DEF v
  <2>. QED  BY <1>3, <1>4, <2>1, <2>2, <2>3, EndpointInv DEF Inv, TypeOK, Begun
<1>. QED  BY <1>1, <1>5, <1>6

\* A call that reaches another step has established the same.
LEMMA StepKept ==
    ASSUME NEW v \in Call, NEW step \in {"verified", "found", "consumed"}
    PROVE  /\ [v EXCEPT !.step = step] \in Call
           /\ Established(v, issued, tx) =>
                Established([v EXCEPT !.step = step], issued, tx)
           /\ tx[v.session].status # "none" => Paid([v EXCEPT !.step = step], tx)
BY DEF Call, Established, MdocEstablished, SdJwtEstablished, Paid

LEMMA FindInv ==
    ASSUME Inv, NEW v \in calls, Find(v)
    PROVE  Inv'
<1>. DEFINE w == [v EXCEPT !.step = "found"]
<1>1. /\ calls' = (calls \ {v}) \cup {w} /\ UNCHANGED answers
      /\ UNCHANGED <<clock, issued, tx, posted, responseKey, signingKey, storing>>
  BY DEF Find, Proceed
<1>2. v \in Call /\ Established(v, issued, tx) /\ v.at <= clock
  BY DEF Inv, TypeOK, Begun
<1>3. tx[v.session].status # "none"
  BY DEF Find, Found
<1>4. w \in Call /\ Established(w, issued, tx) /\ Paid(w, tx)
  BY <1>2, <1>3, StepKept
<1>5. w.at <= clock
  BY <1>2 DEF Call
<1>. HIDE DEF w
<1>. QED  BY <1>1, <1>4, <1>5, EndpointInv DEF Inv, TypeOK, Begun

LEMMA DeleteInv ==
    ASSUME Inv, NEW v \in calls, Delete(v)
    PROVE  Inv'
<1>. DEFINE w == [v EXCEPT !.step = "consumed"]
<1>1. /\ calls' = (calls \ {v}) \cup {w}
      /\ tx' = [tx EXCEPT ![v.session].status = "used"]
      /\ UNCHANGED <<clock, issued, posted, responseKey, signingKey, storing, answers>>
  BY DEF Delete, Proceed
<1>2. /\ v \in Call /\ v.session \in Sessions /\ v.at <= clock
      /\ tx \in [Sessions -> Transaction] /\ clock \in Nat
      /\ tx[v.session].status # "none"
  BY DEF Inv, TypeOK, Begun, Delete, Found, Call
<1>3. Kept
  BY <1>1, <1>2 DEF Inv, Held, Kept, Transaction
<1>4. w \in Call /\ Established(w, issued, tx) /\ Paid(w, tx)
  BY <1>2, StepKept DEF Inv
<1>5. w.at <= clock
  BY <1>2 DEF Call
<1>. HIDE DEF w
<1>6. \A x \in calls' : x \in Call /\ Established(x, issued, tx) /\ Paid(x, tx)
  BY <1>1, <1>4 DEF Inv, TypeOK
<1>7. \A x \in calls' : Established(x, issued', tx') /\ Paid(x, tx')
  BY <1>3, <1>6, EstablishedKept
<1>8. \A a \in answers' : Recorded(a, issued', tx')
  BY <1>1, <1>3, RecordKept DEF Inv, TypeOK
<1>9. TypeOK' /\ Begun'
  BY <1>1, <1>3, <1>5, <1>6 DEF Inv, TypeOK, Begun, Kept
<1>10. Underway'
  BY <1>1, <1>3 DEF Inv, TypeOK, Underway, Storing, Kept
<1>11. DeviceNamed' /\ Held' /\ Genuine'
  BY <1>1, <1>3 DEF Inv, DeviceNamed, Held, Genuine, Kept
<1>. QED  BY <1>7, <1>8, <1>9, <1>10, <1>11 DEF Inv

LEMMA AnswerCallInv ==
    ASSUME Inv, NEW v \in calls, AnswerCall(v)
    PROVE  Inv'
<1>1. /\ v \in Call /\ v.at <= clock /\ Established(v, issued, tx) /\ Paid(v, tx)
  BY DEF Inv, TypeOK, Begun
<1>2. /\ v.step = "consumed" /\ calls' = calls \ {v} /\ Respond(TRUE, v)
      /\ UNCHANGED <<clock, issued, tx, posted, responseKey, signingKey, storing>>
  BY DEF AnswerCall
<1>3. answers' \subseteq Answer /\ \A a \in answers' : Recorded(a, issued, tx)
  BY <1>1, <1>2, Responded
<1>. QED  BY <1>2, <1>3, EndpointInv DEF Inv, TypeOK, Begun

LEMMA FailInv ==
    ASSUME Inv, NEW v \in calls, Fail(v)
    PROVE  Inv'
<1>1. /\ calls' = calls \ {v} /\ UNCHANGED answers
      /\ UNCHANGED <<clock, issued, tx, posted, responseKey, signingKey, storing>>
  BY DEF Fail
<1>. QED  BY <1>1, EndpointInv DEF Inv, TypeOK, Begun

----------------------------------------------------------------------------
(* The theorems *)

LEMMA NextInv == Inv /\ [Next]_vars => Inv'
<1>. SUFFICES ASSUME Inv, [Next]_vars PROVE Inv'
  OBVIOUS
<1>1. ASSUME NEW t \in Catalogue, Issue(t) PROVE Inv'
  BY <1>1, IssueInv
<1>2. ASSUME NEW s \in Sessions, NEW c \in Clients, InitTransaction(s, c) PROVE Inv'
  BY <1>2, InitTransactionInv
<1>3. ASSUME NEW s \in Sessions, Fetch(s) PROVE Inv'
  BY <1>3, FetchInv
<1>4. ASSUME NEW s \in Sessions, Post(s) PROVE Inv'
  BY <1>4, PostInv
<1>5. ASSUME NEW source \in Sessions, NEW s \in Sessions \cup {NONE},
             NEW c \in Clients \cup {NONE}, Verify(source, s, c)
      PROVE  Inv'
  BY <1>5, VerifyInv
<1>6. ASSUME NEW c \in Clients, NEW n \in Sessions, VerifyDcApi(c, n) PROVE Inv'
  BY <1>6, VerifyDcApiInv
<1>7. ASSUME NEW replaced \in BOOLEAN, Restart(replaced) PROVE Inv'
  BY <1>7, RestartInv
<1>8. CASE Tick
  BY <1>8, TickInv
<1>9. ASSUME NEW u \in storing, StoreAnswer(u) PROVE Inv'
  BY <1>9, StoreAnswerInv
<1>10. ASSUME NEW v \in calls, Find(v) PROVE Inv'
  BY <1>10, FindInv
<1>11. ASSUME NEW v \in calls, Delete(v) PROVE Inv'
  BY <1>11, DeleteInv
<1>12. ASSUME NEW v \in calls, AnswerCall(v) PROVE Inv'
  BY <1>12, AnswerCallInv
<1>13. ASSUME NEW v \in calls, Fail(v) PROVE Inv'
  BY <1>13, FailInv
<1>14. CASE UNCHANGED vars
  BY <1>14 DEF vars, Inv, TypeOK, Held, DeviceNamed, Genuine, Underway, Signed, Begun
<1>. QED
  BY <1>1, <1>2, <1>3, <1>4, <1>5, <1>6, <1>7, <1>8, <1>9, <1>10, <1>11, <1>12,
     <1>13, <1>14 DEF Next

\* The inductive invariant holds in every reachable state.
THEOREM InvHolds == Spec => []Inv
<1>. QED  BY InitInv, NextInv, PTL DEF Spec

\* The values of the state have their types, whatever wallets present.
THEOREM TypeCorrect == Spec => []TypeOK
<1>1. Inv => TypeOK
  BY DEF Inv
<1>. QED  BY <1>1, InvHolds, PTL

\* A verified mDoc is vouched for end to end by a trusted authority and by the
\* holder of the credential, on both endpoints.
THEOREM MdocIsVouchedFor == Spec => []MdocVouchedFor
<1>1. ASSUME Inv PROVE MdocVouchedFor
  <2>. SUFFICES ASSUME NEW a \in Successes("mdoc")
                PROVE  \E c \in issued :
                  /\ c.authority \in TrustedCAs
                  /\ c.docType = a.attestation.docType
                  /\ WithinValidity(c, a.call.at)
                  /\ a.attestation.claims \subseteq c.hidden \cup AsJpeg(c.hidden)
                  /\ a.call.presentation.proof.kind = "signature"
                  /\ a.call.presentation.proof.device = c.device
                  /\ a.call.presentation.proof.over.nonce = a.attestation.nonce
                  /\ a.call.presentation.proof.over.client = a.attestation.aud
                  /\ a.call.presentation.proof.over.uri =
                       IF a.call.session = NONE THEN "client_id" ELSE "direct_post"
    BY DEF MdocVouchedFor
  <2>. DEFINE p == a.call.presentation
              c == p.content
  <2>1. Recorded(a, issued, tx) /\ a.success /\ p.format = "mdoc"
    BY <1>1 DEF Successes, Inv
  <2>2. MdocEstablished(a.call, issued)
    BY <2>1 DEF Recorded, Established
  <2>3. c \in issued
    BY <2>2 DEF MdocEstablished
  <2>4. Claims(p) = p.disclosed /\ TypeOf(p) = p.docType
    BY <2>1 DEF Claims, TypeOf
  <2>5. AsJpeg(p.disclosed) \subseteq AsJpeg(c.hidden)
    BY <2>2 DEF MdocEstablished, AsJpeg
  <2>6. a.attestation.claims \subseteq c.hidden \cup AsJpeg(c.hidden)
    BY <2>1, <2>2, <2>4, <2>5 DEF Recorded, MdocEstablished
  <2>. QED  BY <2>1, <2>2, <2>3, <2>4, <2>6 DEF Recorded, MdocEstablished
<1>. QED  BY <1>1, InvHolds, PTL

\* What a verified SD-JWT is worth, with or without a Key Binding JWT, whether
\* or not the JWT names a nonce and the lookup found the transaction.
THEOREM SdJwtIsVouchedFor == Spec => []SdJwtVouchedFor
<1>1. ASSUME Inv PROVE SdJwtVouchedFor
  <2>. SUFFICES ASSUME NEW a \in Successes("sdjwt")
                PROVE  LET p == a.call.presentation IN
                  \E c \in issued :
                    /\ c.authority \in TrustedCAs
                    /\ c.docType = a.attestation.docType
                    /\ NotExpired(c, a.call.at)
                    /\ a.attestation.claims \subseteq
                         p.disclosed \cup c.clear \cup AsJpeg(p.disclosed \cup c.clear)
                    /\ p.proof # NONE =>
                         /\ p.proof.device = c.device
                         /\ a.attestation.sub # NONE =>
                              p.proof.over.nonce \in {NONE, a.attestation.sub}
    BY DEF SdJwtVouchedFor
  <2>. DEFINE p == a.call.presentation
              c == p.content
  <2>1. Recorded(a, issued, tx) /\ a.success /\ p.format = "sdjwt"
    BY <1>1 DEF Successes, Inv
  <2>2. SdJwtEstablished(a.call, issued)
    BY <2>1 DEF Recorded, Established
  <2>3. c \in issued
    BY <2>2 DEF SdJwtEstablished
  <2>4. Claims(p) \subseteq p.disclosed \cup c.clear /\ TypeOf(p) = c.docType
    BY <2>1 DEF Claims, TypeOf
  <2>5. AsJpeg(Claims(p)) \subseteq AsJpeg(p.disclosed \cup c.clear)
    BY <2>4 DEF AsJpeg
  <2>6. a.attestation.claims \subseteq
          p.disclosed \cup c.clear \cup AsJpeg(p.disclosed \cup c.clear)
    BY <2>1, <2>4, <2>5 DEF Recorded
  <2>. QED  BY <2>1, <2>2, <2>3, <2>4, <2>6 DEF Recorded, SdJwtEstablished
<1>. QED  BY <1>1, InvHolds, PTL

\* An attestation outlives its credential by an attestation's life and the time
\* of the call at most. A subject that names a session is the state of the call,
\* with its nonce and its client, and no state is verified that was not opened.
THEOREM AttestationIsBound == Spec => []AttestationBound
<1>1. ASSUME Inv PROVE AttestationBound
  <2>. SUFFICES ASSUME NEW a \in answers, a.success
                PROVE  /\ Acceptable(a.attestation) =>
                            clock <= a.call.presentation.content.until + a.took
                                       + AttestationLife
                       /\ a.attestation.sub # NONE =>
                            /\ a.attestation.sub = a.call.session
                            /\ a.attestation.nonce = a.call.session
                            /\ a.attestation.aud = tx[a.call.session].client
                       /\ a.call.session # NONE => tx[a.call.session].status # "none"
    BY DEF AttestationBound
  <2>1. Recorded(a, issued, tx) /\ a \in Answer
    BY <1>1 DEF Inv, TypeOK
  <2>2. Established(a.call, issued, tx) /\ Paid(a.call, tx) /\ a.call.step = "consumed"
    BY <2>1 DEF Recorded
  <2>3. /\ clock \in Nat /\ AttestationLife \in Nat /\ a.call.at \in Nat
        /\ a.took \in Nat /\ a.call.presentation.content.until \in Nat
    BY <1>1, <2>1, PresentationAssumption
    DEF Inv, TypeOK, Answer, Call, Presentation, Credential
  <2>4. ASSUME Acceptable(a.attestation)
        PROVE  clock <= a.call.presentation.content.until + a.took + AttestationLife
    <3>1. clock <= a.attestation.exp
      BY <2>4 DEF Acceptable
    <3>2. a.attestation.exp = a.call.at + a.took + AttestationLife
      BY <2>1 DEF Recorded
    <3>3. a.call.at <= a.call.presentation.content.until
      BY <2>2 DEF Established
    <3>. QED  BY <2>3, <3>1, <3>2, <3>3
  <2>5. a.attestation.sub # NONE =>
          /\ a.attestation.sub = a.call.session
          /\ a.attestation.nonce = a.call.session
          /\ a.attestation.aud = tx[a.call.session].client
    BY <2>1, <2>2 DEF Recorded, Established
  <2>6. a.call.session # NONE => tx[a.call.session].status # "none"
    BY <2>2 DEF Paid
  <2>. QED  BY <2>4, <2>5, <2>6
<1>. QED  BY <1>1, InvHolds, PTL

\* The lookup of an open session returns its transaction.
LEMMA OpenFacts ==
    ASSUME Inv, NEW s \in Sessions, tx[s].status = "open"
    PROVE  /\ Found(s) /\ Stored(s) # NONE
           /\ Stored(s).client = tx[s].client /\ Stored(s).nonce = s
<1>1. Found(s)
  BY FormatsAssumption DEF Found
<1>2. tx[s].client \in Clients
  BY DEF Inv, Held
<1>3. Encrypted(s) \in BOOLEAN
  BY DEF Encrypted
<1>. QED  BY <1>1, <1>2, <1>3, FormatsAssumption DEF Stored, Request

\* The transcript that the device signs is the one that the service rebuilds.
LEMMA FaithfulMdoc ==
    ASSUME Inv, NEW s \in Sessions, NEW p \in Presentation, p.content \in issued,
           tx[s].status = "open", SharedSecret(s), p.content.format = "mdoc",
           IsFaithful(p, s), p.content.authority \in TrustedCAs,
           WithinValidity(p.content, clock)
    PROVE  p.format = "mdoc" /\ MdocVerdict(p, Stored(s), responseKey, clock) = "valid"
<1>. DEFINE c == p.content
            context == Transcript(Stored(s).client, Stored(s).nonce, "direct_post",
                                  Stored(s).encrypted, responseKey)
<1>1. p.disclosed \subseteq c.hidden
      /\ p = MdocPresentation(c, p.disclosed, DeviceAuth(c, s))
  BY DEF IsFaithful
<1>2. /\ p.format = "mdoc" /\ p.signedOver = c /\ p.chain = TRUE
      /\ p.docType = c.docType /\ p.proof = DeviceAuth(c, s)
  BY <1>1 DEF MdocPresentation
<1>3. /\ c \in Credential /\ c.device \in Devices /\ tx[s].client \in Clients
  BY DEF Inv, TypeOK, DeviceNamed, Held, Credential
<1>4. p.proof # NONE
  BY <1>2, <1>3, ProofsTyped, FormatsAssumption DEF Inv
<1>5. Stored(s) = [client |-> tx[s].client, nonce |-> s, encrypted |-> Encrypted(s)]
      /\ Stored(s) # NONE
  BY OpenFacts DEF Stored
<1>6. /\ p.proof.kind = "signature" /\ p.proof.device = c.device
      /\ p.proof.over = context
  BY <1>2, <1>5 DEF DeviceAuth, SharedSecret, Transcript
<1>7. DeviceSigned(p, context)
  BY <1>3, <1>4, <1>6, FormatsAssumption DEF DeviceSigned, HolderKeyMade
<1>8. LeafOf(p) = c.authority /\ LeafOf(p) # NONE
  BY <1>2, <1>3, FormatsAssumption DEF LeafOf, Credential
<1>9. MdocIntact(p, context)
  BY <1>1, <1>2, <1>7, <1>8 DEF MdocIntact, SignatureVerifies, DigestsMatch
<1>. QED  BY <1>2, <1>5, <1>8, <1>9 DEF MdocVerdict, ChainTrusted

LEMMA FaithfulSdJwt ==
    ASSUME Inv, NEW s \in Sessions, NEW p \in Presentation, p.content \in issued,
           tx[s].status = "open", p.content.format # "mdoc",
           IsFaithful(p, s), p.content.authority \in TrustedCAs,
           WithinValidity(p.content, clock)
    PROVE  /\ p.format = "sdjwt"
           /\ FlagsVerdict(SdJwtFlags(p, Stored(s), clock)) = "valid"
<1>. DEFINE c == p.content
<1>1. PICK bound \in BOOLEAN : /\ bound => c.device # NONE
                               /\ p = SdJwtPresentation(c, p.disclosed, bound, s)
  BY DEF IsFaithful
<1>2. /\ p.format = "sdjwt" /\ p.signedOver = c /\ p.chain = TRUE
      /\ p.proof = IF bound THEN KeyBindingJwt(c, s) ELSE NONE
  BY <1>1 DEF SdJwtPresentation
<1>3. c \in Credential /\ clock \in Nat
  BY DEF Inv, TypeOK
<1>4. LeafOf(p) = c.authority /\ LeafOf(p) # NONE
  BY <1>2, <1>3, FormatsAssumption DEF LeafOf, Credential
<1>5. KeyBound(p)
  <2>1. bound => c.device # NONE
    BY <1>1
  <2>2. KeyBindingJwt(c, s).device = c.device
    BY DEF KeyBindingJwt
  <2>. QED  BY <1>2, <2>1, <2>2 DEF KeyBound, HolderKeyMade
<1>6. SdJwtSigned(p) /\ ChainTrusted(p)
  BY <1>2, <1>4, <1>5 DEF SdJwtSigned, SignatureVerifies, ChainTrusted
<1>7. NotExpired(c, clock)
  BY <1>3 DEF NotExpired, WithinValidity, Credential
<1>8. Stored(s).nonce = s
  BY OpenFacts
<1>9. NonceMatches(p, Stored(s))
  BY <1>2, <1>8 DEF NonceMatches, KeyBindingJwt, Transcript
<1>10. AllHold(SdJwtFlags(p, Stored(s), clock))
  BY <1>6, <1>7, <1>9, Zenon DEF AllHold, SdJwtFlags
<1>. QED  BY <1>2, <1>10 DEF FlagsVerdict

\* An answer by the book verifies for its session, unless the response
\* encryption key has been replaced in between.
THEOREM FaithfulIsVerified == Spec => []FaithfulVerifiesUnlessRekeyed
<1>1. ASSUME Inv PROVE FaithfulVerifiesUnlessRekeyed
  <2>. SUFFICES ASSUME NEW s \in Sessions, NEW p \in posted[s],
                       tx[s].status = "open", SharedSecret(s), IsFaithful(p, s),
                       p.content.authority \in TrustedCAs,
                       WithinValidity(p.content, clock)
                PROVE  Verdict(p, Stored(s), tx[s].client, responseKey, clock) = "valid"
    BY DEF FaithfulVerifiesUnlessRekeyed
  <2>1. p \in Presentation /\ p.content \in issued
    BY <1>1 DEF Inv, TypeOK, IsFaithful
  <2>2. Stored(s).client = tx[s].client
    BY <1>1, OpenFacts
  <2>3. CASE p.content.format = "mdoc"
    BY <1>1, <2>1, <2>2, <2>3, FaithfulMdoc DEF Verdict, FormatVerdict
  <2>4. CASE p.content.format # "mdoc"
    BY <1>1, <2>1, <2>2, <2>4, FaithfulSdJwt DEF Verdict, FormatVerdict
  <2>. QED  BY <2>3, <2>4
<1>. QED  BY <1>1, InvHolds, PTL
=============================================================================
