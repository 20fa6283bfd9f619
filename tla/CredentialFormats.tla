------------------------- MODULE CredentialFormats -------------------------
(***************************************************************************)
(* The credential formats of crates/ewqwe-digital-credential and the       *)
(* verification pipeline of crates/ewqwe-openid4vp/src/verification.rs:    *)
(* what an issuing authority signs, what a wallet presents of it, and what *)
(* the verifier concludes from a presentation.                             *)
(*                                                                         *)
(* Cryptography is symbolic. A presentation carries, beside its content,   *)
(* the content its issuer signature was made over; the signature verifies  *)
(* when the two are the same. A digest stands for the item it is taken of. *)
(* A holder proof names the key that made it and the context it is over.   *)
(***************************************************************************)
EXTENDS Integers, FiniteSets

CONSTANTS
    Authorities,    \* issuing authorities, each the CA of its issuer leaf
    TrustedCAs,     \* the authorities whose CA is in issuers_cas_dir
    Devices,        \* holder keys
    DocTypes,       \* doctypes and vct values
    Names, Values,  \* claim names and claim values
    Sessions,       \* nonces: one for each transaction
    Clients,        \* client_id values
    HaipClients,    \* those of a HAIP profile: x509_hash, x509_san_dns
    NONE,           \* "no value": an Option that is None
    JP2, JPEG,      \* a portrait in JPEG 2000, and what it is converted to
    Portrait        \* the claim name of a portrait

----------------------------------------------------------------------------
\* One claim: an IssuerSignedItem, a disclosure or a member of the payload.
Item == [name : Names, value : Values]

(***************************************************************************)
(* What an authority signs. An mDoc's MobileSecurityObject holds digests   *)
(* only (hidden); an SD-JWT payload holds clear claims and the digests of  *)
(* its disclosures (_sd). device is deviceKey or cnf.jwk.                  *)
(***************************************************************************)
Credential ==
    [format : {"mdoc", "sdjwt"}, authority : Authorities, docType : DocTypes,
     clear : SUBSET Item, hidden : SUBSET Item, device : Devices \cup {NONE},
     from : Nat, until : Nat]

\* A credential as an issuing authority builds it at the given time: an mDoc
\* is valid from the moment of issuance, and both formats for a lifetime.
Built(template, now, lifetime) ==
    [format |-> template.format, authority |-> template.authority,
     docType |-> template.docType, clear |-> template.clear,
     hidden |-> template.hidden, device |-> template.device,
     from |-> now, until |-> now + lifetime]

\* The OpenID4VP handover: client, nonce, response_uri, and the thumbprint of
\* the response encryption key when the response mode encrypts. The uri is the
\* endpoint direct_post, or repeats the client_id (dc_api/verify).
Transcript(client, nonce, uri, encrypted, thumbprint) ==
    [client |-> client, nonce |-> nonce, uri |-> uri,
     thumbprint |-> IF encrypted THEN thumbprint ELSE NONE]

\* What a proof is over. A Key Binding JWT may have no nonce.
Context == [client : Clients, nonce : Sessions \cup {NONE},
            uri : {"direct_post", "client_id"}, thumbprint : Nat \cup {NONE}]

\* What a verification takes from the stored transaction.
Request == [client : Clients, nonce : Sessions, encrypted : BOOLEAN]

Proof == [kind : {"signature", "mac"}, device : Devices, over : Context]

\* One presentation inside a VP token. chain is the x5chain or x5c header, and
\* for a direct JSON presentation the naming of an issuer.
Presentation ==
    [format : {"mdoc", "sdjwt", "json"}, docType : DocTypes,
     content : Credential, signedOver : Credential \cup {NONE},
     disclosed : SUBSET Item, chain : BOOLEAN, proof : Proof \cup {NONE}]

ASSUME FormatsAssumption ==
    /\ TrustedCAs \subseteq Authorities
    /\ JP2 \in Values /\ JPEG \in Values
    /\ HaipClients \subseteq Clients
    /\ NONE \notin Authorities \cup Devices \cup Sessions \cup Clients \cup Nat
    /\ NONE \notin Credential \cup Proof \cup Request

----------------------------------------------------------------------------
\* The leaf certificate of the x5chain or x5c header has the verifying key.
LeafOf(p) == IF p.chain THEN p.content.authority ELSE NONE

\* The signature over the payload verifies with the key of the leaf.
SignatureVerifies(p) == LeafOf(p) # NONE /\ p.signedOver = p.content

\* The chain ends at a CA of the trusted directory.
ChainTrusted(p) == LeafOf(p) \in TrustedCAs

\* MUTANT: a digest is looked up by its digestID alone, and never compared.
DigestsByName(p) ==
    {i.name : i \in p.disclosed} \subseteq {i.name : i \in p.content.hidden}

\* Every disclosed item has its digest in the MobileSecurityObject.
DigestsMatch(p) == p.disclosed \subseteq p.content.hidden

\* MUTANT: any holder key will do for the proof.
HolderKeyNamed(p) == p.content.device # NONE

\* The proof verifies with the holder key that the authority signed.
HolderKeyMade(p) == p.content.device # NONE /\ p.proof.device = p.content.device

\* validFrom <= now <= validUntil.
WithinValidity(c, now) == c.from <= now /\ now <= c.until
NotExpired(c, now) == ~ (c.until < now)

\* The device signed the transcript of this very request; a MAC is refused.
DeviceSigned(p, context) ==
    /\ p.proof # NONE
    /\ p.proof.kind = "signature"
    /\ HolderKeyMade(p)
    /\ p.proof.over = context

(***************************************************************************)
(* verify_mdoc_presentation returns a result for an mDoc that is intact,   *)
(* with a flag for its trust and one for its validity, and an error for    *)
(* any other. A namespace may have no item.                                *)
(***************************************************************************)
MdocIntact(p, context) ==
    /\ SignatureVerifies(p)
    /\ p.content.docType = p.docType
    /\ DigestsMatch(p)
    /\ DeviceSigned(p, context)

\* Without a Key Binding JWT there is no holder signature to check.
KeyBound(p) == p.proof = NONE \/ HolderKeyMade(p)

\* The signatures of an SD-JWT VC.
SdJwtSigned(p) == SignatureVerifies(p) /\ KeyBound(p)

\* The nonce of a presentation is compared when it has one: without a Key Binding
\* JWT, or with one that names none, there is nothing to compare.
NonceMatches(p, tx) ==
    p.proof = NONE \/ p.proof.over.nonce \in {NONE, tx.nonce}

\* The four flags of an SD-JWT VC; tx is the transaction that the lookup found
\* and NONE when it found none.
SdJwtFlags(p, tx, now) ==
    [signature |-> SdJwtSigned(p),
     trusted   |-> ChainTrusted(p),
     fresh     |-> NotExpired(p.content, now),
     nonce     |-> tx = NONE \/ NonceMatches(p, tx)]

\* The flags of a direct JSON presentation, which has no signature to check.
JsonFlags(p, now) ==
    [signature |-> TRUE, trusted |-> p.chain,
     fresh |-> NotExpired(p.content, now), nonce |-> TRUE]

AllHold(flags) ==
    flags.signature /\ flags.trusted /\ flags.fresh /\ flags.nonce

\* An mDoc needs the transaction, whose transcript it must be made for, and has
\* no outcome "invalid". thumbprint is that of the service's key now.
MdocVerdict(p, tx, thumbprint, now) ==
    IF /\ tx # NONE
       /\ MdocIntact(p, Transcript(tx.client, tx.nonce, "direct_post",
                                   tx.encrypted, thumbprint))
       /\ WithinValidity(p.content, now)
       /\ ChainTrusted(p)
    THEN "valid" ELSE "error"

FlagsVerdict(flags) == IF AllHold(flags) THEN "valid" ELSE "invalid"

FormatVerdict(p, tx, thumbprint, now) ==
    CASE p.format = "mdoc"  -> MdocVerdict(p, tx, thumbprint, now)
      [] p.format = "sdjwt" -> FlagsVerdict(SdJwtFlags(p, tx, now))
      [] p.format = "json"  -> FlagsVerdict(JsonFlags(p, now))

(***************************************************************************)
(* The conclusion: "error" is an Err (HTTP 400), the others are results.   *)
(***************************************************************************)
Verdict(p, tx, client, thumbprint, now) ==
    IF tx # NONE /\ client # NONE /\ client # tx.client THEN "error"
    ELSE FormatVerdict(p, tx, thumbprint, now)

\* The claims of the result. A disclosure is inserted over a clear claim of
\* the same name, whatever the _sd digests of the payload say.
Claims(p) ==
    IF p.format = "sdjwt"
      THEN p.disclosed \cup
           {i \in p.content.clear : \A d \in p.disclosed : d.name # i.name}
      ELSE p.disclosed

TypeOf(p) == IF p.format = "sdjwt" THEN p.content.docType ELSE p.docType

\* A JPEG 2000 portrait becomes a JPEG one.
AsJpeg(items) ==
    {IF i.name = Portrait /\ i.value = JP2 THEN [i EXCEPT !.value = JPEG] ELSE i
       : i \in items}
=============================================================================
