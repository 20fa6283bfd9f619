-------------------------------- MODULE Dcql --------------------------------
(***************************************************************************)
(* How the query of a transaction comes about: the builders of             *)
(* crates/ewqwe-openid4vp/src/dcql.rs and typescript/ewqwe-digital-        *)
(* identity/src/dcql.ts, the profile, and the validation that a query      *)
(* passes before init_transaction stores it (DCQLQuery::is_valid, and      *)
(* isValidDCQLQuery for a relying party that checks before it sends).      *)
(*                                                                         *)
(* The validators are loops with sets of the identifiers seen so far; one  *)
(* step here is one round of a loop. WellFormed is what they should        *)
(* decide. Identifiers are abstract and fall into three classes. The       *)
(* grouping of claim_sets and options into lists makes no difference to    *)
(* a validator: they are the sets of the identifiers they refer to.        *)
(***************************************************************************)
EXTENDS Naturals, Sequences

CONSTANTS
    Ascii,       \* identifiers of [A-Za-z0-9_-]+
    Unicode,     \* other identifiers of letters and digits, - and _
    Malformed,   \* the empty identifier, and those with other characters
    AgeClaim,    \* age_over_N
    BuiltId,     \* the id of the one credential query that a builder makes
    FallbackId,  \* mdl_age_proof
    ClaimLists,  \* the selections of claims a user makes
    Supplied,    \* queries that a relying party writes itself
    NONE         \* an absent optional member

Id == Ascii \cup Unicode \cup Malformed

----------------------------------------------------------------------------
\* The credential types of the backend, and one that only the client library
\* knows (its others are mDocs and SD-JWTs like these).
BackendTypes == {"mdl", "national-id", "proof-of-age", "france-identite-numerique"}
ClientTypes == BackendTypes \cup {"national-id-sd-jwt"}

Mdoc(docType, namespace) ==
    [format |-> "mso_mdoc", type |-> docType, prefix |-> <<namespace>>]

Config == [t \in BackendTypes |->
    CASE t = "mdl" -> Mdoc("org.iso.18013.5.1.mDL", "org.iso.18013.5.1")
      [] t = "proof-of-age" -> Mdoc("eu.europa.ec.av.1", "eu.europa.ec.av.1")
      [] OTHER -> Mdoc("eu.europa.ec.eudi.pid.1", "eu.europa.ec.eudi.pid.1")]

\* The client names an SD-JWT by its vct, and its claims without a namespace.
ClientConfig == [t \in ClientTypes |->
    IF t \in BackendTypes THEN Config[t]
    ELSE [format |-> "dc+sd-jwt", type |-> "urn:eudi:pid:1", prefix |-> <<>>]]

Profiles == {"haip", "haip-x509-san-dns", "annex-a"}

DetermineProfile(type, explicit) ==
    IF explicit # NONE THEN explicit
    ELSE IF type = "proof-of-age" THEN "annex-a" ELSE "haip"

RequiresJar(profile) == profile # "annex-a"

----------------------------------------------------------------------------
Formats == {"mso_mdoc", "dc+sd-jwt"}
TypeNames == {ClientConfig[t].type : t \in ClientTypes}
Prefixes == {ClientConfig[t].prefix : t \in ClientTypes}

\* claim: a Claims Path Pointer, and an id that claim_sets may refer to.
Claim == [id : Id \cup {NONE}, prefix : Prefixes, name : Id]

\* A query is foreign when the client's type admits a member that the server's
\* type does not: nested type_values, an authority of another type, a negative
\* index in a path.
CredentialQuery ==
    [id : Id, format : Formats, type : TypeNames, foreign : BOOLEAN,
     claims : {NONE} \cup Seq(Claim), claimSets : {NONE} \cup SUBSET Id,
     authorities : {"absent", "empty", "some"}]

Query ==
    [credentials : Seq(CredentialQuery),
     credentialSets : {NONE} \cup SUBSET (SUBSET Id)]

ASSUME DcqlAssumption ==
    /\ Ascii \cap Malformed = {} /\ Unicode \cap Malformed = {}
    /\ Ascii \cap Unicode = {}
    /\ {AgeClaim, BuiltId, FallbackId} \subseteq Ascii /\ BuiltId # FallbackId
    /\ ClaimLists \subseteq Seq(Id)
    /\ Supplied \subseteq Query
    /\ NONE \notin Id \cup Profiles \cup ClientTypes

----------------------------------------------------------------------------
\* A credential query with the given claims and nothing else.
Single(id, config, claims) ==
    [id |-> id, format |-> config.format, type |-> config.type, foreign |-> FALSE,
     claims |-> claims, claimSets |-> NONE, authorities |-> "absent"]

AgeOnly(id, config) ==
    Single(id, config, <<[id |-> NONE, prefix |-> config.prefix, name |-> AgeClaim]>>)

\* build_age_verification_query, get_default_age_verification_dcql and the
\* query for an mDL, by the type of the request.
DefaultFor(type) ==
    [credentials |-> <<AgeOnly(BuiltId, Config[type])>>, credentialSets |-> NONE]

\* build_age_verification_query_with_fallback.
WithFallback ==
    [credentials |-> <<AgeOnly(BuiltId, Config["proof-of-age"]),
                       AgeOnly(FallbackId, Config["mdl"])>>,
     credentialSets |-> {{BuiltId, FallbackId}}]

\* MUTANT: the namespace of every claim is the document type.
NamespaceIsDocType(config, names) ==
    [n \in DOMAIN names |->
        [id |-> names[n], prefix |-> <<config.type>>, name |-> names[n]]]

\* A claim is named by its own identifier.
ClaimsNamed(config, names) ==
    [n \in DOMAIN names |->
        [id |-> names[n], prefix |-> config.prefix, name |-> names[n]]]

WithClaims(config, names) ==
    [credentials |-> <<Single(BuiltId, config, ClaimsNamed(config, names))>>,
     credentialSets |-> NONE]

\* build_dcql_for_credential_type_with_claims: no claims means the default.
AppQuery(type, names) ==
    IF names = <<>> THEN DefaultFor(type) ELSE WithClaims(Config[type], names)

\* An absent list of claims is no list.
ASSUME AbsentAssumption ==
    \A t \in ClientTypes, names \in ClaimLists :
        ClaimsNamed(ClientConfig[t], names) # NONE

\* buildInitTransactionRequest: no claims means no claims.
ClientQuery(type, names) == WithClaims(ClientConfig[type], names)

----------------------------------------------------------------------------
VARIABLES
    haip,        \* whether the service has the JAR keys that HAIP needs
    asked,       \* who asked, for which type and which claims
    profile,     \* the profile of the request
    query,       \* the query that is validated
    side,        \* which validator runs
    prechecked,  \* whether the relying party's validator accepted the query
    step, i, j,  \* the place in the validator's loops
    credIds,     \* seen_cred_ids
    claimIds     \* seen_claim_ids

request == <<asked, profile, query>>
vars == <<haip, request, side, prechecked, step, i, j, credIds, claimIds>>

Asked == [by : {"app", "client", "party"}, type : ClientTypes \cup {NONE},
          claims : {NONE} \cup ClaimLists]

\* Nothing is under way.
Idle ==
    /\ step = "idle" /\ i = 1 /\ j = 1
    /\ credIds = {} /\ claimIds = {}
    /\ side = "server" /\ prechecked = FALSE
    /\ asked = NONE /\ profile = NONE /\ query = NONE

Init == haip \in BOOLEAN /\ Idle

\* A request arrives; from is the first validator that looks at it.
Begin(who, wanted, q, explicit, from) ==
    /\ asked' = who
    /\ query' = q
    /\ profile' = DetermineProfile(wanted, explicit)
    /\ side' = from
    /\ step' = "start"
    /\ UNCHANGED <<haip, prechecked, i, j, credIds, claimIds>>

\* POST of generate_qr: the Verifier App asks for a known type.
AppAsks(type, names) ==
    /\ step = "idle"
    /\ Begin([by |-> "app", type |-> type, claims |-> names], type,
             AppQuery(type, names), NONE, "server")

\* A relying party asks with the client library.
ClientAsks(type, names, explicit) ==
    /\ step = "idle"
    /\ Begin([by |-> "client", type |-> type, claims |-> names], type,
             ClientQuery(type, names), explicit, "server")

\* A relying party asks with a query of its own, which it may check first, or
\* with none: the default is that of the type, or of proof-of-age.
PartyAsks(type, q, explicit, from) ==
    /\ step = "idle"
    /\ Begin([by |-> "party", type |-> type, claims |-> NONE], type,
             IF q # NONE THEN q
             ELSE DefaultFor(IF type = NONE THEN "proof-of-age" ELSE type),
             explicit, from)

----------------------------------------------------------------------------
\* MUTANT: the two sides swap what they take for alphanumeric.
AlphabetsSwapped(s) == IF s = "server" THEN Ascii ELSE Ascii \cup Unicode

\* The server takes every alphanumeric character, the client only ASCII ones.
Alphabet(s) == IF s = "server" THEN Ascii \cup Unicode ELSE Ascii

Reject ==
    /\ step' = "rejected"
    /\ UNCHANGED <<haip, request, side, prechecked, i, j, credIds, claimIds>>

\* The body of a request is deserialized before the handler runs.
Unparsed ==
    /\ side = "server"
    /\ \E n \in DOMAIN query.credentials : query.credentials[n].foreign

\* The service looks for the keys of the profile before it validates.
Unconfigured == side = "server" /\ RequiresJar(profile) /\ ~ haip

Start ==
    /\ step = "start"
    /\ IF Unparsed \/ Unconfigured \/ query.credentials = <<>> THEN Reject
       ELSE /\ step' = "credential" /\ i' = 1 /\ credIds' = {}
            /\ UNCHANGED <<haip, request, side, prechecked, j, claimIds>>

\* Everything that is checked of a credential query before its claims.
HeadSound(c, seen) ==
    /\ c.id \in Alphabet(side)
    /\ c.id \notin seen
    /\ c.authorities # "empty"
    /\ c.claimSets # NONE => c.claims # NONE

\* MUTANT: the claim ids of the credential queries before are kept.
KeepClaimIds(c) ==
    /\ credIds' = credIds \cup {c.id}
    /\ IF c.claims = NONE THEN step' = "credential" /\ i' = i + 1 /\ UNCHANGED j
       ELSE step' = "claim" /\ j' = 1 /\ UNCHANGED i
    /\ UNCHANGED claimIds

\* On to the claims of this credential query, or to the next query.
EnterClaims(c) ==
    /\ credIds' = credIds \cup {c.id}
    /\ IF c.claims = NONE THEN step' = "credential" /\ i' = i + 1 /\ UNCHANGED j
       ELSE step' = "claim" /\ j' = 1 /\ UNCHANGED i
    /\ claimIds' = {}

CheckCredential ==
    /\ step = "credential" /\ i \in DOMAIN query.credentials
    /\ LET c == query.credentials[i] IN
         IF HeadSound(c, credIds)
         THEN EnterClaims(c) /\ UNCHANGED <<haip, request, side, prechecked>>
         ELSE Reject

\* MUTANT: a claim without an id is remembered too.
SeenWithAbsent(claim) == claimIds \cup {claim.id}

\* The ids seen after this claim.
Seen(claim) == claimIds \cup ({claim.id} \ {NONE})

CheckClaim ==
    /\ step = "claim" /\ j \in DOMAIN query.credentials[i].claims
    /\ LET claim == query.credentials[i].claims[j] IN
         IF claim.id = NONE \/ (claim.id \in Alphabet(side) /\ claim.id \notin claimIds)
         THEN /\ claimIds' = Seen(claim) /\ j' = j + 1
              /\ UNCHANGED <<haip, request, side, prechecked, step, i, credIds>>
         ELSE Reject

\* When claim_sets is there every claim has an id, and every reference one.
ClaimSetsSound(c) ==
    c.claimSets # NONE =>
      /\ \A n \in DOMAIN c.claims : c.claims[n].id # NONE
      /\ c.claimSets \subseteq claimIds

CheckClaimSets ==
    /\ step = "claim" /\ j \notin DOMAIN query.credentials[i].claims
    /\ IF ClaimSetsSound(query.credentials[i])
       THEN /\ step' = "credential" /\ i' = i + 1
            /\ UNCHANGED <<haip, request, side, prechecked, j, credIds, claimIds>>
       ELSE Reject

\* A query that passed the relying party's check is sent to the server.
Accept ==
    /\ prechecked' = (side = "client")
    /\ IF side = "client" THEN step' = "start" /\ side' = "server"
       ELSE step' = "accepted" /\ UNCHANGED side
    /\ UNCHANGED <<haip, request, i, j, credIds, claimIds>>

CredentialSetsSound ==
    query.credentialSets # NONE =>
      query.credentialSets # {} /\ UNION query.credentialSets \subseteq credIds

CheckCredentialSets ==
    /\ step = "credential" /\ i \notin DOMAIN query.credentials
    /\ IF CredentialSetsSound THEN Accept ELSE Reject

\* The answer is given: the transaction is stored, or the request refused.
Answer ==
    /\ step \in {"accepted", "rejected"}
    /\ step' = "idle" /\ i' = 1 /\ j' = 1
    /\ credIds' = {} /\ claimIds' = {}
    /\ side' = "server" /\ prechecked' = FALSE
    /\ asked' = NONE /\ profile' = NONE /\ query' = NONE
    /\ UNCHANGED haip

Next ==
    \/ \E t \in BackendTypes, names \in ClaimLists : AppAsks(t, names)
    \/ \E t \in ClientTypes, names \in ClaimLists,
          p \in {NONE, "haip-x509-san-dns"} : ClientAsks(t, names, p)
    \/ \E t \in BackendTypes \cup {NONE}, q \in Supplied \cup {WithFallback, NONE},
          p \in Profiles \cup {NONE}, from \in {"client", "server"} :
          (q = NONE => from = "server") /\ PartyAsks(t, q, p, from)
    \/ Start \/ CheckCredential \/ CheckClaim \/ CheckClaimSets
    \/ CheckCredentialSets \/ Answer

Spec == Init /\ [][Next]_vars

----------------------------------------------------------------------------
\* The values of the state have their types.
TypeOK ==
    /\ haip \in BOOLEAN /\ prechecked \in BOOLEAN
    /\ asked \in {NONE} \cup Asked
    /\ profile \in Profiles \cup {NONE}
    /\ query \in {NONE} \cup Query
    /\ side \in {"client", "server"}
    /\ step \in {"idle", "start", "credential", "claim", "accepted", "rejected"}
    /\ i \in Nat /\ j \in Nat
    /\ credIds \subseteq Id /\ claimIds \subseteq Id

\* No two members of a list have one id; an absent id is no id.
DistinctIds(list) ==
    \A m, n \in DOMAIN list :
        list[m].id # NONE /\ list[m].id = list[n].id => m = n

IdsOf(list) == {list[n].id : n \in DOMAIN list}

ClaimsWellFormed(c, alphabet) ==
    /\ \A n \in DOMAIN c.claims : c.claims[n].id \in alphabet \cup {NONE}
    /\ DistinctIds(c.claims)
    /\ c.claimSets # NONE => NONE \notin IdsOf(c.claims) /\ c.claimSets \subseteq IdsOf(c.claims)

CredentialWellFormed(c, alphabet) ==
    /\ c.id \in alphabet
    /\ c.authorities # "empty"
    /\ c.claimSets # NONE => c.claims # NONE
    /\ c.claims # NONE => ClaimsWellFormed(c, alphabet)

\* The rules of OpenID4VP that the comments of both validators list.
WellFormed(q, alphabet) ==
    /\ q.credentials # <<>>
    /\ \A n \in DOMAIN q.credentials : CredentialWellFormed(q.credentials[n], alphabet)
    /\ DistinctIds(q.credentials)
    /\ q.credentialSets # NONE =>
         /\ q.credentialSets # {}
         /\ UNION q.credentialSets \subseteq IdsOf(q.credentials)

(***************************************************************************)
(* The loops of a validator decide the rules: a query is accepted only     *)
(* when it is well-formed, and refused only when it is not, when the body  *)
(* does not deserialize or the service has no keys for the profile         *)
(* (DCQLQuery::is_valid, isValidDCQLQuery, init_transaction).              *)
(***************************************************************************)
VerdictIsWellFormedness ==
    /\ step = "accepted" => WellFormed(query, Alphabet("server"))
    /\ step = "rejected" =>
         Unparsed \/ Unconfigured \/ ~ WellFormed(query, Alphabet(side))

(***************************************************************************)
(* What the client's validator lets pass the server's lets pass as well:   *)
(* a query that the relying party has checked is refused only for a member *)
(* outside the server's types, which the client's validator does not look  *)
(* at, or for want of keys (isValidDCQLQuery, DCQLQuery::is_valid).        *)
(***************************************************************************)
PrecheckedIsServed ==
    step = "rejected" /\ prechecked => Unparsed \/ Unconfigured

\* What a selection of claims stands for, and whether it can be a query.
Wanted(config, names) ==
    {[prefix |-> config.prefix, name |-> names[n]] : n \in DOMAIN names}

Selectable(names) ==
    /\ \A n \in DOMAIN names : names[n] \in Alphabet("server")
    /\ \A m, n \in DOMAIN names : names[m] = names[n] => m = n

\* What a query asks of the one credential that it names.
Requested(c) ==
    {[prefix |-> c.claims[n].prefix, name |-> c.claims[n].name] : n \in DOMAIN c.claims}

(***************************************************************************)
(* The selection of a user reaches the wallet: whether the Verifier App    *)
(* or the client library built the query, it is stored exactly when the    *)
(* selected claims are well-named and distinct (and the keys are there),   *)
(* and it then asks for one credential of the selected type and for the    *)
(* selected claims of it, the age claim when the Verifier App selected     *)
(* none (build_dcql_for_credential_type_with_claims,                       *)
(* buildInitTransactionRequest).                                           *)
(***************************************************************************)
SelectionIsAsked ==
    asked # NONE /\ asked.by \in {"app", "client"} =>
      LET config == ClientConfig[asked.type]
          names == IF asked.by = "app" /\ asked.claims = <<>>
                   THEN <<AgeClaim>> ELSE asked.claims
      IN
        /\ step = "rejected" => Unconfigured \/ ~ Selectable(names)
        /\ step = "accepted" =>
             /\ Selectable(names)
             /\ Len(query.credentials) = 1
             /\ query.credentials[1].type = config.type
             /\ Requested(query.credentials[1]) = Wanted(config, names)
=============================================================================
