----------------------------- MODULE DcqlProofs -----------------------------
(***************************************************************************)
(* Proofs about Dcql, for any identifiers, any selections of claims and    *)
(* any queries of relying parties. The inductive invariant Inv says of the *)
(* loops what they have established so far: AtCredential before a round of *)
(* the loop over the credential queries, AtClaim before a round of the     *)
(* loop over the claims of one.                                            *)
(***************************************************************************)
EXTENDS Dcql, TLAPS

----------------------------------------------------------------------------
(* What the loops have established *)

\* The first n credential queries are well-formed.
Checked(n) ==
    \A k \in 1..n : CredentialWellFormed(query.credentials[k], Alphabet(side))

\* Those among the first n have distinct ids, and these are the ids seen.
SeenTo(n) ==
    /\ \A k, l \in 1..n : query.credentials[k].id = query.credentials[l].id => k = l
    /\ credIds = {query.credentials[k].id : k \in 1..n}

AtCredential ==
    /\ query.credentials # <<>>
    /\ i \in 1..(Len(query.credentials) + 1)
    /\ Checked(i - 1) /\ SeenTo(i - 1)

\* The claims before the j-th of the credential query c.
ClaimsBefore(c) ==
    /\ j \in 1..(Len(c.claims) + 1)
    /\ \A k \in 1..(j - 1) : c.claims[k].id \in Alphabet(side) \cup {NONE}
    /\ \A k, l \in 1..(j - 1) :
         c.claims[k].id # NONE /\ c.claims[k].id = c.claims[l].id => k = l
    /\ claimIds = {c.claims[k].id : k \in 1..(j - 1)} \ {NONE}

AtClaim ==
    /\ query.credentials # <<>>
    /\ i \in 1..Len(query.credentials)
    /\ Checked(i - 1) /\ SeenTo(i)
    /\ query.credentials[i].id \in Alphabet(side)
    /\ query.credentials[i].authorities # "empty"
    /\ query.credentials[i].claims # NONE
    /\ ClaimsBefore(query.credentials[i])

\* What the request says of its query.
RequestKept ==
    /\ asked \in Asked /\ query \in Query
    /\ asked.by = "app" =>
         /\ side = "server" /\ asked.type \in BackendTypes
         /\ asked.claims \in ClaimLists /\ query = AppQuery(asked.type, asked.claims)
    /\ asked.by = "client" =>
         /\ side = "server" /\ asked.type \in ClientTypes
         /\ asked.claims \in ClaimLists /\ query = ClientQuery(asked.type, asked.claims)

Inv ==
    /\ TypeOK
    /\ step = "idle" => asked = NONE /\ ~ prechecked
    /\ step # "idle" => RequestKept
    /\ prechecked => side = "server" /\ WellFormed(query, Ascii)
    /\ step = "credential" => AtCredential
    /\ step = "claim" => AtClaim
    /\ VerdictIsWellFormedness

----------------------------------------------------------------------------
(* Facts about the definitions *)

LEMMA ConfigFacts ==
    /\ BackendTypes \subseteq ClientTypes
    /\ \A t \in BackendTypes : Config[t] = ClientConfig[t]
    /\ \A t \in ClientTypes : /\ ClientConfig[t].format \in Formats
                              /\ ClientConfig[t].type \in TypeNames
                              /\ ClientConfig[t].prefix \in Prefixes
<1>1. BackendTypes \subseteq ClientTypes
  BY DEF ClientTypes
<1>2. \A t \in BackendTypes : Config[t] = ClientConfig[t]
  BY <1>1, Zenon DEF ClientConfig
<1>3. \A t \in ClientTypes : ClientConfig[t].type \in TypeNames /\ ClientConfig[t].prefix \in Prefixes
  BY Zenon DEF TypeNames, Prefixes
<1>4. \A t \in ClientTypes : ClientConfig[t].format \in Formats
  <2>. TAKE t \in ClientTypes
  <2>1. CASE t \in BackendTypes
    <3>1. Config[t].format = "mso_mdoc"
      BY <2>1 DEF Config, Mdoc, BackendTypes
    <3>. QED  BY <3>1, <2>1, <1>2 DEF Formats
  <2>2. CASE t \notin BackendTypes
    BY <2>2 DEF ClientConfig, Formats
  <2>. QED  BY <2>1, <2>2
<1>. QED  BY <1>1, <1>2, <1>3, <1>4

\* A builder's credential query has its type.
LEMMA SingleTyped ==
    ASSUME NEW id \in Id, NEW t \in ClientTypes, NEW claims \in Seq(Claim)
    PROVE  Single(id, ClientConfig[t], claims) \in CredentialQuery
BY ConfigFacts DEF Single, CredentialQuery

LEMMA AgeOnlyTyped ==
    ASSUME NEW id \in Id, NEW t \in BackendTypes
    PROVE  AgeOnly(id, Config[t]) \in CredentialQuery
<1>1. AgeClaim \in Id
  BY DcqlAssumption DEF Id
<1>2. [id |-> NONE, prefix |-> Config[t].prefix, name |-> AgeClaim] \in Claim
  BY <1>1, ConfigFacts DEF Claim
<1>3. <<[id |-> NONE, prefix |-> Config[t].prefix, name |-> AgeClaim]>> \in Seq(Claim)
  BY <1>2
<1>. QED  BY <1>3, SingleTyped, ConfigFacts DEF AgeOnly

LEMMA ClaimsNamedTyped ==
    ASSUME NEW t \in ClientTypes, NEW names \in Seq(Id)
    PROVE  ClaimsNamed(ClientConfig[t], names) \in Seq(Claim)
<1>1. DOMAIN names = 1..Len(names) /\ Len(names) \in Nat
  OBVIOUS
<1>2. \A n \in 1..Len(names) :
        [id |-> names[n], prefix |-> ClientConfig[t].prefix, name |-> names[n]] \in Claim
  BY ConfigFacts DEF Claim
<1>. QED  BY <1>1, <1>2 DEF ClaimsNamed

\* Every query that the builders make has its type.
LEMMA BuiltTyped ==
    /\ WithFallback \in Query
    /\ \A t \in BackendTypes : DefaultFor(t) \in Query
    /\ \A t \in BackendTypes, names \in ClaimLists : AppQuery(t, names) \in Query
    /\ \A t \in ClientTypes, names \in ClaimLists : ClientQuery(t, names) \in Query
<1>. BuiltId \in Id /\ FallbackId \in Id
  BY DcqlAssumption DEF Id
<1>1. WithFallback \in Query
  <2>1. AgeOnly(BuiltId, Config["proof-of-age"]) \in CredentialQuery
    BY AgeOnlyTyped DEF BackendTypes
  <2>2. AgeOnly(FallbackId, Config["mdl"]) \in CredentialQuery
    BY AgeOnlyTyped DEF BackendTypes
  <2>3. {{BuiltId, FallbackId}} \in SUBSET (SUBSET Id)
    OBVIOUS
  <2>. QED  BY <2>1, <2>2, <2>3 DEF WithFallback, Query
<1>2. \A t \in BackendTypes : DefaultFor(t) \in Query
  BY AgeOnlyTyped DEF DefaultFor, Query
<1>3. \A t \in ClientTypes, names \in ClaimLists :
        WithClaims(ClientConfig[t], names) \in Query
  <2>. TAKE t \in ClientTypes, names \in ClaimLists
  <2>1. names \in Seq(Id)
    BY DcqlAssumption
  <2>2. Single(BuiltId, ClientConfig[t], ClaimsNamed(ClientConfig[t], names)) \in CredentialQuery
    BY <2>1, ClaimsNamedTyped, SingleTyped
  <2>. QED  BY <2>2 DEF WithClaims, Query
<1>. QED  BY <1>1, <1>2, <1>3, ConfigFacts DEF AppQuery, ClientQuery

LEMMA DetermineTyped ==
    ASSUME NEW wanted, NEW explicit \in Profiles \cup {NONE}
    PROVE  DetermineProfile(wanted, explicit) \in Profiles
BY DcqlAssumption DEF DetermineProfile, Profiles

LEMMA AlphabetFacts ==
    /\ \A s \in {"client", "server"} : Alphabet(s) \subseteq Id /\ NONE \notin Alphabet(s)
    /\ Alphabet("client") = Ascii /\ Ascii \subseteq Alphabet("server")
BY DcqlAssumption DEF Alphabet, Id

\* The client takes fewer identifiers than the server, so that what is
\* well-formed for it is well-formed for the server.
LEMMA ClientIsStricter ==
    ASSUME NEW q, WellFormed(q, Ascii)
    PROVE  WellFormed(q, Alphabet("server"))
<1>1. \A n \in DOMAIN q.credentials :
        CredentialWellFormed(q.credentials[n], Alphabet("server"))
  BY AlphabetFacts DEF WellFormed, CredentialWellFormed, ClaimsWellFormed
<1>. QED  BY <1>1 DEF WellFormed

----------------------------------------------------------------------------
(* The ends of the loops *)

\* The list of a query, and that of a credential query that has claims.
LEMMA ListFacts ==
    ASSUME Inv, step # "idle"
    PROVE  /\ query \in Query /\ side \in {"client", "server"}
           /\ query.credentials \in Seq(CredentialQuery)
           /\ \A n \in 1..Len(query.credentials) :
                /\ query.credentials[n].id \in Id
                /\ query.credentials[n].claims # NONE =>
                     query.credentials[n].claims \in Seq(Claim)
<1>1. query \in Query /\ side \in {"client", "server"}
  BY DEF Inv, RequestKept, TypeOK
<1>2. query.credentials \in Seq(CredentialQuery)
  BY <1>1 DEF Query
<1>3. ASSUME NEW n \in 1..Len(query.credentials)
      PROVE  /\ query.credentials[n].id \in Id
             /\ query.credentials[n].claims # NONE =>
                  query.credentials[n].claims \in Seq(Claim)
  <2>1. query.credentials[n] \in CredentialQuery
    BY <1>2
  <2>. QED  BY <2>1 DEF CredentialQuery
<1>. QED  BY <1>1, <1>2, <1>3

\* After the last round the ids seen are those of the list, and what is left
\* to check is credential_sets.
LEMMA QueryDone ==
    ASSUME Inv, step = "credential", i \notin DOMAIN query.credentials
    PROVE  CredentialSetsSound <=> WellFormed(query, Alphabet(side))
<1>1. AtCredential /\ i \in Nat
  BY DEF Inv, TypeOK
<1>2. Len(query.credentials) \in Nat /\ DOMAIN query.credentials = 1..Len(query.credentials)
  BY ListFacts
<1>3. i - 1 = Len(query.credentials)
  BY <1>1, <1>2 DEF AtCredential
<1>4. \A n \in DOMAIN query.credentials :
        CredentialWellFormed(query.credentials[n], Alphabet(side))
  BY <1>1, <1>2, <1>3 DEF AtCredential, Checked
<1>5. DistinctIds(query.credentials) /\ credIds = IdsOf(query.credentials)
  BY <1>1, <1>2, <1>3 DEF AtCredential, SeenTo, DistinctIds, IdsOf
<1>6. query.credentials # <<>>
  BY <1>1 DEF AtCredential
<1>. QED  BY <1>4, <1>5, <1>6 DEF WellFormed, CredentialSetsSound

\* After the last claim what is left to check is claim_sets.
LEMMA ClaimsDone ==
    ASSUME Inv, step = "claim", j \notin DOMAIN query.credentials[i].claims
    PROVE  ClaimSetsSound(query.credentials[i]) <=>
             CredentialWellFormed(query.credentials[i], Alphabet(side))
<1>. DEFINE c == query.credentials[i]
<1>1. AtClaim /\ i \in Nat /\ j \in Nat
  BY DEF Inv, TypeOK
<1>2. c.claims \in Seq(Claim) /\ c.claims # NONE
  BY <1>1, ListFacts DEF AtClaim
<1>. HIDE DEF c
<1>3. Len(c.claims) \in Nat /\ DOMAIN c.claims = 1..Len(c.claims)
  BY <1>2
<1>4. ClaimsBefore(c) /\ c.id \in Alphabet(side) /\ c.authorities # "empty"
  BY <1>1 DEF AtClaim, c
<1>5. j - 1 = Len(c.claims)
  BY <1>1, <1>3, <1>4 DEF ClaimsBefore, c
<1>6. /\ \A n \in DOMAIN c.claims : c.claims[n].id \in Alphabet(side) \cup {NONE}
      /\ DistinctIds(c.claims)
      /\ claimIds = IdsOf(c.claims) \ {NONE}
  BY <1>3, <1>4, <1>5 DEF ClaimsBefore, DistinctIds, IdsOf
<1>7. (\A n \in DOMAIN c.claims : c.claims[n].id # NONE) <=> NONE \notin IdsOf(c.claims)
  BY DEF IdsOf
<1>8. ClaimSetsSound(c) <=> ClaimsWellFormed(c, Alphabet(side))
  BY <1>6, <1>7 DEF ClaimSetsSound, ClaimsWellFormed
<1>9. ClaimSetsSound(c) <=> CredentialWellFormed(c, Alphabet(side))
  BY <1>2, <1>4, <1>8 DEF CredentialWellFormed
<1>. QED  BY <1>9 DEF c

----------------------------------------------------------------------------
(* The invariant, action by action *)

\* What an action leaves that only moves the validator.
LEMMA RequestStays ==
    ASSUME Inv, step # "idle", UNCHANGED request,
           side' = side \/ (side = "client" /\ side' = "server")
    PROVE  RequestKept' /\ query' \in Query /\ asked' \in Asked
BY DEF Inv, RequestKept, request

\* A refusal is right when the query is not well-formed, or is not read, or the
\* keys lack.
LEMMA RejectKeepsInv ==
    ASSUME Inv, step # "idle", Reject,
           Unparsed \/ Unconfigured \/ ~ WellFormed(query, Alphabet(side))
    PROVE  Inv'
<1>1. TypeOK'
  BY DEF Inv, TypeOK, Reject, request
<1>2. RequestKept'
  BY RequestStays DEF Reject
<1>3. VerdictIsWellFormedness'
  BY DEF VerdictIsWellFormedness, Reject, request, Unparsed, Unconfigured
<1>4. prechecked' => side' = "server" /\ WellFormed(query, Ascii)'
  BY DEF Inv, Reject, request
<1>5. step' = "rejected"
  BY DEF Reject
<1>. QED  BY <1>1, <1>2, <1>3, <1>4, <1>5 DEF Inv

LEMMA BeginKeepsInv ==
    ASSUME Inv, NEW who \in Asked, NEW wanted, NEW q \in Query,
           NEW explicit \in Profiles \cup {NONE}, NEW from \in {"client", "server"},
           step = "idle", Begin(who, wanted, q, explicit, from), RequestKept'
    PROVE  Inv'
<1>1. TypeOK'
  BY DetermineTyped DEF Inv, TypeOK, Begin
<1>2. step' = "start" /\ ~ prechecked'
  BY DEF Begin, Inv
<1>3. VerdictIsWellFormedness'
  BY <1>2 DEF VerdictIsWellFormedness
<1>. QED  BY <1>1, <1>2, <1>3 DEF Inv

LEMMA AppAsksKeepsInv ==
    ASSUME Inv, NEW t \in BackendTypes, NEW names \in ClaimLists, AppAsks(t, names)
    PROVE  Inv'
<1>. DEFINE who == [by |-> "app", type |-> t, claims |-> names]
<1>1. who \in Asked
  BY ConfigFacts DEF Asked
<1>2. AppQuery(t, names) \in Query
  BY BuiltTyped
<1>3. step = "idle" /\ Begin(who, t, AppQuery(t, names), NONE, "server")
  BY DEF AppAsks
<1>4. RequestKept'
  BY <1>1, <1>2, <1>3 DEF RequestKept, Begin
<1>. QED  BY <1>1, <1>2, <1>3, <1>4, BeginKeepsInv

LEMMA ClientAsksKeepsInv ==
    ASSUME Inv, NEW t \in ClientTypes, NEW names \in ClaimLists,
           NEW p \in {NONE, "haip-x509-san-dns"}, ClientAsks(t, names, p)
    PROVE  Inv'
<1>. DEFINE who == [by |-> "client", type |-> t, claims |-> names]
<1>1. who \in Asked
  BY DEF Asked
<1>2. ClientQuery(t, names) \in Query
  BY BuiltTyped
<1>3. step = "idle" /\ Begin(who, t, ClientQuery(t, names), p, "server")
  BY DEF ClientAsks
<1>4. RequestKept'
  BY <1>1, <1>2, <1>3 DEF RequestKept, Begin
<1>5. p \in Profiles \cup {NONE}
  BY DEF Profiles
<1>. QED  BY <1>1, <1>2, <1>3, <1>4, <1>5, BeginKeepsInv

LEMMA PartyAsksKeepsInv ==
    ASSUME Inv, NEW t \in BackendTypes \cup {NONE},
           NEW q \in Supplied \cup {WithFallback, NONE},
           NEW p \in Profiles \cup {NONE}, NEW from \in {"client", "server"},
           PartyAsks(t, q, p, from)
    PROVE  Inv'
<1>. DEFINE who == [by |-> "party", type |-> t, claims |-> NONE]
            asks == IF q # NONE THEN q
                    ELSE DefaultFor(IF t = NONE THEN "proof-of-age" ELSE t)
<1>1. who \in Asked
  BY ConfigFacts DEF Asked
<1>2. asks \in Query
  BY BuiltTyped, DcqlAssumption DEF BackendTypes
<1>3. step = "idle" /\ Begin(who, t, asks, p, from)
  BY DEF PartyAsks
<1>. HIDE DEF asks
<1>4. RequestKept'
  BY <1>1, <1>2, <1>3 DEF RequestKept, Begin
<1>. QED  BY <1>1, <1>2, <1>3, <1>4, BeginKeepsInv

\* The loop over the credential queries begins.
LEMMA StartKeepsInv == Inv /\ Start => Inv'
<1>. SUFFICES ASSUME Inv, Start PROVE Inv'
  OBVIOUS
<1>1. CASE Unparsed \/ Unconfigured \/ query.credentials = <<>>
  BY <1>1, RejectKeepsInv DEF Start, WellFormed
<1>2. CASE ~ (Unparsed \/ Unconfigured \/ query.credentials = <<>>)
  <2>1. /\ step = "start" /\ step' = "credential" /\ i' = 1 /\ credIds' = {}
        /\ UNCHANGED <<haip, request, side, prechecked, j, claimIds>>
    BY <1>2 DEF Start
  <2>2. TypeOK'
    BY <2>1 DEF Inv, TypeOK, request
  <2>3. RequestKept' /\ query' = query
    BY <2>1, RequestStays DEF request
  <2>4. AtCredential'
    <3>1. Len(query.credentials) \in Nat /\ query.credentials # <<>>
      BY <1>2, <2>1, ListFacts
    <3>. QED  BY <2>1, <2>3, <3>1 DEF AtCredential, Checked, SeenTo
  <2>5. prechecked' => side' = "server" /\ WellFormed(query', Ascii)
    BY <2>1, <2>3 DEF Inv
  <2>. QED  BY <2>1, <2>2, <2>3, <2>4, <2>5 DEF Inv, VerdictIsWellFormedness
<1>. QED  BY <1>1, <1>2

\* A sound head extends what is known of the ids by one credential query.
LEMMA HeadSoundFacts ==
    ASSUME Inv, step = "credential", i \in DOMAIN query.credentials,
           HeadSound(query.credentials[i], credIds)
    PROVE  /\ i \in 1..Len(query.credentials) /\ Len(query.credentials) \in Nat
           /\ Checked(i - 1)
           /\ \A k, l \in 1..i :
                query.credentials[k].id = query.credentials[l].id => k = l
           /\ credIds \cup {query.credentials[i].id} =
                {query.credentials[k].id : k \in 1..i}
<1>1. AtCredential /\ i \in Nat
  BY DEF Inv, TypeOK
<1>2. Len(query.credentials) \in Nat /\ i \in 1..Len(query.credentials)
  BY ListFacts
<1>3. /\ query.credentials[i].id \notin {query.credentials[k].id : k \in 1..(i - 1)}
      /\ \A k, l \in 1..(i - 1) :
           query.credentials[k].id = query.credentials[l].id => k = l
      /\ credIds = {query.credentials[k].id : k \in 1..(i - 1)}
  BY <1>1 DEF AtCredential, SeenTo, HeadSound
<1>4. 1..i = (1..(i - 1)) \cup {i}
  BY <1>2
<1>5. \A k, l \in 1..i : query.credentials[k].id = query.credentials[l].id => k = l
  BY <1>3, <1>4
<1>6. credIds \cup {query.credentials[i].id} = {query.credentials[k].id : k \in 1..i}
  BY <1>3, <1>4
<1>. QED  BY <1>1, <1>2, <1>5, <1>6 DEF AtCredential

\* One credential query: its head is sound and its claims are next, or it has
\* none, or it is refused.
LEMMA CheckCredentialKeepsInv == Inv /\ CheckCredential => Inv'
<1>. SUFFICES ASSUME Inv, CheckCredential PROVE Inv'
  OBVIOUS
<1>. DEFINE c == query.credentials[i]
<1>1. step = "credential" /\ i \in DOMAIN query.credentials
  BY DEF CheckCredential
<1>2. CASE ~ HeadSound(c, credIds)
  <2>1. AtCredential /\ SeenTo(i - 1) /\ i \in Nat /\ Len(query.credentials) \in Nat
    BY <1>1, ListFacts DEF Inv, AtCredential, TypeOK
  <2>2. DOMAIN query.credentials = 1..Len(query.credentials)
    BY <1>1, ListFacts
  <2>3. c.id \in Id /\ c.id # NONE
    BY <1>1, <2>2, ListFacts, DcqlAssumption
  <2>4. ASSUME WellFormed(query, Alphabet(side)) PROVE FALSE
    <3>1. CredentialWellFormed(c, Alphabet(side)) /\ DistinctIds(query.credentials)
      BY <1>1, <2>4 DEF WellFormed
    <3>2. c.id \in credIds
      BY <1>2, <3>1 DEF CredentialWellFormed, HeadSound
    <3>3. PICK k \in 1..(i - 1) : query.credentials[k].id = c.id
      BY <2>1, <3>2 DEF SeenTo
    <3>4. k \in DOMAIN query.credentials /\ k # i
      BY <1>1, <2>1, <2>2
    <3>. QED  BY <1>1, <2>3, <3>1, <3>3, <3>4 DEF DistinctIds
  <2>5. Reject
    BY <1>2 DEF CheckCredential
  <2>. QED  BY <1>1, <2>4, <2>5, RejectKeepsInv
<1>3. CASE HeadSound(c, credIds)
  <2>1. EnterClaims(c) /\ UNCHANGED <<haip, request, side, prechecked>>
    BY <1>3 DEF CheckCredential
  <2>2. /\ i \in 1..Len(query.credentials) /\ Len(query.credentials) \in Nat
        /\ Checked(i - 1)
        /\ \A k, l \in 1..i :
             query.credentials[k].id = query.credentials[l].id => k = l
        /\ credIds' = {query.credentials[k].id : k \in 1..i}
    BY <1>1, <1>3, <2>1, HeadSoundFacts DEF EnterClaims
  <2>3. c.id \in Id /\ (c.claims # NONE => c.claims \in Seq(Claim))
    BY <1>1, <2>2, ListFacts
  <2>4. RequestKept' /\ query' = query /\ side' = side
    BY <1>1, <2>1, RequestStays DEF request
  <2>5. i \in Nat /\ j \in Nat
    BY DEF Inv, TypeOK
  <2>6. prechecked' => side' = "server" /\ WellFormed(query', Ascii)
    BY <2>1, <2>4 DEF Inv
  <2>7. query.credentials # <<>>
    BY <1>1 DEF Inv, AtCredential
  <2>8. step' = "credential" \/ step' = "claim"
    BY <2>1 DEF EnterClaims
  <2>9. TypeOK'
    BY <2>1, <2>3, <2>5, <2>8 DEF Inv, TypeOK, EnterClaims, request
  <2>10. ASSUME step' = "credential" PROVE AtCredential'
    <3>1. c.claims = NONE /\ i' = i + 1
      BY <2>1, <2>10 DEF EnterClaims
    <3>2. CredentialWellFormed(c, Alphabet(side))
      BY <1>3, <3>1 DEF HeadSound, CredentialWellFormed
    <3>3. Checked(i)
      BY <2>2, <2>5, <3>2 DEF Checked
    <3>4. i' - 1 = i /\ i' \in 1..(Len(query.credentials) + 1)
      BY <2>2, <3>1
    <3>. QED  BY <2>2, <2>4, <2>7, <3>3, <3>4 DEF AtCredential, Checked, SeenTo
  <2>11. ASSUME step' = "claim" PROVE AtClaim'
    <3>1. c.claims # NONE /\ i' = i /\ j' = 1 /\ claimIds' = {}
      BY <2>1, <2>11 DEF EnterClaims
    <3>2. Len(c.claims) \in Nat
      BY <2>3, <3>1
    <3>3. ClaimsBefore(query.credentials[i])'
      BY <2>4, <3>1, <3>2 DEF ClaimsBefore
    <3>4. c.id \in Alphabet(side) /\ c.authorities # "empty"
      BY <1>3 DEF HeadSound
    <3>5. Checked(i - 1)' /\ SeenTo(i)'
      BY <2>2, <2>4, <3>1 DEF Checked, SeenTo
    <3>. QED  BY <2>2, <2>4, <2>7, <3>1, <3>3, <3>4, <3>5 DEF AtClaim
  <2>. QED  BY <2>4, <2>6, <2>8, <2>9, <2>10, <2>11 DEF Inv, VerdictIsWellFormedness
<1>. QED  BY <1>2, <1>3

\* One claim: it has no id, or a new one, or it is refused.
LEMMA CheckClaimKeepsInv == Inv /\ CheckClaim => Inv'
<1>. SUFFICES ASSUME Inv, CheckClaim PROVE Inv'
  OBVIOUS
<1>. DEFINE c == query.credentials[i]
            claim == c.claims[j]
<1>1. step = "claim" /\ j \in DOMAIN c.claims /\ AtClaim
  BY DEF CheckClaim, Inv
<1>2. c.claims \in Seq(Claim)
  BY <1>1, ListFacts DEF AtClaim
<1>3. /\ Len(c.claims) \in Nat /\ DOMAIN c.claims = 1..Len(c.claims)
      /\ j \in 1..Len(c.claims) /\ claim \in Claim
  BY <1>1, <1>2
<1>4. claim.id \in Id \cup {NONE}
  BY <1>3 DEF Claim
<1>5. ClaimsBefore(c)
  BY <1>1 DEF AtClaim
<1>6. CASE ~ (claim.id = NONE \/ (claim.id \in Alphabet(side) /\ claim.id \notin claimIds))
  <2>1. ASSUME WellFormed(query, Alphabet(side)) PROVE FALSE
    <3>1. i \in DOMAIN query.credentials /\ c.claims # NONE
      BY <1>1, ListFacts DEF AtClaim
    <3>2. ClaimsWellFormed(c, Alphabet(side))
      BY <2>1, <3>1 DEF WellFormed, CredentialWellFormed
    <3>3. claim.id \in claimIds /\ claim.id # NONE /\ DistinctIds(c.claims)
      BY <1>1, <1>6, <3>2 DEF ClaimsWellFormed
    <3>4. PICK k \in 1..(j - 1) : c.claims[k].id = claim.id
      BY <1>5, <3>3 DEF ClaimsBefore
    <3>5. k \in DOMAIN c.claims /\ k # j
      BY <1>3, <3>4
    <3>. QED  BY <1>1, <3>3, <3>4, <3>5 DEF DistinctIds
  <2>2. Reject
    BY <1>6 DEF CheckClaim
  <2>. QED  BY <1>1, <2>1, <2>2, RejectKeepsInv
<1>7. CASE claim.id = NONE \/ (claim.id \in Alphabet(side) /\ claim.id \notin claimIds)
  <2>1. /\ claimIds' = Seen(claim) /\ j' = j + 1
        /\ UNCHANGED <<haip, request, side, prechecked, step, i, credIds>>
    BY <1>7 DEF CheckClaim
  <2>2. RequestKept' /\ query' = query
    BY <1>1, <2>1, RequestStays DEF request
  <2>3. TypeOK'
    BY <1>4, <2>1 DEF Inv, TypeOK, Seen, request
  <2>. HIDE DEF c, claim
  <2>4. 1..j = (1..(j - 1)) \cup {j} /\ claim = c.claims[j]
    BY <1>3 DEF claim
  <2>5. \A k \in 1..j : c.claims[k].id \in Alphabet(side) \cup {NONE}
    BY <1>5, <1>7, <2>4 DEF ClaimsBefore
  <2>6. \A k, l \in 1..j :
          c.claims[k].id # NONE /\ c.claims[k].id = c.claims[l].id => k = l
    BY <1>5, <1>7, <2>4 DEF ClaimsBefore
  <2>7. claimIds' = {c.claims[k].id : k \in 1..j} \ {NONE}
    BY <1>5, <2>1, <2>4 DEF ClaimsBefore, Seen
  <2>8. ClaimsBefore(query.credentials[i])'
    <3>1. j' - 1 = j /\ j' \in 1..(Len(c.claims) + 1)
      BY <1>3, <2>1
    <3>2. query.credentials[i]' = c /\ side' = side
      BY <2>1, <2>2 DEF c
    <3>. QED  BY <2>5, <2>6, <2>7, <3>1, <3>2 DEF ClaimsBefore
  <2>9. AtClaim'
    BY <1>1, <2>1, <2>2, <2>8 DEF AtClaim, Checked, SeenTo
  <2>10. prechecked' => side' = "server" /\ WellFormed(query', Ascii)
    BY <2>1, <2>2 DEF Inv
  <2>. QED  BY <1>1, <2>1, <2>2, <2>3, <2>9, <2>10 DEF Inv, VerdictIsWellFormedness
<1>. QED  BY <1>6, <1>7

\* The references of claim_sets, after the last claim.
LEMMA CheckClaimSetsKeepsInv == Inv /\ CheckClaimSets => Inv'
<1>. SUFFICES ASSUME Inv, CheckClaimSets PROVE Inv'
  OBVIOUS
<1>. DEFINE c == query.credentials[i]
<1>1. step = "claim" /\ j \notin DOMAIN c.claims /\ AtClaim
  BY DEF CheckClaimSets, Inv
<1>2. /\ Len(query.credentials) \in Nat /\ i \in 1..Len(query.credentials)
      /\ i \in DOMAIN query.credentials
  BY <1>1, ListFacts DEF AtClaim
<1>3. ClaimSetsSound(c) <=> CredentialWellFormed(c, Alphabet(side))
  BY <1>1, ClaimsDone
<1>4. CASE ~ ClaimSetsSound(c)
  <2>1. ~ WellFormed(query, Alphabet(side))
    BY <1>2, <1>3, <1>4 DEF WellFormed
  <2>2. Reject
    BY <1>4 DEF CheckClaimSets
  <2>. QED  BY <1>1, <2>1, <2>2, RejectKeepsInv
<1>5. CASE ClaimSetsSound(c)
  <2>1. /\ step' = "credential" /\ i' = i + 1
        /\ UNCHANGED <<haip, request, side, prechecked, j, credIds, claimIds>>
    BY <1>5 DEF CheckClaimSets
  <2>2. RequestKept' /\ query' = query
    BY <1>1, <2>1, RequestStays DEF request
  <2>3. TypeOK'
    BY <2>1 DEF Inv, TypeOK, request
  <2>4. Checked(i)
    BY <1>1, <1>2, <1>3, <1>5 DEF AtClaim, Checked
  <2>5. AtCredential'
    <3>1. i' - 1 = i /\ i' \in 1..(Len(query.credentials) + 1)
      BY <1>2, <2>1
    <3>. QED  BY <1>1, <2>1, <2>2, <2>4, <3>1 DEF AtClaim, AtCredential, Checked, SeenTo
  <2>6. prechecked' => side' = "server" /\ WellFormed(query', Ascii)
    BY <2>1, <2>2 DEF Inv
  <2>. QED  BY <2>1, <2>2, <2>3, <2>5, <2>6 DEF Inv, VerdictIsWellFormedness
<1>. QED  BY <1>4, <1>5

\* The references of credential_sets, after the last credential query.
LEMMA CheckCredentialSetsKeepsInv == Inv /\ CheckCredentialSets => Inv'
<1>. SUFFICES ASSUME Inv, CheckCredentialSets PROVE Inv'
  OBVIOUS
<1>1. step = "credential" /\ i \notin DOMAIN query.credentials
  BY DEF CheckCredentialSets
<1>2. CredentialSetsSound <=> WellFormed(query, Alphabet(side))
  BY <1>1, QueryDone
<1>3. CASE ~ CredentialSetsSound
  BY <1>1, <1>2, <1>3, RejectKeepsInv DEF CheckCredentialSets
<1>4. CASE CredentialSetsSound
  <2>1. Accept /\ WellFormed(query, Alphabet(side))
    BY <1>2, <1>4 DEF CheckCredentialSets
  <2>2. RequestKept' /\ query' = query
    BY <1>1, <2>1, RequestStays DEF Accept, request
  <2>3. step' \in {"start", "accepted"} /\ (step' = "accepted" => side' = "server" /\ side = "server")
    BY <2>1 DEF Accept, Inv, TypeOK
  <2>4. TypeOK'
    BY <2>1, <2>3 DEF Inv, TypeOK, Accept, request
  <2>5. prechecked' => side' = "server" /\ WellFormed(query', Ascii)
    BY <2>1, <2>2, AlphabetFacts DEF Accept
  <2>6. VerdictIsWellFormedness'
    BY <2>1, <2>2, <2>3 DEF VerdictIsWellFormedness, Alphabet
  <2>. QED  BY <2>2, <2>3, <2>4, <2>5, <2>6 DEF Inv
<1>. QED  BY <1>3, <1>4

LEMMA AnswerKeepsInv == Inv /\ Answer => Inv'
<1>. SUFFICES ASSUME Inv, Answer PROVE Inv'
  OBVIOUS
<1>1. TypeOK'
  BY DEF Inv, TypeOK, Answer
<1>2. step' = "idle" /\ asked' = NONE /\ prechecked' = FALSE
  BY DEF Answer
<1>. QED  BY <1>1, <1>2 DEF Inv, VerdictIsWellFormedness

----------------------------------------------------------------------------
(* The theorems *)

LEMMA InitInv == Init => Inv
<1>. SUFFICES ASSUME Init PROVE Inv
  OBVIOUS
<1>1. TypeOK
  BY DEF Init, Idle, TypeOK
<1>2. step = "idle" /\ asked = NONE /\ prechecked = FALSE
  BY DEF Init, Idle
<1>. QED  BY <1>1, <1>2 DEF Inv, VerdictIsWellFormedness

LEMMA StutterKeepsInv == Inv /\ UNCHANGED vars => Inv'
<1>. SUFFICES ASSUME Inv, UNCHANGED vars PROVE Inv'
  OBVIOUS
<1>. USE DEF vars, request
<1>1. TypeOK'
  BY DEF Inv, TypeOK
<1>2. RequestKept <=> RequestKept'
  BY DEF RequestKept
<1>3. AtCredential <=> AtCredential'
  BY DEF AtCredential, Checked, SeenTo
<1>4. AtClaim <=> AtClaim'
  BY DEF AtClaim, Checked, SeenTo, ClaimsBefore
<1>5. VerdictIsWellFormedness'
  BY DEF Inv, VerdictIsWellFormedness, Unparsed, Unconfigured
<1>. QED  BY <1>1, <1>2, <1>3, <1>4, <1>5 DEF Inv

LEMMA NextInv == Inv /\ [Next]_vars => Inv'
<1>. SUFFICES ASSUME Inv, [Next]_vars PROVE Inv'
  OBVIOUS
<1>1. CASE \E t \in BackendTypes, names \in ClaimLists : AppAsks(t, names)
  BY <1>1, AppAsksKeepsInv
<1>2. CASE \E t \in ClientTypes, names \in ClaimLists,
              p \in {NONE, "haip-x509-san-dns"} : ClientAsks(t, names, p)
  BY <1>2, ClientAsksKeepsInv
<1>3. CASE \E t \in BackendTypes \cup {NONE}, q \in Supplied \cup {WithFallback, NONE},
              p \in Profiles \cup {NONE}, from \in {"client", "server"} :
              (q = NONE => from = "server") /\ PartyAsks(t, q, p, from)
  BY <1>3, PartyAsksKeepsInv
<1>4. CASE Start \/ CheckCredential \/ CheckClaim \/ CheckClaimSets
             \/ CheckCredentialSets \/ Answer
  BY <1>4, StartKeepsInv, CheckCredentialKeepsInv, CheckClaimKeepsInv,
     CheckClaimSetsKeepsInv, CheckCredentialSetsKeepsInv, AnswerKeepsInv
<1>5. CASE UNCHANGED vars
  BY <1>5, StutterKeepsInv
<1>. QED  BY <1>1, <1>2, <1>3, <1>4, <1>5 DEF Next

\* The loops keep what they have established.
THEOREM InvHolds == Spec => []Inv
<1>. QED  BY InitInv, NextInv, PTL DEF Spec

\* The variables of the validation keep their types.
THEOREM TypeCorrect == Spec => []TypeOK
<1>1. Inv => TypeOK
  BY DEF Inv
<1>. QED  BY <1>1, InvHolds, PTL

\* Both validators decide the rules of OpenID4VP, for every query.
THEOREM VerdictIsCorrect == Spec => []VerdictIsWellFormedness
<1>1. Inv => VerdictIsWellFormedness
  BY DEF Inv
<1>. QED  BY <1>1, InvHolds, PTL

\* What the client's validator lets pass the server's lets pass as well, if the
\* body is read at all.
THEOREM PrecheckedIsAccepted == Spec => []PrecheckedIsServed
<1>1. ASSUME Inv PROVE PrecheckedIsServed
  <2>. SUFFICES ASSUME step = "rejected", prechecked PROVE Unparsed \/ Unconfigured
    BY DEF PrecheckedIsServed
  <2>1. side = "server" /\ WellFormed(query, Alphabet("server"))
    BY <1>1, ClientIsStricter DEF Inv
  <2>. QED  BY <1>1, <2>1 DEF Inv, VerdictIsWellFormedness
<1>. QED  BY <1>1, InvHolds, PTL

----------------------------------------------------------------------------
(* What the builders ask for *)

\* A query built of a selection is well-formed when the selection is.
LEMMA WithClaimsWellFormed ==
    ASSUME NEW t \in ClientTypes, NEW names \in ClaimLists
    PROVE  WellFormed(WithClaims(ClientConfig[t], names), Alphabet("server"))
             <=> Selectable(names)
<1>. DEFINE list == ClaimsNamed(ClientConfig[t], names)
            c == Single(BuiltId, ClientConfig[t], list)
            q == WithClaims(ClientConfig[t], names)
            alphabet == Alphabet("server")
<1>1. names \in Seq(Id) /\ list # NONE
  BY DcqlAssumption, AbsentAssumption
<1>2. /\ DOMAIN list = DOMAIN names
      /\ \A n \in DOMAIN names : list[n].id = names[n] /\ names[n] \in Id
  BY <1>1 DEF ClaimsNamed
<1>3. /\ c.id = BuiltId /\ c.claims = list /\ c.claimSets = NONE
      /\ c.authorities = "absent"
  BY DEF Single
<1>4. BuiltId \in alphabet
  BY DcqlAssumption, AlphabetFacts
<1>5. /\ q.credentials = <<c>> /\ q.credentialSets = NONE
  BY DEF WithClaims
<1>. HIDE DEF list, c, q, alphabet
<1>6. ClaimsWellFormed(c, alphabet) <=> Selectable(names)
  <2>1. NONE \notin Id
    BY DcqlAssumption
  <2>2. (\A n \in DOMAIN list : list[n].id \in alphabet \cup {NONE})
          <=> (\A n \in DOMAIN names : names[n] \in alphabet)
    BY <1>2, <2>1
  <2>3. DistinctIds(list)
          <=> (\A m, n \in DOMAIN names : names[m] = names[n] => m = n)
    BY <1>2, <2>1 DEF DistinctIds
  <2>. QED  BY <1>3, <2>2, <2>3 DEF ClaimsWellFormed, Selectable, alphabet
<1>7. CredentialWellFormed(c, alphabet) <=> Selectable(names)
  BY <1>1, <1>3, <1>4, <1>6 DEF CredentialWellFormed
<1>8. DOMAIN q.credentials = {1} /\ q.credentials[1] = c /\ q.credentials # <<>>
  BY <1>5
<1>9. WellFormed(q, alphabet) <=> Selectable(names)
  BY <1>5, <1>7, <1>8 DEF WellFormed, DistinctIds
<1>. QED  BY <1>9 DEF q, alphabet

\* It asks for the selection.
LEMMA WithClaimsAsks ==
    ASSUME NEW t \in ClientTypes, NEW names \in ClaimLists,
           NEW q, q = WithClaims(ClientConfig[t], names)
    PROVE  /\ Len(q.credentials) = 1
           /\ q.credentials[1].type = ClientConfig[t].type
           /\ Requested(q.credentials[1]) = Wanted(ClientConfig[t], names)
<1>. DEFINE list == ClaimsNamed(ClientConfig[t], names)
            c == Single(BuiltId, ClientConfig[t], list)
<1>1. q.credentials = <<c>>
  BY DEF WithClaims
<1>2. c.type = ClientConfig[t].type /\ c.claims = list
  BY DEF Single
<1>3. /\ DOMAIN list = DOMAIN names
      /\ \A n \in DOMAIN names :
           list[n].prefix = ClientConfig[t].prefix /\ list[n].name = names[n]
  BY DEF ClaimsNamed
<1>. HIDE DEF list, c
<1>4. Requested(c) = Wanted(ClientConfig[t], names)
  BY <1>2, <1>3 DEF Requested, Wanted
<1>. QED  BY <1>1, <1>2, <1>4

\* The default is a well-formed query for the age claim of the type.
LEMMA DefaultAsks ==
    ASSUME NEW t \in BackendTypes, NEW q, q = DefaultFor(t)
    PROVE  /\ WellFormed(q, Alphabet("server")) /\ Selectable(<<AgeClaim>>)
           /\ Len(q.credentials) = 1
           /\ q.credentials[1].type = ClientConfig[t].type
           /\ Requested(q.credentials[1]) = Wanted(ClientConfig[t], <<AgeClaim>>)
<1>. DEFINE list == <<[id |-> NONE, prefix |-> Config[t].prefix, name |-> AgeClaim]>>
            c == AgeOnly(BuiltId, Config[t])
            alphabet == Alphabet("server")
<1>1. /\ c.id = BuiltId /\ c.claims = list /\ c.claimSets = NONE
      /\ c.authorities = "absent" /\ c.type = ClientConfig[t].type
  BY ConfigFacts DEF AgeOnly, Single
<1>2. q.credentials = <<c>> /\ q.credentialSets = NONE
  BY DEF DefaultFor
<1>3. {BuiltId, AgeClaim} \subseteq alphabet
  BY DcqlAssumption, AlphabetFacts
<1>4. /\ DOMAIN list = {1} /\ list[1].id = NONE
      /\ list[1].prefix = ClientConfig[t].prefix /\ list[1].name = AgeClaim
  BY ConfigFacts
<1>. HIDE DEF list, c, alphabet
<1>5. DOMAIN q.credentials = {1} /\ q.credentials[1] = c /\ q.credentials # <<>>
      /\ Len(q.credentials) = 1
  BY <1>2
<1>6. ClaimsWellFormed(c, alphabet)
  BY <1>1, <1>4 DEF ClaimsWellFormed, DistinctIds
<1>7. CredentialWellFormed(c, alphabet)
  BY <1>1, <1>3, <1>6 DEF CredentialWellFormed
<1>8. WellFormed(q, alphabet)
  BY <1>2, <1>5, <1>7 DEF WellFormed, DistinctIds
<1>9. DOMAIN <<AgeClaim>> = {1} /\ <<AgeClaim>>[1] = AgeClaim
  OBVIOUS
<1>10. Selectable(<<AgeClaim>>)
  BY <1>3, <1>9 DEF Selectable, alphabet
<1>11. Requested(c) = Wanted(ClientConfig[t], <<AgeClaim>>)
  <2>1. Requested(c) = {[prefix |-> ClientConfig[t].prefix, name |-> AgeClaim]}
    BY <1>1, <1>4 DEF Requested
  <2>2. Wanted(ClientConfig[t], <<AgeClaim>>) =
          {[prefix |-> ClientConfig[t].prefix, name |-> AgeClaim]}
    BY <1>9 DEF Wanted
  <2>. QED  BY <2>1, <2>2
<1>. QED  BY <1>1, <1>5, <1>8, <1>10, <1>11 DEF alphabet

\* The builders stay within the server's types.
LEMMA BuiltIsTyped ==
    ASSUME \/ \E t \in BackendTypes : query = DefaultFor(t)
           \/ \E t \in ClientTypes, names \in ClaimLists :
                query = WithClaims(ClientConfig[t], names)
    PROVE  ~ Unparsed
<1>1. CASE \E t \in BackendTypes : query = DefaultFor(t)
  <2>1. PICK t \in BackendTypes : query = DefaultFor(t)
    BY <1>1
  <2>. DEFINE c == AgeOnly(BuiltId, Config[t])
  <2>2. c.foreign = FALSE
    BY DEF AgeOnly, Single
  <2>3. query.credentials = <<c>>
    BY <2>1 DEF DefaultFor
  <2>. HIDE DEF c
  <2>. QED  BY <2>2, <2>3 DEF Unparsed
<1>2. CASE \E t \in ClientTypes, names \in ClaimLists :
                query = WithClaims(ClientConfig[t], names)
  <2>1. PICK t \in ClientTypes, names \in ClaimLists :
          query = WithClaims(ClientConfig[t], names)
    BY <1>2
  <2>. DEFINE c == Single(BuiltId, ClientConfig[t], ClaimsNamed(ClientConfig[t], names))
  <2>2. c.foreign = FALSE
    BY DEF Single
  <2>3. query.credentials = <<c>>
    BY <2>1 DEF WithClaims
  <2>. HIDE DEF c
  <2>. QED  BY <2>2, <2>3 DEF Unparsed
<1>. QED  BY <1>1, <1>2

\* What a user selects, in the Verifier App or with the client library, is
\* what the stored query asks for, and it is stored whenever it can be.
THEOREM SelectionIsCorrect == Spec => []SelectionIsAsked
<1>1. ASSUME Inv PROVE SelectionIsAsked
  <2>. SUFFICES ASSUME asked # NONE, asked.by \in {"app", "client"}
                PROVE  LET config == ClientConfig[asked.type]
                           names == IF asked.by = "app" /\ asked.claims = <<>>
                                    THEN <<AgeClaim>> ELSE asked.claims
                       IN /\ step = "rejected" => Unconfigured \/ ~ Selectable(names)
                          /\ step = "accepted" =>
                               /\ Selectable(names)
                               /\ Len(query.credentials) = 1
                               /\ query.credentials[1].type = config.type
                               /\ Requested(query.credentials[1]) = Wanted(config, names)
    BY DEF SelectionIsAsked
  <2>1. RequestKept /\ side = "server"
    BY <1>1 DEF Inv, RequestKept
  <2>2. /\ step = "rejected" =>
             Unparsed \/ Unconfigured \/ ~ WellFormed(query, Alphabet("server"))
        /\ step = "accepted" => WellFormed(query, Alphabet("server"))
    BY <1>1, <2>1 DEF Inv, VerdictIsWellFormedness
  <2>3. CASE asked.by = "app" /\ asked.claims = <<>>
    <3>1. asked.type \in BackendTypes /\ query = DefaultFor(asked.type)
      BY <2>1, <2>3 DEF RequestKept, AppQuery
    <3>2. ~ Unparsed
      BY <3>1, BuiltIsTyped
    <3>. QED  BY <2>1, <2>2, <2>3, <3>1, <3>2, DefaultAsks DEF RequestKept
  <2>4. CASE ~ (asked.by = "app" /\ asked.claims = <<>>)
    <3>1. /\ asked.type \in ClientTypes /\ asked.claims \in ClaimLists
          /\ query = WithClaims(ClientConfig[asked.type], asked.claims)
      BY <2>1, <2>4, ConfigFacts DEF RequestKept, AppQuery, ClientQuery
    <3>2. ~ Unparsed
      BY <3>1, BuiltIsTyped
    <3>. QED
      BY <2>1, <2>2, <2>4, <3>1, <3>2, WithClaimsWellFormed, WithClaimsAsks
      DEF RequestKept
  <2>. QED  BY <2>3, <2>4
<1>. QED  BY <1>1, InvHolds, PTL
=============================================================================
