------------------------ MODULE VerifierPageProofs ------------------------
(***************************************************************************)
(* Proofs about VerifierPage, for any number of transactions, requests     *)
(* under way and clicks, any users, operators and credential types.        *)
(*                                                                         *)
(* The inductive invariant Inv relates what the page shows to what it has  *)
(* asked for: every request under way is about what the page is about now, *)
(* or late says that it was overtaken (Sound).  Liveness stays with TLC.   *)
(***************************************************************************)
EXTENDS VerifierPage, FiniteSetTheorems, TLAPS

\* The QR code, its interval and its verdict.
Screen ==
    /\ ticking = timer
    /\ timer # {} => timer = current
    /\ \A t \in timer : timer = {t}
    /\ area = "code" => timer = current /\ current # {}
    /\ VerdictIsCurrentUnlessLate

\* On another page than home nothing about a QR code is to come.
Elsewhere ==
    page # "home" /\ (ticking # {} \/ UnderWay("generate") \/ starts > 0)
        => "code" \in late

\* What is polled, or asked for, is a transaction of the backend.
Known ==
    \A t \in Txs : t \in ticking \/ (\E r \in Requests : t \in request[r].tx)
                      => status[t] # "none"

\* What a request m is about.
Sound(m) ==
    /\ m.kind = "none" => m.answer = "none"
    /\ m.kind = "generate" /\ m.answer = "ok" => \E t \in Txs : m.tx = {t}
    /\ m.kind = "poll" => m.tx = current \/ "qr" \in late
    /\ m.kind = "user" => m.user = target \/ "form" \in late
    /\ m.kind = "journal" => m.offset = offset \/ "journal" \in late

Inv ==
    /\ TypeOK
    /\ Screen
    /\ Elsewhere
    /\ Known
    /\ FormIsTargetUnlessLate
    /\ RowsAreCurrentUnlessLate
    /\ \A r \in Requests : Sound(request[r])

----------------------------------------------------------------------------
(* Requests *)

\* A new request takes a free place.
LEMMA SendFacts ==
    ASSUME TypeOK, NEW r \in Requests, NEW m \in RequestType, Send(r, m)
    PROVE  /\ request' \in [Requests -> RequestType]
           /\ request'[r] = m
           /\ \A q \in Requests \ {r} : request'[q] = request[q]
           /\ request[r].kind = "none"
BY DEF Send, TypeOK

\* An answer changes nothing else of a request.
LEMMA ReplyFacts ==
    ASSUME TypeOK, NEW r \in Requests,
           NEW a \in {"ok", "refused", "pending", "received",
                      "verified", "failed", "error", "expired", "missing"},
           Reply(r, a)
    PROVE  /\ request' \in [Requests -> RequestType]
           /\ \A q \in Requests : /\ request'[q].kind = request[q].kind
                                  /\ request'[q].tx = request[q].tx
                                  /\ request'[q].user = request[q].user
                                  /\ request'[q].offset = request[q].offset
           /\ \A q \in Requests \ {r} : request'[q] = request[q]
           /\ request'[r].answer = a
<1>1. request[r] \in RequestType
  BY DEF TypeOK
<1>2. /\ [request[r] EXCEPT !.answer = a] \in RequestType
      /\ [request[r] EXCEPT !.answer = a].kind = request[r].kind
      /\ [request[r] EXCEPT !.answer = a].tx = request[r].tx
      /\ [request[r] EXCEPT !.answer = a].user = request[r].user
      /\ [request[r] EXCEPT !.answer = a].offset = request[r].offset
      /\ [request[r] EXCEPT !.answer = a].answer = a
  BY <1>1 DEF RequestType
<1>3. request' = [request EXCEPT ![r] = [request[r] EXCEPT !.answer = a]]
  BY DEF Reply
<1>. HIDE DEF RequestType
<1>. QED  BY <1>2, <1>3 DEF TypeOK

\* An action that asks for nothing and shows nothing new.
LEMMA Quiet ==
    ASSUME Inv, UNCHANGED <<page, qr, starts, admin, late>>, TypeOK', Known',
           \A q \in Requests : /\ request'[q].kind = request[q].kind
                               /\ request'[q].user = request[q].user
                               /\ request'[q].offset = request[q].offset
                               /\ request[q].kind = "poll" => request'[q].tx = request[q].tx
                               /\ request[q].kind = "none" => request'[q] = request[q]
                               /\ \/ request'[q].answer # "ok" \/ request[q].kind # "generate"
                                  \/ request'[q] = request[q]
                                  \/ \E t \in Txs : request'[q].tx = {t}
    PROVE  Inv'
<1>. USE DEF qr, admin
<1>1. Screen'
  BY DEF Inv, Screen, VerdictIsCurrentUnlessLate
<1>2. Elsewhere'
  BY DEF Inv, Elsewhere, UnderWay
<1>3. FormIsTargetUnlessLate' /\ RowsAreCurrentUnlessLate'
  BY DEF Inv, FormIsTargetUnlessLate, RowsAreCurrentUnlessLate, UnderWay
<1>4. ASSUME NEW q \in Requests PROVE Sound(request[q])'
  BY DEF Inv, Sound
<1>. QED  BY <1>1, <1>2, <1>3, <1>4 DEF Inv

----------------------------------------------------------------------------
(* The QR code *)

LEMMA GenerateQRInv ==
    ASSUME Inv, NEW r \in Requests, GenerateQR(r), starts' \in Nat, clicks' \in Nat,
           page # "home" => "code" \in late
    PROVE  Inv'
<1>. USE DEF GenerateQR, qr, admin, backend
<1>1. /\ Ask("generate") \in RequestType /\ Ask("generate").kind = "generate"
      /\ Ask("generate").answer = "none" /\ Ask("generate").tx = {}
  BY DEF Ask, None, RequestType
<1>2. /\ request' \in [Requests -> RequestType] /\ request'[r] = Ask("generate")
      /\ \A q \in Requests \ {r} : request'[q] = request[q]
      /\ request[r].kind = "none"
  BY <1>1, SendFacts DEF Inv
<1>3. TypeOK'
  BY <1>2 DEF Inv, TypeOK
<1>4. Screen' /\ FormIsTargetUnlessLate'
  BY DEF Inv, Screen, VerdictIsCurrentUnlessLate, FormIsTargetUnlessLate
<1>5. Elsewhere'
  BY DEF Elsewhere
<1>6. Known'
  BY <1>1, <1>2 DEF Inv, Known
<1>7. RowsAreCurrentUnlessLate'
  BY <1>2 DEF Inv, RowsAreCurrentUnlessLate, UnderWay
<1>8. ASSUME NEW q \in Requests PROVE Sound(request[q])'
  BY <1>1, <1>2 DEF Inv, Sound
<1>. QED  BY <1>3, <1>4, <1>5, <1>6, <1>7, <1>8 DEF Inv

LEMMA GenerateInv ==
    ASSUME Inv, NEW r \in Requests, GenerateClick(r) \/ GenerateAuto(r)
    PROVE  Inv'
<1>1. CASE GenerateClick(r)
  <2>. QED  BY <1>1, GenerateQRInv DEF GenerateClick, Click, Inv, TypeOK
<1>2. CASE GenerateAuto(r)
  <2>1. starts' \in Nat /\ starts > 0
    BY <1>2 DEF GenerateAuto, Inv, TypeOK
  <2>2. page # "home" => "code" \in late
    BY <2>1 DEF Inv, Elsewhere
  <2>. QED  BY <1>2, <2>1, <2>2, GenerateQRInv DEF GenerateAuto, Inv, TypeOK
<1>. QED  BY <1>1, <1>2

\* What every reset of the QR code leaves behind.
LEMMA ResetScreen ==
    ASSUME Inv, StopPolling, current' = {}, area' = "empty", verdict' = {}
    PROVE  /\ Screen' /\ ticking' = {} /\ timer' = {}
BY DEF StopPolling, Inv, Screen, VerdictIsCurrentUnlessLate

LEMMA CancelInv ==
    ASSUME Inv, CancelClick
    PROVE  Inv'
<1>. USE DEF CancelClick, ResetQR, admin, backend
<1>1. Screen' /\ ticking' = {} /\ timer' = {}
  BY ResetScreen
<1>2. TypeOK'
  <2>0. clicks' \in Nat /\ late \subseteq {"qr", "code", "form", "journal"}
    BY DEF Inv, TypeOK, Click
  <2>1. late' \subseteq {"qr", "code", "form", "journal"}
    BY <2>0
  <2>. QED  BY <1>1, <2>0, <2>1 DEF Inv, TypeOK
<1>3. Elsewhere' /\ Known'
  BY <1>1 DEF Inv, Elsewhere, Known
<1>4. FormIsTargetUnlessLate' /\ RowsAreCurrentUnlessLate'
  BY <1>1 DEF Inv, FormIsTargetUnlessLate, RowsAreCurrentUnlessLate, UnderWay
<1>5. ASSUME NEW q \in Requests PROVE Sound(request[q])'
  <2>1. request[q].kind = "poll" => "qr" \in late'
    BY DEF UnderWay
  <2>. QED  BY <2>1 DEF Inv, Sound
<1>. QED  BY <1>1, <1>2, <1>3, <1>4, <1>5 DEF Inv

\* An interval polls the transaction that the page is about.
LEMMA TimerInv ==
    ASSUME Inv, NEW r \in Requests, TimerFires(r)
    PROVE  Inv'
<1>. USE DEF qr, admin, backend
<1>1. PICK t \in ticking : Send(r, [Ask("poll") EXCEPT !.tx = {t}])
  BY DEF TimerFires
<1>. DEFINE m == [Ask("poll") EXCEPT !.tx = {t}]
<1>2. t \in Txs /\ current = {t}
  BY DEF Inv, Screen, TypeOK
<1>3. m \in RequestType /\ m.kind = "poll" /\ m.answer = "none" /\ m.tx = {t}
  BY <1>2 DEF Ask, None, RequestType
<1>. HIDE DEF m
<1>4. /\ request' \in [Requests -> RequestType] /\ request'[r] = m
      /\ \A q \in Requests \ {r} : request'[q] = request[q]
      /\ request[r].kind = "none"
  BY <1>1, <1>3, SendFacts DEF Inv, m
<1>5. TypeOK'
  BY <1>4 DEF TimerFires, Inv, TypeOK
<1>6. Screen' /\ FormIsTargetUnlessLate'
  BY DEF TimerFires, Inv, Screen, VerdictIsCurrentUnlessLate, FormIsTargetUnlessLate
<1>7. Elsewhere'
  BY <1>3, <1>4 DEF TimerFires, Inv, Elsewhere, UnderWay
<1>8. Known'
  BY <1>2, <1>3, <1>4 DEF TimerFires, Inv, Known
<1>9. RowsAreCurrentUnlessLate'
  BY <1>4 DEF TimerFires, Inv, RowsAreCurrentUnlessLate, UnderWay
<1>10. ASSUME NEW q \in Requests PROVE Sound(request[q])'
  BY <1>2, <1>3, <1>4 DEF TimerFires, Inv, Sound
<1>. QED  BY <1>5, <1>6, <1>7, <1>8, <1>9, <1>10 DEF Inv

----------------------------------------------------------------------------
(* The form and the journal *)

\* A handler that leaves the QR code alone and asks for m.
LEMMA AskInv ==
    ASSUME Inv, NEW r \in Requests, NEW m \in RequestType, Send(r, m),
           UNCHANGED <<user, page, qr, starts, backend>>, clicks' \in Nat,
           target' \in SUBSET Users, form' \in SUBSET Users, open' \in BOOLEAN,
           offset' \in Nat, UNCHANGED <<rows, more>>, late' \in SUBSET {"qr", "code", "form", "journal"},
           late \subseteq late', m.answer = "none", m.tx = {},
           m.kind \in {"logout", "user", "submit", "journal"},
           m.kind = "user" => m.user = target' \/ "form" \in late',
           m.kind = "journal" => m.offset = offset' \/ "journal" \in late',
           target' = target \/ (UnderWay("user") => "form" \in late'),
           offset' = offset \/ (m.kind = "journal" /\ (UnderWay("journal") => "journal" \in late')),
           FormIsTargetUnlessLate'
    PROVE  Inv'
<1>. USE DEF qr, backend
<1>1. /\ request' \in [Requests -> RequestType] /\ request'[r] = m
      /\ \A q \in Requests \ {r} : request'[q] = request[q]
      /\ request[r].kind = "none"
  BY SendFacts DEF Inv
<1>2. TypeOK'
  BY <1>1 DEF Inv, TypeOK
<1>3. Screen'
  BY DEF Inv, Screen, VerdictIsCurrentUnlessLate
<1>4. Elsewhere'
  BY <1>1 DEF Inv, Elsewhere, UnderWay
<1>5. Known'
  BY <1>1 DEF Inv, Known
<1>6. RowsAreCurrentUnlessLate'
  BY <1>1 DEF Inv, RowsAreCurrentUnlessLate, UnderWay
<1>7. ASSUME NEW q \in Requests PROVE Sound(request[q])'
  <2>1. CASE q = r
    BY <1>1, <2>1 DEF Sound
  <2>2. CASE q # r
    <3>1. request'[q] = request[q] /\ Sound(request[q])
      BY <1>1, <2>2 DEF Inv
    <3>2. request[q].kind = "user" => UnderWay("user")
      BY DEF UnderWay
    <3>3. request[q].kind = "journal" => UnderWay("journal")
      BY DEF UnderWay
    <3>. QED  BY <3>1, <3>2, <3>3 DEF Sound
  <2>. QED  BY <2>1, <2>2
<1>. QED  BY <1>2, <1>3, <1>4, <1>5, <1>6, <1>7 DEF Inv

LEMMA OpenEditInv ==
    ASSUME Inv, NEW r \in Requests, NEW u \in Users, OpenEditUserModal(r, u)
    PROVE  Inv'
<1>. DEFINE m == [Ask("user") EXCEPT !.user = {u}]
<1>1. /\ m \in RequestType /\ m.kind = "user" /\ m.answer = "none" /\ m.user = {u}
      /\ m.tx = {}
  BY DEF Ask, None, RequestType
<1>2. Send(r, m)
  BY DEF OpenEditUserModal
<1>3. FormIsTargetUnlessLate'
  BY DEF OpenEditUserModal, FormIsTargetUnlessLate
<1>. HIDE DEF m
<1>4. /\ clicks' \in Nat /\ target' = {u} /\ form' \in SUBSET Users /\ open' \in BOOLEAN
      /\ offset' \in Nat /\ offset' = offset
  BY DEF OpenEditUserModal, Click, Inv, TypeOK
<1>5. /\ late' \in SUBSET {"qr", "code", "form", "journal"} /\ late \subseteq late'
      /\ UnderWay("user") => "form" \in late'
  BY DEF OpenEditUserModal, Inv, TypeOK
<1>. QED  BY <1>1, <1>2, <1>3, <1>4, <1>5, AskInv DEF OpenEditUserModal

LEMMA SubmitInv ==
    ASSUME Inv, NEW r \in Requests, SubmitUserModal(r)
    PROVE  Inv'
<1>. DEFINE m == [Ask("submit") EXCEPT !.user = target]
<1>1. /\ m \in RequestType /\ m.kind = "submit" /\ m.answer = "none" /\ m.tx = {}
  BY DEF Ask, None, RequestType, Inv, TypeOK
<1>2. Send(r, m)
  BY DEF SubmitUserModal
<1>. HIDE DEF m
<1>3. /\ clicks' \in Nat /\ target' = target /\ target \in SUBSET Users
      /\ form' \in SUBSET Users /\ open' \in BOOLEAN
      /\ offset' \in Nat /\ offset' = offset
      /\ late' = late /\ late \in SUBSET {"qr", "code", "form", "journal"}
  BY DEF SubmitUserModal, admin, Click, Inv, TypeOK
<1>4. FormIsTargetUnlessLate'
  BY DEF SubmitUserModal, admin, Inv, FormIsTargetUnlessLate
<1>. QED  BY <1>1, <1>2, <1>3, <1>4, AskInv DEF SubmitUserModal, admin

LEMMA LogoutInv ==
    ASSUME Inv, NEW r \in Requests, DoLogout(r)
    PROVE  Inv'
<1>1. /\ Ask("logout") \in RequestType /\ Ask("logout").kind = "logout"
      /\ Ask("logout").answer = "none" /\ Ask("logout").tx = {}
  BY DEF Ask, None, RequestType
<1>2. /\ clicks' \in Nat /\ target' = target /\ target \in SUBSET Users
      /\ form' \in SUBSET Users /\ open' \in BOOLEAN
      /\ offset' \in Nat /\ offset' = offset
      /\ late' = late /\ late \in SUBSET {"qr", "code", "form", "journal"}
  BY DEF DoLogout, admin, Click, Inv, TypeOK
<1>3. FormIsTargetUnlessLate'
  BY DEF DoLogout, admin, Inv, FormIsTargetUnlessLate
<1>4. Send(r, Ask("logout"))
  BY DEF DoLogout
<1>. QED  BY <1>1, <1>2, <1>3, <1>4, AskInv DEF DoLogout, admin

LEMMA JournalClickInv ==
    ASSUME Inv, NEW r \in Requests, JournalClick(r)
    PROVE  Inv'
<1>1. PICK o \in Nat : LoadJournal(r, o)
  BY DEF JournalClick, Inv, TypeOK
<1>. DEFINE m == [Ask("journal") EXCEPT !.offset = o]
<1>2. /\ m \in RequestType /\ m.kind = "journal" /\ m.answer = "none" /\ m.offset = o
      /\ m.tx = {}
  BY DEF Ask, None, RequestType
<1>3. Send(r, m)
  BY <1>1 DEF LoadJournal
<1>. HIDE DEF m
<1>4. /\ clicks' \in Nat /\ target' = target /\ target \in SUBSET Users
      /\ form' \in SUBSET Users /\ open' \in BOOLEAN
      /\ offset' \in Nat /\ offset' = o
  BY <1>1 DEF JournalClick, LoadJournal, Click, Inv, TypeOK
<1>5. /\ late' \in SUBSET {"qr", "code", "form", "journal"} /\ late \subseteq late'
      /\ UnderWay("journal") => "journal" \in late'
  BY <1>1 DEF LoadJournal, Inv, TypeOK
<1>6. FormIsTargetUnlessLate'
  BY <1>1, <1>5 DEF LoadJournal, Inv, FormIsTargetUnlessLate
<1>. QED  BY <1>1, <1>2, <1>3, <1>4, <1>5, <1>6, AskInv DEF JournalClick, LoadJournal

\* A handler that closes or opens the form without asking for anything.
LEMMA FormInv ==
    ASSUME Inv, OpenCreateUserModal \/ CloseClick
    PROVE  Inv'
<1>1. /\ UNCHANGED <<user, page, qr, starts, offset, rows, more, request, backend>>
      /\ target' = {} /\ form' = {} /\ open' \in BOOLEAN /\ clicks' \in Nat
      /\ late \subseteq late' /\ late' \subseteq {"qr", "code", "form", "journal"}
      /\ UnderWay("user") => "form" \in late'
  <2>0. clicks \in Nat /\ late \subseteq {"qr", "code", "form", "journal"}
    BY DEF Inv, TypeOK
  <2>1. clicks' \in Nat
    BY <2>0 DEF OpenCreateUserModal, CloseClick, Click
  <2>2. late' = IF UnderWay("user") THEN late \cup {"form"} ELSE late
    BY DEF OpenCreateUserModal, CloseClick, CloseUserModal
  <2>3. /\ late \subseteq late' /\ late' \subseteq {"qr", "code", "form", "journal"}
        /\ UnderWay("user") => "form" \in late'
    BY <2>0, <2>2
  <2>4. CASE OpenCreateUserModal
    BY <2>1, <2>3, <2>4 DEF OpenCreateUserModal
  <2>5. CASE CloseClick
    BY <2>1, <2>3, <2>5 DEF CloseClick, CloseUserModal
  <2>. QED  BY <2>4, <2>5
<1>. USE DEF qr, backend
<1>2. TypeOK'
  BY <1>1 DEF Inv, TypeOK
<1>3. Screen' /\ Elsewhere' /\ Known'
  BY <1>1 DEF Inv, Screen, VerdictIsCurrentUnlessLate, Elsewhere, Known, UnderWay
<1>4. FormIsTargetUnlessLate' /\ RowsAreCurrentUnlessLate'
  BY <1>1 DEF Inv, FormIsTargetUnlessLate, RowsAreCurrentUnlessLate, UnderWay
<1>5. ASSUME NEW q \in Requests PROVE Sound(request[q])'
  <2>1. request[q].kind = "user" => "form" \in late'
    BY <1>1 DEF UnderWay
  <2>. QED  BY <1>1, <2>1 DEF Inv, Sound
<1>. QED  BY <1>2, <1>3, <1>4, <1>5 DEF Inv

----------------------------------------------------------------------------
(* Signing in and navigation *)

\* The home page is the one that a QR code belongs to.
LEMMA HomeInv ==
    ASSUME Inv, page' = "home", UNCHANGED <<qr, admin, request, status, late>>,
           starts' \in Nat, clicks' \in Nat, session' \in BOOLEAN, user' \subseteq Operators
    PROVE  Inv'
<1>. USE DEF qr, admin
<1>1. TypeOK'
  BY DEF Inv, TypeOK
<1>2. Screen' /\ Elsewhere' /\ Known'
  BY DEF Inv, Screen, VerdictIsCurrentUnlessLate, Elsewhere, Known
<1>3. FormIsTargetUnlessLate' /\ RowsAreCurrentUnlessLate'
  BY DEF Inv, FormIsTargetUnlessLate, RowsAreCurrentUnlessLate, UnderWay
<1>4. ASSUME NEW q \in Requests PROVE Sound(request[q])'
  BY DEF Inv, Sound
<1>. QED  BY <1>1, <1>2, <1>3, <1>4 DEF Inv

LEMMA StartsTyped ==
    ASSUME Inv, NEW o \in Operators, SetupQRPage(o)
    PROVE  starts' \in Nat
BY DEF SetupQRPage, Inv, TypeOK

LEMMA LoginInv ==
    ASSUME Inv, DoLogin
    PROVE  Inv'
<1>1. starts' \in Nat /\ user' \subseteq Operators
  BY StartsTyped DEF DoLogin
<1>2. clicks' \in Nat
  BY DEF DoLogin, Click, Inv, TypeOK
<1>. QED  BY <1>1, <1>2, HomeInv DEF DoLogin

\* Leaving the page of the QR code: whatever was under way is late.
LEMMA AwayScreen ==
    ASSUME Inv, StopPolling, current' = {}, area' = "empty", verdict' = {},
           UNCHANGED starts,
           \A q \in Requests : \/ request'[q] = request[q]
                               \/ /\ request'[q].kind \notin {"generate", "poll"}
                                  /\ request'[q].tx = {},
           late \subseteq late', UnderWay("poll") => "qr" \in late',
           UnderWay("generate") \/ starts > 0 => "code" \in late',
           UNCHANGED status
    PROVE  /\ Screen' /\ Elsewhere' /\ Known' /\ ticking' = {} /\ timer' = {}
<1>1. Screen' /\ ticking' = {} /\ timer' = {}
  BY ResetScreen
<1>2. Elsewhere'
  BY <1>1 DEF Elsewhere, UnderWay
<1>3. Known'
  BY <1>1 DEF Inv, Known
<1>. QED  BY <1>1, <1>2, <1>3

LEMMA AwayInv ==
    ASSUME Inv, NavigateAway, UNCHANGED <<user, backend>>, clicks' \in Nat
    PROVE  Inv'
<1>. USE DEF NavigateAway, ResetQR, admin, backend
<1>1. /\ late \subseteq late'
      /\ UnderWay("poll") => "qr" \in late'
      /\ UnderWay("generate") \/ starts > 0 => "code" \in late'
  OBVIOUS
<1>2. /\ Screen' /\ Elsewhere' /\ Known' /\ ticking' = {} /\ timer' = {}
  BY <1>1, AwayScreen
<1>3. TypeOK'
  <2>1. late \subseteq {"qr", "code", "form", "journal"}
    BY DEF Inv, TypeOK
  <2>2. late' \subseteq {"qr", "code", "form", "journal"}
    BY <2>1
  <2>. QED  BY <1>2, <2>2 DEF Inv, TypeOK
<1>4. FormIsTargetUnlessLate' /\ RowsAreCurrentUnlessLate'
  BY DEF Inv, FormIsTargetUnlessLate, RowsAreCurrentUnlessLate, UnderWay
<1>5. ASSUME NEW q \in Requests PROVE Sound(request[q])'
  <2>1. request[q].kind = "poll" => "qr" \in late'
    BY DEF UnderWay
  <2>. QED  BY <2>1 DEF Inv, Sound
<1>. QED  BY <1>2, <1>3, <1>4, <1>5 DEF Inv

LEMMA NavigateJournalInv ==
    ASSUME Inv, NEW r \in Requests, NavigateJournal(r), UNCHANGED <<user, backend>>,
           clicks' \in Nat
    PROVE  Inv'
<1>. USE DEF backend
<1>1. /\ Ask("journal") \in RequestType /\ Ask("journal").kind = "journal"
      /\ Ask("journal").answer = "none" /\ Ask("journal").tx = {}
      /\ Ask("journal").offset = 0
  BY DEF Ask, None, RequestType
<1>2. /\ request' \in [Requests -> RequestType] /\ request'[r] = Ask("journal")
      /\ \A q \in Requests \ {r} : request'[q] = request[q]
      /\ request[r].kind = "none"
  BY <1>1, SendFacts DEF NavigateJournal, Inv
<1>3. /\ late \subseteq late'
      /\ UnderWay("poll") => "qr" \in late'
      /\ UnderWay("generate") \/ starts > 0 => "code" \in late'
      /\ UnderWay("journal") => "journal" \in late'
  BY DEF NavigateJournal
<1>4. /\ Screen' /\ Elsewhere' /\ Known' /\ ticking' = {} /\ timer' = {}
  BY <1>1, <1>2, <1>3, AwayScreen DEF NavigateJournal
<1>5. late' \subseteq {"qr", "code", "form", "journal"}
  <2>1. late \subseteq {"qr", "code", "form", "journal"}
    BY DEF Inv, TypeOK
  <2>. QED  BY <2>1 DEF NavigateJournal
<1>6. TypeOK'
  BY <1>2, <1>4, <1>5 DEF NavigateJournal, Inv, TypeOK
<1>7. FormIsTargetUnlessLate'
  BY <1>3 DEF NavigateJournal, Inv, FormIsTargetUnlessLate
<1>8. RowsAreCurrentUnlessLate'
  BY <1>1, <1>2 DEF RowsAreCurrentUnlessLate, UnderWay
<1>9. ASSUME NEW q \in Requests PROVE Sound(request[q])'
  <2>1. CASE q = r
    BY <1>1, <1>2, <2>1 DEF NavigateJournal, Sound
  <2>2. CASE q # r
    <3>1. request'[q] = request[q] /\ Sound(request[q])
      BY <1>2, <2>2 DEF Inv
    <3>2. /\ request[q].kind = "poll" => "qr" \in late'
          /\ request[q].kind = "journal" => "journal" \in late'
      BY <1>3 DEF UnderWay
    <3>3. target' = target
      BY DEF NavigateJournal
    <3>. QED  BY <1>3, <3>1, <3>2, <3>3 DEF Sound
  <2>. QED  BY <2>1, <2>2
<1>. QED  BY <1>4, <1>6, <1>7, <1>8, <1>9 DEF Inv

LEMMA NavigateInv ==
    ASSUME Inv, NavigateTo
    PROVE  Inv'
<1>. USE DEF NavigateTo
<1>1. clicks' \in Nat
  BY DEF Click, Inv, TypeOK
<1>2. CASE NavigateHome
  <2>1. starts' \in Nat
    BY <1>2, StartsTyped DEF NavigateHome, Inv, TypeOK
  <2>2. user' \subseteq Operators /\ session' \in BOOLEAN /\ status' = status
    BY DEF backend, Inv, TypeOK
  <2>. QED  BY <1>1, <1>2, <2>1, <2>2, HomeInv DEF NavigateHome
<1>3. CASE NavigateAway
  BY <1>1, <1>3, AwayInv
<1>4. ASSUME NEW r \in Requests, NavigateJournal(r) PROVE Inv'
  BY <1>1, <1>4, NavigateJournalInv
<1>. QED  BY <1>2, <1>3, <1>4

----------------------------------------------------------------------------
(* The backend and the network *)

\* An answer other than to a request for a new code.
LEMMA ReplyInv ==
    ASSUME Inv, NEW r \in Requests,
           NEW a \in {"ok", "refused", "pending", "received",
                      "verified", "failed", "error", "expired", "missing"},
           Reply(r, a), request[r].kind # "none",
           request[r].kind = "generate" => a # "ok",
           UNCHANGED <<user, page, qr, starts, admin, clicks, late>>,
           session' \in BOOLEAN,
           status' \in [Txs -> {"none", "pending", "genuine", "forged", "verified",
                                "error", "expired", "gone"}],
           \A t \in Txs : status[t] # "none" => status'[t] # "none"
    PROVE  Inv'
<1>1. /\ request' \in [Requests -> RequestType]
      /\ \A q \in Requests : /\ request'[q].kind = request[q].kind
                             /\ request'[q].tx = request[q].tx
                             /\ request'[q].user = request[q].user
                             /\ request'[q].offset = request[q].offset
      /\ \A q \in Requests \ {r} : request'[q] = request[q]
      /\ request'[r].answer = a
  BY ReplyFacts DEF Inv
<1>2. TypeOK'
  BY <1>1 DEF Inv, TypeOK, qr, admin
<1>3. Known'
  BY <1>1 DEF Inv, Known, qr
<1>. QED  BY <1>1, <1>2, <1>3, Quiet

LEMMA AnswerGenerateInv ==
    ASSUME Inv, NEW r \in Requests, AnswerGenerate(r),
           UNCHANGED <<user, page, qr, starts, admin, clicks, late>>
    PROVE  Inv'
<1>1. CASE Reply(r, "refused") /\ UNCHANGED status
  <2>. QED  BY <1>1, ReplyInv DEF AnswerGenerate, Waiting, Inv, TypeOK
<1>2. ASSUME NEW t \in Txs, status' = [status EXCEPT ![t] = "pending"],
             request' = [request EXCEPT ![r].answer = "ok", ![r].tx = {t}]
      PROVE  Inv'
  <2>1. request[r].kind = "generate" /\ session' = session
    BY DEF AnswerGenerate, Waiting
  <2>. DEFINE m == [request[r] EXCEPT !.answer = "ok", !.tx = {t}]
  <2>2. request[r] \in RequestType /\ request \in [Requests -> RequestType]
    BY DEF Inv, TypeOK
  <2>3. /\ m \in RequestType /\ m.kind = "generate" /\ m.answer = "ok" /\ m.tx = {t}
        /\ m.user = request[r].user /\ m.offset = request[r].offset
    BY <2>1, <2>2 DEF RequestType
  <2>4. request' = [request EXCEPT ![r] = m]
    BY <1>2, <2>2 DEF RequestType
  <2>. HIDE DEF m
  <2>5. /\ request' \in [Requests -> RequestType] /\ request'[r] = m
        /\ \A q \in Requests \ {r} : request'[q] = request[q]
    BY <2>2, <2>3, <2>4
  <2>6. TypeOK'
    BY <1>2, <2>1, <2>5 DEF Inv, TypeOK, qr, admin
  <2>7. Known'
    BY <1>2, <2>3, <2>5 DEF Inv, Known, TypeOK, qr
  <2>. QED  BY <2>1, <2>3, <2>5, <2>6, <2>7, Quiet
<1>. QED  BY <1>1, <1>2 DEF AnswerGenerate

LEMMA AnswerPollInv ==
    ASSUME Inv, NEW r \in Requests, AnswerPoll(r),
           UNCHANGED <<user, page, qr, starts, admin, clicks, late>>
    PROVE  Inv'
<1>1. /\ request[r].kind = "poll" /\ session' \in BOOLEAN
      /\ status \in [Txs -> {"none", "pending", "genuine", "forged", "verified",
                             "error", "expired", "gone"}]
  BY DEF AnswerPoll, Waiting, Inv, TypeOK
<1>2. CASE Reply(r, "refused") /\ UNCHANGED status
  BY <1>1, <1>2, ReplyInv
<1>3. ASSUME NEW t \in request[r].tx, Reply(r, PollResult[status[t]]),
             status' = [status EXCEPT ![t] = AfterPoll[status[t]]]
      PROVE  Inv'
  <2>1. t \in Txs
    BY DEF Inv, TypeOK, RequestType
  <2>2. status[t] \in {"pending", "genuine", "forged", "verified",
                       "error", "expired", "gone"}
    BY <1>1, <2>1 DEF Inv, Known
  <2>3. /\ PollResult[status[t]] \in {"pending", "verified", "failed", "error",
                                      "expired", "refused"}
        /\ AfterPoll[status[t]] \in {"pending", "forged", "verified", "error", "gone"}
    BY <2>2 DEF PollResult, AfterPoll
  <2>4. /\ status' \in [Txs -> {"none", "pending", "genuine", "forged", "verified",
                                "error", "expired", "gone"}]
        /\ \A u \in Txs : status[u] # "none" => status'[u] # "none"
    BY <1>1, <1>3, <2>1, <2>3
  <2>5. PollResult[status[t]] \in {"ok", "refused", "pending", "received", "verified",
                                   "failed", "error", "expired", "missing"}
    BY <2>3
  <2>. QED  BY <1>1, <1>3, <2>4, <2>5, ReplyInv
<1>. QED  BY <1>2, <1>3 DEF AnswerPoll

LEMMA AnswerInv ==
    ASSUME Inv, NEW r \in Requests, Answer(r)
    PROVE  Inv'
<1>1. /\ UNCHANGED <<user, page, qr, starts, admin, clicks, late>>
      /\ session \in BOOLEAN
      /\ status \in [Txs -> {"none", "pending", "genuine", "forged", "verified",
                             "error", "expired", "gone"}]
  BY DEF Answer, Inv, TypeOK
<1>2. CASE AnswerGenerate(r)
  BY <1>1, <1>2, AnswerGenerateInv
<1>3. CASE AnswerPoll(r)
  BY <1>1, <1>3, AnswerPollInv
<1>4. CASE AnswerLogout(r)
  BY <1>1, <1>4, ReplyInv DEF AnswerLogout, Waiting
<1>5. CASE AnswerAdmin(r)
  <2>1. /\ request[r].kind \in {"user", "journal", "submit"}
        /\ session' = session /\ status' = status
    BY <1>5 DEF AnswerAdmin, Waiting, backend
  <2>2. Reply(r, "ok") \/ Reply(r, "missing") \/ Reply(r, "refused")
    BY <1>5 DEF AnswerAdmin
  <2>. QED  BY <1>1, <2>1, <2>2, ReplyInv
<1>. QED  BY <1>2, <1>3, <1>4, <1>5 DEF Answer

LEMMA LoseInv ==
    ASSUME Inv, NEW r \in Requests, Lose(r)
    PROVE  Inv'
<1>. QED  BY ReplyInv DEF Lose, backend, Inv, TypeOK

\* The wallet and the clock only move a transaction that is there.
LEMMA BackendInv ==
    ASSUME Inv, NEW t \in Txs, WalletPosts(t) \/ Expire(t)
    PROVE  Inv'
<1>1. /\ UNCHANGED <<user, page, qr, starts, admin, request, session, clicks, late>>
      /\ \E s \in {"genuine", "forged", "error", "expired"} :
            status' = [status EXCEPT ![t] = s]
  BY DEF WalletPosts, Expire
<1>2. TypeOK'
  BY <1>1 DEF Inv, TypeOK, qr, admin
<1>3. Known'
  BY <1>1 DEF Inv, Known, TypeOK, qr
<1>4. ASSUME NEW q \in Requests
      PROVE  request'[q].answer # "ok" \/ request'[q] = request[q]
  BY <1>1
<1>. QED  BY <1>1, <1>2, <1>3, <1>4, Quiet

----------------------------------------------------------------------------
(* Answers that arrive *)

\* What holds when the answer to request r is handled, whatever it does.
LEMMA DeliverFacts ==
    ASSUME Inv, NEW r \in Requests, Deliver(r)
    PROVE  /\ request' \in [Requests -> RequestType]
           /\ request'[r].kind = "none" /\ request'[r].answer = "none"
           /\ request'[r].tx = {}
           /\ \A q \in Requests \ {r} : request'[q] = request[q]
           /\ UNCHANGED <<starts, session, status, clicks>>
           /\ Sound(request[r]) /\ request[r] \in RequestType
           /\ request[r].kind \in {"generate", "poll", "logout", "user", "submit", "journal"}
           /\ UnderWay(request[r].kind)
<1>1. request \in [Requests -> RequestType] /\ Sound(request[r])
  BY DEF Inv, TypeOK
<1>2. request[r].kind # "none"
  BY <1>1 DEF Deliver, Sound
<1>3. request[r].kind \in {"generate", "poll", "logout", "user", "submit", "journal"}
  BY <1>1, <1>2 DEF RequestType
<1>4. request' = [request EXCEPT ![r] = None]
  BY DEF Deliver
<1>5. None \in RequestType /\ None.kind = "none" /\ None.answer = "none" /\ None.tx = {}
  BY DEF None, RequestType
<1>6. UNCHANGED <<starts, session, status, clicks>>
  BY DEF Deliver, backend
<1>. HIDE DEF RequestType
<1>. QED  BY <1>1, <1>3, <1>4, <1>5, <1>6 DEF UnderWay

\* Which part of the page goes on.
LEMMA DeliverKinds ==
    ASSUME Inv, NEW r \in Requests, Deliver(r)
    PROVE  \/ request[r].kind = "generate" /\ GenerateAnswer(request[r].answer, request[r].tx)
           \/ request[r].kind = "poll" /\ PollAnswer(request[r].answer, request[r].tx)
           \/ request[r].kind = "logout" /\ LogoutAnswer
           \/ request[r].kind = "user" /\ EditAnswer(request[r].answer, request[r].user)
           \/ request[r].kind = "submit" /\ SubmitAnswer(request[r].answer)
           \/ request[r].kind = "journal" /\ JournalAnswer(request[r].answer, request[r].offset)
BY DeliverFacts DEF Deliver

\* The requests that stay under way are about the same as before.
LEMMA StillSound ==
    ASSUME Inv, NEW r \in Requests, Deliver(r), late \subseteq late',
           current' = current \/ (UnderWay("poll") => "qr" \in late'),
           target' = target \/ (UnderWay("user") => "form" \in late'),
           offset' = offset
    PROVE  \A q \in Requests : Sound(request[q])'
<1>. SUFFICES ASSUME NEW q \in Requests PROVE Sound(request[q])'
  OBVIOUS
<1>1. CASE q = r
  BY <1>1, DeliverFacts DEF Sound
<1>2. CASE q # r
  <2>1. request'[q] = request[q] /\ Sound(request[q])
    BY <1>2, DeliverFacts DEF Inv
  <2>2. /\ request[q].kind = "poll" => UnderWay("poll")
        /\ request[q].kind = "user" => UnderWay("user")
    BY DEF UnderWay
  <2>. QED  BY <2>1, <2>2 DEF Sound
<1>. QED  BY <1>1, <1>2

LEMMA GenerateAnswerInv ==
    ASSUME Inv, NEW r \in Requests, Deliver(r), request[r].kind = "generate",
           GenerateAnswer(request[r].answer, request[r].tx)
    PROVE  Inv'
<1>. DEFINE a == request[r].answer
            x == request[r].tx
<1>1. /\ user' = user /\ page' = page /\ admin' = admin /\ verdict' = {}
  BY DEF GenerateAnswer
<1>2. late \subseteq late' /\ late' \subseteq {"qr", "code", "form", "journal"}
  BY DEF GenerateAnswer, Inv, TypeOK
<1>3. /\ Screen' /\ ticking' \subseteq Txs /\ timer' \subseteq Txs /\ current' \subseteq Txs
      /\ area' \in {"empty", "code"}
      /\ ticking' \subseteq ticking \cup x
      /\ current' = current \/ (UnderWay("poll") => "qr" \in late')
  <2>1. CASE a = "ok"
    <3>1. PICK t \in Txs : x = {t}
      BY <2>1, DeliverFacts DEF Sound
    <3>2. /\ area' = "code" /\ current' = {t} /\ timer' = {t}
          /\ ticking' = (ticking \ timer) \cup {t}
          /\ UnderWay("poll") => "qr" \in late'
      BY <2>1, <3>1 DEF GenerateAnswer, StartPolling
    <3>3. ticking' = {t}
      BY <3>2 DEF Inv, Screen
    <3>. QED  BY <1>1, <3>1, <3>2, <3>3 DEF Screen, VerdictIsCurrentUnlessLate
  <2>2. CASE a # "ok"
    BY <1>1, <2>2 DEF GenerateAnswer, Inv, Screen, TypeOK, VerdictIsCurrentUnlessLate
  <2>. QED  BY <2>1, <2>2
<1>4. TypeOK'
  BY <1>1, <1>2, <1>3, DeliverFacts DEF Inv, TypeOK, admin
<1>5. Elsewhere'
  <2>1. page # "home" => "code" \in late
    BY DeliverFacts DEF Inv, Elsewhere
  <2>. QED  BY <1>1, <1>2, <2>1 DEF Elsewhere
<1>6. Known'
  BY <1>3, DeliverFacts DEF Inv, Known
<1>7. FormIsTargetUnlessLate'
  BY <1>1, <1>2 DEF Inv, FormIsTargetUnlessLate, admin
<1>8. RowsAreCurrentUnlessLate'
  BY <1>1, <1>2, DeliverFacts DEF Inv, RowsAreCurrentUnlessLate, UnderWay, admin
<1>9. \A q \in Requests : Sound(request[q])'
  BY <1>1, <1>2, <1>3, StillSound DEF admin
<1>. QED  BY <1>3, <1>4, <1>5, <1>6, <1>7, <1>8, <1>9 DEF Inv

LEMMA PollAnswerInv ==
    ASSUME Inv, NEW r \in Requests, Deliver(r), request[r].kind = "poll",
           PollAnswer(request[r].answer, request[r].tx)
    PROVE  Inv'
<1>. DEFINE a == request[r].answer
            x == request[r].tx
<1>1. UNCHANGED <<user, page, current, admin, late>>
  BY DEF PollAnswer
<1>2. x \subseteq Txs /\ (x = current \/ "qr" \in late)
  BY DeliverFacts DEF Sound, RequestType
<1>3. /\ Screen' /\ ticking' \subseteq ticking /\ timer' \subseteq timer
      /\ verdict' \subseteq Txs
      /\ area' \in {"empty", "loading", "code", "verified", "failed"}
  <2>1. CASE a \in DOMAIN AreaOf
    <3>1. StopPolling /\ area' = AreaOf[a] /\ verdict' = x
      BY <2>1 DEF PollAnswer
    <3>2. area' \in {"verified", "failed"}
      BY <2>1, <3>1 DEF AreaOf
    <3>. QED  BY <1>1, <1>2, <3>1, <3>2
              DEF StopPolling, Inv, Screen, VerdictIsCurrentUnlessLate
  <2>2. CASE a \notin DOMAIN AreaOf
    BY <1>1, <2>2 DEF PollAnswer, Inv, Screen, TypeOK, VerdictIsCurrentUnlessLate
  <2>. QED  BY <2>1, <2>2
<1>4. TypeOK'
  BY <1>1, <1>3, DeliverFacts DEF Inv, TypeOK, admin
<1>5. Elsewhere'
  BY <1>1, <1>3, DeliverFacts DEF Inv, Elsewhere, UnderWay
<1>6. Known'
  BY <1>3, DeliverFacts DEF Inv, Known
<1>7. FormIsTargetUnlessLate'
  BY <1>1 DEF Inv, FormIsTargetUnlessLate, admin
<1>8. RowsAreCurrentUnlessLate'
  BY <1>1, DeliverFacts DEF Inv, RowsAreCurrentUnlessLate, UnderWay, admin
<1>9. \A q \in Requests : Sound(request[q])'
  BY <1>1, StillSound DEF admin
<1>. QED  BY <1>3, <1>4, <1>5, <1>6, <1>7, <1>8, <1>9 DEF Inv

LEMMA LogoutAnswerInv ==
    ASSUME Inv, NEW r \in Requests, Deliver(r), request[r].kind = "logout", LogoutAnswer
    PROVE  Inv'
<1>. USE DEF LogoutAnswer, ResetQR
<1>1. /\ late \subseteq late'
      /\ UnderWay("poll") => "qr" \in late'
      /\ UnderWay("generate") \/ starts > 0 => "code" \in late'
  OBVIOUS
<1>2. late' \subseteq {"qr", "code", "form", "journal"}
  <2>1. late \subseteq {"qr", "code", "form", "journal"}
    BY DEF Inv, TypeOK
  <2>. QED  BY <2>1
<1>3. \A q \in Requests : \/ request'[q] = request[q]
                          \/ /\ request'[q].kind \notin {"generate", "poll"}
                             /\ request'[q].tx = {}
  BY DeliverFacts
<1>4. /\ Screen' /\ Elsewhere' /\ Known' /\ ticking' = {} /\ timer' = {}
  BY <1>1, <1>3, AwayScreen, DeliverFacts
<1>5. TypeOK'
  BY <1>2, <1>4, DeliverFacts DEF Inv, TypeOK, admin
<1>6. FormIsTargetUnlessLate'
  BY <1>1 DEF Inv, FormIsTargetUnlessLate, admin
<1>7. RowsAreCurrentUnlessLate'
  BY <1>1, DeliverFacts DEF Inv, RowsAreCurrentUnlessLate, UnderWay, admin
<1>8. \A q \in Requests : Sound(request[q])'
  BY <1>1, StillSound DEF admin
<1>. QED  BY <1>4, <1>5, <1>6, <1>7, <1>8 DEF Inv

\* The answer for the form, and the answer to a submission.
LEMMA FormAnswerInv ==
    ASSUME Inv, NEW r \in Requests, Deliver(r),
           \/ request[r].kind = "user" /\ EditAnswer(request[r].answer, request[r].user)
           \/ request[r].kind = "submit" /\ SubmitAnswer(request[r].answer)
    PROVE  Inv'
<1>1. /\ UNCHANGED <<user, page, qr, offset, rows, more>>
      /\ late \subseteq late' /\ late' \subseteq {"qr", "code", "form", "journal"}
      /\ target' \subseteq Users /\ form' \subseteq Users /\ open' \in BOOLEAN
      /\ target' = target \/ (UnderWay("user") => "form" \in late')
      /\ FormIsTargetUnlessLate'
  <2>1. /\ late \subseteq {"qr", "code", "form", "journal"}
        /\ target \subseteq Users /\ form \subseteq Users /\ open \in BOOLEAN
        /\ FormIsTargetUnlessLate
    BY DEF Inv, TypeOK
  <2>2. CASE UNCHANGED <<user, page, qr, admin, late>>
    BY <2>1, <2>2 DEF admin, FormIsTargetUnlessLate
  <2>3. CASE CloseUserModal
    BY <2>1, <2>3 DEF CloseUserModal, FormIsTargetUnlessLate
  <2>4. CASE request[r].kind = "user" /\ EditAnswer(request[r].answer, request[r].user)
    <3>1. request[r].user \subseteq Users /\ (request[r].user = target \/ "form" \in late)
      BY <2>4, DeliverFacts DEF Sound, RequestType
    <3>. QED  BY <2>1, <2>4, <3>1 DEF EditAnswer, FormIsTargetUnlessLate
  <2>. QED  BY <2>2, <2>3, <2>4 DEF SubmitAnswer
<1>. USE DEF qr
<1>2. TypeOK'
  BY <1>1, DeliverFacts DEF Inv, TypeOK
<1>3. Screen'
  BY <1>1 DEF Inv, Screen, VerdictIsCurrentUnlessLate
<1>4. Elsewhere'
  BY <1>1, DeliverFacts DEF Inv, Elsewhere, UnderWay
<1>5. Known'
  BY <1>1, DeliverFacts DEF Inv, Known
<1>6. RowsAreCurrentUnlessLate'
  BY <1>1, DeliverFacts DEF Inv, RowsAreCurrentUnlessLate, UnderWay
<1>7. \A q \in Requests : Sound(request[q])'
  BY <1>1, StillSound
<1>. QED  BY <1>1, <1>2, <1>3, <1>4, <1>5, <1>6, <1>7 DEF Inv

LEMMA JournalAnswerInv ==
    ASSUME Inv, NEW r \in Requests, Deliver(r), request[r].kind = "journal",
           JournalAnswer(request[r].answer, request[r].offset)
    PROVE  Inv'
<1>. DEFINE o == request[r].offset
<1>1. /\ UNCHANGED <<user, page, qr, target, form, open, offset, late>>
      /\ rows' \in {{o}, {}}
  BY DEF JournalAnswer
<1>2. o \in Nat /\ (o = offset \/ "journal" \in late)
  BY DeliverFacts DEF Sound, RequestType
<1>3. rows' \subseteq Nat /\ more' \in BOOLEAN
  <2>1. (o < LastPage) \in BOOLEAN /\ more \in BOOLEAN
    BY DEF Inv, TypeOK
  <2>2. more' \in {o < LastPage, more}
    BY DEF JournalAnswer
  <2>. QED  BY <1>1, <1>2, <2>1, <2>2
<1>. USE DEF qr
<1>4. TypeOK'
  BY <1>1, <1>3, DeliverFacts DEF Inv, TypeOK
<1>5. Screen'
  BY <1>1 DEF Inv, Screen, VerdictIsCurrentUnlessLate
<1>6. Elsewhere'
  BY <1>1, DeliverFacts DEF Inv, Elsewhere, UnderWay
<1>7. Known'
  BY <1>1, DeliverFacts DEF Inv, Known
<1>8. FormIsTargetUnlessLate' /\ RowsAreCurrentUnlessLate'
  BY <1>1, <1>2 DEF Inv, FormIsTargetUnlessLate, RowsAreCurrentUnlessLate
<1>9. \A q \in Requests : Sound(request[q])'
  BY <1>1, StillSound
<1>. QED  BY <1>4, <1>5, <1>6, <1>7, <1>8, <1>9 DEF Inv

LEMMA DeliverInv ==
    ASSUME Inv, NEW r \in Requests, Deliver(r)
    PROVE  Inv'
BY DeliverKinds, GenerateAnswerInv, PollAnswerInv, LogoutAnswerInv, FormAnswerInv,
   JournalAnswerInv

----------------------------------------------------------------------------
(* The theorems *)

LEMMA InitInv == Init => Inv
<1>. SUFFICES ASSUME Init PROVE Inv
  OBVIOUS
<1>1. /\ user \subseteq Operators /\ page \in {"login", "home"} /\ starts \in Nat
      /\ page = "login" => starts = 0
      /\ session \in BOOLEAN
  <2>1. CASE user = {} /\ page = "login" /\ session = FALSE /\ starts = 0
    BY <2>1
  <2>2. ASSUME NEW o \in Operators, user = {o}, page = "home", session = TRUE,
               starts = IF AutoStart(o) THEN 1 ELSE 0
        PROVE  /\ user \subseteq Operators /\ page \in {"login", "home"} /\ starts \in Nat
               /\ page # "login" /\ session \in BOOLEAN
    BY <2>2
  <2>. QED  BY <2>1, <2>2 DEF Init
<1>2. None \in RequestType /\ None.kind = "none" /\ None.answer = "none" /\ None.tx = {}
  BY DEF None, RequestType
<1>3. request \in [Requests -> RequestType] /\ \A r \in Requests : request[r] = None
  BY <1>2 DEF Init
<1>4. TypeOK
  BY <1>1, <1>3, BoundsAssumption DEF Init, TypeOK
<1>5. Screen /\ FormIsTargetUnlessLate /\ RowsAreCurrentUnlessLate
  BY DEF Init, Screen, VerdictIsCurrentUnlessLate, FormIsTargetUnlessLate,
         RowsAreCurrentUnlessLate
<1>6. Elsewhere /\ Known
  BY <1>1, <1>2, <1>3 DEF Init, Elsewhere, Known, UnderWay
<1>7. ASSUME NEW r \in Requests PROVE Sound(request[r])
  BY <1>2, <1>3 DEF Sound
<1>. QED  BY <1>4, <1>5, <1>6, <1>7 DEF Inv

LEMMA StutterInv ==
    ASSUME Inv, UNCHANGED vars
    PROVE  Inv'
<1>. USE DEF vars, qr, admin, backend
<1>1. TypeOK' /\ Known'
  BY DEF Inv, TypeOK, Known
<1>. QED  BY <1>1, Quiet

LEMMA NextInv == Inv /\ [Next]_vars => Inv'
<1>. SUFFICES ASSUME Inv, [Next]_vars PROVE Inv'
  OBVIOUS
<1>1. CASE Operator
  <2>1. CASE DoLogin \/ CancelClick \/ NavigateTo \/ OpenCreateUserModal \/ CloseClick
    BY <2>1, LoginInv, CancelInv, NavigateInv, FormInv
  <2>2. ASSUME NEW r \in Requests, \/ GenerateClick(r) \/ DoLogout(r)
                                   \/ JournalClick(r) \/ SubmitUserModal(r)
        PROVE  Inv'
    BY <2>2, GenerateInv, LogoutInv, JournalClickInv, SubmitInv
  <2>3. ASSUME NEW r \in Requests, NEW u \in Users, OpenEditUserModal(r, u) PROVE Inv'
    BY <2>3, OpenEditInv
  <2>. QED  BY <1>1, <2>1, <2>2, <2>3 DEF Operator
<1>2. CASE Timers
  BY <1>2, GenerateInv, TimerInv DEF Timers
<1>3. ASSUME NEW r \in Requests, Answer(r) \/ Lose(r) \/ Deliver(r) PROVE Inv'
  BY <1>3, AnswerInv, LoseInv, DeliverInv
<1>4. ASSUME NEW t \in Txs, WalletPosts(t) \/ Expire(t) PROVE Inv'
  BY <1>4, BackendInv
<1>5. CASE UNCHANGED vars
  BY <1>5, StutterInv
<1>. QED  BY <1>1, <1>2, <1>3, <1>4, <1>5 DEF Next

\* What the page shows, and what it has asked for, belong together, or late
\* says what has overtaken it.
THEOREM InvHolds == Spec => []Inv
BY InitInv, NextInv, PTL DEF Spec

\* The values of the state have their types.
THEOREM TypeCorrect == Spec => []TypeOK
<1>1. Inv => TypeOK
  BY DEF Inv
<1>. QED  BY <1>1, InvHolds, PTL

\* qrcode.ts: no interval outlives its code and no code loses its interval.
THEOREM CodesArePolled == Spec => []CodeIsPolled
<1>1. Inv => CodeIsPolled
  BY DEF Inv, Screen, CodeIsPolled
<1>. QED  BY <1>1, InvHolds, PTL

\* qrcode.ts: the verdict on the screen is about the current transaction,
\* unless a poll of an older one was under way when it was replaced.
THEOREM VerdictIsCurrent == Spec => []VerdictIsCurrentUnlessLate
<1>1. Inv => VerdictIsCurrentUnlessLate
  BY DEF Inv, Screen
<1>. QED  BY <1>1, InvHolds, PTL

\* users.ts: the form shows the user that a submission will change, unless
\* another was asked for before the answer had come.
THEOREM FormIsTarget == Spec => []FormIsTargetUnlessLate
<1>1. Inv => FormIsTargetUnlessLate
  BY DEF Inv
<1>. QED  BY <1>1, InvHolds, PTL

\* journal.ts: the table shows the page whose number is below it, unless two
\* pages were asked for together.
THEOREM RowsAreCurrent == Spec => []RowsAreCurrentUnlessLate
<1>1. Inv => RowsAreCurrentUnlessLate
  BY DEF Inv
<1>. QED  BY <1>1, InvHolds, PTL

\* main.ts: away from the home page nothing is polled, unless a QR code was on
\* its way when the page was left.
THEOREM NoPollingElsewhere == Spec => []NoPollingElsewhereUnlessLate
<1>1. Inv => NoPollingElsewhereUnlessLate
  BY DEF Inv, Elsewhere, NoPollingElsewhereUnlessLate
<1>. QED  BY <1>1, InvHolds, PTL

----------------------------------------------------------------------------
(* Why polling ends: what a step does to the QR codes that may still come,  *)
(* and to the transactions that are over.                                   *)

Generating == {r \in Requests : request[r].kind = "generate"}

\* The codes that can still appear: for each a click, a timeout or a request.
CodesLeft == clicks + starts + Cardinality(Generating)

Over(t) == status[t] \in {"expired", "gone"}

\* A poll of a transaction that is over gets an answer that ends the polling,
\* and such an answer is kept until it has done so.
PollsEnd ==
    \A r \in Requests : request[r].kind = "poll" =>
        /\ request[r].answer = "none" /\ (\A t \in request[r].tx : Over(t))
             => request'[r] = request[r] \/ request'[r].answer \in DOMAIN AreaOf
        /\ request[r].answer \in DOMAIN AreaOf
             => request'[r].answer \in DOMAIN AreaOf \/ ticking' = {}

Progress ==
    /\ CodesLeft' <= CodesLeft
    /\ ticking' \subseteq ticking \/ CodesLeft' < CodesLeft
    /\ \A t \in Txs : Over(t) => Over(t)'
    /\ PollsEnd

LEMMA GeneratingFinite ==
    ASSUME NEW S \in SUBSET Requests
    PROVE  IsFiniteSet(S) /\ Cardinality(S) \in Nat
<1>1. IsFiniteSet(Requests)
  BY BoundsAssumption, FS_Interval DEF Requests
<1>. QED  BY <1>1, FS_Subset, FS_CardinalityType

LEMMA CountNat ==
    ASSUME Inv
    PROVE  /\ clicks \in Nat /\ starts \in Nat
           /\ IsFiniteSet(Generating) /\ Cardinality(Generating) \in Nat
<1>1. Generating \in SUBSET Requests
  BY DEF Generating
<1>. QED  BY <1>1, GeneratingFinite DEF Inv, TypeOK

LEMMA CountNatNext ==
    ASSUME Inv'
    PROVE  /\ clicks' \in Nat /\ starts' \in Nat
           /\ IsFiniteSet(Generating') /\ Cardinality(Generating') \in Nat
<1>1. Generating' \in SUBSET Requests
  BY DEF Generating
<1>. QED  BY <1>1, GeneratingFinite DEF Inv, TypeOK

\* No new code is asked for; a click may become a timeout.
LEMMA CountKept ==
    ASSUME Inv, Inv', Generating' \subseteq Generating,
           clicks' + starts' <= clicks + starts
    PROVE  CodesLeft' <= CodesLeft
<1>1. Cardinality(Generating') <= Cardinality(Generating)
  BY CountNat, FS_Subset
<1>. QED  BY <1>1, CountNat, CountNatNext DEF CodesLeft

\* A click or a timeout becomes a request for a code.
LEMMA CountSpent ==
    ASSUME Inv, Inv', NEW r \in Requests, Generating' \subseteq Generating \cup {r},
           clicks' + starts' + 1 <= clicks + starts
    PROVE  CodesLeft' <= CodesLeft
<1>1. /\ IsFiniteSet(Generating \cup {r})
      /\ Cardinality(Generating \cup {r}) =
           IF r \in Generating THEN Cardinality(Generating) ELSE Cardinality(Generating) + 1
  BY CountNat, FS_AddElement
<1>2. Cardinality(Generating') <= Cardinality(Generating \cup {r})
  BY <1>1, FS_Subset
<1>3. Cardinality(Generating') <= Cardinality(Generating) + 1
  BY <1>1, <1>2, CountNat, CountNatNext
<1>. QED  BY <1>3, CountNat, CountNatNext DEF CodesLeft

\* A request for a code is answered.
LEMMA CountAnswered ==
    ASSUME Inv, Inv', NEW r \in Generating, Generating' = Generating \ {r},
           UNCHANGED <<clicks, starts>>
    PROVE  CodesLeft' < CodesLeft
<1>1. Cardinality(Generating') = Cardinality(Generating) - 1
  BY CountNat, FS_RemoveElement
<1>. QED  BY <1>1, CountNat, CountNatNext DEF CodesLeft

\* A step that starts no interval and leaves polls and transactions alone.
LEMMA NoNewCode ==
    ASSUME Inv, Inv', Generating' \subseteq Generating,
           clicks' + starts' <= clicks + starts,
           ticking' \subseteq ticking, status' = status,
           \A q \in Requests : request[q].kind = "poll" => request'[q] = request[q]
    PROVE  Progress
<1>1. CodesLeft' <= CodesLeft
  BY CountKept
<1>2. PollsEnd
  BY DEF PollsEnd
<1>. QED  BY <1>1, <1>2 DEF Progress, Over

\* A new request leaves the polls under way alone.
LEMMA Sent ==
    ASSUME Inv, NEW r \in Requests, NEW m, Send(r, m)
    PROVE  /\ \A q \in Requests : request[q].kind = "poll" => request'[q] = request[q]
           /\ m.kind # "generate" => Generating' \subseteq Generating
           /\ Generating' \subseteq Generating \cup {r}
<1>1. /\ request[r].kind = "none" /\ request'[r] = m
      /\ \A q \in Requests \ {r} : request'[q] = request[q]
  BY DEF Send, Inv, TypeOK
<1>. QED  BY <1>1 DEF Generating

LEMMA ClickNat ==
    ASSUME Inv, Click
    PROVE  clicks' + 1 = clicks /\ clicks' \in Nat /\ clicks \in Nat /\ starts \in Nat
BY DEF Click, Inv, TypeOK

\* A request for anything but a code, from a click or from the timer.
LEMMA SentOther ==
    ASSUME Inv, Inv', NEW r \in Requests, NEW m, Send(r, m), m.kind # "generate",
           clicks' + starts' <= clicks + starts, ticking' \subseteq ticking,
           status' = status
    PROVE  Progress
BY Sent, NoNewCode

\* StopPolling starts nothing.
LEMMA Stops ==
    StopPolling => ticking' \subseteq ticking
BY DEF StopPolling

LEMMA GenerateProgress ==
    ASSUME Inv, Inv', NEW r \in Requests, GenerateClick(r) \/ GenerateAuto(r)
    PROVE  Progress
<1>1. GenerateQR(r) /\ UNCHANGED <<ticking, status>>
  BY DEF GenerateClick, GenerateAuto, GenerateQR, backend
<1>2. /\ \A q \in Requests : request[q].kind = "poll" => request'[q] = request[q]
      /\ Generating' \subseteq Generating \cup {r}
  BY <1>1, Sent DEF GenerateQR
<1>3. clicks' + starts' + 1 <= clicks + starts
  <2>1. CASE GenerateClick(r)
    BY <2>1, ClickNat DEF GenerateClick
  <2>2. CASE GenerateAuto(r)
    BY <2>2, CountNat DEF GenerateAuto
  <2>. QED  BY <2>1, <2>2
<1>4. CodesLeft' <= CodesLeft
  BY <1>2, <1>3, CountSpent
<1>5. PollsEnd
  BY <1>2 DEF PollsEnd
<1>. QED  BY <1>1, <1>4, <1>5 DEF Progress, Over

LEMMA OperatorProgress ==
    ASSUME Inv, Inv', Operator
    PROVE  Progress
<1>. USE DEF qr, admin, backend
<1>1. CASE CancelClick \/ OpenCreateUserModal \/ CloseClick
  <2>1. Click /\ UNCHANGED <<starts, request, status>> /\ ticking' \subseteq ticking
    BY <1>1, Stops DEF CancelClick, OpenCreateUserModal, CloseClick, CloseUserModal, ResetQR
  <2>. QED  BY <2>1, ClickNat, NoNewCode DEF Generating
<1>2. CASE DoLogin \/ NavigateTo
  <2>1. Click /\ status' = status
    BY <1>2 DEF DoLogin, NavigateTo
  <2>2. CASE (\E o : SetupQRPage(o)) /\ UNCHANGED <<ticking, request>>
    <3>1. starts' <= starts + 1 /\ starts' \in Nat
      BY <2>2, CountNat DEF SetupQRPage
    <3>. QED  BY <2>1, <2>2, <3>1, ClickNat, NoNewCode DEF Generating
  <2>3. CASE NavigateAway
    BY <2>1, <2>3, ClickNat, NoNewCode, Stops DEF NavigateAway, ResetQR, Generating
  <2>4. ASSUME NEW r \in Requests, NavigateJournal(r) PROVE Progress
    <3>1. /\ Send(r, Ask("journal")) /\ Ask("journal").kind = "journal"
          /\ starts' = starts /\ ticking' \subseteq ticking
      BY <2>4, Stops DEF NavigateJournal, Ask, None
    <3>. QED  BY <2>1, <3>1, ClickNat, SentOther
  <2>. QED  BY <1>2, <2>2, <2>3, <2>4 DEF DoLogin, NavigateTo, NavigateHome
<1>3. ASSUME NEW r \in Requests, \/ DoLogout(r) \/ JournalClick(r) \/ SubmitUserModal(r)
                                 \/ \E u \in Users : OpenEditUserModal(r, u)
      PROVE  Progress
  <2>1. Click /\ UNCHANGED <<starts, ticking, status>>
    BY <1>3 DEF DoLogout, JournalClick, SubmitUserModal, OpenEditUserModal
  <2>2. clicks' + starts' <= clicks + starts
    BY <2>1, ClickNat
  <2>3. CASE DoLogout(r)
    <3>1. Send(r, Ask("logout")) /\ Ask("logout").kind = "logout"
      BY <2>3 DEF DoLogout, Ask, None
    <3>. QED  BY <2>1, <2>2, <3>1, SentOther
  <2>4. CASE JournalClick(r)
    <3>1. PICK o : Send(r, [Ask("journal") EXCEPT !.offset = o])
      BY <2>4 DEF JournalClick, LoadJournal
    <3>2. [Ask("journal") EXCEPT !.offset = o].kind = "journal"
      BY DEF Ask, None
    <3>. QED  BY <2>1, <2>2, <3>1, <3>2, SentOther
  <2>5. ASSUME NEW x, NEW kind \in {"submit", "user"},
               Send(r, [Ask(kind) EXCEPT !.user = x])
        PROVE  Progress
    <3>1. [Ask(kind) EXCEPT !.user = x].kind = kind
      BY DEF Ask, None
    <3>. QED  BY <2>1, <2>2, <2>5, <3>1, SentOther
  <2>6. CASE SubmitUserModal(r)
    BY <2>5, <2>6 DEF SubmitUserModal
  <2>7. CASE \E u \in Users : OpenEditUserModal(r, u)
    BY <2>5, <2>7 DEF OpenEditUserModal
  <2>. QED  BY <1>3, <2>3, <2>4, <2>6, <2>7
<1>. QED  BY <1>1, <1>2, <1>3, GenerateProgress DEF Operator

LEMMA TimersProgress ==
    ASSUME Inv, Inv', Timers
    PROVE  Progress
<1>1. ASSUME NEW r \in Requests, TimerFires(r) PROVE Progress
  <2>1. UNCHANGED <<starts, clicks, ticking, status>>
    BY <1>1 DEF TimerFires, qr, backend
  <2>2. PICK t \in ticking : Send(r, [Ask("poll") EXCEPT !.tx = {t}])
    BY <1>1 DEF TimerFires
  <2>3. [Ask("poll") EXCEPT !.tx = {t}].kind = "poll"
    BY DEF Ask, None
  <2>4. clicks' + starts' <= clicks + starts
    BY <2>1, CountNat
  <2>. QED  BY <2>1, <2>2, <2>3, <2>4, SentOther
<1>. QED  BY <1>1, GenerateProgress DEF Timers

\* The backend answers a poll: a transaction that is over stays so, and its
\* poll is told.
LEMMA AnswerPollProgress ==
    ASSUME Inv, Inv', NEW r \in Requests, AnswerPoll(r), ticking' = ticking,
           UNCHANGED <<clicks, starts>>
    PROVE  Progress
<1>1. PICK t \in request[r].tx :
         IF session
         THEN /\ Reply(r, PollResult[status[t]])
              /\ status' = [status EXCEPT ![t] = AfterPoll[status[t]]]
         ELSE Reply(r, "refused") /\ UNCHANGED status
  BY DEF AnswerPoll
<1>2. /\ t \in Txs /\ request[r] \in RequestType /\ request[r].kind = "poll"
      /\ request[r].answer = "none"
      /\ request \in [Requests -> RequestType]
      /\ status \in [Txs -> {"none", "pending", "genuine", "forged", "verified",
                             "error", "expired", "gone"}]
  BY DEF Inv, TypeOK, RequestType, AnswerPoll, Waiting
<1>3. PICK a : Reply(r, a) /\ (Over(t) \/ ~ session => a \in DOMAIN AreaOf)
  <2>1. CASE ~ session
    BY <1>1, <2>1 DEF AreaOf
  <2>2. CASE session
    <3>1. Over(t) => PollResult[status[t]] \in DOMAIN AreaOf
      BY DEF Over, PollResult, AreaOf
    <3>. QED  BY <1>1, <2>2, <3>1
  <2>. QED  BY <2>1, <2>2
<1>4. /\ \A q \in Requests : request'[q].kind = request[q].kind
      /\ \A q \in Requests \ {r} : request'[q] = request[q]
      /\ request'[r].answer = a
  BY <1>2, <1>3 DEF Reply, RequestType
<1>5. \A u \in Txs : Over(u) => Over(u)'
  BY <1>1, <1>2 DEF Over, AfterPoll
<1>6. PollsEnd
  <2>. SUFFICES ASSUME NEW q \in Requests, request[q].kind = "poll"
                PROVE  /\ request[q].answer = "none" /\ (\A u \in request[q].tx : Over(u))
                            => request'[q] = request[q] \/ request'[q].answer \in DOMAIN AreaOf
                       /\ request[q].answer \in DOMAIN AreaOf
                            => request'[q].answer \in DOMAIN AreaOf \/ ticking' = {}
    BY DEF PollsEnd
  <2>1. CASE q # r
    BY <1>4, <2>1
  <2>2. CASE q = r
    <3>1. "none" \notin DOMAIN AreaOf
      BY DEF AreaOf
    <3>2. (\A u \in request[r].tx : Over(u)) => Over(t)
      OBVIOUS
    <3>. QED  BY <1>2, <1>3, <1>4, <2>2, <3>1, <3>2
  <2>. QED  BY <2>1, <2>2
<1>7. CodesLeft' <= CodesLeft
  BY <1>4, CountNat, CountKept DEF Generating
<1>. QED  BY <1>5, <1>6, <1>7 DEF Progress

LEMMA AnswerProgress ==
    ASSUME Inv, Inv', NEW r \in Requests, Answer(r)
    PROVE  Progress
<1>1. UNCHANGED <<ticking, clicks, starts>>
  BY DEF Answer, qr
<1>2. request \in [Requests -> RequestType]
  BY DEF Inv, TypeOK
<1>3. CASE AnswerPoll(r)
  BY <1>1, <1>3, AnswerPollProgress
<1>4. CASE AnswerGenerate(r) \/ AnswerLogout(r) \/ AnswerAdmin(r)
  <2>1. /\ request[r].kind # "poll"
        /\ \A q \in Requests : request'[q].kind = request[q].kind
        /\ \A q \in Requests \ {r} : request'[q] = request[q]
    <3>1. request[r].kind # "poll"
      BY <1>4 DEF AnswerGenerate, AnswerLogout, AnswerAdmin, Waiting
    <3>2. \/ \E a : Reply(r, a)
          \/ \E t : request' = [request EXCEPT ![r].answer = "ok", ![r].tx = {t}]
      BY <1>4 DEF AnswerGenerate, AnswerLogout, AnswerAdmin
    <3>. QED  BY <1>2, <3>1, <3>2 DEF Reply, RequestType
  <2>2. \A t \in Txs : Over(t) => Over(t)'
    <3>1. CASE AnswerGenerate(r)
      <4>1. CASE status' = status
        BY <4>1 DEF Over
      <4>2. ASSUME NEW t \in Txs, {u \in Txs : status[u] = "none"} = t .. MaxTxs,
                   status' = [status EXCEPT ![t] = "pending"]
            PROVE  \A u \in Txs : Over(u) => Over(u)'
        <5>1. t \in t .. MaxTxs
          BY BoundsAssumption DEF Txs
        <5>2. status[t] = "none"
          BY <4>2, <5>1
        <5>. QED  BY <4>2, <5>2 DEF Over, Inv, TypeOK
      <4>. QED  BY <3>1, <4>1, <4>2 DEF AnswerGenerate
    <3>2. CASE AnswerLogout(r) \/ AnswerAdmin(r)
      BY <3>2 DEF AnswerLogout, AnswerAdmin, backend, Over
    <3>. QED  BY <1>4, <3>1, <3>2
  <2>3. CodesLeft' <= CodesLeft
    BY <1>1, <2>1, CountNat, CountKept DEF Generating
  <2>4. PollsEnd
    BY <2>1 DEF PollsEnd
  <2>. QED  BY <1>1, <2>2, <2>3, <2>4 DEF Progress
<1>. QED  BY <1>3, <1>4 DEF Answer

\* A poll that gets lost ends the polling too.
LEMMA LoseProgress ==
    ASSUME Inv, Inv', NEW r \in Requests, Lose(r)
    PROVE  Progress
<1>1. /\ UNCHANGED <<ticking, clicks, starts, status>>
      /\ Reply(r, "refused")
      /\ request \in [Requests -> RequestType]
  BY DEF Lose, qr, backend, Inv, TypeOK
<1>2. /\ \A q \in Requests : request'[q].kind = request[q].kind
      /\ \A q \in Requests \ {r} : request'[q] = request[q]
      /\ request'[r].answer = "refused"
  BY <1>1 DEF Reply, RequestType
<1>3. PollsEnd
  BY <1>2 DEF PollsEnd, AreaOf
<1>4. CodesLeft' <= CodesLeft
  BY <1>1, <1>2, CountNat, CountKept DEF Generating
<1>. QED  BY <1>1, <1>3, <1>4 DEF Progress, Over

\* The answer that ends the polling ends it: the interval is the only one.
LEMMA DeliverProgress ==
    ASSUME Inv, Inv', NEW r \in Requests, Deliver(r)
    PROVE  Progress
<1>1. /\ UNCHANGED <<starts, clicks, status>>
      /\ Generating' = Generating \ {r}
      /\ \A q \in Requests \ {r} : request'[q] = request[q]
  BY DeliverFacts DEF Generating
<1>2. CodesLeft' <= CodesLeft
  BY <1>1, CountNat, CountKept
<1>3. \A t \in Txs : Over(t) => Over(t)'
  BY <1>1 DEF Over
<1>4. CASE request[r].kind = "generate"
  <2>1. CodesLeft' < CodesLeft
    BY <1>1, <1>4, CountAnswered DEF Generating
  <2>2. PollsEnd
    BY <1>1, <1>4 DEF PollsEnd
  <2>. QED  BY <1>2, <1>3, <2>1, <2>2 DEF Progress
<1>5. CASE request[r].kind = "poll"
  <2>1. PollAnswer(request[r].answer, request[r].tx) /\ request[r].answer # "none"
    BY <1>5, DeliverKinds DEF Deliver
  <2>2. ticking = timer
    BY DEF Inv, Screen
  <2>3. IF request[r].answer \in DOMAIN AreaOf THEN ticking' = {} ELSE ticking' = ticking
    BY <2>1, <2>2 DEF PollAnswer, StopPolling
  <2>4. PollsEnd
    BY <1>1, <2>1, <2>3 DEF PollsEnd
  <2>. QED  BY <1>2, <1>3, <2>3, <2>4 DEF Progress
<1>6. CASE request[r].kind \notin {"generate", "poll"}
  <2>1. ticking' \subseteq ticking
    BY <1>6, DeliverKinds, Stops
       DEF LogoutAnswer, ResetQR, EditAnswer, SubmitAnswer, CloseUserModal, JournalAnswer, qr
  <2>2. PollsEnd
    BY <1>1, <1>6 DEF PollsEnd
  <2>. QED  BY <1>2, <1>3, <2>1, <2>2 DEF Progress
<1>. QED  BY <1>4, <1>5, <1>6

LEMMA BackendProgress ==
    ASSUME Inv, Inv', NEW t \in Txs, WalletPosts(t) \/ Expire(t)
    PROVE  Progress
<1>1. UNCHANGED <<qr, starts, request, clicks>>
  BY DEF WalletPosts, Expire
<1>2. \A u \in Txs : Over(u) => Over(u)'
  <2>1. ~ Over(t)
    BY DEF WalletPosts, Expire, Live, Over
  <2>2. \E s : status' = [status EXCEPT ![t] = s]
    BY DEF WalletPosts, Expire
  <2>. QED  BY <2>1, <2>2 DEF Over, Inv, TypeOK
<1>3. CodesLeft' <= CodesLeft
  BY <1>1, CountNat, CountKept DEF Generating
<1>. QED  BY <1>1, <1>2, <1>3 DEF Progress, PollsEnd, qr

LEMMA NextProgress ==
    ASSUME Inv, Inv', [Next]_vars
    PROVE  [Progress]_vars
<1>1. ASSUME NEW r \in Requests, Answer(r) \/ Lose(r) \/ Deliver(r) PROVE Progress
  BY <1>1, AnswerProgress, LoseProgress, DeliverProgress
<1>2. ASSUME NEW t \in Txs, WalletPosts(t) \/ Expire(t) PROVE Progress
  BY <1>2, BackendProgress
<1>. QED  BY <1>1, <1>2, OperatorProgress, TimersProgress DEF Next

\* qrcode.ts, what PollingEnds rests on: at most one code for each click and one
\* for the sign-in at the start ever gets an interval; a transaction that is
\* over stays over; a poll of it, and a poll that gets lost, brings an
\* answer that ends the polling, and nothing on its way makes it less.
THEOREM PollingIsBounded ==
    Spec => /\ [](CodesLeft \in 0 .. (Clicks + 1))
            /\ [][Progress]_vars
<1>. DEFINE Bounded == CodesLeft \in 0 .. (Clicks + 1)
<1>1. Init => Bounded
  <2>. SUFFICES ASSUME Init PROVE Bounded
    OBVIOUS
  <2>1. starts \in {0, 1} /\ clicks = Clicks
    BY DEF Init
  <2>2. Generating = {}
    BY DEF Init, Generating, None
  <2>3. Cardinality(Generating) = 0
    BY <2>2, FS_EmptySet
  <2>. QED  BY <2>1, <2>3, BoundsAssumption DEF CodesLeft
<1>2. Inv /\ Inv' /\ [Next]_vars => [Progress]_vars
  BY NextProgress
<1>3. Inv /\ Inv' /\ Bounded /\ [Progress]_vars => Bounded'
  <2>. SUFFICES ASSUME Inv, Inv', Bounded, [Progress]_vars PROVE Bounded'
    OBVIOUS
  <2>1. CASE UNCHANGED vars
    BY <2>1 DEF vars, CodesLeft, Generating
  <2>2. CASE Progress
    <3>1. CodesLeft' \in Nat /\ CodesLeft \in Nat /\ CodesLeft' <= CodesLeft
      BY <2>2, CountNat, CountNatNext DEF CodesLeft, Progress
    <3>. HIDE DEF CodesLeft
    <3>. QED  BY <3>1, BoundsAssumption
  <2>. QED  BY <2>1, <2>2
<1>. HIDE DEF Bounded
<1>4. Spec => []Bounded /\ [][Progress]_vars
  BY <1>1, <1>2, <1>3, InvHolds, PTL DEF Spec
<1>. QED  BY <1>4 DEF Bounded
=============================================================================
