---------------------------- MODULE VerifierPage ----------------------------
(***************************************************************************)
(* The page of the Verifier App (ewqwe-credential-verifier-ui/ui/src): the *)
(* QR code and its polling, the form that edits a user, the pages of the   *)
(* journal, navigation, sign-in and sign-out.                              *)
(*                                                                         *)
(* A script runs without interruption up to its next await.  Between       *)
(* asking the backend and getting the answer everything else may happen:   *)
(* clicks, timers, other answers.  Requests are handled, and answers       *)
(* arrive, in any order.  The backend is what VerifierApp and OpenID4VP    *)
(* promise about a transaction: one status, read by polls, changed by      *)
(* wallets, by the verification that a poll runs, and by expiry.           *)
(***************************************************************************)
EXTENDS Integers, FiniteSets

CONSTANTS
    MaxTxs,         \* bound on the transactions
    Users,          \* ids of users that an administrator can edit
    LastPage,       \* the last page of the journal, the only one not full
    MaxRequests,    \* bound on the requests that the page has under way
    Clicks,         \* bound on the clicks of the operator
    AllTypes,       \* the credential types that the page knows
    ServerTypes,    \* allowed_credential_types of the server; {}: all
    Operators,      \* who may sign in: role and allowed credential types
    Failures        \* polls and their answers may be lost

ASSUME OperatorsAssumption ==
    Operators \subseteq [role : {"admin", "verifier"}, types : SUBSET AllTypes]
ASSUME BoundsAssumption == /\ LastPage \in Nat /\ Clicks \in Nat
                           /\ MaxRequests \in Nat /\ MaxTxs \in Nat
ASSUME TypesAssumption == ServerTypes \subseteq AllTypes
ASSUME FailuresAssumption == Failures \in BOOLEAN

\* Ids of transactions, in the order in which the backend gives them out.
Txs == 1 .. MaxTxs

VARIABLES
    user,      \* currentUser
    page,      \* currentPage, or the login page
    area,      \* the one qr-area that is not hidden
    current,   \* currentTransactionId
    timer,     \* pollTimer: the transaction it polls
    ticking,   \* the intervals that the browser runs
    starts,    \* setTimeouts of setupQRPage that have not fired
    target,    \* editingUserId
    form,      \* whose data the form for users shows; open when it is shown
    open,
    offset,    \* journalOffset, in pages
    rows,      \* the page of the journal that the table shows
    more,      \* the button for the next page is enabled
    request,   \* request[r]: a request that is under way
    session,   \* the backend knows the session cookie
    status,    \* status[t]: transaction t at the backend
    clicks,    \* clicks still to come
    verdict,   \* the transaction whose verdict the page shows (history)
    late       \* what was replaced while its answer was under way (history)

qr == <<area, current, timer, ticking, verdict>>
admin == <<target, form, open, offset, rows, more>>
backend == <<session, status>>
vars == <<user, page, qr, starts, admin, request, backend, clicks, late>>

-----------------------------------------------------------------------------
(* Credential types *)

\* setupQRPage: the types that operator o can choose from.
EffectiveTypes(o) ==
    IF o.types # {} THEN {t \in o.types : ServerTypes = {} \/ t \in ServerTypes}
    ELSE IF ServerTypes # {} THEN ServerTypes ELSE AllTypes

\* A verifier with one type does not have to click.
AutoStart(o) == o.role = "verifier" /\ Cardinality(EffectiveTypes(o)) = 1

SetupQRPage(o) == starts' = IF AutoStart(o) THEN starts + 1 ELSE starts

-----------------------------------------------------------------------------
(* Requests *)

Requests == 1 .. MaxRequests

RequestType == [kind : {"none", "generate", "poll", "logout", "user", "submit",
                        "journal"},
                tx : SUBSET Txs, user : SUBSET Users, offset : Nat,
                answer : {"none", "ok", "refused", "pending", "received",
                          "verified", "failed", "error", "expired", "missing"}]

None == [kind |-> "none", tx |-> {}, user |-> {}, offset |-> 0, answer |-> "none"]

Ask(kind) == [None EXCEPT !.kind = kind]

\* The first part of a function that awaits apiFetch.
Send(r, message) ==
    /\ request[r].kind = "none"
    /\ \A q \in 1 .. (r - 1) : request[q].kind # "none"
    /\ request' = [request EXCEPT ![r] = message]

UnderWay(kind) == \E r \in Requests : request[r].kind = kind

Click == clicks > 0 /\ clicks' = clicks - 1

\* initApp: a session that is still valid leads to the home page at once.
Init ==
    /\ \/ user = {} /\ page = "login" /\ session = FALSE /\ starts = 0
       \/ \E o \in Operators :
             /\ user = {o} /\ page = "home" /\ session = TRUE
             /\ starts = IF AutoStart(o) THEN 1 ELSE 0
    /\ area = "empty"
    /\ current = {} /\ timer = {} /\ ticking = {}
    /\ target = {} /\ form = {} /\ open = FALSE
    /\ offset = 0 /\ rows = {} /\ more = TRUE
    /\ request = [r \in Requests |-> None]
    /\ status = [t \in Txs |-> "none"]
    /\ clicks = Clicks
    /\ verdict = {}
    /\ late = {}

-----------------------------------------------------------------------------
(* qrcode.ts: the QR code *)

\* MUTANT: an interval that runs already is not cleared.
StartPollingAgain(t) ==
    /\ timer' = {t}
    /\ ticking' = ticking \cup {t}

StartPolling(t) ==
    /\ timer' = {t}
    /\ ticking' = (ticking \ timer) \cup {t}

StopPolling ==
    /\ timer' = {}
    /\ ticking' = ticking \ timer

\* resetQR, and cancelQR, which does nothing else.  A poll or a new code
\* that is under way is not called off.
ResetQR ==
    /\ StopPolling
    /\ current' = {}
    /\ area' = "empty" /\ verdict' = {}
    /\ late' = late \cup {k \in {"qr"} : UnderWay("poll")}
                    \cup {k \in {"code"} : UnderWay("generate") \/ starts > 0}

\* generateQR up to its request.  An older transaction is still polled.
GenerateQR(r) ==
    /\ Send(r, Ask("generate"))
    /\ area' = "loading" /\ verdict' = {}
    /\ UNCHANGED <<user, page, current, timer, ticking, admin, backend, late>>

\* Every area but the one for loading has a button for it.
GenerateClick(r) ==
    /\ page = "home" /\ area # "loading"
    /\ Click
    /\ GenerateQR(r)
    /\ UNCHANGED starts

\* The setTimeout of setupQRPage fires; nothing cancels it.
GenerateAuto(r) ==
    /\ starts > 0
    /\ starts' = starts - 1
    /\ GenerateQR(r)
    /\ UNCHANGED clicks

CancelClick ==
    /\ page = "home" /\ area = "code"
    /\ \A o \in user : o.role = "admin" \/ Cardinality(EffectiveTypes(o)) > 1
    /\ Click
    /\ ResetQR
    /\ UNCHANGED <<user, page, starts, admin, request, backend>>

\* generateQR after its request.
GenerateAnswer(answer, tx) ==
    /\ verdict' = {}
    /\ IF answer = "ok"
       THEN /\ area' = "code"
            /\ current' = tx
            /\ \E t \in tx : StartPolling(t)
            /\ late' = IF UnderWay("poll") THEN late \cup {"qr"} ELSE late
       ELSE /\ area' = "empty"
            /\ UNCHANGED <<current, timer, ticking, late>>
    /\ UNCHANGED <<user, page, admin>>

\* setInterval: a poll starts whether or not the one before it was answered.
TimerFires(r) ==
    /\ \E t \in ticking : Send(r, [Ask("poll") EXCEPT !.tx = {t}])
    /\ UNCHANGED <<user, page, qr, starts, admin, backend, clicks, late>>

\* MUTANT: an error of a poll is taken for a hiccup of the network.
AreaWithoutErrors ==
    [verified |-> "verified", failed |-> "failed", expired |-> "failed"]

\* pollStatus: the answers that end the polling, and what they show.  The
\* backend never sends "completed", "rejected" or "scanned".
AreaOf == [verified |-> "verified", failed |-> "failed", expired |-> "failed",
           refused |-> "failed"]

\* pollStatus after its request: the answer is shown whatever the page shows.
PollAnswer(answer, tx) ==
    /\ IF answer \in DOMAIN AreaOf
       THEN /\ StopPolling
            /\ area' = AreaOf[answer]
            /\ verdict' = tx
       ELSE UNCHANGED <<area, timer, ticking, verdict>>
    /\ UNCHANGED <<user, page, current, admin, late>>

-----------------------------------------------------------------------------
(* users.ts: the form that creates or edits a user *)

OpenCreateUserModal ==
    /\ page = "users" /\ ~ open
    /\ Click
    /\ target' = {} /\ form' = {} /\ open' = TRUE
    /\ late' = IF UnderWay("user") THEN late \cup {"form"} ELSE late
    /\ UNCHANGED <<user, page, qr, starts, offset, rows, more, request, backend>>

\* Before the answer comes the form is not shown, and covers nothing.
OpenEditUserModal(r, u) ==
    /\ page = "users" /\ ~ open
    /\ Click
    /\ target' = {u}
    /\ late' = IF UnderWay("user") THEN late \cup {"form"} ELSE late
    /\ Send(r, [Ask("user") EXCEPT !.user = {u}])
    /\ UNCHANGED <<user, page, qr, starts, form, open, offset, rows, more, backend>>

CloseUserModal ==
    /\ open' = FALSE /\ target' = {} /\ form' = {}
    /\ late' = IF UnderWay("user") THEN late \cup {"form"} ELSE late
    /\ UNCHANGED <<user, page, qr, offset, rows, more>>

CloseClick ==
    /\ open
    /\ Click
    /\ CloseUserModal
    /\ UNCHANGED <<starts, request, backend>>

\* submitUserModal up to its request: the values of the form go to target,
\* or make a new user.
SubmitUserModal(r) ==
    /\ open
    /\ Click
    /\ Send(r, [Ask("submit") EXCEPT !.user = target])
    /\ UNCHANGED <<user, page, qr, starts, admin, backend, late>>

\* submitUserModal after its request: it closes whatever form is open now.
SubmitAnswer(answer) ==
    IF answer = "ok" THEN CloseUserModal
    ELSE UNCHANGED <<user, page, qr, admin, late>>

\* MUTANT: the form opens before it is filled.
EditAnswerUnfilled(answer, whom) ==
    /\ IF answer = "ok" THEN open' = TRUE ELSE UNCHANGED open
    /\ UNCHANGED <<user, page, qr, target, form, offset, rows, more, late>>

\* openEditUserModal after its request; a user that is gone leaves a message.
EditAnswer(answer, whom) ==
    /\ IF answer = "ok" THEN form' = whom /\ open' = TRUE ELSE UNCHANGED <<form, open>>
    /\ UNCHANGED <<user, page, qr, target, offset, rows, more, late>>

-----------------------------------------------------------------------------
(* journal.ts: the pages of the journal *)

LoadJournal(r, o) ==
    /\ offset' = o
    /\ Send(r, [Ask("journal") EXCEPT !.offset = o])
    /\ late' = IF UnderWay("journal") THEN late \cup {"journal"} ELSE late
    /\ UNCHANGED <<target, form, open, rows, more>>

\* MUTANT: the button for the previous page does not look where it is.
JournalClickUnguarded(r) ==
    /\ page = "journal"
    /\ Click
    /\ (more /\ LoadJournal(r, offset + 1)) \/ LoadJournal(r, offset - 1)
    /\ UNCHANGED <<user, page, qr, starts, backend>>

\* The buttons of the journal: next, previous, and a new filter.
JournalClick(r) ==
    /\ page = "journal"
    /\ Click
    /\ \/ more /\ LoadJournal(r, offset + 1)
       \/ offset > 0 /\ LoadJournal(r, offset - 1)
       \/ LoadJournal(r, 0)
    /\ UNCHANGED <<user, page, qr, starts, backend>>

\* MUTANT: the rows are only replaced when there are any.
JournalAnswerKept(answer, o) ==
    /\ IF answer = "ok" /\ o <= LastPage
       THEN rows' = {o} /\ more' = (o < LastPage)
       ELSE UNCHANGED <<rows, more>>
    /\ UNCHANGED <<user, page, qr, target, form, open, offset, late>>

\* renderJournal; an error empties the table and leaves the buttons alone.
JournalAnswer(answer, o) ==
    /\ IF answer = "ok"
       THEN rows' = {o} /\ more' = (o < LastPage)
       ELSE rows' = {} /\ UNCHANGED more
    /\ UNCHANGED <<user, page, qr, target, form, open, offset, late>>

-----------------------------------------------------------------------------
(* main.ts: signing in and out, navigation *)

\* doLogin and onAuthenticated.  No QR code is reset here.
DoLogin ==
    /\ page = "login"
    /\ Click
    /\ session' = TRUE
    /\ page' = "home"
    /\ \E o \in Operators : user' = {o} /\ SetupQRPage(o)
    /\ UNCHANGED <<qr, admin, request, status, late>>

DoLogout(r) ==
    /\ page # "login"
    /\ Click
    /\ Send(r, Ask("logout"))
    /\ UNCHANGED <<user, page, qr, starts, admin, backend, late>>

LogoutAnswer ==
    /\ user' = {} /\ page' = "login"
    /\ ResetQR
    /\ UNCHANGED admin

\* MUTANT: the QR code is left alone.
NavigateKeepsQR ==
    /\ page' = "users"
    /\ UNCHANGED <<qr, starts, admin, request, late>>

\* navigateTo a page of the administrator; the journal loads at once.
NavigateAway ==
    /\ page' = "users"
    /\ ResetQR
    /\ UNCHANGED <<starts, admin, request>>

NavigateJournal(r) ==
    /\ page' = "journal"
    /\ StopPolling
    /\ current' = {}
    /\ area' = "empty" /\ verdict' = {}
    /\ offset' = 0
    /\ Send(r, Ask("journal"))
    /\ late' = late \cup {k \in {"qr"} : UnderWay("poll")}
                    \cup {k \in {"code"} : UnderWay("generate") \/ starts > 0}
                    \cup {k \in {"journal"} : UnderWay("journal")}
    /\ UNCHANGED <<starts, target, form, open, rows, more>>

NavigateHome ==
    /\ page' = "home"
    /\ \E o \in user : SetupQRPage(o)
    /\ UNCHANGED <<qr, admin, request, late>>

\* buildNav: a verifier has no other page than home.
NavigateTo ==
    /\ page # "login" /\ ~ open
    /\ Click
    /\ \/ NavigateHome
       \/ /\ \E o \in user : o.role = "admin"
          /\ NavigateAway \/ \E r \in Requests : NavigateJournal(r)
    /\ UNCHANGED <<user, backend>>

-----------------------------------------------------------------------------
(* The backend and the network *)

Waiting(r, kind) == request[r].kind = kind /\ request[r].answer = "none"

Reply(r, answer) == request' = [request EXCEPT ![r].answer = answer]

\* generate_qr.  The page only offers types that the backend allows; with
\* none to offer it asks for "", which the backend refuses.  It may fail.
AnswerGenerate(r) ==
    /\ Waiting(r, "generate")
    /\ \/ /\ session
          /\ \E o \in user : EffectiveTypes(o) # {}
          /\ \E t \in Txs :
                /\ {u \in Txs : status[u] = "none"} = t .. MaxTxs
                /\ status' = [status EXCEPT ![t] = "pending"]
                /\ request' = [request EXCEPT ![r].answer = "ok", ![r].tx = {t}]
       \/ Reply(r, "refused") /\ UNCHANGED status
    /\ UNCHANGED session

\* qr_status: a response is verified at once; a row found expired is gone.
PollResult ==
    [pending |-> "pending", genuine |-> "verified", forged |-> "failed",
     verified |-> "verified", error |-> "error", expired |-> "expired",
     gone |-> "refused"]

AfterPoll ==
    [pending |-> "pending", genuine |-> "verified", forged |-> "forged",
     verified |-> "verified", error |-> "error", expired |-> "gone", gone |-> "gone"]

AnswerPoll(r) ==
    /\ Waiting(r, "poll")
    /\ \E t \in request[r].tx :
         IF session
         THEN /\ Reply(r, PollResult[status[t]])
              /\ status' = [status EXCEPT ![t] = AfterPoll[status[t]]]
         ELSE Reply(r, "refused") /\ UNCHANGED status
    /\ UNCHANGED session

AnswerLogout(r) ==
    /\ Waiting(r, "logout")
    /\ session' = FALSE
    /\ Reply(r, "ok")
    /\ UNCHANGED status

\* list_users, admin_journal, create_user and update_user.  The user to be
\* edited may be gone; a submission may be refused.
AnswerAdmin(r) ==
    /\ Waiting(r, "user") \/ Waiting(r, "journal") \/ Waiting(r, "submit")
    /\ IF session
       THEN \/ Reply(r, "ok")
            \/ Waiting(r, "user") /\ Reply(r, "missing")
            \/ Waiting(r, "submit") /\ Reply(r, "refused")
       ELSE Reply(r, "refused")
    /\ UNCHANGED backend

Answer(r) ==
    /\ AnswerGenerate(r) \/ AnswerPoll(r) \/ AnswerLogout(r) \/ AnswerAdmin(r)
    /\ UNCHANGED <<user, page, qr, starts, admin, clicks, late>>

\* A poll or its answer is lost: apiFetch throws.
Lose(r) ==
    /\ Failures
    /\ request[r].kind = "poll"
    /\ Reply(r, "refused")
    /\ UNCHANGED <<user, page, qr, starts, admin, backend, clicks, late>>

\* The answer arrives and the function that awaits it goes on.
Deliver(r) ==
    LET answer == request[r].answer IN
    /\ answer # "none"
    /\ request' = [request EXCEPT ![r] = None]
    /\ CASE request[r].kind = "generate" -> GenerateAnswer(answer, request[r].tx)
         [] request[r].kind = "poll"     -> PollAnswer(answer, request[r].tx)
         [] request[r].kind = "logout"   -> LogoutAnswer
         [] request[r].kind = "user"     -> EditAnswer(answer, request[r].user)
         [] request[r].kind = "submit"   -> SubmitAnswer(answer)
         [] request[r].kind = "journal"  -> JournalAnswer(answer, request[r].offset)
    /\ UNCHANGED <<starts, backend, clicks>>

Live(t) == status[t] \in {"pending", "genuine", "forged", "verified", "error"}

\* direct_post: a response that will or will not verify, or an error.
WalletPosts(t) ==
    /\ Live(t)
    /\ status' \in {[status EXCEPT ![t] = s] : s \in {"genuine", "forged", "error"}}
    /\ UNCHANGED <<user, page, qr, starts, admin, request, session, clicks, late>>

\* The time to live of a transaction runs out.
Expire(t) ==
    /\ Live(t)
    /\ status' = [status EXCEPT ![t] = "expired"]
    /\ UNCHANGED <<user, page, qr, starts, admin, request, session, clicks, late>>

-----------------------------------------------------------------------------
Operator ==
    \/ DoLogin \/ CancelClick \/ NavigateTo
    \/ OpenCreateUserModal \/ CloseClick
    \/ \E r \in Requests :
          \/ GenerateClick(r) \/ DoLogout(r)
          \/ JournalClick(r) \/ SubmitUserModal(r)
          \/ \E u \in Users : OpenEditUserModal(r, u)

Timers == \E r \in Requests : GenerateAuto(r) \/ TimerFires(r)

Next ==
    \/ Operator
    \/ Timers
    \/ \E r \in Requests : Answer(r) \/ Lose(r) \/ Deliver(r)
    \/ \E t \in Txs : WalletPosts(t) \/ Expire(t)

Spec == Init /\ [][Next]_vars

\* Intervals fire while the browser runs the page, requests are answered or
\* fail, answers are handled, and the clock of the backend moves.  Neither
\* the operator nor a wallet has to do anything.
Fairness ==
    /\ WF_vars(\E r \in Requests : TimerFires(r))
    /\ WF_vars(\E r \in Requests : Answer(r))
    /\ WF_vars(\E r \in Requests : Deliver(r))
    /\ WF_vars(\E t \in Txs : Expire(t))

FairSpec == Spec /\ Fairness

-----------------------------------------------------------------------------
(* Properties *)

\* The values of the state have their types.
TypeOK ==
    /\ user \subseteq Operators
    /\ page \in {"login", "home", "users", "journal"}
    /\ area \in {"empty", "loading", "code", "verified", "failed"}
    /\ current \subseteq Txs /\ timer \subseteq Txs /\ ticking \subseteq Txs
    /\ starts \in Nat
    /\ target \subseteq Users /\ form \subseteq Users /\ open \in BOOLEAN
    /\ offset \in Nat /\ rows \subseteq Nat /\ more \in BOOLEAN
    /\ request \in [Requests -> RequestType]
    /\ session \in BOOLEAN
    /\ status \in [Txs -> {"none", "pending", "genuine", "forged", "verified",
                           "error", "expired", "gone"}]
    /\ clicks \in Nat
    /\ verdict \subseteq Txs
    /\ late \subseteq {"qr", "code", "form", "journal"}

\* A QR code on the screen is polled, and it is the only one that is: in no
\* order of clicks, timers and answers does an interval outlive its code or a
\* code lose its interval.
CodeIsPolled ==
    /\ ticking = timer
    /\ area = "code" => timer = current /\ current # {}

\* The verdict on the screen is the verdict on the transaction that the page
\* is about, unless a poll was under way when that transaction was replaced.
VerdictIsCurrentUnlessLate ==
    area \in {"verified", "failed"} => verdict = current \/ "qr" \in late

\* The form shows the user that a submission will write to, unless another
\* user was asked for before the answer had come.
FormIsTargetUnlessLate == open => form = target \/ "form" \in late

\* When the journal has answered, the table shows the page whose number is
\* below it, unless requests for two pages were under way together.
RowsAreCurrentUnlessLate ==
    rows \subseteq {offset} \/ UnderWay("journal") \/ "journal" \in late

\* "Stop QR polling when leaving the home/QR page" (main.ts): no interval runs
\* on another page, unless a QR code was on its way when the page was left.
NoPollingElsewhereUnlessLate == page # "home" => ticking = {} \/ "code" \in late

\* Polling ends, whatever the wallet answers and whatever gets lost: a
\* transaction expires, and the answers to that end it.
PollingEnds == <>[](ticking = {})

=============================================================================
