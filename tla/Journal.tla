------------------------------ MODULE Journal -------------------------------
(***************************************************************************)
(* The verification journal of the credential verifier server              *)
(* (crates/ewqwe-credential-verifier-server/src/journal): a hash-chained   *)
(* log per user, appended by concurrent requests with an optimistic        *)
(* compare-and-swap on the head, and audited by verify_chain.              *)
(*                                                                         *)
(* A chain hash stands for the text hashed into it: SHA-256 is taken as    *)
(* injective.  The text is username, previous hash and attestation column  *)
(* one after the other, with nothing between them, so it says which user,  *)
(* previous hash and attestation went in, and not in which of the two      *)
(* columns the previous hash stood.  The hash of an entry that was         *)
(* appended is then the sequence of <<username, attestation hash>> pairs   *)
(* from the first entry of the chain on.  The attestation hash of a        *)
(* request is the request itself: JWTs carry a fresh jti and app entries   *)
(* are salted with a fresh entry id.  It is no chain hash of a user, and   *)
(* the names of two users differ also when a hash follows one of them.     *)
(***************************************************************************)
EXTENDS Integers, Sequences, FiniteSets

CONSTANTS
    Users,          \* authenticated usernames
    Requests,       \* calls of append_verification, each made once
    Owner,          \* Owner[r]: the user on whose behalf r is made
    Instances,      \* server processes sharing the database
    HostOf,         \* HostOf[r]: the instance that serves r
    Skew,           \* Skew[i]: how far the clock of instance i is ahead
    Auditors,       \* concurrent calls of verify_chain
    MaxCasRetries   \* MAX_CAS_RETRIES, 5 in the code

ASSUME OwnerAssumption == Owner \in [Requests -> Users]
ASSUME ClockAssumption == /\ HostOf \in [Requests -> Instances]
                          /\ Skew \in [Instances -> Nat]
ASSUME RetryAssumption == MaxCasRetries \in Nat \ {0}

VARIABLES
    entries,    \* table journal_entries
    head,       \* table journal_heads: head[u], NoHash when u has no entry
    clock,      \* the wall clock that the instances approximate
    pc,         \* pc[r]: what r does next, or how it was answered
    attempt,    \* attempt[r]: iterations of the retry loop that failed
    seen,       \* seen[r]: the head that r read (current_head)
    stamp,      \* stamp[r]: created_at of the entry that r has built
    audit       \* audit[a]: progress and last verdict of verify_chain

vars == <<entries, head, clock, pc, attempt, seen, stamp, audit>>

-----------------------------------------------------------------------------
(* Hashes *)

Hash == Seq(Users \X Requests)

\* A missing previous hash is hashed as the empty byte string.
NoHash == << >>

\* The digest of the name u, the hash p and the attestation hash att.
LinkHash(u, p, att) == Append(p, <<u, att>>)

\* MUTANT: the hash without the username, as the header of the module has it.
HashWithoutUser(u, prev, lead, att) == Append(prev, att)

\* compute_entry_hash.  The attestation column is free text: a hash may stand in
\* it before the attestation hash (lead).  The digest is then the one of a row
\* that has that hash in its previous_hash column, unless this one has one too.
EntryHash(u, prev, lead, att) ==
    IF prev = NoHash THEN LinkHash(u, lead, att)
    ELSE IF lead = NoHash THEN LinkHash(u, prev, att)
    ELSE Append(prev, <<u, lead, att>>)

\* The attestation column of an entry is its fields lead and att.
Entry == [user : Users, prev : Hash, hash : Hash, lead : {NoHash},
          att : Requests, at : Nat]

EntriesOf(u) == {e \in entries : e.user = u}

\* The entry that r has built and offers to the store.
Built(r) == [user |-> Owner[r],
             prev |-> seen[r],
             hash |-> EntryHash(Owner[r], seen[r], NoHash, r),
             lead |-> NoHash,
             att  |-> r,
             at   |-> stamp[r]]

-----------------------------------------------------------------------------
(* verify_chain: the rows come ORDER BY created_at ASC, rows with the same *)
(* time in any order.                                                      *)

\* MUTANT: the order of list_entries, newest first.
NewestFirst(S) ==
    {rows \in [1 .. Cardinality(S) -> S] :
        /\ \A i, j \in 1 .. Cardinality(S) : rows[i] = rows[j] => i = j
        /\ \A i, j \in 1 .. Cardinality(S) : i < j => rows[i].at >= rows[j].at}

OrderedByTime(S) ==
    {rows \in [1 .. Cardinality(S) -> S] :
        /\ \A i, j \in 1 .. Cardinality(S) : rows[i] = rows[j] => i = j
        /\ \A i, j \in 1 .. Cardinality(S) : i < j => rows[i].at <= rows[j].at}

\* expected_previous at position i
Previous(rows, i) == IF i = 1 THEN NoHash ELSE rows[i - 1].hash

\* MUTANT: the pointers are followed, but no hash is computed again.
LinksTrusted(rows, u) ==
    \A i \in 1 .. Len(rows) : rows[i].prev = Previous(rows, i)

LinksHold(rows, u) ==
    \A i \in 1 .. Len(rows) :
        /\ rows[i].prev = Previous(rows, i)
        /\ rows[i].hash = EntryHash(u, Previous(rows, i), rows[i].lead, rows[i].att)

\* moved: the head of the audited user changed between the two reads of the
\* audit (a history variable, the code does not know it).
AuditState == [pc : {"idle", "head", "valid", "invalid"}, user : Users,
               last : Hash, moved : BOOLEAN]

-----------------------------------------------------------------------------
\* The values of the state have their types.
TypeOK ==
    /\ entries \subseteq Entry
    /\ head \in [Users -> Hash]
    /\ clock \in Nat
    /\ pc \in [Requests -> {"read", "build", "append",
                            "ok", "exhausted", "error"}]
    /\ attempt \in [Requests -> 0 .. MaxCasRetries]
    /\ seen \in [Requests -> Hash]
    /\ stamp \in [Requests -> Nat]
    /\ audit \in [Auditors -> AuditState]

Init ==
    /\ entries = {}
    /\ head = [u \in Users |-> NoHash]
    /\ clock = 0
    /\ pc = [r \in Requests |-> "read"]
    /\ attempt = [r \in Requests |-> 0]
    /\ seen = [r \in Requests |-> NoHash]
    /\ stamp = [r \in Requests |-> 0]
    /\ audit \in [Auditors -> [pc : {"idle"}, user : Users,
                               last : {NoHash}, moved : {FALSE}]]

(* append_verification *)

\* get_head, a statement of its own outside the append transaction.
GetHead(r) ==
    /\ pc[r] = "read"
    /\ seen' = [seen EXCEPT ![r] = head[Owner[r]]]
    /\ pc' = [pc EXCEPT ![r] = "build"]
    /\ UNCHANGED <<entries, head, clock, attempt, stamp, audit>>

\* MUTANT: created_at in a coarser unit than the time between two appends.
CreatedAtCoarse(r) == (clock + 1) \div 4

\* Utc::now() on the instance of r.
CreatedAt(r) == clock + 1 + Skew[HostOf[r]]

\* The hashes are computed and created_at is read from the clock of the
\* instance.  A database round trip lies between any two such reads that
\* follow one another, so the clock has moved.
BuildEntry(r) ==
    /\ pc[r] = "build"
    /\ clock' = clock + 1
    /\ stamp' = [stamp EXCEPT ![r] = CreatedAt(r)]
    /\ pc' = [pc EXCEPT ![r] = "append"]
    /\ UNCHANGED <<entries, head, attempt, seen, audit>>

\* current_head and the entry are locals of one iteration of the retry loop.
LeaveIteration(r) ==
    /\ seen' = [seen EXCEPT ![r] = NoHash]
    /\ stamp' = [stamp EXCEPT ![r] = 0]

\* MUTANT: no compare-and-swap.
BlindAppend(r) == TRUE

\* MUTANT: a head that is not there yet counts as changed.
HeadMustExist(r) == head[Owner[r]] # NoHash /\ head[Owner[r]] = seen[r]

\* The check of append_entry: the stored head is still the one that was read.
HeadMatches(r) == head[Owner[r]] = seen[r]

\* MUTANT: an error of the commit is retried like a stale head.
RetriedAfterCommit == {"ok", "read"}

\* What the caller learns of an append that is committed: when the connection
\* fails during the commit it gets a storage error.
AfterCommit == {"ok", "error"}

\* append_entry commits: entry and head change in one transaction.
Commit(r) ==
    /\ pc[r] = "append"
    /\ HeadMatches(r)
    /\ \A e \in entries : e.hash # Built(r).hash        \* unique index
    /\ entries' = entries \cup {Built(r)}
    /\ head' = [head EXCEPT ![Owner[r]] = Built(r).hash]
    /\ \E answer \in AfterCommit : pc' = [pc EXCEPT ![r] = answer]
    /\ LeaveIteration(r)
    /\ audit' = [a \in Auditors |->
                    IF audit[a].pc = "head" /\ audit[a].user = Owner[r]
                    THEN [audit[a] EXCEPT !.moved = TRUE]
                    ELSE audit[a]]
    /\ UNCHANGED <<clock, attempt>>

\* MUTANT: the loop does not end after the last attempt.
StaleButLast(r) ==
    /\ pc[r] = "append"
    /\ ~ HeadMatches(r)
    /\ attempt[r] + 1 < MaxCasRetries
    /\ attempt' = [attempt EXCEPT ![r] = @ + 1]
    /\ pc' = [pc EXCEPT ![r] = "read"]
    /\ LeaveIteration(r)
    /\ UNCHANGED <<entries, head, clock, audit>>

\* append_entry returns StaleHead: the loop starts over, or gives up.
Stale(r) ==
    /\ pc[r] = "append"
    /\ ~ HeadMatches(r)
    /\ attempt' = [attempt EXCEPT ![r] = @ + 1]
    /\ pc' = [pc EXCEPT ![r] = IF attempt[r] + 1 < MaxCasRetries
                               THEN "read" ELSE "exhausted"]
    /\ LeaveIteration(r)
    /\ UNCHANGED <<entries, head, clock, audit>>

\* A statement fails, or the request dies with its connection or its process,
\* before the commit.  A storage error is returned at once, without a retry.
StorageError(r) ==
    /\ pc[r] \in {"read", "append"}
    /\ pc' = [pc EXCEPT ![r] = "error"]
    /\ LeaveIteration(r)
    /\ UNCHANGED <<entries, head, clock, attempt, audit>>

(* verify_chain *)

\* The first query and the walk over its rows.  No rows: valid, the head is
\* not looked at.  A broken link: invalid.  Otherwise the head is next.
AuditRows(a, u) ==
    /\ audit[a].pc # "head"
    /\ \E rows \in OrderedByTime(EntriesOf(u)) :
         audit' = [audit EXCEPT ![a] =
            [pc    |-> IF rows = << >> THEN "valid"
                       ELSE IF LinksHold(rows, u) THEN "head" ELSE "invalid",
             user  |-> u,
             last  |-> IF rows = << >> THEN NoHash ELSE rows[Len(rows)].hash,
             moved |-> FALSE]]
    /\ UNCHANGED <<entries, head, clock, pc, attempt, seen, stamp>>

\* The second query compares the stored head with the last row.
AuditHead(a) ==
    /\ audit[a].pc = "head"
    /\ audit' = [audit EXCEPT ![a].pc =
                    IF head[audit[a].user] = audit[a].last
                    THEN "valid" ELSE "invalid"]
    /\ UNCHANGED <<entries, head, clock, pc, attempt, seen, stamp>>

-----------------------------------------------------------------------------
AppendStep(r) == GetHead(r) \/ BuildEntry(r) \/ Commit(r) \/ Stale(r)

Next ==
    \/ \E r \in Requests : AppendStep(r) \/ StorageError(r)
    \/ \E a \in Auditors : (\E u \in Users : AuditRows(a, u)) \/ AuditHead(a)

Spec == Init /\ [][Next]_vars

\* The runtime polls a request that can take a step: each of its awaits
\* completes.  Nothing forces a storage error, or an audit to be asked for.
FairSpec == Spec /\ \A r \in Requests : WF_vars(AppendStep(r))

-----------------------------------------------------------------------------
(* Properties *)

\* The entries of a user form one chain without forks or gaps: no two of
\* them name the same predecessor, each predecessor is an entry or the
\* beginning, and the stored head is the end of the chain.  This is what the
\* compare-and-swap of append_entry is for.
OneChain ==
    \A u \in Users :
        /\ \A e, f \in EntriesOf(u) : e.prev = f.prev => e = f
        /\ \A e \in EntriesOf(u) :
              e.prev = NoHash \/ \E f \in EntriesOf(u) : f.hash = e.prev
        /\ \A e \in EntriesOf(u) :
              (e.hash = head[u]) <=> ~ \E f \in EntriesOf(u) : f.prev = e.hash
        /\ (head[u] = NoHash) <=> (EntriesOf(u) = {})

\* A request never leaves two entries, one answered ok has its entry, and one
\* that gave up after the last retry has none: the answer to the caller tells
\* whether the verification is on record, except for a storage error.
AnswerMatchesRecord ==
    \A r \in Requests :
        LET mine == {e \in entries : e.att = r} IN
        /\ \A e, f \in mine : e = f
        /\ \A e \in mine : e.user = Owner[r]
        /\ pc[r] = "ok" => mine # {}
        /\ pc[r] \in {"read", "build", "append", "exhausted"} => mine = {}

\* With one clock, created_at grows along the chain: the order in which
\* list_entries and verify_chain read the rows is the order of the hashes.
TimeFollowsChain ==
    \A e, f \in entries : e.user = f.user /\ f.prev = e.hash => e.at < f.at

\* The retry loop only turns when somebody else got through: a request that
\* failed n times was overtaken by n entries of its own user, so giving up
\* (CasExhausted) means MAX_CAS_RETRIES other verifications were recorded.
RetriesArePaidFor ==
    \A r \in Requests :
        attempt[r] <= Cardinality({e \in EntriesOf(Owner[r]) : e.att # r})

\* An audit of a journal that nobody appends to meanwhile finds it valid.
QuietAuditValid ==
    \A a \in Auditors : audit[a].pc = "invalid" => audit[a].moved

\* What verify_chain concludes from these rows and the head that is stored, if
\* nothing happens between its two queries.
Passes(rows, u) ==
    \/ rows = << >>
    \/ LinksHold(rows, u) /\ rows[Len(rows)].hash = head[u]

\* The hash that precedes the attestation hash in what is hashed, in whichever
\* column it stands.
Before(e) == IF e.prev = NoHash THEN e.lead ELSE e.prev

\* What the hashes protect: created_at and the columns that are not modelled
\* are not hashed.
Content(rows) == {[before |-> Before(e), hash |-> e.hash, att |-> e.att] : e \in rows}

\* A row of u with a hash that fits it.
Inserted(u, p, r, t) ==
    [user |-> u, prev |-> p, hash |-> LinkHash(u, p, r), lead |-> NoHash,
     att |-> r, at |-> t]

Rewritten(e, p, h, r) == [e EXCEPT !.prev = p, !.hash = h, !.att = r]

\* The previous hash is moved into the attestation column, or another one is
\* written there.
Shifted(e, d) == [e EXCEPT !.prev = NoHash, !.lead = d]

Hashes(u) == {NoHash} \cup {e.hash : e \in EntriesOf(u)}

\* Some rows are gone, one is added, or the hashed columns of one are written
\* over, with a hash that fits them or with that of any row; or rows are gone
\* and of one that is left the columns are shifted.
Alterations(u) ==
    {R \in SUBSET EntriesOf(u) : R # {}}
    \cup {EntriesOf(u) \cup {Inserted(u, p, r, e.at)} :
             e \in EntriesOf(u), p \in Hashes(u), r \in Requests}
    \cup {(EntriesOf(u) \ {e}) \cup {Inserted(u, p, r, e.at)} :
             e \in EntriesOf(u), p \in Hashes(u), r \in Requests}
    \cup {(EntriesOf(u) \ {e}) \cup {Rewritten(e, p, h, r)} :
             e \in EntriesOf(u), p \in Hashes(u), h \in Hashes(u), r \in Requests}
    \cup UNION {{R \cup {Shifted(e, d)} :
                    R \in SUBSET (EntriesOf(u) \ {e}), d \in Hashes(u)} :
                 e \in EntriesOf(u)}

\* Every attestation column holds one hash, as in the rows that are appended.
ColumnsAsWritten(rows) == \A e \in rows : e.lead = NoHash

\* Rows that an audit finds intact say nothing that was not recorded: each has
\* the attestation hash, the hash and the previous hash of an entry.  Only when
\* every attestation column is as long as the appends write it does the audit
\* also show that no entry is lost: "a change to any entry breaks the hash
\* chain" (verification-journal.md).  Otherwise the oldest entries may be gone
\* and the previous hash of the first that is left stand in its attestation
\* column.
AlterationsFound ==
    \A u \in Users : \A rows \in Alterations(u) :
        (\E ordered \in OrderedByTime(rows) : Passes(ordered, u)) =>
            /\ Content(rows) \subseteq Content(EntriesOf(u))
            /\ ColumnsAsWritten(rows) => Content(rows) = Content(EntriesOf(u))

\* Every request is answered, however the others interfere.
Answered ==
    \A r \in Requests : <>(pc[r] \in {"ok", "exhausted", "error"})

\* The journal implements an append-only log: the log of a user is what its
\* head hash stands for.
LogOf(u) == [i \in 1 .. Len(head[u]) |-> head[u][i][2]]

Log == INSTANCE AuditLog WITH log <- [u \in Users |-> LogOf(u)]

IsAuditLog == Log!Spec
=============================================================================
