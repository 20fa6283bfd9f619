--------------------------- MODULE JournalProofs ----------------------------
(***************************************************************************)
(* Proofs about module Journal, for any number of users, requests,         *)
(* instances and auditors.                                                 *)
(***************************************************************************)
EXTENDS Journal, TLAPS, FiniteSetTheorems, SequenceTheorems,
        WellFoundedInduction

-----------------------------------------------------------------------------
(* Hashes: one is the beginning of another *)

Begins(s, t) == Len(s) <= Len(t) /\ \A i \in 1 .. Len(s) : s[i] = t[i]

\* Two beginnings of one chain are told apart by their length.
LEMMA BeginningsByLength ==
    ASSUME NEW s \in Hash, NEW t \in Hash, NEW c \in Hash,
           Begins(s, c), Begins(t, c), Len(s) = Len(t)
    PROVE  s = t
BY SeqEqual DEF Begins, Hash

\* A chain begins itself, and what it is extended to.
LEMMA BeginsExtended ==
    ASSUME NEW s \in Hash, NEW t \in Hash, NEW u \in Users, NEW r \in Requests,
           Begins(s, t)
    PROVE  Begins(s, LinkHash(u, t, r))
<1>1. /\ Len(LinkHash(u, t, r)) = Len(t) + 1
      /\ \A i \in 1 .. Len(t) : LinkHash(u, t, r)[i] = t[i]
  BY AppendProperties DEF LinkHash, Hash
<1>2. Len(s) \in Nat /\ Len(t) \in Nat
  BY LenProperties DEF Hash
<1> QED
  BY <1>1, <1>2 DEF Begins

LEMMA BeginsItself ==
    ASSUME NEW s \in Hash
    PROVE  Begins(s, s)
BY LenProperties DEF Begins, Hash

\* What the appends compute: a hash, longer by one, that determines the
\* previous hash and the attestation it was computed from.
LEMMA LinkHashProperties ==
    ASSUME NEW u \in Users, NEW s \in Hash, NEW r \in Requests
    PROVE  /\ LinkHash(u, s, r) \in Hash
           /\ Len(LinkHash(u, s, r)) = Len(s) + 1
           /\ \A i \in 1 .. Len(s) : LinkHash(u, s, r)[i] = s[i]
           /\ LinkHash(u, s, r)[Len(s) + 1] = <<u, r>>
           /\ Begins(s, LinkHash(u, s, r))
           /\ Len(s) \in Nat
<1>1. <<u, r>> \in Users \X Requests
  OBVIOUS
<1>2. Len(s) \in Nat
  BY LenProperties DEF Hash
<1> QED
  BY <1>1, <1>2, AppendProperties DEF LinkHash, Hash, Begins

\* In the rows that are appended the attestation column holds nothing else.
LEMMA AppendedHash ==
    ASSUME NEW u, NEW p, NEW r
    PROVE  EntryHash(u, p, NoHash, r) = LinkHash(u, p, r)
BY DEF EntryHash

\* A hash that begins a chain has its previous hash there as well.
LEMMA PreviousBegins ==
    ASSUME NEW u \in Users, NEW s \in Hash, NEW r \in Requests, NEW c \in Hash,
           Begins(LinkHash(u, s, r), c)
    PROVE  /\ Begins(s, c)
           /\ Len(s) < Len(c)
           /\ c[Len(s) + 1] = <<u, r>>
<1> DEFINE h == LinkHash(u, s, r)
<1>1. /\ Len(c) \in Nat /\ Len(s) \in Nat
      /\ Len(h) = Len(s) + 1
      /\ \A i \in 1 .. Len(s) : h[i] = s[i]
      /\ h[Len(s) + 1] = <<u, r>>
  BY LinkHashProperties, LenProperties DEF Hash
<1>2. Len(h) <= Len(c) /\ \A i \in 1 .. Len(h) : h[i] = c[i]
  BY DEF Begins
<1>3. \A i \in 1 .. Len(s) + 1 : h[i] = c[i]
  BY <1>1, <1>2
<1>4. \A i \in 1 .. Len(s) : s[i] = c[i]
  <2> SUFFICES ASSUME NEW i \in 1 .. Len(s) PROVE s[i] = c[i]
    OBVIOUS
  <2>1. h[i] = s[i]
    BY <1>1
  <2>2. i \in 1 .. Len(s) + 1
    BY <1>1
  <2> QED
    BY <2>1, <2>2, <1>3
<1>5. h[Len(s) + 1] = c[Len(s) + 1]
  <2>1. Len(s) + 1 \in 1 .. Len(s) + 1
    BY <1>1
  <2> QED
    BY <2>1, <1>3
<1> HIDE DEF h
<1> QED
  BY <1>1, <1>2, <1>4, <1>5 DEF Begins

-----------------------------------------------------------------------------
(* The inductive invariant *)

Finite == IsFiniteSet(entries)

HashesComputed == \A e \in entries : e.hash = LinkHash(e.user, e.prev, e.att)

UniqueHashes == \A e, f \in entries : e.hash = f.hash => e = f

\* Every entry is on the chain that the head stands for ...
OnTheChain == \A e \in entries : Begins(e.hash, head[e.user])

\* ... and every link of that chain is an entry.
NoGaps ==
    \A u \in Users : \A n \in 1 .. Len(head[u]) :
        \E e \in EntriesOf(u) : Len(e.hash) = n

Counted == \A u \in Users : Cardinality(EntriesOf(u)) = Len(head[u])

OneEntryEach == \A e, f \in entries : e.att = f.att => e = f

\* What holds of the two tables ...
TablesInv ==
    /\ Finite
    /\ HashesComputed
    /\ UniqueHashes
    /\ OnTheChain
    /\ NoGaps
    /\ Counted
    /\ OneEntryEach

RecordedWhenDone ==
    \A e \in entries : e.user = Owner[e.att] /\ pc[e.att] \in {"ok", "error"}

OkIsRecorded == \A r \in Requests : pc[r] = "ok" => \E e \in entries : e.att = r

AttemptsLeft ==
    \A r \in Requests : pc[r] \in {"read", "build", "append"} =>
        attempt[r] < MaxCasRetries

\* The head that a request has read still begins the chain, and is at least as
\* long as the request has failed often.
SeenWasHead ==
    \A r \in Requests : pc[r] \in {"build", "append"} =>
        Begins(seen[r], head[Owner[r]]) /\ attempt[r] <= Len(seen[r])

\* ... and what relates the requests to the tables.
RequestsInv ==
    /\ RecordedWhenDone
    /\ OkIsRecorded
    /\ AttemptsLeft
    /\ SeenWasHead
    /\ RetriesArePaidFor

IndInv == TypeOK /\ TablesInv /\ RequestsInv

-----------------------------------------------------------------------------
LEMMA InitInv == Init => IndInv
<1> SUFFICES ASSUME Init PROVE IndInv
  OBVIOUS
<1> USE DEF Init
<1>1. /\ NoHash \in Hash
      /\ Len(NoHash) = 0
      /\ \A u \in Users : EntriesOf(u) = {}
  BY EmptySeq DEF NoHash, Hash, EntriesOf
<1>2. TypeOK
  <2>1. audit \in [Auditors -> AuditState]
    BY <1>1 DEF AuditState
  <2> QED
    BY <1>1, <2>1, RetryAssumption DEF TypeOK
<1>3. TablesInv
  <2>1. Finite /\ Cardinality({}) = 0
    BY FS_EmptySet DEF Finite
  <2>2. Counted
    BY <1>1, <2>1 DEF Counted
  <2>3. NoGaps
    BY <1>1 DEF NoGaps
  <2> QED
    BY <2>1, <2>2, <2>3 DEF TablesInv, HashesComputed, UniqueHashes,
       OnTheChain, OneEntryEach
<1>4. RetriesArePaidFor
  <2> SUFFICES ASSUME NEW r \in Requests
               PROVE  attempt[r] <= Cardinality({e \in EntriesOf(Owner[r]) : e.att # r})
    BY DEF RetriesArePaidFor
  <2>1. {e \in EntriesOf(Owner[r]) : e.att # r} = {}
    BY DEF EntriesOf
  <2> QED
    BY <2>1, FS_EmptySet
<1>5. RequestsInv
  BY <1>4, RetryAssumption DEF RequestsInv, RecordedWhenDone, OkIsRecorded,
     AttemptsLeft, SeenWasHead
<1> QED
  BY <1>2, <1>3, <1>5 DEF IndInv

\* The number of entries of a user that r did not write.
LEMMA OthersCounted ==
    ASSUME IndInv, NEW r \in Requests
    PROVE  LET others == {e \in EntriesOf(Owner[r]) : e.att # r} IN
           /\ IsFiniteSet(EntriesOf(Owner[r]))
           /\ IsFiniteSet(others)
           /\ Cardinality(others) \in Nat
           /\ Cardinality(others) <= Len(head[Owner[r]])
           /\ pc[r] \notin {"ok", "error"} => Cardinality(others) = Len(head[Owner[r]])
<1> DEFINE mine == EntriesOf(Owner[r])
           others == {e \in mine : e.att # r}
<1>1. Owner[r] \in Users
  BY OwnerAssumption
<1>2. IsFiniteSet(mine)
  BY FS_Subset DEF IndInv, TablesInv, Finite, EntriesOf
<1>3. others \in SUBSET mine
  OBVIOUS
<1>4. Cardinality(mine) = Len(head[Owner[r]])
  BY <1>1 DEF IndInv, TablesInv, Counted
<1>5. IsFiniteSet(others) /\ Cardinality(others) <= Cardinality(mine)
  BY <1>2, <1>3, FS_Subset
<1>6. Cardinality(others) \in Nat
  BY <1>5, FS_CardinalityType
<1>7. ASSUME pc[r] \notin {"ok", "error"} PROVE others = mine
  BY <1>7 DEF IndInv, RequestsInv, RecordedWhenDone, EntriesOf
<1> QED
  BY <1>2, <1>4, <1>5, <1>6, <1>7

-----------------------------------------------------------------------------
(* Type correctness *)

\* The rows of a result set are a sequence of entries of the user.
LEMMA RowsOfEntries ==
    ASSUME TypeOK, Finite, NEW u \in Users, NEW rows \in OrderedByTime(EntriesOf(u))
    PROVE  /\ rows \in Seq(EntriesOf(u))
           /\ rows # << >> => rows[Len(rows)] \in EntriesOf(u)
<1>1. Cardinality(EntriesOf(u)) \in Nat
  BY FS_Subset, FS_CardinalityType DEF Finite, EntriesOf
<1>2. rows \in [1 .. Cardinality(EntriesOf(u)) -> EntriesOf(u)]
  BY DEF OrderedByTime
<1>3. rows \in Seq(EntriesOf(u))
  BY <1>1, <1>2
<1>4. ASSUME rows # << >> PROVE rows[Len(rows)] \in EntriesOf(u)
  <2>1. Len(rows) \in 1 .. Len(rows)
    BY <1>3, <1>4, EmptySeq
  <2> QED
    BY <1>3, <2>1, ElementOfSeq
<1> QED
  BY <1>3, <1>4

\* Each action of a request keeps the types of what it changes.
LEMMA BuiltType ==
    ASSUME TypeOK, NEW r \in Requests
    PROVE  /\ Built(r) \in Entry
           /\ Owner[r] \in Users
           /\ NoHash \in Hash
<1>1. Owner[r] \in Users /\ seen[r] \in Hash /\ stamp[r] \in Nat
  BY OwnerAssumption DEF TypeOK
<1>2. LinkHash(Owner[r], seen[r], r) \in Hash
  BY <1>1, LinkHashProperties
<1>3. NoHash \in Hash
  BY DEF NoHash, Hash
<1> QED
  BY <1>1, <1>2, <1>3, AppendedHash DEF Built, Entry

\* What an append that commits adds to the head that is stored.
LEMMA CommittedEntry ==
    ASSUME TypeOK, NEW r \in Requests, Commit(r)
    PROVE  LET o == Owner[r]
               new == Built(r) IN
           /\ o \in Users
           /\ head[o] \in Hash /\ seen[r] = head[o]
           /\ new \in Entry
           /\ new.user = o /\ new.prev = head[o] /\ new.att = r /\ new.at = stamp[r]
           /\ new.hash = LinkHash(o, head[o], r)
           /\ LinkHash(o, head[o], r) \in Hash
<1>1. /\ Owner[r] \in Users
      /\ seen[r] = head[Owner[r]] /\ head[Owner[r]] \in Hash
  BY OwnerAssumption DEF Commit, HeadMatches, TypeOK
<1>2. LinkHash(Owner[r], head[Owner[r]], r) \in Hash
  BY <1>1, LinkHashProperties
<1>3. Built(r).hash = LinkHash(Owner[r], head[Owner[r]], r)
  BY <1>1, AppendedHash DEF Built
<1>4. Built(r) \in Entry
  BY BuiltType
<1>5. /\ Built(r).user = Owner[r] /\ Built(r).prev = seen[r]
      /\ Built(r).att = r /\ Built(r).at = stamp[r]
  BY DEF Built
<1> QED
  BY <1>1, <1>2, <1>3, <1>4, <1>5

LEMMA TypeStep == TypeOK /\ Finite /\ AttemptsLeft /\ [Next]_vars => TypeOK' /\ Finite'
<1> SUFFICES ASSUME TypeOK, Finite, AttemptsLeft, [Next]_vars
             PROVE  TypeOK' /\ Finite'
  OBVIOUS
<1>1. ASSUME NEW r \in Requests, GetHead(r)
      PROVE  TypeOK' /\ Finite'
  <2>1. head[Owner[r]] \in Hash
    BY OwnerAssumption DEF TypeOK
  <2> QED
    BY <1>1, <2>1 DEF GetHead, TypeOK, Finite
<1>2. ASSUME NEW r \in Requests, BuildEntry(r)
      PROVE  TypeOK' /\ Finite'
  <2>1. CreatedAt(r) \in Nat
    BY ClockAssumption DEF CreatedAt, TypeOK
  <2> QED
    BY <1>2, <2>1 DEF BuildEntry, TypeOK, Finite
<1>3. ASSUME NEW r \in Requests, Commit(r)
      PROVE  TypeOK' /\ Finite'
  <2>1. Built(r) \in Entry /\ Built(r).hash \in Hash /\ NoHash \in Hash
    BY BuiltType DEF Entry
  <2>2. entries' \subseteq Entry /\ Finite'
    BY <1>3, <2>1, FS_AddElement DEF Commit, TypeOK, Finite
  <2>3. head' \in [Users -> Hash]
    BY <1>3, <2>1 DEF Commit, TypeOK
  <2>4. pc' \in [Requests -> {"read", "build", "append", "ok", "exhausted", "error"}]
    BY <1>3 DEF Commit, AfterCommit, TypeOK
  <2>5. seen' \in [Requests -> Hash] /\ stamp' \in [Requests -> Nat]
    BY <1>3, <2>1 DEF Commit, LeaveIteration, TypeOK
  <2>6. audit' \in [Auditors -> AuditState]
    <3> SUFFICES ASSUME NEW a \in Auditors
                 PROVE  audit'[a] \in AuditState /\ audit' = [x \in Auditors |-> audit'[x]]
      BY <1>3 DEF Commit
    <3>1. audit[a] \in AuditState
      BY DEF TypeOK
    <3> QED
      BY <1>3, <3>1 DEF Commit, AuditState
  <2> QED
    BY <1>3, <2>2, <2>3, <2>4, <2>5, <2>6 DEF Commit, TypeOK
<1>4. ASSUME NEW r \in Requests, Stale(r)
      PROVE  TypeOK' /\ Finite'
  <2>1. attempt[r] \in Nat /\ attempt[r] + 1 \in 0 .. MaxCasRetries
    BY <1>4, RetryAssumption DEF Stale, AttemptsLeft, TypeOK
  <2>2. attempt' \in [Requests -> 0 .. MaxCasRetries]
    BY <1>4, <2>1 DEF Stale, TypeOK
  <2>3. seen' \in [Requests -> Hash] /\ stamp' \in [Requests -> Nat]
    BY <1>4, BuiltType DEF Stale, LeaveIteration, TypeOK
  <2> QED
    BY <1>4, <2>2, <2>3 DEF Stale, TypeOK, Finite
<1>5. ASSUME NEW r \in Requests, StorageError(r)
      PROVE  TypeOK' /\ Finite'
  <2>1. seen' \in [Requests -> Hash] /\ stamp' \in [Requests -> Nat]
    BY <1>5, BuiltType DEF StorageError, LeaveIteration, TypeOK
  <2> QED
    BY <1>5, <2>1 DEF StorageError, TypeOK, Finite
<1>6. ASSUME NEW a \in Auditors, NEW u \in Users, AuditRows(a, u)
      PROVE  TypeOK' /\ Finite'
  <2>1. PICK rows \in OrderedByTime(EntriesOf(u)) :
          audit' = [audit EXCEPT ![a] =
            [pc    |-> IF rows = << >> THEN "valid"
                       ELSE IF LinksHold(rows, u) THEN "head" ELSE "invalid",
             user  |-> u,
             last  |-> IF rows = << >> THEN NoHash ELSE rows[Len(rows)].hash,
             moved |-> FALSE]]
    BY <1>6 DEF AuditRows
  <2>2. rows # << >> => rows[Len(rows)].hash \in Hash
    BY RowsOfEntries DEF TypeOK, EntriesOf, Entry
  <2>3. NoHash \in Hash
    BY DEF NoHash, Hash
  <2>4. audit' \in [Auditors -> AuditState]
    BY <2>1, <2>2, <2>3 DEF TypeOK, AuditState
  <2> QED
    BY <1>6, <2>4 DEF AuditRows, TypeOK, Finite
<1>7. ASSUME NEW a \in Auditors, AuditHead(a)
      PROVE  TypeOK' /\ Finite'
  <2>1. audit' \in [Auditors -> AuditState]
    BY <1>7 DEF AuditHead, TypeOK, AuditState
  <2> QED
    BY <1>7, <2>1 DEF AuditHead, TypeOK, Finite
<1>8. CASE UNCHANGED vars
  BY <1>8 DEF vars, TypeOK, Finite
<1> QED
  BY <1>1, <1>2, <1>3, <1>4, <1>5, <1>6, <1>7, <1>8 DEF Next, AppendStep

-----------------------------------------------------------------------------
(* The append keeps the tables consistent *)

LEMMA CommitTables ==
    ASSUME IndInv, NEW r \in Requests, Commit(r)
    PROVE  TablesInv'
<1> DEFINE o == Owner[r]
           new == Built(r)
<1> USE DEF IndInv, TablesInv
<1>1. /\ o \in Users
      /\ head[o] \in Hash
      /\ new \in Entry
      /\ new.user = o /\ new.prev = head[o] /\ new.att = r
      /\ new.hash = LinkHash(o, head[o], r)
  BY CommittedEntry
<1>2. /\ new.hash \in Hash
      /\ Len(head[o]) \in Nat
      /\ Len(new.hash) = Len(head[o]) + 1
      /\ Begins(head[o], new.hash)
  BY <1>1, LinkHashProperties
<1>3. /\ entries' = entries \cup {new}
      /\ \A u \in Users : head'[u] = IF u = o THEN new.hash ELSE head[u]
      /\ head' \in [Users -> Hash]
      /\ \A e \in entries : e.hash # new.hash
  BY <1>1, <1>2 DEF Commit, TypeOK
<1>4. \A e \in entries : e \in Entry /\ e.user \in Users /\ e.hash \in Hash
  BY DEF TypeOK, Entry
<1>5. new \notin entries
  BY <1>3
<1>6. \A u \in Users :
         EntriesOf(u)' = IF u = o THEN EntriesOf(u) \cup {new} ELSE EntriesOf(u)
  BY <1>1, <1>3 DEF EntriesOf
<1> HIDE DEF new
<1>7. Finite'
  BY <1>3, FS_AddElement DEF Finite
<1>8. HashesComputed'
  BY <1>1, <1>3 DEF HashesComputed
<1>9. UniqueHashes'
  BY <1>3 DEF UniqueHashes
<1>10. OnTheChain'
  <2> SUFFICES ASSUME NEW e \in entries' PROVE Begins(e.hash, head'[e.user])
    BY DEF OnTheChain
  <2>1. CASE e = new
    BY <2>1, <1>1, <1>2, <1>3, BeginsItself
  <2>2. CASE e \in entries /\ e.user # o
    BY <2>2, <1>3, <1>4 DEF OnTheChain
  <2>3. CASE e \in entries /\ e.user = o
    <3>1. Begins(e.hash, head[o])
      BY <2>3 DEF OnTheChain
    <3> QED
      BY <2>3, <3>1, <1>1, <1>3, <1>4, BeginsExtended
  <2> QED
    BY <2>1, <2>2, <2>3, <1>3
<1>11. NoGaps'
  <2> SUFFICES ASSUME NEW u \in Users, NEW n \in 1 .. Len(head'[u])
               PROVE  \E e \in EntriesOf(u)' : Len(e.hash) = n
    BY DEF NoGaps
  <2>1. CASE u # o
    BY <2>1, <1>3, <1>6 DEF NoGaps
  <2>2. CASE u = o /\ n = Len(head[o]) + 1
    BY <2>2, <1>2, <1>6
  <2>3. CASE u = o /\ n # Len(head[o]) + 1
    <3>1. n \in 1 .. Len(head[o])
      BY <2>3, <1>2, <1>3
    <3> QED
      BY <2>3, <3>1, <1>1, <1>6 DEF NoGaps
  <2> QED
    BY <2>1, <2>2, <2>3
<1>12. Counted'
  <2> SUFFICES ASSUME NEW u \in Users
               PROVE  Cardinality(EntriesOf(u)') = Len(head'[u])
    BY DEF Counted
  <2>1. CASE u # o
    BY <2>1, <1>3, <1>6 DEF Counted
  <2>2. CASE u = o
    <3>1. IsFiniteSet(EntriesOf(o)) /\ new \notin EntriesOf(o)
      BY <1>5, FS_Subset DEF Finite, EntriesOf
    <3>2. Cardinality(EntriesOf(o) \cup {new}) = Cardinality(EntriesOf(o)) + 1
      BY <3>1, FS_AddElement
    <3> QED
      BY <2>2, <3>2, <1>1, <1>2, <1>3, <1>6 DEF Counted
  <2> QED
    BY <2>1, <2>2
<1>13. OneEntryEach'
  <2>1. \A e \in entries : e.att # r
    BY DEF RequestsInv, RecordedWhenDone, Commit
  <2> QED
    BY <2>1, <1>1, <1>3 DEF OneEntryEach
<1> QED
  BY <1>7, <1>8, <1>9, <1>10, <1>11, <1>12, <1>13

LEMMA CommitRequests ==
    ASSUME IndInv, NEW r \in Requests, Commit(r)
    PROVE  RequestsInv'
<1> DEFINE o == Owner[r]
           new == Built(r)
<1> USE DEF IndInv, RequestsInv
<1>1. /\ o \in Users
      /\ new.user = o /\ new.att = r
      /\ head[o] \in Hash
      /\ new.hash = LinkHash(o, head[o], r)
  BY CommittedEntry
<1>2. /\ entries' = entries \cup {new}
      /\ \A u \in Users : head'[u] = IF u = o THEN new.hash ELSE head[u]
  BY <1>1 DEF Commit, TypeOK
<1>3. /\ pc'[r] \in {"ok", "error"}
      /\ \A q \in Requests : q # r => pc'[q] = pc[q] /\ seen'[q] = seen[q]
      /\ attempt' = attempt
  BY DEF Commit, AfterCommit, LeaveIteration, TypeOK
<1> HIDE DEF new
<1>4. RecordedWhenDone'
  <2> SUFFICES ASSUME NEW e \in entries'
               PROVE  e.user = Owner[e.att] /\ pc'[e.att] \in {"ok", "error"}
    BY DEF RecordedWhenDone
  <2>1. CASE e = new
    BY <2>1, <1>1, <1>3
  <2>2. CASE e \in entries
    <3>1. e.att \in Requests
      BY <2>2 DEF TypeOK, Entry
    <3> QED
      BY <2>2, <3>1, <1>3 DEF RecordedWhenDone
  <2> QED
    BY <2>1, <2>2, <1>2
<1>5. OkIsRecorded'
  BY <1>1, <1>2, <1>3 DEF OkIsRecorded
<1>6. AttemptsLeft'
  BY <1>3 DEF AttemptsLeft
<1>7. SeenWasHead'
  <2> SUFFICES ASSUME NEW q \in Requests, pc'[q] \in {"build", "append"}
               PROVE  /\ Begins(seen'[q], head'[Owner[q]])
                      /\ attempt'[q] <= Len(seen'[q])
    BY DEF SeenWasHead
  <2>1. q # r /\ seen'[q] = seen[q] /\ pc[q] \in {"build", "append"}
    BY <1>3
  <2>2. Begins(seen[q], head[Owner[q]]) /\ attempt[q] <= Len(seen[q])
    BY <2>1 DEF SeenWasHead
  <2>3. Owner[q] \in Users /\ seen[q] \in Hash
    BY OwnerAssumption DEF TypeOK
  <2>4. Begins(seen[q], head'[Owner[q]])
    BY <2>2, <2>3, <1>1, <1>2, BeginsExtended
  <2> QED
    BY <2>1, <2>2, <2>4, <1>3
<1>8. RetriesArePaidFor'
  <2> SUFFICES ASSUME NEW q \in Requests
               PROVE  attempt'[q] <=
                        Cardinality({e \in EntriesOf(Owner[q])' : e.att # q})
    BY DEF RetriesArePaidFor
  <2> DEFINE before == {e \in EntriesOf(Owner[q]) : e.att # q}
             after  == {e \in EntriesOf(Owner[q])' : e.att # q}
  <2>1. /\ attempt[q] <= Cardinality(before)
        /\ IsFiniteSet(before)
        /\ Cardinality(before) \in Nat
    BY OthersCounted DEF RetriesArePaidFor
  <2>2. after = before \/ after = before \cup {new}
    BY <1>2 DEF EntriesOf
  <2> HIDE DEF before, after
  <2>3. /\ IsFiniteSet(before \cup {new})
        /\ Cardinality(before \cup {new}) \in Nat
        /\ Cardinality(before \cup {new}) >= Cardinality(before)
    BY <2>1, FS_AddElement
  <2>4. Cardinality(after) \in Nat /\ Cardinality(after) >= Cardinality(before)
    BY <2>1, <2>2, <2>3
  <2>5. attempt[q] \in Nat
    BY RetryAssumption DEF TypeOK
  <2>6. attempt'[q] <= Cardinality(after)
    BY <2>1, <2>4, <2>5, <1>3
  <2> QED
    BY <2>6 DEF after
<1> QED
  BY <1>4, <1>5, <1>6, <1>7, <1>8

-----------------------------------------------------------------------------
(* The other steps leave the tables alone *)

LEMMA ReadsKeepTables ==
    ASSUME TablesInv, UNCHANGED <<entries, head>>
    PROVE  TablesInv'
BY DEF TablesInv, Finite, HashesComputed, UniqueHashes, OnTheChain, NoGaps,
   Counted, OneEntryEach, EntriesOf

\* An unanswered request has no entry, whatever it does next.
LEMMA StillRecorded ==
    ASSUME IndInv, NEW r \in Requests, pc[r] \in {"read", "build", "append"},
           NEW p \in {"read", "build", "append", "exhausted", "error"},
           pc' = [pc EXCEPT ![r] = p], entries' = entries
    PROVE  RecordedWhenDone' /\ OkIsRecorded'
<1>1. \A q \in Requests : pc'[q] = IF q = r THEN p ELSE pc[q]
  BY DEF IndInv, TypeOK
<1>2. \A e \in entries : e.att \in Requests /\ e.att # r
  BY DEF IndInv, TypeOK, Entry, RequestsInv, RecordedWhenDone
<1>3. RecordedWhenDone'
  BY <1>1, <1>2 DEF IndInv, RequestsInv, RecordedWhenDone
<1>4. OkIsRecorded'
  BY <1>1 DEF IndInv, RequestsInv, OkIsRecorded
<1> QED
  BY <1>3, <1>4

LEMMA GetHeadRequests ==
    ASSUME IndInv, NEW r \in Requests, GetHead(r)
    PROVE  RequestsInv'
<1> USE DEF GetHead
<1>1. RecordedWhenDone' /\ OkIsRecorded'
  BY StillRecorded
<1>2. AttemptsLeft'
  BY DEF IndInv, TypeOK, RequestsInv, AttemptsLeft
<1>3. RetriesArePaidFor'
  BY DEF IndInv, RequestsInv, RetriesArePaidFor, EntriesOf
<1>4. SeenWasHead'
  <2>1. head[Owner[r]] \in Hash
    BY OwnerAssumption DEF IndInv, TypeOK
  <2>2. attempt[r] <= Cardinality({e \in EntriesOf(Owner[r]) : e.att # r})
    BY DEF IndInv, RequestsInv, RetriesArePaidFor
  <2>3. attempt[r] <= Len(head[Owner[r]])
    BY <2>1, <2>2, OthersCounted, LenProperties DEF IndInv, TypeOK, Hash
  <2> QED
    BY <2>1, <2>3, BeginsItself DEF IndInv, TypeOK, RequestsInv, SeenWasHead
<1> QED
  BY <1>1, <1>2, <1>3, <1>4 DEF RequestsInv

LEMMA BuildEntryRequests ==
    ASSUME IndInv, NEW r \in Requests, BuildEntry(r)
    PROVE  RequestsInv'
<1> USE DEF BuildEntry
<1>1. RecordedWhenDone' /\ OkIsRecorded'
  BY StillRecorded
<1>2. AttemptsLeft' /\ SeenWasHead'
  BY DEF IndInv, TypeOK, RequestsInv, AttemptsLeft, SeenWasHead
<1>3. RetriesArePaidFor'
  BY DEF IndInv, RequestsInv, RetriesArePaidFor, EntriesOf
<1> QED
  BY <1>1, <1>2, <1>3 DEF RequestsInv

\* A stale head is shorter than the head: somebody else has appended.
LEMMA StaleRequests ==
    ASSUME IndInv, NEW r \in Requests, Stale(r)
    PROVE  RequestsInv'
<1> USE DEF Stale, LeaveIteration
<1>1. RecordedWhenDone' /\ OkIsRecorded'
  BY StillRecorded
<1>2. \A q \in Requests : q # r =>
         pc'[q] = pc[q] /\ seen'[q] = seen[q] /\ attempt'[q] = attempt[q]
  BY DEF IndInv, TypeOK
<1>3. /\ pc'[r] \in {"read", "exhausted"}
      /\ pc'[r] = "read" => attempt[r] + 1 < MaxCasRetries
      /\ attempt'[r] = attempt[r] + 1
  BY DEF IndInv, TypeOK
<1>4. AttemptsLeft' /\ SeenWasHead'
  BY <1>2, <1>3 DEF IndInv, RequestsInv, AttemptsLeft, SeenWasHead
<1>5. RetriesArePaidFor'
  <2> SUFFICES ASSUME NEW q \in Requests
               PROVE  attempt'[q] <=
                        Cardinality({e \in EntriesOf(Owner[q]) : e.att # q})
    BY DEF RetriesArePaidFor, EntriesOf
  <2>1. CASE q # r
    BY <2>1, <1>2 DEF IndInv, RequestsInv, RetriesArePaidFor
  <2>2. CASE q = r
    <3> DEFINE h == head[Owner[r]]
    <3>1. h \in Hash /\ seen[r] \in Hash /\ attempt[r] \in Nat
      <4>1. TypeOK
        BY DEF IndInv
      <4>2. h \in Hash /\ seen[r] \in Hash
        BY <4>1, OwnerAssumption DEF TypeOK
      <4>3. attempt[r] \in 0 .. MaxCasRetries
        BY <4>1 DEF TypeOK
      <4> QED
        BY <4>2, <4>3, RetryAssumption
    <3>2. Begins(seen[r], h) /\ attempt[r] <= Len(seen[r])
      BY DEF IndInv, RequestsInv, SeenWasHead
    <3>3. seen[r] # h
      BY DEF HeadMatches
    <3>4. Len(seen[r]) # Len(h)
      BY <3>1, <3>2, <3>3, BeginsItself, BeginningsByLength
    <3>5. Len(seen[r]) \in Nat /\ Len(h) \in Nat
      BY <3>1, LenProperties DEF Hash
    <3>6. attempt[r] + 1 <= Len(h)
      BY <3>1, <3>2, <3>4, <3>5 DEF Begins
    <3> QED
      BY <2>2, <3>6, <1>3, OthersCounted
  <2> QED
    BY <2>1, <2>2
<1> QED
  BY <1>1, <1>4, <1>5 DEF RequestsInv

LEMMA StorageErrorRequests ==
    ASSUME IndInv, NEW r \in Requests, StorageError(r)
    PROVE  RequestsInv'
<1> USE DEF StorageError, LeaveIteration
<1>1. RecordedWhenDone' /\ OkIsRecorded'
  BY StillRecorded
<1>2. AttemptsLeft' /\ SeenWasHead'
  BY DEF IndInv, TypeOK, RequestsInv, AttemptsLeft, SeenWasHead
<1>3. RetriesArePaidFor'
  BY DEF IndInv, RequestsInv, RetriesArePaidFor, EntriesOf
<1> QED
  BY <1>1, <1>2, <1>3 DEF RequestsInv

LEMMA AuditsKeepRequests ==
    ASSUME RequestsInv, UNCHANGED <<entries, head, pc, attempt, seen>>
    PROVE  RequestsInv'
BY DEF RequestsInv, RecordedWhenDone, OkIsRecorded, AttemptsLeft, SeenWasHead,
   RetriesArePaidFor, EntriesOf

LEMMA StepInv == IndInv /\ [Next]_vars => IndInv'
<1> SUFFICES ASSUME IndInv, [Next]_vars PROVE IndInv'
  OBVIOUS
<1>1. TypeOK'
  BY TypeStep DEF IndInv, TablesInv, RequestsInv
<1>2. ASSUME NEW r \in Requests, GetHead(r) PROVE TablesInv' /\ RequestsInv'
  BY <1>2, ReadsKeepTables, GetHeadRequests DEF GetHead, IndInv
<1>3. ASSUME NEW r \in Requests, BuildEntry(r) PROVE TablesInv' /\ RequestsInv'
  BY <1>3, ReadsKeepTables, BuildEntryRequests DEF BuildEntry, IndInv
<1>4. ASSUME NEW r \in Requests, Commit(r) PROVE TablesInv' /\ RequestsInv'
  BY <1>4, CommitTables, CommitRequests
<1>5. ASSUME NEW r \in Requests, Stale(r) PROVE TablesInv' /\ RequestsInv'
  BY <1>5, ReadsKeepTables, StaleRequests DEF Stale, IndInv
<1>6. ASSUME NEW r \in Requests, StorageError(r) PROVE TablesInv' /\ RequestsInv'
  BY <1>6, ReadsKeepTables, StorageErrorRequests DEF StorageError, IndInv
<1>7. ASSUME NEW a \in Auditors, NEW u \in Users, AuditRows(a, u)
      PROVE  TablesInv' /\ RequestsInv'
  BY <1>7, ReadsKeepTables, AuditsKeepRequests DEF AuditRows, IndInv
<1>8. ASSUME NEW a \in Auditors, AuditHead(a) PROVE TablesInv' /\ RequestsInv'
  BY <1>8, ReadsKeepTables, AuditsKeepRequests DEF AuditHead, IndInv
<1>9. ASSUME UNCHANGED vars PROVE TablesInv' /\ RequestsInv'
  <2>1. UNCHANGED <<entries, head, pc, attempt, seen>>
    BY <1>9 DEF vars
  <2> QED
    BY <2>1, ReadsKeepTables, AuditsKeepRequests DEF IndInv
<1>10. TablesInv' /\ RequestsInv'
  BY <1>2, <1>3, <1>4, <1>5, <1>6, <1>7, <1>8, <1>9 DEF Next, AppendStep
<1> QED
  BY <1>1, <1>10 DEF IndInv

LEMMA Invariant == Spec => []IndInv
BY InitInv, StepInv, PTL DEF Spec

-----------------------------------------------------------------------------
(* Theorems *)

\* Every variable of the journal has its type, in particular no request tries
\* more often than MAX_CAS_RETRIES.
THEOREM TypeCorrect == Spec => []TypeOK
BY Invariant, PTL DEF IndInv

\* However many requests and instances append at the same time, the entries of
\* a user form one chain, without forks or gaps, that ends in the head.
LEMMA ChainFromInv == IndInv => OneChain
<1> SUFFICES ASSUME IndInv, NEW u \in Users
    PROVE  /\ \A e, f \in EntriesOf(u) : e.prev = f.prev => e = f
           /\ \A e \in EntriesOf(u) :
                 e.prev = NoHash \/ \E f \in EntriesOf(u) : f.hash = e.prev
           /\ \A e \in EntriesOf(u) :
                 (e.hash = head[u]) <=> ~ \E f \in EntriesOf(u) : f.prev = e.hash
           /\ (head[u] = NoHash) <=> (EntriesOf(u) = {})
  BY DEF OneChain
<1> USE DEF IndInv, TablesInv
<1>1. head[u] \in Hash /\ Len(head[u]) \in Nat
  BY LenProperties DEF TypeOK, Hash
<1>2. \A e \in EntriesOf(u) :
        /\ e \in entries
        /\ e.hash \in Hash /\ e.prev \in Hash /\ e.att \in Requests
        /\ e.hash = LinkHash(u, e.prev, e.att)
        /\ Begins(e.hash, head[u])
  BY DEF EntriesOf, TypeOK, Entry, HashesComputed, OnTheChain
<1>3. \A e \in EntriesOf(u) :
        /\ Len(e.prev) \in Nat
        /\ Len(e.hash) = Len(e.prev) + 1
        /\ Begins(e.prev, head[u])
        /\ Len(e.prev) < Len(head[u])
  BY <1>1, <1>2, LinkHashProperties, PreviousBegins
<1>4. \A e, f \in EntriesOf(u) : Len(e.hash) = Len(f.hash) => e = f
  BY <1>1, <1>2, BeginningsByLength DEF UniqueHashes
<1>5. \A e, f \in EntriesOf(u) : Len(e.hash) = Len(f.prev) => e.hash = f.prev
  BY <1>1, <1>2, <1>3, BeginningsByLength
<1>6. \A n \in 1 .. Len(head[u]) : \E e \in EntriesOf(u) : Len(e.hash) = n
  BY DEF NoGaps
<1>7. \A e, f \in EntriesOf(u) : e.prev = f.prev => e = f
  BY <1>3, <1>4
<1>8. ASSUME NEW e \in EntriesOf(u)
      PROVE  e.prev = NoHash \/ \E f \in EntriesOf(u) : f.hash = e.prev
  <2>1. CASE Len(e.prev) = 0
    BY <2>1, <1>2, EmptySeq DEF NoHash, Hash
  <2>2. CASE Len(e.prev) # 0
    <3>1. Len(e.prev) \in 1 .. Len(head[u])
      BY <2>2, <1>1, <1>3
    <3> QED
      BY <3>1, <1>5, <1>6
  <2> QED
    BY <2>1, <2>2
<1>9. ASSUME NEW e \in EntriesOf(u)
      PROVE  (e.hash = head[u]) <=> ~ \E f \in EntriesOf(u) : f.prev = e.hash
  <2>1. ASSUME e.hash = head[u], NEW f \in EntriesOf(u), f.prev = e.hash
        PROVE  FALSE
    BY <2>1, <1>1, <1>3
  <2>2. ASSUME e.hash # head[u] PROVE \E f \in EntriesOf(u) : f.prev = e.hash
    <3>1. Len(e.hash) # Len(head[u])
      BY <2>2, <1>1, <1>2, BeginsItself, BeginningsByLength
    <3>2. Len(e.hash) + 1 \in 1 .. Len(head[u])
      BY <3>1, <1>1, <1>3
    <3>3. PICK f \in EntriesOf(u) : Len(f.hash) = Len(e.hash) + 1
      BY <3>2, <1>6
    <3>4. Len(f.prev) = Len(e.hash)
      BY <3>3, <1>3
    <3> QED
      BY <3>4, <1>5
  <2> QED
    BY <2>1, <2>2
<1>10. (head[u] = NoHash) <=> (EntriesOf(u) = {})
  <2>1. ASSUME head[u] = NoHash, NEW e \in EntriesOf(u) PROVE FALSE
    BY <2>1, <1>3, EmptySeq DEF NoHash
  <2>2. ASSUME head[u] # NoHash PROVE EntriesOf(u) # {}
    <3>1. Len(head[u]) \in 1 .. Len(head[u])
      BY <2>2, <1>1, EmptySeq DEF NoHash, Hash
    <3> QED
      BY <3>1, <1>6
  <2> QED
    BY <2>1, <2>2
<1> QED
  BY <1>7, <1>8, <1>9, <1>10

THEOREM ChainCorrect == Spec => []OneChain
BY Invariant, ChainFromInv, PTL

\* A caller that is told that the verification was recorded finds it recorded
\* once, under its own user; one that is told that the retries are exhausted
\* left nothing behind.
THEOREM AnswersCorrect == Spec => []AnswerMatchesRecord
<1>1. IndInv => AnswerMatchesRecord
  BY DEF IndInv, TablesInv, OneEntryEach, RequestsInv, RecordedWhenDone,
     OkIsRecorded, AnswerMatchesRecord
<1> QED
  BY <1>1, Invariant, PTL

\* A request gives up only after as many other verifications of its user were
\* recorded as it has attempts.
THEOREM RetriesCorrect == Spec => []RetriesArePaidFor
BY Invariant, PTL DEF IndInv, RequestsInv

-----------------------------------------------------------------------------
(* Time, when all instances have the same clock *)

OneClock == \A i, j \in Instances : Skew[i] = Skew[j]

\* Time grows along the whole chain, not only from one entry to the next.
TimesGrow ==
    \A e, f \in entries : e.user = f.user /\ Len(e.hash) < Len(f.hash) => e.at < f.at

\* No entry is from the future, and an entry about to be appended is later
\* than every entry that its request can have seen.
TimeInv ==
    /\ TimeFollowsChain
    /\ TimesGrow
    /\ \A e \in entries : e.at <= clock + Skew[HostOf[e.att]]
    /\ \A r \in Requests : pc[r] = "append" =>
          /\ stamp[r] <= clock + Skew[HostOf[r]]
          /\ \A e \in EntriesOf(Owner[r]) :
                Len(e.hash) <= Len(seen[r]) => e.at < stamp[r]

\* A step that keeps the tables, the clock and the stamps of those that are
\* about to append keeps TimeInv.
LEMMA TimeKept ==
    ASSUME TimeInv, UNCHANGED <<entries, clock>>,
           \A r \in Requests : pc'[r] = "append" =>
               pc[r] = "append" /\ stamp'[r] = stamp[r] /\ seen'[r] = seen[r]
    PROVE  TimeInv'
BY DEF TimeInv, TimeFollowsChain, TimesGrow, EntriesOf

LEMMA TimeCommit ==
    ASSUME IndInv, TimeInv, NEW r \in Requests, Commit(r)
    PROVE  TimeInv'
<1> DEFINE o == Owner[r]
           new == Built(r)
<1>1. /\ o \in Users
      /\ head[o] \in Hash /\ seen[r] = head[o]
      /\ new.user = o /\ new.prev = head[o] /\ new.att = r /\ new.at = stamp[r]
      /\ new.hash = LinkHash(o, head[o], r)
  BY CommittedEntry DEF IndInv
<1>2. /\ Len(head[o]) \in Nat
      /\ Len(new.hash) = Len(head[o]) + 1
  BY <1>1, LinkHashProperties
<1>3. /\ entries' = entries \cup {new}
      /\ clock' = clock
      /\ pc[r] = "append" /\ pc'[r] \in {"ok", "error"}
      /\ \A q \in Requests : q # r =>
            pc'[q] = pc[q] /\ seen'[q] = seen[q] /\ stamp'[q] = stamp[q]
  BY DEF Commit, AfterCommit, LeaveIteration, IndInv, TypeOK
<1>4. \A e \in entries :
        /\ e.user = o => Begins(e.hash, head[o])
        /\ e.user \in Users /\ e.prev \in Hash /\ e.att \in Requests
        /\ e.hash = LinkHash(e.user, e.prev, e.att)
  BY DEF IndInv, TablesInv, OnTheChain, TypeOK, Entry, HashesComputed
<1> HIDE DEF new
<1>5. ASSUME NEW e \in entries, e.user = o
      PROVE  /\ Len(e.hash) <= Len(head[o])
             /\ Len(e.prev) < Len(head[o])
             /\ Len(e.prev) \in Nat
  <2>1. /\ Begins(e.hash, head[o])
        /\ e.prev \in Hash /\ e.att \in Requests
        /\ e.hash = LinkHash(o, e.prev, e.att)
    BY <1>4, <1>5
  <2>2. Len(e.hash) <= Len(head[o])
    BY <2>1 DEF Begins
  <2>3. Len(e.prev) < Len(head[o])
    BY <2>1, <1>1, PreviousBegins
  <2>4. Len(e.prev) \in Nat
    BY <2>1, LenProperties DEF Hash
  <2> QED
    BY <2>2, <2>3, <2>4
<1>6. \A e \in entries : e.user = o => e.at < new.at
  BY <1>1, <1>3, <1>5 DEF TimeInv, EntriesOf
<1>7. TimeFollowsChain'
  <2> SUFFICES ASSUME NEW e \in entries', NEW f \in entries',
                      e.user = f.user, f.prev = e.hash
               PROVE  e.at < f.at
    BY DEF TimeFollowsChain
  <2>1. CASE e \in entries /\ f \in entries
    BY <2>1 DEF TimeInv, TimeFollowsChain
  <2>2. CASE e \in entries /\ f = new
    BY <2>2, <1>1, <1>6
  <2>3. CASE e = new /\ f \in entries
    BY <2>3, <1>1, <1>2, <1>5
  <2>4. CASE e = new /\ f = new
    BY <2>4, <1>1, <1>2
  <2> QED
    BY <2>1, <2>2, <2>3, <2>4, <1>3
<1>8. \A e \in entries' : e.at <= clock' + Skew[HostOf[e.att]]
  BY <1>1, <1>3 DEF TimeInv
<1>9. ASSUME NEW q \in Requests, pc'[q] = "append"
      PROVE  /\ stamp'[q] <= clock' + Skew[HostOf[q]]
             /\ \A e \in EntriesOf(Owner[q])' :
                   Len(e.hash) <= Len(seen'[q]) => e.at < stamp'[q]
  <2>1. q # r /\ pc[q] = "append" /\ seen'[q] = seen[q] /\ stamp'[q] = stamp[q]
    BY <1>3, <1>9
  <2>2. Owner[q] = o => Len(seen[q]) <= Len(head[o])
    BY <2>1 DEF IndInv, RequestsInv, SeenWasHead, Begins
  <2>3. seen[q] \in Hash /\ Len(seen[q]) \in Nat
    BY LenProperties DEF IndInv, TypeOK, Hash
  <2>4. \A e \in EntriesOf(Owner[q])' :
           \/ e \in EntriesOf(Owner[q])
           \/ Owner[q] = o /\ Len(e.hash) > Len(seen[q])
    BY <2>2, <2>3, <1>1, <1>2, <1>3 DEF EntriesOf
  <2>5. \A e \in EntriesOf(Owner[q]) : Len(e.hash) <= Len(seen[q]) => e.at < stamp[q]
    BY <2>1 DEF TimeInv
  <2>6. \A e \in EntriesOf(Owner[q])' : Len(e.hash) \in Nat
    BY <1>2, <1>3, <1>4, LinkHashProperties DEF EntriesOf
  <2>7. \A e \in EntriesOf(Owner[q])' :
           Len(e.hash) <= Len(seen[q]) => e \in EntriesOf(Owner[q])
    BY <2>3, <2>4, <2>6
  <2> QED
    BY <2>1, <2>5, <2>7, <1>3 DEF TimeInv
<1>10. TimesGrow'
  <2> SUFFICES ASSUME NEW e \in entries', NEW f \in entries',
                      e.user = f.user, Len(e.hash) < Len(f.hash)
               PROVE  e.at < f.at
    BY DEF TimesGrow
  <2>1. CASE e \in entries /\ f \in entries
    BY <2>1 DEF TimeInv, TimesGrow
  <2>2. CASE e \in entries /\ f = new
    BY <2>2, <1>1, <1>6
  <2>3. CASE e = new /\ f \in entries
    <3>1. Len(f.hash) <= Len(head[o])
      BY <2>3, <1>1, <1>5
    <3>2. Len(f.hash) \in Nat
      BY <2>3, <1>4, LinkHashProperties
    <3> QED
      BY <2>3, <3>1, <3>2, <1>2
  <2>4. CASE e = new /\ f = new
    BY <2>4, <1>2
  <2> QED
    BY <2>1, <2>2, <2>3, <2>4, <1>3
<1> QED
  BY <1>7, <1>8, <1>9, <1>10 DEF TimeInv

LEMMA TimeBuild ==
    ASSUME OneClock, IndInv, TimeInv, NEW r \in Requests, BuildEntry(r)
    PROVE  TimeInv'
<1>1. /\ clock \in Nat /\ clock' = clock + 1 /\ entries' = entries
      /\ Skew[HostOf[r]] \in Nat
      /\ stamp'[r] = clock + 1 + Skew[HostOf[r]]
      /\ \A q \in Requests : q # r =>
            pc'[q] = pc[q] /\ stamp'[q] = stamp[q] /\ stamp[q] \in Nat
      /\ seen' = seen
  BY ClockAssumption DEF BuildEntry, CreatedAt, IndInv, TypeOK
<1>2. \A q \in Requests : Skew[HostOf[q]] = Skew[HostOf[r]]
  BY ClockAssumption DEF OneClock
<1>3. \A e \in entries : e.at \in Nat /\ e.att \in Requests
  BY DEF IndInv, TypeOK, Entry
<1>4. \A e \in entries : e.at <= clock + Skew[HostOf[r]]
  BY <1>2, <1>3 DEF TimeInv
<1>5. \A e \in entries : e.at < stamp'[r]
  BY <1>1, <1>3, <1>4
<1>6. \A e \in entries' : e.at <= clock' + Skew[HostOf[e.att]]
  BY <1>1, <1>2, <1>3, <1>4
<1>7. ASSUME NEW q \in Requests, pc'[q] = "append"
      PROVE  /\ stamp'[q] <= clock' + Skew[HostOf[q]]
             /\ \A e \in EntriesOf(Owner[q])' :
                   Len(e.hash) <= Len(seen'[q]) => e.at < stamp'[q]
  <2>1. CASE q = r
    BY <2>1, <1>1, <1>5 DEF EntriesOf
  <2>2. CASE q # r
    <3>1. /\ stamp[q] <= clock + Skew[HostOf[q]]
          /\ \A e \in EntriesOf(Owner[q]) :
                Len(e.hash) <= Len(seen[q]) => e.at < stamp[q]
      BY <2>2, <1>1, <1>7 DEF TimeInv
    <3> QED
      BY <2>2, <3>1, <1>1, <1>2 DEF EntriesOf
  <2> QED
    BY <2>1, <2>2
<1>8. TimeFollowsChain' /\ TimesGrow'
  BY <1>1 DEF TimeInv, TimeFollowsChain, TimesGrow
<1> QED
  BY <1>6, <1>7, <1>8 DEF TimeInv

LEMMA TimeStep == OneClock /\ IndInv /\ TimeInv /\ [Next]_vars => TimeInv'
<1> SUFFICES ASSUME OneClock, IndInv, TimeInv, [Next]_vars PROVE TimeInv'
  OBVIOUS
<1>1. ASSUME NEW r \in Requests, GetHead(r) PROVE TimeInv'
  BY <1>1, TimeKept DEF GetHead, IndInv, TypeOK
<1>2. ASSUME NEW r \in Requests, Stale(r) PROVE TimeInv'
  BY <1>2, TimeKept DEF Stale, LeaveIteration, IndInv, TypeOK
<1>3. ASSUME NEW r \in Requests, StorageError(r) PROVE TimeInv'
  BY <1>3, TimeKept DEF StorageError, LeaveIteration, IndInv, TypeOK
<1>4. ASSUME NEW a \in Auditors, NEW u \in Users, AuditRows(a, u) PROVE TimeInv'
  BY <1>4, TimeKept DEF AuditRows
<1>5. ASSUME NEW a \in Auditors, AuditHead(a) PROVE TimeInv'
  BY <1>5, TimeKept DEF AuditHead
<1>6. ASSUME UNCHANGED vars PROVE TimeInv'
  BY <1>6, TimeKept DEF vars
<1> QED
  BY <1>1, <1>2, <1>3, <1>4, <1>5, <1>6, TimeCommit, TimeBuild
     DEF Next, AppendStep

\* With one clock the order of created_at, in which the journal is listed and
\* audited, is the order of the chain.
THEOREM TimeCorrect == ASSUME OneClock PROVE Spec => []TimeFollowsChain
<1>1. Init => TimeInv
  BY DEF Init, TimeInv, TimeFollowsChain, TimesGrow, EntriesOf
<1>2. TimeInv => TimeFollowsChain
  BY DEF TimeInv
<1>3. IndInv /\ TimeInv /\ [Next]_vars => TimeInv'
  BY TimeStep
<1> QED
  BY <1>1, <1>2, <1>3, Invariant, PTL DEF Spec

-----------------------------------------------------------------------------
(* Audits, when all instances have the same clock *)

\* Numbers out of 1 .. n that grow n times are the numbers 1 .. n in order.
LEMMA GrowingCounts ==
    ASSUME NEW n \in Nat, NEW f \in [1 .. n -> 1 .. n],
           \A i, j \in 1 .. n : i < j => f[i] < f[j],
           NEW i \in 1 .. n
    PROVE  f[i] = i
<1>1. \A k \in 1 .. n : f[k] \in 1 .. n
  OBVIOUS
<1>2. \A k, l \in 1 .. n : f[k] = f[l] => k = l
  <2> SUFFICES ASSUME NEW k \in 1 .. n, NEW l \in 1 .. n, k # l
               PROVE  f[k] # f[l]
    OBVIOUS
  <2>1. k < l \/ l < k
    OBVIOUS
  <2>2. f[k] < f[l] \/ f[l] < f[k]
    BY <2>1
  <2> QED
    BY <2>2, <1>1
<1>3. i <= f[i]
  <2> DEFINE g == [k \in 1 .. i |-> f[k]]
  <2>1. ASSUME NEW k \in 1 .. i PROVE k \in 1 .. n /\ f[k] \in 1 .. f[i]
    <3>1. k \in 1 .. n /\ (k = i \/ k < i)
      OBVIOUS
    <3>2. k = i \/ f[k] < f[i]
      BY <3>1
    <3> QED
      BY <3>1, <3>2, <1>1
  <2>2. g \in Injection(1 .. i, 1 .. f[i])
    BY <2>1, <1>2 DEF Injection, IsInjective
  <2>3. Cardinality(1 .. i) <= Cardinality(1 .. f[i])
    BY <2>2, FS_Injection, FS_Interval
  <2> QED
    BY <2>3, <1>1, FS_Interval
<1>4. f[i] <= i
  <2> DEFINE g == [k \in i .. n |-> f[k]]
  <2>1. ASSUME NEW k \in i .. n PROVE k \in 1 .. n /\ f[k] \in f[i] .. n
    <3>1. k \in 1 .. n /\ (k = i \/ i < k)
      OBVIOUS
    <3>2. k = i \/ f[i] < f[k]
      BY <3>1
    <3> QED
      BY <3>1, <3>2, <1>1
  <2>2. g \in Injection(i .. n, f[i] .. n)
    BY <2>1, <1>2 DEF Injection, IsInjective
  <2>3. Cardinality(i .. n) <= Cardinality(f[i] .. n)
    BY <2>2, <1>1, FS_Injection, FS_Interval
  <2> QED
    BY <2>3, <1>1, FS_Interval
<1> QED
  BY <1>1, <1>3, <1>4

\* What is known of the entries of one user.
LEMMA EntryFacts ==
    ASSUME IndInv, NEW u \in Users, NEW e \in EntriesOf(u)
    PROVE  /\ head[u] \in Hash /\ e.hash \in Hash /\ e.prev \in Hash
           /\ e.att \in Requests /\ e.at \in Nat
           /\ e.hash = LinkHash(u, e.prev, e.att)
           /\ Begins(e.hash, head[u]) /\ Begins(e.prev, head[u])
           /\ Len(e.hash) = Len(e.prev) + 1
           /\ Len(e.prev) \in Nat
           /\ Len(e.hash) \in 1 .. Len(head[u])
<1>1. /\ e.hash \in Hash /\ e.prev \in Hash /\ e.att \in Requests /\ e.at \in Nat
      /\ head[u] \in Hash
      /\ e.hash = LinkHash(u, e.prev, e.att)
      /\ Begins(e.hash, head[u])
  BY DEF EntriesOf, IndInv, TypeOK, Entry, TablesInv, HashesComputed, OnTheChain
<1>2. /\ Len(e.hash) = Len(e.prev) + 1
      /\ Len(e.prev) \in Nat
  BY <1>1, LinkHashProperties
<1>3. Len(head[u]) \in Nat
  BY <1>1, LenProperties DEF Hash
<1>4. Begins(e.prev, head[u])
  BY <1>1, PreviousBegins
<1>5. Len(e.hash) <= Len(head[u])
  BY <1>1 DEF Begins
<1> QED
  BY <1>1, <1>2, <1>3, <1>4, <1>5

\* In the order of time the i-th row is the i-th link of the chain.
LEMMA RowsInOrder ==
    ASSUME IndInv, TimeInv, NEW u \in Users,
           NEW rows \in OrderedByTime(EntriesOf(u))
    PROVE  /\ rows \in Seq(EntriesOf(u)) /\ Len(rows) = Len(head[u])
           /\ \A i \in 1 .. Len(rows) :
                 rows[i] \in EntriesOf(u) /\ Len(rows[i].hash) = i
<1> DEFINE n == Len(head[u])
           f == [i \in 1 .. n |-> Len(rows[i].hash)]
<1>1. n \in Nat /\ Cardinality(EntriesOf(u)) = n
  BY LenProperties DEF IndInv, TypeOK, TablesInv, Counted, Hash
<1>2. /\ rows \in [1 .. n -> EntriesOf(u)]
      /\ \A i, j \in 1 .. n : rows[i] = rows[j] => i = j
      /\ \A i, j \in 1 .. n : i < j => rows[i].at <= rows[j].at
  BY <1>1 DEF OrderedByTime
<1>3. rows \in Seq(EntriesOf(u)) /\ Len(rows) = n
  <2>1. rows \in Seq(EntriesOf(u))
    BY <1>1, <1>2, SeqDef
  <2> QED
    BY <2>1, <1>1, <1>2, LenProperties
<1> HIDE DEF n
<1>4. \A i \in 1 .. n : f[i] \in 1 .. n
  <2> SUFFICES ASSUME NEW i \in 1 .. n PROVE Len(rows[i].hash) \in 1 .. n
    OBVIOUS
  <2> QED
    BY <1>2, EntryFacts DEF n
<1>5. \A i, j \in 1 .. n : i < j => f[i] < f[j]
  <2> SUFFICES ASSUME NEW i \in 1 .. n, NEW j \in 1 .. n, i < j
               PROVE  Len(rows[i].hash) < Len(rows[j].hash)
    OBVIOUS
  <2> DEFINE e == rows[i]
             d == rows[j]
  <2>1. e \in EntriesOf(u) /\ d \in EntriesOf(u) /\ e # d /\ e.at <= d.at
    BY <1>1, <1>2
  <2> HIDE DEF e, d
  <2>2. /\ e.hash \in Hash /\ d.hash \in Hash /\ head[u] \in Hash
        /\ Begins(e.hash, head[u]) /\ Begins(d.hash, head[u])
        /\ Len(e.hash) \in Nat /\ Len(d.hash) \in Nat
        /\ e.at \in Nat /\ d.at \in Nat
    BY <2>1, EntryFacts
  <2>3. Len(e.hash) # Len(d.hash)
    <3>1. e.hash # d.hash
      BY <2>1 DEF EntriesOf, IndInv, TablesInv, UniqueHashes
    <3> QED
      BY <3>1, <2>2, BeginningsByLength
  <2>4. ~ (Len(d.hash) < Len(e.hash))
    BY <2>1, <2>2 DEF TimeInv, TimesGrow, EntriesOf
  <2>5. Len(e.hash) < Len(d.hash)
    BY <2>2, <2>3, <2>4
  <2> QED
    BY <2>5 DEF e, d
<1>6. \A i \in 1 .. n : f[i] = i
  <2>1. f \in [1 .. n -> 1 .. n]
    BY <1>4
  <2> HIDE DEF f
  <2> QED
    BY <2>1, <1>1, <1>5, GrowingCounts
<1> QED
  BY <1>2, <1>3, <1>6 DEF n

\* The walk over the rows finds every link in place, and ends at the head.
LEMMA WalkSucceeds ==
    ASSUME IndInv, TimeInv, NEW u \in Users,
           NEW rows \in OrderedByTime(EntriesOf(u))
    PROVE  /\ LinksHold(rows, u)
           /\ rows # << >> => rows[Len(rows)].hash = head[u]
<1>1. /\ rows \in Seq(EntriesOf(u)) /\ Len(rows) = Len(head[u])
      /\ \A i \in 1 .. Len(rows) :
            rows[i] \in EntriesOf(u) /\ Len(rows[i].hash) = i
  BY RowsInOrder
<1>2. head[u] \in Hash /\ Len(rows) \in Nat
  BY <1>1, LenProperties DEF IndInv, TypeOK, Hash
<1>3. ASSUME NEW i \in 1 .. Len(rows)
      PROVE  /\ rows[i].prev = Previous(rows, i)
             /\ rows[i].hash =
                   EntryHash(u, Previous(rows, i), rows[i].lead, rows[i].att)
  <2> DEFINE e == rows[i]
  <2>1. /\ e \in EntriesOf(u) /\ Len(e.hash) = i
        /\ e.prev \in Hash /\ Begins(e.prev, head[u])
        /\ Len(e.prev) = i - 1
        /\ e.hash = EntryHash(u, e.prev, e.lead, e.att)
    <3>1. e \in EntriesOf(u) /\ Len(e.hash) = i
      BY <1>1
    <3> HIDE DEF e
    <3>2. e.lead = NoHash
      BY <3>1 DEF EntriesOf, IndInv, TypeOK, Entry
    <3> QED
      BY <3>1, <3>2, <1>2, EntryFacts, AppendedHash
  <2> HIDE DEF e
  <2>2. e.prev = Previous(rows, i)
    <3>1. CASE i = 1
      BY <3>1, <2>1, EmptySeq DEF Previous, NoHash, Hash
    <3>2. CASE i # 1
      <4> DEFINE d == rows[i - 1]
      <4>1. i - 1 \in 1 .. Len(rows)
        BY <3>2, <1>2
      <4>2. d \in EntriesOf(u) /\ Len(d.hash) = i - 1
        BY <4>1, <1>1
      <4> HIDE DEF d
      <4>3. d.hash \in Hash /\ Begins(d.hash, head[u])
        BY <4>2, EntryFacts
      <4>4. d.hash = e.prev
        BY <4>2, <4>3, <2>1, <1>2, BeginningsByLength
      <4> QED
        BY <4>4, <3>2 DEF Previous, d
    <3> QED
      BY <3>1, <3>2
  <2> QED
    BY <2>1, <2>2 DEF e
<1>4. ASSUME rows # << >> PROVE rows[Len(rows)].hash = head[u]
  <2> DEFINE e == rows[Len(rows)]
  <2>1. Len(rows) # 0
    BY <1>1, <1>4, EmptySeq
  <2>2. e \in EntriesOf(u) /\ Len(e.hash) = Len(head[u])
    BY <2>1, <1>1, <1>2
  <2> HIDE DEF e
  <2>3. e.hash \in Hash /\ Begins(e.hash, head[u])
    BY <2>2, EntryFacts
  <2>4. e.hash = head[u]
    BY <2>2, <2>3, <1>2, BeginsItself, BeginningsByLength
  <2> QED
    BY <2>4 DEF e
<1> QED
  BY <1>3, <1>4 DEF LinksHold

\* An audit between its two queries has read the head's own entry last, and
\* only one that was overtaken has found fault.
AuditsInv ==
    \A a \in Auditors : ~ audit[a].moved =>
        /\ audit[a].pc = "head" => audit[a].last = head[audit[a].user]
        /\ audit[a].pc # "invalid"

LEMMA AuditsStep == IndInv /\ TimeInv /\ AuditsInv /\ [Next]_vars => AuditsInv'
<1> SUFFICES ASSUME IndInv, TimeInv, AuditsInv, [Next]_vars PROVE AuditsInv'
  OBVIOUS
<1> USE DEF IndInv, TypeOK
<1>1. ASSUME NEW r \in Requests, Commit(r) PROVE AuditsInv'
  <2> SUFFICES ASSUME NEW a \in Auditors, ~ audit'[a].moved
               PROVE  /\ audit'[a].pc = "head" => audit'[a].last = head'[audit'[a].user]
                      /\ audit'[a].pc # "invalid"
    BY DEF AuditsInv
  <2>1. audit[a] \in AuditState /\ Owner[r] \in Users
    BY OwnerAssumption
  <2>2. /\ ~ (audit[a].pc = "head" /\ audit[a].user = Owner[r])
        /\ audit'[a] = audit[a]
    BY <1>1, <2>1 DEF Commit, AuditState
  <2>3. audit[a].user # Owner[r] => head'[audit[a].user] = head[audit[a].user]
    BY <1>1, <2>1 DEF Commit, AuditState
  <2> QED
    BY <2>2, <2>3 DEF AuditsInv
<1>2. ASSUME NEW a \in Auditors, NEW u \in Users, AuditRows(a, u) PROVE AuditsInv'
  <2>1. PICK rows \in OrderedByTime(EntriesOf(u)) :
          audit' = [audit EXCEPT ![a] =
            [pc    |-> IF rows = << >> THEN "valid"
                       ELSE IF LinksHold(rows, u) THEN "head" ELSE "invalid",
             user  |-> u,
             last  |-> IF rows = << >> THEN NoHash ELSE rows[Len(rows)].hash,
             moved |-> FALSE]]
    BY <1>2 DEF AuditRows
  <2>2. LinksHold(rows, u) /\ (rows # << >> => rows[Len(rows)].hash = head[u])
    BY WalkSucceeds
  <2>3. head' = head
    BY <1>2 DEF AuditRows
  <2>4. /\ audit'[a].pc # "invalid" /\ audit'[a].user = u
        /\ audit'[a].pc = "head" => audit'[a].last = head[u]
    BY <2>1, <2>2
  <2>5. \A b \in Auditors : b # a => audit'[b] = audit[b]
    BY <2>1
  <2> QED
    BY <2>3, <2>4, <2>5 DEF AuditsInv
<1>3. ASSUME NEW a \in Auditors, AuditHead(a) PROVE AuditsInv'
  BY <1>3 DEF AuditHead, AuditsInv, AuditState
<1>4. ASSUME UNCHANGED <<head, audit>> PROVE AuditsInv'
  BY <1>4 DEF AuditsInv
<1> QED
  BY <1>1, <1>2, <1>3, <1>4
     DEF Next, AppendStep, GetHead, BuildEntry, Stale, StorageError, vars

\* With one clock an audit that finds fault with the journal was overtaken by an
\* append between its two queries: the walk over the rows never fails, and the
\* head differs only when it has moved.
THEOREM AuditCorrect == ASSUME OneClock PROVE Spec => []QuietAuditValid
<1>1. Init => TimeInv /\ AuditsInv
  BY DEF Init, TimeInv, TimeFollowsChain, TimesGrow, EntriesOf, AuditsInv
<1>2. AuditsInv => QuietAuditValid
  BY DEF AuditsInv, QuietAuditValid
<1>3. IndInv /\ TimeInv /\ AuditsInv /\ [Next]_vars => TimeInv' /\ AuditsInv'
  BY TimeStep, AuditsStep
<1> QED
  BY <1>1, <1>2, <1>3, Invariant, PTL DEF Spec

-----------------------------------------------------------------------------
(* What an audit of altered tables finds *)

\* Induction up to n, over a set of numbers: a non-empty set of naturals has a
\* least member, and the least number that is left out has no predecessor.
LEMMA Least ==
    ASSUME NEW T \in SUBSET Nat, T # {}
    PROVE  \E m \in T : \A n \in T : m <= n
<1> DEFINE R == {p \in Nat \X Nat : p[1] < p[2]}
<1>1. IsWellFoundedOn(R, Nat)
  <2>1. OpToRel(<, Nat) = R
    BY DEF OpToRel
  <2> QED
    BY <2>1, NatLessThanWellFounded
<1>2. \A m, n \in Nat : m < n => <<m, n>> \in R
  OBVIOUS
<1> HIDE DEF R
<1>3. PICK m \in T : \A n \in T : ~ (<<n, m>> \in R)
  BY <1>1, WFMin
<1>4. ASSUME NEW n \in T PROVE m <= n
  <2>1. m \in Nat /\ n \in Nat
    OBVIOUS
  <2>2. ~ (n < m)
    BY <1>2, <1>3, <2>1
  <2> QED
    BY <2>1, <2>2
<1> QED
  BY <1>4

LEMMA Climb ==
    ASSUME NEW n \in Nat, NEW S, 0 \in S,
           \A k \in 0 .. n : k # n /\ k \in S => k + 1 \in S
    PROVE  0 .. n \subseteq S
<1> DEFINE T == {k \in 0 .. n : k \notin S}
<1> SUFFICES ASSUME T # {} PROVE FALSE
  OBVIOUS
<1>1. PICK m \in T : \A k \in T : m <= k
  <2>1. T \in SUBSET Nat
    OBVIOUS
  <2> HIDE DEF T
  <2> QED
    BY <2>1, Least
<1>2. m \in 1 .. n /\ m - 1 \in 0 .. n /\ m - 1 # n
  OBVIOUS
<1>3. m - 1 \in S
  BY <1>1, <1>2
<1>4. (m - 1) + 1 \in S
  BY <1>2, <1>3
<1> QED
  BY <1>2, <1>4

\* Two entries with the same hash have the same hashed content.
LEMMA LinkHashInjective ==
    ASSUME NEW u \in Users, NEW s \in Hash, NEW t \in Hash,
           NEW q \in Requests, NEW r \in Requests,
           LinkHash(u, s, q) = LinkHash(u, t, r)
    PROVE  s = t /\ q = r
<1>1. Len(s) = Len(t) /\ Len(s) \in Nat
  BY LinkHashProperties
<1>2. <<u, q>> = <<u, r>>
  BY <1>1, LinkHashProperties
<1>3. Begins(s, LinkHash(u, t, r)) /\ Begins(t, LinkHash(u, t, r))
  BY LinkHashProperties
<1>4. s = t
  BY <1>1, <1>3, LinkHashProperties, BeginningsByLength
<1> QED
  BY <1>2, <1>4

\* Rows as the tables may hold them when others than the appends wrote them: any
\* digest of a name, a hash and an attestation hash, or of two hashes, may stand
\* in the columns of the hashes, and any chain hash before the attestation hash.
Digest == Seq((Users \X Requests) \cup (Users \X Hash \X Requests))

Row == [user : Users, prev : Digest, hash : Digest, lead : Hash,
        att : Requests, at : Nat]

LEMMA EntriesAreRows == Entry \subseteq Row
<1>1. Hash \subseteq Digest
  BY DEF Hash, Digest
<1>2. NoHash \in Hash
  BY DEF NoHash, Hash
<1> QED
  BY <1>1, <1>2 DEF Entry, Row

\* The digest does not tell in which column the previous hash stood.
LEMMA BoundaryIsNotHashed ==
    ASSUME NEW u \in Users, NEW d \in Hash, NEW r \in Requests
    PROVE  EntryHash(u, NoHash, d, r) = EntryHash(u, d, NoHash, r)
BY DEF EntryHash

\* A digest is never the empty one of a row without predecessor.
LEMMA DigestProperties ==
    ASSUME NEW u \in Users, NEW p \in Digest, NEW d \in Hash, NEW r \in Requests
    PROVE  EntryHash(u, p, d, r) # NoHash
<1> DEFINE T == (Users \X Requests) \cup (Users \X Hash \X Requests)
<1>1. d \in Seq(T) /\ p \in Seq(T)
  BY DEF Digest, Hash
<1>2. <<u, r>> \in T /\ <<u, d, r>> \in T
  OBVIOUS
<1> HIDE DEF T
<1>3. PICK s \in Seq(T), x \in T : EntryHash(u, p, d, r) = Append(s, x)
  BY <1>1, <1>2 DEF EntryHash, LinkHash
<1>4. Len(Append(s, x)) = Len(s) + 1 /\ Len(s) \in Nat
  BY <1>3, AppendProperties, LenProperties
<1> QED
  BY <1>3, <1>4, EmptySeq DEF NoHash

\* A digest that is a chain hash was computed from a single chain hash, whichever
\* column that stood in.
LEMMA ChainHashFromOne ==
    ASSUME NEW u \in Users, NEW p \in Digest, NEW d \in Hash, NEW r \in Requests,
           EntryHash(u, p, d, r) \in Hash
    PROVE  LET b == IF p = NoHash THEN d ELSE p IN
           b \in Hash /\ EntryHash(u, p, d, r) = LinkHash(u, b, r)
<1> DEFINE T == (Users \X Requests) \cup (Users \X Hash \X Requests)
           h == EntryHash(u, p, d, r)
<1>1. CASE p = NoHash
  BY <1>1 DEF EntryHash
<1>2. CASE p # NoHash
  <2>1. PICK x \in T : h = Append(p, x) /\ (d # NoHash => x = <<u, d, r>>)
                                        /\ (d = NoHash => x = <<u, r>>)
    <3>1. <<u, r>> \in T /\ <<u, d, r>> \in T
      OBVIOUS
    <3> HIDE DEF T
    <3> QED
      BY <1>2, <3>1 DEF EntryHash, LinkHash
  <2>2. /\ p \in Seq(T) /\ Len(p) \in Nat
        /\ Len(h) = Len(p) + 1
        /\ \A i \in 1 .. Len(p) : h[i] = p[i]
        /\ h[Len(p) + 1] = x
    <3>1. p \in Seq(T)
      BY DEF Digest
    <3> HIDE DEF T
    <3> QED
      BY <2>1, <3>1, AppendProperties, LenProperties
  <2>3. \A i \in 1 .. Len(h) : h[i] \in Users \X Requests
    BY ElementOfSeq DEF Hash
  <2>4. x \in Users \X Requests
    BY <2>2, <2>3
  <2>5. d = NoHash
    BY <2>1, <2>4
  <2>6. \A i \in 1 .. Len(p) : p[i] \in Users \X Requests
    BY <2>2, <2>3
  <2>7. p \in Hash
    <3> DEFINE U == Users \X Requests
    <3>1. p \in [1 .. Len(p) -> U] /\ Len(p) \in Nat
      BY <2>2, <2>6, LenProperties
    <3> HIDE DEF U
    <3>2. p \in Seq(U)
      BY <3>1, SeqDef
    <3> QED
      BY <3>2 DEF Hash, U
  <2> QED
    BY <1>2, <2>5, <2>7 DEF EntryHash
<1> QED
  BY <1>1, <1>2

\* A set of rows that verify_chain walks through without a fault, in any order
\* of time: every row has its digest computed from its own columns, and only
\* the first has no predecessor.
LEMMA WalkedRows ==
    ASSUME NEW u \in Users, NEW R \in SUBSET Row, IsFiniteSet(R), R # {},
           NEW rows \in OrderedByTime(R), LinksHold(rows, u)
    PROVE  /\ Len(rows) \in Nat \ {0}
           /\ \A i \in 1 .. Len(rows) :
                 /\ rows[i] \in R
                 /\ rows[i].prev = Previous(rows, i)
                 /\ rows[i].hash = EntryHash(u, rows[i].prev, rows[i].lead, rows[i].att)
                 /\ rows[i].prev = NoHash <=> i = 1
           /\ \A d \in R : \E i \in 1 .. Len(rows) : rows[i] = d
<1> DEFINE n == Cardinality(R)
<1>1. n \in Nat \ {0}
  BY FS_CardinalityType, FS_EmptySet
<1>2. /\ rows \in [1 .. n -> R]
      /\ \A i, j \in 1 .. n : rows[i] = rows[j] => i = j
  BY DEF OrderedByTime
<1>3. rows \in Seq(R) /\ Len(rows) = n
  <2>1. rows \in Seq(R)
    BY <1>1, <1>2, SeqDef
  <2> QED
    BY <2>1, <1>1, <1>2, LenProperties
<1> HIDE DEF n
<1>4. \A i \in 1 .. n :
         /\ rows[i] \in R
         /\ rows[i].prev = Previous(rows, i)
         /\ rows[i].hash = EntryHash(u, rows[i].prev, rows[i].lead, rows[i].att)
  BY <1>2, <1>3 DEF LinksHold
<1>5. \A i \in 1 .. n : rows[i].hash # NoHash
  <2> SUFFICES ASSUME NEW i \in 1 .. n PROVE rows[i].hash # NoHash
    OBVIOUS
  <2> DEFINE d == rows[i]
  <2>1. d \in Row /\ d.hash = EntryHash(u, d.prev, d.lead, d.att)
    BY <1>4
  <2> HIDE DEF d
  <2>2. d.prev \in Digest /\ d.lead \in Hash /\ d.att \in Requests
    BY <2>1 DEF Row
  <2> QED
    BY <2>1, <2>2, DigestProperties DEF d
<1>6. \A i \in 1 .. n : rows[i].prev = NoHash <=> i = 1
  <2> SUFFICES ASSUME NEW i \in 1 .. n PROVE rows[i].prev = NoHash <=> i = 1
    OBVIOUS
  <2>1. CASE i = 1
    BY <2>1, <1>4 DEF Previous
  <2>2. CASE i # 1
    <3>1. i - 1 \in 1 .. n
      BY <2>2, <1>1
    <3> QED
      BY <2>2, <3>1, <1>4, <1>5 DEF Previous
  <2> QED
    BY <2>1, <2>2
<1>7. \A d \in R : \E i \in 1 .. n : rows[i] = d
  <2>1. rows \in Injection(1 .. n, R)
    BY <1>2 DEF Injection, IsInjective
  <2>2. Cardinality(1 .. n) = n
    BY <1>1, FS_Interval
  <2>3. rows \in Surjection(1 .. n, R)
    BY <2>1, <2>2, FS_Injection DEF n
  <2> QED
    BY <2>3 DEF Surjection
<1> QED
  BY <1>1, <1>3, <1>4, <1>6, <1>7

\* When the walk ends at the stored head, the rows are the last links of the
\* chain that the head stands for, in order.
LEMMA WalkEndsAtHead ==
    ASSUME IndInv, NEW u \in Users, NEW R \in SUBSET Row, IsFiniteSet(R),
           R # {}, NEW rows \in OrderedByTime(R), Passes(rows, u)
    PROVE  /\ Len(rows) \in Nat \ {0}
           /\ \A i \in 1 .. Len(rows) :
                 /\ Before(rows[i]) \in Hash
                 /\ rows[i].hash = LinkHash(u, Before(rows[i]), rows[i].att)
                 /\ Begins(rows[i].hash, head[u])
                 /\ Len(rows[i].hash) = Len(head[u]) - (Len(rows) - i)
<1> DEFINE n == Len(rows)
<1>1. LinksHold(rows, u)
  BY EmptySeq DEF Passes, LinksHold
<1>2. /\ n \in Nat \ {0}
      /\ \A i \in 1 .. n :
            /\ rows[i] \in Row
            /\ rows[i].prev = Previous(rows, i)
            /\ rows[i].hash = EntryHash(u, rows[i].prev, rows[i].lead, rows[i].att)
            /\ rows[i].prev = NoHash <=> i = 1
  BY <1>1, WalkedRows
<1>3. head[u] \in Hash /\ Len(head[u]) \in Nat /\ rows[n].hash = head[u]
  BY <1>2, EmptySeq, LenProperties DEF Passes, IndInv, TypeOK, Hash
<1> HIDE DEF n
<1> DEFINE OnChain(i) == /\ rows[i].hash \in Hash
                         /\ Begins(rows[i].hash, head[u])
                         /\ Len(rows[i].hash) = Len(head[u]) - (n - i)
<1>4. ASSUME NEW i \in 1 .. n, rows[i].hash \in Hash
      PROVE  /\ Before(rows[i]) \in Hash
             /\ rows[i].hash = LinkHash(u, Before(rows[i]), rows[i].att)
             /\ rows[i].att \in Requests
  <2> DEFINE d == rows[i]
  <2>1. d \in Row /\ d.hash = EntryHash(u, d.prev, d.lead, d.att) /\ d.hash \in Hash
    BY <1>2, <1>4
  <2> HIDE DEF d
  <2>2. d.prev \in Digest /\ d.lead \in Hash /\ d.att \in Requests
    BY <2>1 DEF Row
  <2> QED
    BY <2>1, <2>2, ChainHashFromOne DEF Before, d
<1> DEFINE S == {k \in 0 .. n : k = n \/ OnChain(n - k)}
<1>5. 0 \in S
  BY <1>2, <1>3, BeginsItself
<1>6. ASSUME NEW k \in 0 .. n, k # n, k \in S
      PROVE  k + 1 \in S
  <2>1. CASE k + 1 = n
    BY <2>1, <1>2
  <2>2. CASE k + 1 # n
    <3> DEFINE i == n - k
    <3>1. /\ i \in 1 .. n /\ i - 1 \in 1 .. n /\ i # 1 /\ n - (k + 1) = i - 1
          /\ k + 1 \in 0 .. n /\ n \in Int
      BY <2>2, <1>2, <1>6
    <3>2. OnChain(i)
      BY <1>6
    <3> HIDE DEF i
    <3>3. Before(rows[i]) = rows[i - 1].hash
      BY <3>1, <1>2 DEF Previous, Before
    <3> DEFINE p == rows[i - 1].hash
               r == rows[i].att
    <3>4. p \in Hash /\ r \in Requests /\ rows[i].hash = LinkHash(u, p, r)
      BY <3>1, <3>2, <3>3, <1>4
    <3> HIDE DEF p, r
    <3>5. /\ Begins(p, head[u])
          /\ Len(LinkHash(u, p, r)) = Len(p) + 1 /\ Len(p) \in Nat
      BY <3>2, <3>4, <1>3, PreviousBegins, LinkHashProperties
    <3>6. Len(p) = Len(head[u]) - (n - (i - 1))
      BY <3>1, <3>2, <3>4, <3>5, <1>3
    <3>7. OnChain(i - 1)
      BY <3>4, <3>5, <3>6 DEF p
    <3> QED
      BY <3>1, <3>7
  <2> QED
    BY <2>1, <2>2
<1>7. 0 .. n \subseteq S
  <2> HIDE DEF S
  <2> QED
    BY <1>2, <1>5, <1>6, Climb
<1>8. ASSUME NEW i \in 1 .. n PROVE OnChain(i)
  <2>1. n - i \in 0 .. n /\ n - i # n /\ n - (n - i) = i
    BY <1>2
  <2>2. n - i \in S
    BY <2>1, <1>7
  <2> QED
    BY <2>1, <2>2
<1> QED
  BY <1>2, <1>4, <1>8 DEF n

\* The rows that verify_chain accepts against the stored head say nothing but
\* what was recorded; when their attestation columns are as the appends write
\* them they are all that was recorded.
LEMMA AcceptedIsRecorded ==
    ASSUME IndInv, NEW u \in Users, NEW R \in SUBSET Row, IsFiniteSet(R),
           R # {}, NEW rows \in OrderedByTime(R), Passes(rows, u)
    PROVE  /\ Content(R) \subseteq Content(EntriesOf(u))
           /\ ColumnsAsWritten(R) => Content(R) = Content(EntriesOf(u))
<1> DEFINE n == Len(rows)
           Same(d, e) == Before(d) = Before(e) /\ d.hash = e.hash /\ d.att = e.att
<1>1. /\ n \in Nat \ {0}
      /\ \A i \in 1 .. n :
            /\ rows[i] \in R
            /\ rows[i].prev = NoHash <=> i = 1
      /\ \A d \in R : \E i \in 1 .. n : rows[i] = d
  <2>1. LinksHold(rows, u)
    BY EmptySeq DEF Passes, LinksHold
  <2> QED
    BY <2>1, WalkedRows
<1>2. \A i \in 1 .. n :
         /\ Before(rows[i]) \in Hash
         /\ rows[i].hash = LinkHash(u, Before(rows[i]), rows[i].att)
         /\ Begins(rows[i].hash, head[u])
         /\ Len(rows[i].hash) = Len(head[u]) - (n - i)
  BY WalkEndsAtHead
<1> HIDE DEF n
<1>3. ASSUME NEW i \in 1 .. n, NEW e \in EntriesOf(u), Len(e.hash) = Len(rows[i].hash)
      PROVE  Same(rows[i], e)
  <2> DEFINE d == rows[i]
  <2>1. /\ d \in Row /\ Before(d) \in Hash
        /\ d.hash = LinkHash(u, Before(d), d.att)
        /\ Len(e.hash) = Len(d.hash) /\ Begins(d.hash, head[u])
    BY <1>1, <1>2, <1>3
  <2> HIDE DEF d
  <2>2. d.att \in Requests /\ d.hash \in Hash
    BY <2>1, LinkHashProperties DEF Row
  <2>3. d.hash = e.hash
    BY <2>1, <2>2, EntryFacts, BeginningsByLength
  <2>4. /\ e.prev \in Hash /\ e.att \in Requests
        /\ LinkHash(u, Before(d), d.att) = LinkHash(u, e.prev, e.att)
    BY <2>1, <2>3, EntryFacts
  <2>5. Before(d) = e.prev /\ d.att = e.att
    BY <2>1, <2>2, <2>4, LinkHashInjective
  <2>6. Before(e) = e.prev
    BY DEF Before, EntriesOf, Entry, IndInv, TypeOK
  <2> QED
    BY <2>3, <2>5, <2>6 DEF d
<1>4. \A i \in 1 .. n : Len(rows[i].hash) \in 1 .. Len(head[u])
  <2> SUFFICES ASSUME NEW i \in 1 .. n
               PROVE  Len(rows[i].hash) \in 1 .. Len(head[u])
    OBVIOUS
  <2> DEFINE d == rows[i]
  <2>1. /\ d \in Row /\ Before(d) \in Hash
        /\ d.hash = LinkHash(u, Before(d), d.att) /\ Begins(d.hash, head[u])
    BY <1>1, <1>2
  <2> HIDE DEF d
  <2>2. d.att \in Requests
    BY <2>1 DEF Row
  <2>3. Len(d.hash) = Len(Before(d)) + 1 /\ Len(Before(d)) \in Nat
    BY <2>1, <2>2, LinkHashProperties
  <2>4. Len(head[u]) \in Nat
    BY LenProperties DEF IndInv, TypeOK, Hash
  <2> QED
    BY <2>1, <2>3, <2>4 DEF Begins, d
<1>5. \A d \in R : \E e \in EntriesOf(u) : Same(d, e)
  <2> SUFFICES ASSUME NEW d \in R PROVE \E e \in EntriesOf(u) : Same(d, e)
    OBVIOUS
  <2>1. PICK i \in 1 .. n : rows[i] = d
    BY <1>1
  <2>2. PICK e \in EntriesOf(u) : Len(e.hash) = Len(rows[i].hash)
    BY <1>4 DEF IndInv, TablesInv, NoGaps
  <2> QED
    BY <1>3, <2>1, <2>2
<1>6. ASSUME ColumnsAsWritten(R), NEW e \in EntriesOf(u)
      PROVE  \E d \in R : Same(d, e)
  <2>1. 1 \in 1 .. n /\ n \in 1 .. n
    BY <1>1
  <2>2. rows[1] \in R /\ Before(rows[1]) = NoHash
    BY <2>1, <1>1, <1>6 DEF ColumnsAsWritten, Before
  <2>3. Len(rows[1].hash) = 1
    <3>1. /\ rows[1].att \in Requests
          /\ rows[1].hash = LinkHash(u, NoHash, rows[1].att)
          /\ NoHash \in Hash /\ Len(NoHash) = 0
      BY <2>1, <2>2, <1>2, EmptySeq DEF Row, NoHash, Hash
    <3> DEFINE r == rows[1].att
    <3>2. r \in Requests /\ rows[1].hash = LinkHash(u, NoHash, r)
      BY <3>1
    <3> HIDE DEF r
    <3>3. Len(LinkHash(u, NoHash, r)) = Len(NoHash) + 1
      BY <3>1, <3>2, LinkHashProperties
    <3> QED
      BY <3>1, <3>2, <3>3
  <2>4. Len(rows[1].hash) = Len(head[u]) - (n - 1) /\ Len(head[u]) \in Nat
    BY <2>1, <1>2, LenProperties DEF IndInv, TypeOK, Hash
  <2>5. n = Len(head[u])
    <3> DEFINE all == Len(head[u])
    <3>1. n \in Nat /\ all \in Nat /\ 1 = all - (n - 1)
      BY <1>1, <2>3, <2>4
    <3> HIDE DEF all
    <3>2. n = all
      BY <3>1
    <3> QED
      BY <3>2 DEF all
  <2>6. Len(e.hash) \in 1 .. n
    BY <2>5, EntryFacts
  <2> DEFINE i == Len(e.hash)
  <2>7. Len(rows[i].hash) = Len(head[u]) - (n - i)
    BY <2>6, <1>2
  <2>8. Len(rows[i].hash) = i
    BY <2>4, <2>5, <2>6, <2>7
  <2> QED
    BY <2>6, <2>8, <1>1, <1>3
<1>7. Content(R) \subseteq Content(EntriesOf(u))
  BY <1>5 DEF Content
<1>8. ASSUME ColumnsAsWritten(R)
      PROVE  Content(EntriesOf(u)) \subseteq Content(R)
  BY <1>6, <1>8 DEF Content
<1> QED
  BY <1>7, <1>8

\* Tamper evidence: whatever rows of a user the tables hold instead of those
\* that the appends left, if there are any and verify_chain finds them intact,
\* in whatever order the database returns rows of the same time, then they say
\* nothing that was not recorded; and if every attestation column is as the
\* appends write it, nothing that was recorded is missing.
THEOREM TamperEvident ==
    Spec => [](\A u \in Users : \A R \in SUBSET Row :
                  IsFiniteSet(R) /\ R # {}
                  /\ (\E rows \in OrderedByTime(R) : Passes(rows, u)) =>
                      /\ Content(R) \subseteq Content(EntriesOf(u))
                      /\ ColumnsAsWritten(R) => Content(R) = Content(EntriesOf(u)))
<1>1. IndInv => \A u \in Users : \A R \in SUBSET Row :
                  IsFiniteSet(R) /\ R # {}
                  /\ (\E rows \in OrderedByTime(R) : Passes(rows, u)) =>
                      /\ Content(R) \subseteq Content(EntriesOf(u))
                      /\ ColumnsAsWritten(R) => Content(R) = Content(EntriesOf(u))
  BY AcceptedIsRecorded
<1> QED
  BY <1>1, Invariant, PTL

\* The alterations that the runs try are sets of rows, none of them empty.
LEMMA AlterationsAreRows ==
    ASSUME IndInv, NEW u \in Users, NEW R \in Alterations(u)
    PROVE  R \in SUBSET Row /\ IsFiniteSet(R) /\ R # {}
<1>1. /\ IsFiniteSet(EntriesOf(u)) /\ EntriesOf(u) \subseteq Row
      /\ NoHash \in Hash /\ Hash \subseteq Digest
      /\ Hashes(u) \subseteq Hash
  <2>1. IsFiniteSet(EntriesOf(u)) /\ EntriesOf(u) \subseteq Entry
    BY FS_Subset DEF EntriesOf, IndInv, TypeOK, TablesInv, Finite
  <2>2. NoHash \in Hash /\ Hash \subseteq Digest
    BY DEF NoHash, Hash, Digest
  <2> QED
    BY <2>1, <2>2, EntriesAreRows DEF Hashes, Entry
<1>2. ASSUME NEW p \in Hashes(u), NEW r \in Requests, NEW e \in EntriesOf(u)
      PROVE  Inserted(u, p, r, e.at) \in Row
  <2>1. p \in Hash /\ e.at \in Nat /\ LinkHash(u, p, r) \in Hash
    BY <1>1, LinkHashProperties DEF Row
  <2> QED
    BY <2>1, <1>1 DEF Inserted, Row
<1>3. ASSUME NEW e \in EntriesOf(u), NEW p \in Hashes(u), NEW h \in Hashes(u),
             NEW r \in Requests
      PROVE  Rewritten(e, p, h, r) \in Row
  BY <1>1 DEF Rewritten, Row
<1>4. ASSUME NEW e \in EntriesOf(u), NEW d \in Hashes(u)
      PROVE  Shifted(e, d) \in Row
  BY <1>1 DEF Shifted, Row
<1>5. ASSUME NEW S \in SUBSET EntriesOf(u), NEW d \in Row, R = S \cup {d}
      PROVE  R \in SUBSET Row /\ IsFiniteSet(R) /\ R # {}
  <2>1. IsFiniteSet(S)
    BY <1>1, FS_Subset
  <2> QED
    BY <1>1, <1>5, <2>1, FS_AddElement
<1>6. CASE R \in SUBSET EntriesOf(u) /\ R # {}
  BY <1>1, <1>6, FS_Subset
<1>7. ASSUME NEW S \in SUBSET EntriesOf(u),
             \E e \in EntriesOf(u), p \in Hashes(u), r \in Requests :
                 R = S \cup {Inserted(u, p, r, e.at)}
      PROVE  R \in SUBSET Row /\ IsFiniteSet(R) /\ R # {}
  BY <1>2, <1>5, <1>7
<1>8. ASSUME NEW e \in EntriesOf(u),
             \E p \in Hashes(u), h \in Hashes(u), r \in Requests :
                 R = (EntriesOf(u) \ {e}) \cup {Rewritten(e, p, h, r)}
      PROVE  R \in SUBSET Row /\ IsFiniteSet(R) /\ R # {}
  BY <1>3, <1>5, <1>8
<1>9. ASSUME NEW e \in EntriesOf(u), NEW S \in SUBSET (EntriesOf(u) \ {e}),
             NEW d \in Hashes(u), R = S \cup {Shifted(e, d)}
      PROVE  R \in SUBSET Row /\ IsFiniteSet(R) /\ R # {}
  BY <1>4, <1>5, <1>9
<1> DEFINE E == EntriesOf(u)
           H == Hashes(u)
           Lost     == {S \in SUBSET E : S # {}}
           Added    == {E \cup {Inserted(u, p, r, e.at)} :
                           e \in E, p \in H, r \in Requests}
           Replaced == {(E \ {e}) \cup {Inserted(u, p, r, e.at)} :
                           e \in E, p \in H, r \in Requests}
           Changed  == {(E \ {e}) \cup {Rewritten(e, p, h, r)} :
                           e \in E, p \in H, h \in H, r \in Requests}
           Moved(e) == {S \cup {Shifted(e, d)} : S \in SUBSET (E \ {e}), d \in H}
<1>10. \/ R \in Lost
       \/ R \in Added
       \/ R \in Replaced
       \/ R \in Changed
       \/ R \in UNION {Moved(e) : e \in E}
  <2> HIDE DEF Lost, Added, Replaced, Changed, Moved
  <2>1. Alterations(u) = Lost \cup Added \cup Replaced \cup Changed
                           \cup UNION {Moved(e) : e \in E}
    BY DEF Alterations, Lost, Added, Replaced, Changed, Moved
  <2> QED
    BY <2>1
<1>11. CASE R \in Lost
  BY <1>6, <1>11
<1>12. CASE R \in Added
  BY <1>7, <1>12
<1>13. CASE R \in Replaced
  <2>1. PICK e \in E : \E p \in H, r \in Requests :
                          R = (E \ {e}) \cup {Inserted(u, p, r, e.at)}
    BY <1>13
  <2> QED
    BY <2>1, <1>7
<1>14. CASE R \in Changed
  <2>1. PICK e \in E : \E p \in H, h \in H, r \in Requests :
                          R = (E \ {e}) \cup {Rewritten(e, p, h, r)}
    BY <1>14
  <2> QED
    BY <2>1, <1>8
<1>15. CASE R \in UNION {Moved(e) : e \in E}
  <2>1. PICK e \in E : R \in Moved(e)
    BY <1>15
  <2>2. PICK S \in SUBSET (E \ {e}), d \in H : R = S \cup {Shifted(e, d)}
    BY <2>1
  <2> QED
    BY <2>2, <1>9
<1> QED
  <2> HIDE DEF Lost, Added, Replaced, Changed, Moved
  <2> QED
    BY <1>10, <1>11, <1>12, <1>13, <1>14, <1>15

\* Of the losses, insertions and changes that are tried at any moment an audit
\* finds every one that says what was not recorded, and every one that differs
\* from the record and leaves the attestation columns as the appends write them.
THEOREM AlterationsCorrect == Spec => []AlterationsFound
<1>1. IndInv => AlterationsFound
  BY AcceptedIsRecorded, AlterationsAreRows DEF AlterationsFound
<1> QED
  BY <1>1, Invariant, PTL

-----------------------------------------------------------------------------
(* The work that an append has left *)

Unanswered(r) == pc[r] \in {"read", "build", "append"}

\* Three steps for each attempt that is left, those of this one that were taken
\* deducted.
Remaining(r) ==
    IF Unanswered(r)
    THEN 3 * (MaxCasRetries - attempt[r])
           - (CASE pc[r] = "read" -> 0 [] pc[r] = "build" -> 1 [] OTHER -> 2)
    ELSE 0

LEMMA RemainingBounds ==
    ASSUME TypeOK, AttemptsLeft, NEW r \in Requests
    PROVE  /\ Remaining(r) \in 0 .. 3 * MaxCasRetries
           /\ Remaining(r) = 0 <=> ~ Unanswered(r)
<1>1. attempt[r] \in 0 .. MaxCasRetries /\ MaxCasRetries \in Nat
  BY RetryAssumption DEF TypeOK
<1>2. Unanswered(r) => attempt[r] < MaxCasRetries
  BY DEF AttemptsLeft, Unanswered
<1> QED
  BY <1>1, <1>2 DEF Remaining, Unanswered

\* A step is one of r, and leaves it with less to do, or does not touch it.
LEMMA RemainingStep ==
    ASSUME IndInv, IndInv', [Next]_vars, NEW r \in Requests
    PROVE  Remaining(r)' < Remaining(r) \/ UNCHANGED <<pc[r], attempt[r]>>
<1>1. /\ attempt[r] \in 0 .. MaxCasRetries /\ MaxCasRetries \in Nat
      /\ pc \in [Requests -> {"read", "build", "append", "ok", "exhausted", "error"}]
      /\ attempt \in [Requests -> 0 .. MaxCasRetries]
  BY RetryAssumption DEF IndInv, TypeOK
<1>2. /\ Unanswered(r) => attempt[r] < MaxCasRetries
      /\ Unanswered(r) => Remaining(r) > 0
      /\ Remaining(r) \in Nat
  BY RemainingBounds, <1>1 DEF IndInv, RequestsInv, AttemptsLeft, Unanswered
<1>3. ASSUME ~ Unanswered(r)', Unanswered(r) PROVE Remaining(r)' < Remaining(r)
  BY <1>2, <1>3 DEF Remaining
<1>4. CASE GetHead(r)
  BY <1>1, <1>2, <1>4 DEF GetHead, Remaining, Unanswered
<1>5. CASE BuildEntry(r)
  BY <1>1, <1>2, <1>5 DEF BuildEntry, Remaining, Unanswered
<1>6. CASE Commit(r)
  BY <1>1, <1>3, <1>6 DEF Commit, AfterCommit, Unanswered
<1>7. CASE Stale(r)
  <2>1. pc[r] = "append" /\ attempt'[r] = attempt[r] + 1
    BY <1>1, <1>7 DEF Stale
  <2>2. CASE pc'[r] = "read"
    BY <1>1, <1>2, <2>1, <2>2 DEF Remaining, Unanswered
  <2>3. CASE pc'[r] = "exhausted"
    BY <1>3, <2>1, <2>3 DEF Unanswered
  <2> QED
    BY <1>1, <1>7, <2>2, <2>3 DEF Stale
<1>8. CASE StorageError(r)
  BY <1>1, <1>3, <1>8 DEF StorageError, Unanswered
<1>9. ASSUME NEW q \in Requests, q # r, AppendStep(q) \/ StorageError(q)
      PROVE  UNCHANGED <<pc[r], attempt[r]>>
  BY <1>1, <1>9 DEF AppendStep, GetHead, BuildEntry, Commit, Stale, StorageError
<1>10. CASE UNCHANGED <<pc, attempt>>
  BY <1>10
<1> QED
  BY <1>4, <1>5, <1>6, <1>7, <1>8, <1>9, <1>10
     DEF Next, AppendStep, AuditRows, AuditHead, vars

\* The retry loop ends: of an append that is not answered there is something
\* left to do, every step of it leaves less, no step of another request or of an
\* audit adds to it, and at most three steps per attempt are left.
THEOREM RetriesEnd ==
    Spec => /\ [](\A r \in Requests :
                     /\ Remaining(r) \in 0 .. 3 * MaxCasRetries
                     /\ Remaining(r) = 0 <=> ~ Unanswered(r))
            /\ [][\A r \in Requests :
                     Remaining(r)' < Remaining(r) \/ UNCHANGED <<pc[r], attempt[r]>>]_vars
<1>1. IndInv => \A r \in Requests :
                   /\ Remaining(r) \in 0 .. 3 * MaxCasRetries
                   /\ Remaining(r) = 0 <=> ~ Unanswered(r)
  BY RemainingBounds DEF IndInv, RequestsInv
<1>2. IndInv /\ IndInv' /\ [Next]_vars =>
         [\A r \in Requests :
             Remaining(r)' < Remaining(r) \/ UNCHANGED <<pc[r], attempt[r]>>]_vars
  BY RemainingStep
<1> QED
  BY <1>1, <1>2, Invariant, PTL DEF Spec

\* The unique index on entry_hash never refuses an append: it commits, or its
\* head is stale and it tries again, so a request that has built an entry can
\* always go on.
THEOREM IndexNeverRefuses ==
    Spec => [](\A r \in Requests : pc[r] = "append" =>
                  \A e \in entries : e.hash # Built(r).hash)
<1>1. ASSUME IndInv, NEW r \in Requests, pc[r] = "append", NEW e \in entries
      PROVE  e.hash # Built(r).hash
  <2>1. /\ e.user \in Users /\ e.prev \in Hash /\ e.att \in Requests
        /\ e.hash = LinkHash(e.user, e.prev, e.att)
        /\ seen[r] \in Hash /\ Owner[r] \in Users
    BY <1>1, OwnerAssumption DEF IndInv, TypeOK, Entry, TablesInv, HashesComputed
  <2>2. e.att # r
    BY <1>1 DEF IndInv, RequestsInv, RecordedWhenDone
  <2>3. SUFFICES ASSUME LinkHash(e.user, e.prev, e.att)
                          = LinkHash(Owner[r], seen[r], r)
                 PROVE  FALSE
    BY <2>1, AppendedHash DEF Built
  <2>4. /\ Len(LinkHash(e.user, e.prev, e.att)) = Len(e.prev) + 1
        /\ LinkHash(e.user, e.prev, e.att)[Len(e.prev) + 1] = <<e.user, e.att>>
        /\ Len(e.prev) \in Nat
    BY <2>1, LinkHashProperties
  <2>5. /\ Len(LinkHash(Owner[r], seen[r], r)) = Len(seen[r]) + 1
        /\ LinkHash(Owner[r], seen[r], r)[Len(seen[r]) + 1] = <<Owner[r], r>>
        /\ Len(seen[r]) \in Nat
    BY <2>1, LinkHashProperties
  <2>6. Len(e.prev) = Len(seen[r])
    BY <2>3, <2>4, <2>5
  <2> QED
    BY <2>2, <2>3, <2>4, <2>5, <2>6
<1>2. IndInv => \A r \in Requests : pc[r] = "append" =>
                   \A e \in entries : e.hash # Built(r).hash
  BY <1>1
<1> QED
  BY <1>2, Invariant, PTL

-----------------------------------------------------------------------------
(* The journal implements the append-only log *)

LEMMA LogOfProperties ==
    ASSUME NEW u \in Users, head[u] \in Hash
    PROVE  /\ LogOf(u) \in Seq(Requests)
           /\ Len(LogOf(u)) = Len(head[u])
           /\ \A i \in 1 .. Len(head[u]) : LogOf(u)[i] = head[u][i][2]
<1>1. Len(head[u]) \in Nat
  BY LenProperties DEF Hash
<1>2. \A i \in 1 .. Len(head[u]) : head[u][i][2] \in Requests
  BY ElementOfSeq DEF Hash
<1> QED
  BY <1>1, <1>2 DEF LogOf

\* Only recorded requests are in the log.
LEMMA LoggedIsRecorded ==
    ASSUME IndInv, NEW u \in Users, NEW i \in 1 .. Len(head[u])
    PROVE  \E e \in entries : e.att = head[u][i][2]
<1>1. PICK e \in EntriesOf(u) : Len(e.hash) = i
  BY DEF IndInv, TablesInv, NoGaps
<1>2. /\ e \in entries
      /\ e.prev \in Hash /\ e.att \in Requests
      /\ e.hash = LinkHash(u, e.prev, e.att)
      /\ Begins(e.hash, head[u])
      /\ head[u] \in Hash
  BY DEF EntriesOf, IndInv, TypeOK, Entry, TablesInv, HashesComputed, OnTheChain
<1>3. head[u][Len(e.prev) + 1] = <<u, e.att>>
  BY <1>2, PreviousBegins
<1>4. Len(e.hash) = Len(e.prev) + 1
  BY <1>2, LinkHashProperties
<1> QED
  BY <1>1, <1>2, <1>3, <1>4

LEMMA CommitIsRecord ==
    ASSUME IndInv, NEW r \in Requests, Commit(r)
    PROVE  Log!Record(Owner[r], r)
<1> DEFINE o == Owner[r]
<1>1. /\ o \in Users
      /\ head \in [Users -> Hash]
      /\ LinkHash(o, head[o], r) \in Hash
      /\ head' = [head EXCEPT ![o] = LinkHash(o, head[o], r)]
  BY CommittedEntry DEF Commit, IndInv, TypeOK
<1>2. \A e \in entries : e.att # r
  BY DEF IndInv, RequestsInv, RecordedWhenDone, Commit
<1>3. ~ Log!Recorded(r)
  <2> SUFFICES ASSUME NEW u \in Users, NEW i \in DOMAIN LogOf(u), LogOf(u)[i] = r
               PROVE  FALSE
    BY DEF Log!Recorded
  <2>1. i \in 1 .. Len(head[u]) /\ head[u][i][2] = r
    BY DEF LogOf
  <2> QED
    BY <2>1, <1>2, LoggedIsRecorded
<1>4. LogOf(o)' = Append(LogOf(o), r)
  <2>1. head'[o] = LinkHash(o, head[o], r) /\ head'[o] \in Hash
    BY <1>1
  <2>2. /\ Len(head'[o]) = Len(head[o]) + 1
        /\ \A i \in 1 .. Len(head[o]) : head'[o][i] = head[o][i]
        /\ head'[o][Len(head[o]) + 1] = <<o, r>>
        /\ Len(head[o]) \in Nat
    <3> DEFINE h == head[o]
               new == LinkHash(o, h, r)
    <3>1. h \in Hash
      BY <1>1
    <3>2. /\ Len(new) = Len(h) + 1
          /\ \A i \in 1 .. Len(h) : new[i] = h[i]
          /\ new[Len(h) + 1] = <<o, r>>
          /\ Len(h) \in Nat
      BY <3>1, <1>1, LinkHashProperties
    <3> QED
      BY <3>2, <2>1
  <2>3. /\ LogOf(o) \in Seq(Requests)
        /\ Len(LogOf(o)) = Len(head[o])
        /\ \A i \in 1 .. Len(head[o]) : LogOf(o)[i] = head[o][i][2]
    BY <1>1, LogOfProperties
  <2>4. /\ LogOf(o)' \in Seq(Requests)
        /\ Len(LogOf(o)') = Len(head[o]) + 1
        /\ \A i \in 1 .. Len(head[o]) + 1 : LogOf(o)'[i] = head'[o][i][2]
    <3>1. \A i \in 1 .. Len(head'[o]) : head'[o][i][2] \in Requests
      BY <2>1, ElementOfSeq DEF Hash
    <3> QED
      BY <3>1, <2>2 DEF LogOf
  <2>5. /\ Append(LogOf(o), r) \in Seq(Requests)
        /\ Len(Append(LogOf(o), r)) = Len(head[o]) + 1
        /\ \A i \in 1 .. Len(head[o]) : Append(LogOf(o), r)[i] = head[o][i][2]
        /\ Append(LogOf(o), r)[Len(head[o]) + 1] = r
    BY <2>3, AppendProperties
  <2>6. \A i \in 1 .. Len(head[o]) + 1 : LogOf(o)'[i] = Append(LogOf(o), r)[i]
    BY <2>2, <2>4, <2>5
  <2> QED
    BY <2>4, <2>5, <2>6, SeqEqual
<1>5. \A u \in Users : u # o => LogOf(u)' = LogOf(u)
  BY <1>1 DEF LogOf
<1> QED
  BY <1>1, <1>3, <1>4, <1>5 DEF Log!Record

\* Every behaviour of the journal is one of the append-only log in which each
\* verification is recorded at most once.
THEOREM ImplementsAuditLog == Spec => IsAuditLog
<1>1. Init => Log!Init
  <2> SUFFICES ASSUME Init, NEW u \in Users PROVE LogOf(u) = << >>
    BY DEF Log!Init
  <2>1. head[u] = << >> /\ head[u] \in Hash
    BY EmptySeq DEF Init, NoHash, Hash
  <2> QED
    BY <2>1, LogOfProperties, EmptySeq
<1>2. IndInv /\ [Next]_vars => [Log!Next]_[u \in Users |-> LogOf(u)]
  <2> SUFFICES ASSUME IndInv, [Next]_vars
               PROVE  [Log!Next]_[u \in Users |-> LogOf(u)]
    OBVIOUS
  <2>1. ASSUME NEW r \in Requests, Commit(r) PROVE Log!Next
    <3>1. Log!Record(Owner[r], r) /\ Owner[r] \in Users
      BY <2>1, CommitIsRecord, OwnerAssumption
    <3> QED
      BY <3>1 DEF Log!Next
  <2>2. ASSUME UNCHANGED head
        PROVE  [u \in Users |-> LogOf(u)]' = [u \in Users |-> LogOf(u)]
    BY <2>2 DEF LogOf
  <2>3. UNCHANGED head \/ \E r \in Requests : Commit(r)
    BY DEF Next, AppendStep, GetHead, BuildEntry, Stale, StorageError,
       AuditRows, AuditHead, vars
  <2> QED
    BY <2>1, <2>2, <2>3
<1> QED
  BY <1>1, <1>2, Invariant, PTL DEF Spec, IsAuditLog, Log!Spec
=============================================================================
