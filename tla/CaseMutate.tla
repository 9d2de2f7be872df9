----------------------------- MODULE CaseMutate -----------------------------
(***************************************************************************)
(* The write path every change of a case goes through: Case.mutate, with   *)
(* the idempotency records its callers keep in the same transaction        *)
(* (src/forensic/catalog.go), and the auditor that reads what it wrote     *)
(* (Case.Verify, src/forensic/verify.go).                                  *)
(*                                                                         *)
(* A call is one invocation of mutate.  A client that retries makes        *)
(* another call with the same key.  Calls run in several goroutines and    *)
(* processes over one SQLite database; _txlock=immediate makes a write     *)
(* transaction take the write lock when it begins.                         *)
(*                                                                         *)
(* An event's hash covers its sequence, the previous hash and a body that  *)
(* no other call has (random IDs, the time): it is named by its call.      *)
(***************************************************************************)
EXTENDS Integers, Sequences

CONSTANTS Calls, Keys, Fingerprints,
          NoCall,        \* nobody; as a hash, the one of the creation event
          NoKey, NoRequest,
          MaxAttempts    \* 4 in the code

ASSUME MutateAssumption ==
    /\ NoCall \notin Calls /\ NoKey \notin Keys
    /\ MaxAttempts \in Nat \ {0}

VARIABLES
    \* The database.
    revision,    \* case_info.revision
    head,        \* case_info.audit_head
    events,      \* audit_events (and revisions, written beside it)
    stored,      \* idempotency_keys: the call that recorded each key
    lock,        \* the call whose transaction holds the write lock
    \* The calls.
    pc, request,
    attempt,     \* the loop variable
    seen,        \* SELECT revision,audit_head at the start of its transaction
    answer,      \* what the call returned
    result,      \* the call whose result was returned, with answer "ok"
    \* One run of Verify at a time.
    verifyPc, rows, from, issues

database == <<revision, head, events, stored, lock>>
callers == <<pc, request, attempt, seen, answer, result>>
verifier == <<verifyPc, rows, from, issues>>
vars == <<database, callers, verifier>>

Hashes == Calls \cup {NoCall}
Events == [sequence : Nat, previous : Hashes, hash : Hashes]
Requests == [key : Keys \cup {NoKey}, fingerprint : Fingerprints]
CallPcs == {"idle", "begin", "applying", "backoff", "committed", "returned", "dead"}
InFlight == {"begin", "applying", "backoff", "committed"}
Answers == {"none", "ok", "conflict", "busy", "error"}
IssueCodes == {"audit-order", "audit-head", "audit-revision"}

\* The call that wrote the event with this sequence number.
Writer(i) == events[i].hash
Logged(c) == \E i \in 2..Len(events) : Writer(i) = c

TypeOK ==
    /\ revision \in Nat
    /\ head \in Hashes
    /\ events \in Seq(Events)
    /\ stored \in [Keys -> Calls \cup {NoCall}]
    /\ lock \in Calls \cup {NoCall}
    /\ pc \in [Calls -> CallPcs]
    /\ request \in [Calls -> Requests \cup {NoRequest}]
    /\ attempt \in [Calls -> 0..(MaxAttempts - 1)]
    /\ seen \in [Calls -> [revision : Nat, head : Hashes]]
    /\ answer \in [Calls -> Answers]
    /\ result \in [Calls -> Calls \cup {NoCall}]
    /\ verifyPc \in {"idle", "info", "rows", "reported"}
    /\ rows \in Seq(Events) /\ from \in Nat /\ issues \subseteq IssueCodes

\* initializeCase: the event of the case's creation.
Creation == [sequence |-> 1, previous |-> NoCall, hash |-> NoCall]
Unseen == [revision |-> 0, head |-> NoCall]

Init ==
    /\ revision = 1 /\ head = NoCall /\ events = <<Creation>>
    /\ stored = [k \in Keys |-> NoCall]
    /\ lock = NoCall
    /\ pc = [c \in Calls |-> "idle"]
    /\ request = [c \in Calls |-> NoRequest]
    /\ attempt = [c \in Calls |-> 0]
    /\ seen = [c \in Calls |-> Unseen]
    /\ answer = [c \in Calls |-> "none"]
    /\ result = [c \in Calls |-> NoCall]
    /\ verifyPc = "idle" /\ rows = <<>> /\ from = 0 /\ issues = {}
----------------------------------------------------------------------------
\* Case.mutate.

Start(c, r) ==
    /\ pc[c] = "idle"
    /\ pc' = [pc EXCEPT ![c] = "begin"]
    /\ request' = [request EXCEPT ![c] = r]
    /\ UNCHANGED <<database, attempt, seen, answer, result, verifier>>

\* BEGIN IMMEDIATE; a deferred one would let two transactions read one head.
CanBegin_Deferred(c) == TRUE

CanBegin(c) == lock = NoCall

Begin(c) ==
    /\ pc[c] = "begin"
    /\ CanBegin(c)
    /\ lock' = c
    /\ seen' = [seen EXCEPT ![c] = [revision |-> revision, head |-> head]]
    /\ pc' = [pc EXCEPT ![c] = "applying"]
    /\ UNCHANGED <<revision, head, events, stored, request, attempt, answer, result, verifier>>

\* The transaction of c, if it has one, is rolled back or committed.
Unlocked(c) == IF lock = c THEN NoCall ELSE lock

EndTransaction(c) ==
    /\ lock' = Unlocked(c)
    /\ seen' = [seen EXCEPT ![c] = Unseen]

Leave(c, a, d) ==
    /\ pc' = [pc EXCEPT ![c] = "returned"]
    /\ attempt' = [attempt EXCEPT ![c] = 0]
    /\ answer' = [answer EXCEPT ![c] = a]
    /\ result' = [result EXCEPT ![c] = d]

\* The loop of four attempts ends with the last error, ErrBusy.
Tried_Uncounted(c) == attempt[c]

Tried(c) == attempt[c] + 1

MoreAttempts(c) == Tried(c) < MaxAttempts

Retry(c, again) ==
    /\ IF MoreAttempts(c)
       THEN /\ attempt' = [attempt EXCEPT ![c] = Tried(c)]
            /\ pc' = [pc EXCEPT ![c] = again]
            /\ UNCHANGED <<answer, result>>
       ELSE Leave(c, "busy", NoCall)

\* busy_timeout has passed; the next attempt follows at once.
BeginBusy(c) ==
    /\ pc[c] = "begin"
    /\ lock \notin {NoCall, c}
    /\ Retry(c, "begin")
    /\ UNCHANGED <<database, request, seen, verifier>>

\* lookupIdempotency.
Prior_NotLooked(c) == NoCall

Prior(c) == IF request[c].key \in Keys THEN stored[request[c].key] ELSE NoCall

SameRequest_Unchecked(c) == TRUE

SameRequest(c) == request[Prior(c)].fingerprint = request[c].fingerprint

\* errIdempotentReplay rolls back and is a success.
Replay(c) ==
    /\ pc[c] = "applying"
    /\ Prior(c) # NoCall
    /\ SameRequest(c)
    /\ EndTransaction(c)
    /\ Leave(c, "ok", Prior(c))
    /\ UNCHANGED <<revision, head, events, stored, request, verifier>>

KeyConflict(c) ==
    /\ pc[c] = "applying"
    /\ Prior(c) # NoCall
    /\ ~SameRequest(c)
    /\ EndTransaction(c)
    /\ Leave(c, "conflict", NoCall)
    /\ UNCHANGED <<revision, head, events, stored, request, verifier>>

\* storeIdempotency, in the transaction of the effect it stands for.
StoredBy_Never(c) == stored

StoredBy(c) ==
    IF request[c].key \in Keys THEN [stored EXCEPT ![request[c].key] = c] ELSE stored

\* The domain rows, the key, the revision, the event and the head, together.
Commit(c) ==
    /\ pc[c] = "applying"
    /\ Prior(c) = NoCall
    /\ stored' = StoredBy(c)
    /\ events' = Append(events, [sequence |-> seen[c].revision + 1,
                                 previous |-> seen[c].head, hash |-> c])
    /\ revision' = seen[c].revision + 1
    /\ head' = c
    /\ EndTransaction(c)
    /\ pc' = [pc EXCEPT ![c] = "committed"]
    /\ UNCHANGED <<request, attempt, answer, result, verifier>>

CommitBusy(c) ==
    /\ pc[c] = "applying"
    /\ Prior(c) = NoCall
    /\ EndTransaction(c)
    /\ Retry(c, "backoff")
    /\ UNCHANGED <<revision, head, events, stored, request, verifier>>

Backoff(c) ==
    /\ pc[c] = "backoff"
    /\ pc' = [pc EXCEPT ![c] = "begin"]
    /\ UNCHANGED <<database, request, attempt, seen, answer, result, verifier>>

\* A cancelled context, a constraint or a check that fails, an I/O error, the
\* fault before the commit: rolled back, and not tried again.
Fail(c) ==
    /\ pc[c] \in {"begin", "applying", "backoff"}
    /\ EndTransaction(c)
    /\ Leave(c, "error", NoCall)
    /\ UNCHANGED <<revision, head, events, stored, request, verifier>>

\* The fault after the commit is the one failure that leaves an effect.
Return(c) ==
    /\ pc[c] = "committed"
    /\ Leave(c, "ok", c) \/ Leave(c, "error", NoCall)
    /\ UNCHANGED <<database, request, seen, verifier>>

\* The process dies; SQLite discards its open transaction.
Crash(c) ==
    /\ pc[c] \in InFlight
    /\ pc' = [pc EXCEPT ![c] = "dead"]
    /\ EndTransaction(c)
    /\ attempt' = [attempt EXCEPT ![c] = 0]
    /\ UNCHANGED <<revision, head, events, stored, request, answer, result, verifier>>
----------------------------------------------------------------------------
\* Case.Verify, its audit part: statements of their own, in no transaction.

OutOfOrder_FromZero(log, i) ==
    \/ log[i].sequence # i - 1
    \/ log[i].previous # IF i = 1 THEN NoCall ELSE log[i - 1].hash

\* An event is out of order, or does not link to the one before.
OutOfOrder(log, i) ==
    \/ log[i].sequence # i
    \/ log[i].previous # IF i = 1 THEN NoCall ELSE log[i - 1].hash

LastHash(log) == IF log = <<>> THEN NoCall ELSE log[Len(log)].hash

AuditIssues(log, h, rev) ==
    (IF \E i \in 1..Len(log) : OutOfOrder(log, i) THEN {"audit-order"} ELSE {})
    \cup (IF h # LastHash(log) THEN {"audit-head"} ELSE {})
    \cup (IF rev # Len(log) THEN {"audit-revision"} ELSE {})

\* Case.Info, for VerifyReport.Revision.
VerifyInfo ==
    /\ verifyPc = "idle"
    /\ verifyPc' = "info"
    /\ from' = revision
    /\ UNCHANGED <<database, callers, rows, issues>>

\* SELECT ... FROM audit_events ORDER BY sequence.
VerifyRows ==
    /\ verifyPc = "info"
    /\ verifyPc' = "rows"
    /\ rows' = events
    /\ UNCHANGED <<database, callers, from, issues>>

\* SELECT audit_head,revision FROM case_info.
VerifyHead ==
    /\ verifyPc = "rows"
    /\ verifyPc' = "reported"
    /\ issues' = AuditIssues(rows, head, revision)
    /\ UNCHANGED <<database, callers, rows, from>>

VerifyAgain ==
    /\ verifyPc = "reported"
    /\ verifyPc' = "idle"
    /\ rows' = <<>> /\ from' = 0 /\ issues' = {}
    /\ UNCHANGED <<database, callers>>
----------------------------------------------------------------------------
Step(c) ==
    \/ Begin(c) \/ BeginBusy(c) \/ Replay(c) \/ KeyConflict(c) \/ Commit(c)
    \/ CommitBusy(c) \/ Backoff(c) \/ Fail(c) \/ Return(c)

Next ==
    \/ \E c \in Calls : Step(c) \/ Crash(c) \/ \E r \in Requests : Start(c, r)
    \/ VerifyInfo \/ VerifyRows \/ VerifyHead \/ VerifyAgain

Spec == Init /\ [][Next]_vars

\* A call that has begun goes on: its goroutine is scheduled, SQLite answers, and
\* contexts, timeouts and backoffs end.
Fairness == \A c \in Calls : WF_vars(Step(c))

FairSpec == Spec /\ Fairness
----------------------------------------------------------------------------
(* Properties. *)

\* At every moment the catalog is one an auditor would pass: the events are
\* numbered without a gap and each links to the one before, the head is the last
\* one's hash and the revision its number, whatever calls raced, retried or died.
AuditIntact == AuditIssues(events, head, revision) = {}

\* A key is on record exactly when the effect it stands for is: neither a crash
\* nor a failed commit separates them.
KeyWithEffect ==
    /\ \A k \in Keys : stored[k] # NoCall =>
           Logged(stored[k]) /\ request[stored[k]].key = k
    /\ \A c \in Calls : Logged(c) /\ request[c].key \in Keys => stored[request[c].key] = c

\* A call takes effect at most once though mutate may attempt it four times, and
\* so does a key though its client may retry it in many calls; its effect and its
\* record come together.
OneEffectPerKey ==
    /\ \A i, j \in 2..Len(events) : i # j =>
           /\ Writer(i) # Writer(j)
           /\ request[Writer(i)].key \in Keys =>
                  request[Writer(i)].key # request[Writer(j)].key
    /\ KeyWithEffect

\* A success names an effect of the same request, and the failures mutate
\* decides itself (a conflicting key, four busy attempts) left none.
AnswersAreTrue ==
    \A c \in Calls :
        /\ answer[c] = "ok" =>
               /\ Logged(result[c])
               /\ request[result[c]].fingerprint = request[c].fingerprint
        /\ answer[c] \in {"conflict", "busy"} => ~Logged(c)

\* Verify accepts an intact catalog if nothing was committed while it ran.
QuietVerifyIsClean == [][VerifyHead /\ from = revision => issues' = {}]_vars

\* Every call ends, although every attempt of it may be refused, and no path out
\* of it, replay, conflict, failure or death, keeps the write lock.
CallsEnd == \A c \in Calls : pc[c] \in InFlight ~> pc[c] \notin InFlight /\ lock # c

Log == [i \in 1..(Len(events) - 1) |->
           [call |-> Writer(i + 1), key |-> request[Writer(i + 1)].key]]

Told == {t \in Calls \X Calls : answer[t[1]] = "ok" /\ result[t[1]] = t[2]}

A == INSTANCE AuditedLog WITH log <- Log, told <- Told

\* Every call takes effect, if at all, in one atomic step, its commit; and its
\* caller is told of an effect that is there.
ImplementsAuditedLog == A!LogSpec

\* The same without the order of the log: whose request an effect was.
Effect(d) == [call |-> d, key |-> request[d].key, asked |-> request[d].fingerprint]
Effective == {d \in Calls : Logged(d)}
Answered == {c \in Calls : answer[c] = "ok"}
AnswerTo(c) ==
    <<c, [call |-> result[c], key |-> request[c].key, asked |-> request[c].fingerprint]>>

Effects == {Effect(d) : d \in Effective}
AnswersTold == {AnswerTo(c) : c \in Answered}

K == INSTANCE KeyedEffects WITH effects <- Effects, told <- AnswersTold

\* Four attempts of each of several calls with one key have one effect, and only those
\* that asked for the same are told of it.
ImplementsKeyedEffects == K!KeyedSpec
=============================================================================
