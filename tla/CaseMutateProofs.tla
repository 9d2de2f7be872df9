-------------------------- MODULE CaseMutateProofs --------------------------
(***************************************************************************)
(* Proofs about module CaseMutate, for every set of calls, keys and        *)
(* requests and every number of attempts: its invariants, and that it      *)
(* implements modules AuditedLog and KeyedEffects; and that the head of    *)
(* the chain pins all of it.                                               *)
(*                                                                         *)
(* What makes mutate right is LockOK: a transaction that is open has read  *)
(* the revision and the head that are there when it commits.  LogOK then   *)
(* keeps the chain, and CallsOK and WrittenOnce say that a call that may   *)
(* still be attempted has not been committed.                              *)
(***************************************************************************)
EXTENDS CaseMutate, SequenceTheorems, WellFoundedInduction, TLAPS

\* The chain, position by position.
LogOK ==
    /\ Len(events) >= 1 /\ events[1] = Creation
    /\ \A i \in 1..Len(events) : events[i].sequence = i
    /\ \A i \in 2..Len(events) : events[i].previous = events[i - 1].hash
    /\ \A i \in 2..Len(events) : events[i].hash \in Calls
    /\ head = events[Len(events)].hash
    /\ revision = Len(events)

\* The holder of the write lock has read what it will overwrite.
LockOK ==
    \A c \in Calls :
        /\ lock = c <=> pc[c] = "applying"
        /\ lock = c => seen[c].revision = revision /\ seen[c].head = head

\* A call that may still be attempted is not in the log, and has not answered.
CallsOK ==
    \A c \in Calls :
        /\ pc[c] # "idle" => request[c] \in Requests
        /\ Logged(c) => pc[c] \in {"committed", "returned", "dead"}
        /\ pc[c] = "committed" => Logged(c)
        /\ answer[c] # "none" => pc[c] = "returned"

WrittenOnce ==
    \A i, j \in 2..Len(events) : Writer(i) = Writer(j) => i = j

\* A success by another call's effect is one by the same key.
ToldByKey ==
    \A c \in Calls : answer[c] = "ok" =>
        \/ result[c] = c
        \/ request[c].key \in Keys /\ request[result[c]].key = request[c].key

\* Verify has read a prefix of the log.
ReaderOK ==
    /\ verifyPc = "info" => from <= revision
    /\ verifyPc = "rows" =>
           /\ from <= Len(rows) /\ Len(rows) <= Len(events)
           /\ \A i \in 1..Len(rows) : rows[i] = events[i]

IInv ==
    /\ TypeOK /\ LogOK /\ LockOK /\ CallsOK /\ WrittenOnce
    /\ KeyWithEffect /\ AnswersAreTrue /\ ToldByKey /\ ReaderOK
----------------------------------------------------------------------------
USE MutateAssumption DEF Hashes, InFlight

\* Only a commit writes the log and what goes with it.
LEMMA LogCases ==
    ASSUME [Next]_vars
    PROVE  (\E c \in Calls : Commit(c)) \/ UNCHANGED <<revision, head, events, stored>>
  BY DEF Next, Step, Start, Begin, BeginBusy, Replay, KeyConflict, CommitBusy, Backoff,
         Fail, Return, Crash, VerifyInfo, VerifyRows, VerifyHead, VerifyAgain, vars,
         database

\* What a commit appends.
LEMMA Appended ==
    ASSUME TypeOK, NEW c \in Calls, Commit(c)
    PROVE  /\ events' \in Seq(Events)
           /\ Len(events') = Len(events) + 1
           /\ \A i \in 1..Len(events) : events'[i] = events[i]
           /\ events'[Len(events) + 1] =
                  [sequence |-> seen[c].revision + 1, previous |-> seen[c].head, hash |-> c]
<1> DEFINE event == [sequence |-> seen[c].revision + 1, previous |-> seen[c].head, hash |-> c]
<1>1. event \in Events /\ events \in Seq(Events)
  BY DEF TypeOK, Events
<1>2. events' = Append(events, event)
  BY DEF Commit
<1> HIDE DEF event
<1>3. /\ events' \in Seq(Events) /\ Len(events') = Len(events) + 1
      /\ \A i \in 1..Len(events) : events'[i] = events[i]
      /\ events'[Len(events) + 1] = event
  BY <1>1, <1>2, AppendProperties
<1>. QED
  BY <1>3 DEF event

\* The log is a sequence of events.
LEMMA LogTypes ==
    ASSUME TypeOK
    PROVE  /\ Len(events) \in Nat
           /\ \A i \in 1..Len(events) : events[i] \in Events
  BY LenProperties, ElementOfSeq DEF TypeOK

\* A commit logs its own call, and no other.
LEMMA LoggedByCommit ==
    ASSUME TypeOK, LogOK, NEW c \in Calls, Commit(c)
    PROVE  \A d : Logged(d)' <=> Logged(d) \/ d = c
<1>1. Len(events) \in Nat /\ Len(events) >= 1
  BY LogTypes DEF LogOK
<1> DEFINE event == [sequence |-> seen[c].revision + 1, previous |-> seen[c].head, hash |-> c]
<1>0. /\ Len(events') = Len(events) + 1
      /\ \A i \in 1..Len(events) : events'[i] = events[i]
      /\ events'[Len(events) + 1] = event
  BY Appended, Zenon
<1>. event.hash = c
  OBVIOUS
<1> HIDE DEF event
<1>2. /\ Len(events') = Len(events) + 1
      /\ \A i \in 1..Len(events) : events'[i] = events[i]
      /\ events'[Len(events) + 1].hash = c
  BY <1>0, Zenon
<1>3. \A i \in 2..Len(events') : i \in 2..Len(events) \/ i = Len(events) + 1
  BY <1>1, <1>2
<1>4. \A i \in 2..Len(events) : i \in 2..Len(events') /\ events'[i] = events[i]
  BY <1>1, <1>2
<1>5. Len(events) + 1 \in 2..Len(events')
  BY <1>1, <1>2
<1>6. ASSUME NEW d, Logged(d)' PROVE Logged(d) \/ d = c
  <2>1. PICK i \in 2..Len(events') : events'[i].hash = d
    BY <1>6, Zenon DEF Logged, Writer
  <2>. QED
    BY <2>1, <1>2, <1>3, <1>4, Zenon DEF Logged, Writer
<1>7. ASSUME NEW d, Logged(d) PROVE Logged(d)'
  <2>1. PICK i \in 2..Len(events) : events[i].hash = d
    BY <1>7, Zenon DEF Logged, Writer
  <2>2. i \in 2..Len(events') /\ events'[i].hash = d
    BY <2>1, <1>4, Zenon
  <2>. QED
    BY <2>2, Zenon DEF Logged, Writer
<1>8. Logged(c)'
  BY <1>2, <1>5, Zenon DEF Logged, Writer
<1>. QED
  BY <1>6, <1>7, <1>8, Zenon

\* No other step logs a call.
LEMMA LoggedUnchanged ==
    ASSUME UNCHANGED events
    PROVE  \A d : Logged(d)' <=> Logged(d)
  BY DEF Logged, Writer
----------------------------------------------------------------------------
(* Each part of the invariant, action by action. *)

\* What returning and retrying write.
CallTypes ==
    /\ pc \in [Calls -> CallPcs]
    /\ attempt \in [Calls -> 0..(MaxAttempts - 1)]
    /\ answer \in [Calls -> Answers]
    /\ result \in [Calls -> Calls \cup {NoCall}]

\* A call that returns keeps the types.
LEMMA LeaveTypes ==
    ASSUME CallTypes, NEW c \in Calls, NEW a \in Answers, NEW d \in Calls \cup {NoCall},
           Leave(c, a, d)
    PROVE  CallTypes'
<1>1. 0 \in 0..(MaxAttempts - 1)
  OBVIOUS
<1>2. "returned" \in CallPcs
  BY DEF CallPcs
<1>. QED
  BY <1>1, <1>2 DEF CallTypes, Leave

\* An attempt past the last is never counted.
LEMMA RetryTypes ==
    ASSUME CallTypes, NEW c \in Calls, NEW again \in CallPcs, Retry(c, again)
    PROVE  CallTypes'
<1>1. CASE MoreAttempts(c)
  <2>1. Tried(c) \in 0..(MaxAttempts - 1)
    BY <1>1 DEF MoreAttempts, Tried, CallTypes
  <2>. QED
    BY <1>1, <2>1 DEF Retry, CallTypes
<1>2. CASE ~MoreAttempts(c)
  <2>1. "busy" \in Answers
    BY DEF Answers
  <2>. QED
    BY <1>2, <2>1, LeaveTypes DEF Retry
<1>. QED
  BY <1>1, <1>2

\* Every variable keeps its type.
LEMMA TypeStep ==
    ASSUME TypeOK, [Next]_vars
    PROVE  TypeOK'
<1>1. ASSUME NEW c \in Calls, NEW r \in Requests, Start(c, r) PROVE TypeOK'
  BY <1>1 DEF Start, TypeOK, Requests, Answers, CallPcs, Unseen, database, verifier
<1>2. ASSUME NEW c \in Calls, Begin(c) PROVE TypeOK'
  BY <1>2 DEF Begin, TypeOK, Requests, Answers, CallPcs, Unseen, CanBegin, verifier
<1>3. ASSUME NEW c \in Calls, BeginBusy(c) PROVE TypeOK'
  <2>1. CallTypes'
    BY <1>3, RetryTypes DEF BeginBusy, TypeOK, CallTypes, CallPcs
  <2>. QED
    BY <1>3, <2>1 DEF BeginBusy, TypeOK, CallTypes, Unseen, database, verifier
<1>4. ASSUME NEW c \in Calls, Replay(c) PROVE TypeOK'
  <2>0. Prior(c) \in Calls \cup {NoCall}
    BY DEF Prior, TypeOK
  <2>1. CallTypes'
    BY <1>4, <2>0, LeaveTypes DEF Replay, TypeOK, CallTypes, Answers
  <2>. QED
    BY <1>4, <2>1
       DEF Replay, TypeOK, CallTypes, Unseen, EndTransaction, Unlocked, verifier
<1>5. ASSUME NEW c \in Calls, KeyConflict(c) PROVE TypeOK'
  <2>1. CallTypes'
    BY <1>5, LeaveTypes DEF KeyConflict, TypeOK, CallTypes, Answers
  <2>. QED
    BY <1>5, <2>1
       DEF KeyConflict, TypeOK, CallTypes, Unseen, EndTransaction, Unlocked, verifier
<1>6. ASSUME NEW c \in Calls, Commit(c) PROVE TypeOK'
  <2>1. events' \in Seq(Events)
    BY <1>6, Appended
  <2>2. stored' \in [Keys -> Calls \cup {NoCall}]
    BY <1>6 DEF TypeOK, Commit, StoredBy
  <2>. QED
    BY <1>6, <2>1, <2>2
       DEF Commit, TypeOK, CallPcs, Unseen, EndTransaction, Unlocked, verifier
<1>7. ASSUME NEW c \in Calls, CommitBusy(c) PROVE TypeOK'
  <2>1. CallTypes'
    BY <1>7, RetryTypes DEF CommitBusy, TypeOK, CallTypes, CallPcs
  <2>. QED
    BY <1>7, <2>1
       DEF CommitBusy, TypeOK, CallTypes, Unseen, EndTransaction, Unlocked, verifier
<1>8. ASSUME NEW c \in Calls, Backoff(c) PROVE TypeOK'
  BY <1>8 DEF Backoff, TypeOK, Requests, Answers, CallPcs, Unseen, database, verifier
<1>9. ASSUME NEW c \in Calls, Fail(c) PROVE TypeOK'
  <2>1. CallTypes'
    BY <1>9, LeaveTypes DEF Fail, TypeOK, CallTypes, Answers
  <2>. QED
    BY <1>9, <2>1
       DEF Fail, TypeOK, CallTypes, Unseen, EndTransaction, Unlocked, verifier
<1>10. ASSUME NEW c \in Calls, Return(c) PROVE TypeOK'
  <2>1. CallTypes'
    BY <1>10, LeaveTypes DEF Return, TypeOK, CallTypes, Answers
  <2>. QED
    BY <1>10, <2>1 DEF Return, TypeOK, CallTypes, Unseen, database, verifier
<1>11. ASSUME NEW c \in Calls, Crash(c) PROVE TypeOK'
  BY <1>11
     DEF Crash, TypeOK, Requests, Answers, CallPcs, Unseen, EndTransaction, Unlocked,
         verifier
<1>12. CASE VerifyInfo
  BY <1>12 DEF VerifyInfo, TypeOK, IssueCodes, database, callers
<1>13. CASE VerifyRows
  BY <1>13 DEF VerifyRows, TypeOK, IssueCodes, database, callers
<1>14. CASE VerifyHead
  <2>1. issues' \subseteq IssueCodes
    BY <1>14, Zenon DEF VerifyHead, AuditIssues, IssueCodes
  <2>. QED
    BY <1>14, <2>1 DEF VerifyHead, TypeOK, database, callers
<1>15. CASE VerifyAgain
  BY <1>15 DEF VerifyAgain, TypeOK, IssueCodes, database, callers
<1>16. CASE UNCHANGED vars
  BY <1>16 DEF vars, database, callers, verifier, TypeOK
<1>. QED
  BY <1>1, <1>2, <1>3, <1>4, <1>5, <1>6, <1>7, <1>8, <1>9, <1>10, <1>11, <1>12, <1>13,
     <1>14, <1>15, <1>16
     DEF Next, Step

\* A commit continues the chain where its transaction found it.
LEMMA LogStep ==
    ASSUME TypeOK, LogOK, LockOK, [Next]_vars
    PROVE  LogOK'
<1>1. ASSUME NEW c \in Calls, Commit(c) PROVE LogOK'
  <2> DEFINE event == [sequence |-> seen[c].revision + 1, previous |-> seen[c].head, hash |-> c]
  <2>1. /\ Len(events') = Len(events) + 1
        /\ \A i \in 1..Len(events) : events'[i] = events[i]
        /\ events'[Len(events) + 1] = event
    BY <1>1, Appended, Zenon
  <2>2. Len(events) \in Nat /\ Len(events) >= 1
    BY LogTypes DEF LogOK
  <2>3. /\ seen[c].revision = Len(events) /\ seen[c].head = events[Len(events)].hash
    BY <1>1 DEF Commit, LockOK, LogOK
  <2>4. event.sequence = Len(events) + 1 /\ event.previous = events[Len(events)].hash
        /\ event.hash = c
    BY <2>3
  <2>5. revision' = Len(events) + 1 /\ head' = c
    BY <1>1, <2>3 DEF Commit
  <2> HIDE DEF event
  <2>6. Len(events') >= 1 /\ events'[1] = Creation
    BY <2>1, <2>2 DEF LogOK
  <2>7. ASSUME NEW i \in 1..Len(events') PROVE events'[i].sequence = i
    BY <2>1, <2>2, <2>4 DEF LogOK
  <2>8. ASSUME NEW i \in 2..Len(events')
        PROVE  events'[i].previous = events'[i - 1].hash /\ events'[i].hash \in Calls
    <3>1. CASE i = Len(events) + 1
      BY <2>1, <2>2, <2>4, <3>1
    <3>2. CASE i # Len(events) + 1
      <4>1. i \in 2..Len(events) /\ i - 1 \in 1..Len(events) /\ i \in 1..Len(events)
        BY <2>1, <2>2, <3>2
      <4>. QED
        BY <2>1, <4>1, Zenon DEF LogOK
    <3>. QED
      BY <3>1, <3>2
  <2>9. head' = events'[Len(events')].hash /\ revision' = Len(events')
    BY <2>1, <2>4, <2>5
  <2>. QED
    BY <2>6, <2>7, <2>8, <2>9 DEF LogOK
<1>2. CASE UNCHANGED <<revision, head, events, stored>>
  BY <1>2 DEF LogOK
<1>. QED
  BY <1>1, <1>2, LogCases

\* While a transaction is open, nobody else writes what it has read.
LEMMA LockStep ==
    ASSUME TypeOK, LockOK, [Next]_vars
    PROVE  LockOK'
<1>1. ASSUME NEW c \in Calls, NEW r \in Requests, Start(c, r) PROVE LockOK'
  BY <1>1 DEF Start, TypeOK, LockOK, database, verifier
<1>2. ASSUME NEW c \in Calls, Begin(c) PROVE LockOK'
  BY <1>2 DEF Begin, TypeOK, LockOK, CanBegin, verifier
<1>3. ASSUME NEW c \in Calls, BeginBusy(c) PROVE LockOK'
  BY <1>3
     DEF BeginBusy, TypeOK, LockOK, Retry, MoreAttempts, Tried, Leave, database,
         verifier
<1>4. ASSUME NEW c \in Calls, Replay(c) PROVE LockOK'
  BY <1>4 DEF Replay, TypeOK, LockOK, EndTransaction, Unlocked, Leave, verifier
<1>5. ASSUME NEW c \in Calls, KeyConflict(c) PROVE LockOK'
  BY <1>5 DEF KeyConflict, TypeOK, LockOK, EndTransaction, Unlocked, Leave, verifier
<1>6. ASSUME NEW c \in Calls, Commit(c) PROVE LockOK'
  BY <1>6 DEF Commit, TypeOK, LockOK, EndTransaction, Unlocked, verifier
<1>7. ASSUME NEW c \in Calls, CommitBusy(c) PROVE LockOK'
  BY <1>7
     DEF CommitBusy, TypeOK, LockOK, EndTransaction, Unlocked, Retry, MoreAttempts,
         Tried, Leave, verifier
<1>8. ASSUME NEW c \in Calls, Backoff(c) PROVE LockOK'
  BY <1>8 DEF Backoff, TypeOK, LockOK, database, verifier
<1>9. ASSUME NEW c \in Calls, Fail(c) PROVE LockOK'
  BY <1>9 DEF Fail, TypeOK, LockOK, EndTransaction, Unlocked, Leave, verifier
<1>10. ASSUME NEW c \in Calls, Return(c) PROVE LockOK'
  BY <1>10 DEF Return, TypeOK, LockOK, Leave, database, verifier
<1>11. ASSUME NEW c \in Calls, Crash(c) PROVE LockOK'
  BY <1>11 DEF Crash, TypeOK, LockOK, EndTransaction, Unlocked, verifier
<1>12. CASE VerifyInfo
  BY <1>12 DEF VerifyInfo, TypeOK, LockOK, database, callers
<1>13. CASE VerifyRows
  BY <1>13 DEF VerifyRows, TypeOK, LockOK, database, callers
<1>14. CASE VerifyHead
  BY <1>14 DEF VerifyHead, TypeOK, LockOK, database, callers
<1>15. CASE VerifyAgain
  BY <1>15 DEF VerifyAgain, TypeOK, LockOK, database, callers
<1>16. CASE UNCHANGED vars
  BY <1>16 DEF vars, database, callers, LockOK
<1>. QED
  BY <1>1, <1>2, <1>3, <1>4, <1>5, <1>6, <1>7, <1>8, <1>9, <1>10, <1>11, <1>12, <1>13,
     <1>14, <1>15, <1>16
     DEF Next, Step

\* Who is in the log, after a step.
LEMMA LoggedSteps ==
    ASSUME TypeOK, LogOK, [Next]_vars
    PROVE  \/ \E c \in Calls : Commit(c) /\ \A d : Logged(d)' <=> Logged(d) \/ d = c
           \/ \A d : Logged(d)' <=> Logged(d)
  BY LogCases, LoggedByCommit, LoggedUnchanged, Zenon

\* A call that is attempted again was not committed before.
LEMMA CallsStep ==
    ASSUME TypeOK, LogOK, CallsOK, [Next]_vars
    PROVE  CallsOK'
<1>1. ASSUME NEW c \in Calls, NEW r \in Requests, Start(c, r) PROVE CallsOK'
  <2>1. \A d : Logged(d)' <=> Logged(d)
    BY <1>1, LoggedUnchanged DEF Start, database, verifier
  <2>. QED
    BY <1>1, <2>1 DEF Start, TypeOK, CallsOK, database, verifier
<1>2. ASSUME NEW c \in Calls, Begin(c) PROVE CallsOK'
  <2>1. \A d : Logged(d)' <=> Logged(d)
    BY <1>2, LoggedUnchanged DEF Begin
  <2>. QED
    BY <1>2, <2>1 DEF Begin, TypeOK, CallsOK, CanBegin, verifier
<1>3. ASSUME NEW c \in Calls, BeginBusy(c) PROVE CallsOK'
  <2>1. \A d : Logged(d)' <=> Logged(d)
    BY <1>3, LoggedUnchanged DEF BeginBusy, database, verifier
  <2>. QED
    BY <1>3, <2>1
       DEF BeginBusy, TypeOK, CallsOK, Retry, MoreAttempts, Tried, Leave, database,
           verifier
<1>4. ASSUME NEW c \in Calls, Replay(c) PROVE CallsOK'
  <2>1. \A d : Logged(d)' <=> Logged(d)
    BY <1>4, LoggedUnchanged DEF Replay
  <2>. QED
    BY <1>4, <2>1 DEF Replay, TypeOK, CallsOK, EndTransaction, Unlocked, Leave, verifier
<1>5. ASSUME NEW c \in Calls, KeyConflict(c) PROVE CallsOK'
  <2>1. \A d : Logged(d)' <=> Logged(d)
    BY <1>5, LoggedUnchanged DEF KeyConflict
  <2>. QED
    BY <1>5, <2>1
       DEF KeyConflict, TypeOK, CallsOK, EndTransaction, Unlocked, Leave, verifier
<1>6. ASSUME NEW c \in Calls, Commit(c) PROVE CallsOK'
  <2>1. \A d : Logged(d)' <=> Logged(d) \/ d = c
    BY <1>6, LoggedByCommit
  <2>. QED
    BY <1>6, <2>1 DEF Commit, TypeOK, CallsOK, EndTransaction, Unlocked
<1>7. ASSUME NEW c \in Calls, CommitBusy(c) PROVE CallsOK'
  <2>1. \A d : Logged(d)' <=> Logged(d)
    BY <1>7, LoggedUnchanged DEF CommitBusy
  <2>. QED
    BY <1>7, <2>1
       DEF CommitBusy, TypeOK, CallsOK, EndTransaction, Unlocked, Retry, MoreAttempts,
           Tried, Leave, verifier
<1>8. ASSUME NEW c \in Calls, Backoff(c) PROVE CallsOK'
  <2>1. \A d : Logged(d)' <=> Logged(d)
    BY <1>8, LoggedUnchanged DEF Backoff, database, verifier
  <2>. QED
    BY <1>8, <2>1 DEF Backoff, TypeOK, CallsOK, database, verifier
<1>9. ASSUME NEW c \in Calls, Fail(c) PROVE CallsOK'
  <2>1. \A d : Logged(d)' <=> Logged(d)
    BY <1>9, LoggedUnchanged DEF Fail
  <2>. QED
    BY <1>9, <2>1 DEF Fail, TypeOK, CallsOK, EndTransaction, Unlocked, Leave, verifier
<1>10. ASSUME NEW c \in Calls, Return(c) PROVE CallsOK'
  <2>1. \A d : Logged(d)' <=> Logged(d)
    BY <1>10, LoggedUnchanged DEF Return, database, verifier
  <2>. QED
    BY <1>10, <2>1 DEF Return, TypeOK, CallsOK, Leave, database, verifier
<1>11. ASSUME NEW c \in Calls, Crash(c) PROVE CallsOK'
  <2>1. \A d : Logged(d)' <=> Logged(d)
    BY <1>11, LoggedUnchanged DEF Crash
  <2>. QED
    BY <1>11, <2>1 DEF Crash, TypeOK, CallsOK, EndTransaction, Unlocked, verifier
<1>12. CASE VerifyInfo
  <2>1. \A d : Logged(d)' <=> Logged(d)
    BY <1>12, LoggedUnchanged DEF VerifyInfo, database, callers
  <2>. QED
    BY <1>12, <2>1 DEF VerifyInfo, TypeOK, CallsOK, database, callers
<1>13. CASE VerifyRows
  <2>1. \A d : Logged(d)' <=> Logged(d)
    BY <1>13, LoggedUnchanged DEF VerifyRows, database, callers
  <2>. QED
    BY <1>13, <2>1 DEF VerifyRows, TypeOK, CallsOK, database, callers
<1>14. CASE VerifyHead
  <2>1. \A d : Logged(d)' <=> Logged(d)
    BY <1>14, LoggedUnchanged DEF VerifyHead, database, callers
  <2>. QED
    BY <1>14, <2>1 DEF VerifyHead, TypeOK, CallsOK, database, callers
<1>15. CASE VerifyAgain
  <2>1. \A d : Logged(d)' <=> Logged(d)
    BY <1>15, LoggedUnchanged DEF VerifyAgain, database, callers
  <2>. QED
    BY <1>15, <2>1 DEF VerifyAgain, TypeOK, CallsOK, database, callers
<1>16. CASE UNCHANGED vars
  <2>1. \A d : Logged(d)' <=> Logged(d)
    BY <1>16, LoggedUnchanged DEF vars, database
  <2>. QED
    BY <1>16, <2>1 DEF CallsOK, vars, callers
<1>. QED
  BY <1>1, <1>2, <1>3, <1>4, <1>5, <1>6, <1>7, <1>8, <1>9, <1>10, <1>11, <1>12, <1>13,
     <1>14, <1>15, <1>16
     DEF Next, Step

\* Nor does the log name a call twice.
LEMMA WrittenOnceStep ==
    ASSUME TypeOK, LogOK, CallsOK, WrittenOnce, [Next]_vars
    PROVE  WrittenOnce'
<1>1. ASSUME NEW c \in Calls, Commit(c) PROVE WrittenOnce'
  <2> DEFINE event == [sequence |-> seen[c].revision + 1, previous |-> seen[c].head, hash |-> c]
  <2>1. /\ Len(events') = Len(events) + 1
        /\ \A i \in 1..Len(events) : events'[i] = events[i]
        /\ events'[Len(events) + 1] = event
    BY <1>1, Appended, Zenon
  <2>2. event.hash = c
    OBVIOUS
  <2> HIDE DEF event
  <2>3. Len(events) \in Nat /\ Len(events) >= 1
    BY LogTypes DEF LogOK
  <2>4. ~Logged(c)
    BY <1>1 DEF Commit, CallsOK
  <2>5. \A i \in 2..Len(events) : events'[i].hash = events[i].hash /\ events[i].hash # c
    BY <2>1, <2>3, <2>4 DEF Logged, Writer
  <2>6. \A i \in 2..Len(events') : i \in 2..Len(events) \/ i = Len(events) + 1
    BY <2>1, <2>3
  <2>7. events'[Len(events) + 1].hash = c
    BY <2>1, <2>2
  <2>. QED
    BY <2>5, <2>6, <2>7, Zenon DEF WrittenOnce, Writer
<1>2. CASE UNCHANGED <<revision, head, events, stored>>
  BY <1>2 DEF WrittenOnce, Writer
<1>. QED
  BY <1>1, <1>2, LogCases

\* KeyWithEffect and the answers, as conditions on any log: a step is then a
\* question about the log before it and the log after it.
LoggedIn(log, c) == \E i \in 2..Len(log) : log[i].hash = c

KeysIn(log, kept, asked) ==
    /\ \A k \in Keys : kept[k] # NoCall => LoggedIn(log, kept[k]) /\ asked[kept[k]].key = k
    /\ \A c \in Calls : LoggedIn(log, c) /\ asked[c].key \in Keys => kept[asked[c].key] = c

AnswersIn(log, asked, told, of) ==
    \A c \in Calls :
        /\ told[c] = "ok" =>
               /\ LoggedIn(log, of[c])
               /\ asked[of[c]].fingerprint = asked[c].fingerprint
               /\ of[c] = c \/ (asked[c].key \in Keys /\ asked[of[c]].key = asked[c].key)
        /\ told[c] \in {"conflict", "busy"} => ~LoggedIn(log, c)

AnswersOK == AnswersAreTrue /\ ToldByKey

\* Both are the conditions they are meant to be, in both states of a step.
LEMMA AsConditions ==
    /\ \A c : Logged(c) <=> LoggedIn(events, c)
    /\ KeyWithEffect <=> KeysIn(events, stored, request)
    /\ KeyWithEffect' <=> KeysIn(events', stored', request')
    /\ AnswersOK <=> AnswersIn(events, request, answer, result)
    /\ AnswersOK' <=> AnswersIn(events', request', answer', result')
<1>1. \A c : Logged(c) <=> LoggedIn(events, c)
  BY Zenon DEF Logged, LoggedIn, Writer
<1>2. KeyWithEffect <=> KeysIn(events, stored, request)
  BY Zenon DEF Logged, LoggedIn, Writer, KeyWithEffect, KeysIn
<1>3. KeyWithEffect' <=> KeysIn(events', stored', request')
  BY Zenon DEF Logged, LoggedIn, Writer, KeyWithEffect, KeysIn
<1>4. AnswersOK <=> AnswersIn(events, request, answer, result)
  BY Zenon DEF Logged, LoggedIn, Writer, AnswersOK, AnswersAreTrue, ToldByKey, AnswersIn
<1>5. AnswersOK' <=> AnswersIn(events', request', answer', result')
  BY Zenon DEF Logged, LoggedIn, Writer, AnswersOK, AnswersAreTrue, ToldByKey, AnswersIn
<1>. QED
  BY <1>1, <1>2, <1>3, <1>4, <1>5

\* LoggedByCommit, in these terms.
LEMMA LoggedInByCommit ==
    ASSUME TypeOK, LogOK, NEW c \in Calls, Commit(c)
    PROVE  \A d : LoggedIn(events', d) <=> LoggedIn(events, d) \/ d = c
  BY LoggedByCommit DEF Logged, LoggedIn, Writer

\* Who may touch a key or a request.
LEMMA KeyCases ==
    ASSUME [Next]_vars
    PROVE  \/ \E c \in Calls : Commit(c)
           \/ \E c \in Calls, r \in Requests : Start(c, r)
           \/ UNCHANGED <<events, stored, request>>
  BY DEF Next, Step, Begin, BeginBusy, Replay, KeyConflict, CommitBusy, Backoff, Fail,
         Return, Crash, VerifyInfo, VerifyRows, VerifyHead, VerifyAgain, vars, database, callers

\* The commit of an effect is the one step that records its key.
LEMMA KeyStep ==
    ASSUME TypeOK, LogOK, CallsOK, KeyWithEffect, [Next]_vars
    PROVE  KeyWithEffect'
<1>0. KeysIn(events, stored, request)
  BY AsConditions
<1>1. ASSUME NEW c \in Calls, Commit(c) PROVE KeysIn(events', stored', request')
  <2>1. \A d : LoggedIn(events', d) <=> LoggedIn(events, d) \/ d = c
    BY <1>1, LoggedInByCommit
  <2>2. /\ request' = request
        /\ stored' = StoredBy(c)
        /\ request[c].key \in Keys => stored[request[c].key] = NoCall
    BY <1>1 DEF Commit, Prior
  <2>. QED
    BY <1>0, <2>1, <2>2 DEF KeysIn, StoredBy, TypeOK
<1>2. ASSUME NEW c \in Calls, NEW r \in Requests, Start(c, r)
      PROVE  KeysIn(events', stored', request')
  <2>1. /\ events' = events /\ stored' = stored
        /\ \A d \in Calls : d # c => request'[d] = request[d]
    BY <1>2 DEF Start, database, TypeOK
  <2>2. ~LoggedIn(events, c)
    BY <1>2, AsConditions DEF Start, CallsOK
  <2>3. \A k \in Keys : stored[k] # NoCall => stored[k] \in Calls
    BY DEF TypeOK
  <2>. QED
    BY <1>0, <2>1, <2>2, <2>3, ZenonT(40) DEF KeysIn
<1>3. ASSUME UNCHANGED <<events, stored, request>>
      PROVE  KeysIn(events', stored', request')
  BY <1>0, <1>3
<1>. QED
  BY <1>1, <1>2, <1>3, KeyCases, AsConditions

\* A call that replays says what its key says, one that commits says what it did.
LEMMA AnswersStep ==
    ASSUME TypeOK, LogOK, CallsOK, KeyWithEffect, AnswersOK, [Next]_vars
    PROVE  AnswersOK'
<1>0. AnswersIn(events, request, answer, result)
  BY AsConditions
<1>1. ASSUME NEW c \in Calls, NEW r \in Requests, Start(c, r)
      PROVE  AnswersIn(events', request', answer', result')
  <2>1. ~LoggedIn(events, c) /\ answer[c] = "none"
    BY <1>1, AsConditions DEF Start, CallsOK, TypeOK, Answers
  <2>. QED
    BY <1>0, <1>1, <2>1 DEF Start, AnswersIn, TypeOK, Answers, database, verifier
<1>2. ASSUME NEW c \in Calls, Begin(c)
      PROVE  AnswersIn(events', request', answer', result')
  BY <1>0, <1>2 DEF Begin, AnswersIn, TypeOK, Answers, CanBegin
<1>3. ASSUME NEW c \in Calls, BeginBusy(c)
      PROVE  AnswersIn(events', request', answer', result')
  <2>1. ~LoggedIn(events, c)
    BY <1>3, AsConditions DEF BeginBusy, CallsOK, TypeOK, Answers
  <2>. QED
    BY <1>0, <1>3, <2>1
       DEF BeginBusy, AnswersIn, TypeOK, Answers, Retry, MoreAttempts, Tried, Leave,
           database, verifier
<1>4. ASSUME NEW c \in Calls, Replay(c)
      PROVE  AnswersIn(events', request', answer', result')
  <2>1. /\ request[c].key \in Keys /\ Prior(c) = stored[request[c].key]
        /\ Prior(c) # NoCall /\ SameRequest(c)
    BY <1>4 DEF Replay, Prior
  <2>2. /\ LoggedIn(events, Prior(c)) /\ request[Prior(c)].key = request[c].key
        /\ request[Prior(c)].fingerprint = request[c].fingerprint
    BY <2>1, AsConditions DEF KeysIn, SameRequest
  <2>. QED
    BY <1>0, <1>4, <2>1, <2>2 DEF Replay, Leave, AnswersIn, TypeOK, Answers
<1>5. ASSUME NEW c \in Calls, KeyConflict(c)
      PROVE  AnswersIn(events', request', answer', result')
  <2>1. ~LoggedIn(events, c)
    BY <1>5, AsConditions DEF KeyConflict, CallsOK, TypeOK, Answers
  <2>. QED
    BY <1>0, <1>5, <2>1
       DEF KeyConflict, AnswersIn, TypeOK, Answers, EndTransaction, Unlocked, Leave
<1>6. ASSUME NEW c \in Calls, Commit(c)
      PROVE  AnswersIn(events', request', answer', result')
  <2>1. \A d : LoggedIn(events', d) <=> LoggedIn(events, d) \/ d = c
    BY <1>6, LoggedInByCommit
  <2>2. answer[c] = "none"
    BY <1>6 DEF Commit, CallsOK
  <2>. QED
    BY <1>0, <1>6, <2>1, <2>2 DEF Commit, AnswersIn
<1>7. ASSUME NEW c \in Calls, CommitBusy(c)
      PROVE  AnswersIn(events', request', answer', result')
  <2>1. ~LoggedIn(events, c)
    BY <1>7, AsConditions DEF CommitBusy, CallsOK, TypeOK, Answers
  <2>. QED
    BY <1>0, <1>7, <2>1
       DEF CommitBusy, AnswersIn, TypeOK, Answers, EndTransaction, Unlocked, Retry,
           MoreAttempts, Tried, Leave
<1>8. ASSUME NEW c \in Calls, Backoff(c)
      PROVE  AnswersIn(events', request', answer', result')
  BY <1>0, <1>8 DEF Backoff, AnswersIn, TypeOK, Answers, database, verifier
<1>9. ASSUME NEW c \in Calls, Fail(c)
      PROVE  AnswersIn(events', request', answer', result')
  BY <1>0, <1>9 DEF Fail, AnswersIn, TypeOK, Answers, EndTransaction, Unlocked, Leave
<1>10. ASSUME NEW c \in Calls, Return(c)
      PROVE  AnswersIn(events', request', answer', result')
  <2>1. LoggedIn(events, c)
    BY <1>10, AsConditions DEF Return, CallsOK, TypeOK, Answers
  <2>. QED
    BY <1>0, <1>10, <2>1
       DEF Return, AnswersIn, TypeOK, Answers, Leave, database, verifier
<1>11. ASSUME NEW c \in Calls, Crash(c)
      PROVE  AnswersIn(events', request', answer', result')
  BY <1>0, <1>11 DEF Crash, AnswersIn, TypeOK, Answers, EndTransaction, Unlocked
<1>12. ASSUME VerifyInfo PROVE AnswersIn(events', request', answer', result')
  BY <1>0, <1>12 DEF VerifyInfo, AnswersIn, TypeOK, Answers, database, callers
<1>13. ASSUME VerifyRows PROVE AnswersIn(events', request', answer', result')
  BY <1>0, <1>13 DEF VerifyRows, AnswersIn, TypeOK, Answers, database, callers
<1>14. ASSUME VerifyHead PROVE AnswersIn(events', request', answer', result')
  BY <1>0, <1>14 DEF VerifyHead, AnswersIn, TypeOK, Answers, database, callers
<1>15. ASSUME VerifyAgain PROVE AnswersIn(events', request', answer', result')
  BY <1>0, <1>15 DEF VerifyAgain, AnswersIn, TypeOK, Answers, database, callers
<1>16. ASSUME UNCHANGED vars
      PROVE  AnswersIn(events', request', answer', result')
  BY <1>0, <1>16 DEF vars, database, callers
<1>. QED
  BY <1>1, <1>2, <1>3, <1>4, <1>5, <1>6, <1>7, <1>8, <1>9, <1>10, <1>11, <1>12, <1>13,
     <1>14, <1>15, <1>16, AsConditions
     DEF Next, Step

\* While Verify reads, the log it has read only grows.
LEMMA ReaderStep ==
    ASSUME TypeOK, LogOK, LockOK, ReaderOK, [Next]_vars
    PROVE  ReaderOK'
<1>1. Len(events) \in Nat /\ revision = Len(events)
  BY LogTypes DEF LogOK
<1>2. ASSUME NEW c \in Calls, Commit(c) PROVE ReaderOK'
  <2>1. /\ Len(events') = Len(events) + 1
        /\ \A i \in 1..Len(events) : events'[i] = events[i]
    BY <1>2, Appended, Zenon
  <2>2. revision' = revision + 1 /\ UNCHANGED verifier
    BY <1>2 DEF Commit, LockOK
  <2>3. Len(rows) \in Nat /\ from \in Nat /\ revision \in Nat
    BY LenProperties DEF TypeOK
  <2>. QED
    BY <1>1, <2>1, <2>2, <2>3 DEF ReaderOK, verifier
<1>3. CASE VerifyInfo
  BY <1>1, <1>3 DEF VerifyInfo, ReaderOK, TypeOK, database
<1>4. CASE VerifyRows
  BY <1>1, <1>4 DEF VerifyRows, ReaderOK, database
<1>5. CASE VerifyHead \/ VerifyAgain
  BY <1>5 DEF VerifyHead, VerifyAgain, ReaderOK
<1>6. CASE UNCHANGED <<revision, events, verifier>>
  BY <1>6 DEF ReaderOK, verifier
<1>7. \/ \E c \in Calls : Commit(c)
      \/ VerifyInfo \/ VerifyRows \/ VerifyHead \/ VerifyAgain
      \/ UNCHANGED <<revision, events, verifier>>
  BY DEF Next, Step, Start, Begin, BeginBusy, Replay, KeyConflict, CommitBusy, Backoff,
         Fail, Return, Crash, vars, database
<1>. QED
  BY <1>2, <1>3, <1>4, <1>5, <1>6, <1>7

----------------------------------------------------------------------------
(* The invariant, and what follows from it. *)

\* A case starts with the event of its creation, and nobody has called.
LEMMA InitIInv == Init => IInv
<1>. SUFFICES ASSUME Init PROVE IInv
  OBVIOUS
<1>1. Creation \in Events
  BY DEF Creation, Events
<1>2. events = <<Creation>> /\ events \in Seq(Events) /\ Len(events) = 1 /\ events[1] = Creation
  BY <1>1 DEF Init
<1>3. \A d : ~Logged(d)
  BY <1>2 DEF Logged
<1>4. TypeOK
  <2>1. Len(<<>>) = 0 /\ rows \in Seq(Events)
    BY EmptySeq DEF Init
  <2>. QED
    BY <1>2, <2>1 DEF Init, TypeOK, CallPcs, Answers, Unseen
<1>5. LogOK
  BY <1>2 DEF LogOK, Init, Creation
<1>6. LockOK /\ CallsOK /\ WrittenOnce /\ ReaderOK
  BY <1>2, <1>3 DEF LockOK, CallsOK, WrittenOnce, ReaderOK, Init
<1>7. KeyWithEffect /\ AnswersAreTrue /\ ToldByKey
  BY <1>3 DEF KeyWithEffect, AnswersAreTrue, ToldByKey, Init
<1>. QED
  BY <1>4, <1>5, <1>6, <1>7 DEF IInv

\* The conjuncts of IInv hold in every reachable state of a case.
THEOREM IInvHolds == Spec => []IInv
<1>1. IInv /\ [Next]_vars => IInv'
  <2>. SUFFICES ASSUME IInv, [Next]_vars PROVE IInv'
    OBVIOUS
  <2>1. TypeOK' /\ LogOK' /\ LockOK'
    BY TypeStep, LogStep, LockStep DEF IInv
  <2>2. CallsOK' /\ WrittenOnce'
    BY CallsStep, WrittenOnceStep DEF IInv
  <2>3. KeyWithEffect' /\ ReaderOK'
    BY KeyStep, ReaderStep DEF IInv
  <2>4. AnswersAreTrue' /\ ToldByKey'
    BY AnswersStep DEF IInv, AnswersOK
  <2>. QED
    BY <2>1, <2>2, <2>3, <2>4 DEF IInv
<1>. QED
  BY <1>1, InitIInv, PTL DEF Spec

\* Every variable keeps its type, however many calls, attempts and crashes.
THEOREM TypeCorrect == Spec => []TypeOK
<1>1. IInv => TypeOK
  BY DEF IInv
<1>. QED
  BY <1>1, IInvHolds, PTL

\* A log that is chained, with the head and revision it ends in, has no issue.
LEMMA IntactIfChained ==
    ASSUME NEW log, NEW h, NEW rev, Len(log) \in Nat, Len(log) >= 1, log # <<>>,
           \A i \in 1..Len(log) : log[i].sequence = i,
           log[1].previous = NoCall,
           \A i \in 2..Len(log) : log[i].previous = log[i - 1].hash,
           h = log[Len(log)].hash, rev = Len(log)
    PROVE  AuditIssues(log, h, rev) = {}
<1>1. ASSUME NEW i \in 1..Len(log) PROVE ~OutOfOrder(log, i)
  <2>1. i = 1 \/ i \in 2..Len(log)
    OBVIOUS
  <2>. QED
    BY <2>1 DEF OutOfOrder
<1>. QED
  BY <1>1 DEF AuditIssues, LastHash

\* The log of every reachable state is chained.
LEMMA IntactByIInv == IInv => AuditIssues(events, head, revision) = {}
<1>. SUFFICES ASSUME IInv PROVE AuditIssues(events, head, revision) = {}
  OBVIOUS
<1>1. Len(events) \in Nat /\ Len(events) >= 1
  BY LogTypes DEF IInv, LogOK
<1>2. events # <<>>
  BY <1>1, EmptySeq
<1>3. events[1].previous = NoCall
  BY DEF IInv, LogOK, Creation
<1>4. /\ \A i \in 1..Len(events) : events[i].sequence = i
      /\ \A i \in 2..Len(events) : events[i].previous = events[i - 1].hash
      /\ head = events[Len(events)].hash /\ revision = Len(events)
  BY DEF IInv, LogOK
<1>. QED
  BY <1>1, <1>2, <1>3, <1>4, IntactIfChained, Zenon

\* The catalog is one an auditor would pass, however many calls race to write
\* it, retry and die: mutate links every event to the head it replaces.
THEOREM ChainIsIntact == Spec => []AuditIntact
<1>1. IInv => AuditIntact
  BY IntactByIInv DEF AuditIntact
<1>. QED
  BY <1>1, IInvHolds, PTL

\* No call and no key has two effects, and a key is on record exactly when its
\* effect is: storeIdempotency is in the transaction of the effect, and only a call
\* whose transaction was undone is attempted again.
THEOREM EffectsAreOnce == Spec => []OneEffectPerKey
<1>1. IInv => OneEffectPerKey
  <2>. SUFFICES ASSUME IInv, NEW i \in 2..Len(events), NEW j \in 2..Len(events), i # j
                PROVE  /\ Writer(i) # Writer(j)
                       /\ request[Writer(i)].key \in Keys =>
                              request[Writer(i)].key # request[Writer(j)].key
    BY DEF OneEffectPerKey, IInv
  <2>1. Writer(i) # Writer(j)
    BY DEF IInv, WrittenOnce
  <2>2. /\ Writer(i) \in Calls /\ Logged(Writer(i))
        /\ Writer(j) \in Calls /\ Logged(Writer(j))
    BY DEF IInv, LogOK, Writer, Logged
  <2>. QED
    BY <2>1, <2>2 DEF IInv, KeyWithEffect
<1>. QED
  BY <1>1, IInvHolds, PTL

\* What mutate answers is true of the catalog, then and ever after.
THEOREM AnswersHold == Spec => []AnswersAreTrue
<1>1. IInv => AnswersAreTrue
  BY DEF IInv
<1>. QED
  BY <1>1, IInvHolds, PTL

\* Verify reports no audit issue if nothing was committed while it read: the
\* issues it may report of an intact case come from its own unisolated reads.
THEOREM QuietVerify == Spec => QuietVerifyIsClean
<1>1. IInv /\ [Next]_vars => [VerifyHead /\ from = revision => issues' = {}]_vars
  <2>. SUFFICES ASSUME IInv, VerifyHead, from = revision PROVE issues' = {}
    BY Zenon
  <2>1. Len(events) \in Nat /\ Len(rows) \in Nat
    BY LenProperties DEF IInv, TypeOK
  <2>2. Len(rows) = Len(events) /\ \A i \in 1..Len(rows) : rows[i] = events[i]
    BY <2>1 DEF VerifyHead, IInv, LogOK, ReaderOK
  <2>3. rows = events
    BY <2>1, <2>2, SeqEqual DEF IInv, TypeOK
  <2>4. AuditIssues(events, head, revision) = {}
    BY IntactByIInv
  <2>. QED
    BY <2>3, <2>4 DEF VerifyHead
<1>. QED
  BY <1>1, IInvHolds, PTL DEF Spec, QuietVerifyIsClean

----------------------------------------------------------------------------
(* CaseMutate implements AuditedLog. *)

Entries == [call : Calls, key : Keys \cup {NoKey}]

LogOf(log, asked) ==
    [i \in 1..(Len(log) - 1) |-> [call |-> log[i + 1].hash, key |-> asked[log[i + 1].hash].key]]

\* The abstract log, as a function of the events and the requests.
LEMMA LogIs == Log = LogOf(events, request) /\ Log' = LogOf(events', request')
  BY DEF Log, LogOf, Writer

\* It is a sequence, one entry for every event but the creation.
LEMMA LogOfFacts ==
    ASSUME NEW log \in Seq(Events), NEW asked, Len(log) >= 1,
           \A i \in 2..Len(log) : log[i].hash \in Calls /\ asked[log[i].hash] \in Requests
    PROVE  /\ LogOf(log, asked) \in Seq(Entries)
           /\ Len(LogOf(log, asked)) = Len(log) - 1
           /\ \A i \in 2..Len(log) :
                 LogOf(log, asked)[i - 1] = [call |-> log[i].hash, key |-> asked[log[i].hash].key]
<1>1. Len(log) \in Nat
  BY LenProperties
<1>2. ASSUME NEW i \in 1..(Len(log) - 1)
      PROVE  [call |-> log[i + 1].hash, key |-> asked[log[i + 1].hash].key] \in Entries
  <2>1. i + 1 \in 2..Len(log)
    BY <1>1
  <2>2. asked[log[i + 1].hash].key \in Keys \cup {NoKey} /\ log[i + 1].hash \in Calls
    BY <2>1 DEF Requests
  <2>. QED
    BY <2>2 DEF Entries
<1>3. LogOf(log, asked) \in [1..(Len(log) - 1) -> Entries]
  BY <1>2 DEF LogOf
<1>4. LogOf(log, asked) \in Seq(Entries) /\ Len(LogOf(log, asked)) = Len(log) - 1
  BY <1>1, <1>3
<1>5. ASSUME NEW i \in 2..Len(log)
      PROVE  LogOf(log, asked)[i - 1] = [call |-> log[i].hash, key |-> asked[log[i].hash].key]
  <2>1. i - 1 \in 1..(Len(log) - 1) /\ (i - 1) + 1 = i
    BY <1>1
  <2>. QED
    BY <2>1, Zenon DEF LogOf
<1>. QED
  BY <1>4, <1>5

\* Every event after the first is of a call that has made a request.
LEMMA LoggedRequests ==
    ASSUME IInv
    PROVE  /\ events \in Seq(Events) /\ Len(events) \in Nat /\ Len(events) >= 1
           /\ \A i \in 2..Len(events) :
                 events[i].hash \in Calls /\ request[events[i].hash] \in Requests
<1>1. events \in Seq(Events) /\ Len(events) \in Nat /\ Len(events) >= 1
  BY LogTypes DEF IInv, TypeOK, LogOK
<1>2. ASSUME NEW i \in 2..Len(events)
      PROVE  events[i].hash \in Calls /\ request[events[i].hash] \in Requests
  BY DEF IInv, LogOK, CallsOK, Logged, Writer
<1>. QED
  BY <1>1, <1>2

\* A commit is the abstract effect.
LEMMA CommitAppends ==
    ASSUME IInv, NEW c \in Calls, Commit(c)
    PROVE  Log' = Append(Log, [call |-> c, key |-> request[c].key])
<1> DEFINE entry == [call |-> c, key |-> request[c].key]
<1>1. /\ events' \in Seq(Events) /\ Len(events') = Len(events) + 1
      /\ \A i \in 1..Len(events) : events'[i] = events[i]
  BY Appended, Zenon DEF IInv
<1>2. events'[Len(events) + 1].hash = c
  <2>1. events'[Len(events) + 1] =
            [sequence |-> seen[c].revision + 1, previous |-> seen[c].head, hash |-> c]
    BY Appended, Zenon DEF IInv
  <2>. QED
    BY <2>1
<1>3. request' = request /\ request[c] \in Requests
  BY DEF Commit, IInv, CallsOK
<1>4. entry \in Entries
  BY <1>3 DEF Requests, Entries
<1>5. \A i \in 2..Len(events') :
          events'[i].hash \in Calls /\ request[events'[i].hash] \in Requests
  <2>. SUFFICES ASSUME NEW i \in 2..Len(events')
                PROVE  events'[i].hash \in Calls /\ request[events'[i].hash] \in Requests
    OBVIOUS
  <2>1. CASE i = Len(events) + 1
    BY <1>2, <1>3, <2>1
  <2>2. CASE i # Len(events) + 1
    <3>1. i \in 2..Len(events) /\ i \in 1..Len(events)
      BY <1>1, <2>2, LoggedRequests
    <3>. QED
      BY <1>1, <3>1, LoggedRequests
  <2>. QED
    BY <2>1, <2>2
<1>6. /\ LogOf(events, request) \in Seq(Entries)
      /\ Len(LogOf(events, request)) = Len(events) - 1
      /\ \A i \in 2..Len(events) : LogOf(events, request)[i - 1] =
             [call |-> events[i].hash, key |-> request[events[i].hash].key]
  BY LoggedRequests, LogOfFacts, ZenonT(40)
<1>7. Len(events') >= 1
  BY <1>1, LoggedRequests
<1>8. /\ LogOf(events', request) \in Seq(Entries)
      /\ Len(LogOf(events', request)) = Len(events') - 1
      /\ \A i \in 2..Len(events') : LogOf(events', request)[i - 1] =
             [call |-> events'[i].hash, key |-> request[events'[i].hash].key]
  BY <1>1, <1>5, <1>7, LogOfFacts, ZenonT(40)
<1> DEFINE before == LogOf(events, request)
           after == LogOf(events', request)
<1> HIDE DEF entry
<1>9. /\ Append(before, entry) \in Seq(Entries)
      /\ Len(Append(before, entry)) = Len(before) + 1
      /\ \A i \in 1..Len(before) : Append(before, entry)[i] = before[i]
      /\ Append(before, entry)[Len(before) + 1] = entry
  BY <1>4, <1>6, AppendProperties
<1>10. ASSUME NEW i \in 1..Len(after) PROVE after[i] = Append(before, entry)[i]
  <2>0. Len(events) \in Nat /\ Len(events) >= 1
    BY LoggedRequests
  <2>1. i + 1 \in 2..Len(events') /\ (i + 1) - 1 = i
    BY <1>1, <1>8, <2>0
  <2>2. after[i] = [call |-> events'[i + 1].hash, key |-> request[events'[i + 1].hash].key]
    BY <1>8, <2>1
  <2>3. CASE i = Len(events)
    <3>1. after[i] = entry
      BY <1>2, <2>2, <2>3 DEF entry
    <3>2. Len(before) + 1 = i
      BY <1>6, <2>0, <2>3
    <3>. QED
      BY <1>9, <3>1, <3>2
  <2>4. CASE i # Len(events)
    <3>1. i + 1 \in 2..Len(events) /\ i + 1 \in 1..Len(events) /\ i \in 1..Len(before)
      BY <1>1, <1>6, <1>8, <2>0, <2>4
    <3>2. before[i] = [call |-> events[i + 1].hash, key |-> request[events[i + 1].hash].key]
      BY <1>6, <2>1, <3>1
    <3>. QED
      BY <1>1, <1>9, <2>2, <3>1, <3>2
  <2>. QED
    BY <2>3, <2>4
<1>11. Len(after) = Len(Append(before, entry))
  BY <1>1, <1>6, <1>8, <1>9, LoggedRequests
<1>12. after = Append(before, entry)
  <2> HIDE DEF before, after
  <2>. QED
    BY <1>8, <1>9, <1>10, <1>11, SeqEqual DEF before, after
<1>. QED
  BY <1>3, <1>12, LogIs DEF entry

\* Every other step leaves the abstract log alone.
LEMMA LogKept ==
    ASSUME IInv, UNCHANGED events,
           \A i \in 2..Len(events) : request'[events[i].hash] = request[events[i].hash]
    PROVE  Log' = Log
<1>1. \A i \in 1..(Len(events) - 1) : i + 1 \in 2..Len(events)
  BY LoggedRequests
<1>. QED
  BY <1>1 DEF Log, Writer

\* The abstract log names the calls and the keys of the concrete one.
LEMMA LogNames ==
    ASSUME IInv
    PROVE  /\ \A d : (\E i \in 1..Len(Log) : Log[i].call = d) <=> Logged(d)
           /\ \A k : (\E i \in 1..Len(Log) : Log[i].key = k)
                    <=> \E d : Logged(d) /\ request[d].key = k
           /\ \A d : Logged(d) =>
                  \E i \in 1..Len(Log) : Log[i] = [call |-> d, key |-> request[d].key]
<1>1. /\ Len(Log) = Len(events) - 1
      /\ \A i \in 2..Len(events) :
             Log[i - 1] = [call |-> events[i].hash, key |-> request[events[i].hash].key]
  BY LoggedRequests, LogOfFacts, LogIs, ZenonT(40)
<1>2. Len(events) \in Nat
  BY LoggedRequests
<1>3. ASSUME NEW i \in 1..Len(Log)
      PROVE  /\ i + 1 \in 2..Len(events)
             /\ Log[i] = [call |-> events[i + 1].hash, key |-> request[events[i + 1].hash].key]
  <2>1. i + 1 \in 2..Len(events) /\ (i + 1) - 1 = i
    BY <1>1, <1>2
  <2>. QED
    BY <1>1, <2>1
<1>4. ASSUME NEW d, Logged(d)
      PROVE  \E i \in 1..Len(Log) : Log[i] = [call |-> d, key |-> request[d].key]
  <2>1. PICK i \in 2..Len(events) : events[i].hash = d
    BY <1>4 DEF Logged, Writer
  <2>2. i - 1 \in 1..Len(Log)
    BY <1>1, <1>2
  <2>. QED
    BY <1>1, <2>1, <2>2, Zenon
<1>5. ASSUME NEW i \in 1..Len(Log)
      PROVE  \E d : Logged(d) /\ Log[i].call = d /\ Log[i].key = request[d].key
  <2>1. \E j \in 2..Len(events) :
            Log[i] = [call |-> events[j].hash, key |-> request[events[j].hash].key]
    BY <1>3
  <2>2. PICK j \in 2..Len(events) :
            Log[i] = [call |-> events[j].hash, key |-> request[events[j].hash].key]
    BY <2>1
  <2>3. Log[i].call = events[j].hash /\ Log[i].key = request[events[j].hash].key
    BY <2>2
  <2>. QED
    BY <2>3, Zenon DEF Logged, Writer
<1>6. ASSUME NEW d, Logged(d)
      PROVE  \E i \in 1..Len(Log) : Log[i].call = d /\ Log[i].key = request[d].key
  <2>1. PICK i \in 1..Len(Log) : Log[i] = [call |-> d, key |-> request[d].key]
    BY <1>4, <1>6, Zenon
  <2>2. Log[i].call = d /\ Log[i].key = request[d].key
    BY <2>1
  <2>. QED
    BY <2>2, Zenon
<1>7. \A d : (\E i \in 1..Len(Log) : Log[i].call = d) <=> Logged(d)
  BY <1>5, <1>6, Zenon
<1>8. \A k : (\E i \in 1..Len(Log) : Log[i].key = k)
                  <=> \E d : Logged(d) /\ request[d].key = k
  <2>1. ASSUME NEW k, NEW i \in 1..Len(Log), Log[i].key = k
        PROVE  \E d : Logged(d) /\ request[d].key = k
    BY <1>5, <2>1, Zenon
  <2>2. ASSUME NEW k, NEW d, Logged(d), request[d].key = k
        PROVE  \E i \in 1..Len(Log) : Log[i].key = k
    BY <1>6, <2>2, Zenon
  <2>. QED
    BY <2>1, <2>2, Zenon
<1>. QED
  BY <1>4, <1>7, <1>8, Zenon

\* The abstract callers are told nothing new while no call starts to succeed.
LEMMA ToldKept ==
    ASSUME \A d \in Calls : /\ answer'[d] = "ok" <=> answer[d] = "ok"
                            /\ answer[d] = "ok" => result'[d] = result[d]
    PROVE  Told' = Told
<1>1. ASSUME NEW t \in Calls \X Calls
      PROVE  answer'[t[1]] = "ok" /\ result'[t[1]] = t[2]
                 <=> answer[t[1]] = "ok" /\ result[t[1]] = t[2]
  <2>1. PICK d \in Calls, e \in Calls : t = <<d, e>>
    OBVIOUS
  <2>2. t[1] = d /\ t[2] = e
    BY <2>1
  <2>3. answer'[d] = "ok" /\ result'[d] = e <=> answer[d] = "ok" /\ result[d] = e
    OBVIOUS
  <2>. QED
    BY <2>2, <2>3, Zenon
<1>. QED
  BY <1>1, Zenon DEF Told

\* They are told of one effect when a call does.
LEMMA ToldNow ==
    ASSUME TypeOK, NEW c \in Calls, NEW d \in Calls, answer[c] # "ok", Leave(c, "ok", d)
    PROVE  Told' = Told \cup {<<c, d>>}
<1>1. /\ answer'[c] = "ok" /\ result'[c] = d
      /\ \A e \in Calls : e # c => answer'[e] = answer[e] /\ result'[e] = result[e]
  BY DEF Leave, TypeOK
<1>2. ASSUME NEW t \in Calls \X Calls
      PROVE  answer'[t[1]] = "ok" /\ result'[t[1]] = t[2]
                 <=> (answer[t[1]] = "ok" /\ result[t[1]] = t[2]) \/ t = <<c, d>>
  BY <1>1
<1>3. <<c, d>> \in Calls \X Calls
  OBVIOUS
<1>. QED
  BY <1>2, <1>3 DEF Told

\* A step the abstract specification does not see.
Quiet ==
    /\ events' = events
    /\ \A i \in 2..Len(events) : request'[events[i].hash] = request[events[i].hash]
    /\ \A d \in Calls : /\ answer'[d] = "ok" <=> answer[d] = "ok"
                        /\ answer[d] = "ok" => result'[d] = result[d]

\* Apart from commits and successful answers, nothing the abstract log shows.
LEMMA QuietSteps ==
    ASSUME IInv, [Next]_vars
    PROVE  \/ \E c \in Calls : Commit(c) \/ Replay(c) \/ (Return(c) /\ Leave(c, "ok", c))
           \/ Quiet
<1>1. ASSUME NEW c \in Calls, NEW r \in Requests, Start(c, r) PROVE Quiet
  <2>1. ~Logged(c)
    BY <1>1 DEF Start, IInv, CallsOK
  <2>2. \A i \in 2..Len(events) : events[i].hash # c /\ events[i].hash \in Calls
    BY <2>1, LoggedRequests DEF Logged, Writer
  <2>. QED
    BY <1>1, <2>2 DEF Start, Quiet, IInv, TypeOK, database
<1>2. ASSUME NEW c \in Calls, Begin(c) PROVE Quiet
  BY <1>2 DEF Begin, Quiet, IInv, TypeOK, CallsOK, CanBegin
<1>3. ASSUME NEW c \in Calls, BeginBusy(c) PROVE Quiet
  BY <1>3
     DEF BeginBusy, Quiet, IInv, TypeOK, CallsOK, Retry, MoreAttempts, Tried, Leave,
         database, verifier
<1>4. ASSUME NEW c \in Calls, KeyConflict(c) PROVE Quiet
  BY <1>4 DEF KeyConflict, Quiet, IInv, TypeOK, CallsOK, EndTransaction, Unlocked, Leave
<1>5. ASSUME NEW c \in Calls, CommitBusy(c) PROVE Quiet
  BY <1>5, SMTT(40)
     DEF CommitBusy, Quiet, IInv, TypeOK, CallsOK, EndTransaction, Unlocked, Retry,
         MoreAttempts, Tried, Leave
<1>6. ASSUME NEW c \in Calls, Backoff(c) PROVE Quiet
  BY <1>6 DEF Backoff, Quiet, IInv, TypeOK, CallsOK, database, verifier
<1>7. ASSUME NEW c \in Calls, Fail(c) PROVE Quiet
  BY <1>7 DEF Fail, Quiet, IInv, TypeOK, CallsOK, EndTransaction, Unlocked, Leave
<1>8. ASSUME NEW c \in Calls, Return(c) /\ Leave(c, "error", NoCall) PROVE Quiet
  BY <1>8 DEF Return, Quiet, IInv, TypeOK, CallsOK, Leave, database, verifier
<1>9. ASSUME NEW c \in Calls, Crash(c) PROVE Quiet
  BY <1>9 DEF Crash, Quiet, IInv, TypeOK, CallsOK, EndTransaction, Unlocked
<1>10. CASE VerifyInfo \/ VerifyRows \/ VerifyHead \/ VerifyAgain
  BY <1>10 DEF VerifyInfo, VerifyRows, VerifyHead, VerifyAgain, Quiet, database, callers
<1>11. CASE UNCHANGED vars
  BY <1>11 DEF vars, Quiet, database, callers
<1>12. \A c \in Calls : Return(c) => Leave(c, "ok", c) \/ Leave(c, "error", NoCall)
  BY DEF Return
<1>. QED
  BY <1>1, <1>2, <1>3, <1>4, <1>5, <1>6, <1>7, <1>8, <1>9,
     <1>10, <1>11, <1>12 DEF Next, Step

\* The one atomic step of a call is its commit.
LEMMA Simulation ==
    ASSUME IInv, [Next]_vars
    PROVE  A!LogNext \/ UNCHANGED <<Log, Told>>
<1>1. ASSUME NEW c \in Calls, Commit(c) PROVE A!LogNext
  <2> DEFINE k == request[c].key
  <2>1. k \in Keys \cup {NoKey} /\ ~Logged(c)
    BY <1>1 DEF Commit, IInv, CallsOK, Requests
  <2>2. ~A!Logged(c)
    BY <2>1, LogNames DEF A!Logged
  <2>3. ~A!Used(k)
    <3>. SUFFICES ASSUME k # NoKey, NEW d, Logged(d), request[d].key = k PROVE FALSE
      BY LogNames DEF A!Used
    <3>1. k \in Keys /\ stored[k] = NoCall
      BY <1>1, <2>1 DEF Commit, Prior
    <3>2. d \in Calls
      BY LoggedRequests DEF Logged, Writer
    <3>3. stored[k] = d
      BY <3>1, <3>2 DEF IInv, KeyWithEffect
    <3>. QED
      BY <3>1, <3>2, <3>3
  <2>4. Log' = Append(Log, [call |-> c, key |-> k])
    BY <1>1, CommitAppends
  <2>5. Told' = Told
    BY <1>1, ToldKept DEF Commit
  <2> HIDE DEF k
  <2>6. A!Effect(c, k)
    BY <2>2, <2>3, <2>4, <2>5 DEF A!Effect
  <2>. QED
    BY <2>1, <2>6 DEF A!LogNext
<1>2. ASSUME NEW c \in Calls, Replay(c) PROVE A!LogNext
  <2> DEFINE k == request[c].key
             d == Prior(c)
  <2>1. k \in Keys /\ d = stored[k] /\ d # NoCall
    BY <1>2 DEF Replay, Prior
  <2>2. d \in Calls /\ Logged(d) /\ request[d].key = k
    BY <2>1 DEF IInv, TypeOK, KeyWithEffect
  <2>3. \E i \in 1..Len(Log) : Log[i] = [call |-> d, key |-> k]
    <3>1. \A e : Logged(e) =>
              \E i \in 1..Len(Log) : Log[i] = [call |-> e, key |-> request[e].key]
      BY LogNames, Zenon
    <3> HIDE DEF k, d
    <3>. QED
      BY <2>2, <3>1, Zenon
  <2>4. Log' = Log
    BY <1>2 DEF Replay, Log, Writer
  <2>5. Told' = Told \cup {<<c, d>>}
    BY <1>2, <2>2, ToldNow DEF Replay, IInv, CallsOK
  <2> HIDE DEF k, d
  <2>6. A!Tell(c, d, k)
    BY <2>1, <2>3, <2>4, <2>5 DEF A!Tell
  <2>. QED
    BY <2>1, <2>2, <2>6 DEF A!LogNext
<1>3. ASSUME NEW c \in Calls, Return(c), Leave(c, "ok", c) PROVE A!LogNext
  <2> DEFINE k == request[c].key
  <2>1. Logged(c) /\ k \in Keys \cup {NoKey}
    BY <1>3 DEF Return, IInv, CallsOK, Requests
  <2>2. \E i \in 1..Len(Log) : Log[i] = [call |-> c, key |-> k]
    BY <2>1, LogNames, Zenon
  <2>3. Log' = Log
    BY <1>3 DEF Return, Log, Writer, database
  <2>4. Told' = Told \cup {<<c, c>>}
    BY <1>3, ToldNow DEF Return, IInv, CallsOK
  <2> HIDE DEF k
  <2>5. A!Tell(c, c, k)
    BY <2>2, <2>3, <2>4 DEF A!Tell
  <2>. QED
    BY <2>1, <2>5 DEF A!LogNext
<1>4. CASE Quiet
  BY <1>4, LogKept, ToldKept DEF Quiet
<1>. QED
  BY <1>1, <1>2, <1>3, <1>4, QuietSteps

\* The write path, with its transactions, locks, retries and crashes, keeps what
\* module AuditedLog promises.
THEOREM Implements == Spec => ImplementsAuditedLog
<1>1. Init => A!LogInit
  <2>. SUFFICES ASSUME Init PROVE A!LogInit
    OBVIOUS
  <2>1. Len(events) = 1
    BY DEF Init
  <2>2. Log = <<>>
    BY <2>1 DEF Log
  <2>3. Told = {}
    BY DEF Init, Told
  <2>. QED
    BY <2>2, <2>3 DEF A!LogInit
<1>2. IInv /\ [Next]_vars => [A!LogNext]_A!logVars
  BY Simulation DEF A!logVars
<1>. QED
  BY <1>1, <1>2, IInvHolds, PTL DEF Spec, ImplementsAuditedLog, A!LogSpec
----------------------------------------------------------------------------
(* What the chain is for: the head pins the log. *)

LEMMA Least ==
    ASSUME NEW T \in SUBSET Nat, T # {}
    PROVE  \E x \in T : \A y \in T : x <= y
<1> DEFINE R == {p \in Nat \X Nat : p[1] < p[2]}
<1>1. OpToRel(<, Nat) = R
  BY Zenon DEF OpToRel
<1>2. IsWellFoundedOn(R, Nat)
  BY <1>1, NatLessThanWellFounded, Zenon
<1> HIDE DEF R
<1>3. PICK x \in T : \A y \in T : ~ (<<y, x>> \in R)
  BY <1>2, WFMin, Zenon
<1>4. \A y \in T : ~ (y < x)
  BY <1>3 DEF R
<1>. QED
  BY <1>3, <1>4

\* What the auditor has looked at when it finds no issue.
LEMMA NoIssues ==
    ASSUME NEW log \in Seq(Events), NEW h, NEW rev, AuditIssues(log, h, rev) = {}
    PROVE  /\ Len(log) = rev /\ Len(log) \in Nat
           /\ \A i \in 2..Len(log) : log[i].previous = log[i - 1].hash
           /\ log # <<>> => log[Len(log)].hash = h
<1>1. /\ ~ \E i \in 1..Len(log) : OutOfOrder(log, i)
      /\ h = LastHash(log) /\ rev = Len(log)
  BY DEF AuditIssues
<1>2. ASSUME NEW i \in 2..Len(log) PROVE log[i].previous = log[i - 1].hash
  <2>1. i \in 1..Len(log) /\ i # 1
    OBVIOUS
  <2>. QED
    BY <1>1, <2>1 DEF OutOfOrder
<1>. QED
  BY <1>1, <1>2 DEF LastHash

\* A revision and a head that are kept outside the case, as a checkpoint does, pin its
\* whole history: a log that Verify accepts under them is the log of that moment, unless
\* two different events have one hash. From the head, each event names the one before.
THEOREM HeadPinsLog ==
    ASSUME NEW old \in Seq(Events), NEW log \in Seq(Events), NEW h, NEW rev,
           AuditIssues(old, h, rev) = {}, AuditIssues(log, h, rev) = {},
           \A i \in 1..Len(old), j \in 1..Len(log) : old[i].hash = log[j].hash => old[i] = log[j]
    PROVE  log = old
<1> DEFINE n == Len(old)
           Differ == {k \in Nat : k < n /\ old[n - k] # log[n - k]}
<1>1. n \in Nat /\ Len(log) = n
  BY NoIssues
<1>2. /\ \A i \in 2..n : old[i].previous = old[i - 1].hash /\ log[i].previous = log[i - 1].hash
      /\ n > 0 => old[n].hash = log[n].hash
  <2>1. \A i \in 2..n : old[i].previous = old[i - 1].hash /\ log[i].previous = log[i - 1].hash
    <3>1. \A i \in 2..Len(old) : old[i].previous = old[i - 1].hash
      BY NoIssues, ZenonT(40)
    <3>2. \A i \in 2..Len(log) : log[i].previous = log[i - 1].hash
      BY NoIssues, ZenonT(40)
    <3>. QED
      BY <1>1, <3>1, <3>2, Zenon
  <2>2. ASSUME n > 0 PROVE old[n].hash = h /\ log[n].hash = h
    <3>1. old # <<>> /\ log # <<>>
      BY <1>1, <2>2
    <3>. QED
      BY <1>1, <3>1, NoIssues
  <2>. QED
    BY <2>1, <2>2
<1>3. ASSUME Differ # {} PROVE FALSE
  <2>1. PICK k \in Differ : \A j \in Differ : k <= j
    BY <1>3, Least
  <2>2. k \in Nat /\ k < n /\ n - k \in 1..n /\ old[n - k] # log[n - k]
    BY <1>1, <2>1
  <2>3. old[n - k].hash = log[n - k].hash
    <3>1. CASE k = 0
      BY <1>1, <1>2, <2>2, <3>1
    <3>2. CASE k # 0
      <4>1. k - 1 \in Nat /\ k - 1 < n /\ ~(k <= k - 1) /\ n - (k - 1) = (n - k) + 1
        BY <1>1, <2>2, <3>2
      <4>2. old[n - (k - 1)] = log[n - (k - 1)]
        BY <2>1, <4>1
      <4>3. (n - k) + 1 \in 2..n /\ ((n - k) + 1) - 1 = n - k
        BY <1>1, <2>2, <3>2
      <4>. HIDE DEF n
      <4>4. /\ old[(n - k) + 1].previous = old[n - k].hash
            /\ log[(n - k) + 1].previous = log[n - k].hash
        BY <1>2, <4>3, Zenon
      <4>. QED
        BY <4>1, <4>2, <4>4, Zenon
    <3>. QED
      BY <3>1, <3>2
  <2>. QED
    BY <1>1, <2>2, <2>3
<1>4. ASSUME NEW i \in 1..n PROVE log[i] = old[i]
  <2>1. n - i \in Nat /\ n - i < n /\ n - (n - i) = i
    BY <1>1
  <2>. HIDE DEF n
  <2>2. n - i \notin Differ
    BY <1>3
  <2>. QED
    BY <2>1, <2>2
<1>. QED
  BY <1>1, <1>4, SeqEqual
----------------------------------------------------------------------------
(* CaseMutate implements KeyedEffects. *)

\* A request stays what it was from its start on.
LEMMA RequestsStay ==
    ASSUME TypeOK, [Next]_vars
    PROVE  \A d \in Calls : pc[d] # "idle" => request'[d] = request[d]
<1>1. ASSUME NEW c \in Calls, NEW r \in Requests, Start(c, r)
      PROVE  \A d \in Calls : pc[d] # "idle" => request'[d] = request[d]
  BY <1>1 DEF Start, TypeOK
<1>2. ASSUME ~\E c \in Calls, r \in Requests : Start(c, r) PROVE request' = request
  BY <1>2 DEF Next, Step, Begin, BeginBusy, Replay, KeyConflict, Commit, CommitBusy, Backoff,
              Fail, Return, Crash, VerifyInfo, VerifyRows, VerifyHead, VerifyAgain, vars,
              database, callers
<1>. QED
  BY <1>1, <1>2

\* Nor do the effects and the answers of a step that logs and answers nothing change.
LEMMA QuietIsKept ==
    ASSUME IInv, [Next]_vars, Quiet
    PROVE  UNCHANGED K!keyedVars
<1>1. \A d \in Calls : pc[d] # "idle" => request'[d] = request[d]
  BY RequestsStay DEF IInv
<1>2. Effective' = Effective /\ \A d \in Effective : request'[d] = request[d]
  BY DEF Quiet, Effective, Logged, Writer
<1>3. Effects' = Effects
  <2>1. \A d \in Effective : Effect(d)' = Effect(d)
    BY <1>2 DEF Effect
  <2>. QED
    BY <1>2, <2>1 DEF Effects
<1>4. Answered' = Answered
  BY DEF Quiet, Answered
<1>5. \A d \in Answered : AnswerTo(d)' = AnswerTo(d)
  BY <1>1 DEF Quiet, Answered, AnswerTo, IInv, CallsOK
<1>6. AnswersTold' = AnswersTold
  BY <1>4, <1>5 DEF AnswersTold
<1>. QED
  BY <1>3, <1>6 DEF K!keyedVars

\* A success that names an effect of the same request, the call's own or one of its key.
LEMMA SuccessIsTold ==
    ASSUME IInv, NEW c \in Calls, NEW d \in Effective,
           UNCHANGED <<events, request>>, pc[c] # "returned", Leave(c, "ok", d),
           request[d].key = request[c].key, request[d].fingerprint = request[c].fingerprint,
           d = c \/ request[c].key # NoKey
    PROVE  K!KeyedNext
<1>1. answer[c] = "none" /\ answer \in [Calls -> Answers] /\ result \in [Calls -> Calls \cup {NoCall}]
  BY DEF IInv, TypeOK, CallsOK, Answers
<1>2. answer' = [answer EXCEPT ![c] = "ok"] /\ result' = [result EXCEPT ![c] = d]
  BY DEF Leave
<1>3. /\ Answered' = Answered \cup {c}
      /\ \A x \in Answered : x # c /\ result'[x] = result[x]
  BY <1>1, <1>2 DEF Answered
<1>4. \A x \in Answered : AnswerTo(x)' = AnswerTo(x)
  BY <1>3 DEF AnswerTo
<1>5. AnswerTo(c)' = <<c, Effect(d)'>>
  BY <1>1, <1>2 DEF AnswerTo, Effect
<1>6. AnswersTold' = AnswersTold \cup {<<c, Effect(d)'>>}
  BY <1>3, <1>4, <1>5 DEF AnswersTold
<1>7. Effects' = Effects
  BY DEF Effects, Effective, Effect, Logged, Writer
<1>8. Effect(d)' \in Effects'
  BY <1>7 DEF Effects, Effect
<1>9. Effect(d)'.call = c \/ Effect(d)'.key # NoKey
  BY DEF Effect
<1>10. \A t \in AnswersTold : t[1] # c
  BY <1>3 DEF AnswersTold, AnswerTo
<1>11. K!Tell
  BY <1>6, <1>8, <1>9, <1>10 DEF K!Tell, K!MayBeTold
<1>. QED
  BY <1>7, <1>11 DEF K!KeyedNext

\* A commit is a fresh effect.
LEMMA CommitIsEffect ==
    ASSUME IInv, NEW c \in Calls, Commit(c)
    PROVE  K!KeyedNext
<1>1. /\ pc[c] = "applying" /\ Prior(c) = NoCall /\ UNCHANGED <<request, answer, result>>
      /\ request[c] \in Requests /\ ~Logged(c)
  BY DEF Commit, IInv, CallsOK
<1>2. Effective' = Effective \cup {c} /\ c \notin Effective
  BY <1>1, LoggedByCommit DEF Effective, IInv
<1>3. \A d \in Calls : Effect(d)' = Effect(d)
  BY <1>1 DEF Effect
<1>4. Effects' = Effects \cup {Effect(c)}
  BY <1>2, <1>3 DEF Effects, Effective
<1>5. K!Fresh(Effect(c))
  <2>1. ASSUME NEW d \in Effective, request[c].key # NoKey PROVE request[d].key # request[c].key
    <3>1. request[c].key \in Keys /\ stored[request[c].key] = NoCall
      BY <1>1, <2>1 DEF Prior, Requests
    <3>2. d \in Calls /\ (request[d].key \in Keys => stored[request[d].key] = d)
      BY DEF IInv, KeyWithEffect, Effective
    <3>. QED
      BY <3>1, <3>2
  <2>2. \A d \in Effective : d # c
    BY <1>2
  <2>. QED
    BY <2>1, <2>2 DEF K!Fresh, Effects, Effect
<1>6. K!TakeEffect
  BY <1>4, <1>5 DEF K!TakeEffect
<1>7. AnswersTold' = AnswersTold
  BY <1>1 DEF AnswersTold, Answered, AnswerTo
<1>. QED
  BY <1>6, <1>7 DEF K!KeyedNext

LEMMA KeyedStep ==
    ASSUME IInv, [Next]_vars
    PROVE  [K!KeyedNext]_(K!keyedVars)
<1>1. ASSUME NEW c \in Calls, Replay(c) PROVE K!KeyedNext
  <2>1. /\ pc[c] = "applying" /\ Prior(c) # NoCall /\ UNCHANGED <<events, request>>
        /\ request[Prior(c)].fingerprint = request[c].fingerprint /\ Leave(c, "ok", Prior(c))
    BY <1>1 DEF Replay, SameRequest
  <2>2. request[c].key \in Keys /\ Prior(c) = stored[request[c].key]
    BY <2>1 DEF Prior
  <2>3. Prior(c) \in Effective /\ request[Prior(c)].key = request[c].key
    BY <2>1, <2>2 DEF IInv, TypeOK, KeyWithEffect, Effective
  <2>. QED
    BY <2>1, <2>2, <2>3, SuccessIsTold
<1>2. ASSUME NEW c \in Calls, Return(c), Leave(c, "ok", c) PROVE K!KeyedNext
  <2>1. pc[c] = "committed" /\ UNCHANGED <<events, request>>
    BY <1>2 DEF Return, database
  <2>2. c \in Effective
    BY <2>1 DEF IInv, CallsOK, Effective
  <2>. QED
    BY <1>2, <2>1, <2>2, SuccessIsTold
<1>. QED
  BY <1>1, <1>2, QuietSteps, QuietIsKept, CommitIsEffect

\* Whatever is attempted, retried, replayed or lost, a key of a case has one effect, and a
\* success tells the call of an effect of its own request.
THEOREM ImplementsKeys == Spec => ImplementsKeyedEffects
<1>1. Init => K!KeyedInit
  <2>. SUFFICES ASSUME Init PROVE K!KeyedInit
    OBVIOUS
  <2>1. Len(events) = 1
    BY DEF Init
  <2>2. Effects = {}
    BY <2>1 DEF Effects, Effective, Logged
  <2>3. AnswersTold = {}
    BY DEF Init, AnswersTold, Answered
  <2>. QED
    BY <2>2, <2>3 DEF K!KeyedInit
<1>. QED
  BY <1>1, IInvHolds, KeyedStep, PTL DEF Spec, ImplementsKeyedEffects, K!KeyedSpec
=============================================================================
