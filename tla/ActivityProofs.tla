--------------------------- MODULE ActivityProofs ---------------------------
(***************************************************************************)
(* Proofs about module Activity, for every set of activities, entities,    *)
(* handles, contents and keys: its invariants, and that it implements      *)
(* module Provenance.                                                      *)
(*                                                                         *)
(* The invariants of Activity are not inductive as they stand.  IInv adds  *)
(* what the code relies on silently: which rows exist (RowsOK), what a     *)
(* handle in use stands for (HandlesOK) and how far a running call has     *)
(* got (CallsOK, BlobsOK).  One lemma below shows that each conjunct of    *)
(* IInv survives a step; IInvHolds puts them together.                     *)
(***************************************************************************)
EXTENDS Activity, FiniteSetTheorems, TLAPS

\* The rows of the catalog: an entity exists from its revision on; an activity
\* with an output is sealed, at or before every output and after every input.
RowsOK ==
    /\ \A e \in Entities : generatedBy[e] # NoActivity <=> createdAt[e] > 0
    /\ \A e \in Entities : createdAt[e] <= revision
    /\ \A a \in Activities : sealedAt[a] <= revision
    /\ \A a \in Activities : state[a] = "none" => inputs[a] = {} /\ a \notin keyed
    /\ \A e \in Entities, a \in Activities : generatedBy[e] = a =>
           state[a] # "none" /\ 0 < sealedAt[a] /\ sealedAt[a] <= createdAt[e]
    /\ \A a \in Activities, i \in Entities : i \in inputs[a] =>
           0 < createdAt[i] /\ (sealedAt[a] > 0 => createdAt[i] < sealedAt[a])

\* A handle in use stands for an activity that was begun, and for one that has
\* ended if it says so or its Finish was acknowledged.
HandlesOK ==
    \A h \in Handles :
        /\ phase[h] # "free" => handleOf[h] \in Activities /\ state[handleOf[h]] # "none"
        /\ finishPc[h] # "idle" \/ using[h] # NoEntity \/ terminal[h] => phase[h] = "open"
        /\ finishPc[h] # "idle" <=> finishing[h]
        /\ terminal[h] \/ finishPc[h] = "acked" => Terminal(handleOf[h])
        /\ using[h] # NoEntity => using[h] \in Existing

\* A call has a request while it runs, of an open handle if its kind needs one,
\* and an entity that is not recorded before its transaction.
CallsOK ==
    \A e \in Entities :
        /\ callPc[e] \in {"idle"} \cup Working => generatedBy[e] = NoActivity
        /\ callPc[e] = "idle" => answer[e] = NoEntity
        /\ callPc[e] \in InFlight \/ generatedBy[e] # NoActivity \/ answer[e] # NoEntity
               => request[e] \in Requests
        /\ callPc[e] \in InFlight /\ request[e].kind \in HandleKinds =>
               /\ request[e].handle \in Handles
               /\ request[e].activity \in Activities
               /\ phase[request[e].handle] = "open"
        /\ callPc[e] \in InFlight /\ request[e].kind \notin HandleKinds =>
               request[e].handle = NoHandle
        /\ callPc[e] \in {"staging", "checking", "publishing"} => request[e].blob \in Blobs

\* The bytes are in place before the transaction that refers to them.
BlobsOK ==
    \A e \in Entities :
        (callPc[e] = "recording" \/ generatedBy[e] # NoActivity) /\ IsObject(e)
            => request[e].blob \in cas

IInv ==
    /\ TypeOK /\ RowsOK /\ HandlesOK /\ CallsOK /\ BlobsOK
    /\ FinishDrainsItsHandle /\ OneResultPerKey /\ AnswersAreRecorded
    /\ StagingLeftByCrashOnly
----------------------------------------------------------------------------
USE DEF catalog, files, handles, calls, Working, InFlight, HandleKinds, Kinds

\* The steps that write the catalog.
LEMMA CatalogCases ==
    ASSUME [Next]_vars
    PROVE  \/ UNCHANGED catalog
           \/ \E h \in Handles, a \in Activities : BeginActivity(h, a)
           \/ \E h \in Handles : CommitUse(h)
           \/ \E h \in Handles : SealInputs(h)
           \/ \E e \in Entities : RecordOutput(e)
           \/ \E e \in Entities, a \in Activities : RecordImport(e, a)
           \/ \E e \in Entities, a \in Activities, members \in SUBSET Entities : AuthorFinding(e, a, members)
           \/ \E h \in Handles : FinishCommit(h)
           \/ \E S \in SUBSET Activities : Interrupt(S)
  BY DEF Next, OnHandle, FinishStep, CallStep, vars, Advance, ReplayBegin,
         LoadHandle, BeginUse, FailUse, StartCapture, FinishStart, FinishAwake,
         FinishCancelled, FinishReplay, FinishFail, FinishReturn, Crash,
         StartImport, StageBlob, CheckKey, PublishBlob, AnswerFromRecord, FailCall,
         ReturnCall, CrashImport

\* The steps that write a call, the blob store or the staging directory.
LEMMA CallCases ==
    ASSUME [Next]_vars
    PROVE  \/ UNCHANGED <<calls, files, generatedBy>>
           \/ \E h \in Handles, e \in Entities : \E r \in HandleRequests(h) : StartCapture(h, e, r)
           \/ \E e \in Entities : \E r \in ImportRequests : StartImport(e, r)
           \/ \E e \in Entities : StageBlob(e)
           \/ \E e \in Entities : CheckKey(e)
           \/ \E e \in Entities : PublishBlob(e)
           \/ \E e \in Entities : RecordOutput(e)
           \/ \E e \in Entities, a \in Activities : RecordImport(e, a)
           \/ \E e \in Entities : AnswerFromRecord(e)
           \/ \E e \in Entities : FailCall(e)
           \/ \E e \in Entities : ReturnCall(e)
           \/ \E e \in Entities, a \in Activities, members \in SUBSET Entities : AuthorFinding(e, a, members)
           \/ \E h \in Handles : Crash(h)
           \/ \E e \in Entities : CrashImport(e)
  BY DEF Next, OnHandle, FinishStep, CallStep, vars, Advance, BeginActivity,
         ReplayBegin, LoadHandle, BeginUse, CommitUse, FailUse, SealInputs,
         FinishStart, FinishAwake, FinishCancelled, FinishCommit, FinishReplay,
         FinishFail, FinishReturn, Interrupt

\* The calls on a handle are finitely many, and a running one counts.
LEMMA FiniteCalls == \A h : IsFiniteSet(CallsOn(h))
  BY FiniteEntities, FS_Subset DEF CallsOn

LEMMA RunningCall ==
    ASSUME TypeOK, FinishDrainsItsHandle, NEW e \in Entities, callPc[e] \in InFlight,
           request[e].handle \in Handles
    PROVE  captures[request[e].handle] > 0
<1>1. e \in CallsOn(request[e].handle)
  BY DEF CallsOn
<1>. QED
  BY <1>1, FiniteCalls, FS_EmptySet, FS_CardinalityType DEF FinishDrainsItsHandle, TypeOK

\* Every variable keeps its type.
LEMMA TypeStep ==
    ASSUME TypeOK, HandlesOK, CallsOK, FinishDrainsItsHandle, [Next]_vars
    PROVE  TypeOK'
<1> USE OutcomeNames, Distinct DEF TypeOK, CallPcs, FinishPcs, Requests
<1>1. ASSUME NEW h \in Handles, NEW a \in Activities, BeginActivity(h, a) PROVE
                TypeOK'
  BY <1>1 DEF BeginActivity, NextRevision
<1>2. ASSUME NEW h \in Handles, NEW a \in Activities, ReplayBegin(h, a) PROVE TypeOK'
  BY <1>2 DEF ReplayBegin
<1>3. ASSUME NEW h \in Handles, LoadHandle(h) PROVE TypeOK'
  BY <1>3 DEF LoadHandle
<1>4. ASSUME NEW h \in Handles, NEW e \in Entities, BeginUse(h, e) PROVE TypeOK'
  BY <1>4 DEF BeginUse, AcceptsWork, Existing
<1>5. ASSUME NEW h \in Handles, CommitUse(h) PROVE TypeOK'
  <2>1. handleOf[h] \in Activities /\ using[h] \in Entities
    BY <1>5 DEF CommitUse, HandlesOK, Existing
  <2>. QED
    BY <1>5, <2>1 DEF CommitUse, NextRevision
<1>6. ASSUME NEW h \in Handles, FailUse(h) PROVE TypeOK'
  BY <1>6 DEF FailUse
<1>7. ASSUME NEW h \in Handles, SealInputs(h) PROVE TypeOK'
  <2>1. handleOf[h] \in Activities
    BY <1>7 DEF SealInputs, HandlesOK
  <2>. QED
    BY <1>7, <2>1 DEF SealInputs, NextRevision
<1>8. ASSUME NEW h \in Handles, NEW e \in Entities, NEW r \in HandleRequests(h),
                StartCapture(h, e, r) PROVE TypeOK'
  BY <1>8 DEF StartCapture, Counted, HandleRequests
<1>9. ASSUME NEW h \in Handles, NEW o \in Outcomes, FinishStart(h, o) PROVE TypeOK'
  BY <1>9 DEF FinishStart, AcceptsWork, AfterWait, Drained
<1>10. ASSUME NEW h \in Handles, FinishAwake(h) PROVE TypeOK'
  BY <1>10 DEF FinishAwake, AfterWait, Drained
<1>11. ASSUME NEW h \in Handles, FinishCancelled(h) PROVE TypeOK'
  BY <1>11 DEF FinishCancelled, Drained
<1>12. ASSUME NEW h \in Handles, FinishCommit(h) PROVE TypeOK'
  <2>1. handleOf[h] \in Activities /\ outcome[h] \in Outcomes
    BY <1>12 DEF FinishCommit, HandlesOK
  <2>. QED
    BY <1>12, <2>1 DEF FinishCommit, SealedBy, NextRevision
<1>13. ASSUME NEW h \in Handles, FinishReplay(h) PROVE TypeOK'
  BY <1>13 DEF FinishReplay
<1>14. ASSUME NEW h \in Handles, FinishFail(h) PROVE TypeOK'
  BY <1>14 DEF FinishFail
<1>15. ASSUME NEW h \in Handles, FinishReturn(h) PROVE TypeOK'
  BY <1>15 DEF FinishReturn, TerminalAfter
<1>16. ASSUME NEW h \in Handles, Crash(h) PROVE TypeOK'
  BY <1>16 DEF Crash, CallsOn, Forgotten, Existing
<1>17. ASSUME NEW e \in Entities, NEW r \in ImportRequests, StartImport(e, r) PROVE
                TypeOK'
  BY <1>17 DEF StartImport, ImportRequests
<1>18. ASSUME NEW e \in Entities, StageBlob(e) PROVE TypeOK'
  BY <1>18 DEF StageBlob, Advance, AfterStaging
<1>19. ASSUME NEW e \in Entities, CheckKey(e) PROVE TypeOK'
  BY <1>19 DEF CheckKey, Advance
<1>20. ASSUME NEW e \in Entities, PublishBlob(e) PROVE TypeOK'
  <2>1. request[e].blob \in Blobs
    BY <1>20 DEF PublishBlob, Advance, CallsOK
  <2>. QED
    BY <1>20, <2>1 DEF PublishBlob, Advance
<1>21. ASSUME NEW e \in Entities, RecordOutput(e) PROVE TypeOK'
  <2>1. request[e].activity \in Activities
    BY <1>21 DEF RecordOutput, CallsOK
  <2>2. answer' \in [Entities -> Entities \cup {NoEntity}]
    BY <1>21 DEF RecordOutput, Answered
  <2>3. sealedAt' \in [Activities -> Nat] /\ revision' \in Nat
    BY <1>21, <2>1 DEF RecordOutput, SealedBy, NextRevision
  <2>4. createdAt' \in [Entities -> Nat]
    BY <1>21 DEF RecordOutput, NextRevision
  <2>5. generatedBy' \in [Entities -> Activities \cup {NoActivity}]
    BY <1>21, <2>1 DEF RecordOutput
  <2>6. callPc' \in [Entities -> CallPcs]
    BY <1>21 DEF RecordOutput
  <2>. QED
    BY <1>21, <2>2, <2>3, <2>4, <2>5, <2>6 DEF RecordOutput
<1>22. ASSUME NEW e \in Entities, NEW a \in Activities, RecordImport(e, a) PROVE
                TypeOK'
  BY <1>22 DEF RecordImport, NextRevision, Answered
<1>23. ASSUME NEW e \in Entities, AnswerFromRecord(e) PROVE TypeOK'
  BY <1>23 DEF AnswerFromRecord, Recorded, Existing
<1>24. ASSUME NEW e \in Entities, FailCall(e) PROVE TypeOK'
  BY <1>24 DEF FailCall
<1>25. ASSUME NEW e \in Entities, ReturnCall(e) PROVE TypeOK'
  <2>1. request[e].handle \in Handles => captures[request[e].handle] > 0
    BY <1>25, RunningCall DEF ReturnCall, Advance
  <2>2. captures' \in [Handles -> Nat]
    BY <1>25, <2>1 DEF ReturnCall
  <2>3. finishPc' \in [Handles -> FinishPcs]
    BY <1>25 DEF ReturnCall, Woken
  <2>. QED
    BY <1>25, <2>2, <2>3 DEF ReturnCall, Advance, Unstaged
<1>26. ASSUME NEW e \in Entities, CrashImport(e) PROVE TypeOK'
  BY <1>26 DEF CrashImport, Forgotten, Existing
<1>27. ASSUME NEW e \in Entities, NEW a \in Activities, NEW members \in SUBSET
                Entities, AuthorFinding(e, a, members) PROVE TypeOK'
  BY <1>27 DEF AuthorFinding, NextRevision, Existing, Answered
<1>28. ASSUME NEW S \in SUBSET Activities, Interrupt(S) PROVE TypeOK'
  BY <1>28 DEF Interrupt, SealedBy, NextRevision
<1>29. CASE UNCHANGED vars
  BY <1>29 DEF vars
<1>. QED
  BY <1>1, <1>2, <1>3, <1>4, <1>5, <1>6, <1>7, <1>8, <1>9, <1>10, <1>11, <1>12, <1>13,
     <1>14, <1>15, <1>16, <1>17, <1>18, <1>19, <1>20, <1>21, <1>22, <1>23, <1>24,
     <1>25, <1>26, <1>27, <1>28, <1>29 DEF Next, OnHandle, FinishStep, CallStep

\* Only the eight steps of a transaction write the catalog.
LEMMA RowsStep ==
    ASSUME TypeOK, RowsOK, HandlesOK, CallsOK, [Next]_vars
    PROVE  RowsOK'
<1> USE OutcomeNames, Distinct DEF TypeOK, RowsOK
<1>1. ASSUME NEW h \in Handles, NEW a \in Activities, BeginActivity(h, a) PROVE
                RowsOK'
  BY <1>1 DEF BeginActivity, NextRevision
<1>2. ASSUME NEW h \in Handles, CommitUse(h) PROVE RowsOK'
  <2>1. handleOf[h] \in Activities /\ using[h] \in Existing
    BY <1>2 DEF CommitUse, HandlesOK
  <2>. QED
    BY <1>2, <2>1 DEF CommitUse, InputsOpen, NextRevision, Existing
<1>3. ASSUME NEW h \in Handles, SealInputs(h) PROVE RowsOK'
  <2>1. handleOf[h] \in Activities
    BY <1>3 DEF SealInputs, HandlesOK
  <2>. QED
    BY <1>3, <2>1 DEF SealInputs, InputsOpen, NextRevision
<1>4. ASSUME NEW e \in Entities, RecordOutput(e) PROVE RowsOK'
  <2>1. request[e].activity \in Activities /\ generatedBy[e] = NoActivity
    BY <1>4 DEF RecordOutput, CallsOK
  <2>. QED
    BY <1>4, <2>1 DEF RecordOutput, MayRecord, SealedBy, NextRevision
<1>5. ASSUME NEW e \in Entities, NEW a \in Activities, RecordImport(e, a) PROVE
                RowsOK'
  <2>1. generatedBy[e] = NoActivity
    BY <1>5 DEF RecordImport, CallsOK
  <2>. QED
    BY <1>5, <2>1 DEF RecordImport, NextRevision
<1>6. ASSUME NEW e \in Entities, NEW a \in Activities, NEW members \in SUBSET
                Entities, AuthorFinding(e, a, members) PROVE RowsOK'
  <2>1. generatedBy[e] = NoActivity
    BY <1>6 DEF AuthorFinding, CallsOK
  <2>. QED
    BY <1>6, <2>1 DEF AuthorFinding, NextRevision, Existing
<1>7. ASSUME NEW h \in Handles, FinishCommit(h) PROVE RowsOK'
  <2>1. handleOf[h] \in Activities /\ outcome[h] # "none"
    BY <1>7 DEF FinishCommit, HandlesOK
  <2>. QED
    BY <1>7, <2>1 DEF FinishCommit, SealedBy, NextRevision
<1>8. ASSUME NEW S \in SUBSET Activities, Interrupt(S) PROVE RowsOK'
  BY <1>8 DEF Interrupt, SealedBy, NextRevision
<1>9. CASE UNCHANGED catalog
  BY <1>9 DEF catalog
<1>. QED
  BY <1>1, <1>2, <1>3, <1>4, <1>5, <1>6, <1>7, <1>8, <1>9, CatalogCases

\* The steps that HandlesOK can tell apart.
LEMMA HandleCases ==
    ASSUME [Next]_vars
    PROVE  \/ UNCHANGED <<state, generatedBy, phase, handleOf, terminal, finishing, finishPc, using>>
           \/ \E h \in Handles, a \in Activities : BeginActivity(h, a)
           \/ \E h \in Handles, a \in Activities : ReplayBegin(h, a)
           \/ \E h \in Handles : LoadHandle(h)
           \/ \E h \in Handles, e \in Entities : BeginUse(h, e)
           \/ \E h \in Handles : CommitUse(h)
           \/ \E h \in Handles : FailUse(h)
           \/ \E h \in Handles, o \in Outcomes : FinishStart(h, o)
           \/ \E h \in Handles : FinishAwake(h)
           \/ \E h \in Handles : FinishCancelled(h)
           \/ \E h \in Handles : FinishCommit(h)
           \/ \E h \in Handles : FinishReplay(h)
           \/ \E h \in Handles : FinishFail(h)
           \/ \E h \in Handles : FinishReturn(h)
           \/ \E e \in Entities : ReturnCall(e)
           \/ \E h \in Handles : Crash(h)
           \/ \E e \in Entities : RecordOutput(e)
           \/ \E e \in Entities, a \in Activities : RecordImport(e, a)
           \/ \E e \in Entities, a \in Activities, members \in SUBSET Entities : AuthorFinding(e, a, members)
           \/ \E S \in SUBSET Activities : Interrupt(S)
  BY DEF Next, OnHandle, FinishStep, CallStep, vars, Advance, SealInputs,
         StartCapture, StartImport, StageBlob, CheckKey, PublishBlob,
         AnswerFromRecord, FailCall, CrashImport

LEMMA HandlesStep ==
    ASSUME TypeOK, RowsOK, HandlesOK, CallsOK, [Next]_vars
    PROVE  HandlesOK'
<1> USE OutcomeNames, Distinct DEF TypeOK, HandlesOK, Terminal, Existing, FinishPcs
<1>1. ASSUME NEW h \in Handles, NEW a \in Activities, BeginActivity(h, a) PROVE
                HandlesOK'
  BY <1>1 DEF BeginActivity
<1>2. ASSUME NEW h \in Handles, NEW a \in Activities, ReplayBegin(h, a) PROVE
                HandlesOK'
  <2>1. state[a] # "none"
    BY <1>2 DEF ReplayBegin, RowsOK
  <2>. QED
    BY <1>2, <2>1 DEF ReplayBegin
<1>3. ASSUME NEW h \in Handles, LoadHandle(h) PROVE HandlesOK'
  BY <1>3 DEF LoadHandle
<1>4. ASSUME NEW h \in Handles, NEW e \in Entities, BeginUse(h, e) PROVE HandlesOK'
  BY <1>4 DEF BeginUse, AcceptsWork, Existing
<1>5. ASSUME NEW h \in Handles, CommitUse(h) PROVE HandlesOK'
  BY <1>5 DEF CommitUse
<1>6. ASSUME NEW h \in Handles, FailUse(h) PROVE HandlesOK'
  BY <1>6 DEF FailUse
<1>7. ASSUME NEW h \in Handles, NEW o \in Outcomes, FinishStart(h, o) PROVE HandlesOK'
  BY <1>7 DEF FinishStart, AcceptsWork, AfterWait, Drained
<1>8. ASSUME NEW h \in Handles, FinishAwake(h) PROVE HandlesOK'
  BY <1>8 DEF FinishAwake, AfterWait, Drained
<1>9. ASSUME NEW h \in Handles, FinishCancelled(h) PROVE HandlesOK'
  BY <1>9 DEF FinishCancelled, Drained
<1>10. ASSUME NEW h \in Handles, FinishCommit(h) PROVE HandlesOK'
  BY <1>10 DEF FinishCommit
<1>11. ASSUME NEW h \in Handles, FinishReplay(h) PROVE HandlesOK'
  BY <1>11 DEF FinishReplay
<1>12. ASSUME NEW h \in Handles, FinishFail(h) PROVE HandlesOK'
  BY <1>12 DEF FinishFail
<1>13. ASSUME NEW h \in Handles, FinishReturn(h) PROVE HandlesOK'
  BY <1>13 DEF FinishReturn, TerminalAfter
<1>14. ASSUME NEW e \in Entities, ReturnCall(e) PROVE HandlesOK'
  BY <1>14 DEF ReturnCall, Woken
<1>15. ASSUME NEW h \in Handles, Crash(h) PROVE HandlesOK'
  BY <1>15 DEF Crash
<1>16. ASSUME NEW e \in Entities, RecordOutput(e) PROVE HandlesOK'
  <2>1. request[e].activity \in Activities
    BY <1>16 DEF RecordOutput, CallsOK
  <2>. QED
    BY <1>16, <2>1 DEF RecordOutput
<1>17. ASSUME NEW e \in Entities, NEW a \in Activities, RecordImport(e, a) PROVE
                HandlesOK'
  BY <1>17 DEF RecordImport
<1>18. ASSUME NEW e \in Entities, NEW a \in Activities, NEW members \in SUBSET
                Entities, AuthorFinding(e, a, members) PROVE HandlesOK'
  BY <1>18 DEF AuthorFinding
<1>19. ASSUME NEW S \in SUBSET Activities, Interrupt(S) PROVE HandlesOK'
  BY <1>19 DEF Interrupt
<1>20. CASE UNCHANGED <<state, generatedBy, phase, handleOf, terminal, finishing, finishPc, using>>
  BY <1>20 DEF TypeOK
<1>. QED
  BY <1>1, <1>2, <1>3, <1>4, <1>5, <1>6, <1>7, <1>8, <1>9, <1>10, <1>11, <1>12, <1>13,
     <1>14, <1>15, <1>16, <1>17, <1>18, <1>19, <1>20, HandleCases

\* The steps that CallsOK can tell apart.
LEMMA CallOrPhaseCases ==
    ASSUME [Next]_vars
    PROVE  \/ UNCHANGED <<calls, generatedBy, phase>>
           \/ \E h \in Handles, a \in Activities : BeginActivity(h, a)
           \/ \E h \in Handles, a \in Activities : ReplayBegin(h, a)
           \/ \E h \in Handles : LoadHandle(h)
           \/ \E h \in Handles, e \in Entities : \E r \in HandleRequests(h) : StartCapture(h, e, r)
           \/ \E e \in Entities : \E r \in ImportRequests : StartImport(e, r)
           \/ \E e \in Entities : StageBlob(e)
           \/ \E e \in Entities : CheckKey(e)
           \/ \E e \in Entities : PublishBlob(e)
           \/ \E e \in Entities : RecordOutput(e)
           \/ \E e \in Entities, a \in Activities : RecordImport(e, a)
           \/ \E e \in Entities : AnswerFromRecord(e)
           \/ \E e \in Entities : FailCall(e)
           \/ \E e \in Entities : ReturnCall(e)
           \/ \E e \in Entities, a \in Activities, members \in SUBSET Entities : AuthorFinding(e, a, members)
           \/ \E h \in Handles : Crash(h)
           \/ \E e \in Entities : CrashImport(e)
  BY DEF Next, OnHandle, FinishStep, CallStep, vars, Advance, BeginUse, CommitUse,
         FailUse, SealInputs, FinishStart, FinishAwake, FinishCancelled,
         FinishCommit, FinishReplay, FinishFail, FinishReturn, Interrupt

LEMMA CallsStep ==
    ASSUME TypeOK, HandlesOK, CallsOK, [Next]_vars
    PROVE  CallsOK'
<1> USE Distinct DEF TypeOK, CallsOK, CallPcs, Requests
<1>1. ASSUME NEW h \in Handles, NEW a \in Activities, BeginActivity(h, a) PROVE
                CallsOK'
  BY <1>1 DEF BeginActivity
<1>2. ASSUME NEW h \in Handles, NEW a \in Activities, ReplayBegin(h, a) PROVE CallsOK'
  BY <1>2 DEF ReplayBegin
<1>3. ASSUME NEW h \in Handles, LoadHandle(h) PROVE CallsOK'
  BY <1>3 DEF LoadHandle
<1>4. ASSUME NEW h \in Handles, NEW e \in Entities, NEW r \in HandleRequests(h),
                StartCapture(h, e, r) PROVE CallsOK'
  <2>1. handleOf[h] \in Activities /\ phase[h] = "open"
    BY <1>4 DEF StartCapture, AcceptsWork, HandlesOK
  <2>2. /\ r \in Requests /\ r.kind \in HandleKinds
        /\ r.handle = h /\ r.activity = handleOf[h]
        /\ r.kind = "object" => r.blob \in Blobs
    BY <2>1 DEF HandleRequests
  <2>. QED
    BY <1>4, <2>1, <2>2 DEF StartCapture
<1>5. ASSUME NEW e \in Entities, NEW r \in ImportRequests, StartImport(e, r) PROVE
                CallsOK'
  BY <1>5 DEF StartImport, ImportRequests
<1>6. ASSUME NEW e \in Entities, StageBlob(e) PROVE CallsOK'
  BY <1>6 DEF StageBlob, Advance, AfterStaging
<1>7. ASSUME NEW e \in Entities, CheckKey(e) PROVE CallsOK'
  BY <1>7 DEF CheckKey, Advance
<1>8. ASSUME NEW e \in Entities, PublishBlob(e) PROVE CallsOK'
  BY <1>8 DEF PublishBlob, Advance
<1>9. ASSUME NEW e \in Entities, RecordOutput(e) PROVE CallsOK'
  BY <1>9 DEF RecordOutput, Answered
<1>10. ASSUME NEW e \in Entities, NEW a \in Activities, RecordImport(e, a) PROVE
                CallsOK'
  BY <1>10 DEF RecordImport, Answered
<1>11. ASSUME NEW e \in Entities, AnswerFromRecord(e) PROVE CallsOK'
  BY <1>11 DEF AnswerFromRecord, Recorded, Existing
<1>12. ASSUME NEW e \in Entities, FailCall(e) PROVE CallsOK'
  BY <1>12 DEF FailCall
<1>13. ASSUME NEW e \in Entities, ReturnCall(e) PROVE CallsOK'
  BY <1>13 DEF ReturnCall, Advance, Forgotten, Existing
<1>14. ASSUME NEW e \in Entities, NEW a \in Activities, NEW members \in SUBSET
                Entities, AuthorFinding(e, a, members) PROVE CallsOK'
  BY <1>14 DEF AuthorFinding, Answered
<1>15. ASSUME NEW h \in Handles, Crash(h) PROVE CallsOK'
  BY <1>15 DEF Crash, CallsOn, Forgotten, Existing
<1>16. ASSUME NEW e \in Entities, CrashImport(e) PROVE CallsOK'
  BY <1>16 DEF CrashImport, Forgotten, Existing
<1>17. CASE UNCHANGED <<calls, generatedBy, phase>>
  BY <1>17 DEF CallsOK
<1>. QED
  BY <1>1, <1>2, <1>3, <1>4, <1>5, <1>6, <1>7, <1>8, <1>9, <1>10, <1>11, <1>12, <1>13,
     <1>14, <1>15, <1>16, <1>17, CallOrPhaseCases

\* The blob of an object is published before the row, and never removed.
LEMMA BlobsStep ==
    ASSUME TypeOK, CallsOK, BlobsOK, [Next]_vars
    PROVE  BlobsOK'
<1> USE DEF TypeOK, CallsOK, BlobsOK, IsObject, Requests
<1>1. ASSUME NEW h \in Handles, NEW e \in Entities, NEW r \in HandleRequests(h),
                StartCapture(h, e, r) PROVE BlobsOK'
  <2>1. r.kind # "object" => ~(r.kind \in {"object", "evidence"})
    BY DEF HandleRequests
  <2>. QED
    BY <1>1, <2>1 DEF StartCapture
<1>2. ASSUME NEW e \in Entities, NEW r \in ImportRequests, StartImport(e, r) PROVE
                BlobsOK'
  BY <1>2 DEF StartImport, ImportRequests
<1>3. ASSUME NEW e \in Entities, StageBlob(e) PROVE BlobsOK'
  BY <1>3 DEF StageBlob, Advance, AfterStaging
<1>4. ASSUME NEW e \in Entities, CheckKey(e) PROVE BlobsOK'
  BY <1>4 DEF CheckKey, Advance
<1>5. ASSUME NEW e \in Entities, PublishBlob(e) PROVE BlobsOK'
  BY <1>5 DEF PublishBlob, Advance
<1>6. ASSUME NEW e \in Entities, RecordOutput(e) PROVE BlobsOK'
  BY <1>6 DEF RecordOutput
<1>7. ASSUME NEW e \in Entities, NEW a \in Activities, RecordImport(e, a) PROVE
                BlobsOK'
  BY <1>7 DEF RecordImport
<1>8. ASSUME NEW e \in Entities, AnswerFromRecord(e) PROVE BlobsOK'
  BY <1>8 DEF AnswerFromRecord
<1>9. ASSUME NEW e \in Entities, FailCall(e) PROVE BlobsOK'
  BY <1>9 DEF FailCall
<1>10. ASSUME NEW e \in Entities, ReturnCall(e) PROVE BlobsOK'
  BY <1>10 DEF ReturnCall, Advance, Forgotten, Existing
<1>11. ASSUME NEW e \in Entities, NEW a \in Activities, NEW members \in SUBSET
                Entities, AuthorFinding(e, a, members) PROVE BlobsOK'
  BY <1>11 DEF AuthorFinding
<1>12. ASSUME NEW h \in Handles, Crash(h) PROVE BlobsOK'
  BY <1>12 DEF Crash, Forgotten, Existing
<1>13. ASSUME NEW e \in Entities, CrashImport(e) PROVE BlobsOK'
  BY <1>13 DEF CrashImport, Forgotten, Existing
<1>14. CASE UNCHANGED <<calls, files, generatedBy>>
  BY <1>14 DEF BlobsOK
<1>. QED
  BY <1>1, <1>2, <1>3, <1>4, <1>5, <1>6, <1>7, <1>8, <1>9, <1>10, <1>11, <1>12, <1>13,
     <1>14, CallCases

\* The steps that change what a Finish waits for, or where it stands.
LEMMA DrainCases ==
    ASSUME [Next]_vars
    PROVE  \/ UNCHANGED <<calls, captures, finishPc>>
           \/ \E h \in Handles, e \in Entities : \E r \in HandleRequests(h) : StartCapture(h, e, r)
           \/ \E e \in Entities : \E r \in ImportRequests : StartImport(e, r)
           \/ \E e \in Entities : StageBlob(e)
           \/ \E e \in Entities : CheckKey(e)
           \/ \E e \in Entities : PublishBlob(e)
           \/ \E e \in Entities : RecordOutput(e)
           \/ \E e \in Entities, a \in Activities : RecordImport(e, a)
           \/ \E e \in Entities : AnswerFromRecord(e)
           \/ \E e \in Entities : FailCall(e)
           \/ \E e \in Entities : ReturnCall(e)
           \/ \E e \in Entities, a \in Activities, members \in SUBSET Entities : AuthorFinding(e, a, members)
           \/ \E h \in Handles : Crash(h)
           \/ \E e \in Entities : CrashImport(e)
           \/ \E h \in Handles, o \in Outcomes : FinishStart(h, o)
           \/ \E h \in Handles : FinishAwake(h)
           \/ \E h \in Handles : FinishCancelled(h)
           \/ \E h \in Handles : FinishCommit(h)
           \/ \E h \in Handles : FinishReplay(h)
           \/ \E h \in Handles : FinishFail(h)
           \/ \E h \in Handles : FinishReturn(h)
  BY DEF Next, OnHandle, FinishStep, CallStep, vars, Advance, BeginActivity,
         ReplayBegin, LoadHandle, BeginUse, CommitUse, FailUse, SealInputs,
         Interrupt

\* The counter of a handle is the number of calls on it.
LEMMA DrainStep ==
    ASSUME TypeOK, HandlesOK, CallsOK, FinishDrainsItsHandle, [Next]_vars
    PROVE  FinishDrainsItsHandle'
<1> USE Distinct DEF TypeOK, FinishDrainsItsHandle
<1>1. ASSUME NEW h \in Handles, NEW e \in Entities, NEW r \in HandleRequests(h),
                StartCapture(h, e, r) PROVE FinishDrainsItsHandle'
  <2>1. r.handle = h /\ e \notin CallsOn(h) /\ finishPc[h] = "idle"
    BY <1>1 DEF StartCapture, AcceptsWork, HandleRequests, HandlesOK, CallsOn
  <2>2. CallsOn(h)' = CallsOn(h) \cup {e}
    BY <1>1, <2>1 DEF StartCapture, CallsOn, CallPcs
  <2>3. \A x \in Handles : x # h => CallsOn(x)' = CallsOn(x)
    BY <1>1, <2>1 DEF StartCapture, CallsOn
  <2>4. Cardinality(CallsOn(h) \cup {e}) = Cardinality(CallsOn(h)) + 1
    BY <2>1, FiniteCalls, FS_AddElement
  <2>5. Cardinality(CallsOn(h)') = Cardinality(CallsOn(h)) + 1
    BY <2>2, <2>4
  <2>. QED
    BY <1>1, <2>1, <2>3, <2>5 DEF StartCapture, Counted
<1>2. ASSUME NEW e \in Entities, NEW r \in ImportRequests, StartImport(e, r) PROVE
                FinishDrainsItsHandle'
  <2>1. \A x \in Handles : CallsOn(x)' = CallsOn(x)
    BY <1>2 DEF CallsOn, StartImport, ImportRequests
  <2>. QED
    BY <1>2, <2>1 DEF StartImport
<1>3. ASSUME NEW e \in Entities, StageBlob(e) PROVE FinishDrainsItsHandle'
  <2>1. \A x \in Handles : CallsOn(x)' = CallsOn(x)
    BY <1>3 DEF CallsOn, StageBlob, Advance, AfterStaging
  <2>. QED
    BY <1>3, <2>1 DEF StageBlob
<1>4. ASSUME NEW e \in Entities, CheckKey(e) PROVE FinishDrainsItsHandle'
  <2>1. \A x \in Handles : CallsOn(x)' = CallsOn(x)
    BY <1>4 DEF CallsOn, CheckKey, Advance, AfterStaging
  <2>. QED
    BY <1>4, <2>1 DEF CheckKey
<1>5. ASSUME NEW e \in Entities, PublishBlob(e) PROVE FinishDrainsItsHandle'
  <2>1. \A x \in Handles : CallsOn(x)' = CallsOn(x)
    BY <1>5 DEF CallsOn, PublishBlob, Advance, AfterStaging
  <2>. QED
    BY <1>5, <2>1 DEF PublishBlob
<1>6. ASSUME NEW e \in Entities, RecordOutput(e) PROVE FinishDrainsItsHandle'
  <2>1. \A x \in Handles : CallsOn(x)' = CallsOn(x)
    BY <1>6 DEF CallsOn, RecordOutput
  <2>. QED
    BY <1>6, <2>1 DEF RecordOutput
<1>7. ASSUME NEW e \in Entities, NEW a \in Activities, RecordImport(e, a) PROVE
                FinishDrainsItsHandle'
  <2>1. \A x \in Handles : CallsOn(x)' = CallsOn(x)
    BY <1>7 DEF CallsOn, RecordImport
  <2>. QED
    BY <1>7, <2>1 DEF RecordImport
<1>8. ASSUME NEW e \in Entities, AnswerFromRecord(e) PROVE FinishDrainsItsHandle'
  <2>1. \A x \in Handles : CallsOn(x)' = CallsOn(x)
    BY <1>8 DEF CallsOn, AnswerFromRecord
  <2>. QED
    BY <1>8, <2>1 DEF AnswerFromRecord
<1>9. ASSUME NEW e \in Entities, FailCall(e) PROVE FinishDrainsItsHandle'
  <2>1. \A x \in Handles : CallsOn(x)' = CallsOn(x)
    BY <1>9 DEF CallsOn, FailCall
  <2>. QED
    BY <1>9, <2>1 DEF FailCall
<1>10. ASSUME NEW e \in Entities, ReturnCall(e) PROVE FinishDrainsItsHandle'
  <2>. PICK g : g = request[e].handle
    OBVIOUS
  <2>1. \A x \in Handles : x # g => CallsOn(x)' = CallsOn(x)
    BY <1>10 DEF ReturnCall, Advance, CallsOn
  <2>2. CASE g \in Handles
    <3>0. e \in CallsOn(g)
      BY <1>10 DEF ReturnCall, Advance, CallsOn
    <3>1. CallsOn(g)' = CallsOn(g) \ {e}
      BY <1>10 DEF ReturnCall, Advance, CallsOn
    <3>a. Cardinality(CallsOn(g) \ {e}) = Cardinality(CallsOn(g)) - 1
      <4>1. IsFiniteSet(CallsOn(g))
        BY FiniteCalls
      <4>. QED
        BY <3>0, <4>1, FS_RemoveElement, ZenonT(40)
    <3>2. Cardinality(CallsOn(g)') = Cardinality(CallsOn(g)) - 1
      BY <3>1, <3>a
    <3>3. captures' = [captures EXCEPT ![g] = @ - 1]
          /\ finishPc' = [finishPc EXCEPT ![g] = Woken(g)]
      BY <1>10, <2>2 DEF ReturnCall
    <3>4. finishPc[g] \notin {"writing", "acked", "refused"}
      BY <2>2, <3>0
    <3>5. Woken(g) \notin {"writing", "acked", "refused"}
      BY <3>4 DEF Woken
    <3>. QED
      BY <2>1, <2>2, <3>2, <3>3, <3>5
  <2>3. CASE g \notin Handles
    BY <1>10, <2>1, <2>3 DEF ReturnCall
  <2>. QED
    BY <2>2, <2>3
<1>11. ASSUME NEW e \in Entities, NEW a \in Activities, NEW members \in SUBSET
                Entities, AuthorFinding(e, a, members) PROVE FinishDrainsItsHandle'
  <2>1. \A x \in Handles : CallsOn(x)' = CallsOn(x)
    BY <1>11 DEF CallsOn, AuthorFinding
  <2>. QED
    BY <1>11, <2>1 DEF AuthorFinding
<1>12. ASSUME NEW h \in Handles, Crash(h) PROVE FinishDrainsItsHandle'
  <2>1. CallsOn(h)' = {}
    BY <1>12 DEF Crash, CallsOn
  <2>2. \A x \in Handles : x # h => CallsOn(x)' = CallsOn(x)
    BY <1>12 DEF Crash, CallsOn
  <2>3. Cardinality(CallsOn(h)') = 0
    BY <2>1, FS_EmptySet
  <2>. QED
    BY <1>12, <2>2, <2>3 DEF Crash
<1>13. ASSUME NEW e \in Entities, CrashImport(e) PROVE FinishDrainsItsHandle'
  <2>1. \A x \in Handles : CallsOn(x)' = CallsOn(x)
    BY <1>13 DEF CallsOn, CrashImport
  <2>. QED
    BY <1>13, <2>1 DEF CrashImport
<1>14. ASSUME NEW h \in Handles, NEW o \in Outcomes, FinishStart(h, o) PROVE
                FinishDrainsItsHandle'
  <2>1. \A x \in Handles : CallsOn(x)' = CallsOn(x)
    BY <1>14 DEF CallsOn, FinishStart
  <2>2. captures[h] = 0 => CallsOn(h) = {}
    BY FiniteCalls, FS_EmptySet
  <2>. QED
    BY <1>14, <2>1, <2>2 DEF FinishStart, AfterWait, Drained
<1>15. ASSUME NEW h \in Handles, FinishAwake(h) PROVE FinishDrainsItsHandle'
  <2>1. \A x \in Handles : CallsOn(x)' = CallsOn(x)
    BY <1>15 DEF CallsOn, FinishAwake
  <2>2. captures[h] = 0 => CallsOn(h) = {}
    BY FiniteCalls, FS_EmptySet
  <2>. QED
    BY <1>15, <2>1, <2>2 DEF FinishAwake, AfterWait, Drained
<1>16. ASSUME NEW h \in Handles, FinishCancelled(h) PROVE FinishDrainsItsHandle'
  <2>1. \A x \in Handles : CallsOn(x)' = CallsOn(x)
    BY <1>16 DEF CallsOn, FinishCancelled
  <2>. QED
    BY <1>16, <2>1 DEF FinishCancelled
<1>17. ASSUME NEW h \in Handles, FinishCommit(h) PROVE FinishDrainsItsHandle'
  <2>1. \A x \in Handles : CallsOn(x)' = CallsOn(x)
    BY <1>17 DEF CallsOn, FinishCommit
  <2>. QED
    BY <1>17, <2>1 DEF FinishCommit
<1>18. ASSUME NEW h \in Handles, FinishReplay(h) PROVE FinishDrainsItsHandle'
  <2>1. \A x \in Handles : CallsOn(x)' = CallsOn(x)
    BY <1>18 DEF CallsOn, FinishReplay
  <2>. QED
    BY <1>18, <2>1 DEF FinishReplay
<1>19. ASSUME NEW h \in Handles, FinishFail(h) PROVE FinishDrainsItsHandle'
  <2>1. \A x \in Handles : CallsOn(x)' = CallsOn(x)
    BY <1>19 DEF CallsOn, FinishFail
  <2>. QED
    BY <1>19, <2>1 DEF FinishFail
<1>20. ASSUME NEW h \in Handles, FinishReturn(h) PROVE FinishDrainsItsHandle'
  <2>1. \A x \in Handles : CallsOn(x)' = CallsOn(x)
    BY <1>20 DEF CallsOn, FinishReturn
  <2>. QED
    BY <1>20, <2>1 DEF FinishReturn
<1>21. CASE UNCHANGED <<calls, captures, finishPc>>
  <2>1. \A x \in Handles : CallsOn(x)' = CallsOn(x)
    BY <1>21 DEF CallsOn
  <2>. QED
    BY <1>21, <2>1
<1>. QED
  BY <1>1, <1>2, <1>3, <1>4, <1>5, <1>6, <1>7, <1>8, <1>9, <1>10, <1>11, <1>12, <1>13,
     <1>14, <1>15, <1>16, <1>17, <1>18, <1>19, <1>20, <1>21, DrainCases

\* The key is looked up again in the transaction that records the result.
LEMMA KeyStep ==
    ASSUME TypeOK, CallsOK, OneResultPerKey, [Next]_vars
    PROVE  OneResultPerKey'
<1> USE DEF TypeOK, CallsOK, OneResultPerKey, Existing
<1>1. ASSUME NEW h \in Handles, NEW e \in Entities, NEW r \in HandleRequests(h),
                StartCapture(h, e, r) PROVE OneResultPerKey'
  BY <1>1 DEF StartCapture
<1>2. ASSUME NEW e \in Entities, NEW r \in ImportRequests, StartImport(e, r) PROVE
                OneResultPerKey'
  BY <1>2 DEF StartImport
<1>3. ASSUME NEW e \in Entities, StageBlob(e) PROVE OneResultPerKey'
  BY <1>3 DEF StageBlob, Advance
<1>4. ASSUME NEW e \in Entities, CheckKey(e) PROVE OneResultPerKey'
  BY <1>4 DEF CheckKey, Advance
<1>5. ASSUME NEW e \in Entities, PublishBlob(e) PROVE OneResultPerKey'
  BY <1>5 DEF PublishBlob, Advance
<1>6. ASSUME NEW e \in Entities, RecordOutput(e) PROVE OneResultPerKey'
  BY <1>6 DEF RecordOutput, KeyUnused, Recorded
<1>7. ASSUME NEW e \in Entities, NEW a \in Activities, RecordImport(e, a) PROVE
                OneResultPerKey'
  BY <1>7 DEF RecordImport, KeyUnused, Recorded
<1>8. ASSUME NEW e \in Entities, AnswerFromRecord(e) PROVE OneResultPerKey'
  BY <1>8 DEF AnswerFromRecord
<1>9. ASSUME NEW e \in Entities, FailCall(e) PROVE OneResultPerKey'
  BY <1>9 DEF FailCall
<1>10. ASSUME NEW e \in Entities, ReturnCall(e) PROVE OneResultPerKey'
  BY <1>10 DEF ReturnCall, Advance, Forgotten
<1>11. ASSUME NEW e \in Entities, NEW a \in Activities, NEW members \in SUBSET
                Entities, AuthorFinding(e, a, members) PROVE OneResultPerKey'
  BY <1>11 DEF AuthorFinding
<1>12. ASSUME NEW h \in Handles, Crash(h) PROVE OneResultPerKey'
  BY <1>12 DEF Crash, Forgotten
<1>13. ASSUME NEW e \in Entities, CrashImport(e) PROVE OneResultPerKey'
  BY <1>13 DEF CrashImport, Forgotten
<1>14. CASE UNCHANGED <<calls, files, generatedBy>>
  BY <1>14 DEF TypeOK
<1>. QED
  BY <1>1, <1>2, <1>3, <1>4, <1>5, <1>6, <1>7, <1>8, <1>9, <1>10, <1>11, <1>12, <1>13,
     <1>14, CallCases

\* An answer is the entity just recorded, or one recorded for the same request.
LEMMA AnswersStep ==
    ASSUME TypeOK, CallsOK, AnswersAreRecorded, [Next]_vars
    PROVE  AnswersAreRecorded'
<1> USE Distinct DEF TypeOK, CallsOK, AnswersAreRecorded, Existing
<1>1. ASSUME NEW h \in Handles, NEW e \in Entities, NEW r \in HandleRequests(h),
                StartCapture(h, e, r) PROVE AnswersAreRecorded'
  BY <1>1 DEF StartCapture
<1>2. ASSUME NEW e \in Entities, NEW r \in ImportRequests, StartImport(e, r) PROVE
                AnswersAreRecorded'
  BY <1>2 DEF StartImport
<1>3. ASSUME NEW e \in Entities, StageBlob(e) PROVE AnswersAreRecorded'
  BY <1>3 DEF StageBlob, Advance
<1>4. ASSUME NEW e \in Entities, CheckKey(e) PROVE AnswersAreRecorded'
  BY <1>4 DEF CheckKey, Advance
<1>5. ASSUME NEW e \in Entities, PublishBlob(e) PROVE AnswersAreRecorded'
  BY <1>5 DEF PublishBlob, Advance
<1>6. ASSUME NEW e \in Entities, RecordOutput(e) PROVE AnswersAreRecorded'
  BY <1>6 DEF RecordOutput, Answered
<1>7. ASSUME NEW e \in Entities, NEW a \in Activities, RecordImport(e, a) PROVE
                AnswersAreRecorded'
  BY <1>7 DEF RecordImport, Answered
<1>8. ASSUME NEW e \in Entities, AnswerFromRecord(e) PROVE AnswersAreRecorded'
  BY <1>8 DEF AnswerFromRecord, Recorded, SameFingerprint
<1>9. ASSUME NEW e \in Entities, FailCall(e) PROVE AnswersAreRecorded'
  BY <1>9 DEF FailCall
<1>10. ASSUME NEW e \in Entities, ReturnCall(e) PROVE AnswersAreRecorded'
  BY <1>10 DEF ReturnCall, Advance, Forgotten
<1>11. ASSUME NEW e \in Entities, NEW a \in Activities, NEW members \in SUBSET
                Entities, AuthorFinding(e, a, members) PROVE AnswersAreRecorded'
  BY <1>11 DEF AuthorFinding, Answered
<1>12. ASSUME NEW h \in Handles, Crash(h) PROVE AnswersAreRecorded'
  BY <1>12 DEF Crash, Forgotten
<1>13. ASSUME NEW e \in Entities, CrashImport(e) PROVE AnswersAreRecorded'
  BY <1>13 DEF CrashImport, Forgotten
<1>14. CASE UNCHANGED <<calls, files, generatedBy>>
  BY <1>14 DEF TypeOK
<1>. QED
  BY <1>1, <1>2, <1>3, <1>4, <1>5, <1>6, <1>7, <1>8, <1>9, <1>10, <1>11, <1>12, <1>13,
     <1>14, CallCases

\* Every return of a call removes its staging file.
LEMMA StagingStep ==
    ASSUME TypeOK, StagingLeftByCrashOnly, [Next]_vars
    PROVE  StagingLeftByCrashOnly'
<1> USE DEF TypeOK, CallPcs, StagingLeftByCrashOnly
<1>1. ASSUME NEW h \in Handles, NEW e \in Entities, NEW r \in HandleRequests(h),
                StartCapture(h, e, r) PROVE StagingLeftByCrashOnly'
  BY <1>1 DEF StartCapture
<1>2. ASSUME NEW e \in Entities, NEW r \in ImportRequests, StartImport(e, r) PROVE
                StagingLeftByCrashOnly'
  BY <1>2 DEF StartImport
<1>3. ASSUME NEW e \in Entities, StageBlob(e) PROVE StagingLeftByCrashOnly'
  BY <1>3 DEF StageBlob, Advance, AfterStaging
<1>4. ASSUME NEW e \in Entities, CheckKey(e) PROVE StagingLeftByCrashOnly'
  BY <1>4 DEF CheckKey, Advance
<1>5. ASSUME NEW e \in Entities, PublishBlob(e) PROVE StagingLeftByCrashOnly'
  BY <1>5 DEF PublishBlob, Advance
<1>6. ASSUME NEW e \in Entities, RecordOutput(e) PROVE StagingLeftByCrashOnly'
  BY <1>6 DEF RecordOutput
<1>7. ASSUME NEW e \in Entities, NEW a \in Activities, RecordImport(e, a) PROVE
                StagingLeftByCrashOnly'
  BY <1>7 DEF RecordImport
<1>8. ASSUME NEW e \in Entities, AnswerFromRecord(e) PROVE StagingLeftByCrashOnly'
  BY <1>8 DEF AnswerFromRecord
<1>9. ASSUME NEW e \in Entities, FailCall(e) PROVE StagingLeftByCrashOnly'
  BY <1>9 DEF FailCall
<1>10. ASSUME NEW e \in Entities, ReturnCall(e) PROVE StagingLeftByCrashOnly'
  BY <1>10 DEF ReturnCall, Advance, Unstaged
<1>11. ASSUME NEW e \in Entities, NEW a \in Activities, NEW members \in SUBSET
                Entities, AuthorFinding(e, a, members) PROVE StagingLeftByCrashOnly'
  BY <1>11 DEF AuthorFinding
<1>12. ASSUME NEW h \in Handles, Crash(h) PROVE StagingLeftByCrashOnly'
  BY <1>12 DEF Crash, CallsOn
<1>13. ASSUME NEW e \in Entities, CrashImport(e) PROVE StagingLeftByCrashOnly'
  BY <1>13 DEF CrashImport, Forgotten
<1>14. CASE UNCHANGED <<calls, files, generatedBy>>
  BY <1>14 DEF TypeOK
<1>. QED
  BY <1>1, <1>2, <1>3, <1>4, <1>5, <1>6, <1>7, <1>8, <1>9, <1>10, <1>11, <1>12, <1>13,
     <1>14, CallCases

----------------------------------------------------------------------------
LEMMA InitIInv == Init => IInv
<1> SUFFICES ASSUME Init PROVE IInv
  OBVIOUS
<1>1. TypeOK
  BY OutcomeNames DEF Init, TypeOK, CallPcs, FinishPcs
<1>2. RowsOK
  BY Distinct DEF Init, RowsOK
<1>3. HandlesOK
  BY DEF Init, HandlesOK
<1>4. CallsOK /\ BlobsOK /\ OneResultPerKey /\ AnswersAreRecorded
  BY DEF Init, CallsOK, BlobsOK, OneResultPerKey, AnswersAreRecorded, Existing
<1>5. StagingLeftByCrashOnly
  BY DEF Init, StagingLeftByCrashOnly
<1>6. FinishDrainsItsHandle
  <2>1. \A h \in Handles : CallsOn(h) = {}
    BY DEF Init, CallsOn
  <2>. QED
    BY <2>1, FS_EmptySet DEF Init, FinishDrainsItsHandle
<1>. QED
  BY <1>1, <1>2, <1>3, <1>4, <1>5, <1>6 DEF IInv

LEMMA IInvStep == IInv /\ [Next]_vars => IInv'
  BY TypeStep, RowsStep, HandlesStep, CallsStep, BlobsStep, DrainStep, KeyStep,
     AnswersStep, StagingStep DEF IInv

\* IInv is inductive: it holds in every state of every case.
THEOREM IInvHolds == Spec => []IInv
  BY InitIInv, IInvStep, PTL DEF Spec

\* Every variable has its type, for any number of handles, calls and crashes:
\* in particular the counter of captures never falls below zero (endCapture).
THEOREM TypeCorrect == Spec => []TypeOK
<1>1. IInv => TypeOK
  BY DEF IInv
<1>. QED
  BY <1>1, IInvHolds, PTL

\* The first output seals the inputs of its activity, under concurrent Use,
\* SealInputs and captures of any number of handles: an input is strictly older
\* than the seal and an output is not (activity.go, Use and captureStaged).
THEOREM InputsAreOlder == Spec => []InputsPrecedeOutputs
<1>1. IInv => InputsPrecedeOutputs
  BY DEF IInv, TypeOK, RowsOK, InputsPrecedeOutputs, Outputs
<1>. QED
  BY <1>1, IInvHolds, PTL

\* No row of the catalog refers to bytes that are not in the blob store,
\* whatever crashed and when (publishBlob before Case.mutate).
THEOREM BytesBeforeRows == Spec => []NoDanglingBlob
<1>1. IInv => NoDanglingBlob
  BY DEF IInv, BlobsOK, NoDanglingBlob, Existing
<1>. QED
  BY <1>1, IInvHolds, PTL

\* The counter of a handle is the number of calls that run on it, and Finish
\* reaches its transaction only when there is none (activity.go, Finish).
THEOREM HandleIsDrained == Spec => []FinishDrainsItsHandle
<1>1. IInv => FinishDrainsItsHandle
  BY DEF IInv
<1>. QED
  BY <1>1, IInvHolds, PTL

\* A key has one result in its scope, however many calls carry it at once.
THEOREM KeysAreUnique == Spec => []OneResultPerKey
<1>1. IInv => OneResultPerKey
  BY DEF IInv
<1>. QED
  BY <1>1, IInvHolds, PTL

\* A call that returns without an error returns a committed result of the
\* request it was given.
THEOREM AnswersAreTrue == Spec => []AnswersAreRecorded
<1>1. IInv => AnswersAreRecorded
  BY DEF IInv
<1>. QED
  BY <1>1, IInvHolds, PTL

\* Only a process that died leaves a file under staging/ingest.
THEOREM StagingIsSwept == Spec => []StagingLeftByCrashOnly
<1>1. IInv => StagingLeftByCrashOnly
  BY DEF IInv
<1>. QED
  BY <1>1, IInvHolds, PTL

\* A handle that refuses work as terminal stands for a terminal activity.
THEOREM TerminalFlag == Spec => []TerminalFlagIsTrue
<1>1. IInv => TerminalFlagIsTrue
  BY DEF IInv, HandlesOK, TerminalFlagIsTrue
<1>. QED
  BY <1>1, IInvHolds, PTL
----------------------------------------------------------------------------
\* Each step of the code is a step of the abstract promise, or none: the
\* transactions of BeginActivity, Use, captureStaged, importEvidenceStaged,
\* AuthorFinding, Finish and MarkActivitiesInterrupted are its actions.
LEMMA ProvenanceStep ==
    ASSUME IInv, [Next]_vars
    PROVE  [P!ProvNext]_P!provVars
<1> USE Distinct, OutcomeNames DEF P!Existing, P!Outputs
<1>1. ASSUME NEW h \in Handles, NEW a \in Activities, BeginActivity(h, a)
      PROVE  P!ProvNext
  BY <1>1 DEF BeginActivity, P!ProvNext, P!Begin
<1>2. ASSUME NEW h \in Handles, CommitUse(h) PROVE P!ProvNext
  <2>1. handleOf[h] \in Activities /\ using[h] \in Entities
        /\ generatedBy[using[h]] # NoActivity
    BY <1>2 DEF CommitUse, IInv, HandlesOK, Existing
  <2>2. \A o \in Entities : generatedBy[o] # handleOf[h]
    BY <1>2, <2>1 DEF CommitUse, InputsOpen, IInv, TypeOK, RowsOK
  <2>3. P!Declare(handleOf[h], using[h])
    BY <1>2, <2>1, <2>2 DEF CommitUse, InputsOpen, P!Declare
  <2>. QED
    BY <2>1, <2>3 DEF P!ProvNext
<1>3. ASSUME NEW h \in Handles, SealInputs(h) PROVE UNCHANGED P!provVars
  BY <1>3 DEF SealInputs, P!provVars
<1>4. ASSUME NEW e \in Entities, RecordOutput(e) PROVE P!ProvNext
  <2>1. request[e].activity \in Activities /\ generatedBy[e] = NoActivity
    BY <1>4 DEF RecordOutput, IInv, CallsOK
  <2>2. P!Generate(request[e].activity, e)
    BY <1>4, <2>1 DEF RecordOutput, MayRecord, P!Generate
  <2>. QED
    BY <2>1, <2>2 DEF P!ProvNext
<1>5. ASSUME NEW e \in Entities, NEW a \in Activities, RecordImport(e, a)
      PROVE  P!ProvNext
  <2>1. generatedBy[e] = NoActivity /\ inputs[a] = {}
    BY <1>5 DEF RecordImport, IInv, CallsOK, RowsOK
  <2>2. inputs' = [inputs EXCEPT ![a] = {}]
    BY <1>5, <2>1 DEF RecordImport, IInv, TypeOK
  <2>3. P!Record(a, {}, e, "succeeded")
    BY <1>5, <2>1, <2>2 DEF RecordImport, P!Record
  <2>. QED
    BY <2>3 DEF P!ProvNext
<1>6. ASSUME NEW e \in Entities, NEW a \in Activities, NEW members \in SUBSET Entities,
             AuthorFinding(e, a, members)
      PROVE  P!ProvNext
  <2>1. generatedBy[e] = NoActivity
    BY <1>6 DEF AuthorFinding, IInv, CallsOK
  <2>2. P!Record(a, members, e, "succeeded")
    BY <1>6, <2>1 DEF AuthorFinding, Existing, P!Record
  <2>. QED
    BY <2>2 DEF P!ProvNext
<1>7. ASSUME NEW h \in Handles, FinishCommit(h) PROVE P!ProvNext
  <2>1. handleOf[h] \in Activities /\ outcome[h] \in Outcomes
    BY <1>7 DEF FinishCommit, IInv, TypeOK, HandlesOK
  <2>2. P!Terminate({handleOf[h]}, outcome[h])
    BY <1>7, <2>1 DEF FinishCommit, IInv, TypeOK, P!Terminate
  <2>. QED
    BY <2>1, <2>2 DEF P!ProvNext
<1>8. ASSUME NEW S \in SUBSET Activities, Interrupt(S) PROVE P!ProvNext
  <2>1. P!Terminate(S, "interrupted")
    BY <1>8 DEF Interrupt, P!Terminate
  <2>. QED
    BY <2>1 DEF P!ProvNext
<1>9. CASE UNCHANGED catalog
  BY <1>9 DEF P!provVars
<1>. QED
  BY <1>1, <1>2, <1>3, <1>4, <1>5, <1>6, <1>7, <1>8, <1>9, CatalogCases

\* The activity life cycle implements the promise about provenance: inputs
\* exist and close at the first output, an entity is generated once, by a
\* running activity, and a terminal activity gets nothing more.
THEOREM Implements == Spec => ImplementsProvenance
<1>1. Init => P!ProvInit
  BY DEF Init, P!ProvInit
<1>. QED
  BY <1>1, IInvHolds, ProvenanceStep, PTL DEF Spec, ImplementsProvenance, P!ProvSpec
----------------------------------------------------------------------------
(* What follows from the promise alone. *)

\* What exists was made by an activity that has begun, from what existed.
Made ==
    /\ state \in [Activities -> {"none", "running"} \cup Outcomes]
    /\ inputs \in [Activities -> SUBSET P!Existing]
    /\ \A e \in P!Existing : generatedBy[e] \in Activities /\ state[generatedBy[e]] # "none"
    /\ generatedBy \in [Entities -> Activities \cup {NoActivity}]

\* An entity that is new is not among the inputs of those there are: if the others of S have
\* one that is made from none of them, it is made from none of S; and if there are no
\* others, what the new one is made from existed before.
LEMMA NewEntity ==
    ASSUME Made, P!Acyclic, NEW e \in Entities, e \notin P!Existing, NEW a \in Activities,
           NEW used, used \subseteq P!Existing, generatedBy' = [generatedBy EXCEPT ![e] = a],
           \A o \in P!Existing : inputs'[generatedBy[o]] = inputs[generatedBy[o]],
           inputs'[a] = used
    PROVE  P!Acyclic' /\ P!Existing' = P!Existing \cup {e}
<1>1. P!Existing' = P!Existing \cup {e}
  BY Distinct DEF Made, P!Existing
<1>2. \A o \in P!Existing : o # e /\ generatedBy'[o] = generatedBy[o]
  BY DEF Made, P!Existing
<1>3. generatedBy'[e] = a
  BY DEF Made
<1>4. ASSUME NEW S \in SUBSET P!Existing', S # {}
      PROVE  \E o \in S : inputs'[generatedBy'[o]] \cap S = {}
  <2>1. CASE S \ {e} = {}
    <3>1. e \in S /\ used \cap S = {}
      BY <1>4, <2>1
    <3>. QED
      BY <1>3, <3>1
  <2>2. CASE S \ {e} # {}
    <3>1. S \ {e} \in SUBSET P!Existing
      BY <1>1
    <3>2. PICK o \in S \ {e} : inputs[generatedBy[o]] \cap (S \ {e}) = {}
      BY <2>2, <3>1 DEF P!Acyclic
    <3>3. o \in P!Existing /\ inputs[generatedBy[o]] \subseteq P!Existing
      BY <3>1, <3>2 DEF Made
    <3>4. inputs'[generatedBy'[o]] = inputs[generatedBy[o]]
      BY <1>2, <3>3
    <3>. QED
      BY <3>2, <3>3, <3>4
  <2>. QED
    BY <2>1, <2>2
<1>. QED
  BY <1>1, <1>4 DEF P!Acyclic

\* Only what has no output yet is given inputs, and only entities that are new are outputs.
LEMMA AcyclicStep ==
    ASSUME Made, P!Acyclic, [P!ProvNext]_P!provVars
    PROVE  Made' /\ P!Acyclic'
<1>1. ASSUME UNCHANGED <<inputs, generatedBy>>,
             state' \in [Activities -> {"none", "running"} \cup Outcomes],
             \A x \in Activities : state[x] # "none" => state'[x] # "none"
      PROVE  Made' /\ P!Acyclic'
  BY <1>1 DEF Made, P!Acyclic, P!Existing
<1>2. ASSUME NEW a \in Activities, P!Begin(a) PROVE Made' /\ P!Acyclic'
  BY <1>1, <1>2 DEF Made, P!Begin
<1>3. ASSUME NEW S \in SUBSET Activities, NEW o \in Outcomes, P!Terminate(S, o)
      PROVE  Made' /\ P!Acyclic'
  <2>1. state' \in [Activities -> {"none", "running"} \cup Outcomes]
    BY <1>3 DEF Made, P!Terminate
  <2>2. \A x \in Activities : state[x] # "none" => state'[x] # "none"
    BY <1>3, OutcomeNames DEF P!Terminate
  <2>. QED
    BY <1>1, <1>3, <2>1, <2>2 DEF P!Terminate
<1>4. ASSUME NEW a \in Activities, NEW e \in Entities, P!Declare(a, e)
      PROVE  Made' /\ P!Acyclic'
  <2>1. /\ UNCHANGED <<state, generatedBy>> /\ P!Existing' = P!Existing /\ e \in P!Existing
        /\ inputs' = [inputs EXCEPT ![a] = @ \cup {e}]
    BY <1>4 DEF P!Declare, P!Existing
  <2>2. \A o \in P!Existing : inputs'[generatedBy[o]] = inputs[generatedBy[o]]
    BY <1>4, <2>1 DEF Made, P!Declare, P!Outputs, P!Existing
  <2>3. P!Acyclic'
    BY <2>1, <2>2 DEF P!Acyclic
  <2>. QED
    BY <2>1, <2>3 DEF Made
<1>5. ASSUME NEW a \in Activities, NEW e \in Entities, P!Generate(a, e)
      PROVE  Made' /\ P!Acyclic'
  <2>1. /\ UNCHANGED <<state, inputs>> /\ generatedBy' = [generatedBy EXCEPT ![e] = a]
        /\ e \notin P!Existing /\ state[a] = "running" /\ inputs[a] \subseteq P!Existing
    BY <1>5 DEF P!Generate, Made
  <2>2. P!Acyclic' /\ P!Existing' = P!Existing \cup {e}
    BY <2>1, NewEntity
  <2>. QED
    BY <2>1, <2>2 DEF Made
<1>6. ASSUME NEW a \in Activities, NEW used \in SUBSET Entities, NEW e \in Entities,
             NEW o \in Outcomes, P!Record(a, used, e, o)
      PROVE  Made' /\ P!Acyclic'
  <2>1. /\ state' = [state EXCEPT ![a] = o] /\ inputs' = [inputs EXCEPT ![a] = used]
        /\ generatedBy' = [generatedBy EXCEPT ![e] = a]
        /\ e \notin P!Existing /\ state[a] = "none" /\ used \subseteq P!Existing
    BY <1>6 DEF P!Record
  <2>2. \A x \in P!Existing : inputs'[generatedBy[x]] = inputs[generatedBy[x]]
    BY <2>1 DEF Made
  <2>3. inputs'[a] = used
    BY <2>1 DEF Made
  <2>4. P!Acyclic' /\ P!Existing' = P!Existing \cup {e}
    BY <2>1, <2>2, <2>3, NewEntity
  <2>5. \A x \in P!Existing' : generatedBy'[x] \in Activities /\ state'[generatedBy'[x]] # "none"
    BY <2>1, <2>4, OutcomeNames DEF Made
  <2>6. inputs' \in [Activities -> SUBSET P!Existing']
    BY <2>1, <2>4 DEF Made
  <2>. QED
    BY <2>1, <2>4, <2>5, <2>6 DEF Made
<1>7. CASE UNCHANGED P!provVars
  BY <1>1, <1>7 DEF P!provVars, Made
<1>. QED
  BY <1>2, <1>3, <1>4, <1>5, <1>6, <1>7 DEF P!ProvNext

\* Derivation is a directed acyclic graph (docs/design.md, 6.1): in every implementation of
\* the promise, and so in the catalog that activities write.
THEOREM AcyclicDerivation == Spec => []DerivationIsAcyclic
<1>1. P!ProvInit => Made /\ P!Acyclic
  BY Distinct DEF P!ProvInit, Made, P!Acyclic, P!Existing
<1>2. P!ProvSpec => [](Made /\ P!Acyclic)
  BY <1>1, AcyclicStep, PTL DEF P!ProvSpec
<1>3. (Made /\ P!Acyclic) => DerivationIsAcyclic
  BY DEF DerivationIsAcyclic
<1>. QED
  BY <1>2, <1>3, Implements, PTL DEF ImplementsProvenance
=============================================================================
