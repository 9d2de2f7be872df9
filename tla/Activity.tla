------------------------------ MODULE Activity ------------------------------
(***************************************************************************)
(* The activity life cycle of one case: the rows of its catalog, the blob  *)
(* store beside it, and the in-memory Activity handles and the calls that  *)
(* are running on them (src/forensic/activity.go, cas.go, records.go and   *)
(* recovery.go).                                                           *)
(*                                                                         *)
(* Several handles may stand for one activity: BeginActivity with an       *)
(* idempotency key returns a new handle on the activity the key began, in  *)
(* this process or in another.  A handle is its own unit of failure; a     *)
(* process with several handles crashing is several Crash steps.           *)
(*                                                                         *)
(* Every Case.mutate is one step here: its write transaction takes         *)
(* SQLite's write lock when it begins, so it reads what it will overwrite  *)
(* (module CaseMutate has its retries and faults).  A call that produces   *)
(* an entity is named by the random ID it draws for that entity.           *)
(***************************************************************************)
EXTENDS Integers, FiniteSets

CONSTANTS Activities,   \* activity IDs
          Entities,     \* entity IDs: objects, artifacts, assertions, ...
          Handles,      \* *Activity values
          Blobs,        \* contents, by SHA-256
          Keys,         \* idempotency and producer keys
          Outcomes,     \* terminal activity states
          Asked,        \* the kinds of entity callers ask for (a bound of the model)
          NoActivity, NoEntity, NoHandle, NoBlob, NoKey, NoRequest

ASSUME Distinct ==
    /\ NoActivity \notin Activities
    /\ NoEntity \notin Entities
    /\ NoHandle \notin Handles
    /\ NoBlob \notin Blobs
    /\ NoKey \notin Keys

ASSUME OutcomeNames ==
    /\ "succeeded" \in Outcomes /\ "interrupted" \in Outcomes
    /\ "none" \notin Outcomes /\ "running" \notin Outcomes

\* A run draws finitely many random IDs.
ASSUME FiniteEntities == IsFiniteSet(Entities)

ASSUME AskedKinds == Asked \subseteq {"object", "artifact", "assertion", "evidence", "finding"}

VARIABLES
    \* The catalog.
    revision,     \* case_info.revision
    state,        \* activities.state, "none" while there is no row
    keyed,        \* activities of BeginActivity, each begun with its own key
    sealedAt,     \* activities.sealed_revision, 0 while inputs_sealed = 0
    inputs,       \* activity_inputs
    generatedBy,  \* entities.generating_activity_id
    createdAt,    \* entities.created_revision, 0 while there is no row
    \* The case directory.
    cas,          \* contents with a file under blobs/sha256
    staging,      \* calls with a file under staging/ingest
    \* The handles.
    phase,        \* "free", "opening" inside BeginActivity, "open"
    handleOf,     \* Activity.id
    terminal,     \* Activity.terminal
    finishing,    \* Activity.finishing
    captures,     \* Activity.captures
    finishPc,     \* where the handle's Finish stands
    outcome,      \* the outcome that Finish was given, while it runs
    using,        \* the entity of the handle's Use between its two checks
    \* The calls that produce an entity.
    callPc, request,
    answer        \* the entity a call returned without error

catalog == <<revision, state, keyed, sealedAt, inputs, generatedBy, createdAt>>
files == <<cas, staging>>
handles == <<phase, handleOf, terminal, finishing, captures, finishPc, outcome, using>>
calls == <<callPc, request, answer>>
vars == <<catalog, files, handles, calls>>

HandleKinds == {"object", "artifact", "assertion"}
Kinds == HandleKinds \cup {"evidence", "finding"}

\* What a call was asked to record: the request its fingerprint is taken of.
Requests ==
    [kind : Kinds, handle : Handles \cup {NoHandle},
     activity : Activities \cup {NoActivity}, blob : Blobs \cup {NoBlob},
     source : Entities \cup {NoEntity}, key : Keys \cup {NoKey}]

CallPcs == {"idle", "staging", "checking", "publishing", "recording",
            "returning", "done", "dead"}
Working == {"staging", "checking", "publishing", "recording"}
InFlight == Working \cup {"returning"}
FinishPcs == {"idle", "parked", "woken", "writing", "acked", "refused"}

Terminal(a) == state[a] \in Outcomes
Existing == {e \in Entities : generatedBy[e] # NoActivity}
Outputs(a) == {e \in Entities : generatedBy[e] = a}
CallsOn(h) == {e \in Entities : callPc[e] \in InFlight /\ request[e].handle = h}
NextRevision == revision + 1

TypeOK ==
    /\ revision \in Nat
    /\ state \in [Activities -> {"none", "running"} \cup Outcomes]
    /\ keyed \in SUBSET Activities
    /\ sealedAt \in [Activities -> Nat]
    /\ inputs \in [Activities -> SUBSET Entities]
    /\ generatedBy \in [Entities -> Activities \cup {NoActivity}]
    /\ createdAt \in [Entities -> Nat]
    /\ cas \in SUBSET Blobs
    /\ staging \in SUBSET Entities
    /\ phase \in [Handles -> {"free", "opening", "open"}]
    /\ handleOf \in [Handles -> Activities \cup {NoActivity}]
    /\ terminal \in [Handles -> BOOLEAN]
    /\ finishing \in [Handles -> BOOLEAN]
    /\ captures \in [Handles -> Nat]
    /\ finishPc \in [Handles -> FinishPcs]
    /\ outcome \in [Handles -> Outcomes]
    /\ using \in [Handles -> Entities \cup {NoEntity}]
    /\ callPc \in [Entities -> CallPcs]
    /\ request \in [Entities -> Requests \cup {NoRequest}]
    /\ answer \in [Entities -> Entities \cup {NoEntity}]

\* A new case has one revision, its creation.
Init ==
    /\ revision = 1
    /\ state = [a \in Activities |-> "none"]
    /\ keyed = {}
    /\ sealedAt = [a \in Activities |-> 0]
    /\ inputs = [a \in Activities |-> {}]
    /\ generatedBy = [e \in Entities |-> NoActivity]
    /\ createdAt = [e \in Entities |-> 0]
    /\ cas = {} /\ staging = {}
    /\ phase = [h \in Handles |-> "free"]
    /\ handleOf = [h \in Handles |-> NoActivity]
    /\ terminal = [h \in Handles |-> FALSE]
    /\ finishing = [h \in Handles |-> FALSE]
    /\ captures = [h \in Handles |-> 0]
    /\ finishPc = [h \in Handles |-> "idle"]
    /\ outcome = [h \in Handles |-> "succeeded"]
    /\ using = [h \in Handles |-> NoEntity]
    /\ callPc = [e \in Entities |-> "idle"]
    /\ request = [e \in Entities |-> NoRequest]
    /\ answer = [e \in Entities |-> NoEntity]
----------------------------------------------------------------------------
\* Session.BeginActivity and its replay.

\* The transaction inserts the row; the handle is built after it commits.  A
\* caller without a key is one that never replays it.
BeginActivity(h, a) ==
    /\ phase[h] = "free"
    /\ state[a] = "none"
    /\ state' = [state EXCEPT ![a] = "running"]
    /\ keyed' = keyed \cup {a}
    /\ revision' = NextRevision
    /\ phase' = [phase EXCEPT ![h] = "opening"]
    /\ handleOf' = [handleOf EXCEPT ![h] = a]
    /\ UNCHANGED <<sealedAt, inputs, generatedBy, createdAt, files, calls, terminal,
                   finishing, captures, finishPc, outcome, using>>

\* The key is known: the transaction rolls back and the first activity is returned.
ReplayBegin(h, a) ==
    /\ phase[h] = "free"
    /\ a \in keyed
    /\ phase' = [phase EXCEPT ![h] = "opening"]
    /\ handleOf' = [handleOf EXCEPT ![h] = a]
    /\ UNCHANGED <<catalog, files, calls, terminal, finishing, captures, finishPc,
                   outcome, using>>

\* SELECT state FROM activities, outside the transaction.
LoadHandle(h) ==
    /\ phase[h] = "opening"
    /\ phase' = [phase EXCEPT ![h] = "open"]
    /\ terminal' = [terminal EXCEPT ![h] = state[handleOf[h]] # "running"]
    /\ UNCHANGED <<catalog, files, calls, handleOf, finishing, captures, finishPc,
                   outcome, using>>

----------------------------------------------------------------------------
\* Activity.Use and Activity.SealInputs.

\* The handle's own view, checked under its mutex.
AcceptsWork_WhileFinishing(h) == phase[h] = "open" /\ ~terminal[h]

AcceptsWork(h) == phase[h] = "open" /\ ~finishing[h] /\ ~terminal[h]

\* One Use at a time on each handle (a bound of the model).
BeginUse(h, e) ==
    /\ AcceptsWork(h) /\ using[h] = NoEntity
    /\ e \in Existing
    /\ using' = [using EXCEPT ![h] = e]
    /\ UNCHANGED <<catalog, files, calls, phase, handleOf, terminal, finishing, captures,
                   finishPc, outcome>>

InputsOpen_IgnoreSeal(a) == state[a] = "running"

InputsOpen(a) == state[a] = "running" /\ sealedAt[a] = 0

\* The primary key refuses an entity that is already an input (in that role).
CommitUse(h) ==
    LET a == handleOf[h] IN
    /\ using[h] # NoEntity
    /\ InputsOpen(a)
    /\ using[h] \notin inputs[a]
    /\ inputs' = [inputs EXCEPT ![a] = @ \cup {using[h]}]
    /\ revision' = NextRevision
    /\ using' = [using EXCEPT ![h] = NoEntity]
    /\ UNCHANGED <<state, keyed, sealedAt, generatedBy, createdAt, files, calls, phase,
                   handleOf, terminal, finishing, captures, finishPc, outcome>>

\* ErrConflict, or a transaction that failed for another reason.
FailUse(h) ==
    /\ using[h] # NoEntity
    /\ using' = [using EXCEPT ![h] = NoEntity]
    /\ UNCHANGED <<catalog, files, calls, phase, handleOf, terminal, finishing, captures,
                   finishPc, outcome>>

\* No check of the handle: the transaction alone decides.
SealInputs(h) ==
    LET a == handleOf[h] IN
    /\ phase[h] = "open"
    /\ InputsOpen(a)
    /\ sealedAt' = [sealedAt EXCEPT ![a] = NextRevision]
    /\ revision' = NextRevision
    /\ UNCHANGED <<state, keyed, inputs, generatedBy, createdAt, files, handles, calls>>

----------------------------------------------------------------------------
\* Capture, EmitArtifact, Relate: startCapture ... endCapture.

Counted(h) == captures[h] + 1

StartCapture(h, e, r) ==
    /\ AcceptsWork(h)
    /\ callPc[e] = "idle"
    /\ captures' = [captures EXCEPT ![h] = Counted(h)]
    /\ request' = [request EXCEPT ![e] = r]
    /\ callPc' = [callPc EXCEPT ![e] = IF r.kind = "object" THEN "staging" ELSE "recording"]
    /\ UNCHANGED <<catalog, files, phase, handleOf, terminal, finishing, finishPc, outcome,
                   using, answer>>

\* Case.ImportEvidence runs on no handle and begins and ends its own activity.
StartImport(e, r) ==
    /\ callPc[e] = "idle"
    /\ request' = [request EXCEPT ![e] = r]
    /\ callPc' = [callPc EXCEPT ![e] = "staging"]
    /\ UNCHANGED <<catalog, files, handles, answer>>

Advance(e, from, to) ==
    /\ callPc[e] = from
    /\ callPc' = [callPc EXCEPT ![e] = to]

AfterStaging_SkipPublish(e) == IF request[e].key = NoKey THEN "recording" ELSE "checking"

\* The key is looked up before anything is published, if there is one.
AfterStaging(e) == IF request[e].key = NoKey THEN "publishing" ELSE "checking"

\* stageBlob: a file of its own under staging/ingest, copied, hashed and synced.
StageBlob(e) ==
    /\ callPc[e] = "staging" /\ Advance(e, "staging", AfterStaging(e))
    /\ staging' = staging \cup {e}
    /\ UNCHANGED <<catalog, cas, handles, request, answer>>

\* The committed results recorded for the key of call e, in its scope: the
\* activity for a capture or an emitted record, the case for an import.
Recorded(e) ==
    {f \in Existing :
        /\ request[e].key # NoKey
        /\ request[f].key = request[e].key
        /\ request[f].kind = request[e].kind
        /\ request[f].activity = request[e].activity}

\* The transaction's own look at the key.
KeyUnused_TrustPrecheck(e) == TRUE

KeyUnused(e) == Recorded(e) = {}

SameFingerprint_AnyRequest(e, f) == TRUE

SameFingerprint(e, f) ==
    request[f].blob = request[e].blob /\ request[f].source = request[e].source

\* The read-only look at the key, before anything is published.
CheckKey(e) ==
    /\ Advance(e, "checking", "publishing")
    /\ Recorded(e) = {}
    /\ UNCHANGED <<catalog, files, handles, request, answer>>

\* publishBlob: link without replacing, or verify the file that is there; then
\* the staging file goes.  The removal or the directory sync may fail after the
\* link, and the call ends there.
PublishBlob(e) ==
    /\ \/ /\ Advance(e, "publishing", "recording")
          /\ staging' = staging \ {e}
       \/ /\ Advance(e, "publishing", "returning")
          /\ UNCHANGED staging
    /\ cas' = cas \cup {request[e].blob}
    /\ UNCHANGED <<catalog, handles, request, answer>>

\* Use, SealInputs and every first output leave sealed_revision at the revision
\* that sealed: COALESCE(sealed_revision, rev).
SealedBy_Latest(a) == NextRevision

SealedBy(a) == IF sealedAt[a] = 0 THEN NextRevision ELSE sealedAt[a]

\* An evidence import records the evidence and its root object together.
IsObject(e) == request[e].kind \in {"object", "evidence"}

\* What the transaction of a handle's call requires, after the key lookup.
MayRecord(e) ==
    LET r == request[e] IN
    /\ state[r.activity] = "running"
    /\ r.kind = "artifact" => r.source \in inputs[r.activity] /\ IsObject(r.source)
    /\ r.kind = "assertion" => r.source \in Existing

\* A failure after the commit: the row is there and the caller gets an error.
Answered(e) == answer' = answer \/ answer' = [answer EXCEPT ![e] = e]

RecordOutput(e) ==
    LET a == request[e].activity IN
    /\ callPc[e] = "recording" /\ request[e].kind \in HandleKinds
    /\ KeyUnused(e)
    /\ MayRecord(e)
    /\ sealedAt' = [sealedAt EXCEPT ![a] = SealedBy(a)]
    /\ generatedBy' = [generatedBy EXCEPT ![e] = a]
    /\ createdAt' = [createdAt EXCEPT ![e] = NextRevision]
    /\ revision' = NextRevision
    /\ callPc' = [callPc EXCEPT ![e] = "returning"]
    /\ Answered(e)
    /\ UNCHANGED <<state, keyed, inputs, files, handles, request>>

\* importEvidenceStaged: an activity, already over, with its output.
RecordImport(e, a) ==
    /\ callPc[e] = "recording" /\ request[e].kind = "evidence"
    /\ KeyUnused(e)
    /\ state[a] = "none"
    /\ state' = [state EXCEPT ![a] = "succeeded"]
    /\ sealedAt' = [sealedAt EXCEPT ![a] = NextRevision]
    /\ generatedBy' = [generatedBy EXCEPT ![e] = a]
    /\ createdAt' = [createdAt EXCEPT ![e] = NextRevision]
    /\ revision' = NextRevision
    /\ callPc' = [callPc EXCEPT ![e] = "returning"]
    /\ Answered(e)
    /\ UNCHANGED <<keyed, inputs, files, handles, request>>

\* The key is found, before publication or in the transaction, with the same request.
AnswerFromRecord(e) ==
    /\ callPc[e] \in {"checking", "recording"}
    /\ \E f \in Recorded(e) : SameFingerprint(e, f) /\ answer' = [answer EXCEPT ![e] = f]
    /\ callPc' = [callPc EXCEPT ![e] = "returning"]
    /\ UNCHANGED <<catalog, files, handles, request>>

\* Any error return: a conflicting key, a terminal activity, a cancelled
\* context, an I/O error, a fault at one of the injection points.
FailCall(e) ==
    /\ callPc[e] \in Working
    /\ callPc' = [callPc EXCEPT ![e] = "returning"]
    /\ UNCHANGED <<catalog, files, handles, request, answer>>

\* The deferred calls: os.Remove of the staging file, then endCapture, whose
\* Broadcast wakes a Finish parked on the handle.
Woken_Never(h) == finishPc[h]

Woken(h) == IF finishPc[h] = "parked" THEN "woken" ELSE finishPc[h]

\* A call that neither recorded nor found its entity leaves no trace: the
\* model may use its random ID again.
Forgotten(e) == e \notin Existing /\ answer[e] = NoEntity

Unstaged_Not(e) == staging

Unstaged(e) == staging \ {e}

ReturnCall(e) ==
    LET h == request[e].handle IN
    /\ Advance(e, "returning", IF Forgotten(e) THEN "idle" ELSE "done")
    /\ request' = [request EXCEPT ![e] = IF Forgotten(e) THEN NoRequest ELSE @]
    /\ staging' = Unstaged(e)
    /\ IF h \in Handles
       THEN /\ captures' = [captures EXCEPT ![h] = @ - 1]
            /\ finishPc' = [finishPc EXCEPT ![h] = Woken(h)]
       ELSE UNCHANGED <<captures, finishPc>>
    /\ UNCHANGED <<catalog, cas, phase, handleOf, terminal, finishing, outcome, using,
                   answer>>

\* Session.AuthorFinding: activity, inputs and revision entity in one
\* transaction; a key that is replayed changes nothing (module CaseMutate).
AuthorFinding(e, a, members) ==
    /\ "finding" \in Asked
    /\ callPc[e] = "idle"
    /\ state[a] = "none"
    /\ members \subseteq Existing
    /\ state' = [state EXCEPT ![a] = "succeeded"]
    /\ sealedAt' = [sealedAt EXCEPT ![a] = NextRevision]
    /\ inputs' = [inputs EXCEPT ![a] = members]
    /\ generatedBy' = [generatedBy EXCEPT ![e] = a]
    /\ createdAt' = [createdAt EXCEPT ![e] = NextRevision]
    /\ revision' = NextRevision
    /\ callPc' = [callPc EXCEPT ![e] = "done"]
    /\ request' = [request EXCEPT ![e] =
           [kind |-> "finding", handle |-> NoHandle, activity |-> a, blob |-> NoBlob,
            source |-> NoEntity, key |-> NoKey]]
    /\ Answered(e)
    /\ UNCHANGED <<keyed, files, handles>>

----------------------------------------------------------------------------
\* Activity.Finish.

Drained(h) == captures[h] = 0

\* The wait loop: go on to the transaction, or wait on the condition variable.
AfterWait(h) == IF Drained(h) THEN "writing" ELSE "parked"

FinishStart(h, o) ==
    /\ AcceptsWork(h)
    /\ finishing' = [finishing EXCEPT ![h] = TRUE]
    /\ finishPc' = [finishPc EXCEPT ![h] = AfterWait(h)]
    /\ outcome' = [outcome EXCEPT ![h] = o]
    /\ UNCHANGED <<catalog, files, calls, phase, handleOf, terminal, captures, using>>

FinishAwake(h) ==
    /\ finishPc[h] = "woken"
    /\ finishPc' = [finishPc EXCEPT ![h] = AfterWait(h)]
    /\ UNCHANGED <<catalog, files, calls, phase, handleOf, terminal, finishing, captures,
                   outcome, using>>

\* A cancelled context is looked at only here, after a wake-up.
FinishCancelled(h) ==
    /\ finishPc[h] = "woken" /\ ~Drained(h)
    /\ finishPc' = [finishPc EXCEPT ![h] = "idle"]
    /\ finishing' = [finishing EXCEPT ![h] = FALSE]
    /\ outcome' = [outcome EXCEPT ![h] = "succeeded"]
    /\ UNCHANGED <<catalog, files, calls, phase, handleOf, terminal, captures, using>>

\* UPDATE activities ... WHERE id=? AND state='running'; the commit may be
\* followed by an error.
FinishCommit(h) ==
    LET a == handleOf[h] IN
    /\ finishPc[h] = "writing"
    /\ state[a] = "running"
    /\ state' = [state EXCEPT ![a] = outcome[h]]
    /\ sealedAt' = [sealedAt EXCEPT ![a] = SealedBy(a)]
    /\ revision' = NextRevision
    /\ \E pc \in {"acked", "refused"} : finishPc' = [finishPc EXCEPT ![h] = pc]
    /\ UNCHANGED <<keyed, inputs, generatedBy, createdAt, files, calls, phase, handleOf,
                   terminal, finishing, captures, outcome, using>>

\* No row matched: success if the activity already has this outcome.
FinishReplay(h) ==
    /\ finishPc[h] = "writing"
    /\ state[handleOf[h]] = outcome[h]
    /\ finishPc' = [finishPc EXCEPT ![h] = "acked"]
    /\ UNCHANGED <<catalog, files, calls, phase, handleOf, terminal, finishing, captures,
                   outcome, using>>

\* Another outcome, or a transaction that failed.
FinishFail(h) ==
    /\ finishPc[h] = "writing"
    /\ finishPc' = [finishPc EXCEPT ![h] = "refused"]
    /\ UNCHANGED <<catalog, files, calls, phase, handleOf, terminal, finishing, captures,
                   outcome, using>>

TerminalAfter_AnyError(h) == TRUE

TerminalAfter(h) == terminal[h] \/ finishPc[h] = "acked"

FinishReturn(h) ==
    /\ finishPc[h] \in {"acked", "refused"}
    /\ terminal' = [terminal EXCEPT ![h] = TerminalAfter(h)]
    /\ finishing' = [finishing EXCEPT ![h] = FALSE]
    /\ finishPc' = [finishPc EXCEPT ![h] = "idle"]
    /\ outcome' = [outcome EXCEPT ![h] = "succeeded"]
    /\ UNCHANGED <<catalog, files, calls, phase, handleOf, captures, using>>

----------------------------------------------------------------------------
\* Case.MarkActivitiesInterrupted, on IDs the caller names: all of them or none.
Interrupt(S) ==
    /\ S # {} /\ \A a \in S : state[a] = "running"
    /\ state' = [a \in Activities |-> IF a \in S THEN "interrupted" ELSE state[a]]
    /\ sealedAt' = [a \in Activities |-> IF a \in S THEN SealedBy(a) ELSE sealedAt[a]]
    /\ revision' = NextRevision
    /\ UNCHANGED <<keyed, inputs, generatedBy, createdAt, files, handles, calls>>

\* The process of a handle dies, with the calls on it; files stay where they are.
Crash(h) ==
    /\ phase[h] # "free"
    /\ phase' = [phase EXCEPT ![h] = "free"]
    /\ handleOf' = [handleOf EXCEPT ![h] = NoActivity]
    /\ terminal' = [terminal EXCEPT ![h] = FALSE]
    /\ finishing' = [finishing EXCEPT ![h] = FALSE]
    /\ captures' = [captures EXCEPT ![h] = 0]
    /\ finishPc' = [finishPc EXCEPT ![h] = "idle"]
    /\ outcome' = [outcome EXCEPT ![h] = "succeeded"]
    /\ using' = [using EXCEPT ![h] = NoEntity]
    /\ callPc' = [e \in Entities |-> IF e \in CallsOn(h) THEN "dead" ELSE callPc[e]]
    /\ request' = [e \in Entities |->
           IF e \in CallsOn(h) /\ Forgotten(e) THEN NoRequest ELSE request[e]]
    /\ UNCHANGED <<catalog, files, answer>>

CrashImport(e) ==
    /\ callPc[e] \in InFlight /\ request[e].handle = NoHandle
    /\ callPc' = [callPc EXCEPT ![e] = "dead"]
    /\ request' = [request EXCEPT ![e] = IF Forgotten(e) THEN NoRequest ELSE @]
    /\ UNCHANGED <<catalog, files, handles, answer>>

----------------------------------------------------------------------------
\* What a caller may ask of a handle, or of the case.
HandleRequests(h) ==
    [kind : {"object"} \cap Asked, handle : {h}, activity : {handleOf[h]},
     blob : Blobs, source : {NoEntity}, key : Keys \cup {NoKey}]
    \cup
    [kind : {"artifact", "assertion"} \cap Asked, handle : {h}, activity : {handleOf[h]},
     blob : {NoBlob}, source : Entities, key : Keys \cup {NoKey}]

ImportRequests ==
    [kind : {"evidence"} \cap Asked, handle : {NoHandle}, activity : {NoActivity},
     blob : Blobs, source : {NoEntity}, key : Keys \cup {NoKey}]

OnHandle(h) ==
    \/ \E a \in Activities : BeginActivity(h, a) \/ ReplayBegin(h, a)
    \/ LoadHandle(h)
    \/ \E e \in Entities : BeginUse(h, e)
    \/ CommitUse(h) \/ FailUse(h) \/ SealInputs(h)
    \/ \E e \in Entities : \E r \in HandleRequests(h) : StartCapture(h, e, r)
    \/ \E o \in Outcomes : FinishStart(h, o)

FinishStep(h) ==
    \/ FinishAwake(h) \/ FinishCancelled(h) \/ FinishCommit(h) \/ FinishReplay(h)
    \/ FinishFail(h) \/ FinishReturn(h)

CallStep(e) ==
    \/ StageBlob(e) \/ CheckKey(e) \/ PublishBlob(e) \/ RecordOutput(e)
    \/ \E a \in Activities : RecordImport(e, a)
    \/ AnswerFromRecord(e) \/ FailCall(e) \/ ReturnCall(e)

Next ==
    \/ \E h \in Handles : OnHandle(h) \/ FinishStep(h) \/ Crash(h)
    \/ \E e \in Entities :
          \/ CallStep(e) \/ CrashImport(e)
          \/ \E r \in ImportRequests : StartImport(e, r)
          \/ \E a \in Activities, members \in SUBSET Entities : AuthorFinding(e, a, members)
    \/ \E S \in SUBSET Activities : Interrupt(S)

Spec == Init /\ [][Next]_vars

\* Goroutines are scheduled, and file and database operations end: every call,
\* and every Finish that is not parked, takes its next step unless its process
\* dies.  Each such step changes its place.  Nothing forces a caller to call, or an
\* operator to interrupt.
Fairness ==
    /\ \A h \in Handles : WF_<<finishPc[h]>>(FinishStep(h))
    /\ \A e \in Entities : WF_<<callPc[e]>>(CallStep(e))

FairSpec == Spec /\ Fairness

----------------------------------------------------------------------------
(* Properties. *)

\* Every input of an activity that has outputs was recorded at an earlier
\* revision than the one that sealed its inputs, and no output at an earlier one:
\* so inputs are strictly older than outputs and the provenance graph has no
\* cycle, whatever Use, SealInputs and captures of several handles raced.
InputsPrecedeOutputs ==
    \A a \in Activities : \A o \in Outputs(a) :
        /\ 0 < sealedAt[a] /\ sealedAt[a] <= createdAt[o]
        /\ \A i \in inputs[a] : 0 < createdAt[i] /\ createdAt[i] < sealedAt[a]

\* A committed object or evidence has its bytes in the blob store, at every
\* moment a process could die (publishBlob before Case.mutate).
NoDanglingBlob ==
    \A e \in Existing : IsObject(e) => request[e].blob \in cas

\* Two committed results never carry the same key in the same scope, although
\* the key is looked up once outside the transaction and calls race.
OneResultPerKey ==
    \A e, f \in Existing :
        (e # f /\ request[e].key # NoKey /\ request[e].key = request[f].key
               /\ request[e].activity = request[f].activity)
            => request[e].kind # request[f].kind

\* What a call returned without an error is a committed entity, of the same
\* request as its own.
AnswersAreRecorded ==
    \A e \in Entities : answer[e] # NoEntity =>
        /\ answer[e] \in Existing
        /\ request[answer[e]].blob = request[e].blob
        /\ request[answer[e]].source = request[e].source

\* A file under staging belongs to a call that is running, or to one whose
\* process died: no error path leaves one behind (the deferred os.Remove).
StagingLeftByCrashOnly ==
    \A e \in staging : callPc[e] \in InFlight \cup {"dead"}

\* A handle that refuses work as terminal stands for an activity that is: a
\* Finish that failed, or was cancelled, leaves the handle usable.
TerminalFlagIsTrue ==
    \A h \in Handles : terminal[h] => Terminal(handleOf[h])

\* Once Finish has left its wait loop no call started on that handle is running,
\* and none can start until it returns; the counter agrees with the calls.
FinishDrainsItsHandle ==
    \A h \in Handles :
        /\ captures[h] = Cardinality(CallsOn(h))
        /\ finishPc[h] \in {"writing", "acked", "refused"} => CallsOn(h) = {}

\* A Finish returns: the call that ends last wakes the one that waits for it.
FinishReturns ==
    \A h \in Handles : finishing[h] ~> ~finishing[h]

P == INSTANCE Provenance

\* The tables of the catalog keep the abstract promise: inputs exist and close at
\* the first output, an entity is generated once, by a running activity, and a
\* terminal activity gets nothing more.
ImplementsProvenance == P!ProvSpec

\* Nothing is made, by whatever chain of activities, from itself: neither when a Use races
\* the first output of its activity, nor when outputs become inputs of one another's makers.
DerivationIsAcyclic == P!Acyclic
=============================================================================
