------------------------------ MODULE Sessions ------------------------------
(***************************************************************************)
(* One session of a case: its row and the handles on it (StartSession,     *)
(* Session.Close in src/forensic/activity.go), and one call that a handle  *)
(* makes while others close the session, the caller's context ends, and    *)
(* recovery interrupts what it finds running: an experiment (RunExperiment *)
(* in runner.go), a byte search that is saved (SaveByteSearch in           *)
(* search.go) or a transfer of custody (custody.go).                       *)
(*                                                                         *)
(* The scan of a search is module ByteSearch, a materialization is in      *)
(* Delivery, a capture and a Use are as in Activity; each is a step here   *)
(* that succeeds or fails.  A transaction is one step, as CaseMutate       *)
(* shows, which also has the keys of these calls.  The command of an       *)
(* experiment and the files it works on are the world outside.             *)
(***************************************************************************)
EXTENDS ByteSearch

CONSTANTS Handles, NoHandle,
          Outputs,   \* how many outputs the experiment declares
          Asked      \* the calls that are made (a bound of the model)

Operations == {"experiment", "search", "custody"}

ASSUME SessionAssumption ==
    /\ NoHandle \notin Handles
    /\ Outputs \in Nat
    /\ Asked \subseteq Operations

VARIABLES
    \* The session.
    session,      \* its row
    handle,       \* Session.closed of each handle, once there is one
    closing,      \* the handles whose Close is between its flag and its transaction
    spared,       \* history: Session.Close failed after it had set a flag
    \* The call.
    op, by, pc,
    cancelled,    \* the caller's context has ended
    bound,        \* the step at hand runs under that context
    result,
    \* What it records: its activity, with the entities used and captured.
    state, used, sealed, captured,
    saved,        \* the hits of the saved search
    events,       \* custody events
    \* The experiment.
    runErr,       \* how the command ended
    intact,       \* the workspace's inputs are as they were materialized
    altered,      \* history: they were changed while the command ran
    inputCheck,
    outcome,
    left          \* history: why its activity may be left running

sessionVars == <<session, handle, closing, spared>>
callVars == <<op, by, pc, cancelled, bound, result>>
activity == <<state, used, sealed, captured>>
recordVars == <<activity, saved, events>>
runVars == <<runErr, intact, altered, inputCheck, outcome, left>>
vars == <<searchVars, sessionVars, callVars, recordVars, runVars>>

Ends == {"succeeded", "failed", "cancelled", "interrupted"}
Logs == 2  \* stdout and stderr

Preparing == {"materializing", "beginning", "inserting", "loading", "using", "sealing", "starting"}
Working == {"capturing", "verifying", "judging", "finishing"}
OnActivity == {"using", "sealing", "starting", "running"} \cup Working
Steps == Preparing \cup {"running", "failing", "selecting", "searching", "saving", "recording"} \cup Working

TypeOK ==
    /\ session \in {"none", "open", "closed"}
    /\ handle \in [Handles -> {"none", "open", "closed"}]
    /\ closing \subseteq Handles /\ spared \in BOOLEAN
    /\ op \in Operations \cup {"none"} /\ by \in Handles \cup {NoHandle}
    /\ pc \in {"idle", "returned", "dead"} \cup Steps
    /\ cancelled \in BOOLEAN /\ bound \in BOOLEAN
    /\ result \in {"none", "ok", "error"}
    /\ state \in {"none", "running"} \cup Ends
    /\ used \in 0..2 /\ sealed \in BOOLEAN /\ captured \in 0..(Logs + Outputs)
    /\ saved = <<>> \/ saved = hits
    /\ events \in 0..1
    /\ runErr \in {"none", "nil", "error"}
    /\ intact \in BOOLEAN /\ altered \in BOOLEAN
    /\ inputCheck \in {"none", "ok", "changed"}
    /\ outcome \in {"none"} \cup Ends
    /\ left \in {"no", "unheld", "unfinished"}

\* Before a search is asked for.
NoSearch == [members |-> <<>>, literal |-> <<0>>, context |-> 0, limit |-> 1]

Init ==
    /\ SearchFor(NoSearch)
    /\ session = "none" /\ handle = [h \in Handles |-> "none"]
    /\ closing = {} /\ spared = FALSE
    /\ op = "none" /\ by = NoHandle /\ pc = "idle"
    /\ cancelled = FALSE /\ bound = TRUE /\ result = "none"
    /\ state = "none" /\ used = 0 /\ sealed = FALSE /\ captured = 0
    /\ saved = <<>> /\ events = 0
    /\ runErr = "none" /\ intact = TRUE /\ altered = FALSE /\ inputCheck = "none"
    /\ outcome = "none" /\ left = "no"
----------------------------------------------------------------------------
\* The session.

\* The row is replaced.
RowStarted_Replaced == "open"

\* With one key: the first call inserts the row, and every later one is answered
\* with its ID, also when the row has been closed.
RowStarted == IF session = "none" THEN "open" ELSE session

\* A handle on the session; two may have been obtained with one key.
StartSession(h) ==
    /\ handle[h] = "none"
    /\ handle' = [handle EXCEPT ![h] = "open"]
    /\ session' = RowStarted
    /\ UNCHANGED <<searchVars, closing, spared, callVars, recordVars, runVars>>

\* The process that a handle is in.
Alive(h) == ~(pc = "dead" /\ by = h)

\* Close, up to its transaction; when the flag is set it has nothing to do.
Close(h) ==
    /\ handle[h] = "open" /\ Alive(h)
    /\ handle' = [handle EXCEPT ![h] = "closed"]
    /\ closing' = closing \cup {h}
    /\ UNCHANGED <<searchVars, session, spared, callVars, recordVars, runVars>>

\* UPDATE sessions SET closed_at=? WHERE id=? AND closed_at IS NULL
CloseRow(h) ==
    /\ h \in closing /\ session = "open" /\ Alive(h)
    /\ session' = "closed"
    /\ closing' = closing \ {h}
    /\ UNCHANGED <<searchVars, handle, spared, callVars, recordVars, runVars>>

\* No row changed, a cancelled context, an I/O error, or the end of the process.
FailClose(h) ==
    /\ h \in closing
    /\ closing' = closing \ {h}
    /\ spared' = (spared \/ session = "open")
    /\ UNCHANGED <<searchVars, session, handle, callVars, recordVars, runVars>>
----------------------------------------------------------------------------
\* The call.

IsOpen == handle[by] = "open"

Goto(step) == pc' = step

Return(answer) == result' = answer /\ Goto("returned")

FirstStep == [experiment |-> "materializing", search |-> "selecting", custody |-> "recording"]

\* Its first checkOpen; a call on a closed handle returns at once.
Call(h, o) ==
    /\ pc = "idle" /\ handle[h] = "open"
    /\ op' = o /\ by' = h
    /\ Goto(FirstStep[o])
    /\ IF o = "search"
       THEN /\ search' \in Searches /\ room' = search'.limit
            /\ UNCHANGED <<member, base, matches, off, hits>>
       ELSE UNCHANGED searchVars
    /\ UNCHANGED <<sessionVars, cancelled, bound, result, recordVars, runVars>>

Cancel ==
    /\ pc \in Steps /\ ~cancelled
    /\ cancelled' = TRUE
    /\ UNCHANGED <<searchVars, sessionVars, op, by, pc, bound, result, recordVars, runVars>>

\* The step at hand has not failed for its context.
InTime == ~(bound /\ cancelled)

\* An error before there is an activity to finish.
Refuse ==
    /\ pc \in {"materializing", "beginning", "inserting", "selecting", "searching", "saving",
               "recording"}
    /\ Return("error")
    /\ UNCHANGED <<searchVars, sessionVars, op, by, cancelled, bound, recordVars, runVars>>
----------------------------------------------------------------------------
\* RunExperiment.

Quiet == UNCHANGED <<searchVars, sessionVars, op, by, cancelled, saved, events>>

\* Materialize and BeginActivity each look at the flag again.
Materialize ==
    /\ pc = "materializing" /\ IsOpen /\ InTime
    /\ Goto("beginning")
    /\ Quiet /\ UNCHANGED <<bound, result, activity, runVars>>

BeginActivity ==
    /\ pc = "beginning" /\ IsOpen
    /\ Goto("inserting")
    /\ Quiet /\ UNCHANGED <<bound, result, activity, runVars>>

\* Its transaction does not look at the session's row.
InsertActivity ==
    /\ pc = "inserting" /\ InTime
    /\ state' = "running"
    /\ Goto("loading")
    /\ Quiet /\ UNCHANGED <<bound, result, used, sealed, captured, runVars>>

\* The SELECT after the transaction; without it there is no handle to finish.
LoadActivity ==
    /\ pc = "loading"
    /\ \/ InTime /\ Goto("using") /\ UNCHANGED <<result, left>>
       \/ Return("error") /\ left' = "unheld"
    /\ Quiet /\ UNCHANGED <<bound, activity, runErr, intact, altered, inputCheck, outcome>>

MayWrite == state = "running" /\ InTime

\* The projection, and the manifest of its materialization.
Use ==
    /\ pc = "using" /\ MayWrite
    /\ used' = used + 1
    /\ Goto(IF used' = 2 THEN "sealing" ELSE "using")
    /\ Quiet /\ UNCHANGED <<bound, result, state, sealed, captured, runVars>>

SealInputs ==
    /\ pc = "sealing" /\ MayWrite
    /\ sealed' = TRUE
    /\ Goto("starting")
    /\ Quiet /\ UNCHANGED <<bound, result, state, used, captured, runVars>>

\* ctxOrBackground: a step that begins after the caller's context ended is not
\* bound to it, one that has begun is.
Enter(step) == Goto(step) /\ bound' = ~cancelled

\* command.Run under the caller's context, which may have ended, or it cannot start.
RunCommand ==
    /\ pc = "starting"
    /\ \/ ~cancelled /\ Goto("running") /\ UNCHANGED <<runErr, bound>>
       \/ runErr' = "error" /\ Enter("capturing")
    /\ Quiet
    /\ UNCHANGED <<result, activity, intact, altered, inputCheck, outcome, left>>

\* The inputs are read-only to the command, which may change that, as may anyone.
Alter ==
    /\ pc \in OnActivity \cup {"failing"} /\ intact
    /\ intact' = FALSE
    /\ altered' = (pc = "running")
    /\ UNCHANGED <<searchVars, sessionVars, callVars, recordVars, runErr, inputCheck, outcome,
                   left>>

\* It exits, or is killed at the end of the context.
Exit ==
    /\ pc = "running"
    /\ runErr' \in {"nil", "error"}
    /\ Enter("capturing")
    /\ Quiet /\ UNCHANGED <<result, activity, intact, altered, inputCheck, outcome, left>>

\* Capture of stdout and of stderr, then CaptureFile of each declared output.
Capture ==
    /\ pc = "capturing" /\ MayWrite
    /\ captured' = captured + 1
    /\ Enter(IF captured' = Logs + Outputs THEN "verifying" ELSE "capturing")
    /\ Quiet /\ UNCHANGED <<result, state, used, sealed, runVars>>

\* Verify of the materialization, digest by digest.
Verify ==
    /\ pc = "verifying" /\ InTime
    /\ inputCheck' = IF intact THEN "ok" ELSE "changed"
    /\ Goto("judging")
    /\ Quiet /\ UNCHANGED <<bound, result, activity, runErr, intact, altered, outcome, left>>

\* The check is not part of it.
Judged_Unchecked ==
    IF cancelled THEN "cancelled" ELSE IF runErr = "error" THEN "failed" ELSE "succeeded"

Judged ==
    IF inputCheck = "changed" THEN "failed"
    ELSE IF cancelled THEN "cancelled"
    ELSE IF runErr = "error" THEN "failed" ELSE "succeeded"

Judge ==
    /\ pc = "judging"
    /\ outcome' = Judged
    /\ Enter("finishing")
    /\ Quiet /\ UNCHANGED <<result, activity, runErr, intact, altered, inputCheck, left>>

\* Finish, then ctx.Err().
Finish ==
    /\ pc = "finishing" /\ MayWrite
    /\ state' = outcome
    /\ Return(IF cancelled THEN "error" ELSE "ok")
    /\ Quiet /\ UNCHANGED <<bound, used, sealed, captured, runVars>>

\* The deferred Finish has a context without the caller's cancellation.
DeferredBound_Caller == TRUE

DeferredBound == FALSE

\* Any of them fails: what the activity refuses, the end of a context it is bound to,
\* an output that is not there, an I/O error.
Break ==
    /\ pc \in OnActivity \ {"starting", "running", "judging"}
    /\ Goto("failing") /\ bound' = DeferredBound
    /\ Quiet /\ UNCHANGED <<result, activity, runVars>>

\* Finish committed and its caller is told of an error.
FinishUnacknowledged ==
    /\ pc = "finishing" /\ MayWrite
    /\ state' = outcome
    /\ Goto("failing") /\ bound' = DeferredBound
    /\ Quiet /\ UNCHANGED <<result, used, sealed, captured, runVars>>

FinishFailed ==
    /\ pc = "failing" /\ MayWrite
    /\ state' = "failed"
    /\ Return("error")
    /\ Quiet /\ UNCHANGED <<bound, used, sealed, captured, runVars>>

\* It is refused, for the activity or the context has ended, or it fails by itself;
\* its error is dropped.
FinishRefused ==
    /\ pc = "failing"
    /\ left' = IF MayWrite THEN "unfinished" ELSE left
    /\ Return("error")
    /\ Quiet /\ UNCHANGED <<bound, activity, runErr, intact, altered, inputCheck, outcome>>

Prepare ==
    Materialize \/ BeginActivity \/ InsertActivity \/ LoadActivity \/ Use \/ SealInputs

Experiment ==
    \/ Prepare \/ RunCommand \/ Exit \/ Capture \/ Verify \/ Judge \/ Finish
    \/ Break \/ FinishUnacknowledged \/ FinishFailed \/ FinishRefused
----------------------------------------------------------------------------
\* SaveByteSearch and RecordCustodyTransfer.

Select ==
    /\ pc = "selecting" /\ InTime
    /\ Goto("searching")
    /\ UNCHANGED <<searchVars, sessionVars, op, by, cancelled, bound, result, recordVars, runVars>>

\* The context is looked at before every chunk.
Scan ==
    /\ pc = "searching" /\ InTime /\ SearchNext
    /\ UNCHANGED <<sessionVars, callVars, recordVars, runVars>>

Scanned ==
    /\ pc = "searching" /\ Searched
    /\ Goto("saving")
    /\ UNCHANGED <<searchVars, sessionVars, op, by, cancelled, bound, result, recordVars, runVars>>

\* One transaction: an activity that succeeded, an artifact for every hit, and the
\* selection of them.
SaveSearch ==
    /\ pc = "saving" /\ InTime
    /\ state' = "succeeded" /\ sealed' = TRUE
    /\ saved' = hits
    /\ Return("ok")
    /\ UNCHANGED <<searchVars, sessionVars, op, by, cancelled, bound, used, captured, events,
                   runVars>>

RecordCustodyTransfer ==
    /\ pc = "recording" /\ InTime
    /\ state' = "succeeded" /\ sealed' = TRUE
    /\ events' = events + 1
    /\ Return("ok")
    /\ UNCHANGED <<searchVars, sessionVars, op, by, cancelled, bound, used, captured, saved,
                   runVars>>
----------------------------------------------------------------------------
\* The world.

\* MarkActivitiesInterrupted.
Interrupt ==
    /\ state = "running"
    /\ state' = "interrupted"
    /\ UNCHANGED <<searchVars, sessionVars, callVars, used, sealed, captured, saved, events, runVars>>

\* The process of the call and of its handle ends.
Crash ==
    /\ pc \in Steps
    /\ Goto("dead")
    /\ UNCHANGED <<searchVars, sessionVars, op, by, cancelled, bound, result, recordVars, runVars>>

SessionWork == \E h \in Handles : StartSession(h) \/ Close(h) \/ CloseRow(h) \/ FailClose(h)

CallWork ==
    Refuse \/ Experiment \/ Select \/ Scan \/ Scanned \/ SaveSearch \/ RecordCustodyTransfer

Next ==
    \/ SessionWork
    \/ \E h \in Handles, o \in Asked : Call(h, o)
    \/ Cancel \/ CallWork
    \/ Alter \/ Interrupt \/ Crash

Spec == Init /\ [][Next]_vars
----------------------------------------------------------------------------
(* Properties. *)

\* The catalog says of an experiment that it succeeded only if its command did, and
\* that it was cancelled only if its context ended; neither if somebody changed the
\* inputs while it ran.  By then everything is recorded: both inputs, used before
\* they were sealed, the logs and every output.  And a caller that is told of no
\* error knows what the catalog says.
OutcomeIsTrue ==
    op = "experiment" =>
        /\ state \in {"succeeded", "cancelled"} =>
               /\ inputCheck = "ok" /\ ~altered
               /\ IF state = "succeeded" THEN runErr = "nil" ELSE cancelled
               /\ used = 2 /\ sealed /\ captured = Logs + Outputs
        /\ result = "ok" => state = outcome /\ outcome \in {"succeeded", "failed"}

\* A call that returns, on whatever path and whenever its caller's context ended,
\* leaves no activity running, but for two failures that it cannot help: that of
\* BeginActivity after its transaction, and that of the deferred Finish.
RunsAreEnded == pc = "returned" /\ state = "running" => left # "no"

\* When nobody is at Session.Close, and it never failed, one closed handle means
\* that the session's row is closed, whoever else closed it or began it again.
CloseIsLostOnlyByFailure ==
    (\E h \in Handles : handle[h] = "closed") /\ closing = {} /\ ~spared => session = "closed"

\* What is saved as the hits of a search are occurrences with their whole contexts.
SavedHitsAreTrue == saved # <<>> => Searched /\ saved = hits /\ HitsAreOccurrences /\ ContextsAreWhole
=============================================================================
