------------------------------ MODULE ParserPool ------------------------------
(***************************************************************************)
(* One call of Session.ParseMany: its workers, the ParseObject that each   *)
(* of them runs for an input, and the cache of parser results they share   *)
(* (src/forensic/parser.go).                                               *)
(*                                                                         *)
(* A job is an index of the call's inputs.  It begins at most one activity *)
(* and the model names that by the job.  All jobs have one parser and one  *)
(* configuration, so that an object is a key of the cache.  The parser is  *)
(* any that emits a bounded number of outputs and may fail after each.     *)
(* A transaction is one step, as CaseMutate shows; what an activity that   *)
(* has ended refuses is as in module Activity.                             *)
(***************************************************************************)
EXTENDS Integers, Sequences, FiniteSets

CONSTANTS Objects, NoEntry, NoResult,
          GOMAXPROCS,  \* the workers of a call that does not say how many
          \* Bounds of the model: the calls, the workers asked for, a parser's outputs.
          Offered, MaxInputs, MaxConcurrency, MaxOutputs

ASSUME PoolAssumption ==
    /\ GOMAXPROCS \in Nat \ {0}
    /\ \A objects \in Offered : objects \in Seq(Objects) /\ Len(objects) <= MaxInputs
    /\ MaxInputs \in Nat /\ MaxConcurrency \in Nat /\ MaxOutputs \in Nat
    /\ NoEntry \notin [source : Nat, outputs : Nat]

VARIABLES
    \* The catalog.
    state,    \* of each job's activity, "none" while there is no row
    used,     \* how many activity_inputs it has: its source, then cached outputs
    emitted,  \* how many activity_outputs it has
    cache,    \* parser_cache and parser_cache_outputs
    \* The call.
    pool, inputs, workers, useCache, cancelled,
    jobs,     \* the next index the producer offers
    results,
    \* Its workers, by the job each is at.
    pc,
    hit,      \* what lookupParserCache returned
    outputs   \* result.Outputs: how many, of its own activity

catalog == <<state, used, emitted, cache>>
call == <<pool, inputs, workers, useCache, cancelled, jobs>>
worker == <<pc, hit, outputs>>
vars == <<catalog, call, results, worker>>

Jobs == 1..MaxInputs
Entries == [source : Jobs, outputs : 0..MaxOutputs]
Results == [input : Objects, ok : BOOLEAN, of : Entries \cup {NoEntry}, reused : BOOLEAN]
ASSUME NoResultAssumption == NoResult \notin Results

Steps == {"started", "beginning", "using", "parsing", "reusing", "failing", "finishing",
          "collecting", "storing"}
Ends == {"succeeded", "failed", "interrupted"}

TypeOK ==
    /\ state \in [Jobs -> {"none", "running"} \cup Ends]
    /\ used \in [Jobs -> 0..(MaxOutputs + 1)]
    /\ emitted \in [Jobs -> 0..MaxOutputs]
    /\ cache \in [Objects -> Entries \cup {NoEntry}]
    /\ pool \in {"idle", "sending", "closed", "returned"}
    /\ inputs \in Seq(Objects) /\ Len(inputs) <= MaxInputs
    /\ workers \in Nat
    /\ useCache \in BOOLEAN /\ cancelled \in BOOLEAN
    /\ jobs \in 1..(MaxInputs + 1)
    /\ results \in [Jobs -> Results \cup {NoResult}]
    /\ pc \in [Jobs -> {"waiting", "done"} \cup Steps]
    /\ hit \in [Jobs -> Entries \cup {NoEntry}]
    /\ outputs \in [Jobs -> 0..MaxOutputs]

Init ==
    /\ state = [i \in Jobs |-> "none"]
    /\ used = [i \in Jobs |-> 0]
    /\ emitted = [i \in Jobs |-> 0]
    /\ cache = [o \in Objects |-> NoEntry]
    /\ pool = "idle" /\ inputs = <<>> /\ workers = 0
    /\ useCache = FALSE /\ cancelled = FALSE /\ jobs = 1
    /\ results = [i \in Jobs |-> NoResult]
    /\ pc = [i \in Jobs |-> "waiting"]
    /\ hit = [i \in Jobs |-> NoEntry]
    /\ outputs = [i \in Jobs |-> 0]
----------------------------------------------------------------------------
\* ParseMany.

LeastOf(m, n) == IF m < n THEN m ELSE n

\* No workers for a concurrency that is not given.
WorkerCount_NoDefault(concurrency, n) == LeastOf(concurrency, n)

WorkerCount(concurrency, n) ==
    LeastOf(IF concurrency = 0 THEN GOMAXPROCS ELSE concurrency, n)

ParseMany(objects, concurrency, cached) ==
    /\ pool = "idle"
    /\ pool' = "sending"
    /\ inputs' = objects
    /\ workers' = WorkerCount(concurrency, Len(objects))
    /\ useCache' = cached
    /\ UNCHANGED <<catalog, cancelled, jobs, results, worker>>

\* The caller's context ends.
Cancel ==
    /\ pool \in {"sending", "closed"} /\ ~cancelled
    /\ cancelled' = TRUE
    /\ UNCHANGED <<catalog, pool, inputs, workers, useCache, jobs, results, worker>>

Busy == {i \in Jobs : pc[i] \in Steps}

\* jobs <- index, to a worker that waits; a cancelled producer may still do it.
Send ==
    /\ pool = "sending" /\ jobs <= Len(inputs)
    /\ Cardinality(Busy) < workers
    /\ pc' = [pc EXCEPT ![jobs] = "started"]
    /\ jobs' = jobs + 1
    /\ UNCHANGED <<catalog, pool, inputs, workers, useCache, cancelled, results, hit, outputs>>

\* close(jobs), when all are sent or at ctx.Done().
CloseJobs ==
    /\ pool = "sending"
    /\ jobs > Len(inputs) \/ cancelled
    /\ pool' = "closed"
    /\ UNCHANGED <<catalog, inputs, workers, useCache, cancelled, jobs, results, worker>>

NoAnswer(i) == [input |-> inputs[i], ok |-> FALSE, of |-> NoEntry, reused |-> FALSE]

\* The slots nobody was sent are left as they were made.
Unsent_LeftEmpty == {}

\* The results that no worker wrote are those after the last index sent.
Unsent == {i \in jobs..Len(inputs) : results[i] = NoResult}

\* workers.Wait, then the slots of what was never sent.
Return ==
    /\ pool = "closed" /\ Busy = {}
    /\ pool' = "returned"
    /\ results' = [i \in Jobs |-> IF i \in Unsent THEN NoAnswer(i) ELSE results[i]]
    /\ UNCHANGED <<catalog, inputs, workers, useCache, cancelled, jobs, worker>>
----------------------------------------------------------------------------
\* A worker, and its ParseObject for the input of job i.

Goto(i, step) == pc' = [pc EXCEPT ![i] = step]

Answer(i, answer) ==
    /\ results' = [results EXCEPT ![i] = answer]
    /\ Goto(i, "done")

\* Before there is an activity: the context is found cancelled, the session
\* closed, the parser missing or unwilling, or a statement fails.
Refuse(i) ==
    /\ pc[i] \in {"started", "beginning"}
    /\ Answer(i, NoAnswer(i))
    /\ UNCHANGED <<catalog, call, hit, outputs>>

\* ctx.Err() and the probe; lookupParserCache, if it is asked for.  The two rows
\* it reads one after the other were committed together and never change.
LookUp(i) ==
    /\ pc[i] = "started" /\ ~cancelled
    /\ hit' = [hit EXCEPT ![i] = IF useCache THEN cache[inputs[i]] ELSE NoEntry]
    /\ Goto(i, "beginning")
    /\ UNCHANGED <<catalog, call, results, outputs>>

\* BeginActivity, of a parse or of a reuse.
Begin(i) ==
    /\ pc[i] = "beginning" /\ ~cancelled
    /\ state' = [state EXCEPT ![i] = "running"]
    /\ Goto(i, "using")
    /\ UNCHANGED <<used, emitted, cache, call, results, hit, outputs>>

\* Only the context is looked at.
CanWrite_AnyState(i) == ~cancelled

\* No transaction of an activity that has ended, or under a cancelled context.
CanWrite(i) == state[i] = "running" /\ ~cancelled

Reuses(i) == hit[i] # NoEntry

UseSource(i) ==
    /\ pc[i] = "using" /\ CanWrite(i)
    /\ used' = [used EXCEPT ![i] = @ + 1]
    /\ Goto(i, IF Reuses(i) THEN "reusing" ELSE "parsing")
    /\ UNCHANGED <<state, emitted, cache, call, results, hit, outputs>>

\* parser.Parse, through the activity.
Emit(i) ==
    /\ pc[i] = "parsing" /\ CanWrite(i)
    /\ emitted[i] < MaxOutputs
    /\ emitted' = [emitted EXCEPT ![i] = @ + 1]
    /\ UNCHANGED <<state, used, cache, call, results, worker>>

Parsed(i) ==
    /\ pc[i] = "parsing"
    /\ Goto(i, "finishing")
    /\ UNCHANGED <<catalog, call, results, hit, outputs>>

\* recordParserReuse: every cached output is an input of the reuse.
UsesLeft(i) == used[i] < 1 + hit[i].outputs

UseCached(i) ==
    /\ pc[i] = "reusing" /\ UsesLeft(i) /\ CanWrite(i)
    /\ used' = [used EXCEPT ![i] = @ + 1]
    /\ UNCHANGED <<state, emitted, cache, call, results, worker>>

UsedAll(i) ==
    /\ pc[i] = "reusing" /\ ~UsesLeft(i)
    /\ Goto(i, "finishing")
    /\ UNCHANGED <<catalog, call, results, hit, outputs>>

\* A Use, OpenObject or the parser fails.
Break(i) ==
    /\ pc[i] \in {"using", "parsing", "reusing"}
    /\ Goto(i, "failing")
    /\ UNCHANGED <<catalog, call, results, hit, outputs>>

\* Its Finish with OutcomeFailed has the same context, and its error is dropped.
FinishFailed(i) ==
    /\ pc[i] = "failing"
    /\ \/ CanWrite(i) /\ state' = [state EXCEPT ![i] = "failed"]
       \/ UNCHANGED state
    /\ Answer(i, NoAnswer(i))
    /\ UNCHANGED <<used, emitted, cache, call, hit, outputs>>

\* UPDATE activities ... WHERE state='running' has to change a row.
CanFinish(i) == CanWrite(i)

EndedAs(i, outcome) == IF state[i] = "running" THEN outcome ELSE state[i]

Finish(i) ==
    /\ pc[i] = "finishing" /\ CanFinish(i)
    /\ state' = [state EXCEPT ![i] = EndedAs(i, "succeeded")]
    /\ IF Reuses(i)
       THEN Answer(i, [input |-> inputs[i], ok |-> TRUE, of |-> hit[i], reused |-> TRUE])
       ELSE Goto(i, "collecting") /\ UNCHANGED results
    /\ UNCHANGED <<used, emitted, cache, call, hit, outputs>>

\* Finish, activityOutputEntities or storeParserCache fails.
FailLate(i) ==
    /\ pc[i] \in {"finishing", "collecting", "storing"}
    /\ Answer(i, NoAnswer(i))
    /\ UNCHANGED <<catalog, call, hit, outputs>>

OwnAnswer(i, n) ==
    [input |-> inputs[i], ok |-> TRUE, of |-> [source |-> i, outputs |-> n], reused |-> FALSE]

\* activityOutputEntities
Collect(i) ==
    /\ pc[i] = "collecting" /\ ~cancelled
    /\ outputs' = [outputs EXCEPT ![i] = emitted[i]]
    /\ IF useCache THEN Goto(i, "storing") /\ UNCHANGED results
       ELSE Answer(i, OwnAnswer(i, emitted[i]))
    /\ UNCHANGED <<catalog, call, hit>>

\* INSERT OR REPLACE
Cached_Replacing(i) == [source |-> i, outputs |-> outputs[i]]

\* INSERT OR IGNORE; no rows changed is a replay.
Cached(i) ==
    IF cache[inputs[i]] = NoEntry THEN [source |-> i, outputs |-> outputs[i]]
    ELSE cache[inputs[i]]

\* storeParserCache
Store(i) ==
    /\ pc[i] = "storing" /\ ~cancelled
    /\ cache' = [cache EXCEPT ![inputs[i]] = Cached(i)]
    /\ Answer(i, OwnAnswer(i, outputs[i]))
    /\ UNCHANGED <<state, used, emitted, call, hit, outputs>>

\* MarkActivitiesInterrupted, by another process.
Interrupt(i) ==
    /\ state[i] = "running"
    /\ state' = [state EXCEPT ![i] = "interrupted"]
    /\ UNCHANGED <<used, emitted, cache, call, results, worker>>
----------------------------------------------------------------------------
Produce == Send \/ CloseJobs \/ Return

Work(i) ==
    \/ Refuse(i) \/ LookUp(i) \/ Begin(i) \/ UseSource(i) \/ Emit(i) \/ Parsed(i)
    \/ UseCached(i) \/ UsedAll(i) \/ Break(i) \/ FinishFailed(i) \/ Finish(i)
    \/ FailLate(i) \/ Collect(i) \/ Store(i)

Next ==
    \/ \E objects \in Offered, concurrency \in 0..MaxConcurrency, cached \in BOOLEAN :
           ParseMany(objects, concurrency, cached)
    \/ Cancel \/ Produce
    \/ \E i \in Jobs : Work(i) \/ Interrupt(i)

Spec == Init /\ [][Next]_vars

\* Goroutines are scheduled, statements and parsers end.  Each step of a worker changes
\* its place, or counts a row.
Fairness == WF_vars(Produce) /\ \A i \in Jobs : WF_<<pc[i], used[i], emitted[i]>>(Work(i))

FairSpec == Spec /\ Fairness
----------------------------------------------------------------------------
(* Properties. *)

\* "Result order always matches input order": when ParseMany returns, every input
\* has a result, its own, also if the context ended before it was sent or while
\* its worker was at it.
ResultsMatchInputs ==
    pool = "returned" =>
        \A i \in Jobs : IF i <= Len(inputs)
                        THEN results[i] # NoResult /\ results[i].input = inputs[i]
                        ELSE results[i] = NoResult

\* The cache offers only what a parse that succeeded emitted, all of it, and for
\* the object that it parsed: not what an interrupted or a failed one left, and
\* nothing is emitted after the entry was written.
CacheIsOfSuccess ==
    \A o \in Objects : cache[o] # NoEntry =>
        LET i == cache[o].source
        IN  /\ state[i] = "succeeded" /\ cache[o].outputs = emitted[i]
            /\ inputs[i] = o /\ used[i] = 1 /\ hit[i] = NoEntry

\* A result without error is backed by the catalog: its activity succeeded; a
\* reuse names the entry on record and has the source and all its outputs as
\* inputs, although parses of the same object raced to write that entry.
ResultsAreBacked ==
    \A i \in Jobs : results[i] # NoResult /\ results[i].ok =>
        /\ state[i] = "succeeded"
        /\ results[i].of.outputs = emitted[results[i].of.source]
        /\ IF results[i].reused
           THEN results[i].of = cache[inputs[i]] /\ used[i] = 1 + results[i].of.outputs
           ELSE results[i].of.source = i

\* ParseMany returns: the producer is never stuck with a job no worker takes, nor
\* the call with a worker that waits for ever.
ParseManyReturns == pool = "sending" ~> pool = "returned"

\* What it leaves in the catalog, as provenance: an entity is an object, numbered 0, or
\* the n-th output of a job, and activity 0 has imported the objects.  The inputs of a
\* job are its object, then the outputs of the parse that it reuses.
Entities == (Objects \X {0}) \cup (Jobs \X (1..MaxOutputs))
Imported == 0
Nobody == -1

InputsOf(i) ==
    IF used[i] = 0 THEN {}
    ELSE {<<inputs[i], 0>>} \cup {<<hit[i].source, n>> : n \in 1..(used[i] - 1)}

GeneratedBy(e) ==
    IF e[2] = 0 THEN Imported ELSE IF e[2] <= emitted[e[1]] THEN e[1] ELSE Nobody

Activities == {Imported} \cup Jobs
States == [a \in Activities |-> IF a = Imported THEN "succeeded" ELSE state[a]]
Declared == [a \in Activities |-> IF a = Imported THEN {} ELSE InputsOf(a)]
Generated == [e \in Entities |-> GeneratedBy(e)]

P == INSTANCE Provenance WITH
         Outcomes <- Ends, NoActivity <- Nobody,
         state <- States, inputs <- Declared, generatedBy <- Generated

\* Whatever is cancelled, interrupted or reused, and whoever wins the race to the cache,
\* the pool takes only steps that Provenance allows: an activity that has ended gets
\* nothing more, an input was there when it was declared, and a reuse has declared its
\* inputs without an output of its own.
KeepsProvenance == [][P!ProvNext]_(P!provVars)
=============================================================================
