-------------------------- MODULE ParserPoolProofs --------------------------
(***************************************************************************)
(* Proofs about module ParserPool, for every list of inputs, every number  *)
(* of workers and every bound on a parser's outputs: every slot gets its   *)
(* own result, the cache is of parses that succeeded, and a result without *)
(* error is backed by the catalog.  That ParseMany returns is liveness,    *)
(* and left to TLC.                                                        *)
(*                                                                         *)
(* A job writes its own rows and its own slot, so that most of the         *)
(* invariant is about one job at a time (JobOK).  What jobs share is the   *)
(* cache: an entry is never replaced, and its source has ended, so that    *)
(* nothing of it changes any more (Settled).                               *)
(***************************************************************************)
EXTENDS ParserPool, TLAPS

\* How far a job is, and what it has then recorded.
RowsOK(i) ==
    /\ pc[i] \in {"waiting", "started", "beginning"} =>
           state[i] = "none" /\ used[i] = 0 /\ emitted[i] = 0
    /\ pc[i] \in {"waiting", "started"} => hit[i] = NoEntry
    /\ pc[i] = "using" => used[i] = 0
    /\ pc[i] \in {"parsing", "collecting", "storing"} => hit[i] = NoEntry /\ used[i] = 1
    /\ pc[i] = "reusing" => hit[i] # NoEntry /\ used[i] <= 1 + hit[i].outputs
    /\ pc[i] = "finishing" =>
           used[i] = IF hit[i] = NoEntry THEN 1 ELSE 1 + hit[i].outputs
    /\ pc[i] \in {"collecting", "storing"} => state[i] = "succeeded"
    /\ pc[i] = "storing" => outputs[i] = emitted[i]
    /\ state[i] = "succeeded" => pc[i] \in {"collecting", "storing", "done"}
    /\ hit[i] # NoEntry => cache[inputs[i]] = hit[i]

\* Its place among the inputs, and its slot.
SlotOK(i) ==
    /\ pc[i] = "waiting" <=> jobs <= i
    /\ pc[i] # "waiting" => i <= Len(inputs)
    /\ pc[i] \in Steps => results[i] = NoResult /\ pool # "returned"
    /\ pc[i] = "done" => results[i] # NoResult
    /\ pc[i] = "waiting" /\ pool # "returned" => results[i] = NoResult
    /\ results[i] # NoResult =>
           /\ i <= Len(inputs) /\ results[i].input = inputs[i]
           /\ results[i].ok => pc[i] = "done" /\ results[i].of # NoEntry

CallOK ==
    /\ pool = "idle" => inputs = <<>> /\ jobs = 1
    /\ jobs <= Len(inputs) + 1

IInv ==
    /\ TypeOK /\ CallOK
    /\ \A i \in Jobs : RowsOK(i) /\ SlotOK(i)
    /\ CacheIsOfSuccess /\ ResultsAreBacked /\ ResultsMatchInputs
----------------------------------------------------------------------------
USE PoolAssumption, NoResultAssumption DEF Jobs

LEMMA InitIInv == Init => IInv
<1> SUFFICES ASSUME Init PROVE IInv
  OBVIOUS
<1>1. inputs \in Seq(Objects) /\ Len(inputs) = 0
  BY DEF Init
<1>2. TypeOK
  <2>1. 0 \in 0..MaxOutputs /\ 0 \in 0..(MaxOutputs + 1) /\ 1 \in 1..(MaxInputs + 1)
    OBVIOUS
  <2>2. /\ used \in [Jobs -> 0..(MaxOutputs + 1)] /\ emitted \in [Jobs -> 0..MaxOutputs]
        /\ outputs \in [Jobs -> 0..MaxOutputs] /\ jobs \in 1..(MaxInputs + 1)
    BY <2>1 DEF Init
  <2>3. inputs \in Seq(Objects) /\ Len(inputs) <= MaxInputs
    BY <1>1
  <2>. QED
    BY <2>2, <2>3 DEF Init, TypeOK
<1>3. \A i \in Jobs : RowsOK(i) /\ SlotOK(i)
  BY <1>1 DEF Init, RowsOK, SlotOK, Steps
<1>4. CallOK /\ CacheIsOfSuccess /\ ResultsAreBacked /\ ResultsMatchInputs
  BY <1>1 DEF Init, CallOK, CacheIsOfSuccess, ResultsAreBacked, ResultsMatchInputs
<1>. QED
  BY <1>2, <1>3, <1>4 DEF IInv

\* Whose input a job is at.
LEMMA InputOf ==
    ASSUME IInv, NEW i \in Jobs, pc[i] # "waiting"
    PROVE  i \in 1..Len(inputs) /\ inputs[i] \in Objects
<1>1. i <= Len(inputs) /\ inputs \in Seq(Objects)
  BY DEF IInv, SlotOK, TypeOK
<1>. QED
  BY <1>1

\* The answers have the type of results.
LEMMA Answers ==
    ASSUME IInv, NEW i \in Jobs, pc[i] # "waiting"
    PROVE  /\ NoAnswer(i) \in Results
           /\ \A n \in 0..MaxOutputs : OwnAnswer(i, n) \in Results
           /\ hit[i] \in Entries =>
                  [input |-> inputs[i], ok |-> TRUE, of |-> hit[i], reused |-> TRUE] \in Results
  BY InputOf DEF NoAnswer, OwnAnswer, Results, Entries

\* A step of the work of one job changes nothing of the call.
LEMMA WorkIsOwn ==
    ASSUME TypeOK, NEW i \in Jobs, Work(i) \/ Interrupt(i)
    PROVE  /\ UNCHANGED call
           /\ \A j \in Jobs : j # i =>
                  UNCHANGED <<state[j], used[j], emitted[j], results[j], pc[j], hit[j], outputs[j]>>
           /\ Store(i) \/ cache' = cache
  BY ZenonT(40) DEF Work, Interrupt, Refuse, LookUp, Begin, UseSource, Emit, Parsed, UseCached, UsedAll,
         Break, FinishFailed, Finish, FailLate, Collect, Store, Answer, Goto, call, catalog,
         worker, TypeOK

\* What an activity that succeeded has recorded stays, and so does the cache.
LEMMA Settled ==
    ASSUME IInv, NEW i \in Jobs, Work(i) \/ Interrupt(i)
    PROVE  /\ \A j \in Jobs : state[j] = "succeeded" =>
                  UNCHANGED <<state[j], used[j], emitted[j], hit[j]>>
           /\ \A o \in Objects : cache[o] # NoEntry => cache'[o] = cache[o]
<1>1. \A o \in Objects : cache[o] # NoEntry => cache'[o] = cache[o]
  <2>1. CASE Store(i)
    BY <2>1 DEF Store, Cached, IInv, TypeOK
  <2>. QED
    BY <2>1, WorkIsOwn DEF IInv
<1>2. state[i] = "succeeded" => UNCHANGED <<state[i], used[i], emitted[i], hit[i]>>
  <2> SUFFICES ASSUME state[i] = "succeeded"
               PROVE  UNCHANGED <<state[i], used[i], emitted[i], hit[i]>>
    OBVIOUS
  <2>1. pc[i] \in {"collecting", "storing", "done"}
    BY DEF IInv, RowsOK
  <2>. QED
    BY <2>1 DEF Work, Interrupt, Refuse, LookUp, Begin, UseSource, Emit, Parsed, UseCached,
           UsedAll, Break, FinishFailed, Finish, FailLate, Collect, Store, Answer, Goto,
           CanWrite, CanFinish, catalog, worker
<1>. QED
  BY <1>1, <1>2, WorkIsOwn DEF IInv
----------------------------------------------------------------------------
\* The call's own steps.

LEMMA CallStep ==
    ASSUME IInv,
           \/ \E objects \in Offered, concurrency \in 0..MaxConcurrency, cached \in BOOLEAN :
                  ParseMany(objects, concurrency, cached)
           \/ Cancel \/ Produce \/ UNCHANGED vars
    PROVE  IInv'
<1>1. ASSUME NEW objects \in Offered, NEW concurrency \in 0..MaxConcurrency,
             NEW cached \in BOOLEAN, ParseMany(objects, concurrency, cached)
      PROVE  IInv'
  <2>1. /\ pool = "idle" /\ pool' = "sending" /\ inputs' = objects /\ jobs = 1
        /\ UNCHANGED <<catalog, cancelled, jobs, results, worker>>
        /\ useCache' = cached
    BY <1>1 DEF ParseMany, IInv, CallOK
  <2>2. objects \in Seq(Objects) /\ Len(objects) <= MaxInputs /\ Len(objects) \in Nat
    OBVIOUS
  <2>3. workers' \in Nat
    BY <1>1, <2>2 DEF ParseMany, WorkerCount, LeastOf
  <2>4. TypeOK'
    BY <2>1, <2>2, <2>3 DEF IInv, TypeOK, catalog, worker
  <2>5. \A i \in Jobs : pc[i] = "waiting" /\ results[i] = NoResult
    <3>1. ASSUME NEW i \in Jobs PROVE pc[i] = "waiting" /\ results[i] = NoResult
      <4>1. jobs <= i
        BY <2>1
      <4>2. SlotOK(i)
        BY DEF IInv
      <4>. QED
        BY <2>1, <4>1, <4>2 DEF SlotOK
    <3>. QED
      BY <3>1
  <2>6. \A i \in Jobs : SlotOK(i)'
    BY <2>1, <2>5 DEF SlotOK, Steps, worker
  <2>7. \A i \in Jobs : state[i] = "none" /\ hit[i] = NoEntry
    BY <2>5 DEF IInv, RowsOK
  <2>8. \A i \in Jobs : RowsOK(i)'
    BY <2>1, <2>5, <2>7 DEF IInv, RowsOK, catalog, worker
  <2>9. \A o \in Objects : cache[o] = NoEntry
    BY <2>7 DEF IInv, CacheIsOfSuccess, TypeOK, Entries
  <2>10. CallOK'
    BY <2>1, <2>2 DEF CallOK
  <2>11. CacheIsOfSuccess' /\ ResultsAreBacked' /\ ResultsMatchInputs'
    BY <2>1, <2>5, <2>9
    DEF CacheIsOfSuccess, ResultsAreBacked, ResultsMatchInputs, catalog, worker
  <2>. QED
    BY <2>4, <2>6, <2>8, <2>10, <2>11 DEF IInv
<1>2. ASSUME Cancel \/ CloseJobs PROVE IInv'
  <2>1. /\ UNCHANGED <<catalog, inputs, workers, useCache, jobs, results, worker>>
        /\ pool # "idle" /\ pool # "returned" /\ pool' # "idle" /\ pool' # "returned"
    BY <1>2 DEF Cancel, CloseJobs
  <2>2. TypeOK'
    BY <1>2, <2>1 DEF IInv, TypeOK, Cancel, CloseJobs, catalog, worker
  <2>3. \A i \in Jobs : RowsOK(i)' /\ SlotOK(i)'
    BY <2>1 DEF IInv, RowsOK, SlotOK, catalog, worker
  <2>4. CallOK' /\ CacheIsOfSuccess' /\ ResultsAreBacked' /\ ResultsMatchInputs'
    BY <2>1
    DEF IInv, CallOK, CacheIsOfSuccess, ResultsAreBacked, ResultsMatchInputs, catalog, worker
  <2>. QED
    BY <2>2, <2>3, <2>4 DEF IInv
<1>3. ASSUME Send PROVE IInv'
  <2>1. /\ pool = "sending" /\ jobs <= Len(inputs) /\ jobs \in Jobs
        /\ pc' = [pc EXCEPT ![jobs] = "started"] /\ jobs' = jobs + 1
        /\ UNCHANGED <<catalog, pool, inputs, workers, useCache, cancelled, results, hit, outputs>>
    BY <1>3 DEF Send, IInv, TypeOK
  <2>2. TypeOK'
    <3>1. pc' \in [Jobs -> {"waiting", "done"} \cup Steps]
      BY <2>1 DEF IInv, TypeOK, Steps
    <3>2. jobs' \in 1..(MaxInputs + 1)
      BY <2>1
    <3>. QED
      BY <2>1, <3>1, <3>2 DEF IInv, TypeOK, catalog
  <2>3. pc[jobs] = "waiting" /\ results[jobs] = NoResult
    BY <2>1 DEF IInv, SlotOK, TypeOK
  <2>4. \A i \in Jobs : RowsOK(i)'
    BY <2>1, <2>3, SMTT(40) DEF IInv, RowsOK, catalog, TypeOK
  <2>5. ASSUME NEW i \in Jobs PROVE SlotOK(i)'
    <3>1. jobs \in Nat /\ i \in Nat
      BY DEF IInv, TypeOK
    <3>2. CASE i = jobs
      BY <2>1, <2>3, <3>1, <3>2 DEF IInv, SlotOK, Steps, TypeOK
    <3>3. CASE i # jobs
      <4>1. pc'[i] = pc[i] /\ UNCHANGED <<pool, inputs, results>>
        BY <2>1, <3>3 DEF IInv, TypeOK
      <4>2. jobs <= i <=> jobs' <= i
        BY <2>1, <3>1, <3>3
      <4>3. SlotOK(i)
        BY DEF IInv
      <4>. QED
        BY <4>1, <4>2, <4>3 DEF SlotOK
    <3>. QED
      BY <3>2, <3>3
  <2>6. CallOK'
    BY <2>1 DEF IInv, CallOK, TypeOK
  <2>7. CacheIsOfSuccess' /\ ResultsAreBacked' /\ ResultsMatchInputs'
    BY <2>1
    DEF IInv, CacheIsOfSuccess, ResultsAreBacked, ResultsMatchInputs, catalog
  <2>. QED
    BY <2>2, <2>4, <2>5, <2>6, <2>7 DEF IInv
<1>4. ASSUME Return PROVE IInv'
  <2>1. /\ pool = "closed" /\ pool' = "returned" /\ \A i \in Jobs : pc[i] \notin Steps
        /\ results' = [i \in Jobs |-> IF i \in Unsent THEN NoAnswer(i) ELSE results[i]]
        /\ UNCHANGED <<catalog, inputs, workers, useCache, cancelled, jobs, worker>>
    BY <1>4 DEF Return, Busy
  <2>2. jobs \in Nat \ {0} /\ Len(inputs) \in Nat /\ Len(inputs) <= MaxInputs
    BY DEF IInv, TypeOK
  <2>3. \A i \in Unsent : i \in Jobs /\ inputs[i] \in Objects
    BY <2>2, SMTT(40) DEF Unsent, IInv, TypeOK
  <2>4. \A i \in Unsent : NoAnswer(i) \in Results /\ NoAnswer(i) # NoResult
    <3>1. ASSUME NEW i \in Unsent PROVE NoAnswer(i) \in Results
      BY <2>3, <3>1 DEF NoAnswer, Results
    <3>. QED
      BY <3>1
  <2>5. TypeOK'
    BY <2>1, <2>4 DEF IInv, TypeOK, catalog, worker
  <2>6. \A i \in Jobs : i \in Unsent <=> pc[i] = "waiting" /\ i <= Len(inputs)
    <3>1. ASSUME NEW i \in Jobs PROVE i \in Unsent <=> pc[i] = "waiting" /\ i <= Len(inputs)
      <4>1. SlotOK(i) /\ i \in Nat
        BY DEF IInv
      <4>. QED
        BY <2>1, <2>2, <4>1 DEF SlotOK, Unsent
    <3>. QED
      BY <3>1
  <2>7. \A i \in Jobs : SlotOK(i)'
    BY <2>1, <2>4, <2>6 DEF IInv, SlotOK, NoAnswer, worker
  <2>8. \A i \in Jobs : RowsOK(i)'
    BY <2>1 DEF IInv, RowsOK, catalog, worker
  <2>9. CallOK' /\ CacheIsOfSuccess'
    BY <2>1 DEF IInv, CallOK, CacheIsOfSuccess, catalog, worker
  <2>10. ResultsAreBacked'
    BY <2>1, <2>4, <2>6 DEF IInv, ResultsAreBacked, NoAnswer, catalog, worker
  <2>11. ASSUME NEW i \in Jobs
         PROVE  IF i <= Len(inputs) THEN results'[i] # NoResult /\ results'[i].input = inputs[i]
                ELSE results'[i] = NoResult
    <3>1. CASE i \in Unsent
      BY <3>1, <2>1, <2>4, <2>6 DEF NoAnswer
    <3>2. CASE i \notin Unsent
      BY <3>2, <2>1, <2>6 DEF IInv, SlotOK, TypeOK
    <3>. QED
      BY <3>1, <3>2
  <2>12. ResultsMatchInputs'
    BY <2>1, <2>11 DEF ResultsMatchInputs
  <2>. QED
    BY <2>5, <2>7, <2>8, <2>9, <2>10, <2>12 DEF IInv
<1>5. ASSUME UNCHANGED vars PROVE IInv'
  BY <1>5, SMTT(40)
  DEF IInv, TypeOK, CallOK, RowsOK, SlotOK, CacheIsOfSuccess, ResultsAreBacked,
      ResultsMatchInputs, vars, catalog, call, worker
<1>. QED
  BY <1>1, <1>2, <1>3, <1>4, <1>5 DEF Produce
----------------------------------------------------------------------------
\* The steps of a job.

LEMMA WorkTypes ==
    ASSUME IInv, NEW i \in Jobs, Work(i) \/ Interrupt(i)
    PROVE  TypeOK'
<1> USE DEF TypeOK, Steps, Ends, catalog, call, worker, Goto, Answer
<1>0. TypeOK
  BY DEF IInv
<1>1. pc[i] # "waiting" =>
          /\ inputs[i] \in Objects
          /\ NoAnswer(i) \in Results /\ \A n \in 0..MaxOutputs : OwnAnswer(i, n) \in Results
          /\ hit[i] \in Entries =>
                 [input |-> inputs[i], ok |-> TRUE, of |-> hit[i], reused |-> TRUE] \in Results
  BY InputOf, Answers
<1>2. ASSUME Refuse(i) \/ FailLate(i) PROVE TypeOK'
  <2>1. pc[i] # "waiting" /\ NoAnswer(i) \in Results
    BY <1>1, <1>2 DEF Refuse, FailLate
  <2>2. /\ results' = [results EXCEPT ![i] = NoAnswer(i)] /\ pc' = [pc EXCEPT ![i] = "done"]
        /\ UNCHANGED <<catalog, call, hit, outputs>>
    BY <1>2 DEF Refuse, FailLate
  <2>3. results' \in [Jobs -> Results \cup {NoResult}]
    BY <1>0, <2>1, <2>2
  <2>. QED
    BY <1>0, <2>2, <2>3
<1>3. ASSUME LookUp(i) PROVE TypeOK'
  BY <1>0, <1>1, <1>3 DEF LookUp
<1>4. ASSUME Begin(i) \/ Parsed(i) \/ UsedAll(i) \/ Break(i) \/ Interrupt(i) PROVE TypeOK'
  BY <1>0, <1>4, ZenonT(40) DEF Begin, Parsed, UsedAll, Break, Interrupt
<1>5. ASSUME UseSource(i) PROVE TypeOK'
  <2>0. used[i] = 0 /\ used' = [used EXCEPT ![i] = @ + 1]
    <3>1. RowsOK(i)
      BY DEF IInv
    <3>. QED
      BY <1>5, <3>1 DEF UseSource, RowsOK
  <2>1. used' = [used EXCEPT ![i] = 1]
    BY <2>0
  <2>2. 1 \in 0..(MaxOutputs + 1)
    OBVIOUS
  <2>3. used' \in [Jobs -> 0..(MaxOutputs + 1)]
    BY <1>0, <2>1, <2>2
  <2>. QED
    BY <1>0, <1>5, <2>3 DEF UseSource
<1>6. ASSUME UseCached(i) PROVE TypeOK'
  <2>1. hit[i] # NoEntry /\ used[i] < 1 + hit[i].outputs /\ used' = [used EXCEPT ![i] = @ + 1]
    BY <1>6 DEF UseCached, UsesLeft, IInv, RowsOK
  <2>2. hit[i].outputs \in 0..MaxOutputs /\ used[i] \in 0..(MaxOutputs + 1)
    BY <1>0, <2>1 DEF Entries
  <2>3. used[i] + 1 \in 0..(MaxOutputs + 1)
    <3> HIDE DEF TypeOK, IInv, Work
    <3>1. used[i] \in Nat /\ hit[i].outputs \in Nat /\ hit[i].outputs <= MaxOutputs
      BY <2>2
    <3>. QED
      BY <2>1, <3>1
  <2>4. used' \in [Jobs -> 0..(MaxOutputs + 1)]
    BY <1>0, <2>1, <2>3
  <2>. QED
    BY <1>0, <1>6, <2>4 DEF UseCached
<1>7. ASSUME Emit(i) PROVE TypeOK'
  <2>1. emitted[i] \in 0..MaxOutputs /\ emitted[i] < MaxOutputs
        /\ emitted' = [emitted EXCEPT ![i] = @ + 1]
    BY <1>0, <1>7 DEF Emit
  <2>2. emitted[i] + 1 \in 0..MaxOutputs
    <3> HIDE DEF TypeOK
    <3>. QED
      BY <2>1
  <2>3. emitted' \in [Jobs -> 0..MaxOutputs]
    BY <1>0, <2>1, <2>2
  <2>. QED
    BY <1>0, <1>7, <2>3 DEF Emit
<1>8. ASSUME FinishFailed(i) PROVE TypeOK'
  BY <1>0, <1>1, <1>8 DEF FinishFailed
<1>9. ASSUME Finish(i) PROVE TypeOK'
  <2>1. state' \in [Jobs -> {"none", "running"} \cup Ends]
    BY <1>0, <1>9 DEF Finish, EndedAs
  <2>2. results' \in [Jobs -> Results \cup {NoResult}]
    BY <1>0, <1>1, <1>9, ZenonT(40) DEF Finish, Reuses
  <2>3. pc' \in [Jobs -> {"waiting", "done"} \cup Steps]
    <3>1. pc' = [pc EXCEPT ![i] = "done"] \/ pc' = [pc EXCEPT ![i] = "collecting"]
      BY <1>9 DEF Finish
    <3>. QED
      BY <1>0, <3>1
  <2>4. UNCHANGED <<used, emitted, cache, call, hit, outputs>>
    BY <1>9 DEF Finish
  <2>. QED
    BY <1>0, <2>1, <2>2, <2>3, <2>4
<1>10. ASSUME Collect(i) PROVE TypeOK'
  <2>1. emitted[i] \in 0..MaxOutputs /\ pc[i] # "waiting"
    BY <1>0, <1>10 DEF Collect
  <2>2. OwnAnswer(i, emitted[i]) \in Results
    BY <1>1, <2>1
  <2>3. outputs' \in [Jobs -> 0..MaxOutputs]
    BY <1>0, <1>10, <2>1 DEF Collect
  <2>4. results' \in [Jobs -> Results \cup {NoResult}]
    BY <1>0, <1>10, <2>2, ZenonT(40) DEF Collect
  <2>. QED
    BY <1>0, <1>10, <2>3, <2>4 DEF Collect
<1>11. ASSUME Store(i) PROVE TypeOK'
  <2>1. cache' \in [Objects -> Entries \cup {NoEntry}]
    BY <1>0, <1>1, <1>11 DEF Store, Cached, Entries
  <2>2. results' \in [Jobs -> Results \cup {NoResult}]
    BY <1>0, <1>1, <1>11 DEF Store
  <2>. QED
    BY <1>0, <1>11, <2>1, <2>2 DEF Store
<1>. QED
  BY <1>2, <1>3, <1>4, <1>5, <1>6, <1>7, <1>8, <1>9, <1>10, <1>11 DEF Work

LEMMA WorkRows ==
    ASSUME IInv, NEW i \in Jobs, Work(i) \/ Interrupt(i), NEW j \in Jobs
    PROVE  RowsOK(j)'
<1>0. TypeOK /\ RowsOK(i) /\ RowsOK(j) /\ SlotOK(i) /\ SlotOK(j)
  BY DEF IInv
<1>1. hit[j] # NoEntry /\ hit'[j] = hit[j] => cache'[inputs'[j]] = hit'[j]
  <2> SUFFICES ASSUME hit[j] # NoEntry, hit'[j] = hit[j] PROVE cache'[inputs'[j]] = hit'[j]
    OBVIOUS
  <2>1. cache[inputs[j]] = hit[j] /\ inputs[j] \in Objects
    BY <1>0, InputOf DEF RowsOK
  <2>. QED
    BY <1>0, <2>1, Settled, WorkIsOwn DEF call
<1>2. CASE j # i
  BY <1>0, <1>1, <1>2, WorkIsOwn DEF RowsOK, call
<1>3. CASE j = i
  <2> USE DEF Goto, Answer, catalog, call, worker
  <2>1. CASE Refuse(i) \/ FailLate(i)
    BY <1>0, <1>1, <1>3, <2>1 DEF Refuse, FailLate, RowsOK, TypeOK
  <2>2. CASE LookUp(i)
    BY <1>0, <1>3, <2>2 DEF LookUp, RowsOK, TypeOK
  <2>3. CASE Begin(i)
    BY <1>0, <1>1, <1>3, <2>3 DEF Begin, RowsOK, TypeOK
  <2>4. CASE UseSource(i)
    <3>1. used[i] = 0 /\ used'[i] = 1 /\ hit' = hit /\ state[i] = "running" /\ state' = state
          /\ pc'[i] = IF hit[i] # NoEntry THEN "reusing" ELSE "parsing"
      BY <1>0, <2>4, SMTT(40) DEF UseSource, RowsOK, TypeOK, Reuses, CanWrite
    <3>2. hit[i] # NoEntry => 1 <= 1 + hit[i].outputs
      BY <1>0 DEF TypeOK, Entries
    <3>. QED
      BY <1>1, <1>3, <3>1, <3>2 DEF RowsOK
  <2>5. CASE Emit(i) \/ Parsed(i)
    BY <1>0, <1>1, <1>3, <2>5 DEF Emit, Parsed, CanWrite, RowsOK, TypeOK
  <2>6. CASE UseCached(i)
    <3>1. /\ pc[i] = "reusing" /\ pc' = pc /\ hit' = hit /\ used'[i] = used[i] + 1
          /\ state[i] = "running" /\ state' = state
          /\ used[i] < 1 + hit[i].outputs /\ hit[i] # NoEntry
      BY <1>0, <2>6 DEF UseCached, UsesLeft, CanWrite, RowsOK, TypeOK
    <3>2. used[i] \in Nat /\ hit[i].outputs \in Nat
      BY <1>0, <3>1 DEF TypeOK, Entries
    <3>3. used'[i] <= 1 + hit'[i].outputs
      BY <3>1, <3>2
    <3>. QED
      BY <1>1, <1>3, <3>1, <3>3 DEF RowsOK
  <2>7. CASE UsedAll(i)
    <3>1. /\ pc[i] = "reusing" /\ pc'[i] = "finishing" /\ UNCHANGED <<hit, used, state>>
          /\ ~(used[i] < 1 + hit[i].outputs) /\ used[i] <= 1 + hit[i].outputs /\ hit[i] # NoEntry
          /\ state[i] # "succeeded"
      BY <1>0, <2>7 DEF UsedAll, UsesLeft, RowsOK, TypeOK
    <3>2. used[i] \in Nat /\ hit[i].outputs \in Nat
      BY <1>0, <3>1 DEF TypeOK, Entries
    <3>3. used'[i] = 1 + hit'[i].outputs
      BY <3>1, <3>2
    <3>. QED
      BY <1>1, <1>3, <3>1, <3>3 DEF RowsOK
  <2>8. CASE Break(i) \/ FinishFailed(i)
    <3>1. /\ pc'[i] \in {"failing", "done"} /\ pc[i] \notin {"collecting", "storing", "done"}
          /\ state'[i] \in {state[i], "failed"} /\ UNCHANGED <<hit, used, emitted, outputs>>
      BY <1>0, <2>8, SMTT(40) DEF Break, FinishFailed, CanWrite, TypeOK
    <3>. QED
      BY <1>0, <1>1, <1>3, <3>1 DEF RowsOK
  <2>9. CASE Finish(i)
    BY <1>0, <1>1, <1>3, <2>9, SMTT(40) DEF Finish, CanFinish, CanWrite, EndedAs, Reuses, RowsOK, TypeOK
  <2>10. CASE Collect(i)
    BY <1>0, <1>1, <1>3, <2>10 DEF Collect, RowsOK, TypeOK
  <2>11. CASE Store(i)
    BY <1>0, <1>1, <1>3, <2>11 DEF Store, RowsOK, TypeOK
  <2>12. CASE Interrupt(i)
    BY <1>0, <1>1, <1>3, <2>12 DEF Interrupt, RowsOK, TypeOK
  <2>. QED
    BY <2>1, <2>2, <2>3, <2>4, <2>5, <2>6, <2>7, <2>8, <2>9, <2>10, <2>11, <2>12 DEF Work
<1>. QED
  BY <1>2, <1>3

\* What a step does to its slot.
LEMMA WorkAnswers ==
    ASSUME IInv, NEW i \in Jobs, Work(i) \/ Interrupt(i)
    PROVE  \/ results' = results /\ pc'[i] = pc[i]
           \/ results' = results /\ pc[i] \in Steps /\ pc'[i] \in Steps
           \/ /\ pc[i] \in Steps /\ pc'[i] = "done"
              /\ \/ results'[i] = NoAnswer(i)
                 \/ /\ Finish(i) /\ hit[i] # NoEntry
                    /\ results'[i] =
                           [input |-> inputs[i], ok |-> TRUE, of |-> hit[i], reused |-> TRUE]
                 \/ Collect(i) /\ results'[i] = OwnAnswer(i, emitted[i])
                 \/ Store(i) /\ results'[i] = OwnAnswer(i, outputs[i])
<1> USE DEF Answer, Goto, Steps, worker
<1>0. pc \in [Jobs -> {"waiting", "done"} \cup Steps] /\ results \in [Jobs -> Results \cup {NoResult}]
  BY DEF IInv, TypeOK
<1>1. CASE Refuse(i) \/ FailLate(i) \/ FinishFailed(i)
  BY <1>0, <1>1 DEF Refuse, FailLate, FinishFailed
<1>2. CASE LookUp(i) \/ Begin(i) \/ UseSource(i) \/ Parsed(i) \/ UsedAll(i) \/ Break(i)
  BY <1>0, <1>2 DEF LookUp, Begin, UseSource, Parsed, UsedAll, Break
<1>3. CASE Emit(i) \/ UseCached(i) \/ Interrupt(i)
  BY <1>0, <1>3 DEF Emit, UseCached, Interrupt
<1>4. CASE Finish(i)
  BY <1>0, <1>4 DEF Finish, Reuses
<1>5. CASE Collect(i)
  BY <1>0, <1>5 DEF Collect
<1>6. CASE Store(i)
  BY <1>0, <1>6 DEF Store
<1>. QED
  BY <1>1, <1>2, <1>3, <1>4, <1>5, <1>6 DEF Work

LEMMA WorkSlots ==
    ASSUME IInv, NEW i \in Jobs, Work(i) \/ Interrupt(i), NEW j \in Jobs
    PROVE  SlotOK(j)'
<1>0. SlotOK(i) /\ SlotOK(j) /\ UNCHANGED <<pool, inputs, jobs>>
  BY WorkIsOwn DEF IInv, call
<1>1. CASE j # i
  BY <1>0, <1>1, WorkIsOwn DEF SlotOK, IInv
<1>2. CASE results' = results /\ pc'[i] = pc[i] /\ j = i
  BY <1>0, <1>2 DEF SlotOK
<1>3. CASE results' = results /\ pc[i] \in Steps /\ pc'[i] \in Steps /\ j = i
  BY <1>0, <1>3 DEF SlotOK, Steps
<1>4. CASE pc[i] \in Steps /\ pc'[i] = "done" /\ j = i
           /\ results'[i] # NoResult /\ results'[i].input = inputs[i]
           /\ (results'[i].ok => results'[i].of # NoEntry)
  BY <1>0, <1>4 DEF SlotOK, Steps
<1>6. ASSUME pc[i] \in Steps,
             \/ results'[i] = NoAnswer(i)
             \/ results'[i] = [input |-> inputs[i], ok |-> TRUE, of |-> hit[i], reused |-> TRUE]
                /\ hit[i] # NoEntry
             \/ \E n \in 0..MaxOutputs : results'[i] = OwnAnswer(i, n)
      PROVE  /\ results'[i] # NoResult /\ results'[i].input = inputs[i]
             /\ results'[i].ok => results'[i].of # NoEntry
  <2>1. pc[i] # "waiting" /\ (hit[i] # NoEntry => hit[i] \in Entries)
    BY <1>6 DEF Steps, IInv, TypeOK
  <2>2. results'[i] \in Results
    BY <1>6, <2>1, Answers
  <2>3. NoAnswer(i).input = inputs[i] /\ ~NoAnswer(i).ok
    BY DEF NoAnswer
  <2>4. \A n \in 0..MaxOutputs :
            /\ OwnAnswer(i, n).input = inputs[i] /\ OwnAnswer(i, n).of # NoEntry
    BY DEF OwnAnswer
  <2>5. results'[i] # NoResult
    BY <2>2, Zenon
  <2>6. CASE results'[i] = NoAnswer(i)
    BY <2>3, <2>5, <2>6, Zenon
  <2>7. CASE results'[i] = [input |-> inputs[i], ok |-> TRUE, of |-> hit[i], reused |-> TRUE]
             /\ hit[i] # NoEntry
    BY <2>5, <2>7
  <2>8. CASE \E n \in 0..MaxOutputs : results'[i] = OwnAnswer(i, n)
    BY <2>4, <2>5, <2>8, Zenon
  <2>. QED
    BY <1>6, <2>6, <2>7, <2>8
<1>7. emitted[i] \in 0..MaxOutputs /\ outputs[i] \in 0..MaxOutputs
  BY DEF IInv, TypeOK
<1>. QED
  BY <1>1, <1>2, <1>3, <1>4, <1>6, <1>7, WorkAnswers

\* What a step of job i does to the entries of the cache.
LEMMA WorkCache ==
    ASSUME IInv, NEW i \in Jobs, Work(i) \/ Interrupt(i)
    PROVE  CacheIsOfSuccess'
<1>0. TypeOK /\ RowsOK(i) /\ SlotOK(i) /\ CacheIsOfSuccess /\ inputs' = inputs
  BY WorkIsOwn DEF IInv, call
<1> SUFFICES ASSUME NEW o \in Objects, cache'[o] # NoEntry
             PROVE  /\ state'[cache'[o].source] = "succeeded"
                    /\ cache'[o].outputs = emitted'[cache'[o].source]
                    /\ inputs[cache'[o].source] = o
                    /\ used'[cache'[o].source] = 1 /\ hit'[cache'[o].source] = NoEntry
  BY <1>0 DEF CacheIsOfSuccess
<1>1. CASE cache[o] # NoEntry
  <2>1. cache'[o] = cache[o] /\ cache[o].source \in Jobs
    BY <1>0, <1>1, Settled DEF TypeOK, Entries
  <2>2. /\ state[cache[o].source] = "succeeded" /\ cache[o].outputs = emitted[cache[o].source]
        /\ inputs[cache[o].source] = o /\ used[cache[o].source] = 1
        /\ hit[cache[o].source] = NoEntry
    BY <1>0, <1>1 DEF CacheIsOfSuccess
  <2>3. UNCHANGED <<state[cache[o].source], used[cache[o].source],
                    emitted[cache[o].source], hit[cache[o].source]>>
    BY <2>1, <2>2, Settled
  <2>. QED
    BY <2>1, <2>2, <2>3
<1>2. CASE cache[o] = NoEntry
  <2>1. Store(i)
    BY <1>2, WorkIsOwn, <1>0
  <2>2. o = inputs[i] /\ cache'[o] = [source |-> i, outputs |-> outputs[i]]
    BY <1>0, <1>2, <2>1 DEF Store, Cached, TypeOK
  <2>3. /\ pc[i] = "storing" /\ state[i] = "succeeded" /\ used[i] = 1 /\ hit[i] = NoEntry
        /\ outputs[i] = emitted[i] /\ UNCHANGED <<state, used, emitted, hit>>
    BY <1>0, <2>1 DEF Store, RowsOK
  <2>. QED
    BY <2>2, <2>3
<1>. QED
  BY <1>1, <1>2

LEMMA WorkBacked ==
    ASSUME IInv, NEW i \in Jobs, Work(i) \/ Interrupt(i)
    PROVE  ResultsAreBacked'
<1>0. TypeOK /\ RowsOK(i) /\ ResultsAreBacked /\ CacheIsOfSuccess /\ inputs' = inputs
  BY WorkIsOwn DEF IInv, call
<1> SUFFICES ASSUME NEW j \in Jobs, results'[j] # NoResult, results'[j].ok
             PROVE  /\ state'[j] = "succeeded"
                    /\ results'[j].of.outputs = emitted'[results'[j].of.source]
                    /\ IF results'[j].reused
                       THEN results'[j].of = cache'[inputs[j]]
                            /\ used'[j] = 1 + results'[j].of.outputs
                       ELSE results'[j].of.source = j
  BY <1>0 DEF ResultsAreBacked
<1>1. CASE results'[j] = results[j]
  <2>1. /\ state[j] = "succeeded"
        /\ results[j].of.outputs = emitted[results[j].of.source]
        /\ IF results[j].reused
           THEN results[j].of = cache[inputs[j]] /\ used[j] = 1 + results[j].of.outputs
           ELSE results[j].of.source = j
    BY <1>0, <1>1 DEF ResultsAreBacked
  <2>2. results[j].of \in Entries \cup {NoEntry} /\ SlotOK(j) /\ RowsOK(j)
    BY <1>1 DEF IInv, TypeOK, Results
  <2>3. UNCHANGED <<state[j], used[j], emitted[j]>>
    BY <2>1, Settled
  <2>4. CASE results[j].reused
    <3>1. inputs[j] \in Objects /\ pc[j] = "done"
      BY <1>1, <2>2, InputOf DEF SlotOK
    <3>2. PICK entry : entry = cache[inputs[j]]
      OBVIOUS
    <3>3. entry # NoEntry /\ results[j].of = entry
      BY <1>1, <2>1, <2>2, <2>4, <3>2 DEF SlotOK
    <3>4. /\ cache'[inputs[j]] = entry /\ entry.source \in Jobs
          /\ state[entry.source] = "succeeded"
      <4>1. cache'[inputs[j]] = entry
        BY <3>1, <3>2, <3>3, Settled
      <4>2. entry.source \in Jobs
        BY <1>0, <3>1, <3>2, <3>3 DEF TypeOK, Entries
      <4>3. state[entry.source] = "succeeded"
        BY <1>0, <3>1, <3>2, <3>3 DEF CacheIsOfSuccess
      <4>. QED
        BY <4>1, <4>2, <4>3
    <3>5. emitted'[entry.source] = emitted[entry.source]
      BY <3>4, Settled
    <3>6. used'[j] = 1 + entry.outputs /\ entry.outputs = emitted'[entry.source]
      BY <2>1, <2>3, <2>4, <3>3, <3>5
    <3>7. results'[j].of = entry
      BY <1>1, <3>3
    <3>8. state'[j] = "succeeded" /\ results'[j].reused
      BY <1>1, <2>1, <2>3, <2>4
    <3>. QED
      BY <3>4, <3>6, <3>7, <3>8
  <2>5. CASE ~results[j].reused
    BY <1>1, <2>1, <2>3, <2>5
  <2>. QED
    BY <2>4, <2>5
<1>2. CASE results'[j] # results[j]
  <2>1. j = i
    BY <1>2, WorkIsOwn, <1>0
  <2>2. CASE results'[i] = NoAnswer(i)
    BY <2>1, <2>2 DEF NoAnswer
  <2>3. CASE Finish(i) /\ hit[i] # NoEntry
             /\ results'[i] = [input |-> inputs[i], ok |-> TRUE, of |-> hit[i], reused |-> TRUE]
    <3>1. /\ state' = [state EXCEPT ![i] = EndedAs(i, "succeeded")] /\ state[i] = "running"
          /\ UNCHANGED <<used, emitted, cache>> /\ used[i] = 1 + hit[i].outputs
          /\ cache[inputs[i]] = hit[i] /\ inputs[i] \in Objects
      BY <1>0, <2>3, InputOf DEF Finish, CanFinish, CanWrite, RowsOK
    <3>2. state'[i] = "succeeded"
      BY <1>0, <3>1 DEF EndedAs, TypeOK
    <3>3. hit[i].outputs = emitted[hit[i].source]
      BY <1>0, <2>3, <3>1 DEF CacheIsOfSuccess
    <3>. QED
      BY <2>1, <2>3, <3>1, <3>2, <3>3
  <2>4. CASE Collect(i) /\ results'[i] = OwnAnswer(i, emitted[i])
    BY <1>0, <2>1, <2>4 DEF Collect, RowsOK, OwnAnswer, catalog
  <2>5. CASE Store(i) /\ results'[i] = OwnAnswer(i, outputs[i])
    BY <1>0, <2>1, <2>5 DEF Store, RowsOK, OwnAnswer
  <2>. QED
    BY <1>2, <2>1, <2>2, <2>3, <2>4, <2>5, WorkAnswers
<1>. QED
  BY <1>1, <1>2

LEMMA WorkStep ==
    ASSUME IInv, NEW i \in Jobs, Work(i) \/ Interrupt(i)
    PROVE  IInv'
<1>1. TypeOK' /\ \A j \in Jobs : RowsOK(j)' /\ SlotOK(j)'
  BY WorkTypes, WorkRows, WorkSlots
<1>2. CallOK'
  BY WorkIsOwn DEF IInv, CallOK, call
<1>3. ResultsMatchInputs'
  <2>1. CASE pool = "returned"
    <3>1. pc[i] \notin Steps
      BY <2>1 DEF IInv, SlotOK
    <3>2. results' = results
      BY <3>1, WorkAnswers
    <3>. QED
      BY <3>2, WorkIsOwn DEF IInv, ResultsMatchInputs, call
  <2>2. CASE pool # "returned"
    BY <2>2, WorkIsOwn DEF IInv, ResultsMatchInputs, call
  <2>. QED
    BY <2>1, <2>2
<1>. QED
  BY <1>1, <1>2, <1>3, WorkCache, WorkBacked DEF IInv

LEMMA NextIInv == IInv /\ [Next]_vars => IInv'
  BY CallStep, WorkStep DEF Next
----------------------------------------------------------------------------
\* A job that still declares inputs has no output.
DeclaresFirst(i) ==
    /\ pc[i] \in {"using", "reusing"} => emitted[i] = 0
    /\ pc[i] = "reusing" => used[i] >= 1

DeclaresFirstOK == \A i \in Jobs : DeclaresFirst(i)

LEMMA DeclaresFirstStep ==
    ASSUME IInv, DeclaresFirstOK, [Next]_vars
    PROVE  DeclaresFirstOK'
<1>1. ASSUME NEW i \in Jobs, Work(i) \/ Interrupt(i) PROVE DeclaresFirstOK'
  <2>1. DeclaresFirst(i)'
    <3>1. CASE Begin(i)
      BY <3>1 DEF Begin, Goto, IInv, TypeOK, RowsOK, DeclaresFirst
    <3>2. CASE UseSource(i)
      BY <3>2 DEF UseSource, Goto, IInv, TypeOK, DeclaresFirstOK, DeclaresFirst
    <3>3. CASE UseCached(i)
      BY <3>3 DEF UseCached, IInv, TypeOK, DeclaresFirstOK, DeclaresFirst, worker
    <3>4. CASE ~Begin(i) /\ ~UseSource(i) /\ ~UseCached(i)
      <4>1. CASE Interrupt(i)
        BY <4>1 DEF Interrupt, DeclaresFirstOK, DeclaresFirst, worker
      <4>2. CASE Emit(i)
        BY <4>2 DEF Emit, DeclaresFirst, worker
      <4>3. CASE ~Interrupt(i) /\ ~Emit(i)
        <5>1. pc'[i] \notin {"using", "reusing"}
          BY <1>1, <3>4, <4>3 DEF Work, Refuse, LookUp, Parsed, UsedAll, Break, FinishFailed,
                 Finish, FailLate, Collect, Store, Answer, Goto, IInv, TypeOK
        <5>. QED
          BY <5>1 DEF DeclaresFirst
      <4>. QED
        BY <4>1, <4>2, <4>3
    <3>. QED
      BY <3>1, <3>2, <3>3, <3>4
  <2>2. ASSUME NEW j \in Jobs, j # i PROVE DeclaresFirst(j)'
    <3>1. UNCHANGED <<emitted[j], used[j], pc[j]>>
      BY <1>1, <2>2, WorkIsOwn DEF IInv
    <3>. QED
      BY <3>1 DEF DeclaresFirstOK, DeclaresFirst
  <2>. QED
    BY <2>1, <2>2 DEF DeclaresFirstOK
<1>2. ASSUME \/ \E objects \in Offered, concurrency \in 0..MaxConcurrency, cached \in BOOLEAN :
                    ParseMany(objects, concurrency, cached)
             \/ Cancel \/ CloseJobs \/ Return \/ UNCHANGED vars
      PROVE  DeclaresFirstOK'
  <2>1. UNCHANGED <<pc, emitted, used>>
    BY <1>2 DEF ParseMany, Cancel, CloseJobs, Return, vars, worker, catalog
  <2>. QED
    BY <2>1 DEF DeclaresFirstOK, DeclaresFirst
<1>3. ASSUME Send PROVE DeclaresFirstOK'
  <2>1. UNCHANGED <<emitted, used>> /\ pc' = [pc EXCEPT ![jobs] = "started"]
    BY <1>3 DEF Send, catalog
  <2>2. \A j \in Jobs : pc'[j] = pc[j] \/ pc'[j] = "started"
    BY <2>1 DEF IInv, TypeOK
  <2>. QED
    BY <2>1, <2>2 DEF DeclaresFirstOK, DeclaresFirst
<1>. QED
  BY <1>1, <1>2, <1>3 DEF Next, Produce

\* An entity is imported or has a job; whether it exists is in the rows of that job.
LEMMA EntityOf ==
    ASSUME IInv, NEW e \in Entities
    PROVE  /\ e[2] = 0 => Generated[e] = Imported
           /\ e[2] # 0 => /\ e[1] \in Jobs /\ e[2] \in 1..MaxOutputs /\ e = <<e[1], e[2]>>
                          /\ Generated[e] = IF e[2] <= emitted[e[1]] THEN e[1] ELSE Nobody
BY DEF Entities, Generated, GeneratedBy

\* A step of a job as a step of its activity.
LEMMA ActivityStep ==
    ASSUME IInv, NEW i \in Jobs, Work(i) \/ Interrupt(i)
    PROVE  /\ States' = [States EXCEPT ![i] = state'[i]]
           /\ Declared' = [Declared EXCEPT ![i] = InputsOf(i)']
           /\ emitted'[i] = emitted[i] => Generated' = Generated
           /\ States[i] = state[i] /\ Declared[i] = InputsOf(i)
<1>1. /\ \A j \in Jobs : j # i => UNCHANGED <<state[j], used[j], emitted[j], hit[j]>>
      /\ inputs' = inputs
  BY WorkIsOwn DEF IInv, call
<1>2. i \in Activities /\ i # Imported
  BY DEF Activities, Imported
<1>3. \A a \in Activities : a = Imported \/ a \in Jobs
  BY DEF Activities
<1>4. States' = [States EXCEPT ![i] = state'[i]]
  BY <1>1, <1>2, <1>3 DEF States
<1>5. ASSUME NEW j \in Jobs, j # i PROVE InputsOf(j)' = InputsOf(j)
  <2>1. used'[j] = used[j] /\ hit'[j] = hit[j] /\ inputs'[j] = inputs[j]
    BY <1>1, <1>5
  <2>. QED
    BY <2>1 DEF InputsOf
<1>6. Declared' = [Declared EXCEPT ![i] = InputsOf(i)']
  <2>1. ASSUME NEW a \in Activities
        PROVE  (IF a = Imported THEN {} ELSE InputsOf(a)')
                    = IF a = i THEN InputsOf(i)' ELSE Declared[a]
    BY <1>2, <1>3, <1>5, <2>1 DEF Declared
  <2>. QED
    BY <1>2, <2>1, Zenon DEF Declared
<1>7. ASSUME emitted'[i] = emitted[i] PROVE Generated' = Generated
  <2>1. \A j \in Jobs : emitted'[j] = emitted[j]
    BY <1>1, <1>7
  <2>2. \A e \in Entities : GeneratedBy(e)' = GeneratedBy(e)
    BY <2>1 DEF GeneratedBy, Entities
  <2>. QED
    BY <2>2 DEF Generated
<1>. QED
  BY <1>2, <1>4, <1>6, <1>7 DEF States, Declared

\* An input more, of an activity that runs and has no output.
LEMMA DeclareStep ==
    ASSUME IInv, DeclaresFirstOK, NEW i \in Jobs, UseSource(i) \/ UseCached(i)
    PROVE  P!ProvNext
<1>1. /\ state[i] = "running" /\ emitted[i] = 0 /\ pc[i] \in {"using", "reusing"}
      /\ UNCHANGED <<state, emitted, hit, inputs>> /\ used' = [used EXCEPT ![i] = @ + 1]
  BY DEF UseSource, UseCached, CanWrite, DeclaresFirstOK, DeclaresFirst, call, worker
<1>2. used'[i] = used[i] + 1 /\ used[i] \in Nat
  BY <1>1 DEF IInv, TypeOK
<1>3. PICK e \in Entities : InputsOf(i)' = InputsOf(i) \cup {e} /\ Generated[e] # Nobody
  <2>1. CASE used[i] = 0
    <3>1. inputs[i] \in Objects
      BY <1>1, InputOf
    <3>2. <<inputs[i], 0>> \in Entities
      BY <3>1 DEF Entities
    <3>3. InputsOf(i) = {} /\ InputsOf(i)' = {<<inputs[i], 0>>}
      BY <1>1, <1>2, <2>1 DEF InputsOf
    <3>4. Generated[<<inputs[i], 0>>] # Nobody
      BY <3>2, EntityOf DEF Imported, Nobody
    <3>. QED
      BY <3>2, <3>3, <3>4
  <2>2. CASE used[i] # 0
    <3>1. pc[i] = "reusing" /\ UseCached(i)
      BY <1>1, <2>2 DEF IInv, RowsOK, UseSource, UseCached
    <3>2. hit[i] # NoEntry /\ hit[i] \in Entries /\ cache[inputs[i]] = hit[i] /\ inputs[i] \in Objects
      <4>1. pc[i] # "waiting" /\ RowsOK(i)
        BY <1>1, <3>1 DEF IInv
      <4>2. inputs[i] \in Objects
        BY <1>1, <4>1, InputOf
      <4>3. hit[i] # NoEntry /\ cache[inputs[i]] = hit[i]
        BY <3>1, <4>1 DEF RowsOK
      <4>. QED
        BY <1>1, <4>2, <4>3 DEF IInv, TypeOK
    <3>3. PICK s \in Jobs : s = hit[i].source /\ hit[i].outputs = emitted[s]
      BY <3>2 DEF IInv, CacheIsOfSuccess, Entries
    <3>4. used[i] <= emitted[s] /\ used[i] \in 1..MaxOutputs
      <4>1. used[i] < 1 + emitted[s]
        BY <3>1, <3>3 DEF UseCached, UsesLeft
      <4>2. emitted[s] \in 0..MaxOutputs
        BY <3>3 DEF IInv, TypeOK
      <4>. QED
        BY <1>2, <2>2, <4>1, <4>2
    <3>5. <<s, used[i]>> \in Entities
      BY <3>4 DEF Entities
    <3>6. InputsOf(i)' = InputsOf(i) \cup {<<s, used[i]>>}
      <4>1. 1..(used'[i] - 1) = (1..(used[i] - 1)) \cup {used[i]}
        BY <1>2, <3>4
      <4>2. InputsOf(i)' = {<<inputs[i], 0>>} \cup {<<s, n>> : n \in 1..(used'[i] - 1)}
        BY <1>1, <1>2, <3>3 DEF InputsOf
      <4>3. InputsOf(i) = {<<inputs[i], 0>>} \cup {<<s, n>> : n \in 1..(used[i] - 1)}
        BY <2>2, <3>3 DEF InputsOf
      <4>. QED
        BY <4>1, <4>2, <4>3
    <3>7. Generated[<<s, used[i]>>] # Nobody
      BY <3>4, <3>5 DEF Generated, GeneratedBy, Nobody
    <3>. QED
      BY <3>5, <3>6, <3>7
  <2>. QED
    BY <2>1, <2>2
<1>4. /\ States' = States /\ Generated' = Generated /\ States[i] = "running"
      /\ Declared' = [Declared EXCEPT ![i] = @ \cup {e}]
  <2>1. Work(i)
    BY DEF Work
  <2>2. States' = States
    BY <1>1 DEF States
  <2>. QED
    BY <1>1, <1>3, <2>1, <2>2, ActivityStep
<1>5. \A f \in Entities : Generated[f] # i
  BY <1>1, EntityOf DEF Imported, Nobody
<1>6. i \in Activities
  BY DEF Activities
<1>7. P!Declare(i, e)
  BY <1>3, <1>4, <1>5 DEF P!Declare, P!Outputs, P!Existing
<1>. QED
  BY <1>3, <1>6, <1>7 DEF P!ProvNext

\* An output more, of an activity that runs.
LEMMA GenerateStep ==
    ASSUME IInv, NEW i \in Jobs, Emit(i)
    PROVE  P!ProvNext
<1>1. /\ state[i] = "running" /\ emitted[i] < MaxOutputs
      /\ UNCHANGED <<state, used, hit, inputs>> /\ emitted' = [emitted EXCEPT ![i] = @ + 1]
  BY DEF Emit, CanWrite, call, worker
<1>2. /\ emitted'[i] = emitted[i] + 1 /\ \A j \in Jobs : emitted[j] \in Nat
      /\ \A j \in Jobs : j # i => emitted'[j] = emitted[j]
  BY <1>1 DEF IInv, TypeOK
<1>3. PICK e : e = <<i, emitted[i] + 1>>
  OBVIOUS
<1>4. e \in Entities /\ e[1] = i /\ e[2] = emitted[i] + 1
  BY <1>1, <1>2, <1>3 DEF Entities
<1>5. Generated[e] = Nobody
  BY <1>2, <1>4 DEF Generated, GeneratedBy
<1>6. \A f \in Entities : GeneratedBy(f)' = IF f = e THEN i ELSE GeneratedBy(f)
  <2>1. ASSUME NEW f \in Entities, f[2] = 0
        PROVE  GeneratedBy(f)' = GeneratedBy(f) /\ f # e
    BY <1>2, <1>4, <2>1 DEF GeneratedBy
  <2>2. ASSUME NEW j \in Jobs, NEW n \in 1..MaxOutputs
        PROVE  GeneratedBy(<<j, n>>)' = IF <<j, n>> = e THEN i ELSE GeneratedBy(<<j, n>>)
    <3>1. CASE j # i
      BY <1>2, <1>3, <3>1 DEF GeneratedBy
    <3>2. CASE j = i /\ n = emitted[i] + 1
      BY <1>2, <1>3, <3>2 DEF GeneratedBy
    <3>3. CASE j = i /\ n # emitted[i] + 1
      BY <1>2, <1>3, <3>3 DEF GeneratedBy
    <3>. QED
      BY <3>1, <3>2, <3>3
  <2>. QED
    BY <2>1, <2>2, EntityOf
<1>7. Generated' = [Generated EXCEPT ![e] = i]
  BY <1>4, <1>6 DEF Generated
<1>8. States' = States /\ States[i] = "running" /\ i \in Activities
  BY <1>1 DEF States, Activities, Imported
<1>9. Declared' = Declared
  BY <1>1 DEF Declared, InputsOf
<1>10. P!Generate(i, e)
  BY <1>5, <1>7, <1>8, <1>9 DEF P!Generate, P!Existing
<1>. QED
  BY <1>4, <1>8, <1>10 DEF P!ProvNext

\* The steps that write nothing but the state of the activity, or no row.
LEMMA OutcomeStep ==
    ASSUME IInv, NEW i \in Jobs, Work(i) \/ Interrupt(i),
           ~UseSource(i), ~UseCached(i), ~Emit(i)
    PROVE  P!ProvNext \/ UNCHANGED P!provVars
<1>1. /\ UNCHANGED <<used[i], emitted[i], inputs>>
      /\ used[i] # 0 => hit'[i] = hit[i]
  <2>1. LookUp(i) => used[i] = 0
    BY DEF LookUp, IInv, RowsOK
  <2>. QED
    BY <2>1 DEF Work, Interrupt, Refuse, LookUp, Begin, Parsed, UsedAll, Break, FinishFailed, Finish,
           FailLate, Collect, Store, Answer, catalog, call, worker
<1>2. InputsOf(i)' = InputsOf(i)
  BY <1>1 DEF InputsOf
<1>3. /\ States' = [States EXCEPT ![i] = state'[i]] /\ States[i] = state[i]
      /\ Declared' = Declared /\ Generated' = Generated
  BY <1>1, <1>2, ActivityStep DEF Declared
<1>4. i \in Activities
  BY DEF Activities
<1>5. CASE state'[i] = state[i]
  <2>1. States' = States
    BY <1>3, <1>5 DEF States
  <2>. QED
    BY <1>3, <2>1 DEF P!provVars
<1>6. CASE state[i] = "none" /\ state'[i] = "running"
  <2>1. P!Begin(i)
    BY <1>3, <1>6 DEF P!Begin
  <2>. QED
    BY <1>4, <2>1 DEF P!ProvNext
<1>7. ASSUME NEW o \in Ends, state[i] = "running", state'[i] = o PROVE P!ProvNext
  <2>1. States' = [a \in Activities |-> IF a \in {i} THEN o ELSE States[a]]
    BY <1>3, <1>7 DEF States
  <2>2. P!Terminate({i}, o)
    BY <1>3, <1>7, <2>1 DEF P!Terminate
  <2>. QED
    BY <1>4, <1>7, <2>2 DEF P!ProvNext
<1>8. \/ state'[i] = state[i]
      \/ state[i] = "none" /\ state'[i] = "running"
      \/ state[i] = "running" /\ state'[i] \in Ends
  <2>1. CASE Begin(i)
    BY <2>1 DEF Begin, IInv, TypeOK, RowsOK
  <2>2. CASE FinishFailed(i)
    <3>1. CASE UNCHANGED state
      BY <3>1
    <3>2. CASE CanWrite(i) /\ state' = [state EXCEPT ![i] = "failed"]
      BY <3>2 DEF CanWrite, IInv, TypeOK, Ends
    <3>. QED
      BY <2>2, <3>1, <3>2 DEF FinishFailed
  <2>3. CASE Finish(i)
    BY <2>3 DEF Finish, CanFinish, CanWrite, EndedAs, IInv, TypeOK, Ends
  <2>4. CASE Interrupt(i)
    BY <2>4 DEF Interrupt, IInv, TypeOK, Ends
  <2>5. CASE Refuse(i) \/ LookUp(i) \/ Parsed(i) \/ UsedAll(i) \/ Break(i) \/ FailLate(i)
             \/ Collect(i) \/ Store(i)
    <3>1. CASE Refuse(i) \/ LookUp(i) \/ Parsed(i) \/ UsedAll(i) \/ Break(i)
      BY <3>1 DEF Refuse, LookUp, Parsed, UsedAll, Break, catalog
    <3>2. CASE FailLate(i) \/ Collect(i) \/ Store(i)
      BY <3>2 DEF FailLate, Collect, Store, catalog
    <3>. QED
      BY <2>5, <3>1, <3>2
  <2>. QED
    BY <2>1, <2>2, <2>3, <2>4, <2>5 DEF Work
<1>. QED
  BY <1>5, <1>6, <1>7, <1>8

\* The pool's own steps write no row; the inputs come before any job has declared one.
LEMMA PoolStep ==
    ASSUME IInv,
           \/ \E objects \in Offered, concurrency \in 0..MaxConcurrency, cached \in BOOLEAN :
                  ParseMany(objects, concurrency, cached)
           \/ Cancel \/ Produce \/ UNCHANGED vars
    PROVE  UNCHANGED P!provVars
<1>1. UNCHANGED <<state, used, emitted, hit>>
  BY DEF ParseMany, Cancel, Produce, Send, CloseJobs, Return, vars, catalog, worker
<1>2. \A i \in Jobs : used[i] = 0 \/ inputs' = inputs
  <2>1. pool = "idle" => \A i \in Jobs : used[i] = 0
    BY DEF IInv, CallOK, SlotOK, RowsOK
  <2>2. pool = "idle" \/ inputs' = inputs
    BY DEF ParseMany, Cancel, Produce, Send, CloseJobs, Return, vars, call
  <2>. QED
    BY <2>1, <2>2
<1>3. \A i \in Jobs : InputsOf(i)' = InputsOf(i)
  BY <1>1, <1>2 DEF InputsOf
<1>4. States' = States /\ Generated' = Generated
  BY <1>1 DEF States, Generated, GeneratedBy
<1>5. Declared' = Declared
  BY <1>3 DEF Declared, Activities
<1>. QED
  BY <1>4, <1>5 DEF P!provVars
----------------------------------------------------------------------------
(* Theorems. *)

\* The invariant below holds in every reachable state.
THEOREM IInvHolds == Spec => []IInv
  BY InitIInv, NextIInv, PTL DEF Spec

\* Every variable keeps its type: no worker's step leaves the tables of the jobs.
THEOREM TypeCorrect == Spec => []TypeOK
<1>1. IInv => TypeOK
  BY DEF IInv
<1>. QED
  BY <1>1, IInvHolds, PTL

\* Every input gets its own result, whatever order the workers end in and
\* wherever the context ends (parser.go, ParseMany).
THEOREM ResultsInOrder == Spec => []ResultsMatchInputs
<1>1. IInv => ResultsMatchInputs
  BY DEF IInv
<1>. QED
  BY <1>1, IInvHolds, PTL

\* The cache holds whole outputs of parses that succeeded, for any number of
\* parses that race for an entry (parser.go, storeParserCache).
THEOREM CacheIsTrue == Spec => []CacheIsOfSuccess
<1>1. IInv => CacheIsOfSuccess
  BY DEF IInv
<1>. QED
  BY <1>1, IInvHolds, PTL

\* A result without error is backed by what the catalog has of its activity and
\* of the activity whose outputs it reuses (parser.go, ParseObject).
THEOREM BackedResults == Spec => []ResultsAreBacked
<1>1. IInv => ResultsAreBacked
  BY DEF IInv
<1>. QED
  BY <1>1, IInvHolds, PTL

\* What ParseMany and its workers record is provenance as module Provenance promises it:
\* each step of the pool is one of its steps, or none.
THEOREM ProvenanceKept == Spec => KeepsProvenance
<1>1. Init => DeclaresFirstOK
  BY DEF Init, DeclaresFirstOK, DeclaresFirst
<1>2. IInv /\ DeclaresFirstOK /\ [Next]_vars => DeclaresFirstOK'
  BY DeclaresFirstStep
<1>3. IInv /\ DeclaresFirstOK /\ [Next]_vars => [P!ProvNext]_(P!provVars)
  BY DeclareStep, GenerateStep, OutcomeStep, PoolStep DEF Next
<1>. QED
  BY <1>1, <1>2, <1>3, IInvHolds, PTL DEF Spec, KeepsProvenance
=============================================================================
