# A verification project for go-forensic-artifacts

TLA+ models of the library's core (`src/forensic/`): the activity life cycle over
the blob store, sessions and the calls they make (experiments, searches, custody), the import
of source trees, the transactional write path with its audit chain, the repository's registry
with recovery and maintenance, the publication of snapshots, exports and materializations, the
pool of parsers with its cache, and the review of a growing case (findings, queries, selections,
projections). TLC checks them on small instances; for eight of the components the safety
properties are also proved by TLAPS, for every value of the constants.

## 1. The system

A *repository* is a directory with a registry database (`repository.sqlite3`) and
one directory per *case*. A case directory holds a marker file (`case.json`), a
SQLite catalog, a content-addressed blob store (`blobs/sha256`) and a staging area
(`staging/ingest`). Several goroutines and several processes on one host work on
the same case. They share only the database and the file system; within a process,
goroutines also share the `*Activity` and `*Session` values.

| Component | State it keeps | Operations | Interacts with |
|---|---|---|---|
| Activity life cycle (`activity.go`) | rows of `activities`, `entities`, `activity_inputs`, `activity_outputs`; in memory `finishing`, `terminal`, `captures` and a condition variable | `BeginActivity`, `Use`, `SealInputs`, `Capture`/`CaptureFile`, `Finish`, `ImportEvidence` | blob store, `mutate` |
| Blob store (`cas.go`) | staging files, blob files | `stageBlob`, `publishBlob`, `verifyBlobFile` | called by captures, imports, snapshots, exports |
| Records (`records.go`) | artifacts, assertions, findings and their revisions | `EmitArtifact`, `Relate`, `AuthorFinding`, `ReviseFinding` | handles (`startCapture`), `mutate` |
| Write path (`catalog.go`) | `case_info.revision`, `audit_head`, `revisions`, `audit_events`, `idempotency_keys` | `mutate`, `lookupIdempotency`, `storeIdempotency` | every operation that writes a case |
| Verification (`verify.go`) | none | `Verify`, `VerifyBagIt` | reads catalog and blobs while others write |
| Registry (`repository.go`) | `cases`, `idempotency`, the directories `.creating-<id>` and `<id>` | `Open`, `CreateCase`, `OpenCase` | case directories |
| Recovery (`recovery.go`) | none of its own | `InspectRecovery`, `RecoverCaseRegistration`, `MarkActivitiesInterrupted` | registry, directories, activities |
| Migration (`migration.go`) | `maintenance_leases`, `schema_migrations` | `MigrateCase` | registry, catalog |
| Snapshot/restore (`snapshot.go`) | a portable directory; a new registration | `Snapshot`, `RestoreCase` | blob store, registry, `mutate` |
| Parsers (`parser.go`) | parser cache rows | `ParseObject`, `ParseMany` | activities |
| Queries (`query.go`) | selections | `Query`, `QueryPage`, `Freeze` | read the catalog of a revision, `mutate` |
| Projections (`projection.go`) | projections, materializations | `CreateProjection`, `Materialize` | selections, catalog, blob store, destination directories |
| Export (`export.go`) | deliverable rows, a bag | `ExportBagIt` | projections, blob store |
| Source trees (`source_tree.go`) | tree rows, staged files | `ImportSourceTree` | blob store, `mutate` |
| Sessions (`activity.go`) | rows of `sessions`; in memory a `closed` flag | `StartSession`, `Session.Close` | every call that starts on a session |
| Runner (`runner.go`) | an experiment: an activity, its inputs, logs and outputs; a workspace | `RunExperiment` | materialization, activities, captures, a process |
| Search (`search.go`) | none; a saved search is an artifact | `SearchBytes`, `SaveByteSearch`, `SearchText`, `SearchMetadata` | selections, blobs, `mutate` |
| Custody (`custody.go`) | custody events | `RecordCustodyTransfer` | sessions, `mutate` |
| Checkpoints (`checkpoint.go`) | none | signs and checks an audit head | the audit chain |
| Presentation, provenance, accessors | none | reads of a catalog | the catalog |

What is hard here, and so what the properties are for:

* **Interleavings.** Two handles of one activity, `Use` against the seal of the first
  output, `Finish` against captures, two writers of the audit chain, two reviewers of a
  finding, recovery against a creation that is merely slow.
* **Stale reads.** The key looked up before a blob is published; the state of an
  activity read after the transaction that returned it; `Verify` reading a catalog in
  several statements; a registry row updated whatever it has become; a query answered, or a
  closure computed, before the transaction that records it, while the case grows; a file that is
  written or replaced while it is copied; the inputs of an experiment changed while it runs; a
  session's flag read before a transaction that does not look at its row.
* **Crashes and partial failures.** A process may die between staging, linking and
  committing, or between the registry and the directory; an error may follow a commit.
* **Retries.** `mutate` tries four times; clients retry with a key; leases run out
  under their holders.
* **Boundaries.** A search reads its objects chunk by chunk, with the context around each.
* **Waiting.** `Finish` parks on a condition variable; writers wait for SQLite's lock.

`PROJECT.json` lists these hazards by source line, with the properties that cover
each one, and those no property covers yet.

What makes each component correct:

* *Activities*: inputs are older than outputs, an entity is generated once by a running
  activity, an ended activity gets nothing more, `Finish` drains its handle and returns.
* *Blob store*: no committed row without its bytes; no staging file left by an error.
* *Write path*: an unbroken chain, effects at most once per call and per key, truthful
  answers, calls that end, a lock that is released.
* *Registry*: what can be opened is published and complete; a published directory is
  kept; leases exclude; an upgrade runs once.
* *Snapshots, exports, materializations*: a destination holds a whole package or nothing, and
  is never overwritten; the record is of the package that stands there; a key has one.
* *Sessions*: a closed handle means a closed session; what the catalog says of an experiment is
  true and it says something, however it ends; saved hits are occurrences.
* *Source trees*: an entry is one moment of its file; limits hold; bytes come before rows; a key
  has one tree; staging is swept.
* *Parsers*: a result for every input, in its place, whatever ends the call; the cache holds
  whole outputs of parses that succeeded; a result without error is backed by the catalog.
* *Review*: a finding has one linear history; a selection holds what its query finds at the
  revision it names, and so do the pages of a walk; a projection holds the whole closure.

## 2. The modules

| Module | Models | Checked by |
|---|---|---|
| `Provenance` | the abstract promise: declare, generate, terminate | refined by `Activity`; the steps of `ParserPool` keep it |
| `Activity` | `activity.go`, `cas.go`, the calls of `records.go`, `MarkActivitiesInterrupted` | `MCActivity`, `ActivityProofs` |
| `AuditedLog` | the abstract promise of the write path: an atomic log with keys | refined by `CaseMutate` |
| `KeyedEffects` | the abstract promise of operations that take an idempotency key | refined by `CaseMutate`, `Delivery` and `SourceTrees` |
| `CaseMutate` | `mutate`, idempotency, the audit chain, `verifyAudit` | `MCCaseMutate` |
| `CaseRegistry` | `CreateCase`, `RestoreCase`, `RecoverCaseRegistration`, `MigrateCase`, `OpenCase` | `MCCaseRegistry` |
| `Delivery` | `Snapshot`, `ExportBagIt`, `Materialize` | `MCDelivery` |
| `ParserPool` | `ParseMany`, `ParseObject`, the parser cache | `MCParserPool` |
| `Review` | `AuthorFinding`, `ReviseFinding`, `Query`, `QueryPage`, `Freeze`, `CreateProjection` | `MCReview` |
| `ByteSearch` | the scan of `SearchBytes` for a literal | `MCByteSearch`, and as a part of `Sessions` |
| `Sessions` | `StartSession`, `Session.Close`, `RunExperiment`, `SaveByteSearch`, `RecordCustodyTransfer` | `MCSessions` |
| `SourceTrees` | `ImportSourceTree` | `MCSourceTrees` |
| `ActivityProofs`, `CaseMutateProofs`, `CaseRegistryProofs`, `DeliveryProofs`, `ParserPoolProofs`, `ReviewProofs`, `SessionsProofs`, `SourceTreesProofs` | theorems about the module of the same name | TLAPS |

### Activity

*State.* The catalog's rows (`state`, `sealedAt`, `inputs`, `generatedBy`,
`createdAt`, `revision`, `keyed`), the case directory (`cas`, `staging`), the handles
(`handleOf`, `terminal`, `finishing`, `captures`, plus where a `Finish` or a `Use`
stands) and the calls that produce an entity (`callPc`, `request`, `answer`).

*Correspondence.* A transaction is one action, because `CaseMutate` shows it atomic
(below); everything between transactions that another actor can see is an action of its
own. A capture is `StartCapture` (under the handle's mutex), `StageBlob`, `CheckKey` (the
read-only lookup, only with a key), `PublishBlob`, `RecordOutput` or
`AnswerFromRecord`, and `ReturnCall` (the deferred `os.Remove` and `endCapture`);
`FailCall` is every error return, including the faults the tests inject. `EmitArtifact` and
`Relate` are the same without the blob. An evidence import has no handle and begins and ends
its activity in its one transaction. `Use` is two actions, since it checks the handle,
unlocks, and then runs its transaction. `Finish` is `FinishStart`, the wait
(`parked`/`woken`), the transaction with its three results, and `FinishReturn`.
`Crash(h)` takes a handle and the calls on it; files and rows stay.

*Abstractions.* Random IDs are the names of the calls that draw them; a call that left no
trace gives its name back, so that runs do not exhaust the IDs. The random ID itself is
assumed unique, as the code assumes. A fingerprint is the part of the request that differs
between calls (content, source). A handle's `keyed` activities are begun with a key each;
`Asked` names the kinds of entity a run asks for.

### Provenance, AuditedLog and KeyedEffects

The promises, without machinery. `Provenance` is `docs/design.md` 6.1: inputs exist and close at
the first output, an entity is generated once by a running activity, and an ended activity gets
nothing more. `Acyclic` (of any entities, one was made from none of them) is item 8 there, and a
consequence of the rest. `AuditedLog` is a log to which a call, and a key, adds at most one entry.
`KeyedEffects` forgets the order of that log and adds what was asked for: an effect is
a call with its key and its request, and whoever is told of an effect asked for the same. Each
operation that looks at a key, publishes files under a stale answer and looks again in its
transaction owes this, hence it is one module that `CaseMutate` (any transaction), `Delivery`
(packages that stand outside of the case) and `SourceTrees` (requests that are themselves read
from a changing directory) map their states to. A process that dies forgets what it was told.

### CaseMutate

*State.* `revision`, `head`, `events`, `stored` and SQLite's write `lock`; for each call of
`mutate` its place, its attempt, and what it read at the start of its transaction; one
run of `Verify`. *Correspondence.* `Begin` is `BEGIN IMMEDIATE` with the read of revision and
head; `BeginBusy` and `CommitBusy` are the two ways an attempt fails and is retried
(at once, or after the backoff); `Replay` and `KeyConflict` are `lookupIdempotency`'s
results; `Commit` is domain rows, key, revision, event and head together; `Return` has the
injected failure after the commit; `Crash` loses an open transaction. `VerifyInfo`,
`VerifyRows` and `VerifyHead` are the three statements of a verification.

### CaseRegistry

*State.* The registry's rows (`registry`, `nameOf`, `keyed`, `lease`, `expired`), what the
two directories of a case hold (`partial`, `final`), and operations with a place each.
*Correspondence.* A creation reserves its row, writes its parts in the code's
order (`Order`: a creation writes marker, then catalog; a restore writes catalog, marker,
blobs), renames, activates and opens. Recovery inspects, publishes and
registers. A migration takes the lease, works, and releases in its deferred call. A lease's
expiry is an event of the clock; nothing renews it.

### Delivery

*State.* Of the catalog, which objects and deliverables exist and since which revision
(`createdAt`), the inputs that a record names (`used`) and the keys of exports (`stored`); the blob
store (`cas`); each destination's directory (`at`) and each call's partial directory
(`partial`); for each call its request, what its package has to hold (`members`) and, of a
snapshot, the revision it copied (`upTo`). A package is what it lists, which bytes it has, and
whether its manifest is written.

*Correspondence.* The three operations share one protocol, and the model has one action for
each step that a writer, a second call or a crash can come between: the look at the key
(`LookUp`, `Replay`), `TestDestination` (the `Lstat`, then the partial directory), `Backup`
(SQLite's online backup, which fixes a snapshot's members), `CopyBytes` for each blob,
`WriteManifest`, `CloseDirectory` (the `chmod` of a read-only materialization), `Rename`,
`StoreManifest` (the manifest into the blob store) and the three transactions
`RecordSnapshot`, `RecordExport` and `RecordMaterialization`. `Fail` is every error return with
its deferred `RemoveAll`, which cannot remove the directories that `chmod` has closed and whose
error the code drops.

*Abstractions.* Layouts, sidecar files, limits and the text of manifests are left out. The
staging file of a manifest is that of `stageBlob`, which `Activity` models. `AddObject`
stands for every other writer. `TakeAway` is outside of the library: somebody moves a package
whose call is over. The checks a package gets before it is renamed (the copy of a snapshot is
verified, and a bag by `VerifyBagIt`) compare digests that the model takes to be right.

### ParserPool

*State.* Of the catalog, the activity of each job (`state`, and how many inputs and outputs it
has) and the parser cache; of the call, its inputs, the index its producer offers next, whether
its context has ended, and the slice of results; for each job, where its worker stands in
`ParseObject`, what its lookup of the cache returned and what it collected as outputs.

*Correspondence.* `Send` hands an index over the unbuffered channel to a worker that waits;
`CloseJobs` and `Return` are the end of the producer, `workers.Wait` and the loop that
fills the slots of what was never sent. A worker's `LookUp`, `Begin`, `UseSource`, `Emit`, `Finish`,
`Collect` and `Store` are the statements of `ParseObject` in order, and `UseCached` the loop of
`recordParserReuse`; `Refuse`, `Break` with `FinishFailed`, and `FailLate` are its error
returns before, under and after the activity. `FinishFailed` may change nothing: it runs with the
context that may have ended, and the code drops its error. `Interrupt` is
`MarkActivitiesInterrupted` in another process.

*Refinement.* `Provenance` is mapped in: the activity of a job, those that made the sources, the
outputs of each job as entities. `KeepsProvenance` says that each step is one of its actions or
none of its business; the state that the pool starts in, whose sources exist, is not the empty
one of `ProvInit`.

*Abstractions.* An activity is named by the job that begins it. All jobs have one parser and one
configuration, hence an object is a key of the cache. The parser is any that emits at most
`MaxOutputs` outputs and does nothing else; probe, options and missing objects are one
`Refuse`. The two statements of a lookup are one step, for the rows are committed together and
never changed. The process's death leaves any state of the model as it is.

### Review

*State.* The tables of `Provenance` and what review adds to them: `createdAt` of each entity, the
`body` of finding revisions, selections and projections, the `current` revision of each finding,
and the case's `revision`. Of each call that reads before it records, its place and request, what it
has `found`, the `queue` of `resolveClosure`, and of a walk the revision (`at`) and cursor (`after`)
that its caller passes on.

*Correspondence.* `Author` and `Revise` are one transaction each, and so one step; a reviewer
has read the revision that a `Revise` expects at any time before. `Freeze` is two transactions,
`RunQuery` and `Freeze`. `CreateProjection` is `StartProject` (the selection's rows, which never
change), one `Resolve` for each statement of `resolveClosure`, in any order of the queue, then
`Resolved` and the transaction. A walk is `StartWalk` and a `Page` for each `QueryPage`; its
first page chooses the revision. `Return` is every error, a crash, and a caller that asks for no
further page. `BeginActivity`, `Use` and `Emit` are the activities of everybody else: the
actions of `Provenance`, with the revision that they write. `Activity` implements `Provenance`,
so what holds here holds over the real life cycle.

`Answer` reads as the code does: the candidates are entities created up to the revision that is
asked for, while a predicate that consults other rows (descent, membership in a finding)
consults all rows there are. `AnswerAt`, which the properties use, is the promise: both from
that revision's rows. The two agree for descent only because an activity's inputs are closed by
its first output, so that what was derived later is not an ancestor of what existed; they differ
for findings (section 5). `ClosureOf` defines a closure as the smallest closed set, against the
code's breadth-first walk.

*Abstractions.* Entities are numbered in the order of their kinds and IDs, in which pages list
them; an entity of a small number may be created late. Transactions that create no entity change
the revision in the code and nothing that these properties speak of, and are not counted. Keys
are those of `CaseMutate`. The expected revision of a `Revise` is kept with its row, as the code
keeps the whole request in the `config_json` of its activity. A projection's filter and
exclusions, source trees as members of a closure, and the predicates on values of a single row
are left out. `sources` and `full-provenance` have the same statements and differ in the reasons
they note, and in which bytes a materialization then includes.

### ByteSearch

*State.* The search that is asked for, the member and the chunk it is at (`member`, `base`), where
in the buffer it looks next (`off`), how many matches it may still take from this buffer (`room`)
and has taken (`matches`), and its hits. *Correspondence.* A buffer is a chunk with the context
before it, and behind it the rest of an occurrence that begins in the chunk and the context after
that (`ReadStart`, `ReadEnd`). `Match` is one round of the loop around `bytes.Index` with the test
whether the match begins in the chunk; `NextChunk` and `NextMember` are the two outer loops, with
`Limit - len(hits)` fixed as the buffer is read. *Abstractions.* A byte is one of two values; a
regular expression is not modelled, for what it matches is Go's `regexp`.

### Sessions

*State.* One session's row, the flag of each handle on it and who is between flag and
transaction; one call with its place (`pc`), whether its caller's context has ended (`cancelled`)
and whether its step runs under that context (`bound`); what the call has recorded (its
activity's `state`, inputs `used`, seal, `captured` entities, `saved` hits, custody `events`); the
command's end and the workspace.

*Correspondence.* `Close` sets the flag, `CloseRow` is its transaction and `FailClose` that
transaction's failure, after which the flag stays. A call is `Call`, then the statements of
`RunExperiment` in order: `Materialize`, `BeginActivity` (its check, its transaction
`InsertActivity`, and `LoadActivity`), two `Use`, `SealInputs`, the command (`RunCommand`,
`Exit`), a `Capture` for each log and output, `Verify` of the inputs, `Judge`, `Finish`. `Break`
is any failing step: it goes to the deferred `Finish`, which has a context of its own
(`DeferredBound`), and `FinishFailed`, `FinishUnacknowledged` and `FinishRefused` are how that may
end. `Enter` is the context with a time limit that each late step gets. `Alter` is the command or
somebody else who writes to the inputs; `Interrupt` is recovery. A search is `Select`, the steps
of `ByteSearch` and `SaveSearch`; a transfer of custody is one transaction.

*Abstractions.* Materialization, captures and `Use` are steps that succeed or fail here, since
`Delivery` and `Activity` have their insides. Two handles come from one key. What is refused
without any effect is `Refuse`.

### SourceTrees

*State.* The world outside is a directory: which `node` stands at a path, its `content` block by
block, its `mtime`. Of the case, the `tree` each call recorded, the blob store (`cas`,
`manifests`) and `staging`. Of a call, the names still to be visited (`todo`), the first `Lstat`
(`info`), the `Stat` of the open file (`opened`), what is `copied` so far, and the `entries`.

*Correspondence.* `Start` is the listing by `WalkDir`; `VisitOther`, `Lstat`, `Open`, `Copy`
(block by block, to the end the file then has) and `Recheck` are the callback's steps; then
`StageManifest`, the early look at the key (`LookUp`), `PublishFile` for each file,
`PublishManifest`, and `RecordTree`, whose transaction looks at the key again (`Replay`). A `tree`
is the effect of an import, for `KeyedEffects`. `Fail` is every error return; a staging file in
the making is removed there (`Dropped`), the others by the deferred removals (`Return`). `Write`
and `Replace` are the owners of the directory.

*Abstractions.* A directory's own entries, path encodings and portability checks are left out.
An owner who writes and sets the time back is left out too, since then the code cannot know, as
its check of size and time shows.

## 3. The runs

| Run | Instance | Shows |
|---|---|---|
| `activity_handles` | 2 activities, 2 entities, 2 handles; assertions and findings | drained handles, truthful terminal flags, refinement of `Provenance` |
| `activity_blobs` | 1 activity, 2 calls, 1 handle, 2 contents, 1 key; captures and imports; fairness | bytes before rows, one result per key, no stray staging file, truthful answers to retries with other content; `Finish` returns |
| `sessions` | 2 handles on 1 session, 1 call of each kind, 1 declared output; all texts of up to 5 bytes, 4 literals, contexts 0 to 2, limits 1, 2, 9, chunks of 2 | experiments' outcomes are true and their activities end, a close is lost by a failure only, saved hits are occurrences, misses have two explanations |
| `source_trees` | 1 call and 3 changes of the directory, or 2 calls and 1 change; 2 paths, 2 files and a directory to stand there, files of up to 3 blocks, 1 key, limits of 2 | whole entries, limits, bytes before rows, swept staging, and, by refinement of `KeyedEffects`, one tree per key |
| `mutate` | 2 calls, 1 key, 2 fingerprints, 4 attempts; fairness | intact chain, exactly-once, clean verification while nothing is committed, refinement of `AuditedLog`, calls end |
| `registry` | 3 operations, 1 new and 1 foreign version-1 case, 2 names, 1 key | registered is published, leases exclude |
| `delivery` | 2 calls, 2 objects, 1 destination, 1 key | whole packages only, nothing replaced, records of what stands there, and, by refinement of `KeyedEffects`, one deliverable per key |
| `parser_pool` | calls with 0, 2 or 3 inputs over 2 objects, 0 to 2 workers asked for, 1 output; fairness | a result in every slot, results backed by the catalog, steps of `Provenance`, `ParseMany` returns |
| `review` | 1 finding with up to 3 revisions, 1 object, 1 artifact, 1 selection, 1 projection; 5 activities, one of others at a time; 1 call, 3 queries, 3 policies, pages of 1 | linear histories, frozen selections, pinned pages, whole closures |
| `missed_hits` | texts of up to 7 bytes, literals of up to 3 | a divergence, section 5 |
| `lease_blocks_opens` | 3 operations on 1 case | a divergence, section 5 |
| `registered_blobs` | 2 operations on 1 case | a divergence, section 5 |

The type invariants and some other properties are proved (section 4) and are not run again, though
TLC agrees with them on these instances: `UpgradedOnce`, `PublishedIsKept` and `CacheIsOfSuccess`;
`DerivationIsAcyclic`, which follows from `ImplementsProvenance`; `OneTreePerKey` and
`ExportsAreOncePerKey`, which follow from `ImplementsKeyedEffects`; and that `CaseMutate` implements
`KeyedEffects`.

*Why these bounds are enough.* Every race of the code is between two actors over one row or file,
with at most one more that crashes or recovers. Two entities let one be the input of the activity
of the other, and one key be used twice; two handles let one end an activity under the other; two
contents let a retry differ. Two writers are enough for the write lock. In the registry, the
longest chain of operations (a creator, a recovery, a migration) is three. For `Delivery`, two
calls race for one destination and one key while a writer adds two objects (one before a
selection, one after it); the same properties hold with three calls (8.6 million states), which
takes too long to be a regular run. In `ParserPool` two workers race to fill the cache for one
object while a third input of it is still to be sent, so that a miss, a lost race and a hit occur
in one call; zero workers asked for means `GOMAXPROCS`, and a call without inputs has no worker.
Its safety properties also hold for every sequence of up to three inputs (2.8 million states). In
`Review`, the races are of one call with everybody else, and calls share nothing but the catalog,
so that one call is enough; pages of one entity put a page boundary after each, the three
revisions of a finding let two reviewers expect the same one, and an object, an artifact that uses
it and a finding over it make a closure of several statements. In `Sessions`, one call is enough,
for calls share nothing but the session's row and flags; three chunks give a chunk with a
neighbour on either side, and a literal of three bytes spans two of them. What can happen to a
scan is up to the owners of the directory: with three changes in one import, a file may be written
twice and its path be replaced, and the two first files together are within `MaxBytes` until one
of them grows. What can happen between two calls needs but one change, by which their scans
differ, and a key that they race for. The constraint `FewActors` of `MCSourceTrees` is this bound;
the properties also hold with two calls and two changes (2.5 million states). No run records an
artifact in `Activity` (it takes an import, a second activity and a derived entity, with all of
their steps): its guard is exercised by the proofs alone. The number of IDs bounds a run: when
they are used up the system stops, hence `CHECK_DEADLOCK FALSE` everywhere. Symmetry is used only
by runs that check no liveness. All of the safety properties are also proved without any bound
(section 4).

*Fairness.* `Activity!Fairness`: each step of a running call and of a `Finish` that is not parked
is weakly fair, since goroutines are scheduled and file and database operations end. A parked
`Finish` has no enabled step: only an ending call wakes it, so that `FinishReturns` depends on the
broadcast. The subscripts of the conditions name what each such step changes, of its own call. No
caller is forced to call, no process to crash or not to, no operator to interrupt.
`CaseMutate!Fairness`: the next step of a call in flight is weakly fair; it may always be a
refused attempt, so `CallsEnd` depends on the count of attempts and not on the lock becoming free.
`ParserPool!Fairness`: the producer and each worker are weakly fair, for goroutines are scheduled
and statements and parsers end; nobody is forced to cancel, and a channel without a receiver
enables nothing.

## 4. What is proved

Each proofs module has an inductive invariant `IInv` with `IInvHolds` and `TypeCorrect` (every
variable keeps its type), and the following theorems, for all values of the constants:

| Module | Theorem | States |
|---|---|---|
| `ActivityProofs` | `InputsAreOlder` | `InputsPrecedeOutputs` |
| | `BytesBeforeRows` | `NoDanglingBlob` |
| | `HandleIsDrained` | `FinishDrainsItsHandle` |
| | `KeysAreUnique` | `OneResultPerKey` |
| | `AnswersAreTrue` | `AnswersAreRecorded` |
| | `StagingIsSwept` | `StagingLeftByCrashOnly` |
| | `TerminalFlag` | `TerminalFlagIsTrue` |
| | `Implements` | `Activity` implements `Provenance` |
| | `AcyclicDerivation` | `DerivationIsAcyclic` |
| `CaseMutateProofs` | `ChainIsIntact` | `AuditIntact` |
| | `EffectsAreOnce` | `OneEffectPerKey`, with `KeyWithEffect` |
| | `AnswersHold` | `AnswersAreTrue` |
| | `QuietVerify` | `QuietVerifyIsClean` |
| | `Implements` | `CaseMutate` implements `AuditedLog` |
| | `ImplementsKeys` | `CaseMutate` implements `KeyedEffects` |
| | `HeadPinsLog` | what `Verify` accepts under one head and revision is one log |
| `CaseRegistryProofs` | `OffersArePublished` | `RegisteredIsPublished` |
| | `Upgrades` | `UpgradedOnce` |
| | `DirectoriesStay`, `LeasesStay` | `PublishedIsKept`, `LeaseIsKept` (no step does otherwise) |
| `DeliveryProofs` | `WholeDestinations` | `DestinationsAreWhole` |
| | `SnapshotsAreRecordedWhole` | `SnapshotInputsAreItsCatalog` |
| | `ExportsOncePerKey` | `ExportsAreOncePerKey` |
| | `PartialsSwept` | `PartialsAreSwept` |
| | `PackagesAreKept` | `PackagesStand` (no step does otherwise) |
| | `Implements` | `Delivery` implements `KeyedEffects` |
| `ParserPoolProofs` | `ResultsInOrder` | `ResultsMatchInputs` |
| | `CacheIsTrue` | `CacheIsOfSuccess` |
| | `BackedResults` | `ResultsAreBacked` |
| | `ProvenanceKept` | `KeepsProvenance` (no step does otherwise) |
| `ReviewProofs` | `HistoriesLinear` | `HistoriesAreLinear` |
| | `SelectionsFrozen` | `SelectionsAreFrozen` |
| | `PagesPinned` | `PagesArePinned` |
| | `ProjectionsClosed` | `ProjectionsAreClosed` |
| `SessionsProofs` | `OutcomesAreTrue` | `OutcomeIsTrue` |
| | `RunsEnd` | `RunsAreEnded` |
| | `ClosesAreKept` | `CloseIsLostOnlyByFailure` |
| | `HitsAreTrue` | `SavedHitsAreTrue` |
| | `MissesHold` | `MissesAreExplained` |
| | `BareSearchIsComplete` | `NothingIsMissed`, of searches without context |
| `SourceTreesProofs` | `WholeEntries` | `EntriesAreWhole` |
| | `BackedTrees` | `TreesAreBacked` |
| | `TreesPerKey` | `OneTreePerKey` |
| | `SweptImports` | `ImportsAreSwept` |
| | `LimitsHold` | `LimitsAreKept` |
| | `Implements` | `SourceTrees` implements `KeyedEffects` |

None of the properties is inductive alone. The rest of this section is, module by module, what
`IInv` adds and why.

### ActivityProofs

*Assumptions.* `Distinct` (the null values are not members of their sets), `OutcomeNames`
(the outcomes hold "succeeded" and "interrupted", and neither "none" nor "running") and
`FiniteEntities` (so that the counter of captures can be compared with a cardinality). TLC
evaluates them in every run.

*The argument.* `IInv` adds:

* `RowsOK`: seals and creations are never later than the revision; an activity without a row
  has no inputs, outputs or seal; inputs exist; an activity with outputs is sealed, and its
  inputs are older than the seal. This is what makes `InputsPrecedeOutputs` survive a `Use`
  (the guard on the seal) and a record (`SealedBy` keeps the first seal).
* `HandlesOK`: an open handle stands for an activity that has a row, and a terminal flag for
  one that ended. Outcomes are never revoked, hence `TerminalFlagIsTrue`.
* `CallsOK`: an idle call has no row and no request; a call in flight has a request on a live
  handle or on none; a call that stages, checks or publishes has no row yet.
* `BlobsOK`: a call that records, or has recorded, has its content in the store; the store
  only grows. That is the publication order of the code as an invariant.
* `FinishDrainsItsHandle`, `OneResultPerKey`, `AnswersAreRecorded` and
  `StagingLeftByCrashOnly`, which are inductive relative to the parts above.

Each part has a lemma with one step per action that can disturb it (`TypeStep`, `RowsStep`,
`HandlesStep`, `CallsStep`, `BlobsStep`, `DrainStep`, `KeyStep`, `AnswersStep`,
`StagingStep`); `IInvStep` combines them. `ProvenanceStep` maps every step to a step of
`Provenance` or to a stutter. `AcyclicDerivation` is proved of `Provenance` alone and handed down
by `Implements`: with `Made` (inputs exist, and what exists was made by an activity that has begun)
only an activity without outputs is given inputs, and an entity that is new is no input of any
(`NewEntity`). A set with a new entity has then one that is made from none of it, because the rest
of it has, or because it is the new one alone.

### CaseMutateProofs

*Assumption.* `MutateAssumption`: the null values are no members of their sets, and there is at
least one attempt.

*The argument.* The heart is `LockOK`: the call whose transaction is open holds the write lock,
and what it read when it began (`seen`) is still the revision and the head. A commit that
overwrites both from what it read is then a commit on top of the last one, and `LogOK` (the
chain, position by position) survives it. Were the transactions deferred, as without
`_txlock=immediate`, `LockOK` would be false; that is the mutant of `AuditIntact`. `CallsOK` says
that a call that may still be attempted is not in the log, so that a retry cannot write twice
(`WrittenOnce`); its key is then free, or the transaction would have replayed (`KeyWithEffect`).
`AnswersAreTrue` needs `ToldByKey`, that a success by another call's effect is one by the same
key. `ReaderOK`, that `Verify` has read a prefix of the log, gives `QuietVerify`. `Simulation`
maps a commit to the abstract effect, a successful answer to `Tell` and all else to a stutter;
`KeyedStep` does the same for `KeyedEffects`, where an effect must keep its request
(`RequestsStay`). `HeadPinsLog` is about `AuditIssues` and any two logs: from the head, each event
names the hash of the one before, so that the last position at which two accepted logs differ would
have equal hashes. Its premise is that no two different events of the two have one hash. This is
what a checkpoint, which keeps revision and head outside of the case (`docs/design.md:547`), is
good for.

### CaseRegistryProofs

Assumption: `RegistryAssumption` on null values and versions. Whoever renames a directory has seen
its marker and its catalog, or has written them in `Order`, or somebody has renamed it before. So
`WriterOK` says, part by part, that what an operation has written stands in its partial directory
until that is published, `RenamerOK` that one which is about to rename has a valid directory or a
published one, and `PublishedOK` that published directories are valid and active rows have one. An
expired lease needs nothing: what another operation could do with it preserves all parts.

### DeliveryProofs

Assumptions: `DeliveryAssumption`, `NoPackageAssumption`. `PackageOK` has, for each place of a call,
what its package is by then and who owns what stands at its destination. `SnapshotOK` compares a
snapshot's members with `Since(upTo)`: rows of a revision that is over do not change, hence
neither does that set, while `revision` and the catalog go on. `KeysOK` names the one
deliverable of a key; with it a record is a fresh effect of `KeyedEffects` (`RecordIsEffect`), and
an answer, given once and last, is of the same request (`AnswerIsTold`).

### ParserPoolProofs

Assumptions: `PoolAssumption`, `NoResultAssumption`. A job writes its own rows and its own slot,
and so `RowsOK(i)` and `SlotOK(i)` are about one job: which rows it has at each place, and that a
slot is filled when its job is done or was never sent. What jobs share is the cache; its entries
are never replaced, and their sources have ended. `ProvenanceKept` needs of a job only that it
declares its source before it emits, and writes to a row that is running.

### ReviewProofs

Assumption: `ReviewAssumption`. The lemma `RowsStand` carries three of the four theorems: a step
adds rows, later than all there are, and leaves the inputs and rows of what exists as they were.
What a query or a closure says of the rows up to a revision is therefore the same in each later
state; `FrozenOK`, `WalkOK` and `Closing` say it of a call half way. `Closing` holds the loop
invariant of `resolveClosure`: what is found lies in every closed set around the selection, and
what is found and not queued has its neighbours found. A page needs the least and the greatest
member of finite sets and their counting. The library's induction theorems are of no use here;
instead a least member is found by well-foundedness, since the intervals up to the members of a
set are finite sets and inclusion orders those without a descending chain (`Least`).

### SessionsProofs

Assumptions: `SearchAssumption`, `SessionAssumption`. Four arguments. `ScanOK`:
hits lie before what can still be found (`Behind`), each with its whole context, because the
buffer reaches as far as the context of anything that begins in the chunk. `MissesOK`: of what the
scan is past (`Past`), each occurrence is a hit, or hidden by one, or else the limit was used up
before it, by occurrences in the context; the room of a buffer is the whole rest of the limit
unless there are such. Without context bytes there are none (`BareSearchIsComplete`), so that the
divergence of `missed_hits` takes a context. `CallOK` and
`JudgementOK`: what is recorded at each place, that an alteration is seen by the check that
follows the command, and that the deferred `Finish` runs with its own context. `CloseOK`: a handle
whose flag is set is at its `Close`, or the row is closed, or a `Close` failed.

### SourceTreesProofs

Assumptions: `TreeAssumption`, `NoTreeAssumption`. `CopyOK` says that what is copied is a prefix
of the file as long as its time is that of the open file; the last check finds size and time as
they were, and the whole file is what was copied, at this moment. `FoundOK` says that a path has
one entry, `StagedOK` which staging files there are, and `PublishedOK` that the bytes of each
entry are in staging until they are in the store; without the first, a second entry of a path
would never be published. `LimitsOK` says that a call at a file has room for it (`HasRoom`); the
bytes of the entries are counted as a finite set of positions, which has a cardinality without a
sum over a sequence. `AnswerOK` says that only a call that is over has a tree or an answer, and
with that an import maps to `KeyedEffects`: `RecordTree` is a fresh effect, for its transaction
found the key unused; a `Replay` is told of a tree that equals its own scan; a crash forgets.

*Only model-checked:* liveness (`FinishReturns`, `CallsEnd`, `ParseManyReturns`), which is out of
the prover's reach. The three runs of section 5 are counterexamples and need no proof. Where an
argument goes through data step by step (a scan, a log, the least of some numbers), it is either
an invariant of the steps that do it or uses a least counterexample (`Least`): the
library's induction theorems take an operator as a parameter and cannot be instantiated here.

## 5. Where the code and its documents differ

| Run | The document | The code |
|---|---|---|
| `lease_blocks_opens` | `migration.go:16-18`: the lease blocks new opens | `CreateCase` activates its row unconditionally (`repository.go:249`), also after recovery and a migration's lease |
| `registered_blobs` | `docs/design.md:488`: the database never references missing managed bytes | `RestoreCase` writes catalog and marker before the blobs (`snapshot.go:359-375`), and recovery registers what has a catalog and a marker |
| `missed_hits` | `docs/implementation-status.md:24-25` and `docs/design.md:1093`: a bounded cross-chunk search whose limits are explicit | `SearchBytes` counts matches in the context before a chunk against the limit and then drops them (`search.go:118-139`), so that a hit in the chunk is lost and the result is below its limit |

Others, read from the code while modelling it; no run repeats them:

* `docs/design.md:464`: "An activity waits for in-flight captures before it becomes terminal."
  `Finish` waits for those of its own handle (`activity.go:459`); a second handle, from the key of
  `BeginActivity`, may end the activity under them.
* `docs/design.md:558`: "Verification operates against a catalog snapshot." `verifyAudit` reads
  events and head in two statements (`verify.go:314-351`), and a commit between them is reported
  as a broken head; `QuietVerifyIsClean` has the condition under which it is not. The full
  verification walks the blob directory without a snapshot too.
* `query.go:130-131` has a walk stay pinned while writers extend the case. The finding predicate
  reads the members of all revisions there are (`query.go:480`): a finding revised between two
  pages adds older entities to the later one. `PagesArePinned` is therefore about queries by kind
  and by descent.
* `docs/design.md:641`: a finding context has "finding members and their immediate sources";
  `resolveClosure` goes on to the closure (`projection.go:247`).
* A second handle of a closed session, obtained with its key, still begins work, since calls look
  at their own handle's flag only (`activity.go:132`); and after a failed `Close` the flag stays
  and the session cannot be closed by that handle (`activity.go:114`).
* A file that grows between `Lstat` and `Open` can take a tree over `MaxBytes`; it is then the
  last file, which is what `LimitsAreKept` says.
* `resolveClosure`'s loops over rows do not look at `rows.Err` (`projection.go:244`): an error in
  the middle of a statement would shorten the closure. Leases are compared as text with a varying
  number of fractional digits (`migration.go:146`).

## 6. Composition, and what is not modelled

`Review` extends `Provenance`, the promise that `Activity` implements, with findings, selections
and projections. `Sessions` extends `ByteSearch` and runs its scan as a part of a call; it takes
captures and materializations from `Activity` and `Delivery` as steps. `Review`, `Delivery`,
`ParserPool`, `Sessions` and `SourceTrees` take a transaction to be atomic, as `CaseMutate` and
`AuditedLog` show it for `mutate`. That what `ParserPool` does with activities is what `Activity`
does with them is the common promise `Provenance`; that the keys of `CaseMutate`, `Delivery` and
`SourceTrees` mean the same is `KeyedEffects`.

Left out, and why:

* *Presentation, provenance and accessors*: reads of a catalog that change no state. *Canonical
  JSON, identifiers, types*: encodings; an ID is a model value in every module.
* *Checkpoints*: signatures over revision and audit head, a function of data that `CaseMutate`
  abstracts; that the two pin the history is proved (`HeadPinsLog`).
* *`SearchText` and `SearchMetadata`*: one query each. *Regular expressions*: what matches is Go's
  `regexp`.
* *Domain rows and blobs in `Verify`, and `VerifyBagIt`*: they recompute digests and columns which
  the models take to be right.
* *Queries by values of one row, by evidence and by tree; filters, exclusions and views of a
  projection; what lies below a subdirectory of a source tree*: they add cases to operators that
  are modelled, and no race of their own.
* *The upgrade of a catalog row by row*: one SQLite transaction. `InspectRecovery`: reads.
* *`forensicctl` and the example*: callers of the library without state.
* *Power loss*, as opposed to the death of a process, needs a model of the order in which the file
  system writes; the models keep every file that was written.

Worth adding next: source trees as members of a closure in `Review`; the comparison of leases as
text, over bounded times; the Boolean predicates of queries, over several pages.
