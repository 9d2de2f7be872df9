------------------------------- MODULE Review -------------------------------
(***************************************************************************)
(* What analysts do with the entities of a case while the case grows:      *)
(* author and revise findings (src/forensic/records.go), walk through a    *)
(* query page by page and freeze a query into a selection (query.go), and  *)
(* close a selection under provenance into a projection (projection.go).   *)
(*                                                                         *)
(* The activities of everybody else are those of module Provenance, which  *)
(* module Activity implements.  A call of Case.mutate is one step, as      *)
(* CaseMutate shows, which also has its keys: here every request is a new  *)
(* one.  A read that is one read-only transaction is one step; the         *)
(* statements of a closure and the pages of a walk are steps of their own, *)
(* between which the catalog changes.  Kinds and exclusions of a           *)
(* projection, and source trees as members, are left out.                  *)
(***************************************************************************)
EXTENDS Provenance, Integers, FiniteSets

CONSTANTS Calls, Findings,
          KindOf,      \* an ID's kind: IDs carry a prefix
          NoEntity, NoBody, NoRequest,
          PageLimit,
          \* What is asked for: typed queries, closure policies.
          Queries, Policies,
          \* Bounds of the model: a revision's members, the activities of others that
          \* run at a time, and how much each of them uses.
          MemberSets, MaxRunning, MaxUsed

QueryOps == {"kind", "descendant", "finding"}

\* Entities are numbered in the order of their kinds and IDs, as pages list them.
ASSUME ReviewAssumption ==
    /\ Entities \subseteq Nat \ {0} /\ IsFiniteSet(Entities)
    /\ Activities \subseteq Nat /\ "succeeded" \in Outcomes
    /\ KindOf \in [Entities -> {"artifact", "finding_revision", "object", "projection", "selection"}]
    /\ \A q \in Queries :
           /\ q.op \in QueryOps
           /\ q.op = "descendant" => q.of \in Entities
           /\ q.op = "finding" => q.of \in Findings
    /\ Policies \subseteq {"exact", "input-bytes", "sources", "full-provenance", "finding-context"}
    /\ MemberSets \subseteq SUBSET Entities
    /\ PageLimit \in Nat \ {0} /\ MaxRunning \in Nat /\ MaxUsed \in Nat
    /\ NoEntity \notin Entities /\ NoActivity \notin Activities

VARIABLES
    \* The catalog, besides the tables of Provenance.
    revision,   \* case_info.revision; those that create no entity are left out
    createdAt,  \* entities.created_revision, 0 while there is no row
    body,       \* the row of finding_revisions, selections or projections
    current,    \* findings.current_revision_id
    \* Calls.
    pc, request,
    found,      \* a query's answer, a closure so far, what a walk has listed
    queue,      \* resolveClosure's queue
    at,         \* the revision a query was answered at, or a walk is pinned to
    after       \* the cursor of a walk

catalog == <<revision, createdAt, body, current>>
work == <<found, queue, at, after>>
calls == <<pc, request, work>>
vars == <<provVars, catalog, calls>>

OfKind(k) == {e \in Entities : KindOf[e] = k}
Objects == OfKind("object")
FindingRevisions == OfKind("finding_revision")
FrozenSelections == OfKind("selection")
RecordedProjections == OfKind("projection")
Facts == Objects \cup OfKind("artifact")

Requests ==
    [op : {"freeze", "walk"}, query : Queries]
    \cup [op : {"project"}, selection : FrozenSelections, policy : Policies]

\* A revision's row, and the revision expected in its activity's config_json.
Revisions == [finding : Findings, version : Nat, members : MemberSets,
              predecessor : FindingRevisions \cup {NoEntity},
              expected : FindingRevisions \cup {NoEntity}]
Selections == [query : Queries, revision : Nat, members : SUBSET Entities]
Projections == [selection : FrozenSelections, policy : Policies, members : SUBSET Entities]

Bodies(kind) == CASE kind = "finding_revision" -> Revisions
                  [] kind = "selection" -> Selections
                  [] kind = "projection" -> Projections
                  [] OTHER -> {NoBody}

InFlight == {"reading", "closing", "recording", "paging"}

TypeOK ==
    /\ state \in [Activities -> {"none", "running"} \cup Outcomes]
    /\ inputs \in [Activities -> SUBSET Entities]
    /\ generatedBy \in [Entities -> Activities \cup {NoActivity}]
    /\ revision \in Nat \ {0}
    /\ createdAt \in [Entities -> 0..revision]
    /\ DOMAIN body = Entities /\ DOMAIN request = Calls
    /\ \A e \in Entities :
           /\ e \in Existing <=> createdAt[e] > 0
           /\ IF e \in Existing THEN body[e] \in Bodies(KindOf[e]) ELSE body[e] = NoBody
    /\ current \in [Findings -> FindingRevisions \cup {NoEntity}]
    /\ pc \in [Calls -> {"idle", "listed"} \cup InFlight]
    /\ \A c \in Calls : request[c] \in IF pc[c] = "idle" THEN {NoRequest} ELSE Requests
    /\ found \in [Calls -> SUBSET Entities] /\ queue \in [Calls -> SUBSET Entities]
    /\ at \in [Calls -> 0..revision] /\ after \in [Calls -> Entities \cup {0}]

Init ==
    /\ ProvInit
    /\ revision = 1
    /\ createdAt = [e \in Entities |-> 0]
    /\ body = [e \in Entities |-> NoBody]
    /\ current = [f \in Findings |-> NoEntity]
    /\ pc = [c \in Calls |-> "idle"]
    /\ request = [c \in Calls |-> NoRequest]
    /\ found = [c \in Calls |-> {}] /\ queue = [c \in Calls |-> {}]
    /\ at = [c \in Calls |-> 0] /\ after = [c \in Calls |-> 0]
----------------------------------------------------------------------------
\* The activities of others.

Unused == {a \in Activities : state[a] = "none"}
Drawn == CHOOSE a \in Unused : \A b \in Unused : a <= b

BeginActivity ==
    /\ Cardinality({a \in Activities : state[a] = "running"}) < MaxRunning
    /\ Unused # {} /\ Begin(Drawn)
    /\ UNCHANGED <<catalog, calls>>

\* Use, when the activity has an output.
Use_AfterOutput(a, e) ==
    /\ state[a] = "running" /\ e \in Existing
    /\ e \notin inputs[a] /\ Cardinality(inputs[a]) < MaxUsed
    /\ inputs' = [inputs EXCEPT ![a] = @ \cup {e}]
    /\ UNCHANGED <<state, generatedBy, catalog, calls>>

Use(a, e) ==
    /\ e \notin inputs[a] /\ Cardinality(inputs[a]) < MaxUsed
    /\ Declare(a, e)
    /\ UNCHANGED <<catalog, calls>>

Created(e) ==
    /\ revision' = revision + 1
    /\ createdAt' = [createdAt EXCEPT ![e] = revision']

Emit(a, e) ==
    /\ e \in Facts /\ Generate(a, e) /\ Created(e)
    /\ UNCHANGED <<body, current, calls>>
----------------------------------------------------------------------------
\* Queries.

UsedFor(e) == inputs[generatedBy[e]]

\* WITH RECURSIVE descendants: e, and what was generated in S by an activity that
\* used one of them: the least set that has both.
DescendantsIn(S, e) ==
    LET Derived == {x \in S : UsedFor(x) # {}}
    IN  {x \in Derived \cup {e} : \A T \in SUBSET Derived :
            (\A y \in Derived : UsedFor(y) \cap (T \cup {e}) # {} => y \in T) => x \in T \cup {e}}

RevisionsIn(S, f) == {r \in S \cap FindingRevisions : body[r].finding = f}

\* matchQuery, on the rows of S.
Matching(S, q) ==
    CASE q.op = "kind" -> OfKind(q.of)
      [] q.op = "descendant" -> DescendantsIn(S, q.of)
      [] q.op = "finding" ->
             RevisionsIn(S, q.of) \cup UNION {body[r].members : r \in RevisionsIn(S, q.of)}

CreatedBy(r) == {e \in Existing : createdAt[e] <= r}

\* The candidates of a page are all that exist.
Candidates_Unpinned(r) == Existing

\* loadEntityViews: WHERE e.created_revision<=?
Candidates(r) == CreatedBy(r)

\* The predicates that consult other rows consult all there are.
Answer(q, r) == Candidates(r) \cap Matching(Existing, q)
----------------------------------------------------------------------------
\* Calls that read before they record.

Free(c) == pc[c] \notin InFlight

Asked(c, req, step, members, frontier) ==
    /\ request' = [request EXCEPT ![c] = req]
    /\ pc' = [pc EXCEPT ![c] = step]
    /\ found' = [found EXCEPT ![c] = members]
    /\ queue' = [queue EXCEPT ![c] = frontier]
    /\ at' = [at EXCEPT ![c] = 0]
    /\ after' = [after EXCEPT ![c] = 0]

Done(c) == Asked(c, NoRequest, "idle", {}, {})

Start(c, req, step, members, frontier) ==
    /\ Free(c)
    /\ Asked(c, req, step, members, frontier)
    /\ UNCHANGED <<provVars, catalog>>

StartFreeze(c, q) == Start(c, [op |-> "freeze", query |-> q], "reading", {}, {})

\* Case.Selection: its rows never change.
StartProject(c, s, policy) ==
    /\ s \in Existing \cap FrozenSelections
    /\ LET members == body[s].members
       IN  Start(c, [op |-> "project", selection |-> s, policy |-> policy], "closing",
                 members, IF policy = "exact" THEN {} ELSE members)

StartWalk(c, q) == Start(c, [op |-> "walk", query |-> q], "paging", {}, {})

\* The revision a selection says it was evaluated at is that of its record.
Observed_AtRecord(c) == revision + 1

Observed(c) == at[c]

\* Freeze's Case.Query: one read-only transaction before that of the record.
RunQuery(c) ==
    /\ pc[c] = "reading"
    /\ at' = [at EXCEPT ![c] = revision]
    /\ found' = [found EXCEPT ![c] = Answer(request[c].query, revision)]
    /\ pc' = [pc EXCEPT ![c] = "recording"]
    /\ UNCHANGED <<provVars, catalog, request, queue, after>>

\* QueryPage; the first page chooses the revision of the others.
Page(c) ==
    /\ pc[c] = "paging"
    /\ LET pinned == IF at[c] = 0 THEN revision ELSE at[c]
           rest == {e \in Answer(request[c].query, pinned) : e > after[c]}
           page == {e \in rest : Cardinality({x \in rest : x < e}) < PageLimit}
           full == Cardinality(page) = PageLimit
       IN  /\ at' = [at EXCEPT ![c] = pinned]
           /\ found' = [found EXCEPT ![c] = @ \cup page]
           /\ after' = [after EXCEPT ![c] =
                  IF full THEN CHOOSE e \in page : \A x \in page : x <= e ELSE 0]
           /\ pc' = [pc EXCEPT ![c] = IF full THEN "paging" ELSE "listed"]
    /\ UNCHANGED <<provVars, catalog, request, queue>>

\* resolveClosure's statement for one entity of its queue.
Contributed(policy, e) ==
    IF policy = "input-bytes" THEN UsedFor(e) \cap Objects
    ELSE IF policy # "finding-context" THEN UsedFor(e)
    ELSE IF KindOf[e] = "finding_revision" THEN body[e].members
    ELSE UsedFor(e) \cap Facts

\* input-bytes goes one step, the others all the way.
Queued(policy, added) == IF policy = "input-bytes" THEN {} ELSE added

Resolve(c, e) ==
    /\ pc[c] = "closing" /\ e \in queue[c]
    /\ LET policy == request[c].policy
           added == Contributed(policy, e) \ found[c]
       IN  /\ found' = [found EXCEPT ![c] = @ \cup added]
           /\ queue' = [queue EXCEPT ![c] = (@ \ {e}) \cup Queued(policy, added)]
    /\ UNCHANGED <<provVars, catalog, pc, request, at, after>>

Resolved(c) ==
    /\ pc[c] = "closing" /\ queue[c] = {}
    /\ pc' = [pc EXCEPT ![c] = "recording"]
    /\ UNCHANGED <<provVars, catalog, request, work>>
----------------------------------------------------------------------------
\* The transactions.

\* A new activity that succeeded, with its inputs and its entity.
Recorded(e, used, row) ==
    /\ e \notin Existing /\ Unused # {}
    /\ Record(Drawn, used, e, "succeeded") /\ Created(e)
    /\ body' = [body EXCEPT ![e] = row]

\* AuthorFinding and ReviseFinding are their transaction.

Author(f, e, members) ==
    /\ current[f] = NoEntity /\ e \in FindingRevisions
    /\ members \subseteq Existing
    /\ Recorded(e, members, [finding |-> f, version |-> 1, members |-> members,
                            predecessor |-> NoEntity, expected |-> NoEntity])
    /\ current' = [current EXCEPT ![f] = e]
    /\ UNCHANGED calls

\* The revision that is not looked at.
IsExpected_Unchecked(f, expected) == TRUE

\* current_revision_id against ExpectedRevision, in the transaction
IsExpected(f, expected) == current[f] = expected

\* The caller has read the revision it expects at some time before.
Revise(f, e, expected, members) ==
    /\ expected \in RevisionsIn(Existing, f) /\ IsExpected(f, expected)
    /\ e \in FindingRevisions /\ members \subseteq Existing
    /\ Recorded(e, members \cup {current[f]},
           [finding |-> f, version |-> body[current[f]].version + 1, members |-> members,
            predecessor |-> current[f], expected |-> expected])
    /\ current' = [current EXCEPT ![f] = e]
    /\ UNCHANGED calls

Freeze(c, e) ==
    /\ pc[c] = "recording" /\ request[c].op = "freeze" /\ e \in FrozenSelections
    /\ Recorded(e, found[c],
           [query |-> request[c].query, revision |-> Observed(c), members |-> found[c]])
    /\ Done(c)
    /\ UNCHANGED current

CreateProjection(c, e) ==
    /\ pc[c] = "recording" /\ request[c].op = "project" /\ e \in RecordedProjections
    /\ Recorded(e, {request[c].selection},
           [selection |-> request[c].selection, policy |-> request[c].policy, members |-> found[c]])
    /\ Done(c)
    /\ UNCHANGED current

\* An error, a closed session, the end of the process, a caller that wants no more.
Return(c) ==
    /\ pc[c] \in InFlight
    /\ Done(c)
    /\ UNCHANGED <<provVars, catalog>>
----------------------------------------------------------------------------
Others ==
    \/ BeginActivity
    \/ \E a \in Activities, e \in Entities : Use(a, e) \/ Emit(a, e)
    \/ \E f \in Findings, e \in Entities, members \in MemberSets :
           \/ Author(f, e, members)
           \/ \E expected \in FindingRevisions : Revise(f, e, expected, members)

Ask(c) ==
    \/ \E q \in Queries : StartWalk(c, q) \/ StartFreeze(c, q)
    \/ \E s \in FrozenSelections, policy \in Policies : StartProject(c, s, policy)

Work(c) ==
    \/ RunQuery(c) \/ Page(c) \/ Resolved(c) \/ Return(c)
    \/ \E e \in Entities : Resolve(c, e) \/ Freeze(c, e) \/ CreateProjection(c, e)

Next == Others \/ \E c \in Calls : Ask(c) \/ Work(c)

Spec == Init /\ [][Next]_vars
----------------------------------------------------------------------------
(* Properties. *)

\* A finding has one history: its revisions are numbered without gap or fork, each
\* derives from the one before it, which is the one that its author had read, and
\* the current one is the last, whatever reviewers raced on it.
HistoriesAreLinear ==
    \A f \in Findings :
        LET R == RevisionsIn(Existing, f)
        IN  /\ {body[r].version : r \in R} = 1..Cardinality(R)
            /\ current[f] = NoEntity <=> R = {}
            /\ \A r \in R : LET p == body[r].predecessor
                            IN  /\ p = body[r].expected
                                /\ IF body[r].version = 1 THEN p = NoEntity
                                   ELSE /\ p \in R \cap UsedFor(r)
                                        /\ body[p].version = body[r].version - 1
            /\ \A r \in R : body[r].version = Cardinality(R) => r = current[f]

\* What a query finds in the catalog of a revision: in the rows it had then.
AnswerAt(q, r) == CreatedBy(r) \cap Matching(CreatedBy(r), q)

\* A selection holds what its query finds at the revision it names, although the
\* case grew between the query and the record, and since.
SelectionsAreFrozen ==
    \A s \in Existing \cap FrozenSelections :
        body[s].members = AnswerAt(body[s].query, body[s].revision)

\* The smallest set around S that holds the inputs of a kind that its members'
\* activities used, and of findings the members instead, if so asked.
ClosureOf(S, kinds, context) ==
    LET Related(e) == IF context /\ KindOf[e] = "finding_revision" THEN body[e].members
                      ELSE {i \in UsedFor(e) : KindOf[i] \in kinds}
    IN  {e \in Existing : \A T \in SUBSET Existing :
            (S \subseteq T /\ \A x \in T : Related(x) \subseteq T) => e \in T}

\* A projection holds the whole closure of its selection and nothing else, though
\* it was computed statement by statement while activities went on: inputs are
\* closed when an output exists, so that the closure is the same at every revision.
ProjectionsAreClosed ==
    \A p \in Existing \cap RecordedProjections :
        LET S == body[body[p].selection].members
            policy == body[p].policy
        IN  body[p].members =
                CASE policy = "exact" -> S
                  [] policy = "input-bytes" -> S \cup (Objects \cap UNION {UsedFor(e) : e \in S})
                  [] policy = "finding-context" -> ClosureOf(S, {"object", "artifact"}, TRUE)
                  [] OTHER -> ClosureOf(S, {KindOf[e] : e \in Entities}, FALSE)

\* A walk lists what its query finds at its revision, each page read at another
\* time, when it asks for a kind or for what derives from an entity (by finding,
\* it lists members of revisions that came later).
PagesArePinned ==
    \A c \in Calls :
        pc[c] = "listed" /\ request[c].query.op \in {"kind", "descendant"} =>
            found[c] = AnswerAt(request[c].query, at[c])
=============================================================================
