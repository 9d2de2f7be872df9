---------------------------- MODULE ReviewProofs ----------------------------
(***************************************************************************)
(* Proofs about module Review, for every number of findings, entities and  *)
(* calls: histories are linear, selections and pages are of their          *)
(* revision, and projections are the whole closure of their selection.     *)
(*                                                                         *)
(* One fact carries the last three: a step adds rows, later than those     *)
(* there are, and leaves the rows and the inputs of what exists as they    *)
(* were (lemma RowsStand).  What a query or a closure says of the rows up  *)
(* to a revision is then the same in every later state.                    *)
(***************************************************************************)
EXTENDS Review, TLAPS, FiniteSetTheorems

\* What exists was generated by an activity that has begun, from what existed
\* before, and names only what existed before.
RowsOK ==
    /\ \A a \in Activities : inputs[a] \subseteq Existing
    /\ \A e \in Existing : generatedBy[e] \in Activities /\ state[generatedBy[e]] # "none"
    /\ \A e \in Existing : \A i \in UsedFor(e) : createdAt[i] <= createdAt[e]
    /\ \A e \in Existing :
           /\ KindOf[e] \in {"finding_revision", "selection", "projection"} =>
                  body[e].members \subseteq Existing
           /\ KindOf[e] = "projection" => body[e].selection \in Existing

\* What a call was asked for, by where it is.
CallOK(c) ==
    /\ found[c] \subseteq Existing /\ queue[c] \subseteq Existing
    /\ pc[c] = "reading" => request[c].op = "freeze"
    /\ pc[c] = "recording" => request[c].op \in {"freeze", "project"}
    /\ pc[c] = "closing" => request[c].op = "project"
    /\ pc[c] \in {"paging", "listed"} => request[c].op = "walk"
    /\ pc[c] # "idle" /\ request[c].op = "project" => request[c].selection \in Existing

CallsOK == \A c \in Calls : CallOK(c)

\* A selection, and the call that is about to record one, has its query's answer;
\* C is the catalog of the revision, which does not change.
FrozenOK ==
    \A q \in Queries, r \in Nat, C \in SUBSET Entities : C = CreatedBy(r) =>
        /\ \A s \in Existing \cap FrozenSelections :
               body[s].query = q /\ body[s].revision = r =>
                   r <= revision /\ body[s].members = C \cap Matching(C, q)
        /\ \A c \in Calls :
               pc[c] = "recording" /\ request[c].op = "freeze" /\ request[c].query = q /\ at[c] = r =>
                   found[c] = C \cap Matching(C, q)

\* A walk has what its query finds at its revision, up to its cursor.
WalkOK(c, q, r, C) ==
    /\ pc[c] = "paging" =>
           IF r = 0 THEN found[c] = {} /\ after[c] = 0
           ELSE found[c] = {e \in C \cap Matching(C, q) : e <= after[c]}
    /\ pc[c] = "listed" => r > 0 /\ found[c] = C \cap Matching(C, q)

WalksOK ==
    \A q \in Queries, r \in Nat, C \in SUBSET Entities : C = CreatedBy(r) =>
        \A c \in Calls :
            q.op \in {"kind", "descendant"} /\ request[c].query = q /\ at[c] = r => WalkOK(c, q, r, C)

IsClosed(T, policy) == \A x \in T : Contributed(policy, x) \subseteq T

\* F is part of every closed set around S.
Within(F, S, policy) ==
    \A T \in SUBSET Existing : S \subseteq T /\ IsClosed(T, policy) => F \subseteq T

\* F is what has been found of the closure of S when Q is still to be looked at.
Closing(F, Q, S, policy) ==
    /\ S \subseteq F /\ F \subseteq Existing /\ Q \subseteq F
    /\ policy = "exact" => Q = {} /\ F = S
    /\ policy = "input-bytes" =>
           Q \subseteq S /\ F = S \cup (Objects \cap UNION {UsedFor(e) : e \in S \ Q})
    /\ policy \notin {"exact", "input-bytes"} =>
           Within(F, S, policy) /\ \A x \in F \ Q : Contributed(policy, x) \subseteq F

\* Of a call that closes a selection, and of what such calls have recorded.
ClosuresOK ==
    \A S \in SUBSET Entities, policy \in Policies :
        /\ \A c \in Calls, F, Q \in SUBSET Entities :
               /\ pc[c] \in {"closing", "recording"} /\ request[c].op = "project"
               /\ request[c].policy = policy /\ body[request[c].selection].members = S
               /\ found[c] = F /\ queue[c] = Q
               => Closing(F, Q, S, policy) /\ (pc[c] = "recording" => Q = {})
        /\ \A p \in Existing \cap RecordedProjections, F \in SUBSET Entities :
               /\ body[p].policy = policy /\ body[body[p].selection].members = S
               /\ body[p].members = F
               => Closing(F, {}, S, policy)

IInv == TypeOK /\ RowsOK /\ CallsOK /\ FrozenOK /\ WalksOK /\ ClosuresOK /\ HistoriesAreLinear
----------------------------------------------------------------------------
\* Least and greatest numbers.

LEMMA Least ==
    ASSUME NEW S, S \subseteq Nat, S # {}
    PROVE  \E m \in S : \A x \in S : m <= x
<1>. DEFINE T == {1..x : x \in S}
<1>1. T \subseteq FiniteSubsetsOf(Nat) /\ T # {}
  <2>1. ASSUME NEW x \in S PROVE 1..x \in FiniteSubsetsOf(Nat)
    BY FS_Interval DEF FiniteSubsetsOf
  <2>. QED
    BY <2>1
<1>2. IsWellFoundedOn(StrictSubsetOrdering(Nat), FiniteSubsetsOf(Nat))
  BY FS_StrictSubsetOrderingWellFounded
<1>3. \E A \in T : \A B \in T : <<B, A>> \notin StrictSubsetOrdering(Nat)
  BY <1>1, <1>2, WFMin
<1>4. PICK m \in S : \A x \in S : <<1..x, 1..m>> \notin StrictSubsetOrdering(Nat)
  BY <1>3
<1>5. ASSUME NEW x \in S, ~(m <= x) PROVE FALSE
  <2>1. 1..x \subseteq 1..m /\ 1..m \subseteq Nat /\ m \in 1..m /\ m \notin 1..x
    BY <1>5
  <2>2. 1..x # 1..m /\ <<1..x, 1..m>> \in (SUBSET Nat) \X (SUBSET Nat)
    BY <2>1
  <2>3. <<1..x, 1..m>> \in StrictSubsetOrdering(Nat)
    BY <2>1, <2>2 DEF StrictSubsetOrdering
  <2>. QED
    BY <1>4, <2>3
<1>. QED
  BY <1>5

LEMMA Greatest ==
    ASSUME NEW S, S \subseteq Nat, S # {}, IsFiniteSet(S)
    PROVE  \E m \in S : \A x \in S : x <= m
<1>. DEFINE Above(y) == {x \in S : y <= x}
            T == {Above(y) : y \in S}
<1>1. T \subseteq FiniteSubsetsOf(Nat) /\ T # {}
  <2>1. ASSUME NEW y \in S PROVE Above(y) \in FiniteSubsetsOf(Nat)
    BY FS_Subset DEF FiniteSubsetsOf
  <2>. QED
    BY <2>1
<1>2. IsWellFoundedOn(StrictSubsetOrdering(Nat), FiniteSubsetsOf(Nat))
  BY FS_StrictSubsetOrderingWellFounded
<1>3. \E A \in T : \A B \in T : <<B, A>> \notin StrictSubsetOrdering(Nat)
  BY <1>1, <1>2, WFMin
<1>4. PICK m \in S : \A y \in S : <<Above(y), Above(m)>> \notin StrictSubsetOrdering(Nat)
  BY <1>3
<1>5. ASSUME NEW y \in S, ~(y <= m) PROVE FALSE
  <2>0. m \in Nat /\ y \in Nat /\ m < y
    BY <1>5
  <2>1. Above(y) \subseteq Above(m) /\ Above(m) \subseteq Nat /\ m \in Above(m) /\ m \notin Above(y)
    <3>1. ASSUME NEW x \in S, y <= x PROVE m <= x
      <4>1. x \in Nat
        OBVIOUS
      <4>. QED
        BY <2>0, <3>1, <4>1
    <3>2. Above(y) \subseteq Above(m)
      BY <3>1
    <3>3. Above(m) \subseteq Nat
      OBVIOUS
    <3>4. m \in Above(m) /\ ~(y <= m)
      BY <2>0
    <3>. QED
      BY <3>2, <3>3, <3>4
  <2>2. Above(y) # Above(m) /\ <<Above(y), Above(m)>> \in (SUBSET Nat) \X (SUBSET Nat)
    BY <2>1
  <2>. HIDE DEF Above
  <2>3. <<Above(y), Above(m)>> \in StrictSubsetOrdering(Nat)
    BY <2>1, <2>2 DEF StrictSubsetOrdering
  <2>. QED
    BY <1>4, <2>3
<1>. QED
  BY <1>5

Before(S, e) == {x \in S : x < e}

\* A page of at most n of the set: a beginning of it, and all of it if it has less.
LEMMA PageOf ==
    ASSUME NEW S, S \subseteq Nat, IsFiniteSet(S), NEW n \in Nat \ {0}, NEW B,
           B \subseteq S, \A e \in S : e \in B <=> Cardinality(Before(S, e)) < n
    PROVE  /\ Cardinality(B) # n => B = S
           /\ Cardinality(B) = n => B # {}
           /\ \A m \in B, e \in S : e <= m => e \in B
<1>. DEFINE Below(e) == Before(S, e)
<1>1. \A e \in S : e \in Nat /\ IsFiniteSet(Below(e)) /\ Cardinality(Below(e)) \in Nat
  BY FS_Subset, FS_CardinalityType DEF Before
<1>2. IsFiniteSet(B) /\ Cardinality(B) \in Nat /\ B \subseteq S
  BY FS_Subset, FS_CardinalityType
<1>3. \A e \in S : e \in B <=> Cardinality(Below(e)) < n
  OBVIOUS
<1>4. \A e, x \in S : x \in Below(e) <=> x < e
  BY DEF Before
<1>5. \A e \in S : Below(e) \subseteq S
  BY DEF Before
<1>. HIDE DEF Below
<1>6. ASSUME NEW e \in B, NEW y \in S, y <= e PROVE y \in B
  <2>1. \A x \in S : x < y => x < e
    BY <1>1, <1>2, <1>6
  <2>2. Below(y) \subseteq Below(e)
    BY <1>2, <1>4, <1>5, <2>1
  <2>3. Cardinality(Below(y)) <= Cardinality(Below(e))
    BY <1>1, <1>2, <2>2, FS_Subset
  <2>4. Cardinality(Below(y)) \in Nat /\ Cardinality(Below(e)) \in Nat /\ Cardinality(Below(e)) < n
    BY <1>1, <1>2, <1>3
  <2>5. Cardinality(Below(y)) < n
    BY <2>3, <2>4
  <2>. QED
    BY <1>3, <2>5
<1>7. ASSUME NEW m \in B, \A x \in B : x <= m PROVE Cardinality(B) <= n
  <2>1. \A x \in B \ {m} : x < m
    BY <1>1, <1>2, <1>7
  <2>2. B \ {m} \subseteq Below(m)
    BY <1>2, <1>4, <2>1
  <2>3. Cardinality(B \ {m}) = Cardinality(B) - 1
    BY <1>2, FS_RemoveElement
  <2>4. Cardinality(B \ {m}) <= Cardinality(Below(m))
    BY <1>1, <1>2, <2>2, FS_Subset
  <2>5. Cardinality(Below(m)) < n /\ Cardinality(Below(m)) \in Nat
    BY <1>1, <1>2, <1>3
  <2>. QED
    BY <1>2, <2>3, <2>4, <2>5
<1>8. ASSUME S \ B # {} PROVE Cardinality(B) = n
  <2>1. PICK m \in S \ B : \A x \in S \ B : m <= x
    BY <1>8, Least
  <2>2. \A x \in S : x < m => x \in B
    BY <1>1, <2>1
  <2>3. Below(m) \subseteq B
    BY <1>4, <1>5, <2>2
  <2>4. Cardinality(Below(m)) <= Cardinality(B)
    BY <1>2, <2>3, FS_Subset
  <2>5. Cardinality(Below(m)) \in Nat /\ ~(Cardinality(Below(m)) < n)
    BY <1>1, <1>3, <2>1
  <2>6. n <= Cardinality(B)
    BY <1>2, <2>4, <2>5
  <2>7. B # {}
    <3>1. Cardinality(B) # 0
      BY <2>6
    <3>. QED
      BY <3>1, FS_EmptySet
  <2>8. PICK g \in B : \A x \in B : x <= g
    BY <1>2, <2>7, Greatest
  <2>9. Cardinality(B) <= n
    BY <1>7, <2>8
  <2>10. n \in Nat /\ Cardinality(B) \in Nat
    BY <1>2
  <2>11. \A i, j \in Nat : i <= j /\ j <= i => i = j
    OBVIOUS
  <2>. QED
    BY <2>6, <2>9, <2>10, <2>11
<1>9. Cardinality(B) = n => B # {}
  BY FS_EmptySet
<1>. QED
  BY <1>2, <1>6, <1>8, <1>9
----------------------------------------------------------------------------
\* Steps.

\* A step of a call that changes no row.
Reads(c) ==
    \/ Ask(c) \/ RunQuery(c) \/ Page(c) \/ Resolved(c) \/ Return(c)
    \/ \E e \in Entities : Resolve(c, e)

\* A step that adds an entity, of which row is the body.
WritesFinding(e, row, used) ==
    \E f \in Findings, members \in MemberSets :
        /\ e \in FindingRevisions /\ members \subseteq Existing
        /\ row.finding = f /\ row.members = members
        /\ Recorded(e, used, row)
        /\ current' = [current EXCEPT ![f] = e]
        /\ UNCHANGED calls
        /\ \/ /\ current[f] = NoEntity /\ used = members
              /\ row = [finding |-> f, version |-> 1, members |-> members,
                        predecessor |-> NoEntity, expected |-> NoEntity]
           \/ \E expected \in RevisionsIn(Existing, f) :
                 /\ current[f] = expected /\ used = members \cup {expected}
                 /\ row = [finding |-> f, version |-> body[expected].version + 1, members |-> members,
                           predecessor |-> expected, expected |-> expected]

LEMMA StepCases ==
    ASSUME [Next]_vars
    PROVE  \/ BeginActivity
           \/ \E a \in Activities, e \in Entities : Use(a, e) \/ Emit(a, e)
           \/ \E e \in Entities : \E row, used : WritesFinding(e, row, used)
           \/ \E c \in Calls, e \in Entities : Freeze(c, e) \/ CreateProjection(c, e)
           \/ \E c \in Calls : Reads(c)
           \/ UNCHANGED vars
<1>1. ASSUME NEW f \in Findings, NEW e \in Entities, NEW members \in MemberSets, Author(f, e, members)
      PROVE  \E row, used : WritesFinding(e, row, used)
  <2>. DEFINE row == [finding |-> f, version |-> 1, members |-> members,
                     predecessor |-> NoEntity, expected |-> NoEntity]
  <2>1. WritesFinding(e, row, members)
    BY <1>1 DEF Author, WritesFinding
  <2>. QED
    BY <2>1
<1>2. ASSUME NEW f \in Findings, NEW e \in Entities, NEW members \in MemberSets,
             NEW expected \in FindingRevisions, Revise(f, e, expected, members)
      PROVE  \E row, used : WritesFinding(e, row, used)
  <2>. DEFINE row == [finding |-> f, version |-> body[expected].version + 1, members |-> members,
                     predecessor |-> expected, expected |-> expected]
  <2>1. WritesFinding(e, row, members \cup {expected})
    BY <1>2 DEF Revise, IsExpected, WritesFinding
  <2>. QED
    BY <2>1
<1>. QED
  BY <1>1, <1>2 DEF Next, Others, Work, Reads

LEMMA DrawnIsUnused ==
    ASSUME Unused # {}
    PROVE  Drawn \in Activities /\ state[Drawn] = "none"
<1>1. Unused \subseteq Nat
  BY ReviewAssumption DEF Unused
<1>2. \E a \in Unused : \A b \in Unused : a <= b
  BY <1>1, Least
<1>3. Drawn \in Unused
  BY <1>2 DEF Drawn
<1>. QED
  BY <1>3 DEF Unused

\* A step that adds rows leaves those there are as they were.
RowsStand ==
    /\ Existing \subseteq Existing' /\ revision <= revision'
    /\ \A e \in Existing : /\ generatedBy'[e] = generatedBy[e] /\ createdAt'[e] = createdAt[e]
                          /\ body'[e] = body[e] /\ UsedFor(e)' = UsedFor(e)
    /\ \A e \in Existing' \ Existing : createdAt'[e] > revision

\* The rows, with those of an entity and of its activity.
Added(e, used, row) ==
    /\ RowsStand
    /\ Existing' = Existing \cup {e} /\ e \notin Existing
    /\ UsedFor(e)' = used /\ used \subseteq Existing
    /\ revision' = revision + 1 /\ createdAt' = [createdAt EXCEPT ![e] = revision + 1]
    /\ body' = [body EXCEPT ![e] = row]
    /\ \E a \in Activities : /\ state[a] = "none"
                            /\ state' = [state EXCEPT ![a] = "succeeded"]
                            /\ inputs' = [inputs EXCEPT ![a] = used]
                            /\ generatedBy' = [generatedBy EXCEPT ![e] = a]

\* What the transactions of a finding, a selection or a projection have in common.
LEMMA RecordedRows ==
    ASSUME TypeOK, RowsOK, NEW e \in Entities, NEW used \in SUBSET Entities, NEW row,
           Recorded(e, used, row)
    PROVE  Added(e, used, row)
<1>. DEFINE a == Drawn
<1>1. a \in Activities /\ state[a] = "none"
  BY DrawnIsUnused DEF Recorded
<1>. HIDE DEF a
<1>2. /\ state' = [state EXCEPT ![a] = "succeeded"]
      /\ inputs' = [inputs EXCEPT ![a] = used]
      /\ generatedBy' = [generatedBy EXCEPT ![e] = a]
      /\ used \subseteq Existing /\ e \notin Existing
  BY DEF Recorded, Record, a
<1>3. /\ revision' = revision + 1 /\ createdAt' = [createdAt EXCEPT ![e] = revision + 1]
      /\ body' = [body EXCEPT ![e] = row]
  BY DEF Recorded, Created
<1>4. a # NoActivity
  BY <1>1, ReviewAssumption
<1>5. /\ generatedBy \in [Entities -> Activities \cup {NoActivity}]
      /\ inputs \in [Activities -> SUBSET Entities]
      /\ createdAt \in [Entities -> 0..revision] /\ revision \in Nat
      /\ DOMAIN body = Entities
  BY DEF TypeOK
<1>6. generatedBy'[e] = a /\ \A x \in Entities \ {e} : generatedBy'[x] = generatedBy[x]
  BY <1>2, <1>5
<1>7. Existing' = Existing \cup {e}
  BY <1>4, <1>6 DEF Existing
<1>8. inputs'[a] = used /\ \A b \in Activities \ {a} : inputs'[b] = inputs[b]
  BY <1>1, <1>2, <1>5
<1>9. UsedFor(e)' = used
  BY <1>6, <1>8 DEF UsedFor
<1>10. ASSUME NEW x \in Existing
       PROVE  /\ generatedBy'[x] = generatedBy[x] /\ createdAt'[x] = createdAt[x]
              /\ body'[x] = body[x] /\ UsedFor(x)' = UsedFor(x)
  <2>1. x \in Entities \ {e} /\ generatedBy[x] \in Activities \ {a}
    BY <1>1, <1>2 DEF Existing, RowsOK
  <2>. QED
    BY <1>3, <1>5, <1>6, <1>8, <2>1 DEF UsedFor
<1>11. createdAt'[e] > revision /\ revision <= revision'
  BY <1>3, <1>5
<1>12. RowsStand
  BY <1>7, <1>10, <1>11 DEF RowsStand
<1>. QED
  BY <1>1, <1>2, <1>3, <1>7, <1>9, <1>12 DEF Added

LEMMA ReadsChangeNoRow ==
    ASSUME NEW c \in Calls, Reads(c)
    PROVE  UNCHANGED <<provVars, catalog>>
  BY DEF Reads, Ask, StartWalk, StartFreeze, StartProject, Start, RunQuery, Page, Resolved, Return,
         Resolve

LEMMA RowsStandStep ==
    ASSUME TypeOK, RowsOK, CallsOK, [Next]_vars
    PROVE  RowsStand
<1>1. /\ generatedBy \in [Entities -> Activities \cup {NoActivity}]
      /\ inputs \in [Activities -> SUBSET Entities]
      /\ createdAt \in [Entities -> 0..revision] /\ revision \in Nat
      /\ DOMAIN body = Entities
  BY DEF TypeOK
<1>2. ASSUME UNCHANGED <<inputs, generatedBy, catalog>> PROVE RowsStand
  BY <1>1, <1>2 DEF catalog, RowsStand, Existing, UsedFor
<1>3. CASE BeginActivity
  BY <1>2, <1>3 DEF BeginActivity, Begin
<1>4. ASSUME NEW a \in Activities, NEW e \in Entities, Use(a, e) PROVE RowsStand
  <2>1. /\ inputs' = [inputs EXCEPT ![a] = @ \cup {e}] /\ Outputs(a) = {}
        /\ UNCHANGED <<generatedBy, catalog>>
    BY <1>4 DEF Use, Declare
  <2>2. Existing' = Existing /\ revision' = revision /\ UNCHANGED <<createdAt, body>>
    BY <2>1 DEF Existing, catalog
  <2>3. ASSUME NEW x \in Existing PROVE UsedFor(x)' = UsedFor(x)
    <3>1. generatedBy[x] \in Activities \ {a}
      BY <2>1 DEF RowsOK, Outputs, Existing
    <3>. QED
      BY <1>1, <2>1, <3>1 DEF UsedFor
  <2>. QED
    BY <1>1, <2>1, <2>2, <2>3 DEF RowsStand
<1>5. ASSUME NEW a \in Activities, NEW e \in Entities, Emit(a, e) PROVE RowsStand
  <2>1. /\ e \notin Existing /\ generatedBy' = [generatedBy EXCEPT ![e] = a]
        /\ revision' = revision + 1 /\ createdAt' = [createdAt EXCEPT ![e] = revision + 1]
        /\ UNCHANGED <<inputs, body>>
    BY <1>5 DEF Emit, Generate, Created
  <2>2. Existing' = Existing \cup {e}
    BY <1>1, <2>1, ReviewAssumption DEF Existing
  <2>. QED
    BY <1>1, <2>1, <2>2 DEF RowsStand, UsedFor, Existing
<1>6. ASSUME NEW e \in Entities, NEW row, NEW used, WritesFinding(e, row, used) PROVE RowsStand
  <2>1. used \in SUBSET Entities /\ Recorded(e, used, row)
    BY <1>6, ReviewAssumption DEF WritesFinding, RevisionsIn, Existing
  <2>. QED
    BY <2>1, RecordedRows DEF Added
<1>7. ASSUME NEW c \in Calls, NEW e \in Entities, Freeze(c, e) PROVE RowsStand
  <2>1. found[c] \in SUBSET Entities
    BY DEF TypeOK
  <2>. QED
    BY <1>7, <2>1, RecordedRows DEF Freeze, Added
<1>8. ASSUME NEW c \in Calls, NEW e \in Entities, CreateProjection(c, e) PROVE RowsStand
  <2>1. {request[c].selection} \in SUBSET Entities
    BY <1>8 DEF CreateProjection, CallsOK, CallOK, Existing
  <2>. QED
    BY <1>8, <2>1, RecordedRows DEF CreateProjection, Added
<1>9. ASSUME NEW c \in Calls, Reads(c) PROVE RowsStand
  BY <1>2, <1>9, ReadsChangeNoRow DEF provVars
<1>10. CASE UNCHANGED vars
  BY <1>2, <1>10 DEF vars, provVars
<1>. QED
  BY <1>3, <1>4, <1>5, <1>6, <1>7, <1>8, <1>9, <1>10, StepCases
----------------------------------------------------------------------------
\* Types.

LEMMA RowTypes ==
    ASSUME TypeOK, NEW x \in Existing
    PROVE  /\ KindOf[x] = "finding_revision" => body[x] \in Revisions
           /\ KindOf[x] = "selection" => body[x] \in Selections
           /\ KindOf[x] = "projection" => body[x] \in Projections
           /\ KindOf[x] \in {"artifact", "object"} => body[x] = NoBody
  BY ReviewAssumption DEF TypeOK, Bodies, Existing

\* Of the rows.
CatalogTypes ==
    /\ state \in [Activities -> {"none", "running"} \cup Outcomes]
    /\ inputs \in [Activities -> SUBSET Entities]
    /\ generatedBy \in [Entities -> Activities \cup {NoActivity}]
    /\ revision \in Nat \ {0}
    /\ createdAt \in [Entities -> 0..revision]
    /\ DOMAIN body = Entities
    /\ \A e \in Entities :
           /\ e \in Existing <=> createdAt[e] > 0
           /\ IF e \in Existing THEN body[e] \in Bodies(KindOf[e]) ELSE body[e] = NoBody
    /\ current \in [Findings -> FindingRevisions \cup {NoEntity}]

LEMMA RecordedType ==
    ASSUME TypeOK, RowsOK, NEW e \in Entities, NEW used \in SUBSET Entities, NEW row,
           Added(e, used, row), row \in Bodies(KindOf[e]),
           current' \in [Findings -> FindingRevisions \cup {NoEntity}]
    PROVE  CatalogTypes' /\ revision \in Nat /\ revision' \in Nat /\ revision <= revision'
<1>1. /\ Existing' = Existing \cup {e}
      /\ revision' = revision + 1 /\ createdAt' = [createdAt EXCEPT ![e] = revision + 1]
      /\ body' = [body EXCEPT ![e] = row]
  BY DEF Added
<1>2. \E a \in Activities : /\ state' = [state EXCEPT ![a] = "succeeded"]
                            /\ inputs' = [inputs EXCEPT ![a] = used]
                            /\ generatedBy' = [generatedBy EXCEPT ![e] = a]
  BY DEF Added
<1>3. /\ state \in [Activities -> {"none", "running"} \cup Outcomes]
      /\ inputs \in [Activities -> SUBSET Entities]
      /\ generatedBy \in [Entities -> Activities \cup {NoActivity}]
      /\ revision \in Nat \ {0} /\ createdAt \in [Entities -> 0..revision]
      /\ DOMAIN body = Entities
      /\ \A x \in Entities :
            /\ x \in Existing <=> createdAt[x] > 0
            /\ IF x \in Existing THEN body[x] \in Bodies(KindOf[x]) ELSE body[x] = NoBody
  BY DEF TypeOK
<1>4. /\ state' \in [Activities -> {"none", "running"} \cup Outcomes]
      /\ inputs' \in [Activities -> SUBSET Entities]
      /\ generatedBy' \in [Entities -> Activities \cup {NoActivity}]
  BY <1>2, <1>3, ReviewAssumption
<1>5. /\ revision' \in Nat \ {0} /\ 0..revision \subseteq 0..revision'
      /\ revision + 1 \in 0..revision' /\ revision + 1 > 0
  BY <1>1, <1>3
<1>6. createdAt' \in [Entities -> 0..revision']
  BY <1>1, <1>3, <1>5
<1>7. ASSUME NEW x \in Entities
      PROVE  /\ x \in Existing' <=> createdAt'[x] > 0
             /\ IF x \in Existing' THEN body'[x] \in Bodies(KindOf[x]) ELSE body'[x] = NoBody
  BY <1>1, <1>3, <1>5
<1>. QED
  BY <1>1, <1>3, <1>4, <1>5, <1>6, <1>7 DEF CatalogTypes

\* Of the calls.
CallTypes ==
    /\ pc \in [Calls -> {"idle", "listed"} \cup InFlight]
    /\ DOMAIN request = Calls
    /\ \A c \in Calls : request[c] \in IF pc[c] = "idle" THEN {NoRequest} ELSE Requests
    /\ found \in [Calls -> SUBSET Entities] /\ queue \in [Calls -> SUBSET Entities]
    /\ at \in [Calls -> Nat] /\ after \in [Calls -> Entities \cup {0}]
    /\ \A c \in Calls : at[c] <= revision

LEMMA TypeParts ==
    ASSUME TypeOK
    PROVE  CatalogTypes /\ CallTypes
  BY DEF TypeOK, CatalogTypes, CallTypes

LEMMA TypeFromParts ==
    ASSUME CatalogTypes', CallTypes'
    PROVE  TypeOK'
<1>1. revision' \in Nat /\ at' \in [Calls -> Nat] /\ \A c \in Calls : at'[c] <= revision'
  BY DEF CatalogTypes, CallTypes
<1>2. at' \in [Calls -> 0..revision']
  BY <1>1
<1>. QED
  BY <1>2 DEF TypeOK, CatalogTypes, CallTypes

LEMMA RequestTypes ==
    ASSUME CallTypes, NEW c \in Calls, pc[c] # "idle"
    PROVE  /\ request[c].op \in {"freeze", "walk"} => request[c].query \in Queries
           /\ request[c].op = "project" =>
                  request[c].selection \in FrozenSelections /\ request[c].policy \in Policies
  BY DEF CallTypes, Requests

LEMMA AskedTypes ==
    ASSUME CallTypes, NEW c \in Calls, NEW req, NEW step, NEW members \in SUBSET Entities,
           NEW frontier \in SUBSET Entities, Asked(c, req, step, members, frontier),
           revision <= revision', revision \in Nat, revision' \in Nat,
           step \in {"idle", "listed"} \cup InFlight,
           req \in IF step = "idle" THEN {NoRequest} ELSE Requests
    PROVE  CallTypes'
  BY DEF Asked, CallTypes

\* The next page of a walk: a beginning of what is left, or all of it.
Paged(c, q, r, rest, page) ==
    /\ rest = {e \in Answer(q, r) : e > after[c]}
    /\ page \subseteq rest
    /\ at' = [at EXCEPT ![c] = r] /\ found' = [found EXCEPT ![c] = @ \cup page]
    /\ \/ \E m \in page : /\ page = {e \in rest : e <= m}
                         /\ after' = [after EXCEPT ![c] = m] /\ pc' = [pc EXCEPT ![c] = "paging"]
       \/ /\ page = rest
          /\ after' = [after EXCEPT ![c] = 0] /\ pc' = [pc EXCEPT ![c] = "listed"]

LEMMA ContributedExist ==
    ASSUME TypeOK, RowsOK, NEW x \in Existing, NEW policy
    PROVE  Contributed(policy, x) \subseteq Existing
<1>1. generatedBy[x] \in Activities /\ inputs[generatedBy[x]] \subseteq Existing
  BY DEF RowsOK
<1>2. KindOf[x] = "finding_revision" => body[x].members \subseteq Existing
  BY DEF RowsOK
<1>. QED
  BY <1>1, <1>2 DEF Contributed, UsedFor

LEMMA PageStep ==
    ASSUME TypeOK, NEW c \in Calls, Page(c), NEW q, q = request[c].query, NEW r,
           r = IF at[c] = 0 THEN revision ELSE at[c]
    PROVE  \E rest, page \in SUBSET Existing : Paged(c, q, r, rest, page)
<1>. DEFINE rest == {e \in Answer(q, r) : e > after[c]}
            page == {e \in rest : Cardinality(Before(rest, e)) < PageLimit}
<1>1. rest \subseteq Existing
  BY DEF Answer, Candidates, CreatedBy
<1>2. rest \subseteq Nat /\ IsFiniteSet(rest)
  <2>1. rest \in SUBSET Entities
    BY <1>1 DEF Existing
  <2>. QED
    BY <2>1, FS_Subset, ReviewAssumption
<1>3. /\ at' = [at EXCEPT ![c] = r] /\ found' = [found EXCEPT ![c] = @ \cup page]
      /\ after' = [after EXCEPT ![c] = IF Cardinality(page) = PageLimit
                       THEN CHOOSE e \in page : \A x \in page : x <= e ELSE 0]
      /\ pc' = [pc EXCEPT ![c] = IF Cardinality(page) = PageLimit THEN "paging" ELSE "listed"]
  BY DEF Page, Before
<1>. HIDE DEF rest
<1>4. PageLimit \in Nat \ {0}
  BY ReviewAssumption
<1>5. page \subseteq rest /\ \A e \in rest : e \in page <=> Cardinality(Before(rest, e)) < PageLimit
  OBVIOUS
<1>. HIDE DEF page
<1>6. /\ Cardinality(page) # PageLimit => page = rest
      /\ Cardinality(page) = PageLimit => page # {}
      /\ \A m \in page, e \in rest : e <= m => e \in page
  BY <1>2, <1>4, <1>5, PageOf
<1>8. ASSUME NEW m \in page, \A x \in page : x <= m
      PROVE  m = CHOOSE e \in page : \A x \in page : x <= e
  <2>1. page \subseteq Nat
    BY <1>2, <1>5
  <2>. DEFINE g == CHOOSE e \in page : \A x \in page : x <= e
  <2>2. g \in page /\ \A x \in page : x <= g
    BY <1>8
  <2>. HIDE DEF g
  <2>3. g <= m /\ m <= g /\ g \in Nat /\ m \in Nat
    BY <1>8, <2>1, <2>2
  <2>. QED
    BY <2>3 DEF g
<1>7. Paged(c, q, r, rest, page)
  <2>1. CASE Cardinality(page) # PageLimit
    BY <1>3, <1>5, <1>6, <2>1 DEF Paged, rest
  <2>2. CASE Cardinality(page) = PageLimit
    <3>0. page \subseteq Nat /\ IsFiniteSet(page)
      BY <1>2, <1>5, FS_Subset
    <3>1. PICK m \in page : \A x \in page : x <= m
      BY <1>6, <2>2, <3>0, Greatest
    <3>2. after' = [after EXCEPT ![c] = m] /\ pc' = [pc EXCEPT ![c] = "paging"]
      BY <1>3, <1>8, <2>2, <3>1
    <3>3. page = {e \in rest : e <= m}
      BY <1>5, <1>6, <3>1
    <3>. QED
      BY <1>3, <1>5, <3>2, <3>3 DEF Paged, rest
  <2>. QED
    BY <2>1, <2>2
<1>. QED
  BY <1>1, <1>5, <1>7

LEMMA TypeStep ==
    ASSUME TypeOK, RowsOK, CallsOK, [Next]_vars
    PROVE  TypeOK'
<1>1. /\ state \in [Activities -> {"none", "running"} \cup Outcomes]
      /\ inputs \in [Activities -> SUBSET Entities]
      /\ generatedBy \in [Entities -> Activities \cup {NoActivity}]
      /\ revision \in Nat \ {0}
      /\ createdAt \in [Entities -> 0..revision]
      /\ DOMAIN body = Entities
      /\ current \in [Findings -> FindingRevisions \cup {NoEntity}]
      /\ CallTypes
  BY TypeParts DEF CatalogTypes
<1>2. \A e \in Entities :
         /\ e \in Existing <=> createdAt[e] > 0
         /\ IF e \in Existing THEN body[e] \in Bodies(KindOf[e]) ELSE body[e] = NoBody
  BY TypeParts DEF CatalogTypes
<1>3. ASSUME UNCHANGED <<generatedBy, catalog, calls>>,
             state' \in [Activities -> {"none", "running"} \cup Outcomes],
             inputs' \in [Activities -> SUBSET Entities]
      PROVE  TypeOK'
  BY <1>3 DEF TypeOK, catalog, calls, work, Existing
<1>4. CASE BeginActivity
  <2>1. Drawn \in Activities /\ state' = [state EXCEPT ![Drawn] = "running"]
    BY <1>4, DrawnIsUnused DEF BeginActivity, Begin
  <2>2. state' \in [Activities -> {"none", "running"} \cup Outcomes]
    BY <1>1, <2>1
  <2>. QED
    BY <1>1, <1>3, <1>4, <2>2 DEF BeginActivity, Begin
<1>5. ASSUME NEW a \in Activities, NEW e \in Entities, Use(a, e) PROVE TypeOK'
  <2>1. inputs' \in [Activities -> SUBSET Entities]
    BY <1>1, <1>5 DEF Use, Declare
  <2>. QED
    BY <1>1, <1>3, <1>5, <2>1 DEF Use, Declare
<1>6. ASSUME NEW a \in Activities, NEW e \in Entities, Emit(a, e) PROVE TypeOK'
  <2>1. /\ e \notin Existing /\ generatedBy' = [generatedBy EXCEPT ![e] = a]
        /\ revision' = revision + 1 /\ createdAt' = [createdAt EXCEPT ![e] = revision + 1]
        /\ UNCHANGED <<state, inputs, body, current, calls>> /\ KindOf[e] \in {"object", "artifact"}
    BY <1>6 DEF Emit, Generate, Created, Facts, Objects, OfKind
  <2>2. Existing' = Existing \cup {e}
    BY <1>1, <2>1, ReviewAssumption DEF Existing
  <2>3. revision' \in Nat \ {0} /\ 0..revision \subseteq 0..revision' /\ revision + 1 \in 0..revision'
    BY <1>1, <2>1
  <2>4. createdAt' \in [Entities -> 0..revision']
    BY <1>1, <2>1, <2>3
  <2>5. \A x \in Entities :
           /\ x \in Existing' <=> createdAt'[x] > 0
           /\ IF x \in Existing' THEN body'[x] \in Bodies(KindOf[x]) ELSE body'[x] = NoBody
    <3>1. body'[e] \in Bodies(KindOf[e])
      BY <1>2, <2>1 DEF Bodies
    <3>2. createdAt'[e] > 0
      BY <1>1, <2>1
    <3>. QED
      BY <1>1, <1>2, <2>1, <2>2, <3>1, <3>2
  <2>6. generatedBy' \in [Entities -> Activities \cup {NoActivity}]
    BY <1>1, <2>1
  <2>7. CallTypes'
    BY <1>1, <2>1 DEF CallTypes, calls, work
  <2>. QED
    BY <1>1, <2>1, <2>3, <2>4, <2>5, <2>6, <2>7, TypeFromParts DEF CatalogTypes
<1>7. ASSUME NEW e \in Entities, NEW row, NEW used, WritesFinding(e, row, used) PROVE TypeOK'
  <2>1. PICK f \in Findings, members \in MemberSets :
           /\ e \in FindingRevisions /\ used \subseteq members \cup RevisionsIn(Existing, f)
           /\ Recorded(e, used, row)
           /\ current' = [current EXCEPT ![f] = e] /\ UNCHANGED calls
           /\ \/ row = [finding |-> f, version |-> 1, members |-> members,
                        predecessor |-> NoEntity, expected |-> NoEntity]
              \/ \E expected \in RevisionsIn(Existing, f) :
                    row = [finding |-> f, version |-> body[expected].version + 1, members |-> members,
                           predecessor |-> expected, expected |-> expected]
    BY <1>7, ZenonT(40) DEF WritesFinding
  <2>0. used \in SUBSET Entities
    BY <2>1, ReviewAssumption DEF RevisionsIn, Existing
  <2>2. row \in Revisions
    <3>1. CASE row = [finding |-> f, version |-> 1, members |-> members,
                      predecessor |-> NoEntity, expected |-> NoEntity]
      BY <3>1 DEF Revisions
    <3>2. ASSUME NEW expected \in RevisionsIn(Existing, f),
                 row = [finding |-> f, version |-> body[expected].version + 1, members |-> members,
                        predecessor |-> expected, expected |-> expected]
          PROVE  row \in Revisions
      <4>1. expected \in FindingRevisions /\ body[expected] \in Revisions
        BY RowTypes DEF RevisionsIn, FindingRevisions, OfKind
      <4>2. body[expected].version + 1 \in Nat
        BY <4>1 DEF Revisions
      <4>. QED
        BY <3>2, <4>1, <4>2 DEF Revisions
    <3>. QED
      BY <2>1, <3>1, <3>2
  <2>3. row \in Bodies(KindOf[e])
    BY <2>1, <2>2 DEF Bodies, FindingRevisions, OfKind
  <2>4. Added(e, used, row)
    BY <2>0, <2>1, RecordedRows
  <2>5. current' \in [Findings -> FindingRevisions \cup {NoEntity}]
    BY <1>1, <2>1
  <2>6. CatalogTypes' /\ revision \in Nat /\ revision' \in Nat /\ revision <= revision'
    BY <2>0, <2>3, <2>4, <2>5, RecordedType
  <2>7. CallTypes'
    BY <1>1, <2>1, <2>6 DEF CallTypes, calls, work
  <2>. QED
    BY <2>6, <2>7, TypeFromParts
<1>8. ASSUME NEW c \in Calls, NEW e \in Entities, Freeze(c, e) \/ CreateProjection(c, e) PROVE TypeOK'
  <2>1. Done(c) /\ UNCHANGED current
    BY <1>8 DEF Freeze, CreateProjection
  <2>2. PICK used \in SUBSET Entities : \E row : Recorded(e, used, row) /\ row \in Bodies(KindOf[e])
    <3>1. CASE Freeze(c, e)
      <4>1. request[c].query \in Queries
        BY <1>1, <3>1, RequestTypes DEF Freeze
      <4>2. at[c] \in Nat /\ found[c] \in SUBSET Entities
        BY <1>1 DEF CallTypes
      <4>. DEFINE row == [query |-> request[c].query, revision |-> at[c], members |-> found[c]]
      <4>3. row \in Selections
        BY <4>1, <4>2 DEF Selections
      <4>4. KindOf[e] = "selection" /\ Recorded(e, found[c], row)
        BY <3>1 DEF Freeze, Observed, FrozenSelections, OfKind
      <4>5. row \in Bodies(KindOf[e])
        BY <4>3, <4>4 DEF Bodies
      <4>. HIDE DEF row
      <4>. QED
        BY <4>2, <4>4, <4>5
    <3>2. CASE CreateProjection(c, e)
      <4>1. request[c].selection \in FrozenSelections /\ request[c].policy \in Policies
        BY <1>1, <3>2, RequestTypes DEF CreateProjection
      <4>2. found[c] \in SUBSET Entities /\ {request[c].selection} \in SUBSET Entities
        BY <1>1, <4>1 DEF CallTypes, FrozenSelections, OfKind
      <4>. DEFINE row == [selection |-> request[c].selection, policy |-> request[c].policy,
                         members |-> found[c]]
      <4>3. row \in Projections
        BY <4>1, <4>2 DEF Projections
      <4>4. KindOf[e] = "projection" /\ Recorded(e, {request[c].selection}, row)
        BY <3>2 DEF CreateProjection, RecordedProjections, OfKind
      <4>5. row \in Bodies(KindOf[e])
        BY <4>3, <4>4 DEF Bodies
      <4>. HIDE DEF row
      <4>. QED
        BY <4>2, <4>4, <4>5
    <3>. QED
      BY <1>8, <3>1, <3>2
  <2>3. PICK row : Added(e, used, row) /\ row \in Bodies(KindOf[e])
    BY <2>2, RecordedRows
  <2>4. CatalogTypes' /\ revision \in Nat /\ revision' \in Nat /\ revision <= revision'
    BY <1>1, <2>1, <2>2, <2>3, RecordedType
  <2>5. CallTypes'
    BY <1>1, <2>1, <2>4, AskedTypes DEF Done
  <2>. QED
    BY <2>4, <2>5, TypeFromParts
<1>9. ASSUME NEW c \in Calls, Reads(c) PROVE TypeOK'
  <2>1. UNCHANGED <<provVars, catalog>>
    BY <1>9, ReadsChangeNoRow
  <2>2. CatalogTypes' /\ revision' = revision
    BY <2>1, TypeParts DEF CatalogTypes, provVars, catalog, Existing
  <2>3. revision \in Nat /\ revision' \in Nat /\ revision <= revision'
    BY <1>1, <2>2
  <2>4. CASE Ask(c)
    <3>1. \A q \in Queries : /\ [op |-> "walk", query |-> q] \in Requests
                            /\ [op |-> "freeze", query |-> q] \in Requests
      BY DEF Requests
    <3>2. ASSUME NEW q \in Queries, StartWalk(c, q) PROVE CallTypes'
      <4>1. {} \in SUBSET Entities /\ "paging" \in {"idle", "listed"} \cup InFlight
        BY DEF InFlight
      <4>2. Asked(c, [op |-> "walk", query |-> q], "paging", {}, {})
        BY <3>2 DEF StartWalk, Start
      <4>. QED
        BY <1>1, <2>3, <3>1, <4>1, <4>2, AskedTypes
    <3>3. ASSUME NEW q \in Queries, StartFreeze(c, q) PROVE CallTypes'
      <4>1. {} \in SUBSET Entities /\ "reading" \in {"idle", "listed"} \cup InFlight
        BY DEF InFlight
      <4>2. Asked(c, [op |-> "freeze", query |-> q], "reading", {}, {})
        BY <3>3 DEF StartFreeze, Start
      <4>. QED
        BY <1>1, <2>3, <3>1, <4>1, <4>2, AskedTypes
    <3>4. ASSUME NEW s \in FrozenSelections, NEW policy \in Policies, StartProject(c, s, policy)
          PROVE  CallTypes'
      <4>1. body[s].members \in SUBSET Entities
        BY <3>4, RowTypes DEF StartProject, FrozenSelections, OfKind, Selections
      <4>2. [op |-> "project", selection |-> s, policy |-> policy] \in Requests
        BY DEF Requests
      <4>. QED
        BY <1>1, <2>3, <3>4, <4>1, <4>2, AskedTypes DEF StartProject, Start, InFlight
    <3>. QED
      BY <2>2, <2>4, <3>2, <3>3, <3>4, TypeFromParts DEF Ask
  <2>5. CASE RunQuery(c)
    <3>1. Answer(request[c].query, revision) \in SUBSET Entities
      BY DEF Answer, Candidates, CreatedBy, Existing
    <3>2. CallTypes'
      BY <1>1, <2>2, <2>3, <2>5, <3>1 DEF RunQuery, CallTypes, InFlight
    <3>. QED
      BY <2>2, <3>2, TypeFromParts
  <2>6. CASE Page(c)
    <3>. DEFINE q == request[c].query
                r == IF at[c] = 0 THEN revision ELSE at[c]
    <3>1. PICK rest \in SUBSET Existing, page \in SUBSET Existing : Paged(c, q, r, rest, page)
      BY <2>6, PageStep
    <3>2. r \in Nat /\ r <= revision
      BY <1>1 DEF CallTypes
    <3>. HIDE DEF q, r
    <3>3. pc[c] = "paging" /\ request' = request /\ queue' = queue
      BY <2>6 DEF Page
    <3>4. page \in SUBSET Entities
      BY DEF Existing
    <3>5. /\ at' \in [Calls -> Nat] /\ \A d \in Calls : at'[d] <= revision'
          /\ found' \in [Calls -> SUBSET Entities] /\ queue' \in [Calls -> SUBSET Entities]
      BY <1>1, <2>2, <3>1, <3>2, <3>3, <3>4 DEF Paged, CallTypes
    <3>6. /\ after' \in [Calls -> Entities \cup {0}]
          /\ pc' \in [Calls -> {"idle", "listed"} \cup InFlight]
          /\ \A d \in Calls : request'[d] \in IF pc'[d] = "idle" THEN {NoRequest} ELSE Requests
      BY <1>1, <3>1, <3>3, <3>4 DEF Paged, CallTypes, InFlight
    <3>7. CallTypes'
      BY <1>1, <3>3, <3>5, <3>6 DEF CallTypes
    <3>. QED
      BY <2>2, <3>7, TypeFromParts
  <2>7. CASE Resolved(c)
    <3>1. CallTypes'
      BY <1>1, <2>2, <2>3, <2>7 DEF Resolved, CallTypes, InFlight, work
    <3>. QED
      BY <2>2, <3>1, TypeFromParts
  <2>8. CASE Return(c)
    <3>1. CallTypes'
      BY <1>1, <2>3, <2>8, AskedTypes DEF Return, Done
    <3>. QED
      BY <2>2, <3>1, TypeFromParts
  <2>9. ASSUME NEW e \in Entities, Resolve(c, e) PROVE TypeOK'
    <3>1. Contributed(request[c].policy, e) \in SUBSET Entities
      BY <2>9, ContributedExist DEF Resolve, CallsOK, CallOK, Existing
    <3>2. CallTypes'
      BY <1>1, <2>2, <2>3, <2>9, <3>1 DEF Resolve, CallTypes, Queued
    <3>. QED
      BY <2>2, <3>2, TypeFromParts
  <2>. QED
    BY <1>9, <2>4, <2>5, <2>6, <2>7, <2>8, <2>9 DEF Reads
<1>10. CASE UNCHANGED vars
  BY <1>3, <1>10, TypeParts DEF vars, provVars, CatalogTypes
<1>. QED
  BY <1>4, <1>5, <1>6, <1>7, <1>8, <1>9, <1>10, StepCases
----------------------------------------------------------------------------
\* Rows and calls.

\* What RowsOK says of the row of e.
RowOK(e) ==
    /\ \A i \in UsedFor(e) : createdAt[i] <= createdAt[e]
    /\ KindOf[e] \in {"finding_revision", "selection", "projection"} => body[e].members \subseteq Existing
    /\ KindOf[e] = "projection" => body[e].selection \in Existing

LEMMA OldRows ==
    ASSUME TypeOK, RowsOK, RowsStand
    PROVE  \A e \in Existing : RowOK(e)'
<1> SUFFICES ASSUME NEW e \in Existing PROVE RowOK(e)'
  OBVIOUS
<1>1. RowOK(e) /\ UsedFor(e) \subseteq Existing
  BY DEF RowsOK, RowOK, UsedFor
<1>2. /\ Existing \subseteq Existing' /\ body'[e] = body[e] /\ UsedFor(e)' = UsedFor(e)
      /\ \A x \in Existing : createdAt'[x] = createdAt[x]
  BY DEF RowsStand
<1>. QED
  BY <1>1, <1>2 DEF RowOK

LEMMA RowsStep ==
    ASSUME TypeOK, RowsOK, CallsOK, [Next]_vars
    PROVE  RowsOK'
<1>1. /\ state \in [Activities -> {"none", "running"} \cup Outcomes]
      /\ inputs \in [Activities -> SUBSET Entities]
      /\ generatedBy \in [Entities -> Activities \cup {NoActivity}]
      /\ revision \in Nat \ {0}
      /\ createdAt \in [Entities -> 0..revision]
      /\ DOMAIN body = Entities
  BY DEF TypeOK
<1>2. RowsStand /\ Existing \subseteq Existing' /\ \A e \in Existing : RowOK(e)'
  BY RowsStandStep, OldRows DEF RowsStand
<1>3. /\ \A a \in Activities : inputs[a] \subseteq Existing
      /\ \A e \in Existing : generatedBy[e] \in Activities /\ state[generatedBy[e]] # "none"
  BY DEF RowsOK
<1>4. ASSUME \A a \in Activities : inputs'[a] \subseteq Existing',
             \A e \in Existing' : generatedBy'[e] \in Activities /\ state'[generatedBy'[e]] # "none",
             \A e \in Existing' \ Existing : RowOK(e)'
      PROVE  RowsOK'
  <2>1. \A e \in Existing' : RowOK(e)'
    BY <1>2, <1>4
  <2>. QED
    BY <1>4, <2>1 DEF RowsOK, RowOK
<1>5. ASSUME UNCHANGED <<state, inputs, generatedBy>> PROVE RowsOK'
  <2>1. Existing' = Existing
    BY <1>5 DEF Existing
  <2>. QED
    BY <1>3, <1>4, <1>5, <2>1
<1>6. CASE BeginActivity
  <2>1. Drawn \in Activities /\ state' = [state EXCEPT ![Drawn] = "running"] /\ UNCHANGED <<inputs, generatedBy>>
    BY <1>6, DrawnIsUnused DEF BeginActivity, Begin
  <2>2. Existing' = Existing
    BY <2>1 DEF Existing
  <2>. QED
    BY <1>1, <1>3, <1>4, <2>1, <2>2
<1>7. ASSUME NEW a \in Activities, NEW e \in Entities, Use(a, e) PROVE RowsOK'
  <2>1. /\ inputs' = [inputs EXCEPT ![a] = @ \cup {e}] /\ e \in Existing
        /\ UNCHANGED <<state, generatedBy>>
    BY <1>7 DEF Use, Declare
  <2>2. Existing' = Existing
    BY <2>1 DEF Existing
  <2>. QED
    BY <1>1, <1>3, <1>4, <2>1, <2>2
<1>8. ASSUME NEW a \in Activities, NEW e \in Entities, Emit(a, e) PROVE RowsOK'
  <2>1. /\ e \notin Existing /\ generatedBy' = [generatedBy EXCEPT ![e] = a] /\ state[a] = "running"
        /\ createdAt' = [createdAt EXCEPT ![e] = revision + 1]
        /\ UNCHANGED <<state, inputs>> /\ KindOf[e] \in {"object", "artifact"}
    BY <1>8 DEF Emit, Generate, Created, Facts, Objects, OfKind
  <2>2. Existing' = Existing \cup {e}
    BY <1>1, <2>1, ReviewAssumption DEF Existing
  <2>3. RowOK(e)'
    <3>1. UsedFor(e)' = inputs[a] /\ inputs[a] \subseteq Existing
      BY <1>1, <1>3, <2>1 DEF UsedFor
    <3>2. ASSUME NEW i \in UsedFor(e)' PROVE createdAt'[i] <= createdAt'[e]
      <4>1. i \in Entities \ {e} /\ createdAt[i] \in 0..revision
        BY <1>1, <2>1, <3>1 DEF Existing
      <4>. QED
        BY <1>1, <2>1, <4>1
    <3>. QED
      BY <2>1, <3>2 DEF RowOK
  <2>. QED
    BY <1>1, <1>3, <1>4, <2>1, <2>2, <2>3
<1>9. ASSUME NEW e \in Entities, NEW row, NEW used, Added(e, used, row),
             KindOf[e] \in {"finding_revision", "selection", "projection"} => row.members \subseteq Existing,
             KindOf[e] = "projection" => row.selection \in Existing
      PROVE  RowsOK'
  <2>1. PICK a \in Activities : /\ state' = [state EXCEPT ![a] = "succeeded"]
                               /\ inputs' = [inputs EXCEPT ![a] = used]
                               /\ generatedBy' = [generatedBy EXCEPT ![e] = a]
    BY <1>9 DEF Added
  <2>2. /\ Existing' = Existing \cup {e} /\ e \notin Existing /\ used \subseteq Existing
        /\ UsedFor(e)' = used
        /\ createdAt' = [createdAt EXCEPT ![e] = revision + 1] /\ body'[e] = row
    BY <1>1, <1>9 DEF Added
  <2>3. ASSUME NEW i \in UsedFor(e)' PROVE createdAt'[i] <= createdAt'[e]
    <3>1. i \in Entities \ {e} /\ createdAt[i] \in 0..revision
      BY <1>1, <2>2 DEF Existing
    <3>. QED
      BY <1>1, <2>2, <3>1
  <2>4. RowOK(e)'
    BY <1>9, <2>2, <2>3 DEF RowOK
  <2>5. \A b \in Activities : inputs'[b] \subseteq Existing'
    BY <1>1, <1>3, <2>1, <2>2
  <2>6. ASSUME NEW x \in Existing' PROVE generatedBy'[x] \in Activities /\ state'[generatedBy'[x]] # "none"
    <3>1. CASE x = e
      BY <1>1, <2>1, <3>1
    <3>2. CASE x # e
      <4>1. x \in Entities /\ x \in Existing /\ generatedBy'[x] = generatedBy[x]
        BY <1>1, <2>1, <2>2, <3>2 DEF Existing
      <4>. QED
        BY <1>1, <1>3, <2>1, <4>1
    <3>. QED
      BY <3>1, <3>2
  <2>. QED
    BY <1>4, <2>2, <2>4, <2>5, <2>6
<1>10. ASSUME NEW e \in Entities, NEW row, NEW used, WritesFinding(e, row, used) PROVE RowsOK'
  <2>1. used \in SUBSET Entities /\ Recorded(e, used, row)
    BY <1>10, ReviewAssumption DEF WritesFinding, RevisionsIn, Existing
  <2>2. Added(e, used, row)
    BY <2>1, RecordedRows
  <2>3. row.members \subseteq Existing /\ KindOf[e] = "finding_revision"
    BY <1>10 DEF WritesFinding, FindingRevisions, OfKind
  <2>. QED
    BY <1>9, <2>2, <2>3
<1>11. ASSUME NEW c \in Calls, NEW e \in Entities, Freeze(c, e) PROVE RowsOK'
  <2>. DEFINE row == [query |-> request[c].query, revision |-> Observed(c), members |-> found[c]]
  <2>1. found[c] \in SUBSET Entities /\ found[c] \subseteq Existing
    BY DEF CallsOK, CallOK, Existing
  <2>2. Recorded(e, found[c], row) /\ KindOf[e] = "selection"
    BY <1>11 DEF Freeze, FrozenSelections, OfKind
  <2>3. Added(e, found[c], row)
    BY <2>1, <2>2, RecordedRows
  <2>4. row.members \subseteq Existing
    BY <2>1
  <2>. QED
    BY <1>9, <2>2, <2>3, <2>4
<1>12. ASSUME NEW c \in Calls, NEW e \in Entities, CreateProjection(c, e) PROVE RowsOK'
  <2>. DEFINE row == [selection |-> request[c].selection, policy |-> request[c].policy, members |-> found[c]]
  <2>1. found[c] \subseteq Existing /\ request[c].selection \in Existing
    BY <1>12 DEF CallsOK, CallOK, CreateProjection
  <2>2. Recorded(e, {request[c].selection}, row) /\ {request[c].selection} \in SUBSET Entities
    BY <1>12, <2>1 DEF CreateProjection, Existing
  <2>3. Added(e, {request[c].selection}, row)
    BY <2>2, RecordedRows
  <2>4. row.members \subseteq Existing /\ row.selection \in Existing
    BY <2>1
  <2>. QED
    BY <1>9, <2>3, <2>4
<1>13. ASSUME NEW c \in Calls, Reads(c) PROVE RowsOK'
  BY <1>5, <1>13, ReadsChangeNoRow DEF provVars
<1>14. CASE UNCHANGED vars
  BY <1>5, <1>14 DEF vars, provVars
<1>. QED
  BY <1>6, <1>7, <1>8, <1>10, <1>11, <1>12, <1>13, <1>14, StepCases

\* Where a call goes on elsewhere, the one that it leaves is done.
Same(d) ==
    /\ pc'[d] = pc[d] /\ request'[d] = request[d] /\ found'[d] = found[d] /\ queue'[d] = queue[d]
    /\ at'[d] = at[d] /\ after'[d] = after[d]

LEMMA SameCalls ==
    ASSUME CallTypes
    PROVE  /\ UNCHANGED calls => \A d \in Calls : Same(d)
           /\ \A c \in Calls : \A req, step, members, frontier :
                  Asked(c, req, step, members, frontier) =>
                      /\ \A d \in Calls \ {c} : Same(d)
                      /\ pc'[c] = step /\ request'[c] = req /\ found'[c] = members
                      /\ queue'[c] = frontier /\ at'[c] = 0 /\ after'[c] = 0
  BY DEF calls, work, Asked, Same, CallTypes

LEMMA QueryStep ==
    ASSUME CallTypes, NEW c \in Calls, RunQuery(c)
    PROVE  /\ \A d \in Calls \ {c} : Same(d)
           /\ pc[c] = "reading" /\ pc'[c] = "recording" /\ request'[c] = request[c]
           /\ found'[c] = Answer(request[c].query, revision) /\ queue'[c] = queue[c]
           /\ at'[c] = revision
  BY DEF RunQuery, Same, CallTypes

LEMMA PagedStep ==
    ASSUME CallTypes, NEW c \in Calls, NEW q, NEW r, NEW rest, NEW page,
           Page(c), Paged(c, q, r, rest, page)
    PROVE  /\ \A d \in Calls \ {c} : Same(d)
           /\ pc[c] = "paging" /\ pc'[c] \in {"paging", "listed"} /\ request'[c] = request[c]
           /\ found'[c] = found[c] \cup page /\ queue'[c] = queue[c] /\ at'[c] = r
           /\ \/ /\ after'[c] \in page /\ page = {e \in rest : e <= after'[c]}
                 /\ pc'[c] = "paging"
              \/ page = rest /\ pc'[c] = "listed"
<1>1. pc[c] = "paging" /\ UNCHANGED <<request, queue>>
  BY DEF Page
<1>2. at' = [at EXCEPT ![c] = r] /\ found' = [found EXCEPT ![c] = @ \cup page]
  BY DEF Paged
<1>3. \/ \E m \in page : /\ page = {e \in rest : e <= m}
                       /\ after' = [after EXCEPT ![c] = m] /\ pc' = [pc EXCEPT ![c] = "paging"]
      \/ /\ page = rest
         /\ after' = [after EXCEPT ![c] = 0] /\ pc' = [pc EXCEPT ![c] = "listed"]
  BY DEF Paged
<1>. QED
  BY <1>1, <1>2, <1>3 DEF Same, CallTypes

LEMMA ResolveStep ==
    ASSUME CallTypes, NEW c \in Calls, NEW e, Resolve(c, e), NEW added,
           added = Contributed(request[c].policy, e) \ found[c]
    PROVE  /\ \A d \in Calls \ {c} : Same(d)
           /\ pc[c] = "closing" /\ pc'[c] = "closing" /\ request'[c] = request[c]
           /\ e \in queue[c] /\ found'[c] = found[c] \cup added
           /\ queue'[c] = (queue[c] \ {e}) \cup Queued(request[c].policy, added)
  BY DEF Resolve, Same, CallTypes

LEMMA ResolvedStep ==
    ASSUME CallTypes, NEW c \in Calls, Resolved(c)
    PROVE  /\ \A d \in Calls \ {c} : Same(d)
           /\ pc[c] = "closing" /\ pc'[c] = "recording" /\ request'[c] = request[c]
           /\ found'[c] = found[c] /\ queue[c] = {} /\ queue'[c] = {}
  BY DEF Resolved, Same, CallTypes, work

LEMMA CallsStep ==
    ASSUME TypeOK, RowsOK, CallsOK, [Next]_vars
    PROVE  CallsOK'
<1>1. CallTypes /\ Existing \subseteq Existing'
  BY TypeParts, RowsStandStep DEF RowsStand
<1>2. ASSUME NEW d \in Calls, Same(d) PROVE CallOK(d)'
  BY <1>1, <1>2 DEF CallsOK, CallOK, Same
<1>3. ASSUME UNCHANGED calls PROVE CallsOK'
  BY <1>1, <1>2, <1>3, SameCalls DEF CallsOK
<1>4. ASSUME NEW c \in Calls, Done(c) PROVE CallsOK'
  <2>1. /\ \A d \in Calls \ {c} : Same(d)
        /\ pc'[c] = "idle" /\ found'[c] = {} /\ queue'[c] = {}
    BY <1>1, <1>4, SameCalls DEF Done
  <2>2. CallOK(c)'
    BY <2>1 DEF CallOK
  <2>. QED
    BY <1>2, <2>1, <2>2 DEF CallsOK
<1>5. ASSUME NEW c \in Calls, Ask(c) PROVE CallsOK'
  <2>1. ASSUME NEW q \in Queries, StartWalk(c, q) \/ StartFreeze(c, q) PROVE CallsOK'
    <3>1. \/ Asked(c, [op |-> "walk", query |-> q], "paging", {}, {})
          \/ Asked(c, [op |-> "freeze", query |-> q], "reading", {}, {})
      BY <2>1 DEF StartWalk, StartFreeze, Start
    <3>2. \A d \in Calls \ {c} : Same(d)
      BY <1>1, <3>1, SameCalls
    <3>3. CallOK(c)'
      <4>1. CASE Asked(c, [op |-> "walk", query |-> q], "paging", {}, {})
        <5>1. pc'[c] = "paging" /\ request'[c].op = "walk" /\ found'[c] = {} /\ queue'[c] = {}
          BY <1>1, <4>1, SameCalls
        <5>. QED
          BY <5>1 DEF CallOK
      <4>2. CASE Asked(c, [op |-> "freeze", query |-> q], "reading", {}, {})
        <5>1. pc'[c] = "reading" /\ request'[c].op = "freeze" /\ found'[c] = {} /\ queue'[c] = {}
          BY <1>1, <4>2, SameCalls
        <5>. QED
          BY <5>1 DEF CallOK
      <4>. QED
        BY <3>1, <4>1, <4>2
    <3>. QED
      BY <1>2, <3>2, <3>3 DEF CallsOK
  <2>2. ASSUME NEW s \in FrozenSelections, NEW policy \in Policies, StartProject(c, s, policy) PROVE CallsOK'
    <3>. DEFINE members == body[s].members
                frontier == IF policy = "exact" THEN {} ELSE members
    <3>1. s \in Existing /\ Asked(c, [op |-> "project", selection |-> s, policy |-> policy], "closing",
                                   members, frontier)
      BY <2>2 DEF StartProject, Start
    <3>2. members \subseteq Existing /\ frontier \subseteq Existing
      BY <3>1 DEF RowsOK, FrozenSelections, OfKind
    <3>3. /\ \A d \in Calls \ {c} : Same(d)
          /\ pc'[c] = "closing" /\ request'[c] = [op |-> "project", selection |-> s, policy |-> policy]
          /\ found'[c] = members /\ queue'[c] = frontier
      BY <1>1, <3>1, SameCalls
    <3>. HIDE DEF members, frontier
    <3>4. CallOK(c)'
      BY <1>1, <3>1, <3>2, <3>3 DEF CallOK
    <3>. QED
      BY <1>2, <3>3, <3>4 DEF CallsOK
  <2>. QED
    BY <1>5, <2>1, <2>2 DEF Ask
<1>6. ASSUME NEW c \in Calls, RunQuery(c) PROVE CallsOK'
  <2>1. request[c].op = "freeze" /\ queue[c] \subseteq Existing
    BY <1>1, <1>6, QueryStep DEF CallsOK, CallOK
  <2>2. Answer(request[c].query, revision) \subseteq Existing
    BY DEF Answer, Candidates, CreatedBy
  <2>3. CallOK(c)'
    BY <1>1, <1>6, <2>1, <2>2, QueryStep DEF CallOK
  <2>. QED
    BY <1>1, <1>2, <1>6, <2>3, QueryStep DEF CallsOK
<1>7. ASSUME NEW c \in Calls, Page(c) PROVE CallsOK'
  <2>1. PICK q, r : \E rest, page \in SUBSET Existing : Paged(c, q, r, rest, page)
    BY <1>7, PageStep
  <2>2. PICK rest \in SUBSET Existing, page \in SUBSET Existing : Paged(c, q, r, rest, page)
    BY <2>1
  <2>3. /\ \A d \in Calls \ {c} : Same(d)
        /\ pc[c] = "paging" /\ pc'[c] \in {"paging", "listed"} /\ request'[c] = request[c]
        /\ found'[c] = found[c] \cup page /\ queue'[c] = queue[c]
    BY <1>1, <1>7, <2>2, PagedStep
  <2>4. CallOK(c)'
    BY <1>1, <2>3 DEF CallsOK, CallOK
  <2>. QED
    BY <1>2, <2>3, <2>4 DEF CallsOK
<1>8. ASSUME NEW c \in Calls, NEW e \in Entities, Resolve(c, e) PROVE CallsOK'
  <2>0. PICK added : added = Contributed(request[c].policy, e) \ found[c]
    OBVIOUS
  <2>1. added \subseteq Existing
    BY <1>8, <2>0, ContributedExist DEF Resolve, CallsOK, CallOK
  <2>2. /\ \A d \in Calls \ {c} : Same(d)
        /\ pc[c] = "closing" /\ pc'[c] = "closing" /\ request'[c] = request[c]
        /\ found'[c] = found[c] \cup added
        /\ queue'[c] = (queue[c] \ {e}) \cup Queued(request[c].policy, added)
    BY <1>1, <1>8, <2>0, ResolveStep, SMTT(40)
  <2>3. CallOK(c)'
    BY <1>1, <2>1, <2>2 DEF CallsOK, CallOK, Queued
  <2>. QED
    BY <1>2, <2>2, <2>3 DEF CallsOK
<1>9. ASSUME NEW c \in Calls, Resolved(c) PROVE CallsOK'
  <2>1. /\ \A d \in Calls \ {c} : Same(d)
        /\ pc[c] = "closing" /\ pc'[c] = "recording" /\ request'[c] = request[c]
        /\ found'[c] = found[c] /\ queue'[c] = {}
    BY <1>1, <1>9, ResolvedStep
  <2>2. CallOK(c)'
    BY <1>1, <2>1 DEF CallsOK, CallOK
  <2>. QED
    BY <1>2, <2>1, <2>2 DEF CallsOK
<1>10. ASSUME NEW c \in Calls, Reads(c) PROVE CallsOK'
  BY <1>4, <1>5, <1>6, <1>7, <1>8, <1>9, <1>10 DEF Reads, Return
<1>11. ASSUME NEW c \in Calls, NEW e \in Entities, Freeze(c, e) \/ CreateProjection(c, e) PROVE CallsOK'
  BY <1>4, <1>11 DEF Freeze, CreateProjection
<1>12. ASSUME NEW a \in Activities, NEW e \in Entities, Use(a, e) \/ Emit(a, e) PROVE CallsOK'
  BY <1>3, <1>12 DEF Use, Emit
<1>13. CASE BeginActivity \/ UNCHANGED vars
  BY <1>3, <1>13 DEF BeginActivity, vars
<1>14. ASSUME NEW e \in Entities, NEW row, NEW used, WritesFinding(e, row, used) PROVE CallsOK'
  BY <1>3, <1>14 DEF WritesFinding
<1>. QED
  BY <1>10, <1>11, <1>12, <1>13, <1>14, StepCases
----------------------------------------------------------------------------
\* Histories.

\* What HistoriesAreLinear says of f, of which R are the revisions.
Linear(f, R) ==
    /\ {body[r].version : r \in R} = 1..Cardinality(R)
    /\ current[f] = NoEntity <=> R = {}
    /\ \A r \in R : LET p == body[r].predecessor
                    IN  /\ p = body[r].expected
                        /\ IF body[r].version = 1 THEN p = NoEntity
                           ELSE /\ p \in R \cap UsedFor(r)
                                /\ body[p].version = body[r].version - 1
    /\ \A r \in R : body[r].version = Cardinality(R) => r = current[f]

\* One more revision, at the end.
LEMMA LongerHistory ==
    ASSUME TypeOK, NEW f \in Findings, NEW R, NEW e \in Entities,
           R \subseteq Existing, R \subseteq Entities, \A r \in R : body[r] \in Revisions,
           Linear(f, R), e \notin R,
           \A r \in R : body'[r] = body[r] /\ UsedFor(r)' = UsedFor(r),
           current'[f] = e, body'[e].predecessor = current[f], body'[e].expected = current[f],
           IF current[f] = NoEntity THEN body'[e].version = 1
           ELSE /\ current[f] \in R \cap UsedFor(e)'
                /\ body'[e].version = body[current[f]].version + 1
    PROVE  Linear(f, R \cup {e})'
<1>. DEFINE n == Cardinality(R)
<1>1. IsFiniteSet(R) /\ n \in Nat /\ Cardinality(R \cup {e}) = n + 1 /\ (n = 0 <=> R = {})
  <2>1. IsFiniteSet(R)
    BY FS_Subset, ReviewAssumption
  <2>. QED
    BY <2>1, FS_CardinalityType, FS_AddElement, FS_EmptySet
<1>2. /\ {body[r].version : r \in R} = 1..n
      /\ current[f] = NoEntity <=> R = {}
      /\ \A r \in R : body[r].version = n => r = current[f]
  BY DEF Linear
<1>3. /\ \A r \in R : LET p == body[r].predecessor
                    IN  /\ p = body[r].expected
                        /\ IF body[r].version = 1 THEN p = NoEntity
                           ELSE p \in R \cap UsedFor(r) /\ body[p].version = body[r].version - 1
  BY DEF Linear
<1>. HIDE DEF n
<1>4. body'[e].version = n + 1
  <2>1. CASE R = {}
    BY <1>1, <1>2, <2>1
  <2>2. CASE R # {}
    <3>1. n \in 1..n
      BY <1>1, <2>2
    <3>2. PICK r \in R : body[r].version = n
      BY <1>2, <3>1
    <3>3. current[f] # NoEntity /\ r = current[f]
      BY <1>2, <2>2, <3>2
    <3>. QED
      BY <3>2, <3>3
  <2>. QED
    BY <2>1, <2>2
<1>5. \A r \in R : body[r].version \in 1..n
  BY <1>2
<1>6. {body'[r].version : r \in R \cup {e}} = 1..(n + 1)
  <2>1. \A r \in R \cup {e} : body'[r].version \in 1..(n + 1)
    BY <1>1, <1>4, <1>5
  <2>2. ASSUME NEW i \in 1..(n + 1) PROVE \E r \in R \cup {e} : body'[r].version = i
    <3>1. CASE i = n + 1
      BY <1>4, <3>1
    <3>2. CASE i # n + 1
      <4>1. i \in 1..n
        BY <1>1, <3>2
      <4>2. PICK r \in R : body[r].version = i
        BY <1>2, <4>1
      <4>. QED
        BY <4>2
    <3>. QED
      BY <3>1, <3>2
  <2>. QED
    BY <2>1, <2>2
<1>7. \A r \in R \cup {e} : body'[r].version = n + 1 => r = e
  BY <1>1, <1>5
<1>8. current'[f] # NoEntity /\ R \cup {e} # {}
  BY ReviewAssumption
<1>9. ASSUME NEW r \in R
      PROVE  LET p == body'[r].predecessor
             IN  /\ p = body'[r].expected
                 /\ IF body'[r].version = 1 THEN p = NoEntity
                    ELSE /\ p \in (R \cup {e}) \cap UsedFor(r)'
                         /\ body'[p].version = body'[r].version - 1
  BY <1>3
<1>10. LET p == body'[e].predecessor
       IN  /\ p = body'[e].expected
           /\ IF body'[e].version = 1 THEN p = NoEntity
              ELSE /\ p \in (R \cup {e}) \cap UsedFor(e)'
                   /\ body'[p].version = body'[e].version - 1
  <2>1. CASE current[f] = NoEntity
    BY <2>1
  <2>2. CASE current[f] # NoEntity
    <3>1. current[f] \in R \cap UsedFor(e)' /\ body'[current[f]] = body[current[f]]
      BY <2>2
    <3>2. body[current[f]].version \in 1..n /\ body'[e].version = body[current[f]].version + 1
      BY <1>5, <2>2, <3>1
    <3>3. body'[e].version # 1 /\ body[current[f]].version = body'[e].version - 1
      BY <1>1, <3>2
    <3>. QED
      BY <3>1, <3>3
  <2>. QED
    BY <2>1, <2>2
<1>. QED
  BY <1>1, <1>6, <1>7, <1>8, <1>9, <1>10 DEF Linear

LEMMA HistoriesStep ==
    ASSUME TypeOK, RowsOK, CallsOK, HistoriesAreLinear, [Next]_vars
    PROVE  HistoriesAreLinear'
<1>1. RowsStand
  BY RowsStandStep
<1>2. \A f \in Findings : Linear(f, RevisionsIn(Existing, f))
  BY DEF HistoriesAreLinear, Linear
<1>3. ASSUME \A f \in Findings : \E R : R = RevisionsIn(Existing, f)' /\ Linear(f, R)' PROVE HistoriesAreLinear'
  BY <1>3 DEF HistoriesAreLinear, Linear
<1>4. ASSUME NEW f \in Findings, current'[f] = current[f],
             RevisionsIn(Existing, f)' = RevisionsIn(Existing, f)
      PROVE  \E R : R = RevisionsIn(Existing, f)' /\ Linear(f, R)'
  <2>1. PICK R : R = RevisionsIn(Existing, f)
    OBVIOUS
  <2>2. Linear(f, R) /\ R \subseteq Existing
    BY <1>2, <2>1 DEF RevisionsIn
  <2>3. \A r \in R : body'[r] = body[r] /\ UsedFor(r)' = UsedFor(r)
    BY <1>1, <2>2 DEF RowsStand
  <2>4. \A r \in R : body[r].predecessor \in R => body'[body[r].predecessor] = body[body[r].predecessor]
    BY <2>3
  <2>5. Linear(f, R)'
    <3>1. {body'[r].version : r \in R} = 1..Cardinality(R)
      BY <2>2, <2>3 DEF Linear
    <3>. QED
      BY <1>4, <2>2, <2>3, <2>4, <3>1 DEF Linear
  <2>. QED
    BY <1>4, <2>1, <2>5
<1>5. ASSUME current' = current, Existing' \cap FindingRevisions = Existing \cap FindingRevisions
      PROVE  HistoriesAreLinear'
  <2>1. ASSUME NEW f \in Findings PROVE RevisionsIn(Existing, f)' = RevisionsIn(Existing, f)
    <3>1. \A r \in Existing \cap FindingRevisions : body'[r] = body[r]
      BY <1>1 DEF RowsStand
    <3>. QED
      BY <1>5, <3>1 DEF RevisionsIn
  <2>. QED
    BY <1>3, <1>4, <1>5, <2>1
<1>6. ASSUME UNCHANGED <<generatedBy, current>> PROVE HistoriesAreLinear'
  BY <1>5, <1>6 DEF Existing
<1>7. ASSUME NEW a \in Activities, NEW e \in Entities, Emit(a, e) PROVE HistoriesAreLinear'
  <2>1. /\ e \notin FindingRevisions /\ generatedBy' = [generatedBy EXCEPT ![e] = a] /\ current' = current
    BY <1>7, ReviewAssumption DEF Emit, Generate, Facts, Objects, OfKind, FindingRevisions
  <2>2. \A x \in FindingRevisions : generatedBy'[x] = generatedBy[x]
    BY <2>1 DEF TypeOK, FindingRevisions, OfKind
  <2>3. Existing' \cap FindingRevisions = Existing \cap FindingRevisions
    BY <2>2 DEF Existing
  <2>. QED
    BY <1>5, <2>1, <2>3
<1>8. ASSUME NEW c \in Calls, NEW e \in Entities, Freeze(c, e) PROVE HistoriesAreLinear'
  <2>1. found[c] \in SUBSET Entities /\ e \notin FindingRevisions /\ current' = current
    BY <1>8 DEF CallsOK, CallOK, Existing, Freeze, FrozenSelections, FindingRevisions, OfKind
  <2>2. Existing' = Existing \cup {e}
    BY <1>8, <2>1, RecordedRows DEF Freeze, Added
  <2>. QED
    BY <1>5, <2>1, <2>2
<1>9. ASSUME NEW c \in Calls, NEW e \in Entities, CreateProjection(c, e) PROVE HistoriesAreLinear'
  <2>1. /\ {request[c].selection} \in SUBSET Entities
        /\ e \notin FindingRevisions /\ current' = current
    BY <1>9 DEF CallsOK, CallOK, Existing, CreateProjection, RecordedProjections, FindingRevisions, OfKind
  <2>2. Existing' = Existing \cup {e}
    BY <1>9, <2>1, RecordedRows DEF CreateProjection, Added
  <2>. QED
    BY <1>5, <2>1, <2>2
<1>10. ASSUME NEW e \in Entities, NEW row, NEW used, WritesFinding(e, row, used) PROVE HistoriesAreLinear'
  <2>1. used \in SUBSET Entities /\ Recorded(e, used, row)
    BY <1>10, ReviewAssumption DEF WritesFinding, RevisionsIn, Existing
  <2>2. /\ Existing' = Existing \cup {e} /\ e \notin Existing /\ body'[e] = row /\ UsedFor(e)' = used
        /\ \A x \in Existing : body'[x] = body[x] /\ UsedFor(x)' = UsedFor(x)
    <3>1. Added(e, used, row) /\ DOMAIN body = Entities
      BY <2>1, RecordedRows DEF TypeOK
    <3>2. body'[e] = row
      BY <3>1 DEF Added
    <3>. QED
      BY <3>1, <3>2 DEF Added, RowsStand
  <2>3. PICK f \in Findings, members \in MemberSets :
           /\ e \in FindingRevisions /\ row.finding = f
           /\ current' = [current EXCEPT ![f] = e]
           /\ \/ /\ current[f] = NoEntity /\ used = members
                 /\ row = [finding |-> f, version |-> 1, members |-> members,
                           predecessor |-> NoEntity, expected |-> NoEntity]
              \/ \E expected \in RevisionsIn(Existing, f) :
                    /\ current[f] = expected /\ used = members \cup {expected}
                    /\ row = [finding |-> f, version |-> body[expected].version + 1, members |-> members,
                              predecessor |-> expected, expected |-> expected]
    BY <1>10 DEF WritesFinding
  <2>4. current'[f] = e /\ \A g \in Findings \ {f} : current'[g] = current[g]
    BY <2>3 DEF TypeOK
  <2>5. ASSUME NEW g \in Findings \ {f} PROVE RevisionsIn(Existing, g)' = RevisionsIn(Existing, g)
    BY <2>2, <2>3 DEF RevisionsIn
  <2>6. PICK R : R = RevisionsIn(Existing, f)
    OBVIOUS
  <2>7. RevisionsIn(Existing, f)' = R \cup {e}
    BY <2>2, <2>3, <2>6 DEF RevisionsIn
  <2>8. /\ Linear(f, R) /\ R \subseteq Existing /\ R \subseteq Entities /\ e \notin R
        /\ \A r \in R : body[r] \in Revisions
    BY <1>2, <2>2, <2>6, RowTypes DEF RevisionsIn, Existing, FindingRevisions, OfKind
  <2>9. /\ body'[e].predecessor = current[f] /\ body'[e].expected = current[f]
        /\ IF current[f] = NoEntity THEN body'[e].version = 1
           ELSE /\ current[f] \in R \cap UsedFor(e)'
                /\ body'[e].version = body[current[f]].version + 1
    <3>1. CASE current[f] = NoEntity
      <4>1. ~ \E expected \in RevisionsIn(Existing, f) : current[f] = expected
        BY <2>6, <2>8, <3>1, ReviewAssumption
      <4>. QED
        BY <2>2, <2>3, <3>1, <4>1
    <3>2. CASE current[f] # NoEntity
      BY <2>2, <2>3, <2>6, <3>2
    <3>. QED
      BY <3>1, <3>2
  <2>10. Linear(f, R \cup {e})'
    BY <2>2, <2>4, <2>8, <2>9, LongerHistory
  <2>11. ASSUME NEW g \in Findings PROVE \E S : S = RevisionsIn(Existing, g)' /\ Linear(g, S)'
    <3>1. CASE g = f
      BY <2>7, <2>10, <3>1
    <3>2. CASE g # f
      BY <1>4, <2>4, <2>5, <3>2
    <3>. QED
      BY <3>1, <3>2
  <2>. QED
    BY <1>3, <2>11
<1>11. ASSUME NEW c \in Calls, Reads(c) PROVE HistoriesAreLinear'
  BY <1>6, <1>11, ReadsChangeNoRow DEF provVars, catalog
<1>12. ASSUME NEW a \in Activities, NEW e \in Entities, Use(a, e) PROVE HistoriesAreLinear'
  BY <1>6, <1>12 DEF Use, Declare, catalog
<1>13. CASE BeginActivity \/ UNCHANGED vars
  BY <1>6, <1>13 DEF BeginActivity, Begin, vars, provVars, catalog
<1>. QED
  BY <1>7, <1>8, <1>9, <1>10, <1>11, <1>12, <1>13, StepCases
----------------------------------------------------------------------------
\* Answers.

LEMMA SameCatalog ==
    ASSUME TypeOK, TypeOK', RowsStand, NEW r \in Nat, r <= revision
    PROVE  CreatedBy(r)' = CreatedBy(r)
<1>1. /\ Existing \subseteq Existing' /\ revision \in Nat
      /\ \A e \in Existing : createdAt'[e] = createdAt[e]
      /\ \A e \in Existing' \ Existing : createdAt'[e] > revision
  BY DEF RowsStand, TypeOK
<1>2. ASSUME NEW e \in Existing' \ Existing PROVE ~(createdAt'[e] <= r)
  <2>1. createdAt'[e] \in Nat
    BY DEF TypeOK, Existing
  <2>. QED
    BY <1>1, <2>1
<1>. QED
  BY <1>1, <1>2 DEF CreatedBy

LEMMA SameMatch ==
    ASSUME TypeOK, RowsOK, RowsStand, NEW C, C \subseteq Existing, NEW q \in Queries
    PROVE  Matching(C, q)' = Matching(C, q)
<1>1. \A x \in C : body'[x] = body[x] /\ UsedFor(x)' = UsedFor(x)
  BY DEF RowsStand
<1>2. ASSUME NEW e PROVE DescendantsIn(C, e)' = DescendantsIn(C, e)
  <2>. DEFINE D == {x \in C : UsedFor(x) # {}}
  <2>1. D' = D
    BY <1>1
  <2>2. \A y \in D : UsedFor(y)' = UsedFor(y)
    BY <1>1
  <2>3. DescendantsIn(C, e) = {x \in D \cup {e} : \A T \in SUBSET D :
            (\A y \in D : UsedFor(y) \cap (T \cup {e}) # {} => y \in T) => x \in T \cup {e}}
    BY DEF DescendantsIn
  <2>4. DescendantsIn(C, e)' = {x \in D' \cup {e} : \A T \in SUBSET D' :
            (\A y \in D' : UsedFor(y)' \cap (T \cup {e}) # {} => y \in T) => x \in T \cup {e}}
    BY DEF DescendantsIn
  <2>. HIDE DEF D
  <2>. QED
    BY <2>1, <2>2, <2>3, <2>4
<1>3. ASSUME NEW f
      PROVE  /\ RevisionsIn(C, f)' = RevisionsIn(C, f)
             /\ \A x \in RevisionsIn(C, f) : body'[x] = body[x]
  BY <1>1 DEF RevisionsIn
<1>4. q.op \in {"kind", "descendant", "finding"}
  BY ReviewAssumption DEF QueryOps
<1>5. CASE q.op = "kind"
  BY <1>5 DEF Matching
<1>6. CASE q.op = "descendant"
  BY <1>2, <1>6 DEF Matching
<1>7. CASE q.op = "finding"
  <2>1. PICK f : f = q.of
    OBVIOUS
  <2>2. UNION {body'[x].members : x \in RevisionsIn(C, f)'} = UNION {body[x].members : x \in RevisionsIn(C, f)}
    BY <1>3
  <2>. QED
    BY <1>3, <1>7, <2>1, <2>2 DEF Matching
<1>. QED
  BY <1>4, <1>5, <1>6, <1>7

\* The inputs of what a catalog has are in it.
LEMMA CatalogIsClosed ==
    ASSUME TypeOK, RowsOK, NEW r \in Nat, NEW x \in CreatedBy(r)
    PROVE  UsedFor(x) \subseteq CreatedBy(r)
<1>1. x \in Existing /\ createdAt[x] <= r /\ createdAt[x] \in Nat
  BY DEF CreatedBy, Existing, TypeOK
<1>2. UsedFor(x) \subseteq Existing /\ \A i \in UsedFor(x) : createdAt[i] <= createdAt[x]
  BY <1>1 DEF RowsOK, UsedFor
<1>3. \A i \in Existing : createdAt[i] \in Nat
  BY DEF Existing, TypeOK
<1>. QED
  BY <1>1, <1>2, <1>3 DEF CreatedBy

\* What derives from an entity is in a catalog by what is in the catalog.
LEMMA SameDescendants ==
    ASSUME TypeOK, RowsOK, NEW C, C \subseteq Existing, \A x \in C : UsedFor(x) \subseteq C, NEW e
    PROVE  C \cap DescendantsIn(Existing, e) = C \cap DescendantsIn(C, e)
<1>. DEFINE DE == {x \in Existing : UsedFor(x) # {}}
            DC == {x \in C : UsedFor(x) # {}}
            ClosedE(T) == \A y \in DE : UsedFor(y) \cap (T \cup {e}) # {} => y \in T
            ClosedC(T) == \A y \in DC : UsedFor(y) \cap (T \cup {e}) # {} => y \in T
<1>1. \A x : x \in DescendantsIn(Existing, e) <=>
          x \in DE \cup {e} /\ \A T \in SUBSET DE : ClosedE(T) => x \in T \cup {e}
  BY DEF DescendantsIn
<1>2. \A x : x \in DescendantsIn(C, e) <=>
          x \in DC \cup {e} /\ \A T \in SUBSET DC : ClosedC(T) => x \in T \cup {e}
  BY DEF DescendantsIn
<1>3. DC = C \cap DE
  OBVIOUS
<1>4. ASSUME NEW x \in C, x \in DescendantsIn(Existing, e) PROVE x \in DescendantsIn(C, e)
  <2>1. x \in DC \cup {e}
    BY <1>1, <1>3, <1>4
  <2>2. ASSUME NEW T \in SUBSET DC, ClosedC(T) PROVE x \in T \cup {e}
    <3>. DEFINE U == T \cup (DE \ C)
    <3>1. U \in SUBSET DE
      BY <1>3
    <3>2. ClosedE(U)
      <4>1. ASSUME NEW y \in DE, UsedFor(y) \cap (U \cup {e}) # {}, y \in C PROVE y \in T
        <5>1. UsedFor(y) \cap (T \cup {e}) # {}
          BY <4>1
        <5>. QED
          BY <1>3, <2>2, <4>1, <5>1
      <4>. QED
        BY <4>1
    <3>. HIDE DEF ClosedE
    <3>3. x \in U \cup {e}
      BY <1>1, <1>4, <3>1, <3>2
    <3>. QED
      BY <3>3
  <2>. QED
    BY <1>2, <2>1, <2>2
<1>5. ASSUME NEW x \in C, x \in DescendantsIn(C, e) PROVE x \in DescendantsIn(Existing, e)
  <2>1. x \in DE \cup {e}
    BY <1>2, <1>3, <1>5
  <2>2. ASSUME NEW T \in SUBSET DE, ClosedE(T) PROVE x \in T \cup {e}
    <3>. DEFINE U == T \cap C
    <3>1. U \in SUBSET DC
      BY <1>3
    <3>2. ClosedC(U)
      BY <1>3, <2>2
    <3>. HIDE DEF ClosedC
    <3>3. x \in U \cup {e}
      BY <1>2, <1>5, <3>1, <3>2
    <3>. QED
      BY <3>3
  <2>. QED
    BY <1>1, <2>1, <2>2
<1>. QED
  BY <1>4, <1>5

\* A query by kind or by descent finds in all rows what it finds in its catalog.
LEMMA PinnedAnswer ==
    ASSUME TypeOK, RowsOK, NEW q \in Queries, q.op \in {"kind", "descendant"}, NEW r \in Nat,
           NEW C, C = CreatedBy(r)
    PROVE  Answer(q, r) = C \cap Matching(C, q)
<1>1. C \subseteq Existing /\ \A x \in C : UsedFor(x) \subseteq C
  BY CatalogIsClosed DEF CreatedBy
<1>2. Answer(q, r) = C \cap Matching(Existing, q)
  BY DEF Answer, Candidates
<1>3. CASE q.op = "kind"
  BY <1>2, <1>3 DEF Matching
<1>4. CASE q.op = "descendant"
  BY <1>1, <1>2, <1>4, SameDescendants DEF Matching
<1>. QED
  BY <1>3, <1>4
----------------------------------------------------------------------------
\* What a step adds, and where it takes a call.

\* A new selection or projection is what its call has found.
LEMMA NewRow ==
    ASSUME TypeOK, RowsOK, CallsOK, [Next]_vars, NEW s \in Existing' \ Existing
    PROVE  /\ KindOf[s] = "selection" =>
                \E c \in Calls :
                    /\ pc[c] = "recording" /\ request[c].op = "freeze"
                    /\ body'[s] = [query |-> request[c].query, revision |-> at[c], members |-> found[c]]
           /\ KindOf[s] = "projection" =>
                \E c \in Calls :
                    /\ pc[c] = "recording" /\ request[c].op = "project"
                    /\ body'[s] = [selection |-> request[c].selection, policy |-> request[c].policy,
                                   members |-> found[c]]
<1>0. DOMAIN body = Entities /\ DOMAIN generatedBy = Entities
  BY DEF TypeOK
<1>1. ASSUME UNCHANGED generatedBy PROVE FALSE
  BY <1>1 DEF Existing
<1>2. CASE BeginActivity \/ UNCHANGED vars
  BY <1>1, <1>2 DEF BeginActivity, Begin, vars, provVars
<1>3. ASSUME NEW a \in Activities, NEW e \in Entities, Use(a, e) PROVE FALSE
  BY <1>1, <1>3 DEF Use, Declare
<1>4. ASSUME NEW a \in Activities, NEW e \in Entities, Emit(a, e)
      PROVE  KindOf[s] \notin {"selection", "projection"}
  <2>1. generatedBy' = [generatedBy EXCEPT ![e] = a] /\ KindOf[e] \in {"object", "artifact"}
    BY <1>4 DEF Emit, Generate, Facts, Objects, OfKind
  <2>2. s = e
    BY <1>0, <2>1 DEF Existing
  <2>. QED
    BY <2>1, <2>2
<1>5. ASSUME NEW e \in Entities, NEW row, NEW used, WritesFinding(e, row, used)
      PROVE  KindOf[s] \notin {"selection", "projection"}
  <2>1. used \in SUBSET Entities /\ Recorded(e, used, row) /\ KindOf[e] = "finding_revision"
    BY <1>5, ReviewAssumption DEF WritesFinding, RevisionsIn, Existing, FindingRevisions, OfKind
  <2>2. s = e
    BY <2>1, RecordedRows DEF Added
  <2>. QED
    BY <2>1, <2>2
<1>6. ASSUME NEW c \in Calls, NEW e \in Entities, Freeze(c, e)
      PROVE  /\ KindOf[s] = "selection" /\ pc[c] = "recording" /\ request[c].op = "freeze"
             /\ body'[s] = [query |-> request[c].query, revision |-> at[c], members |-> found[c]]
  <2>. DEFINE row == [query |-> request[c].query, revision |-> at[c], members |-> found[c]]
  <2>1. found[c] \in SUBSET Entities /\ Recorded(e, found[c], row) /\ KindOf[e] = "selection"
    BY <1>6 DEF Freeze, Observed, CallsOK, CallOK, Existing, FrozenSelections, OfKind
  <2>2. Added(e, found[c], row)
    BY <2>1, RecordedRows
  <2>3. s = e /\ body'[e] = row
    BY <1>0, <2>2 DEF Added
  <2>. QED
    BY <1>6, <2>1, <2>3 DEF Freeze
<1>7. ASSUME NEW c \in Calls, NEW e \in Entities, CreateProjection(c, e)
      PROVE  /\ KindOf[s] = "projection" /\ pc[c] = "recording" /\ request[c].op = "project"
             /\ body'[s] = [selection |-> request[c].selection, policy |-> request[c].policy,
                            members |-> found[c]]
  <2>. DEFINE row == [selection |-> request[c].selection, policy |-> request[c].policy, members |-> found[c]]
              used == {request[c].selection}
  <2>1. used \in SUBSET Entities /\ Recorded(e, used, row) /\ KindOf[e] = "projection"
    BY <1>7 DEF CreateProjection, CallsOK, CallOK, Existing, RecordedProjections, OfKind
  <2>2. Added(e, used, row)
    BY <2>1, RecordedRows
  <2>3. s = e /\ body'[e] = row
    BY <1>0, <2>2 DEF Added
  <2>. QED
    BY <1>7, <2>1, <2>3 DEF CreateProjection
<1>8. ASSUME NEW c \in Calls, Reads(c) PROVE FALSE
  BY <1>1, <1>8, ReadsChangeNoRow DEF provVars
<1>. QED
  BY <1>2, <1>3, <1>4, <1>5, <1>6, <1>7, <1>8, StepCases

\* A walk that has not read a page.
WalkStarts(d) == pc'[d] = "paging" /\ found'[d] = {} /\ at'[d] = 0 /\ after'[d] = 0

\* A closure of which nothing is resolved.
ClosureStarts(d) ==
    \E s \in Existing \cap FrozenSelections, policy \in Policies :
        /\ pc'[d] = "closing"
        /\ request'[d] = [op |-> "project", selection |-> s, policy |-> policy]
        /\ found'[d] = body[s].members
        /\ queue'[d] = IF policy = "exact" THEN {} ELSE body[s].members

LEMMA CallMoves ==
    ASSUME CallTypes, [Next]_vars, NEW d \in Calls
    PROVE  \/ Same(d) \/ pc'[d] \in {"idle", "reading"}
           \/ WalkStarts(d) \/ ClosureStarts(d)
           \/ RunQuery(d) \/ Page(d) \/ Resolved(d) \/ \E e \in Entities : Resolve(d, e)
<1>1. UNCHANGED calls => Same(d)
  BY SameCalls
<1>2. ASSUME NEW c \in Calls, Done(c) PROVE Same(d) \/ pc'[d] = "idle"
  BY <1>2, SameCalls DEF Done
<1>3. ASSUME NEW c \in Calls, NEW q, StartFreeze(c, q) PROVE Same(d) \/ pc'[d] = "reading"
  BY <1>3, SameCalls DEF StartFreeze, Start
<1>4. ASSUME NEW c \in Calls, NEW q, StartWalk(c, q) PROVE Same(d) \/ WalkStarts(d)
  BY <1>4, SameCalls DEF StartWalk, Start, WalkStarts
<1>5. ASSUME NEW c \in Calls, NEW s \in FrozenSelections, NEW policy \in Policies, StartProject(c, s, policy)
      PROVE  Same(d) \/ ClosureStarts(d)
  <2>1. /\ s \in Existing \cap FrozenSelections
        /\ Asked(c, [op |-> "project", selection |-> s, policy |-> policy], "closing", body[s].members,
                 IF policy = "exact" THEN {} ELSE body[s].members)
    BY <1>5 DEF StartProject, Start
  <2>2. CASE c = d
    BY <2>1, <2>2, SameCalls DEF ClosureStarts
  <2>3. CASE c # d
    BY <2>1, <2>3, SameCalls
  <2>. QED
    BY <2>2, <2>3
<1>6. ASSUME NEW c \in Calls, RunQuery(c) PROVE Same(d) \/ RunQuery(d)
  BY <1>6, QueryStep
<1>7. ASSUME NEW c \in Calls, Page(c) PROVE Same(d) \/ Page(d)
  <2>1. PICK p, f, r, e : /\ pc' = [pc EXCEPT ![c] = p] /\ found' = [found EXCEPT ![c] = f]
                         /\ at' = [at EXCEPT ![c] = r] /\ after' = [after EXCEPT ![c] = e]
                         /\ UNCHANGED <<request, queue>>
    BY <1>7 DEF Page
  <2>. QED
    BY <1>7, <2>1 DEF CallTypes, Same
<1>8. ASSUME NEW c \in Calls, Resolved(c) PROVE Same(d) \/ Resolved(d)
  BY <1>8, ResolvedStep
<1>9. ASSUME NEW c \in Calls, NEW e \in Entities, Resolve(c, e)
      PROVE  Same(d) \/ \E x \in Entities : Resolve(d, x)
  BY <1>9, ResolveStep
<1>10. ASSUME NEW c \in Calls, Reads(c)
       PROVE  \/ Same(d) \/ pc'[d] \in {"idle", "reading"}
              \/ WalkStarts(d) \/ ClosureStarts(d)
              \/ RunQuery(d) \/ Page(d) \/ Resolved(d) \/ \E e \in Entities : Resolve(d, e)
  BY <1>2, <1>3, <1>4, <1>5, <1>6, <1>7, <1>8, <1>9, <1>10 DEF Reads, Ask, Return
<1>11. ASSUME NEW c \in Calls, NEW e \in Entities, Freeze(c, e) \/ CreateProjection(c, e)
       PROVE  Same(d) \/ pc'[d] = "idle"
  BY <1>2, <1>11 DEF Freeze, CreateProjection
<1>12. ASSUME NEW a \in Activities, NEW e \in Entities, Use(a, e) \/ Emit(a, e) PROVE Same(d)
  BY <1>1, <1>12 DEF Use, Emit
<1>13. CASE BeginActivity \/ UNCHANGED vars
  BY <1>1, <1>13 DEF BeginActivity, vars
<1>14. ASSUME NEW e \in Entities, NEW row, NEW used, WritesFinding(e, row, used) PROVE Same(d)
  BY <1>1, <1>14 DEF WritesFinding
<1>. QED
  BY <1>10, <1>11, <1>12, <1>13, <1>14, StepCases
----------------------------------------------------------------------------
\* Selections and walks.

\* What a query finds at a revision it finds there later.
LEMMA SameAnswer ==
    ASSUME TypeOK, TypeOK', RowsOK, RowsStand, NEW q \in Queries, NEW r \in Nat, r <= revision,
           NEW C, C = CreatedBy(r)'
    PROVE  C = CreatedBy(r) /\ C \in SUBSET Entities /\ Matching(C, q)' = Matching(C, q)
<1>1. C = CreatedBy(r) /\ C \subseteq Existing /\ C \in SUBSET Entities
  BY SameCatalog DEF CreatedBy, Existing
<1>. QED
  BY <1>1, SameMatch

LEMMA FrozenStep ==
    ASSUME TypeOK, TypeOK', RowsOK, CallsOK, FrozenOK, [Next]_vars
    PROVE  FrozenOK'
<1> SUFFICES ASSUME NEW q \in Queries, NEW r \in Nat, NEW C \in SUBSET Entities, C = CreatedBy(r)'
             PROVE  /\ \A s \in Existing' \cap FrozenSelections :
                           body'[s].query = q /\ body'[s].revision = r =>
                               r <= revision' /\ body'[s].members = C \cap Matching(C, q)'
                    /\ \A c \in Calls :
                           pc'[c] = "recording" /\ request'[c].op = "freeze" /\ request'[c].query = q
                              /\ at'[c] = r => found'[c] = C \cap Matching(C, q)'
  BY DEF FrozenOK
<1>1. /\ CallTypes /\ RowsStand /\ revision <= revision' /\ revision \in Nat /\ revision' \in Nat
      /\ \A e \in Existing : body'[e] = body[e]
  BY TypeParts, RowsStandStep DEF RowsStand, TypeOK
<1>2. ASSUME r <= revision PROVE C = CreatedBy(r) /\ Matching(C, q)' = Matching(C, q)
  BY <1>1, <1>2, SameAnswer
<1>3. \A B \in SUBSET Entities : B = CreatedBy(r) =>
        /\ \A s \in Existing \cap FrozenSelections :
               body[s].query = q /\ body[s].revision = r =>
                   r <= revision /\ body[s].members = B \cap Matching(B, q)
        /\ \A c \in Calls :
               pc[c] = "recording" /\ request[c].op = "freeze" /\ request[c].query = q /\ at[c] = r =>
                   found[c] = B \cap Matching(B, q)
  BY DEF FrozenOK
<1>4. ASSUME NEW c \in Calls, pc[c] = "recording", request[c].op = "freeze",
             request[c].query = q, at[c] = r
      PROVE  r <= revision /\ found[c] = C \cap Matching(C, q)'
  <2>1. r <= revision
    BY <1>1, <1>4 DEF CallTypes
  <2>. QED
    BY <1>2, <1>3, <1>4, <2>1
<1>5. ASSUME NEW s \in Existing' \cap FrozenSelections, body'[s].query = q, body'[s].revision = r
      PROVE  r <= revision' /\ body'[s].members = C \cap Matching(C, q)'
  <2>1. CASE s \in Existing
    <3>1. body'[s] = body[s]
      BY <1>1, <2>1
    <3>2. r <= revision
      <4>1. PICK B \in SUBSET Entities : B = CreatedBy(r)
        BY DEF CreatedBy, Existing
      <4>. QED
        BY <1>3, <1>5, <2>1, <3>1, <4>1
    <3>3. body'[s].members = C \cap Matching(C, q)'
      BY <1>2, <1>3, <1>5, <2>1, <3>1, <3>2
    <3>. QED
      BY <1>1, <3>2, <3>3
  <2>2. CASE s \notin Existing
    <3>1. KindOf[s] = "selection"
      BY DEF FrozenSelections, OfKind
    <3>2. PICK c \in Calls :
              /\ pc[c] = "recording" /\ request[c].op = "freeze"
              /\ body'[s] = [query |-> request[c].query, revision |-> at[c], members |-> found[c]]
      BY <2>2, <3>1, NewRow
    <3>3. r <= revision /\ found[c] = C \cap Matching(C, q)'
      BY <1>4, <1>5, <3>2
    <3>. QED
      BY <1>1, <3>2, <3>3
  <2>. QED
    BY <2>1, <2>2
<1>6. ASSUME NEW d \in Calls, pc'[d] = "recording", request'[d].op = "freeze", request'[d].query = q,
             at'[d] = r
      PROVE  found'[d] = C \cap Matching(C, q)'
  <2>1. CASE Same(d)
    BY <1>4, <1>6, <2>1 DEF Same
  <2>2. CASE RunQuery(d)
    <3>1. /\ request[d].query = q /\ r = revision /\ found'[d] = Answer(q, revision)
      BY <1>1, <1>6, <2>2, QueryStep
    <3>2. CreatedBy(revision) = Existing
      BY DEF CreatedBy, Existing, TypeOK
    <3>3. C = Existing /\ Matching(C, q)' = Matching(Existing, q)
      BY <1>1, <1>2, <3>1, <3>2
    <3>4. Answer(q, revision) = Existing \cap Matching(Existing, q)
      BY <3>2 DEF Answer, Candidates
    <3>. QED
      BY <3>1, <3>3, <3>4
  <2>3. CASE Resolved(d)
    BY <1>1, <1>6, <2>3, ResolvedStep DEF CallsOK, CallOK
  <2>4. ~(pc'[d] \in {"idle", "reading"}) /\ ~WalkStarts(d) /\ ~ClosureStarts(d)
    BY <1>6 DEF WalkStarts, ClosureStarts
  <2>5. ~Page(d)
    <3>1. Page(d) => pc'[d] \in {"paging", "listed"}
      BY <1>1 DEF Page, CallTypes
    <3>. QED
      BY <1>6, <3>1
  <2>6. ~(\E e \in Entities : Resolve(d, e))
    BY <1>1, <1>6, ResolveStep
  <2>. QED
    BY <1>1, <2>1, <2>2, <2>3, <2>4, <2>5, <2>6, CallMoves
<1>. QED
  BY <1>5, <1>6

LEMMA WalksStep ==
    ASSUME TypeOK, TypeOK', RowsOK, CallsOK, WalksOK, [Next]_vars
    PROVE  WalksOK'
<1> SUFFICES ASSUME NEW q \in Queries, NEW r \in Nat, NEW C \in SUBSET Entities, C = CreatedBy(r)',
                    NEW d \in Calls, q.op \in {"kind", "descendant"}, request'[d].query = q, at'[d] = r
             PROVE  WalkOK(d, q, r, C)'
  BY DEF WalksOK
<1>1. CallTypes /\ RowsStand /\ revision \in Nat \ {0}
  BY TypeParts, RowsStandStep DEF TypeOK
<1>2. \A n \in Nat, B \in SUBSET Entities :
          B = CreatedBy(n) /\ request[d].query = q /\ at[d] = n => WalkOK(d, q, n, B)
  BY DEF WalksOK
<1>3. CASE pc'[d] \notin {"paging", "listed"}
  BY <1>3 DEF WalkOK
<1>4. CASE WalkStarts(d)
  BY <1>4 DEF WalkStarts, WalkOK
<1>5. ASSUME r <= revision PROVE C = CreatedBy(r) /\ Matching(C, q)' = Matching(C, q)
  BY <1>1, <1>5, SameAnswer
<1>6. CASE Same(d)
  <2>1. at[d] = r /\ request[d].query = q /\ r <= revision
    BY <1>1, <1>6 DEF Same, CallTypes
  <2>2. WalkOK(d, q, r, C)
    BY <1>2, <1>5, <2>1
  <2>. QED
    BY <1>5, <1>6, <2>1, <2>2 DEF Same, WalkOK
<1>7. CASE Page(d)
  <2>1. PICK n : n = IF at[d] = 0 THEN revision ELSE at[d]
    OBVIOUS
  <2>2. request[d].query = q
    BY <1>7 DEF Page
  <2>3. PICK rest \in SUBSET Existing, page \in SUBSET Existing : Paged(d, q, n, rest, page)
    BY <1>7, <2>1, <2>2, PageStep
  <2>4. /\ pc[d] = "paging" /\ found'[d] = found[d] \cup page /\ at'[d] = n
        /\ \/ /\ after'[d] \in page /\ page = {e \in rest : e <= after'[d]}
              /\ pc'[d] = "paging"
           \/ page = rest /\ pc'[d] = "listed"
    BY <1>1, <1>7, <2>3, PagedStep
  <2>5. n = r /\ r <= revision /\ r > 0 /\ at[d] \in Nat
    BY <1>1, <2>1, <2>4 DEF CallTypes
  <2>6. PICK A : A = C \cap Matching(C, q)
    OBVIOUS
  <2>7. Answer(q, r) = A /\ A \subseteq Nat \ {0}
    BY <1>5, <2>5, <2>6, PinnedAnswer, ReviewAssumption
  <2>8. rest = {e \in A : e > after[d]}
    BY <2>3, <2>5, <2>7 DEF Paged
  <2>9. found[d] = {e \in A : e <= after[d]}
    <3>1. PICK B \in SUBSET Entities : B = CreatedBy(at[d])
      BY DEF CreatedBy, Existing
    <3>2. WalkOK(d, q, at[d], B)
      BY <1>2, <2>2, <2>5, <3>1
    <3>3. CASE at[d] = 0
      <4>1. found[d] = {} /\ after[d] = 0
        BY <2>4, <3>2, <3>3 DEF WalkOK
      <4>2. A \subseteq Nat \ {0}
        BY <2>7
      <4>3. \A e \in A : ~(e <= 0)
        BY <4>2
      <4>4. \A e \in A : ~(e <= after[d])
        BY <4>1, <4>3
      <4>5. {e \in A : e <= after[d]} = {}
        BY <4>4, ZenonT(40)
      <4>. QED
        BY <4>1, <4>5
    <3>4. CASE at[d] # 0
      <4>1. B = C
        BY <1>5, <2>1, <2>5, <3>1, <3>4
      <4>. QED
        BY <2>4, <2>6, <3>2, <3>4, <4>1 DEF WalkOK
    <3>. QED
      BY <3>3, <3>4
  <2>10. after[d] \in Nat
    <3>1. after[d] \in Entities \cup {0}
      BY <1>1 DEF CallTypes
    <3>2. \A x \in Entities \cup {0} : x \in Nat
      BY ReviewAssumption
    <3>. QED
      BY <3>1, <3>2
  <2>11. CASE pc'[d] = "listed"
    <3>1. found'[d] = {e \in A : e <= after[d]} \cup {e \in A : e > after[d]}
      BY <2>4, <2>8, <2>9, <2>11
    <3>2. found'[d] = A
      <4>1. \A e \in A : e <= after[d] \/ e > after[d]
        BY <2>7, <2>10
      <4>. QED
        BY <3>1, <4>1
    <3>. QED
      BY <1>5, <2>5, <2>6, <2>11, <3>2 DEF WalkOK
  <2>12. CASE pc'[d] = "paging"
    <3>1. PICK m : m = after'[d]
      OBVIOUS
    <3>2. m \in rest /\ page = {e \in rest : e <= m} /\ found'[d] = found[d] \cup page
      BY <2>4, <2>12, <3>1
    <3>3. m \in A /\ m \in Nat /\ m > after[d]
      BY <2>7, <2>8, <3>2
    <3>4. \A e \in A : e \in found'[d] <=> e <= m
      BY <2>7, <2>8, <2>9, <2>10, <3>2, <3>3
    <3>5. found'[d] \subseteq A
      BY <2>8, <2>9, <3>2
    <3>6. found'[d] = {e \in A : e <= after'[d]}
      BY <3>1, <3>4, <3>5
    <3>. QED
      BY <1>5, <2>5, <2>6, <2>12, <3>6 DEF WalkOK
  <2>. QED
    BY <2>4, <2>11, <2>12
<1>8. ASSUME ~Same(d), pc'[d] \in {"paging", "listed"} PROVE WalkStarts(d) \/ Page(d)
  <2>1. ~ClosureStarts(d) /\ ~RunQuery(d) /\ ~Resolved(d) /\ ~(\E e \in Entities : Resolve(d, e))
    BY <1>1, <1>8, QueryStep, ResolvedStep, ResolveStep DEF ClosureStarts
  <2>. QED
    BY <1>1, <1>8, <2>1, CallMoves
<1>. QED
  BY <1>3, <1>4, <1>6, <1>7, <1>8
----------------------------------------------------------------------------
\* Closures.

\* What has been found of a closure, and is still to be looked at, stays what it is
\* when rows are added.
LEMMA ClosingStays ==
    ASSUME TypeOK, RowsOK, RowsStand, NEW S, NEW policy, NEW F, NEW Q, Closing(F, Q, S, policy)
    PROVE  Closing(F, Q, S, policy)'
<1>1. /\ Existing \subseteq Existing' /\ S \subseteq F /\ F \subseteq Existing /\ Q \subseteq F
      /\ \A x \in Existing : body'[x] = body[x] /\ UsedFor(x)' = UsedFor(x)
  BY DEF RowsStand, Closing
<1>2. \A x \in Existing : Contributed(policy, x)' = Contributed(policy, x)
  BY <1>1 DEF Contributed
<1>3. ASSUME policy = "input-bytes"
      PROVE  Q \subseteq S /\ F = S \cup (Objects \cap UNION {UsedFor(e)' : e \in S \ Q})
  <2>1. Q \subseteq S /\ F = S \cup (Objects \cap UNION {UsedFor(e) : e \in S \ Q})
    BY <1>3 DEF Closing
  <2>2. {UsedFor(e)' : e \in S \ Q} = {UsedFor(e) : e \in S \ Q}
    BY <1>1
  <2>. QED
    BY <2>1, <2>2
<1>4. ASSUME policy \notin {"exact", "input-bytes"}
      PROVE  Within(F, S, policy)' /\ \A x \in F \ Q : Contributed(policy, x)' \subseteq F
  <2>1. Within(F, S, policy) /\ \A x \in F \ Q : Contributed(policy, x) \subseteq F
    BY <1>4 DEF Closing
  <2>2. ASSUME NEW T \in SUBSET Existing', S \subseteq T, \A x \in T : Contributed(policy, x)' \subseteq T
        PROVE  F \subseteq T
    <3>. DEFINE U == T \cap Existing
    <3>1. U \in SUBSET Existing /\ S \subseteq U
      BY <1>1, <2>2
    <3>2. \A x \in U : Contributed(policy, x) \subseteq U
      BY <1>2, <2>2, ContributedExist
    <3>. HIDE DEF U
    <3>3. F \subseteq U
      BY <2>1, <3>1, <3>2 DEF Within, IsClosed
    <3>. QED
      BY <3>3 DEF U
  <2>3. Within(F, S, policy)'
    BY <2>2 DEF Within, IsClosed
  <2>. QED
    BY <1>1, <1>2, <2>1, <2>3
<1>5. policy = "exact" => Q = {} /\ F = S
  BY DEF Closing
<1>. QED
  BY <1>1, <1>3, <1>4, <1>5 DEF Closing

LEMMA ClosingStarts ==
    ASSUME NEW S \in SUBSET Existing, NEW policy, NEW Q, Q = IF policy = "exact" THEN {} ELSE S
    PROVE  Closing(S, Q, S, policy)
<1>1. CASE policy = "exact"
  BY <1>1 DEF Closing
<1>2. CASE policy = "input-bytes"
  BY <1>2 DEF Closing
<1>3. CASE policy \notin {"exact", "input-bytes"}
  BY <1>3 DEF Closing, Within
<1>. QED
  BY <1>1, <1>2, <1>3

LEMMA ClosingGoesOn ==
    ASSUME TypeOK, RowsOK, NEW S, NEW policy, NEW F, NEW Q, Closing(F, Q, S, policy), NEW e \in Q,
           NEW added, added = Contributed(policy, e) \ F
    PROVE  Closing(F \cup added, (Q \ {e}) \cup Queued(policy, added), S, policy)
<1>1. S \subseteq F /\ F \subseteq Existing /\ Q \subseteq F /\ policy # "exact"
  BY DEF Closing
<1>2. added \subseteq Existing /\ e \in F
  BY <1>1, ContributedExist
<1>3. CASE policy = "input-bytes"
  <2>1. Q \subseteq S /\ F = S \cup (Objects \cap UNION {UsedFor(x) : x \in S \ Q})
    BY <1>3 DEF Closing
  <2>2. added = (UsedFor(e) \cap Objects) \ F /\ Queued(policy, added) = {}
    BY <1>3 DEF Contributed, Queued
  <2>3. e \in S
    BY <2>1
  <2>4. UNION {UsedFor(x) : x \in S \ (Q \ {e})} = UsedFor(e) \cup UNION {UsedFor(x) : x \in S \ Q}
    <3>1. S \ (Q \ {e}) = (S \ Q) \cup {e}
      BY <2>3
    <3>. QED
      BY <3>1
  <2>5. F \cup added = S \cup (Objects \cap UNION {UsedFor(x) : x \in S \ (Q \ {e})})
    BY <2>1, <2>2, <2>4
  <2>. QED
    BY <1>1, <1>2, <1>3, <2>1, <2>2, <2>5 DEF Closing
<1>4. CASE policy # "input-bytes"
  <2>1. Within(F, S, policy) /\ (\A x \in F \ Q : Contributed(policy, x) \subseteq F)
    BY <1>1, <1>4 DEF Closing
  <2>2. Queued(policy, added) = added
    BY <1>4 DEF Queued
  <2>3. Within(F \cup added, S, policy)
    <3>1. ASSUME NEW T \in SUBSET Existing, S \subseteq T, IsClosed(T, policy) PROVE F \cup added \subseteq T
      <4>1. F \subseteq T
        BY <2>1, <3>1 DEF Within
      <4>2. Contributed(policy, e) \subseteq T
        BY <1>2, <3>1, <4>1 DEF IsClosed
      <4>. QED
        BY <4>1, <4>2
    <3>. QED
      BY <3>1 DEF Within
  <2>4. \A x \in (F \cup added) \ ((Q \ {e}) \cup added) : Contributed(policy, x) \subseteq F \cup added
    BY <2>1
  <2>. QED
    BY <1>1, <1>2, <1>4, <2>2, <2>3, <2>4 DEF Closing
<1>. QED
  BY <1>3, <1>4

\* The members of a selection exist.
LEMMA SelectionExists ==
    ASSUME RowsOK, NEW s \in Existing \cap FrozenSelections
    PROVE  body[s].members \in SUBSET Existing
  BY DEF RowsOK, FrozenSelections, OfKind

LEMMA ClosuresStep ==
    ASSUME TypeOK, TypeOK', RowsOK, CallsOK, CallsOK', ClosuresOK, [Next]_vars
    PROVE  ClosuresOK'
<1> SUFFICES ASSUME NEW S \in SUBSET Entities, NEW policy \in Policies
             PROVE  /\ \A c \in Calls, F, Q \in SUBSET Entities :
                           /\ pc'[c] \in {"closing", "recording"} /\ request'[c].op = "project"
                           /\ request'[c].policy = policy /\ body'[request'[c].selection].members = S
                           /\ found'[c] = F /\ queue'[c] = Q
                           => Closing(F, Q, S, policy)' /\ (pc'[c] = "recording" => Q = {})
                    /\ \A p \in Existing' \cap RecordedProjections, F \in SUBSET Entities :
                           /\ body'[p].policy = policy /\ body'[body'[p].selection].members = S
                           /\ body'[p].members = F
                           => Closing(F, {}, S, policy)'
  BY DEF ClosuresOK
<1>1. /\ CallTypes /\ RowsStand /\ Existing \subseteq Existing'
      /\ \A e \in Existing : body'[e] = body[e]
  BY TypeParts, RowsStandStep DEF RowsStand
<1>2. /\ \A c \in Calls, F, Q \in SUBSET Entities :
             /\ pc[c] \in {"closing", "recording"} /\ request[c].op = "project"
             /\ request[c].policy = policy /\ body[request[c].selection].members = S
             /\ found[c] = F /\ queue[c] = Q
             => Closing(F, Q, S, policy) /\ (pc[c] = "recording" => Q = {})
      /\ \A p \in Existing \cap RecordedProjections, F \in SUBSET Entities :
             /\ body[p].policy = policy /\ body[body[p].selection].members = S
             /\ body[p].members = F
             => Closing(F, {}, S, policy)
  BY DEF ClosuresOK
<1>3. ASSUME NEW F, NEW Q, Closing(F, Q, S, policy) PROVE Closing(F, Q, S, policy)'
  BY <1>1, <1>3, ClosingStays
<1>4. ASSUME NEW c \in Calls, pc[c] \in {"closing", "recording"}, request[c].op = "project",
             request[c].policy = policy, body'[request[c].selection].members = S
      PROVE  Closing(found[c], queue[c], S, policy) /\ (pc[c] = "recording" => queue[c] = {})
  <2>1. request[c].selection \in Existing
    BY <1>4 DEF CallsOK, CallOK
  <2>2. found[c] \in SUBSET Entities /\ queue[c] \in SUBSET Entities
    BY <1>1 DEF CallTypes
  <2>. QED
    BY <1>1, <1>2, <1>4, <2>1, <2>2
<1>5. ASSUME NEW d \in Calls, pc'[d] \in {"closing", "recording"}, request'[d].op = "project",
             request'[d].policy = policy, body'[request'[d].selection].members = S
      PROVE  Closing(found'[d], queue'[d], S, policy) /\ (pc'[d] = "recording" => queue'[d] = {})
  <2>1. CASE Same(d)
    BY <1>4, <1>5, <2>1 DEF Same
  <2>2. CASE ClosureStarts(d)
    <3>1. PICK s \in Existing \cap FrozenSelections :
              /\ pc'[d] = "closing" /\ request'[d].selection = s /\ request'[d].policy = policy
              /\ found'[d] = body[s].members
              /\ queue'[d] = IF policy = "exact" THEN {} ELSE body[s].members
      BY <1>5, <2>2 DEF ClosureStarts
    <3>2. body[s].members = S /\ S \in SUBSET Existing
      BY <1>1, <1>5, <3>1, SelectionExists
    <3>. QED
      BY <3>1, <3>2, ClosingStarts
  <2>3. ASSUME NEW e \in Entities, Resolve(d, e)
        PROVE  Closing(found'[d], queue'[d], S, policy) /\ (pc'[d] = "recording" => queue'[d] = {})
    <3>0. PICK added : added = Contributed(request[d].policy, e) \ found[d]
      OBVIOUS
    <3>1. /\ pc[d] = "closing" /\ pc'[d] = "closing" /\ request'[d] = request[d]
          /\ e \in queue[d] /\ found'[d] = found[d] \cup added
          /\ queue'[d] = (queue[d] \ {e}) \cup Queued(request[d].policy, added)
      <4>1. CallTypes
        BY <1>1
      <4>. QED
        BY <2>3, <3>0, <4>1, ResolveStep
    <3>2. request[d].policy = policy /\ Closing(found[d], queue[d], S, policy)
      BY <1>4, <1>5, <3>1
    <3>3. Closing(found[d] \cup added, (queue[d] \ {e}) \cup Queued(policy, added), S, policy)
      BY <3>0, <3>1, <3>2, ClosingGoesOn
    <3>. QED
      BY <3>1, <3>2, <3>3
  <2>4. CASE Resolved(d)
    <3>1. /\ pc[d] = "closing" /\ request'[d] = request[d]
          /\ found'[d] = found[d] /\ queue[d] = {} /\ queue'[d] = {}
      BY <1>1, <2>4, ResolvedStep
    <3>. QED
      BY <1>4, <1>5, <3>1
  <2>5. ~RunQuery(d)
    <3>1. RunQuery(d) => request'[d].op = "freeze"
      BY <1>1, QueryStep DEF CallsOK, CallOK
    <3>. QED
      BY <1>5, <3>1
  <2>6. ~Page(d)
    <3>1. Page(d) => pc'[d] \in {"paging", "listed"}
      BY <1>1 DEF Page, CallTypes
    <3>. QED
      BY <1>5, <3>1
  <2>7. ~(pc'[d] \in {"idle", "reading"}) /\ ~WalkStarts(d)
    BY <1>5 DEF WalkStarts
  <2>. QED
    BY <1>1, <2>1, <2>2, <2>3, <2>4, <2>5, <2>6, <2>7, CallMoves
<1>6. ASSUME NEW p \in Existing' \cap RecordedProjections,
             body'[p].policy = policy, body'[body'[p].selection].members = S
      PROVE  Closing(body'[p].members, {}, S, policy)
  <2>1. KindOf[p] = "projection"
    BY DEF RecordedProjections, OfKind
  <2>2. CASE p \in Existing
    <3>1. body'[p] = body[p] /\ body[p].selection \in Existing /\ body[p].members \in SUBSET Entities
      BY <1>1, <2>1, <2>2 DEF RowsOK, Existing
    <3>. QED
      BY <1>1, <1>2, <1>6, <2>2, <3>1
  <2>3. CASE p \notin Existing
    <3>1. PICK c \in Calls :
              /\ pc[c] = "recording" /\ request[c].op = "project"
              /\ body'[p] = [selection |-> request[c].selection, policy |-> request[c].policy,
                             members |-> found[c]]
      BY <2>1, <2>3, NewRow
    <3>2. Closing(found[c], queue[c], S, policy) /\ queue[c] = {}
      BY <1>4, <1>6, <3>1
    <3>. QED
      BY <3>1, <3>2
  <2>. QED
    BY <2>2, <2>3
<1>7. ASSUME NEW c \in Calls, NEW F \in SUBSET Entities, NEW Q \in SUBSET Entities,
             pc'[c] \in {"closing", "recording"}, request'[c].op = "project",
             request'[c].policy = policy, body'[request'[c].selection].members = S,
             found'[c] = F, queue'[c] = Q
      PROVE  Closing(F, Q, S, policy)' /\ (pc'[c] = "recording" => Q = {})
  <2>1. Closing(F, Q, S, policy) /\ (pc'[c] = "recording" => Q = {})
    BY <1>5, <1>7
  <2>. QED
    BY <1>3, <2>1
<1>8. ASSUME NEW p \in Existing' \cap RecordedProjections, NEW F \in SUBSET Entities,
             body'[p].policy = policy, body'[body'[p].selection].members = S, body'[p].members = F
      PROVE  Closing(F, {}, S, policy)'
  <2>1. Closing(F, {}, S, policy)
    BY <1>6, <1>8
  <2>. QED
    BY <1>3, <2>1
<1>. QED
  BY <1>7, <1>8

\* A closure of which all is looked at is the smallest closed set around its members.
LEMMA ClosureIsLeast ==
    ASSUME TypeOK, RowsOK, NEW S, NEW F, NEW policy \in {"sources", "full-provenance", "finding-context"},
           Closing(F, {}, S, policy), NEW kinds, NEW context \in BOOLEAN,
           context <=> policy = "finding-context",
           kinds = IF context THEN {"object", "artifact"} ELSE {KindOf[e] : e \in Entities}
    PROVE  F = ClosureOf(S, kinds, context)
<1>. DEFINE Related(e) == IF context /\ KindOf[e] = "finding_revision" THEN body[e].members
                          ELSE {i \in UsedFor(e) : KindOf[i] \in kinds}
<1>1. ASSUME NEW x \in Existing PROVE Related(x) = Contributed(policy, x)
  <2>1. UsedFor(x) \subseteq Entities
    BY DEF RowsOK, UsedFor, Existing
  <2>2. context => {i \in UsedFor(x) : KindOf[i] \in kinds} = UsedFor(x) \cap Facts
    BY <2>1 DEF Facts, Objects, OfKind
  <2>3. ~context => {i \in UsedFor(x) : KindOf[i] \in kinds} = UsedFor(x)
    BY <2>1
  <2>. QED
    BY <2>2, <2>3 DEF Contributed
<1>2. /\ S \subseteq F /\ F \subseteq Existing /\ Within(F, S, policy)
      /\ \A x \in F : Contributed(policy, x) \subseteq F
  BY DEF Closing
<1>3. \A e : e \in ClosureOf(S, kinds, context) <=>
          e \in Existing /\ \A T \in SUBSET Existing :
              (S \subseteq T /\ \A x \in T : Related(x) \subseteq T) => e \in T
  BY DEF ClosureOf
<1>. HIDE DEF Related
<1>4. ASSUME NEW e \in F PROVE e \in ClosureOf(S, kinds, context)
  <2>1. ASSUME NEW T \in SUBSET Existing, S \subseteq T, \A x \in T : Related(x) \subseteq T PROVE e \in T
    <3>1. \A x \in T : Contributed(policy, x) \subseteq T
      BY <1>1, <2>1
    <3>. QED
      BY <1>2, <2>1, <3>1 DEF Within, IsClosed
  <2>. QED
    BY <1>2, <1>3, <2>1
<1>5. ASSUME NEW e \in ClosureOf(S, kinds, context) PROVE e \in F
  <2>1. F \in SUBSET Existing /\ \A x \in F : Related(x) \subseteq F
    BY <1>1, <1>2
  <2>. QED
    BY <1>2, <1>3, <2>1
<1>. QED
  BY <1>4, <1>5
----------------------------------------------------------------------------
\* The theorems.

LEMMA InitIInv ==
    ASSUME Init
    PROVE  IInv
<1>1. Existing = {}
  BY DEF Init, ProvInit, Existing
<1>2. TypeOK
  BY <1>1, ReviewAssumption DEF Init, ProvInit, TypeOK, InFlight
<1>3. RowsOK
  BY <1>1, <1>2 DEF RowsOK, Init, ProvInit
<1>4. \A c \in Calls : pc[c] = "idle" /\ found[c] = {} /\ queue[c] = {}
  BY DEF Init
<1>5. CallsOK
  BY <1>4 DEF CallsOK, CallOK
<1>6. FrozenOK
  BY <1>1, <1>4 DEF FrozenOK
<1>7. WalksOK
  BY <1>4 DEF WalksOK, WalkOK
<1>8. ClosuresOK
  BY <1>1, <1>4 DEF ClosuresOK
<1>9. HistoriesAreLinear
  <2>1. ASSUME NEW f \in Findings PROVE RevisionsIn(Existing, f) = {} /\ current[f] = NoEntity
    BY <1>1 DEF RevisionsIn, Init
  <2>2. {body[r].version : r \in {}} = 1..Cardinality({})
    BY FS_EmptySet
  <2>. QED
    BY <2>1, <2>2 DEF HistoriesAreLinear
<1>. QED
  BY <1>2, <1>3, <1>5, <1>6, <1>7, <1>8, <1>9 DEF IInv

LEMMA StepIInv ==
    ASSUME IInv, [Next]_vars
    PROVE  IInv'
<1>1. TypeOK' /\ RowsOK' /\ CallsOK' /\ HistoriesAreLinear'
  BY TypeStep, RowsStep, CallsStep, HistoriesStep DEF IInv
<1>. QED
  BY <1>1, FrozenStep, WalksStep, ClosuresStep DEF IInv

\* The invariant above holds in every reachable state.
THEOREM IInvHolds == Spec => []IInv
<1>1. Init => IInv
  BY InitIInv
<1>2. IInv /\ [Next]_vars => IInv'
  BY StepIInv
<1>. QED
  BY <1>1, <1>2, PTL DEF Spec

\* Every variable keeps its type.
THEOREM TypeCorrect == Spec => []TypeOK
<1>1. IInv => TypeOK
  BY DEF IInv
<1>. QED
  BY <1>1, IInvHolds, PTL

\* However many reviewers race on a finding, its revisions are one chain of which the
\* current one is the end (records.go, ReviseFinding).
THEOREM HistoriesLinear == Spec => []HistoriesAreLinear
<1>1. IInv => HistoriesAreLinear
  BY DEF IInv
<1>. QED
  BY <1>1, IInvHolds, PTL

\* A selection has its query's answer at the revision it names, whatever was recorded
\* between the two transactions and since (query.go, Freeze).
THEOREM SelectionsFrozen == Spec => []SelectionsAreFrozen
<1>1. ASSUME IInv PROVE SelectionsAreFrozen
  <2>1. TypeOK /\ FrozenOK
    BY <1>1 DEF IInv
  <2>2. ASSUME NEW s \in Existing \cap FrozenSelections
        PROVE  body[s].members = AnswerAt(body[s].query, body[s].revision)
    <3>1. body[s].query \in Queries /\ body[s].revision \in Nat
      BY <2>1, RowTypes DEF FrozenSelections, OfKind, Selections
    <3>2. PICK C \in SUBSET Entities : C = CreatedBy(body[s].revision)
      BY DEF CreatedBy, Existing
    <3>3. body[s].members = C \cap Matching(C, body[s].query)
      BY <2>1, <3>1, <3>2 DEF FrozenOK
    <3>. QED
      BY <3>2, <3>3 DEF AnswerAt
  <2>. QED
    BY <2>2 DEF SelectionsAreFrozen
<1>. QED
  BY <1>1, IInvHolds, PTL

\* The pages of a walk by kind or descent add up to its query's answer at the revision
\* of the first, for pages of any size (query.go, QueryPage).
THEOREM PagesPinned == Spec => []PagesArePinned
<1>1. ASSUME IInv PROVE PagesArePinned
  <2>1. TypeOK /\ CallsOK /\ WalksOK /\ CallTypes
    BY <1>1, TypeParts DEF IInv
  <2>2. ASSUME NEW c \in Calls, pc[c] = "listed", request[c].query.op \in {"kind", "descendant"}
        PROVE  found[c] = AnswerAt(request[c].query, at[c])
    <3>1. request[c].query \in Queries /\ at[c] \in Nat
      BY <2>1, <2>2, RequestTypes DEF CallsOK, CallOK, CallTypes
    <3>2. PICK C \in SUBSET Entities : C = CreatedBy(at[c])
      BY DEF CreatedBy, Existing
    <3>3. WalkOK(c, request[c].query, at[c], C)
      BY <2>1, <2>2, <3>1, <3>2 DEF WalksOK
    <3>. QED
      BY <2>2, <3>2, <3>3 DEF AnswerAt, WalkOK
  <2>. QED
    BY <2>2 DEF PagesArePinned
<1>. QED
  BY <1>1, IInvHolds, PTL

\* A projection is the whole closure of its selection, though activities went on
\* between the statements that computed it (projection.go, resolveClosure).
THEOREM ProjectionsClosed == Spec => []ProjectionsAreClosed
<1>1. ASSUME IInv PROVE ProjectionsAreClosed
  <2>1. TypeOK /\ RowsOK /\ ClosuresOK
    BY <1>1 DEF IInv
  <2>2. ASSUME NEW p \in Existing \cap RecordedProjections, NEW S, NEW F, NEW policy,
               S = body[body[p].selection].members, F = body[p].members, policy = body[p].policy
        PROVE  F = CASE policy = "exact" -> S
                     [] policy = "input-bytes" -> S \cup (Objects \cap UNION {UsedFor(e) : e \in S})
                     [] policy = "finding-context" -> ClosureOf(S, {"object", "artifact"}, TRUE)
                     [] OTHER -> ClosureOf(S, {KindOf[e] : e \in Entities}, FALSE)
    <3>0. KindOf[p] = "projection"
      BY DEF RecordedProjections, OfKind
    <3>1. body[p] \in Projections /\ body[p].selection \in Existing
      BY <2>1, <3>0, RowTypes DEF RowsOK
    <3>2. policy \in Policies /\ F \in SUBSET Entities
      BY <2>2, <3>1 DEF Projections
    <3>3. body[p].selection \in FrozenSelections
      BY <3>1 DEF Projections
    <3>4. S \in SUBSET Entities
      BY <2>1, <2>2, <3>1, <3>3, RowTypes DEF FrozenSelections, OfKind, Selections
    <3>5. Closing(F, {}, S, policy)
      BY <2>1, <2>2, <3>2, <3>4 DEF ClosuresOK
    <3>6. policy \in {"exact", "input-bytes", "sources", "full-provenance", "finding-context"}
      BY <3>2, ReviewAssumption
    <3>7. CASE policy = "exact"
      BY <3>5, <3>7 DEF Closing
    <3>8. CASE policy = "input-bytes"
      <4>1. S \ {} = S
        OBVIOUS
      <4>. QED
        BY <3>5, <3>8, <4>1 DEF Closing
    <3>9. CASE policy = "finding-context"
      <4>1. F = ClosureOf(S, {"object", "artifact"}, TRUE)
        BY <2>1, <3>5, <3>9, ClosureIsLeast
      <4>. QED
        BY <3>9, <4>1
    <3>10. CASE policy \in {"sources", "full-provenance"}
      <4>1. F = ClosureOf(S, {KindOf[e] : e \in Entities}, FALSE)
        BY <2>1, <3>5, <3>10, ClosureIsLeast, ZenonT(40)
      <4>. QED
        BY <3>10, <4>1
    <3>. QED
      BY <3>6, <3>7, <3>8, <3>9, <3>10
  <2>. QED
    BY <2>2, ZenonT(40) DEF ProjectionsAreClosed
<1>. QED
  BY <1>1, IInvHolds, PTL
=============================================================================
