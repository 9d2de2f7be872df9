----------------------------- MODULE Provenance -----------------------------
(***************************************************************************)
(* What a case catalog promises about provenance, with none of the         *)
(* machinery (sealing, revisions, handles, blobs, crashes) that keeps the  *)
(* promise.  Activities declare inputs, generate entities and reach a      *)
(* terminal outcome:                                                       *)
(*                                                                         *)
(*   - an input is an entity that already exists, and no input is declared *)
(*     once the activity has an output;                                    *)
(*   - an entity is generated once, by one running activity;               *)
(*   - an outcome is reached once, and nothing is added after it.          *)
(*                                                                         *)
(* Module Activity implements this specification, and the activities that  *)
(* parser workers run are steps of it.  Derivation is then a directed      *)
(* acyclic graph, as docs/design.md says in 6.1.                           *)
(***************************************************************************)
CONSTANTS Activities,   \* activity IDs
          Entities,     \* entity IDs
          Outcomes,     \* terminal activity states
          NoActivity    \* "generated by nothing": the entity does not exist

VARIABLES state,        \* [Activities -> {"none", "running"} \cup Outcomes]
          inputs,       \* [Activities -> SUBSET Entities]
          generatedBy   \* [Entities -> Activities \cup {NoActivity}]

provVars == <<state, inputs, generatedBy>>

Outputs(a) == {e \in Entities : generatedBy[e] = a}

Existing == {e \in Entities : generatedBy[e] # NoActivity}

ProvInit ==
    /\ state = [a \in Activities |-> "none"]
    /\ inputs = [a \in Activities |-> {}]
    /\ generatedBy = [e \in Entities |-> NoActivity]

Begin(a) ==
    /\ state[a] = "none"
    /\ state' = [state EXCEPT ![a] = "running"]
    /\ UNCHANGED <<inputs, generatedBy>>

Declare(a, e) ==
    /\ state[a] = "running"
    /\ Outputs(a) = {}
    /\ e \in Existing
    /\ inputs' = [inputs EXCEPT ![a] = @ \cup {e}]
    /\ UNCHANGED <<state, generatedBy>>

Generate(a, e) ==
    /\ state[a] = "running"
    /\ e \notin Existing
    /\ generatedBy' = [generatedBy EXCEPT ![e] = a]
    /\ UNCHANGED <<state, inputs>>

\* One activity finishing, or several interrupted together.
Terminate(S, o) ==
    /\ \A a \in S : state[a] = "running"
    /\ state' = [a \in Activities |-> IF a \in S THEN o ELSE state[a]]
    /\ UNCHANGED <<inputs, generatedBy>>

\* An activity that begins, uses, generates and ends in one step.
Record(a, used, e, o) ==
    /\ state[a] = "none"
    /\ used \subseteq Existing
    /\ e \notin Existing
    /\ state' = [state EXCEPT ![a] = o]
    /\ inputs' = [inputs EXCEPT ![a] = used]
    /\ generatedBy' = [generatedBy EXCEPT ![e] = a]

ProvNext ==
    \/ \E a \in Activities : Begin(a)
    \/ \E a \in Activities, e \in Entities : Declare(a, e) \/ Generate(a, e)
    \/ \E S \in SUBSET Activities, o \in Outcomes : Terminate(S, o)
    \/ \E a \in Activities, used \in SUBSET Entities, e \in Entities, o \in Outcomes :
           Record(a, used, e, o)

ProvSpec == ProvInit /\ [][ProvNext]_provVars

\* Of any entities, one was made from none of them.
Acyclic == \A S \in SUBSET Existing : S # {} => \E e \in S : inputs[generatedBy[e]] \cap S = {}
=============================================================================
