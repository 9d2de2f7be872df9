------------------------- MODULE CaseRegistryProofs -------------------------
(***************************************************************************)
(* Proofs about module CaseRegistry, for every set of cases, names, keys   *)
(* and operations: what the registry offers is published and stays so, a   *)
(* lease goes by its holder or its time, a catalog is upgraded once.       *)
(*                                                                         *)
(* Whoever renames a directory has either seen or written its marker and   *)
(* its catalog, or somebody has renamed it before: WriterOK says it of the *)
(* operation that writes the directory, RenamerOK of those that rename it, *)
(* and PublishedOK of what they have published.                            *)
(***************************************************************************)
EXTENDS CaseRegistry, TLAPS

\* An operation that has begun has a case; before, it has written nothing.
TargetOK ==
    \A o \in Ops : IF opPc[o] = "idle" THEN written[o] = 0 ELSE target[o] \in Cases

\* A published directory is valid, and every row has a name.
PublishedOK ==
    \A c \in Cases :
        /\ final[c] # {} => Valid(final[c])
        /\ registry[c] # "none" => nameOf[c] # NoName
        /\ registry[c] \in {"active", "maintenance"} => final[c] # {}

\* What has been written stands in the partial directory until that is published.
WriterOK ==
    \A o \in Ops : opPc[o] = "writing" =>
        /\ kind[o] \in {"create", "restore"}
        /\ registry[target[o]] # "none"
        /\ written[o] < Len(Order(o))
        /\ \/ final[target[o]] # {}
           \/ \A i \in 1..written[o] : Order(o)[i] \in partial[target[o]]

RenamerOK ==
    \A o \in Ops :
        /\ opPc[o] \in {"renaming", "publishing"} =>
               final[target[o]] # {} \/ Valid(partial[target[o]])
        /\ opPc[o] \in {"activating", "registering"} => final[target[o]] # {}
        /\ opPc[o] \in {"renaming", "activating"} => registry[target[o]] # "none"

IInv == TypeOK /\ TargetOK /\ PublishedOK /\ WriterOK /\ RenamerOK /\ UpgradedOnce
----------------------------------------------------------------------------
USE RegistryAssumption

LEMMA CatalogNames == \A c : CatalogName(c) \in Names
  BY DEF CatalogName

\* The two orders, part by part.
LEMMA Orders ==
    ASSUME NEW o \in Ops
    PROVE  /\ kind[o] = "create" =>
                  /\ Len(Order(o)) = 3
                  /\ Order(o)[1] = "dir" /\ Order(o)[2] = "marker" /\ Order(o)[3] = "catalog"
           /\ kind[o] # "create" =>
                  /\ Len(Order(o)) = 4
                  /\ Order(o)[1] = "dir" /\ Order(o)[2] = "catalog"
                  /\ Order(o)[3] = "marker" /\ Order(o)[4] = "blobs"
  BY DEF Order

LEMMA InitIInv == Init => IInv
<1> SUFFICES ASSUME Init PROVE IInv
  OBVIOUS
<1>1. TypeOK
  BY DEF Init, TypeOK, OpPcs, OpKinds, Parts
<1>2. TargetOK /\ WriterOK /\ RenamerOK
  BY DEF Init, TargetOK, WriterOK, RenamerOK
<1>3. PublishedOK /\ UpgradedOnce
  BY DEF Init, PublishedOK, UpgradedOnce, Valid, Parts
<1>. QED
  BY <1>1, <1>2, <1>3 DEF IInv

\* What one operation may do.
Moves(o) ==
    \/ \E c \in Cases :
          \/ \E n \in Names, k \in Keys \cup {NoKey} : CreateCase(o, c, n, k)
          \/ RestoreCase(o, c) \/ StartRecover(o, c) \/ StartMigrate(o, c)
          \/ StartOpen(o, c)
    \/ \E k \in Keys : ReplayCreate(o, k)
    \/ WritePart(o) \/ Publish(o) \/ Activate(o)
    \/ Inspect(o) \/ RecoverPublish(o) \/ Register(o)
    \/ AcquireLease(o) \/ Upgrade(o) \/ EndWork(o) \/ ReleaseLease(o)
    \/ LookUp(o) \/ Attach(o)
    \/ Fail(o) \/ Crash(o)

LEMMA StepCases ==
    ASSUME [Next]_vars
    PROVE  (\E o \in Ops : Moves(o)) \/ (\E c \in Cases : Expire(c)) \/ UNCHANGED vars
  BY DEF Next, Moves

USE DEF At, Goto, Begin
----------------------------------------------------------------------------
\* Types.

LEMMA TypeStep ==
    ASSUME TypeOK, TargetOK, WriterOK, [Next]_vars
    PROVE  TypeOK'
<1> USE DEF TypeOK, OpPcs, OpKinds, Migrating, db, fs, ops
<1>1. ASSUME NEW o \in Ops, NEW c \in Cases, NEW n \in Names, NEW k \in Keys \cup {NoKey},
             CreateCase(o, c, n, k)
      PROVE  TypeOK'
  BY <1>1 DEF CreateCase, Reserve
<1>2. ASSUME NEW o \in Ops, NEW c \in Cases, RestoreCase(o, c) PROVE TypeOK'
  BY <1>2, CatalogNames DEF RestoreCase, Reserve
<1>3. ASSUME NEW o \in Ops, NEW c \in Cases,
             StartRecover(o, c) \/ StartMigrate(o, c) \/ StartOpen(o, c)
      PROVE  TypeOK'
  BY <1>3 DEF StartRecover, StartMigrate, StartOpen
<1>4. ASSUME NEW o \in Ops, NEW k \in Keys, ReplayCreate(o, k) PROVE TypeOK'
  BY <1>4 DEF ReplayCreate
<1>5. ASSUME NEW o \in Ops, WritePart(o) PROVE TypeOK'
  <2>1. target[o] \in Cases /\ written[o] < Len(Order(o))
    BY <1>5 DEF WritePart, TargetOK, WriterOK
  <2>2. written[o] + 1 \in {1, 2, 3, 4} /\ written[o] + 1 <= Len(Order(o))
    <3>1. Len(Order(o)) = 3 \/ Len(Order(o)) = 4
      BY Orders
    <3>2. written[o] \in 0..4
      OBVIOUS
    <3>. HIDE DEF TypeOK
    <3>3. CASE Len(Order(o)) = 3
      BY <2>1, <3>2, <3>3
    <3>4. CASE Len(Order(o)) = 4
      BY <2>1, <3>2, <3>4
    <3>. QED
      BY <3>1, <3>3, <3>4
  <2>3. Order(o)[written[o] + 1] \in Parts
    BY <2>2, Orders DEF Parts
  <2>4. written[o] + 1 \in 0..4
    BY <2>2
  <2>5. partial' \in [Cases -> SUBSET Parts] /\ written' \in [Ops -> 0..4]
    BY <1>5, <2>1, <2>3, <2>4 DEF WritePart, Parts
  <2>6. opPc' \in [Ops -> OpPcs]
    BY <1>5 DEF WritePart
  <2>. QED
    BY <1>5, <2>5, <2>6 DEF WritePart
<1>6. ASSUME NEW o \in Ops, Publish(o) \/ RecoverPublish(o) PROVE TypeOK'
  BY <1>6 DEF Publish, RecoverPublish, Rename, TargetOK
<1>7. ASSUME NEW o \in Ops, Activate(o) \/ Inspect(o) PROVE TypeOK'
  BY <1>7 DEF Activate, Inspect
<1>8. ASSUME NEW o \in Ops, Register(o) PROVE TypeOK'
  <2>1. target[o] \in Cases
    BY <1>8 DEF Register, TargetOK
  <2>2. nameOf' \in [Cases -> Names \cup {NoName}]
    BY <1>8, <2>1, CatalogNames DEF Register
  <2>. QED
    BY <1>8, <2>1, <2>2 DEF Register
<1>9. ASSUME NEW o \in Ops, AcquireLease(o) PROVE TypeOK'
  <2>1. target[o] \in Cases /\ NoOp \notin Ops
    BY <1>9 DEF AcquireLease, TargetOK
  <2>. QED
    BY <1>9, <2>1 DEF AcquireLease
<1>10. ASSUME NEW o \in Ops, Upgrade(o) \/ EndWork(o) \/ LookUp(o) \/ Attach(o)
                             \/ Fail(o) \/ Crash(o)
       PROVE  TypeOK'
  BY <1>10 DEF Upgrade, EndWork, LookUp, Attach, Fail, Crash
<1>11. ASSUME NEW o \in Ops, ReleaseLease(o) PROVE TypeOK'
  <2>1. target[o] \in Cases
    BY <1>11 DEF ReleaseLease, TargetOK
  <2>2. lease' \in [Cases -> Ops \cup {NoOp}] /\ expired' \subseteq {c \in Cases : lease'[c] # NoOp}
    BY <1>11, <2>1 DEF ReleaseLease, Lapsed, Released
  <2>3. registry' \in [Cases -> {"none", "creating", "active", "maintenance"}]
    BY <1>11 DEF ReleaseLease
  <2>. QED
    BY <1>11, <2>2, <2>3 DEF ReleaseLease
<1>12. ASSUME NEW c \in Cases, Expire(c) PROVE TypeOK'
  BY <1>12 DEF Expire
<1>13. ASSUME UNCHANGED vars PROVE TypeOK'
  BY <1>13 DEF vars
<1>. QED
  BY <1>1, <1>2, <1>3, <1>4, <1>5, <1>6, <1>7, <1>8, <1>9, <1>10, <1>11, <1>12, <1>13,
     StepCases DEF Moves
----------------------------------------------------------------------------
\* The directories.

\* A step publishes or keeps each final directory, and takes a partial one away
\* only by publishing it.
LEMMA DirectoriesKept ==
    ASSUME TypeOK, TargetOK, [Next]_vars, NEW c \in Cases
    PROVE  /\ final[c] # {} => final'[c] = final[c]
           /\ partial[c] \subseteq partial'[c] \/ (final'[c] = partial[c] /\ final'[c] # {})
           /\ registry[c] # "none" => registry'[c] # "none"
<1> USE DEF TypeOK, db, fs, ops
<1>1. ASSUME NEW o \in Ops, Moves(o), ~WritePart(o), ~Publish(o), ~RecoverPublish(o)
      PROVE  partial' = partial /\ final' = final
  BY <1>1 DEF Moves, CreateCase, RestoreCase, StartRecover, StartMigrate, StartOpen,
              ReplayCreate, Activate, Inspect, Register, AcquireLease, Upgrade, EndWork,
              ReleaseLease, LookUp, Attach, Fail, Crash
<1>2. ASSUME NEW o \in Ops, WritePart(o)
      PROVE  final' = final /\ partial[c] \subseteq partial'[c]
  BY <1>2 DEF WritePart
<1>3. ASSUME NEW o \in Ops, Publish(o) \/ RecoverPublish(o)
      PROVE  /\ final[c] # {} => final'[c] = final[c]
             /\ partial'[c] = partial[c] \/ (final'[c] = partial[c] /\ final'[c] # {})
  <2>1. target[o] \in Cases /\ Rename(target[o])
    BY <1>3 DEF Publish, RecoverPublish, TargetOK
  <2>. QED
    BY <2>1 DEF Rename, CanRename
<1>4. ASSUME NEW d \in Cases, Expire(d) PROVE partial' = partial /\ final' = final
  BY <1>4 DEF Expire
<1>5. registry[c] # "none" => registry'[c] # "none"
  BY SMTT(40) DEF Next, CreateCase, RestoreCase, Reserve, StartRecover, StartMigrate, StartOpen,
         ReplayCreate, WritePart, Publish, RecoverPublish, Activate, Inspect, Register,
         AcquireLease, Upgrade, EndWork, ReleaseLease, LookUp, Attach, Fail, Crash, Expire,
         vars
<1>. QED
  <2>1. CASE \E o \in Ops : Moves(o)
    BY <2>1, <1>1, <1>2, <1>3, <1>5
  <2>2. CASE UNCHANGED vars
    BY <2>2, <1>5 DEF vars
  <2>. QED
    BY <2>1, <2>2, <1>4, <1>5, StepCases
----------------------------------------------------------------------------
\* The operations.

LEMMA TargetStep ==
    ASSUME TypeOK, TargetOK, [Next]_vars
    PROVE  TargetOK'
<1> USE DEF TypeOK, TargetOK
<1>1. ASSUME NEW o \in Ops, NEW c \in Cases,
             \/ \E n \in Names, k \in Keys \cup {NoKey} : CreateCase(o, c, n, k)
             \/ RestoreCase(o, c) \/ StartRecover(o, c) \/ StartMigrate(o, c)
             \/ StartOpen(o, c)
      PROVE  TargetOK'
  BY <1>1 DEF CreateCase, RestoreCase, StartRecover, StartMigrate, StartOpen
<1>2. ASSUME NEW o \in Ops, NEW k \in Keys, ReplayCreate(o, k) PROVE TargetOK'
  BY <1>2 DEF ReplayCreate
<1>3. ASSUME NEW o \in Ops, WritePart(o) PROVE TargetOK'
  BY <1>3 DEF WritePart
<1>4. ASSUME NEW o \in Ops,
             \/ Publish(o) \/ Activate(o) \/ Inspect(o) \/ RecoverPublish(o) \/ Register(o)
             \/ AcquireLease(o) \/ Upgrade(o) \/ EndWork(o) \/ ReleaseLease(o)
             \/ LookUp(o) \/ Attach(o) \/ Fail(o) \/ Crash(o)
      PROVE  TargetOK'
  BY <1>4 DEF Publish, Activate, Inspect, RecoverPublish, Register, AcquireLease, Upgrade,
              EndWork, ReleaseLease, LookUp, Attach, Fail, Crash
<1>5. ASSUME NEW c \in Cases, Expire(c) PROVE TargetOK'
  BY <1>5 DEF Expire, ops
<1>6. ASSUME UNCHANGED vars PROVE TargetOK'
  BY <1>6 DEF vars, ops
<1>. QED
  BY <1>1, <1>2, <1>3, <1>4, <1>5, <1>6, StepCases DEF Moves

\* Another operation, or none, is at work: the partial directory of a writer is
\* only added to or published.
LEMMA WriterStep ==
    ASSUME TypeOK, TargetOK, WriterOK, [Next]_vars
    PROVE  WriterOK'
<1> USE DEF TypeOK, TargetOK
<1>0. ASSUME NEW o \in Ops, WriterOK,
             opPc[o] = "writing" /\ opPc'[o] = "writing",
             UNCHANGED <<kind[o], target[o], written[o]>>
      PROVE  /\ kind'[o] \in {"create", "restore"}
             /\ registry'[target'[o]] # "none"
             /\ written'[o] < Len(Order(o)')
             /\ \/ final'[target'[o]] # {}
                \/ \A i \in 1..written'[o] : Order(o)'[i] \in partial'[target'[o]]
  <2>1. Order(o)' = Order(o)
    BY <1>0 DEF Order
  <2>2. target[o] \in Cases
    BY <1>0
  <2>. QED
    BY <1>0, <2>1, <2>2, DirectoriesKept DEF WriterOK
<1>1. ASSUME NEW o \in Ops, NEW c \in Cases,
             \/ \E n \in Names, k \in Keys \cup {NoKey} : CreateCase(o, c, n, k)
             \/ RestoreCase(o, c)
      PROVE  WriterOK'
  <2>1. /\ kind' = [kind EXCEPT ![o] = kind'[o]] /\ kind'[o] \in {"create", "restore"}
        /\ target' = [target EXCEPT ![o] = c] /\ opPc' = [opPc EXCEPT ![o] = "writing"]
        /\ written' = written /\ written[o] = 0 /\ registry'[c] = "creating"
    BY <1>1 DEF CreateCase, RestoreCase, Reserve
  <2>2. Len(Order(o)') > 0
    BY <2>1 DEF Order
  <2>3. /\ kind'[o] \in {"create", "restore"} /\ registry'[target'[o]] # "none"
        /\ written'[o] < Len(Order(o)')
        /\ \A i \in 1..written'[o] : Order(o)'[i] \in partial'[target'[o]]
    BY <2>1, <2>2
  <2>4. ASSUME NEW p \in Ops, p # o, opPc'[p] = "writing"
        PROVE  opPc[p] = "writing" /\ UNCHANGED <<kind[p], target[p], written[p]>>
    BY <2>1, <2>4
  <2>. QED
    BY <2>3, <2>4, <1>0 DEF WriterOK
<1>2. ASSUME NEW o \in Ops, WritePart(o) PROVE WriterOK'
  <2> DEFINE c == target[o]
             part == Order(o)[written[o] + 1]
  <2>1. /\ c \in Cases /\ opPc[o] = "writing"
        /\ kind' = kind /\ target' = target /\ final' = final /\ registry' = registry
        /\ written' = [written EXCEPT ![o] = @ + 1]
        /\ partial' = [partial EXCEPT ![c] = @ \cup {"dir", part}]
        /\ IF written[o] + 1 = Len(Order(o)) THEN opPc' = [opPc EXCEPT ![o] = "renaming"]
           ELSE opPc' = opPc
    BY <1>2 DEF WritePart, db
  <2>2. Order(o)' = Order(o)
    BY <2>1 DEF Order
  <2>3. /\ kind[o] \in {"create", "restore"} /\ registry[c] # "none"
        /\ written[o] < Len(Order(o))
        /\ final[c] # {} \/ \A i \in 1..written[o] : Order(o)[i] \in partial[c]
    BY <2>1 DEF WriterOK
  <2>4. /\ written'[o] = written[o] + 1 /\ written[o] \in Nat
        /\ part \in partial'[c] /\ partial[c] \subseteq partial'[c]
    <3>1. written'[o] = written[o] + 1 /\ written[o] \in Nat
      <4>1. written[o] \in 0..4
        OBVIOUS
      <4>2. written'[o] = written[o] + 1
        BY <2>1
      <4>. QED
        BY <4>1, <4>2
    <3>2. partial'[c] = partial[c] \cup {"dir", part}
      BY <2>1
    <3> HIDE DEF part, c
    <3>. QED
      BY <3>1, <3>2
  <2>5. Len(Order(o)) \in Nat
    BY Orders
  <2>6. ASSUME opPc'[o] = "writing" PROVE written'[o] < Len(Order(o)')
    BY <2>1, <2>2, <2>3, <2>4, <2>5, <2>6
  <2> HIDE DEF c
  <2>7. ASSUME final[c] = {}, NEW i \in 1..written'[o] PROVE Order(o)[i] \in partial'[c]
    <3>1. i \in 1..written[o] \/ i = written[o] + 1
      BY <2>4, <2>7
    <3>2. CASE i \in 1..written[o]
      BY <3>2, <2>3, <2>4, <2>7
    <3>3. CASE i = written[o] + 1
      BY <3>3, <2>4
    <3>. QED
      BY <3>1, <3>2, <3>3
  <2>8. \/ final'[c] # {}
        \/ \A i \in 1..written'[o] : Order(o)'[i] \in partial'[c]
    BY <2>1, <2>2, <2>7
  <2>9. target'[o] = c /\ kind'[o] = kind[o] /\ registry'[c] = registry[c]
    BY <2>1 DEF c
  <2>10. ASSUME NEW p \in Ops, p # o, opPc'[p] = "writing"
         PROVE  opPc[p] = "writing" /\ UNCHANGED <<kind[p], target[p], written[p]>>
    BY <2>1, <2>10
  <2>. QED
    BY <2>3, <2>6, <2>8, <2>9, <2>10, <1>0 DEF WriterOK
<1>3. ASSUME \A p \in Ops : opPc'[p] = "writing" =>
                 opPc[p] = "writing" /\ UNCHANGED <<kind[p], target[p], written[p]>>
      PROVE  WriterOK'
  BY <1>3, <1>0 DEF WriterOK
<1>4. ASSUME NEW o \in Ops, NEW p \in Ops, opPc'[p] = "writing",
             \/ \E c \in Cases : StartRecover(o, c) \/ StartMigrate(o, c) \/ StartOpen(o, c)
             \/ \E k \in Keys : ReplayCreate(o, k)
             \/ Publish(o) \/ Activate(o) \/ Inspect(o) \/ RecoverPublish(o) \/ Register(o)
             \/ AcquireLease(o) \/ Upgrade(o) \/ EndWork(o) \/ ReleaseLease(o)
             \/ LookUp(o) \/ Attach(o) \/ Fail(o) \/ Crash(o)
      PROVE  opPc[p] = "writing" /\ UNCHANGED <<kind[p], target[p], written[p]>>
  BY <1>4 DEF StartRecover, StartMigrate, StartOpen, ReplayCreate, Publish, Activate, Inspect,
              RecoverPublish, Register, AcquireLease, Upgrade, EndWork, ReleaseLease, LookUp,
              Attach, Fail, Crash
<1>5. ASSUME (\E c \in Cases : Expire(c)) \/ UNCHANGED vars PROVE WriterOK'
  BY <1>5, <1>3 DEF Expire, vars, ops
<1>. QED
  BY <1>1, <1>2, <1>3, <1>4, <1>5, StepCases DEF Moves

\* A rename that is about to happen finds a valid directory, or none.
LEMMA RenamerStep ==
    ASSUME TypeOK, TargetOK, PublishedOK, WriterOK, RenamerOK, [Next]_vars
    PROVE  RenamerOK'
<1> USE DEF TypeOK, TargetOK
<1>0. ASSUME NEW o \in Ops, UNCHANGED <<opPc[o], target[o]>>
      PROVE  /\ opPc'[o] \in {"renaming", "publishing"} =>
                    final'[target'[o]] # {} \/ Valid(partial'[target'[o]])
             /\ opPc'[o] \in {"activating", "registering"} => final'[target'[o]] # {}
             /\ opPc'[o] \in {"renaming", "activating"} => registry'[target'[o]] # "none"
  <2>1. CASE opPc[o] = "idle"
    BY <1>0, <2>1
  <2>2. CASE target[o] \in Cases
    BY <1>0, <2>2, DirectoriesKept DEF RenamerOK, Valid
  <2>. QED
    BY <2>1, <2>2
\* Only the operation at work changes its place.
<1>1. ASSUME NEW o \in Ops, Moves(o), NEW p \in Ops, p # o
      PROVE  UNCHANGED <<opPc[p], target[p]>>
  BY <1>1 DEF Moves, CreateCase, RestoreCase, StartRecover, StartMigrate, StartOpen,
              ReplayCreate, WritePart, Publish, RecoverPublish, Activate, Inspect, Register,
              AcquireLease, Upgrade, EndWork, ReleaseLease, LookUp, Attach, Fail, Crash, ops
<1>2. ASSUME NEW o \in Ops, Moves(o)
      PROVE  \/ opPc'[o] \notin {"renaming", "publishing", "activating", "registering"}
             \/ WritePart(o) /\ (opPc'[o] = "renaming" \/ opPc' = opPc)
             \/ Publish(o) \/ Inspect(o) \/ RecoverPublish(o)
  BY <1>2 DEF Moves, CreateCase, RestoreCase, StartRecover, StartMigrate, StartOpen,
              ReplayCreate, WritePart, Activate, Register,
              AcquireLease, Upgrade, EndWork, ReleaseLease, LookUp, Attach, Fail, Crash
<1>3. ASSUME NEW o \in Ops, WritePart(o), opPc'[o] = "renaming"
      PROVE  /\ final'[target'[o]] # {} \/ Valid(partial'[target'[o]])
             /\ registry'[target'[o]] # "none"
  <2> DEFINE c == target[o]
  <2>1. /\ c \in Cases /\ opPc[o] = "writing" /\ target'[o] = c /\ final' = final
        /\ registry' = registry
        /\ partial'[c] = partial[c] \cup {"dir", Order(o)[written[o] + 1]}
        /\ written[o] + 1 = Len(Order(o))
    BY <1>3 DEF WritePart, db
  <2>2. /\ kind[o] \in {"create", "restore"} /\ registry[c] # "none"
        /\ final[c] # {} \/ \A i \in 1..written[o] : Order(o)[i] \in partial[c]
    BY <2>1 DEF WriterOK
  <2>3. CASE kind[o] = "create" /\ final[c] = {}
    <3>0. written[o] \in 0..4 /\ Len(Order(o)) = 3
      BY <2>3, Orders
    <3>1. written[o] = 2 /\ Order(o)[2] = "marker" /\ Order(o)[3] = "catalog"
      <4>1. written[o] = 2
        <5> HIDE DEF TypeOK
        <5>. QED
          BY <2>1, <3>0
      <4>. QED
        BY <2>3, <4>1, Orders
    <3>2. Order(o)[2] \in partial[c]
      BY <2>2, <2>3, <3>1
    <3>. QED
      BY <2>1, <2>2, <3>1, <3>2 DEF Valid
  <2>4. CASE kind[o] = "restore" /\ final[c] = {}
    <3>0. written[o] \in 0..4 /\ Len(Order(o)) = 4
      BY <2>4, Orders
    <3>1. written[o] = 3 /\ Order(o)[2] = "catalog" /\ Order(o)[3] = "marker"
      <4>1. written[o] = 3
        <5> HIDE DEF TypeOK
        <5>. QED
          BY <2>1, <3>0
      <4>. QED
        BY <2>4, <4>1, Orders
    <3>2. Order(o)[2] \in partial[c] /\ Order(o)[3] \in partial[c]
      BY <2>2, <2>4, <3>1
    <3>. QED
      BY <2>1, <2>2, <3>1, <3>2 DEF Valid
  <2>. QED
    BY <2>1, <2>2, <2>3, <2>4
<1>4. ASSUME NEW o \in Ops, Publish(o)
      PROVE  /\ opPc'[o] = "activating" /\ final'[target'[o]] # {}
             /\ registry'[target'[o]] # "none"
  BY <1>4 DEF Publish, Rename, CanRename, RenamerOK, db
<1>5. ASSUME NEW o \in Ops, RecoverPublish(o)
      PROVE  opPc'[o] = "registering" /\ final'[target'[o]] # {}
  BY <1>5 DEF RecoverPublish, Rename, CanRename
<1>6. ASSUME NEW o \in Ops, Inspect(o)
      PROVE  \/ opPc'[o] = "publishing" /\ Valid(partial'[target'[o]])
             \/ opPc'[o] = "registering" /\ final'[target'[o]] # {}
  BY <1>6 DEF Inspect, fs
<1>7. ASSUME NEW o \in Ops, Moves(o) PROVE RenamerOK'
  <2>1. /\ opPc'[o] \in {"renaming", "publishing"} =>
               final'[target'[o]] # {} \/ Valid(partial'[target'[o]])
        /\ opPc'[o] \in {"activating", "registering"} => final'[target'[o]] # {}
        /\ opPc'[o] \in {"renaming", "activating"} => registry'[target'[o]] # "none"
    <3>1. CASE WritePart(o) /\ opPc' = opPc
      BY <3>1 DEF WritePart
    <3>. QED
      BY <1>7, <1>2, <1>3, <1>4, <1>5, <1>6, <3>1
  <2>. QED
    BY <1>7, <1>0, <1>1, <2>1, ZenonT(40) DEF RenamerOK
<1>8. ASSUME (\E c \in Cases : Expire(c)) \/ UNCHANGED vars PROVE RenamerOK'
  BY <1>8, <1>0 DEF Expire, vars, ops, RenamerOK
<1>. QED
  BY <1>7, <1>8, StepCases

LEMMA PublishedStep ==
    ASSUME TypeOK, TargetOK, PublishedOK, RenamerOK, [Next]_vars
    PROVE  PublishedOK'
<1> USE DEF TypeOK, TargetOK
<1>1. ASSUME NEW c \in Cases, final'[c] # {} PROVE Valid(final'[c])
  <2>1. CASE final[c] # {}
    BY <2>1, DirectoriesKept DEF PublishedOK
  <2>2. CASE final[c] = {}
    <3>1. PICK o \in Ops : Publish(o) \/ RecoverPublish(o)
      BY <1>1, <2>2, StepCases
      DEF Moves, CreateCase, RestoreCase, StartRecover, StartMigrate, StartOpen,
          ReplayCreate, WritePart, Activate, Inspect, Register, AcquireLease, Upgrade,
          EndWork, ReleaseLease, LookUp, Attach, Fail, Crash, Expire, vars, fs
    <3>2. /\ target[o] \in Cases /\ opPc[o] \in {"renaming", "publishing"}
          /\ final[target[o]] = {} /\ final' = [final EXCEPT ![target[o]] = partial[target[o]]]
      BY <3>1 DEF Publish, RecoverPublish, Rename, CanRename
    <3>. QED
      BY <1>1, <2>2, <3>2 DEF RenamerOK
  <2>. QED
    BY <2>1, <2>2
<1>2. ASSUME NEW c \in Cases, registry'[c] # "none" PROVE nameOf'[c] # NoName
  BY <1>2, CatalogNames, SMTT(40)
  DEF PublishedOK, Next, CreateCase, RestoreCase, Reserve, StartRecover, StartMigrate,
      StartOpen, ReplayCreate, WritePart, Publish, RecoverPublish, Activate, Inspect, Register,
      RenamerOK, AcquireLease, Upgrade, EndWork, ReleaseLease, LookUp, Attach, Fail, Crash,
      Expire, vars, db
<1>3. ASSUME NEW c \in Cases, registry'[c] \in {"active", "maintenance"} PROVE final'[c] # {}
  <2>1. CASE registry[c] \in {"active", "maintenance"}
    BY <2>1, DirectoriesKept DEF PublishedOK
  <2>2. CASE registry[c] \notin {"active", "maintenance"}
    <3>1. PICK o \in Ops : Activate(o) \/ Register(o)
      BY <1>3, <2>2, StepCases
      DEF Moves, CreateCase, RestoreCase, Reserve, StartRecover, StartMigrate, StartOpen,
          ReplayCreate, WritePart, Publish, RecoverPublish, Inspect, AcquireLease, Upgrade,
          EndWork, ReleaseLease, LookUp, Attach, Fail, Crash, Expire, vars, db
    <3>2. target[o] = c /\ opPc[o] \in {"activating", "registering"}
      BY <1>3, <2>2, <3>1 DEF Activate, Register
    <3>. QED
      BY <3>2, DirectoriesKept DEF RenamerOK
  <2>. QED
    BY <2>1, <2>2
<1>. QED
  BY <1>1, <1>2, <1>3 DEF PublishedOK

LEMMA UpgradedStep ==
    ASSUME TypeOK, TargetOK, UpgradedOnce, [Next]_vars
    PROVE  UpgradedOnce'
<1>1. ASSUME NEW c \in Cases PROVE upgrades'[c] <= 1
  <2>1. CASE \E o \in Ops : Upgrade(o)
    BY <2>1 DEF Upgrade, NotUpgraded, UpgradedOnce, TypeOK
  <2>2. CASE upgrades' = upgrades
    BY <2>2 DEF UpgradedOnce
  <2>. QED
    BY <2>1, <2>2, StepCases
    DEF Moves, CreateCase, RestoreCase, StartRecover, StartMigrate, StartOpen,
        ReplayCreate, WritePart, Publish, RecoverPublish, Rename, Activate, Inspect, Register,
        AcquireLease, EndWork, ReleaseLease, LookUp, Attach, Fail, Crash, Expire, vars, fs
<1>. QED
  BY <1>1 DEF UpgradedOnce
----------------------------------------------------------------------------
(* The theorems. *)

\* In every behaviour of creations, restores, recoveries, migrations and opens.
THEOREM IInvHolds == Spec => []IInv
<1>1. ASSUME IInv, [Next]_vars PROVE IInv'
  <2>1. TypeOK' /\ TargetOK' /\ WriterOK'
    BY <1>1, TypeStep, TargetStep, WriterStep DEF IInv
  <2>2. PublishedOK' /\ RenamerOK' /\ UpgradedOnce'
    BY <1>1, PublishedStep, RenamerStep, UpgradedStep DEF IInv
  <2>. QED
    BY <2>1, <2>2 DEF IInv
<1>. QED
  BY InitIInv, <1>1, PTL DEF Spec

\* Every variable keeps its type.
THEOREM TypeCorrect == Spec => []TypeOK
<1>1. IInv => TypeOK
  BY DEF IInv
<1>. QED
  BY IInvHolds, <1>1, PTL

\* What the registry offers is a published directory with marker and catalog.
THEOREM OffersArePublished == Spec => []RegisteredIsPublished
<1>1. IInv => RegisteredIsPublished
  BY DEF IInv, PublishedOK, RegisteredIsPublished, Valid
<1>. QED
  BY IInvHolds, <1>1, PTL

\* A catalog of the old schema is upgraded at most once.
THEOREM Upgrades == Spec => []UpgradedOnce
<1>1. IInv => UpgradedOnce
  BY DEF IInv
<1>. QED
  BY IInvHolds, <1>1, PTL

\* No step replaces, removes or renames away a published directory.
THEOREM DirectoriesStay == Spec => PublishedIsKept
<1>1. IInv /\ [Next]_vars => [\A c \in Cases : final[c] # {} => final'[c] = final[c]]_vars
  BY DirectoriesKept DEF IInv
<1>. QED
  BY IInvHolds, <1>1, PTL DEF Spec, PublishedIsKept

\* A lease that has not run out goes by its holder's release alone.
THEOREM LeasesStay == Spec => LeaseIsKept
<1> DEFINE A == \A c \in Cases, o \in Ops :
                    (lease[c] = o /\ c \notin expired /\ lease'[c] # o) => ReleaseLease(o)
<1>1. ASSUME IInv, Next, NEW c \in Cases, NEW o \in Ops,
             lease[c] = o, c \notin expired, lease'[c] # o
      PROVE  ReleaseLease(o)
  <2>1. PICK p \in Ops : AcquireLease(p) \/ ReleaseLease(p)
    BY <1>1
    DEF Next, CreateCase, RestoreCase, Reserve, StartRecover, StartMigrate, StartOpen,
        ReplayCreate, WritePart, Publish, RecoverPublish, Activate, Inspect, Register,
        Upgrade, EndWork, LookUp, Attach, Fail, Crash, Expire, db
  <2>2. ~AcquireLease(p)
    BY <1>1 DEF AcquireLease, LeaseFree, IInv, TypeOK
  <2>3. p = o
    BY <1>1, <2>1, <2>2 DEF ReleaseLease, Released, IInv, TypeOK
  <2>. QED
    BY <2>1, <2>2, <2>3
<1>2. IInv /\ [Next]_vars => [A]_vars
  BY <1>1
<1>. QED
  BY IInvHolds, <1>2, PTL DEF Spec, LeaseIsKept
=============================================================================
