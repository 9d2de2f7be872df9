---------------------------- MODULE CaseRegistry ----------------------------
(***************************************************************************)
(* The repository: its registry database, the case directories beside it,  *)
(* and the operations that keep the two in step over crashes (CreateCase   *)
(* and OpenCase of src/forensic/repository.go, RestoreCase of snapshot.go, *)
(* RecoverCaseRegistration of recovery.go, MigrateCase of migration.go).   *)
(*                                                                         *)
(* An operation is one invocation; operations run in several processes and *)
(* may die between any two steps.  A registry transaction is one step, and *)
(* so is each change of the file system that another process can see.      *)
(***************************************************************************)
EXTENDS Integers, Sequences, FiniteSets

CONSTANTS Cases, Names, Keys, Ops,
          NoCase, NoName, NoKey, NoOp,
          Foreign,      \* case IDs that came from another repository
          OldSchema     \* those of them with a catalog of schema version 1

ASSUME RegistryAssumption ==
    /\ NoCase \notin Cases /\ NoName \notin Names /\ NoKey \notin Keys /\ NoOp \notin Ops
    /\ Names # {}
    /\ OldSchema \subseteq Foreign /\ Foreign \subseteq Cases

VARIABLES
    \* The registry database.
    registry,    \* cases.state, "none" without a row
    nameOf,      \* cases.lookup_key
    keyed,       \* idempotency, scope 'repository', operation 'case.create'
    lease,       \* maintenance_leases.holder
    expired,     \* cases whose lease is past its expires_at
    \* The file system: what .creating-<id> and <id> hold.
    partial, final,
    upgrades,    \* commits of migrateCaseV1ToV2 on the case's catalog
    \* The operations.
    opPc, kind, target,
    written      \* how many parts of the directory its writer has written

db == <<registry, nameOf, keyed, lease, expired>>
fs == <<partial, final, upgrades>>
ops == <<opPc, kind, target, written>>
vars == <<db, fs, ops>>

Parts == {"dir", "marker", "catalog", "blobs"}
OpKinds == {"none", "create", "restore", "recover", "migrate", "open"}
Migrating == {"working", "releasing"}
OpPcs == {"idle", "writing", "renaming", "activating", "inspecting", "publishing",
          "registering", "leasing", "opening", "attaching", "done", "failed", "dead"}
         \cup Migrating

TypeOK ==
    /\ registry \in [Cases -> {"none", "creating", "active", "maintenance"}]
    /\ nameOf \in [Cases -> Names \cup {NoName}]
    /\ keyed \in [Keys -> Cases \cup {NoCase}]
    /\ lease \in [Cases -> Ops \cup {NoOp}]
    /\ expired \subseteq {c \in Cases : lease[c] # NoOp}
    /\ partial \in [Cases -> SUBSET Parts] /\ final \in [Cases -> SUBSET Parts]
    /\ upgrades \in [Cases -> Nat]
    /\ opPc \in [Ops -> OpPcs]
    /\ kind \in [Ops -> OpKinds]
    /\ target \in [Ops -> Cases \cup {NoCase}]
    /\ written \in [Ops -> 0..4]

\* The name in the catalog of a foreign case is the one it had there.
CatalogName(c) == CHOOSE n \in Names : TRUE

\* A foreign case may also be a directory copied in, or one whose registry row
\* was lost: it is final and unregistered.
Init ==
    /\ registry = [c \in Cases |-> "none"]
    /\ nameOf = [c \in Cases |-> NoName]
    /\ keyed = [k \in Keys |-> NoCase]
    /\ lease = [c \in Cases |-> NoOp] /\ expired = {}
    /\ partial = [c \in Cases |-> {}]
    /\ \E copied \in SUBSET Foreign :
           final = [c \in Cases |-> IF c \in copied THEN Parts ELSE {}]
    /\ upgrades = [c \in Cases |-> 0]
    /\ opPc = [o \in Ops |-> "idle"]
    /\ kind = [o \in Ops |-> "none"]
    /\ target = [o \in Ops |-> NoCase]
    /\ written = [o \in Ops |-> 0]

Goto(o, pc) == opPc' = [opPc EXCEPT ![o] = pc]

At(o, pc) == opPc[o] = pc

Begin(o, k, c, pc) ==
    /\ At(o, "idle")
    /\ Goto(o, pc)
    /\ kind' = [kind EXCEPT ![o] = k]
    /\ target' = [target EXCEPT ![o] = c]
    /\ UNCHANGED written

Schema(c) == IF c \in OldSchema /\ upgrades[c] = 0 THEN 1 ELSE 2

\* inspectCaseDirectory: a marker and a catalog that carry the case's ID.
Valid_MarkerOnly(dir) == "marker" \in dir

Valid(dir) == {"marker", "catalog"} \subseteq dir
----------------------------------------------------------------------------
\* CreateCase and RestoreCase: reserve, write .creating-<id>, rename, activate.

NameFree(n) == \A c \in Cases : nameOf[c] # n

Reserve(c, n) ==
    /\ registry[c] = "none" /\ NameFree(n)
    /\ registry' = [registry EXCEPT ![c] = "creating"]
    /\ nameOf' = [nameOf EXCEPT ![c] = n]

CreateCase(o, c, n, k) ==
    /\ c \notin Foreign
    /\ Reserve(c, n)
    /\ k # NoKey => keyed[k] = NoCase
    /\ keyed' = IF k = NoKey THEN keyed ELSE [keyed EXCEPT ![k] = c]
    /\ Begin(o, "create", c, "writing")
    /\ UNCHANGED <<lease, expired, fs>>

\* A known key, with the same request: OpenCase(ByID(...)).
ReplayCreate(o, k) ==
    /\ keyed[k] # NoCase
    /\ Begin(o, "open", keyed[k], "opening")
    /\ UNCHANGED <<db, fs>>

RestoreCase(o, c) ==
    /\ c \in Foreign
    /\ Reserve(c, CatalogName(c))
    /\ Begin(o, "restore", c, "writing")
    /\ UNCHANGED <<keyed, lease, expired, fs>>

\* The order in which the parts of the directory are written.
Order(o) ==
    IF kind[o] = "create" THEN <<"dir", "marker", "catalog">>
    ELSE <<"dir", "catalog", "marker", "blobs">>

\* A write into a directory that was renamed away fails, but RestoreCase makes
\* the directory of each blob, parents included.
WritePart(o) ==
    LET c == target[o]  part == Order(o)[written[o] + 1] IN
    /\ At(o, "writing")
    /\ part \in {"dir", "blobs"} \/ "dir" \in partial[c]
    /\ partial' = [partial EXCEPT ![c] = @ \cup {"dir", part}]
    /\ written' = [written EXCEPT ![o] = @ + 1]
    /\ IF written[o] + 1 = Len(Order(o)) THEN Goto(o, "renaming") ELSE UNCHANGED opPc
    /\ UNCHANGED <<db, final, upgrades, kind, target>>

\* os.Rename of a directory replaces no directory with files in it.
CanRename(c) == partial[c] # {} /\ final[c] = {}

Rename(c) ==
    /\ CanRename(c)
    /\ final' = [final EXCEPT ![c] = partial[c]]
    /\ partial' = [partial EXCEPT ![c] = {}]

Publish(o) ==
    /\ At(o, "renaming")
    /\ Rename(target[o])
    /\ Goto(o, "activating")
    /\ UNCHANGED <<db, upgrades, kind, target, written>>

\* UPDATE cases SET state='active' WHERE id=?, whatever the state is by now.
Activate(o) ==
    LET c == target[o] IN
    /\ At(o, "activating")
    /\ registry' = [registry EXCEPT ![c] = "active"]
    /\ Goto(o, IF Schema(c) = 1 THEN "leasing" ELSE "opening")
    /\ UNCHANGED <<nameOf, keyed, lease, expired, fs, kind, target, written>>

----------------------------------------------------------------------------
\* RecoverCaseRegistration.

StartRecover(o, c) ==
    /\ Begin(o, "recover", c, "inspecting")
    /\ UNCHANGED <<db, fs>>

Inspect(o) ==
    LET c == target[o] IN
    /\ At(o, "inspecting")
    /\ IF final[c] = {} THEN Valid(partial[c]) /\ Goto(o, "publishing")
       ELSE Valid(final[c]) /\ Goto(o, "registering")
    /\ UNCHANGED <<db, fs, kind, target, written>>

RecoverPublish(o) ==
    /\ At(o, "publishing")
    /\ Rename(target[o])
    /\ Goto(o, "registering")
    /\ UNCHANGED <<db, upgrades, kind, target, written>>

\* One transaction: a row that is missing or still "creating" becomes active.
Register(o) ==
    LET c == target[o] IN
    /\ At(o, "registering")
    /\ Valid(final[c])
    /\ \/ /\ registry[c] = "none" /\ NameFree(CatalogName(c))
          /\ nameOf' = [nameOf EXCEPT ![c] = CatalogName(c)]
       \/ registry[c] \in {"creating", "active"} /\ UNCHANGED nameOf
    /\ registry' = [registry EXCEPT ![c] = "active"]
    /\ Goto(o, "opening")
    /\ UNCHANGED <<keyed, lease, expired, fs, kind, target, written>>

----------------------------------------------------------------------------
\* MigrateCase.

StartMigrate(o, c) ==
    /\ registry[c] \in {"active", "maintenance"}
    /\ Begin(o, "migrate", c, "leasing")
    /\ UNCHANGED <<db, fs>>

\* One transaction: drop an expired lease, insert, mark the case.
LeaseFree_Ignored(c) == TRUE

LeaseFree(c) == lease[c] = NoOp \/ c \in expired

AcquireLease(o) ==
    LET c == target[o] IN
    /\ At(o, "leasing")
    /\ LeaseFree(c)
    /\ registry[c] \in {"active", "maintenance"}
    /\ lease' = [lease EXCEPT ![c] = o]
    /\ expired' = expired \ {c}
    /\ registry' = [registry EXCEPT ![c] = "maintenance"]
    /\ Goto(o, "working")
    /\ UNCHANGED <<nameOf, keyed, fs, kind, target, written>>

\* INSERT INTO schema_migrations(version,...): the version is a primary key, so
\* of two upgrades one fails.  The backup before it changes nothing here.
NotUpgraded(c) == upgrades[c] = 0

Upgrade(o) ==
    LET c == target[o] IN
    /\ At(o, "working")
    /\ c \in OldSchema /\ NotUpgraded(c)
    /\ upgrades' = [upgrades EXCEPT ![c] = @ + 1]
    /\ Goto(o, "releasing")
    /\ UNCHANGED <<db, partial, final, kind, target, written>>

\* Nothing to do, or an error: the deferred release follows in either case.
EndWork(o) ==
    /\ At(o, "working")
    /\ Goto(o, "releasing")
    /\ UNCHANGED <<db, fs, kind, target, written>>

\* DELETE ... AND holder=?, then active unless another holds a lease.
Released(o, c) == IF lease[c] = o THEN NoOp ELSE lease[c]

\* expires_at goes with the row.
Lapsed(o, c) == IF Released(o, c) = NoOp THEN expired \ {c} ELSE expired

ReleaseLease(o) ==
    LET c == target[o] IN
    /\ At(o, "releasing")
    /\ lease' = [lease EXCEPT ![c] = Released(o, c)]
    /\ expired' = Lapsed(o, c)
    /\ registry' = [registry EXCEPT ![c] =
           IF @ = "maintenance" /\ Released(o, c) = NoOp THEN "active" ELSE @]
    /\ Goto(o, IF kind[o] = "restore" THEN "opening" ELSE "done")
    /\ UNCHANGED <<nameOf, keyed, fs, kind, target, written>>

\* The clock passes expires_at; nobody renews a lease.
Expire(c) ==
    /\ lease[c] # NoOp /\ c \notin expired
    /\ expired' = expired \cup {c}
    /\ UNCHANGED <<registry, nameOf, keyed, lease, fs, ops>>

----------------------------------------------------------------------------
\* OpenCase: the row, then the marker and the catalog.

StartOpen(o, c) ==
    /\ Begin(o, "open", c, "opening")
    /\ UNCHANGED <<db, fs>>

LookUp(o) ==
    /\ At(o, "opening")
    /\ registry[target[o]] = "active"
    /\ Goto(o, "attaching")
    /\ UNCHANGED <<db, fs, kind, target, written>>

\* validateCaseCatalog accepts the current schema only.
Attach(o) ==
    /\ At(o, "attaching")
    /\ Valid(final[target[o]]) /\ Schema(target[o]) = 2
    /\ Goto(o, "done")
    /\ UNCHANGED <<db, fs, kind, target, written>>

----------------------------------------------------------------------------
\* Any error return; what was written stays.  A migration's goes by its release.
Fail(o) ==
    /\ opPc[o] \notin {"idle", "done", "failed", "dead"} \cup Migrating
    /\ Goto(o, "failed")
    /\ UNCHANGED <<db, fs, kind, target, written>>

Crash(o) ==
    /\ opPc[o] \notin {"idle", "done", "failed", "dead"}
    /\ Goto(o, "dead")
    /\ UNCHANGED <<db, fs, kind, target, written>>

Next ==
    \/ \E o \in Ops, c \in Cases :
          \/ \E n \in Names, k \in Keys \cup {NoKey} : CreateCase(o, c, n, k)
          \/ RestoreCase(o, c) \/ StartRecover(o, c) \/ StartMigrate(o, c)
          \/ StartOpen(o, c)
    \/ \E o \in Ops :
          \/ \E k \in Keys : ReplayCreate(o, k)
          \/ WritePart(o) \/ Publish(o) \/ Activate(o)
          \/ Inspect(o) \/ RecoverPublish(o) \/ Register(o)
          \/ AcquireLease(o) \/ Upgrade(o) \/ EndWork(o) \/ ReleaseLease(o)
          \/ LookUp(o) \/ Attach(o)
          \/ Fail(o) \/ Crash(o)
    \/ \E c \in Cases : Expire(c)

Spec == Init /\ [][Next]_vars
----------------------------------------------------------------------------
(* Properties. *)

\* What the registry offers to OpenCase or MigrateCase is a published directory
\* with its marker and its catalog, however creation, recovery and crashes met.
RegisteredIsPublished ==
    \A c \in Cases : registry[c] \in {"active", "maintenance"} =>
        {"marker", "catalog"} \subseteq final[c] /\ nameOf[c] # NoName

\* A published directory keeps what it has: no operation replaces it, removes it
\* or renames it away.
PublishedIsKept == [][\A c \in Cases : final[c] # {} => final'[c] = final[c]]_vars

\* Until it runs out, a lease goes only by its holder's release: no other
\* migration takes it, and none releases it in its own name.
LeaseIsKept ==
    [][\A c \in Cases, o \in Ops :
          (lease[c] = o /\ c \notin expired /\ lease'[c] # o) => ReleaseLease(o)]_vars

\* An old catalog is upgraded once, though a lease may run out under its holder
\* and another operation upgrade the same catalog.
UpgradedOnce == \A c \in Cases : upgrades[c] <= 1

\* "It blocks new opens through a repository maintenance lease" (MigrateCase).
WorkBlocksOpens ==
    \A o \in Ops : opPc[o] \in Migrating => registry[target[o]] = "maintenance"

\* "The database never references missing managed bytes" (docs/design.md).
RegisteredHasItsBlobs ==
    \A c \in Foreign : registry[c] = "active" => "blobs" \in final[c]
=============================================================================
