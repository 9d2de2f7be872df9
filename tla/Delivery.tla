------------------------------ MODULE Delivery ------------------------------
(***************************************************************************)
(* What leaves a case: portable snapshots (Case.Snapshot, snapshot.go),    *)
(* BagIt packages (Session.ExportBagIt, export.go) and materialized        *)
(* projections (Session.Materialize, projection.go).  The three share one  *)
(* protocol: write <destination>.partial-<id>, rename it to its            *)
(* destination, import its manifest, and record it in the catalog.         *)
(*                                                                         *)
(* A call is one invocation and owns the random ID of what it makes; it    *)
(* also stands for the manifest (and deliverable) that its record adds to  *)
(* the case.  Other writers add objects meanwhile, bytes before rows as    *)
(* module Activity shows; a transaction is one step, as CaseMutate shows.  *)
(***************************************************************************)
EXTENDS Integers, FiniteSets

CONSTANTS Calls, Objects, Destinations, Keys, NoCall, NoKey, NoPackage, NoRequest,
          Offered  \* the members callers choose between (a bound of the model)

ASSUME DeliveryAssumption ==
    /\ NoCall \notin Calls /\ NoKey \notin Keys
    /\ Calls \cap Objects = {}
    /\ Offered \subseteq SUBSET Objects

VARIABLES
    \* The catalog and the blob store.
    revision,
    createdAt,  \* entities.created_revision, 0 while there is no row
    used,       \* activity_inputs of the activity that recorded the call
    stored,     \* idempotency_keys, operation 'deliverable.package'
    cas,        \* whose bytes are in the blob store: objects' and manifests'
    \* Outside of the case.
    at,         \* the directory at each destination
    partial,    \* the partial directory of each call
    \* The calls.
    pc, request,
    members,    \* what its package has to hold
    upTo,       \* manifest.Revision of a snapshot
    answer      \* the call whose deliverable was returned without error

catalog == <<revision, createdAt, used, stored>>
outside == <<at, partial>>
calls == <<pc, request, members, upTo, answer>>
vars == <<catalog, cas, outside, calls>>

Things == Objects \cup Calls
Existing == {x \in Things : createdAt[x] # 0}
Since(rev) == {x \in Existing : createdAt[x] <= rev}

\* A package: whose it is, what it lists (the catalog copy of a snapshot, the
\* manifest entries of the others), the bytes it has, its manifest.
Packages == [owner : Calls, lists : SUBSET Things, bytes : SUBSET Things, manifest : BOOLEAN]
ASSUME NoPackageAssumption == NoPackage \notin Packages

Requests ==
    [kind : {"snapshot", "bagit", "materialize"}, dest : Destinations,
     key : Keys \cup {NoKey}, members : SUBSET Objects, writable : BOOLEAN]

Early == {"looking", "testing"}
Building == {"backup", "copying", "closing", "renaming"}
Published == {"storing", "recording"}
Running == Early \cup Building \cup Published

TypeOK ==
    /\ revision \in Nat
    /\ createdAt \in [Things -> Nat]
    /\ used \in [Calls -> SUBSET Things]
    /\ stored \in [Keys -> Calls \cup {NoCall}]
    /\ cas \subseteq Things
    /\ at \in [Destinations -> Packages \cup {NoPackage}]
    /\ partial \in [Calls -> Packages \cup {NoPackage}]
    /\ pc \in [Calls -> {"idle", "returned", "dead"} \cup Running]
    /\ request \in [Calls -> Requests \cup {NoRequest}]
    /\ members \in [Calls -> SUBSET Things]
    /\ upTo \in [Calls -> Nat]
    /\ answer \in [Calls -> Calls \cup {NoCall}]

Init ==
    /\ revision = 1
    /\ createdAt = [x \in Things |-> 0]
    /\ used = [c \in Calls |-> {}]
    /\ stored = [k \in Keys |-> NoCall]
    /\ cas = {}
    /\ at = [d \in Destinations |-> NoPackage]
    /\ partial = [c \in Calls |-> NoPackage]
    /\ pc = [c \in Calls |-> "idle"]
    /\ request = [c \in Calls |-> NoRequest]
    /\ members = [c \in Calls |-> {}]
    /\ upTo = [c \in Calls |-> 0]
    /\ answer = [c \in Calls |-> NoCall]

Goto(c, to) == pc' = [pc EXCEPT ![c] = to]
Dest(c) == request[c].dest
Kind(c) == request[c].kind
----------------------------------------------------------------------------
\* Another writer: an object's bytes, then its row.
AddObject(x) ==
    /\ x \in Objects \ Existing
    /\ cas' = cas \cup {x}
    /\ createdAt' = [createdAt EXCEPT ![x] = revision + 1]
    /\ revision' = revision + 1
    /\ UNCHANGED <<used, stored, outside, calls>>

\* Only ExportBagIt takes a key.  Its members are the closure of a frozen
\* selection, a materialization's those of its projection: fixed when it begins.
Start(c, r) ==
    /\ pc[c] = "idle"
    /\ r.kind = "bagit" \/ r.key = NoKey
    /\ r.kind = "materialize" \/ r.writable
    /\ IF r.kind = "snapshot" THEN r.members = {}
       ELSE r.members \in Offered /\ r.members \subseteq Existing
    /\ request' = [request EXCEPT ![c] = r]
    /\ members' = [members EXCEPT ![c] = r.members]
    /\ Goto(c, IF r.key = NoKey THEN "testing" ELSE "looking")
    /\ UNCHANGED <<catalog, cas, outside, upTo, answer>>

Prior(c) == IF request[c].key = NoKey THEN NoCall ELSE stored[request[c].key]

\* The fingerprint takes the request with its destination and its members.
SameRequest(c) == request[Prior(c)] = request[c]

\* The read-only look at the key.
LookUp(c) ==
    /\ pc[c] = "looking"
    /\ Prior(c) = NoCall
    /\ Goto(c, "testing")
    /\ UNCHANGED <<catalog, cas, outside, request, members, upTo, answer>>

\* The key is found, before anything is written or in the transaction.
Replay(c) ==
    /\ pc[c] \in {"looking", "recording"}
    /\ Prior(c) # NoCall /\ SameRequest(c)
    /\ answer' = [answer EXCEPT ![c] = Prior(c)]
    /\ Goto(c, "returned")
    /\ UNCHANGED <<catalog, cas, outside, request, members, upTo>>

\* Lstat of the destination, then the partial directory beside it.
TestDestination(c) ==
    /\ pc[c] = "testing"
    /\ at[Dest(c)] = NoPackage
    /\ partial' = [partial EXCEPT ![c] =
           [owner |-> c, lists |-> {}, bytes |-> {}, manifest |-> FALSE]]
    /\ Goto(c, IF Kind(c) = "snapshot" THEN "backup" ELSE "copying")
    /\ UNCHANGED <<catalog, cas, at, request, members, upTo, answer>>

\* onlineBackup, and what the manifest says of the copy.
Backup(c) ==
    /\ pc[c] = "backup"
    /\ partial' = [partial EXCEPT ![c].lists = Existing]
    /\ members' = [members EXCEPT ![c] = Existing]
    /\ upTo' = [upTo EXCEPT ![c] = revision]
    /\ Goto(c, "copying")
    /\ UNCHANGED <<catalog, cas, at, request, answer>>

\* One copyFileContext out of the blob store; a snapshot verifies the copy.
CopyBytes(c, x) ==
    /\ pc[c] = "copying"
    /\ x \in (members[c] \ partial[c].bytes) \cap cas
    /\ partial' = [partial EXCEPT ![c].bytes = @ \cup {x}]
    /\ UNCHANGED <<catalog, cas, at, calls>>

\* The manifest is written when everything it lists is there.
AllCopied_Unchecked(c) == TRUE

AllCopied(c) == members[c] \subseteq partial[c].bytes

WriteManifest(c) ==
    /\ pc[c] = "copying"
    /\ AllCopied(c)
    /\ partial' = [partial EXCEPT ![c].lists = members[c], ![c].manifest = TRUE]
    /\ Goto(c, IF request[c].writable THEN "renaming" ELSE "closing")
    /\ UNCHANGED <<catalog, cas, at, request, members, upTo, answer>>

\* chmod 0400 and 0500 of everything in a read-only materialization.
CloseDirectory(c) ==
    /\ pc[c] = "closing"
    /\ Goto(c, "renaming")
    /\ UNCHANGED <<catalog, cas, outside, request, members, upTo, answer>>

\* renameWithRetry: a directory that is there by now is not replaced.
MayRename_Replacing(c) == TRUE

MayRename(c) == at[Dest(c)] = NoPackage

Rename(c) ==
    /\ pc[c] = "renaming"
    /\ MayRename(c)
    /\ at' = [at EXCEPT ![Dest(c)] = partial[c]]
    /\ partial' = [partial EXCEPT ![c] = NoPackage]
    /\ Goto(c, "storing")
    /\ UNCHANGED <<catalog, cas, request, members, upTo, answer>>

\* stageBlob and publishBlob of the manifest, from the destination.
WithManifest(c) == cas \cup {c}

StoreManifest(c) ==
    /\ pc[c] = "storing"
    /\ cas' = WithManifest(c)
    /\ Goto(c, "recording")
    /\ UNCHANGED <<catalog, outside, request, members, upTo, answer>>

\* SELECT id FROM entities WHERE created_revision<=?
Included_Latest(c) == Existing

Included(c) == Since(upTo[c])

KeyUnused_TrustLookUp(c) == TRUE

KeyUnused(c) == Prior(c) = NoCall

\* storeIdempotency; an empty key is not one.
StoredBy(c) ==
    IF request[c].key = NoKey THEN stored ELSE [stored EXCEPT ![request[c].key] = c]

\* The activity, already over, with its inputs and its manifest (and deliverable);
\* an error may follow the commit.
AddRecord(c, inputs) ==
    /\ createdAt' = [createdAt EXCEPT ![c] = revision + 1]
    /\ revision' = revision + 1
    /\ used' = [used EXCEPT ![c] = inputs]
    /\ answer' = answer \/ answer' = [answer EXCEPT ![c] = c]
    /\ Goto(c, "returned")
    /\ UNCHANGED <<cas, outside, request, members, upTo>>

RecordSnapshot(c) ==
    /\ pc[c] = "recording" /\ Kind(c) = "snapshot"
    /\ AddRecord(c, Included(c))
    /\ UNCHANGED stored

RecordExport(c) ==
    /\ pc[c] = "recording" /\ Kind(c) = "bagit"
    /\ KeyUnused(c)
    /\ AddRecord(c, members[c])
    /\ stored' = StoredBy(c)

\* Its one input is the projection, which is none of the model's things.
RecordMaterialization(c) ==
    /\ pc[c] = "recording" /\ Kind(c) = "materialize"
    /\ AddRecord(c, {})
    /\ UNCHANGED stored

\* The deferred RemoveAll; without write permission on the directories of a
\* read-only materialization it fails, and its error is dropped.
Swept_Never(c) == partial

Swept(c) == [partial EXCEPT ![c] = NoPackage]

Unremovable(c) == pc[c] \in {"closing", "renaming"} /\ ~request[c].writable

\* Any error return: a conflict, a limit, a cancelled context, an I/O error.
Fail(c) ==
    /\ pc[c] \in Running
    /\ \/ partial' = Swept(c)
       \/ Unremovable(c) /\ UNCHANGED partial
    /\ Goto(c, "returned")
    /\ UNCHANGED <<catalog, cas, at, request, members, upTo, answer>>

Crash(c) ==
    /\ pc[c] \in Running
    /\ Goto(c, "dead")
    /\ UNCHANGED <<catalog, cas, outside, request, members, upTo, answer>>

\* A package is not the case's any more once its call is over: it is sent
\* away, or removed so that an export can be tried again.
TakeAway(d) ==
    /\ at[d] # NoPackage /\ pc[at[d].owner] \in {"returned", "dead"}
    /\ at' = [at EXCEPT ![d] = NoPackage]
    /\ UNCHANGED <<catalog, cas, partial, calls>>

Step(c) ==
    \/ LookUp(c) \/ Replay(c) \/ TestDestination(c) \/ Backup(c)
    \/ \E x \in Things : CopyBytes(c, x)
    \/ WriteManifest(c) \/ CloseDirectory(c) \/ Rename(c) \/ StoreManifest(c)
    \/ RecordSnapshot(c) \/ RecordExport(c) \/ RecordMaterialization(c)
    \/ Fail(c)

Next ==
    \/ \E x \in Objects : AddObject(x)
    \/ \E c \in Calls : Step(c) \/ Crash(c) \/ \E r \in Requests : Start(c, r)
    \/ \E d \in Destinations : TakeAway(d)

Spec == Init /\ [][Next]_vars
----------------------------------------------------------------------------
(* Properties. *)

Whole(p) == p.manifest /\ p.lists \subseteq p.bytes

\* What stands at a destination is a whole package, at every moment: a crash, a
\* failure or a writer that adds objects meanwhile never leaves a part of one there.
DestinationsAreWhole == \A d \in Destinations : at[d] # NoPackage => Whole(at[d])

\* A package that stands at a destination is never replaced, though a call looks
\* there long before it renames: it goes only when somebody takes it away.  And a
\* deliverable is recorded only while its own package stands at the destination
\* that the record names, with its manifest in the blob store.
PackagesStand ==
    [][/\ \A d \in Destinations : at[d] # NoPackage => at'[d] \in {at[d], NoPackage}
       /\ \A c \in Calls : createdAt[c] = 0 /\ createdAt'[c] # 0 =>
              at[Dest(c)] # NoPackage /\ at[Dest(c)].owner = c /\ c \in cas]_vars

\* A snapshot's record has as inputs exactly what its catalog copy lists, although
\* objects and other deliverables were committed between the copy and the record.
SnapshotInputsAreItsCatalog ==
    \A c \in Existing \cap Calls : Kind(c) = "snapshot" => used[c] = members[c]

\* An export that returns without error names a deliverable with its own request,
\* and a key has one: exports that race on a key, or are retried after a failure.
ExportsAreOncePerKey ==
    /\ \A c \in Calls : answer[c] # NoCall =>
           answer[c] \in Existing /\ request[answer[c]] = request[c]
    /\ \A c, d \in Existing \cap Calls :
           c # d /\ request[c].key # NoKey => request[c].key # request[d].key

\* A partial directory belongs to a running call or to a dead process, or it is a
\* read-only materialization whose removal the file system refused.
PartialsAreSwept ==
    \A c \in Calls : partial[c] # NoPackage =>
        pc[c] \in Running \cup {"dead"} \/ ~request[c].writable

\* The deliverables as effects of their calls, and the answers as what the callers were told.
Delivered == Existing \cap Calls
Effect(d) == [call |-> d, key |-> request[d].key, asked |-> request[d]]
Answered == {c \in Calls : answer[c] # NoCall}
AnswerTo(c) == <<c, [call |-> answer[c], key |-> request[c].key, asked |-> request[c]]>>

Effects == {Effect(d) : d \in Delivered}
Told == {AnswerTo(c) : c \in Answered}

K == INSTANCE KeyedEffects WITH effects <- Effects, told <- Told

\* A deliverable is recorded in one step, once for its key and for good, though its
\* package was published steps before and may be gone; who is told of it asked for it.
ImplementsKeyedEffects == K!KeyedSpec
=============================================================================
