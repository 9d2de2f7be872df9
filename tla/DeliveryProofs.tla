--------------------------- MODULE DeliveryProofs ---------------------------
(***************************************************************************)
(* Proofs about module Delivery, for any number of calls, objects,         *)
(* destinations and keys: every invariant that the model checker checks,   *)
(* and PackagesStand.                                                      *)
(*                                                                         *)
(* The invariant says of each call what it has built and where it stands   *)
(* (CallOK), of the keys whose deliverable they name (KeysOK), and that    *)
(* the rows of a revision are fixed once the revision is over: what was    *)
(* there at a snapshot's revision (Since) is what its copy lists for good. *)
(***************************************************************************)
EXTENDS Delivery, TLAPS

AfterBackup == {"copying", "closing", "renaming", "storing", "recording"}

\* What a call has made of its package, by where it is.
PackageOK(c) ==
    /\ pc[c] \in Building => partial[c] \in Packages /\ partial[c].owner = c
    /\ pc[c] \in {"closing", "renaming"} => Whole(partial[c])
    /\ pc[c] \in Published => at[Dest(c)] \in Packages /\ at[Dest(c)].owner = c
    /\ pc[c] = "recording" => c \in cas
    /\ partial[c] # NoPackage =>
           \/ pc[c] \in Building \cup {"dead"}
           \/ pc[c] = "returned" /\ ~request[c].writable

\* What it was asked for, and what it has recorded.
RequestOK(c) ==
    /\ pc[c] # "idle" =>
           request[c] \in Requests /\ (Kind(c) = "bagit" \/ request[c].key = NoKey)
    /\ createdAt[c] # 0 => pc[c] = "returned"
    /\ answer[c] # NoCall =>
           pc[c] = "returned" /\ answer[c] \in Existing /\ request[answer[c]] = request[c]

\* What a snapshot was there to copy.
SnapshotOK(c) ==
    /\ upTo[c] <= revision
    /\ pc[c] \in AfterBackup /\ Kind(c) = "snapshot" => members[c] = Since(upTo[c])
    /\ createdAt[c] # 0 /\ Kind(c) = "snapshot" => used[c] = members[c]

KeysOK ==
    /\ \A k \in Keys : stored[k] # NoCall =>
           stored[k] \in Existing /\ request[stored[k]].key = k
    /\ \A c \in Existing \cap Calls : request[c].key # NoKey => stored[request[c].key] = c

IInv ==
    /\ TypeOK
    /\ \A c \in Calls : PackageOK(c) /\ RequestOK(c) /\ SnapshotOK(c)
    /\ \A x \in Things : createdAt[x] <= revision
    /\ KeysOK
    /\ DestinationsAreWhole
----------------------------------------------------------------------------
USE DeliveryAssumption, NoPackageAssumption

LEMMA InitIInv == Init => IInv
<1> SUFFICES ASSUME Init PROVE IInv
  OBVIOUS
<1>1. TypeOK
  BY DEF Init, TypeOK
<1>2. Existing = {}
  BY DEF Init, Existing
<1>3. \A c \in Calls : PackageOK(c) /\ RequestOK(c) /\ SnapshotOK(c)
  BY DEF Init, PackageOK, RequestOK, SnapshotOK, AfterBackup, Building, Published, Things
<1>. QED
  BY <1>1, <1>2, <1>3 DEF Init, IInv, KeysOK, DestinationsAreWhole

\* The invariants that are checked.
LEMMA IInvImplies ==
    IInv => /\ SnapshotInputsAreItsCatalog /\ ExportsAreOncePerKey /\ PartialsAreSwept
<1> SUFFICES ASSUME IInv
             PROVE  SnapshotInputsAreItsCatalog /\ ExportsAreOncePerKey /\ PartialsAreSwept
  OBVIOUS
<1>1. SnapshotInputsAreItsCatalog
  BY DEF IInv, SnapshotInputsAreItsCatalog, SnapshotOK, Existing
<1>2. ExportsAreOncePerKey
  BY DEF IInv, ExportsAreOncePerKey, RequestOK, KeysOK
<1>3. PartialsAreSwept
  BY DEF IInv, PartialsAreSwept, PackageOK, Running
<1>. QED
  BY <1>1, <1>2, <1>3

\* A step adds at most one row, of a revision of its own.
Grows ==
    \/ UNCHANGED <<createdAt, revision>>
    \/ \E x \in Things : /\ createdAt[x] = 0
                         /\ createdAt' = [createdAt EXCEPT ![x] = revision + 1]
                         /\ revision' = revision + 1

\* What was there at a revision that is over does not change, and no row goes.
LEMMA SinceStays ==
    ASSUME IInv, Grows
    PROVE  /\ \A r \in Nat : r <= revision => Since(r)' = Since(r)
           /\ Existing \subseteq Existing'
           /\ revision' \in Nat /\ revision <= revision'
           /\ createdAt' \in [Things -> Nat]
           /\ \A x \in Things : createdAt'[x] <= revision'
<1>0. revision \in Nat /\ createdAt \in [Things -> Nat] /\ \A x \in Things : createdAt[x] <= revision
  BY DEF IInv, TypeOK
<1>1. CASE UNCHANGED <<createdAt, revision>>
  BY <1>0, <1>1 DEF Since, Existing
<1>2. CASE \E x \in Things : /\ createdAt[x] = 0
                             /\ createdAt' = [createdAt EXCEPT ![x] = revision + 1]
                             /\ revision' = revision + 1
  <2>1. PICK x \in Things : /\ createdAt[x] = 0
                            /\ createdAt' = [createdAt EXCEPT ![x] = revision + 1]
                            /\ revision' = revision + 1
    BY <1>2
  <2>2. createdAt'[x] = revision + 1 /\ \A y \in Things : y # x => createdAt'[y] = createdAt[y]
    BY <1>0, <2>1
  <2>3. ASSUME NEW r \in Nat, r <= revision PROVE Since(r)' = Since(r)
    BY <1>0, <2>1, <2>2, <2>3 DEF Since, Existing
  <2>. QED
    BY <1>0, <2>1, <2>2, <2>3 DEF Existing
<1>. QED
  BY <1>1, <1>2 DEF Grows

\* Another call keeps what is said of it when a step leaves its variables and the
\* package at its destination alone.
LEMMA OthersStay ==
    ASSUME IInv, Grows, NEW c \in Calls, cas \subseteq cas',
           UNCHANGED <<pc[c], request[c], members[c], upTo[c], answer[c], partial[c], used[c],
                       createdAt[c]>>,
           \A d \in Calls : createdAt[d] # 0 => request'[d] = request[d],
           pc[c] \in Published => at'[Dest(c)] = at[Dest(c)]
    PROVE  PackageOK(c)' /\ RequestOK(c)' /\ SnapshotOK(c)'
<1>0. PackageOK(c) /\ RequestOK(c) /\ SnapshotOK(c) /\ upTo[c] \in Nat /\ revision \in Nat
  BY DEF IInv, TypeOK
<1>1. PackageOK(c)'
  BY <1>0 DEF PackageOK, Dest, Whole
<1>2. RequestOK(c)'
  <2>1. ASSUME answer[c] # NoCall
        PROVE  answer[c] \in Existing' /\ request'[answer[c]] = request[answer[c]]
    <3>1. answer[c] \in Calls /\ answer[c] \in Existing
      BY <1>0, <2>1 DEF RequestOK, IInv, TypeOK
    <3>. QED
      BY <3>1, SinceStays DEF Existing
  <2>. QED
    BY <1>0, <2>1 DEF RequestOK, Kind
<1>3. SnapshotOK(c)'
  BY <1>0, SinceStays DEF SnapshotOK, Kind
<1>. QED
  BY <1>1, <1>2, <1>3

\* The calls other than the one that steps.
OthersUntouched(c) ==
    /\ \A d \in Calls \ {c} : UNCHANGED <<pc[d], request[d], members[d], upTo[d], answer[d],
                                         partial[d], used[d], createdAt[d]>>
    /\ \A d \in Calls \ {c} : pc[d] \in Published => at'[Dest(d)] = at[Dest(d)]

LEMMA CallStep ==
    ASSUME IInv, NEW c \in Calls, OthersUntouched(c), Grows, cas \subseteq cas',
           createdAt[c] # 0 => request'[c] = request[c],
           TypeOK', PackageOK(c)', RequestOK(c)', SnapshotOK(c)', KeysOK', DestinationsAreWhole'
    PROVE  IInv'
<1>1. ASSUME NEW d \in Calls \ {c} PROVE PackageOK(d)' /\ RequestOK(d)' /\ SnapshotOK(d)'
  <2>1. \A e \in Calls : createdAt[e] # 0 => request'[e] = request[e]
    BY DEF OthersUntouched
  <2>. QED
    BY <2>1, OthersStay DEF OthersUntouched
<1>. QED
  BY <1>1, SinceStays DEF IInv

\* A step that adds no row and leaves the requests of calls that have begun.
LEMMA KeysStay ==
    ASSUME IInv, UNCHANGED <<createdAt, stored>>,
           \A c \in Calls : createdAt[c] # 0 => request'[c] = request[c]
    PROVE  KeysOK'
<1>1. KeysOK /\ stored \in [Keys -> Calls \cup {NoCall}]
  BY DEF IInv, TypeOK
<1>. QED
  BY <1>1 DEF KeysOK, Existing

\* Everything but what it builds is left by a step of a call towards its rename.
LEMMA BuildStep ==
    ASSUME IInv, NEW c \in Calls,
           \/ LookUp(c) \/ TestDestination(c) \/ Backup(c) \/ \E x \in Things : CopyBytes(c, x)
           \/ WriteManifest(c) \/ CloseDirectory(c) \/ Fail(c) \/ Crash(c)
    PROVE  IInv'
<1> USE DEF Goto, Running, Early, Building, Published
<1>0. /\ TypeOK /\ PackageOK(c) /\ RequestOK(c) /\ SnapshotOK(c)
      /\ \A x \in Things : createdAt[x] <= revision
  BY DEF IInv
<1>1. /\ UNCHANGED <<catalog, cas, at, request, answer>>
      /\ \A d \in Calls \ {c} : UNCHANGED <<pc[d], members[d], upTo[d], partial[d]>>
      /\ pc[c] \in Running
  BY <1>0 DEF LookUp, TestDestination, Backup, CopyBytes, WriteManifest, CloseDirectory, Fail,
              Crash, Swept, TypeOK, outside, calls
<1>2. OthersUntouched(c) /\ Grows
  BY <1>1 DEF OthersUntouched, Grows, catalog
<1>3. KeysOK' /\ DestinationsAreWhole'
  BY <1>1, KeysStay DEF catalog, DestinationsAreWhole, IInv
<1>4. createdAt[c] = 0 /\ answer[c] = NoCall /\ request[c] \in Requests
      /\ (Kind(c) = "bagit" \/ request[c].key = NoKey)
  BY <1>0, <1>1 DEF RequestOK
<1>5. RequestOK(c)'
  BY <1>1, <1>4 DEF RequestOK, catalog, Kind
<1>6. Existing \subseteq Things /\ revision \in Nat
      /\ members[c] \subseteq Things /\ upTo[c] \in Nat
  BY <1>0 DEF Existing, TypeOK
<1>7. CASE LookUp(c) \/ CloseDirectory(c) \/ Crash(c)
  <2>1. UNCHANGED <<partial, members, upTo>> /\ TypeOK'
    BY <1>0, <1>1, <1>7 DEF LookUp, CloseDirectory, Crash, TypeOK, catalog, outside
  <2>2. PackageOK(c)' /\ SnapshotOK(c)'
    BY <1>0, <1>1, <1>4, <1>7, <2>1
    DEF LookUp, CloseDirectory, Crash, PackageOK, SnapshotOK, AfterBackup, Kind, Since, Existing,
        TypeOK, catalog, Dest, Whole
  <2>. QED
    BY <1>1, <1>2, <1>3, <1>5, <2>1, <2>2, CallStep DEF catalog
<1>8. CASE TestDestination(c)
  <2>1. /\ UNCHANGED <<members, upTo>> /\ pc' = [pc EXCEPT ![c] = pc'[c]]
        /\ pc'[c] = IF Kind(c) = "snapshot" THEN "backup" ELSE "copying"
        /\ partial' = [partial EXCEPT ![c] =
               [owner |-> c, lists |-> {}, bytes |-> {}, manifest |-> FALSE]]
    BY <1>0, <1>8 DEF TestDestination, TypeOK
  <2>2. partial'[c] \in Packages /\ partial'[c].owner = c
    BY <1>0, <2>1 DEF Packages, TypeOK
  <2>3. TypeOK'
    BY <1>0, <1>1, <2>1, <2>2 DEF TypeOK, catalog
  <2>4. PackageOK(c)' /\ SnapshotOK(c)'
    BY <1>0, <1>1, <1>4, <2>1, <2>2
    DEF PackageOK, SnapshotOK, AfterBackup, Kind, catalog
  <2>. QED
    BY <1>1, <1>2, <1>3, <1>5, <2>3, <2>4, CallStep DEF catalog
<1>9. CASE Backup(c)
  <2>1. /\ partial' = [partial EXCEPT ![c].lists = Existing]
        /\ members' = [members EXCEPT ![c] = Existing] /\ upTo' = [upTo EXCEPT ![c] = revision]
        /\ pc' = [pc EXCEPT ![c] = "copying"] /\ pc[c] = "backup"
    BY <1>9 DEF Backup
  <2>2. partial[c] \in Packages /\ partial[c].owner = c
    BY <1>0, <2>1 DEF PackageOK
  <2>3. partial'[c] \in Packages /\ partial'[c].owner = c
    BY <1>0, <1>6, <2>1, <2>2 DEF Packages, TypeOK
  <2>4. TypeOK'
    BY <1>0, <1>1, <1>6, <2>1, <2>3 DEF TypeOK, catalog
  <2>5. Existing = Since(revision)
    BY <1>0 DEF Existing, Since
  <2>6. SnapshotOK(c)'
    BY <1>0, <1>1, <1>4, <1>6, <2>1, <2>5
    DEF SnapshotOK, TypeOK, catalog, Since, Existing
  <2>7. PackageOK(c)'
    BY <1>0, <1>1, <2>1, <2>3 DEF PackageOK, TypeOK
  <2>. QED
    BY <1>1, <1>2, <1>3, <1>5, <2>4, <2>6, <2>7, CallStep DEF catalog
<1>10. CASE \E x \in Things : CopyBytes(c, x)
  <2>1. PICK x \in Things : CopyBytes(c, x)
    BY <1>10
  <2>2. partial' = [partial EXCEPT ![c].bytes = @ \cup {x}] /\ pc[c] = "copying" /\ UNCHANGED calls
    BY <2>1 DEF CopyBytes
  <2>3. partial[c] \in Packages /\ partial[c].owner = c
    BY <1>0, <2>2 DEF PackageOK
  <2>4. partial'[c] \in Packages /\ partial'[c].owner = c
    BY <1>0, <2>2, <2>3, SMTT(40) DEF Packages, TypeOK
  <2>5. TypeOK'
    BY <1>0, <1>1, <2>2, <2>4 DEF TypeOK, catalog, calls
  <2>6. PackageOK(c)' /\ SnapshotOK(c)'
    BY <1>0, <1>1, <1>4, <2>2, <2>4
    DEF PackageOK, SnapshotOK, calls, catalog, Kind, Since, Existing
  <2>. QED
    BY <1>1, <1>2, <1>3, <1>5, <2>5, <2>6, CallStep DEF catalog
<1>11. CASE WriteManifest(c)
  <2>1. /\ partial' = [partial EXCEPT ![c].lists = members[c], ![c].manifest = TRUE]
        /\ pc[c] = "copying" /\ UNCHANGED <<members, upTo>>
        /\ pc' = [pc EXCEPT ![c] = pc'[c]] /\ pc'[c] \in {"renaming", "closing"}
        /\ members[c] \subseteq partial[c].bytes
    BY <1>0, <1>11 DEF WriteManifest, AllCopied, TypeOK
  <2>2. partial[c] \in Packages /\ partial[c].owner = c
    BY <1>0, <2>1 DEF PackageOK
  <2>3. partial'[c] \in Packages /\ partial'[c].owner = c /\ Whole(partial'[c])
    <3>1. PICK package \in Packages : partial[c] = package
      BY <2>2
    <3>2. partial'[c] = [owner |-> c, lists |-> members[c], bytes |-> package.bytes,
                         manifest |-> TRUE]
      BY <1>0, <2>1, <2>2, <3>1, ZenonT(40) DEF Packages, TypeOK
    <3>3. package.bytes \in SUBSET Things /\ members[c] \subseteq package.bytes
      BY <2>1, <3>1 DEF Packages
    <3>. QED
      BY <1>6, <3>2, <3>3 DEF Packages, Whole
  <2>4. TypeOK'
    BY <1>0, <1>1, <2>1, <2>3 DEF TypeOK, catalog
  <2>5. PackageOK(c)'
    BY <1>0, <2>1, <2>3 DEF PackageOK, Whole
  <2>6. SnapshotOK(c)'
    BY <1>0, <1>1, <1>4, <2>1 DEF SnapshotOK, AfterBackup, Kind, catalog, Since, Existing
  <2>. QED
    BY <1>1, <1>2, <1>3, <1>5, <2>4, <2>5, <2>6, CallStep DEF catalog
<1>12. CASE Fail(c)
  <2>1. /\ UNCHANGED <<members, upTo>> /\ pc' = [pc EXCEPT ![c] = "returned"]
        /\ \/ partial' = [partial EXCEPT ![c] = NoPackage]
           \/ partial' = partial /\ ~request[c].writable
    BY <1>12 DEF Fail, Swept, Unremovable
  <2>2. TypeOK'
    BY <1>0, <1>1, <2>1 DEF TypeOK, catalog
  <2>3. PackageOK(c)' /\ SnapshotOK(c)'
    BY <1>0, <1>1, <1>4, <2>1
    DEF PackageOK, SnapshotOK, AfterBackup, Kind, catalog, TypeOK
  <2>. QED
    BY <1>1, <1>2, <1>3, <1>5, <2>2, <2>3, CallStep DEF catalog
<1>. QED
  BY <1>7, <1>8, <1>9, <1>10, <1>11, <1>12

\* Another writer, a new call, and whoever takes a package away.
LEMMA OutsideStep ==
    ASSUME IInv,
           \/ \E x \in Objects : AddObject(x)
           \/ \E c \in Calls, r \in Requests : Start(c, r)
           \/ \E d \in Destinations : TakeAway(d)
    PROVE  IInv'
<1>0. TypeOK /\ \A x \in Things : createdAt[x] <= revision
  BY DEF IInv
<1>1. ASSUME NEW x \in Objects, AddObject(x) PROVE IInv'
  <2>1. /\ createdAt[x] = 0 /\ createdAt' = [createdAt EXCEPT ![x] = revision + 1]
        /\ revision' = revision + 1 /\ cas' = cas \cup {x} /\ x \in Things
        /\ UNCHANGED <<used, stored, outside, calls>>
    BY <1>1 DEF AddObject, Existing, Things
  <2>2. Grows
    BY <2>1 DEF Grows
  <2>3. TypeOK'
    BY <1>0, <2>1, <2>2, SinceStays DEF TypeOK, outside, calls
  <2>4. \A c \in Calls : createdAt'[c] = createdAt[c]
    BY <1>0, <2>1 DEF TypeOK
  <2>5. \A c \in Calls : PackageOK(c)' /\ RequestOK(c)' /\ SnapshotOK(c)'
    BY <2>1, <2>2, <2>4, OthersStay DEF outside, calls
  <2>6. KeysOK'
    <3>1. KeysOK /\ Existing \subseteq Existing'
      BY <2>2, SinceStays DEF IInv
    <3>2. Existing' \cap Calls = Existing \cap Calls
      BY <2>4 DEF Existing
    <3>. QED
      BY <2>1, <3>1, <3>2 DEF KeysOK, calls
  <2>7. DestinationsAreWhole'
    BY <2>1 DEF IInv, DestinationsAreWhole, outside
  <2>. QED
    BY <2>2, <2>3, <2>5, <2>6, <2>7, SinceStays DEF IInv
<1>2. ASSUME NEW c \in Calls, NEW r \in Requests, Start(c, r) PROVE IInv'
  <2> USE DEF Goto, Running, Early, Building, Published
  <2>1. /\ pc[c] = "idle" /\ (r.kind = "bagit" \/ r.key = NoKey)
        /\ request' = [request EXCEPT ![c] = r]
        /\ members' = [members EXCEPT ![c] = r.members]
        /\ pc' = [pc EXCEPT ![c] = pc'[c]] /\ pc'[c] \in {"testing", "looking"}
        /\ UNCHANGED <<catalog, cas, outside, upTo, answer>>
    BY <1>0, <1>2 DEF Start, TypeOK
  <2>2. r.members \in SUBSET Things
    BY DEF Requests, Things
  <2>3. TypeOK'
    BY <1>0, <2>1, <2>2 DEF TypeOK, catalog, outside
  <2>4. OthersUntouched(c) /\ Grows
    BY <1>0, <2>1 DEF OthersUntouched, Grows, TypeOK, catalog, outside
  <2>5. createdAt[c] = 0 /\ answer[c] = NoCall /\ partial[c] = NoPackage /\ upTo[c] <= revision
    <3>1. RequestOK(c) /\ PackageOK(c) /\ SnapshotOK(c)
      BY DEF IInv
    <3>. QED
      BY <2>1, <3>1 DEF RequestOK, PackageOK, SnapshotOK
  <2>6. \A d \in Calls : createdAt[d] # 0 => request'[d] = request[d]
    BY <1>0, <2>1, <2>5 DEF TypeOK
  <2>7. PackageOK(c)' /\ RequestOK(c)' /\ SnapshotOK(c)'
    BY <1>0, <2>1, <2>5
    DEF PackageOK, RequestOK, SnapshotOK, AfterBackup, Kind, TypeOK, catalog, outside
  <2>8. KeysOK' /\ DestinationsAreWhole'
    BY <2>1, <2>6, KeysStay DEF catalog, outside, DestinationsAreWhole, IInv
  <2>. QED
    BY <2>1, <2>3, <2>4, <2>5, <2>7, <2>8, CallStep
<1>3. ASSUME NEW d \in Destinations, TakeAway(d) PROVE IInv'
  <2>1. /\ at[d] # NoPackage /\ pc[at[d].owner] \in {"returned", "dead"}
        /\ at' = [at EXCEPT ![d] = NoPackage] /\ UNCHANGED <<catalog, cas, partial, calls>>
    BY <1>3 DEF TakeAway
  <2>2. TypeOK'
    BY <1>0, <2>1 DEF TypeOK, catalog, calls
  <2>3. Grows
    BY <2>1 DEF Grows, catalog
  <2>4. \A c \in Calls : pc[c] \in Published => Dest(c) # d
    BY <2>1 DEF IInv, PackageOK, Published
  <2>5. \A c \in Calls : PackageOK(c)' /\ RequestOK(c)' /\ SnapshotOK(c)'
    <3>1. \A c \in Calls : pc[c] \in Published => at'[Dest(c)] = at[Dest(c)]
      <4> SUFFICES ASSUME NEW c \in Calls, pc[c] \in Published PROVE at'[Dest(c)] = at[Dest(c)]
        OBVIOUS
      <4>1. Dest(c) \in Destinations
        BY DEF IInv, RequestOK, Requests, Published, Dest
      <4>. QED
        BY <1>0, <2>1, <2>4, <4>1 DEF TypeOK
    <3>. QED
      BY <2>1, <2>3, <3>1, OthersStay DEF catalog, calls
  <2>6. KeysOK' /\ DestinationsAreWhole'
    BY <1>0, <2>1, KeysStay DEF catalog, calls, DestinationsAreWhole, IInv, TypeOK
  <2>. QED
    BY <2>2, <2>3, <2>5, <2>6, SinceStays DEF IInv
<1>. QED
  BY <1>1, <1>2, <1>3

LEMMA ReplayStep ==
    ASSUME IInv, NEW c \in Calls, Replay(c)
    PROVE  IInv'
<1> USE DEF Goto, Running, Early, Building, Published
<1>0. /\ TypeOK /\ KeysOK /\ PackageOK(c) /\ RequestOK(c) /\ SnapshotOK(c)
  BY DEF IInv
<1>1. /\ pc[c] \in {"looking", "recording"} /\ Prior(c) # NoCall
      /\ request[Prior(c)] = request[c]
      /\ answer' = [answer EXCEPT ![c] = Prior(c)] /\ pc' = [pc EXCEPT ![c] = "returned"]
      /\ UNCHANGED <<catalog, cas, outside, request, members, upTo>>
  BY DEF Replay, SameRequest
<1>2. request[c] \in Requests /\ createdAt[c] = 0
      /\ (Kind(c) = "bagit" \/ request[c].key = NoKey)
  BY <1>0, <1>1 DEF RequestOK
<1>3. Prior(c) \in Existing /\ Prior(c) \in Calls
  BY <1>0, <1>1, <1>2 DEF Prior, KeysOK, Requests, TypeOK
<1>4. TypeOK'
  BY <1>0, <1>1, <1>3 DEF TypeOK, catalog, outside
<1>5. OthersUntouched(c) /\ Grows
  BY <1>1 DEF OthersUntouched, Grows, catalog, outside
<1>6. PackageOK(c)'
  BY <1>0, <1>1 DEF PackageOK, TypeOK, outside
<1>7. RequestOK(c)'
  BY <1>0, <1>1, <1>2, <1>3 DEF RequestOK, TypeOK, catalog, Existing, Kind
<1>8. SnapshotOK(c)'
  BY <1>0, <1>1, <1>2 DEF SnapshotOK, TypeOK, catalog, AfterBackup, Kind
<1>9. KeysOK' /\ DestinationsAreWhole'
  BY <1>1, KeysStay DEF catalog, outside, DestinationsAreWhole, IInv
<1>. QED
  BY <1>1, <1>4, <1>5, <1>6, <1>7, <1>8, <1>9, CallStep DEF catalog

\* Rename, and the import of the manifest.
LEMMA PublishStep ==
    ASSUME IInv, NEW c \in Calls, Rename(c) \/ StoreManifest(c)
    PROVE  IInv'
<1> USE DEF Goto, Running, Early, Building, Published
<1>0. /\ TypeOK /\ PackageOK(c) /\ RequestOK(c) /\ SnapshotOK(c) /\ DestinationsAreWhole
  BY DEF IInv
<1>1. /\ UNCHANGED <<catalog, request, members, upTo, answer>> /\ pc[c] \in {"renaming", "storing"}
  BY DEF Rename, StoreManifest, outside
<1>2. request[c] \in Requests /\ createdAt[c] = 0 /\ answer[c] = NoCall
      /\ (Kind(c) = "bagit" \/ request[c].key = NoKey)
  BY <1>0, <1>1 DEF RequestOK
<1>3. KeysOK' /\ Grows
  BY <1>1, KeysStay DEF catalog, Grows
<1>4. RequestOK(c)'
  BY <1>1, <1>2 DEF RequestOK, catalog, Kind
<1>5. CASE Rename(c)
  <2>1. /\ pc[c] = "renaming" /\ at[Dest(c)] = NoPackage
        /\ at' = [at EXCEPT ![Dest(c)] = partial[c]]
        /\ partial' = [partial EXCEPT ![c] = NoPackage]
        /\ pc' = [pc EXCEPT ![c] = "storing"] /\ cas' = cas
    BY <1>5 DEF Rename, MayRename
  <2>2. Dest(c) \in Destinations
    BY <1>2 DEF Requests, Dest
  <2>3. partial[c] \in Packages /\ partial[c].owner = c /\ Whole(partial[c])
    BY <1>0, <2>1 DEF PackageOK
  <2>4. TypeOK'
    BY <1>0, <1>1, <2>1, <2>3 DEF TypeOK, catalog
  <2>5. \A d \in Calls \ {c} : pc[d] \in Published => at'[Dest(d)] = at[Dest(d)]
    <3> SUFFICES ASSUME NEW d \in Calls \ {c}, pc[d] \in Published
                 PROVE  at'[Dest(d)] = at[Dest(d)]
      OBVIOUS
    <3>1. at[Dest(d)] \in Packages /\ Dest(d) \in Destinations
      BY DEF IInv, PackageOK, RequestOK, Requests, Dest
    <3>2. Dest(d) # Dest(c)
      BY <2>1, <3>1
    <3>. QED
      BY <1>0, <2>1, <3>1, <3>2 DEF TypeOK
  <2>6. OthersUntouched(c)
    BY <1>1, <2>1, <2>5 DEF OthersUntouched, catalog
  <2>7. PackageOK(c)'
    BY <1>0, <1>1, <2>1, <2>2, <2>3 DEF PackageOK, TypeOK, Dest
  <2>8. SnapshotOK(c)'
    BY <1>0, <1>1, <1>2, <2>1 DEF SnapshotOK, TypeOK, catalog, AfterBackup, Kind, Since, Existing
  <2>9. DestinationsAreWhole'
    BY <1>0, <2>1, <2>3 DEF DestinationsAreWhole, TypeOK
  <2>. QED
    BY <1>1, <1>3, <1>4, <2>1, <2>4, <2>6, <2>7, <2>8, <2>9, CallStep DEF catalog
<1>6. CASE StoreManifest(c)
  <2>1. /\ pc[c] = "storing" /\ cas' = cas \cup {c} /\ UNCHANGED outside
        /\ pc' = [pc EXCEPT ![c] = "recording"]
    BY <1>6 DEF StoreManifest, WithManifest
  <2>2. TypeOK'
    BY <1>0, <1>1, <2>1 DEF TypeOK, catalog, outside, Things
  <2>3. OthersUntouched(c)
    BY <1>1, <2>1 DEF OthersUntouched, catalog, outside
  <2>4. PackageOK(c)'
    BY <1>0, <1>1, <2>1 DEF PackageOK, TypeOK, Dest, outside
  <2>5. SnapshotOK(c)'
    BY <1>0, <1>1, <1>2, <2>1 DEF SnapshotOK, TypeOK, catalog, AfterBackup, Kind, Since, Existing
  <2>6. DestinationsAreWhole'
    BY <1>0, <2>1 DEF DestinationsAreWhole, outside
  <2>. QED
    BY <1>1, <1>3, <1>4, <2>1, <2>2, <2>3, <2>4, <2>5, <2>6, CallStep DEF catalog
<1>. QED
  BY <1>5, <1>6

LEMMA RecordStep ==
    ASSUME IInv, NEW c \in Calls,
           RecordSnapshot(c) \/ RecordExport(c) \/ RecordMaterialization(c)
    PROVE  IInv'
<1> USE DEF Goto, Running, Early, Building, Published
<1>0. /\ TypeOK /\ KeysOK /\ PackageOK(c) /\ RequestOK(c) /\ SnapshotOK(c)
      /\ DestinationsAreWhole
  BY DEF IInv
<1>1. PICK inputs \in SUBSET Things : AddRecord(c, inputs) /\ (Kind(c) = "snapshot" => inputs = Included(c))
  <2>1. CASE RecordSnapshot(c)
    BY <2>1 DEF RecordSnapshot, Included, Since, Existing
  <2>2. CASE RecordExport(c)
    BY <1>0, <2>2 DEF RecordExport, TypeOK
  <2>3. CASE RecordMaterialization(c)
    BY <2>3 DEF RecordMaterialization
  <2>. QED
    BY <2>1, <2>2, <2>3
<1>2. pc[c] = "recording" /\ c \in Things
  BY DEF RecordSnapshot, RecordExport, RecordMaterialization, Things
<1>3. request[c] \in Requests /\ createdAt[c] = 0 /\ answer[c] = NoCall
      /\ (Kind(c) = "bagit" \/ request[c].key = NoKey)
  BY <1>0, <1>2 DEF RequestOK
<1>4. /\ createdAt' = [createdAt EXCEPT ![c] = revision + 1] /\ revision' = revision + 1
      /\ used' = [used EXCEPT ![c] = inputs] /\ pc' = [pc EXCEPT ![c] = "returned"]
      /\ answer' = answer \/ answer' = [answer EXCEPT ![c] = c]
      /\ UNCHANGED <<cas, outside, request, members, upTo>>
  BY <1>1 DEF AddRecord
<1>5. Grows
  BY <1>2, <1>3, <1>4 DEF Grows
<1>6. /\ revision \in Nat /\ createdAt'[c] # 0 /\ createdAt' \in [Things -> Nat]
      /\ \A x \in Things \ {c} : createdAt'[x] = createdAt[x]
  BY <1>0, <1>2, <1>4 DEF TypeOK
<1>7. Existing' = Existing \cup {c}
  BY <1>2, <1>6 DEF Existing
<1>8. /\ stored' = IF request[c].key = NoKey THEN stored
                   ELSE [stored EXCEPT ![request[c].key] = c]
      /\ (request[c].key # NoKey => stored[request[c].key] = NoCall)
  BY <1>3 DEF RecordSnapshot, RecordExport, RecordMaterialization, StoredBy, KeyUnused, Prior
<1>9. request[c].key \in Keys \cup {NoKey}
  BY <1>3 DEF Requests
<1>10. TypeOK'
  <2>1. stored' \in [Keys -> Calls \cup {NoCall}]
    BY <1>0, <1>8, <1>9 DEF TypeOK
  <2>2. answer' \in [Calls -> Calls \cup {NoCall}] /\ used' \in [Calls -> SUBSET Things]
    BY <1>0, <1>4 DEF TypeOK
  <2>. QED
    BY <1>0, <1>4, <1>5, <2>1, <2>2, SinceStays, IInv DEF TypeOK, outside
<1>11. OthersUntouched(c)
  BY <1>0, <1>4, <1>6 DEF OthersUntouched, outside, TypeOK, Things
<1>12. PackageOK(c)'
  BY <1>0, <1>2, <1>4 DEF PackageOK, TypeOK, outside
<1>13. RequestOK(c)'
  BY <1>0, <1>3, <1>4, <1>7 DEF RequestOK, TypeOK, Kind
<1>14. SnapshotOK(c)'
  <2>1. upTo[c] \in Nat /\ upTo[c] <= revision
    BY <1>0 DEF SnapshotOK, TypeOK
  <2>2. upTo'[c] <= revision'
    BY <1>4, <1>6, <2>1
  <2>3. Kind(c) = "snapshot" => used'[c] = members'[c]
    BY <1>0, <1>1, <1>2, <1>4 DEF SnapshotOK, AfterBackup, Included, TypeOK
  <2>4. pc'[c] = "returned"
    BY <1>0, <1>4 DEF TypeOK
  <2>. QED
    BY <1>4, <2>2, <2>3, <2>4 DEF SnapshotOK, AfterBackup, Kind
<1>15. KeysOK'
  <2>1. \A k \in Keys : stored'[k] # NoCall => stored'[k] \in Existing' /\ request[stored'[k]].key = k
    BY <1>0, <1>7, <1>8, <1>9 DEF KeysOK, TypeOK
  <2>2. ASSUME NEW d \in Existing' \cap Calls, request[d].key # NoKey
        PROVE  stored'[request[d].key] = d
    <3>1. CASE d = c
      BY <1>0, <1>8, <1>9, <2>2, <3>1 DEF TypeOK
    <3>2. CASE d # c
      <4>1. d \in Existing /\ stored[request[d].key] = d /\ d # NoCall
        BY <1>0, <1>7, <2>2, <3>2 DEF KeysOK
      <4>2. request[d].key # request[c].key
        BY <1>8, <2>2, <4>1
      <4>3. request[d].key \in Keys
        <5>1. pc[d] = "returned"
          BY <4>1 DEF IInv, RequestOK, Existing
        <5>2. request[d] \in Requests
          BY <5>1 DEF IInv, RequestOK
        <5>. QED
          BY <2>2, <5>2 DEF Requests
      <4>. QED
        BY <1>0, <1>8, <1>9, <4>1, <4>2, <4>3 DEF TypeOK
    <3>. QED
      BY <3>1, <3>2
  <2>. QED
    BY <1>4, <2>1, <2>2 DEF KeysOK
<1>16. DestinationsAreWhole'
  BY <1>0, <1>4 DEF DestinationsAreWhole, outside
<1>. QED
  BY <1>4, <1>5, <1>10, <1>11, <1>12, <1>13, <1>14, <1>15, <1>16, CallStep

LEMMA NextIInv == IInv /\ [Next]_vars => IInv'
<1> SUFFICES ASSUME IInv, [Next]_vars PROVE IInv'
  OBVIOUS
<1>1. CASE UNCHANGED vars
  <2>1. Grows /\ UNCHANGED <<catalog, cas, outside, calls>>
    BY <1>1 DEF vars, Grows, catalog
  <2>2. \A c \in Calls : PackageOK(c)' /\ RequestOK(c)' /\ SnapshotOK(c)'
    BY <2>1, OthersStay DEF catalog, outside, calls
  <2>3. TypeOK' /\ KeysOK' /\ DestinationsAreWhole'
    BY <2>1, KeysStay DEF IInv, TypeOK, DestinationsAreWhole, catalog, outside, calls
  <2>. QED
    BY <2>1, <2>2, <2>3, SinceStays DEF IInv
<1>2. CASE Next
  BY <1>2, BuildStep, OutsideStep, ReplayStep, PublishStep, RecordStep DEF Next, Step
<1>. QED
  BY <1>1, <1>2
----------------------------------------------------------------------------
(* Deliverables and answers as keyed effects. *)

\* A step that records nothing and answers nobody.
LEMMA NothingIsDelivered ==
    ASSUME IInv, UNCHANGED <<createdAt, answer>>,
           \A c \in Calls : pc[c] # "idle" => request'[c] = request[c]
    PROVE  UNCHANGED K!keyedVars
<1>1. Delivered' = Delivered /\ \A d \in Delivered : request'[d] = request[d]
  BY DEF Delivered, Existing, IInv, RequestOK
<1>2. \A d \in Delivered : Effect(d)' = Effect(d)
  BY <1>1 DEF Effect
<1>3. Effects' = Effects
  BY <1>1, <1>2 DEF Effects
<1>4. Answered' = Answered /\ \A c \in Answered : request'[c] = request[c]
  BY DEF Answered, IInv, RequestOK
<1>5. \A c \in Answered : AnswerTo(c)' = AnswerTo(c)
  BY <1>4 DEF AnswerTo
<1>6. Told' = Told
  BY <1>4, <1>5 DEF Told
<1>. QED
  BY <1>3, <1>6 DEF K!keyedVars

\* An answer that names a deliverable with the request of the call.
LEMMA AnswerIsTold ==
    ASSUME IInv, NEW c \in Calls, NEW d \in Delivered', UNCHANGED request,
           pc[c] = "recording" \/ pc[c] = "looking",
           answer' = [answer EXCEPT ![c] = d],
           request[d] = request[c], d = c \/ request[c].key # NoKey
    PROVE  K!Tell
<1>1. answer[c] = NoCall /\ answer \in [Calls -> Calls \cup {NoCall}] /\ d \in Calls
  BY DEF IInv, TypeOK, RequestOK, Delivered
<1>2. Answered' = Answered \cup {c} /\ \A x \in Answered : x # c /\ answer'[x] = answer[x]
  BY <1>1 DEF Answered
<1>3. \A x \in Answered : AnswerTo(x)' = AnswerTo(x)
  BY <1>2 DEF AnswerTo
<1>4. AnswerTo(c)' = <<c, Effect(d)'>>
  BY <1>1 DEF AnswerTo, Effect
<1>5. Told' = Told \cup {<<c, Effect(d)'>>}
  BY <1>2, <1>3, <1>4 DEF Told
<1>6. Effect(d)' \in Effects'
  BY DEF Effects
<1>7. Effect(d)'.call = c \/ Effect(d)'.key # NoKey
  BY DEF Effect
<1>8. \A t \in Told : t[1] # c
  BY <1>2 DEF Told, AnswerTo
<1>. QED
  BY <1>5, <1>6, <1>7, <1>8 DEF K!Tell, K!MayBeTold

\* A record is a fresh effect, of which its call may be told at once.
LEMMA RecordIsEffect ==
    ASSUME IInv, NEW c \in Calls,
           RecordSnapshot(c) \/ RecordExport(c) \/ RecordMaterialization(c)
    PROVE  K!KeyedNext
<1>1. /\ pc[c] = "recording" /\ UNCHANGED request
      /\ createdAt' = [createdAt EXCEPT ![c] = revision + 1]
      /\ answer' = answer \/ answer' = [answer EXCEPT ![c] = c]
  BY DEF RecordSnapshot, RecordExport, RecordMaterialization, AddRecord
<1>2. /\ createdAt[c] = 0 /\ answer[c] = NoCall /\ revision \in Nat
      /\ createdAt \in [Things -> Nat]
  BY <1>1 DEF IInv, TypeOK, RequestOK
<1>3. Delivered' = Delivered \cup {c} /\ c \notin Delivered
  BY <1>1, <1>2 DEF Delivered, Existing, Things
<1>4. \A d \in Calls : Effect(d)' = Effect(d)
  BY <1>1 DEF Effect
<1>5. Effects' = Effects \cup {Effect(c)}
  BY <1>3, <1>4 DEF Effects, Delivered
<1>6. K!Fresh(Effect(c))
  <2>1. ASSUME NEW d \in Delivered, request[c].key # NoKey PROVE request[d].key # request[c].key
    <3>1. request[c] \in Requests /\ Kind(c) = "bagit"
      BY <1>1, <2>1 DEF IInv, RequestOK
    <3>2. Prior(c) = NoCall
      BY <3>1 DEF RecordSnapshot, RecordExport, RecordMaterialization, KeyUnused
    <3>3. request[c].key \in Keys /\ stored[request[c].key] = NoCall
      BY <2>1, <3>1, <3>2 DEF Prior, Requests
    <3>4. request[d].key # NoKey => stored[request[d].key] = d
      BY DEF IInv, KeysOK, Delivered
    <3>. QED
      BY <2>1, <3>3, <3>4 DEF Delivered
  <2>2. \A d \in Delivered : d # c
    BY <1>3
  <2>. QED
    BY <2>1, <2>2 DEF K!Fresh, Effects, Effect
<1>7. K!TakeEffect
  BY <1>5, <1>6 DEF K!TakeEffect
<1>8. Told' = Told \/ K!Tell
  <2>1. CASE answer' = answer
    <3>1. Answered' = Answered /\ \A x \in Answered : AnswerTo(x)' = AnswerTo(x)
      BY <1>1, <2>1 DEF Answered, AnswerTo
    <3>. QED
      BY <3>1 DEF Told
  <2>2. CASE answer' = [answer EXCEPT ![c] = c]
    BY <1>1, <1>3, <2>2, AnswerIsTold
  <2>. QED
    BY <1>1, <2>1, <2>2
<1>. QED
  BY <1>7, <1>8 DEF K!KeyedNext

LEMMA KeyedStep ==
    ASSUME IInv, [Next]_vars
    PROVE  [K!KeyedNext]_(K!keyedVars)
<1>1. ASSUME NEW c \in Calls, Replay(c) PROVE K!KeyedNext
  <2>1. /\ pc[c] \in {"looking", "recording"} /\ Prior(c) # NoCall /\ request[Prior(c)] = request[c]
        /\ answer' = [answer EXCEPT ![c] = Prior(c)] /\ UNCHANGED <<createdAt, request>>
    BY <1>1 DEF Replay, SameRequest, catalog
  <2>2. request[c] \in Requests /\ request[c].key # NoKey
    BY <2>1 DEF IInv, RequestOK, Prior
  <2>3. request[c].key \in Keys /\ Prior(c) = stored[request[c].key]
    BY <2>2 DEF Prior, Requests
  <2>4. Prior(c) \in Existing /\ Prior(c) \in Calls
    BY <2>1, <2>3 DEF IInv, KeysOK, TypeOK
  <2>5. Prior(c) \in Delivered' /\ Delivered' = Delivered
    BY <2>1, <2>4 DEF Delivered, Existing
  <2>6. K!Tell
    BY <2>1, <2>2, <2>5, AnswerIsTold
  <2>7. Effects' = Effects
    BY <2>1, <2>5 DEF Effects, Effect
  <2>. QED
    BY <2>6, <2>7 DEF K!KeyedNext
<1>2. ASSUME NEW x \in Objects, AddObject(x) PROVE UNCHANGED K!keyedVars
  <2>1. /\ createdAt' = [createdAt EXCEPT ![x] = revision + 1] /\ UNCHANGED <<answer, request>>
        /\ createdAt \in [Things -> Nat] /\ x \notin Calls
    BY <1>2 DEF AddObject, IInv, TypeOK, calls
  <2>2. \A c \in Calls : createdAt'[c] = createdAt[c]
    BY <2>1 DEF Things
  <2>3. Delivered' = Delivered
    BY <2>2 DEF Delivered, Existing, Things
  <2>4. Effects' = Effects
    BY <2>1, <2>3 DEF Effects, Effect
  <2>5. Told' = Told
    BY <2>1 DEF Told, Answered, AnswerTo
  <2>. QED
    BY <2>4, <2>5 DEF K!keyedVars
<1>3. ASSUME NEW c \in Calls, NEW r \in Requests, Start(c, r) PROVE UNCHANGED K!keyedVars
  <2>1. pc[c] = "idle" /\ UNCHANGED <<createdAt, answer>> /\ request' = [request EXCEPT ![c] = r]
    BY <1>3 DEF Start, catalog
  <2>2. \A d \in Calls : pc[d] # "idle" => request'[d] = request[d]
    BY <2>1 DEF IInv, TypeOK
  <2>. QED
    BY <2>1, <2>2, NothingIsDelivered
<1>4. ASSUME NEW c \in Calls,
             \/ LookUp(c) \/ TestDestination(c) \/ Backup(c) \/ \E x \in Things : CopyBytes(c, x)
             \/ WriteManifest(c) \/ CloseDirectory(c) \/ Rename(c) \/ StoreManifest(c)
             \/ Fail(c) \/ Crash(c)
      PROVE  UNCHANGED K!keyedVars
  <2>1. UNCHANGED <<createdAt, answer, request>>
    BY <1>4 DEF LookUp, TestDestination, Backup, CopyBytes, WriteManifest, CloseDirectory, Rename,
                StoreManifest, Fail, Crash, catalog, calls
  <2>. QED
    BY <2>1, NothingIsDelivered
<1>5. CASE (\E d \in Destinations : TakeAway(d)) \/ UNCHANGED vars
  <2>1. UNCHANGED <<createdAt, answer, request>>
    BY <1>5 DEF TakeAway, vars, catalog, calls
  <2>. QED
    BY <2>1, NothingIsDelivered
<1>. QED
  BY <1>1, <1>2, <1>3, <1>4, <1>5, RecordIsEffect DEF Next, Step
----------------------------------------------------------------------------
(* Theorems. *)

\* The invariant above holds in every reachable state.
THEOREM IInvHolds == Spec => []IInv
  BY InitIInv, NextIInv, PTL DEF Spec

\* Every variable keeps its type.
THEOREM TypeCorrect == Spec => []TypeOK
<1>1. IInv => TypeOK
  BY DEF IInv
<1>. QED
  BY <1>1, IInvHolds, PTL

\* What stands at a destination is whole, wherever calls fail or crash
\* (snapshot.go, export.go and projection.go: copy, manifest, rename).
THEOREM WholeDestinations == Spec => []DestinationsAreWhole
<1>1. IInv => DestinationsAreWhole
  BY DEF IInv
<1>. QED
  BY <1>1, IInvHolds, PTL

\* A snapshot's record has the inputs its catalog copy lists, whatever is
\* committed meanwhile (snapshot.go, the record's query by revision).
THEOREM SnapshotsAreRecordedWhole == Spec => []SnapshotInputsAreItsCatalog
  BY IInvHolds, IInvImplies, PTL

\* A key names one export, and an answer an export with its own request.
THEOREM ExportsOncePerKey == Spec => []ExportsAreOncePerKey
  BY IInvHolds, IInvImplies, PTL

\* A partial directory outlives its call only by a crash or as a read-only one.
THEOREM PartialsSwept == Spec => []PartialsAreSwept
  BY IInvHolds, IInvImplies, PTL

\* No package is replaced, and a record names one that stands.
THEOREM PackagesAreKept == Spec => PackagesStand
<1> DEFINE Kept == \A d \in Destinations : at[d] # NoPackage => at'[d] \in {at[d], NoPackage}
           Backed == \A c \in Calls : createdAt[c] = 0 /\ createdAt'[c] # 0 =>
                         at[Dest(c)] # NoPackage /\ at[Dest(c)].owner = c /\ c \in cas
<1>1. IInv /\ [Next]_vars => [Kept /\ Backed]_vars
  <2> SUFFICES ASSUME IInv, Next PROVE Kept /\ Backed
    OBVIOUS
  <2>0. TypeOK
    BY DEF IInv
  <2>1. CASE \E c \in Calls : Rename(c)
    BY <2>0, <2>1 DEF Rename, MayRename, TypeOK, catalog
  <2>2. CASE \E d \in Destinations : TakeAway(d)
    BY <2>0, <2>2 DEF TakeAway, TypeOK, catalog
  <2>3. CASE \E x \in Objects : AddObject(x)
    BY <2>0, <2>3 DEF AddObject, TypeOK, outside, Things
  <2>4. ASSUME NEW c \in Calls,
               RecordSnapshot(c) \/ RecordExport(c) \/ RecordMaterialization(c)
        PROVE  Kept /\ Backed
    <3>1. pc[c] = "recording" /\ UNCHANGED outside
          /\ createdAt' = [createdAt EXCEPT ![c] = revision + 1]
      BY <2>4 DEF RecordSnapshot, RecordExport, RecordMaterialization, AddRecord
    <3>2. at[Dest(c)] \in Packages /\ at[Dest(c)].owner = c /\ c \in cas
      BY <3>1 DEF IInv, PackageOK, Published
    <3>. QED
      BY <2>0, <3>1, <3>2 DEF outside, TypeOK, Things
  <2>5. CASE UNCHANGED <<catalog, at>>
    BY <2>5 DEF catalog
  <2>. QED
    BY <2>1, <2>2, <2>3, <2>4, <2>5
    DEF Next, Step, Start, LookUp, Replay, TestDestination, Backup, CopyBytes, WriteManifest,
        CloseDirectory, StoreManifest, Fail, Crash, outside
<1>. QED
  BY <1>1, IInvHolds, PTL DEF Spec, PackagesStand

\* Exports, snapshots and materializations implement the promise about idempotency keys:
\* one step, one effect for a key, for good, and told only to who asked for it.
THEOREM Implements == Spec => ImplementsKeyedEffects
<1>1. Init => K!KeyedInit
  BY DEF Init, K!KeyedInit, Effects, Told, Delivered, Existing, Answered, Things
<1>. QED
  BY <1>1, IInvHolds, KeyedStep, PTL DEF Spec, ImplementsKeyedEffects, K!KeyedSpec
=============================================================================
