------------------------- MODULE SourceTreesProofs -------------------------
(***************************************************************************)
(* Proofs about module SourceTrees, for any number of calls, of paths and  *)
(* of changes of the directory, and files of any size.                     *)
(*                                                                         *)
(* Four arguments.  What is copied is a prefix of the file as long as the *)
(* modification time is that of the open file (CopyOK), so that the check  *)
(* after the copy finds it whole.  Each file of the entries is in staging  *)
(* until it is in the blob store (StagedOK, PublishedOK), which needs that *)
(* a path has one entry (FoundOK).  A call at a file has room for one      *)
(* (LimitsOK), however the file grows until it is copied.  And only a call *)
(* that is over has a tree or an answer (AnswerOK), so that the record is  *)
(* a fresh effect of KeyedEffects and the answer to it new.                *)
(***************************************************************************)
EXTENDS SourceTrees, FiniteSetTheorems, TLAPS

Over == {"returning", "done", "dead"}
Copying == {"copying", "checking"}

\* What a call looks at.
LookedAt(c) ==
    pc[c] \in {"opening"} \cup Copying => todo[c] # {} /\ info[c].node \in Nodes

\* What it copied, if nobody wrote the file since it was opened.
CopyOK(c) ==
    pc[c] \in Copying =>
        LET n == info[c].node
        IN  /\ opened[c].mtime <= mtime[n]
            /\ opened[c].mtime = mtime[n] =>
                   /\ Len(copied[c]) <= Len(content[n])
                   /\ \A k \in 1..Len(copied[c]) : copied[c][k] = content[n][k]
                   /\ pc[c] = "checking" => Len(copied[c]) = Len(content[n])

\* What it found: each path once, and each file as it stood.
FoundOK(c) ==
    \A e \in Range(entries[c]) :
        /\ e.path \notin todo[c]
        /\ e.kind = "file" => <<e.path, e.content>> \in stood
        /\ \A f \in Range(entries[c]) : e.path = f.path => e = f

\* The staging files of a call are those of its entries and the one it copies.
StagedOK(c) ==
    /\ \A s \in Paths \cup {0} : <<c, s>> \in staging =>
           /\ pc[c] \notin {"idle", "done"}
           /\ \/ pc[c] = "dead" \/ s = 0
              \/ \E e \in Range(entries[c]) : e.path = s
              \/ pc[c] \in Copying /\ s = At(c)
    /\ pc[c] \in Copying => <<c, At(c)>> \in staging

\* The bytes of its files are in staging, then in the blob store.
PublishedOK(c) ==
    /\ \A e \in Range(entries[c]) : e.kind = "file" =>
           /\ pc[c] \in Scanning \cup {"keyed"} => <<c, e.path>> \in staging
           /\ pc[c] = "publishing" => <<c, e.path>> \in staging \/ e.content \in cas
           /\ pc[c] = "recording" => e.content \in cas
    /\ pc[c] = "recording" => entries[c] \in manifests

\* Only a call that is over has a tree, or is an answer.
AnswerOK(c) ==
    /\ tree[c] # NoTree => pc[c] \in Over
    /\ pc[c] = "idle" => entries[c] = <<>>
    /\ answer[c] # NoCall => pc[c] \in {"returning", "done"} /\ pc[answer[c]] \in Over

CallOK(c) ==
    LookedAt(c) /\ CopyOK(c) /\ FoundOK(c) /\ StagedOK(c) /\ PublishedOK(c) /\ AnswerOK(c)

\* The directory: what stands at a path is remembered, and times only grow.
DirectoryOK ==
    /\ \A p \in Paths : node[p] # NoNode => <<p, content[node[p]]>> \in stood
    /\ \A n \in Nodes : mtime[n] <= changes

IInv ==
    /\ TypeOK /\ DirectoryOK
    /\ \A c \in Calls : CallOK(c)
    /\ EntriesAreWhole /\ TreesAreBacked /\ OneTreePerKey
----------------------------------------------------------------------------
\* Every set of numbers has a least one: the intervals up to its members are finite
\* sets, which inclusion orders without a descending chain.
LEMMA MinIsMember ==
    ASSUME NEW S, S \subseteq Nat, S # {}
    PROVE  Min(S) \in S
<1>. DEFINE T == {1..x : x \in S}
<1>1. T \subseteq FiniteSubsetsOf(Nat) /\ T # {}
  <2>1. ASSUME NEW x \in S PROVE 1..x \in FiniteSubsetsOf(Nat)
    BY FS_Interval DEF FiniteSubsetsOf
  <2>. QED
    BY <2>1
<1>2. IsWellFoundedOn(StrictSubsetOrdering(Nat), FiniteSubsetsOf(Nat))
  BY FS_StrictSubsetOrderingWellFounded
<1>3. \E A \in T : \A B \in T : <<B, A>> \notin StrictSubsetOrdering(Nat)
  BY <1>1, <1>2, WFMin
<1>4. PICK m \in S : \A x \in S : <<1..x, 1..m>> \notin StrictSubsetOrdering(Nat)
  BY <1>3
<1>5. ASSUME NEW x \in S, ~(m <= x) PROVE FALSE
  <2>1. 1..x \subseteq 1..m /\ 1..m \subseteq Nat /\ m \in 1..m /\ m \notin 1..x
    BY <1>5
  <2>2. 1..x # 1..m /\ <<1..x, 1..m>> \in (SUBSET Nat) \X (SUBSET Nat)
    BY <2>1
  <2>3. <<1..x, 1..m>> \in StrictSubsetOrdering(Nat)
    BY <2>1, <2>2 DEF StrictSubsetOrdering
  <2>. QED
    BY <1>4, <2>3
<1>6. \E x \in S : \A y \in S : x <= y
  BY <1>5
<1>. QED
  BY <1>6 DEF Min

LEMMA AtIsNext ==
    ASSUME TypeOK, NEW c \in Calls, todo[c] # {}
    PROVE  At(c) \in todo[c] /\ At(c) \in Paths
<1>1. todo[c] \subseteq Paths
  BY DEF TypeOK
<1>2. Min(todo[c]) \in todo[c]
  BY <1>1, MinIsMember, TreeAssumption
<1>. QED
  BY <1>1, <1>2 DEF At

LEMMA RangeOfAppend ==
    ASSUME NEW T, NEW s \in Seq(T), NEW e \in T
    PROVE  Range(Append(s, e)) = Range(s) \cup {e}
<1>1. DOMAIN Append(s, e) = 1..(Len(s) + 1) /\ DOMAIN s = 1..Len(s)
  OBVIOUS
<1>2. \A i \in 1..Len(s) : Append(s, e)[i] = s[i]
  OBVIOUS
<1>3. Append(s, e)[Len(s) + 1] = e
  OBVIOUS
<1>4. Range(s) \cup {e} \subseteq Range(Append(s, e))
  <2>1. ASSUME NEW x \in Range(s) PROVE x \in Range(Append(s, e))
    <3>1. PICK i \in 1..Len(s) : x = s[i]
      BY <1>1 DEF Range
    <3>2. i \in 1..(Len(s) + 1) /\ x = Append(s, e)[i]
      BY <1>2, <3>1
    <3>. QED
      BY <1>1, <3>2 DEF Range
  <2>2. e \in Range(Append(s, e))
    <3>1. Len(s) + 1 \in 1..(Len(s) + 1)
      OBVIOUS
    <3>. QED
      BY <1>1, <1>3, <3>1 DEF Range
  <2>. QED
    BY <2>1, <2>2
<1>5. ASSUME NEW x \in Range(Append(s, e)) PROVE x \in Range(s) \cup {e}
  <2>1. PICK i \in 1..(Len(s) + 1) : x = Append(s, e)[i]
    BY <1>1 DEF Range
  <2>2. CASE i \in 1..Len(s)
    BY <1>1, <1>2, <2>1, <2>2 DEF Range
  <2>3. CASE i = Len(s) + 1
    BY <1>3, <2>1, <2>3
  <2>. QED
    BY <2>1, <2>2, <2>3
<1>. QED
  BY <1>4, <1>5

LEMMA RangeOfEmpty == Range(<<>>) = {}
BY DEF Range

LEMMA RangeInSet ==
    ASSUME NEW T, NEW s \in Seq(T)
    PROVE  Range(s) \subseteq T
BY DEF Range

\* If each call has staging files only while it runs, or has died, none is left.
LEMMA NothingIsLeft ==
    ASSUME TypeOK, \A c \in Calls : StagedOK(c)
    PROVE  ImportsAreSwept
<1>1. SUFFICES ASSUME NEW t \in staging PROVE pc[t[1]] # "done"
  BY DEF ImportsAreSwept
<1>2. t \in Calls \X (Paths \cup {0})
  BY DEF TypeOK
<1>3. t = <<t[1], t[2]>> /\ t[1] \in Calls /\ t[2] \in Paths \cup {0}
  BY <1>2
<1>4. <<t[1], t[2]>> \in staging
  BY <1>1, <1>3
<1>. QED
  BY <1>3, <1>4 DEF StagedOK

USE TreeAssumption

\* Contents are sequences of blocks, up to a length.
LEMMA ContentsAreSequences ==
    \A b : b \in Contents <=> b \in Seq(Blocks) /\ Len(b) <= MaxSize
<1>1. ASSUME NEW b \in Contents PROVE b \in Seq(Blocks) /\ Len(b) <= MaxSize
  <2>1. PICK n \in 0..MaxSize : b \in [1..n -> Blocks]
    BY DEF Contents
  <2>. QED
    BY <2>1
<1>2. ASSUME NEW b \in Seq(Blocks), Len(b) <= MaxSize PROVE b \in Contents
  <2>1. Len(b) \in 0..MaxSize /\ b \in [1..Len(b) -> Blocks]
    BY <1>2
  <2>. QED
    BY <2>1 DEF Contents
<1>. QED
  BY <1>1, <1>2
----------------------------------------------------------------------------
LEMMA InitIInv == Init => IInv
<1> SUFFICES ASSUME Init PROVE IInv
  OBVIOUS
<1>1. TypeOK
  <2>1. <<>> \in Contents /\ <<>> \in Manifests /\ 0 \in Blocks
    <3>1. <<>> \in Seq(Blocks) /\ Len(<<>>) = 0
      OBVIOUS
    <3>2. PICK b : b = <<>>
      OBVIOUS
    <3>3. b \in Seq(Blocks) /\ Len(b) <= MaxSize
      BY <3>1, <3>2
    <3>4. b \in Contents
      BY <3>3, ContentsAreSequences
    <3>. QED
      BY <3>2, <3>4 DEF Manifests, Blocks
  <2>2. ContentAtFirst \in [Nodes -> Contents]
    <3>1. ASSUME NEW n \in Nodes PROVE ContentAtFirst[n] \in Contents
      <4>1. ContentAtFirst[n] \in Seq(Blocks) /\ Len(ContentAtFirst[n]) <= MaxSize
        BY DEF Blocks
      <4>. QED
        BY <4>1, ContentsAreSequences
    <3>. QED
      BY <3>1
  <2>3. NoInfo \in [node : Nodes \cup {NoNode}, size : 0..MaxSize]
    BY DEF NoInfo
  <2>4. NotOpen \in [size : 0..MaxSize, mtime : Blocks]
    BY DEF NotOpen, Blocks
  <2>. QED
    BY <2>1, <2>2, <2>3, <2>4 DEF Init, TypeOK
<1>2. DirectoryOK
  <2>1. ASSUME NEW p \in Paths, node[p] # NoNode PROVE <<p, content[node[p]]>> \in stood
    BY <2>1 DEF Init, NowAt
  <2>. QED
    BY <2>1 DEF Init, DirectoryOK
<1>3. ASSUME NEW c \in Calls PROVE CallOK(c)
  BY RangeOfEmpty DEF Init, CallOK, LookedAt, CopyOK, FoundOK, StagedOK, PublishedOK, AnswerOK,
                      Copying, Scanning
<1>4. EntriesAreWhole /\ TreesAreBacked /\ OneTreePerKey
  BY DEF Init, EntriesAreWhole, TreesAreBacked, OneTreePerKey, Trees
<1>. QED
  BY <1>1, <1>2, <1>3, <1>4 DEF IInv
----------------------------------------------------------------------------
\* The owners.

\* What a block more or less, or another one, makes of a content.
LEMMA WriteKeepsContents ==
    ASSUME TypeOK, changes < MaxChanges, NEW n \in Nodes,
           NEW blocks \in {[content[n] EXCEPT ![k] = changes + 1] : k \in DOMAIN content[n]}
                     \cup {Append(content[n], changes + 1)}
                     \cup {SubSeq(content[n], 1, Len(content[n]) - 1)},
           Len(blocks) <= MaxSize
    PROVE  blocks \in Contents
<1>1. content[n] \in Seq(Blocks) /\ changes + 1 \in Blocks
  BY ContentsAreSequences DEF TypeOK, Blocks
<1>2. CASE \E k \in DOMAIN content[n] : blocks = [content[n] EXCEPT ![k] = changes + 1]
  <2>1. blocks \in Seq(Blocks)
    BY <1>1, <1>2
  <2>. QED
    BY <2>1, ContentsAreSequences
<1>3. CASE blocks = Append(content[n], changes + 1)
  <2>1. blocks \in Seq(Blocks)
    BY <1>1, <1>3
  <2>. QED
    BY <2>1, ContentsAreSequences
<1>4. CASE blocks = SubSeq(content[n], 1, Len(content[n]) - 1)
  <2>1. blocks \in Seq(Blocks)
    <3>1. \A i \in 1..(Len(content[n]) - 1) : content[n][i] \in Blocks
      BY <1>1
    <3>2. Len(content[n]) \in Nat
      BY <1>1
    <3>. QED
      BY <1>1, <1>4, <3>1, <3>2
  <2>. QED
    BY <2>1, ContentsAreSequences
<1>. QED
  BY <1>2, <1>3, <1>4

\* What the owners leave alone, and what they do to times.
LEMMA OwnersStep ==
    ASSUME TypeOK, DirectoryOK, Owners
    PROVE  /\ TypeOK' /\ DirectoryOK'
           /\ UNCHANGED <<case, staging, pc, key, scan, answer>>
           /\ stood \subseteq stood'
           /\ \A m \in Nodes : mtime[m] <= mtime'[m]
           /\ \A m \in Nodes : mtime'[m] = mtime[m] => content'[m] = content[m]
<1>1. changes' \in Blocks /\ changes' = changes + 1 /\ changes < MaxChanges /\ stood \subseteq stood'
  BY SMTT(40) DEF Owners, Write, Replace, Changed, TypeOK, Blocks
<1>2. UNCHANGED <<case, staging, pc, key, scan, answer>>
  BY DEF Owners, Write, Replace, Changed
<1>3. node' \in [Paths -> Nodes \cup {NoNode}]
  BY DEF Owners, Write, Replace, TypeOK
<1>4. content' \in [Nodes -> Contents] /\ mtime' \in [Nodes -> Blocks]
  <2>1. ASSUME NEW n \in Nodes, Write(n) PROVE content' \in [Nodes -> Contents]
    BY <1>1, <2>1, WriteKeepsContents DEF Write, TypeOK
  <2>2. ASSUME NEW n \in Nodes, Write(n) PROVE mtime' \in [Nodes -> Blocks]
    BY <1>1, <2>2 DEF Write, TypeOK
  <2>3. ASSUME NEW p \in Paths, NEW n \in Nodes \cup {NoNode}, Replace(p, n)
        PROVE  content' \in [Nodes -> Contents] /\ mtime' \in [Nodes -> Blocks]
    BY <2>3 DEF Replace, TypeOK
  <2>. QED
    BY <2>1, <2>2, <2>3 DEF Owners
<1>5. \A m \in Nodes : /\ mtime[m] <= mtime'[m] /\ mtime'[m] <= changes'
                       /\ mtime'[m] = mtime[m] => content'[m] = content[m]
  <2>1. \A m \in Nodes : mtime[m] <= changes /\ mtime[m] \in Nat /\ changes \in Nat
    BY DEF DirectoryOK, TypeOK, Blocks
  <2>2. ASSUME NEW n \in Nodes, Write(n), NEW m \in Nodes
        PROVE  /\ mtime[m] <= mtime'[m] /\ mtime'[m] <= changes'
               /\ mtime'[m] = mtime[m] => content'[m] = content[m]
    <3>1. CASE m = n
      BY <1>1, <2>1, <2>2, <3>1 DEF Write, TypeOK
    <3>2. CASE m # n
      BY <1>1, <2>1, <2>2, <3>2 DEF Write, TypeOK
    <3>. QED
      BY <3>1, <3>2
  <2>3. ASSUME NEW p \in Paths, NEW n \in Nodes \cup {NoNode}, Replace(p, n)
        PROVE  content' = content /\ mtime' = mtime
    BY <2>3 DEF Replace
  <2>. QED
    BY <1>1, <2>1, <2>2, <2>3 DEF Owners
<1>6. TypeOK'
  BY <1>1, <1>2, <1>3, <1>4 DEF TypeOK, case, scan
<1>7. DirectoryOK'
  <2>1. ASSUME NEW p \in Paths, node'[p] # NoNode PROVE <<p, content'[node'[p]]>> \in stood'
    <3>1. stood' = stood \cup UNION {NowAt(q)' : q \in Paths}
      BY DEF Owners, Write, Replace, Changed
    <3>2. <<p, content'[node'[p]]>> \in NowAt(p)'
      BY <2>1 DEF NowAt
    <3>. QED
      BY <3>1, <3>2
  <2>. QED
    BY <1>5, <2>1 DEF DirectoryOK
<1>. QED
  BY <1>1, <1>2, <1>5, <1>6, <1>7

LEMMA OwnersCalls ==
    ASSUME IInv, Owners
    PROVE  IInv'
<1>1. TypeOK /\ DirectoryOK /\ \A c \in Calls : CallOK(c)
  BY DEF IInv
<1>2. /\ TypeOK' /\ DirectoryOK'
      /\ UNCHANGED <<case, staging, pc, key, scan, answer>>
      /\ stood \subseteq stood'
      /\ \A m \in Nodes : mtime[m] <= mtime'[m]
      /\ \A m \in Nodes : mtime'[m] = mtime[m] => content'[m] = content[m]
  BY <1>1, OwnersStep
<1>3. ASSUME NEW c \in Calls PROVE CallOK(c)'
  <2>1. LookedAt(c)' /\ FoundOK(c)' /\ StagedOK(c)' /\ PublishedOK(c)' /\ AnswerOK(c)'
    BY <1>1, <1>2 DEF CallOK, LookedAt, FoundOK, StagedOK, PublishedOK, AnswerOK, At, case, scan
  <2>2. CopyOK(c)'
    <3>1. SUFFICES ASSUME pc[c] \in Copying PROVE CopyOK(c)'
      BY <1>2 DEF CopyOK
    <3>2. PICK n \in Nodes : n = info[c].node
      BY <1>1, <3>1 DEF CallOK, LookedAt
    <3>3. info' = info /\ opened' = opened /\ copied' = copied /\ pc' = pc
      BY <1>2 DEF scan
    <3>4. opened[c].mtime \in Nat /\ mtime[n] \in Nat /\ mtime'[n] \in Nat
      BY <1>1, <1>2 DEF TypeOK, Blocks
    <3>5. opened[c].mtime <= mtime[n] /\ mtime[n] <= mtime'[n]
      BY <1>1, <1>2, <3>1, <3>2 DEF CallOK, CopyOK
    <3>6. ASSUME opened[c].mtime = mtime'[n]
          PROVE  opened[c].mtime = mtime[n] /\ content'[n] = content[n]
      BY <1>2, <3>4, <3>5, <3>6
    <3>7. CopyOK(c)
      BY <1>1 DEF CallOK
    <3>. QED
      BY <3>1, <3>2, <3>3, <3>4, <3>5, <3>6, <3>7 DEF CopyOK
  <2>. QED
    BY <2>1, <2>2 DEF CallOK
<1>4. EntriesAreWhole' /\ TreesAreBacked' /\ OneTreePerKey'
  BY <1>2 DEF IInv, EntriesAreWhole, TreesAreBacked, OneTreePerKey, Trees, case, scan
<1>. QED
  BY <1>2, <1>3, <1>4 DEF IInv
----------------------------------------------------------------------------
\* The calls.

\* What a step of one call is to another: its own things stay, the stores grow.
Same(x) ==
    /\ pc'[x] = pc[x] /\ key'[x] = key[x] /\ todo'[x] = todo[x] /\ info'[x] = info[x]
    /\ opened'[x] = opened[x] /\ copied'[x] = copied[x] /\ entries'[x] = entries[x]
    /\ answer'[x] = answer[x] /\ tree'[x] = tree[x]
    /\ \A s \in Paths \cup {0} : <<x, s>> \in staging' <=> <<x, s>> \in staging

Grows ==
    /\ UNCHANGED directory
    /\ cas \subseteq cas' /\ manifests \subseteq manifests'

LEMMA OthersAreKept ==
    ASSUME TypeOK, NEW c \in Calls, Import(c)
    PROVE  Grows /\ \A x \in Calls : x # c => Same(x)
<1>1. ASSUME NEW x \in Calls, x # c PROVE Same(x)
  <2>1. CASE (\E k \in Keys \cup {NoKey} : Start(c, k)) \/ LookUp(c) \/ Replay(c)
    BY <1>1, <2>1 DEF Same, TypeOK, Start, LookUp, Replay, Goto, case, scan
  <2>2. CASE VisitOther(c)
    BY <1>1, <2>2 DEF Same, TypeOK, VisitOther, Found, Left, Goto, case
  <2>3. CASE Lstat(c)
    BY <1>1, <2>3 DEF Same, TypeOK, Lstat, Goto, case
  <2>4. CASE Open(c) \/ Copy(c)
    BY <1>1, <2>4 DEF Same, TypeOK, Open, Copy, Goto, case
  <2>5. CASE Recheck(c)
    BY <1>1, <2>5 DEF Same, TypeOK, Recheck, Found, Left, Goto, case
  <2>6. CASE StageManifest(c)
    BY <1>1, <2>6 DEF Same, TypeOK, StageManifest, Goto, case, scan
  <2>7. CASE PublishFile(c) \/ PublishManifest(c)
    BY <1>1, <2>7 DEF Same, TypeOK, PublishFile, PublishManifest, Goto, case, scan
  <2>8. CASE RecordTree(c)
    BY <1>1, <2>8 DEF Same, TypeOK, RecordTree, Goto, case, scan
  <2>9. CASE Fail(c)
    BY <1>1, <2>9 DEF Same, TypeOK, Fail, Dropped, Left, Goto, case
  <2>10. CASE Return(c)
    BY <1>1, <2>10 DEF Same, TypeOK, Return, Goto, case
  <2>11. CASE Crash(c)
    BY <1>1, <2>11 DEF Same, TypeOK, Crash, Left, Goto, case
  <2>. QED
    BY <2>1, <2>2, <2>3, <2>4, <2>5, <2>6, <2>7, <2>8, <2>9, <2>10, <2>11 DEF Import, Scan
<1>2. Grows
  BY DEF Grows, Import, Scan, Start, VisitOther, Lstat, Open, Copy, Recheck, StageManifest, LookUp,
         Replay, PublishFile, PublishManifest, RecordTree, Fail, Return, Crash, case
<1>. QED
  BY <1>1, <1>2

LEMMA SameIsKept ==
    ASSUME IInv, NEW x \in Calls, Same(x), Grows,
           \A d \in Calls : pc[d] \in Over => pc'[d] \in Over
    PROVE  CallOK(x)'
<1>1. CallOK(x) /\ answer[x] \in Calls \cup {NoCall}
  BY DEF IInv, TypeOK
<1>2. At(x)' = At(x)
  BY DEF Same, At
<1>3. UNCHANGED <<node, content, mtime, changes, stood>>
  BY DEF Grows, directory
<1>4. LookedAt(x)' /\ CopyOK(x)'
  BY <1>1, <1>3 DEF CallOK, LookedAt, CopyOK, Same
<1>5. FoundOK(x)'
  BY <1>1, <1>3 DEF CallOK, FoundOK, Same
<1>6. StagedOK(x)'
  <2>1. pc[x] \in Copying => At(x) \in Paths
    BY AtIsNext DEF IInv, CallOK, LookedAt
  <2>. QED
    BY <1>1, <1>2, <2>1 DEF CallOK, StagedOK, Same
<1>7. PublishedOK(x)'
  <2>1. \A e \in Range(entries[x]) : e.path \in Paths
    <3>1. entries[x] \in Seq(Entries)
      BY DEF IInv, TypeOK, Manifests
    <3>2. Range(entries[x]) \subseteq Entries
      BY <3>1, RangeInSet
    <3>. QED
      BY <3>2 DEF Entries
  <2>. QED
    BY <1>1, <2>1 DEF CallOK, PublishedOK, Same, Grows
<1>8. AnswerOK(x)'
  BY <1>1 DEF CallOK, AnswerOK, Same
<1>. QED
  BY <1>4, <1>5, <1>6, <1>7, <1>8 DEF CallOK
----------------------------------------------------------------------------
LEMMA EqualSequences ==
    ASSUME NEW T, NEW s \in Seq(T), NEW t \in Seq(T), Len(s) = Len(t),
           \A k \in 1..Len(s) : s[k] = t[k]
    PROVE  s = t
OBVIOUS

\* A step of a call keeps the types.

LEMMA ScanTypes ==
    ASSUME TypeOK, NEW c \in Calls, LookedAt(c), Scan(c)
    PROVE  TypeOK'
<1>1. NoInfo \in [node : Nodes \cup {NoNode}, size : 0..MaxSize]
  BY DEF NoInfo
<1>2. NotOpen \in [size : 0..MaxSize, mtime : Blocks]
  BY DEF NotOpen, Blocks
<1>3. <<>> \in Contents
  <2>1. PICK b : b = <<>>
    OBVIOUS
  <2>2. b \in Seq(Blocks) /\ Len(b) <= MaxSize
    BY <2>1
  <2>. QED
    BY <2>1, <2>2, ContentsAreSequences
<1>4. ASSUME NEW kind \in TreeKinds, NEW bytes \in Contents, todo[c] # {}, Found(c, kind, bytes),
             UNCHANGED <<directory, case, staging, key, answer>>
      PROVE  TypeOK'
  <2>1. At(c) \in Paths
    BY <1>4, AtIsNext
  <2>2. PICK e : e = [path |-> At(c), kind |-> kind, content |-> bytes]
    OBVIOUS
  <2>3. e \in Entries /\ entries[c] \in Seq(Entries)
    BY <2>1, <2>2 DEF Entries, TypeOK, Manifests
  <2>4. Append(entries[c], e) \in Manifests
    BY <2>3 DEF Manifests
  <2>5. entries' \in [Calls -> Manifests]
    BY <1>4, <2>2, <2>4 DEF Found, TypeOK
  <2>6. /\ todo' \in [Calls -> SUBSET Paths]
        /\ pc' \in [Calls -> {"idle", "done", "dead"} \cup InFlight]
    BY <1>4 DEF Found, Goto, TypeOK, InFlight, Scanning
  <2>7. /\ info' \in [Calls -> [node : Nodes \cup {NoNode}, size : 0..MaxSize]]
        /\ opened' \in [Calls -> [size : 0..MaxSize, mtime : Blocks]]
        /\ copied' \in [Calls -> Contents]
    BY <1>1, <1>2, <1>3, <1>4 DEF Found, Left, TypeOK
  <2>. QED
    BY <1>4, <2>5, <2>6, <2>7 DEF TypeOK, directory, case
<1>5. CASE VisitOther(c)
  <2>1. KindOf[node[At(c)]] \in TreeKinds /\ todo[c] # {}
    BY <1>5 DEF VisitOther, Visiting, TreeKinds
  <2>. QED
    BY <1>3, <1>4, <1>5, <2>1 DEF VisitOther
<1>6. CASE Recheck(c)
  <2>1. "file" \in TreeKinds /\ todo[c] # {} /\ copied[c] \in Contents
    BY <1>6 DEF Recheck, TreeKinds, LookedAt, Copying, TypeOK
  <2>. QED
    BY <1>4, <1>6, <2>1 DEF Recheck
<1>7. \A n \in Nodes : Len(content[n]) \in 0..MaxSize
  <2>1. ASSUME NEW n \in Nodes PROVE Len(content[n]) \in 0..MaxSize
    <3>1. content[n] \in Seq(Blocks) /\ Len(content[n]) <= MaxSize
      BY ContentsAreSequences DEF TypeOK
    <3>. QED
      BY <3>1
  <2>. QED
    BY <2>1
<1>8. CASE Lstat(c)
  <2>1. PICK n \in Nodes : n = node[At(c)]
    BY <1>8, AtIsNext DEF Lstat, Visiting, TypeOK
  <2>2. [node |-> n, size |-> Len(content[n])] \in [node : Nodes \cup {NoNode}, size : 0..MaxSize]
    BY <1>7
  <2>3. info' \in [Calls -> [node : Nodes \cup {NoNode}, size : 0..MaxSize]]
    BY <1>8, <2>1, <2>2 DEF Lstat, TypeOK
  <2>4. pc' \in [Calls -> {"idle", "done", "dead"} \cup InFlight]
    BY <1>8 DEF Lstat, Goto, TypeOK, InFlight, Scanning
  <2>. QED
    BY <1>8, <2>3, <2>4 DEF Lstat, TypeOK, directory, case
<1>9. CASE Open(c)
  <2>1. At(c) \in Paths /\ info[c].node \in Nodes
    BY <1>9, AtIsNext DEF Open, LookedAt
  <2>2. opened' \in [Calls -> [size : 0..MaxSize, mtime : Blocks]]
    BY <1>7, <1>9, <2>1 DEF Open, TypeOK
  <2>3. copied' \in [Calls -> Contents]
    BY <1>3, <1>9 DEF Open, TypeOK
  <2>4. pc' \in [Calls -> {"idle", "done", "dead"} \cup InFlight]
    BY <1>9 DEF Open, Goto, TypeOK, InFlight, Scanning
  <2>5. staging' \subseteq Calls \X (Paths \cup {0})
    BY <1>9, <2>1 DEF Open, TypeOK
  <2>. QED
    BY <1>9, <2>2, <2>3, <2>4, <2>5 DEF Open, TypeOK, directory, case
<1>10. CASE Copy(c)
  <2>1. info[c].node \in Nodes
    BY <1>10 DEF Copy, LookedAt, Copying
  <2>2. PICK n \in Nodes : n = info[c].node
    BY <2>1
  <2>3. /\ content[n] \in Seq(Blocks) /\ Len(content[n]) <= MaxSize
        /\ copied[c] \in Seq(Blocks) /\ Len(copied[c]) <= MaxSize
    BY ContentsAreSequences DEF TypeOK
  <2>4. copied' \in [Calls -> Contents]
    <3>1. CASE Len(copied[c]) < Len(content[n])
      <4>1. PICK b : b = Append(copied[c], content[n][Len(copied[c]) + 1])
        OBVIOUS
      <4>2. b \in Seq(Blocks) /\ Len(b) <= MaxSize
        BY <2>3, <3>1, <4>1
      <4>3. b \in Contents
        BY <4>2, ContentsAreSequences
      <4>. QED
        BY <1>10, <2>2, <3>1, <4>1, <4>3 DEF Copy, TypeOK
    <3>2. CASE ~(Len(copied[c]) < Len(content[n]))
      BY <1>10, <2>2, <3>2 DEF Copy, TypeOK
    <3>. QED
      BY <3>1, <3>2
  <2>5. pc' \in [Calls -> {"idle", "done", "dead"} \cup InFlight]
    <3>1. pc' = pc \/ pc' = [pc EXCEPT ![c] = "checking"]
      BY <1>10 DEF Copy, Goto
    <3>. QED
      BY <3>1 DEF TypeOK, InFlight, Scanning
  <2>. QED
    BY <1>10, <2>4, <2>5 DEF Copy, TypeOK, directory, case
<1>. QED
  BY <1>5, <1>6, <1>8, <1>9, <1>10 DEF Scan

LEMMA ImportTypes ==
    ASSUME IInv, NEW c \in Calls, Import(c)
    PROVE  TypeOK'
<1>1. TypeOK /\ LookedAt(c)
  BY DEF IInv, CallOK
<1>2. CASE \E k \in Keys \cup {NoKey} : Start(c, k)
  BY <1>1, <1>2 DEF Start, Goto, TypeOK, InFlight, Scanning, directory, case
<1>3. CASE Scan(c)
  BY <1>1, <1>3, ScanTypes
<1>4. CASE StageManifest(c)
  <2>1. /\ staging' \subseteq Calls \X (Paths \cup {0})
        /\ pc' \in [Calls -> {"idle", "done", "dead"} \cup InFlight]
    BY <1>1, <1>4 DEF StageManifest, Goto, TypeOK, InFlight
  <2>. QED
    BY <1>1, <1>4, <2>1 DEF StageManifest, TypeOK, directory, case, scan
<1>5. CASE LookUp(c)
  BY <1>1, <1>5 DEF LookUp, Goto, TypeOK, InFlight, directory, case, scan
<1>14. CASE Replay(c)
  <2>1. answer' \in [Calls -> Calls \cup {NoCall}]
    BY <1>1, <1>14 DEF Replay, Recorded, TypeOK
  <2>2. pc' \in [Calls -> {"idle", "done", "dead"} \cup InFlight]
    BY <1>1, <1>14 DEF Replay, Goto, TypeOK, InFlight
  <2>. QED
    BY <1>1, <1>14, <2>1, <2>2 DEF Replay, TypeOK, directory, case, scan
<1>6. CASE PublishFile(c)
  <2>1. PICK p \in Paths : <<c, p>> \in staging /\ p = Min(ToPublish(c))
    <3>1. ToPublish(c) \subseteq Nat /\ ToPublish(c) # {}
      BY <1>6 DEF PublishFile, ToPublish
    <3>2. Min(ToPublish(c)) \in ToPublish(c)
      BY <3>1, MinIsMember
    <3>. QED
      BY <3>2 DEF ToPublish
  <2>2. \E e \in Range(entries[c]) : e.path = p
    BY <1>6, <2>1 DEF PublishFile, IInv, CallOK, StagedOK, Copying
  <2>3. PICK e \in Range(entries[c]) : e = CHOOSE f \in Range(entries[c]) : f.path = p
    BY <2>2
  <2>4. e \in Entries
    <3>1. entries[c] \in Seq(Entries)
      BY <1>1 DEF TypeOK, Manifests
    <3>2. Range(entries[c]) \subseteq Entries
      BY <3>1, RangeInSet
    <3>. QED
      BY <3>2
  <2>5. cas' \subseteq Contents
    <3>1. cas' = cas \cup {e.content}
      BY <1>6, <2>1, <2>3 DEF PublishFile
    <3>. QED
      BY <1>1, <2>4, <3>1 DEF TypeOK, Entries
  <2>6. /\ staging' \subseteq Calls \X (Paths \cup {0})
        /\ pc' \in [Calls -> {"idle", "done", "dead"} \cup InFlight]
    BY <1>1, <1>6 DEF PublishFile, Goto, TypeOK, InFlight
  <2>. QED
    BY <1>1, <1>6, <2>5, <2>6 DEF PublishFile, TypeOK, directory, scan
<1>7. CASE PublishManifest(c)
  <2>1. /\ staging' \subseteq Calls \X (Paths \cup {0})
        /\ pc' \in [Calls -> {"idle", "done", "dead"} \cup InFlight]
    BY <1>1, <1>7 DEF PublishManifest, Goto, TypeOK, InFlight
  <2>2. \A m \in manifests' : m \in Manifests
    BY <1>1, <1>7 DEF PublishManifest, TypeOK
  <2>. QED
    BY <1>1, <1>7, <2>1, <2>2 DEF PublishManifest, TypeOK, directory, scan
<1>8. CASE RecordTree(c)
  <2>1. tree' \in [Calls -> {NoTree} \cup Manifests]
    BY <1>1, <1>8 DEF RecordTree, TypeOK
  <2>2. answer' \in [Calls -> Calls \cup {NoCall}]
    BY <1>1, <1>8 DEF RecordTree, TypeOK
  <2>3. pc' \in [Calls -> {"idle", "done", "dead"} \cup InFlight]
    BY <1>1, <1>8 DEF RecordTree, Goto, TypeOK, InFlight
  <2>. QED
    BY <1>1, <1>8, <2>1, <2>2, <2>3 DEF RecordTree, TypeOK, directory, scan
<1>9. ASSUME Left(c) PROVE /\ info' \in [Calls -> [node : Nodes \cup {NoNode}, size : 0..MaxSize]]
                           /\ opened' \in [Calls -> [size : 0..MaxSize, mtime : Blocks]]
                           /\ copied' \in [Calls -> Contents]
  <2>1. PICK b : b = <<>>
    OBVIOUS
  <2>2. b \in Seq(Blocks) /\ Len(b) <= MaxSize
    BY <2>1
  <2>3. <<>> \in Contents
    BY <2>1, <2>2, ContentsAreSequences
  <2>4. /\ NoInfo \in [node : Nodes \cup {NoNode}, size : 0..MaxSize]
        /\ NotOpen \in [size : 0..MaxSize, mtime : Blocks]
    BY DEF NoInfo, NotOpen, Blocks
  <2>. QED
    BY <1>1, <1>9, <2>3, <2>4 DEF Left, TypeOK
<1>10. <<>> \in Manifests
  BY DEF Manifests
<1>11. CASE Fail(c)
  BY <1>1, <1>9, <1>11 DEF Fail, Goto, TypeOK, InFlight, directory, case
<1>12. CASE Return(c)
  BY <1>1, <1>10, <1>12 DEF Return, Goto, TypeOK, directory, case
<1>13. CASE Crash(c)
  BY <1>1, <1>9, <1>10, <1>13 DEF Crash, Goto, TypeOK, directory, case
<1>. QED
  BY <1>2, <1>3, <1>4, <1>5, <1>6, <1>7, <1>8, <1>11, <1>12, <1>13, <1>14 DEF Import
----------------------------------------------------------------------------
\* What a step of a call does to it.

LEMMA FoundStep ==
    ASSUME IInv, NEW c \in Calls, NEW kind \in TreeKinds, NEW bytes \in Contents,
           pc[c] \in {"walking", "checking"}, todo[c] # {}, Found(c, kind, bytes),
           UNCHANGED <<directory, case, staging, key, answer>>,
           kind = "file" => pc[c] = "checking" /\ <<At(c), bytes>> \in stood,
           kind # "file" => pc[c] = "walking"
    PROVE  CallOK(c)'
<1>1. PICK p \in todo[c] : p = At(c) /\ p \in Paths
  BY AtIsNext DEF IInv
<1>2. PICK e : e = [path |-> p, kind |-> kind, content |-> bytes]
  OBVIOUS
<1>3. e \in Entries /\ entries[c] \in Seq(Entries)
  BY <1>1, <1>2 DEF Entries, IInv, TypeOK, Manifests
<1>4. Range(Append(entries[c], e)) = Range(entries[c]) \cup {e}
  BY <1>3, RangeOfAppend
<1>5. Range(entries'[c]) = Range(entries[c]) \cup {e}
  <2>1. entries' = [entries EXCEPT ![c] = Append(@, e)]
    BY <1>1, <1>2 DEF Found
  <2>2. entries'[c] = Append(entries[c], e)
    BY <2>1 DEF IInv, TypeOK
  <2>. QED
    BY <1>4, <2>2
<1>6. todo'[c] = todo[c] \ {p} /\ pc'[c] = "walking"
  BY <1>1 DEF Found, Goto, IInv, TypeOK
<1>7. UNCHANGED <<stood, staging, cas, manifests, answer, tree>>
  BY DEF directory, case
<1>8. CallOK(c) /\ answer[c] = NoCall /\ tree[c] = NoTree
  BY DEF IInv, CallOK, AnswerOK, Over
<1>9. LookedAt(c)' /\ CopyOK(c)' /\ AnswerOK(c)'
  BY <1>6, <1>7, <1>8 DEF LookedAt, CopyOK, AnswerOK, Copying
<1>10. FoundOK(c)'
  <2>1. FoundOK(c)
    BY <1>8 DEF CallOK
  <2>2. \A f \in Range(entries[c]) : f.path # p
    BY <1>1, <2>1 DEF FoundOK
  <2>3. e.path = p /\ e.kind = kind /\ e.content = bytes
    BY <1>2
  <2>4. kind = "file" => <<p, bytes>> \in stood
    BY <1>1
  <2>. QED
    BY <1>5, <1>6, <1>7, <2>1, <2>2, <2>3, <2>4 DEF FoundOK
<1>11. StagedOK(c)'
  <2>1. StagedOK(c) /\ e.path = p
    BY <1>2, <1>8 DEF CallOK
  <2>. QED
    BY <1>1, <1>5, <1>6, <1>7, <2>1 DEF StagedOK, Copying
<1>12. PublishedOK(c)'
  <2>1. PublishedOK(c) /\ e.path = p /\ e.kind = kind
    BY <1>2, <1>8 DEF CallOK
  <2>2. kind = "file" => <<c, p>> \in staging
    BY <1>1, <1>8 DEF CallOK, StagedOK, Copying
  <2>. QED
    BY <1>5, <1>6, <1>7, <2>1, <2>2 DEF PublishedOK, Scanning
<1>. QED
  BY <1>9, <1>10, <1>11, <1>12 DEF CallOK

LEMMA ScanStep ==
    ASSUME IInv, NEW c \in Calls, Scan(c)
    PROVE  CallOK(c)'
<1>1. TypeOK /\ DirectoryOK /\ CallOK(c)
  BY DEF IInv
<1>2. CASE VisitOther(c)
  <2>1. /\ KindOf[node[At(c)]] \in TreeKinds /\ KindOf[node[At(c)]] # "file"
        /\ todo[c] # {} /\ pc[c] = "walking"
    BY <1>2 DEF VisitOther, Visiting, TreeKinds
  <2>2. PICK b : b = <<>>
    OBVIOUS
  <2>3. b \in Seq(Blocks) /\ Len(b) <= MaxSize
    BY <2>2
  <2>4. b \in Contents
    BY <2>3, ContentsAreSequences
  <2>. QED
    BY <1>2, <2>1, <2>2, <2>4, FoundStep DEF VisitOther
<1>3. CASE Recheck(c)
  <2>1. pc[c] = "checking" /\ todo[c] # {} /\ info[c].node \in Nodes /\ "file" \in TreeKinds
    BY <1>1, <1>3 DEF Recheck, CallOK, LookedAt, Copying, TreeKinds
  <2>2. PICK n \in Nodes : n = info[c].node
    BY <2>1
  <2>3. node[At(c)] = n /\ opened[c] = [size |-> Len(content[n]), mtime |-> mtime[n]]
    BY <1>3, <2>2 DEF Recheck, Unchanged
  <2>4. CopyOK(c)
    BY <1>1 DEF CallOK
  <2>5. /\ Len(copied[c]) = Len(content[n])
        /\ \A k \in 1..Len(copied[c]) : copied[c][k] = content[n][k]
    BY <2>1, <2>2, <2>3, <2>4 DEF CopyOK, Copying
  <2>6. copied[c] \in Contents /\ content[n] \in Contents
    BY <1>1 DEF TypeOK
  <2>7. copied[c] \in Seq(Blocks) /\ content[n] \in Seq(Blocks)
    BY <2>6, ContentsAreSequences
  <2>8. copied[c] = content[n]
    BY <2>5, <2>7, EqualSequences
  <2>9. <<At(c), copied[c]>> \in stood
    BY <1>1, <2>1, <2>3, <2>8, AtIsNext DEF DirectoryOK, TypeOK
  <2>. QED
    BY <1>3, <2>1, <2>6, <2>9, FoundStep DEF Recheck
<1>4. CASE Lstat(c)
  <2>1. pc[c] = "walking" /\ pc'[c] = "opening" /\ todo[c] # {}
    BY <1>1, <1>4 DEF Lstat, Visiting, Goto, TypeOK
  <2>2. node[At(c)] \in Nodes
    BY <1>1, <1>4, <2>1, AtIsNext DEF Lstat, Visiting, TypeOK
  <2>3. /\ UNCHANGED <<stood, staging, cas, manifests, answer, tree, todo, entries>>
        /\ info'[c].node = node[At(c)]
    BY <1>1, <1>4 DEF Lstat, directory, case, TypeOK
  <2>4. LookedAt(c)' /\ CopyOK(c)' /\ FoundOK(c)'
    BY <1>1, <2>1, <2>2, <2>3 DEF CallOK, LookedAt, CopyOK, FoundOK, Copying
  <2>5. StagedOK(c)' /\ PublishedOK(c)' /\ AnswerOK(c)'
    BY <1>1, <2>1, <2>3 DEF CallOK, StagedOK, PublishedOK, AnswerOK, Copying, Scanning, Over
  <2>. QED
    BY <2>4, <2>5 DEF CallOK
<1>5. CASE Open(c)
  <2>1. pc[c] = "opening" /\ pc'[c] = "copying" /\ todo[c] # {} /\ info[c].node \in Nodes
    BY <1>1, <1>5 DEF Open, Goto, TypeOK, CallOK, LookedAt
  <2>2. /\ UNCHANGED <<stood, cas, manifests, answer, tree, todo, entries, info, content, mtime>>
        /\ staging' = staging \cup {<<c, At(c)>>}
    BY <1>5 DEF Open, directory, case
  <2>3. At(c)' = At(c) /\ At(c) \in Paths
    BY <1>1, <2>1, <2>2, AtIsNext DEF At
  <2>4. CopyOK(c)'
    <3>1. PICK n \in Nodes : n = info[c].node
      BY <2>1
    <3>2. opened'[c].mtime = mtime[n] /\ copied'[c] = <<>>
      BY <1>1, <1>5, <3>1 DEF Open, TypeOK
    <3>3. Len(copied'[c]) = 0 /\ Len(content[n]) \in Nat /\ mtime[n] \in Nat
      <4>1. content[n] \in Seq(Blocks)
        BY <1>1, ContentsAreSequences DEF TypeOK
      <4>. QED
        BY <1>1, <3>2, <4>1 DEF TypeOK, Blocks
    <3>. QED
      BY <2>1, <2>2, <3>1, <3>2, <3>3 DEF CopyOK
  <2>5. LookedAt(c)' /\ FoundOK(c)'
    BY <1>1, <2>1, <2>2 DEF CallOK, LookedAt, FoundOK
  <2>6. StagedOK(c)'
    BY <1>1, <2>1, <2>2, <2>3 DEF CallOK, StagedOK, Copying
  <2>7. PublishedOK(c)' /\ AnswerOK(c)'
    BY <1>1, <2>1, <2>2 DEF CallOK, PublishedOK, AnswerOK, Scanning, Over
  <2>. QED
    BY <2>4, <2>5, <2>6, <2>7 DEF CallOK
<1>6. CASE Copy(c)
  <2>1. pc[c] = "copying" /\ pc'[c] \in Copying /\ todo[c] # {} /\ info[c].node \in Nodes
    BY <1>1, <1>6 DEF Copy, Goto, TypeOK, CallOK, LookedAt, Copying
  <2>2. UNCHANGED <<stood, staging, cas, manifests, answer, tree, todo, entries, info, opened,
                    content, mtime>>
    BY <1>6 DEF Copy, directory, case
  <2>3. At(c)' = At(c)
    BY <2>2 DEF At
  <2>4. CopyOK(c)'
    <3>1. PICK n \in Nodes : n = info[c].node
      BY <2>1
    <3>2. content[n] \in Seq(Blocks) /\ copied[c] \in Seq(Blocks)
      BY <1>1, ContentsAreSequences DEF TypeOK
    <3>3. /\ opened[c].mtime <= mtime[n]
          /\ opened[c].mtime = mtime[n] =>
                 /\ Len(copied[c]) <= Len(content[n])
                 /\ \A k \in 1..Len(copied[c]) : copied[c][k] = content[n][k]
      BY <1>1, <2>1, <3>1 DEF CallOK, CopyOK, Copying
    <3>4. CASE Len(copied[c]) < Len(content[n])
      <4>1. /\ copied'[c] = Append(copied[c], content[n][Len(copied[c]) + 1])
            /\ pc'[c] = "copying"
        BY <1>1, <1>6, <2>1, <3>1, <3>4 DEF Copy, TypeOK
      <4>2. content[n][Len(copied[c]) + 1] \in Blocks
        BY <3>2, <3>4
      <4>3. /\ Len(copied'[c]) = Len(copied[c]) + 1
            /\ \A k \in 1..Len(copied[c]) : copied'[c][k] = copied[c][k]
            /\ copied'[c][Len(copied[c]) + 1] = content[n][Len(copied[c]) + 1]
        BY <3>2, <4>1, <4>2
      <4>4. opened[c].mtime = mtime[n] =>
                 /\ Len(copied'[c]) <= Len(content[n])
                 /\ \A k \in 1..Len(copied'[c]) : copied'[c][k] = content[n][k]
        <5>1. SUFFICES ASSUME opened[c].mtime = mtime[n]
                       PROVE  /\ Len(copied'[c]) <= Len(content[n])
                              /\ \A k \in 1..Len(copied'[c]) : copied'[c][k] = content[n][k]
          OBVIOUS
        <5>2. \A k \in 1..Len(copied[c]) : copied'[c][k] = content[n][k]
          BY <3>3, <4>3, <5>1
        <5>3. Len(copied[c]) \in Nat /\ Len(content[n]) \in Nat
          BY <3>2
        <5>4. \A k \in 1..(Len(copied[c]) + 1) : k \in 1..Len(copied[c]) \/ k = Len(copied[c]) + 1
          BY <5>3
        <5>. QED
          BY <3>4, <4>3, <5>2, <5>3, <5>4
      <4>. QED
        BY <2>2, <3>1, <3>3, <4>1, <4>4 DEF CopyOK
    <3>5. CASE ~(Len(copied[c]) < Len(content[n]))
      <4>1. copied' = copied
        BY <1>6, <3>1, <3>5 DEF Copy
      <4>2. opened[c].mtime = mtime[n] => Len(copied[c]) = Len(content[n])
        BY <3>2, <3>3, <3>5
      <4>. QED
        BY <2>2, <3>1, <3>3, <4>1, <4>2 DEF CopyOK
    <3>. QED
      BY <3>4, <3>5
  <2>5. LookedAt(c)' /\ FoundOK(c)'
    BY <1>1, <2>1, <2>2 DEF CallOK, LookedAt, FoundOK
  <2>6. StagedOK(c)'
    BY <1>1, <2>1, <2>2, <2>3 DEF CallOK, StagedOK, Copying
  <2>7. PublishedOK(c)' /\ AnswerOK(c)'
    BY <1>1, <2>1, <2>2 DEF CallOK, PublishedOK, AnswerOK, Scanning, Copying, Over
  <2>. QED
    BY <2>4, <2>5, <2>6, <2>7 DEF CallOK
<1>. QED
  BY <1>2, <1>3, <1>4, <1>5, <1>6 DEF Scan

LEMMA EndsStep ==
    ASSUME IInv, NEW c \in Calls, Fail(c) \/ Return(c) \/ Crash(c)
    PROVE  CallOK(c)'
<1>1. TypeOK /\ CallOK(c)
  BY DEF IInv
<1>2. UNCHANGED <<stood, cas, manifests, tree>>
  BY DEF Fail, Return, Crash, directory, case
<1>3. CASE Fail(c)
  <2>1. /\ pc[c] \in InFlight \ {"returning"} /\ pc'[c] = "returning"
        /\ UNCHANGED <<entries, answer>>
        /\ todo'[c] = {} /\ staging' = staging \ Dropped(c)
    BY <1>1, <1>3 DEF Fail, Goto, TypeOK
  <2>2. LookedAt(c)' /\ CopyOK(c)' /\ FoundOK(c)' /\ PublishedOK(c)' /\ AnswerOK(c)'
    <3>1. LookedAt(c)' /\ CopyOK(c)' /\ PublishedOK(c)'
      BY <2>1 DEF LookedAt, CopyOK, PublishedOK, Copying, Scanning
    <3>2. FoundOK(c)'
      BY <1>1, <1>2, <2>1 DEF CallOK, FoundOK
    <3>3. answer[c] = NoCall
      BY <1>1, <2>1 DEF CallOK, AnswerOK, InFlight, Scanning
    <3>4. AnswerOK(c)'
      BY <2>1, <3>3 DEF AnswerOK, Over
    <3>. QED
      BY <3>1, <3>2, <3>4
  <2>3. StagedOK(c)'
    <3>1. ASSUME NEW s \in Paths \cup {0}, <<c, s>> \in staging', s # 0
          PROVE  \E e \in Range(entries[c]) : e.path = s
      <4>1. <<c, s>> \in staging /\ ~(pc[c] \in Copying /\ s = At(c))
        BY <2>1, <3>1 DEF Dropped, Copying
      <4>. QED
        BY <1>1, <2>1, <3>1, <4>1 DEF CallOK, StagedOK, InFlight, Scanning
    <3>. QED
      BY <2>1, <3>1 DEF StagedOK, Copying
  <2>. QED
    BY <2>2, <2>3 DEF CallOK
<1>4. CASE Return(c)
  <2>1. /\ pc[c] = "returning" /\ pc'[c] = "done" /\ UNCHANGED <<todo, answer>>
        /\ entries'[c] = entries[c] \/ entries'[c] = <<>>
    BY <1>1, <1>4 DEF Return, Goto, TypeOK
  <2>2. LookedAt(c)' /\ CopyOK(c)' /\ FoundOK(c)' /\ PublishedOK(c)'
    BY <1>1, <1>2, <2>1, RangeOfEmpty DEF CallOK, LookedAt, CopyOK, FoundOK, PublishedOK, Copying,
                                          Scanning
  <2>3. AnswerOK(c)'
    <3>1. \A d \in Calls : pc[d] \in Over => pc'[d] \in Over
      BY <1>1, <1>4 DEF Return, Goto, TypeOK, Over
    <3>2. answer[c] # NoCall => answer[c] \in Calls
      BY <1>1 DEF TypeOK
    <3>. QED
      BY <1>1, <1>2, <2>1, <3>1, <3>2 DEF CallOK, AnswerOK, Over
  <2>4. StagedOK(c)'
    <3>1. ASSUME NEW s \in Paths \cup {0}, <<c, s>> \in staging' PROVE FALSE
      <4>1. <<c, s>> \in staging /\ s # 0 /\ \A e \in Range(entries[c]) : e.path # s
        BY <1>4, <3>1 DEF Return
      <4>. QED
        BY <1>1, <2>1, <4>1 DEF CallOK, StagedOK, Copying
    <3>. QED
      BY <2>1, <3>1 DEF StagedOK, Copying
  <2>. QED
    BY <2>2, <2>3, <2>4 DEF CallOK
<1>5. CASE Crash(c)
  <2>1. pc'[c] = "dead" /\ todo'[c] = {} /\ entries'[c] = <<>> /\ answer'[c] = NoCall
    BY <1>1, <1>5 DEF Crash, Goto, TypeOK
  <2>. QED
    BY <2>1, RangeOfEmpty DEF CallOK, LookedAt, CopyOK, FoundOK, StagedOK, PublishedOK, AnswerOK,
                              Copying, Scanning, Over
<1>. QED
  BY <1>3, <1>4, <1>5

LEMMA RecordStep ==
    ASSUME IInv, NEW c \in Calls,
           \/ \E k \in Keys \cup {NoKey} : Start(c, k)
           \/ StageManifest(c) \/ LookUp(c) \/ Replay(c) \/ PublishFile(c)
           \/ PublishManifest(c) \/ RecordTree(c)
    PROVE  CallOK(c)'
<1>1. TypeOK /\ CallOK(c)
  BY DEF IInv
<1>2. UNCHANGED <<node, content, mtime, stood, entries, info, opened, copied>>
  BY DEF Start, StageManifest, LookUp, Replay, PublishFile, PublishManifest, RecordTree, directory,
         scan
<1>3. CASE \E k \in Keys \cup {NoKey} : Start(c, k)
  <2>1. /\ pc[c] = "idle" /\ pc'[c] = "walking" /\ entries[c] = <<>>
        /\ UNCHANGED <<staging, cas, manifests, tree, answer>>
    BY <1>1, <1>3 DEF Start, Goto, TypeOK, CallOK, AnswerOK, case
  <2>. QED
    BY <1>1, <1>2, <2>1, RangeOfEmpty DEF CallOK, LookedAt, CopyOK, FoundOK, StagedOK, PublishedOK,
                                          AnswerOK, Copying, Scanning, Over
<1>4. CASE StageManifest(c) \/ LookUp(c)
  <2>1. /\ pc[c] \in {"walking", "keyed"} /\ pc'[c] \in {"keyed", "publishing"}
        /\ UNCHANGED <<todo, cas, manifests, tree, answer>>
        /\ staging \subseteq staging' /\ staging' \subseteq staging \cup {<<c, 0>>}
    BY <1>1, <1>4 DEF StageManifest, LookUp, Goto, TypeOK, case, scan
  <2>2. LookedAt(c)' /\ CopyOK(c)' /\ FoundOK(c)' /\ AnswerOK(c)'
    BY <1>1, <1>2, <2>1 DEF CallOK, LookedAt, CopyOK, FoundOK, AnswerOK, Copying, Over
  <2>3. StagedOK(c)'
    BY <1>1, <1>2, <2>1 DEF CallOK, StagedOK, Copying
  <2>4. PublishedOK(c)'
    BY <1>1, <1>2, <2>1 DEF CallOK, PublishedOK, Scanning
  <2>. QED
    BY <2>2, <2>3, <2>4 DEF CallOK
<1>5. CASE Replay(c)
  <2>1. PICK d \in Recorded(c) : answer' = [answer EXCEPT ![c] = d]
    BY <1>5 DEF Replay
  <2>2. /\ pc[c] \in {"keyed", "recording"} /\ pc' = [pc EXCEPT ![c] = "returning"]
        /\ UNCHANGED <<todo, cas, manifests, tree, staging>>
    BY <1>5 DEF Replay, Goto, case, scan
  <2>3. d \in Calls /\ pc[d] \in Over /\ pc'[d] \in Over
    BY <1>1, <2>1, <2>2 DEF Recorded, IInv, CallOK, AnswerOK, TypeOK, Over
  <2>4. pc'[c] = "returning" /\ answer'[c] = d
    BY <1>1, <2>1, <2>2 DEF TypeOK
  <2>5. LookedAt(c)' /\ CopyOK(c)' /\ FoundOK(c)' /\ AnswerOK(c)'
    BY <1>1, <1>2, <2>2, <2>3, <2>4 DEF CallOK, LookedAt, CopyOK, FoundOK, AnswerOK, Copying, Over
  <2>6. StagedOK(c)' /\ PublishedOK(c)'
    BY <1>1, <1>2, <2>2, <2>4 DEF CallOK, StagedOK, PublishedOK, Copying, Scanning
  <2>. QED
    BY <2>5, <2>6 DEF CallOK
<1>6. CASE PublishFile(c)
  <2>1. PICK p \in Paths : <<c, p>> \in staging /\ p = Min(ToPublish(c))
    <3>1. ToPublish(c) \subseteq Nat /\ ToPublish(c) # {}
      BY <1>6 DEF PublishFile, ToPublish
    <3>2. Min(ToPublish(c)) \in ToPublish(c)
      BY <3>1, MinIsMember
    <3>. QED
      BY <3>2 DEF ToPublish
  <2>2. PICK e \in Range(entries[c]) : e.path = p /\ e = CHOOSE f \in Range(entries[c]) : f.path = p
    BY <1>1, <1>6, <2>1 DEF PublishFile, CallOK, StagedOK, Copying
  <2>3. /\ pc[c] = "publishing" /\ pc'[c] \in {"publishing", "returning"}
        /\ UNCHANGED <<todo, manifests, tree, answer>>
        /\ cas' = cas \cup {e.content}
        /\ staging' = staging \ {<<c, p>>} \/ staging' = staging
    BY <1>1, <1>6, <2>1, <2>2 DEF PublishFile, Goto, TypeOK, scan
  <2>4. LookedAt(c)' /\ CopyOK(c)' /\ FoundOK(c)' /\ AnswerOK(c)'
    BY <1>1, <1>2, <2>3 DEF CallOK, LookedAt, CopyOK, FoundOK, AnswerOK, Copying, Over
  <2>5. StagedOK(c)'
    BY <1>1, <1>2, <2>3 DEF CallOK, StagedOK, Copying
  <2>6. PublishedOK(c)'
    <3>1. \A f \in Range(entries[c]) : f.path = p => f = e
      BY <1>1, <2>2 DEF CallOK, FoundOK
    <3>2. \A f \in Range(entries[c]) : f.kind = "file" => <<c, f.path>> \in staging \/ f.content \in cas
      BY <1>1, <2>3 DEF CallOK, PublishedOK
    <3>3. \A f \in Range(entries[c]) :
              f.kind = "file" => <<c, f.path>> \in staging' \/ f.content \in cas'
      BY <2>3, <3>1, <3>2
    <3>. QED
      BY <1>2, <2>3, <3>3 DEF PublishedOK, Scanning
  <2>. QED
    BY <2>4, <2>5, <2>6 DEF CallOK
<1>7. CASE PublishManifest(c)
  <2>1. /\ pc[c] = "publishing" /\ pc'[c] \in {"recording", "returning"} /\ ToPublish(c) = {}
        /\ UNCHANGED <<todo, cas, tree, answer>>
        /\ manifests' = manifests \cup {entries[c]}
        /\ staging' = staging \ {<<c, 0>>} \/ staging' = staging
    BY <1>1, <1>7 DEF PublishManifest, Goto, TypeOK, scan
  <2>2. LookedAt(c)' /\ CopyOK(c)' /\ FoundOK(c)' /\ AnswerOK(c)'
    BY <1>1, <1>2, <2>1 DEF CallOK, LookedAt, CopyOK, FoundOK, AnswerOK, Copying, Over
  <2>3. StagedOK(c)'
    BY <1>1, <1>2, <2>1 DEF CallOK, StagedOK, Copying
  <2>4. PublishedOK(c)'
    <3>1. entries[c] \in Seq(Entries)
      BY <1>1 DEF TypeOK, Manifests
    <3>2. Range(entries[c]) \subseteq Entries
      BY <3>1, RangeInSet
    <3>3. \A e \in Range(entries[c]) : e.path \in Paths
      BY <3>2 DEF Entries
    <3>4. \A e \in Range(entries[c]) : e.kind = "file" => e.content \in cas
      BY <1>1, <2>1, <3>3 DEF CallOK, PublishedOK, ToPublish
    <3>. QED
      BY <1>2, <2>1, <3>4 DEF PublishedOK, Scanning
  <2>. QED
    BY <2>2, <2>3, <2>4 DEF CallOK
<1>8. CASE RecordTree(c)
  <2>1. /\ pc[c] = "recording" /\ pc'[c] = "returning"
        /\ UNCHANGED <<todo, cas, manifests, staging>>
        /\ answer'[c] = answer[c] \/ answer'[c] = c
    BY <1>1, <1>8 DEF RecordTree, Goto, TypeOK, scan
  <2>2. answer[c] = NoCall
    BY <1>1, <2>1 DEF CallOK, AnswerOK
  <2>3. LookedAt(c)' /\ CopyOK(c)' /\ FoundOK(c)' /\ AnswerOK(c)'
    BY <1>1, <1>2, <2>1, <2>2 DEF CallOK, LookedAt, CopyOK, FoundOK, AnswerOK, Copying, Over
  <2>4. StagedOK(c)' /\ PublishedOK(c)'
    BY <1>1, <1>2, <2>1 DEF CallOK, StagedOK, PublishedOK, Copying, Scanning
  <2>. QED
    BY <2>3, <2>4 DEF CallOK
<1>. QED
  BY <1>3, <1>4, <1>5, <1>6, <1>7, <1>8
----------------------------------------------------------------------------
\* What is recorded.

LEMMA TreesStep ==
    ASSUME IInv, NEW c \in Calls, Import(c)
    PROVE  EntriesAreWhole' /\ TreesAreBacked' /\ OneTreePerKey'
<1>1. TypeOK /\ CallOK(c) /\ EntriesAreWhole /\ TreesAreBacked /\ OneTreePerKey
  BY DEF IInv
<1>2. Grows /\ \A x \in Calls : x # c => Same(x)
  BY <1>1, OthersAreKept
<1>3. stood' = stood /\ cas \subseteq cas' /\ manifests \subseteq manifests'
  BY <1>2 DEF Grows, directory
<1>4. CASE RecordTree(c)
  <2>1. /\ tree' = [tree EXCEPT ![c] = entries[c]] /\ pc[c] = "recording" /\ Recorded(c) = {}
        /\ answer' = answer \/ answer' = [answer EXCEPT ![c] = c]
        /\ UNCHANGED <<key, entries>>
    BY <1>4 DEF RecordTree, KeyUnused, scan
  <2>2. \A d \in Calls : d # c => tree'[d] = tree[d]
    BY <1>2 DEF Same
  <2>3. tree'[c] = entries[c]
    BY <1>1, <2>1 DEF TypeOK
  <2>4. EntriesAreWhole'
    BY <1>1, <1>3, <2>2, <2>3 DEF EntriesAreWhole, Trees, CallOK, FoundOK
  <2>5. TreesAreBacked'
    BY <1>1, <1>3, <2>1, <2>2, <2>3 DEF TreesAreBacked, Trees, CallOK, PublishedOK
  <2>6. \A x \in Calls : answer[x] # c
    BY <2>1 DEF IInv, CallOK, AnswerOK, Over
  <2>7. \A x \in Calls : answer'[x] # NoCall => tree'[answer'[x]] = entries'[x]
    <3>1. ASSUME NEW x \in Calls, answer'[x] # NoCall PROVE tree'[answer'[x]] = entries'[x]
      <4>1. CASE answer'[x] = answer[x]
        BY <1>1, <2>1, <2>2, <2>6, <3>1, <4>1 DEF OneTreePerKey, TypeOK
      <4>2. CASE answer'[x] # answer[x]
        BY <1>1, <2>1, <2>3, <4>2 DEF TypeOK
      <4>. QED
        BY <4>1, <4>2
    <3>. QED
      BY <3>1
  <2>8. OneTreePerKey'
    BY <1>1, <2>1, <2>2, <2>7 DEF OneTreePerKey, Trees, Recorded
  <2>. QED
    BY <2>4, <2>5, <2>8
<1>5. CASE ~RecordTree(c)
  <2>1. tree' = tree
    BY <1>5 DEF Import, Scan, Start, VisitOther, Lstat, Open, Copy, Recheck, StageManifest, LookUp,
                Replay, PublishFile, PublishManifest, Fail, Return, Crash, case
  <2>2. EntriesAreWhole' /\ TreesAreBacked'
    BY <1>1, <1>3, <2>1 DEF EntriesAreWhole, TreesAreBacked, Trees
  <2>3. tree[c] # NoTree => key'[c] = key[c]
    <3>1. tree[c] # NoTree => pc[c] # "idle"
      BY <1>1 DEF CallOK, AnswerOK, Over
    <3>2. (\E k \in Keys \cup {NoKey} : Start(c, k)) => pc[c] = "idle"
      BY DEF Start
    <3>3. ~(\E k \in Keys \cup {NoKey} : Start(c, k)) => key' = key
      BY <1>5 DEF Import, Scan, VisitOther, Lstat, Open, Copy, Recheck, StageManifest, LookUp,
                  Replay, PublishFile, PublishManifest, Fail, Return, Crash
    <3>. QED
      BY <3>1, <3>2, <3>3
  <2>4. answer'[c] # NoCall => tree[answer'[c]] = entries'[c]
    <3>1. CASE Replay(c)
      <4>1. PICK d \in Recorded(c) : SameFingerprint(c, d) /\ answer' = [answer EXCEPT ![c] = d]
        BY <3>1 DEF Replay
      <4>2. answer'[c] = d /\ entries' = entries
        BY <1>1, <3>1, <4>1 DEF Replay, TypeOK, scan
      <4>. QED
        BY <4>1, <4>2 DEF SameFingerprint
    <3>2. CASE Return(c)
      BY <1>1, <3>2 DEF Return, TypeOK, OneTreePerKey
    <3>3. CASE Crash(c)
      BY <1>1, <3>3 DEF Crash, TypeOK
    <3>4. CASE ~Replay(c) /\ ~Return(c) /\ ~Crash(c)
      <4>1. answer' = answer
        BY <1>5, <3>4 DEF Import, Scan, Start, VisitOther, Lstat, Open, Copy, Recheck,
                          StageManifest, LookUp, PublishFile, PublishManifest, Fail
      <4>2. answer[c] # NoCall => pc[c] \in {"returning", "done"}
        BY <1>1 DEF CallOK, AnswerOK
      <4>3. pc[c] \notin {"returning", "done"}
        BY <1>5, <3>4 DEF Import, Scan, Start, VisitOther, Visiting, Lstat, Open, Copy, Recheck,
                          StageManifest, LookUp, PublishFile, PublishManifest, Fail, InFlight,
                          Scanning
      <4>. QED
        BY <4>1, <4>2, <4>3
    <3>. QED
      BY <3>1, <3>2, <3>3, <3>4
  <2>5. OneTreePerKey'
    <3>1. \A d \in Calls : tree[d] # NoTree => key'[d] = key[d]
      BY <1>2, <2>3 DEF Same
    <3>2. \A x \in Calls : answer'[x] # NoCall => tree[answer'[x]] = entries'[x]
      BY <1>1, <1>2, <2>4 DEF Same, OneTreePerKey
    <3>. QED
      BY <1>1, <2>1, <3>1, <3>2 DEF OneTreePerKey, Trees
  <2>. QED
    BY <2>2, <2>5
<1>. QED
  BY <1>4, <1>5

LEMMA IInvStep == IInv /\ [Next]_vars => IInv'
<1> SUFFICES ASSUME IInv, [Next]_vars PROVE IInv'
  OBVIOUS
<1>1. CASE Owners
  BY <1>1, OwnersCalls
<1>2. ASSUME NEW c \in Calls, Import(c) PROVE IInv'
  <2>1. TypeOK'
    BY <1>2, ImportTypes
  <2>2. Grows /\ \A x \in Calls : x # c => Same(x)
    BY <1>2, OthersAreKept DEF IInv
  <2>3. DirectoryOK'
    BY <2>2 DEF IInv, DirectoryOK, Grows, directory
  <2>4. \A d \in Calls : pc[d] \in Over => pc'[d] \in Over
    <3>1. pc[c] \in Over => pc'[c] \in Over
      BY <1>2 DEF IInv, TypeOK, Over, Import, Scan, Start, VisitOther, Visiting, Lstat, Open, Copy,
                  Recheck, StageManifest, LookUp, Replay, PublishFile, PublishManifest, RecordTree,
                  Fail, Return, Crash, Goto
    <3>. QED
      BY <2>2, <3>1 DEF Same
  <2>5. CallOK(c)'
    BY <1>2, ScanStep, RecordStep, EndsStep DEF Import
  <2>6. ASSUME NEW x \in Calls PROVE CallOK(x)'
    <3>1. CASE x = c
      BY <2>5, <3>1
    <3>2. CASE x # c
      BY <2>2, <2>4, <3>2, SameIsKept
    <3>. QED
      BY <3>1, <3>2
  <2>. QED
    BY <1>2, <2>1, <2>3, <2>6, TreesStep DEF IInv
<1>3. CASE UNCHANGED vars
  <2>1. UNCHANGED <<directory, case, staging, pc, key, scan, answer>>
    BY <1>3 DEF vars
  <2>2. TypeOK'
    BY <2>1 DEF IInv, TypeOK, directory, case, scan
  <2>3. DirectoryOK' /\ EntriesAreWhole' /\ TreesAreBacked' /\ OneTreePerKey'
    BY <2>1 DEF IInv, DirectoryOK, EntriesAreWhole, TreesAreBacked, OneTreePerKey, Trees,
                directory, case, scan
  <2>4. ASSUME NEW x \in Calls PROVE CallOK(x)'
    BY <2>1, SameIsKept DEF Same, Grows, directory, case, scan
  <2>. QED
    BY <2>2, <2>3, <2>4 DEF IInv
<1>. QED
  BY <1>1, <1>2, <1>3 DEF Next
----------------------------------------------------------------------------
\* The limits: the entries of a call and the trees are in them, and a call that is at a
\* file has room for it.
Within(m) ==
    /\ Len(m) <= MaxEntries /\ Cardinality(FilesOf(m)) <= MaxFiles
    /\ \A i \in FilesOf(m) : BytesOf(m, {j \in FilesOf(m) : j < i}) <= MaxBytes

HasRoom(m) ==
    /\ Len(m) < MaxEntries /\ Cardinality(FilesOf(m)) < MaxFiles
    /\ BytesOf(m, FilesOf(m)) <= MaxBytes

AtAFile == {"opening"} \cup Copying

LimitsOK ==
    \A c \in Calls :
        /\ Within(entries[c])
        /\ pc[c] \in AtAFile => HasRoom(entries[c])
        /\ tree[c] # NoTree => Within(tree[c])

LEMMA FilesType ==
    ASSUME NEW m \in Manifests
    PROVE  /\ FilesOf(m) \subseteq 1..Len(m) /\ IsFiniteSet(FilesOf(m))
           /\ Cardinality(FilesOf(m)) \in Nat /\ Len(m) \in Nat
<1>1. Len(m) \in Nat /\ DOMAIN m = 1..Len(m)
  BY DEF Manifests
<1>2. FilesOf(m) \in SUBSET (1..Len(m))
  BY <1>1 DEF FilesOf
<1>3. IsFiniteSet(1..Len(m))
  BY <1>1, FS_Interval
<1>4. IsFiniteSet(FilesOf(m))
  BY <1>2, <1>3, FS_Subset
<1>. QED
  BY <1>1, <1>2, <1>4, FS_CardinalityType

\* The blocks that are counted are finitely many, so that their count is a number.
LEMMA BytesType ==
    ASSUME NEW m \in Manifests, NEW S \in SUBSET (1..Len(m))
    PROVE  BytesOf(m, S) \in Nat
<1>. DEFINE cells == UNION {{i} \X DOMAIN m[i].content : i \in S}
<1>1. \A i \in 1..Len(m) : m[i].content \in Seq(Blocks) /\ Len(m[i].content) <= MaxSize
  <2>1. \A i \in 1..Len(m) : m[i] \in Entries
    BY DEF Manifests
  <2>2. \A i \in 1..Len(m) : m[i].content \in Contents
    BY <2>1 DEF Entries
  <2>. QED
    BY <2>2, ContentsAreSequences
<1>2. \A i \in 1..Len(m) : DOMAIN m[i].content \subseteq 1..MaxSize
  BY <1>1
<1>3. cells \in SUBSET ((1..Len(m)) \X (1..MaxSize))
  BY <1>2
<1>4. Len(m) \in Nat
  BY DEF Manifests
<1>5. IsFiniteSet(1..Len(m)) /\ IsFiniteSet(1..MaxSize)
  BY <1>4, FS_Interval
<1>6. IsFiniteSet((1..Len(m)) \X (1..MaxSize))
  BY <1>5, FS_Product
<1>7. IsFiniteSet(cells)
  BY <1>3, <1>6, FS_Subset
<1>8. Cardinality(cells) \in Nat
  BY <1>7, FS_CardinalityType
<1>. QED
  BY <1>8 DEF BytesOf

\* What an entry more does: the files before it have the bytes they had.
LEMMA AppendedEntry ==
    ASSUME NEW m \in Manifests, NEW e \in Entries
    PROVE  /\ Len(Append(m, e)) = Len(m) + 1
           /\ FilesOf(Append(m, e)) =
                  FilesOf(m) \cup (IF e.kind = "file" THEN {Len(m) + 1} ELSE {})
           /\ \A S \in SUBSET (1..Len(m)) : BytesOf(Append(m, e), S) = BytesOf(m, S)
<1>1. /\ m \in Seq(Entries) /\ Len(m) \in Nat /\ DOMAIN m = 1..Len(m)
      /\ DOMAIN Append(m, e) = 1..(Len(m) + 1) /\ Len(Append(m, e)) = Len(m) + 1
  BY DEF Manifests
<1>2. /\ \A i \in 1..Len(m) : Append(m, e)[i] = m[i]
      /\ Append(m, e)[Len(m) + 1] = e
  BY <1>1
<1>3. 1..(Len(m) + 1) = (1..Len(m)) \cup {Len(m) + 1}
  BY <1>1
<1>4. FilesOf(Append(m, e)) =
          {i \in 1..Len(m) : m[i].kind = "file"} \cup (IF e.kind = "file" THEN {Len(m) + 1} ELSE {})
  BY <1>1, <1>2, <1>3, Zenon DEF FilesOf
<1>5. ASSUME NEW S \in SUBSET (1..Len(m)) PROVE BytesOf(Append(m, e), S) = BytesOf(m, S)
  <2>1. \A i \in S : Append(m, e)[i] = m[i]
    BY <1>2
  <2>2. {{i} \X DOMAIN Append(m, e)[i].content : i \in S} = {{i} \X DOMAIN m[i].content : i \in S}
    BY <2>1, Zenon
  <2>. QED
    BY <2>2, Zenon DEF BytesOf
<1>6. FilesOf(m) = {i \in 1..Len(m) : m[i].kind = "file"}
  BY <1>1, Zenon DEF FilesOf
<1>. QED
  BY <1>1, <1>4, <1>5, <1>6

LEMMA EmptyIsWithin == Within(<<>>)
<1>1. PICK m : m = <<>>
  OBVIOUS
<1>2. FilesOf(m) = {} /\ Len(m) = 0
  BY <1>1 DEF FilesOf
<1>3. Cardinality(FilesOf(m)) = 0
  BY <1>2, FS_EmptySet
<1>4. Within(m)
  BY <1>2, <1>3 DEF Within
<1>. QED
  BY <1>1, <1>4

\* A file that there is room for, or anything else below the limit of entries, leaves the
\* entries within the limits.
LEMMA FoundIsWithin ==
    ASSUME NEW m \in Manifests, NEW e \in Entries, Within(m),
           Len(m) < MaxEntries, e.kind = "file" => HasRoom(m)
    PROVE  Within(Append(m, e))
<1>. DEFINE F == FilesOf(m) G == FilesOf(Append(m, e))
<1>1. /\ F \subseteq 1..Len(m) /\ IsFiniteSet(F) /\ Cardinality(F) \in Nat /\ Len(m) \in Nat
  BY FilesType
<1>2. /\ Len(Append(m, e)) = Len(m) + 1
      /\ G = F \cup (IF e.kind = "file" THEN {Len(m) + 1} ELSE {})
      /\ \A S \in SUBSET (1..Len(m)) : BytesOf(Append(m, e), S) = BytesOf(m, S)
  BY AppendedEntry
<1>3. Len(Append(m, e)) <= MaxEntries
  BY <1>1, <1>2
<1>4. Cardinality(G) <= MaxFiles
  <2>1. CASE e.kind = "file"
    <3>1. Len(m) + 1 \notin F
      BY <1>1
    <3>2. Cardinality(F \cup {Len(m) + 1}) = Cardinality(F) + 1
      BY <1>1, <3>1, FS_AddElement
    <3>. QED
      BY <1>1, <1>2, <2>1, <3>2 DEF HasRoom
  <2>2. CASE e.kind # "file"
    <3>1. G = F
      BY <1>2, <2>2
    <3>. QED
      BY <3>1 DEF Within
  <2>. QED
    BY <2>1, <2>2
<1>5. ASSUME NEW i \in G PROVE BytesOf(Append(m, e), {j \in G : j < i}) <= MaxBytes
  <2>1. CASE i \in F
    <3>1. {j \in G : j < i} = {j \in F : j < i} /\ {j \in F : j < i} \in SUBSET (1..Len(m))
      <4>1. i <= Len(m) /\ i \in Nat
        BY <1>1, <2>1
      <4>2. ~(Len(m) + 1 < i)
        BY <1>1, <4>1
      <4>. QED
        BY <1>1, <1>2, <4>2
    <3>2. BytesOf(m, {j \in F : j < i}) <= MaxBytes
      BY <2>1 DEF Within
    <3>. QED
      BY <1>2, <3>1, <3>2
  <2>2. CASE i \notin F
    <3>1. i = Len(m) + 1 /\ e.kind = "file"
      BY <1>2, <1>5, <2>2
    <3>2. {j \in G : j < i} = F
      BY <1>1, <1>2, <3>1
    <3>3. BytesOf(m, F) <= MaxBytes
      BY <3>1 DEF HasRoom
    <3>. QED
      BY <1>1, <1>2, <3>2, <3>3
  <2>. QED
    BY <2>1, <2>2
<1>. QED
  BY <1>3, <1>4, <1>5 DEF Within

LEMMA LimitsStep ==
    ASSUME IInv, LimitsOK, NEW c \in Calls, Import(c)
    PROVE  LimitsOK'
<1>1. TypeOK /\ Within(entries[c]) /\ entries[c] \in Manifests
  BY DEF IInv, LimitsOK, TypeOK
<1>2. Grows /\ \A x \in Calls : x # c => Same(x)
  BY <1>1, OthersAreKept
<1>3. Within(entries'[c]) /\ (pc'[c] \in AtAFile => HasRoom(entries'[c]))
  <2>1. ASSUME NEW kind \in TreeKinds, NEW bytes \in Contents, todo[c] # {},
               Found(c, kind, bytes), Len(entries[c]) < MaxEntries,
               kind = "file" => HasRoom(entries[c])
        PROVE  Within(entries'[c]) /\ pc'[c] \notin AtAFile
    <3>1. PICK e : e = [path |-> At(c), kind |-> kind, content |-> bytes]
      OBVIOUS
    <3>2. At(c) \in Paths
      BY <1>1, <2>1, AtIsNext
    <3>3. e \in Entries /\ e.kind = kind
      BY <3>1, <3>2 DEF Entries
    <3>4. entries'[c] = Append(entries[c], e) /\ pc'[c] = "walking"
      BY <1>1, <2>1, <3>1 DEF Found, Goto, TypeOK
    <3>5. Within(Append(entries[c], e))
      BY <1>1, <2>1, <3>3, FoundIsWithin
    <3>. QED
      BY <3>4, <3>5 DEF AtAFile, Copying
  <2>2. CASE VisitOther(c)
    <3>1. <<>> \in Contents
      <4>1. PICK b : b = <<>>
        OBVIOUS
      <4>2. b \in Seq(Blocks) /\ Len(b) <= MaxSize
        BY <4>1
      <4>. QED
        BY <4>1, <4>2, ContentsAreSequences
    <3>2. /\ todo[c] # {} /\ Len(entries[c]) < MaxEntries
          /\ KindOf[node[At(c)]] \in TreeKinds /\ KindOf[node[At(c)]] # "file"
          /\ Found(c, KindOf[node[At(c)]], <<>>)
      BY <2>2 DEF VisitOther, Visiting, TreeKinds
    <3>. QED
      BY <2>1, <3>1, <3>2
  <2>3. CASE Recheck(c)
    <3>1. /\ todo[c] # {} /\ copied[c] \in Contents /\ "file" \in TreeKinds
          /\ Found(c, "file", copied[c])
      BY <1>1, <2>3 DEF Recheck, IInv, CallOK, LookedAt, Copying, TypeOK, TreeKinds
    <3>2. HasRoom(entries[c])
      BY <2>3 DEF LimitsOK, Recheck, AtAFile, Copying
    <3>3. Len(entries[c]) < MaxEntries
      BY <3>2 DEF HasRoom
    <3>. QED
      BY <2>1, <3>1, <3>2, <3>3
  <2>4. CASE Lstat(c)
    <3>1. entries' = entries
      BY <2>4 DEF Lstat
    <3>2. PICK n \in Nodes : n = node[At(c)]
      BY <1>1, <2>4, AtIsNext DEF Lstat, Visiting, TypeOK
    <3>3. Len(content[n]) \in Nat
      <4>1. content[n] \in Contents
        BY <1>1 DEF TypeOK
      <4>2. content[n] \in Seq(Blocks)
        BY <4>1, ContentsAreSequences
      <4>. QED
        BY <4>2
    <3>4. BytesOf(entries[c], FilesOf(entries[c])) \in Nat
      BY <1>1, FilesType, BytesType
    <3>5. /\ Len(entries[c]) < MaxEntries /\ Cardinality(FilesOf(entries[c])) < MaxFiles
          /\ Len(content[n]) <= MaxBytes - BytesOf(entries[c], FilesOf(entries[c]))
      BY <2>4, <3>2 DEF Lstat, Visiting, FitsBytes
    <3>6. BytesOf(entries[c], FilesOf(entries[c])) <= MaxBytes
      BY <3>3, <3>4, <3>5
    <3>. QED
      BY <1>1, <3>1, <3>5, <3>6 DEF HasRoom
  <2>5. CASE Open(c) \/ Copy(c)
    <3>1. entries' = entries /\ pc[c] \in AtAFile
      BY <2>5 DEF Open, Copy, AtAFile, Copying
    <3>. QED
      BY <1>1, <3>1 DEF LimitsOK
  <2>6. CASE \/ \E k \in Keys \cup {NoKey} : Start(c, k)
             \/ StageManifest(c) \/ LookUp(c) \/ Replay(c) \/ PublishFile(c)
             \/ PublishManifest(c) \/ RecordTree(c) \/ Fail(c)
    <3>1. entries' = entries
      BY <2>6 DEF Start, StageManifest, LookUp, Replay, PublishFile, PublishManifest, RecordTree,
                  Fail, scan
    <3>2. pc'[c] \notin AtAFile
      BY <1>1, <2>6 DEF Start, StageManifest, LookUp, Replay, PublishFile, PublishManifest,
                        RecordTree, Fail, Goto, TypeOK, AtAFile, Copying
    <3>. QED
      BY <1>1, <3>1, <3>2
  <2>7. CASE Return(c) \/ Crash(c)
    <3>1. pc'[c] \in {"done", "dead"} /\ (entries'[c] = <<>> \/ entries'[c] = entries[c])
      BY <1>1, <2>7 DEF Return, Crash, Goto, TypeOK
    <3>. QED
      BY <1>1, <3>1, EmptyIsWithin DEF AtAFile, Copying
  <2>. QED
    BY <2>2, <2>3, <2>4, <2>5, <2>6, <2>7 DEF Import, Scan
<1>4. tree'[c] # NoTree => Within(tree'[c])
  <2>1. CASE RecordTree(c)
    BY <1>1, <2>1 DEF RecordTree, TypeOK
  <2>2. CASE ~RecordTree(c)
    <3>1. tree' = tree
      BY <2>2 DEF Import, Scan, Start, VisitOther, Lstat, Open, Copy, Recheck, StageManifest,
                  LookUp, Replay, PublishFile, PublishManifest, Fail, Return, Crash, case
    <3>. QED
      BY <3>1 DEF LimitsOK
  <2>. QED
    BY <2>1, <2>2
<1>5. ASSUME NEW x \in Calls
      PROVE  /\ Within(entries'[x])
             /\ pc'[x] \in AtAFile => HasRoom(entries'[x])
             /\ tree'[x] # NoTree => Within(tree'[x])
  <2>1. CASE x = c
    BY <1>3, <1>4, <2>1
  <2>2. CASE x # c
    BY <1>2, <2>2 DEF Same, LimitsOK
  <2>. QED
    BY <2>1, <2>2
<1>. QED
  BY <1>5 DEF LimitsOK, Within, HasRoom, FilesOf, BytesOf
----------------------------------------------------------------------------
\* Trees and answers as keyed effects.

\* A step that records nothing and changes no answer, nor what an answered call found.
LEMMA NothingIsRecorded ==
    ASSUME IInv, UNCHANGED <<tree, answer>>,
           \A x \in Calls : pc[x] # "idle" => key'[x] = key[x],
           \A x \in Answered : entries'[x] = entries[x]
    PROVE  UNCHANGED K!keyedVars
<1>1. \A x \in Calls : AnswerOK(x)
  BY DEF IInv, CallOK
<1>2. Trees' = Trees /\ Answered' = Answered
  BY DEF Trees, Answered
<1>3. \A d \in Trees : Effect(d)' = Effect(d)
  BY <1>1 DEF Effect, Trees, AnswerOK, Over
<1>4. \A x \in Answered : AnswerTo(x)' = AnswerTo(x)
  BY <1>1 DEF AnswerTo, Answered, AnswerOK
<1>5. Effects' = Effects
  BY <1>2, <1>3 DEF Effects
<1>6. Told' = Told
  BY <1>2, <1>4 DEF Told
<1>. QED
  BY <1>5, <1>6 DEF K!keyedVars

\* An answer that names a tree with the key and the entries of the call.
LEMMA AnswerIsTold ==
    ASSUME IInv, NEW c \in Calls, NEW d \in Trees', UNCHANGED <<key, entries>>,
           pc[c] \in {"keyed", "recording"},
           answer' = [answer EXCEPT ![c] = d],
           tree'[d] = entries[c], key[d] = key[c], d = c \/ key[c] # NoKey
    PROVE  K!Tell
<1>1. answer[c] = NoCall /\ answer \in [Calls -> Calls \cup {NoCall}] /\ d \in Calls
  BY DEF IInv, TypeOK, CallOK, AnswerOK, Trees
<1>2. Answered' = Answered \cup {c} /\ \A x \in Answered : x # c /\ answer'[x] = answer[x]
  BY <1>1 DEF Answered
<1>3. \A x \in Answered : AnswerTo(x)' = AnswerTo(x)
  BY <1>2 DEF AnswerTo
<1>4. AnswerTo(c)' = <<c, Effect(d)'>>
  BY <1>1 DEF AnswerTo, Effect
<1>5. Told' = Told \cup {<<c, Effect(d)'>>}
  BY <1>2, <1>3, <1>4 DEF Told
<1>6. Effect(d)' \in Effects'
  BY DEF Effects
<1>7. Effect(d)'.call = c \/ Effect(d)'.key # NoKey
  BY DEF Effect
<1>8. \A t \in Told : t[1] # c
  BY <1>2 DEF Told, AnswerTo
<1>. QED
  BY <1>5, <1>6, <1>7, <1>8 DEF K!Tell, K!MayBeTold

\* A record is a fresh effect, of which its call may be told at once.
LEMMA RecordIsEffect ==
    ASSUME IInv, NEW c \in Calls, RecordTree(c)
    PROVE  K!KeyedNext
<1>1. /\ pc[c] = "recording" /\ Recorded(c) = {} /\ UNCHANGED <<key, entries>>
      /\ tree' = [tree EXCEPT ![c] = entries[c]]
      /\ answer' = answer \/ answer' = [answer EXCEPT ![c] = c]
  BY DEF RecordTree, KeyUnused, scan
<1>2. tree[c] = NoTree /\ tree \in [Calls -> {NoTree} \cup Manifests]
  BY <1>1 DEF IInv, CallOK, AnswerOK, TypeOK, Over
<1>3. \A d \in Trees : d # c /\ tree'[d] = tree[d]
  BY <1>1, <1>2 DEF Trees
<1>4. \A d \in Trees : Effect(d)' = Effect(d)
  BY <1>1, <1>3 DEF Effect
<1>5. Trees' = Trees \cup {c}
  <2>1. entries[c] # NoTree
    BY NoTreeAssumption DEF IInv, TypeOK
  <2>. QED
    BY <1>1, <1>2, <2>1 DEF Trees
<1>6. Effects' = Effects \cup {Effect(c)'}
  BY <1>4, <1>5 DEF Effects
<1>7. K!Fresh(Effect(c)')
  <2>1. ASSUME NEW d \in Trees, key[c] # NoKey PROVE key[d] # key[c]
    BY <1>1, <2>1 DEF Recorded, Trees
  <2>2. \A d \in Trees : Effect(d).call = d /\ Effect(d).key = key[d]
    BY DEF Effect
  <2>3. Effect(c)'.call = c /\ Effect(c)'.key = key[c]
    BY <1>1 DEF Effect
  <2>. QED
    BY <1>3, <2>1, <2>2, <2>3 DEF K!Fresh, Effects
<1>8. K!TakeEffect
  <2>1. Effect(c)' \in Effects'
    BY <1>6
  <2>. QED
    BY <1>6, <1>7, <2>1 DEF K!TakeEffect
<1>9. Told' = Told \/ K!Tell
  <2>1. CASE answer' = answer
    <3>1. Answered' = Answered /\ \A x \in Answered : AnswerTo(x)' = AnswerTo(x)
      BY <1>1, <2>1 DEF Answered, AnswerTo
    <3>. QED
      BY <3>1 DEF Told
  <2>2. CASE answer' = [answer EXCEPT ![c] = c]
    <3>1. c \in Trees' /\ tree'[c] = entries[c]
      BY <1>1, <1>2, <1>5
    <3>. QED
      BY <1>1, <2>2, <3>1, AnswerIsTold
  <2>. QED
    BY <1>1, <2>1, <2>2
<1>. QED
  BY <1>8, <1>9 DEF K!KeyedNext

\* A process that dies forgets its answer, and no more.
LEMMA CrashForgets ==
    ASSUME IInv, NEW c \in Calls, Crash(c)
    PROVE  K!KeyedNext
<1>1. /\ UNCHANGED <<tree, key>> /\ answer \in [Calls -> Calls \cup {NoCall}]
      /\ answer' = [answer EXCEPT ![c] = NoCall]
      /\ entries \in [Calls -> Manifests] /\ entries' = [entries EXCEPT ![c] = <<>>]
  BY DEF Crash, case, IInv, TypeOK
<1>2. Trees' = Trees /\ Effects' = Effects
  BY <1>1 DEF Trees, Effects, Effect
<1>3. \A x \in Answered' : x \in Answered /\ x # c
  BY <1>1 DEF Answered
<1>4. \A x \in Answered' : AnswerTo(x)' = AnswerTo(x)
  BY <1>1, <1>3 DEF AnswerTo, Answered
<1>5. Told' \subseteq Told
  BY <1>3, <1>4 DEF Told
<1>. QED
  BY <1>2, <1>5 DEF K!KeyedNext

LEMMA KeyedStep ==
    ASSUME IInv, [Next]_vars
    PROVE  [K!KeyedNext]_(K!keyedVars)
<1>1. ASSUME NEW c \in Calls, Replay(c) PROVE K!KeyedNext
  <2>1. PICK d \in Recorded(c) : tree[d] = entries[c] /\ answer' = [answer EXCEPT ![c] = d]
    BY <1>1 DEF Replay, SameFingerprint
  <2>2. pc[c] \in {"keyed", "recording"} /\ UNCHANGED <<tree, key, entries>>
    BY <1>1 DEF Replay, case, scan
  <2>3. d \in Trees' /\ key[d] = key[c] /\ key[c] # NoKey
    BY <2>2 DEF Recorded, Trees
  <2>4. K!Tell
    BY <2>1, <2>2, <2>3, AnswerIsTold
  <2>5. Effects' = Effects
    BY <2>2 DEF Effects, Effect, Trees
  <2>. QED
    BY <2>4, <2>5 DEF K!KeyedNext
<1>2. ASSUME NEW c \in Calls, \E k \in Keys \cup {NoKey} : Start(c, k)
      PROVE  UNCHANGED K!keyedVars
  <2>1. pc[c] = "idle" /\ UNCHANGED <<tree, answer, entries>>
        /\ \E k \in Keys \cup {NoKey} : key' = [key EXCEPT ![c] = k]
    BY <1>2 DEF Start, case
  <2>2. \A x \in Calls : pc[x] # "idle" => key'[x] = key[x]
    BY <2>1 DEF IInv, TypeOK
  <2>. QED
    BY <2>1, <2>2, NothingIsRecorded
<1>3. ASSUME NEW c \in Calls, VisitOther(c) \/ Recheck(c) \/ Return(c)
      PROVE  UNCHANGED K!keyedVars
  <2>1. UNCHANGED <<tree, answer, key>>
    BY <1>3 DEF VisitOther, Recheck, Return, case
  <2>2. entries \in [Calls -> Manifests] /\ AnswerOK(c)
    BY DEF IInv, TypeOK, CallOK
  <2>3. \A x \in Answered : entries'[x] = entries[x]
    <3>1. CASE VisitOther(c) \/ Recheck(c)
      <4>1. c \notin Answered
        BY <2>2, <3>1 DEF AnswerOK, Answered, VisitOther, Visiting, Recheck
      <4>. QED
        BY <2>2, <3>1, <4>1 DEF VisitOther, Recheck, Found, Answered
    <3>2. CASE Return(c)
      BY <2>2, <3>2 DEF Return, Answered
    <3>. QED
      BY <1>3, <3>1, <3>2
  <2>. QED
    BY <2>1, <2>3, NothingIsRecorded
<1>4. ASSUME NEW c \in Calls,
             \/ Lstat(c) \/ Open(c) \/ Copy(c) \/ StageManifest(c) \/ LookUp(c)
             \/ PublishFile(c) \/ PublishManifest(c) \/ Fail(c)
      PROVE  UNCHANGED K!keyedVars
  <2>1. UNCHANGED <<tree, answer, key, entries>>
    BY <1>4 DEF Lstat, Open, Copy, StageManifest, LookUp, PublishFile, PublishManifest, Fail,
                case, scan
  <2>. QED
    BY <2>1, NothingIsRecorded
<1>5. CASE Owners \/ UNCHANGED vars
  <2>1. UNCHANGED <<tree, answer, key, entries>>
    BY <1>5, OwnersStep DEF IInv, vars, case, scan
  <2>. QED
    BY <2>1, NothingIsRecorded
<1>. QED
  BY <1>1, <1>2, <1>3, <1>4, <1>5, RecordIsEffect, CrashForgets DEF Next, Import, Scan
----------------------------------------------------------------------------
\* The inductive invariant holds in every behaviour of the imports.
THEOREM IInvHolds == Spec => []IInv
<1>. QED
  BY InitIInv, IInvStep, PTL DEF Spec

\* Every variable of the imports and of the directory keeps its type.
THEOREM TypeCorrect == Spec => []TypeOK
<1>1. IInv => TypeOK
  BY DEF IInv
<1>. QED
  BY <1>1, IInvHolds, PTL

\* Whatever the owners of the directory write or replace while scanSourceTree copies, a
\* recorded file has bytes that stood at its path at one moment.
THEOREM WholeEntries == Spec => []EntriesAreWhole
<1>1. IInv => EntriesAreWhole
  BY DEF IInv
<1>. QED
  BY <1>1, IInvHolds, PTL

\* The rows of ImportSourceTree name only bytes that are in the blob store.
THEOREM BackedTrees == Spec => []TreesAreBacked
<1>1. IInv => TreesAreBacked
  BY DEF IInv
<1>. QED
  BY <1>1, IInvHolds, PTL

\* Imports that race with one key record one tree, and a success names the tree that the
\* call scanned.
THEOREM TreesPerKey == Spec => []OneTreePerKey
<1>1. IInv => OneTreePerKey
  BY DEF IInv
<1>. QED
  BY <1>1, IInvHolds, PTL

\* The deferred removals of ImportSourceTree and scanSourceTree leave nothing in staging.
THEOREM SweptImports == Spec => []ImportsAreSwept
<1>1. IInv => ImportsAreSwept
  BY NothingIsLeft DEF IInv, CallOK
<1>. QED
  BY <1>1, IInvHolds, PTL

\* The limits of scanSourceTree: on the number of entries, of files, and of bytes, of which
\* a recorded tree exceeds the last only with its last file.
THEOREM LimitsHold == Spec => []LimitsAreKept
<1>1. Init => LimitsOK
  BY EmptyIsWithin DEF Init, LimitsOK, AtAFile, Copying
<1>2. IInv /\ LimitsOK /\ [Next]_vars => LimitsOK'
  <2>1. ASSUME LimitsOK, UNCHANGED <<entries, pc, tree>> PROVE LimitsOK'
    BY <2>1 DEF LimitsOK
  <2>2. IInv /\ Owners => UNCHANGED <<entries, pc, tree>>
    BY OwnersStep DEF IInv, case, scan
  <2>3. UNCHANGED vars => UNCHANGED <<entries, pc, tree>>
    BY DEF vars, case, scan
  <2>. QED
    BY <2>1, <2>2, <2>3, LimitsStep DEF Next
<1>3. LimitsOK => LimitsAreKept
  BY DEF LimitsOK, Within, LimitsAreKept, Trees
<1>. QED
  BY <1>1, <1>2, <1>3, IInvHolds, PTL DEF Spec

\* Imports implement the promise about idempotency keys: one step, one tree for a key, for
\* good, and an answer only to a call that scanned that tree.
THEOREM Implements == Spec => ImplementsKeyedEffects
<1>1. Init => K!KeyedInit
  BY DEF Init, K!KeyedInit, Effects, Told, Trees, Answered
<1>. QED
  BY <1>1, IInvHolds, KeyedStep, PTL DEF Spec, ImplementsKeyedEffects, K!KeyedSpec
=============================================================================
