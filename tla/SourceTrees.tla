---------------------------- MODULE SourceTrees ----------------------------
(***************************************************************************)
(* Case.ImportSourceTree: calls that walk through a directory which its    *)
(* owners go on changing, copy its files into the case, and record them as *)
(* one tree (src/forensic/source_tree.go, cas.go).                         *)
(*                                                                         *)
(* The directory is the world outside: a path has a node, which may be     *)
(* replaced, and the content of a node may be overwritten block by block,  *)
(* grow and shrink, each time with a new modification time.  A write that  *)
(* keeps the modification time, and what lies below a subdirectory, are    *)
(* left out.  Paths are numbered in the order of the walk.  A manifest is  *)
(* its sequence of entries and a blob its content.  The transaction is one *)
(* step, as CaseMutate shows.                                              *)
(***************************************************************************)
EXTENDS Integers, Sequences, FiniteSets, Functions, FiniteSetsExt

CONSTANTS Calls, Keys, NoKey, NoCall, NoTree,
          Paths, DotGit,          \* DotGit is the path named .git
          Nodes, NoNode, KindOf,  \* nodes of the file system and their kinds
          NodesAtFirst, ContentAtFirst,  \* the directory before the calls
          MaxEntries, MaxFiles, MaxBytes, IncludeGitDir,
          \* Bounds of the model: changes of the directory, the size of a file.
          MaxChanges, MaxSize

TreeKinds == {"file", "directory", "symlink"}

ASSUME TreeAssumption ==
    /\ Paths \subseteq Nat \ {0} /\ IsFiniteSet(Paths)
    /\ KindOf \in [Nodes -> TreeKinds \cup {"other"}] /\ NoNode \notin Nodes
    /\ NodesAtFirst \in [Paths -> Nodes \cup {NoNode}]
    /\ ContentAtFirst \in [Nodes -> Seq({0})]
    /\ \A n \in Nodes : Len(ContentAtFirst[n]) <= MaxSize
    /\ NoKey \notin Keys /\ NoCall \notin Calls
    /\ MaxEntries \in Nat /\ MaxFiles \in Nat /\ MaxBytes \in Nat
    /\ IncludeGitDir \in BOOLEAN
    /\ MaxChanges \in Nat /\ MaxSize \in Nat

VARIABLES
    \* The directory.
    node,      \* what stands at each path
    content,   \* of each node: its blocks, each by the change that wrote it
    mtime,     \* the change that last wrote the node
    changes,   \* how many changes there were
    \* The case.
    tree,      \* the rows of the tree that a call recorded: its entries
    cas,       \* contents of files under blobs/sha256
    manifests, \* the manifests there
    staging,   \* files under staging/ingest: the call and its path, 0 the manifest
    \* The calls.
    pc, key,
    todo,      \* the names WalkDir has read and not visited
    info,      \* the first Lstat of the path it is at
    opened,    \* the Stat of the open file
    copied,    \* the staged content of that path so far
    entries,   \* what it found
    answer,    \* the call whose tree it returned
    \* History: each content that a path has had.
    stood

directory == <<node, content, mtime, changes, stood>>
case == <<tree, cas, manifests>>
scan == <<todo, info, opened, copied, entries>>
vars == <<directory, case, staging, pc, key, scan, answer>>

Blocks == 0..MaxChanges
Contents == UNION {[1..n -> Blocks] : n \in 0..MaxSize}
Entries == [path : Paths, kind : TreeKinds, content : Contents]
Manifests == Seq(Entries)

ASSUME NoTreeAssumption == NoTree \notin Manifests

Scanning == {"walking", "opening", "copying", "checking"}
InFlight == Scanning \cup {"keyed", "publishing", "recording", "returning"}

TypeOK ==
    /\ node \in [Paths -> Nodes \cup {NoNode}]
    /\ content \in [Nodes -> Contents] /\ mtime \in [Nodes -> Blocks] /\ changes \in Blocks
    /\ tree \in [Calls -> {NoTree} \cup Manifests]
    /\ cas \subseteq Contents /\ \A m \in manifests : m \in Manifests
    /\ staging \subseteq Calls \X (Paths \cup {0})
    /\ pc \in [Calls -> {"idle", "done", "dead"} \cup InFlight]
    /\ key \in [Calls -> Keys \cup {NoKey}]
    /\ todo \in [Calls -> SUBSET Paths]
    /\ info \in [Calls -> [node : Nodes \cup {NoNode}, size : 0..MaxSize]]
    /\ opened \in [Calls -> [size : 0..MaxSize, mtime : Blocks]]
    /\ copied \in [Calls -> Contents]
    /\ entries \in [Calls -> Manifests]
    /\ answer \in [Calls -> Calls \cup {NoCall}]

NoInfo == [node |-> NoNode, size |-> 0]
NotOpen == [size |-> 0, mtime |-> 0]

NowAt(p) == IF node[p] = NoNode THEN {} ELSE {<<p, content[node[p]]>>}

Init ==
    /\ node = NodesAtFirst
    /\ content = ContentAtFirst
    /\ mtime = [n \in Nodes |-> 0] /\ changes = 0
    /\ stood = UNION {NowAt(p) : p \in Paths}
    /\ tree = [c \in Calls |-> NoTree]
    /\ cas = {} /\ manifests = {} /\ staging = {}
    /\ pc = [c \in Calls |-> "idle"] /\ key = [c \in Calls |-> NoKey]
    /\ todo = [c \in Calls |-> {}]
    /\ info = [c \in Calls |-> NoInfo] /\ opened = [c \in Calls |-> NotOpen]
    /\ copied = [c \in Calls |-> <<>>]
    /\ entries = [c \in Calls |-> <<>>]
    /\ answer = [c \in Calls |-> NoCall]
----------------------------------------------------------------------------
\* The owners of the directory.

Changed ==
    /\ changes < MaxChanges /\ changes' = changes + 1
    /\ stood' = stood \cup UNION {NowAt(p)' : p \in Paths}
    /\ UNCHANGED <<case, staging, pc, key, scan, answer>>

\* A block is overwritten, a block is appended, the last one is cut off.
Write(n) ==
    /\ KindOf[n] = "file"
    /\ \E blocks \in {[content[n] EXCEPT ![k] = changes + 1] : k \in DOMAIN content[n]}
                     \cup {Append(content[n], changes + 1)}
                     \cup {SubSeq(content[n], 1, Len(content[n]) - 1)} :
           /\ Len(blocks) <= MaxSize
           /\ content' = [content EXCEPT ![n] = blocks]
    /\ mtime' = [mtime EXCEPT ![n] = changes + 1]
    /\ UNCHANGED node
    /\ Changed

\* rename, unlink, and what else puts another node at a path.
Replace(p, n) ==
    /\ n # node[p]
    /\ node' = [node EXCEPT ![p] = n]
    /\ UNCHANGED <<content, mtime>>
    /\ Changed
----------------------------------------------------------------------------
\* scanSourceTree.

Goto(c, step) == pc' = [pc EXCEPT ![c] = step]

At(c) == Min(todo[c])

\* The names WalkDir reads, without a directory .git unless it is asked for.
Skipped(p) == p = DotGit /\ ~IncludeGitDir /\ node[p] # NoNode /\ KindOf[node[p]] = "directory"

Start(c, k) ==
    /\ pc[c] = "idle"
    /\ key' = [key EXCEPT ![c] = k]
    /\ todo' = [todo EXCEPT ![c] = {p \in Paths : node[p] # NoNode /\ ~Skipped(p)}]
    /\ Goto(c, "walking")
    /\ UNCHANGED <<directory, case, staging, info, opened, copied, entries, answer>>

\* fileCount and totalBytes: the files among the entries m, and the blocks that those
\* of them in S have together.
FilesOf(m) == {i \in DOMAIN m : m[i].kind = "file"}
BytesOf(m, S) == Cardinality(UNION {{i} \X DOMAIN m[i].content : i \in S})

\* The bytes found so far are not taken off.
FitsBytes_EachAlone(c, size) == size <= MaxBytes

FitsBytes(c, size) == size <= MaxBytes - BytesOf(entries[c], FilesOf(entries[c]))

\* What a call knows of one path is gone when it leaves it.
Left(c) ==
    /\ info' = [info EXCEPT ![c] = NoInfo]
    /\ opened' = [opened EXCEPT ![c] = NotOpen]
    /\ copied' = [copied EXCEPT ![c] = <<>>]

Found(c, kind, bytes) ==
    /\ entries' = [entries EXCEPT ![c] = Append(@, [path |-> At(c), kind |-> kind, content |-> bytes])]
    /\ todo' = [todo EXCEPT ![c] = @ \ {At(c)}]
    /\ Goto(c, "walking") /\ Left(c)

Visiting(c) == pc[c] = "walking" /\ todo[c] # {} /\ Len(entries[c]) < MaxEntries /\ node[At(c)] # NoNode

\* A directory or a symbolic link is recorded as it is.
VisitOther(c) ==
    /\ Visiting(c) /\ KindOf[node[At(c)]] \in {"directory", "symlink"}
    /\ Found(c, KindOf[node[At(c)]], <<>>)
    /\ UNCHANGED <<directory, case, staging, key, answer>>

\* Lstat, and the limits.
Lstat(c) ==
    /\ Visiting(c) /\ KindOf[node[At(c)]] = "file"
    /\ LET size == Len(content[node[At(c)]])
       IN  /\ Cardinality(FilesOf(entries[c])) < MaxFiles
           /\ FitsBytes(c, size)
           /\ info' = [info EXCEPT ![c] = [node |-> node[At(c)], size |-> size]]
    /\ Goto(c, "opening")
    /\ UNCHANGED <<directory, case, staging, key, todo, opened, copied, entries, answer>>

\* Open and Stat, of the same node; stageBlob creates its file.
Open(c) ==
    /\ pc[c] = "opening" /\ node[At(c)] = info[c].node
    /\ opened' = [opened EXCEPT ![c] = [size |-> Len(content[info[c].node]),
                                        mtime |-> mtime[info[c].node]]]
    /\ copied' = [copied EXCEPT ![c] = <<>>]
    /\ staging' = staging \cup {<<c, At(c)>>}
    /\ Goto(c, "copying")
    /\ UNCHANGED <<directory, case, key, todo, info, entries, answer>>

\* A block at a time, to the end that the file has then.
Copy(c) ==
    LET blocks == content[info[c].node]
        n == Len(copied[c])
    IN  /\ pc[c] = "copying"
        /\ IF n < Len(blocks)
           THEN /\ copied' = [copied EXCEPT ![c] = Append(@, blocks[n + 1])]
                /\ UNCHANGED pc
           ELSE Goto(c, "checking") /\ UNCHANGED copied
        /\ UNCHANGED <<directory, case, staging, key, todo, info, opened, entries, answer>>

\* The size alone tells whether the file is as it was.
Unchanged_BySize(c) ==
    node[At(c)] = info[c].node /\ Len(content[info[c].node]) = opened[c].size

\* The Lstat after the copy.
Unchanged(c) ==
    LET n == info[c].node
    IN  node[At(c)] = n /\ opened[c] = [size |-> Len(content[n]), mtime |-> mtime[n]]

Recheck(c) ==
    /\ pc[c] = "checking" /\ Unchanged(c)
    /\ Found(c, "file", copied[c])
    /\ UNCHANGED <<directory, case, staging, key, answer>>
----------------------------------------------------------------------------
\* The rest of ImportSourceTree.

StageManifest(c) ==
    /\ pc[c] = "walking" /\ todo[c] = {}
    /\ staging' = staging \cup {<<c, 0>>}
    /\ Goto(c, IF key[c] = NoKey THEN "publishing" ELSE "keyed")
    /\ UNCHANGED <<directory, case, key, scan, answer>>

\* lookupIdempotency: whose tree is recorded under the key.
Recorded(c) == {d \in Calls : tree[d] # NoTree /\ key[c] # NoKey /\ key[d] = key[c]}

\* The fingerprint has the digest of the manifest.
SameFingerprint(c, d) == tree[d] = entries[c]

\* The read-only look before anything is published.
LookUp(c) ==
    /\ pc[c] = "keyed" /\ Recorded(c) = {}
    /\ Goto(c, "publishing")
    /\ UNCHANGED <<directory, case, staging, key, scan, answer>>

Replay(c) ==
    /\ pc[c] \in {"keyed", "recording"}
    /\ \E d \in Recorded(c) : SameFingerprint(c, d) /\ answer' = [answer EXCEPT ![c] = d]
    /\ Goto(c, "returning")
    /\ UNCHANGED <<directory, case, staging, key, scan>>

\* Empty files are skipped.
ToPublish_NotEmpty(c) ==
    {p \in Paths : /\ <<c, p>> \in staging
                   /\ \E e \in Range(entries[c]) : e.path = p /\ e.content # <<>>}

ToPublish(c) == {p \in Paths : <<c, p>> \in staging}

\* publishBlob for every file: linked, or verified where it is already, then taken
\* from staging, which may fail.
PublishFile(c) ==
    /\ pc[c] = "publishing" /\ ToPublish(c) # {}
    /\ LET p == Min(ToPublish(c))
           e == CHOOSE e \in Range(entries[c]) : e.path = p
       IN  /\ cas' = cas \cup {e.content}
           /\ \/ staging' = staging \ {<<c, p>>} /\ UNCHANGED pc
              \/ Goto(c, "returning") /\ UNCHANGED staging
    /\ UNCHANGED <<directory, tree, manifests, key, scan, answer>>

PublishManifest(c) ==
    /\ pc[c] = "publishing" /\ ToPublish(c) = {}
    /\ manifests' = manifests \cup {entries[c]}
    /\ \/ staging' = staging \ {<<c, 0>>} /\ Goto(c, "recording")
       \/ Goto(c, "returning") /\ UNCHANGED staging
    /\ UNCHANGED <<directory, tree, cas, key, scan, answer>>

\* The transaction does not look at the key again.
KeyUnused_TrustLookUp(c) == TRUE

KeyUnused(c) == Recorded(c) = {}

\* mutate; an error after the commit returns without an answer.
RecordTree(c) ==
    /\ pc[c] = "recording" /\ KeyUnused(c)
    /\ tree' = [tree EXCEPT ![c] = entries[c]]
    /\ answer' = answer \/ answer' = [answer EXCEPT ![c] = c]
    /\ Goto(c, "returning")
    /\ UNCHANGED <<directory, cas, manifests, staging, key, scan>>

\* The file being staged when the scan fails is not in its entries yet.
Dropped_EntriesOnly(c) == {}

Dropped(c) == IF pc[c] \in {"copying", "checking"} THEN {<<c, At(c)>>} ELSE {}

\* A limit, a file that changed, a node of another kind, a key used for something
\* else, a cancelled context, an I/O error.
Fail(c) ==
    /\ pc[c] \in InFlight \ {"returning"}
    /\ staging' = staging \ Dropped(c)
    /\ Goto(c, "returning") /\ Left(c)
    /\ todo' = [todo EXCEPT ![c] = {}]
    /\ UNCHANGED <<directory, case, key, entries, answer>>

\* The deferred removals: of every entry's staging file, and the manifest's.
Return(c) ==
    /\ pc[c] = "returning"
    /\ staging' = staging \ {<<c, p>> : p \in {0} \cup {e.path : e \in Range(entries[c])}}
    /\ Goto(c, "done")
    /\ entries' = [entries EXCEPT ![c] = IF answer[c] = NoCall THEN <<>> ELSE @]
    /\ UNCHANGED <<directory, case, key, todo, info, opened, copied, answer>>

\* The process ends.
Crash(c) ==
    /\ pc[c] \in InFlight
    /\ Goto(c, "dead") /\ Left(c)
    /\ todo' = [todo EXCEPT ![c] = {}]
    /\ entries' = [entries EXCEPT ![c] = <<>>]
    /\ answer' = [answer EXCEPT ![c] = NoCall]
    /\ UNCHANGED <<directory, case, staging, key>>
----------------------------------------------------------------------------
Owners ==
    \/ \E n \in Nodes : Write(n)
    \/ \E p \in Paths, n \in Nodes \cup {NoNode} : Replace(p, n)

Scan(c) == VisitOther(c) \/ Lstat(c) \/ Open(c) \/ Copy(c) \/ Recheck(c)

Import(c) ==
    \/ \E k \in Keys \cup {NoKey} : Start(c, k)
    \/ Scan(c) \/ StageManifest(c) \/ LookUp(c) \/ Replay(c) \/ PublishFile(c)
    \/ PublishManifest(c) \/ RecordTree(c) \/ Fail(c) \/ Return(c) \/ Crash(c)

Next == Owners \/ \E c \in Calls : Import(c)

Spec == Init /\ [][Next]_vars
----------------------------------------------------------------------------
(* Properties. *)

Trees == {d \in Calls : tree[d] # NoTree}

\* Every file of a tree has the bytes that the file at its path had at one moment,
\* never a mixture of two, although its owners wrote and replaced it meanwhile.
EntriesAreWhole ==
    \A d \in Trees : \A e \in Range(tree[d]) : e.kind = "file" => <<e.path, e.content>> \in stood

\* The limits hold of a tree that is recorded.  A file may grow after its size was
\* checked, but then it is the last: what comes before a file is in them.
LimitsAreKept ==
    \A d \in Trees :
        /\ Len(tree[d]) <= MaxEntries /\ Cardinality(FilesOf(tree[d])) <= MaxFiles
        /\ \A i \in FilesOf(tree[d]) :
               BytesOf(tree[d], {j \in FilesOf(tree[d]) : j < i}) <= MaxBytes

\* A key has one tree, and a call that is answered, by its own record or by that of
\* another which raced it, gets the tree that it scanned itself.
OneTreePerKey ==
    /\ \A c, d \in Trees : key[c] = key[d] /\ key[c] # NoKey => c = d
    /\ \A c \in Calls : answer[c] # NoCall => tree[answer[c]] = entries[c]

\* The catalog never names bytes that are not in the blob store, at no point of an
\* import that publishes many blobs and fails or dies between them.
TreesAreBacked ==
    \A d \in Trees :
        /\ tree[d] \in manifests
        /\ \A e \in Range(tree[d]) : e.kind = "file" => e.content \in cas

\* A call that returns, by whatever path, leaves no staging file; one that died may.
ImportsAreSwept == \A s \in staging : pc[s[1]] # "done"

\* The trees as effects of their calls, and the answers as what the callers were told.
Effect(d) == [call |-> d, key |-> key[d], asked |-> tree[d]]
Answered == {c \in Calls : answer[c] # NoCall}
AnswerTo(c) == <<c, [call |-> answer[c], key |-> key[c], asked |-> entries[c]]>>

Effects == {Effect(d) : d \in Trees}
Told == {AnswerTo(c) : c \in Answered}

K == INSTANCE KeyedEffects WITH effects <- Effects, told <- Told

\* An import takes effect, if at all, in one step, once for its key and for good; who is
\* told of it scanned the same tree, although the directory changed between two scans.
ImplementsKeyedEffects == K!KeyedSpec
=============================================================================
