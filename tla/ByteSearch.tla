----------------------------- MODULE ByteSearch -----------------------------
(***************************************************************************)
(* Case.SearchBytes for a literal: the objects of a selection are read in  *)
(* chunks, each with some bytes before it, for the context of its hits,    *)
(* and some after it (src/forensic/search.go).                             *)
(*                                                                         *)
(* The members of a selection and the bytes of an object never change, so  *)
(* that the search is a computation on its own: one step for each match it *)
(* finds in a buffer, and one for the end of a buffer.  The code collects  *)
(* the matches of a buffer before it filters them, which nobody sees.      *)
(* Offsets begin at 0 and are those in the object, also within a buffer.   *)
(* Searches for a regular expression are left out.                         *)
(***************************************************************************)
EXTENDS Integers, Sequences

CONSTANTS Chunk,     \* byteSearchChunk
          Searches   \* what is searched for and in what

VARIABLES
    search,   \* the ByteSearchSpec, with the objects of its selection
    member,   \* the object it is at
    base,     \* where its chunk begins
    room,     \* spec.Limit-len(hits) when the chunk began
    matches,  \* how many matches there were in its buffer
    off,      \* where the next match is looked for
    hits

searchVars == <<search, member, base, room, matches, off, hits>>

IsSearch(s) ==
    /\ s.members \in Seq(Seq(Nat)) /\ s.literal \in Seq(Nat) \ {<<>>}
    /\ s.context \in Nat /\ s.limit \in Nat \ {0}

ASSUME SearchAssumption ==
    /\ Chunk \in Nat \ {0}
    /\ \A s \in Searches : IsSearch(s)

SmallerOf(m, n) == IF m < n THEN m ELSE n
LargerOf(m, n) == IF m > n THEN m ELSE n

Size(m) == Len(search.members[m])
Width == Len(search.literal)

\* The literal stands at offset p of member m.
OccursAt(m, p) ==
    /\ p \in 0..(Size(m) - Width)
    /\ \A i \in 1..Width : search.members[m][p + i] = search.literal[i]

\* The bytes of the buffer begin at readStart and end before readEnd.
ReadStart(b) == b - SmallerOf(search.context, b)

\* Nothing is read past the chunk for the rest of a match.
ReadEnd_NoLookahead(m, b) == SmallerOf(Size(m), b + Chunk + search.context)

ReadEnd(m, b) == SmallerOf(Size(m), b + Chunk + (Width - 1) + search.context)

SearchFor(s) ==
    /\ search = s
    /\ member = 1 /\ base = 0
    /\ room = s.limit /\ matches = 0
    /\ off = 0
    /\ hits = <<>>

SearchInit == \E s \in Searches : SearchFor(s)

\* The two loops go on.
Reading == member <= Len(search.members) /\ base < Size(member) /\ Len(hits) < search.limit

\* bytes.Index(buf[off:], literal)
Matching ==
    {p \in off..(ReadEnd(member, base) - Width) : OccursAt(member, p)}

\* A match after the chunk is that of the next one too.
InChunk_NoUpperBound(p) == base <= p

InChunk(p) == base <= p /\ p < base + Chunk

\* The context is cut off where the buffer ends.
Hit(p) == [member |-> member, offset |-> p,
           from |-> LargerOf(ReadStart(base), p - search.context),
           to |-> SmallerOf(ReadEnd(member, base), p + Width + search.context)]

Match ==
    /\ Reading /\ matches < room
    /\ \E p \in Matching :
           /\ \A q \in Matching : p <= q
           /\ off' = p + Width
           /\ hits' = IF InChunk(p) THEN Append(hits, Hit(p)) ELSE hits
    /\ matches' = matches + 1
    /\ UNCHANGED <<search, member, base, room>>

NextChunk ==
    /\ Reading /\ (matches = room \/ Matching = {})
    /\ base' = base + Chunk
    /\ off' = ReadStart(base')
    /\ room' = search.limit - Len(hits) /\ matches' = 0
    /\ UNCHANGED <<search, member, hits>>

\* len(hits)>=spec.Limit ends the loop over the members too.
NextMember ==
    /\ member <= Len(search.members) /\ ~(base < Size(member)) /\ Len(hits) < search.limit
    /\ member' = member + 1
    /\ base' = 0 /\ off' = 0
    /\ room' = search.limit - Len(hits) /\ matches' = 0
    /\ UNCHANGED <<search, hits>>

Searched == member > Len(search.members) \/ Len(hits) >= search.limit

SearchNext == Match \/ NextChunk \/ NextMember

SearchSpec == SearchInit /\ [][SearchNext]_searchVars
----------------------------------------------------------------------------
(* Properties. *)

\* Hits are occurrences, each once, in the order of the members and of their
\* offsets, at most as many as asked for; none is reported by two chunks.
HitsAreOccurrences ==
    /\ Len(hits) <= search.limit
    /\ \A i \in 1..Len(hits) : OccursAt(hits[i].member, hits[i].offset)
    /\ \A i, j \in 1..Len(hits) : i < j =>
           \/ hits[i].member < hits[j].member
           \/ hits[i].member = hits[j].member /\ hits[i].offset < hits[j].offset

\* The context of a hit is cut off by the ends of its object alone, wherever its
\* chunk began and ended.
ContextsAreWhole ==
    \A i \in 1..Len(hits) :
        LET h == hits[i]
        IN  /\ h.from = LargerOf(0, h.offset - search.context)
            /\ h.to = SmallerOf(Size(h.member), h.offset + Width + search.context)

IsHit(m, p) == \E i \in 1..Len(hits) : hits[i].member = m /\ hits[i].offset = p

\* An occurrence that another hides from the scan: it begins within it.
Hides(q, p) == q < p /\ p < q + Width

ChunkOf(p) == Chunk * (p \div Chunk)

\* A missed occurrence: a hit of its chunk hides it, or there are occurrences in the
\* context before its chunk.
Explained(m, p) ==
    \/ \E q \in ChunkOf(p)..(p - 1) : IsHit(m, q) /\ Hides(q, p)
    \/ \E q \in ReadStart(ChunkOf(p))..(ChunkOf(p) - 1) : OccursAt(m, q)

\* A search that did not reach its limit missed an occurrence only if a hit of its
\* chunk hides it, or if there are occurrences in the context before its chunk.
MissesAreExplained ==
    Searched /\ Len(hits) < search.limit =>
        \A m \in 1..Len(search.members) : \A p \in 0..Size(m) :
            OccursAt(m, p) => IsHit(m, p) \/ Explained(m, p)

\* A search that did not reach its limit reports every occurrence, or one that
\* overlaps it.
NothingIsMissed ==
    Searched /\ Len(hits) < search.limit =>
        \A m \in 1..Len(search.members) : \A p \in 0..Size(m) :
            OccursAt(m, p) =>
                \E i \in 1..Len(hits) :
                    /\ hits[i].member = m
                    /\ hits[i].offset < p + Width /\ p < hits[i].offset + Width
=============================================================================
