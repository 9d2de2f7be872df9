--------------------------- MODULE SessionsProofs ---------------------------
(***************************************************************************)
(* Proofs about module Sessions and the scan of module ByteSearch, for any *)
(* number of handles, any declared outputs, and any searches: texts,       *)
(* literals, contexts and limits of any size over chunks of any size.      *)
(*                                                                         *)
(* Four arguments.  The scan finds each hit once, in order and with its    *)
(* whole context (ScanOK); of what it is past, each occurrence is a hit,   *)
(* or there is a reason that it is none (MissesOK).  The call knows at     *)
(* each step what it has recorded and what it judged (CallOK,              *)
(* JudgementOK).  A handle that was closed is behind the close of the row  *)
(* (CloseOK).                                                              *)
(***************************************************************************)
EXTENDS Sessions, TLAPS

HitRecords == [member : Nat, offset : Nat, from : Nat, to : Nat]

\* The scan: where it is, and that its hits lie before that.
PlaceOK ==
    /\ IsSearch(search)
    /\ member \in Nat \ {0} /\ base \in Nat /\ off \in Nat
    /\ room \in Nat /\ matches \in Nat /\ matches <= room
    /\ hits \in Seq(HitRecords)
    /\ Len(hits) + (room - matches) <= search.limit

\* An occurrence of what is searched for, with its whole context.
Sound(h, s) ==
    /\ h.member \in 1..Len(s.members)
    /\ h.offset \in 0..(Len(s.members[h.member]) - Len(s.literal))
    /\ \A i \in 1..Len(s.literal) : s.members[h.member][h.offset + i] = s.literal[i]
    /\ h.from = LargerOf(0, h.offset - s.context)
    /\ h.to = SmallerOf(Len(s.members[h.member]), h.offset + Len(s.literal) + s.context)

\* It lies before what the scan can still find.
Behind(h, m, chunk, o) ==
    h.member < m \/ (h.member = m /\ h.offset < chunk + Chunk /\ (h.offset < chunk \/ h.offset < o))

Before(g, h) == g.member < h.member \/ (g.member = h.member /\ g.offset < h.offset)

ScanOK ==
    /\ PlaceOK
    /\ \A i \in 1..Len(hits) : Sound(hits[i], search) /\ Behind(hits[i], member, base, off)
    /\ \A i, j \in 1..Len(hits) : i < j => Before(hits[i], hits[j])

Unbegun == {"idle", "materializing", "beginning", "inserting", "selecting", "searching", "saving",
            "recording"}
Late == {"verifying", "judging", "finishing"}

\* What a call has recorded, by where it is.
CallOK ==
    /\ pc = "idle" => op = "none" /\ hits = <<>> /\ matches = 0
    /\ pc \in Unbegun => state = "none" /\ ~sealed /\ events = 0
    /\ pc \in Unbegun \cup {"loading"} => used = 0
    /\ pc \in Preparing \cup Working \cup {"running", "failing"} => op = "experiment"
    /\ pc \in {"selecting", "searching", "saving"} => op = "search"
    /\ pc = "recording" => op = "custody"
    /\ pc = "using" => used # 2
    /\ pc \in {"sealing", "starting", "running"} \cup Working => used = 2
    /\ pc \in {"starting", "running"} \cup Working => sealed
    /\ pc \in Unbegun \cup Preparing \cup {"running"} => captured = 0
    /\ pc = "capturing" => captured < Logs + Outputs
    /\ pc \in Late => captured = Logs + Outputs
    /\ pc = "failing" => ~bound
    /\ pc # "returned" => result = "none"
    /\ pc = "saving" => Searched
    /\ saved # <<>> => pc = "returned" /\ Searched
    /\ pc = "returned" /\ state = "running" => left # "no"

\* What it knows of the command and what it says of it.
JudgementOK ==
    /\ pc \in Unbegun \cup Preparing \cup {"running", "capturing", "verifying"} => inputCheck = "none"
    /\ pc \in Unbegun \cup Preparing \cup {"running", "capturing", "verifying", "judging"} =>
           outcome = "none"
    /\ pc \in {"judging", "finishing"} => inputCheck # "none"
    /\ pc \in Working => runErr # "none"
    /\ pc = "finishing" => outcome # "none"
    /\ altered => ~intact
    /\ inputCheck = "ok" => ~altered
    /\ outcome # "none" =>
           /\ outcome \in {"succeeded", "failed", "cancelled"}
           /\ used = 2 /\ sealed /\ captured = Logs + Outputs
           /\ outcome \in {"succeeded", "cancelled"} =>
                  inputCheck = "ok" /\ IF outcome = "succeeded" THEN runErr = "nil" ELSE cancelled
    /\ op = "experiment" /\ state \in {"succeeded", "cancelled"} => outcome = state
    /\ op = "experiment" /\ result = "ok" =>
           state = outcome /\ outcome \in {"succeeded", "failed"}

\* A handle whose flag is set is at its Close, or the row is closed, or one failed.
CloseOK ==
    /\ \A h \in Handles : handle[h] # "none" => session # "none"
    /\ \A h \in Handles : handle[h] = "closed" => h \in closing \/ session = "closed" \/ spared
    /\ \A h \in closing : handle[h] = "closed"

IInv == TypeOK /\ ScanOK /\ CallOK /\ JudgementOK /\ CloseOK
----------------------------------------------------------------------------
USE SearchAssumption, SessionAssumption DEF Logs

LEMMA InitIInv == Init => IInv
<1> SUFFICES ASSUME Init PROVE IInv
  OBVIOUS
<1>1. TypeOK
  <2>1. 0 \in 0..2 /\ 0 \in 0..(Logs + Outputs) /\ 0 \in 0..1
    OBVIOUS
  <2>2. handle \in [Handles -> {"none", "open", "closed"}]
    BY DEF Init
  <2>. QED
    BY <2>1, <2>2 DEF Init, TypeOK
<1>2. ScanOK
  <2>1. IsSearch(NoSearch)
    <3>1. <<0>> \in Seq(Nat) /\ <<0>> # <<>> /\ <<>> \in Seq(Seq(Nat))
      OBVIOUS
    <3>. QED
      BY <3>1 DEF IsSearch, NoSearch
  <2>2. hits = <<>> /\ hits \in Seq(HitRecords) /\ Len(hits) = 0 /\ search = NoSearch
    BY DEF Init, SearchFor
  <2>. QED
    BY <2>1, <2>2 DEF Init, SearchFor, ScanOK, PlaceOK, NoSearch
<1>3. CallOK /\ JudgementOK /\ CloseOK
  BY DEF Init, SearchFor, CallOK, JudgementOK, CloseOK, Unbegun, Preparing, Working, Late, Steps
<1>. QED
  BY <1>1, <1>2, <1>3 DEF IInv

\* The invariants that are checked.
LEMMA IInvImplies ==
    IInv => OutcomeIsTrue /\ RunsAreEnded /\ CloseIsLostOnlyByFailure /\ SavedHitsAreTrue
<1> SUFFICES ASSUME IInv
             PROVE  OutcomeIsTrue /\ RunsAreEnded /\ CloseIsLostOnlyByFailure /\ SavedHitsAreTrue
  OBVIOUS
<1>1. OutcomeIsTrue
  BY DEF IInv, OutcomeIsTrue, JudgementOK
<1>2. RunsAreEnded
  BY DEF IInv, RunsAreEnded, CallOK
<1>3. CloseIsLostOnlyByFailure
  BY DEF IInv, CloseIsLostOnlyByFailure, CloseOK
<1>4. SavedHitsAreTrue
  <2>1. HitsAreOccurrences
    <3>1. Len(hits) <= search.limit
      BY DEF IInv, ScanOK, PlaceOK, IsSearch
    <3>2. \A i \in 1..Len(hits) : OccursAt(hits[i].member, hits[i].offset)
      BY DEF IInv, ScanOK, Sound, OccursAt, Size, Width
    <3>. QED
      BY <3>1, <3>2 DEF IInv, ScanOK, Before, HitsAreOccurrences
  <2>2. ContextsAreWhole
    BY DEF IInv, ScanOK, Sound, ContextsAreWhole, Size, Width
  <2>. QED
    BY <2>1, <2>2 DEF IInv, SavedHitsAreTrue, CallOK, TypeOK
<1>. QED
  BY <1>1, <1>2, <1>3, <1>4
----------------------------------------------------------------------------
\* The scan.

LEMMA MatchStep ==
    ASSUME ScanOK, Match
    PROVE  ScanOK'
<1>0. /\ PlaceOK /\ IsSearch(search)
      /\ \A i \in 1..Len(hits) : Sound(hits[i], search) /\ Behind(hits[i], member, base, off)
      /\ \A i, j \in 1..Len(hits) : i < j => Before(hits[i], hits[j])
  BY DEF ScanOK, PlaceOK
<1>1. PICK p \in Matching :
          /\ off' = p + Width
          /\ hits' = IF InChunk(p) THEN Append(hits, Hit(p)) ELSE hits
  BY DEF Match
<1>2. /\ UNCHANGED <<search, member, base, room>> /\ matches' = matches + 1 /\ matches < room
      /\ member <= Len(search.members) /\ base < Size(member)
  BY DEF Match, Reading
<1>3. /\ Width \in Nat \ {0} /\ search.context \in Nat /\ search.limit \in Nat
      /\ Size(member) \in Nat /\ member \in 1..Len(search.members)
      /\ base \in Nat /\ off \in Nat /\ Len(hits) \in Nat
  <2>1. /\ search.context \in Nat /\ search.limit \in Nat
        /\ search.members \in Seq(Seq(Nat)) /\ search.literal \in Seq(Nat) /\ search.literal # <<>>
        /\ member \in Nat \ {0} /\ base \in Nat /\ off \in Nat /\ hits \in Seq(HitRecords)
    BY <1>0 DEF PlaceOK, IsSearch
  <2>2. Width \in Nat \ {0}
    BY <2>1 DEF Width
  <2>3. member \in 1..Len(search.members)
    BY <1>2, <2>1
  <2>4. search.members[member] \in Seq(Nat)
    BY <2>1, <2>3
  <2>. QED
    BY <2>1, <2>2, <2>3, <2>4, SMTT(40) DEF Size
<1>4. p \in Nat /\ off <= p /\ p <= ReadEnd(member, base) - Width /\ OccursAt(member, p)
  <2>1. ReadEnd(member, base) \in Nat
    BY <1>3 DEF ReadEnd, SmallerOf
  <2>. QED
    BY <1>1, <1>3, <2>1 DEF Matching
<1>5. off' \in Nat /\ off <= off' /\ p < off'
  BY <1>1, <1>3, <1>4
<1>6. \A h \in HitRecords : Behind(h, member, base, off) => Behind(h, member, base, off')
  BY <1>3, <1>5 DEF Behind, HitRecords
<1>7. \A i \in 1..Len(hits) : hits[i] \in HitRecords
  BY <1>0 DEF PlaceOK
<1>8. CASE ~InChunk(p)
  <2>1. hits' = hits
    BY <1>1, <1>8
  <2>2. PlaceOK'
    BY <1>0, <1>2, <1>3, <1>5, <2>1 DEF PlaceOK
  <2>. QED
    BY <1>0, <1>2, <1>6, <1>7, <2>1, <2>2 DEF ScanOK
<1>9. CASE InChunk(p)
  <2>1. hits' = Append(hits, Hit(p)) /\ base <= p /\ p < base + Chunk
    BY <1>1, <1>9 DEF InChunk
  <2>2. /\ Hit(p).member = member /\ Hit(p).offset = p
        /\ Hit(p).from = LargerOf(0, p - search.context)
        /\ Hit(p).to = SmallerOf(Size(member), p + Width + search.context)
    <3>1. LargerOf(ReadStart(base), p - search.context) = LargerOf(0, p - search.context)
      BY <1>3, <1>4, <2>1 DEF LargerOf, ReadStart, SmallerOf
    <3>2. SmallerOf(ReadEnd(member, base), p + Width + search.context)
              = SmallerOf(Size(member), p + Width + search.context)
      BY <1>3, <1>4, <2>1, SMTT(40) DEF ReadEnd, SmallerOf
    <3>. QED
      BY <3>1, <3>2 DEF Hit
  <2>3. Hit(p) \in HitRecords
    <3>1. LargerOf(0, p - search.context) \in Nat
      BY <1>3, <1>4 DEF LargerOf
    <3>2. SmallerOf(Size(member), p + Width + search.context) \in Nat
      BY <1>3, <1>4 DEF SmallerOf
    <3>. QED
      BY <1>3, <1>4, <2>2, <3>1, <3>2 DEF Hit, HitRecords
  <2>4. PICK h \in HitRecords : h = Hit(p)
    BY <2>3
  <2>5. Sound(h, search)
    BY <1>3, <1>4, <2>2, <2>4 DEF Sound, OccursAt, Size, Width
  <2>6. Behind(h, member, base, off')
    BY <1>3, <1>4, <1>5, <2>1, <2>2, <2>4 DEF Behind
  <2>7. \A i \in 1..Len(hits) : Before(hits[i], h)
    <3>1. \A g \in HitRecords : Behind(g, member, base, off) => Before(g, h)
      BY <1>3, <1>4, <2>1, <2>2, <2>4, SMTT(40) DEF Behind, Before, HitRecords
    <3>. QED
      BY <1>0, <1>7, <3>1
  <2>8. /\ hits' \in Seq(HitRecords) /\ Len(hits') = Len(hits) + 1
        /\ \A i \in 1..Len(hits) : hits'[i] = hits[i]
        /\ hits'[Len(hits) + 1] = h
    BY <1>0, <2>1, <2>4 DEF PlaceOK
  <2>9. PlaceOK'
    BY <1>0, <1>2, <1>3, <1>5, <2>8, SMTT(40) DEF PlaceOK
  <2>10. ASSUME NEW i \in 1..Len(hits')
         PROVE  Sound(hits'[i], search) /\ Behind(hits'[i], member, base, off')
    <3>1. CASE i = Len(hits) + 1
      BY <2>5, <2>6, <2>8, <3>1
    <3>2. CASE i # Len(hits) + 1
      <4>1. i \in 1..Len(hits)
        BY <1>3, <2>8, <3>2
      <4>. QED
        BY <1>0, <1>6, <1>7, <2>8, <4>1
    <3>. QED
      BY <3>1, <3>2
  <2>11. ASSUME NEW i \in 1..Len(hits'), NEW j \in 1..Len(hits'), i < j
         PROVE  Before(hits'[i], hits'[j])
    <3>1. i \in 1..Len(hits)
      BY <1>3, <2>8, <2>11
    <3>2. CASE j = Len(hits) + 1
      BY <2>7, <2>8, <3>1, <3>2
    <3>3. CASE j # Len(hits) + 1
      <4>1. j \in 1..Len(hits)
        BY <1>3, <2>8, <3>3
      <4>. QED
        BY <1>0, <2>8, <2>11, <3>1, <4>1
    <3>. QED
      BY <3>2, <3>3
  <2>. QED
    BY <1>2, <2>9, <2>10, <2>11 DEF ScanOK
<1>. QED
  BY <1>8, <1>9

LEMMA NextPlaceStep ==
    ASSUME ScanOK, NextChunk \/ NextMember
    PROVE  ScanOK'
<1>0. /\ PlaceOK /\ IsSearch(search)
      /\ \A i \in 1..Len(hits) : Sound(hits[i], search) /\ Behind(hits[i], member, base, off)
      /\ \A i, j \in 1..Len(hits) : i < j => Before(hits[i], hits[j])
  BY DEF ScanOK, PlaceOK
<1>1. /\ UNCHANGED <<search, hits>> /\ Len(hits) < search.limit
      /\ room' = search.limit - Len(hits) /\ matches' = 0
      /\ \/ member' = member /\ base' = base + Chunk /\ off' = ReadStart(base')
         \/ member' = member + 1 /\ base' = 0 /\ off' = 0
  BY DEF NextChunk, NextMember, Reading
<1>2. /\ search.context \in Nat /\ search.limit \in Nat /\ Len(hits) \in Nat
      /\ base \in Nat /\ member \in Nat \ {0} /\ hits \in Seq(HitRecords)
  BY <1>0 DEF PlaceOK, IsSearch
<1>3. PlaceOK'
  <2>1. off' \in Nat /\ base' \in Nat /\ member' \in Nat \ {0}
    BY <1>1, <1>2 DEF ReadStart, SmallerOf
  <2>. QED
    BY <1>0, <1>1, <1>2, <2>1 DEF PlaceOK
<1>4. \A h \in HitRecords : Behind(h, member, base, off) => Behind(h, member', base', off')
  BY <1>1, <1>2 DEF Behind, HitRecords
<1>. QED
  BY <1>0, <1>1, <1>2, <1>3, <1>4 DEF ScanOK
----------------------------------------------------------------------------
\* The session, the world, and the searches.

LEMMA SessionStep ==
    ASSUME IInv, SessionWork
    PROVE  IInv'
<1>0. TypeOK /\ CloseOK
  BY DEF IInv
<1>1. UNCHANGED <<searchVars, callVars, recordVars, runVars>>
  BY DEF SessionWork, StartSession, Close, CloseRow, FailClose
<1>2. TypeOK' /\ CloseOK'
  <2>1. ASSUME NEW h \in Handles, StartSession(h) PROVE TypeOK' /\ CloseOK'
    <3>1. TypeOK'
      BY <1>0, <1>1, <2>1
      DEF StartSession, RowStarted, TypeOK, searchVars, callVars, recordVars, activity, runVars
    <3>2. CloseOK'
      BY <1>0, <2>1 DEF StartSession, RowStarted, TypeOK, CloseOK
    <3>. QED
      BY <3>1, <3>2
  <2>2. ASSUME NEW h \in Handles, Close(h) PROVE TypeOK' /\ CloseOK'
    <3>1. TypeOK'
      BY <1>0, <1>1, <2>2
      DEF Close, TypeOK, searchVars, callVars, recordVars, activity, runVars
    <3>2. CloseOK'
      BY <1>0, <2>2 DEF Close, TypeOK, CloseOK
    <3>. QED
      BY <3>1, <3>2
  <2>3. ASSUME NEW h \in Handles, CloseRow(h) \/ FailClose(h) PROVE TypeOK' /\ CloseOK'
    <3>0. spared' \in BOOLEAN
      <4>1. CASE CloseRow(h)
        BY <1>0, <4>1 DEF CloseRow, TypeOK
      <4>2. CASE FailClose(h)
        <5>1. spared' = (spared \/ session = "open")
          BY <4>2 DEF FailClose
        <5>. QED
          BY <5>1, Zenon
      <4>. QED
        BY <2>3, <4>1, <4>2
    <3>1. TypeOK'
      BY <1>0, <1>1, <2>3, <3>0
      DEF CloseRow, FailClose, TypeOK, searchVars, callVars, recordVars, activity, runVars
    <3>2. session \in {"open", "closed"}
      BY <1>0, <2>3 DEF CloseRow, FailClose, CloseOK, TypeOK
    <3>3. CloseOK'
      BY <1>0, <2>3, <3>2 DEF CloseRow, FailClose, CloseOK, TypeOK
    <3>. QED
      BY <3>1, <3>3
  <2>. QED
    BY <2>1, <2>2, <2>3 DEF SessionWork
<1>3. ScanOK' /\ CallOK' /\ JudgementOK'
  BY <1>1
  DEF IInv, ScanOK, PlaceOK, CallOK, JudgementOK, Searched, searchVars, callVars, recordVars,
      activity, runVars
<1>. QED
  BY <1>2, <1>3 DEF IInv

\* A step of the call leaves the session alone, and only a scan moves the search.
LEMMA CallLeaves ==
    ASSUME IInv, UNCHANGED sessionVars, UNCHANGED searchVars,
           TypeOK', CallOK', JudgementOK'
    PROVE  IInv'
<1>1. ScanOK' /\ CloseOK'
  BY DEF IInv, ScanOK, PlaceOK, CloseOK, sessionVars, searchVars
<1>. QED
  BY <1>1 DEF IInv

LEMMA WorldStep ==
    ASSUME IInv, Cancel \/ Alter \/ Interrupt \/ Crash \/ Refuse \/ UNCHANGED vars
    PROVE  IInv'
<1> USE DEF Unbegun, Preparing, Working, Late, Steps, OnActivity, Ends, callVars, recordVars,
            activity, runVars, searchVars
<1>0. TypeOK /\ CallOK /\ JudgementOK
  BY DEF IInv
<1>1. UNCHANGED sessionVars /\ UNCHANGED searchVars
  BY DEF Cancel, Alter, Interrupt, Crash, Refuse, vars
<1>2. CASE Cancel
  <2>1. TypeOK'
    BY <1>0, <1>1, <1>2 DEF Cancel, TypeOK, sessionVars
  <2>2. CallOK' /\ JudgementOK'
    BY <1>0, <1>2 DEF Cancel, CallOK, JudgementOK, Searched
  <2>. QED
    BY <1>1, <2>1, <2>2, CallLeaves
<1>3. CASE Alter
  <2>1. altered' \in BOOLEAN /\ (altered' => pc = "running")
    <3>1. altered' = (pc = "running")
      BY <1>3 DEF Alter
    <3>. QED
      BY <3>1, Zenon
  <2>2. /\ ~intact' /\ intact' \in BOOLEAN
        /\ UNCHANGED <<callVars, recordVars, runErr, inputCheck, outcome, left>>
    <3>1. intact' = FALSE /\ UNCHANGED <<callVars, recordVars, runErr, inputCheck, outcome, left>>
      BY <1>3 DEF Alter
    <3>. QED
      BY <3>1, Zenon
  <2>3. TypeOK'
    BY <1>0, <1>1, <2>1, <2>2 DEF TypeOK, sessionVars
  <2>4. CallOK'
    BY <1>0, <1>1, <2>2 DEF CallOK, Searched
  <2>5. JudgementOK'
    BY <1>0, <2>1, <2>2 DEF JudgementOK
  <2>. QED
    BY <1>1, <2>3, <2>4, <2>5, CallLeaves
<1>4. CASE Interrupt
  <2>1. TypeOK'
    BY <1>0, <1>1, <1>4 DEF Interrupt, TypeOK, sessionVars
  <2>2. CallOK' /\ JudgementOK'
    BY <1>0, <1>4 DEF Interrupt, CallOK, JudgementOK, Searched
  <2>. QED
    BY <1>1, <2>1, <2>2, CallLeaves
<1>5. CASE Crash \/ Refuse
  <2>1. TypeOK'
    BY <1>0, <1>1, <1>5 DEF Crash, Refuse, Goto, Return, TypeOK, sessionVars
  <2>2. CallOK' /\ JudgementOK'
    BY <1>0, <1>5 DEF Crash, Refuse, Goto, Return, CallOK, JudgementOK, Searched
  <2>. QED
    BY <1>1, <2>1, <2>2, CallLeaves
<1>6. CASE UNCHANGED vars
  <2>1. TypeOK' /\ CallOK' /\ JudgementOK'
    BY <1>0, <1>6 DEF vars, TypeOK, sessionVars, CallOK, JudgementOK, Searched
  <2>. QED
    BY <1>1, <2>1, CallLeaves
<1>. QED
  BY <1>2, <1>3, <1>4, <1>5, <1>6

LEMMA BeginCall ==
    ASSUME IInv, NEW h \in Handles, NEW o \in Asked, Call(h, o)
    PROVE  IInv'
<1> USE DEF Unbegun, Preparing, Working, Late, Steps, recordVars, activity, runVars
<1>0. TypeOK /\ CallOK /\ JudgementOK /\ ScanOK
  BY DEF IInv
<1>1. /\ pc = "idle" /\ op' = o /\ by' = h /\ pc' = FirstStep[o]
      /\ UNCHANGED <<sessionVars, cancelled, bound, result, recordVars, runVars>>
      /\ o \in {"experiment", "search", "custody"}
  BY DEF Call, Goto, Operations
<1>2. pc' = CASE o = "experiment" -> "materializing" [] o = "search" -> "selecting"
              [] OTHER -> "recording"
  BY <1>1 DEF FirstStep
<1>3. saved = <<>>
  BY <1>0, <1>1 DEF CallOK
<1>4. TypeOK'
  BY <1>0, <1>1, <1>2, <1>3 DEF TypeOK, Operations, sessionVars
<1>5. CallOK' /\ JudgementOK'
  BY <1>0, <1>1, <1>2, <1>3 DEF CallOK, JudgementOK
<1>6. ScanOK'
  <2>1. CASE UNCHANGED searchVars
    BY <1>0, <2>1 DEF ScanOK, PlaceOK, searchVars
  <2>2. CASE search' \in Searches /\ room' = search'.limit
             /\ UNCHANGED <<member, base, matches, off, hits>>
    <3>1. /\ hits' = <<>> /\ matches' = 0 /\ IsSearch(search') /\ room' \in Nat
          /\ hits' \in Seq(HitRecords) /\ Len(hits') = 0
      BY <1>0, <1>1, <2>2 DEF CallOK, ScanOK, PlaceOK, IsSearch
    <3>. QED
      BY <1>0, <2>2, <3>1 DEF ScanOK, PlaceOK
  <2>. QED
    BY <2>1, <2>2 DEF Call
<1>7. CloseOK'
  BY <1>1 DEF IInv, CloseOK, sessionVars
<1>. QED
  BY <1>4, <1>5, <1>6, <1>7 DEF IInv
----------------------------------------------------------------------------
\* The call.

LEMMA PrepareStep ==
    ASSUME IInv, Prepare \/ RunCommand \/ Exit
    PROVE  IInv'
<1> USE DEF Unbegun, Preparing, Working, Late, Steps, Ends, Goto, Enter, Return, Quiet
<1>0. TypeOK /\ CallOK /\ JudgementOK
  BY DEF IInv
<1>1. UNCHANGED sessionVars /\ UNCHANGED searchVars
  BY DEF Prepare, Materialize, BeginActivity, InsertActivity, LoadActivity, Use, SealInputs,
         RunCommand, Exit
<1>2. CASE Materialize \/ BeginActivity
  <2>1. TypeOK'
    BY <1>0, <1>1, <1>2
    DEF Materialize, BeginActivity, TypeOK, sessionVars, searchVars, activity, runVars
  <2>2. CallOK' /\ JudgementOK'
    BY <1>0, <1>1, <1>2
    DEF Materialize, BeginActivity, CallOK, JudgementOK, Searched, searchVars, activity, runVars
  <2>. QED
    BY <1>1, <2>1, <2>2, CallLeaves
<1>3. CASE InsertActivity
  <2>1. TypeOK'
    BY <1>0, <1>1, <1>3 DEF InsertActivity, TypeOK, sessionVars, searchVars, runVars
  <2>2. CallOK' /\ JudgementOK'
    BY <1>0, <1>1, <1>3
    DEF InsertActivity, CallOK, JudgementOK, Searched, searchVars, runVars
  <2>. QED
    BY <1>1, <2>1, <2>2, CallLeaves
<1>4. CASE LoadActivity
  <2>1. TypeOK'
    BY <1>0, <1>1, <1>4 DEF LoadActivity, TypeOK, sessionVars, searchVars, activity
  <2>2. CallOK' /\ JudgementOK'
    BY <1>0, <1>1, <1>4
    DEF LoadActivity, CallOK, JudgementOK, Searched, searchVars, activity
  <2>. QED
    BY <1>1, <2>1, <2>2, CallLeaves
<1>5. CASE Use
  <2>1. /\ pc = "using" /\ state = "running" /\ used \in {0, 1} /\ used' = used + 1
        /\ pc' = IF used' = 2 THEN "sealing" ELSE "using"
        /\ UNCHANGED <<searchVars, sessionVars, op, by, cancelled, saved, events>>
        /\ UNCHANGED <<bound, result, state, sealed, captured, runVars>>
    BY <1>0, <1>5 DEF Use, MayWrite, TypeOK, CallOK
  <2>2. used' \in {1, 2}
    BY <2>1
  <2>3. TypeOK'
    BY <1>0, <2>1, <2>2 DEF TypeOK, sessionVars, searchVars, runVars
  <2>4. CallOK' /\ JudgementOK'
    BY <1>0, <2>1, <2>2 DEF CallOK, JudgementOK, Searched, searchVars, runVars
  <2>. QED
    BY <1>1, <2>3, <2>4, CallLeaves
<1>6. CASE SealInputs
  <2>1. TypeOK'
    BY <1>0, <1>1, <1>6 DEF SealInputs, TypeOK, sessionVars, searchVars, runVars
  <2>2. CallOK' /\ JudgementOK'
    BY <1>0, <1>1, <1>6
    DEF SealInputs, MayWrite, CallOK, JudgementOK, Searched, searchVars, runVars
  <2>. QED
    BY <1>1, <2>1, <2>2, CallLeaves
<1>7. CASE RunCommand \/ Exit
  <2>1. bound' \in BOOLEAN
    <3>1. bound' = bound \/ bound' = ~cancelled
      BY <1>7 DEF RunCommand, Exit
    <3>2. (~cancelled) \in BOOLEAN
      BY Zenon
    <3>. QED
      BY <1>0, <3>1, <3>2 DEF TypeOK
  <2>2. /\ pc \in {"starting", "running"} /\ pc' \in {"running", "capturing"}
        /\ runErr' \in {"none", "nil", "error"} /\ (pc' = "capturing" => runErr' # "none")
        /\ UNCHANGED <<searchVars, sessionVars, op, by, cancelled, saved, events, result,
                       activity, intact, altered, inputCheck, outcome, left>>
    BY <1>0, <1>7 DEF RunCommand, Exit, TypeOK
  <2>3. TypeOK'
    BY <1>0, <2>1, <2>2 DEF TypeOK, sessionVars, searchVars, activity
  <2>4. captured = 0 /\ 0 < Logs + Outputs
    BY <1>0, <2>2 DEF CallOK
  <2>5. CallOK' /\ JudgementOK'
    BY <1>0, <2>2, <2>4 DEF CallOK, JudgementOK, Searched, searchVars, activity
  <2>. QED
    BY <1>1, <2>3, <2>5, CallLeaves
<1>. QED
  BY <1>2, <1>3, <1>4, <1>5, <1>6, <1>7 DEF Prepare

LEMMA JudgeStep ==
    ASSUME IInv, Capture \/ Verify \/ Judge
    PROVE  IInv'
<1> USE DEF Unbegun, Preparing, Working, Late, Steps, Ends, Goto, Quiet
<1>0. TypeOK /\ CallOK /\ JudgementOK
  BY DEF IInv
<1>1. UNCHANGED sessionVars /\ UNCHANGED searchVars
  BY DEF Capture, Verify, Judge
<1>2. bound' \in BOOLEAN
  <2>1. bound' = bound \/ bound' = ~cancelled
    BY DEF Capture, Verify, Judge, Enter
  <2>2. (~cancelled) \in BOOLEAN
    BY Zenon
  <2>. QED
    BY <1>0, <2>1, <2>2 DEF TypeOK
<1>3. CASE Capture
  <2>1. /\ pc = "capturing" /\ state = "running" /\ captured' = captured + 1
        /\ pc' = IF captured' = Logs + Outputs THEN "verifying" ELSE "capturing"
        /\ UNCHANGED <<searchVars, sessionVars, op, by, cancelled, saved, events, result,
                       state, used, sealed, runVars>>
    BY <1>3 DEF Capture, MayWrite, Enter
  <2>2. captured \in Nat /\ captured < Logs + Outputs
    BY <1>0, <2>1 DEF TypeOK, CallOK
  <2>3. captured' \in 0..(Logs + Outputs) /\ (captured' # Logs + Outputs => captured' < Logs + Outputs)
    BY <2>1, <2>2
  <2>4. TypeOK'
    BY <1>0, <1>2, <2>1, <2>3 DEF TypeOK, sessionVars, searchVars, runVars
  <2>5. CallOK' /\ JudgementOK'
    BY <1>0, <2>1, <2>3 DEF CallOK, JudgementOK, Searched, searchVars, runVars
  <2>. QED
    BY <1>1, <2>4, <2>5, CallLeaves
<1>4. CASE Verify
  <2>1. TypeOK'
    BY <1>0, <1>2, <1>4 DEF Verify, TypeOK, sessionVars, searchVars, activity
  <2>2. CallOK' /\ JudgementOK'
    BY <1>0, <1>4 DEF Verify, CallOK, JudgementOK, Searched, searchVars, activity
  <2>. QED
    BY <1>1, <2>1, <2>2, CallLeaves
<1>5. CASE Judge
  <2>1. /\ outcome' = Judged /\ pc = "judging" /\ pc' = "finishing"
        /\ UNCHANGED <<searchVars, sessionVars, op, by, cancelled, saved, events, result,
                       activity, runErr, intact, altered, inputCheck, left>>
    BY <1>5 DEF Judge, Enter
  <2>2. /\ outcome' \in {"succeeded", "failed", "cancelled"}
        /\ outcome' \in {"succeeded", "cancelled"} =>
               inputCheck = "ok" /\ IF outcome' = "succeeded" THEN runErr = "nil" ELSE cancelled
    BY <1>0, <2>1 DEF Judged, TypeOK, JudgementOK
  <2>3. TypeOK'
    BY <1>0, <1>2, <2>1, <2>2 DEF TypeOK, sessionVars, searchVars, activity
  <2>4. CallOK'
    BY <1>0, <2>1 DEF CallOK, Searched, searchVars, activity
  <2>5. JudgementOK'
    <3>1. outcome = "none" /\ op = "experiment" /\ result = "none"
          /\ used = 2 /\ sealed /\ captured = Logs + Outputs
          /\ state \notin {"succeeded", "cancelled"}
      BY <1>0, <2>1 DEF CallOK, JudgementOK
    <3>. QED
      BY <1>0, <2>1, <2>2, <3>1 DEF JudgementOK, activity
  <2>. QED
    BY <1>1, <2>3, <2>4, <2>5, CallLeaves
<1>. QED
  BY <1>3, <1>4, <1>5

LEMMA EndStep ==
    ASSUME IInv, Finish \/ Break \/ FinishUnacknowledged \/ FinishFailed \/ FinishRefused
    PROVE  IInv'
<1> USE DEF Unbegun, Preparing, Working, Late, Steps, Ends, OnActivity, Goto, Return, Quiet,
            DeferredBound
<1>0. TypeOK /\ CallOK /\ JudgementOK
  BY DEF IInv
<1>1. UNCHANGED sessionVars /\ UNCHANGED searchVars
  BY DEF Finish, Break, FinishUnacknowledged, FinishFailed, FinishRefused
<1>2. CASE Finish
  <2>1. /\ pc = "finishing" /\ state = "running" /\ state' = outcome /\ pc' = "returned"
        /\ result' = IF cancelled THEN "error" ELSE "ok"
        /\ UNCHANGED <<searchVars, sessionVars, op, by, cancelled, saved, events, bound,
                       used, sealed, captured, runVars>>
    BY <1>2 DEF Finish, MayWrite
  <2>2. outcome \in {"succeeded", "failed", "cancelled"} /\ (outcome = "cancelled" => cancelled)
    BY <1>0, <2>1 DEF JudgementOK
  <2>3. TypeOK'
    BY <1>0, <2>1, <2>2 DEF TypeOK, sessionVars, searchVars, runVars
  <2>4. CallOK' /\ JudgementOK'
    BY <1>0, <2>1, <2>2 DEF CallOK, JudgementOK, Searched, searchVars, runVars
  <2>. QED
    BY <1>1, <2>3, <2>4, CallLeaves
<1>3. CASE Break
  <2>0. bound' \in BOOLEAN
    <3>1. bound' = FALSE
      BY <1>3 DEF Break
    <3>. QED
      BY <3>1, Zenon
  <2>1. TypeOK'
    BY <1>0, <1>3, <2>0 DEF Break, TypeOK, sessionVars, searchVars, activity, runVars
  <2>2. CallOK' /\ JudgementOK'
    BY <1>0, <1>3
    DEF Break, CallOK, JudgementOK, Searched, searchVars, activity, runVars
  <2>. QED
    BY <1>1, <2>1, <2>2, CallLeaves
<1>4. CASE FinishUnacknowledged
  <2>1. /\ pc = "finishing" /\ state' = outcome /\ pc' = "failing" /\ bound' = FALSE
        /\ outcome \in {"succeeded", "failed", "cancelled"} /\ result = "none"
        /\ UNCHANGED <<searchVars, sessionVars, op, by, cancelled, saved, events, result,
                       used, sealed, captured, runVars>>
    BY <1>0, <1>4 DEF FinishUnacknowledged, CallOK, JudgementOK
  <2>0. bound' \in BOOLEAN
    BY <2>1, Zenon
  <2>2. TypeOK'
    BY <1>0, <2>0, <2>1 DEF TypeOK, sessionVars, searchVars, runVars
  <2>3. CallOK' /\ JudgementOK'
    BY <1>0, <2>1 DEF CallOK, JudgementOK, Searched, searchVars, runVars
  <2>. QED
    BY <1>1, <2>2, <2>3, CallLeaves
<1>5. CASE FinishFailed
  <2>1. TypeOK'
    BY <1>0, <1>5 DEF FinishFailed, TypeOK, sessionVars, searchVars, runVars
  <2>2. CallOK' /\ JudgementOK'
    BY <1>0, <1>5 DEF FinishFailed, CallOK, JudgementOK, Searched, searchVars, runVars
  <2>. QED
    BY <1>1, <2>1, <2>2, CallLeaves
<1>6. CASE FinishRefused
  <2>1. pc = "failing" /\ ~bound /\ left' = IF MayWrite THEN "unfinished" ELSE left
    BY <1>0, <1>6 DEF FinishRefused, CallOK
  <2>2. left' = IF state = "running" THEN "unfinished" ELSE left
    BY <2>1 DEF MayWrite, InTime
  <2>3. /\ pc' = "returned" /\ result' = "error"
        /\ UNCHANGED <<searchVars, sessionVars, op, by, cancelled, saved, events, bound,
                       activity, runErr, intact, altered, inputCheck, outcome>>
    BY <1>6 DEF FinishRefused
  <2>4. TypeOK'
    BY <1>0, <2>2, <2>3 DEF TypeOK, sessionVars, searchVars, activity
  <2>5. CallOK' /\ JudgementOK'
    BY <1>0, <2>1, <2>2, <2>3 DEF CallOK, JudgementOK, Searched, searchVars, activity
  <2>. QED
    BY <1>1, <2>4, <2>5, CallLeaves
<1>. QED
  BY <1>2, <1>3, <1>4, <1>5, <1>6

LEMMA OtherCalls ==
    ASSUME IInv, Select \/ Scan \/ Scanned \/ SaveSearch \/ RecordCustodyTransfer
    PROVE  IInv'
<1> USE DEF Unbegun, Preparing, Working, Late, Steps, Ends, Goto, Return, recordVars, activity,
            runVars
<1>0. TypeOK /\ CallOK /\ JudgementOK /\ ScanOK /\ CloseOK
  BY DEF IInv
<1>1. CASE Select \/ Scanned
  <2>1. TypeOK' /\ UNCHANGED sessionVars /\ UNCHANGED searchVars
    BY <1>0, <1>1 DEF Select, Scanned, TypeOK, sessionVars, searchVars
  <2>2. CallOK' /\ JudgementOK'
    BY <1>0, <1>1 DEF Select, Scanned, CallOK, JudgementOK, Searched, searchVars
  <2>. QED
    BY <2>1, <2>2, CallLeaves
<1>2. CASE Scan
  <2>1. /\ pc = "searching" /\ SearchNext
        /\ UNCHANGED <<sessionVars, callVars, recordVars, runVars>>
    BY <1>2 DEF Scan
  <2>2. saved = <<>>
    BY <1>0, <2>1 DEF CallOK
  <2>3. TypeOK' /\ CallOK' /\ JudgementOK' /\ CloseOK'
    BY <1>0, <2>1, <2>2 DEF TypeOK, CallOK, JudgementOK, CloseOK, sessionVars, callVars
  <2>4. ScanOK'
    BY <1>0, <2>1, MatchStep, NextPlaceStep DEF SearchNext
  <2>. QED
    BY <2>3, <2>4 DEF IInv
<1>3. CASE SaveSearch \/ RecordCustodyTransfer
  <2>0. events' \in 0..1 /\ sealed' \in BOOLEAN
    <3>1. sealed' = TRUE /\ (events' = events \/ events' = 0 + 1) /\ events \in 0..1
      BY <1>0, <1>3 DEF SaveSearch, RecordCustodyTransfer, CallOK, TypeOK
    <3>2. sealed' \in BOOLEAN
      BY <3>1, Zenon
    <3>. QED
      BY <3>1, <3>2
  <2>1. TypeOK' /\ UNCHANGED sessionVars /\ UNCHANGED searchVars
    BY <1>0, <1>3, <2>0 DEF SaveSearch, RecordCustodyTransfer, TypeOK, sessionVars, searchVars
  <2>2. CallOK' /\ JudgementOK'
    BY <1>0, <1>3
    DEF SaveSearch, RecordCustodyTransfer, CallOK, JudgementOK, Searched, searchVars
  <2>. QED
    BY <2>1, <2>2, CallLeaves
<1>. QED
  BY <1>1, <1>2, <1>3

LEMMA NextIInv == IInv /\ [Next]_vars => IInv'
  BY SessionStep, WorldStep, BeginCall, PrepareStep, JudgeStep, EndStep, OtherCalls
  DEF Next, CallWork, Experiment
----------------------------------------------------------------------------
\* What the scan has left behind it.

\* The scan is past offset p of member m.
Past(m, p) == m < member \/ (m = member /\ p < base + Chunk /\ (p < base \/ p < off))

\* An occurrence in the context before the chunk: it takes a match from the chunk.
Crowded == \E q \in ReadStart(base)..(base - 1) : OccursAt(member, q)

\* A chunk begins at b.
Begins(b) == \E k \in Nat : b = Chunk * k

\* Every occurrence that the scan is past is a hit or explained; and the matches of a
\* buffer are the hits of its chunk, unless one of them lies before or behind it.
MissesOK ==
    /\ pc = "idle" => member = 1 /\ base = 0 /\ off = 0
    /\ Begins(base) /\ ReadStart(base) <= off
    /\ \A m \in 1..Len(search.members) : \A p \in 0..Size(m) :
           OccursAt(m, p) /\ Past(m, p) => IsHit(m, p) \/ Explained(m, p)
    /\ Len(hits) + (room - matches) = search.limit \/ Crowded \/ base + Chunk <= off

\* The chunk of an offset, and the next one.
LEMMA ChunkOfIs ==
    ASSUME NEW b \in Nat, Begins(b), NEW p \in Nat, b <= p, p < b + Chunk
    PROVE  ChunkOf(p) = b
<1>1. PICK k \in Nat : b = Chunk * k
  BY DEF Begins
<1>2. p \div Chunk = k
  BY <1>1, SMTT(30)
<1>. QED
  BY <1>1, <1>2 DEF ChunkOf

LEMMA NextBegins ==
    ASSUME NEW b \in Nat, Begins(b)
    PROVE  Begins(b + Chunk)
<1>1. PICK k \in Nat : b = Chunk * k
  BY DEF Begins
<1>2. b + Chunk = Chunk * (k + 1) /\ k + 1 \in Nat
  BY <1>1
<1>. QED
  BY <1>2 DEF Begins

LEMMA FirstBegins == Begins(0)
<1>1. 0 = Chunk * 0
  OBVIOUS
<1>. QED
  BY <1>1 DEF Begins

LEMMA InitMisses == Init => MissesOK
<1> SUFFICES ASSUME Init PROVE MissesOK
  OBVIOUS
<1>1. /\ member = 1 /\ base = 0 /\ off = 0 /\ room = 1 /\ matches = 0 /\ hits = <<>>
      /\ search.members = <<>> /\ search.limit = 1 /\ search.context = 0
  BY DEF Init, SearchFor, NoSearch
<1>2. Begins(0) /\ Len(hits) = 0 /\ Len(search.members) = 0
  BY <1>1, FirstBegins
<1>. QED
  BY <1>1, <1>2 DEF MissesOK, ReadStart, SmallerOf

\* The types of what a step of the scan touches.
LEMMA ScanTypes ==
    ASSUME ScanOK, member <= Len(search.members)
    PROVE  /\ Width \in Nat \ {0} /\ search.context \in Nat /\ search.limit \in Nat \ {0}
           /\ member \in 1..Len(search.members) /\ Len(search.members) \in Nat
           /\ \A m \in 1..Len(search.members) : Size(m) \in Nat
           /\ base \in Nat /\ off \in Nat /\ room \in Nat /\ matches \in Nat
           /\ Len(hits) \in Nat /\ hits \in Seq(HitRecords)
<1>1. /\ search.context \in Nat /\ search.limit \in Nat \ {0}
      /\ search.members \in Seq(Seq(Nat)) /\ search.literal \in Seq(Nat) /\ search.literal # <<>>
      /\ member \in Nat \ {0} /\ base \in Nat /\ off \in Nat /\ hits \in Seq(HitRecords)
      /\ room \in Nat /\ matches \in Nat
  BY DEF ScanOK, PlaceOK, IsSearch
<1>2. Width \in Nat \ {0}
  BY <1>1 DEF Width
<1>3. ASSUME NEW m \in 1..Len(search.members) PROVE Size(m) \in Nat
  <2>1. search.members[m] \in Seq(Nat)
    BY <1>1
  <2>. QED
    BY <2>1 DEF Size
<1>4. member \in 1..Len(search.members) /\ Len(search.members) \in Nat
  BY <1>1
<1>5. Len(hits) \in Nat
  BY <1>1
<1>. QED
  BY <1>1, <1>2, <1>3, <1>4, <1>5, Zenon

\* An occurrence of the chunk that the scan is not past is still to be found.
LEMMA StillMatching ==
    ASSUME ScanOK, Reading, NEW p \in 0..Size(member), OccursAt(member, p),
           p < base + Chunk, off <= p
    PROVE  p \in Matching
<1>1. member <= Len(search.members)
  BY DEF Reading
<1>2. p + Width <= Size(member) /\ p \in Nat
  <2>1. Size(member) \in Nat /\ Width \in Nat
    BY <1>1, ScanTypes
  <2>2. p \in 0..(Size(member) - Width)
    BY DEF OccursAt
  <2>. QED
    BY <2>1, <2>2
<1>3. p + Width <= base + Chunk + (Width - 1) + search.context
  <2>1. Width \in Nat /\ base \in Nat /\ search.context \in Nat
    BY <1>1, ScanTypes
  <2>. QED
    BY <1>2, <2>1
<1>4. ReadEnd(member, base) \in Nat /\ p + Width <= ReadEnd(member, base)
  <2>1. Size(member) \in Nat /\ Width \in Nat /\ base \in Nat /\ search.context \in Nat
    BY <1>1, ScanTypes
  <2>. QED
    BY <1>2, <1>3, <2>1 DEF ReadEnd, SmallerOf
<1>. QED
  BY <1>1, ScanTypes, <1>2, <1>4 DEF Matching

\* A match adds its hit at the end, if it begins in the chunk.
LEMMA MatchHits ==
    ASSUME ScanOK, Match
    PROVE  \E p \in Matching :
               /\ p \in Nat /\ off <= p /\ OccursAt(member, p)
               /\ \A q \in Matching : p <= q
               /\ off' = p + Width
               /\ \A i \in 1..Len(hits) : i \in 1..Len(hits') /\ hits'[i] = hits[i]
               /\ InChunk(p) => Len(hits') = Len(hits) + 1 /\ IsHit(member, p)'
               /\ ~InChunk(p) => hits' = hits
<1>1. PICK p \in Matching :
          /\ \A q \in Matching : p <= q
          /\ off' = p + Width
          /\ hits' = IF InChunk(p) THEN Append(hits, Hit(p)) ELSE hits
  BY DEF Match
<1>2. member <= Len(search.members) /\ member' = member
  BY DEF Match, Reading
<1>3. /\ ReadEnd(member, base) \in Nat /\ ReadStart(base) \in Nat
      /\ Size(member) \in Nat /\ Width \in Nat /\ search.context \in Nat /\ member \in Nat
  <2>1. /\ Size(member) \in Nat /\ Width \in Nat \ {0} /\ search.context \in Nat
        /\ member \in Nat /\ base \in Nat
    BY <1>2, ScanTypes
  <2>. QED
    BY <2>1 DEF ReadEnd, ReadStart, SmallerOf
<1>4. p \in Nat /\ off <= p /\ OccursAt(member, p)
  BY <1>1, <1>2, <1>3, ScanTypes DEF Matching
<1>5. Hit(p) \in HitRecords /\ Hit(p).member = member /\ Hit(p).offset = p
  BY <1>3, <1>4 DEF Hit, HitRecords, LargerOf, SmallerOf
<1>6. /\ \A i \in 1..Len(hits) : i \in 1..Len(hits') /\ hits'[i] = hits[i]
      /\ InChunk(p) => Len(hits') = Len(hits) + 1 /\ hits'[Len(hits) + 1] = Hit(p)
  <2>1. Len(hits) \in Nat /\ hits \in Seq(HitRecords)
    BY <1>2, ScanTypes
  <2>. QED
    BY <1>1, <1>5, <2>1
<1>7. ASSUME InChunk(p) PROVE IsHit(member, p)'
  <2>1. Len(hits) \in Nat
    BY <1>2, ScanTypes
  <2>2. Len(hits) + 1 \in 1..Len(hits')
    BY <1>6, <1>7, <2>1
  <2>3. hits'[Len(hits) + 1].member = member' /\ hits'[Len(hits) + 1].offset = p
    BY <1>2, <1>5, <1>6, <1>7
  <2>. QED
    BY <2>2, <2>3 DEF IsHit
<1>. QED
  BY <1>1, <1>4, <1>6, <1>7

\* The scan stays among the natural numbers.
LEMMA OffType ==
    ASSUME ScanOK, NextChunk \/ NextMember
    PROVE  off' \in Nat
  BY NextPlaceStep DEF ScanOK, PlaceOK

LEMMA MatchMisses ==
    ASSUME ScanOK, MissesOK, Match, pc # "idle", pc' = pc
    PROVE  MissesOK'
<1>1. PICK p \in Matching :
          /\ p \in Nat /\ off <= p /\ OccursAt(member, p)
          /\ \A q \in Matching : p <= q
          /\ off' = p + Width
          /\ \A i \in 1..Len(hits) : i \in 1..Len(hits') /\ hits'[i] = hits[i]
          /\ InChunk(p) => Len(hits') = Len(hits) + 1 /\ IsHit(member, p)'
          /\ ~InChunk(p) => hits' = hits
  BY MatchHits
<1>2. /\ UNCHANGED <<search, member, base, room>> /\ matches' = matches + 1
      /\ Reading /\ member <= Len(search.members)
  BY DEF Match, Reading
<1>3. /\ Width \in Nat \ {0} /\ search.context \in Nat /\ search.limit \in Nat
      /\ member \in 1..Len(search.members) /\ Len(search.members) \in Nat
      /\ Size(member) \in Nat /\ base \in Nat /\ off \in Nat /\ room \in Nat /\ matches \in Nat
      /\ Len(hits) \in Nat
  BY <1>2, ScanTypes
<1>4. /\ ReadStart(base)' = ReadStart(base) /\ Width' = Width /\ Crowded' = Crowded
      /\ ReadStart(base) \in Nat /\ ReadStart(base) <= off /\ Begins(base)
  <2>1. ReadStart(base)' = ReadStart(base) /\ Width' = Width
    BY <1>2 DEF ReadStart, Width
  <2>2. Crowded' = Crowded
    BY <1>2, <2>1 DEF Crowded, OccursAt, Size
  <2>3. ReadStart(base) \in Nat
    BY <1>3 DEF ReadStart, SmallerOf
  <2>. QED
    BY <2>1, <2>2, <2>3 DEF MissesOK
<1>5. ~InChunk(p) => Crowded \/ base + Chunk <= off'
  BY <1>1, <1>3, <1>4 DEF InChunk, Crowded
<1>6. Len(hits') + (room' - matches') = search.limit' \/ Crowded' \/ base' + Chunk <= off'
  BY <1>1, <1>2, <1>3, <1>4, <1>5 DEF MissesOK
<1>7. ASSUME NEW m, NEW q, IsHit(m, q) \/ Explained(m, q)
      PROVE  (IsHit(m, q) \/ Explained(m, q))'
  <2>1. ASSUME NEW o, IsHit(m, o) PROVE IsHit(m, o)'
    BY <1>1, <2>1 DEF IsHit
  <2>2. Explained(m, q) => Explained(m, q)'
    BY <1>2, <2>1 DEF Explained, Hides, Width, ReadStart, OccursAt, Size
  <2>. QED
    BY <1>7, <2>1, <2>2
<1>8. ASSUME NEW m \in 1..Len(search.members), NEW q \in 0..Size(m),
             OccursAt(m, q), Past(m, q)'
      PROVE  (IsHit(m, q) \/ Explained(m, q))'
  <2>1. CASE Past(m, q)
    BY <1>7, <1>8, <2>1 DEF MissesOK
  <2>2. CASE ~Past(m, q)
    <3>1. m = member /\ q \in Nat /\ base <= q /\ q < base + Chunk /\ off <= q /\ q < p + Width
      BY <1>1, <1>2, <1>3, <1>8, <2>2, ScanTypes DEF Past
    <3>2. q \in Matching
      BY <1>2, <1>8, <3>1, StillMatching
    <3>3. p <= q
      BY <1>1, <3>2
    <3>4. ChunkOf(q) = base
      BY <1>3, <1>4, <3>1, ChunkOfIs
    <3>5. CASE base <= p
      <4>1. InChunk(p) /\ IsHit(member, p)'
        BY <1>1, <1>3, <3>1, <3>3, <3>5 DEF InChunk
      <4>2. CASE p = q
        <5>1. IsHit(m, q)'
          BY <1>2, <3>1, <4>1, <4>2
        <5>. QED
          BY <5>1
      <4>3. CASE p # q
        <5>1. p \in base..(q - 1) /\ Hides(p, q)' /\ ChunkOf(q)' = base
          BY <1>1, <1>3, <1>4, <3>1, <3>3, <3>4, <3>5, <4>3 DEF Hides, ChunkOf
        <5>2. IsHit(m, p)'
          BY <1>2, <3>1, <4>1 DEF IsHit
        <5>3. Explained(m, q)'
          BY <5>1, <5>2 DEF Explained
        <5>. QED
          BY <5>3
      <4>. QED
        BY <4>2, <4>3
    <3>6. CASE p < base
      <4>1. p \in ReadStart(base)..(base - 1)
        BY <1>1, <1>3, <1>4, <3>6
      <4>2. Explained(m, q)
        BY <1>1, <3>1, <3>4, <4>1 DEF Explained
      <4>. QED
        BY <1>7, <4>2
    <3>. QED
      BY <1>1, <1>3, <3>5, <3>6
  <2>. QED
    BY <2>1, <2>2
<1>9. \A m \in 1..Len(search'.members) : \A q \in 0..Size(m)' :
          OccursAt(m, q)' /\ Past(m, q)' => (IsHit(m, q) \/ Explained(m, q))'
  BY <1>2, <1>8 DEF OccursAt, Size, Width
<1>10. Begins(base)' /\ ReadStart(base)' <= off'
  <2>1. Begins(base)'
    BY <1>2, <1>4, Zenon DEF Begins
  <2>. QED
    BY <1>1, <1>3, <1>4, <2>1
<1>. QED
  BY <1>6, <1>9, <1>10 DEF MissesOK

LEMMA PlaceMisses ==
    ASSUME ScanOK, MissesOK, NextChunk \/ NextMember, pc # "idle", pc' = pc
    PROVE  MissesOK'
<1>1. /\ UNCHANGED <<search, hits>> /\ room' = search.limit - Len(hits) /\ matches' = 0
      /\ member <= Len(search.members) /\ Len(hits) < search.limit
      /\ \/ Reading /\ (matches = room \/ Matching = {})
            /\ member' = member /\ base' = base + Chunk /\ off' = ReadStart(base')
         \/ ~(base < Size(member)) /\ member' = member + 1 /\ base' = 0 /\ off' = 0
  BY DEF NextChunk, NextMember, Reading
<1>2. /\ Width \in Nat \ {0} /\ search.context \in Nat /\ search.limit \in Nat
      /\ member \in 1..Len(search.members) /\ Len(search.members) \in Nat
      /\ \A m \in 1..Len(search.members) : Size(m) \in Nat
      /\ base \in Nat /\ off \in Nat /\ room \in Nat /\ matches \in Nat
      /\ Len(hits) \in Nat
  BY <1>1, ScanTypes
<1>3. Begins(base) /\ Begins(0) /\ Begins(base + Chunk)
  BY <1>2, FirstBegins, NextBegins DEF MissesOK
<1>4. Begins(base)' /\ ReadStart(base)' <= off' /\ base' \in Nat
  <2>1. base' = base + Chunk \/ base' = 0
    BY <1>1
  <2>2. Begins(base)'
    BY <1>3, <2>1 DEF Begins
  <2>3. base' \in Nat /\ off' \in Nat
    BY <1>2, <2>1, OffType
  <2>4. ReadStart(base)' <= off'
    <3>1. ReadStart(base)' = base' - SmallerOf(search.context, base')
      BY <1>1 DEF ReadStart
    <3>2. off' = ReadStart(base') \/ (base' = 0 /\ off' = 0)
      BY <1>1
    <3>3. CASE off' = ReadStart(base')
      BY <2>3, <3>1, <3>3 DEF ReadStart
    <3>4. CASE base' = 0 /\ off' = 0
      BY <1>2, <3>1, <3>4 DEF SmallerOf
    <3>. QED
      BY <3>2, <3>3, <3>4
  <2>. QED
    BY <2>2, <2>3, <2>4
<1>5. Len(hits') + (room' - matches') = search'.limit
  BY <1>1, <1>2
<1>6. ASSUME NEW m \in 1..Len(search.members), NEW q \in 0..Size(m), OccursAt(m, q), Past(m, q)'
      PROVE  IsHit(m, q) \/ Explained(m, q)
  <2>0. q \in Nat /\ m \in Nat
    BY <1>2
  <2>1. CASE Past(m, q)
    BY <1>6, <2>1 DEF MissesOK
  <2>2. CASE ~Past(m, q)
    <3>1. m = member /\ base <= q
      BY <1>1, <1>2, <1>6, <2>0, <2>2 DEF Past, ReadStart, SmallerOf
    <3>2. q < Size(member)
      BY <1>2, <1>6, <2>0, <3>1 DEF OccursAt
    <3>3. /\ Reading /\ (matches = room \/ Matching = {})
          /\ member' = member /\ base' = base + Chunk /\ off' = ReadStart(base')
      BY <1>1, <1>2, <2>0, <3>1, <3>2
    <3>4. ReadStart(base)' <= base + Chunk
      BY <1>1, <1>2, <3>3 DEF ReadStart, SmallerOf
    <3>5. q < base + Chunk
      <4>1. q < off' \/ q < base'
        BY <1>2, <1>6, <2>0, <3>1, <3>3 DEF Past
      <4>2. off' <= base + Chunk
        BY <1>1, <3>3, <3>4 DEF ReadStart, SmallerOf
      <4>. QED
        BY <1>2, <1>4, <2>0, <3>3, <4>1, <4>2, OffType
    <3>6. off <= q
      BY <1>2, <2>0, <2>2, <3>1, <3>5 DEF Past
    <3>7. q \in Matching
      BY <1>6, <3>1, <3>3, <3>5, <3>6, StillMatching
    <3>8. Len(hits) + (room - matches) # search.limit /\ ~(base + Chunk <= off)
      BY <1>1, <1>2, <2>0, <3>3, <3>5, <3>6, <3>7
    <3>9. Crowded
      BY <3>8 DEF MissesOK
    <3>10. ChunkOf(q) = base
      BY <1>2, <1>3, <2>0, <3>1, <3>5, ChunkOfIs
    <3>. QED
      BY <3>1, <3>9, <3>10 DEF Crowded, Explained
  <2>. QED
    BY <2>1, <2>2
<1>7. ASSUME NEW m, NEW q
      PROVE  /\ (OccursAt(m, q) <=> OccursAt(m, q)') /\ Size(m)' = Size(m)
             /\ (IsHit(m, q) <=> IsHit(m, q)') /\ (Explained(m, q) <=> Explained(m, q)')
  BY <1>1 DEF OccursAt, Size, Width, IsHit, Explained, Hides, ReadStart
<1>8. \A m \in 1..Len(search'.members) : \A q \in 0..Size(m)' :
          OccursAt(m, q)' /\ Past(m, q)' => (IsHit(m, q) \/ Explained(m, q))'
  BY <1>1, <1>6, <1>7
<1>. QED
  BY <1>4, <1>5, <1>8 DEF MissesOK

\* What does not move the scan.
LEMMA MissesStay ==
    ASSUME MissesOK, UNCHANGED searchVars, pc' # "idle" \/ pc' = pc
    PROVE  MissesOK'
<1>1. UNCHANGED <<search, member, base, room, matches, off, hits>>
  BY DEF searchVars
<1>2. ASSUME NEW m, NEW q
      PROVE  /\ (OccursAt(m, q) <=> OccursAt(m, q)') /\ Size(m)' = Size(m)
             /\ (IsHit(m, q) <=> IsHit(m, q)') /\ (Explained(m, q) <=> Explained(m, q)')
             /\ (Past(m, q) <=> Past(m, q)')
  BY <1>1 DEF OccursAt, Size, Width, IsHit, Explained, Hides, ReadStart, Past
<1>3. \A m \in 1..Len(search'.members) : \A q \in 0..Size(m)' :
          OccursAt(m, q)' /\ Past(m, q)' => (IsHit(m, q) \/ Explained(m, q))'
  BY <1>1, <1>2 DEF MissesOK
<1>4. Crowded => Crowded'
  <2>1. ASSUME NEW q \in ReadStart(base)..(base - 1), OccursAt(member, q) PROVE Crowded'
    <3>1. q \in (ReadStart(base)..(base - 1))'
      BY <1>1 DEF ReadStart
    <3>2. OccursAt(member, q)'
      BY <1>1, <2>1 DEF OccursAt, Size, Width
    <3>. QED
      BY <3>1, <3>2 DEF Crowded
  <2>. QED
    BY <2>1 DEF Crowded
<1>5. Begins(base)' /\ ReadStart(base)' <= off'
  BY <1>1 DEF MissesOK, Begins, ReadStart
<1>. QED
  BY <1>1, <1>3, <1>4, <1>5 DEF MissesOK

LEMMA MissesStep ==
    ASSUME IInv, MissesOK, [Next]_vars
    PROVE  MissesOK'
<1>0. ScanOK /\ CallOK
  BY DEF IInv
<1>1. CASE Scan
  <2>1. pc = "searching" /\ pc' = pc /\ SearchNext
    BY <1>1 DEF Scan, callVars
  <2>. QED
    BY <1>0, <2>1, MatchMisses, PlaceMisses DEF SearchNext
<1>2. CASE pc' # "idle" /\ UNCHANGED searchVars
  BY <1>2, MissesStay
<1>3. CASE pc' = pc /\ UNCHANGED searchVars
  BY <1>3, MissesStay
<1>4. ASSUME NEW h \in Handles, NEW o \in Asked, Call(h, o) PROVE MissesOK'
  <2>1. pc = "idle" /\ pc' # "idle" /\ hits = <<>> /\ matches = 0
    BY <1>0, <1>4 DEF Call, Goto, FirstStep, Operations, CallOK
  <2>2. CASE UNCHANGED searchVars
    BY <1>2, <2>1, <2>2
  <2>3. CASE search' \in Searches /\ room' = search'.limit
             /\ UNCHANGED <<member, base, matches, off, hits>>
    <3>1. /\ member' = 1 /\ base' = 0 /\ off' = 0 /\ hits' = <<>> /\ matches' = 0
          /\ search'.limit \in Nat /\ search'.context \in Nat /\ Len(hits') = 0
      BY <2>1, <2>3 DEF MissesOK, IsSearch
    <3>2. \A m \in 1..Len(search'.members) : \A q \in 0..Size(m)' : ~Past(m, q)'
      <4>1. search'.members \in Seq(Seq(Nat))
        BY <2>3 DEF IsSearch
      <4>2. ASSUME NEW m \in 1..Len(search'.members), NEW q \in 0..Size(m)' PROVE ~Past(m, q)'
        <5>1. search'.members[m] \in Seq(Nat)
          BY <4>1
        <5>2. q \in Nat
          BY <5>1 DEF Size
        <5>. QED
          BY <3>1, <5>2 DEF Past
      <4>. QED
        BY <4>2
    <3>3. Begins(base)' /\ ReadStart(base)' <= off'
      BY <3>1, FirstBegins DEF Begins, ReadStart, SmallerOf
    <3>. QED
      BY <2>1, <2>3, <3>1, <3>2, <3>3 DEF MissesOK
  <2>. QED
    BY <1>4, <2>2, <2>3 DEF Call
<1>5. CASE SessionWork \/ Alter \/ Interrupt \/ Cancel
  BY <1>3, <1>5
  DEF SessionWork, StartSession, Close, CloseRow, FailClose, Alter, Interrupt, Cancel, callVars
<1>6. CASE UNCHANGED vars
  BY <1>3, <1>6 DEF vars, callVars
<1>7. CASE Refuse \/ Crash \/ Select \/ Scanned \/ SaveSearch \/ RecordCustodyTransfer
  BY <1>2, <1>7
  DEF Refuse, Crash, Select, Scanned, SaveSearch, RecordCustodyTransfer, Goto, Return
<1>8. CASE Experiment
  <2>1. UNCHANGED searchVars
    BY <1>8
    DEF Experiment, Prepare, Materialize, BeginActivity, InsertActivity, LoadActivity, Use,
        SealInputs, RunCommand, Exit, Capture, Verify, Judge, Finish, Break,
        FinishUnacknowledged, FinishFailed, FinishRefused, Quiet
  <2>2. pc' # "idle"
    BY <1>8
    DEF Experiment, Prepare, Materialize, BeginActivity, InsertActivity, LoadActivity, Use,
        SealInputs, RunCommand, Exit, Capture, Verify, Judge, Finish, Break,
        FinishUnacknowledged, FinishFailed, FinishRefused, Goto, Return, Enter
  <2>. QED
    BY <1>2, <2>1, <2>2
<1>. QED
  BY <1>1, <1>4, <1>5, <1>6, <1>7, <1>8 DEF Next, CallWork

\* A search that is over is past everything.
LEMMA MissesImply ==
    ASSUME IInv, MissesOK
    PROVE  MissesAreExplained
<1> SUFFICES ASSUME Searched, Len(hits) < search.limit,
                    NEW m \in 1..Len(search.members), NEW p \in 0..Size(m), OccursAt(m, p)
             PROVE  IsHit(m, p) \/ Explained(m, p)
  BY DEF MissesAreExplained
<1>1. search.limit \in Nat /\ Len(hits) \in Nat /\ Len(search.members) \in Nat /\ member \in Nat
  <2>1. /\ search.limit \in Nat \ {0} /\ search.members \in Seq(Seq(Nat))
        /\ hits \in Seq(HitRecords) /\ member \in Nat \ {0}
    BY Zenon DEF IInv, ScanOK, PlaceOK, IsSearch
  <2>. QED
    BY <2>1
<1>2. m < member
  BY <1>1 DEF Searched
<1>. QED
  BY <1>2 DEF MissesOK, Past
----------------------------------------------------------------------------
(* Theorems. *)

\* The invariant above holds in every reachable state.
THEOREM IInvHolds == Spec => []IInv
  BY InitIInv, NextIInv, PTL DEF Spec

\* Every variable keeps its type.
THEOREM TypeCorrect == Spec => []TypeOK
<1>1. IInv => TypeOK
  BY DEF IInv
<1>. QED
  BY <1>1, IInvHolds, PTL

\* What the catalog says of an experiment is so, wherever its context ends, its
\* inputs are changed or recovery interrupts it (runner.go, RunExperiment).
THEOREM OutcomesAreTrue == Spec => []OutcomeIsTrue
  BY IInvHolds, IInvImplies, PTL

\* No call that returns leaves an activity running but by the two failures that it
\* cannot help (runner.go, the deferred Finish).
THEOREM RunsEnd == Spec => []RunsAreEnded
  BY IInvHolds, IInvImplies, PTL

\* A session that was closed stays so, for any number of handles (activity.go).
THEOREM ClosesAreKept == Spec => []CloseIsLostOnlyByFailure
  BY IInvHolds, IInvImplies, PTL

\* What is saved of a search are occurrences, each once and with its whole context,
\* for texts, literals, contexts and chunks of any size (search.go, SearchBytes).
THEOREM HitsAreTrue == Spec => []SavedHitsAreTrue
  BY IInvHolds, IInvImplies, PTL

\* What a search that did not reach its limit leaves out is hidden by a hit of its
\* chunk or was crowded out by the context before it, for texts, literals, contexts,
\* limits and chunks of any size (search.go, the loop around bytes.Index).
THEOREM MissesHold == Spec => []MissesAreExplained
<1>1. IInv /\ MissesOK /\ [Next]_vars => MissesOK'
  BY MissesStep
<1>2. IInv /\ MissesOK => MissesAreExplained
  BY MissesImply
<1>. QED
  BY InitMisses, IInvHolds, <1>1, <1>2, PTL DEF Spec

\* A search without context bytes misses nothing: what the documents say of every
\* search (NothingIsMissed) holds of these.
THEOREM BareSearchIsComplete == Spec => [](search.context = 0 => NothingIsMissed)
<1>1. ASSUME IInv, MissesAreExplained, search.context = 0
      PROVE  NothingIsMissed
  <2>. SUFFICES ASSUME Searched, Len(hits) < search.limit,
                       NEW m \in 1..Len(search.members), NEW p \in 0..Size(m), OccursAt(m, p)
                PROVE  \E i \in 1..Len(hits) :
                           /\ hits[i].member = m
                           /\ hits[i].offset < p + Width /\ p < hits[i].offset + Width
    BY DEF NothingIsMissed
  <2>1. search.members \in Seq(Seq(Nat)) /\ search.literal \in Seq(Nat) /\ search.literal # <<>>
    BY <1>1 DEF IInv, ScanOK, PlaceOK, IsSearch
  <2>2. search.members[m] \in Seq(Nat) /\ Width \in Nat \ {0}
    BY <2>1 DEF Width
  <2>3. p \in Nat
    BY <2>2 DEF Size
  <2>4. ChunkOf(p) \in Nat
    BY <2>3 DEF ChunkOf
  <2>5. ReadStart(ChunkOf(p)) = ChunkOf(p)
    BY <1>1, <2>4 DEF ReadStart, SmallerOf
  <2>6. IsHit(m, p) \/ \E q \in ChunkOf(p)..(p - 1) : IsHit(m, q) /\ Hides(q, p)
    <3>1. IsHit(m, p) \/ Explained(m, p)
      BY <1>1 DEF MissesAreExplained
    <3>2. ReadStart(ChunkOf(p))..(ChunkOf(p) - 1) = {}
      BY <2>4, <2>5
    <3>. QED
      BY <3>1, <3>2 DEF Explained
  <2>7. CASE IsHit(m, p)
    BY <2>2, <2>3, <2>7 DEF IsHit
  <2>8. ASSUME NEW q \in ChunkOf(p)..(p - 1), IsHit(m, q), Hides(q, p)
        PROVE  \E i \in 1..Len(hits) :
                   /\ hits[i].member = m
                   /\ hits[i].offset < p + Width /\ p < hits[i].offset + Width
    <3>1. q \in Nat /\ q < p + Width /\ p < q + Width
      BY <2>2, <2>3, <2>4, <2>8 DEF Hides
    <3>. QED
      BY <2>8, <3>1 DEF IsHit
  <2>. QED
    BY <2>6, <2>7, <2>8
<1>. QED
  BY <1>1, IInvHolds, MissesHold, PTL
=============================================================================
