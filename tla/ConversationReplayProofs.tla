---------------------- MODULE ConversationReplayProofs ----------------------
(***************************************************************************)
(* What a surface that has just subscribed is shown, for any number of     *)
(* chunks, turns, subscriptions, demands, stale flights and attempts.      *)
(***************************************************************************)
EXTENDS ConversationReplay, FiniteSetTheorems, SequenceTheorems, TLAPS

Slot == [at : Stages, from : Chunks, upto : Chunks, seq : Nat, read : Chunks,
         tries : 0 .. MAX_ATTEMPTS, crossed : BOOLEAN]
CallsOK == call \in [Callers -> Slot]

LEMMA TypeSlots == TypeOK => CallsOK
BY DEF TypeOK, CallsOK, Slot

LEMMA Numbers == MAX_CHUNKS \in Nat /\ 0 \in Chunks /\ Chunks \subseteq Nat /\ MAX_ATTEMPTS \in Nat \ {0}
BY BoundsAssumption DEF Chunks

LEMMA BlankSlot ==
    /\ Blank \in Slot
    /\ Blank.at = "idle" /\ Blank.from = 0 /\ Blank.upto = 0 /\ Blank.seq = 0 /\ Blank.read = 0
    /\ Blank.tries = 0 /\ Blank.crossed = FALSE
BY Numbers DEF Blank, Slot, Stages

\* What a slot keeps when its stage, or its crossing, is set.
LEMMA StageSet ==
    ASSUME NEW r \in Slot, NEW s \in Stages
    PROVE  LET t == [r EXCEPT !.at = s] IN
           /\ t \in Slot /\ t.at = s /\ t.from = r.from /\ t.upto = r.upto /\ t.seq = r.seq /\ t.read = r.read
           /\ t.tries = r.tries /\ t.crossed = r.crossed
BY DEF Slot

-----------------------------------------------------------------------------
(* What a step does to the demands under way.                              *)

\* d goes on as it was, or crossed.
Like(d) ==
    /\ call'[d].at = call[d].at /\ call'[d].from = call[d].from /\ call'[d].upto = call[d].upto
    /\ call'[d].seq = call[d].seq /\ call'[d].read = call[d].read /\ call'[d].tries = call[d].tries
    /\ call[d].crossed => call'[d].crossed

\* c is at r, and the others go on; those routing are crossed in the second case.
Moved(c, r) ==
    /\ CallsOK' /\ call'[c] = r
    /\ \A d \in Callers \ {c} : call'[d] = call[d]
Pushed(c, r) ==
    /\ CallsOK' /\ call'[c] = r
    /\ \A d \in Callers \ {c} : Like(d) /\ (call[d].at \in Routing => call'[d].crossed)

LEMMA MoveIs ==
    ASSUME CallsOK, NEW c \in Callers, NEW r \in Slot, call' = [call EXCEPT ![c] = r]
    PROVE  Moved(c, r)
BY DEF CallsOK, Moved

LEMMA Crossed ==
    ASSUME NEW r \in Slot
    PROVE  LET t == [r EXCEPT !.crossed = TRUE] IN
           /\ t \in Slot /\ t.at = r.at /\ t.from = r.from /\ t.upto = r.upto /\ t.seq = r.seq /\ t.read = r.read
           /\ t.tries = r.tries /\ t.crossed
BY DEF Slot

LEMMA CrossingIs ==
    ASSUME CallsOK, NEW S, call' = Crossing(S)
    PROVE  CallsOK' /\ \A d \in Callers : Like(d) /\ (call[d].at \in S => call'[d].crossed)
<1>1. ASSUME NEW d \in Callers
      PROVE  /\ call[d] \in Slot
             /\ call'[d] = IF call[d].at \in S THEN [call[d] EXCEPT !.crossed = TRUE] ELSE call[d]
  BY DEF Crossing, CallsOK
<1>2. ASSUME NEW d \in Callers
      PROVE  call'[d] \in Slot /\ Like(d) /\ (call[d].at \in S => call'[d].crossed)
  BY <1>1, Crossed DEF Like
<1>3. call' = [d \in Callers |-> call'[d]]
  BY DEF Crossing
<1> QED
  BY <1>2, <1>3 DEF CallsOK

LEMMA PushIs ==
    ASSUME CallsOK, NEW c \in Callers, NEW r \in Slot, call' = [CrossedBy(c) EXCEPT ![c] = r]
    PROVE  Pushed(c, r)
<1>1. ASSUME NEW d \in Callers \ {c}
      PROVE  /\ call[d] \in Slot
             /\ call'[d] = IF call[d].at \in Routing THEN [call[d] EXCEPT !.crossed = TRUE] ELSE call[d]
  BY DEF CrossedBy, CallsOK
<1>2. ASSUME NEW d \in Callers \ {c}
      PROVE  call'[d] \in Slot /\ Like(d) /\ (call[d].at \in Routing => call'[d].crossed)
  <2>1. CASE call[d].at \in Routing
    <3>1. call[d] \in Slot /\ call'[d] = [call[d] EXCEPT !.crossed = TRUE]
      BY <1>1, <2>1
    <3> QED
      BY <2>1, <3>1, Crossed DEF Like
  <2>2. CASE call[d].at \notin Routing
    BY <1>1, <2>2 DEF Like
  <2> QED
    BY <2>1, <2>2
<1>3. call'[c] = r /\ call' = [d \in Callers |-> call'[d]]
  BY DEF CrossedBy
<1> QED
  BY <1>2, <1>3 DEF CallsOK, Pushed

\* Where each of a demand's steps leaves it.
LEMMA DemandAt ==
    ASSUME CallsOK, NEW c \in Callers, Demand(c)
    PROVE  IF Joins THEN UNCHANGED call ELSE Moved(c, [call[c] EXCEPT !.at = "tail"])
<1>1. call[c] \in Slot /\ "tail" \in Stages
  BY DEF CallsOK, Stages
<1>2. ~Joins => call' = [call EXCEPT ![c] = [call[c] EXCEPT !.at = "tail"]]
  BY DEF Demand, CallsOK
<1> QED
  BY <1>1, <1>2, StageSet, MoveIs DEF Demand

LEMMA ReadTailAt ==
    ASSUME TypeOK, NEW c \in Callers, ReadTail(c), call[c].tries < MAX_ATTEMPTS
    PROVE  \E r \in Slot : /\ Moved(c, r) /\ r.at = "transcript" /\ r.from = committed /\ r.upto = printed
                           /\ r.seq = (IF on THEN seq ELSE 0) /\ r.tries = call[c].tries + 1
                           /\ r.crossed <=> queue # <<>>
<1> DEFINE k == IF on THEN seq ELSE 0
           x == queue # <<>>
           t == call[c].tries + 1
           r == [Blank EXCEPT !.at = "transcript", !.from = committed, !.upto = printed,
                              !.seq = k, !.tries = t, !.crossed = x]
<1>1. call[c] \in Slot /\ CallsOK
  BY TypeSlots DEF CallsOK
<1>2. t \in 0 .. MAX_ATTEMPTS /\ k \in Nat /\ x \in BOOLEAN
  BY <1>1, Numbers DEF Slot, TypeOK
<1>3. call' = [call EXCEPT ![c] = r]
  BY DEF ReadTail
<1> HIDE DEF k, x, t
<1>4. /\ r \in Slot /\ r.at = "transcript" /\ r.from = committed /\ r.upto = printed
      /\ r.seq = k /\ r.tries = t /\ r.crossed = x
  BY <1>2, Numbers DEF TypeOK, Blank, Slot, Stages, Reading
<1> HIDE DEF r
<1>5. Moved(c, r)
  BY <1>1, <1>3, <1>4, MoveIs
<1> QED
  BY <1>4, <1>5 DEF k, x, t

LEMMA ReadTranscriptAt ==
    ASSUME TypeOK, NEW c \in Callers, ReadTranscript(c)
    PROVE  \E r \in Slot : /\ Moved(c, r) /\ r.at = "check" /\ r.read = flushed
                           /\ r.from = call[c].from /\ r.upto = call[c].upto /\ r.seq = call[c].seq
                           /\ r.tries = call[c].tries /\ r.crossed = call[c].crossed
<1> DEFINE r == [call[c] EXCEPT !.at = "check", !.read = flushed]
<1>1. call[c] \in Slot /\ CallsOK
  BY TypeSlots DEF CallsOK
<1>2. /\ r \in Slot /\ r.at = "check" /\ r.read = flushed
      /\ r.from = call[c].from /\ r.upto = call[c].upto /\ r.seq = call[c].seq
      /\ r.tries = call[c].tries /\ r.crossed = call[c].crossed
  BY <1>1 DEF Slot, Stages, Reading, TypeOK
<1>3. call' = [call EXCEPT ![c] = r]
  BY <1>1 DEF ReadTranscript, CallsOK
<1> HIDE DEF r
<1> QED
  BY <1>1, <1>2, <1>3, MoveIs

LEMMA CheckSeqAt ==
    ASSUME TypeOK, NEW c \in Callers, CheckSeq(c)
    PROVE  \E r \in Slot :
             /\ Moved(c, r)
             /\ \/ /\ Unmoved(call[c]) /\ r.at = "start" /\ r.tries = 0 /\ r.from = call[c].from
                   /\ r.upto = call[c].upto /\ r.read = call[c].read
                   /\ r.crossed <=> call[c].crossed \/ Ahead(call[c])
                \/ r.at = "tail" /\ r.tries < MAX_ATTEMPTS
                \/ r.at = "start" /\ r.tries = 0 /\ r.crossed
<1>1. call[c] \in Slot /\ CallsOK
  BY TypeSlots DEF CallsOK
<1>2. {"start", "tail"} \subseteq Stages /\ 0 \in 0 .. MAX_ATTEMPTS /\ 0 \in Nat
  BY Numbers DEF Stages, Routing
<1>3. CASE Unmoved(call[c])
  <2> DEFINE r == [call[c] EXCEPT !.at = "start", !.seq = 0, !.tries = 0, !.crossed = @ \/ Ahead(call[c])]
  <2>0. (call[c].crossed \/ Ahead(call[c])) \in BOOLEAN
    BY <1>1 DEF Slot
  <2>1. /\ r \in Slot /\ r.at = "start" /\ r.tries = 0 /\ r.from = call[c].from
        /\ r.upto = call[c].upto /\ r.read = call[c].read
        /\ r.crossed = (call[c].crossed \/ Ahead(call[c]))
    BY <1>1, <1>2, <2>0 DEF Slot
  <2>2. call' = [call EXCEPT ![c] = r]
    BY <1>3 DEF CheckSeq
  <2> HIDE DEF r
  <2> QED
    BY <1>1, <1>3, <2>1, <2>2, MoveIs
<1>4. CASE ~Unmoved(call[c]) /\ call[c].tries < MAX_ATTEMPTS
  <2> DEFINE r == [call[c] EXCEPT !.at = "tail"]
  <2>1. r \in Slot /\ r.at = "tail" /\ r.tries < MAX_ATTEMPTS
    BY <1>1, <1>2, <1>4, StageSet
  <2>2. call' = [call EXCEPT ![c] = r]
    BY <1>4 DEF CheckSeq
  <2> HIDE DEF r
  <2> QED
    BY <1>1, <2>1, <2>2, MoveIs
<1>5. CASE ~Unmoved(call[c]) /\ ~(call[c].tries < MAX_ATTEMPTS)
  <2> DEFINE r == [Blank EXCEPT !.at = "start", !.from = flushed, !.upto = flushed, !.read = flushed, !.crossed = TRUE]
  <2>1. r \in Slot /\ r.at = "start" /\ r.tries = 0 /\ r.crossed
    BY <1>2 DEF Blank, Slot, TypeOK
  <2>2. call' = [call EXCEPT ![c] = r]
    BY <1>5 DEF CheckSeq
  <2> HIDE DEF r
  <2> QED
    BY <1>1, <2>1, <2>2, MoveIs
<1> QED
  BY <1>3, <1>4, <1>5

LEMMA PushStartAt ==
    ASSUME CallsOK, NEW c \in Callers, PushStart(c)
    PROVE  Pushed(c, [call[c] EXCEPT !.at = "body"])
<1>1. call[c] \in Slot /\ "body" \in Stages
  BY DEF CallsOK, Stages, Routing
<1>2. CrossedBy(c)[c] = call[c]
  BY DEF CrossedBy
<1>3. call' = [CrossedBy(c) EXCEPT ![c] = [call[c] EXCEPT !.at = "body"]]
  BY <1>2 DEF PushStart, CrossedBy
<1> QED
  BY <1>1, <1>3, StageSet, PushIs

LEMMA PushBodyAt ==
    ASSUME CallsOK, NEW c \in Callers, PushBody(c)
    PROVE  Pushed(c, [call[c] EXCEPT !.at = "end"])
<1>1. call[c] \in Slot /\ "end" \in Stages
  BY DEF CallsOK, Stages, Routing
<1>2. CrossedBy(c)[c] = call[c]
  BY DEF CrossedBy
<1>3. call' = [CrossedBy(c) EXCEPT ![c] = [call[c] EXCEPT !.at = "end"]]
  BY <1>2 DEF PushBody, CrossedBy
<1> QED
  BY <1>1, <1>3, StageSet, PushIs

LEMMA PushEndAt ==
    ASSUME CallsOK, NEW c \in Callers, PushEnd(c)
    PROVE  IF flight.there /\ flight.rerun THEN Pushed(c, [Blank EXCEPT !.at = "tail"]) ELSE Pushed(c, Blank)
<1>1. [Blank EXCEPT !.at = "tail"] \in Slot /\ Blank \in Slot
  BY BlankSlot, StageSet DEF Stages
<1> QED
  BY <1>1, PushIs DEF PushEnd

LEMMA StopsAt ==
    ASSUME CallsOK, NEW c \in Callers, Fail(c) \/ Cancel(c)
    PROVE  Moved(c, Blank)
BY BlankSlot, MoveIs DEF Fail, Cancel

-----------------------------------------------------------------------------
(* Types.                                                                  *)

\* A replay that is to read has a reading left.
TriesOK == \A c \in Callers : call[c].at \in {"idle", "tail"} => call[c].tries < MAX_ATTEMPTS

\* TypeOK but for the demands, in parts.
EngineTypes ==
    /\ on \in BOOLEAN /\ active \in BOOLEAN /\ busy \in BOOLEAN /\ seq \in Nat /\ turns \in 0 .. MAX_TURNS
    /\ printed \in Chunks /\ flushed \in Chunks /\ committed \in Chunks
    /\ queue \in Seq(Chunks)
SurfaceTypes ==
    /\ opened \in 0 .. MAX_OPENED /\ watching \in BOOLEAN /\ shown \in Chunks \cup {GARBLED}
    /\ streaming \in BOOLEAN /\ full \in BOOLEAN /\ owner \in Callers \cup {NOBODY}
DemandTypes ==
    /\ starts \in 0 .. MAX_ASKED /\ stops \in 0 .. MAX_ASKED
    /\ flight \in [there : BOOLEAN, rerun : BOOLEAN, old : BOOLEAN]
HistoryTypes == stale \in 0 .. MAX_STALE /\ failed \in BOOLEAN /\ crossed \in BOOLEAN /\ slept \in BOOLEAN
RestOK == EngineTypes /\ SurfaceTypes /\ DemandTypes /\ HistoryTypes

LEMMA TypeParts == (TypeOK <=> RestOK /\ CallsOK) /\ (TypeOK' <=> RestOK' /\ CallsOK')
BY DEF TypeOK, RestOK, EngineTypes, SurfaceTypes, DemandTypes, HistoryTypes, CallsOK, Slot

LEMMA CallsKept ==
    ASSUME TypeOK, TriesOK, NEW c \in Callers, Replay(c)
    PROVE  CallsOK' /\ TriesOK'
<1>0. CallsOK /\ call[c] \in Slot
  BY TypeSlots DEF CallsOK
<1>1. ASSUME NEW r \in Slot, Moved(c, r) \/ Pushed(c, r), r.at \in {"idle", "tail"} => r.tries < MAX_ATTEMPTS
      PROVE  CallsOK' /\ TriesOK'
  BY <1>1 DEF TriesOK, Moved, Pushed, Like
<1>2. CASE Demand(c)
  <2>1. CASE Joins
    BY <1>0, <1>2, <2>1, DemandAt DEF TriesOK, CallsOK
  <2>2. CASE ~Joins
    <3>1. call[c].at = "idle" /\ "tail" \in Stages
      BY <1>2 DEF Demand, Stages
    <3> QED
      BY <1>0, <1>1, <1>2, <2>2, <3>1, DemandAt, StageSet DEF TriesOK
  <2> QED
    BY <2>1, <2>2
<1>3. CASE ReadTail(c)
  <2>1. call[c].tries < MAX_ATTEMPTS
    BY <1>3 DEF ReadTail, TriesOK
  <2> QED
    BY <1>1, <1>3, <2>1, ReadTailAt
<1>4. CASE ReadTranscript(c)
  BY <1>1, <1>4, ReadTranscriptAt
<1>5. CASE CheckSeq(c)
  BY <1>1, <1>5, CheckSeqAt
<1>6. CASE PushStart(c)
  <2>1. "body" \in Stages
    BY DEF Stages, Routing
  <2> QED
    BY <1>0, <1>1, <1>6, <2>1, PushStartAt, StageSet
<1>7. CASE PushBody(c)
  <2>1. "end" \in Stages
    BY DEF Stages, Routing
  <2> QED
    BY <1>0, <1>1, <1>7, <2>1, PushBodyAt, StageSet
<1>8. CASE PushEnd(c)
  <2>1. "tail" \in Stages /\ 0 < MAX_ATTEMPTS
    BY Numbers DEF Stages
  <2>2. [Blank EXCEPT !.at = "tail"] \in Slot /\ [Blank EXCEPT !.at = "tail"].tries = 0
    BY <2>1, BlankSlot, StageSet
  <2>3. \E r \in Slot : Pushed(c, r) /\ r.tries = 0
    BY <1>0, <1>8, <2>2, PushEndAt, BlankSlot
  <2> QED
    BY <1>1, <2>1, <2>3
<1>9. CASE Fail(c) \/ Cancel(c)
  <2>1. 0 < MAX_ATTEMPTS
    BY Numbers
  <2> QED
    BY <1>0, <1>1, <1>9, <2>1, StopsAt, BlankSlot
<1> QED
  BY <1>2, <1>3, <1>4, <1>5, <1>6, <1>7, <1>8, <1>9 DEF Replay

LEMMA FlightTypes ==
    LET F == [there : BOOLEAN, rerun : BOOLEAN, old : BOOLEAN] IN
    /\ NoFlight \in F /\ [there |-> TRUE, rerun |-> FALSE, old |-> FALSE] \in F
    /\ flight \in F => Joined \in F /\ Joined.there = flight.there /\ Joined.rerun /\ Joined.old = flight.old
BY DEF NoFlight, Joined

LEMMA EngineKept == ASSUME TypeOK, [Next]_vars PROVE EngineTypes'
<1>0. EngineTypes
  BY TypeParts DEF RestOK
<1> USE DEF engine, EngineTypes
<1>1. CASE Submit
  BY <1>0, <1>1, BoundsAssumption DEF Submit
<1>2. CASE Chunk
  <2>1. printed + 1 \in Chunks
    BY <1>0, <1>2, Numbers DEF Chunk, Chunks
  <2>2. Append(queue, printed + 1) \in Seq(Chunks)
    BY <1>0, <2>1
  <2> QED
    BY <1>0, <1>2, <2>1, <2>2 DEF Chunk
<1>3. CASE Flush \/ Commit
  BY <1>0, <1>3 DEF Flush, Commit
<1>4. CASE TurnDone
  <2>1. DONE \in Chunks
    BY Numbers DEF DONE
  <2>2. Append(queue, DONE) \in Seq(Chunks)
    BY <1>0, <2>1
  <2>3. seq' \in Nat
    BY <1>0, <1>4 DEF TurnDone
  <2> QED
    BY <1>0, <1>4, <2>2, <2>3, Zenon DEF TurnDone
<1>5. CASE Route
  <2>1. Tail(queue) \in Seq(Chunks)
    BY <1>0, <1>5 DEF Route
  <2>2. busy' \in BOOLEAN
    BY <1>5 DEF Route
  <2> QED
    BY <1>0, <1>5, <2>1, <2>2 DEF Route
<1>6. CASE DemandStop
  BY <1>0, <1>6 DEF DemandStop
<1>7. ASSUME NEW c \in Callers, Demand(c) PROVE EngineTypes'
  <2>1. CASE on
    BY <1>0, <1>7, <2>1 DEF Demand, Ensure
  <2>2. CASE ~on
    <3>1. on' = TRUE /\ seq' = 1 /\ busy' = TRUE /\ UNCHANGED <<active, turns, printed, flushed, committed, queue>>
      BY <1>7, <2>2 DEF Demand, Ensure
    <3> QED
      BY <1>0, <3>1
  <2> QED
    BY <2>1, <2>2
<1>8. CASE UNCHANGED <<engine, queue>>
  BY <1>0, <1>8
<1> QED
  BY <1>1, <1>2, <1>3, <1>4, <1>5, <1>6, <1>7, <1>8
     DEF Next, EngineStep, SurfaceStep, Replay, vars, Open, Close, Show, Sweep, Age,
         ReadTail, ReadTranscript, CheckSeq, PushStart, PushBody, PushEnd, Fail, Cancel

LEMMA SurfaceKept == ASSUME TypeOK, [Next]_vars PROVE SurfaceTypes'
<1>0. SurfaceTypes /\ EngineTypes /\ CallsOK
  BY TypeParts DEF RestOK
<1>1. CASE Route
  <2>1. Head(queue) \in Chunks
    BY <1>0, <1>1 DEF Route, EngineTypes
  <2>2. Folded(Head(queue) - 1, Head(queue)) \in Chunks \cup {GARBLED}
    BY <1>0, <2>1 DEF Folded, SurfaceTypes
  <2>3. shown' \in Chunks \cup {GARBLED}
    BY <1>0, <1>1, <2>2 DEF Route, SurfaceTypes
  <2>4. streaming' \in BOOLEAN
    BY <1>0, <1>1 DEF Route, SurfaceTypes
  <2> QED
    BY <1>0, <1>1, <2>3, <2>4 DEF Route, SurfaceTypes
<1>2. CASE Open
  BY <1>0, <1>2, BoundsAssumption DEF Open, SurfaceTypes
<1>3. CASE Close
  BY <1>0, <1>3, Numbers DEF Close, SurfaceTypes
<1>4. ASSUME NEW c \in Callers, PushStart(c) PROVE SurfaceTypes'
  BY <1>0, <1>4, Numbers DEF PushStart, SurfaceTypes
<1>5. ASSUME NEW c \in Callers, PushBody(c) PROVE SurfaceTypes'
  <2>1. call[c].upto \in Chunks
    BY <1>0 DEF CallsOK, Slot
  <2>2. shown' \in Chunks \cup {GARBLED}
    BY <1>0, <1>5, <2>1 DEF PushBody, SurfaceTypes
  <2>3. streaming' \in BOOLEAN
    BY <1>0, <1>5 DEF PushBody, SurfaceTypes
  <2> QED
    BY <1>0, <1>5, <2>2, <2>3 DEF PushBody, SurfaceTypes
<1>6. ASSUME NEW c \in Callers, PushEnd(c) PROVE SurfaceTypes'
  <2>1. streaming' \in BOOLEAN
    <3>1. InFlight(call[c]) \in BOOLEAN
      BY DEF InFlight
    <3> QED
      BY <1>0, <1>6, <3>1 DEF PushEnd, SurfaceTypes
  <2>2. full' \in BOOLEAN
    BY <1>0, <1>6 DEF PushEnd, SurfaceTypes
  <2> QED
    BY <1>0, <1>6, <2>1, <2>2 DEF PushEnd, SurfaceTypes
<1>7. CASE UNCHANGED surface
  BY <1>0, <1>7 DEF SurfaceTypes, surface
<1> QED
  BY <1>1, <1>2, <1>3, <1>4, <1>5, <1>6, <1>7
     DEF Next, EngineStep, SurfaceStep, Replay, vars, Submit, Chunk, Flush, Commit, TurnDone,
         Show, Sweep, DemandStop, Age, Demand, ReadTail, ReadTranscript, CheckSeq, Fail, Cancel

LEMMA DemandsKept == ASSUME TypeOK, [Next]_vars PROVE DemandTypes'
<1>0. DemandTypes
  BY TypeParts DEF RestOK
<1> USE DEF DemandTypes, demands
<1>1. CASE Open \/ Close \/ Show \/ Sweep \/ DemandStop
  BY <1>0, <1>1, BoundsAssumption DEF Open, Close, Show, Sweep, DemandStop
<1>2. CASE Age
  BY <1>0, <1>2 DEF Age
<1>3. ASSUME NEW c \in Callers, Demand(c) PROVE DemandTypes'
  <2>1. flight' \in [there : BOOLEAN, rerun : BOOLEAN, old : BOOLEAN]
    BY <1>0, <1>3, FlightTypes DEF Demand
  <2> QED
    BY <1>0, <1>3, <2>1, BoundsAssumption DEF Demand
<1>4. ASSUME NEW c \in Callers, PushEnd(c) PROVE DemandTypes'
  BY <1>0, <1>4, FlightTypes DEF PushEnd, Ended
<1>5. ASSUME NEW c \in Callers, Fail(c) \/ Cancel(c) PROVE DemandTypes'
  BY <1>0, <1>5, FlightTypes DEF Fail, Cancel
<1>6. CASE UNCHANGED <<demands, flight>>
  BY <1>0, <1>6
<1> QED
  BY <1>1, <1>2, <1>3, <1>4, <1>5, <1>6
     DEF Next, EngineStep, SurfaceStep, Replay, vars, Submit, Chunk, Flush, Commit, TurnDone, Route,
         ReadTail, ReadTranscript, CheckSeq, PushStart, PushBody

LEMMA HistoryKept == ASSUME TypeOK, [Next]_vars PROVE HistoryTypes'
<1>0. HistoryTypes /\ SurfaceTypes /\ DemandTypes /\ CallsOK
  BY TypeParts DEF RestOK
<1>1. CASE Open
  <2>1. failed' \in BOOLEAN
    BY <1>0, <1>1 DEF Open, DemandTypes, HistoryTypes
  <2> QED
    BY <1>0, <1>1, <2>1 DEF Open, HistoryTypes
<1>2. CASE DemandStop
  BY <1>0, <1>2 DEF DemandStop, HistoryTypes, SurfaceTypes
<1>3. CASE Age
  BY <1>0, <1>3, BoundsAssumption DEF Age, HistoryTypes
<1>4. ASSUME NEW c \in Callers, PushEnd(c) PROVE HistoryTypes'
  <2>1. crossed' \in BOOLEAN
    BY <1>0, <1>4 DEF PushEnd, SurfaceTypes, CallsOK, Slot
  <2> QED
    BY <1>0, <1>4, <2>1 DEF PushEnd, HistoryTypes
<1>5. ASSUME NEW c \in Callers, Fail(c) \/ Cancel(c) PROVE HistoryTypes'
  BY <1>0, <1>5 DEF Fail, Cancel, HistoryTypes
<1>6. CASE UNCHANGED history
  BY <1>0, <1>6 DEF HistoryTypes, history
<1> QED
  BY <1>1, <1>2, <1>3, <1>4, <1>5, <1>6
     DEF Next, EngineStep, SurfaceStep, Replay, vars, Submit, Chunk, Flush, Commit, TurnDone, Route,
         Close, Show, Sweep, Demand, ReadTail, ReadTranscript, CheckSeq, PushStart, PushBody

LEMMA RestKept == ASSUME TypeOK, [Next]_vars PROVE RestOK'
BY EngineKept, SurfaceKept, DemandsKept, HistoryKept DEF RestOK

LEMMA TypesKept ==
    ASSUME TypeOK, TriesOK, [Next]_vars
    PROVE  TypeOK' /\ TriesOK'
<1>0. CallsOK
  BY TypeSlots
<1>1. ASSUME UNCHANGED call PROVE CallsOK' /\ TriesOK'
  BY <1>0, <1>1 DEF CallsOK, TriesOK
<1>2. ASSUME NEW S, call' = Crossing(S) PROVE CallsOK' /\ TriesOK'
  BY <1>0, <1>2, CrossingIs DEF TriesOK, Like
<1>3. CASE EngineStep \/ SurfaceStep \/ UNCHANGED vars
  <2>1. UNCHANGED call \/ \E S : call' = Crossing(S)
    BY <1>3 DEF EngineStep, SurfaceStep, vars, Submit, Chunk, Flush, Commit, TurnDone,
                Route, Open, Close, Show, Sweep, DemandStop, Age
  <2> QED
    BY <1>1, <1>2, <2>1, RestKept, TypeParts
<1>4. ASSUME NEW c \in Callers, Replay(c) PROVE TypeOK' /\ TriesOK'
  BY <1>4, CallsKept, RestKept, TypeParts
<1> QED
  BY <1>3, <1>4 DEF Next

LEMMA InitTypes == ASSUME Init PROVE TypeOK /\ TriesOK
<1>1. RestOK
  <2>1. <<>> \in Seq(Chunks)
    OBVIOUS
  <2>2. EngineTypes /\ SurfaceTypes
    <3>1. 0 \in 0 .. MAX_TURNS /\ 0 \in 0 .. MAX_OPENED
      BY BoundsAssumption
    <3>2. EngineTypes
      BY <2>1, <3>1, Numbers, Zenon DEF Init, EngineTypes
    <3> QED
      BY <3>1, <3>2, Numbers DEF Init, SurfaceTypes
  <2>3. DemandTypes /\ HistoryTypes
    <3>1. 0 \in 0 .. MAX_ASKED /\ 0 \in 0 .. MAX_STALE
      BY BoundsAssumption
    <3> QED
      BY <3>1, FlightTypes, Zenon DEF Init, DemandTypes, HistoryTypes
  <2> QED
    BY <2>2, <2>3 DEF RestOK
<1>2. CallsOK /\ TriesOK
  BY Numbers, BlankSlot DEF Init, CallsOK, TriesOK
<1> QED
  BY <1>1, <1>2, TypeParts

THEOREM TypesInv == Spec => [](TypeOK /\ TriesOK)
BY InitTypes, TypesKept, PTL DEF Spec

\* The host, the pump, the surface and the replays stay within their types;
\* a replay reads the transcript no more often than it may.
THEOREM Types == Spec => []TypeOK
BY TypesInv, PTL

-----------------------------------------------------------------------------
(* Replays take turns.                                                     *)

\* The flight that is not stale counts for one replay; each stale one may
\* still have its own.
Room == IF flight.there /\ ~flight.old THEN 1 ELSE 0
RunsOK == IsFiniteSet(Running) /\ Cardinality(Running) <= stale + Room

LEMMA RunningMoves ==
    ASSUME CallsOK, NEW c \in Callers, NEW r \in Slot, Moved(c, r) \/ Pushed(c, r)
    PROVE  Running' = IF r.at = "idle" THEN Running \ {c} ELSE Running \cup {c}
BY DEF Running, Moved, Pushed, Like

LEMMA AtMost ==
    ASSUME NEW a \in Nat, NEW b \in Nat, NEW n \in Nat, NEW m \in Nat, a <= b, b <= n, n <= m
    PROVE  a <= m
OBVIOUS

LEMMA SumNat == ASSUME NEW n \in Nat, NEW m \in Nat PROVE n + m \in Nat /\ n <= n + m
OBVIOUS

LEMMA RunsNext ==
    ASSUME IsFiniteSet(Running'), Cardinality(Running') <= stale' + Room'
    PROVE  RunsOK'
<1>1. IsFiniteSet(Running)' /\ (Cardinality(Running) <= stale + Room)'
  OBVIOUS
<1> QED
  BY <1>1 DEF RunsOK

LEMMA RunsFewer ==
    ASSUME TypeOK, TypeOK', RunsOK, Running' \subseteq Running, stale + Room <= stale' + Room'
    PROVE  RunsOK'
<1>1. IsFiniteSet(Running') /\ Cardinality(Running') <= Cardinality(Running)
      /\ Cardinality(Running') \in Nat /\ Cardinality(Running) \in Nat
  BY FS_Subset, FS_CardinalityType DEF RunsOK
<1>2. stale \in Nat /\ stale' \in Nat /\ Room \in Nat /\ Room' \in Nat
  BY DEF TypeOK, Room
<1>3. Cardinality(Running) <= stale + Room
  BY DEF RunsOK
<1>4. stale + Room \in Nat /\ stale' + Room' \in Nat
  BY <1>2, SumNat
<1>5. Cardinality(Running') <= stale' + Room'
  BY <1>1, <1>3, <1>4, AtMost
<1> QED
  BY <1>1, <1>5, RunsNext

LEMMA RunsLess ==
    ASSUME TypeOK, TypeOK', RunsOK, NEW c \in Running, Running' = Running \ {c}, stale' = stale
    PROVE  RunsOK'
<1>1. /\ IsFiniteSet(Running \ {c}) /\ Cardinality(Running \ {c}) = Cardinality(Running) - 1
      /\ Cardinality(Running) \in Nat
  BY FS_RemoveElement, FS_CardinalityType DEF RunsOK
<1>2. stale \in Nat /\ Room \in {0, 1} /\ Room' \in {0, 1}
  BY DEF TypeOK, Room
<1>3. Cardinality(Running) <= stale + Room
  BY DEF RunsOK
<1>4. Cardinality(Running) - 1 <= stale + Room'
  BY <1>1, <1>2, <1>3
<1>5. Cardinality(Running') <= stale' + Room'
  BY <1>1, <1>4
<1> QED
  BY <1>1, <1>5, RunsNext

LEMMA RunsKept ==
    ASSUME TypeOK, TriesOK, RunsOK, [Next]_vars
    PROVE  RunsOK'
<1>0. CallsOK /\ TypeOK' /\ stale \in Nat /\ Room \in {0, 1} /\ Room' \in {0, 1}
  BY TypeSlots, TypesKept DEF TypeOK, Room
<1>1. ASSUME UNCHANGED <<call, flight, stale>> PROVE RunsOK'
  BY <1>1 DEF RunsOK, Running, Room
<1>2. ASSUME NEW S, call' = Crossing(S), UNCHANGED <<flight, stale>> PROVE RunsOK'
  <2>1. Running' = Running
    BY <1>0, <1>2, CrossingIs DEF Running, Like
  <2> QED
    BY <1>2, <2>1 DEF RunsOK, Room
<1>3. CASE EngineStep \/ Open \/ Close \/ Show \/ Sweep \/ Route \/ DemandStop \/ UNCHANGED vars
  <2>1. UNCHANGED <<flight, stale>> /\ (UNCHANGED call \/ \E S : call' = Crossing(S))
    BY <1>3 DEF EngineStep, vars, demands, history, Submit, Chunk, Flush, Commit, TurnDone,
                Route, Open, Close, Show, Sweep, DemandStop
  <2> QED
    BY <1>1, <1>2, <2>1
<1>4. CASE Age
  <2>1. Running' = Running /\ stale' = stale + 1 /\ Room = 1
    BY <1>4 DEF Age, Running, Room
  <2>2. stale + 1 \in Nat /\ Room' \in Nat
    BY <1>0
  <2>4. stale + 1 <= stale + 1 + Room'
    BY <2>2, SumNat
  <2>3. stale + Room <= stale' + Room'
    BY <2>1, <2>4
  <2> QED
    BY <1>0, <2>1, <2>3, RunsFewer
<1>5. ASSUME NEW c \in Callers, Demand(c) PROVE RunsOK'
  <2>1. CASE Joins
    <3>1. UNCHANGED <<call, stale>> /\ Room = 1 /\ Room' = 1
      BY <1>5, <2>1, FlightTypes DEF Demand, Joins, Room, history, TypeOK
    <3> QED
      BY <3>1 DEF RunsOK, Running
  <2>2. CASE ~Joins
    <3>1. stale' = stale /\ Room = 0 /\ Room' = 1
      BY <1>5, <2>2 DEF Demand, Joins, Room, history
    <3>2. Running' = Running \cup {c}
      <4>1. call[c] \in Slot /\ "tail" \in Stages
        BY <1>0 DEF CallsOK, Stages
      <4> QED
        BY <1>0, <1>5, <2>2, <4>1, DemandAt, StageSet, RunningMoves
    <3>3. /\ IsFiniteSet(Running') /\ Cardinality(Running') <= Cardinality(Running) + 1
          /\ Cardinality(Running) \in Nat /\ Cardinality(Running') \in Nat
      <4>1. /\ IsFiniteSet(Running \cup {c}) /\ Cardinality(Running) \in Nat
            /\ Cardinality(Running \cup {c}) = IF c \in Running THEN Cardinality(Running) ELSE Cardinality(Running) + 1
        BY FS_AddElement, FS_CardinalityType DEF RunsOK
      <4> QED
        BY <3>2, <4>1
    <3>4. Cardinality(Running') <= stale' + Room'
      BY <1>0, <3>1, <3>3 DEF RunsOK
    <3> QED
      BY <3>3, <3>4, RunsNext
  <2> QED
    BY <2>1, <2>2
<1>6. ASSUME NEW c \in Callers, NEW r \in Slot, Moved(c, r) \/ Pushed(c, r), call[c].at # "idle",
             UNCHANGED <<flight, stale>>
      PROVE RunsOK'
  <2>1. Running' \subseteq Running
    BY <1>0, <1>6, RunningMoves DEF Running
  <2> QED
    BY <1>0, <1>6, <2>1, RunsFewer DEF Room
<1>7. ASSUME NEW c \in Callers, ReadTail(c) \/ ReadTranscript(c) \/ CheckSeq(c) PROVE RunsOK'
  <2>1. \E r \in Slot : Moved(c, r)
    BY <1>7, ReadTailAt, ReadTranscriptAt, CheckSeqAt DEF TriesOK, ReadTail
  <2> QED
    BY <1>6, <1>7, <2>1 DEF ReadTail, ReadTranscript, CheckSeq, history
<1>8. ASSUME NEW c \in Callers, PushStart(c) \/ PushBody(c) PROVE RunsOK'
  <2>1. call[c] \in Slot /\ {"body", "end"} \subseteq Stages
    BY <1>0 DEF CallsOK, Stages, Routing
  <2>2. \E r \in Slot : Pushed(c, r)
    BY <1>0, <1>8, <2>1, PushStartAt, PushBodyAt, StageSet
  <2> QED
    BY <1>6, <1>8, <2>2 DEF PushStart, PushBody, history
<1>9. ASSUME NEW c \in Callers, PushEnd(c) PROVE RunsOK'
  <2>1. call[c].at = "end" /\ stale' = stale /\ c \in Running
    BY <1>9 DEF PushEnd, Running
  <2>2. CASE flight.there /\ flight.rerun
    <3>1. Room' = 1
      BY <1>9, <2>2 DEF PushEnd, Room
    <3>2. [Blank EXCEPT !.at = "tail"] \in Slot
      BY BlankSlot, StageSet DEF Stages
    <3>3. Running' \subseteq Running
      BY <1>0, <1>9, <2>1, <2>2, <3>2, PushEndAt, RunningMoves
    <3> QED
      BY <1>0, <2>1, <3>1, <3>3, RunsFewer
  <2>3. CASE ~(flight.there /\ flight.rerun)
    <3>1. Running' = Running \ {c}
      BY <1>0, <1>9, <2>3, PushEndAt, BlankSlot, RunningMoves
    <3> QED
      BY <1>0, <2>1, <3>1, RunsLess
  <2> QED
    BY <2>2, <2>3
<1>10. ASSUME NEW c \in Callers, Fail(c) \/ Cancel(c) PROVE RunsOK'
  <2>1. stale' = stale /\ c \in Running
    BY <1>10 DEF Fail, Cancel, Running
  <2>2. Running' = Running \ {c}
    BY <1>0, <1>10, StopsAt, BlankSlot, RunningMoves
  <2> QED
    BY <1>0, <2>1, <2>2, RunsLess
<1> QED
  BY <1>3, <1>4, <1>5, <1>7, <1>8, <1>9, <1>10 DEF Next, SurfaceStep, Replay

\* However demands, stale flights, failures and cancelled replays mix, no more
\* replays of a session run at once than were judged stale, and one.
THEOREM TakingTurns == Spec => []OneAtATime
<1>1. Init => RunsOK
  <2> SUFFICES ASSUME Init PROVE RunsOK
    OBVIOUS
  <2>1. Running = {}
    BY BlankSlot DEF Init, Running
  <2>2. stale = 0 /\ Room = 0
    BY DEF Init, Room, NoFlight
  <2> QED
    BY <2>1, <2>2, FS_EmptySet DEF RunsOK
<1>2. TypeOK /\ RunsOK => OneAtATime
  <2> SUFFICES ASSUME TypeOK, RunsOK PROVE OneAtATime
    OBVIOUS
  <2>1. stale \in Nat /\ Room <= 1 /\ Room \in Nat /\ Cardinality(Running) \in Nat
    BY FS_CardinalityType DEF TypeOK, RunsOK, Room
  <2> QED
    BY <2>1 DEF RunsOK, OneAtATime
<1> QED
  BY <1>1, <1>2, TypesInv, RunsKept, PTL DEF Spec

-----------------------------------------------------------------------------
(* Who watches has the engine awake.                                       *)

\* A demand wakes the engine as it begins, and only a stop puts it to sleep.
THEOREM Awake == Spec => []AwakeWhenWatched
<1>1. Init => AwakeWhenWatched
  BY DEF Init, AwakeWhenWatched
<1>2. ASSUME TypeOK, AwakeWhenWatched, [Next]_vars PROVE AwakeWhenWatched'
  <2> USE DEF AwakeWhenWatched, engine, surface, demands, history
  <2>1. CASE EngineStep
    BY <1>2, <2>1 DEF EngineStep, Submit, Chunk, Flush, Commit, TurnDone
  <2>2. CASE Route \/ Close \/ Sweep \/ Age
    BY <1>2, <2>2 DEF Route, Close, Sweep, Age
  <2>3. CASE Open \/ Show
    <3>1. starts' # 0
      BY <1>2, <2>3, BoundsAssumption DEF Open, Show, TypeOK
    <3> QED
      BY <3>1
  <2>4. CASE DemandStop
    <3>1. UNCHANGED <<starts, watching>> /\ (slept' = watching \/ UNCHANGED <<on, slept>>)
      BY <2>4 DEF DemandStop
    <3> QED
      BY <1>2, <3>1 DEF TypeOK
  <2>5. ASSUME NEW c \in Callers, Demand(c) PROVE AwakeWhenWatched'
    BY <1>2, <2>5 DEF Demand, Ensure
  <2>6. ASSUME NEW c \in Callers, ReadTail(c) \/ ReadTranscript(c) \/ CheckSeq(c) PROVE AwakeWhenWatched'
    BY <1>2, <2>6 DEF ReadTail, ReadTranscript, CheckSeq
  <2>7. ASSUME NEW c \in Callers, PushStart(c) \/ PushBody(c) \/ PushEnd(c) PROVE AwakeWhenWatched'
    BY <1>2, <2>7 DEF PushStart, PushBody, PushEnd
  <2>8. ASSUME NEW c \in Callers, Fail(c) \/ Cancel(c) PROVE AwakeWhenWatched'
    BY <1>2, <2>8 DEF Fail, Cancel
  <2>9. CASE UNCHANGED vars
    BY <1>2, <2>9 DEF vars
  <2> QED
    BY <1>2, <2>1, <2>2, <2>3, <2>4, <2>5, <2>6, <2>7, <2>8, <2>9 DEF Next, SurfaceStep, Replay
<1> QED
  BY <1>1, <1>2, Types, PTL DEF Spec

-----------------------------------------------------------------------------
(* Demands are served.                                                     *)

\* c's replay has yet to start on the surface, or was the last to.
Coming(c) == call[c].at \in {"tail", "transcript", "check", "start"}
Delivering(c) == call[c].at \in {"body", "end"} /\ owner = c

ServedOK ==
    \* an entry has a replay behind it, which will see to its reservation ...
    /\ flight.there /\ ~failed => Running # {}
    \* ... and a surface without a whole replay has one ahead of it
    /\ watching /\ ~failed /\ ~full =>
         \/ starts # 0
         \/ \E c \in Callers : Coming(c) \/ Delivering(c)
         \/ flight.there /\ flight.rerun

LEMMA ServedKept ==
    ASSUME TypeOK, TriesOK, ServedOK, [Next]_vars
    PROVE  ServedOK'
<1>0. CallsOK
  BY TypeSlots
<1>1. ASSUME \A d \in Callers : call'[d].at = call[d].at,
             UNCHANGED <<watching, full, owner, failed>>, flight'.there = flight.there, flight'.rerun = flight.rerun,
             starts # 0 => starts' # 0
      PROVE  ServedOK'
  BY <1>1 DEF ServedOK, Coming, Delivering, Running
<1>2. CASE EngineStep \/ Route \/ Sweep \/ DemandStop \/ UNCHANGED vars
  <2>1. /\ UNCHANGED <<watching, full, owner, failed, flight, starts>>
        /\ UNCHANGED call \/ \E S : call' = Crossing(S)
    BY <1>2 DEF EngineStep, vars, surface, demands, history, Submit, Chunk, Flush, Commit, TurnDone,
                Route, Sweep, DemandStop
  <2>2. \A d \in Callers : call'[d].at = call[d].at
    BY <1>0, <2>1, CrossingIs DEF Like
  <2> QED
    BY <1>1, <2>1, <2>2
<1>3. CASE Age
  <2>1. flight'.there = flight.there /\ flight'.rerun = flight.rerun
    BY <1>3 DEF Age, TypeOK
  <2> QED
    BY <1>1, <1>3, <2>1 DEF Age, surface, demands
<1>4. CASE Show \/ Open
  <2>1. starts' # 0 /\ UNCHANGED <<call, flight>>
    BY <1>4, BoundsAssumption DEF Show, Open, TypeOK
  <2>2. flight.there /\ ~failed' => ~failed
    BY <1>4 DEF Show, Open, history
  <2> QED
    BY <2>1, <2>2 DEF ServedOK, Running
<1>5. CASE Close
  BY <1>5 DEF Close, history, ServedOK, Running
<1>6. ASSUME NEW c \in Callers, Demand(c) PROVE ServedOK'
  <2>1. UNCHANGED <<watching, full, owner, failed>>
    BY <1>6 DEF Demand, surface, history
  <2>2. CASE Joins
    <3>1. UNCHANGED call /\ flight'.there = flight.there /\ flight'.there /\ flight'.rerun
      BY <1>6, <2>2, FlightTypes DEF Demand, Joins, TypeOK
    <3> QED
      BY <2>1, <3>1 DEF ServedOK, Running
  <2>3. CASE ~Joins
    <3>1. call[c] \in Slot /\ "tail" \in Stages
      BY <1>0 DEF CallsOK, Stages
    <3>2. call'[c].at = "tail"
      BY <1>0, <1>6, <2>3, <3>1, DemandAt, StageSet DEF Moved
    <3> QED
      BY <3>2 DEF ServedOK, Running, Coming
  <2> QED
    BY <2>2, <2>3
<1>7. ASSUME NEW c \in Callers, ReadTail(c) \/ ReadTranscript(c) \/ CheckSeq(c) PROVE ServedOK'
  <2>1. call'[c].at \in {"tail", "transcript", "check", "start"}
    <3>1. CASE ReadTail(c)
      <4>1. call[c].tries < MAX_ATTEMPTS
        BY <3>1 DEF ReadTail, TriesOK
      <4> QED
        BY <3>1, <4>1, ReadTailAt DEF Moved
    <3>2. CASE ReadTranscript(c)
      BY <3>2, ReadTranscriptAt DEF Moved
    <3>3. CASE CheckSeq(c)
      BY <3>3, CheckSeqAt DEF Moved
    <3> QED
      BY <1>7, <3>1, <3>2, <3>3
  <2> QED
    BY <2>1 DEF ServedOK, Running, Coming
<1>8. ASSUME NEW c \in Callers, PushStart(c) PROVE ServedOK'
  <2>1. call'[c].at = "body"
    <3>1. call[c] \in Slot /\ "body" \in Stages
      BY <1>0 DEF CallsOK, Stages, Routing
    <3> QED
      BY <1>0, <1>8, <3>1, PushStartAt, StageSet DEF Pushed
  <2>2. watching' = watching /\ (watching => owner' = c)
    BY <1>8 DEF PushStart
  <2> QED
    BY <2>1, <2>2 DEF ServedOK, Running, Delivering
<1>9. ASSUME NEW c \in Callers, PushBody(c) PROVE ServedOK'
  <2>1. call'[c].at = "end" /\ \A d \in Callers \ {c} : call'[d].at = call[d].at
    <3>1. call[c] \in Slot /\ "end" \in Stages
      BY <1>0 DEF CallsOK, Stages, Routing
    <3>2. [call[c] EXCEPT !.at = "end"] \in Slot /\ [call[c] EXCEPT !.at = "end"].at = "end"
      BY <3>1, StageSet
    <3>3. Pushed(c, [call[c] EXCEPT !.at = "end"])
      BY <1>0, <1>9, PushBodyAt
    <3> QED
      BY <3>2, <3>3 DEF Pushed, Like
  <2>2. UNCHANGED <<watching, full, owner, failed, flight, starts>> /\ call[c].at = "body"
    BY <1>9 DEF PushBody, demands, history
  <2> QED
    BY <2>1, <2>2 DEF ServedOK, Running, Coming, Delivering
<1>10. ASSUME NEW c \in Callers, PushEnd(c) PROVE ServedOK'
  <2>1. UNCHANGED <<watching, owner, failed, starts>> /\ call[c].at = "end"
    BY <1>10 DEF PushEnd, demands
  <2>2. CASE flight.there /\ flight.rerun
    <3>1. [Blank EXCEPT !.at = "tail"] \in Slot /\ [Blank EXCEPT !.at = "tail"].at = "tail"
      BY BlankSlot, StageSet DEF Stages
    <3>2. call'[c].at = "tail"
      BY <1>0, <1>10, <2>2, <3>1, PushEndAt DEF Pushed
    <3> QED
      BY <3>2 DEF ServedOK, Running, Coming
  <2>3. CASE ~(flight.there /\ flight.rerun)
    <3>1. ~flight'.there /\ \A d \in Callers \ {c} : call'[d].at = call[d].at
      BY <1>0, <1>10, <2>3, PushEndAt DEF PushEnd, Ended, NoFlight, Pushed, Like
    <3>2. watching => full' = (full \/ owner = c)
      BY <1>10 DEF PushEnd
    <3>3. ~watching => ServedOK'
      BY <2>1, <3>1 DEF ServedOK
    <3> QED
      BY <2>1, <2>3, <3>1, <3>2, <3>3 DEF ServedOK, Coming, Delivering
  <2> QED
    BY <2>2, <2>3
<1>11. ASSUME NEW c \in Callers, Fail(c) \/ Cancel(c) PROVE ServedOK'
  BY <1>11 DEF Fail, Cancel, ServedOK
<1> QED
  BY <1>2, <1>3, <1>4, <1>5, <1>6, <1>7, <1>8, <1>9, <1>10, <1>11 DEF Next, SurfaceStep, Replay

\* A demand that only left a reservation is served all the same: nothing is
\* ever quiet around a surface that has not had a replay from its start to its
\* end, unless one failed.
THEOREM DemandsServed == Spec => []EveryDemandServed
<1>1. Init => ServedOK
  BY DEF Init, ServedOK, NoFlight
<1>2. ServedOK => EveryDemandServed
  BY DEF ServedOK, EveryDemandServed, Quiet, Coming, Delivering, Running
<1> QED
  BY <1>1, <1>2, TypesInv, ServedKept, PTL DEF Spec
-----------------------------------------------------------------------------
(* The replay and the engine's events make up the conversation.            *)

\* After the first n chunks, what waits in q is the rest of the first p, in order.
Rest(q, p, n) ==
    /\ n \in 0 .. p
    /\ \A i \in 1 .. Len(q) : q[i] # DONE => q[i] \in n + 1 .. p
    /\ \A i, j \in 1 .. Len(q) : i < j /\ q[i] # DONE /\ q[j] # DONE => q[i] < q[j]
    /\ \A k \in n + 1 .. p : \E i \in 1 .. Len(q) : q[i] = k
Ready(n) == Rest(queue, printed, n)

\* The end of the answer is still to come.
Pending == active \/ queue # <<>>

EngineOK ==
    /\ committed <= printed /\ flushed <= printed
    /\ ~active => committed = printed /\ flushed = printed
    /\ active => on
    /\ on => seq # 0
QueueOK == ~active /\ queue # <<>> => queue[Len(queue)] = DONE
SurfaceOK == (~watching => owner = NOBODY) /\ (owner = NOBODY => ~full)

\* An uncrossed replay has in hand what the queue goes on from.  The count of
\* commits it took dates its tail; what it has pushed is what the surface shows,
\* unless the surface has changed.
Dated(c) ==
    call[c].at \in Reading /\ call[c].seq # 0 =>
      on /\ call[c].seq <= seq /\ (call[c].seq = seq => committed = call[c].from)
Placed(c) ==
    /\ call[c].at \in Routing => call[c].read = call[c].from
    /\ call[c].at \in {"body", "end"} => owner \in {c, NOBODY}
    /\ call[c].at = "body" /\ owner = c => shown = 0
    /\ call[c].at = "end" /\ owner = c => shown = call[c].upto
ReplayOK(c) ==
    call[c].at \in Reading \cup Routing /\ ~call[c].crossed =>
      /\ Ready(call[c].upto) /\ (call[c].upto > call[c].from => Pending)
      /\ Dated(c) /\ Placed(c)
ReplaysOK == \A c \in Callers : ReplayOK(c)

\* Between two replays, the same holds of the surface.
Pushing == \E c \in Callers : call[c].at \in {"body", "end"}
ShownOK ==
    watching /\ full /\ ~crossed /\ ~failed /\ ~Pushing => Ready(shown) /\ (streaming => Pending)

XInv == EngineOK /\ QueueOK /\ SurfaceOK /\ ReplaysOK /\ ShownOK

LEMMA RestChunk ==
    ASSUME NEW q \in Seq(Nat), NEW p \in Nat, NEW n, Rest(q, p, n)
    PROVE  Rest(Append(q, p + 1), p + 1, n)
<1> DEFINE a == Append(q, p + 1)
<1>1. /\ Len(a) = Len(q) + 1 /\ a[Len(q) + 1] = p + 1 /\ \A i \in 1 .. Len(q) : a[i] = q[i]
      /\ Len(q) \in Nat /\ \A i \in 1 .. Len(q) : q[i] \in Nat
  OBVIOUS
<1> HIDE DEF a
<1>2. n \in 0 .. p + 1 /\ n < p + 1
  BY DEF Rest
<1>3. \A i \in 1 .. Len(a) : a[i] # DONE => a[i] \in n + 1 .. p + 1
  BY <1>1, <1>2 DEF Rest
<1>4. \A i, j \in 1 .. Len(a) : i < j /\ a[i] # DONE /\ a[j] # DONE => a[i] < a[j]
  <2> SUFFICES ASSUME NEW i \in 1 .. Len(a), NEW j \in 1 .. Len(a), i < j, a[i] # DONE, a[j] # DONE
               PROVE  a[i] < a[j]
    OBVIOUS
  <2>1. i \in 1 .. Len(q) /\ a[i] <= p
    BY <1>1, <1>2 DEF Rest
  <2>2. CASE j \in 1 .. Len(q)
    BY <1>1, <2>1, <2>2 DEF Rest
  <2>3. CASE j = Len(q) + 1
    <3>1. a[j] = p + 1 /\ a[i] \in Nat
      BY <1>1, <2>1, <2>3
    <3> QED
      BY <2>1, <3>1
  <2>4. j \in 1 .. Len(q) \/ j = Len(q) + 1
    BY <1>1
  <2> QED
    BY <2>2, <2>3, <2>4
<1>5. ASSUME NEW k \in n + 1 .. p + 1 PROVE \E i \in 1 .. Len(a) : a[i] = k
  <2>1. CASE k = p + 1
    BY <1>1, <2>1
  <2>2. CASE k \in n + 1 .. p
    <3>1. PICK i \in 1 .. Len(q) : q[i] = k
      BY <2>2 DEF Rest
    <3> QED
      BY <1>1, <3>1
  <2> QED
    BY <1>2, <2>1, <2>2
<1> QED
  BY <1>2, <1>3, <1>4, <1>5 DEF Rest, a

LEMMA RestDone ==
    ASSUME NEW q \in Seq(Nat), NEW p \in Nat, NEW n, Rest(q, p, n)
    PROVE  Rest(Append(q, DONE), p, n)
<1> DEFINE a == Append(q, DONE)
<1>1. /\ Len(a) = Len(q) + 1 /\ a[Len(q) + 1] = DONE /\ \A i \in 1 .. Len(q) : a[i] = q[i]
      /\ Len(q) \in Nat
  BY DEF DONE
<1> HIDE DEF a
<1>2. \A i \in 1 .. Len(a) : a[i] # DONE => i \in 1 .. Len(q)
  BY <1>1
<1>3. \A i \in 1 .. Len(a) : a[i] # DONE => a[i] \in n + 1 .. p
  BY <1>1, <1>2 DEF Rest
<1>4. \A i, j \in 1 .. Len(a) : i < j /\ a[i] # DONE /\ a[j] # DONE => a[i] < a[j]
  BY <1>1, <1>2 DEF Rest
<1>5. \A k \in n + 1 .. p : \E i \in 1 .. Len(a) : a[i] = k
  BY <1>1 DEF Rest
<1> QED
  BY <1>3, <1>4, <1>5 DEF Rest, a

\* The event at the head is the end of a turn, or the next chunk.
LEMMA RestTail ==
    ASSUME NEW q \in Seq(Nat), NEW p \in Nat, NEW n, Rest(q, p, n), q # <<>>
    PROVE  IF Head(q) = DONE THEN Rest(Tail(q), p, n) ELSE Head(q) = n + 1 /\ Rest(Tail(q), p, n + 1)
<1> DEFINE t == Tail(q)
<1>1. /\ Len(t) = Len(q) - 1 /\ Len(q) \in Nat \ {0} /\ Head(q) = q[1]
      /\ \A i \in 1 .. Len(t) : t[i] = q[i + 1] /\ i + 1 \in 1 .. Len(q)
      /\ \A i \in 1 .. Len(q) : q[i] \in Nat /\ (i # 1 => i - 1 \in 1 .. Len(t) /\ t[i - 1] = q[i])
      /\ n \in Nat
  BY DEF Rest
<1> HIDE DEF t
<1>2. \A i, j \in 1 .. Len(t) : i < j /\ t[i] # DONE /\ t[j] # DONE => t[i] < t[j]
  <2> SUFFICES ASSUME NEW i \in 1 .. Len(t), NEW j \in 1 .. Len(t), i < j, t[i] # DONE, t[j] # DONE
               PROVE  t[i] < t[j]
    OBVIOUS
  <2>1. /\ i + 1 \in 1 .. Len(q) /\ j + 1 \in 1 .. Len(q) /\ i + 1 < j + 1
        /\ t[i] = q[i + 1] /\ t[j] = q[j + 1]
    BY <1>1
  <2> QED
    BY <2>1 DEF Rest
<1>3. CASE Head(q) = DONE
  <2>1. \A i \in 1 .. Len(t) : t[i] # DONE => t[i] \in n + 1 .. p
    BY <1>1 DEF Rest
  <2>2. ASSUME NEW k \in n + 1 .. p PROVE \E i \in 1 .. Len(t) : t[i] = k
    <3>1. PICK i \in 1 .. Len(q) : q[i] = k
      BY DEF Rest
    <3>2. i # 1
      BY <1>1, <1>3, <3>1 DEF DONE
    <3> QED
      BY <1>1, <3>1, <3>2
  <2> QED
    BY <1>2, <1>3, <2>1, <2>2 DEF Rest, t
<1>4. CASE Head(q) # DONE
  <2>1. 1 \in 1 .. Len(q) /\ n < q[1] /\ q[1] <= p
    BY <1>1, <1>4 DEF Rest
  <2>2. PICK i \in 1 .. Len(q) : q[i] = n + 1
    BY <1>1, <2>1 DEF Rest
  <2>3. i = 1
    <3> SUFFICES ASSUME i # 1 PROVE FALSE
      OBVIOUS
    <3>1. q[1] < q[i]
      BY <1>1, <1>4, <2>1, <2>2 DEF Rest, DONE
    <3> QED
      BY <1>1, <2>1, <2>2, <3>1
  <2>4. q[1] = n + 1 /\ n + 1 \in 0 .. p
    BY <1>1, <2>1, <2>2, <2>3
  <2>5. \A j \in 1 .. Len(t) : t[j] # DONE => t[j] \in (n + 1) + 1 .. p
    <3> SUFFICES ASSUME NEW j \in 1 .. Len(t), t[j] # DONE PROVE t[j] \in (n + 1) + 1 .. p
      OBVIOUS
    <3>1. j + 1 \in 1 .. Len(q) /\ t[j] = q[j + 1] /\ 1 < j + 1
      BY <1>1
    <3> QED
      BY <1>1, <1>4, <2>1, <2>4, <3>1 DEF Rest
  <2>6. ASSUME NEW k \in (n + 1) + 1 .. p PROVE \E j \in 1 .. Len(t) : t[j] = k
    <3>1. PICK j \in 1 .. Len(q) : q[j] = k
      BY <1>1 DEF Rest
    <3>2. j # 1
      BY <1>1, <2>4, <3>1
    <3> QED
      BY <1>1, <3>1, <3>2
  <2> QED
    BY <1>1, <1>2, <1>4, <2>4, <2>5, <2>6 DEF Rest, t
<1> QED
  BY <1>3, <1>4
LEMMA QueueNumbers == TypeOK => queue \in Seq(Nat) /\ printed \in Nat
<1> SUFFICES ASSUME TypeOK PROVE queue \in Seq(Nat) /\ printed \in Nat
  OBVIOUS
<1>1. queue \in Seq(Chunks) /\ printed \in Nat
  BY Numbers DEF TypeOK
<1> QED
  BY <1>1, Numbers, SeqMonotonic

\* But for the pump, a step leaves what is ready as it is, and what is pending pending.
LEMMA ReadyStays ==
    ASSUME TypeOK, [Next]_vars, ~Route
    PROVE  \A n : Ready(n) => Ready(n)'
<1>0. queue \in Seq(Nat) /\ printed \in Nat
  BY QueueNumbers
<1>1. CASE Chunk
  <2>1. queue' = Append(queue, printed + 1) /\ printed' = printed + 1
    BY <1>1 DEF Chunk
  <2> QED
    BY <1>0, <2>1, RestChunk DEF Ready
<1>2. CASE TurnDone
  <2>1. queue' = Append(queue, DONE) /\ printed' = printed
    BY <1>2 DEF TurnDone
  <2> QED
    BY <1>0, <2>1, RestDone DEF Ready
<1>3. CASE UNCHANGED <<printed, queue>>
  BY <1>3 DEF Ready
<1> QED
  BY <1>1, <1>2, <1>3
     DEF Next, EngineStep, SurfaceStep, Replay, vars, engine, Submit, Flush, Commit, Open, Close, Show, Sweep,
         DemandStop, Age, Demand, ReadTail, ReadTranscript, CheckSeq, PushStart, PushBody, PushEnd, Fail, Cancel

LEMMA PendingStays ==
    ASSUME TypeOK, [Next]_vars, ~Route
    PROVE  Pending => Pending'
<1>0. queue \in Seq(Nat) /\ printed \in Nat
  BY QueueNumbers
<1>1. CASE Chunk \/ TurnDone
  <2>1. PICK x \in Nat : queue' = Append(queue, x)
    BY <1>0, <1>1 DEF Chunk, TurnDone, DONE
  <2>2. queue' # <<>>
    BY <1>0, <2>1
  <2> QED
    BY <2>2 DEF Pending
<1>2. CASE Submit
  BY <1>2 DEF Submit, Pending
<1>3. CASE UNCHANGED <<active, queue>>
  BY <1>3 DEF Pending
<1> QED
  BY <1>1, <1>2, <1>3
     DEF Next, EngineStep, SurfaceStep, Replay, vars, engine, Flush, Commit, Open, Close, Show, Sweep,
         DemandStop, Age, Demand, ReadTail, ReadTranscript, CheckSeq, PushStart, PushBody, PushEnd, Fail, Cancel

\* The engine keeps its count, or counts on with a commit; if it goes, the replays
\* that read are crossed.
LEMMA CountStays ==
    ASSUME TypeOK, [Next]_vars
    PROVE  \/ on => on' /\ ((seq' = seq /\ committed' = committed) \/ seq' = seq + 1)
           \/ DemandStop /\ call' = Crossing(Reading)
<1>1. CASE EngineStep
  BY <1>1 DEF EngineStep, Submit, Chunk, Flush, Commit, TurnDone
<1>2. CASE DemandStop
  BY <1>2 DEF DemandStop, engine
<1>3. ASSUME NEW c \in Callers, Demand(c) PROVE on => UNCHANGED <<on, seq, committed>>
  BY <1>3 DEF Demand, Ensure
<1>4. CASE UNCHANGED <<on, seq, committed>>
  BY <1>4
<1> QED
  BY <1>1, <1>2, <1>3, <1>4
     DEF Next, SurfaceStep, Replay, vars, engine, Route, Open, Close, Show, Sweep,
         Age, ReadTail, ReadTranscript, CheckSeq, PushStart, PushBody, PushEnd, Fail, Cancel

\* A replay that goes on as it was is still right.
LEMMA ReplayGoes ==
    ASSUME TypeOK, TypeOK', [Next]_vars, ~Route, NEW d \in Callers, ReplayOK(d), Like(d),
           Placed(d) => Placed(d)' \/ call'[d].crossed
    PROVE  ReplayOK(d)'
<1> SUFFICES ASSUME call'[d].at \in Reading \cup Routing, ~call'[d].crossed
             PROVE  /\ Rest(queue', printed', call'[d].upto) /\ (call'[d].upto > call'[d].from => Pending')
                    /\ Dated(d)' /\ Placed(d)'
  BY DEF ReplayOK, Ready
<1>1. /\ Ready(call[d].upto) /\ (call[d].upto > call[d].from => Pending) /\ Dated(d) /\ Placed(d)
  BY DEF ReplayOK, Like
<1>2. Rest(queue', printed', call'[d].upto)
  <2>1. \A n : Ready(n) => Rest(queue', printed', n)
    BY ReadyStays DEF Ready
  <2> QED
    BY <1>1, <2>1 DEF Like
<1>4. call'[d].upto > call'[d].from => Pending'
  BY <1>1, PendingStays DEF Like
<1>3. Dated(d)'
  <2>1. CASE on => on' /\ ((seq' = seq /\ committed' = committed) \/ seq' = seq + 1)
    <3>1. call[d].seq \in Nat /\ seq \in Nat
      BY TypeSlots DEF CallsOK, Slot, TypeOK
    <3> QED
      BY <1>1, <2>1, <3>1 DEF Dated, Like
  <2>2. CASE call' = Crossing(Reading)
    BY <2>2, TypeSlots, CrossingIs DEF Dated, Like
  <2> QED
    BY <2>1, <2>2, CountStays
<1> QED
  BY <1>1, <1>2, <1>3, <1>4
LEMMA EngineOKKept ==
    ASSUME TypeOK, TypeOK', XInv, [Next]_vars
    PROVE  EngineOK' /\ QueueOK'
<1>0. /\ EngineOK /\ QueueOK /\ queue \in Seq(Nat) /\ printed \in Nat
      /\ committed \in Nat /\ flushed \in Nat /\ seq \in Nat
  BY QueueNumbers, Numbers DEF XInv, TypeOK
<1> USE DEF EngineOK, QueueOK
<1>1. CASE Submit
  <2>1. /\ active' /\ on' /\ seq' # 0
        /\ UNCHANGED <<printed, flushed, committed>>
    BY <1>0, <1>1 DEF Submit
  <2> QED
    BY <1>0, <2>1
<1>2. CASE Chunk
  <2>1. UNCHANGED <<on, active, flushed, committed, seq>> /\ active /\ printed' = printed + 1
    BY <1>2 DEF Chunk
  <2> QED
    BY <1>0, <2>1
<1>3. CASE Flush
  BY <1>0, <1>3 DEF Flush
<1>4. CASE Commit
  BY <1>0, <1>4 DEF Commit
<1>5. CASE TurnDone
  <2>1. EngineOK'
    BY <1>0, <1>5 DEF TurnDone
  <2>2. queue' = Append(queue, DONE) /\ Append(queue, DONE)[Len(Append(queue, DONE))] = DONE
    BY <1>0, <1>5 DEF TurnDone, DONE
  <2> QED
    BY <2>1, <2>2
<1>6. CASE Route
  <2>1. EngineOK' /\ active' = active
    BY <1>0, <1>6 DEF Route
  <2>2. queue' = Tail(queue) /\ queue # <<>>
    BY <1>6 DEF Route
  <2>3. Tail(queue) # <<>> => Tail(queue)[Len(Tail(queue))] = queue[Len(queue)]
    BY <1>0, <2>2
  <2> QED
    BY <1>0, <2>1, <2>2, <2>3
<1>7. CASE DemandStop
  BY <1>0, <1>7 DEF DemandStop, engine
<1>8. ASSUME NEW c \in Callers, Demand(c) PROVE EngineOK' /\ QueueOK'
  <2>1. UNCHANGED <<active, printed, flushed, committed, queue>>
    BY <1>8 DEF Demand
  <2>2. UNCHANGED <<on, seq>> \/ (on' /\ seq' = 1)
    BY <1>8 DEF Demand, Ensure
  <2> QED
    BY <1>0, <2>1, <2>2
<1>9. CASE UNCHANGED <<engine, queue>>
  BY <1>0, <1>9 DEF engine
<1> QED
  BY <1>1, <1>2, <1>3, <1>4, <1>5, <1>6, <1>7, <1>8, <1>9
     DEF Next, EngineStep, SurfaceStep, Replay, vars, Open, Close, Show, Sweep, Age,
         ReadTail, ReadTranscript, CheckSeq, PushStart, PushBody, PushEnd, Fail, Cancel

LEMMA SurfaceOKKept ==
    ASSUME TypeOK, XInv, [Next]_vars
    PROVE  SurfaceOK'
<1>0. SurfaceOK
  BY DEF XInv
<1> USE DEF SurfaceOK
<1>1. CASE Route \/ Open \/ Close
  BY <1>0, <1>1 DEF Route, Open, Close
<1>2. ASSUME NEW c \in Callers, PushStart(c) \/ PushBody(c) \/ PushEnd(c) PROVE SurfaceOK'
  <2>1. NOBODY # c
    BY CallersAssumption
  <2>2. CASE PushStart(c)
    BY <1>0, <2>1, <2>2 DEF PushStart
  <2>3. CASE PushBody(c)
    BY <1>0, <2>3 DEF PushBody
  <2>4. CASE PushEnd(c)
    <3>1. full \in BOOLEAN /\ UNCHANGED <<watching, owner>>
      BY <2>4 DEF PushEnd, TypeOK
    <3>2. owner # c => full' = full
      BY <2>4, <3>1 DEF PushEnd
    <3> QED
      BY <1>0, <2>1, <3>1, <3>2
  <2> QED
    BY <1>2, <2>2, <2>3, <2>4
<1>3. CASE UNCHANGED surface
  BY <1>0, <1>3 DEF surface
<1> QED
  BY <1>1, <1>2, <1>3
     DEF Next, EngineStep, SurfaceStep, Replay, vars, Submit, Chunk, Flush, Commit, TurnDone,
         Show, Sweep, DemandStop, Age, Demand, ReadTail, ReadTranscript, CheckSeq, Fail, Cancel

\* While it reads, a replay minds neither the surface nor the other replays;
\* while it pushes, another's events cross it.
LEMMA OthersGo ==
    ASSUME TypeOK, TypeOK', XInv, [Next]_vars, ~Route, NEW c \in Callers, NEW r \in Slot,
           \/ Moved(c, r) /\ UNCHANGED <<owner, shown>>
           \/ Pushed(c, r),
           NEW d \in Callers \ {c}
    PROVE  ReplayOK(d)'
<1>1. ReplayOK(d)
  BY DEF XInv, ReplaysOK
<1>2. CASE Moved(c, r) /\ UNCHANGED <<owner, shown>>
  <2>1. call'[d] = call[d]
    BY <1>2 DEF Moved
  <2>2. Like(d) /\ (Placed(d) => Placed(d)')
    BY <1>2, <2>1 DEF Like, Placed
  <2> QED
    BY <1>1, <2>2, ReplayGoes
<1>3. CASE Pushed(c, r)
  <2>1. Like(d) /\ (call[d].at \in Routing => call'[d].crossed)
    BY <1>3 DEF Pushed
  <2>2. call[d].at \notin Routing => Placed(d)'
    BY <2>1 DEF Placed, Like, Routing
  <2> QED
    BY <1>1, <2>1, <2>2, ReplayGoes
<1> QED
  BY <1>2, <1>3

\* The step of c's own replay, stage by stage.
LEMMA TailRead ==
    ASSUME TypeOK, TriesOK, TypeOK', XInv, NEW c \in Callers, ReadTail(c)
    PROVE  ReplayOK(c)'
<1>1. call[c].tries < MAX_ATTEMPTS /\ UNCHANGED <<engine, queue>>
  BY DEF ReadTail, TriesOK
<1>2. PICK r \in Slot : /\ call'[c] = r /\ r.at = "transcript" /\ r.from = committed /\ r.upto = printed
                        /\ r.seq = (IF on THEN seq ELSE 0) /\ (r.crossed <=> queue # <<>>)
  BY <1>1, ReadTailAt DEF Moved
<1>3. EngineOK /\ printed \in Nat /\ committed \in Nat /\ seq \in Nat
  BY Numbers DEF XInv, TypeOK
<1>4. queue = <<>> => Rest(queue', printed', printed)
  <2>1. Len(<<>>) = 0
    OBVIOUS
  <2> QED
    BY <1>1, <1>3, <2>1 DEF Rest, engine
<1>5. printed > committed => active'
  BY <1>1, <1>3 DEF EngineOK, engine
<1>6. Dated(c)'
  BY <1>1, <1>2, <1>3 DEF Dated, engine
<1>7. Placed(c)'
  BY <1>2 DEF Placed, Routing
<1> QED
  BY <1>2, <1>4, <1>5, <1>6, <1>7 DEF ReplayOK, Ready, Pending

LEMMA TranscriptRead ==
    ASSUME TypeOK, XInv, NEW c \in Callers, ReadTranscript(c)
    PROVE  ReplayOK(c)'
<1>1. UNCHANGED <<engine, queue>> /\ call[c].at = "transcript" /\ ReplayOK(c)
  BY DEF ReadTranscript, XInv, ReplaysOK
<1>2. /\ call'[c].at = "check" /\ call'[c].from = call[c].from /\ call'[c].upto = call[c].upto
      /\ call'[c].seq = call[c].seq /\ call'[c].crossed = call[c].crossed
  BY ReadTranscriptAt DEF Moved
<1>3. Placed(c)'
  BY <1>2 DEF Placed, Routing
<1> QED
  BY <1>1, <1>2, <1>3 DEF ReplayOK, Reading, Ready, Pending, Dated, engine

LEMMA SeqChecked ==
    ASSUME TypeOK, XInv, NEW c \in Callers, CheckSeq(c)
    PROVE  ReplayOK(c)'
<1>1. UNCHANGED <<engine, queue>> /\ call[c].at = "check" /\ ReplayOK(c)
  BY DEF CheckSeq, XInv, ReplaysOK
<1>2. call[c].seq \in Nat /\ seq \in Nat
  BY TypeSlots DEF CallsOK, Slot, TypeOK
<1>3. PICK r \in Slot :
        /\ call'[c] = r
        /\ \/ /\ Unmoved(call[c]) /\ r.at = "start" /\ r.from = call[c].from
              /\ r.upto = call[c].upto /\ r.read = call[c].read
              /\ r.crossed <=> call[c].crossed \/ Ahead(call[c])
           \/ r.at = "tail"
           \/ r.at = "start" /\ r.crossed
  BY CheckSeqAt DEF Moved
<1>4. CASE r.at = "tail" \/ r.crossed
  BY <1>3, <1>4 DEF ReplayOK, Reading, Routing
<1>5. CASE r.at = "start" /\ ~r.crossed
  <2>1. /\ Unmoved(call[c]) /\ ~Ahead(call[c]) /\ ~call[c].crossed
        /\ r.from = call[c].from /\ r.upto = call[c].upto /\ r.read = call[c].read
    BY <1>3, <1>5
  <2>2. call[c].read = call[c].from
    BY <1>1, <1>2, <2>1 DEF Unmoved, Ahead, ReplayOK, Reading, Dated
  <2>3. Dated(c)' /\ Placed(c)'
    BY <1>3, <1>5, <2>1, <2>2 DEF Dated, Placed, Reading
  <2> QED
    BY <1>1, <1>3, <1>5, <2>1, <2>3 DEF ReplayOK, Reading, Ready, Pending, engine
<1> QED
  BY <1>3, <1>4, <1>5

LEMMA StartPushed ==
    ASSUME TypeOK, XInv, NEW c \in Callers, PushStart(c)
    PROVE  ReplayOK(c)'
<1>1. UNCHANGED <<engine, queue>> /\ call[c].at = "start" /\ ReplayOK(c) /\ SurfaceOK
  BY DEF PushStart, XInv, ReplaysOK
<1>2. call[c] \in Slot /\ "body" \in Stages /\ CallsOK
  BY TypeSlots DEF CallsOK, Stages, Routing
<1>3. /\ call'[c].at = "body" /\ call'[c].from = call[c].from /\ call'[c].upto = call[c].upto
      /\ call'[c].read = call[c].read /\ call'[c].crossed = call[c].crossed
  <2>1. call'[c] = [call[c] EXCEPT !.at = "body"]
    BY <1>2, PushStartAt DEF Pushed
  <2> QED
    BY <1>2, <2>1, StageSet
<1>4. IF watching THEN owner' = c /\ shown' = 0 ELSE owner' = NOBODY
  BY <1>1 DEF PushStart, SurfaceOK
<1>5. NOBODY # c
  BY CallersAssumption
<1>6. Dated(c)' /\ (call[c].read = call[c].from => Placed(c)')
  BY <1>3, <1>4, <1>5 DEF Dated, Placed, Reading
<1> QED
  BY <1>1, <1>3, <1>6 DEF ReplayOK, Routing, Placed, Ready, Pending, engine

LEMMA BodyPushed ==
    ASSUME TypeOK, XInv, NEW c \in Callers, PushBody(c)
    PROVE  ReplayOK(c)'
<1>1. UNCHANGED <<engine, queue, owner>> /\ call[c].at = "body" /\ ReplayOK(c) /\ SurfaceOK
  BY DEF PushBody, XInv, ReplaysOK
<1>2. call[c] \in Slot /\ "end" \in Stages /\ CallsOK
  BY TypeSlots DEF CallsOK, Stages, Routing
<1>3. /\ call'[c].at = "end" /\ call'[c].from = call[c].from /\ call'[c].upto = call[c].upto
      /\ call'[c].read = call[c].read /\ call'[c].crossed = call[c].crossed
  <2>1. call'[c] = [call[c] EXCEPT !.at = "end"]
    BY <1>2, PushBodyAt DEF Pushed
  <2> QED
    BY <1>2, <2>1, StageSet
<1>4. ASSUME call[c].read = call[c].from, owner = c, shown = 0 PROVE shown' = call[c].upto
  <2>1. watching
    BY <1>1, <1>4, CallersAssumption DEF SurfaceOK
  <2>2. call[c].from \in Nat /\ call[c].upto \in Nat
    BY <1>2, Numbers DEF Slot
  <2>3. call[c].read + call[c].upto - call[c].from = call[c].upto
    BY <1>4, <2>2
  <2> QED
    BY <1>4, <2>1, <2>2, <2>3 DEF PushBody
<1>5. Dated(c)'
  BY <1>3 DEF Dated, Reading
<1>6. ~call[c].crossed => Placed(c)'
  BY <1>1, <1>3, <1>4 DEF ReplayOK, Placed, Routing
<1> QED
  BY <1>1, <1>3, <1>5, <1>6 DEF ReplayOK, Routing, Ready, Pending, engine
LEMMA ReplaysKept ==
    ASSUME TypeOK, TriesOK, TypeOK', XInv, [Next]_vars
    PROVE  ReplaysOK'
<1>0. CallsOK /\ \A d \in Callers : ReplayOK(d)
  BY TypeSlots DEF XInv, ReplaysOK
<1>1. CASE Route
  <2>1. \A d \in Callers : Like(d) /\ (call[d].at \in Routing \cup Reading => call'[d].crossed)
    BY <1>0, <1>1, CrossingIs DEF Route
  <2> QED
    BY <2>1 DEF ReplaysOK, ReplayOK, Like
<1>2. CASE (EngineStep \/ Open \/ Close \/ Show \/ Sweep \/ DemandStop \/ Age \/ UNCHANGED vars) /\ ~Route
  <2>1. /\ UNCHANGED call \/ \E S : call' = Crossing(S)
        /\ UNCHANGED <<owner, shown>> \/ owner' = NOBODY
    BY <1>2 DEF EngineStep, vars, surface, Submit, Chunk, Flush, Commit, TurnDone,
                Open, Close, Show, Sweep, DemandStop, Age
  <2>2. ASSUME NEW d \in Callers PROVE Like(d)
    BY <1>0, <2>1, CrossingIs DEF Like
  <2>3. ASSUME NEW d \in Callers PROVE Placed(d) => Placed(d)'
    <3>1. NOBODY # d
      BY CallersAssumption
    <3> QED
      BY <2>1, <2>2, <3>1 DEF Placed, Like
  <2>4. ASSUME NEW d \in Callers PROVE ReplayOK(d)'
    BY <1>0, <1>2, <2>2, <2>3, ReplayGoes
  <2> QED
    BY <2>4 DEF ReplaysOK
<1>3. ASSUME NEW c \in Callers, NEW r \in Slot, ~Route, ReplayOK(c)',
             (Moved(c, r) /\ UNCHANGED <<owner, shown>>) \/ Pushed(c, r)
      PROVE  ReplaysOK'
  <2>1. \A d \in Callers \ {c} : ReplayOK(d)'
    BY <1>3, OthersGo
  <2> QED
    BY <1>3, <2>1 DEF ReplaysOK
<1>4. ASSUME NEW c \in Callers, NEW r \in Slot, r.at \in {"idle", "tail"}, Moved(c, r) \/ Pushed(c, r)
      PROVE  ReplayOK(c)'
  BY <1>4 DEF Moved, Pushed, ReplayOK, Reading, Routing
<1>5. ASSUME NEW c \in Callers, Demand(c), ~Route PROVE ReplaysOK'
  <2>1. UNCHANGED <<owner, shown>>
    BY <1>5 DEF Demand, surface
  <2>2. CASE Joins
    <3>1. UNCHANGED call
      BY <1>0, <1>5, <2>2, DemandAt
    <3>2. ASSUME NEW d \in Callers PROVE ReplayOK(d)'
      <4>1. Like(d) /\ (Placed(d) => Placed(d)')
        BY <2>1, <3>1 DEF Like, Placed
      <4> QED
        BY <1>0, <1>5, <4>1, ReplayGoes
    <3> QED
      BY <3>2 DEF ReplaysOK
  <2>3. CASE ~Joins
    <3>1. call[c] \in Slot /\ "tail" \in Stages
      BY <1>0 DEF CallsOK, Stages
    <3>2. PICK r \in Slot : Moved(c, r) /\ r.at = "tail"
      BY <1>0, <1>5, <2>3, <3>1, DemandAt, StageSet
    <3>3. ReplayOK(c)'
      BY <1>4, <3>2
    <3> QED
      BY <1>3, <1>5, <2>1, <3>2, <3>3
  <2> QED
    BY <2>2, <2>3
<1>6. ASSUME NEW c \in Callers, ReadTail(c) \/ ReadTranscript(c) \/ CheckSeq(c), ~Route PROVE ReplaysOK'
  <2>1. UNCHANGED <<owner, shown>>
    BY <1>6 DEF ReadTail, ReadTranscript, CheckSeq, surface
  <2>2. \E r \in Slot : Moved(c, r)
    <3>1. CASE ReadTail(c)
      <4>1. call[c].tries < MAX_ATTEMPTS
        BY <3>1 DEF ReadTail, TriesOK
      <4> QED
        BY <3>1, <4>1, ReadTailAt
    <3>2. CASE ReadTranscript(c) \/ CheckSeq(c)
      BY <3>2, ReadTranscriptAt, CheckSeqAt
    <3> QED
      BY <1>6, <3>1, <3>2
  <2>3. ReplayOK(c)'
    BY <1>6, TailRead, TranscriptRead, SeqChecked
  <2> QED
    BY <1>3, <1>6, <2>1, <2>2, <2>3
<1>7. ASSUME NEW c \in Callers, PushStart(c) \/ PushBody(c), ~Route PROVE ReplaysOK'
  <2>1. call[c] \in Slot /\ {"body", "end"} \subseteq Stages
    BY <1>0 DEF CallsOK, Stages, Routing
  <2>2. \E r \in Slot : Pushed(c, r)
    BY <1>0, <1>7, <2>1, PushStartAt, PushBodyAt, StageSet
  <2>3. ReplayOK(c)'
    BY <1>7, StartPushed, BodyPushed
  <2> QED
    BY <1>3, <1>7, <2>2, <2>3
<1>8. ASSUME NEW c \in Callers, PushEnd(c), ~Route PROVE ReplaysOK'
  <2>1. [Blank EXCEPT !.at = "tail"] \in Slot /\ [Blank EXCEPT !.at = "tail"].at = "tail"
    BY BlankSlot, StageSet DEF Stages
  <2>2. \E r \in Slot : r.at \in {"idle", "tail"} /\ Pushed(c, r)
    BY <1>0, <1>8, <2>1, PushEndAt, BlankSlot
  <2> QED
    BY <1>3, <1>4, <1>8, <2>2
<1>9. ASSUME NEW c \in Callers, Fail(c) \/ Cancel(c), ~Route PROVE ReplaysOK'
  <2>1. UNCHANGED <<owner, shown>>
    BY <1>9 DEF Fail, Cancel, surface
  <2>2. \E r \in Slot : r.at \in {"idle", "tail"} /\ Moved(c, r)
    BY <1>0, <1>9, StopsAt, BlankSlot
  <2> QED
    BY <1>3, <1>4, <1>9, <2>1, <2>2
<1> QED
  BY <1>1, <1>2, <1>5, <1>6, <1>7, <1>8, <1>9 DEF Next, SurfaceStep, Replay

LEMMA LastLeft ==
    ASSUME NEW q \in Seq(Nat), q # <<>>, Tail(q) = <<>>
    PROVE  q[Len(q)] = Head(q)
<1>1. Len(<<>>) = 0
  OBVIOUS
<1>2. Len(Tail(q)) = 0
  BY <1>1, Zenon
<1>3. \A r \in Seq(Nat) : r # <<>> => Len(Tail(r)) = Len(r) - 1 /\ Len(r) \in Nat /\ Head(r) = r[1]
  OBVIOUS
<1>4. Len(q) - 1 = 0 /\ Len(q) \in Nat /\ Head(q) = q[1]
  BY <1>2, <1>3, Zenon
<1>5. \A n \in Nat : n - 1 = 0 => n = 1
  OBVIOUS
<1> QED
  BY <1>4, <1>5, Zenon

\* The surface after the replays: each step leaves it as it is, changes it while
\* one pushes, or fails the lot; the pump adds the next chunk.
LEMMA ShownKept ==
    ASSUME TypeOK, TriesOK, TypeOK', XInv, [Next]_vars
    PROVE  ShownOK'
<1>0. CallsOK /\ ShownOK /\ QueueOK /\ SurfaceOK
  BY TypeSlots DEF XInv
<1>1. ASSUME ~Route, \A d \in Callers : call'[d].at = call[d].at \/ {call'[d].at, call[d].at} \cap {"body", "end"} = {},
             UNCHANGED <<watching, full, crossed, failed, shown, streaming>>
      PROVE  ShownOK'
  <2> SUFFICES ASSUME watching', full', ~crossed', ~failed', ~Pushing'
               PROVE  Rest(queue', printed', shown') /\ (streaming' => Pending')
    BY DEF ShownOK, Ready
  <2>1. ~Pushing
    BY <1>1 DEF Pushing
  <2>2. Ready(shown) /\ (streaming => Pending)
    BY <1>0, <1>1, <2>1 DEF ShownOK
  <2> QED
    BY <1>1, <2>2, ReadyStays, PendingStays DEF Ready
<1>2. CASE Route
  <2> SUFFICES ASSUME watching', full', ~crossed', ~failed', ~Pushing'
               PROVE  Rest(queue', printed', shown') /\ (streaming' => Pending')
    BY DEF ShownOK, Ready
  <2>1. /\ UNCHANGED <<watching, full, crossed, failed, printed, active>>
        /\ queue # <<>> /\ queue' = Tail(queue)
        /\ call' = Crossing(Routing \cup Reading)
    BY <1>2 DEF Route, history
  <2>2. ~Pushing
    BY <1>0, <2>1, CrossingIs DEF Pushing, Like
  <2>3. Rest(queue, printed, shown)
    BY <1>0, <2>1, <2>2 DEF ShownOK, Ready
  <2>4. /\ queue \in Seq(Nat) /\ printed \in Nat
    BY QueueNumbers
  <2>5. CASE Head(queue) = DONE
    <3>1. shown' = shown /\ streaming' = FALSE
      <4>1. watching
        BY <2>1
      <4> QED
        BY <1>2, <2>5, <4>1 DEF Route
    <3> QED
      BY <2>1, <2>3, <2>4, <2>5, <3>1, RestTail
  <2>6. CASE Head(queue) # DONE
    <3>1. Head(queue) = shown + 1 /\ Rest(queue', printed', shown + 1) /\ shown \in Nat
      <4>1. Head(queue) = shown + 1 /\ Rest(Tail(queue), printed, shown + 1)
        BY <2>1, <2>3, <2>4, <2>6, RestTail
      <4>2. shown \in Nat
        BY <2>3, <2>4 DEF Rest
      <4> QED
        BY <2>1, <4>1, <4>2
    <3>2. shown' = Folded(Head(queue) - 1, Head(queue))
      BY <1>2, <2>1, <2>6 DEF Route
    <3>3. shown' = shown + 1
      BY <3>1, <3>2 DEF Folded
    <3>4. ~active => queue' # <<>>
      <4>1. ~active => queue[Len(queue)] # Head(queue)
        BY <1>0, <2>1, <2>6 DEF QueueOK
      <4>2. Tail(queue) = <<>> => queue[Len(queue)] = Head(queue)
        BY <2>1, <2>4, LastLeft
      <4> QED
        BY <2>1, <4>1, <4>2
    <3> QED
      BY <2>1, <3>1, <3>3, <3>4 DEF Pending
  <2> QED
    BY <2>5, <2>6
<1>3. CASE ~Route /\ (EngineStep \/ Show \/ Sweep \/ DemandStop \/ Age \/ UNCHANGED vars)
  <2>1. /\ UNCHANGED <<watching, full, crossed, failed, shown, streaming>>
        /\ UNCHANGED call \/ \E S : call' = Crossing(S)
    BY <1>3 DEF EngineStep, vars, surface, history, Submit, Chunk, Flush, Commit, TurnDone,
                Show, Sweep, DemandStop, Age
  <2>2. \A d \in Callers : call'[d].at = call[d].at
    BY <1>0, <2>1, CrossingIs DEF Like
  <2> QED
    BY <1>1, <1>3, <2>1, <2>2
<1>4. CASE Open \/ Close
  <2>1. ~full'
    BY <1>0, <1>4 DEF Open, Close, SurfaceOK
  <2> QED
    BY <2>1 DEF ShownOK
<1>5. ASSUME NEW c \in Callers, NEW r \in Slot, Moved(c, r), ~Route,
             {call[c].at, r.at} \cap {"body", "end"} = {},
             UNCHANGED <<watching, full, crossed, failed, shown, streaming>>
      PROVE  ShownOK'
  BY <1>1, <1>5 DEF Moved
<1>6. ASSUME NEW c \in Callers, Demand(c), ~Route PROVE ShownOK'
  <2>1. UNCHANGED <<watching, full, crossed, failed, shown, streaming>>
    BY <1>6 DEF Demand, surface, history
  <2>2. CASE Joins
    BY <1>0, <1>1, <1>6, <2>1, <2>2, DemandAt
  <2>3. CASE ~Joins
    <3>1. call[c] \in Slot /\ "tail" \in Stages /\ call[c].at = "idle"
      BY <1>0, <1>6 DEF CallsOK, Stages, Demand
    <3>2. PICK r \in Slot : Moved(c, r) /\ r.at = "tail"
      BY <1>0, <1>6, <2>3, <3>1, DemandAt, StageSet
    <3> QED
      BY <1>5, <1>6, <2>1, <3>1, <3>2
  <2> QED
    BY <2>2, <2>3
<1>7. ASSUME NEW c \in Callers, ReadTail(c) \/ ReadTranscript(c) \/ CheckSeq(c), ~Route PROVE ShownOK'
  <2>1. UNCHANGED <<watching, full, crossed, failed, shown, streaming>>
    BY <1>7 DEF ReadTail, ReadTranscript, CheckSeq, surface, history
  <2>2. call[c].at \notin {"body", "end"}
    BY <1>7 DEF ReadTail, ReadTranscript, CheckSeq
  <2>3. \E r \in Slot : Moved(c, r) /\ r.at \notin {"body", "end"}
    <3>1. CASE ReadTail(c)
      <4>1. call[c].tries < MAX_ATTEMPTS
        BY <3>1 DEF ReadTail, TriesOK
      <4> QED
        BY <3>1, <4>1, ReadTailAt
    <3>2. CASE ReadTranscript(c)
      BY <3>2, ReadTranscriptAt
    <3>3. CASE CheckSeq(c)
      BY <3>3, CheckSeqAt
    <3> QED
      BY <1>7, <3>1, <3>2, <3>3
  <2> QED
    BY <1>5, <1>7, <2>1, <2>2, <2>3
<1>8. ASSUME NEW c \in Callers, PushStart(c) \/ PushBody(c) PROVE ShownOK'
  <2>1. call[c] \in Slot /\ {"body", "end"} \subseteq Stages
    BY <1>0 DEF CallsOK, Stages, Routing
  <2>2. call'[c].at \in {"body", "end"}
    <3>1. CASE PushStart(c)
      <4>1. call'[c] = [call[c] EXCEPT !.at = "body"]
        BY <1>0, <3>1, PushStartAt DEF Pushed
      <4> QED
        BY <2>1, <4>1, StageSet
    <3>2. CASE PushBody(c)
      <4>1. call'[c] = [call[c] EXCEPT !.at = "end"]
        BY <1>0, <3>2, PushBodyAt DEF Pushed
      <4> QED
        BY <2>1, <4>1, StageSet
    <3> QED
      BY <1>8, <3>1, <3>2
  <2> QED
    BY <2>2 DEF ShownOK, Pushing
<1>9. ASSUME NEW c \in Callers, PushEnd(c) PROVE ShownOK'
  <2> SUFFICES ASSUME watching', full', ~crossed', ~failed', ~Pushing'
               PROVE  Rest(queue', printed', shown') /\ (streaming' => Pending')
    BY DEF ShownOK, Ready
  <2>1. /\ watching /\ streaming' = InFlight(call[c]) /\ (full \/ owner = c) /\ ~call[c].crossed
        /\ shown' = shown /\ call[c].at = "end" /\ UNCHANGED <<engine, queue>>
    BY <1>9 DEF PushEnd
  <2>2. ReplayOK(c)
    BY DEF XInv, ReplaysOK
  <2>3. /\ Ready(call[c].upto) /\ (call[c].upto > call[c].from => Pending) /\ Placed(c)
    BY <2>1, <2>2 DEF ReplayOK, Routing
  <2>4. owner = c /\ shown = call[c].upto
    BY <1>0, <2>1, <2>3 DEF Placed, SurfaceOK
  <2> QED
    BY <2>1, <2>3, <2>4 DEF InFlight, Ready, Pending, engine
<1>10. ASSUME NEW c \in Callers, Fail(c) \/ Cancel(c) PROVE ShownOK'
  BY <1>10 DEF Fail, Cancel, ShownOK
<1> QED
  BY <1>2, <1>3, <1>4, <1>6, <1>7, <1>8, <1>9, <1>10 DEF Next, SurfaceStep, Replay

LEMMA InitX == ASSUME Init PROVE XInv
<1>1. EngineOK /\ QueueOK /\ SurfaceOK /\ ShownOK
  BY DEF Init, EngineOK, QueueOK, SurfaceOK, ShownOK
<1>2. ReplaysOK
  BY BlankSlot DEF Init, ReplaysOK, ReplayOK, Reading, Routing
<1> QED
  BY <1>1, <1>2 DEF XInv

THEOREM XInvariant == Spec => [](TypeOK /\ XInv)
<1>1. ASSUME TypeOK, TriesOK, XInv, [Next]_vars PROVE XInv'
  BY <1>1, TypesKept, EngineOKKept, SurfaceOKKept, ReplaysKept, ShownKept DEF XInv
<1> QED
  BY <1>1, InitX, TypesInv, PTL DEF Spec

LEMMA RestEmpty == ASSUME NEW p \in Nat, NEW n, Rest(<<>>, p, n) PROVE n = p
<1>1. n \in 0 .. p /\ Len(<<>>) = 0
  BY DEF Rest
<1>2. ASSUME n # p PROVE FALSE
  <2>1. p \in n + 1 .. p
    BY <1>1, <1>2
  <2> QED
    BY <1>1, <2>1 DEF Rest
<1> QED
  BY <1>2

\* The last replay, if nothing crossed it, and the engine's events after it leave
\* the surface with the conversation, each chunk once and in order.
THEOREM ReplayExact == Spec => []ExactUnlessCrossed
<1>1. ASSUME TypeOK, XInv PROVE ExactUnlessCrossed
  <2> SUFFICES ASSUME Quiet, ~failed, watching, full, ~crossed PROVE shown = printed
    BY DEF ExactUnlessCrossed
  <2>1. queue = <<>> /\ ~Pushing /\ printed \in Nat
    BY <1>1, QueueNumbers DEF Quiet, Pushing
  <2>2. Rest(<<>>, printed, shown)
    BY <1>1, <2>1 DEF XInv, ShownOK, Ready
  <2> QED
    BY <2>1, <2>2, RestEmpty
<1> QED
  BY <1>1, XInvariant, PTL

\* Nor does that replay leave the surface answering after the turn has ended.
THEOREM Answered == Spec => []AnswerEnds
<1>1. ASSUME TypeOK, XInv PROVE AnswerEnds
  <2> SUFFICES ASSUME Quiet, ~failed, watching, full, ~crossed, ~active PROVE ~streaming
    BY DEF AnswerEnds
  <2>1. queue = <<>> /\ ~Pushing
    BY DEF Quiet, Pushing
  <2> QED
    BY <1>1, <2>1 DEF XInv, ShownOK, Pending
<1> QED
  BY <1>1, XInvariant, PTL
=============================================================================
