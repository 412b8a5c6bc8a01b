--------------------------- MODULE DelegationProofs ---------------------------
(***************************************************************************)
(* Type correctness of Delegation, and that a row marked delivered was     *)
(* heard unless it raced, for any rows, agents and verbs in progress.      *)
(***************************************************************************)
EXTENDS Delegation, TLAPS

\* An open row can still time out within the bound.
RoomForTimeout == \A d \in Ids : state[d] \in Open => turn[d] < MAX_TURNS

\* A wake that is not yet recorded is for the last turn, or its row raced.
Current(w) == w.turn = turn[w.id] \/ w.id \in raced

\* What the verbs and the loop hold: their wakes are current, and one that
\* they will record as arrived did arrive.
Held ==
    /\ \A k \in Calls : call[k] # Idle =>
         /\ Current(call[k].wake)
         /\ call[k].at = "mark" /\ call[k].woke
              => call[k].wake.turn \in heard[call[k].wake.id]
    /\ \A w \in work : Current(w)
    /\ \A w \in rung : w.turn \in heard[w.id]

IInv == TypeOK /\ RoomForTimeout /\ Held /\ DeliveredIsHeard

-----------------------------------------------------------------------------
THEOREM InitIInv == Init => IInv
<1> SUFFICES ASSUME Init PROVE IInv
  OBVIOUS
<1> USE TurnsAssumption
<1>1. TypeOK
  BY DEF Init, TypeOK, States, Outcomes, Open, Turns, Idle
<1>2. RoomForTimeout
  BY DEF Init, RoomForTimeout, Open
<1>3. Held
  BY DEF Init, Held
<1>4. DeliveredIsHeard
  BY DEF Init, DeliveredIsHeard
<1> QED
  BY <1>1, <1>2, <1>3, <1>4 DEF IInv

\* A call that is not idle is one of the two records of TypeOK.
LEMMA BusyCall ==
    ASSUME TypeOK, NEW k \in Calls, call[k] # Idle
    PROVE  /\ call[k].wake \in Wakes
           /\ call[k].at \in {"nudge", "mark"}
           /\ call[k].at = "mark" => call[k].woke \in BOOLEAN
BY DEF TypeOK, Idle

\* The types of the rows and of their history.
RowsOK ==
    /\ state \in [Ids -> States]
    /\ outcome \in [Ids -> Outcomes \cup {"none", "timeout"}]
    /\ delivered \in [Ids -> BOOLEAN]
    /\ requester \in [Ids -> Agents] /\ doer \in [Ids -> Agents]
    /\ silent \subseteq Ids
    /\ turn \in [Ids -> Turns]
    /\ heard \in [Ids -> SUBSET Turns]
    /\ raced \subseteq Ids

\* The types of what the verbs and the loop hold.
HeldOK ==
    /\ up \subseteq Agents
    /\ call \in [Calls -> [at : {"nudge"}, wake : Wakes] \cup {Idle}
                    \cup [at : {"mark"}, wake : Wakes, woke : BOOLEAN]]
    /\ pc \in {"asleep", "stale", "timeouts", "list", "lanes", "nudge"}
    /\ expired \subseteq Ids
    /\ work \subseteq Wakes
    /\ rung \subseteq work /\ (rung # {} => pc = "nudge")
    /\ laneView \subseteq Agents

LEMMA TypeParts == TypeOK <=> RowsOK /\ HeldOK
BY DEF TypeOK, RowsOK, HeldOK

LEMMA TypePartsNext == TypeOK' <=> RowsOK' /\ HeldOK'
BY DEF TypeOK, RowsOK, HeldOK

\* A transition keeps every wake that is still to be recorded current, by
\* putting its row among the raced ones.
LEMMA MoveKeeps ==
    ASSUME IInv, NEW d \in Ids, NEW s \in States,
           NEW o \in Outcomes \cup {"none", "timeout"},
           turn[d] < MAX_TURNS, s \in Open => turn[d] + 1 < MAX_TURNS,
           Move(d, s, o)
    PROVE  /\ RowsOK' /\ RoomForTimeout' /\ DeliveredIsHeard'
           /\ \A w \in Wakes : Current(w) /\ (w.id = d => Unrecorded(d))
                               => w.turn = turn'[w.id] \/ w.id \in raced'
           /\ turn'[d] = turn[d] + 1 /\ heard' = heard
<1> USE TurnsAssumption
<1> TypeOK /\ RoomForTimeout /\ Held /\ DeliveredIsHeard
  BY DEF IInv
<1>1. RowsOK'
  BY DEF TypeOK, Move, RowsOK, Turns
<1>2. turn'[d] = turn[d] + 1 /\ heard' = heard
  BY DEF TypeOK, Move
<1>3. RoomForTimeout'
  BY DEF TypeOK, Move, RoomForTimeout, Turns
<1>4. raced \subseteq raced'
  BY DEF Move
<1>5. DeliveredIsHeard'
  BY <1>4 DEF TypeOK, Move, DeliveredIsHeard
<1>6. ASSUME NEW w \in Wakes, Current(w), w.id = d => Unrecorded(d)
      PROVE  w.turn = turn'[w.id] \/ w.id \in raced'
  <2>1. CASE w.id = d
    BY <1>6, <2>1 DEF Move, TypeOK
  <2>2. CASE w.id # d
    <3>1. w.id \in Ids
      BY DEF Wakes
    <3> QED
      BY <1>4, <1>6, <2>2, <3>1 DEF Move, Current, TypeOK
  <2> QED
    BY <2>1, <2>2
<1> QED
  BY <1>1, <1>2, <1>3, <1>5, <1>6

\* So the wakes that were held before a transition are still current after it.
LEMMA MoveHeld ==
    ASSUME IInv, NEW d \in Ids, NEW s \in States,
           NEW o \in Outcomes \cup {"none", "timeout"},
           turn[d] < MAX_TURNS, s \in Open => turn[d] + 1 < MAX_TURNS,
           Move(d, s, o), work' \subseteq work, rung' \subseteq rung, HeldOK',
           \A k \in Calls : \/ call'[k] = call[k]
                            \/ call'[k] = Idle
                            \/ /\ call'[k].at = "nudge"
                               /\ call'[k].wake.id = d
                               /\ call'[k].wake.turn = turn[d] + 1
    PROVE  IInv'
<1> TypeOK /\ Held
  BY DEF IInv
<1>1. /\ RowsOK' /\ RoomForTimeout' /\ DeliveredIsHeard'
      /\ \A w \in Wakes : Current(w) /\ (w.id = d => Unrecorded(d))
                             => w.turn = turn'[w.id] \/ w.id \in raced'
      /\ turn'[d] = turn[d] + 1 /\ heard' = heard
  BY MoveKeeps
<1>2. ASSUME NEW k \in Calls, call'[k] # Idle
      PROVE  /\ call'[k].wake.turn = turn'[call'[k].wake.id]
                  \/ call'[k].wake.id \in raced'
             /\ call'[k].at = "mark" /\ call'[k].woke
                  => call'[k].wake.turn \in heard'[call'[k].wake.id]
  <2>1. CASE call'[k] = call[k]
    <3>1. call[k].wake \in Wakes /\ Current(call[k].wake)
      BY <1>2, <2>1, BusyCall DEF Held
    <3>2. call[k].wake.id = d => Unrecorded(d)
      BY <1>2, <2>1 DEF Unrecorded
    <3>3. call[k].at = "mark" /\ call[k].woke
            => call[k].wake.turn \in heard[call[k].wake.id]
      BY <1>2, <2>1 DEF Held
    <3> QED
      BY <1>1, <2>1, <3>1, <3>2, <3>3
  <2>2. CASE /\ call'[k].at = "nudge"
             /\ call'[k].wake.id = d
             /\ call'[k].wake.turn = turn[d] + 1
    BY <1>1, <2>2
  <2> QED
    BY <1>2, <2>1, <2>2
<1>3. ASSUME NEW w \in work' PROVE w.turn = turn'[w.id] \/ w.id \in raced'
  <2>1. w \in work /\ w \in Wakes /\ Current(w)
    BY DEF TypeOK, Held
  <2>2. w.id = d => Unrecorded(d)
    BY <2>1 DEF Unrecorded
  <2> QED
    BY <1>1, <2>1, <2>2
<1>4. ASSUME NEW w \in rung' PROVE w.turn \in heard'[w.id]
  BY <1>1 DEF Held
<1>5. Held'
  BY <1>2, <1>3, <1>4 DEF Held, Current
<1> QED
  BY <1>1, <1>5, TypePartsNext DEF IInv

-----------------------------------------------------------------------------
LEMMA AddresseeType ==
    ASSUME TypeOK, NEW d \in Ids, NEW s PROVE Addressee(d, s) \in Agents
BY DEF TypeOK, Addressee

LEMMA VerbKeeps ==
    ASSUME IInv, NEW k \in Calls, NEW d \in Ids, Verb(k, d) PROVE IInv'
<1> USE TurnsAssumption
<1> TypeOK
  BY DEF IInv
<1>1. ASSUME NEW s \in States, NEW o \in Outcomes \cup {"none"},
             Move(d, s, o), Proceed(k, d, s)
      PROVE  IInv'
  <2> DEFINE w == [id |-> d, turn |-> turn[d] + 1, to |-> Addressee(d, s)]
  <2>1. turn[d] + 1 < MAX_TURNS /\ turn[d] < MAX_TURNS /\ turn[d] + 1 \in Turns
    BY <1>1 DEF Proceed, TypeOK, Turns
  <2>2. w \in Wakes
    BY <2>1, AddresseeType DEF Wakes
  <2>3. call' = [call EXCEPT ![k] = [at |-> "nudge", wake |-> w]]
        /\ UNCHANGED <<up, reconcile>>
    BY <1>1 DEF Proceed
  <2> HIDE DEF w
  <2>4. HeldOK'
    BY <2>2, <2>3 DEF TypeOK, HeldOK, reconcile
  <2>5. ASSUME NEW j \in Calls
        PROVE  \/ call'[j] = call[j]
               \/ /\ call'[j].at = "nudge"
                  /\ call'[j].wake.id = d
                  /\ call'[j].wake.turn = turn[d] + 1
    BY <2>3 DEF TypeOK, w
  <2>6. work' = work /\ rung' = rung
    BY <2>3 DEF reconcile
  <2> QED
    BY <1>1, <2>1, <2>4, <2>5, <2>6, MoveHeld
<1>2. CASE Delegate(k, d)
  BY <1>1, <1>2 DEF Delegate, States, Open, Outcomes
<1>3. CASE Respond(k, d)
  BY <1>1, <1>3 DEF Respond, States, Open, Outcomes
<1>4. ASSUME NEW o \in Outcomes, Complete(k, d, o) PROVE IInv'
  <2>1. NewState(o) \in States
    BY DEF NewState, States, Open, Outcomes
  <2> QED
    BY <1>1, <1>4, <2>1 DEF Complete
<1> QED
  BY <1>2, <1>3, <1>4 DEF Verb

LEMMA TimeoutKeeps ==
    ASSUME IInv, NEW d \in Ids, FailTimeout(d) PROVE IInv'
<1> USE TurnsAssumption
<1> TypeOK /\ RoomForTimeout
  BY DEF IInv
<1>1. HeldOK' /\ work' = work /\ rung' = rung /\ call' = call
  BY DEF FailTimeout, TypeOK, HeldOK
<1>2. CASE CanTimeOut(d)
  <2>1. turn[d] < MAX_TURNS
    BY <1>2 DEF CanTimeOut, RoomForTimeout
  <2>2. Move(d, "failed", "timeout")
    BY <1>2 DEF FailTimeout
  <2>3. "failed" \in States /\ "failed" \notin Open
    BY DEF States, Open
  <2> QED
    BY <1>1, <2>1, <2>2, <2>3, MoveHeld
<1>3. CASE ~CanTimeOut(d)
  <2>1. UNCHANGED <<rows, history>>
    BY <1>3 DEF FailTimeout
  <2> QED
    BY <1>1, <2>1, TypeParts, TypePartsNext
    DEF IInv, rows, history, RowsOK, RoomForTimeout, Held, Current, DeliveredIsHeard
<1> QED
  BY <1>2, <1>3

\* Marking a row by a wake that is current, and arrived if it is to be marked.
LEMMA MarkKeeps ==
    ASSUME IInv, NEW w \in Wakes, NEW b \in BOOLEAN, SetDelivered(w.id, b),
           Current(w), b => w.turn \in heard[w.id], UNCHANGED history
    PROVE  RowsOK' /\ RoomForTimeout' /\ DeliveredIsHeard'
<1> TypeOK /\ RoomForTimeout /\ DeliveredIsHeard
  BY DEF IInv
<1>1. w.id \in Ids
  BY DEF Wakes
<1>2. RowsOK'
  BY <1>1 DEF TypeOK, SetDelivered, RowsOK, history
<1>3. RoomForTimeout'
  BY DEF RoomForTimeout, SetDelivered, history
<1>4. DeliveredIsHeard'
  BY <1>1 DEF DeliveredIsHeard, SetDelivered, history, Current, TypeOK
<1> QED
  BY <1>2, <1>3, <1>4

LEMMA CallKeeps ==
    ASSUME IInv, NEW k \in Calls, CallStep(k) PROVE IInv'
<1> TypeOK /\ RoomForTimeout /\ Held /\ DeliveredIsHeard
  BY DEF IInv
<1>1. ASSUME NEW woke \in BOOLEAN, Wake(k, woke) PROVE IInv'
  <2>1. call[k].wake \in Wakes /\ call[k].wake.turn \in Turns /\ call[k].wake.id \in Ids
    BY <1>1, BusyCall DEF Wake, Wakes
  <2>2. call' = [call EXCEPT ![k] =
                   [at |-> "mark", wake |-> call[k].wake, woke |-> woke]]
    BY <1>1 DEF Wake
  <2>3. heard' \in [Ids -> SUBSET Turns] /\ \A d \in Ids : heard[d] \subseteq heard'[d]
    BY <1>1, <2>1 DEF Wake, TypeOK
  <2>4. woke => call[k].wake.turn \in heard'[call[k].wake.id]
    BY <1>1, <2>1 DEF Wake, TypeOK
  <2>5. RowsOK'
    BY <1>1, <2>3 DEF Wake, TypeOK, RowsOK, rows
  <2>6. HeldOK'
    BY <1>1, <2>1, <2>2 DEF Wake, TypeOK, HeldOK, reconcile
  <2>7. RoomForTimeout'
    BY <1>1 DEF Wake, RoomForTimeout, rows
  <2>8. DeliveredIsHeard'
    BY <1>1, <2>3 DEF Wake, DeliveredIsHeard, rows
  <2>9. ASSUME NEW j \in Calls, call'[j] # Idle
        PROVE  /\ call'[j].wake.turn = turn[call'[j].wake.id] \/ call'[j].wake.id \in raced
               /\ call'[j].at = "mark" /\ call'[j].woke
                    => call'[j].wake.turn \in heard'[call'[j].wake.id]
    <3>1. CASE j = k
      <4>1. call'[j].wake = call[k].wake /\ call'[j].woke = woke
        BY <2>2, <3>1 DEF TypeOK
      <4>2. Current(call[k].wake)
        BY <1>1 DEF Held, Wake
      <4> QED
        BY <2>4, <4>1, <4>2 DEF Current
    <3>2. CASE j # k
      <4>1. call'[j] = call[j]
        BY <2>2, <3>2 DEF TypeOK
      <4>2. call[j].wake \in Wakes /\ call[j].wake.id \in Ids
        BY <2>9, <4>1, BusyCall DEF Wakes
      <4> QED
        BY <2>3, <2>9, <4>1, <4>2 DEF Held, Current
    <3> QED
      BY <3>1, <3>2
  <2>10. Held'
    BY <1>1, <2>3, <2>9 DEF Held, Wake, Current, reconcile, TypeOK, Wakes
  <2> QED
    BY <2>5, <2>6, <2>7, <2>8, <2>10, TypePartsNext DEF IInv
<1>2. CASE Record(k)
  <2>1. call[k].wake \in Wakes /\ call[k].woke \in BOOLEAN /\ Current(call[k].wake)
        /\ (call[k].woke => call[k].wake.turn \in heard[call[k].wake.id])
    BY <1>2, BusyCall DEF Record, Held
  <2>2. RowsOK' /\ RoomForTimeout' /\ DeliveredIsHeard'
    BY <1>2, <2>1, MarkKeeps DEF Record, Result
  <2>3. HeldOK'
    BY <1>2 DEF Record, TypeOK, HeldOK, reconcile
  <2>4. Held'
    BY <1>2 DEF Record, Held, Current, history, reconcile, TypeOK
  <2> QED
    BY <2>2, <2>3, <2>4, TypePartsNext DEF IInv
<1>3. CASE Abandon(k)
  <2>1. RowsOK' /\ RoomForTimeout' /\ DeliveredIsHeard'
    BY <1>3, TypeParts DEF Abandon, RowsOK, RoomForTimeout, DeliveredIsHeard, rows, history
  <2>2. HeldOK'
    BY <1>3 DEF Abandon, TypeOK, HeldOK, reconcile
  <2>3. Held'
    BY <1>3 DEF Abandon, Held, Current, history, reconcile, TypeOK
  <2> QED
    BY <2>1, <2>2, <2>3, TypePartsNext DEF IInv
<1> QED
  BY <1>1, <1>2, <1>3 DEF CallStep

\* A step that leaves rows, history and verbs alone, and at most drops wakes.
LEMMA IdleKeeps ==
    ASSUME IInv, UNCHANGED <<rows, history>>, HeldOK',
           \A k \in Calls : call'[k] \in {call[k], Idle},
           \A w \in work' : Current(w), rung' \subseteq rung
    PROVE  IInv'
<1> TypeOK /\ RoomForTimeout /\ Held /\ DeliveredIsHeard
  BY DEF IInv
<1>1. RowsOK' /\ RoomForTimeout' /\ DeliveredIsHeard'
  BY TypeParts DEF RowsOK, RoomForTimeout, DeliveredIsHeard, rows, history
<1>2. Held'
  BY DEF Held, Current, history
<1> QED
  BY <1>1, <1>2, TypePartsNext DEF IInv

LEMMA PulseKeeps ==
    ASSUME IInv, Tick \/ PulseStep \/ PulseFails PROVE IInv'
<1> TypeOK /\ RoomForTimeout /\ Held /\ DeliveredIsHeard
  BY DEF IInv
<1>1. CASE Tick \/ ListStaleOpen \/ TimeoutsDone \/ ReadLanes \/ PulseDone \/ PulseFails
  <2>1. UNCHANGED <<rows, history, call>> /\ work' \subseteq work /\ rung' \subseteq rung
    BY <1>1 DEF Tick, ListStaleOpen, TimeoutsDone, ReadLanes, PulseDone, PulseFails
  <2>2. HeldOK'
    BY <1>1 DEF Tick, ListStaleOpen, TimeoutsDone, ReadLanes, PulseDone, PulseFails,
                TypeOK, HeldOK
  <2> QED
    BY <2>1, <2>2, IdleKeeps DEF Held
<1>2. CASE ListUndelivered
  <2>1. UNCHANGED <<rows, history, call, rung, up, expired, laneView>>
    BY <1>2 DEF ListUndelivered
  <2>2. ASSUME NEW w \in work' PROVE w \in Wakes /\ Current(w)
    <3>1. PICK d \in Ids : w = [id |-> d, turn |-> turn[d], to |-> Addressee(d, state[d])]
      BY <1>2 DEF ListUndelivered
    <3>2. Addressee(d, state[d]) \in Agents
      BY AddresseeType
    <3> QED
      BY <3>1, <3>2 DEF Wakes, TypeOK, Current
  <2>3. ASSUME NEW w \in rung PROVE FALSE
    BY <1>2 DEF ListUndelivered, TypeOK
  <2>4. HeldOK'
    BY <1>2, <2>1, <2>2, <2>3 DEF ListUndelivered, TypeOK, HeldOK
  <2> QED
    BY <2>1, <2>2, <2>4, IdleKeeps
<1>3. ASSUME NEW d \in Ids, FailTimeout(d) PROVE IInv'
  BY <1>3, TimeoutKeeps
<1>4. ASSUME NEW w \in work, Renudge(w) PROVE IInv'
  <2>1. w \in Wakes /\ w.id \in Ids /\ w.turn \in Turns
    BY DEF TypeOK, Wakes
  <2>2. heard' \in [Ids -> SUBSET Turns] /\ \A d \in Ids : heard[d] \subseteq heard'[d]
        /\ w.turn \in heard'[w.id]
    BY <1>4, <2>1 DEF Renudge, TypeOK
  <2>3. RowsOK' /\ RoomForTimeout'
    BY <1>4, <2>2, TypeParts DEF Renudge, RowsOK, RoomForTimeout, rows
  <2>4. DeliveredIsHeard'
    BY <1>4, <2>2 DEF Renudge, DeliveredIsHeard, rows
  <2>5. HeldOK'
    BY <1>4 DEF Renudge, TypeOK, HeldOK
  <2>6. ASSUME NEW k \in Calls, call[k] # Idle
        PROVE  /\ Current(call[k].wake)
               /\ call[k].at = "mark" /\ call[k].woke
                    => call[k].wake.turn \in heard'[call[k].wake.id]
    <3>1. call[k].wake.id \in Ids
      BY <2>6, BusyCall DEF Wakes
    <3> QED
      BY <2>2, <2>6, <3>1 DEF Held
  <2>7. Held'
    BY <1>4, <2>2, <2>6 DEF Held, Renudge, Current
  <2> QED
    BY <2>3, <2>4, <2>5, <2>7, TypePartsNext DEF IInv
<1>5. ASSUME NEW w \in work, MarkRung(w) PROVE IInv'
  <2>1. w \in Wakes /\ Current(w) /\ w.turn \in heard[w.id]
    BY <1>5 DEF TypeOK, Held, MarkRung
  <2>2. RowsOK' /\ RoomForTimeout' /\ DeliveredIsHeard'
    BY <1>5, <2>1, MarkKeeps DEF MarkRung
  <2>3. HeldOK'
    BY <1>5 DEF MarkRung, TypeOK, HeldOK
  <2>4. Held'
    BY <1>5 DEF MarkRung, Held, Current, history
  <2> QED
    BY <2>2, <2>3, <2>4, TypePartsNext DEF IInv
<1>6. ASSUME NEW w \in work, PassOver(w) PROVE IInv'
  <2>1. UNCHANGED <<rows, history, call>> /\ work' \subseteq work /\ rung' \subseteq rung
    BY <1>6 DEF PassOver
  <2>2. HeldOK'
    BY <1>6 DEF PassOver, TypeOK, HeldOK
  <2> QED
    BY <2>1, <2>2, IdleKeeps DEF Held
<1> QED
  BY <1>1, <1>2, <1>3, <1>4, <1>5, <1>6 DEF PulseStep

LEMMA WorldKeeps ==
    ASSUME IInv,
           \/ \E d \in Ids : FallSilent(d)
           \/ \E a \in Agents : LaneChange(a)
           \/ DaemonRestart
           \/ UNCHANGED vars
    PROVE  IInv'
<1> TypeOK /\ RoomForTimeout /\ Held /\ DeliveredIsHeard
  BY DEF IInv
<1>1. ASSUME NEW d \in Ids, FallSilent(d) PROVE IInv'
  <2>1. RowsOK' /\ RoomForTimeout' /\ DeliveredIsHeard'
    BY <1>1, TypeParts DEF FallSilent, RowsOK, RoomForTimeout, DeliveredIsHeard, history
  <2>2. HeldOK' /\ Held'
    BY <1>1 DEF FallSilent, TypeOK, HeldOK, Held, Current, history, reconcile
  <2> QED
    BY <2>1, <2>2, TypePartsNext DEF IInv
<1>2. ASSUME NEW a \in Agents, LaneChange(a) PROVE IInv'
  <2>1. HeldOK'
    BY <1>2 DEF LaneChange, TypeOK, HeldOK, reconcile
  <2> QED
    BY <1>2, <2>1, IdleKeeps DEF LaneChange, reconcile, Held
<1>3. CASE DaemonRestart
  <2>1. HeldOK'
    BY <1>3 DEF DaemonRestart, TypeOK, HeldOK
  <2> QED
    BY <1>3, <2>1, IdleKeeps DEF DaemonRestart
<1>4. CASE UNCHANGED vars
  <2>1. HeldOK'
    BY <1>4 DEF vars, TypeOK, HeldOK
  <2> QED
    BY <1>4, <2>1, IdleKeeps DEF vars, rows, history, Held
<1> QED
  BY <1>1, <1>2, <1>3, <1>4

THEOREM NextIInv == IInv /\ [Next]_vars => IInv'
BY VerbKeeps, CallKeeps, PulseKeeps, WorldKeeps DEF Next

\* The inductive invariant holds in every reachable state.
THEOREM Invariance == Spec => []IInv
BY InitIInv, NextIInv, PTL DEF Spec

\* The variables keep their types, and no row passes the bound on turns.
THEOREM TypeCorrect == Spec => []TypeOK
<1>1. IInv => TypeOK
  BY DEF IInv
<1> QED
  BY <1>1, Invariance, PTL

\* A row marked delivered was delivered, unless a transition overtook one of
\* its wakes (mark_delivered against apply_complete and the reconcile loop).
THEOREM DeliveredHeard == Spec => []DeliveredIsHeard
<1>1. IInv => DeliveredIsHeard
  BY DEF IInv
<1> QED
  BY <1>1, Invariance, PTL

-----------------------------------------------------------------------------
\* The WHERE clause of fail_timeout keeps a timeout from replacing a result
\* that arrived between list_stale_open and the UPDATE.
SparesResults ==
    \A d \in Ids : outcome'[d] = "timeout" /\ outcome[d] # "timeout"
                     => state[d] \in Open

LEMMA MoveSpares ==
    ASSUME TypeOK, NEW d \in Ids, NEW s, NEW o, Move(d, s, o),
           o = "timeout" => state[d] \in Open
    PROVE  SparesResults
BY DEF TypeOK, Move, SparesResults

THEOREM ResultsSpared == Spec => TimeoutSparesResults
<1>1. ASSUME TypeOK, [Next]_vars PROVE SparesResults
  <2>1. ASSUME NEW k \in Calls, NEW d \in Ids, Verb(k, d) PROVE SparesResults
    BY <1>1, <2>1, MoveSpares DEF Verb, Delegate, Respond, Complete, Outcomes
  <2>2. ASSUME NEW d \in Ids, FailTimeout(d) PROVE SparesResults
    BY <1>1, <2>2, MoveSpares DEF FailTimeout, CanTimeOut, SparesResults, rows
  <2>3. ASSUME outcome' = outcome PROVE SparesResults
    BY <2>3 DEF SparesResults
  <2>4. ASSUME NEW k \in Calls, CallStep(k) PROVE SparesResults
    BY <2>3, <2>4 DEF CallStep, Wake, Record, Abandon, SetDelivered, rows
  <2>5. CASE Tick \/ ListStaleOpen \/ TimeoutsDone \/ ListUndelivered \/ ReadLanes
             \/ PulseDone \/ PulseFails
    BY <2>3, <2>5 DEF Tick, ListStaleOpen, TimeoutsDone, ListUndelivered, ReadLanes,
                      PulseDone, PulseFails, rows
  <2>6. ASSUME NEW w \in work, Renudge(w) \/ MarkRung(w) \/ PassOver(w)
        PROVE  SparesResults
    BY <2>3, <2>6 DEF Renudge, MarkRung, PassOver, SetDelivered, rows
  <2>7. CASE \/ \E d \in Ids : FallSilent(d)
             \/ \E a \in Agents : LaneChange(a)
             \/ DaemonRestart
             \/ UNCHANGED vars
    BY <2>3, <2>7 DEF FallSilent, LaneChange, DaemonRestart, vars, rows
  <2> QED
    BY <1>1, <2>1, <2>2, <2>4, <2>5, <2>6, <2>7 DEF Next, PulseStep
<1> QED
  BY <1>1, TypeCorrect, PTL DEF Spec, TimeoutSparesResults, SparesResults
=============================================================================
