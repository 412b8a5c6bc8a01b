------------------------- MODULE WireDeliveryProofs -------------------------
(* Proofs about the delivery actor, for any commands, recipients and caps.  *)
EXTENDS WireDelivery, TLAPS

-----------------------------------------------------------------------------
(* The ledger entry of a pair is the number of times it was rung, as long   *)
(* as the pair can still be rung.  It stops being so when the GC drops the  *)
(* entry of a settled pair; such a pair is never owed again.                *)

NotYet(k) == k[1] \notin posted

CountsAgree ==
    \A k \in Pairs :
        /\ (k \in Live \/ k \in work \/ NotYet(k))
              => rung[k] = nudges[k] /\ launched[k] = dispatches[k]
        /\ NotYet(k) => /\ k \notin Live /\ k \notin work
                        /\ rung[k] = 0 /\ launched[k] = 0

IInv == TypeOK /\ CountsAgree /\ RingingIsBounded

LEMMA InvInit == Init => IInv
  <1> SUFFICES ASSUME Init PROVE IInv
    OBVIOUS
  <1> USE BoundAssumption DEF BoundAssumption, Init, Store!Init
  <1>1. TypeOK
    <2>1. /\ nudges \in [Pairs -> 0 .. MAX_NUDGES]
          /\ dispatches \in [Pairs -> 0 .. MAX_BG_DISPATCHES]
          /\ rung \in [Pairs -> Nat] /\ launched \in [Pairs -> Nat]
      OBVIOUS
    <2>2. /\ lane \in [Agents -> LaneStates]
          /\ laneView \in [Agents -> LaneStates]
          /\ cc \in [Agents -> Activity]
          /\ ccView \in [Agents -> Activity \cup {"unknown"}]
          /\ mode \in [Agents -> {"tui", "gui"}]
          /\ channel \in [Agents -> BOOLEAN]
      BY DEF LaneStates, Activity
    <2> QED
      BY <2>1, <2>2 DEF TypeOK
  <1>2. Live = {}
    BY DEF Live, Pairs
  <1>3. CountsAgree
    BY <1>2 DEF CountsAgree, NotYet
  <1>4. RingingIsBounded
    BY DEF RingingIsBounded
  <1> QED
    BY <1>1, <1>3, <1>4 DEF IInv

\* The ledger of commands never takes back what it settled.
LEMMA StoreShrinks ==
    ASSUME TypeOK,
           \/ \E m \in Commands, a \in Agents \cup Others : Store!Settle(m, a)
           \/ \E a \in Agents \cup Others, M \in SUBSET Commands : Store!Depart(a, M)
    PROVE  /\ posted' = posted
           /\ owed' \in [Commands -> SUBSET (Agents \cup Others)]
           /\ \A m \in Commands : owed'[m] \subseteq owed[m]
  BY DEF TypeOK, Store!Settle, Store!Depart

\* A step that only touches the world outside the actor.
LEMMA InvWorld ==
    ASSUME IInv,
           posted' = posted,
           owed' \in [Commands -> SUBSET (Agents \cup Others)],
           \A m \in Commands : owed'[m] \subseteq owed[m],
           lane' \in [Agents -> LaneStates], mode' \in [Agents -> {"tui", "gui"}],
           cc' \in [Agents -> Activity], channel' \in [Agents -> BOOLEAN],
           rested' \subseteq Pairs, bgRested' \subseteq Pairs,
           UNCHANGED <<wake, pulse, nudges, dispatches, counts>>
    PROVE  IInv'
  <1>1. TypeOK'
    BY DEF IInv, TypeOK, pulse, counts
  <1>2. Live' \subseteq Live
    BY DEF Live, Pairs
  <1>3. CountsAgree'
    BY <1>2 DEF IInv, CountsAgree, NotYet, pulse, counts
  <1> QED
    BY <1>1, <1>3 DEF IInv, RingingIsBounded, counts

LEMMA InvSend ==
    ASSUME IInv, NEW m \in Commands, Send(m) PROVE IInv'
  <1> USE DEF IInv, TypeOK, Send, Store!Post, world, pulse, ledger, counts
  <1>1. TypeOK'
    OBVIOUS
  <1>2. \A k \in Pairs : k[1] # m => (k \in Live' <=> k \in Live)
    BY DEF Live, Pairs
  <1>3. \A k \in Pairs : k[1] = m => /\ NotYet(k)
                                     /\ rung[k] = nudges[k]
                                     /\ launched[k] = dispatches[k]
    BY DEF CountsAgree, NotYet
  <1>4. CountsAgree'
    BY <1>2, <1>3 DEF CountsAgree, NotYet
  <1> QED
    BY <1>1, <1>4 DEF RingingIsBounded

LEMMA InvQuery == ASSUME IInv, Query PROVE IInv'
  <1> USE DEF IInv, TypeOK, Query, Kept, store, world, counts
  <1>1. Live' = Live /\ Live \subseteq Pairs
    BY DEF Live
  <1>2. TypeOK'
    BY <1>1, BoundAssumption DEF BoundAssumption
  <1>3. CountsAgree'
    BY <1>1 DEF CountsAgree, NotYet
  <1> QED
    BY <1>2, <1>3 DEF RingingIsBounded

\* A pair is handled: both counts of an attempt move together.
LEMMA InvHandled ==
    ASSUME IInv, NEW k \in Pairs,
           DispatchPair(k) \/ NudgePair(k) \/ NudgeFails(k) \/ SkipPair(k)
    PROVE  IInv'
  <1> USE BoundAssumption
      DEF IInv, TypeOK, Handled, store, world, ledger, counts, BoundAssumption
  <1>1. k \in work /\ work' = work \ {k} /\ Live' = Live /\ UNCHANGED posted
    BY DEF DispatchPair, NudgePair, NudgeFails, SkipPair, Live
  <1>2. rung[k] = nudges[k] /\ launched[k] = dispatches[k] /\ ~NotYet(k)
    BY <1>1 DEF CountsAgree
  <1>3. CASE DispatchPair(k)
    <2>1. dispatches[k] + 1 \in 0 .. MAX_BG_DISPATCHES
      BY <1>3 DEF DispatchPair, Due
    <2>2. TypeOK'
      BY <1>3, <2>1 DEF DispatchPair
    <2>3. CountsAgree'
      BY <1>1, <1>2, <1>3 DEF DispatchPair, CountsAgree, NotYet
    <2>4. RingingIsBounded'
      BY <1>2, <1>3, <2>1 DEF DispatchPair, RingingIsBounded
    <2> QED
      BY <2>2, <2>3, <2>4
  <1>4. CASE NudgePair(k)
    <2>1. nudges[k] + 1 \in 0 .. MAX_NUDGES
      BY <1>4 DEF NudgePair, Nudgeable, Due
    <2>2. TypeOK'
      BY <1>4, <2>1 DEF NudgePair
    <2>3. CountsAgree'
      BY <1>1, <1>2, <1>4 DEF NudgePair, CountsAgree, NotYet
    <2>4. RingingIsBounded'
      BY <1>2, <1>4, <2>1 DEF NudgePair, RingingIsBounded
    <2> QED
      BY <2>2, <2>3, <2>4
  <1>5. CASE NudgeFails(k) \/ SkipPair(k)
    <2>1. TypeOK'
      BY <1>5 DEF NudgeFails, SkipPair
    <2>2. CountsAgree'
      BY <1>1, <1>5 DEF NudgeFails, SkipPair, CountsAgree, NotYet
    <2> QED
      BY <1>5, <2>1, <2>2 DEF NudgeFails, SkipPair, RingingIsBounded
  <1> QED
    BY <1>3, <1>4, <1>5

LEMMA InvRestart == ASSUME IInv, Restart PROVE IInv'
  <1> USE DEF IInv, TypeOK, Restart, store
  <1>1. Live' = Live
    BY DEF Live
  <1>2. TypeOK'
    <2>1. /\ nudges' \in [Pairs -> 0 .. MAX_NUDGES]
          /\ dispatches' \in [Pairs -> 0 .. MAX_BG_DISPATCHES]
          /\ rung' \in [Pairs -> Nat] /\ launched' \in [Pairs -> Nat]
      BY BoundAssumption DEF BoundAssumption
    <2>2. /\ lane' \in [Agents -> LaneStates]
          /\ laneView' \in [Agents -> LaneStates]
          /\ ccView' \in [Agents -> Activity \cup {"unknown"}]
          /\ channel' \in [Agents -> BOOLEAN]
      BY DEF LaneStates
    <2> QED
      BY <2>1, <2>2
  <1>3. CountsAgree'
    BY <1>1 DEF CountsAgree, NotYet
  <1> QED
    BY <1>2, <1>3, BoundAssumption DEF RingingIsBounded, BoundAssumption

LEMMA InvStep == IInv /\ [Next]_vars => IInv'
  <1> SUFFICES ASSUME IInv, [Next]_vars PROVE IInv'
    OBVIOUS
  <1> USE DEF IInv, TypeOK
  <1>1. CASE AckOrLeave
    BY <1>1, StoreShrinks, InvWorld DEF AckOrLeave, world, ledger, pulse, counts
  <1>2. ASSUME NEW a \in Agents, WorldStep(a) PROVE IInv'
    <2>1. /\ lane' \in [Agents -> LaneStates] /\ mode' \in [Agents -> {"tui", "gui"}]
          /\ cc' \in [Agents -> Activity] /\ channel' \in [Agents -> BOOLEAN]
      BY <1>2 DEF WorldStep
    <2> QED
      BY <1>2, <2>1, InvWorld DEF WorldStep, store, ledger, pulse, counts
  <1>3. ASSUME NEW k \in Pairs, NudgeRests(k) \/ DispatchRests(k) PROVE IInv'
    BY <1>3, InvWorld DEF NudgeRests, DispatchRests, store, world, pulse, counts
  <1>4. CASE Rouse \/ ReadLanes \/ Poll
    <2>1. TypeOK'
      BY <1>4 DEF Rouse, ReadLanes, Poll, store, world, ledger, counts
    <2>2. Live' = Live /\ work' \subseteq work /\ UNCHANGED posted
      BY <1>4 DEF Rouse, ReadLanes, Poll, store, Live
    <2>3. UNCHANGED <<nudges, dispatches, rung, launched>>
      BY <1>4 DEF Rouse, ReadLanes, Poll, ledger, counts
    <2>4. CountsAgree'
      BY <2>2, <2>3 DEF CountsAgree, NotYet
    <2> QED
      BY <2>1, <2>3, <2>4 DEF RingingIsBounded
  <1>5. CASE UNCHANGED vars
    BY <1>5, InvWorld DEF vars, pulse, counts
  <1> QED
    BY <1>1, <1>2, <1>3, <1>4, <1>5, InvSend, InvQuery, InvHandled, InvRestart
    DEF Next, PulseStep

\* Every variable of the actor keeps its type; the ledgers stay within their
\* caps.
THEOREM TypeCorrect == Spec => []TypeOK
  <1>1. IInv => TypeOK
    BY DEF IInv
  <1> QED
    BY <1>1, InvInit, InvStep, PTL DEF Spec

\* Between two restarts of the daemon a recipient is rung about a command at
\* most MAX_NUDGES times, and dispatched at most MAX_BG_DISPATCHES times.
THEOREM RingingBounded == Spec => []RingingIsBounded
  <1>1. IInv => RingingIsBounded
    BY DEF IInv
  <1> QED
    BY <1>1, InvInit, InvStep, PTL DEF Spec
=============================================================================
