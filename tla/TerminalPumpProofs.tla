------------------------- MODULE TerminalPumpProofs -------------------------
(***************************************************************************)
(* No pump escapes the table; calls that apply in the order they read leave*)
(* every live slot with one pump; and the screens show all that their      *)
(* slots printed: for any number of sessions, callers, subscriptions and   *)
(* processes, and any amount of output.                                    *)
(***************************************************************************)
EXTENDS TerminalPump, TLAPS, WellFoundedInduction

\* What a call's record is made of.
Fields == {"at", "force", "demand", "epoch", "known", "live", "attach", "removed"}
Formed(r) == DOMAIN r = Fields

Stages == {"idle", "known", "attach", "apply", "abort"}

CallsOK ==
    /\ call = [c \in Callers |-> call[c]]
    /\ \A c \in Callers :
          /\ Formed(call[c]) /\ call[c].at \in Stages /\ call[c].demand \in BOOLEAN
          /\ call[c].removed \subseteq Handles
          \* only a call that aborts holds handles, and only one that applies holds slots
          /\ call[c].at # "abort" => call[c].removed = {}
          /\ call[c].at # "apply" => call[c].attach = {}

\* What a call is about to attach: processes of this lane, one for a session.
AttachOK ==
    \A c \in Callers :
        /\ ~call[c].demand => call[c].attach = {}
        /\ \A a \in call[c].attach :
              /\ a.session \in Sessions /\ a.pid \in 1 .. nextPid - 1 /\ a.shown \in 0 .. out[a.pid]
              /\ \A b \in call[c].attach : a.session = b.session => a = b

TableOK ==
    /\ table = [s \in Sessions |-> table[s]]
    /\ \A s \in Sessions : table[s] = NoPump \/ (table[s].id \in Handles /\ table[s].pid \in 1 .. nextPid - 1)
    \* no pump is on record twice, and none that is to be aborted
    /\ \A s, q \in Sessions : table[s].id = table[q].id => s = q \/ table[s] = NoPump
    /\ \A s \in Sessions, c \in Callers : table[s].id \notin call[c].removed

PumpsOK ==
    \A k \in pumps :
        /\ k \in [id : Handles, session : Sessions, pid : Pids, shown : Nat, live : BOOLEAN]
        /\ k.pid < nextPid /\ k.shown <= out[k.pid]
        \* the record of a pump is true of it
        /\ \A s \in Sessions : table[s].id = k.id => k.session = s /\ k.pid = table[s].pid

Typed ==
    /\ slot \in [Sessions -> 0 .. nextPid - 1] /\ nextPid \in 1 .. MAX_PIDS + 1
    /\ out \in [Pids -> Nat] /\ \A p \in Pids : out[p] <= MAX_OUT[p]
    /\ view \in [Views -> {"none", "open", "gone"}] /\ ready \subseteq Views
    /\ plain \in Nat /\ forced \in Nat /\ plain + forced <= MAX_ASKED
    /\ disturbed \subseteq Sessions /\ overtaken \subseteq Callers /\ outOfOrder \in BOOLEAN
    /\ \A s, t \in Live : slot[s] = slot[t] => s = t

\* A call that is alone with its reading: nothing waits, nobody applied over it.
Alone(c) ==
    /\ plain = 0 /\ forced = 0 /\ c \notin overtaken
    /\ \A d \in Callers \ {c} : call[d].at \in {"idle", "abort"}

KnownIsTrue(r) ==
    \A s \in Sessions, p \in Pids : <<s, p, r.epoch>> \in r.known =>
        table[s].pid = p /\ (Runs(table[s]) \/ slot[s] # p)

AttachIsTrue(r) ==
    /\ r.live = Live
    /\ \A a \in r.attach : a.pid = slot[a.session] /\ a.session \in Live
    /\ r.demand => \A s \in Live : \/ \E a \in r.attach : a.session = s
                                   \/ table[s].pid = slot[s] /\ Runs(table[s])

\* What such a call has read still holds.
ReadingHolds ==
    \A c \in Callers : Alone(c) =>
        /\ call[c].at \in {"known", "attach", "apply"} =>
              call[c].demand = demand_active
        /\ call[c].at = "attach" => KnownIsTrue(call[c])
        /\ call[c].at = "apply" => AttachIsTrue(call[c])

IInv == /\ Typed /\ CallsOK /\ AttachOK /\ TableOK /\ PumpsOK
        /\ NoStrayPump /\ ReadingHolds /\ ConvergesInOrder

-----------------------------------------------------------------------------
LEMMA InitIInv == Init => IInv
<1> SUFFICES ASSUME Init PROVE IInv
  OBVIOUS
<1>1. /\ \A s \in Sessions : slot[s] = 0 /\ table[s] = NoPump
      /\ \A c \in Callers : call[c] = Idle
      /\ Subscribed = {} /\ Live = {} /\ pumps = {}
  BY DEF Init, Subscribed, Live
<1>2. Typed
  <2>1. slot \in [Sessions -> 0 .. nextPid - 1] /\ nextPid \in 1 .. MAX_PIDS + 1
    BY BoundsAssumption DEF Init
  <2>2. /\ out \in [Pids -> Nat] /\ \A p \in Pids : out[p] <= MAX_OUT[p]
        /\ view \in [Views -> {"none", "open", "gone"}]
    BY BoundsAssumption DEF Init, Pids
  <2>3. plain \in Nat /\ forced \in Nat /\ plain + forced <= MAX_ASKED
    BY BoundsAssumption DEF Init
  <2> QED
    BY <1>1, <2>1, <2>2, <2>3 DEF Init, Typed
<1>3. CallsOK /\ AttachOK
  BY <1>1 DEF Init, CallsOK, AttachOK, Formed, Fields, Idle, Stages
<1>4. TableOK /\ PumpsOK /\ NoStrayPump
  BY <1>1 DEF Init, TableOK, PumpsOK, NoStrayPump, NoPump, Idle
<1>5. ReadingHolds
  BY <1>1 DEF Init, ReadingHolds, Idle
<1>6. ConvergesInOrder
  BY <1>1 DEF ConvergesInOrder, Served, demand_active
<1> QED
  BY <1>2, <1>3, <1>4, <1>5, <1>6 DEF IInv

-----------------------------------------------------------------------------
(* What changes neither the calls nor the pumps.                           *)

\* While a call is to come, nothing is claimed of what was read or reached.
LEMMA ToCome ==
    ASSUME IInv, UNCHANGED <<table, pumps, call, overtaken, outOfOrder>>,
           plain' > 0 \/ forced' > 0
    PROVE  NoStrayPump' /\ ReadingHolds' /\ ConvergesInOrder' /\ CallsOK'
<1>1. ~(plain' = 0 /\ forced' = 0)
  BY SMT
<1>2. NoStrayPump'
  BY DEF IInv, NoStrayPump
<1>3. ReadingHolds' /\ ConvergesInOrder'
  BY <1>1 DEF ReadingHolds, Alone, ConvergesInOrder, Quiet
<1>4. CallsOK'
  BY DEF IInv, CallsOK, Formed
<1> QED
  BY <1>2, <1>3, <1>4

LEMMA StartSlotKeeps ==
    ASSUME IInv, NEW s \in Sessions, StartSlot(s)
    PROVE  IInv'
<1> USE DEF IInv
<1>1. plain' \in Nat /\ forced' \in Nat /\ (plain' > 0 \/ forced' > 0) /\ plain' + forced' <= MAX_ASKED
  BY BoundsAssumption DEF StartSlot, Spawned, Typed
<1>2. /\ UNCHANGED <<table, pumps, call, overtaken, outOfOrder, disturbed, out, view, ready>>
      /\ nextPid \in Pids /\ nextPid' = nextPid + 1
      /\ slot' = [slot EXCEPT ![s] = nextPid]
  BY DEF StartSlot, surface, history
<1>3. Typed'
  <2>1. slot' \in [Sessions -> 0 .. nextPid' - 1] /\ nextPid' \in 1 .. MAX_PIDS + 1
    BY <1>2, BoundsAssumption DEF Typed, Pids
  <2>2. \A r, t \in Live' : slot'[r] = slot'[t] => r = t
    BY <1>2 DEF Typed, Live, Pids
  <2> QED
    BY <1>1, <1>2, <2>1, <2>2 DEF Typed, Views, Pids
<1>4. AttachOK'
  BY <1>2 DEF AttachOK, Typed, Pids
<1>5. TableOK'
  BY <1>2 DEF TableOK, Typed, Pids
<1>6. PumpsOK'
  BY <1>2 DEF PumpsOK, Typed, Pids
<1> QED
  BY <1>1, <1>2, <1>3, <1>4, <1>5, <1>6, ToCome

LEMMA DropSlotKeeps ==
    ASSUME IInv, NEW s \in Sessions, DropSlot(s)
    PROVE  IInv'
<1> USE DEF IInv
<1>1. plain' \in Nat /\ forced' \in Nat /\ (plain' > 0 \/ forced' > 0) /\ plain' + forced' <= MAX_ASKED
  BY BoundsAssumption DEF DropSlot, Spawned, Typed
<1>2. /\ UNCHANGED <<table, pumps, call, overtaken, outOfOrder, disturbed, out, view, ready, nextPid>>
      /\ slot' = [slot EXCEPT ![s] = 0]
  BY DEF DropSlot, surface, history
<1>3. Typed'
  BY <1>1, <1>2 DEF Typed, Views, Pids, Live
<1>4. AttachOK' /\ TableOK' /\ PumpsOK'
  BY <1>2 DEF AttachOK, TableOK, PumpsOK
<1> QED
  BY <1>1, <1>2, <1>3, <1>4, ToCome

LEMMA SubscriptionsKeep ==
    ASSUME IInv, NEW v \in Views,
           \/ \E loaded \in BOOLEAN : Subscribe(v, loaded)
           \/ Unsubscribe(v)
           \/ ScriptReady(v)
    PROVE  IInv'
<1> USE DEF IInv
<1>1. plain' \in Nat /\ forced' \in Nat /\ (plain' > 0 \/ forced' > 0) /\ plain' + forced' <= MAX_ASKED
  BY BoundsAssumption DEF Subscribe, Unsubscribe, ScriptReady, Hook, Spawned, Typed
<1>2. UNCHANGED <<table, pumps, call, overtaken, outOfOrder, disturbed, slot, nextPid, out>>
  BY DEF Subscribe, Unsubscribe, ScriptReady, lane, history
<1>3. view' \in [Views -> {"none", "open", "gone"}] /\ ready' \subseteq Views
  BY DEF Subscribe, Unsubscribe, ScriptReady, Typed
<1>4. Typed'
  BY <1>1, <1>2, <1>3 DEF Typed, Views, Pids, Live
<1>5. AttachOK' /\ TableOK' /\ PumpsOK'
  BY <1>2 DEF AttachOK, TableOK, PumpsOK
<1> QED
  BY <1>1, <1>2, <1>4, <1>5, ToCome

LEMMA OutputKeeps ==
    ASSUME IInv, NEW s \in Sessions, Output(s)
    PROVE  IInv'
<1> USE DEF IInv
<1>1. /\ UNCHANGED <<slot, nextPid, view, ready, table, pumps, plain, forced, call,
                     overtaken, outOfOrder, disturbed>>
      /\ slot[s] \in Pids /\ out' = [out EXCEPT ![slot[s]] = @ + 1]
      /\ out[slot[s]] < MAX_OUT[slot[s]]
  BY BoundsAssumption DEF Output, surface, work, history, Typed, Pids
<1>2. out' \in [Pids -> Nat] /\ \A p \in Pids : out[p] <= out'[p] /\ out'[p] <= MAX_OUT[p]
  BY <1>1, BoundsAssumption DEF Typed, Pids
<1>3. Typed'
  BY <1>1, <1>2 DEF Typed, Views, Pids, Live
<1>4. AttachOK'
  <2> SUFFICES ASSUME NEW c \in Callers, NEW a \in call[c].attach
               PROVE  a.shown \in 0 .. out'[a.pid]
    BY <1>1 DEF AttachOK
  <2>1. a.pid \in Pids
    BY BoundsAssumption DEF AttachOK, Typed, Pids
  <2> QED
    BY <1>2, <2>1 DEF AttachOK, Typed
<1>5. PumpsOK'
  <2> SUFFICES ASSUME NEW k \in pumps PROVE k.shown <= out'[k.pid]
    BY <1>1 DEF PumpsOK
  <2>1. k.pid \in Pids /\ k.shown \in Nat
    BY DEF PumpsOK
  <2> QED
    BY <1>2, <2>1 DEF PumpsOK, Typed
<1>6. TableOK' /\ CallsOK' /\ NoStrayPump'
  BY <1>1 DEF TableOK, CallsOK, Formed, NoStrayPump
<1>7. ReadingHolds' /\ ConvergesInOrder'
  BY <1>1 DEF ReadingHolds, Alone, KnownIsTrue, AttachIsTrue, Live, Runs, demand_active,
              Subscribed, ConvergesInOrder, Quiet, Served
<1> QED
  BY <1>3, <1>4, <1>5, <1>6, <1>7

-----------------------------------------------------------------------------
(* The steps of a call.                                                    *)

LEMMA OneCall ==
    ASSUME CallsOK, NEW c \in Callers, NEW r, call' = [call EXCEPT ![c] = r]
    PROVE  /\ call' = [d \in Callers |-> call'[d]] /\ call'[c] = r
           /\ \A d \in Callers \ {c} : call'[d] = call[d]
<1>1. call' = [d \in Callers |-> IF d = c THEN r ELSE call[d]]
  BY DEF CallsOK
<1> QED
  BY <1>1

LEMMA ReadDemandKeeps ==
    ASSUME IInv, NEW c \in Callers, ReadDemand(c)
    PROVE  IInv'
<1> USE DEF IInv
<1>0. PICK r : r = [Idle EXCEPT !.at = "known", !.force = forced' < forced,
                               !.demand = demand_active, !.epoch = subscriber_epoch]
  OBVIOUS
<1>1. /\ UNCHANGED <<slot, nextPid, out, view, ready, screen, table, pumps, outOfOrder, disturbed>>
      /\ call' = [call EXCEPT ![c] = r] /\ overtaken' = overtaken \ {c} /\ call[c].at = "idle"
  BY <1>0 DEF ReadDemand, lane, surface
<1>2. /\ Formed(r) /\ r.at = "known" /\ r.demand = demand_active /\ r.attach = {} /\ r.removed = {}
  BY <1>0 DEF Formed, Fields, Idle
<1>3. /\ call' = [d \in Callers |-> call'[d]] /\ call'[c] = r
      /\ \A d \in Callers \ {c} : call'[d] = call[d]
  BY <1>1, OneCall
<1>4. demand_active \in BOOLEAN /\ demand_active' = demand_active
  BY <1>1 DEF demand_active, Subscribed
<1>5. CallsOK'
  BY <1>2, <1>3, <1>4 DEF CallsOK, Stages
<1>6. AttachOK'
  BY <1>1, <1>2, <1>3 DEF AttachOK
<1>7. TableOK' /\ PumpsOK' /\ NoStrayPump'
  <2>1. \A d \in Callers : call'[d].removed = call[d].removed
    BY <1>1, <1>2, <1>3 DEF CallsOK
  <2> QED
    BY <1>1, <2>1 DEF TableOK, PumpsOK, NoStrayPump
<1>8. Typed'
  <2>1. plain' \in Nat /\ forced' \in Nat /\ plain' + forced' <= MAX_ASKED
    BY BoundsAssumption DEF ReadDemand, Ask, Typed
  <2> QED
    BY <1>1, <2>1 DEF Typed, Views, Pids, Live
<1>9. ReadingHolds'
  BY <1>2, <1>3, <1>4 DEF ReadingHolds, Alone
<1>10. ConvergesInOrder'
  BY <1>2, <1>3 DEF ConvergesInOrder, Quiet
<1> QED
  BY <1>5, <1>6, <1>7, <1>8, <1>9, <1>10

LEMMA ReadPumpsKeeps ==
    ASSUME IInv, NEW c \in Callers, ReadPumps(c)
    PROVE  IInv'
<1> USE DEF IInv
<1> DEFINE K == {<<s, table[s].pid, table[s].epoch>> : s \in {q \in Sessions : Runs(table[q])}}
<1>0. PICK r : r = [call[c] EXCEPT !.at = "attach", !.known = K]
  OBVIOUS
<1>1. /\ UNCHANGED <<slot, nextPid, out, view, ready, screen, table, pumps, plain, forced,
                     overtaken, outOfOrder, disturbed>>
      /\ call' = [call EXCEPT ![c] = r] /\ call[c].at = "known"
  BY <1>0 DEF ReadPumps, lane, surface, work, history
<1>2. /\ Formed(r) /\ r.at = "attach" /\ r.demand = call[c].demand /\ r.known = K
      /\ r.attach = {} /\ r.removed = {}
  <2>1. Formed(call[c]) /\ call[c].attach = {} /\ call[c].removed = {}
    BY <1>1 DEF CallsOK
  <2> HIDE DEF K
  <2> QED
    BY <1>0, <2>1 DEF Formed, Fields
<1>3. /\ call' = [d \in Callers |-> call'[d]] /\ call'[c] = r
      /\ \A d \in Callers \ {c} : call'[d] = call[d]
  BY <1>1, OneCall
<1>5. CallsOK'
  BY <1>2, <1>3 DEF CallsOK, Stages
<1>6. AttachOK'
  BY <1>1, <1>2, <1>3 DEF AttachOK
<1>7. TableOK' /\ PumpsOK' /\ NoStrayPump'
  <2>1. \A d \in Callers : call'[d].removed = call[d].removed
    BY <1>1, <1>2, <1>3 DEF CallsOK
  <2> QED
    BY <1>1, <2>1 DEF TableOK, PumpsOK, NoStrayPump
<1>8. Typed'
  BY <1>1 DEF Typed, Views, Pids, Live
<1>9. ReadingHolds'
  <2> SUFFICES ASSUME NEW d \in Callers, Alone(d)'
               PROVE  /\ call'[d].at \in {"known", "attach", "apply"} =>
                             call'[d].demand = demand_active'
                      /\ call'[d].at = "attach" => KnownIsTrue(call[d])'
                      /\ call'[d].at = "apply" => AttachIsTrue(call[d])'
    BY DEF ReadingHolds
  <2>1. d = c
    BY <1>2, <1>3 DEF Alone
  <2>2. Alone(c)
    BY <1>1, <1>3, <2>1 DEF Alone
  <2>3. r.demand = demand_active'
    BY <1>1, <1>2, <2>2 DEF ReadingHolds, demand_active, Subscribed
  <2>4. KnownIsTrue(call[c])'
    BY <1>1, <1>2, <1>3 DEF KnownIsTrue, Runs
  <2> QED
    BY <1>2, <1>3, <2>1, <2>3, <2>4
<1>10. ConvergesInOrder'
  BY <1>2, <1>3 DEF ConvergesInOrder, Quiet
<1> QED
  BY <1>5, <1>6, <1>7, <1>8, <1>9, <1>10

LEMMA AttachKeeps ==
    ASSUME IInv, NEW c \in Callers, Attach(c)
    PROVE  IInv'
<1> USE DEF IInv
<1> DEFINE A == {[session |-> s, pid |-> slot[s], shown |-> out[slot[s]]] : s \in Wanting(call[c])}
<1>0. PICK r : r = [Idle EXCEPT !.at = "apply", !.demand = call[c].demand, !.epoch = call[c].epoch,
                               !.live = Live, !.attach = A]
  OBVIOUS
<1>1. /\ UNCHANGED <<slot, nextPid, out, view, ready, screen, table, pumps, plain, forced,
                     overtaken, outOfOrder, disturbed>>
      /\ call' = [call EXCEPT ![c] = r] /\ call[c].at = "attach"
  BY <1>0 DEF Attach, lane, surface, work, history
<1>2. /\ Formed(r) /\ r.at = "apply" /\ r.demand = call[c].demand /\ r.live = Live
      /\ r.attach = A /\ r.removed = {}
  <2> HIDE DEF A
  <2> QED
    BY <1>0 DEF Formed, Fields, Idle
<1>3. /\ call' = [d \in Callers |-> call'[d]] /\ call'[c] = r
      /\ \A d \in Callers \ {c} : call'[d] = call[d]
  BY <1>1, OneCall
<1>4. \A a \in A : /\ a.session \in Live /\ a.session \in Wanting(call[c])
                   /\ a.pid = slot[a.session] /\ a.shown = out[slot[a.session]]
  <2>1. Wanting(call[c]) \subseteq Live
    BY DEF Wanting
  <2> HIDE DEF Wanting
  <2> SUFFICES ASSUME NEW s \in Wanting(call[c]), NEW a,
                      a = [session |-> s, pid |-> slot[s], shown |-> out[slot[s]]]
               PROVE  a.session = s /\ a.pid = slot[s] /\ a.shown = out[slot[s]]
    BY <2>1
  <2> QED
    OBVIOUS
<1>5. CallsOK'
  BY <1>1, <1>2, <1>3 DEF CallsOK, Stages
<1>6. AttachOK'
  <2>1. ~call[c].demand => A = {}
    BY DEF Wanting
  <2>2. \A a \in A : /\ a.session \in Sessions /\ a.pid \in 1 .. nextPid - 1
                     /\ a.shown \in 0 .. out[a.pid]
    BY <1>4, BoundsAssumption DEF Live, Typed, Pids
  <2>3. \A a, b \in A : a.session = b.session => a = b
    OBVIOUS
  <2> QED
    BY <1>1, <1>2, <1>3, <2>1, <2>2, <2>3 DEF AttachOK
<1>7. TableOK' /\ PumpsOK' /\ NoStrayPump'
  <2>1. \A d \in Callers : call'[d].removed = call[d].removed
    BY <1>1, <1>2, <1>3 DEF CallsOK
  <2> QED
    BY <1>1, <2>1 DEF TableOK, PumpsOK, NoStrayPump
<1>8. Typed'
  BY <1>1 DEF Typed, Views, Pids, Live
<1>9. ReadingHolds'
  <2> SUFFICES ASSUME NEW d \in Callers, Alone(d)'
               PROVE  /\ call'[d].at \in {"known", "attach", "apply"} =>
                             call'[d].demand = demand_active'
                      /\ call'[d].at = "attach" => KnownIsTrue(call[d])'
                      /\ call'[d].at = "apply" => AttachIsTrue(call[d])'
    BY DEF ReadingHolds
  <2>1. d = c
    BY <1>2, <1>3 DEF Alone
  <2>2. Alone(c)
    BY <1>1, <1>3, <2>1 DEF Alone
  <2>3. r.demand = demand_active'
    BY <1>1, <1>2, <2>2 DEF ReadingHolds, demand_active, Subscribed
  <2>5. \A s \in Live : \/ ~call[c].demand \/ s \in Wanting(call[c])
                        \/ <<s, slot[s], call[c].epoch>> \in call[c].known
    BY DEF Wanting
  <2>6. \A s \in Live : \/ ~call[c].demand \/ s \in Wanting(call[c])
                        \/ table[s].pid = slot[s] /\ Runs(table[s])
    <3>1. KnownIsTrue(call[c])
      BY <1>1, <2>2 DEF ReadingHolds
    <3>2. \A s \in Live : s \in Sessions /\ slot[s] \in Pids
      BY BoundsAssumption DEF Live, Typed, Pids
    <3> QED
      BY <2>5, <3>1, <3>2 DEF KnownIsTrue
  <2>7. \A s \in Wanting(call[c]) : \E a \in A : a.session = s
    <3> TAKE s \in Wanting(call[c])
    <3> DEFINE a == [session |-> s, pid |-> slot[s], shown |-> out[slot[s]]]
    <3>1. a \in A /\ a.session = s
      OBVIOUS
    <3> QED
      BY <3>1
  <2>8. AttachIsTrue(r)
    <3> HIDE DEF A
    <3> QED
      BY <1>2, <1>4, <2>6, <2>7 DEF AttachIsTrue, Wanting
  <2>9. AttachIsTrue(call[c])'
    BY <1>1, <1>3, <2>8 DEF AttachIsTrue, Live, Runs
  <2> QED
    BY <1>2, <1>3, <2>1, <2>3, <2>9
<1>10. ConvergesInOrder'
  BY <1>2, <1>3 DEF ConvergesInOrder, Quiet
<1> QED
  BY <1>5, <1>6, <1>7, <1>8, <1>9, <1>10

LEMMA AbortKeeps ==
    ASSUME IInv, NEW c \in Callers, Abort(c)
    PROVE  IInv'
<1> USE DEF IInv
<1>1. /\ UNCHANGED <<slot, nextPid, out, view, ready, screen, table, plain, forced,
                     overtaken, outOfOrder, disturbed>>
      /\ call' = [call EXCEPT ![c] = Idle] /\ call[c].at = "abort"
      /\ pumps' = {k \in pumps : k.id \notin call[c].removed}
  BY DEF Abort, lane, surface, work, history
<1>2. /\ Formed(Idle) /\ Idle.at = "idle" /\ Idle.demand = FALSE
      /\ Idle.attach = {} /\ Idle.removed = {}
  BY DEF Formed, Fields, Idle
<1>3. /\ call' = [d \in Callers |-> call'[d]] /\ call'[c] = Idle
      /\ \A d \in Callers \ {c} : call'[d] = call[d]
  BY <1>1, OneCall
<1>4. \A s \in Sessions : Runs(table[s]) => Runs(table[s])'
  BY <1>1 DEF Runs, TableOK
<1>5. CallsOK' /\ AttachOK'
  BY <1>1, <1>2, <1>3 DEF CallsOK, AttachOK, Stages
<1>6. TableOK' /\ PumpsOK'
  BY <1>1, <1>2, <1>3 DEF TableOK, PumpsOK
<1>7. NoStrayPump'
  BY <1>1, <1>3 DEF NoStrayPump
<1>8. Typed'
  BY <1>1 DEF Typed, Views, Pids, Live
<1>9. ReadingHolds'
  <2> SUFFICES ASSUME NEW d \in Callers, Alone(d)'
               PROVE  /\ call'[d].at \in {"known", "attach", "apply"} =>
                             call'[d].demand = demand_active'
                      /\ call'[d].at = "attach" => KnownIsTrue(call[d])'
                      /\ call'[d].at = "apply" => AttachIsTrue(call[d])'
    BY DEF ReadingHolds
  <2>1. CASE d = c
    BY <1>2, <1>3, <2>1
  <2>2. CASE d # c
    <3>1. Alone(d) /\ call'[d] = call[d]
      BY <1>1, <1>2, <1>3, <2>2 DEF Alone
    <3> QED
      BY <1>1, <1>4, <3>1 DEF ReadingHolds, KnownIsTrue, AttachIsTrue, Live, demand_active, Subscribed
  <2> QED
    BY <2>1, <2>2
<1>10. ConvergesInOrder'
  BY <1>1, <1>2, <1>3, <1>4 DEF ConvergesInOrder, Quiet, Served, Live, demand_active, Subscribed
<1> QED
  BY <1>5, <1>6, <1>7, <1>8, <1>9, <1>10

LEMMA ApplyKeeps ==
    ASSUME IInv, NEW c \in Callers, Apply(c)
    PROVE  IInv'
<1> USE DEF IInv
<1> DEFINE New == {a.session : a \in call[c].attach}
           PidOf(s) == (CHOOSE a \in call[c].attach : a.session = s).pid
           Fresh(id) == {[id |-> id[a.session], session |-> a.session, pid |-> a.pid,
                          shown |-> a.shown, live |-> FALSE] : a \in call[c].attach}
<1>0. PICK r : r = [Idle EXCEPT !.at = "abort", !.removed = Removed(call[c])]
  OBVIOUS
<1>1. PICK id \in [New -> Handles] :
         /\ \A s \in New : id[s] \notin InUse /\ \A q \in New : id[s] = id[q] => s = q
         /\ table' = [s \in Sessions |->
                        IF s \in New THEN [pid |-> PidOf(s), epoch |-> call[c].epoch, id |-> id[s]]
                        ELSE IF call[c].demand /\ s \in call[c].live THEN table[s] ELSE NoPump]
         /\ pumps' = pumps \cup Fresh(id)
  BY DEF Apply
<1>2. /\ UNCHANGED <<slot, nextPid, out, view, ready, screen, plain, forced>>
      /\ disturbed' = IF c \in overtaken THEN disturbed \cup New ELSE disturbed
      /\ call' = [call EXCEPT ![c] = r] /\ call[c].at = "apply"
      /\ overtaken' = overtaken \cup {d \in Callers \ {c} : call[d].at \in {"known", "attach", "apply"}}
      /\ outOfOrder' = (c \in overtaken)
  BY <1>0 DEF Apply, lane, surface, work
<1>3. Formed(r) /\ r.at = "abort" /\ r.removed = Removed(call[c]) /\ r.attach = {} /\ r.demand = FALSE
  <2> HIDE DEF Removed
  <2> QED
    BY <1>0 DEF Formed, Fields, Idle
<1>4. /\ call' = [d \in Callers |-> call'[d]] /\ call'[c] = r
      /\ \A d \in Callers \ {c} : call'[d] = call[d]
  BY <1>2, OneCall
\* What is attached, inserted and removed.
<1>5. \A a \in call[c].attach : a.session \in New /\ PidOf(a.session) = a.pid
  BY DEF AttachOK
<1>6. New \subseteq Sessions /\ \A s \in New : \E a \in call[c].attach : a.session = s
  BY DEF AttachOK
<1>7. \A s \in New : PidOf(s) \in 1 .. nextPid - 1
  BY <1>5, <1>6 DEF AttachOK
<1> HIDE DEF New, PidOf
<1>8. /\ table' = [s \in Sessions |-> table'[s]]
      /\ \A s \in New : /\ table'[s].pid = PidOf(s) /\ table'[s].id = id[s]
                        /\ id[s] \in Handles /\ id[s] \notin InUse
      /\ \A s \in Sessions \ New : table'[s] = table[s] \/ table'[s] = NoPump
  BY <1>1, <1>6
<1>9. Removed(call[c]) \subseteq Handles
  BY DEF Removed, TableOK
<1>10. \A s \in Sessions : \/ table[s] = NoPump
                           \/ table[s].id \in Removed(call[c])
                           \/ s \notin New /\ table'[s] = table[s]
  BY <1>1 DEF Removed, New
<1>11. \A s \in Sessions : table[s].id \in InUse
  BY DEF InUse
<1>12. \A k \in pumps : k.id \in InUse
  BY DEF InUse
<1>13. \A d \in Callers : call[d].removed \subseteq InUse
  BY DEF InUse
<1>14. \A m \in Removed(call[c]) : m \in InUse /\ \A s \in Sessions : s \notin New => table'[s].id # m
  <2> SUFFICES ASSUME NEW q \in Sessions, table[q] # NoPump,
                      q \in New \/ ~call[c].demand \/ q \notin call[c].live
               PROVE  /\ table[q].id \in InUse
                      /\ \A s \in Sessions : s \notin New => table'[s].id # table[q].id
    BY DEF Removed, New
  <2>1. table[q].id \in Handles /\ "none" \notin Handles
    BY HandlesAssumption DEF TableOK
  <2>2. ASSUME NEW s \in Sessions, s \notin New PROVE table'[s].id # table[q].id
    <3>1. CASE call[c].demand /\ s \in call[c].live
      BY <1>1, <2>1, <2>2, <3>1 DEF TableOK
    <3>2. CASE ~(call[c].demand /\ s \in call[c].live)
      BY <1>1, <2>1, <2>2, <3>2 DEF NoPump
    <3> QED
      BY <3>1, <3>2
  <2> QED
    BY <1>11, <2>2
<1>15. \A k \in Fresh(id) : \E a \in call[c].attach :
          /\ k = [id |-> id[a.session], session |-> a.session, pid |-> a.pid,
                  shown |-> a.shown, live |-> FALSE]
  OBVIOUS
<1>16. \A a \in call[c].attach : \E k \in Fresh(id) : k.id = id[a.session]
  <2> TAKE a \in call[c].attach
  <2> DEFINE k == [id |-> id[a.session], session |-> a.session, pid |-> a.pid,
                   shown |-> a.shown, live |-> FALSE]
  <2>1. k \in Fresh(id) /\ k.id = id[a.session]
    OBVIOUS
  <2> QED
    BY <2>1
<1> HIDE DEF Fresh
<1>17. CallsOK' /\ AttachOK'
  BY <1>2, <1>3, <1>4, <1>9 DEF CallsOK, AttachOK, Stages
<1>18. TableOK'
  <2>1. \A s \in Sessions :
           table'[s] = NoPump \/ (table'[s].id \in Handles /\ table'[s].pid \in 1 .. nextPid' - 1)
    BY <1>2, <1>7, <1>8 DEF TableOK
  <2>2. \A s, q \in Sessions : table'[s].id = table'[q].id => s = q \/ table'[s] = NoPump
    <3> SUFFICES ASSUME NEW s \in Sessions, NEW q \in Sessions, table'[s].id = table'[q].id,
                        table'[s] # NoPump
                 PROVE  s = q
      OBVIOUS
    <3>0. NoPump.id \notin Handles
      BY HandlesAssumption DEF NoPump
    <3>1. CASE s \in New /\ q \in New
      BY <1>1, <1>8, <3>1
    <3>2. CASE s \notin New /\ q \notin New
      BY <1>8, <2>1, <3>0, <3>2 DEF TableOK
    <3>3. CASE s \in New /\ q \notin New
      BY <1>8, <1>11, <3>0, <3>3
    <3>4. CASE s \notin New /\ q \in New
      BY <1>8, <1>11, <3>0, <3>4
    <3> QED
      BY <3>1, <3>2, <3>3, <3>4
  <2>3. \A s \in Sessions, d \in Callers : table'[s].id \notin call'[d].removed
    <3> SUFFICES ASSUME NEW s \in Sessions, NEW d \in Callers
                 PROVE  table'[s].id \notin call'[d].removed
      OBVIOUS
    <3>1. CASE d = c
      BY <1>3, <1>4, <1>8, <1>14, <3>1
    <3>2. CASE d # c /\ s \in New
      BY <1>4, <1>8, <1>13, <3>2
    <3>3. CASE d # c /\ s \notin New
      <4>1. "none" \notin call[d].removed
        BY HandlesAssumption DEF CallsOK
      <4> QED
        BY <1>4, <1>8, <3>3, <4>1 DEF TableOK, NoPump
    <3> QED
      BY <3>1, <3>2, <3>3
  <2> QED
    BY <1>8, <2>1, <2>2, <2>3 DEF TableOK
<1>19. PumpsOK'
  <2> SUFFICES ASSUME NEW k \in pumps'
               PROVE  /\ k \in [id : Handles, session : Sessions, pid : Pids, shown : Nat, live : BOOLEAN]
                      /\ k.pid < nextPid /\ k.shown <= out[k.pid]
                      /\ \A s \in Sessions : table'[s].id = k.id => k.session = s /\ k.pid = table'[s].pid
    BY <1>2 DEF PumpsOK
  <2>1. CASE k \in pumps
    <3>1. k.id \in InUse /\ k.id \in Handles
      BY <1>12, <2>1 DEF PumpsOK
    <3> QED
      BY <1>8, <2>1, <3>1, HandlesAssumption DEF PumpsOK, NoPump
  <2>2. CASE k \in Fresh(id)
    <3>1. PICK a \in call[c].attach :
             k = [id |-> id[a.session], session |-> a.session, pid |-> a.pid,
                  shown |-> a.shown, live |-> FALSE]
      BY <1>15, <2>2
    <3>2. /\ a.session \in New /\ a.session \in Sessions /\ a.pid \in Pids /\ a.pid < nextPid
          /\ a.shown \in Nat /\ a.shown <= out[a.pid] /\ PidOf(a.session) = a.pid
      <4>1. a.pid \in Pids /\ out[a.pid] \in Nat
        BY BoundsAssumption DEF AttachOK, Typed, Pids
      <4> QED
        BY <1>5, <4>1 DEF AttachOK, Typed
    <3>3. \A s \in Sessions : table'[s].id = id[a.session] => a.session = s
      BY <1>1, <1>8, <1>11, <3>2, HandlesAssumption DEF NoPump
    <3> QED
      BY <1>8, <3>1, <3>2, <3>3
  <2> QED
    BY <1>1, <2>1, <2>2
<1>20. NoStrayPump'
  <2> SUFFICES ASSUME NEW k \in pumps'
               PROVE  \/ \E s \in Sessions : table'[s].id = k.id
                      \/ \E d \in Callers : k.id \in call'[d].removed
    BY DEF NoStrayPump
  <2>1. CASE k \in Fresh(id)
    BY <1>5, <1>6, <1>8, <1>15, <2>1
  <2>2. CASE k \in pumps
    <3>1. ASSUME NEW s \in Sessions, table[s].id = k.id
          PROVE  \/ table'[s].id = k.id \/ k.id \in call'[c].removed
      <4>1. table[s] # NoPump
        BY <2>2, <3>1, HandlesAssumption DEF PumpsOK, NoPump
      <4> QED
        BY <1>3, <1>4, <1>10, <3>1, <4>1
    <3>2. ASSUME NEW d \in Callers, k.id \in call[d].removed
          PROVE  k.id \in call'[d].removed
      BY <1>2, <1>4, <3>2 DEF CallsOK
    <3> QED
      BY <2>2, <3>1, <3>2 DEF NoStrayPump
  <2> QED
    BY <1>1, <2>1, <2>2
<1>21. Typed'
  BY <1>2, <1>6 DEF Typed, Views, Pids, Live
<1>22. ReadingHolds'
  <2>1. \A d \in Callers : call'[d].at \in {"known", "attach", "apply"} => d \in overtaken'
    BY <1>2, <1>3, <1>4
  <2> QED
    BY <2>1 DEF ReadingHolds, Alone
<1>23. ConvergesInOrder'
  <2> SUFFICES ASSUME Quiet', ~outOfOrder' PROVE Served'
    BY DEF ConvergesInOrder
  <2>1. Alone(c)
    BY <1>2, <1>4 DEF Quiet, Alone
  <2>2. /\ call[c].demand = demand_active /\ AttachIsTrue(call[c])
        /\ demand_active' = demand_active /\ Live' = Live
    BY <1>2, <2>1 DEF ReadingHolds, demand_active, Subscribed, Live
  <2>3. CASE ~demand_active
    <3>1. New = {}
      BY <2>2, <2>3 DEF AttachOK, New
    <3> QED
      BY <1>1, <2>2, <2>3, <3>1 DEF Served
  <2>4. CASE demand_active
    <3> SUFFICES ASSUME NEW s \in Live PROVE table'[s].pid = slot[s] /\ Runs(table[s])'
      BY <1>2, <2>2, <2>4 DEF Served
    <3>1. CASE s \in New
      BY <1>1, <1>5, <1>6, <1>8, <1>16, <2>2, <3>1 DEF AttachIsTrue, Runs
    <3>2. CASE s \notin New
      <4>1. s \in call[c].live /\ s \in Sessions /\ table'[s] = table[s]
        BY <1>1, <2>2, <2>4, <3>2 DEF AttachIsTrue, Live
      <4>2. table[s].pid = slot[s] /\ Runs(table[s])
        BY <1>5, <2>2, <2>4, <3>2 DEF AttachIsTrue
      <4> QED
        BY <1>1, <4>1, <4>2 DEF Runs
    <3> QED
      BY <3>1, <3>2
  <2> QED
    BY <2>3, <2>4
<1> QED
  BY <1>17, <1>18, <1>19, <1>20, <1>21, <1>22, <1>23

-----------------------------------------------------------------------------
(* The steps of a pump: it goes on under its handle, or ends.              *)

LEMMA GoesOnKeeps ==
    ASSUME IInv, NEW k \in pumps, Replay(k) \/ Forward(k)
    PROVE  IInv'
<1> USE DEF IInv
<1>1. /\ UNCHANGED <<slot, nextPid, out, view, ready, table, plain, forced, call, overtaken, outOfOrder>>
      /\ disturbed' \subseteq Sessions
  BY DEF Replay, Forward, lane, work, history, PumpsOK, Typed
<1>2. PICK k2 : /\ pumps' = (pumps \ {k}) \cup {k2}
                /\ k2 \in [id : Handles, session : Sessions, pid : Pids, shown : Nat, live : BOOLEAN]
                /\ k2.id = k.id /\ k2.session = k.session /\ k2.pid = k.pid /\ k2.shown <= out[k2.pid]
  <2>1. CASE Replay(k)
    <3> DEFINE m == [k EXCEPT !.live = TRUE]
    <3>1. k \in [id : Handles, session : Sessions, pid : Pids, shown : Nat, live : BOOLEAN]
      BY DEF PumpsOK
    <3>2. /\ m \in [id : Handles, session : Sessions, pid : Pids, shown : Nat, live : BOOLEAN]
          /\ m.id = k.id /\ m.session = k.session /\ m.pid = k.pid /\ m.shown = k.shown
      BY <3>1
    <3>3. pumps' = (pumps \ {k}) \cup {m}
      BY <2>1 DEF Replay
    <3> HIDE DEF m
    <3> QED
      BY <3>2, <3>3 DEF PumpsOK
  <2>2. CASE Forward(k)
    <3>1. /\ k \in [id : Handles, session : Sessions, pid : Pids, shown : Nat, live : BOOLEAN]
          /\ out[k.pid] \in Nat /\ k.shown < out[k.pid]
      BY <2>2, BoundsAssumption DEF Forward, Unsent, PumpsOK, Typed
    <3> DEFINE m == [k EXCEPT !.shown = @ + 1]
    <3>2. /\ m \in [id : Handles, session : Sessions, pid : Pids, shown : Nat, live : BOOLEAN]
          /\ m.id = k.id /\ m.session = k.session /\ m.pid = k.pid /\ m.shown = k.shown + 1
      BY <3>1
    <3>3. pumps' = (pumps \ {k}) \cup {m}
      BY <2>2 DEF Forward
    <3> HIDE DEF m
    <3>4. k.shown \in Nat /\ k.shown + 1 <= out[k.pid]
      BY <3>1
    <3> QED
      BY <3>2, <3>3, <3>4
  <2> QED
    BY <2>1, <2>2
<1>3. \A s \in Sessions : Runs(table[s])' <=> Runs(table[s])
  BY <1>1, <1>2 DEF Runs
<1>4. PumpsOK'
  BY <1>1, <1>2 DEF PumpsOK
<1>5. NoStrayPump'
  BY <1>1, <1>2 DEF NoStrayPump
<1>6. Typed' /\ CallsOK' /\ AttachOK' /\ TableOK'
  BY <1>1 DEF Typed, CallsOK, Formed, AttachOK, TableOK, Views, Pids, Live
<1>7. ReadingHolds' /\ ConvergesInOrder'
  BY <1>1, <1>3 DEF ReadingHolds, Alone, KnownIsTrue, AttachIsTrue, Live, demand_active,
                    Subscribed, ConvergesInOrder, Quiet, Served
<1> QED
  BY <1>4, <1>5, <1>6, <1>7

LEMMA SlotClosedKeeps ==
    ASSUME IInv, NEW k \in pumps, SlotClosed(k)
    PROVE  IInv'
<1> USE DEF IInv
<1>1. /\ UNCHANGED <<slot, nextPid, out, view, ready, table, plain, forced, call,
                     overtaken, outOfOrder, disturbed>>
      /\ pumps' = pumps \ {k} /\ slot[k.session] # k.pid
  BY DEF SlotClosed, lane, surface, work, history
\* A pump that ends leaves a record of it alone to run only if its process left the slot.
<1>2. \A s \in Sessions : Runs(table[s]) => Runs(table[s])' \/ slot[s] # table[s].pid
  BY <1>1 DEF Runs, PumpsOK
<1>3. PumpsOK' /\ NoStrayPump'
  BY <1>1 DEF PumpsOK, NoStrayPump
<1>4. Typed' /\ CallsOK' /\ AttachOK' /\ TableOK'
  BY <1>1 DEF Typed, CallsOK, Formed, AttachOK, TableOK, Views, Pids, Live
<1>5. /\ \A r : KnownIsTrue(r) => KnownIsTrue(r)'
      /\ \A r : AttachIsTrue(r) => AttachIsTrue(r)'
  BY <1>1, <1>2 DEF KnownIsTrue, AttachIsTrue, Live
<1>6. ReadingHolds'
  BY <1>1, <1>5 DEF ReadingHolds, Alone, KnownIsTrue, AttachIsTrue, Live, Runs, demand_active, Subscribed
<1>7. ConvergesInOrder'
  BY <1>1, <1>2 DEF ConvergesInOrder, Quiet, Served, Live, demand_active, Subscribed
<1> QED
  BY <1>3, <1>4, <1>6, <1>7

-----------------------------------------------------------------------------
LEMMA StepIInv == IInv /\ [Next]_vars => IInv'
<1> SUFFICES ASSUME IInv, [Next]_vars PROVE IInv'
  OBVIOUS
<1>1. ASSUME NEW s \in Sessions, StartSlot(s) \/ DropSlot(s) \/ Output(s) PROVE IInv'
  BY <1>1, StartSlotKeeps, DropSlotKeeps, OutputKeeps
<1>2. ASSUME NEW v \in Views,
             \/ \E loaded \in {TRUE, v \notin Watched} : Subscribe(v, loaded)
             \/ Unsubscribe(v) \/ ScriptReady(v)
      PROVE  IInv'
  BY <1>2, SubscriptionsKeep
<1>3. ASSUME NEW c \in Callers, CallStep(c) PROVE IInv'
  BY <1>3, ReadDemandKeeps, ReadPumpsKeeps, AttachKeeps, ApplyKeeps, AbortKeeps DEF CallStep
<1>4. ASSUME NEW k \in pumps, PumpStep(k) PROVE IInv'
  BY <1>4, GoesOnKeeps, SlotClosedKeeps DEF PumpStep
<1>5. CASE UNCHANGED vars
  <2>1. UNCHANGED <<slot, nextPid, out, view, ready, table, pumps, plain, forced, call,
                    overtaken, outOfOrder, disturbed>>
    BY <1>5 DEF vars, lane, surface, work, history
  <2> QED
    BY <2>1 DEF IInv, Typed, CallsOK, Formed, AttachOK, TableOK, PumpsOK, NoStrayPump, ReadingHolds,
                Alone, KnownIsTrue, AttachIsTrue, Runs, Views, Pids, Live, demand_active,
                Subscribed, ConvergesInOrder, Quiet, Served
<1> QED
  BY <1>1, <1>2, <1>3, <1>4, <1>5 DEF Next

\* The inductive invariant holds.
THEOREM Invariance == Spec => []IInv
  BY InitIInv, StepIInv, PTL DEF Spec

\* Every state of the pumps and calls is well formed.
THEOREM Types == Spec => []TypeOK
<1>1. IInv => TypeOK
  <2> SUFFICES ASSUME IInv PROVE TypeOK
    OBVIOUS
  <2>1. slot \in [Sessions -> 0 .. MAX_PIDS]
    BY BoundsAssumption DEF IInv, Typed
  <2>2. \A s \in Sessions : table[s] = NoPump \/ (table[s].id \in Handles /\ table[s].pid < nextPid)
    BY BoundsAssumption DEF IInv, Typed, TableOK
  <2>3. plain + forced \in 0 .. MAX_ASKED
    BY BoundsAssumption DEF IInv, Typed
  <2> QED
    BY <2>1, <2>2, <2>3 DEF IInv, Typed, PumpsOK, TypeOK
<1> QED
  BY <1>1, Invariance, PTL

\* Every pump that runs is on record or about to be aborted
\* (reconcile_lane_pumps_inner's table and its list of removed handles).
THEOREM NoStray == Spec => []NoStrayPump
<1>1. IInv => NoStrayPump
  BY DEF IInv
<1> QED
  BY <1>1, Invariance, PTL

\* However calls of reconcile_lane_pumps overlap, unless the last to apply had
\* been overtaken, every live slot has its pump, or none has one.
THEOREM Convergence == Spec => []ConvergesInOrder
<1>1. IInv => ConvergesInOrder
  BY DEF IInv
<1> QED
  BY <1>1, Invariance, PTL

-----------------------------------------------------------------------------
\* A nonempty set of subscriptions has a latest.
LEMMA MaxIsLast ==
    ASSUME NEW n \in Nat, NEW S \in SUBSET (1 .. n), S # {}
    PROVE  Max(S) \in S /\ \A x \in S : x <= Max(S)
<1> DEFINE T == {n - x : x \in S}
<1>1. T \subseteq Nat /\ T # {}
  <2>1. PICK z \in S : TRUE
    OBVIOUS
  <2>2. n - z \in T
    OBVIOUS
  <2>3. \A x \in S : x \in Nat /\ n - x \in Nat
    OBVIOUS
  <2> QED
    BY <2>2, <2>3
<1>2. PICK m \in T : \A y \in T : <<y, m>> \notin OpToRel(<, Nat)
  BY <1>1, WFMin, NatLessThanWellFounded, Zenon
<1>3. \A y \in T : ~(y < m)
  BY <1>1, <1>2, Zenon DEF OpToRel
<1>4. PICK x \in S : m = n - x
  OBVIOUS
<1>5. \A y \in S : n - y \in T /\ y \in Nat /\ x \in Nat
  OBVIOUS
<1>6. \A y \in S : x >= y
  BY <1>3, <1>4, <1>5
<1> QED
  BY <1>5, <1>6 DEF Max

-----------------------------------------------------------------------------
(* What a screen shows.  SInv: each pump on record, and each reading that  *)
(* is to be applied, has the screens it relies on in step with it, or      *)
(* something that is still to come will replay.                            *)

\* The views whose screens are followed and take what is pushed.
Listening == Watched \cap Subscribed \cap ready

\* How much of the present process of s the screen of v has shown.
Seen(v, s) == IF screen[v][s].pid = slot[s] THEN screen[v][s].upto ELSE 0

Screens ==
    /\ screen \in [Watched -> [Sessions -> [pid : Nat, upto : Nat, whole : BOOLEAN]]]
    /\ \A v \in Watched, s \in Sessions :
          /\ screen[v][s].pid < nextPid
          /\ screen[v][s].pid # 0 => 1 <= screen[v][s].upto /\ screen[v][s].upto <= out[screen[v][s].pid]

\* Nothing is of a later process than the one in its slot.
PidsInOrder ==
    \A s \in Live :
        /\ \A k \in pumps : k.session = s => k.pid <= slot[s]
        /\ \A c \in Callers : \A a \in call[c].attach : a.session = s => a.pid <= slot[s]
        /\ \A v \in Watched : screen[v][s].pid <= slot[s]

\* An epoch is a subscription that was made; subscriptions are made in order.
Made(e) == e = 0 \/ (e \in Views /\ view[e] # "none")
EpochsMade ==
    /\ \A c \in Callers : Made(call[c].epoch) /\ (~call[c].demand => call[c].epoch = 0)
    /\ \A s \in Sessions : Made(table[s].epoch)
    /\ \A v, w \in Views : w < v /\ view[v] # "none" => view[w] # "none"

IdsDiffer == \A k, l \in pumps : k.id = l.id => k = l

\* A replay for everybody who subscribes by now, v among them, is to come.
Debt(v) == \/ forced # 0
           \/ \E c \in Callers : /\ call[c].force /\ call[c].at \in {"known", "attach"}
                                 /\ v <= call[c].epoch

\* One of the calls D is about to attach s.
Held(s, D) == \E d \in D : \E a \in call[d].attach : a.session = s

\* No pump of the present process of s is yet to replay something.
NoBacklog(s) == \A j \in pumps : j.session = s /\ j.pid = slot[s] /\ ~j.live => j.shown = 0

\* v may go on from the start: what it shows of s is whole, and no pump is ahead of it.
Level(v, s) ==
    /\ screen[v][s].pid = slot[s] => screen[v][s].whole
    /\ \A j \in pumps : j.session = s /\ j.pid = slot[s] /\ j.live => j.shown <= Seen(v, s)

\* v shows all that pump k has sent.
Follows(v, k) ==
    /\ k.shown > 0 => screen[v][k.session].pid = k.pid
    /\ screen[v][k.session].pid = k.pid =>
          screen[v][k.session].whole /\ k.shown <= screen[v][k.session].upto

\* Nothing else is to bring s to v than what was decided when e was the epoch.
Relies(v, s, e, D) ==
    v \in Listening /\ s \notin disturbed /\ ~Debt(v) /\ v <= e /\ ~Held(s, D)

EntryOK(c, a) ==
    a.shown = 0 /\ a.pid = slot[a.session] =>
        /\ NoBacklog(a.session)
        /\ \A v \in Watched : Relies(v, a.session, call[c].epoch, Callers \ {c}) => Level(v, a.session)

RecordOK(k) ==
    table[k.session].id = k.id /\ k.pid = slot[k.session] =>
        /\ ~k.live /\ k.shown = 0 /\ k.session \notin disturbed => NoBacklog(k.session)
        /\ \A v \in Watched : Relies(v, k.session, table[k.session].epoch, Callers) =>
              /\ ~k.live /\ k.shown = 0 => Level(v, k.session)
              /\ k.live => Follows(v, k)

EntriesOK == \A c \in Callers \ overtaken : \A a \in call[c].attach : EntryOK(c, a)
RecordsOK == \A k \in pumps : RecordOK(k)

\* A call that is alone has read the present epoch, and will leave it on record.
EpochReads ==
    \A c \in Callers : Alone(c) =>
        /\ call[c].at \in {"known", "attach", "apply"} => call[c].epoch = subscriber_epoch
        /\ call[c].at = "attach" =>
              \A s \in Sessions, p \in Pids :
                  <<s, p, call[c].epoch>> \in call[c].known => table[s].epoch = call[c].epoch
        /\ call[c].at = "apply" /\ call[c].demand =>
              \A s \in Live : \/ \E a \in call[c].attach : a.session = s
                              \/ table[s].epoch = call[c].epoch
EpochServed ==
    Quiet /\ ~outOfOrder /\ demand_active => \A s \in Live : table[s].epoch = subscriber_epoch

SInv == /\ Screens /\ PidsInOrder /\ EpochsMade /\ IdsDiffer
        /\ EntriesOK /\ RecordsOK /\ EpochReads /\ EpochServed

-----------------------------------------------------------------------------
LEMMA InitSInv == Init => SInv
<1> SUFFICES ASSUME Init PROVE SInv
  OBVIOUS
<1>1. /\ \A s \in Sessions : slot[s] = 0 /\ table[s] = NoPump
      /\ \A c \in Callers : call[c] = Idle
      /\ Subscribed = {} /\ Live = {} /\ pumps = {} /\ nextPid = 1
      /\ \A v \in Views : view[v] = "none"
  BY DEF Init, Subscribed, Live
<1>2. screen = [v \in Watched |-> [s \in Sessions |-> Blank]]
  BY DEF Init
<1>3. Blank \in [pid : Nat, upto : Nat, whole : BOOLEAN] /\ Blank.pid = 0
  BY DEF Blank
<1> HIDE DEF Blank
<1>4. Screens
  BY <1>1, <1>2, <1>3 DEF Screens
<1>5. PidsInOrder /\ IdsDiffer /\ RecordsOK
  BY <1>1 DEF PidsInOrder, IdsDiffer, RecordsOK
<1>6. EntriesOK /\ EpochReads /\ EpochServed
  BY <1>1 DEF EntriesOK, EpochReads, EpochServed, Idle, demand_active
<1>7. EpochsMade
  BY <1>1 DEF EpochsMade, Made, Idle, NoPump
<1> QED
  BY <1>4, <1>5, <1>6, <1>7 DEF SInv

-----------------------------------------------------------------------------
(* What changes neither the calls nor the pumps.                           *)

\* What is attached and on record holds on while each slot keeps its process,
\* or has one that nothing is attached to, and each screen that relies on it.
LEMMA ClaimsStay ==
    ASSUME SInv, UNCHANGED <<pumps, table, call, overtaken, disturbed>>,
           \A s \in Sessions :
              \/ slot'[s] = slot[s]
              \/ /\ \A k \in pumps : k.session = s => k.pid # slot'[s]
                 /\ \A c \in Callers : \A a \in call[c].attach : a.session = s => a.pid # slot'[s],
           \A v \in Watched :
              v \in Listening' /\ ~Debt(v)' =>
                 \/ \A e : Made(e) => ~(v <= e)
                 \/ v \in Listening /\ ~Debt(v) /\ screen'[v] = screen[v],
           AttachOK, PumpsOK
    PROVE  EntriesOK' /\ RecordsOK'
<1>1. ASSUME NEW v \in Watched, NEW s \in Sessions, NEW e, NEW D, Made(e), Relies(v, s, e, D)'
      PROVE  Relies(v, s, e, D) /\ screen'[v] = screen[v]
  <2>1. v \in Listening' /\ ~Debt(v)' /\ v <= e /\ s \notin disturbed
    BY <1>1 DEF Relies
  <2>2. Held(s, D)' <=> Held(s, D)
    BY DEF Held
  <2> QED
    BY <1>1, <2>1, <2>2 DEF Relies
<1>2. ASSUME NEW s \in Sessions, slot'[s] = slot[s]
      PROVE  /\ NoBacklog(s) => NoBacklog(s)'
             /\ \A v \in Watched : screen'[v] = screen[v] /\ Level(v, s) => Level(v, s)'
  BY <1>2 DEF NoBacklog, Level, Seen
<1>3. ASSUME NEW c \in Callers \ overtaken, NEW a \in call[c].attach PROVE EntryOK(c, a)'
  <2>1. a.session \in Sessions /\ Made(call[c].epoch) /\ EntryOK(c, a)
    BY <1>3 DEF AttachOK, SInv, EpochsMade, EntriesOK
  <2>2. CASE a.pid # slot'[a.session]
    BY <2>2 DEF EntryOK
  <2>3. CASE slot'[a.session] = slot[a.session]
    BY <1>1, <1>2, <2>1, <2>3 DEF EntryOK
  <2> QED
    BY <2>1, <2>2, <2>3
<1>4. ASSUME NEW k \in pumps PROVE RecordOK(k)'
  <2>1. k.session \in Sessions /\ Made(table[k.session].epoch) /\ RecordOK(k)
    BY <1>4 DEF PumpsOK, SInv, EpochsMade, RecordsOK
  <2>2. CASE k.pid # slot'[k.session]
    BY <2>2 DEF RecordOK
  <2>3. CASE slot'[k.session] = slot[k.session]
    BY <1>1, <1>2, <2>1, <2>3 DEF RecordOK, Follows
  <2> QED
    BY <2>1, <2>2, <2>3
<1> QED
  BY <1>3, <1>4 DEF EntriesOK, RecordsOK

\* While a call is to come, nothing is claimed of epochs.
LEMMA EpochsToCome ==
    ASSUME plain' # 0 \/ forced' # 0
    PROVE  EpochReads' /\ EpochServed'
  BY DEF EpochReads, EpochServed, Alone, Quiet

LEMMA StartSlotScreens ==
    ASSUME IInv, SInv, NEW s \in Sessions, StartSlot(s)
    PROVE  SInv'
<1>1. /\ UNCHANGED <<table, pumps, call, overtaken, disturbed, out, view, ready, screen, forced>>
      /\ nextPid \in Nat /\ nextPid' = nextPid + 1 /\ plain' # 0
      /\ slot \in [Sessions -> 0 .. nextPid - 1] /\ slot' = [slot EXCEPT ![s] = nextPid]
  BY BoundsAssumption DEF StartSlot, Spawned, surface, history, IInv, Typed
<1>2. /\ \A k \in pumps : k.pid < nextPid /\ k.pid \in Nat
      /\ \A c \in Callers : \A a \in call[c].attach : a.pid < nextPid /\ a.pid \in Nat
      /\ AttachOK /\ PumpsOK
  BY <1>1 DEF IInv, PumpsOK, AttachOK, Pids
<1>3. \A v \in Watched, q \in Sessions : screen[v][q].pid \in Nat /\ screen[v][q].pid < nextPid
  BY DEF SInv, Screens
<1>4. Screens'
  BY <1>1, <1>3 DEF SInv, Screens
<1>5. PidsInOrder'
  <2> SUFFICES ASSUME NEW q \in Live'
               PROVE  /\ \A k \in pumps : k.session = q => k.pid <= slot'[q]
                      /\ \A c \in Callers : \A a \in call[c].attach : a.session = q => a.pid <= slot'[q]
                      /\ \A v \in Watched : screen[v][q].pid <= slot'[q]
    BY <1>1 DEF PidsInOrder
  <2>1. CASE q = s
    BY <1>1, <1>2, <1>3, <2>1
  <2>2. CASE q # s
    <3>1. q \in Live /\ slot'[q] = slot[q]
      BY <1>1, <2>2 DEF Live
    <3> QED
      BY <3>1 DEF SInv, PidsInOrder
  <2> QED
    BY <2>1, <2>2
<1>6. EpochsMade' /\ IdsDiffer'
  BY <1>1 DEF SInv, EpochsMade, Made, IdsDiffer
<1>7. EntriesOK' /\ RecordsOK'
  <2>1. \A q \in Sessions :
              \/ slot'[q] = slot[q]
              \/ /\ \A k \in pumps : k.session = q => k.pid # slot'[q]
                 /\ \A c \in Callers : \A a \in call[c].attach : a.session = q => a.pid # slot'[q]
    BY <1>1, <1>2
  <2>2. \A v \in Watched :
              v \in Listening' /\ ~Debt(v)' =>
                 \/ \A e : Made(e) => ~(v <= e)
                 \/ v \in Listening /\ ~Debt(v) /\ screen'[v] = screen[v]
    BY <1>1 DEF Listening, Subscribed, Debt
  <2> QED
    BY <1>1, <1>2, <2>1, <2>2, ClaimsStay
<1> QED
  BY <1>1, <1>4, <1>5, <1>6, <1>7, EpochsToCome DEF SInv

LEMMA DropSlotScreens ==
    ASSUME IInv, SInv, NEW s \in Sessions, DropSlot(s)
    PROVE  SInv'
<1>1. /\ UNCHANGED <<table, pumps, call, overtaken, disturbed, out, view, ready, screen, forced, nextPid>>
      /\ plain' # 0
      /\ slot \in [Sessions -> 0 .. nextPid - 1] /\ slot' = [slot EXCEPT ![s] = 0]
  BY BoundsAssumption DEF DropSlot, Spawned, surface, history, IInv, Typed
<1>2. /\ \A k \in pumps : k.pid # 0
      /\ \A c \in Callers : \A a \in call[c].attach : a.pid # 0
      /\ AttachOK /\ PumpsOK
  BY DEF IInv, PumpsOK, AttachOK, Pids
<1>4. Screens'
  BY <1>1 DEF SInv, Screens
<1>5. PidsInOrder'
  <2>1. \A q \in Live' : q \in Live /\ slot'[q] = slot[q]
    BY <1>1 DEF Live
  <2> QED
    BY <1>1, <2>1 DEF SInv, PidsInOrder
<1>6. EpochsMade' /\ IdsDiffer'
  BY <1>1 DEF SInv, EpochsMade, Made, IdsDiffer
<1>7. EntriesOK' /\ RecordsOK'
  <2>1. \A q \in Sessions :
              \/ slot'[q] = slot[q]
              \/ /\ \A k \in pumps : k.session = q => k.pid # slot'[q]
                 /\ \A c \in Callers : \A a \in call[c].attach : a.session = q => a.pid # slot'[q]
    BY <1>1, <1>2
  <2>2. \A v \in Watched :
              v \in Listening' /\ ~Debt(v)' =>
                 \/ \A e : Made(e) => ~(v <= e)
                 \/ v \in Listening /\ ~Debt(v) /\ screen'[v] = screen[v]
    BY <1>1 DEF Listening, Subscribed, Debt
  <2> QED
    BY <1>1, <1>2, <2>1, <2>2, ClaimsStay
<1> QED
  BY <1>1, <1>4, <1>5, <1>6, <1>7, EpochsToCome DEF SInv

LEMMA OutputScreens ==
    ASSUME IInv, SInv, NEW s \in Sessions, Output(s)
    PROVE  SInv'
<1>1. /\ UNCHANGED <<slot, nextPid, view, ready, screen, table, pumps, plain, forced, call,
                     overtaken, outOfOrder, disturbed>>
      /\ slot[s] \in Pids /\ out \in [Pids -> Nat] /\ out' = [out EXCEPT ![slot[s]] = @ + 1]
  BY BoundsAssumption DEF Output, surface, work, history, IInv, Typed, Pids
<1>2. \A p \in Pids : out[p] \in Nat /\ out'[p] \in Nat /\ out[p] <= out'[p]
  BY <1>1
<1>3. \A v \in Watched, q \in Sessions : screen[v][q].pid # 0 => screen[v][q].pid \in Pids
  BY BoundsAssumption DEF SInv, Screens, IInv, Typed, Pids
<1>4. Screens'
  <2> SUFFICES ASSUME NEW v \in Watched, NEW q \in Sessions, screen[v][q].pid # 0
               PROVE  screen[v][q].upto <= out'[screen[v][q].pid]
    BY <1>1 DEF SInv, Screens
  <2>1. screen[v][q].upto \in Nat /\ screen[v][q].upto <= out[screen[v][q].pid]
    BY DEF SInv, Screens
  <2> QED
    BY <1>2, <1>3, <2>1
<1>5. PidsInOrder' /\ EpochsMade' /\ IdsDiffer'
  BY <1>1 DEF SInv, EpochsMade, Made, IdsDiffer, PidsInOrder, Live
<1>7. EntriesOK' /\ RecordsOK'
  <2>1. AttachOK /\ PumpsOK
    BY DEF IInv
  <2>2. \A v \in Watched :
              v \in Listening' /\ ~Debt(v)' =>
                 \/ \A e : Made(e) => ~(v <= e)
                 \/ v \in Listening /\ ~Debt(v) /\ screen'[v] = screen[v]
    BY <1>1 DEF Listening, Subscribed, Debt
  <2> QED
    BY <1>1, <2>1, <2>2, ClaimsStay
<1>8. EpochReads' /\ EpochServed'
  BY <1>1 DEF SInv, EpochReads, EpochServed, Alone, Quiet, Live, demand_active, subscriber_epoch, Subscribed
<1> QED
  BY <1>4, <1>5, <1>7, <1>8 DEF SInv

LEMMA SubscribeScreens ==
    ASSUME IInv, SInv, NEW w \in Views, NEW loaded \in BOOLEAN, Subscribe(w, loaded)
    PROVE  SInv'
<1>1. /\ UNCHANGED <<slot, nextPid, out, screen, table, pumps, call, forced, overtaken, disturbed>>
      /\ plain' # 0 /\ view \in [Views -> {"none", "open", "gone"}]
      /\ view[w] = "none" /\ \A u \in Views : u < w => view[u] # "none"
      /\ view' = [view EXCEPT ![w] = "open"] /\ ready' \subseteq ready \cup {w}
      /\ AttachOK /\ PumpsOK
  BY BoundsAssumption DEF Subscribe, Hook, Spawned, lane, history, IInv, Typed
<1>2. \A e : Made(e) => Made(e)' /\ ~(w <= e)
  <2> SUFFICES ASSUME NEW e, Made(e) PROVE Made(e)' /\ ~(w <= e)
    OBVIOUS
  <2>1. w \in Nat \ {0}
    BY BoundsAssumption DEF Views
  <2>2. CASE e = 0
    BY <2>1, <2>2 DEF Made
  <2>3. CASE e # 0
    <3>1. e \in Views /\ view[e] # "none"
      BY <2>3 DEF Made
    <3>2. e \in Nat
      BY <3>1, BoundsAssumption DEF Views
    <3>3. e # w /\ ~(w < e)
      BY <1>1, <3>1 DEF SInv, EpochsMade
    <3>4. view'[e] # "none"
      BY <1>1, <3>1
    <3> QED
      BY <2>1, <3>1, <3>2, <3>3, <3>4 DEF Made
  <2> QED
    BY <2>2, <2>3
<1>3. EpochsMade'
  <2>1. \A u, x \in Views : x < u /\ view'[u] # "none" => view'[x] # "none"
    BY <1>1 DEF SInv, EpochsMade
  <2> QED
    BY <1>1, <1>2, <2>1 DEF SInv, EpochsMade
<1>4. Screens' /\ PidsInOrder' /\ IdsDiffer'
  BY <1>1 DEF SInv, Screens, PidsInOrder, IdsDiffer, Live
<1>5. EntriesOK' /\ RecordsOK'
  <2>2. \A v \in Watched :
              v \in Listening' /\ ~Debt(v)' =>
                 \/ \A e : Made(e) => ~(v <= e)
                 \/ v \in Listening /\ ~Debt(v) /\ screen'[v] = screen[v]
    BY <1>1, <1>2 DEF Listening, Subscribed, Debt
  <2> QED
    BY <1>1, <2>2, ClaimsStay
<1> QED
  BY <1>1, <1>3, <1>4, <1>5, EpochsToCome DEF SInv

LEMMA UnsubscribeScreens ==
    ASSUME IInv, SInv, NEW w \in Views, Unsubscribe(w)
    PROVE  SInv'
<1>1. /\ UNCHANGED <<slot, nextPid, out, table, pumps, call, forced, overtaken, disturbed>>
      /\ plain' # 0 /\ view \in [Views -> {"none", "open", "gone"}]
      /\ view' = [view EXCEPT ![w] = "gone"] /\ ready' = ready \ {w}
      /\ screen' = [v \in Watched |-> IF v = w THEN [s \in Sessions |-> Blank] ELSE screen[v]]
      /\ AttachOK /\ PumpsOK
  BY BoundsAssumption DEF Unsubscribe, Hook, Spawned, lane, history, IInv, Typed
<1>2. EpochsMade' /\ IdsDiffer'
  <2>1. \A x \in Views : view[x] # "none" => view'[x] # "none"
    BY <1>1
  <2>2. \A e : Made(e) => Made(e)'
    BY <2>1 DEF Made
  <2>3. \A u, x \in Views : x < u /\ view'[u] # "none" => view'[x] # "none"
    <3>1. view[w] = "open"
      BY DEF Unsubscribe
    <3>2. \A x \in Views : view[x] # "none" <=> view'[x] # "none"
      BY <1>1, <3>1
    <3> QED
      BY <3>2 DEF SInv, EpochsMade
  <2> QED
    BY <1>1, <2>2, <2>3 DEF SInv, EpochsMade, IdsDiffer
<1>3. Blank \in [pid : Nat, upto : Nat, whole : BOOLEAN] /\ Blank.pid = 0
  BY DEF Blank
<1> HIDE DEF Blank
<1>4. Screens'
  <2>1. \A v \in Watched : screen'[v] \in [Sessions -> [pid : Nat, upto : Nat, whole : BOOLEAN]]
    BY <1>1, <1>3 DEF SInv, Screens
  <2>2. \A v \in Watched, s \in Sessions : screen'[v][s] = screen[v][s] \/ screen'[v][s] = Blank
    BY <1>1
  <2>3. nextPid \in Nat \ {0}
    BY BoundsAssumption DEF IInv, Typed
  <2>4. screen' \in [Watched -> [Sessions -> [pid : Nat, upto : Nat, whole : BOOLEAN]]]
    BY <1>1, <2>1
  <2> QED
    BY <1>1, <1>3, <2>2, <2>3, <2>4 DEF SInv, Screens
<1>5. PidsInOrder'
  <2>1. \A s \in Live : slot[s] \in Nat
    BY BoundsAssumption DEF IInv, Typed, Live
  <2>2. \A v \in Watched, s \in Sessions : screen'[v][s].pid = screen[v][s].pid \/ screen'[v][s].pid = 0
    BY <1>1, <1>3
  <2>3. Live' = Live /\ Live \subseteq Sessions
    BY <1>1 DEF Live
  <2> QED
    BY <1>1, <2>1, <2>2, <2>3 DEF SInv, PidsInOrder
<1>6. EntriesOK' /\ RecordsOK'
  <2>2. \A v \in Watched :
              v \in Listening' /\ ~Debt(v)' =>
                 \/ \A e : Made(e) => ~(v <= e)
                 \/ v \in Listening /\ ~Debt(v) /\ screen'[v] = screen[v]
    BY <1>1 DEF Listening, Subscribed, Debt
  <2> QED
    BY <1>1, <2>2, ClaimsStay
<1> QED
  BY <1>1, <1>2, <1>4, <1>5, <1>6, EpochsToCome DEF SInv

LEMMA ScriptReadyScreens ==
    ASSUME IInv, SInv, NEW w \in Views, ScriptReady(w)
    PROVE  SInv'
<1>1. /\ UNCHANGED <<slot, nextPid, out, view, screen, table, pumps, call, overtaken, disturbed>>
      /\ forced' # 0 /\ AttachOK /\ PumpsOK
  BY BoundsAssumption DEF ScriptReady, lane, history, IInv, Typed
<1>2. EpochsMade' /\ IdsDiffer' /\ Screens' /\ PidsInOrder'
  BY <1>1 DEF SInv, EpochsMade, IdsDiffer, Made, Screens, PidsInOrder, Live
<1>3. EntriesOK' /\ RecordsOK'
  <2>2. \A v : Debt(v)'
    BY <1>1 DEF Debt
  <2> QED
    BY <1>1, <2>2, ClaimsStay
<1> QED
  BY <1>1, <1>2, <1>3, EpochsToCome DEF SInv

-----------------------------------------------------------------------------
(* The steps of a call.                                                    *)

\* The epoch that is read is of a subscription made, none of the present ones later.
LEMMA EpochIsLast ==
    ASSUME IInv
    PROVE  /\ Made(subscriber_epoch) /\ (~demand_active => subscriber_epoch = 0)
           /\ \A v \in Subscribed : v <= subscriber_epoch
<1>1. Subscribed \in SUBSET (1 .. MAX_VIEWS) /\ MAX_VIEWS \in Nat
  BY BoundsAssumption DEF Subscribed, Views
<1>2. CASE Subscribed = {}
  BY <1>2 DEF subscriber_epoch, demand_active, Made
<1>3. CASE Subscribed # {}
  <2>1. Max(Subscribed) \in Subscribed /\ \A x \in Subscribed : x <= Max(Subscribed)
    BY <1>1, <1>3, MaxIsLast
  <2>2. subscriber_epoch = Max(Subscribed) /\ demand_active
    BY <1>3 DEF subscriber_epoch, demand_active
  <2>3. Made(subscriber_epoch)
    BY <2>1, <2>2 DEF Made, Subscribed
  <2> QED
    BY <2>1, <2>2, <2>3
<1> QED
  BY <1>2, <1>3

\* While the table, the pumps, the screens and the slots stay, a claim stays if
\* what relies on it did so before.
LEMMA ClaimsOfCalls ==
    ASSUME SInv, UNCHANGED <<slot, table, pumps, screen, disturbed>>
    PROVE  /\ \A s : NoBacklog(s) => NoBacklog(s)'
           /\ \A v, s : Level(v, s) => Level(v, s)'
           /\ \A v, k : Follows(v, k) => Follows(v, k)'
  BY DEF NoBacklog, Level, Follows, Seen

LEMMA ReadDemandScreens ==
    ASSUME IInv, SInv, NEW c \in Callers, ReadDemand(c)
    PROVE  SInv'
<1>0. PICK r : r = [Idle EXCEPT !.at = "known", !.force = forced' < forced,
                               !.demand = demand_active, !.epoch = subscriber_epoch]
  OBVIOUS
<1>1. /\ UNCHANGED <<slot, nextPid, out, view, ready, screen, table, pumps, outOfOrder, disturbed>>
      /\ call' = [call EXCEPT ![c] = r] /\ overtaken' = overtaken \ {c} /\ call[c].at = "idle"
      /\ forced \in Nat /\ (forced' = forced \/ forced' = forced - 1)
      /\ call[c].attach = {}
  BY <1>0 DEF ReadDemand, lane, surface, Ask, IInv, Typed, CallsOK
<1>2. /\ r.at = "known" /\ r.attach = {} /\ r.epoch = subscriber_epoch /\ r.demand = demand_active
      /\ (r.force <=> forced' < forced)
  BY <1>0 DEF Idle
<1>3. /\ call' = [d \in Callers |-> call'[d]] /\ call'[c] = r
      /\ \A d \in Callers \ {c} : call'[d] = call[d]
  BY <1>1, OneCall DEF IInv
<1>4. Screens' /\ PidsInOrder' /\ IdsDiffer'
  BY <1>1, <1>2, <1>3 DEF SInv, Screens, PidsInOrder, IdsDiffer, Live
<1>5. EpochsMade'
  BY <1>1, <1>2, <1>3, EpochIsLast DEF SInv, EpochsMade, Made
<1>6. \A v \in Listening' : ~Debt(v)' => v \in Listening /\ ~Debt(v)
  <2> SUFFICES ASSUME NEW v \in Listening', ~Debt(v)' PROVE v \in Listening /\ ~Debt(v)
    OBVIOUS
  <2>1. v \in Listening /\ v <= r.epoch
    BY <1>1, <1>2, EpochIsLast DEF Listening, Subscribed
  <2>2. forced' = 0 /\ ~r.force
    BY <1>2, <1>3, <2>1 DEF Debt
  <2>3. forced = 0
    BY <1>1, <1>2, <2>2
  <2>4. \A d \in Callers : ~(call[d].force /\ call[d].at \in {"known", "attach"} /\ v <= call[d].epoch)
    BY <1>1, <1>3 DEF Debt
  <2> QED
    BY <2>1, <2>3, <2>4 DEF Debt
<1>7. \A s, D : D \subseteq Callers => (Held(s, D)' <=> Held(s, D))
  BY <1>1, <1>2, <1>3 DEF Held
<1>8. \A v \in Watched : \A s, e, D : D \subseteq Callers /\ Relies(v, s, e, D)' => Relies(v, s, e, D)
  BY <1>1, <1>6, <1>7 DEF Relies
<1>9. EntriesOK'
  <2> SUFFICES ASSUME NEW d \in Callers \ overtaken', NEW a \in call'[d].attach PROVE EntryOK(d, a)'
    BY <1>1 DEF EntriesOK
  <2>1. d # c /\ d \in Callers \ overtaken /\ call'[d] = call[d] /\ EntryOK(d, a)
    BY <1>1, <1>2, <1>3 DEF SInv, EntriesOK
  <2> QED
    BY <1>1, <1>8, <2>1, ClaimsOfCalls DEF EntryOK
<1>10. RecordsOK'
  <2> SUFFICES ASSUME NEW k \in pumps PROVE RecordOK(k)'
    BY <1>1 DEF RecordsOK
  <2>1. RecordOK(k)
    BY DEF SInv, RecordsOK
  <2> QED
    BY <1>1, <1>8, <2>1, ClaimsOfCalls DEF RecordOK
<1>11. EpochReads'
  <2>1. \A d \in Callers : Alone(d)' => d = c
    BY <1>2, <1>3 DEF Alone
  <2>2. subscriber_epoch' = subscriber_epoch
    BY <1>1 DEF subscriber_epoch, Subscribed
  <2> QED
    BY <1>2, <1>3, <2>1, <2>2 DEF EpochReads
<1>12. EpochServed'
  BY <1>2, <1>3 DEF EpochServed, Quiet
<1> QED
  BY <1>4, <1>5, <1>9, <1>10, <1>11, <1>12 DEF SInv

LEMMA ReadPumpsScreens ==
    ASSUME IInv, SInv, NEW c \in Callers, ReadPumps(c)
    PROVE  SInv'
<1> DEFINE K == {<<s, table[s].pid, table[s].epoch>> : s \in {q \in Sessions : Runs(table[q])}}
<1>0. PICK r : r = [call[c] EXCEPT !.at = "attach", !.known = K]
  OBVIOUS
<1>1. /\ UNCHANGED <<slot, nextPid, out, view, ready, screen, table, pumps, plain, forced,
                     overtaken, outOfOrder, disturbed>>
      /\ call' = [call EXCEPT ![c] = r] /\ call[c].at = "known"
      /\ Formed(call[c]) /\ call[c].attach = {}
  BY <1>0 DEF ReadPumps, lane, surface, work, history, IInv, CallsOK
<1>2. /\ r.at = "attach" /\ r.demand = call[c].demand /\ r.known = K
      /\ r.attach = {} /\ r.epoch = call[c].epoch /\ r.force = call[c].force
  <2> HIDE DEF K
  <2> QED
    BY <1>0, <1>1 DEF Formed, Fields
<1>3. /\ call' = [d \in Callers |-> call'[d]] /\ call'[c] = r
      /\ \A d \in Callers \ {c} : call'[d] = call[d]
  BY <1>1, OneCall DEF IInv
<1>4. \A s \in Sessions, p \in Pids : \A e : <<s, p, e>> \in K => table[s].epoch = e
  OBVIOUS
<1> HIDE DEF K
<1>5. \A d \in Callers : /\ call'[d].attach = call[d].attach /\ call'[d].epoch = call[d].epoch
                         /\ call'[d].demand = call[d].demand
  BY <1>1, <1>2, <1>3
<1>6. \A v : Debt(v)' <=> Debt(v)
  BY <1>1, <1>2, <1>3 DEF Debt
<1>7. Screens' /\ PidsInOrder' /\ IdsDiffer' /\ EpochsMade'
  BY <1>1, <1>5 DEF SInv, Screens, PidsInOrder, IdsDiffer, Live, EpochsMade, Made
<1>8. \A v \in Watched : \A s, e, D : D \subseteq Callers /\ Relies(v, s, e, D)' => Relies(v, s, e, D)
  BY <1>1, <1>5, <1>6 DEF Relies, Held, Listening, Subscribed
<1>9. EntriesOK'
  <2> SUFFICES ASSUME NEW d \in Callers \ overtaken, NEW a \in call[d].attach PROVE EntryOK(d, a)'
    BY <1>1, <1>5 DEF EntriesOK
  <2>1. EntryOK(d, a)
    BY DEF SInv, EntriesOK
  <2> QED
    BY <1>1, <1>5, <1>8, <2>1, ClaimsOfCalls DEF EntryOK
<1>10. RecordsOK'
  <2> SUFFICES ASSUME NEW k \in pumps PROVE RecordOK(k)'
    BY <1>1 DEF RecordsOK
  <2>1. RecordOK(k)
    BY DEF SInv, RecordsOK
  <2> QED
    BY <1>1, <1>8, <2>1, ClaimsOfCalls DEF RecordOK
<1>11. EpochReads'
  <2>1. \A d \in Callers : Alone(d)' => d = c /\ Alone(c)
    BY <1>1, <1>2, <1>3 DEF Alone
  <2>2. subscriber_epoch' = subscriber_epoch
    BY <1>1 DEF subscriber_epoch, Subscribed
  <2>3. Alone(c) => r.epoch = subscriber_epoch
    BY <1>1, <1>2 DEF SInv, EpochReads
  <2> QED
    BY <1>1, <1>2, <1>3, <1>4, <2>1, <2>2, <2>3 DEF EpochReads
<1>12. EpochServed'
  BY <1>2, <1>3 DEF EpochServed, Quiet
<1> QED
  BY <1>7, <1>9, <1>10, <1>11, <1>12 DEF SInv

LEMMA AttachScreens ==
    ASSUME IInv, SInv, NEW c \in Callers, Attach(c)
    PROVE  SInv'
<1> DEFINE A == {[session |-> s, pid |-> slot[s], shown |-> out[slot[s]]] : s \in Wanting(call[c])}
<1>0. PICK r : r = [Idle EXCEPT !.at = "apply", !.demand = call[c].demand, !.epoch = call[c].epoch,
                               !.live = Live, !.attach = A]
  OBVIOUS
<1>1. /\ UNCHANGED <<slot, nextPid, out, view, ready, screen, table, pumps, plain, forced,
                     overtaken, outOfOrder, disturbed>>
      /\ call' = [call EXCEPT ![c] = r] /\ call[c].at = "attach"
  BY <1>0 DEF Attach, lane, surface, work, history
<1>2. /\ r.at = "apply" /\ r.demand = call[c].demand /\ r.attach = A
      /\ r.epoch = call[c].epoch /\ r.force = FALSE
  <2> HIDE DEF A
  <2> QED
    BY <1>0 DEF Idle
<1>3. /\ call' = [d \in Callers |-> call'[d]] /\ call'[c] = r
      /\ \A d \in Callers \ {c} : call'[d] = call[d]
  BY <1>1, OneCall DEF IInv
<1>4. \A a \in A : a.session \in Live /\ a.pid = slot[a.session] /\ a.shown = out[slot[a.session]]
  <2>1. Wanting(call[c]) \subseteq Live
    BY DEF Wanting
  <2> HIDE DEF Wanting
  <2> SUFFICES ASSUME NEW s \in Wanting(call[c]), NEW a,
                      a = [session |-> s, pid |-> slot[s], shown |-> out[slot[s]]]
               PROVE  a.session = s /\ a.pid = slot[s] /\ a.shown = out[slot[s]]
    BY <2>1
  <2> QED
    OBVIOUS
<1>5. \A s \in Wanting(call[c]) : \E a \in A : a.session = s
  <2> TAKE s \in Wanting(call[c])
  <2> DEFINE a == [session |-> s, pid |-> slot[s], shown |-> out[slot[s]]]
  <2>1. a \in A /\ a.session = s
    OBVIOUS
  <2> QED
    BY <2>1
<1> HIDE DEF A
<1>6. \A d \in Callers : /\ call[d].attach \subseteq call'[d].attach /\ call'[d].epoch = call[d].epoch
                         /\ call'[d].demand = call[d].demand
  <2>1. call[c].attach = {}
    BY <1>1 DEF IInv, CallsOK
  <2> QED
    BY <1>2, <1>3, <2>1
<1>7. Screens' /\ IdsDiffer' /\ EpochsMade'
  BY <1>1, <1>6 DEF SInv, Screens, IdsDiffer, EpochsMade, Made
<1>8. PidsInOrder'
  <2>1. \A s \in Live : slot[s] \in Nat
    BY BoundsAssumption DEF IInv, Typed, Live
  <2>2. \A d \in Callers : \A a \in call'[d].attach :
           a \in call[d].attach \/ (a.session \in Live /\ a.pid = slot[a.session])
    BY <1>2, <1>3, <1>4
  <2>3. Live' = Live
    BY <1>1 DEF Live
  <2>4. \A s \in Live, d \in Callers : \A a \in call'[d].attach : a.session = s => a.pid <= slot[s]
    BY <2>1, <2>2 DEF SInv, PidsInOrder
  <2> QED
    BY <1>1, <2>3, <2>4 DEF SInv, PidsInOrder
\* A replay that is no more to come was for all the slots there are.
<1>9. ASSUME NEW v \in Watched, NEW s \in Live, NEW e, NEW D, c \in D, D \subseteq Callers,
             Relies(v, s, e, D)'
      PROVE  Relies(v, s, e, D)
  <2>1. v \in Listening /\ s \notin disturbed /\ v <= e /\ ~Debt(v)'
    BY <1>1, <1>9 DEF Relies, Listening, Subscribed
  <2>2. \A d \in D : \A a \in call'[d].attach : a.session # s
    BY <1>9 DEF Relies, Held
  <2>3. ~Held(s, D)
    BY <1>6, <1>9, <2>2 DEF Held
  <2>4. s \notin Wanting(call[c])
    BY <1>2, <1>3, <1>5, <1>9, <2>2
  <2>5. ~(call[c].force /\ call[c].demand)
    BY <2>4 DEF Wanting
  <2>6. ~(call[c].force /\ v <= call[c].epoch)
    <3>1. ~call[c].demand => call[c].epoch = 0
      BY DEF SInv, EpochsMade
    <3>2. v \in Nat \ {0}
      BY <2>1, BoundsAssumption DEF Listening, Subscribed, Views
    <3> QED
      BY <2>5, <3>1, <3>2
  <2>7. forced = 0
    BY <1>1, <2>1 DEF Debt
  <2>8. \A d \in Callers \ {c} : ~(call[d].force /\ call[d].at \in {"known", "attach"} /\ v <= call[d].epoch)
    BY <1>3, <2>1 DEF Debt
  <2>9. ~Debt(v)
    BY <2>6, <2>7, <2>8 DEF Debt
  <2> QED
    BY <2>1, <2>3, <2>9 DEF Relies
<1>10. EntriesOK'
  <2> SUFFICES ASSUME NEW d \in Callers \ overtaken, NEW a \in call'[d].attach PROVE EntryOK(d, a)'
    BY <1>1 DEF EntriesOK
  <2>1. CASE d # c
    <3>1. a \in call[d].attach /\ EntryOK(d, a) /\ a.session \in Sessions /\ a.pid \in Pids
      BY <1>3, <2>1, BoundsAssumption DEF SInv, EntriesOK, IInv, AttachOK, Typed, Pids
    <3>2. a.pid = slot[a.session] => a.session \in Live
      BY <3>1, BoundsAssumption DEF Live, Pids
    <3>3. c \in Callers \ {d} /\ Callers \ {d} \subseteq Callers
      BY <2>1
    <3>4. \A v \in Watched : a.pid = slot[a.session] /\ Relies(v, a.session, call[d].epoch, Callers \ {d})'
             => Relies(v, a.session, call[d].epoch, Callers \ {d})
      BY <1>6, <1>9, <3>2, <3>3
    <3>5. call'[d] = call[d]
      BY <1>3, <2>1
    <3> QED
      BY <1>1, <3>1, <3>4, <3>5, ClaimsOfCalls DEF EntryOK
  <2>2. CASE d = c
    <3>1. a \in A /\ a.session \in Live /\ a.pid = slot[a.session] /\ a.shown = out[slot[a.session]]
      BY <1>2, <1>3, <1>4, <2>2
    <3> SUFFICES ASSUME a.shown = 0
                 PROVE  NoBacklog(a.session)' /\ \A v \in Watched : Level(v, a.session)'
      BY DEF EntryOK
    <3>2. a.session \in Sessions /\ slot[a.session] # 0 /\ out[slot[a.session]] = 0
      BY <3>1 DEF Live
    <3>3. \A j \in pumps : j.session = a.session /\ j.pid = slot[a.session] => j.shown = 0
      <4> SUFFICES ASSUME NEW j \in pumps, j.session = a.session, j.pid = slot[a.session] PROVE j.shown = 0
        OBVIOUS
      <4>1. j.shown \in Nat /\ j.shown <= 0
        BY <3>2 DEF IInv, PumpsOK
      <4> QED
        BY <4>1
    <3>4. \A v \in Watched : screen[v][a.session].pid # slot[a.session]
      <4> SUFFICES ASSUME NEW v \in Watched, screen[v][a.session].pid = slot[a.session] PROVE FALSE
        OBVIOUS
      <4>1. 1 <= screen[v][a.session].upto /\ screen[v][a.session].upto <= 0
        BY <3>2 DEF SInv, Screens
      <4>2. screen[v][a.session].upto \in Nat
        BY <3>2 DEF SInv, Screens
      <4> QED
        BY <4>1, <4>2
    <3>5. \A v \in Watched : Level(v, a.session)
      BY <3>3, <3>4 DEF Level, Seen
    <3>6. NoBacklog(a.session)
      BY <3>3 DEF NoBacklog
    <3> QED
      BY <1>1, <3>5, <3>6, ClaimsOfCalls
  <2> QED
    BY <2>1, <2>2
<1>11. RecordsOK'
  <2> SUFFICES ASSUME NEW k \in pumps PROVE RecordOK(k)'
    BY <1>1 DEF RecordsOK
  <2>1. RecordOK(k) /\ k.session \in Sessions /\ k.pid \in Pids
    BY DEF SInv, RecordsOK, IInv, PumpsOK
  <2>2. k.pid = slot[k.session] => k.session \in Live
    BY <2>1, BoundsAssumption DEF Live, Pids
  <2>3. \A v \in Watched : k.pid = slot[k.session] /\ Relies(v, k.session, table[k.session].epoch, Callers)'
             => Relies(v, k.session, table[k.session].epoch, Callers)
    BY <1>1, <1>9, <2>2
  <2> QED
    BY <1>1, <2>1, <2>3, ClaimsOfCalls DEF RecordOK
<1>12. EpochReads'
  <2>1. \A d \in Callers : Alone(d)' => d = c /\ Alone(c)
    BY <1>1, <1>2, <1>3 DEF Alone
  <2>2. subscriber_epoch' = subscriber_epoch /\ Live' = Live
    BY <1>1 DEF subscriber_epoch, Subscribed, Live
  <2>3. Alone(c) => /\ call[c].epoch = subscriber_epoch
                    /\ \A s \in Sessions, p \in Pids :
                          <<s, p, call[c].epoch>> \in call[c].known => table[s].epoch = call[c].epoch
    BY <1>1 DEF SInv, EpochReads
  <2>4. \A s \in Live : s \in Sessions /\ slot[s] \in Pids
    BY BoundsAssumption DEF Live, IInv, Typed, Pids
  <2>5. ASSUME Alone(c), call[c].demand, NEW s \in Live
        PROVE  (\E a \in A : a.session = s) \/ table[s].epoch = call[c].epoch
    <3>1. CASE s \in Wanting(call[c])
      BY <1>5, <3>1
    <3>2. CASE s \notin Wanting(call[c])
      <4>1. <<s, slot[s], call[c].epoch>> \in call[c].known
        BY <2>5, <3>2 DEF Wanting
      <4> QED
        BY <2>3, <2>4, <2>5, <4>1
    <3> QED
      BY <3>1, <3>2
  <2> QED
    BY <1>1, <1>2, <1>3, <2>1, <2>2, <2>3, <2>5 DEF EpochReads
<1>13. EpochServed'
  BY <1>2, <1>3 DEF EpochServed, Quiet
<1> QED
  BY <1>7, <1>8, <1>10, <1>11, <1>12, <1>13 DEF SInv

\* Pumps may end, and calls that hold nothing any more.
LEMMA FewerPumpsScreens ==
    ASSUME IInv, SInv, pumps' \subseteq pumps,
           UNCHANGED <<slot, nextPid, out, view, ready, screen, table, plain, forced,
                       overtaken, outOfOrder, disturbed>>,
           \A c \in Callers : call'[c] = call[c] \/ (call[c].at = "abort" /\ call'[c] = Idle)
    PROVE  SInv'
<1>1. \A c \in Callers : /\ call'[c].attach = call[c].attach
                         /\ Made(call'[c].epoch) /\ (~call'[c].demand => call'[c].epoch = 0)
  <2> TAKE c \in Callers
  <2>1. CASE call'[c] = call[c]
    BY <2>1 DEF SInv, EpochsMade
  <2>2. CASE call[c].at = "abort" /\ call'[c] = Idle
    <3>1. call[c].attach = {}
      BY <2>2 DEF IInv, CallsOK
    <3> QED
      BY <2>2, <3>1 DEF Idle, Made
  <2> QED
    BY <2>1, <2>2
<1>2. \A c \in Callers : \/ call'[c] = call[c]
                         \/ call[c].at = "abort" /\ call'[c].at = "idle" /\ call[c].attach = {}
  BY DEF Idle, IInv, CallsOK
<1>3. Screens' /\ IdsDiffer'
  BY DEF SInv, Screens, IdsDiffer
<1>4. PidsInOrder'
  BY <1>1 DEF SInv, PidsInOrder, Live
<1>5. EpochsMade'
  BY <1>1 DEF SInv, EpochsMade, Made
<1>6. \A v : Debt(v)' <=> Debt(v)
  BY <1>2 DEF Debt
<1>7. \A v \in Watched : \A s, e, D : D \subseteq Callers /\ Relies(v, s, e, D)' => Relies(v, s, e, D)
  BY <1>1, <1>6 DEF Relies, Held, Listening, Subscribed
<1>8. /\ \A s : NoBacklog(s) => NoBacklog(s)'
      /\ \A v, s : Level(v, s) => Level(v, s)'
      /\ \A v, k : Follows(v, k) => Follows(v, k)'
  BY DEF NoBacklog, Level, Follows, Seen
<1>9. EntriesOK'
  <2> SUFFICES ASSUME NEW d \in Callers \ overtaken, NEW a \in call[d].attach PROVE EntryOK(d, a)'
    BY <1>1 DEF EntriesOK
  <2>1. EntryOK(d, a)
    BY DEF SInv, EntriesOK
  <2>2. call'[d] = call[d]
    BY <1>2
  <2> QED
    BY <1>7, <1>8, <2>1, <2>2 DEF EntryOK
<1>10. RecordsOK'
  <2> SUFFICES ASSUME NEW k \in pumps PROVE RecordOK(k)'
    BY DEF RecordsOK
  <2>1. RecordOK(k)
    BY DEF SInv, RecordsOK
  <2> QED
    BY <1>7, <1>8, <2>1 DEF RecordOK
<1>11. EpochReads'
  <2>1. \A d \in Callers : Alone(d)' => Alone(d)
    BY <1>2 DEF Alone
  <2>2. subscriber_epoch' = subscriber_epoch /\ Live' = Live
    BY DEF subscriber_epoch, Subscribed, Live
  <2> QED
    BY <1>2, <2>1, <2>2 DEF SInv, EpochReads
<1>12. EpochServed'
  <2>1. Quiet' => Quiet
    BY <1>2 DEF Quiet
  <2> QED
    BY <2>1 DEF SInv, EpochServed, demand_active, subscriber_epoch, Subscribed, Live
<1> QED
  BY <1>3, <1>4, <1>5, <1>9, <1>10, <1>11, <1>12 DEF SInv

LEMMA AbortScreens ==
    ASSUME IInv, SInv, NEW c \in Callers, Abort(c)
    PROVE  SInv'
<1>1. /\ UNCHANGED <<slot, nextPid, out, view, ready, screen, table, plain, forced,
                     overtaken, outOfOrder, disturbed>>
      /\ call' = [call EXCEPT ![c] = Idle] /\ call[c].at = "abort"
      /\ pumps' \subseteq pumps
  BY DEF Abort, lane, surface, work, history
<1>2. call'[c] = Idle /\ \A d \in Callers \ {c} : call'[d] = call[d]
  BY <1>1, OneCall DEF IInv
<1> QED
  BY <1>1, <1>2, FewerPumpsScreens

LEMMA SlotClosedScreens ==
    ASSUME IInv, SInv, NEW k \in pumps, SlotClosed(k)
    PROVE  SInv'
<1>1. /\ UNCHANGED <<slot, nextPid, out, view, ready, screen, table, plain, forced, call,
                     overtaken, outOfOrder, disturbed>>
      /\ pumps' \subseteq pumps
  BY DEF SlotClosed, lane, surface, work, history
<1> QED
  BY <1>1, FewerPumpsScreens

LEMMA ApplyScreens ==
    ASSUME IInv, SInv, NEW c \in Callers, Apply(c)
    PROVE  SInv'
<1> DEFINE New == {a.session : a \in call[c].attach}
           PidOf(s) == (CHOOSE a \in call[c].attach : a.session = s).pid
           Fresh(id) == {[id |-> id[a.session], session |-> a.session, pid |-> a.pid,
                          shown |-> a.shown, live |-> FALSE] : a \in call[c].attach}
<1>0. PICK r : r = [Idle EXCEPT !.at = "abort", !.removed = Removed(call[c])]
  OBVIOUS
<1>1. PICK id \in [New -> Handles] :
         /\ \A s \in New : id[s] \notin InUse /\ \A q \in New : id[s] = id[q] => s = q
         /\ table' = [s \in Sessions |->
                        IF s \in New THEN [pid |-> PidOf(s), epoch |-> call[c].epoch, id |-> id[s]]
                        ELSE IF call[c].demand /\ s \in call[c].live THEN table[s] ELSE NoPump]
         /\ pumps' = pumps \cup Fresh(id)
  BY DEF Apply
<1>2. /\ UNCHANGED <<slot, nextPid, out, view, ready, screen, plain, forced>>
      /\ disturbed' = IF c \in overtaken THEN disturbed \cup New ELSE disturbed
      /\ call' = [call EXCEPT ![c] = r] /\ call[c].at = "apply"
      /\ overtaken' = overtaken \cup {d \in Callers \ {c} : call[d].at \in {"known", "attach", "apply"}}
      /\ outOfOrder' = (c \in overtaken)
  BY <1>0 DEF Apply, lane, surface, work
<1>3. r.at = "abort" /\ r.attach = {} /\ r.demand = FALSE /\ r.epoch = 0
  <2> HIDE DEF Removed
  <2> QED
    BY <1>0 DEF Idle
<1>4. /\ call' = [d \in Callers |-> call'[d]] /\ call'[c] = r
      /\ \A d \in Callers \ {c} : call'[d] = call[d]
  BY <1>2, OneCall DEF IInv
<1>5. \A a \in call[c].attach : a.session \in New /\ a.session \in Sessions
  BY DEF IInv, AttachOK
<1>6. \A s \in New : s \in Sessions /\ \E a \in call[c].attach : a.session = s
  BY DEF IInv, AttachOK
<1> HIDE DEF New, PidOf
<1>7. \A s \in Sessions :
         /\ s \in New => /\ table'[s].id = id[s] /\ table'[s].epoch = call[c].epoch
                         /\ id[s] \in Handles /\ id[s] \notin InUse
         /\ s \notin New => table'[s] = table[s] \/ table'[s] = NoPump
         /\ s \notin New /\ call[c].demand /\ s \in call[c].live => table'[s] = table[s]
  BY <1>1
<1>8. \A k \in Fresh(id) : \E a \in call[c].attach :
          /\ k.id = id[a.session] /\ k.session = a.session /\ k.pid = a.pid
          /\ k.shown = a.shown /\ k.live = FALSE
          /\ k = [id |-> id[a.session], session |-> a.session, pid |-> a.pid,
                  shown |-> a.shown, live |-> FALSE]
  OBVIOUS
<1> HIDE DEF Fresh
<1>9. \A k \in pumps : k.id \in InUse /\ k.id \in Handles /\ k.session \in Sessions
  BY DEF InUse, IInv, PumpsOK
<1>10. Live' = Live /\ Listening' = Listening /\ subscriber_epoch' = subscriber_epoch
       /\ demand_active' = demand_active
  BY <1>2 DEF Live, Listening, subscriber_epoch, Subscribed, demand_active
<1>11. Screens'
  BY <1>2 DEF SInv, Screens
<1>12. PidsInOrder'
  <2>1. \A s \in Live, k \in pumps' : k.session = s => k.pid <= slot[s]
    BY <1>1, <1>8 DEF SInv, PidsInOrder
  <2>2. \A d \in Callers : call'[d].attach \subseteq call[d].attach
    BY <1>3, <1>4
  <2> QED
    BY <1>2, <1>10, <2>1, <2>2 DEF SInv, PidsInOrder
<1>13. EpochsMade'
  <2>1. \A d \in Callers : Made(call'[d].epoch) /\ (~call'[d].demand => call'[d].epoch = 0)
    BY <1>3, <1>4 DEF SInv, EpochsMade, Made
  <2>2. \A s \in Sessions : Made(table'[s].epoch)
    <3> TAKE s \in Sessions
    <3>1. NoPump.epoch = 0
      BY DEF NoPump
    <3> QED
      BY <1>7, <3>1 DEF SInv, EpochsMade, Made
  <2> QED
    BY <1>2, <2>1, <2>2 DEF SInv, EpochsMade, Made
<1>14. IdsDiffer'
  <2> SUFFICES ASSUME NEW k \in pumps', NEW l \in pumps', k.id = l.id PROVE k = l
    BY DEF IdsDiffer
  <2>1. CASE k \in pumps /\ l \in pumps
    BY <2>1 DEF SInv, IdsDiffer
  <2>2. CASE k \in Fresh(id) /\ l \in Fresh(id)
    <3>1. PICK a \in call[c].attach :
              k = [id |-> id[a.session], session |-> a.session, pid |-> a.pid,
                   shown |-> a.shown, live |-> FALSE] /\ k.id = id[a.session]
      BY <1>8, <2>2
    <3>2. PICK b \in call[c].attach :
              l = [id |-> id[b.session], session |-> b.session, pid |-> b.pid,
                   shown |-> b.shown, live |-> FALSE] /\ l.id = id[b.session]
      BY <1>8, <2>2
    <3>3. a.session = b.session
      BY <1>1, <1>5, <3>1, <3>2
    <3>4. a = b
      BY <3>3 DEF IInv, AttachOK
    <3> QED
      BY <3>1, <3>2, <3>4
  <2>3. \A m \in Fresh(id), n \in pumps : m.id # n.id
    BY <1>1, <1>5, <1>8, <1>9
  <2> QED
    BY <1>1, <2>1, <2>2, <2>3
\* What else is about to apply has been overtaken.
<1>15. \A d \in Callers \ overtaken' : call'[d].attach = {}
  <2>1. \A d \in Callers : call[d].at # "apply" => call[d].attach = {}
    BY DEF IInv, CallsOK
  <2> QED
    BY <1>2, <1>3, <1>4, <2>1
<1>16. EntriesOK'
  BY <1>15 DEF EntriesOK
<1>17. \A v : Debt(v)' <=> Debt(v)
  BY <1>2, <1>3, <1>4 DEF Debt
<1>18. \A s, v, e : Relies(v, s, e, Callers)' => Relies(v, s, e, Callers \ {c})
  <2>1. \A s : Held(s, Callers \ {c}) => Held(s, Callers)'
    BY <1>4 DEF Held
  <2> QED
    BY <1>2, <1>10, <1>17, <2>1 DEF Relies
\* The new pumps have yet to replay.
<1>19. /\ \A s \in Sessions \ New : NoBacklog(s) => NoBacklog(s)'
       /\ \A s, v : Level(v, s) => Level(v, s)'
       /\ \A k, v : Follows(v, k) => Follows(v, k)'
  BY <1>1, <1>2, <1>5, <1>8 DEF NoBacklog, Level, Follows, Seen
<1>20. RecordsOK'
  <2> SUFFICES ASSUME NEW k \in pumps', table'[k.session].id = k.id, k.pid = slot[k.session] PROVE RecordOK(k)'
    BY <1>2 DEF RecordsOK, RecordOK
  <2>1. CASE k \in pumps
    <3>1. k.session \in Sessions /\ k.session \notin New
      BY <1>7, <1>9, <2>1
    <3>2. table'[k.session] = table[k.session]
      BY <1>7, <1>9, <2>1, <3>1, HandlesAssumption DEF NoPump
    <3>3. ~Held(k.session, {c})
      BY <1>5, <3>1 DEF Held
    <3>4. \A v, e : Relies(v, k.session, e, Callers)' => Relies(v, k.session, e, Callers)
      BY <1>18, <3>3 DEF Relies, Held
    <3>5. RecordOK(k) /\ disturbed \subseteq disturbed'
      BY <1>2, <2>1 DEF SInv, RecordsOK
    <3> QED
      BY <1>2, <1>19, <3>1, <3>2, <3>4, <3>5 DEF RecordOK
  <2>2. CASE k \in Fresh(id)
    <3>1. PICK a \in call[c].attach : /\ k.session = a.session /\ k.pid = a.pid
                                      /\ k.shown = a.shown /\ k.live = FALSE
      BY <1>8, <2>2
    <3>2. k.session \in New /\ k.session \in Sessions /\ table'[k.session].epoch = call[c].epoch
      BY <1>5, <1>7, <3>1
    <3> SUFFICES ASSUME k.shown = 0, k.session \notin disturbed'
                 PROVE  /\ NoBacklog(k.session)'
                        /\ \A v \in Watched : Relies(v, k.session, call[c].epoch, Callers \ {c})
                              => Level(v, k.session)'
      BY <1>18, <3>1, <3>2 DEF RecordOK, Relies
    <3>3. c \notin overtaken
      BY <1>2, <3>2
    <3>4. EntryOK(c, a)
      BY <3>3 DEF SInv, EntriesOK
    <3>5. \A j \in Fresh(id) : j.session = k.session => j.shown = 0
      BY <1>8, <3>1 DEF IInv, AttachOK
    <3>6. NoBacklog(k.session)
      BY <2>2, <3>1, <3>4 DEF EntryOK
    <3>7. NoBacklog(k.session)'
      BY <1>1, <1>2, <3>5, <3>6 DEF NoBacklog
    <3> QED
      BY <1>19, <3>1, <3>4, <3>7 DEF EntryOK
  <2> QED
    BY <1>1, <2>1, <2>2
<1>21. EpochReads'
  <2>1. \A d \in Callers : Alone(d)' => call'[d].at \notin {"known", "attach", "apply"}
    BY <1>2, <1>3, <1>4 DEF Alone
  <2> QED
    BY <2>1 DEF EpochReads
<1>22. EpochServed'
  <2> SUFFICES ASSUME Quiet', ~outOfOrder', demand_active, NEW s \in Live
               PROVE  table'[s].epoch = subscriber_epoch
    BY <1>10 DEF EpochServed
  <2>1. Alone(c)
    BY <1>2, <1>4 DEF Quiet, Alone
  <2>2. call[c].demand = demand_active /\ AttachIsTrue(call[c])
    BY <1>2, <2>1 DEF IInv, ReadingHolds
  <2>3. /\ call[c].epoch = subscriber_epoch
        /\ (\E a \in call[c].attach : a.session = s) \/ table[s].epoch = call[c].epoch
    BY <1>2, <2>1, <2>2 DEF SInv, EpochReads
  <2>4. s \in Sessions /\ s \in call[c].live
    BY <2>2 DEF AttachIsTrue, Live
  <2> QED
    BY <1>5, <1>7, <2>2, <2>3, <2>4
<1> QED
  BY <1>11, <1>12, <1>13, <1>14, <1>16, <1>20, <1>21, <1>22 DEF SInv

-----------------------------------------------------------------------------
(* The steps of a pump that goes on, as m: it writes on the screens of its *)
(* session, for those who listen.                                          *)

\* What is said of other sessions, and of the calls and epochs, is left alone.
LEMMA OtherSessions ==
    ASSUME IInv, SInv, NEW k \in pumps, NEW m, m.session = k.session,
           pumps' = (pumps \ {k}) \cup {m},
           UNCHANGED <<slot, nextPid, out, view, ready, table, plain, forced, call, overtaken, outOfOrder>>,
           \A v \in Watched, s \in Sessions : s # k.session => screen'[v][s] = screen[v][s],
           \A s \in Sessions : s # k.session => (s \in disturbed' <=> s \in disturbed)
    PROVE  /\ \A c \in Callers \ overtaken : \A a \in call[c].attach :
                 a.session # k.session => EntryOK(c, a)'
           /\ \A l \in pumps' : l.session # k.session => RecordOK(l)'
           /\ EpochsMade' /\ EpochReads' /\ EpochServed'
<1>1. \A l : l.session # k.session => (l \in pumps' <=> l \in pumps)
  OBVIOUS
<1>2. \A s \in Sessions :
         s # k.session => /\ NoBacklog(s) => NoBacklog(s)'
                          /\ \A v \in Watched : Level(v, s) => Level(v, s)'
  BY <1>1 DEF NoBacklog, Level, Seen
<1>3. \A s \in Sessions : \A v, e, D : s # k.session /\ Relies(v, s, e, D)' => Relies(v, s, e, D)
  BY DEF Relies, Debt, Held, Listening, Subscribed
<1>4. ASSUME NEW c \in Callers \ overtaken, NEW a \in call[c].attach, a.session # k.session
      PROVE  EntryOK(c, a)'
  <2>1. EntryOK(c, a) /\ a.session \in Sessions
    BY DEF SInv, EntriesOK, IInv, AttachOK
  <2>2. call'[c].epoch = call[c].epoch /\ slot'[a.session] = slot[a.session]
    OBVIOUS
  <2>3. \A v : Relies(v, a.session, call[c].epoch, Callers \ {c})'
                 => Relies(v, a.session, call[c].epoch, Callers \ {c})
    BY <1>3, <1>4, <2>1, <2>2
  <2>4. /\ NoBacklog(a.session) => NoBacklog(a.session)'
        /\ \A v \in Watched : Level(v, a.session) => Level(v, a.session)'
    BY <1>2, <1>4, <2>1
  <2> QED
    BY <2>1, <2>2, <2>3, <2>4 DEF EntryOK
<1>5. ASSUME NEW l \in pumps', l.session # k.session
      PROVE  RecordOK(l)'
  <2>1. RecordOK(l) /\ l.session \in Sessions
    BY <1>1, <1>5 DEF SInv, RecordsOK, IInv, PumpsOK
  <2>2. \A v \in Watched : Follows(v, l) => Follows(v, l)'
    BY <1>5, <2>1 DEF Follows
  <2>3. \A v : Relies(v, l.session, table[l.session].epoch, Callers)'
                 => Relies(v, l.session, table[l.session].epoch, Callers)
    BY <1>3, <1>5, <2>1
  <2>4. l.session \in disturbed' <=> l.session \in disturbed
    BY <1>5, <2>1
  <2>5. /\ NoBacklog(l.session) => NoBacklog(l.session)'
        /\ \A v \in Watched : Level(v, l.session) => Level(v, l.session)'
    BY <1>2, <1>5, <2>1
  <2> QED
    BY <2>1, <2>2, <2>3, <2>4, <2>5 DEF RecordOK
<1>6. EpochsMade'
  BY DEF SInv, EpochsMade, Made
<1>7. EpochReads' /\ EpochServed'
  BY DEF SInv, EpochReads, EpochServed, Alone, Quiet, Live, subscriber_epoch, demand_active, Subscribed
<1> QED
  BY <1>4, <1>5, <1>6, <1>7

LEMMA ReplayScreens ==
    ASSUME IInv, SInv, NEW k \in pumps, Replay(k)
    PROVE  SInv'
<1> DEFINE m == [k EXCEPT !.live = TRUE]
           s == k.session
           x == [pid |-> k.pid, upto |-> k.shown, whole |-> TRUE]
<1>1. /\ k \in [id : Handles, session : Sessions, pid : Pids, shown : Nat, live : BOOLEAN]
      /\ k.pid < nextPid /\ k.shown <= out[k.pid]
  BY DEF IInv, PumpsOK
<1>2. /\ m.id = k.id /\ m.session = s /\ m.pid = k.pid /\ m.shown = k.shown /\ m.live = TRUE
  BY <1>1
<1>3. pumps' = (pumps \ {k}) \cup {m} /\ ~k.live
  BY DEF Replay
<1>4. /\ UNCHANGED <<slot, nextPid, out, view, ready, table, plain, forced, call, overtaken, outOfOrder>>
      /\ disturbed' = IF k.shown = 0 THEN disturbed
                      ELSE IF Own(k) THEN disturbed \ {s} ELSE disturbed \cup {s}
  BY DEF Replay, lane, work
<1>5. x \in [pid : Nat, upto : Nat, whole : BOOLEAN] /\ x.pid = k.pid /\ x.upto = k.shown /\ x.whole = TRUE
  BY <1>1, BoundsAssumption DEF Pids
<1>6. screen' = IF k.shown = 0 THEN screen
                ELSE [v \in Watched |-> IF v \in Listening THEN [screen[v] EXCEPT ![s] = x] ELSE screen[v]]
  <2> HIDE DEF x
  <2>1. CASE k.shown = 0
    BY <2>1 DEF Replay
  <2>2. CASE k.shown # 0
    <3>1. \A v \in Watched : v \in Subscribed \cap ready <=> v \in Listening
      BY DEF Listening
    <3> QED
      BY <2>2, <3>1 DEF Replay, Deliver, x
  <2> QED
    BY <2>1, <2>2
<1> HIDE DEF m, x
<1>7. screen' \in [Watched -> [Sessions -> [pid : Nat, upto : Nat, whole : BOOLEAN]]]
  BY <1>1, <1>5, <1>6 DEF SInv, Screens
<1>8. \A v \in Watched, q \in Sessions :
         screen'[v][q] = IF k.shown # 0 /\ v \in Listening /\ q = s THEN x ELSE screen[v][q]
  BY <1>1, <1>6 DEF SInv, Screens
<1>9. Screens'
  <2> SUFFICES ASSUME NEW v \in Watched, NEW q \in Sessions
               PROVE  /\ screen'[v][q].pid < nextPid
                      /\ screen'[v][q].pid # 0 =>
                            1 <= screen'[v][q].upto /\ screen'[v][q].upto <= out[screen'[v][q].pid]
    BY <1>4, <1>7 DEF Screens
  <2>1. CASE k.shown # 0 /\ v \in Listening /\ q = s
    <3>1. screen'[v][q] = x
      BY <1>8, <2>1
    <3> QED
      BY <1>1, <1>5, <2>1, <3>1
  <2>2. CASE ~(k.shown # 0 /\ v \in Listening /\ q = s)
    <3>1. screen'[v][q] = screen[v][q]
      BY <1>8, <2>2
    <3> QED
      BY <3>1 DEF SInv, Screens
  <2> QED
    BY <2>1, <2>2
<1>10. PidsInOrder'
  <2>1. Live' = Live /\ Live \subseteq Sessions
    BY <1>4 DEF Live
  <2>2. s \in Live => k.pid <= slot[s]
    BY DEF SInv, PidsInOrder
  <2>3. \A q \in Live, v \in Watched : screen'[v][q].pid <= slot[q]
    BY <1>5, <1>8, <2>1, <2>2 DEF SInv, PidsInOrder
  <2>4. \A q \in Live, j \in pumps' : j.session = q => j.pid <= slot[q]
    BY <1>2, <1>3, <2>2 DEF SInv, PidsInOrder
  <2> QED
    BY <1>4, <2>1, <2>3, <2>4 DEF SInv, PidsInOrder
<1>11. IdsDiffer'
  BY <1>2, <1>3 DEF SInv, IdsDiffer
<1>12. /\ \A c \in Callers \ overtaken : \A a \in call[c].attach : a.session # s => EntryOK(c, a)'
       /\ \A l \in pumps' : l.session # s => RecordOK(l)'
       /\ EpochsMade' /\ EpochReads' /\ EpochServed'
  BY <1>2, <1>3, <1>4, <1>8, OtherSessions
<1>13. NoBacklog(s) => NoBacklog(s)'
  BY <1>2, <1>3, <1>4 DEF NoBacklog
\* An empty replay leaves every screen as it was.
<1>14. ASSUME k.shown = 0, NEW v \in Watched, Level(v, s) PROVE Level(v, s)'
  <2>1. screen'[v][s] = screen[v][s]
    BY <1>1, <1>8, <1>14
  <2>2. Seen(v, s)' = Seen(v, s) /\ Seen(v, s) \in Nat
    BY <1>1, <1>4, <2>1 DEF Seen, SInv, Screens
  <2>3. \A j \in pumps' : j \in pumps \/ j.shown = 0
    BY <1>2, <1>3, <1>14
  <2>4. \A j \in pumps' : j.session = s /\ j.pid = slot[s] /\ j.live => j.shown <= Seen(v, s)
    BY <2>2, <2>3, <1>14 DEF Level
  <2> QED
    BY <1>4, <1>14, <2>1, <2>2, <2>4 DEF Level
<1>15. \A v, e, D : Relies(v, s, e, D)' => s \notin disturbed' /\ (s \notin disturbed => Relies(v, s, e, D))
  BY <1>4 DEF Relies, Debt, Held, Listening, Subscribed
<1>16. EntriesOK'
  <2> SUFFICES ASSUME NEW c \in Callers \ overtaken, NEW a \in call[c].attach, a.session = s
               PROVE  EntryOK(c, a)'
    BY <1>4, <1>12 DEF EntriesOK
  <2>1. EntryOK(c, a)
    BY DEF SInv, EntriesOK
  <2> SUFFICES ASSUME a.shown = 0, a.pid = slot[s]
               PROVE  /\ NoBacklog(s)'
                      /\ \A v \in Watched : Relies(v, s, call[c].epoch, Callers \ {c})' => Level(v, s)'
    BY <1>4 DEF EntryOK
  <2>2. NoBacklog(s)
    BY <2>1 DEF EntryOK
  <2>3. k.shown # 0 => s \in disturbed'
    BY <1>1, <1>3, <1>4, <2>2 DEF NoBacklog, Own
  <2>4. ASSUME NEW v \in Watched, Relies(v, s, call[c].epoch, Callers \ {c})'
        PROVE  Level(v, s)'
    <3>1. k.shown = 0 /\ s \notin disturbed
      BY <1>4, <1>15, <2>3, <2>4
    <3> QED
      BY <1>4, <1>14, <1>15, <2>1, <2>4, <3>1 DEF EntryOK
  <2> QED
    BY <1>13, <2>2, <2>4
<1>17. RecordsOK'
  <2> SUFFICES ASSUME NEW l \in pumps', l.session = s PROVE RecordOK(l)'
    BY <1>12 DEF RecordsOK
  <2> SUFFICES ASSUME table[s].id = l.id, l.pid = slot[s], s \notin disturbed'
               PROVE  /\ ~l.live /\ l.shown = 0 => NoBacklog(s)'
                      /\ \A v \in Watched : Relies(v, s, table[s].epoch, Callers)' =>
                            /\ ~l.live /\ l.shown = 0 => Level(v, s)'
                            /\ l.live => Follows(v, l)'
    BY <1>4, <1>15 DEF RecordOK
  <2>1. CASE k.shown # 0
    <3>1. table[s].id = k.id
      BY <1>4, <2>1 DEF Own
    <3>2. l = m
      BY <1>3, <3>1 DEF SInv, IdsDiffer
    <3>3. l.live = TRUE /\ l.shown = k.shown /\ l.pid = k.pid
      BY <1>2, <3>2
    <3>4. \A v \in Listening : Follows(v, l)'
      BY <1>1, <1>5, <1>8, <2>1, <3>3 DEF Follows, Listening
    <3> QED
      BY <1>4, <3>3, <3>4 DEF Relies, Listening, Subscribed
  <2>2. CASE k.shown = 0
    <3>1. s \notin disturbed
      BY <1>4, <2>2
    <3>2. \A v \in Watched : screen'[v][s] = screen[v][s]
      BY <1>1, <1>8, <2>2
    <3>3. CASE l = m
      <4>1. RecordOK(k) /\ table[s].id = k.id /\ k.pid = slot[s]
        BY <1>2, <3>3 DEF SInv, RecordsOK
      <4>2. ASSUME NEW v \in Watched, Relies(v, s, table[s].epoch, Callers)' PROVE Follows(v, l)'
        <5>1. Level(v, s)
          BY <1>3, <1>4, <1>15, <2>2, <3>1, <4>1, <4>2 DEF RecordOK
        <5>2. screen[v][s].pid = slot[s] => screen[v][s].whole
          BY <5>1 DEF Level
        <5>3. screen[v][s].upto \in Nat
          BY <1>1 DEF SInv, Screens
        <5> QED
          BY <1>2, <2>2, <3>2, <3>3, <5>2, <5>3 DEF Follows
      <4> QED
        BY <1>2, <3>3, <4>2
    <3>4. CASE l # m
      <4>1. l \in pumps /\ RecordOK(l)
        BY <1>3, <3>4 DEF SInv, RecordsOK
      <4>2. \A v \in Watched : Follows(v, l) => Follows(v, l)'
        BY <3>2 DEF Follows
      <4>3. \A v : Relies(v, s, table[s].epoch, Callers)' => Relies(v, s, table[s].epoch, Callers)
        BY <1>4, <1>15, <3>1
      <4> QED
        BY <1>13, <1>14, <2>2, <3>1, <4>1, <4>2, <4>3 DEF RecordOK
    <3> QED
      BY <3>3, <3>4
  <2> QED
    BY <2>1, <2>2
<1> QED
  BY <1>9, <1>10, <1>11, <1>12, <1>16, <1>17 DEF SInv

\* What a chunk does to what a screen shows of a session.
LEMMA PrintedIs ==
    ASSUME NEW old \in [pid : Nat, upto : Nat, whole : BOOLEAN], NEW p \in Nat,
           NEW h \in Nat, NEW i \in Nat, i = h + 1, NEW new, new = Printed(old, p, i)
    PROVE  /\ new \in [pid : Nat, upto : Nat, whole : BOOLEAN]
           /\ new = old \/ (new.pid = p /\ new.upto = i)
           /\ p < old.pid => new = old
           /\ p = old.pid /\ h < old.upto => new = old
           /\ p = old.pid /\ h = old.upto => new.pid = p /\ new.upto = i /\ (old.whole => new.whole)
           /\ old.pid < p => new.pid = p /\ new.upto = i /\ (h = 0 => new.whole)
<1>1. CASE old.pid > p \/ (old.pid = p /\ i <= old.upto)
  <2>1. Printed(old, p, i) = old
    BY <1>1 DEF Printed
  <2> QED
    BY <1>1, <2>1
<1>2. CASE ~(old.pid > p \/ (old.pid = p /\ i <= old.upto))
  <2>1. CASE old.pid = p
    <3> DEFINE w == old.whole /\ i = old.upto + 1
    <3>1. Printed(old, p, i) = [pid |-> p, upto |-> i, whole |-> w]
      BY <1>2, <2>1 DEF Printed
    <3>2. w \in BOOLEAN /\ (i = old.upto + 1 => w = old.whole)
      OBVIOUS
    <3> HIDE DEF w
    <3> QED
      BY <1>2, <2>1, <3>1, <3>2
  <2>2. CASE old.pid # p
    <3> DEFINE w == i = 1
    <3>1. Printed(old, p, i) = [pid |-> p, upto |-> i, whole |-> w]
      BY <1>2, <2>2 DEF Printed
    <3>2. w \in BOOLEAN /\ (i = 1 => w)
      OBVIOUS
    <3> HIDE DEF w
    <3> QED
      BY <1>2, <2>2, <3>1, <3>2
  <2> QED
    BY <2>1, <2>2
<1> QED
  BY <1>1, <1>2

LEMMA ForwardScreens ==
    ASSUME IInv, SInv, NEW k \in pumps, Forward(k)
    PROVE  SInv'
<1> DEFINE m == [k EXCEPT !.shown = @ + 1]
           s == k.session
           n == k.shown + 1
           x(v) == Printed(screen[v][s], k.pid, n)
<1>1. /\ k \in [id : Handles, session : Sessions, pid : Pids, shown : Nat, live : BOOLEAN]
      /\ k.pid < nextPid /\ k.live /\ out[k.pid] \in Nat /\ n <= out[k.pid] /\ n \in Nat /\ 1 <= n
      /\ k.pid \in Nat
  BY BoundsAssumption DEF IInv, PumpsOK, Typed, Forward, Unsent, Pids
<1>2. /\ m.id = k.id /\ m.session = s /\ m.pid = k.pid /\ m.shown = n /\ m.live = k.live
  BY <1>1
<1>3. pumps' = (pumps \ {k}) \cup {m}
  BY DEF Forward
<1>4. /\ UNCHANGED <<slot, nextPid, out, view, ready, table, plain, forced, call, overtaken, outOfOrder>>
      /\ disturbed' = IF Ahead(k) THEN disturbed \cup {s} ELSE disturbed
  BY DEF Forward, lane, work
<1> HIDE DEF m
<1>5. screen' = [v \in Watched |-> IF v \in Listening THEN [screen[v] EXCEPT ![s] = x(v)] ELSE screen[v]]
  <2>1. \A v \in Watched : v \in Subscribed \cap ready <=> v \in Listening
    BY DEF Listening
  <2> QED
    BY <2>1 DEF Forward, Deliver
<1>6. \A v \in Watched : screen[v][s] \in [pid : Nat, upto : Nat, whole : BOOLEAN]
  BY <1>1 DEF SInv, Screens
<1>7. \A v \in Watched :
         /\ x(v) \in [pid : Nat, upto : Nat, whole : BOOLEAN]
         /\ x(v) = screen[v][s] \/ (x(v).pid = k.pid /\ x(v).upto = n)
         /\ k.pid < screen[v][s].pid => x(v) = screen[v][s]
         /\ k.pid = screen[v][s].pid /\ k.shown < screen[v][s].upto => x(v) = screen[v][s]
         /\ k.pid = screen[v][s].pid /\ k.shown = screen[v][s].upto =>
               x(v).pid = k.pid /\ x(v).upto = n /\ (screen[v][s].whole => x(v).whole)
         /\ screen[v][s].pid < k.pid => x(v).pid = k.pid /\ x(v).upto = n /\ (k.shown = 0 => x(v).whole)
  <2> TAKE v \in Watched
  <2>1. /\ screen[v][s] \in [pid : Nat, upto : Nat, whole : BOOLEAN] /\ n \in Nat /\ k.pid \in Nat
        /\ k.shown \in Nat /\ n = k.shown + 1
    BY <1>1, <1>6
  <2>2. x(v) = Printed(screen[v][s], k.pid, n)
    OBVIOUS
  <2> HIDE DEF s, n, x
  <2> QED
    BY <2>1, <2>2, PrintedIs DEF Printed
<1> HIDE DEF x, n
<1>8. screen' \in [Watched -> [Sessions -> [pid : Nat, upto : Nat, whole : BOOLEAN]]]
  BY <1>1, <1>5, <1>7 DEF SInv, Screens
<1>9. \A v \in Watched, q \in Sessions :
         screen'[v][q] = IF v \in Listening /\ q = s THEN x(v) ELSE screen[v][q]
  BY <1>1, <1>5 DEF SInv, Screens
<1>10. Screens'
  <2> SUFFICES ASSUME NEW v \in Watched, NEW q \in Sessions
               PROVE  /\ screen'[v][q].pid < nextPid
                      /\ screen'[v][q].pid # 0 =>
                            1 <= screen'[v][q].upto /\ screen'[v][q].upto <= out[screen'[v][q].pid]
    BY <1>4, <1>8 DEF Screens
  <2>1. CASE screen'[v][q] = screen[v][q]
    BY <2>1 DEF SInv, Screens
  <2>2. CASE screen'[v][q] # screen[v][q]
    <3>1. screen'[v][q].pid = k.pid /\ screen'[v][q].upto = n
      BY <1>7, <1>9, <2>2
    <3> QED
      BY <1>1, <3>1
  <2> QED
    BY <2>1, <2>2
<1>11. PidsInOrder'
  <2>1. Live' = Live /\ Live \subseteq Sessions
    BY <1>4 DEF Live
  <2>2. s \in Live => k.pid <= slot[s]
    BY DEF SInv, PidsInOrder
  <2>3. \A q \in Live, v \in Watched : screen'[v][q].pid <= slot[q]
    BY <1>7, <1>9, <2>1, <2>2 DEF SInv, PidsInOrder
  <2>4. \A q \in Live, j \in pumps' : j.session = q => j.pid <= slot[q]
    BY <1>2, <1>3, <2>2 DEF SInv, PidsInOrder
  <2> QED
    BY <1>4, <2>1, <2>3, <2>4 DEF SInv, PidsInOrder
<1>12. IdsDiffer'
  BY <1>2, <1>3 DEF SInv, IdsDiffer
<1>13. /\ \A c \in Callers \ overtaken : \A a \in call[c].attach : a.session # s => EntryOK(c, a)'
       /\ \A l \in pumps' : l.session # s => RecordOK(l)'
       /\ EpochsMade' /\ EpochReads' /\ EpochServed'
  BY <1>2, <1>3, <1>4, <1>9, OtherSessions
<1>14. NoBacklog(s) => NoBacklog(s)'
  BY <1>1, <1>2, <1>3, <1>4 DEF NoBacklog
<1>15. \A v, e, D : Relies(v, s, e, D)' => Relies(v, s, e, D) /\ ~Ahead(k) /\ v \in Listening
  BY <1>4 DEF Relies, Debt, Held, Listening, Subscribed
<1>16. \A v \in Watched : slot[s] # 0 => screen[v][s].pid <= slot[s] /\ k.pid <= slot[s] /\ slot[s] \in Nat
  <2>1. s \in Sessions /\ slot[s] \in Nat
    BY <1>1, BoundsAssumption DEF IInv, Typed
  <2>2. slot[s] # 0 => s \in Live
    BY <2>1 DEF Live
  <2> QED
    BY <2>1, <2>2 DEF SInv, PidsInOrder
\* A chunk of an older process is not seen, one of this process is the next or a repeated one.
<1>17. ASSUME NEW v \in Listening, Level(v, s), slot[s] # 0 PROVE Level(v, s)'
  <2>1. v \in Watched /\ screen'[v][s] = x(v) /\ screen[v][s].upto \in Nat /\ screen[v][s].pid \in Nat
    BY <1>1, <1>6, <1>9 DEF Listening
  <2>2. /\ screen[v][s].pid = slot[s] => screen[v][s].whole
        /\ \A j \in pumps : j.session = s /\ j.pid = slot[s] /\ j.live => j.shown <= Seen(v, s)
    BY <1>17 DEF Level
  <2>3. Seen(v, s) \in Nat /\ Seen(v, s)' \in Nat
    BY <1>1, <1>4, <1>7, <2>1 DEF Seen
  <2>4. CASE k.pid # slot[s]
    <3>1. screen'[v][s] = screen[v][s] \/ (screen'[v][s].pid # slot[s] /\ screen[v][s].pid # slot[s])
      BY <1>7, <1>16, <1>17, <2>1, <2>4
    <3>2. Seen(v, s)' = Seen(v, s)
      BY <1>4, <3>1 DEF Seen
    <3>3. \A j \in pumps' : j.pid = slot[s] => j \in pumps
      BY <1>2, <1>3, <2>4
    <3> QED
      BY <1>4, <2>2, <3>1, <3>2, <3>3 DEF Level
  <2>5. CASE k.pid = slot[s] /\ screen[v][s].pid = slot[s]
    <3>1. k.shown <= screen[v][s].upto /\ Seen(v, s) = screen[v][s].upto
      BY <1>1, <2>2, <2>5 DEF Seen
    <3>2. k.shown < screen[v][s].upto \/ k.shown = screen[v][s].upto
      BY <1>1, <2>1, <3>1 DEF n
    <3>3. /\ screen'[v][s].pid = slot[s] /\ (screen[v][s].whole => screen'[v][s].whole)
          /\ screen[v][s].upto <= screen'[v][s].upto /\ n <= screen'[v][s].upto
      BY <1>1, <1>7, <2>1, <2>5, <3>2 DEF n
    <3>4. Seen(v, s)' = screen'[v][s].upto
      BY <1>4, <3>3 DEF Seen
    <3>5. \A j \in pumps' : j.session = s /\ j.pid = slot[s] /\ j.live => j.shown <= Seen(v, s)'
      <4> SUFFICES ASSUME NEW j \in pumps', j.session = s, j.pid = slot[s], j.live PROVE j.shown <= Seen(v, s)'
        OBVIOUS
      <4>1. CASE j = m
        BY <1>2, <3>3, <3>4, <4>1
      <4>2. CASE j # m
        <5>1. j \in pumps /\ j.shown <= screen[v][s].upto /\ j.shown \in Nat
          BY <1>3, <2>2, <3>1, <4>2 DEF IInv, PumpsOK
        <5> QED
          BY <2>1, <2>3, <3>3, <3>4, <5>1
      <4> QED
        BY <4>1, <4>2
    <3> QED
      BY <1>4, <2>2, <2>5, <3>3, <3>5 DEF Level
  <2>6. CASE k.pid = slot[s] /\ screen[v][s].pid # slot[s]
    <3>1. Seen(v, s) = 0 /\ k.shown <= 0
      BY <1>1, <2>2, <2>6 DEF Seen
    <3>2. k.shown = 0 /\ n = 1
      BY <1>1, <3>1 DEF n
    <3>3. screen[v][s].pid < k.pid
      BY <1>16, <1>17, <2>1, <2>6
    <3>4. screen'[v][s].pid = slot[s] /\ screen'[v][s].upto = 1 /\ screen'[v][s].whole
      BY <1>7, <2>1, <2>6, <3>2, <3>3
    <3>5. Seen(v, s)' = 1
      BY <1>4, <3>4 DEF Seen
    <3>6. \A j \in pumps' : j.session = s /\ j.pid = slot[s] /\ j.live => j.shown <= 1
      <4> SUFFICES ASSUME NEW j \in pumps', j.session = s, j.pid = slot[s], j.live PROVE j.shown <= 1
        OBVIOUS
      <4>1. CASE j = m
        BY <1>2, <3>2, <4>1
      <4>2. CASE j # m
        <5>1. j \in pumps /\ j.shown <= 0 /\ j.shown \in Nat
          BY <1>3, <2>2, <3>1, <4>2 DEF IInv, PumpsOK
        <5> QED
          BY <5>1
      <4> QED
        BY <4>1, <4>2
    <3> QED
      BY <1>4, <3>4, <3>5, <3>6 DEF Level
  <2> QED
    BY <2>4, <2>5, <2>6
<1>18. EntriesOK'
  <2> SUFFICES ASSUME NEW c \in Callers \ overtaken, NEW a \in call[c].attach, a.session = s
               PROVE  EntryOK(c, a)'
    BY <1>4, <1>13 DEF EntriesOK
  <2>1. EntryOK(c, a) /\ a.pid # 0
    BY DEF SInv, EntriesOK, IInv, AttachOK
  <2> SUFFICES ASSUME a.shown = 0, a.pid = slot[s]
               PROVE  /\ NoBacklog(s)'
                      /\ \A v \in Watched : Relies(v, s, call[c].epoch, Callers \ {c})' => Level(v, s)'
    BY <1>4 DEF EntryOK
  <2>2. NoBacklog(s)
    BY <2>1 DEF EntryOK
  <2>3. ASSUME NEW v \in Watched, Relies(v, s, call[c].epoch, Callers \ {c})'
        PROVE  Level(v, s)'
    <3>1. Relies(v, s, call[c].epoch, Callers \ {c}) /\ v \in Listening
      BY <1>4, <1>15, <2>3
    <3>2. Level(v, s)
      BY <2>1, <3>1 DEF EntryOK
    <3> QED
      BY <1>17, <2>1, <3>1, <3>2
  <2> QED
    BY <1>14, <2>2, <2>3
<1>19. RecordsOK'
  <2> SUFFICES ASSUME NEW l \in pumps', l.session = s PROVE RecordOK(l)'
    BY <1>13 DEF RecordsOK
  <2> SUFFICES ASSUME table[s].id = l.id, l.pid = slot[s]
               PROVE  /\ ~l.live /\ l.shown = 0 /\ s \notin disturbed' => NoBacklog(s)'
                      /\ \A v \in Watched : Relies(v, s, table[s].epoch, Callers)' =>
                            /\ ~l.live /\ l.shown = 0 => Level(v, s)'
                            /\ l.live => Follows(v, l)'
    BY <1>4 DEF RecordOK
  <2>1. disturbed \subseteq disturbed'
    BY <1>4
  <2>2. slot[s] # 0 /\ slot[s] \in Nat
    BY <1>1, <1>2, <1>3, BoundsAssumption DEF IInv, PumpsOK, Pids
  <2>3. \A v : Relies(v, s, table[s].epoch, Callers)' =>
                  Relies(v, s, table[s].epoch, Callers) /\ ~Ahead(k) /\ v \in Listening
    BY <1>4, <1>15
  <2>4. CASE l = m
    <3>1. RecordOK(k) /\ table[s].id = k.id /\ k.pid = slot[s] /\ l.live
      BY <1>1, <1>2, <2>4 DEF SInv, RecordsOK
    <3>2. ASSUME NEW v \in Watched, Relies(v, s, table[s].epoch, Callers)' PROVE Follows(v, l)'
      <4>1. v \in Listening /\ Follows(v, k)
        BY <1>1, <2>3, <3>1, <3>2 DEF RecordOK
      <4>2. /\ k.shown > 0 => screen[v][s].pid = k.pid
            /\ screen[v][s].pid = k.pid => screen[v][s].whole /\ k.shown <= screen[v][s].upto
        BY <4>1 DEF Follows
      <4>3. screen'[v][s] = x(v) /\ screen[v][s].upto \in Nat /\ screen[v][s].pid \in Nat
        BY <1>1, <1>6, <1>9, <4>1
      <4>4. CASE screen[v][s].pid = k.pid
        <5>1. k.shown < screen[v][s].upto \/ k.shown = screen[v][s].upto
          BY <1>1, <4>2, <4>3, <4>4 DEF n
        <5>2. screen'[v][s].pid = k.pid /\ (screen[v][s].whole => screen'[v][s].whole) /\ n <= screen'[v][s].upto
          BY <1>1, <1>7, <4>3, <4>4, <5>1 DEF n
        <5> QED
          BY <1>2, <2>4, <4>2, <4>4, <5>2 DEF Follows
      <4>5. CASE screen[v][s].pid # k.pid
        <5>1. k.shown = 0 /\ n = 1
          BY <1>1, <4>2, <4>5 DEF n
        <5>2. screen[v][s].pid < k.pid
          BY <1>16, <2>2, <3>1, <4>3, <4>5
        <5>3. screen'[v][s].pid = k.pid /\ screen'[v][s].whole /\ n <= screen'[v][s].upto
          BY <1>1, <1>7, <4>3, <5>1, <5>2
        <5> QED
          BY <1>2, <2>4, <5>3 DEF Follows
      <4> QED
        BY <4>4, <4>5
    <3> QED
      BY <3>1, <3>2
  <2>5. CASE l # m
    <3>1. l \in pumps /\ l # k /\ RecordOK(l) /\ l.shown \in Nat
      BY <1>3, <2>5 DEF SInv, RecordsOK, IInv, PumpsOK
    <3>2. l.id # k.id
      BY <3>1 DEF SInv, IdsDiffer
    <3>3. ~l.live /\ l.shown = 0 /\ s \notin disturbed' => NoBacklog(s)'
      BY <1>14, <2>1, <3>1 DEF RecordOK
    <3>4. ASSUME NEW v \in Watched, Relies(v, s, table[s].epoch, Callers)', ~l.live, l.shown = 0
          PROVE  Level(v, s)'
      <4>1. Level(v, s) /\ v \in Listening
        BY <2>3, <3>1, <3>4 DEF RecordOK
      <4> QED
        BY <1>17, <2>2, <4>1
    <3>5. ASSUME NEW v \in Watched, Relies(v, s, table[s].epoch, Callers)', l.live
          PROVE  Follows(v, l)'
      <4>1. Follows(v, l) /\ v \in Listening /\ ~Ahead(k)
        BY <2>3, <3>1, <3>5 DEF RecordOK
      <4>2. /\ l.shown > 0 => screen[v][s].pid = l.pid
            /\ screen[v][s].pid = l.pid => screen[v][s].whole /\ l.shown <= screen[v][s].upto
        BY <4>1 DEF Follows
      <4>3. screen'[v][s] = x(v) /\ screen[v][s].upto \in Nat /\ screen[v][s].pid \in Nat
        BY <1>1, <1>6, <1>9, <4>1
      <4>4. CASE l.pid = k.pid
        <5>1. ~(l.shown <= k.shown)
          BY <3>1, <3>2, <3>5, <4>1, <4>4 DEF Ahead
        <5>2. n <= l.shown /\ l.shown > 0
          BY <1>1, <3>1, <5>1 DEF n
        <5>3. screen[v][s].pid = k.pid /\ n <= screen[v][s].upto
          BY <1>1, <3>1, <4>2, <4>3, <4>4, <5>2
        <5>4. screen'[v][s] = screen[v][s]
          BY <1>1, <1>7, <4>3, <5>3 DEF n
        <5> QED
          BY <4>1, <5>4 DEF Follows
      <4>5. CASE l.pid # k.pid
        <5>1. k.pid < l.pid
          BY <1>1, <1>16, <2>2, <4>5
        <5>2. screen'[v][s] = screen[v][s] \/ (screen'[v][s].pid # l.pid /\ screen[v][s].pid # l.pid)
          BY <1>1, <1>7, <4>3, <5>1
        <5> QED
          BY <3>1, <4>2, <5>2 DEF Follows
      <4> QED
        BY <4>4, <4>5
    <3> QED
      BY <3>3, <3>4, <3>5
  <2> QED
    BY <2>4, <2>5
<1> QED
  BY <1>10, <1>11, <1>12, <1>13, <1>18, <1>19 DEF SInv

-----------------------------------------------------------------------------
LEMMA StepSInv == IInv /\ SInv /\ [Next]_vars => SInv'
<1> SUFFICES ASSUME IInv, SInv, [Next]_vars PROVE SInv'
  OBVIOUS
<1>1. ASSUME NEW s \in Sessions, StartSlot(s) \/ DropSlot(s) \/ Output(s) PROVE SInv'
  BY <1>1, StartSlotScreens, DropSlotScreens, OutputScreens
<1>2. ASSUME NEW v \in Views,
             \/ \E loaded \in {TRUE, v \notin Watched} : Subscribe(v, loaded)
             \/ Unsubscribe(v) \/ ScriptReady(v)
      PROVE  SInv'
  BY <1>2, SubscribeScreens, UnsubscribeScreens, ScriptReadyScreens
<1>3. ASSUME NEW c \in Callers, CallStep(c) PROVE SInv'
  BY <1>3, ReadDemandScreens, ReadPumpsScreens, AttachScreens, ApplyScreens, AbortScreens DEF CallStep
<1>4. ASSUME NEW k \in pumps, PumpStep(k) PROVE SInv'
  BY <1>4, ReplayScreens, ForwardScreens, SlotClosedScreens DEF PumpStep
<1>5. CASE UNCHANGED vars
  <2>1. /\ UNCHANGED <<slot, nextPid, out, view, ready, screen, table, pumps, plain, forced, call,
                       overtaken, outOfOrder, disturbed>>
    BY <1>5 DEF vars, lane, surface, work, history
  <2> QED
    BY <2>1, FewerPumpsScreens
<1> QED
  BY <1>1, <1>2, <1>3, <1>4, <1>5 DEF Next

\* Once the pumps have caught up, every loaded screen shows all that its slot
\* has printed, in order (spawn_lane_terminal_pump), however many calls, pumps,
\* subscriptions and processes there were, and whatever was printed meanwhile.
THEOREM WholeScreens == Spec => []ScreenIsWhole
<1>1. IInv /\ SInv => ScreenIsWhole
  <2> SUFFICES ASSUME IInv, SInv, Quiet, ~outOfOrder,
                      \A k \in pumps : k.live /\ k.shown = out[k.pid],
                      NEW v \in Watched \cap Subscribed \cap ready, NEW s \in Live,
                      out[slot[s]] # 0, s \notin disturbed
               PROVE  screen[v][s] = [pid |-> slot[s], upto |-> out[slot[s]], whole |-> TRUE]
    BY DEF ScreenIsWhole
  <2>1. demand_active /\ s \in Sessions /\ slot[s] # 0 /\ v \in Watched /\ v \in Listening
    BY DEF demand_active, Live, Listening
  <2>2. PICK k \in pumps : k.id = table[s].id /\ table[s].pid = slot[s]
    BY <2>1 DEF IInv, ConvergesInOrder, Served, Runs
  <2>3. k.session = s /\ k.pid = slot[s] /\ k.live /\ k.shown = out[slot[s]] /\ k.shown \in Nat
    BY <2>1, <2>2 DEF IInv, PumpsOK
  <2>4. ~Debt(v) /\ ~Held(s, Callers)
    BY DEF Quiet, Debt, Held, IInv, CallsOK
  <2>5. v <= table[s].epoch
    BY <2>1, EpochIsLast DEF SInv, EpochServed
  <2>6. Follows(v, k)
    BY <2>1, <2>2, <2>3, <2>4, <2>5 DEF SInv, RecordsOK, RecordOK, Relies
  <2>7. screen[v][s].pid = slot[s] /\ screen[v][s].whole /\ out[slot[s]] <= screen[v][s].upto
    BY <2>3, <2>6 DEF Follows
  <2>8. screen[v][s] \in [pid : Nat, upto : Nat, whole : BOOLEAN] /\ screen[v][s].upto <= out[slot[s]]
    BY <2>1, <2>7 DEF SInv, Screens
  <2>9. screen[v][s].upto = out[slot[s]] /\ screen[v][s].whole = TRUE
    BY <2>3, <2>7, <2>8
  <2> QED
    BY <2>7, <2>8, <2>9
<1>2. IInv /\ SInv /\ [Next]_vars => SInv'
  BY StepSInv
<1> QED
  BY <1>1, <1>2, InitSInv, Invariance, PTL DEF Spec
=============================================================================
