---------------------------- MODULE TerminalPump ----------------------------
(***************************************************************************)
(* The consoles of one lane on their way to the screen.  A view subscribes *)
(* to the lane's terminal topic (TopicRouter); every change of the         *)
(* subscriptions, and every verb that changes a slot, calls                *)
(* reconcile_lane_pumps, which gives each live slot one pump while anybody *)
(* subscribes.  A pump sends what the slot printed so far and then what it *)
(* prints; the subscribers of the moment receive it.                       *)
(*                                                                         *)
(* reconcile_lane_pumps reads the subscriptions, the pumps and the slots   *)
(* under locks of their own, one after the other, writes the pumps under a *)
(* fourth and aborts what it replaced after that; calls overlap.           *)
(***************************************************************************)
EXTENDS Naturals, FiniteSets, FiniteSetsExt

CONSTANTS Sessions,   \* the lane's sessions that may have a slot
          Callers,    \* concurrent calls of reconcile_lane_pumps
          Watched,    \* the subscriptions whose screens are followed
          MAX_VIEWS,  \* bound: subscriptions made
          MAX_PIDS,   \* bound: processes started
          MAX_OUT,    \* bound: chunks that each process prints
          MAX_ASKED,  \* bound: calls spawned and not begun
          Handles     \* identities of pump tasks

ASSUME BoundsAssumption ==
    MAX_VIEWS \in Nat /\ MAX_PIDS \in Nat /\ MAX_OUT \in [1 .. MAX_PIDS -> Nat] /\ MAX_ASKED \in Nat
ASSUME HandlesAssumption == "none" \notin Handles

Views == 1 .. MAX_VIEWS       \* subscription ids: next_id counts up
Pids == 1 .. MAX_PIDS

VARIABLES
    slot,       \* LanePool.pty_slots: session |-> pid, 0 when it has no slot
    nextPid,
    out,        \* pid |-> chunks printed (the replay buffer and the broadcast)
    view,       \* subscription |-> where it is between subscribe and unsubscribe
    ready,      \* views whose webview has loaded its script
    screen,     \* history: watched view, session |-> what the screen shows
    table,      \* RepoState.terminal_pumps: session |-> the pump on record
    pumps,      \* the pump tasks that run
    plain, forced,  \* calls of reconcile_lane_pumps and of .._forcing_replay not begun
    call,       \* the calls under way
    overtaken,  \* history: callers whose reading another call has applied over
    outOfOrder, \* history: the last call to apply had been overtaken
    disturbed   \* history: sessions on whose screens another pump may have written
                \* since the one on record replayed

lane     == <<slot, nextPid, out>>
surface  == <<view, ready, screen>>
work     == <<plain, forced>>
history  == <<overtaken, outOfOrder, disturbed>>
vars     == <<lane, surface, table, pumps, work, call, history>>

NoPump == [pid |-> 0, epoch |-> 0, id |-> "none"]
Blank  == [pid |-> 0, upto |-> 0, whole |-> TRUE]
Idle   == [at |-> "idle", force |-> FALSE, demand |-> FALSE, epoch |-> 0,
           known |-> {}, live |-> {}, attach |-> {}, removed |-> {}]

Subscribed == {v \in Views : view[v] = "open"}

demand_active == Subscribed # {}
subscriber_epoch == IF Subscribed = {} THEN 0 ELSE Max(Subscribed)

Live == {s \in Sessions : slot[s] # 0}
Runs(p) == \E k \in pumps : k.id = p.id

Init ==
    /\ slot = [s \in Sessions |-> 0]
    /\ nextPid = 1
    /\ out = [p \in Pids |-> 0]
    /\ view = [v \in Views |-> "none"]
    /\ ready = {}
    /\ screen = [v \in Watched |-> [s \in Sessions |-> Blank]]
    /\ table = [s \in Sessions |-> NoPump]
    /\ pumps = {}
    /\ plain = 0 /\ forced = 0
    /\ call = [c \in Callers |-> Idle]
    /\ overtaken = {} /\ outOfOrder = FALSE /\ disturbed = {}

\* A task is spawned that will call reconcile_lane_pumps.
Spawned == plain + forced < MAX_ASKED /\ plain' = plain + 1 /\ UNCHANGED forced

-----------------------------------------------------------------------------
(* The lane.                                                               *)

\* A verb puts a fresh process in a slot, which may be occupied, and ends
\* with a reconcile of the pumps (reconcile_lane).
StartSlot(s) ==
    /\ nextPid \in Pids
    /\ slot' = [slot EXCEPT ![s] = nextPid]
    /\ nextPid' = nextPid + 1
    /\ Spawned
    /\ UNCHANGED <<out, surface, table, pumps, call, history>>

\* A verb takes a slot away.
DropSlot(s) ==
    /\ slot[s] # 0
    /\ slot' = [slot EXCEPT ![s] = 0]
    /\ Spawned
    /\ UNCHANGED <<nextPid, out, surface, table, pumps, call, history>>

\* The process prints: appended to the replay buffer and broadcast under one lock.
Output(s) ==
    /\ slot[s] # 0 /\ out[slot[s]] < MAX_OUT[slot[s]]
    /\ out' = [out EXCEPT ![slot[s]] = @ + 1]
    /\ UNCHANGED <<slot, nextPid, surface, table, pumps, work, call, history>>

-----------------------------------------------------------------------------
(* The router.                                                             *)

\* fire_demand calls the hook at every change, whichever way the count went.
Hook == Spawned

\* subscribe: the entry in the list, then fire_demand, which counts and calls
\* the hook, which spawns a call.  A surface may subscribe before its script
\* has loaded.
Subscribe(v, loaded) ==
    /\ view[v] = "none" /\ \A w \in Views : w < v => view[w] # "none"
    /\ view' = [view EXCEPT ![v] = "open"]
    /\ ready' = IF loaded THEN ready \cup {v} ELSE ready
    /\ Hook
    /\ UNCHANGED <<lane, screen, table, pumps, call, history>>

\* unsubscribe, the same way: the surface left, or the daemon noticed at last
\* that it is gone.
Unsubscribe(v) ==
    /\ view[v] = "open"
    /\ view' = [view EXCEPT ![v] = "gone"]
    /\ ready' = ready \ {v}
    /\ screen' = [w \in Watched |-> IF w = v THEN [s \in Sessions |-> Blank] ELSE screen[w]]
    /\ Hook
    /\ UNCHANGED <<lane, table, pumps, call, history>>

\* The script has loaded: what was pushed before was lost, so the surface
\* asks for a replay (catch_up.rs).
ScriptReady(v) ==
    /\ view[v] = "open" /\ v \notin ready
    /\ ready' = ready \cup {v}
    /\ plain + forced < MAX_ASKED
    /\ forced' = forced + 1
    /\ UNCHANGED <<lane, view, screen, table, pumps, plain, call, history>>

-----------------------------------------------------------------------------
(* reconcile_lane_pumps_inner, for one of the calls c.                     *)

Ask == \/ plain > 0 /\ plain' = plain - 1 /\ UNCHANGED forced
       \/ forced > 0 /\ forced' = forced - 1 /\ UNCHANGED plain

\* The router is asked who subscribes; the epoch is the latest of them.
ReadDemand(c) ==
    /\ call[c].at = "idle"
    /\ Ask
    /\ call' = [call EXCEPT ![c] = [Idle EXCEPT !.at = "known", !.force = forced' < forced,
                                                !.demand = demand_active, !.epoch = subscriber_epoch]]
    /\ overtaken' = overtaken \ {c}
    /\ UNCHANGED <<lane, surface, table, pumps, outOfOrder, disturbed>>

\* The pumps on record whose task has not ended.
ReadPumps(c) ==
    /\ call[c].at = "known"
    /\ call' = [call EXCEPT ![c].at = "attach",
                            ![c].known = {<<s, table[s].pid, table[s].epoch>> :
                                             s \in {r \in Sessions : Runs(table[r])}}]
    /\ UNCHANGED <<lane, surface, table, pumps, work, history>>

\* Mutants of Wanting: the pid alone decides; the pid does not matter.
WantingPid(r) ==
    IF ~r.demand THEN {}
    ELSE {s \in Live : r.force \/ \A k \in r.known : k[1] # s \/ k[2] # slot[s]}
WantingNew(r) ==
    IF ~r.demand THEN {}
    ELSE {s \in Live : r.force \/ \A k \in r.known : k[1] # s \/ k[3] # r.epoch}
\* The slots that need a pump: another process, other subscribers, or a
\* surface without a screen.
Wanting(r) ==
    IF ~r.demand THEN {}
    ELSE {s \in Live : r.force \/ <<s, slot[s], r.epoch>> \notin r.known}

\* Slots and snapshots under one read lock.  attach_output takes the
\* snapshot and the subscription under the lock of the reader's append.
Attach(c) ==
    /\ call[c].at = "attach"
    /\ call' = [call EXCEPT ![c] = [Idle EXCEPT
                     !.at = "apply", !.demand = call[c].demand, !.epoch = call[c].epoch, !.live = Live,
                     !.attach = {[session |-> s, pid |-> slot[s], shown |-> out[slot[s]]] :
                                    s \in Wanting(call[c])}]]
    /\ UNCHANGED <<lane, surface, table, pumps, work, history>>

\* Mutant of Removed: insert drops the handle of the pump it replaces.
RemovedStale(r) ==
    {table[s].id : s \in {q \in Sessions : table[q] # NoPump /\ (~r.demand \/ q \notin r.live)}}
\* The handles taken out of the table, to be aborted.
Removed(r) ==
    LET fresh == {a.session : a \in r.attach}
    IN  {table[s].id : s \in {q \in Sessions : /\ table[q] # NoPump
                                               /\ q \in fresh \/ ~r.demand \/ q \notin r.live}}

InUse == {table[s].id : s \in Sessions} \cup {k.id : k \in pumps}
            \cup UNION {call[c].removed : c \in Callers}

\* Under the table's lock: spawn and insert the new pumps, take out the rest.
Apply(c) ==
    LET r == call[c]
        New == {a.session : a \in r.attach}
        PidOf(s) == (CHOOSE a \in r.attach : a.session = s).pid
    IN  /\ r.at = "apply"
        /\ \E id \in [New -> Handles] :
              /\ \A s \in New : id[s] \notin InUse /\ \A q \in New : id[s] = id[q] => s = q
              /\ table' = [s \in Sessions |->
                             IF s \in New THEN [pid |-> PidOf(s), epoch |-> r.epoch, id |-> id[s]]
                             ELSE IF r.demand /\ s \in r.live THEN table[s] ELSE NoPump]
              /\ pumps' = pumps \cup {[id |-> id[a.session], session |-> a.session, pid |-> a.pid,
                                       shown |-> a.shown, live |-> FALSE] : a \in r.attach}
        /\ call' = [call EXCEPT ![c] = [Idle EXCEPT !.at = "abort", !.removed = Removed(r)]]
        /\ overtaken' = overtaken \cup {d \in Callers \ {c} :
                                          call[d].at \in {"known", "attach", "apply"}}
        /\ outOfOrder' = (c \in overtaken)
        /\ disturbed' = IF c \in overtaken THEN disturbed \cup New ELSE disturbed
        /\ UNCHANGED <<lane, surface, work>>

\* The removed pumps are aborted once the lock is released.
Abort(c) ==
    /\ call[c].at = "abort"
    /\ pumps' = {k \in pumps : k.id \notin call[c].removed}
    /\ call' = [call EXCEPT ![c] = Idle]
    /\ UNCHANGED <<lane, surface, table, work, history>>

-----------------------------------------------------------------------------
(* A pump k.  What it routes reaches the subscribers of the moment; a      *)
(* webview without its script drops it.                                    *)

Deliver(s, new) ==
    screen' = [v \in Watched |->
                  IF v \in Subscribed \cap ready
                  THEN [screen[v] EXCEPT ![s] = new[v]] ELSE screen[v]]

\* The pump on record of its session, attached to the process there is.
Own(k) == table[k.session].id = k.id /\ slot[k.session] = k.pid

\* The replay: clear, then all that was printed; nothing if nothing was.
Replay(k) ==
    /\ ~k.live
    /\ pumps' = (pumps \ {k}) \cup {[k EXCEPT !.live = TRUE]}
    /\ IF k.shown = 0 THEN UNCHANGED screen
       ELSE Deliver(k.session,
                    [v \in Watched |-> [pid |-> k.pid, upto |-> k.shown, whole |-> TRUE]])
    /\ disturbed' = IF k.shown = 0 THEN disturbed
                    ELSE IF Own(k) THEN disturbed \ {k.session} ELSE disturbed \cup {k.session}
    /\ UNCHANGED <<lane, view, ready, table, work, call, overtaken, outOfOrder>>

\* The n-th chunk of process p arrives on a screen.  A repeated chunk, or one
\* of an older process, takes nothing away.
Printed(old, p, n) ==
    IF old.pid > p \/ (old.pid = p /\ n <= old.upto) THEN old
    ELSE [pid |-> p, upto |-> n,
          whole |-> IF old.pid = p THEN old.whole /\ n = old.upto + 1 ELSE n = 1]

Unsent(k) == k.live /\ k.shown < out[k.pid]

\* A pump that was replaced has come further than the one on record.
Ahead(k) ==
    \E j \in pumps : /\ j.id = table[k.session].id /\ j.id # k.id
                     /\ j.live /\ j.pid = k.pid /\ j.shown <= k.shown

Forward(k) ==
    /\ Unsent(k)
    /\ disturbed' = IF Ahead(k) THEN disturbed \cup {k.session} ELSE disturbed
    /\ pumps' = (pumps \ {k}) \cup {[k EXCEPT !.shown = @ + 1]}
    /\ Deliver(k.session,
               [v \in Watched |-> Printed(screen[v][k.session], k.pid, k.shown + 1)])
    /\ UNCHANGED <<lane, view, ready, table, work, call, overtaken, outOfOrder>>

\* The slot is gone and its broadcast drained: the task ends by itself.
SlotClosed(k) ==
    /\ k.live /\ ~Unsent(k) /\ slot[k.session] # k.pid
    /\ pumps' = pumps \ {k}
    /\ UNCHANGED <<lane, surface, table, work, call, history>>

-----------------------------------------------------------------------------
CallStep(c) == ReadDemand(c) \/ ReadPumps(c) \/ Attach(c) \/ Apply(c) \/ Abort(c)
PumpStep(k) == Replay(k) \/ Forward(k) \/ SlotClosed(k)

Next ==
    \/ \E s \in Sessions : StartSlot(s) \/ DropSlot(s) \/ Output(s)
    \/ \E v \in Views : \/ \E loaded \in {TRUE, v \notin Watched} : Subscribe(v, loaded)
                        \/ Unsubscribe(v) \/ ScriptReady(v)
    \/ \E c \in Callers : CallStep(c)
    \/ \E k \in pumps : PumpStep(k)

Spec == Init /\ [][Next]_vars

-----------------------------------------------------------------------------
(* Properties.                                                             *)

\* Nobody has a reconcile of the pumps before him or before its end.
Quiet == /\ plain = 0 /\ forced = 0
         /\ \A c \in Callers : call[c].at \in {"idle", "abort"}

\* What the reconcile is for: a running pump on every live slot, attached to
\* its present process, while anybody subscribes; none when nobody does.
Served ==
    IF demand_active
    THEN \A s \in Live : table[s].pid = slot[s] /\ Runs(table[s])
    ELSE \A s \in Sessions : table[s] = NoPump

\* Calls that overlap converge to one pump for each slot, as the comment of
\* reconcile_lane_pumps has it (terminal_pump.rs), unless the last to apply
\* had read before another one applied.
ConvergesInOrder == Quiet /\ ~outOfOrder => Served

\* A pump that nobody can abort any more would print everything twice for
\* ever: each pump that runs is on record or about to be aborted.
NoStrayPump ==
    \A k \in pumps : \/ \E s \in Sessions : table[s].id = k.id
                     \/ \E c \in Callers : k.id \in call[c].removed

\* Once the pumps have caught up, each loaded screen shows everything its
\* slot has printed, in order, as the comment of spawn_lane_terminal_pump has it
\* (terminal_pump.rs), whatever was attached, replaced or reloaded on the way;
\* unless, since the slot's own pump replayed, one that was to be aborted has
\* written, or that pump is of a reading another call had applied over.
ScreenIsWhole ==
    /\ Quiet /\ ~outOfOrder
    /\ \A k \in pumps : k.live /\ k.shown = out[k.pid]
    => \A v \in Watched \cap Subscribed \cap ready, s \in Live :
          \/ out[slot[s]] = 0 \/ s \in disturbed
          \/ screen[v][s] = [pid |-> slot[s], upto |-> out[slot[s]], whole |-> TRUE]

TypeOK ==
    /\ slot \in [Sessions -> 0 .. MAX_PIDS] /\ nextPid \in 1 .. MAX_PIDS + 1
    /\ out \in [Pids -> Nat] /\ \A p \in Pids : out[p] <= MAX_OUT[p]
    /\ view \in [Views -> {"none", "open", "gone"}]
    /\ ready \subseteq Views
    /\ plain + forced \in 0 .. MAX_ASKED /\ disturbed \subseteq Sessions
    /\ overtaken \subseteq Callers /\ outOfOrder \in BOOLEAN
    \* two slots never share a process
    /\ \A s, t \in Live : slot[s] = slot[t] => s = t
    \* a pump on record is of its own session and of a process once started
    /\ \A s \in Sessions : table[s] = NoPump \/ (table[s].id \in Handles /\ table[s].pid < nextPid)
    /\ \A k \in pumps : k.pid < nextPid /\ k.shown <= out[k.pid]
=============================================================================
