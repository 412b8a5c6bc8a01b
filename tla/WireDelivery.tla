----------------------------- MODULE WireDelivery -----------------------------
(***************************************************************************)
(* The delivery actor (repo/delivery_actor.rs): it rings the recipients of *)
(* commands that the store still lists as owed.  The store is taken as its *)
(* abstract specification, CommandLedger, which WireStore implements.      *)
(*                                                                         *)
(* A pulse reads the store, then the lane registry, then the activity of   *)
(* the engines, and only then walks over the pairs; each of these is an    *)
(* await, so the pairs are handled with views that may be stale.  Time is  *)
(* abstract: a pair is `rested` when RENUDGE_AFTER (BG_REDISPATCH_AFTER)   *)
(* has passed since its last nudge (dispatch).                             *)
(***************************************************************************)
EXTENDS Naturals

CONSTANTS
    Commands,      \* command messages
    Agents,        \* recipients whose address names a lane
    Others,        \* recipients that do not (notify@.., vp-cli, ..)
    MAX_NUDGES,
    MAX_BG_DISPATCHES

ASSUME BoundAssumption ==
    /\ MAX_NUDGES \in Nat \ {0}
    /\ MAX_BG_DISPATCHES \in Nat \ {0}
    /\ Agents \cap Others = {}

VARIABLES
    posted, owed,     \* the store: CommandLedger
    lane,             \* lane_registry: state of each agent's lane
    mode,             \* mode of the lane's root session
    cc,               \* what the engine in the lane's cwd does
    channel,          \* the owning repo has a control channel and answers
    wake,             \* the permit of delivery_notify
    pc,               \* where the pulse is
    work,             \* the pairs of this pulse still to handle
    laneView,         \* the registry as this pulse read it
    ccView,           \* the activity as this pulse polled it, or "unknown"
    nudges, rested,   \* the nudge ledger: count, and interval elapsed
    dispatches, bgRested,  \* the bg-dispatch ledger
    rung, launched    \* history: nudges and dispatches since the daemon started

store  == <<posted, owed>>
world  == <<lane, mode, cc, channel>>
pulse  == <<pc, work, laneView, ccView>>
ledger == <<nudges, rested, dispatches, bgRested>>
counts == <<rung, launched>>
vars == <<posted, owed, lane, mode, cc, channel, wake, pc, work, laneView,
          ccView, nudges, rested, dispatches, bgRested, rung, launched>>

Pairs == Commands \X (Agents \cup Others)
LaneStates == {"absent", "running", "dead"}
Activity == {"idle", "busy", "gone"}

Store == INSTANCE CommandLedger WITH Agents <- Agents \cup Others

TypeOK ==
    /\ posted \subseteq Commands
    /\ owed \in [Commands -> SUBSET (Agents \cup Others)]
    /\ lane \in [Agents -> LaneStates]
    /\ mode \in [Agents -> {"tui", "gui"}]
    /\ cc \in [Agents -> Activity]
    /\ channel \in [Agents -> BOOLEAN]
    /\ wake \in BOOLEAN
    /\ pc \in {"asleep", "query", "lanes", "poll", "walk"}
    /\ work \subseteq Pairs
    /\ laneView \in [Agents -> LaneStates]
    /\ ccView \in [Agents -> Activity \cup {"unknown"}]
    /\ nudges \in [Pairs -> 0 .. MAX_NUDGES]
    /\ rested \subseteq Pairs
    /\ dispatches \in [Pairs -> 0 .. MAX_BG_DISPATCHES]
    /\ bgRested \subseteq Pairs
    /\ rung \in [Pairs -> Nat]
    /\ launched \in [Pairs -> Nat]

Init ==
    /\ Store!Init
    /\ lane = [a \in Agents |-> "absent"]
    /\ mode = [a \in Agents |-> "tui"]
    /\ cc = [a \in Agents |-> "gone"]
    /\ channel = [a \in Agents |-> FALSE]
    /\ wake = FALSE
    /\ pc = "asleep"
    /\ work = {}
    /\ laneView = [a \in Agents |-> "absent"]
    /\ ccView = [a \in Agents |-> "unknown"]
    /\ nudges = [k \in Pairs |-> 0]
    /\ dispatches = [k \in Pairs |-> 0]
    /\ rested = {}
    /\ bgRested = {}
    /\ rung = [k \in Pairs |-> 0]
    /\ launched = [k \in Pairs |-> 0]

-----------------------------------------------------------------------------
(* The world around the actor.                                             *)

\* dispatch_wire: a stored command wakes the actor, unless its body came as a
\* string (the category is read from the raw payload).
Send(m) ==
    /\ Store!Post(m)
    /\ wake' \in {TRUE, wake}
    /\ UNCHANGED <<world, pulse, ledger, counts>>

AckOrLeave ==
    /\ \/ \E m \in Commands, a \in Agents \cup Others : Store!Settle(m, a)
       \/ \E a \in Agents \cup Others, M \in SUBSET Commands : Store!Depart(a, M)
    /\ UNCHANGED <<world, wake, pulse, ledger, counts>>

\* Lanes start, die and vanish, sessions change mode, engines change activity
\* and repo control channels come and go, at any time.
WorldStep(a) ==
    /\ \/ \E s \in LaneStates : lane' = [lane EXCEPT ![a] = s]
                                /\ UNCHANGED <<mode, cc, channel>>
       \/ \E s \in {"tui", "gui"} : mode' = [mode EXCEPT ![a] = s]
                                    /\ UNCHANGED <<lane, cc, channel>>
       \/ \E s \in Activity : cc' = [cc EXCEPT ![a] = s]
                              /\ UNCHANGED <<lane, mode, channel>>
       \/ channel' = [channel EXCEPT ![a] = ~@] /\ UNCHANGED <<lane, mode, cc>>
    /\ UNCHANGED <<store, wake, pulse, ledger, counts>>

\* The interval since the last nudge, or dispatch, of a pair runs out.
NudgeRests(k) ==
    /\ nudges[k] > 0 /\ k \notin rested
    /\ rested' = rested \cup {k}
    /\ UNCHANGED <<store, world, wake, pulse, nudges, dispatches, bgRested, counts>>

DispatchRests(k) ==
    /\ dispatches[k] > 0 /\ k \notin bgRested
    /\ bgRested' = bgRested \cup {k}
    /\ UNCHANGED <<store, world, wake, pulse, nudges, dispatches, rested, counts>>

-----------------------------------------------------------------------------
(* The loop and the pulse.                                                 *)

\* A permit or the 30 s tick ends the select; notified() takes the permit.
Rouse ==
    /\ pc = "asleep"
    /\ pc' = "query"
    /\ wake' \in {FALSE, wake}
    /\ UNCHANGED <<store, world, work, laneView, ccView, ledger, counts>>

Live == {k \in Pairs : k[2] \in owed[k[1]]}

\* Mutant of Kept: an agent whose lane is not up loses its ledger entries.
KeptIfUp == {k \in Live : k[2] \in Agents /\ lane[k[2]] = "running"}

\* The entries the GC keeps: those the store still lists.
Kept == Live

\* unacked_commands, and the GC of both ledgers against it.
Query ==
    /\ pc = "query"
    /\ work' = Live
    /\ nudges' = [k \in Pairs |-> IF k \in Kept THEN nudges[k] ELSE 0]
    /\ rested' = rested \cap Kept
    /\ dispatches' = [k \in Pairs |-> IF k \in Kept THEN dispatches[k] ELSE 0]
    /\ bgRested' = bgRested \cap Kept
    /\ pc' = IF Live = {} THEN "asleep" ELSE "lanes"
    /\ UNCHANGED <<store, world, wake, laneView, ccView, counts>>

\* The registry is copied; an empty one ends the pulse.
ReadLanes ==
    /\ pc = "lanes"
    /\ laneView' = lane
    /\ IF \A a \in Agents : lane[a] = "absent"
       THEN pc' = "asleep" /\ work' = {}
       ELSE pc' = "poll" /\ UNCHANGED work
    /\ UNCHANGED <<store, world, wake, ccView, ledger, counts>>

\* poll_cc_activity: the engines as they are, or nothing (degraded).
Poll ==
    /\ pc = "poll"
    /\ ccView' \in {cc, [a \in Agents |-> "unknown"]}
    /\ pc' = "walk"
    /\ UNCHANGED <<store, world, wake, work, laneView, ledger, counts>>

\* Mutant of Due: the cap is checked one too late.
DueOverCap(count, hasRested, max) == count = 0 \/ (count <= max /\ hasRested)

\* decide_nudge: no record, or below the cap and rested.
Due(count, hasRested, max) == count = 0 \/ (count < max /\ hasRested)

\* Mutant of Readiness: an engine that is gone is waited for.
ReadinessWaits(a) == IF ccView[a] \in {"unknown", "idle"} THEN "ready" ELSE "busy"

\* recipient_readiness of a lane that was running: degraded counts as ready.
Readiness(a) ==
    CASE ccView[a] \in {"unknown", "idle"} -> "ready"
      [] ccView[a] = "busy" -> "busy"
      [] ccView[a] = "gone" -> "offline"

\* pick_nudge_target found a running lane for the pair.
Target(k) == k[2] \in Agents /\ laneView[k[2]] = "running"

Handled(k) ==
    /\ pc = "walk"
    /\ k \in work
    /\ work' = work \ {k}
    /\ pc' = IF work = {k} THEN "asleep" ELSE "walk"
    /\ UNCHANGED <<store, world, wake, laneView, ccView>>

\* Channel D: a detached headless engine for a lane whose engine is gone.
DispatchPair(k) ==
    /\ Handled(k)
    /\ Target(k) /\ mode[k[2]] = "tui" /\ Readiness(k[2]) = "offline"
    /\ Due(dispatches[k], k \in bgRested, MAX_BG_DISPATCHES)
    /\ dispatches' = [dispatches EXCEPT ![k] = @ + 1]
    /\ bgRested' = bgRested \ {k}
    /\ launched' = [launched EXCEPT ![k] = @ + 1]
    /\ UNCHANGED <<nudges, rested, rung>>

\* The pair takes channel C (terminal) or E (chat engine), and is due.
Nudgeable(k) ==
    /\ Target(k)
    /\ mode[k[2]] = "gui" \/ Readiness(k[2]) = "ready"
    /\ Due(nudges[k], k \in rested, MAX_NUDGES)

\* forward_to_sp_control succeeded: only now does the ledger advance.
NudgePair(k) ==
    /\ Handled(k)
    /\ Nudgeable(k)
    /\ channel[k[2]] /\ lane[k[2]] = "running"
    /\ nudges' = [nudges EXCEPT ![k] = @ + 1]
    /\ rested' = rested \ {k}
    /\ rung' = [rung EXCEPT ![k] = @ + 1]
    /\ UNCHANGED <<dispatches, bgRested, launched>>

\* Mutant of NudgeFails: a failed forward uses up an attempt.
FailureCounts(k) ==
    /\ Handled(k)
    /\ Nudgeable(k)
    /\ ~(channel[k[2]] /\ lane[k[2]] = "running")
    /\ nudges' = [nudges EXCEPT ![k] = @ + 1]
    /\ rested' = rested \ {k}
    /\ UNCHANGED <<dispatches, bgRested, counts>>

\* The repo answered with an error, or not at all: retried by a later pulse.
NudgeFails(k) ==
    /\ Handled(k)
    /\ Nudgeable(k)
    /\ ~(channel[k[2]] /\ lane[k[2]] = "running")
    /\ UNCHANGED <<ledger, counts>>

\* Not a lane, no running lane, busy, not due yet or exhausted.
SkipPair(k) ==
    /\ Handled(k)
    /\ ~Nudgeable(k)
    /\ ~(/\ Target(k) /\ mode[k[2]] = "tui" /\ Readiness(k[2]) = "offline"
         /\ Due(dispatches[k], k \in bgRested, MAX_BG_DISPATCHES))
    /\ UNCHANGED <<ledger, counts>>

\* The daemon restarts: the ledgers and the registry were in memory.
Restart ==
    /\ wake' = FALSE
    /\ pc' = "asleep"
    /\ work' = {}
    /\ lane' = [a \in Agents |-> "absent"]
    /\ channel' = [a \in Agents |-> FALSE]
    /\ laneView' = [a \in Agents |-> "absent"]
    /\ ccView' = [a \in Agents |-> "unknown"]
    /\ nudges' = [k \in Pairs |-> 0]
    /\ dispatches' = [k \in Pairs |-> 0]
    /\ rested' = {}
    /\ bgRested' = {}
    /\ rung' = [k \in Pairs |-> 0]
    /\ launched' = [k \in Pairs |-> 0]
    /\ UNCHANGED <<store, mode, cc>>

-----------------------------------------------------------------------------
PulseStep == \/ Rouse \/ Query \/ ReadLanes \/ Poll
             \/ \E k \in Pairs : \/ DispatchPair(k) \/ NudgePair(k)
                                 \/ NudgeFails(k) \/ SkipPair(k)

Next ==
    \/ \E m \in Commands : Send(m)
    \/ AckOrLeave
    \/ \E a \in Agents : WorldStep(a)
    \/ \E k \in Pairs : NudgeRests(k) \/ DispatchRests(k)
    \/ PulseStep
    \/ Restart

Spec == Init /\ [][Next]_vars

\* The actor's loop runs (the tick guarantees it), a poll does not fail for
\* ever once the engines answer, and time passes.
Fairness ==
    /\ WF_vars(PulseStep)
    /\ SF_vars(Poll /\ ccView' = cc)
    /\ \A k \in Pairs : WF_vars(NudgeRests(k)) /\ WF_vars(DispatchRests(k))

FairSpec == Spec /\ Fairness

-----------------------------------------------------------------------------
(* Properties.                                                             *)

\* One run of the daemon never rings a recipient about a command more than
\* MAX_NUDGES times, nor launches more than MAX_BG_DISPATCHES headless engines
\* for it, whatever lanes, modes and the ledger GC do in between.
RingingIsBounded ==
    \A k \in Pairs : rung[k] <= MAX_NUDGES /\ launched[k] <= MAX_BG_DISPATCHES

\* The recipient owes the ack and its lane answers, as a chat engine or as a
\* terminal whose engine is idle.
Answers(k) == k[2] \in owed[k[1]] /\ lane[k[2]] = "running" /\ channel[k[2]]
AsChat(k) == Answers(k) /\ mode[k[2]] = "gui"
AsTerminal(k) == Answers(k) /\ mode[k[2]] = "tui" /\ cc[k[2]] = "idle"

\* A recipient that owes an ack and stays reachable in one of the two ways is
\* rung MAX_NUDGES times: no attempt is lost to a forward that failed earlier,
\* to a stale view, or to a wake-up the actor missed (pulse, decide_nudge).
RungUntilExhausted ==
    \A k \in Commands \X Agents :
        /\ []<>(~AsChat(k) \/ rung[k] = MAX_NUDGES)
        /\ []<>(~AsTerminal(k) \/ rung[k] = MAX_NUDGES)

\* A recipient whose engine is gone while its lane runs gets all its headless
\* dispatches, once polls succeed (pulse, spawn_bg_dispatch).
Dispatchable(k) ==
    /\ k[2] \in owed[k[1]]
    /\ lane[k[2]] = "running" /\ mode[k[2]] = "tui" /\ cc[k[2]] = "gone"

DispatchedUntilExhausted ==
    \A k \in Commands \X Agents :
        []<>(~Dispatchable(k) \/ launched[k] = MAX_BG_DISPATCHES)
=============================================================================
