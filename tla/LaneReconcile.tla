--------------------------- MODULE LaneReconcile ---------------------------
(***************************************************************************)
(* One lane of a repo: the session registry (the intent, on disk) and the  *)
(* processes that embody it (PTY slots and headless chat engines, in the   *)
(* LanePool).  Verbs write the registry and then call reconcile_lane,      *)
(* which reads the registry, spawns the missing slots outside every lock   *)
(* (at least 800 ms each) and applies the result under the write lock.     *)
(* Several verbs run at once, a console may exit, a spawn may fail, the    *)
(* lane may be deleted and the daemon may restart.                         *)
(*                                                                         *)
(* A session holds its conversation in one of two forms: a PTY slot (mode  *)
(* tui, started by reconcile_lane) or a chat engine (mode gui, started by  *)
(* whoever needs it).  The law of the pool is that it never has both.      *)
(***************************************************************************)
EXTENDS Naturals, FiniteSets, Functions, FiniteSetsExt

CONSTANTS Tasks,       \* concurrent callers of reconcile_lane
          MAX_KEY,     \* bound: session keys are 1 .. MAX_KEY
          ATTEMPTS,    \* RESTART_MAX_ATTEMPTS
          MAX_VERBS,   \* bound: verbs started
          MAX_FAULTS   \* bound: failed spawns, exited consoles, daemon restarts

ASSUME BoundsAssumption ==
    /\ MAX_KEY \in Nat \ {0}
    /\ ATTEMPTS \in Nat \ {0}
    /\ MAX_VERBS \in Nat
    /\ MAX_FAULTS \in Nat

Keys == 1 .. MAX_KEY
Modes == {"tui", "gui"}

VARIABLES
    present,   \* the lane is in the pool
    mode,      \* registry: session |-> its mode; the domain is the set of sessions
    root,      \* registry: the session that stands for the lane
    focused,   \* registry: the session chat verbs address by default
    next,      \* registry: the next key to hand out
    epoch,     \* how often Reset has thrown the conversations away
    slots,     \* session |-> its console: the epoch its command was built in, and the builder
    exited,    \* sessions whose console's child has exited, not noticed yet
    engines,   \* sessions with a chat engine
    state,     \* LaneInfo.state
    task,      \* the reconcile each caller is in
    down,      \* history: the last attempt for the session failed, or its console exited since
    verbs, faults

registry == <<mode, root, focused, next, epoch>>
pool     == <<present, slots, exited, engines, state>>
budget   == <<verbs, faults>>
vars     == <<registry, pool, task, down, budget>>

Sessions == DOMAIN mode
Tui == {k \in Sessions : mode[k] = "tui"}     \* want_slot_sessions
Gui == {k \in Sessions : mode[k] = "gui"}     \* want_chat_sessions

\* A caller between two reconciles.
Idle == [at |-> "idle", verb |-> "plain", key |-> 1, left |-> 0,
         plans |-> {}, built |-> <<>>, failed |-> FALSE]

\* A caller about to reconcile, with left more attempts after this one; verb
\* says what it does once reconcile_lane has returned.
Begin(verb, key, left) ==
    [at |-> "plan", verb |-> verb, key |-> key, left |-> left,
     plans |-> {}, built |-> <<>>, failed |-> FALSE]

Console(t) == [born |-> epoch, by |-> t]

-----------------------------------------------------------------------------
\* Mutant: the state of the focused session stands for the lane.
StateOfFocused(live) ==
    IF mode[focused] = "gui" \/ focused \in live THEN "running" ELSE "dead"

(* lane_state_of: a tui root is alive iff it has a slot, a gui root always. *)
StateOf(live) == IF mode[root] = "gui" \/ root \in live THEN "running" ELSE "dead"

(* Any valid registry a previous run left on disk; the boot reconciles it.  *)
Init ==
    /\ present = TRUE
    /\ mode \in UNION {[1 .. n -> Modes] : n \in {1, MAX_KEY - 1} \ {0}}
    /\ root \in Sessions /\ focused = root
    /\ next = Cardinality(Sessions) + 1
    /\ epoch = 0
    /\ slots = <<>> /\ exited = {} /\ engines = {}
    /\ state = "running"
    /\ \E t \in Tasks : task = [u \in Tasks |-> IF u = t THEN Begin("plain", 1, 0) ELSE Idle]
    /\ down = {}
    /\ verbs = 0 /\ faults = 0

-----------------------------------------------------------------------------
(* The verbs.  Each writes the registry once, under the pool's read lock    *)
(* (so never while a reconcile applies), and goes on to reconcile_lane.     *)

Starts(t, verb, key, left) ==
    /\ present
    /\ task[t].at = "idle"
    /\ verbs < MAX_VERBS /\ verbs' = verbs + 1
    /\ task' = [task EXCEPT ![t] = Begin(verb, key, left)]
    /\ UNCHANGED faults

\* session_registry::create: a console (tui) never takes the focus.
CreateSession(t, m, focus) ==
    /\ m = "tui" => ~focus
    /\ next <= MAX_KEY
    /\ Starts(t, "plain", 1, 0)
    /\ mode' = [k \in Sessions \cup {next} |-> IF k = next THEN m ELSE mode[k]]
    /\ next' = next + 1
    /\ focused' = IF focus THEN next ELSE focused
    /\ UNCHANGED <<root, epoch, pool, down>>

CreateRoot(t, m) ==
    /\ next <= MAX_KEY
    /\ Starts(t, "plain", 1, 0)
    /\ mode' = [k \in Sessions \cup {next} |-> IF k = next THEN m ELSE mode[k]]
    /\ next' = next + 1
    /\ root' = next /\ focused' = next
    /\ UNCHANGED <<epoch, pool, down>>

SwitchRoot(t, k) ==
    /\ Starts(t, "plain", 1, 0)
    /\ root' = k /\ focused' = k
    /\ UNCHANGED <<mode, next, epoch, pool, down>>

\* The engine of the new focus is started after the reconcile.
Focus(t, k) ==
    /\ Starts(t, "ensure", k, 0)
    /\ focused' = k
    /\ UNCHANGED <<mode, root, next, epoch, pool, down>>

\* Closing a pane; the root is refused.
Remove(t, k) ==
    /\ k # root
    /\ Starts(t, "plain", 1, 0)
    /\ mode' = Restrict(mode, Sessions \ {k})
    /\ focused' = IF focused = k THEN Min(Sessions \ {k}) ELSE focused
    /\ UNCHANGED <<root, next, epoch, pool, down>>

SetMode(t, k, m) ==
    /\ Starts(t, IF m = "gui" THEN "ensure" ELSE "plain", k, 0)
    /\ mode' = [mode EXCEPT ![k] = m]
    /\ UNCHANGED <<root, focused, next, epoch, pool, down>>

\* restart: drop_root_entities leaves the registry alone.
RestartLane(t) ==
    /\ Starts(t, "converge", 1, ATTEMPTS - 1)
    /\ slots' = Restrict(slots, DOMAIN slots \ {root})
    /\ exited' = exited \ {root}
    /\ engines' = engines \ {root}
    /\ UNCHANGED <<registry, present, state, down>>

\* Mutant: the root's processes only are dropped, as restart does.
ResetRootOnly(t) ==
    /\ Starts(t, "converge", 1, ATTEMPTS - 1)
    /\ mode' = [k \in {1} |-> mode[root]]
    /\ root' = 1 /\ focused' = 1 /\ next' = 2
    /\ epoch' = epoch + 1
    /\ slots' = Restrict(slots, DOMAIN slots \ {root})
    /\ exited' = exited \ {root} /\ engines' = engines \ {root}
    /\ UNCHANGED <<present, state, down>>

\* Reset: registry to a single session in the root's mode, every process dropped.
ResetLane(t) ==
    /\ Starts(t, "converge", 1, ATTEMPTS - 1)
    /\ mode' = [k \in {1} |-> mode[root]]
    /\ root' = 1 /\ focused' = 1 /\ next' = 2
    /\ epoch' = epoch + 1
    /\ slots' = <<>> /\ exited' = {} /\ engines' = {}
    /\ UNCHANGED <<present, state, down>>

Verb(t) ==
    \/ \E m \in Modes, focus \in BOOLEAN : CreateSession(t, m, focus)
    \/ \E m \in Modes : CreateRoot(t, m)
    \/ \E k \in Sessions : SwitchRoot(t, k) \/ Focus(t, k) \/ Remove(t, k)
    \/ \E k \in Sessions, m \in Modes : SetMode(t, k, m)
    \/ RestartLane(t)
    \/ ResetLane(t)

-----------------------------------------------------------------------------
(* ensure_chat_engine, under the write lock: only a gui session, and never  *)
(* beside the session's own slot.                                           *)
\* Mutant: the mode alone decides.
MayHoldByMode(k) == present /\ k \in Gui

MayHoldEngine(k) == present /\ k \in Gui /\ k \notin DOMAIN slots

Ensure(k, running) ==
    \/ /\ MayHoldEngine(k) /\ k \notin running
       /\ engines' = running \cup {k}
       /\ state' = IF k = focused THEN "running" ELSE state
    \/ /\ engines' = running                    \* refused, there already, or its spawn failed
       /\ UNCHANGED state

-----------------------------------------------------------------------------
(* reconcile_lane.                                                          *)

Missing == Tui \ DOMAIN slots

\* Step 1, under the read lock: what to spawn.
Plan(t) ==
    /\ task[t].at = "plan"
    /\ IF present
       THEN /\ task' = [task EXCEPT ![t] = [@ EXCEPT !.at = "spawn", !.plans = Missing]]
            /\ down' = down \ Missing
       ELSE /\ task' = [task EXCEPT ![t] = [@ EXCEPT !.at = "after"]]
            /\ UNCHANGED down
    /\ UNCHANGED <<registry, pool, budget>>

\* Step 2, outside the lock: one console after the other.  The command, and so
\* the conversation it resumes, is built before the 800 ms the spawn takes.
Spawn(t) ==
    /\ task[t].at = "spawn" /\ task[t].plans # {}
    /\ LET k     == Min(task[t].plans)
           rest  == task[t].plans \ {k}
           built == [j \in DOMAIN task[t].built \cup {k} |->
                       IF j = k THEN Console(t) ELSE task[t].built[j]]
       IN  \/ /\ task' = [task EXCEPT ![t] = [@ EXCEPT !.plans = rest, !.built = built]]
              /\ UNCHANGED <<down, faults>>
           \/ /\ faults < MAX_FAULTS /\ faults' = faults + 1
              /\ task' = [task EXCEPT ![t] = [@ EXCEPT !.plans = rest, !.failed = TRUE]]
              /\ down' = down \cup {k}
    /\ UNCHANGED <<registry, pool, verbs>>

\* Mutant: a slot there already is replaced.
InsertedOver(t) == DOMAIN task[t].built \cap Tui

\* Step 3, under the write lock: everything is judged again by the present
\* registry.  A console built for a session that is no longer tui, or that has a
\* slot by now, is thrown away.
Inserted(t) == (DOMAIN task[t].built \cap Tui) \ DOMAIN slots
Kept == DOMAIN slots \cap Tui

\* Mutant: engines are dropped through the registry, which cannot name a removed session.
EnginesNotTui == engines \ Tui

EnginesKept == engines \cap Gui

Apply(t) ==
    /\ task[t].at = "spawn" /\ task[t].plans = {}
    /\ IF present
       THEN /\ slots' = [k \in Kept \cup Inserted(t) |->
                           IF k \in Inserted(t) THEN task[t].built[k] ELSE slots[k]]
            /\ exited' = exited \cap Kept
            /\ engines' = EnginesKept
            /\ state' = StateOf(Kept \cup Inserted(t))
            /\ down' = down \ Inserted(t)
       ELSE UNCHANGED <<slots, exited, engines, state, down>>
    /\ task' = [task EXCEPT ![t] = [@ EXCEPT !.at = "after", !.built = <<>>]]
    /\ UNCHANGED <<registry, present, budget>>

\* What the verb does next: start the engine it was about, or (converge_lane)
\* try again after a failed spawn and start the focused engine of a gui root.
After(t) ==
    /\ task[t].at = "after"
    /\ LET me    == task[t]
           retry == me.verb = "converge" /\ me.failed
       IN  /\ task' = [task EXCEPT ![t] = IF retry /\ me.left > 0
                                          THEN Begin("converge", 1, me.left - 1) ELSE Idle]
           /\ CASE me.verb = "ensure" -> Ensure(me.key, engines)
                [] me.verb = "converge" /\ ~retry /\ mode[root] = "gui" -> Ensure(focused, engines)
                [] OTHER -> UNCHANGED <<engines, state>>
    /\ UNCHANGED <<registry, present, slots, exited, down, budget>>

-----------------------------------------------------------------------------
(* The pool's other writers.                                                *)

\* A submit, a nudge or an attaching view needs the session's engine.
Demand(k) ==
    /\ Ensure(k, engines)
    /\ UNCHANGED <<registry, present, slots, exited, task, down, budget>>

\* A submit that failed, or new settings: the engine is replaced.
Swap(k) ==
    /\ k \in Sessions \cap engines
    /\ Ensure(k, engines \ {k})
    /\ UNCHANGED <<registry, present, slots, exited, task, down, budget>>

\* The idle sweep puts an engine nobody looks at to sleep.
Teardown(k) ==
    /\ k \in engines
    /\ engines' = engines \ {k}
    /\ UNCHANGED <<registry, present, slots, exited, state, task, down, budget>>

\* A console's child exits; the pool does not know yet.
ConsoleExits(k) ==
    /\ k \in DOMAIN slots \ exited
    /\ faults < MAX_FAULTS /\ faults' = faults + 1
    /\ exited' = exited \cup {k}
    /\ UNCHANGED <<registry, present, slots, engines, state, task, down, verbs>>

\* detect_and_mark_dead, every five seconds: noticed, never respawned.
Detect ==
    /\ exited # {}
    /\ slots' = Restrict(slots, DOMAIN slots \ exited)
    /\ exited' = {}
    /\ state' = IF root \in exited THEN "dead" ELSE state
    /\ down' = down \cup exited
    /\ UNCHANGED <<registry, present, engines, task, budget>>

\* LanePool::remove, and right after it the lane's state files: load falls back
\* to the default form, a single tui session.  Whoever reads the registry looks
\* for the lane in the pool first, so nobody tells the two steps apart.
Delete ==
    /\ present
    /\ present' = FALSE
    /\ slots' = <<>> /\ exited' = {} /\ engines' = {}
    /\ mode' = [k \in {1} |-> "tui"]
    /\ root' = 1 /\ focused' = 1 /\ next' = 2
    /\ UNCHANGED <<epoch, state, task, down, budget>>

\* The daemon dies: the registry is all that is left, and the boot reconciles.
DaemonRestart ==
    /\ present
    /\ faults < MAX_FAULTS /\ faults' = faults + 1
    /\ slots' = <<>> /\ exited' = {} /\ engines' = {}
    /\ state' = "running"
    /\ \E t \in Tasks : task' = [u \in Tasks |-> IF u = t THEN Begin("plain", 1, 0) ELSE Idle]
    /\ UNCHANGED <<registry, present, down, verbs>>

ReconcileStep(t) == Plan(t) \/ Spawn(t) \/ Apply(t) \/ After(t)

Next ==
    \/ \E t \in Tasks : Verb(t) \/ ReconcileStep(t)
    \/ \E k \in Keys : Demand(k) \/ Swap(k) \/ Teardown(k) \/ ConsoleExits(k)
    \/ Detect
    \/ Delete
    \/ DaemonRestart

Spec == Init /\ [][Next]_vars

-----------------------------------------------------------------------------
(* Nobody is in the middle of a verb.                                       *)
Quiet == present /\ \A t \in Tasks : task[t].at = "idle"

(* The law of the pool (module comment of ensure_chat_engine): a session is *)
(* never held by a PTY slot and a chat engine at once, whatever overlaps.   *)
OneEngine == engines \cap DOMAIN slots = {}

(* Once every verb has returned the processes agree with the registry,      *)
(* however their reconciles interleaved: no slot outside the tui sessions,  *)
(* no engine outside the gui sessions, and a tui session is without a slot  *)
(* only if the last attempt to start it failed or it exited since.          *)
Settled ==
    Quiet => /\ DOMAIN slots \subseteq Tui
             /\ engines \subseteq Gui
             /\ Missing \subseteq down

(* Once every verb has returned, the lane's state tells the truth: dead     *)
(* only with a tui root that has no slot; running without a slot only where *)
(* the engine of another, focused session was started since.                *)
StateIsTrue ==
    Quiet => /\ state = "dead" => root \in Missing
             /\ state = "running" /\ root \in Missing => focused \in Gui

(* A running console is killed or replaced only by what means to: its       *)
(* session is no longer tui, the root's restart, a reset, the lane's end or *)
(* the daemon's.  No reconcile of another verb takes it down.               *)
Killed(k) == k \in DOMAIN slots \ exited /\ (k \in DOMAIN slots' => slots'[k] # slots[k])

SiblingsSpared ==
    [][\A k \in Keys : Killed(k) =>
          \/ k \notin DOMAIN mode' \/ mode'[k] # "tui"
          \/ \E t \in Tasks : ResetLane(t) \/ (k = root /\ RestartLane(t))
          \/ Delete
          \/ DaemonRestart]_vars

(* reset_lane (pool.rs): after a Reset the root starts bare, resuming       *)
(* nothing.  A console of a conversation thrown away comes back in one way  *)
(* only: by a reconcile that had built it before the Reset.                 *)
Bare == \A k \in DOMAIN slots : slots[k].born = epoch

OnlyOverlapRevives ==
    [][Bare => \/ Bare'
               \/ \E t \in Tasks : /\ Apply(t)
                                   /\ \E k \in DOMAIN task[t].built : task[t].built[k].born < epoch]_vars
=============================================================================
