------------------------- MODULE LaneReconcileProofs -------------------------
(***************************************************************************)
(* The law of the pool, and that a lane's processes agree with its         *)
(* registry once every verb has returned, for any number of callers,       *)
(* sessions, verbs and failures; and what a lane's registry says of whom   *)
(* its verbs address.                                                      *)
(***************************************************************************)
EXTENDS LaneReconcile, Integers, FiniteSetTheorems, WellFoundedInduction, TLAPS

\* What a caller's record is made of.
Formed(r) ==
    r = [at |-> r.at, verb |-> r.verb, key |-> r.key, left |-> r.left,
         plans |-> r.plans, built |-> r.built, failed |-> r.failed]

CallersFormed ==
    /\ task = [t \in Tasks |-> task[t]]
    /\ \A t \in Tasks : Formed(task[t])

\* The root is a session, and a session is tui or gui.
RegistryOK == root \in Sessions /\ \A k \in Sessions : mode[k] \in Modes

\* Only a console that is there has exited.
ExitedOK == exited \subseteq DOMAIN slots

\* A caller whose reconcile has yet to apply what it finds.
Reconciling(r) == r.at \in {"plan", "spawn"}
Calm == \A t \in Tasks : ~Reconciling(task[t])

\* A reconcile that will look at session k again, or holds a console for it.
Covers(r, k) ==
    \/ r.at = "plan"
    \/ r.at = "spawn" /\ k \in r.plans \cup DOMAIN r.built

\* A session that lacks its slot failed to start, or is a reconcile's business.
Covered ==
    present => \A k \in Missing \ down : \E t \in Tasks : Covers(task[t], k)

\* What the registry does not ask for is there only while somebody reconciles.
NoStray == present /\ Calm => DOMAIN slots \subseteq Tui /\ engines \subseteq Gui

\* So is a state of the lane that its root does not bear out.
StateBorneOut ==
    present /\ Calm =>
        /\ state = "dead" => root \in Missing
        /\ state = "running" /\ root \in Missing => focused \in Gui

IInv ==
    CallersFormed /\ RegistryOK /\ ExitedOK /\ OneEngine /\ Covered /\ NoStray /\ StateBorneOut

-----------------------------------------------------------------------------
(* How a step of one caller changes what the callers hold.                  *)

LEMMA OneCaller ==
    ASSUME CallersFormed, NEW t \in Tasks, NEW STATE r, Formed(r),
           task' = [task EXCEPT ![t] = r]
    PROVE  /\ CallersFormed'
           /\ task'[t] = r
           /\ \A u \in Tasks \ {t} : task'[u] = task[u]
<1>1. task' = [u \in Tasks |-> IF u = t THEN r ELSE task[u]]
  BY DEF CallersFormed
<1> QED
  BY <1>1 DEF CallersFormed

LEMMA BeginFormed ==
    ASSUME NEW verb, NEW key, NEW left
    PROVE  /\ Formed(Begin(verb, key, left)) /\ Formed(Idle)
           /\ Begin(verb, key, left).at = "plan" /\ Idle.at = "idle"
BY DEF Formed, Begin, Idle

\* The updates a reconcile makes to its caller's record.
LEMMA SetAt ==
    ASSUME NEW STATE s, Formed(s), NEW STATE v
    PROVE  Formed([s EXCEPT !.at = v]) /\ [s EXCEPT !.at = v].at = v
<1>1. Formed([s EXCEPT !.at = v])
  BY DEF Formed
<1>2. [s EXCEPT !.at = v].at = v
  BY DEF Formed
<1> QED
  BY <1>1, <1>2

LEMMA SetPlans ==
    ASSUME NEW STATE s, Formed(s), NEW STATE v
    PROVE  /\ Formed([s EXCEPT !.plans = v])
           /\ [s EXCEPT !.plans = v].at = s.at
           /\ [s EXCEPT !.plans = v].plans = v
           /\ [s EXCEPT !.plans = v].built = s.built
<1>1. Formed([s EXCEPT !.plans = v])
  BY DEF Formed
<1>2. /\ [s EXCEPT !.plans = v].at = s.at
      /\ [s EXCEPT !.plans = v].plans = v
      /\ [s EXCEPT !.plans = v].built = s.built
  BY DEF Formed
<1> QED
  BY <1>1, <1>2

LEMMA SetBuilt ==
    ASSUME NEW STATE s, Formed(s), NEW STATE v
    PROVE  /\ Formed([s EXCEPT !.built = v])
           /\ [s EXCEPT !.built = v].at = s.at
           /\ [s EXCEPT !.built = v].plans = s.plans
           /\ [s EXCEPT !.built = v].built = v
<1>1. Formed([s EXCEPT !.built = v])
  BY DEF Formed
<1>2. /\ [s EXCEPT !.built = v].at = s.at
      /\ [s EXCEPT !.built = v].plans = s.plans
      /\ [s EXCEPT !.built = v].built = v
  BY DEF Formed
<1> QED
  BY <1>1, <1>2

LEMMA SetFailed ==
    ASSUME NEW STATE s, Formed(s), NEW STATE v
    PROVE  /\ Formed([s EXCEPT !.failed = v])
           /\ [s EXCEPT !.failed = v].at = s.at
           /\ [s EXCEPT !.failed = v].plans = s.plans
           /\ [s EXCEPT !.failed = v].built = s.built
<1>1. Formed([s EXCEPT !.failed = v])
  BY DEF Formed
<1>2. /\ [s EXCEPT !.failed = v].at = s.at
      /\ [s EXCEPT !.failed = v].plans = s.plans
      /\ [s EXCEPT !.failed = v].built = s.built
  BY DEF Formed
<1> QED
  BY <1>1, <1>2

\* Whoever starts to reconcile makes the rest of the invariant true.
LEMMA PlanningCovers ==
    ASSUME NEW t \in Tasks, task'[t].at = "plan"
    PROVE  Covered' /\ NoStray' /\ StateBorneOut'
BY DEF Covered, Covers, NoStray, StateBorneOut, Calm, Reconciling

-----------------------------------------------------------------------------
(* The steps.                                                               *)

LEMMA VerbStep ==
    ASSUME IInv, NEW t \in Tasks, Verb(t)
    PROVE  IInv'
<1>0. /\ \E verb, key, left : Starts(t, verb, key, left)
      /\ engines' \subseteq engines /\ DOMAIN slots' \subseteq DOMAIN slots
      /\ RegistryOK' /\ ExitedOK'
  <2> USE DEF pool, registry, IInv, RegistryOK, ExitedOK, Sessions, Modes
  <2>1. CASE \E m \in Modes, focus \in BOOLEAN : CreateSession(t, m, focus)
    BY <2>1 DEF CreateSession
  <2>2. CASE \E m \in Modes : CreateRoot(t, m)
    BY <2>2 DEF CreateRoot
  <2>3. CASE \E k \in Sessions : SwitchRoot(t, k)
    BY <2>3 DEF SwitchRoot
  <2>4. CASE \E k \in Sessions : Focus(t, k)
    BY <2>4 DEF Focus
  <2>5. CASE \E k \in Sessions : Remove(t, k)
    BY <2>5 DEF Remove, Restrict
  <2>6. CASE \E k \in Sessions, m \in Modes : SetMode(t, k, m)
    BY <2>6 DEF SetMode
  <2>7. CASE RestartLane(t)
    BY <2>7 DEF RestartLane, Restrict
  <2>8. CASE ResetLane(t)
    BY <2>8 DEF ResetLane
  <2> QED
    BY <2>1, <2>2, <2>3, <2>4, <2>5, <2>6, <2>7, <2>8 DEF Verb
<1>1. PICK verb, key, left : task' = [task EXCEPT ![t] = Begin(verb, key, left)]
  BY <1>0 DEF Starts
<1>2. CallersFormed' /\ task'[t] = Begin(verb, key, left)
      /\ \A u \in Tasks \ {t} : task'[u] = task[u]
  BY <1>1, OneCaller, BeginFormed DEF IInv
<1>3. task'[t].at = "plan"
  BY <1>2, BeginFormed
<1>5. Covered' /\ NoStray' /\ StateBorneOut'
  BY <1>3, PlanningCovers
<1> QED
  BY <1>0, <1>2, <1>5 DEF IInv, OneEngine

LEMMA PlanStep ==
    ASSUME IInv, NEW t \in Tasks, Plan(t)
    PROVE  IInv'
<1> USE DEF Plan, registry, pool, budget
<1>1. Formed(task[t]) /\ OneEngine' /\ RegistryOK' /\ ExitedOK'
  BY DEF IInv, CallersFormed, OneEngine, RegistryOK, ExitedOK, Sessions, pool
<1>2. CASE ~present
  <2> DEFINE r == [task[t] EXCEPT !.at = "after"]
  <2>1. task' = [task EXCEPT ![t] = r]
    BY <1>2
  <2>2. Formed(r)
    BY <1>1, SetAt
  <2> HIDE DEF r
  <2>3. CallersFormed'
    BY <2>1, <2>2, OneCaller DEF IInv
  <2> QED
    BY <1>1, <1>2, <2>3 DEF IInv, Covered, NoStray, StateBorneOut
<1>3. CASE present
  <2> DEFINE s == [task[t] EXCEPT !.at = "spawn"]
             r == [s EXCEPT !.plans = Missing]
  <2>1. task' = [task EXCEPT ![t] = r]
    BY <1>3
  <2>2. Formed(s) /\ s.at = "spawn"
    BY <1>1, SetAt
  <2> HIDE DEF s
  <2>3. Formed(r) /\ r.at = "spawn" /\ r.plans = Missing
    BY <2>2, SetPlans
  <2> HIDE DEF r
  <2>4. CallersFormed' /\ task'[t] = r
    BY <2>1, <2>3, OneCaller DEF IInv
  <2>5. Covered'
    <3>1. \A k \in Missing' : Covers(task'[t], k)
      BY <2>3, <2>4 DEF Covers, Missing, Tui, Sessions
    <3> QED
      BY <3>1 DEF Covered
  <2>6. ~Calm'
    BY <2>3, <2>4 DEF Calm, Reconciling
  <2> QED
    BY <1>1, <2>4, <2>5, <2>6 DEF IInv, NoStray, StateBorneOut
<1> QED
  BY <1>2, <1>3

LEMMA SpawnStep ==
    ASSUME IInv, NEW t \in Tasks, Spawn(t)
    PROVE  IInv'
<1> DEFINE k     == Min(task[t].plans)
           rest  == task[t].plans \ {k}
           built == [j \in DOMAIN task[t].built \cup {k} |->
                       IF j = k THEN Console(t) ELSE task[t].built[j]]
           s     == [task[t] EXCEPT !.plans = rest]
           done  == [s EXCEPT !.built = built]
           lost  == [s EXCEPT !.failed = TRUE]
<1> USE DEF registry, pool
<1>1. Formed(task[t]) /\ task[t].at = "spawn"
  BY DEF IInv, CallersFormed, Spawn
<1>2. \/ task' = [task EXCEPT ![t] = done] /\ down' = down
      \/ task' = [task EXCEPT ![t] = lost] /\ down' = down \cup {k}
  BY DEF Spawn
<1>3. Missing' = Missing /\ OneEngine' /\ present' = present /\ RegistryOK' /\ ExitedOK'
  BY DEF Spawn, Missing, Tui, Sessions, OneEngine, IInv, RegistryOK, ExitedOK
<1>4. DOMAIN built = DOMAIN task[t].built \cup {k}
  OBVIOUS
<1> HIDE DEF k, built
<1>5. Formed(s) /\ s.at = "spawn" /\ s.plans = rest /\ s.built = task[t].built
  BY <1>1, SetPlans
<1> HIDE DEF s
<1>6. Formed(done) /\ done.at = "spawn" /\ done.plans = rest /\ done.built = built
  BY <1>5, SetBuilt
<1>7. Formed(lost) /\ lost.at = "spawn" /\ lost.plans = rest /\ lost.built = task[t].built
  BY <1>5, SetFailed
<1> HIDE DEF done, lost
<1>8. CallersFormed' /\ task'[t] \in {done, lost} /\ \A u \in Tasks \ {t} : task'[u] = task[u]
  BY <1>2, <1>6, <1>7, OneCaller DEF IInv
<1>9. Covered'
  <2> SUFFICES ASSUME present, NEW j \in Missing \ down', j \in Missing \ down
               PROVE  \E u \in Tasks : Covers(task'[u], j)
    BY <1>2, <1>3 DEF Covered
  <2>1. PICK u \in Tasks : Covers(task[u], j)
    BY DEF IInv, Covered
  <2>2. CASE u # t
    BY <1>8, <2>1, <2>2
  <2>3. CASE u = t
    <3>1. j \in task[t].plans \cup DOMAIN task[t].built
      BY <1>1, <2>1, <2>3 DEF Covers
    <3>2. CASE task' = [task EXCEPT ![t] = done]
      <4>1. task'[t] = done
        BY <3>2, <1>6, OneCaller DEF IInv
      <4> QED
        BY <4>1, <3>1, <1>4, <1>6 DEF Covers
    <3>3. CASE task' = [task EXCEPT ![t] = lost] /\ down' = down \cup {k}
      <4>1. task'[t] = lost
        BY <3>3, <1>7, OneCaller DEF IInv
      <4>2. j # k
        BY <3>3
      <4> QED
        BY <4>1, <4>2, <3>1, <1>7 DEF Covers
    <3> QED
      BY <1>2, <3>2, <3>3
  <2> QED
    BY <2>2, <2>3
<1>10. ~Calm'
  BY <1>6, <1>7, <1>8 DEF Calm, Reconciling
<1> QED
  BY <1>3, <1>8, <1>9, <1>10 DEF IInv, NoStray, StateBorneOut

LEMMA ApplyStep ==
    ASSUME IInv, NEW t \in Tasks, Apply(t)
    PROVE  IInv'
<1> DEFINE s == [task[t] EXCEPT !.at = "after"]
           r == [s EXCEPT !.built = <<>>]
<1> USE DEF registry, budget
<1>1. Formed(task[t]) /\ task[t].at = "spawn" /\ task[t].plans = {}
  BY DEF IInv, CallersFormed, Apply
<1>2. task' = [task EXCEPT ![t] = r]
  BY DEF Apply
<1>3. Formed(s) /\ s.at = "after"
  BY <1>1, SetAt
<1> HIDE DEF s
<1>4. Formed(r) /\ r.at = "after"
  BY <1>3, SetBuilt
<1> HIDE DEF r
<1>5. CallersFormed' /\ \A u \in Tasks \ {t} : task'[u] = task[u]
  BY <1>2, <1>4, OneCaller DEF IInv
<1>0. RegistryOK' /\ ExitedOK'
  BY DEF Apply, IInv, RegistryOK, ExitedOK, Sessions, Kept
<1>6. CASE ~present
  <2>1. present' = present /\ OneEngine'
    BY <1>6 DEF Apply, IInv, OneEngine
  <2> QED
    BY <1>0, <1>5, <1>6, <2>1 DEF IInv, Covered, NoStray, StateBorneOut
<1>7. CASE present
  <2>1. /\ DOMAIN slots' = Kept \cup Inserted(t)
        /\ engines' = engines \cap Gui
        /\ state' = StateOf(Kept \cup Inserted(t))
        /\ down' = down \ Inserted(t)
        /\ mode' = mode /\ root' = root /\ focused' = focused
    BY <1>7 DEF Apply, EnginesKept
  <2>2. DOMAIN slots' \subseteq Tui /\ engines' \subseteq Gui /\ Tui' = Tui /\ Gui' = Gui
    BY <2>1 DEF Kept, Inserted, Tui, Gui, Sessions
  <2>3. OneEngine'
    BY <2>2 DEF OneEngine, Tui, Gui
  <2>4. Missing' = (Missing \ DOMAIN task[t].built)
    BY <2>1, <2>2 DEF Missing, Kept, Inserted
  <2>5. Covered'
    <3> SUFFICES ASSUME NEW j \in Missing' \ down'
                 PROVE  \E u \in Tasks : Covers(task'[u], j)
      BY DEF Covered
    <3>1. j \in Missing \ down /\ j \notin DOMAIN task[t].built
      BY <2>1, <2>4 DEF Inserted, Missing
    <3>2. PICK u \in Tasks : Covers(task[u], j)
      BY <1>7, <3>1 DEF IInv, Covered
    <3>3. u # t
      BY <1>1, <3>1, <3>2 DEF Covers
    <3> QED
      BY <1>5, <3>2, <3>3
  <2>6. NoStray'
    BY <2>2 DEF NoStray
  <2>7. StateBorneOut'
    <3>1. CASE mode[root] = "gui" \/ root \in DOMAIN slots'
      BY <2>1, <2>2, <3>1 DEF StateBorneOut, StateOf, Missing, Tui
    <3>2. CASE ~(mode[root] = "gui" \/ root \in DOMAIN slots')
      BY <2>1, <2>2, <3>2 DEF IInv, RegistryOK, Modes, StateBorneOut, StateOf, Missing, Tui
    <3> QED
      BY <3>1, <3>2
  <2> QED
    BY <1>0, <1>5, <2>3, <2>5, <2>6, <2>7 DEF IInv
<1> QED
  BY <1>6, <1>7

\* An engine is started only for a gui session without a slot.
LEMMA EnsureSafe ==
    ASSUME IInv, NEW k, NEW STATE running, running \subseteq engines, Ensure(k, running),
           UNCHANGED <<present, mode, root, focused, slots, exited>>
    PROVE  /\ OneEngine' /\ RegistryOK' /\ ExitedOK'
           /\ Missing' = Missing
           /\ DOMAIN slots \subseteq Tui => DOMAIN slots' \subseteq Tui'
           /\ engines \subseteq Gui => engines' \subseteq Gui'
           /\ state' = state \/ (state' = "running" /\ focused \in Gui)
<1>1. OneEngine' /\ RegistryOK' /\ ExitedOK'
  BY DEF IInv, OneEngine, RegistryOK, ExitedOK, Sessions, Ensure, MayHoldEngine
<1>2. /\ Missing' = Missing
      /\ DOMAIN slots \subseteq Tui => DOMAIN slots' \subseteq Tui'
  BY DEF Missing, Tui, Sessions
<1>3. engines \subseteq Gui => engines' \subseteq Gui'
  BY DEF Ensure, MayHoldEngine, Gui, Sessions
<1>4. state' = state \/ (state' = "running" /\ focused \in Gui)
  BY DEF Ensure, MayHoldEngine
<1> QED
  BY <1>1, <1>2, <1>3, <1>4

LEMMA AfterStep ==
    ASSUME IInv, NEW t \in Tasks, After(t)
    PROVE  IInv'
<1> USE DEF registry, budget
<1>1. task[t].at = "after" /\ UNCHANGED <<present, mode, root, focused, slots, exited, down>>
  BY DEF After
<1>2. \/ \E verb, key, left : task' = [task EXCEPT ![t] = Begin(verb, key, left)]
      \/ task' = [task EXCEPT ![t] = Idle]
  BY DEF After
<1>3. PICK r : Formed(r) /\ task' = [task EXCEPT ![t] = r]
               /\ r.at \in {"plan", "idle"}
  BY <1>2, BeginFormed
<1>4. CallersFormed' /\ task'[t] = r /\ \A u \in Tasks \ {t} : task'[u] = task[u]
  BY <1>3, OneCaller DEF IInv
<1>5. (\E k : Ensure(k, engines)) \/ UNCHANGED <<engines, state>>
  <2>1. CASE task[t].verb = "ensure"
    BY <2>1 DEF After
  <2>2. CASE task[t].verb # "ensure"
    BY <2>2 DEF After
  <2> QED
    BY <2>1, <2>2
<1>6. /\ OneEngine' /\ RegistryOK' /\ ExitedOK'
      /\ Missing' = Missing
      /\ DOMAIN slots \subseteq Tui => DOMAIN slots' \subseteq Tui'
      /\ engines \subseteq Gui => engines' \subseteq Gui'
      /\ state' = state \/ (state' = "running" /\ focused \in Gui)
  <2>1. CASE \E k : Ensure(k, engines)
    BY <1>1, <2>1, EnsureSafe
  <2>2. CASE UNCHANGED <<engines, state>>
    BY <1>1, <2>2 DEF IInv, OneEngine, RegistryOK, ExitedOK, Missing, Tui, Gui, Sessions
  <2> QED
    BY <1>5, <2>1, <2>2
<1>7. Covered'
  <2> SUFFICES ASSUME present, NEW j \in Missing \ down
               PROVE  \E u \in Tasks : Covers(task'[u], j)
    BY <1>1, <1>6 DEF Covered
  <2>1. PICK u \in Tasks : Covers(task[u], j)
    BY DEF IInv, Covered
  <2>2. u # t
    BY <1>1, <2>1 DEF Covers
  <2> QED
    BY <1>4, <2>1, <2>2
<1>8. Calm' => Calm
  BY <1>1, <1>4 DEF Calm, Reconciling
<1>9. Gui' = Gui
  BY <1>1 DEF Gui, Sessions
<1>10. NoStray' /\ StateBorneOut'
  BY <1>1, <1>6, <1>8, <1>9 DEF IInv, NoStray, StateBorneOut
<1> QED
  BY <1>4, <1>6, <1>7, <1>10 DEF IInv

\* Steps that leave the callers, the registry and the slots alone.
LEMMA EngineStep ==
    ASSUME IInv, NEW k \in Keys, Demand(k) \/ Swap(k) \/ Teardown(k)
    PROVE  IInv'
<1> USE DEF registry, budget
<1>1. UNCHANGED <<present, mode, root, focused, slots, exited, down, task>>
  BY DEF Demand, Swap, Teardown
<1>2. /\ OneEngine' /\ RegistryOK' /\ ExitedOK'
      /\ Missing' = Missing
      /\ DOMAIN slots \subseteq Tui => DOMAIN slots' \subseteq Tui'
      /\ engines \subseteq Gui => engines' \subseteq Gui'
      /\ state' = state \/ (state' = "running" /\ focused \in Gui)
  <2>1. CASE Demand(k)
    BY <1>1, <2>1, EnsureSafe DEF Demand
  <2>2. CASE Swap(k)
    <3>1. Ensure(k, engines \ {k})
      BY <2>2 DEF Swap
    <3> QED
      BY <1>1, <3>1, EnsureSafe
  <2>3. CASE Teardown(k)
    BY <1>1, <2>3 DEF Teardown, IInv, OneEngine, RegistryOK, ExitedOK, Missing, Tui, Gui, Sessions
  <2> QED
    BY <2>1, <2>2, <2>3
<1>3. CallersFormed' /\ Covered' /\ (Calm' <=> Calm) /\ Gui' = Gui
  BY <1>1, <1>2 DEF IInv, CallersFormed, Covered, Calm, Gui, Sessions
<1>4. NoStray' /\ StateBorneOut'
  BY <1>1, <1>2, <1>3 DEF IInv, NoStray, StateBorneOut
<1> QED
  BY <1>2, <1>3, <1>4 DEF IInv

LEMMA ExitStep ==
    ASSUME IInv, NEW k \in Keys, ConsoleExits(k)
    PROVE  IInv'
BY DEF ConsoleExits, registry, IInv, CallersFormed, RegistryOK, ExitedOK, OneEngine, Covered, NoStray,
       StateBorneOut, Calm, Missing, Tui, Gui, Sessions

LEMMA DetectStep ==
    ASSUME IInv, Detect
    PROVE  IInv'
<1> USE DEF Detect, registry
<1>1. CallersFormed' /\ RegistryOK' /\ ExitedOK' /\ (Calm' <=> Calm)
  BY DEF IInv, CallersFormed, RegistryOK, ExitedOK, Sessions, Calm
<1>2. DOMAIN slots' = DOMAIN slots \ exited /\ Tui' = Tui /\ Gui' = Gui
  BY DEF Restrict, Tui, Gui, Sessions
<1>3. OneEngine'
  BY <1>2 DEF IInv, OneEngine
<1>4. Missing' \subseteq Missing \cup exited /\ Missing \subseteq Missing'
  BY <1>2 DEF Missing
<1>5. Covered'
  BY <1>4 DEF IInv, Covered
<1>6. NoStray'
  BY <1>1, <1>2 DEF IInv, NoStray
<1>7. StateBorneOut'
  <2> SUFFICES ASSUME present, Calm
               PROVE  /\ state' = "dead" => root \in Missing'
                      /\ state' = "running" /\ root \in Missing' => focused \in Gui
    BY <1>1, <1>2 DEF StateBorneOut
  <2>1. CASE root \in exited
    <3>1. root \in Tui
      BY <2>1 DEF IInv, ExitedOK, NoStray
    <3>2. root \in Missing'
      BY <1>2, <2>1, <3>1 DEF Missing
    <3>3. state' = "dead"
      BY <2>1
    <3> QED
      BY <3>2, <3>3
  <2>2. CASE root \notin exited
    BY <1>4, <2>2 DEF IInv, StateBorneOut
  <2> QED
    BY <2>1, <2>2
<1> QED
  BY <1>1, <1>3, <1>5, <1>6, <1>7 DEF IInv

LEMMA DeleteStep ==
    ASSUME IInv, Delete
    PROVE  IInv'
BY DEF Delete, IInv, CallersFormed, RegistryOK, ExitedOK, Modes, OneEngine, Covered, NoStray,
       StateBorneOut, Sessions

LEMMA DaemonRestartStep ==
    ASSUME IInv, DaemonRestart
    PROVE  IInv'
<1> USE DEF DaemonRestart, registry
<1>1. PICK t \in Tasks : task' = [u \in Tasks |-> IF u = t THEN Begin("plain", 1, 0) ELSE Idle]
  OBVIOUS
<1>2. CallersFormed' /\ task'[t].at = "plan"
  BY <1>1, BeginFormed DEF CallersFormed
<1>3. RegistryOK' /\ ExitedOK' /\ OneEngine'
  BY DEF IInv, RegistryOK, ExitedOK, OneEngine, Sessions
<1> QED
  BY <1>2, <1>3, PlanningCovers DEF IInv

-----------------------------------------------------------------------------
LEMMA InitIInv == Init => IInv
<1> SUFFICES ASSUME Init PROVE IInv
  OBVIOUS
<1>1. PICK t \in Tasks : task = [u \in Tasks |-> IF u = t THEN Begin("plain", 1, 0) ELSE Idle]
  BY DEF Init
<1>2. CallersFormed /\ task[t].at = "plan"
  BY <1>1, BeginFormed DEF CallersFormed
<1>3. RegistryOK /\ ExitedOK /\ OneEngine
  BY DEF Init, RegistryOK, ExitedOK, OneEngine, Sessions
<1>4. Covered /\ ~Calm
  BY <1>2 DEF Covered, Covers, Calm, Reconciling
<1> QED
  BY <1>2, <1>3, <1>4 DEF IInv, NoStray, StateBorneOut

LEMMA StepIInv == IInv /\ [Next]_vars => IInv'
<1> SUFFICES ASSUME IInv, [Next]_vars PROVE IInv'
  OBVIOUS
<1>1. ASSUME NEW t \in Tasks, Verb(t) PROVE IInv'
  BY <1>1, VerbStep
<1>2. ASSUME NEW t \in Tasks, ReconcileStep(t) PROVE IInv'
  BY <1>2, PlanStep, SpawnStep, ApplyStep, AfterStep DEF ReconcileStep
<1>3. ASSUME NEW k \in Keys, Demand(k) \/ Swap(k) \/ Teardown(k) \/ ConsoleExits(k) PROVE IInv'
  BY <1>3, EngineStep, ExitStep
<1>4. CASE Detect
  BY <1>4, DetectStep
<1>5. CASE Delete
  BY <1>5, DeleteStep
<1>6. CASE DaemonRestart
  BY <1>6, DaemonRestartStep
<1>7. CASE UNCHANGED vars
  BY <1>7 DEF vars, registry, pool, budget, IInv, CallersFormed, RegistryOK, ExitedOK, OneEngine,
     Covered, NoStray, StateBorneOut, Calm, Missing, Tui, Gui, Sessions
<1> QED
  BY <1>1, <1>2, <1>3, <1>4, <1>5, <1>6, <1>7 DEF Next

LEMMA Always == Spec => []IInv
BY InitIInv, StepIInv, PTL DEF Spec

\* ensure_chat_engine and reconcile_lane keep the law of the pool: no session is
\* ever held by a PTY slot and a chat engine at once.
THEOREM LawOfThePool == Spec => []OneEngine
<1>1. IInv => OneEngine
  BY DEF IInv
<1> QED
  BY <1>1, Always, PTL

\* When every verb has returned from reconcile_lane, slots and engines are what
\* the registry asks for, but for sessions that failed to start or exited since.
THEOREM ReconcileSettles == Spec => []Settled
<1>1. IInv => Settled
  BY DEF IInv, Settled, Quiet, Covered, Covers, NoStray, Calm, Reconciling
<1> QED
  BY <1>1, Always, PTL

\* LaneInfo.state, derived by lane_state_of and set by detect_and_mark_dead and
\* ensure_chat_engine, is true of the root whenever every verb has returned.
THEOREM StateTold == Spec => []StateIsTrue
<1>1. IInv => StateIsTrue
  BY DEF IInv, StateIsTrue, Quiet, StateBorneOut, Calm, Reconciling
<1> QED
  BY <1>1, Always, PTL

\* No reconcile and no verb takes down a running console of a tui session, but
\* for a restart of the root, a Reset, and the end of the lane or the daemon.
THEOREM ConsolesSpared == Spec => SiblingsSpared
<1> DEFINE Meant(k) ==
      \/ k \notin DOMAIN mode' \/ mode'[k] # "tui"
      \/ \E t \in Tasks : ResetLane(t) \/ (k = root /\ RestartLane(t))
      \/ Delete
      \/ DaemonRestart
<1>1. ASSUME [Next]_vars, NEW k \in Keys, Killed(k) PROVE Meant(k)
  <2> USE DEF registry, pool, budget, Killed
  <2>1. ASSUME NEW t \in Tasks, Verb(t) PROVE Meant(k)
    <3>1. CASE slots' = slots
      BY <1>1, <3>1
    <3>2. CASE slots' # slots
      <4>1. RestartLane(t) \/ ResetLane(t)
        BY <2>1, <3>2 DEF Verb, CreateSession, CreateRoot, SwitchRoot, Focus, Remove, SetMode
      <4>2. RestartLane(t) => k = root
        BY <1>1 DEF RestartLane, Restrict
      <4> QED
        BY <4>1, <4>2
    <3> QED
      BY <3>1, <3>2
  <2>2. ASSUME NEW t \in Tasks, ReconcileStep(t) PROVE Meant(k)
    <3>1. CASE slots' = slots
      BY <1>1, <3>1
    <3>2. CASE slots' # slots
      <4>1. Apply(t) /\ present
        BY <2>2, <3>2 DEF ReconcileStep, Plan, Spawn, After, Apply
      <4>2. k \notin Tui
        BY <1>1, <4>1 DEF Apply, Kept, Inserted
      <4> QED
        BY <4>1, <4>2 DEF Apply, Tui, Sessions
    <3> QED
      BY <3>1, <3>2
  <2>3. CASE slots' = slots
    BY <1>1, <2>3
  <2>4. CASE Detect
    BY <1>1, <2>4 DEF Detect, Restrict
  <2>5. CASE Delete \/ DaemonRestart
    BY <2>5
  <2>6. ASSUME NEW j \in Keys, Demand(j) \/ Swap(j) \/ Teardown(j) \/ ConsoleExits(j)
        PROVE  slots' = slots
    BY <2>6 DEF Demand, Swap, Teardown, ConsoleExits
  <2> QED
    BY <1>1, <2>1, <2>2, <2>3, <2>4, <2>5, <2>6 DEF Next, vars
<1>2. [Next]_vars => [\A k \in Keys : Killed(k) => Meant(k)]_vars
  BY <1>1
<1> QED
  BY <1>2, PTL DEF Spec, SiblingsSpared

-----------------------------------------------------------------------------
(* What a Reset throws away comes back through an overlapping reconcile only. *)

\* No caller holds a console of an epoch to come.
BuiltOK ==
    /\ epoch \in Nat
    /\ \A t \in Tasks : \A k \in DOMAIN task[t].built : task[t].built[k].born \in 0 .. epoch

LEMMA NothingBuilt ==
    ASSUME NEW verb, NEW key, NEW left
    PROVE  DOMAIN Begin(verb, key, left).built = {} /\ DOMAIN Idle.built = {}
BY DEF Begin, Idle

\* One caller's record is replaced by one that is as good.
LEMMA BuiltCaller ==
    ASSUME IInv, BuiltOK, NEW t \in Tasks, NEW STATE r, Formed(r), task' = [task EXCEPT ![t] = r],
           epoch' \in Nat, epoch <= epoch',
           \A k \in DOMAIN r.built : r.built[k].born \in 0 .. epoch'
    PROVE  BuiltOK'
<1>1. task'[t] = r /\ \A u \in Tasks \ {t} : task'[u] = task[u]
  BY OneCaller DEF IInv
<1> QED
  BY <1>1 DEF BuiltOK

LEMMA VerbBuilds ==
    ASSUME IInv, BuiltOK, NEW t \in Tasks, Verb(t)
    PROVE  BuiltOK'
<1>1. /\ \E verb, key, left : Starts(t, verb, key, left)
      /\ epoch' \in Nat /\ epoch <= epoch'
  <2> USE DEF BuiltOK
  <2>1. CASE \E m \in Modes, focus \in BOOLEAN : CreateSession(t, m, focus)
    BY <2>1 DEF CreateSession
  <2>2. CASE \E m \in Modes : CreateRoot(t, m)
    BY <2>2 DEF CreateRoot
  <2>3. CASE \E k \in Sessions : SwitchRoot(t, k) \/ Focus(t, k) \/ Remove(t, k)
    BY <2>3 DEF SwitchRoot, Focus, Remove
  <2>4. CASE \E k \in Sessions, m \in Modes : SetMode(t, k, m)
    BY <2>4 DEF SetMode
  <2>5. CASE RestartLane(t) \/ ResetLane(t)
    BY <2>5 DEF RestartLane, ResetLane, registry
  <2> QED
    BY <2>1, <2>2, <2>3, <2>4, <2>5 DEF Verb
<1>2. PICK verb, key, left : task' = [task EXCEPT ![t] = Begin(verb, key, left)]
  BY <1>1 DEF Starts
<1> DEFINE r == Begin(verb, key, left)
<1>3. Formed(r) /\ DOMAIN r.built = {}
  BY BeginFormed, NothingBuilt
<1> HIDE DEF r
<1>4. task' = [task EXCEPT ![t] = r]
  BY <1>2 DEF r
<1> QED
  BY <1>1, <1>3, <1>4, BuiltCaller

LEMMA SpawnBuilds ==
    ASSUME IInv, BuiltOK, NEW t \in Tasks, Spawn(t)
    PROVE  BuiltOK'
<1> DEFINE k     == Min(task[t].plans)
           rest  == task[t].plans \ {k}
           built == [j \in DOMAIN task[t].built \cup {k} |->
                       IF j = k THEN Console(t) ELSE task[t].built[j]]
           s     == [task[t] EXCEPT !.plans = rest]
           done  == [s EXCEPT !.built = built]
           lost  == [s EXCEPT !.failed = TRUE]
<1>1. Formed(task[t]) /\ epoch' = epoch /\ epoch' \in Nat /\ epoch <= epoch'
  BY DEF IInv, CallersFormed, Spawn, registry, BuiltOK
<1>2. task' = [task EXCEPT ![t] = done] \/ task' = [task EXCEPT ![t] = lost]
  BY DEF Spawn
<1>3. \A j \in DOMAIN built : built[j].born \in 0 .. epoch'
  BY <1>1 DEF Console, BuiltOK
<1> HIDE DEF k, built
<1>4. Formed(s) /\ s.built = task[t].built
  BY <1>1, SetPlans
<1> HIDE DEF s
<1>5. Formed(done) /\ done.built = built
  BY <1>4, SetBuilt
<1>6. Formed(lost) /\ lost.built = task[t].built
  BY <1>4, SetFailed
<1> HIDE DEF done, lost
<1>7. CASE task' = [task EXCEPT ![t] = done]
  BY <1>1, <1>3, <1>5, <1>7, BuiltCaller
<1>8. CASE task' = [task EXCEPT ![t] = lost]
  <2>1. \A j \in DOMAIN lost.built : lost.built[j].born \in 0 .. epoch'
    BY <1>1, <1>6 DEF BuiltOK
  <2> QED
    BY <1>1, <1>6, <1>8, <2>1, BuiltCaller
<1> QED
  BY <1>2, <1>7, <1>8

LEMMA ReconcileBuilds ==
    ASSUME IInv, BuiltOK, NEW t \in Tasks, Plan(t) \/ Apply(t) \/ After(t)
    PROVE  BuiltOK'
<1>1. Formed(task[t]) /\ epoch' = epoch /\ epoch' \in Nat /\ epoch <= epoch'
  BY DEF IInv, CallersFormed, Plan, Apply, After, registry, BuiltOK
<1>2. \A j \in DOMAIN task[t].built : task[t].built[j].born \in 0 .. epoch'
  BY <1>1 DEF BuiltOK
<1>3. CASE Plan(t)
  <2> DEFINE s == [task[t] EXCEPT !.at = "spawn"]
             r == [s EXCEPT !.plans = Missing]
             a == [task[t] EXCEPT !.at = "after"]
  <2>1. task' = [task EXCEPT ![t] = r] \/ task' = [task EXCEPT ![t] = a]
    BY <1>3 DEF Plan
  <2>2. Formed(s) /\ s.built = task[t].built /\ Formed(a) /\ a.built = task[t].built
    BY <1>1, SetAt DEF Formed
  <2> HIDE DEF s, a
  <2>3. Formed(r) /\ r.built = task[t].built
    BY <2>2, SetPlans
  <2> HIDE DEF r
  <2> QED
    BY <1>1, <1>2, <2>1, <2>2, <2>3, BuiltCaller
<1>4. CASE Apply(t)
  <2> DEFINE s == [task[t] EXCEPT !.at = "after"]
             r == [s EXCEPT !.built = <<>>]
  <2>1. task' = [task EXCEPT ![t] = r]
    BY <1>4 DEF Apply
  <2>2. Formed(s)
    BY <1>1, SetAt
  <2> HIDE DEF s
  <2>3. Formed(r) /\ DOMAIN r.built = {}
    BY <2>2, SetBuilt
  <2> HIDE DEF r
  <2> QED
    BY <1>1, <2>1, <2>3, BuiltCaller
<1>5. CASE After(t)
  <2>1. PICK left : task' = [task EXCEPT ![t] = Begin("converge", 1, left)] \/ task' = [task EXCEPT ![t] = Idle]
    BY <1>5 DEF After
  <2> DEFINE b == Begin("converge", 1, left)
  <2>2. Formed(b) /\ Formed(Idle) /\ DOMAIN b.built = {} /\ DOMAIN Idle.built = {}
    BY BeginFormed, NothingBuilt
  <2>3. task' = [task EXCEPT ![t] = b] \/ task' = [task EXCEPT ![t] = Idle]
    BY <2>1
  <2> HIDE DEF b
  <2> QED
    BY <1>1, <2>2, <2>3, BuiltCaller
<1> QED
  BY <1>3, <1>4, <1>5

LEMMA StepBuilds == IInv /\ BuiltOK /\ [Next]_vars => BuiltOK'
<1> SUFFICES ASSUME IInv, BuiltOK, [Next]_vars PROVE BuiltOK'
  OBVIOUS
<1>1. ASSUME NEW t \in Tasks, Verb(t) PROVE BuiltOK'
  BY <1>1, VerbBuilds
<1>2. ASSUME NEW t \in Tasks, ReconcileStep(t) PROVE BuiltOK'
  BY <1>2, SpawnBuilds, ReconcileBuilds DEF ReconcileStep
<1>3. ASSUME NEW k \in Keys, Demand(k) \/ Swap(k) \/ Teardown(k) \/ ConsoleExits(k) PROVE BuiltOK'
  BY <1>3 DEF Demand, Swap, Teardown, ConsoleExits, registry, BuiltOK
<1>4. CASE Detect \/ Delete
  BY <1>4 DEF Detect, Delete, registry, BuiltOK
<1>5. CASE DaemonRestart
  <2>1. PICK t \in Tasks : task' = [u \in Tasks |-> IF u = t THEN Begin("plain", 1, 0) ELSE Idle]
    BY <1>5 DEF DaemonRestart
  <2>2. \A u \in Tasks : DOMAIN task'[u].built = {}
    BY <2>1, NothingBuilt
  <2> QED
    BY <1>5, <2>2 DEF DaemonRestart, registry, BuiltOK
<1>6. CASE UNCHANGED vars
  BY <1>6 DEF vars, registry, BuiltOK
<1> QED
  BY <1>1, <1>2, <1>3, <1>4, <1>5, <1>6 DEF Next

LEMMA InitBuilt == Init => BuiltOK
<1> SUFFICES ASSUME Init PROVE BuiltOK
  OBVIOUS
<1>1. PICK t \in Tasks : task = [u \in Tasks |-> IF u = t THEN Begin("plain", 1, 0) ELSE Idle]
  BY DEF Init
<1>2. \A u \in Tasks : DOMAIN task[u].built = {}
  BY <1>1, NothingBuilt
<1> QED
  BY <1>2 DEF Init, BuiltOK

\* After a Reset a console of the conversations thrown away appears in one way
\* only: the apply of a reconcile that had built it before the Reset.
THEOREM OverlapAloneRevives == Spec => OnlyOverlapRevives
<1> DEFINE Revives == \E t \in Tasks : /\ Apply(t)
                                       /\ \E k \in DOMAIN task[t].built : task[t].built[k].born < epoch
<1>1. ASSUME BuiltOK, [Next]_vars, Bare PROVE Bare' \/ Revives
  <2> USE DEF registry, pool, budget
  <2>1. CASE UNCHANGED <<slots, epoch>>
    BY <1>1, <2>1 DEF Bare
  <2>2. ASSUME NEW t \in Tasks, Verb(t) PROVE Bare' \/ Revives
    <3>1. CASE RestartLane(t)
      BY <1>1, <3>1 DEF RestartLane, Bare, Restrict
    <3>2. CASE ResetLane(t)
      BY <3>2 DEF ResetLane, Bare
    <3>3. CASE ~RestartLane(t) /\ ~ResetLane(t)
      BY <2>1, <2>2, <3>3 DEF Verb, CreateSession, CreateRoot, SwitchRoot, Focus, Remove, SetMode
    <3> QED
      BY <3>1, <3>2, <3>3
  <2>3. ASSUME NEW t \in Tasks, Apply(t) PROVE Bare' \/ Revives
    <3>1. CASE ~present
      BY <2>1, <2>3, <3>1 DEF Apply
    <3>2. CASE present
      <4>1. /\ epoch' = epoch
            /\ slots' = [k \in Kept \cup Inserted(t) |->
                           IF k \in Inserted(t) THEN task[t].built[k] ELSE slots[k]]
        BY <2>3, <3>2 DEF Apply
      <4>2. CASE \A k \in Inserted(t) : task[t].built[k].born = epoch
        BY <1>1, <4>1, <4>2 DEF Bare, Kept
      <4>3. ASSUME NEW k \in Inserted(t), task[t].built[k].born # epoch PROVE Revives
        <5>1. k \in DOMAIN task[t].built /\ task[t].built[k].born \in 0 .. epoch /\ epoch \in Nat
          BY <1>1, <4>3 DEF Inserted, BuiltOK
        <5>2. task[t].built[k].born < epoch
          BY <4>3, <5>1
        <5> QED
          BY <2>3, <5>1, <5>2
      <4> QED
        BY <4>2, <4>3
    <3> QED
      BY <3>1, <3>2
  <2>4. ASSUME NEW t \in Tasks, Plan(t) \/ Spawn(t) \/ After(t) PROVE Bare' \/ Revives
    BY <2>1, <2>4 DEF Plan, Spawn, After
  <2>5. ASSUME NEW k \in Keys, Demand(k) \/ Swap(k) \/ Teardown(k) \/ ConsoleExits(k) PROVE Bare' \/ Revives
    BY <2>1, <2>5 DEF Demand, Swap, Teardown, ConsoleExits
  <2>6. CASE Detect
    BY <1>1, <2>6 DEF Detect, Bare, Restrict
  <2>7. CASE Delete \/ DaemonRestart
    BY <2>7 DEF Delete, DaemonRestart, Bare
  <2> QED
    BY <1>1, <2>1, <2>2, <2>3, <2>4, <2>5, <2>6, <2>7 DEF Next, vars, ReconcileStep
<1>2. BuiltOK /\ [Next]_vars => [Bare => Bare' \/ Revives]_vars
  BY <1>1
<1> QED
  BY <1>2, Always, InitBuilt, StepBuilds, PTL DEF Spec, OnlyOverlapRevives

-----------------------------------------------------------------------------
(* The registry alone: whom the verbs address.                              *)

\* A nonempty set of keys has a least one.
LEMMA MinIsLeast ==
    ASSUME NEW S \in SUBSET Nat, S # {}
    PROVE  Min(S) \in S
<1>1. PICK x \in S : \A y \in S : <<y, x>> \notin OpToRel(<, Nat)
  BY WFMin, NatLessThanWellFounded, Zenon
<1>2. \A y \in S : ~(y < x)
  BY <1>1, Zenon DEF OpToRel
<1>3. \A y \in S : y \in Nat /\ x \in Nat /\ x =< y
  BY <1>2
<1> QED
  BY <1>3 DEF Min

\* The root and the focus are sessions, and the next key is nobody's yet.
Addressed ==
    /\ root \in Sessions
    /\ focused \in Sessions
    /\ next \in Nat
    /\ \A k \in Sessions : k \in Nat /\ 0 < k /\ k < next

LEMMA InitAddressed == Init => Addressed
<1> SUFFICES ASSUME Init PROVE Addressed
  OBVIOUS
<1>1. PICK n \in Nat \ {0} : mode \in [1 .. n -> Modes]
  BY BoundsAssumption DEF Init
<1>2. Sessions = 1 .. n /\ Cardinality(1 .. n) = n
  BY <1>1, FS_Interval DEF Sessions
<1> QED
  BY <1>1, <1>2 DEF Init, Addressed

LEMMA VerbAddressed ==
    ASSUME Addressed, NEW t \in Tasks, Verb(t)
    PROVE  Addressed'
<1> USE DEF Addressed, Sessions, pool, registry
<1>1. ASSUME NEW m, NEW focus, CreateSession(t, m, focus) PROVE Addressed'
  BY <1>1 DEF CreateSession
<1>2. ASSUME NEW m, CreateRoot(t, m) PROVE Addressed'
  BY <1>2 DEF CreateRoot
<1>3. ASSUME NEW k \in Sessions, SwitchRoot(t, k) \/ Focus(t, k) PROVE Addressed'
  BY <1>3 DEF SwitchRoot, Focus
<1>4. ASSUME NEW k \in Sessions, Remove(t, k) PROVE Addressed'
  <2>1. /\ k # root /\ next' = next /\ root' = root
        /\ focused' = IF focused = k THEN Min(Sessions \ {k}) ELSE focused
        /\ Sessions' = Sessions \ {k}
    BY <1>4 DEF Remove, Restrict
  <2>2. Min(Sessions \ {k}) \in Sessions \ {k}
    BY <2>1, MinIsLeast
  <2> HIDE DEF Sessions
  <2> QED
    BY <2>1, <2>2
<1>5. ASSUME NEW k \in Sessions, NEW m, SetMode(t, k, m) PROVE Addressed'
  BY <1>5 DEF SetMode
<1>6. CASE RestartLane(t)
  BY <1>6 DEF RestartLane
<1>7. CASE ResetLane(t)
  BY <1>7 DEF ResetLane
<1> QED
  BY <1>1, <1>2, <1>3, <1>4, <1>5, <1>6, <1>7 DEF Verb

LEMMA StepAddressed == Addressed /\ [Next]_vars => Addressed'
<1> SUFFICES ASSUME Addressed, [Next]_vars PROVE Addressed'
  OBVIOUS
<1>1. CASE UNCHANGED registry
  BY <1>1 DEF Addressed, Sessions, registry
<1>2. ASSUME NEW t \in Tasks, Verb(t) PROVE Addressed'
  BY <1>2, VerbAddressed
<1>3. ASSUME NEW t \in Tasks, ReconcileStep(t) PROVE UNCHANGED registry
  BY <1>3 DEF ReconcileStep, Plan, Spawn, Apply, After, registry
<1>4. ASSUME NEW k \in Keys, Demand(k) \/ Swap(k) \/ Teardown(k) \/ ConsoleExits(k)
      PROVE  UNCHANGED registry
  BY <1>4 DEF Demand, Swap, Teardown, ConsoleExits, registry
<1>5. CASE Detect \/ DaemonRestart \/ UNCHANGED vars
  BY <1>1, <1>5 DEF Detect, DaemonRestart, vars
<1>6. CASE Delete
  BY <1>6 DEF Delete, Addressed, Sessions
<1> QED
  BY <1>1, <1>2, <1>3, <1>4, <1>5, <1>6 DEF Next

\* Whatever verbs, resets and deletes do to a lane, the default addressee of chat
\* verbs is one of its sessions, and so is the session that stands for the lane; a
\* key that is handed out is no present session's.
THEOREM SomebodyIsAddressed == Spec => []Addressed
  BY InitAddressed, StepAddressed, PTL DEF Spec

=============================================================================
