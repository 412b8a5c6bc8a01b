---------------------------- MODULE CanvasRouters ---------------------------
(***************************************************************************)
(* Who hears a repo.  A surface of vp-app subscribes to a TopicRouter the  *)
(* daemon keeps per repo (canvas_routers); the runtime routes what happens *)
(* to its own.  The two are brought together from both sides: a surface is *)
(* wired to the runtime's router if there is a runtime, or else to a       *)
(* placeholder; a start adopts the placeholder, or bridges to one that     *)
(* came up while it was starting.                                          *)
(*                                                                         *)
(* The verbs of RepoRegistry run underneath; each of its steps takes the   *)
(* routers along (Carried).                                                *)
(***************************************************************************)
EXTENDS RepoRegistry, Sequences

CONSTANTS Surfaces,     \* connections of vp-app
          MAX_ASKS      \* bound: subscriptions asked for

ASSUME AsksAssumption == MAX_ASKS \in Nat

VARIABLES
    entry,      \* canvas_routers: the repo's router, or NONE
    made,       \* routers made so far
    hooked,     \* routers with the demand hooks
    router,     \* router[g]: RepoState.topic_router of runtime g
    bridging,   \* for a start that has registered its runtime: whose bridge it has yet to see to
    bridges,    \* bridges: [by, to], from by's router to an orphan
    surface,    \* the surfaces: off, asked (with the router they found), on
    asks,       \* subscriptions so far
    astray      \* history: surfaces on a router that was left behind

wiring == <<entry, made, hooked, surface, asks, astray>>
cvars == <<vars, entry, made, hooked, router, bridging, bridges, surface, asks, astray>>

Off == [at |-> "off", on |-> NONE]
On(s) == surface[s].at = "on"

CInit ==
    /\ Init
    /\ entry = NONE /\ made = 0 /\ hooked = {} /\ router = <<>>
    /\ bridging = [c \in Calls |-> NONE] /\ bridges = {}
    /\ surface = [s \in Surfaces |-> Off] /\ asks = 0 /\ astray = {}

Bridged(g, r) == [by |-> g, to |-> r] \in bridges
\* What the runtime says reaches the surface.
Hears(s) == router[live] = surface[s].on \/ Bridged(live, surface[s].on)

-----------------------------------------------------------------------------
(* The registry's steps.                                                   *)

\* adopted_router_for: the entry, or a router of its own.
Adopted == IF entry = NONE THEN made + 1 ELSE entry

\* A new runtime has its router; the start that registers it will see to the
\* bridge; bridges fall with the token of their runtime.  Surfaces that are
\* not on the entry's router are nobody's when the runtime goes.
Carried(c) ==
    /\ IF born' # born
       THEN router' = Append(router, Adopted) /\ made' = (IF Adopted > made THEN made + 1 ELSE made)
       ELSE UNCHANGED <<router, made>>
    /\ bridging' = [bridging EXCEPT ![c] = IF live' \notin {live, NONE} THEN live'
                                           ELSE IF call'[c].at = "idle" THEN NONE ELSE @]
    /\ bridges' = {b \in bridges : b.by \in alive'}
    /\ astray' = astray \cup (IF live # NONE /\ live' = NONE
                              THEN {s \in Surfaces : On(s) /\ surface[s].on # entry} ELSE {})
    /\ UNCHANGED <<entry, hooked, surface, asks>>

\* start returns only after it has seen to the bridge.
RegistryStep(c) ==
    /\ Step(c)
    /\ bridging[c] # NONE => call'[c].at \in {"record", "idle"}
    /\ Carried(c)

\* The daemon's own steps: they let go of the runtime as well.
DaemonStep ==
    /\ Close \/ Drain \/ StopHeld
    /\ UNCHANGED crossed
    /\ bridges' = {b \in bridges : b.by \in alive'}
    /\ UNCHANGED <<router, bridging, wiring>>

\* Mutant of Bridge's effect on the map: the runtime's router is put there at
\* once, before it has its hooks.
AfterBridgeLive(g) == router[g]
\* The entry is left to the next surface.
AfterBridge(g) == entry

\* Mutant of Orphan: no bridge is built.
OrphanNever(g) == FALSE
Orphan(g) == entry # NONE /\ entry # router[g]

\* bridge_orphan_placeholder; a bridge under a token already cancelled falls at once.
Bridge(c) ==
    LET g == bridging[c] IN
    /\ g # NONE
    /\ bridging' = [bridging EXCEPT ![c] = NONE]
    /\ bridges' = IF Orphan(g) /\ g \in alive THEN bridges \cup {[by |-> g, to |-> entry]} ELSE bridges
    /\ entry' = AfterBridge(g)
    /\ UNCHANGED <<vars, made, hooked, router, surface, asks, astray>>

-----------------------------------------------------------------------------
(* The surfaces.                                                           *)

\* canvas_router_for looks for the runtime ...
Ask(s) ==
    /\ surface[s].at = "off" /\ asks < MAX_ASKS
    /\ asks' = asks + 1
    /\ surface' = [surface EXCEPT ![s] = [at |-> "asked", on |-> IF live = NONE THEN NONE ELSE router[live]]]
    /\ UNCHANGED <<vars, entry, made, hooked, router, bridging, bridges, astray>>

\* ... and, under the map's lock, wires the surface to the router it found,
\* or to the entry, or to a placeholder.  What it found may have gone since,
\* and what it did not find may have come; and an entry replaced before its
\* bridge is built has none.
Wire(s) ==
    LET found == surface[s].on
        r     == IF found # NONE THEN found ELSE IF entry # NONE THEN entry ELSE made + 1
    IN  /\ surface[s].at = "asked"
        /\ surface' = [surface EXCEPT ![s] = [at |-> "on", on |-> r]]
        /\ entry' = r
        /\ made' = (IF r > made THEN made + 1 ELSE made)
        /\ hooked' = hooked \cup (IF r # entry THEN {r} ELSE {})
        /\ astray' = astray
             \cup {t \in Surfaces \ {s} : On(t) /\ entry # r /\ surface[t].on = entry /\ ~(live # NONE /\ Hears(t))}
             \cup (IF live # NONE /\ live \notin {bridging[c] : c \in Calls} /\ router[live] # r /\ ~Bridged(live, r)
                   THEN {s} ELSE {})
        /\ UNCHANGED <<vars, router, bridging, bridges, asks>>

Leave(s) ==
    /\ On(s)
    /\ surface' = [surface EXCEPT ![s] = Off]
    /\ astray' = astray \ {s}
    /\ UNCHANGED <<vars, entry, made, hooked, router, bridging, bridges, asks>>

-----------------------------------------------------------------------------
CNext == \/ DaemonStep
         \/ \E c \in Calls : RegistryStep(c) \/ Bridge(c)
         \/ \E s \in Surfaces : Ask(s) \/ Wire(s) \/ Leave(s)

CSpec == CInit /\ [][CNext]_cvars

-----------------------------------------------------------------------------
(* Properties.                                                             *)

\* A runtime is registered, its start has seen to the bridge, and the daemon
\* is not about to end (which may abort a start before that).
Settled == live # NONE /\ phase = "up" /\ \A c \in Calls : bridging[c] = NONE

\* Whoever subscribed hears the repo that runs, whichever came first, once
\* the start has returned (repo_registry.rs, canvas_routers), unless he was
\* left behind: wired after the start had looked for orphans, on an entry
\* replaced before, or bridged from a runtime that ended.
HearsUnlessLeft == Settled => \A s \in Surfaces \ astray : On(s) => Hears(s)

\* A surface's coming and going is always noticed: its router has the hooks.
Hooked == \A s \in Surfaces : On(s) => surface[s].on \in hooked

=============================================================================
