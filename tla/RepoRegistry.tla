---------------------------- MODULE RepoRegistry ----------------------------
(***************************************************************************)
(* Starting, stopping and removing one repo of the daemon.  The control    *)
(* plane (RepoManagerCapability) keeps what the user is told: whether the  *)
(* repo is registered, its status, running_repos and its presence.         *)
(* RepoRuntimes keeps the runtime itself, a handful of spawned tasks       *)
(* behind a cancellation token.  Verbs run as tasks of their own and meet  *)
(* only at the locks, each held for one of the steps below; the boot's     *)
(* autostart is one of them, and the end of the daemon another.            *)
(***************************************************************************)
EXTENDS Naturals, FiniteSets

CONSTANTS Calls,          \* verbs that may be under way at once
          PERMITS,        \* spawn_cap(): starts let through at once
          MAX_VERBS,      \* bound: verbs begun
          MAX_FAILURES    \* bound: starts that fail

ASSUME BoundsAssumption == IsFiniteSet(Calls) /\ PERMITS \in Nat \ {0} /\ MAX_VERBS \in Nat /\ MAX_FAILURES \in Nat

VARIABLES
    listed,     \* RepoManagerCapability.repos has the repo
    status,     \* its process_status
    running,    \* running_repos has it
    told,       \* presence, the database row and the last lifecycle event say it runs
    live,       \* RepoRuntimes.inner: the registered runtime, or NONE
    alive,      \* runtimes whose tasks run
    closing,    \* RepoRuntimes.closing
    held,       \* runtimes shutdown_all has drained and not yet stopped
    phase,      \* of the daemon: "up", "closing", "drained", "down"
    call,       \* the verbs under way
    verbs, failures, born,  \* so far: verbs begun, starts failed, runtimes made
    crossed,    \* history: verbs overlapped, and no restart has run alone since
    orphans     \* history: runtimes whose start was aborted

control == <<listed, status, running, told>>
daemon  == <<closing, held, phase>>
vars == <<control, live, alive, daemon, call, verbs, failures, born, crossed, orphans>>

NONE == 0
Verbs == {"start", "auto", "stop", "restart", "remove", "add"}
Stages == {"idle", "check", "queued", "enter", "starting", "refused", "closed", "record", "tell",
           "find", "take", "halt", "unrecord", "untell", "remove", "forget", "add"}
Free == [verb |-> "start", at |-> "idle", g |-> NONE, alone |-> FALSE]

Quiet == \A c \in Calls : call[c].at = "idle"
\* A start holds its permit from the moment it is let through to its return.
Holding == {c \in Calls : call[c].at \in {"enter", "starting", "refused", "closed", "record", "tell"}}

Init ==
    /\ listed = TRUE /\ status = "Stopped" /\ running = FALSE /\ told = FALSE
    /\ live = NONE /\ alive = {}
    /\ closing = FALSE /\ held = {} /\ phase = "up"
    /\ call = [c \in Calls |-> Free]
    /\ verbs = 0 /\ failures = 0 /\ born = 0
    /\ crossed = FALSE /\ orphans = {}

-----------------------------------------------------------------------------
\* The call moves on, or its verb returns.
Goes(c, at) == call' = [call EXCEPT ![c].at = at]
Returns(c) == call' = [call EXCEPT ![c] = Free]

\* The status goes with the entry of repos, if that is still there.
Says(s) == status' = IF listed THEN s ELSE status

Begin(c, v) ==
    /\ call[c].at = "idle" /\ verbs < MAX_VERBS
    /\ v = "auto" => phase = "up"
    /\ verbs' = verbs + 1
    /\ call' = [d \in Calls |->
                  IF d = c THEN [verb |-> v, g |-> NONE, alone |-> Quiet,
                                 at |-> CASE v \in {"start", "auto"} -> "check"
                                          [] v \in {"stop", "restart"} -> "find"
                                          [] OTHER -> v]
                           ELSE [call[d] EXCEPT !.alone = FALSE]]
    /\ UNCHANGED <<control, live, alive, daemon, failures, born, orphans>>

-----------------------------------------------------------------------------
(* start_process, and RepoRuntimes::start inside it.                       *)

Check(c) ==
    /\ call[c].at = "check"
    /\ IF listed /\ ~running THEN Goes(c, "queued") ELSE Returns(c)
    /\ UNCHANGED <<control, live, alive, daemon, verbs, failures, born, orphans>>

PermitLeft == Cardinality(Holding) < PERMITS

Permit(c) ==
    /\ call[c].at = "queued" /\ PermitLeft
    /\ Says("Starting")
    /\ Goes(c, "enter")
    /\ UNCHANGED <<listed, running, told, live, alive, daemon, verbs, failures, born, orphans>>

\* Not when the daemon closes; nothing to do when there is a runtime; else
\* start_repo begins to spawn the tasks of a new one.
Enter(c) ==
    /\ call[c].at = "enter"
    /\ \/ closing /\ Returns(c) /\ UNCHANGED <<alive, born>>
       \/ ~closing /\ live # NONE /\ Goes(c, "record") /\ UNCHANGED <<alive, born>>
       \/ /\ ~closing /\ live = NONE
          /\ born' = born + 1 /\ alive' = alive \cup {born + 1}
          /\ call' = [call EXCEPT ![c].at = "starting", ![c].g = born + 1]
    /\ UNCHANGED <<control, live, daemon, verbs, failures, orphans>>

\* start_repo fails: the token stops what was spawned; the status stays.
StartFails(c) ==
    /\ call[c].at = "starting" /\ failures < MAX_FAILURES
    /\ failures' = failures + 1
    /\ alive' = alive \ {call[c].g}
    /\ Returns(c)
    /\ UNCHANGED <<control, live, daemon, verbs, born, orphans>>

\* Mutant of ClosedMeanwhile: closing is not read again.
ClosedUnseen == FALSE
ClosedMeanwhile == closing

\* start_repo is done.  Under the write lock: another start may have won, the
\* daemon may have begun to close; else the runtime is registered.
Insert(c) ==
    /\ call[c].at = "starting"
    /\ \/ live # NONE /\ Goes(c, "refused") /\ UNCHANGED live
       \/ live = NONE /\ ClosedMeanwhile /\ Goes(c, "closed") /\ UNCHANGED live
       \/ /\ live = NONE /\ ~ClosedMeanwhile
          /\ live' = call[c].g
          /\ call' = [call EXCEPT ![c].at = "record", ![c].g = NONE]
    /\ UNCHANGED <<control, alive, daemon, verbs, failures, born, orphans>>

\* Mutant of Dropped: the loser is not shut down.
DroppedAlive(g) == alive
\* cancel, then shutdown_repo waits for the tasks.
Dropped(g) == alive \ {g}

Discard(c) ==
    /\ call[c].at \in {"refused", "closed"}
    /\ alive' = Dropped(call[c].g)
    /\ call' = [call EXCEPT ![c] = IF call[c].at = "closed" THEN Free
                                   ELSE [call[c] EXCEPT !.at = "record", !.g = NONE]]
    /\ UNCHANGED <<control, live, daemon, verbs, failures, born, orphans>>

\* Whether the runtime is this start's or another's, it counts as running.
Record(c) ==
    /\ call[c].at = "record"
    /\ running' = TRUE /\ Says("Running")
    /\ Goes(c, "tell")
    /\ UNCHANGED <<listed, told, live, alive, daemon, verbs, failures, born, orphans>>

Tell(c) ==
    /\ call[c].at = "tell"
    /\ told' = TRUE
    /\ Returns(c)
    /\ UNCHANGED <<listed, status, running, live, alive, daemon, verbs, failures, born, orphans>>

-----------------------------------------------------------------------------
(* stop_process; a restart goes on to start, whatever became of the stop.  *)

\* Mutant of AfterStop: a stop refused ends the restart.
AfterStopGivesUp(c) == IF call[c].verb = "restart" /\ call[c].at # "find" THEN Goes(c, "check") ELSE Returns(c)
AfterStop(c) == IF call[c].verb = "restart" THEN Goes(c, "check") ELSE Returns(c)

Find(c) ==
    /\ call[c].at = "find"
    /\ IF listed /\ running THEN Goes(c, "take") /\ Says("Stopping")
                            ELSE AfterStop(c) /\ UNCHANGED status
    /\ UNCHANGED <<listed, running, told, live, alive, daemon, verbs, failures, born, orphans>>

\* RepoRuntimes::stop takes the runtime out of the map, if there is one ...
Take(c) ==
    /\ call[c].at = "take"
    /\ live' = NONE
    /\ call' = [call EXCEPT ![c].at = IF live = NONE THEN "unrecord" ELSE "halt", ![c].g = live]
    /\ UNCHANGED <<control, alive, daemon, verbs, failures, born, orphans>>

\* ... and stops it.
Halt(c) ==
    /\ call[c].at = "halt"
    /\ alive' = alive \ {call[c].g}
    /\ call' = [call EXCEPT ![c].at = "unrecord", ![c].g = NONE]
    /\ UNCHANGED <<control, live, daemon, verbs, failures, born, orphans>>

Unrecord(c) ==
    /\ call[c].at = "unrecord"
    /\ running' = FALSE /\ Says("Stopped")
    /\ Goes(c, "untell")
    /\ UNCHANGED <<listed, told, live, alive, daemon, verbs, failures, born, orphans>>

Untell(c) ==
    /\ call[c].at = "untell"
    /\ told' = FALSE
    /\ AfterStop(c)
    /\ UNCHANGED <<listed, status, running, live, alive, daemon, verbs, failures, born, orphans>>

-----------------------------------------------------------------------------
(* remove_repo: not while it runs; and add_repo.                           *)
Remove(c) ==
    /\ call[c].at = "remove"
    /\ IF running THEN Returns(c) ELSE Goes(c, "forget")
    /\ UNCHANGED <<control, live, alive, daemon, verbs, failures, born, orphans>>

Forget(c) ==
    /\ call[c].at = "forget"
    /\ listed' = FALSE
    /\ told' = (told /\ ~listed) /\ status' = "Stopped"
    /\ Returns(c)
    /\ UNCHANGED <<running, live, alive, daemon, verbs, failures, born, orphans>>

Add(c) ==
    /\ call[c].at = "add"
    /\ listed' = TRUE
    /\ Returns(c)
    /\ UNCHANGED <<status, running, told, live, alive, daemon, verbs, failures, born, orphans>>

-----------------------------------------------------------------------------
(* The end of the daemon.                                                  *)
Close ==
    /\ phase = "up"
    /\ phase' = "closing" /\ closing' = TRUE
    /\ UNCHANGED <<control, live, alive, held, call, verbs, failures, born, orphans>>

\* stop_all loses patience with autostart after two seconds: its start is
\* dropped where it stands.  A token already cancelled still does its work.
Abort(c) ==
    /\ phase = "closing" /\ call[c].verb = "auto" /\ call[c].at # "idle"
    /\ IF call[c].at = "starting"
       THEN orphans' = orphans \cup {call[c].g} /\ UNCHANGED alive
       ELSE alive' = alive \ {call[c].g} /\ UNCHANGED orphans
    /\ Returns(c)
    /\ UNCHANGED <<control, live, daemon, verbs, failures, born>>

\* shutdown_all: closing first, then the map is drained, then each is stopped.
Drain ==
    /\ phase = "closing"
    /\ phase' = "drained" /\ closing' = TRUE
    /\ held' = {live} \ {NONE} /\ live' = NONE
    /\ UNCHANGED <<control, alive, call, verbs, failures, born, orphans>>

StopHeld ==
    /\ phase = "drained"
    /\ phase' = "down"
    /\ alive' = alive \ held /\ held' = {}
    /\ UNCHANGED <<control, live, closing, call, verbs, failures, born, orphans>>

-----------------------------------------------------------------------------
Verb(c) ==
    \/ \E v \in Verbs : Begin(c, v)
    \/ Check(c) \/ Permit(c) \/ Enter(c) \/ StartFails(c) \/ Insert(c) \/ Discard(c) \/ Record(c) \/ Tell(c)
    \/ Find(c) \/ Take(c) \/ Halt(c) \/ Unrecord(c) \/ Untell(c)
    \/ Remove(c) \/ Forget(c) \/ Add(c) \/ Abort(c)

\* Verbs overlap when one begins before another has returned.  A restart that
\* ran alone, on a registered repo, and did not fail has put that right.
Mended(c) ==
    /\ call[c].verb = "restart" /\ call[c].alone /\ call[c].at # "idle" /\ call'[c].at = "idle"
    /\ listed /\ ~closing /\ failures' = failures

Step(c) == Verb(c) /\ crossed' = ((crossed \/ (verbs' # verbs /\ ~Quiet)) /\ ~Mended(c))

Next == \/ (Close \/ Drain \/ StopHeld) /\ UNCHANGED crossed
        \/ \E c \in Calls : Step(c)

Spec == Init /\ [][Next]_vars

-----------------------------------------------------------------------------
(* Properties.                                                             *)

Handled == {call[c].g : c \in Calls} \ {NONE}

\* No runtime leaks: one whose tasks run is registered, in the hands of a
\* verb or of the shutdown, or was left behind when autostart was aborted
\* (repo_registry.rs: start rolls back, the loser and the late are shut down).
NoneLeaks == alive = ({live} \ {NONE}) \cup Handled \cup held \cup orphans

\* Once shutdown_all has returned nothing is registered any more, and nothing
\* runs when the last start has returned, so that the process can end
\* (repo_registry.rs, closing).
NothingOutlives ==
    phase = "down" => live = NONE /\ (Quiet => alive \subseteq orphans)

\* What the user is told of a repo is so, unless verbs have overlapped; and
\* a restart that ran alone puts right whatever overlaps had left.
TableIsTrue ==
    Quiet /\ ~crossed /\ phase = "up" =>
        /\ running <=> live # NONE
        /\ told <=> running
        /\ status = "Running" <=> running
        /\ running => listed

TypeOK ==
    /\ listed \in BOOLEAN /\ running \in BOOLEAN /\ told \in BOOLEAN /\ closing \in BOOLEAN /\ crossed \in BOOLEAN
    /\ status \in {"Stopped", "Starting", "Running", "Stopping"}
    /\ phase \in {"up", "closing", "drained", "down"} /\ (closing <=> phase # "up")
    /\ verbs \in 0 .. MAX_VERBS /\ failures \in 0 .. MAX_FAILURES
    /\ born \in Nat /\ live \in 0 .. born
    /\ alive \subseteq 1 .. born /\ held \subseteq 1 .. born /\ orphans \subseteq 1 .. born
    /\ call \in [Calls -> [verb : Verbs, at : Stages, g : 0 .. born, alone : BOOLEAN]]
    \* permits are never overdrawn
    /\ Cardinality(Holding) <= PERMITS
=============================================================================
