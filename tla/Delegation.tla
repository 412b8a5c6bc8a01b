------------------------------ MODULE Delegation ------------------------------
(***************************************************************************)
(* Delegations between agents: repo/delegation.rs (the verbs delegate,     *)
(* complete and respond, run in a repo process, and the daemon's reconcile *)
(* loop) over capability/delegation_store.rs (the rows).                   *)
(*                                                                         *)
(* A verb writes its transition, then wakes the agent that must act next,  *)
(* then records whether the wake arrived; the loop turns silent rows into  *)
(* timeouts and wakes again for every row still marked undelivered.  Each  *)
(* of these is an await, so verbs and loop interleave freely.  Rows are    *)
(* never deleted, so the SELECT around each UPDATE is not a step.          *)
(*                                                                         *)
(* `turn` numbers the transitions of a row and `heard` is the set of turns *)
(* whose wake reached its agent: both are history, the rows hold neither.  *)
(***************************************************************************)
EXTENDS Naturals

CONSTANTS
    Ids,         \* delegation ids
    Agents,      \* wire addresses that name a lane
    Calls,       \* verbs that may be in progress at once
    MAX_TURNS    \* bound: transitions of one row, the last one a timeout

ASSUME TurnsAssumption == MAX_TURNS \in Nat \ {0}

VARIABLES
    state, outcome, delivered,  \* the rows
    requester, doer,
    silent,        \* rows whose updated_at is more than TIMEOUT_MS ago
    turn, heard, raced,
    up,            \* agents whose lane runs and answers
    call,          \* verbs in progress
    pc,            \* where the reconcile pulse is
    expired,       \* ids that list_stale_open returned
    work,          \* rows that list_undelivered returned, still to handle
    rung,          \* the one of them that was woken and is not yet marked
    laneView       \* the lane registry as this pulse read it

rows    == <<state, outcome, delivered, requester, doer, silent>>
history == <<turn, heard, raced>>
reconcile == <<pc, expired, work, rung, laneView>>
vars == <<state, outcome, delivered, requester, doer, silent, turn, heard,
          raced, up, call, pc, expired, work, rung, laneView>>

Open == {"active", "awaiting_response"}
States == Open \cup {"none", "done", "failed"}
Outcomes == {"done", "failed", "needsinput"}
Turns == 0 .. MAX_TURNS

\* The wake a verb or the loop owes: which turn of which row, and to whom.
Wakes == [id : Ids, turn : Turns, to : Agents]
Idle == [at |-> "idle"]

TypeOK ==
    /\ state \in [Ids -> States]
    /\ outcome \in [Ids -> Outcomes \cup {"none", "timeout"}]
    /\ delivered \in [Ids -> BOOLEAN]
    /\ requester \in [Ids -> Agents] /\ doer \in [Ids -> Agents]
    /\ silent \subseteq Ids
    /\ turn \in [Ids -> Turns]
    /\ heard \in [Ids -> SUBSET Turns]
    /\ raced \subseteq Ids
    /\ up \subseteq Agents
    /\ call \in [Calls -> [at : {"nudge"}, wake : Wakes] \cup {Idle}
                    \cup [at : {"mark"}, wake : Wakes, woke : BOOLEAN]]
    /\ pc \in {"asleep", "stale", "timeouts", "list", "lanes", "nudge"}
    /\ expired \subseteq Ids
    /\ work \subseteq Wakes
    /\ rung \subseteq work /\ (rung # {} => pc = "nudge")
    /\ laneView \subseteq Agents

Init ==
    /\ state = [d \in Ids |-> "none"]
    /\ outcome = [d \in Ids |-> "none"]
    /\ delivered = [d \in Ids |-> FALSE]
    /\ requester \in [Ids -> Agents]
    /\ doer \in [Ids -> Agents]
    /\ silent = {}
    /\ turn = [d \in Ids |-> 0]
    /\ heard = [d \in Ids |-> {}]
    /\ raced = {}
    /\ up = {}
    /\ call = [k \in Calls |-> Idle]
    /\ pc = "asleep"
    /\ expired = {} /\ work = {} /\ rung = {} /\ laneView = {}

-----------------------------------------------------------------------------
(* The rows.                                                               *)

\* Mutant of NewState: a spelling that DelegationState does not parse.
NewStateCamel(o) == IF o = "needsinput" THEN "awaitingResponse" ELSE o

NewState(o) == IF o = "needsinput" THEN "awaiting_response" ELSE o

\* wake_for: an active row is the doer's to act on, any other the requester's.
Addressee(d, s) == IF s = "active" THEN doer[d] ELSE requester[d]

\* Somebody still holds a wake of row d that it has not recorded.
Unrecorded(d) ==
    \/ \E k \in Calls : call[k] # Idle /\ call[k].wake.id = d
    \/ \E w \in work : w.id = d

\* One UPDATE that moves row d: undelivered again, updated_at refreshed.
Move(d, s, o) ==
    /\ state' = [state EXCEPT ![d] = s]
    /\ outcome' = [outcome EXCEPT ![d] = o]
    /\ delivered' = [delivered EXCEPT ![d] = FALSE]
    /\ silent' = silent \ {d}
    /\ turn' = [turn EXCEPT ![d] = @ + 1]
    /\ raced' = IF Unrecorded(d) THEN raced \cup {d} ELSE raced
    /\ UNCHANGED <<requester, doer, heard>>

\* mark_delivered: by id alone, and it refreshes updated_at as well.
SetDelivered(d, b) ==
    /\ delivered' = [delivered EXCEPT ![d] = b]
    /\ silent' = silent \ {d}
    /\ UNCHANGED <<state, outcome, requester, doer>>

-----------------------------------------------------------------------------
(* The verbs: transition, wake, record.                                    *)

\* The verb goes on to wake the addressee of the turn it has just written.
Proceed(k, d, s) ==
    /\ call[k] = Idle
    /\ turn[d] + 1 < MAX_TURNS
    /\ call' = [call EXCEPT ![k] =
           [at |-> "nudge",
            wake |-> [id |-> d, turn |-> turn[d] + 1, to |-> Addressee(d, s)]]]
    /\ UNCHANGED <<up, reconcile>>

Delegate(k, d) ==
    /\ state[d] = "none"
    /\ Move(d, "active", "none")
    /\ Proceed(k, d, "active")

\* apply_complete: no guard on the state the row is in.
Complete(k, d, o) ==
    /\ state[d] # "none"
    /\ Move(d, NewState(o), o)
    /\ Proceed(k, d, NewState(o))

\* apply_respond: lenient, from any state.
Respond(k, d) ==
    /\ state[d] # "none"
    /\ Move(d, "active", "none")
    /\ Proceed(k, d, "active")

\* nudge_lane: wakes only a lane of the repo process that runs the verb.
Wake(k, woke) ==
    /\ call[k] # Idle /\ call[k].at = "nudge"
    /\ woke => call[k].wake.to \in up
    /\ call' = [call EXCEPT ![k] = [at |-> "mark", wake |-> @.wake, woke |-> woke]]
    /\ heard' = IF woke
                THEN [heard EXCEPT ![call[k].wake.id] = @ \cup {call[k].wake.turn}]
                ELSE heard
    /\ UNCHANGED <<rows, turn, raced, up, reconcile>>

\* Mutant of Result: a wake that was sent is taken for one that arrived.
ResultSent(k) == TRUE

\* The verb records what nudge_lane returned.
Result(k) == call[k].woke

Record(k) ==
    /\ call[k] # Idle /\ call[k].at = "mark"
    /\ SetDelivered(call[k].wake.id, Result(k))
    /\ call' = [call EXCEPT ![k] = Idle]
    /\ UNCHANGED <<history, up, reconcile>>

\* A lost reply, a failed mark (ignored) or a crash of the repo process.
Abandon(k) ==
    /\ call[k] # Idle
    /\ call' = [call EXCEPT ![k] = Idle]
    /\ UNCHANGED <<rows, history, up, reconcile>>

-----------------------------------------------------------------------------
(* The reconcile loop.                                                     *)

Tick ==
    /\ pc = "asleep"
    /\ pc' = "stale"
    /\ UNCHANGED <<rows, history, up, call, expired, work, rung, laneView>>

ListStaleOpen ==
    /\ pc = "stale"
    /\ expired' = {d \in silent : state[d] \in Open}
    /\ pc' = "timeouts"
    /\ UNCHANGED <<rows, history, up, call, work, rung, laneView>>

\* Mutant of CanTimeOut: the guard of the UPDATE is dropped.
CanTimeOutAny(d) == TRUE

\* Mutant of CanTimeOut: only a silent doer is timed out.
CanTimeOutActive(d) == state[d] = "active"

\* The WHERE clause of fail_timeout.
CanTimeOut(d) == state[d] \in Open

\* fail_timeout of one listed row.
FailTimeout(d) ==
    /\ pc = "timeouts" /\ d \in expired
    /\ expired' = expired \ {d}
    /\ IF CanTimeOut(d) THEN Move(d, "failed", "timeout")
       ELSE UNCHANGED <<rows, history>>
    /\ UNCHANGED <<up, call, pc, work, rung, laneView>>

TimeoutsDone ==
    /\ pc = "timeouts" /\ expired = {}
    /\ pc' = "list"
    /\ UNCHANGED <<rows, history, up, call, expired, work, rung, laneView>>

\* Mutant of Listed: rows whose timeout is final are not listed.
ListedOpen(d) == state[d] \in Open /\ ~delivered[d]

Listed(d) == state[d] # "none" /\ ~delivered[d]

ListUndelivered ==
    /\ pc = "list"
    /\ work' = {[id |-> d, turn |-> turn[d], to |-> Addressee(d, state[d])] :
                    d \in {i \in Ids : Listed(i)}}
    /\ pc' = IF work' = {} THEN "asleep" ELSE "lanes"
    /\ UNCHANGED <<rows, history, up, call, expired, rung, laneView>>

ReadLanes ==
    /\ pc = "lanes"
    /\ laneView' = up
    /\ pc' = "nudge"
    /\ UNCHANGED <<rows, history, up, call, expired, work, rung>>

\* forward_to_sp_control succeeded: the wake arrived, the mark is still to do.
Renudge(w) ==
    /\ pc = "nudge" /\ rung = {} /\ w \in work
    /\ w.to \in laneView \cap up
    /\ heard' = [heard EXCEPT ![w.id] = @ \cup {w.turn}]
    /\ rung' = {w}
    /\ UNCHANGED <<rows, turn, raced, up, call, pc, expired, work, laneView>>

\* The mark, whatever the row has become since it was listed.
MarkRung(w) ==
    /\ w \in rung
    /\ SetDelivered(w.id, TRUE)
    /\ work' = work \ {w}
    /\ rung' = {}
    /\ UNCHANGED <<history, up, call, pc, expired, laneView>>

\* No running lane, or the repo answered with an error: the next pulse retries.
PassOver(w) ==
    /\ pc = "nudge" /\ rung = {} /\ w \in work
    /\ w.to \notin laneView \cap up
    /\ work' = work \ {w}
    /\ UNCHANGED <<rows, history, up, call, pc, expired, rung, laneView>>

PulseDone ==
    /\ pc = "nudge" /\ work = {}
    /\ pc' = "asleep"
    /\ UNCHANGED <<rows, history, up, call, expired, work, rung, laneView>>

\* An error of the store leaves the pulse; the next tick starts a new one.
PulseFails ==
    /\ pc \in {"stale", "timeouts", "list"} \/ rung # {}
    /\ pc' = "asleep" /\ expired' = {} /\ work' = {} /\ rung' = {}
    /\ UNCHANGED <<rows, history, up, call, laneView>>

-----------------------------------------------------------------------------
(* The world.                                                              *)

\* TIMEOUT_MS passes without an update of row d.
FallSilent(d) ==
    /\ state[d] # "none" /\ d \notin silent
    /\ silent' = silent \cup {d}
    /\ UNCHANGED <<state, outcome, delivered, requester, doer, history, up,
                   call, reconcile>>

\* A lane starts, or stops running or answering.
LaneChange(a) ==
    /\ up' = IF a \in up THEN up \ {a} ELSE up \cup {a}
    /\ UNCHANGED <<rows, history, call, reconcile>>

\* The daemon restarts: the rows survive, the pulse and the registry do not,
\* and no verb gets an answer.
DaemonRestart ==
    /\ up' = {}
    /\ call' = [k \in Calls |-> Idle]
    /\ pc' = "asleep" /\ expired' = {} /\ work' = {} /\ rung' = {} /\ laneView' = {}
    /\ UNCHANGED <<rows, history>>

-----------------------------------------------------------------------------
Verb(k, d) ==
    Delegate(k, d) \/ Respond(k, d) \/ \E o \in Outcomes : Complete(k, d, o)

CallStep(k) == (\E woke \in BOOLEAN : Wake(k, woke)) \/ Record(k) \/ Abandon(k)

PulseStep ==
    \/ ListStaleOpen \/ TimeoutsDone \/ ListUndelivered \/ ReadLanes \/ PulseDone
    \/ \E d \in Ids : FailTimeout(d)
    \/ \E w \in work : Renudge(w) \/ MarkRung(w) \/ PassOver(w)

Next ==
    \/ \E k \in Calls, d \in Ids : Verb(k, d)
    \/ \E k \in Calls : CallStep(k)
    \/ Tick \/ PulseStep \/ PulseFails
    \/ \E d \in Ids : FallSilent(d)
    \/ \E a \in Agents : LaneChange(a)
    \/ DaemonRestart

Spec == Init /\ [][Next]_vars

\* The loop ticks and runs, silence lasts, and the daemon stays up in the end.
\* A pulse may fail again and again, but not each time it tries the same thing.
Fairness ==
    /\ WF_vars(Tick) /\ WF_vars(PulseStep)
    /\ SF_vars(ListStaleOpen) /\ SF_vars(TimeoutsDone) /\ SF_vars(ListUndelivered)
    /\ \A d \in Ids : /\ SF_vars(FailTimeout(d))
                      /\ WF_vars(FallSilent(d))
                      /\ SF_vars(\E w \in work : w.id = d /\ Renudge(w))
                      /\ SF_vars(\E w \in work : w.id = d /\ MarkRung(w))
    /\ <>[][~DaemonRestart]_vars

FairSpec == Spec /\ Fairness

-----------------------------------------------------------------------------
(* Properties.                                                             *)

\* A row marked delivered was delivered, as the comment of mark_delivered has
\* it (delegation_store.rs): the wake of its last turn arrived, unless a
\* transition raced with a wake of the row not yet recorded.
DeliveredIsHeard ==
    \A d \in Ids : delivered[d] => turn[d] \in heard[d] \/ d \in raced

\* A timeout never replaces an outcome that ends a delegation: the guard of
\* fail_timeout against a complete that came after list_stale_open.
TimeoutSparesResults ==
    [][\A d \in Ids : outcome'[d] = "timeout" /\ outcome[d] # "timeout"
                        => state[d] \in Open]_vars

\* A row still marked undelivered is not forgotten: while its addressee stays
\* reachable, the loop wakes it (reconcile_pulse, step 2).
UndeliveredIsWoken ==
    \A d \in Ids :
        []<>(\/ delivered[d] \/ turn[d] \in heard[d] \/ state[d] = "none"
             \/ Addressee(d, state[d]) \notin up)

\* No requester waits for ever: an open delegation leaves the open states,
\* by a verb or by the timeout (reconcile_pulse, step 1).
OpenEnds == \A d \in Ids : state[d] \in Open ~> state[d] \notin Open
=============================================================================
