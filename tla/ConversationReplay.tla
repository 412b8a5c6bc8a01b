------------------------- MODULE ConversationReplay -------------------------
(***************************************************************************)
(* The conversation of one chat session on its way to the screen.  The     *)
(* engine prints the answer in chunks; ClaudeHost folds each line into its *)
(* in-flight tail and broadcasts it, and conversation_pump routes it to    *)
(* whoever subscribes.  A surface that has just subscribed knows nothing:  *)
(* conversation_demand_start replays the transcript and the tail to it.    *)
(*                                                                         *)
(* Chunks are numbered.  The host has committed the first "committed" of   *)
(* them, the transcript holds the first "flushed".  Replays of a session   *)
(* take turns by ReplayFlights; the pump does not wait for them.           *)
(***************************************************************************)
EXTENDS Naturals, Sequences, FiniteSets

CONSTANTS Callers,        \* concurrent demands
          MAX_CHUNKS,     \* bound: chunks the engine prints
          MAX_TURNS,      \* bound: turns
          MAX_OPENED,     \* bound: subscriptions, one after the other
          MAX_ASKED,      \* bound: demands of each kind spawned and not begun
          MAX_STALE,      \* bound: flights judged stale
          MAX_ATTEMPTS,   \* readings of the transcript before the tail is dropped
          MAY_FAIL        \* whether a replay may fail or be cancelled

ASSUME BoundsAssumption ==
    /\ MAX_CHUNKS \in Nat /\ MAX_TURNS \in Nat /\ MAX_OPENED \in Nat /\ MAX_ASKED \in Nat /\ MAX_STALE \in Nat
    /\ MAX_ATTEMPTS \in Nat \ {0} /\ MAY_FAIL \in BOOLEAN

VARIABLES
    on,         \* LanePool.chat_engines has an engine for the session
    active,     \* a turn runs in the engine
    turns,      \* turns begun
    printed, flushed, committed,  \* chunks, in the order of the conversation
    seq,        \* InFlight.seq
    busy,       \* ChatEngineSlot.turn_active
    queue,      \* the host's broadcast, as the pump has yet to read it
    opened, watching,   \* subscriptions made; whether the last one is open
    shown,      \* what the surface shows: the first so many chunks, or GARBLED
    streaming,  \* the surface says "answering"
    full, owner,        \* a replay has reached the surface from its start to its end; whose start came last
    starts, stops,      \* demand tasks spawned and not begun
    flight,     \* ReplayFlights, the session's entry
    call,       \* the demands under way
    stale,      \* history: flights judged stale so far
    failed,     \* history: a replay failed, or was cancelled, since the surface could ask
    crossed,    \* history: the last replay to end was crossed
    slept       \* history: the engine was put to sleep under an open surface

engine  == <<on, active, turns, printed, flushed, committed, seq, busy>>
surface == <<opened, watching, shown, streaming, full, owner>>
demands == <<starts, stops>>
history == <<stale, failed, crossed, slept>>
vars    == <<engine, queue, surface, demands, flight, call, history>>

DONE == 0                        \* TurnCompleted in the queue; a chunk is its number
GARBLED == MAX_CHUNKS + 1        \* something is missing, doubled or out of order
NOBODY == "nobody"

ASSUME CallersAssumption == NOBODY \notin Callers

Blank == [at |-> "idle", from |-> 0, upto |-> 0, seq |-> 0, read |-> 0, tries |-> 0, crossed |-> FALSE]
NoFlight == [there |-> FALSE, rerun |-> FALSE, old |-> FALSE]

Reading == {"transcript", "check"}
Routing == {"start", "body", "end"}
Stages == {"idle", "tail"} \cup Reading \cup Routing
Running == {c \in Callers : call[c].at # "idle"}

\* The replays at these stages are crossed.
Crossing(stages) == [c \in Callers |-> IF call[c].at \in stages THEN [call[c] EXCEPT !.crossed = TRUE] ELSE call[c]]

Init ==
    /\ on = FALSE /\ active = FALSE /\ busy = FALSE /\ seq = 0 /\ turns = 0
    /\ printed = 0 /\ flushed = 0 /\ committed = 0
    /\ queue = <<>>
    /\ opened = 0 /\ watching = FALSE /\ shown = 0 /\ streaming = FALSE /\ full = FALSE /\ owner = NOBODY
    /\ starts = 0 /\ stops = 0
    /\ flight = NoFlight
    /\ call = [c \in Callers |-> Blank]
    /\ stale = 0 /\ failed = FALSE /\ crossed = FALSE /\ slept = FALSE

-----------------------------------------------------------------------------
(* The engine and its host.                                                *)

\* A submit wakes the engine and marks its slot.
Submit ==
    /\ ~active /\ turns < MAX_TURNS
    /\ turns' = turns + 1
    /\ on' = TRUE /\ active' = TRUE /\ busy' = TRUE
    /\ seq' = IF on THEN seq ELSE 1
    /\ UNCHANGED <<printed, flushed, committed, queue, surface, demands, flight, call, history>>

\* A line with a chunk: into the tail, then onto the broadcast.
Chunk ==
    /\ active /\ printed < MAX_CHUNKS /\ flushed = committed
    /\ printed' = printed + 1
    /\ queue' = Append(queue, printed + 1)
    /\ UNCHANGED <<on, active, turns, flushed, committed, seq, busy, surface, demands, flight, call, history>>

\* The message is complete: the engine writes it to the transcript, and the
\* line that says so reaches the host, which drops its tail.
Flush ==
    /\ active /\ flushed < printed
    /\ flushed' = printed
    /\ UNCHANGED <<on, active, turns, printed, committed, seq, busy, queue, surface, demands, flight, call, history>>

Commit ==
    /\ active /\ committed < printed
    /\ committed' = printed /\ seq' = seq + 1
    /\ UNCHANGED <<on, active, turns, printed, flushed, busy, queue, surface, demands, flight, call, history>>

TurnDone ==
    /\ active /\ flushed = printed /\ committed = printed
    /\ active' = FALSE /\ seq' = seq + 1
    /\ queue' = Append(queue, DONE)
    /\ UNCHANGED <<on, turns, printed, flushed, committed, busy, surface, demands, flight, call, history>>

-----------------------------------------------------------------------------
(* The surface folds what reaches it.                                      *)

\* Chunks from + 1 .. upto arrive after what is shown.
Folded(from, upto) == IF from = upto \/ shown = from THEN (IF from = upto THEN shown ELSE upto) ELSE GARBLED

\* The pump takes the next event of the broadcast and routes it; the replays
\* under way are crossed by it.
Route ==
    /\ queue # <<>>
    /\ queue' = Tail(queue)
    /\ busy' = (Head(queue) # DONE)
    /\ IF ~watching THEN UNCHANGED <<shown, streaming>>
       ELSE /\ shown' = IF Head(queue) = DONE THEN shown ELSE Folded(Head(queue) - 1, Head(queue))
            /\ streaming' = (Head(queue) # DONE)
    /\ call' = Crossing(Routing \cup Reading)
    /\ UNCHANGED <<on, active, turns, printed, flushed, committed, seq, opened, watching, full, owner,
                   demands, flight, history>>

\* A surface subscribes, and leaves: each time the hook spawns the demand
\* that fits the number of subscribers.
Open ==
    /\ ~watching /\ opened < MAX_OPENED /\ starts < MAX_ASKED
    /\ opened' = opened + 1 /\ watching' = TRUE
    /\ starts' = starts + 1
    /\ failed' = (failed /\ flight.there) /\ slept' = FALSE /\ crossed' = FALSE
    /\ UNCHANGED <<engine, queue, shown, streaming, full, owner, stops, flight, call, stale>>

Close ==
    /\ watching /\ stops < MAX_ASKED
    /\ watching' = FALSE
    /\ shown' = 0 /\ streaming' = FALSE /\ full' = FALSE /\ owner' = NOBODY
    /\ stops' = stops + 1
    /\ UNCHANGED <<engine, queue, opened, starts, flight, call, history>>

\* The surface asks again: after it has subscribed, and when its pane is shown.
Show ==
    /\ watching /\ starts < MAX_ASKED
    /\ starts' = starts + 1
    /\ UNCHANGED <<engine, queue, surface, stops, flight, call, history>>

-----------------------------------------------------------------------------
(* Sleep.                                                                  *)

\* The periodic sweep finds a lane nobody watches.
Sweep ==
    /\ on /\ ~watching /\ stops < MAX_ASKED
    /\ stops' = stops + 1
    /\ UNCHANGED <<engine, queue, surface, starts, flight, call, history>>

\* conversation_demand_stop, and the sweep: an engine without a turn and long
\* without an event is dropped; whether anybody watches is not asked again.
\* The next engine counts its commits from the start again, so that a replay
\* still reading may take it for the one that is gone: it is crossed.
DemandStop ==
    /\ stops > 0
    /\ stops' = stops - 1
    /\ \/ /\ on /\ ~busy /\ ~active /\ queue = <<>>
          /\ on' = FALSE
          /\ slept' = watching
          /\ call' = Crossing(Reading)
          /\ UNCHANGED <<active, turns, printed, flushed, committed, seq, busy>>
       \/ UNCHANGED <<engine, call, slept>>
    /\ UNCHANGED <<queue, surface, starts, flight, stale, failed, crossed>>

-----------------------------------------------------------------------------
(* conversation_demand_start, for one of the demands c.                    *)

\* Mutant of Joined: nothing is reserved.
JoinedForgotten == flight
\* The demand joins the flight under way, which will run once more.
Joined == [flight EXCEPT !.rerun = TRUE]

\* Mutant of Joins: nobody waits for another.
JoinsNever == FALSE
\* begin_at: a flight older than REPLAY_FLIGHT_STALE is taken over.
Joins == flight.there /\ ~flight.old

\* Mutant of Ensure: only the demand that will replay wakes the engine.
EnsureIfFirst ==
    IF on \/ Joins THEN UNCHANGED <<on, seq, busy>> ELSE on' = TRUE /\ seq' = 1 /\ busy' = TRUE
\* ensure_chat_engine: a slot that is there is left alone; the first event of
\* a new host, SessionInit, moves its count.
Ensure ==
    IF on THEN UNCHANGED <<on, seq, busy>> ELSE on' = TRUE /\ seq' = 1 /\ busy' = TRUE

\* The demand ensures the session's engine, then begins a flight or joins one.
Demand(c) ==
    /\ starts > 0 /\ call[c].at = "idle"
    /\ starts' = starts - 1
    /\ Ensure
    /\ IF Joins
       THEN flight' = Joined /\ UNCHANGED call
       ELSE /\ flight' = [there |-> TRUE, rerun |-> FALSE, old |-> FALSE]
            /\ call' = [call EXCEPT ![c].at = "tail"]
    /\ UNCHANGED <<active, turns, printed, flushed, committed, queue, surface, stops, history>>

\* The flight has lasted longer than that.
Age ==
    /\ flight.there /\ ~flight.old /\ stale < MAX_STALE
    /\ flight' = [flight EXCEPT !.old = TRUE]
    /\ stale' = stale + 1
    /\ UNCHANGED <<engine, queue, surface, demands, call, failed, crossed, slept>>

\* The tail, with the count of the commits it goes with.
ReadTail(c) ==
    /\ call[c].at = "tail"
    /\ call' = [call EXCEPT ![c] = [Blank EXCEPT !.at = "transcript", !.from = committed, !.upto = printed,
                                      !.seq = IF on THEN seq ELSE 0, !.tries = call[c].tries + 1,
                                      !.crossed = queue # <<>>]]
    /\ UNCHANGED <<engine, queue, surface, demands, flight, history>>

ReadTranscript(c) ==
    /\ call[c].at = "transcript"
    /\ call' = [call EXCEPT ![c].at = "check", ![c].read = flushed]
    /\ UNCHANGED <<engine, queue, surface, demands, flight, history>>

\* Mutant of Unmoved: the count is not looked at again.
UnmovedAlways(r) == TRUE
\* Nothing was committed, and no engine replaced, since the tail was read.
Unmoved(r) == r.seq = 0 \/ (on /\ seq = r.seq)

\* The engine has written a message that the host has not yet dropped its
\* tail for (without an engine there is no count to show it).
Ahead(r) == r.read # (IF r.seq = 0 THEN r.from ELSE committed)

\* The tail is joined to the transcript if it still fits, or read again, or
\* given up after MAX_ATTEMPTS.
CheckSeq(c) ==
    LET r == call[c]
    IN  /\ r.at = "check"
        /\ call' = [call EXCEPT ![c] =
              IF Unmoved(r)
              THEN [r EXCEPT !.at = "start", !.seq = 0, !.tries = 0, !.crossed = @ \/ Ahead(r)]
              ELSE IF r.tries < MAX_ATTEMPTS
              THEN [r EXCEPT !.at = "tail"]
              ELSE [Blank EXCEPT !.at = "start", !.from = flushed, !.upto = flushed, !.read = flushed,
                                 !.crossed = TRUE]]
        /\ UNCHANGED <<engine, queue, surface, demands, flight, history>>

\* route_conversation, event by event; another replay's events cross this one.
CrossedBy(c) == [d \in Callers |-> IF d # c /\ call[d].at \in Routing
                                   THEN [call[d] EXCEPT !.crossed = TRUE] ELSE call[d]]

\* ReplayStart: the surface forgets what it showed.
PushStart(c) ==
    /\ call[c].at = "start"
    /\ call' = [CrossedBy(c) EXCEPT ![c].at = "body"]
    /\ IF watching THEN shown' = 0 /\ streaming' = FALSE /\ full' = FALSE /\ owner' = c
                   ELSE UNCHANGED <<shown, streaming, full, owner>>
    /\ UNCHANGED <<engine, queue, opened, watching, demands, flight, history>>

\* The transcript, then the tail.
PushBody(c) ==
    LET r == call[c] IN
    /\ r.at = "body"
    /\ call' = [CrossedBy(c) EXCEPT ![c].at = "end"]
    /\ IF watching /\ r.read + r.upto - r.from > 0
       THEN /\ shown' = IF shown = 0 /\ r.read = r.from THEN r.upto ELSE GARBLED
            /\ streaming' = TRUE
       ELSE UNCHANGED <<shown, streaming>>
    /\ UNCHANGED <<engine, queue, opened, watching, full, owner, demands, flight, history>>

\* Mutant of InFlight: whatever the tail, as a replay of chunks leaves it.
InFlightAlways(r) == TRUE
\* What ReplayEnd declares.
InFlight(r) == r.upto > r.from

Ended == NoFlight

\* ReplayEnd, then finish: once more for those that joined, or the entry
\* goes, whoever made it.
PushEnd(c) ==
    /\ call[c].at = "end"
    /\ IF watching THEN streaming' = InFlight(call[c]) /\ full' = (full \/ owner = c)
                   ELSE UNCHANGED <<streaming, full>>
    /\ crossed' = (watching /\ call[c].crossed)
    /\ IF flight.there /\ flight.rerun
       THEN /\ flight' = [there |-> TRUE, rerun |-> FALSE, old |-> FALSE]
            /\ call' = [CrossedBy(c) EXCEPT ![c] = [Blank EXCEPT !.at = "tail"]]
       ELSE flight' = Ended /\ call' = [CrossedBy(c) EXCEPT ![c] = Blank]
    /\ UNCHANGED <<engine, queue, opened, watching, shown, owner, demands, stale, failed, slept>>

\* The transcript cannot be read: abort, with the reservations of those that joined.
Fail(c) ==
    /\ MAY_FAIL /\ call[c].at = "transcript"
    /\ call' = [call EXCEPT ![c] = Blank]
    /\ flight' = NoFlight
    /\ failed' = TRUE
    /\ UNCHANGED <<engine, queue, surface, demands, stale, crossed, slept>>

\* The task is cancelled, or panics: its entry stays.
Cancel(c) ==
    /\ MAY_FAIL /\ call[c].at # "idle" /\ ~failed
    /\ call' = [call EXCEPT ![c] = Blank]
    /\ failed' = TRUE
    /\ UNCHANGED <<engine, queue, surface, demands, flight, stale, crossed, slept>>

-----------------------------------------------------------------------------
EngineStep == Submit \/ Chunk \/ Flush \/ Commit \/ TurnDone
SurfaceStep == Route \/ Open \/ Close \/ Show \/ Sweep \/ DemandStop \/ Age
Replay(c) == \/ Demand(c) \/ ReadTail(c) \/ ReadTranscript(c) \/ CheckSeq(c)
             \/ PushStart(c) \/ PushBody(c) \/ PushEnd(c) \/ Fail(c) \/ Cancel(c)

Next == EngineStep \/ SurfaceStep \/ \E c \in Callers : Replay(c)

Spec == Init /\ [][Next]_vars

-----------------------------------------------------------------------------
(* Properties.                                                             *)

\* Nothing is under way between the demands and the surface.
Quiet == /\ starts = 0 /\ queue = <<>>
         /\ \A c \in Callers : call[c].at = "idle"

\* Replays of one session take turns (ReplayFlights): no more run at once
\* than flights were judged stale, and one.
OneAtATime == Cardinality(Running) <= 1 + stale

\* A demand that only joined is served all the same: once nothing is under
\* way, the surface has had a replay from its start to its end, unless one
\* failed and took the reservations with it.
EveryDemandServed == Quiet /\ watching /\ ~failed => full

\* The replay and the engine's own events make up the conversation, as the
\* comment of ClaudeHost has it (conversation/host.rs), unless an event of the
\* engine, or another replay, crossed the replay between its reading of the
\* tail and its end, or the engine was dropped while it read.
ExactUnlessCrossed == Quiet /\ ~failed /\ watching /\ full /\ ~crossed => shown = printed

\* A surface does not say "answering" for ever after the turn has ended.
AnswerEnds == Quiet /\ ~failed /\ watching /\ full /\ ~crossed /\ ~active => ~streaming

\* Who watches a session has its engine awake as soon as no demand of his waits
\* to begin, unless a stop spawned before he came was carried out after that.
AwakeWhenWatched == starts = 0 /\ watching /\ ~slept => on

Chunks == 0 .. MAX_CHUNKS

TypeOK ==
    /\ on \in BOOLEAN /\ active \in BOOLEAN /\ busy \in BOOLEAN /\ seq \in Nat /\ turns \in 0 .. MAX_TURNS
    /\ printed \in Chunks /\ flushed \in Chunks /\ committed \in Chunks
    /\ queue \in Seq(Chunks)
    /\ opened \in 0 .. MAX_OPENED /\ watching \in BOOLEAN /\ shown \in Chunks \cup {GARBLED}
    /\ streaming \in BOOLEAN /\ full \in BOOLEAN /\ owner \in Callers \cup {NOBODY}
    /\ starts \in 0 .. MAX_ASKED /\ stops \in 0 .. MAX_ASKED
    /\ flight \in [there : BOOLEAN, rerun : BOOLEAN, old : BOOLEAN]
    /\ call \in [Callers -> [at : Stages, from : Chunks, upto : Chunks, seq : Nat, read : Chunks,
                             tries : 0 .. MAX_ATTEMPTS, crossed : BOOLEAN]]
    /\ stale \in 0 .. MAX_STALE /\ failed \in BOOLEAN /\ crossed \in BOOLEAN /\ slept \in BOOLEAN
=============================================================================
