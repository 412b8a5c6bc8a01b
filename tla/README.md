# Vantage Point, verified

TLA+ specifications of Vantage Point, the TLC runs that check them on small
instances and the theorems TLAPS proves about them. Paths below are relative to
`crates/vantage-point/src/` unless they say otherwise.

Vantage Point is a workbench for people who work with several coding agents at
once. One daemon per machine holds a *repo runtime* for every open repository; a
repo is divided into *lanes* (a git worktree and the agent sessions in it). A
session is either a terminal (a PTY with an agent CLI in it) or a chat (a headless
engine driven over pipes). Agents talk to each other through the daemon's message
store ("wire") and hand work to each other as delegations. A native app, an MCP
server and a command line talk to the daemon.

1. [Inventory](#1-inventory): the parts, their state, what is hard about them
2. [Modules](#2-modules-and-how-they-correspond-to-the-code)
3. [Runs](#3-runs-bounds-and-fairness)
4. [Proofs](#4-proofs)
5. [What the code says and what it does](#5-where-code-and-comments-disagree)
6. [What is not modelled](#6-what-is-not-modelled)
7. [Plan](#7-plan)

To check everything: `tlc -config X.cfg M` for each row of the table in section 3,
and `tlapm M.tla` for each `*Proofs` module.

## 1. Inventory

How the parts hang together:

```
 vp-app (GUI) ── Unison ──┐                    ┌── repo runtime A ── lane pool ── PTY slots
 vp (CLI) ── Unison ──────┤── daemon (:32000) ─┤                              └─ chat engines (Claude, Codex, ACP ...)
 MCP server ── Unison ────┘     │              └── repo runtime B ...
                                ├── wire store, ack ledger ── delivery actor ──┐
                                ├── delegation rows ── reconcile loop ─────────┤ forward to the
                                └── host ledger, board, registry (SurrealDB)   │ control channel
                                                                               └ of a repo runtime
```

Everything in the daemon is a tokio task. State is shared behind short locks,
through the database (every query is an await), and through `Notify` permits and
broadcast channels. What is hard is therefore almost always the same shape: a value
is read, an await lets somebody else run, and the value is used. The full list, at
the lines where it bites, is `hazards` in `PROJECT.json`; this section says which
hazards belong to which part.

| part | state it keeps | operations | what is hard | what makes it correct |
|---|---|---|---|---|
| **wire store** (`capability/wiremsg_store.rs`, `daemon/wire_ops.rs`) | messages with a daemon-wide `local_seq`, one read cursor per agent, ack rows, "left" rows; in memory the counter and the waiters of long polls | send, reply, receive (long poll), ack, leave threads, unread counts | the number is claimed before the row commits; receives of one agent overlap; notifications keep no permit; restart restores the counter; addresses have several spellings | numbers unique, cursor never ahead or back, nothing skipped in other ways than the one known, no lost wake-up, a command stays owed until acked |
| **delivery actor** (`repo/delivery_actor.rs`) | in memory: attempts per (command, recipient) for nudges and headless dispatches | a pulse every 30 s or when woken | views taken once per pulse and used over many awaits; ledger GC; failed forwards | bounded ringing, no lost attempt |
| **delegation** (`repo/delegation.rs`, `capability/delegation_store.rs`) | rows: state, outcome, delivered, updated_at | delegate, complete, respond; a loop that times out and re-nudges | the row is moved, then the wake sent, then its arrival recorded, each an await of a different actor | a recorded wake was heard; timeouts do not replace results; nothing stays open for ever |
| **Codex host** (`conversation/codex_*.rs`) | copy of the server's turn and native queue, own queue of waiting prompts, flags | submit, interrupt, edit the native queue, change settings, answer questions, refresh | two pipes, one mutex never held across an await, replies with deadlines, paginated refresh racing edits, connection loss | fresh view = server's queue, nothing sent twice, prompts wait for settings, nobody hangs |
| **lanes** (`lane/session_registry.rs`, `repo/lane/pool.rs`, `repo/lane/reconcile.rs`) | on disk the sessions of a lane with mode, root and focus; in memory the PTY slots and engines | create, remove, switch, focus, set mode, restart, reset, delete; reconcile; dead-child detection; idle sweep | spawns of 800 ms outside every lock, several verbs at once, dying children | one process per session, processes match intent, siblings untouched |
| **conversation replay and pump** (`repo/conversation_replay.rs`, `repo/conversation_pump.rs`, `conversation/host.rs`) | the uncommitted tail of a running answer with a count of commits, the transcript file, one replay flight per session | subscribe, leave, ask again, replay, pump events, put the engine to sleep | transcript and tail are read at different moments while chunks flow; a flight is taken over after 30 s; the pump does not wait for a replay | a demand that only joined a flight is served; a replay nobody crossed is exact; "answering" ends |
| **topic router, terminal pump** (`repo/topic_router.rs`, `repo/retained.rs`, `repo/terminal_pump.rs`) | subscriptions, retained values, demand counts; the pumps on record; the replay buffer of a terminal | subscribe, publish, unsubscribe, reconcile of the pumps | the reconcile reads three things and writes a fourth under four locks, and its calls overlap; slots change meanwhile | a pump on every live slot iff somebody subscribes, none that nobody can abort, screens whole |
| **farewell and host ledger** (`host/farewell.rs`, `host/liveness.rs`, `host/ledger.rs`) | facts about merged lanes; origin pointers and observations | survey, judge, reclaim, record | facts may be stale when the worktree is removed; fold is read-then-write | no unmerged or live work removed |
| **board** (`repo/board.rs`, `db/board.rs`) | items, capacity, cursor | add, edit, move, remove | concurrent edits | capacity and order kept |
| **repo runtimes** (`repo/server.rs`, `repo/state.rs`, `repo/repo_registry.rs`, `capability/repo_manager_capability.rs`, `capability/actor_registry.rs`) | the registered runtime and its tasks; what the user is told: registered, status, running, presence | start, stop, restart, remove, add, autostart; the end of the daemon | verbs are tasks of their own and hold no lock from their check to their effect; `start_repo` runs between two looks at the map; autostart is aborted after 2 s | no runtime leaks or outlives the daemon; what the user is told is so |
| **daemon** (`daemon/server.rs`, `daemon/process.rs`) | lane registry, event log, channels, a router per repo for the app's subscriptions | route, forward, retire; wire a subscription | a surface subscribes while the repo it is about starts, stops or starts again | whoever subscribed hears the repo that runs |
| **federation, editor link** (`daemon/hub_client.rs`, `daemon/dialer.rs`, `daemon/link.rs`) | peers, the active surface | dial, relay, pass values | races of dials | one connection per peer |
| **other engines** (`conversation/acp_*.rs`, `vpcode_host.rs`) | as the Codex host, with less | submit, interrupt, settings | as above | as above |
| **app** (`crates/vp-app`) | what the daemon published | event loop, reconnection | catch-up after a reconnect | shows the daemon's state |
| **nexus** (`crates/vp-nexus`) | versioned personal settings | get, put with version | concurrent machines | no lost update |
| **CLI, MCP, devices, creo, config, screenshots, paths** | little or none | translation and I/O | | |

`components` in `PROJECT.json` refines this table to every part of the source tree,
with its files and its status.

## 2. Modules, and how they correspond to the code

| module | models | written against |
|---|---|---|
| `CommandLedger` | what the store promises about commands: stored, owed, settled, departed | (abstract) |
| `WireStore` | the message store and its request handlers | implements `CommandLedger` |
| `WireDelivery` | the delivery actor | runs on `CommandLedger` |
| `Delegation` | the verbs, the rows and the reconcile loop | |
| `CodexHost` | the conversation host and the app-server as the host uses it | |
| `LaneReconcile` | registry, pool and `reconcile_lane` of one lane | |
| `TerminalPump` | the consoles of a lane on their way to the screen: router, pumps, replay | |
| `ConversationReplay` | a chat session on its way to the screen: host, pump, replay flights, sleep | |
| `RepoRegistry` | starting, stopping, removing one repo; the end of the daemon | |
| `CanvasRouters` | the surfaces that listen to a repo, over the verbs of `RepoRegistry` | implements `RepoRegistry` |
| `MC*` | spellings, recipients, symmetry, initial rows for TLC | |
| `*Proofs` | theorems (section 4) | |

The modules share conventions. An action is what the code does between two awaits
(or under one lock); an await is a place where other actions happen. A task's
program counter and its locals are variables (`phase`, `rpc`, `call`, `pc`, `op`,
`task`). A database query is one atomic action which may fail where the code handles
the failure. `history` variables (named in each module) are written and never read
by the actions. Operators marked *Mutant* state a plausible bug and are used by
nothing; `PROJECT.json` says which definition each one stands in for.

### WireStore

A message is identified with the send request that creates it. `phase[m]` is that
request: `NewRoot`/`NewReply` canonicalise the addresses (`normalize_wire_addr` is
the constant `Canon`) and expand a reply's recipients; `ClaimSeq` is
`fetch_add(1)`; `Insert` the CREATE; `Announce` the `notify_waiters` after it.
`rpc[r]` is a `wire_recv` request: `RecvCall` and `WakeUp` make the `Notified`
future, `ReadCursor`, `FetchSome`/`FetchNone` and `Advance` are the three queries of
`recv`, `Sleep` and `TimeOut` the `select!`. `Advance` uses the UPSERT's own
comparison (`Forward`). `LeaveSelect` and `LeaveRow` are `leave_all_threads`, which
awaits between rows. `Restart` keeps the tables and nothing else and restores the
counter from the highest stored number, as `WiremsgStore::new` does.

The duplicate `wire_acks` rows that ack's SELECT-then-CREATE can leave are one
element of a set, because every reader of that table reads it as a set.

### CommandLedger and WireDelivery

`CommandLedger` says that a stored command is owed by some of its recipients and
that only an ack of that recipient, or its leaving, settles it: reading, cursors,
failures and restarts do not appear. `LedgerSpec` in `WireStore` maps
`posted` to the stored commands and `owed` to what `unacked_commands` computes.

`WireDelivery` keeps these two variables and steps them with the ledger's own
actions, so what it shows holds of the real store by the refinement. Its pulse is
`Rouse` (tick or permit), `Query` (the store, then the GC of both ledgers),
`ReadLanes`, `Poll` (`poll_cc_activity`, which may degrade to "unknown") and one
action for each pair with each of the outcomes of `pulse`: `NudgePair` (terminal or
chat), `NudgeFails`, `DispatchPair` (headless engine), `SkipPair`. Lanes, modes,
engines and control channels change between any two of these. Time is abstract:
`rested` says that the re-nudge interval has elapsed.

### Delegation

The rows are functions from ids. `Delegate`, `Complete`, `Respond` are the store's
UPDATE plus the choice of whom to wake; `Wake` and `Record` are the two awaits that
follow, `Abandon` their loss. The pulse is `ListStaleOpen`, `FailTimeout` per row,
`ListUndelivered`, `ReadLanes`, then per row `Renudge` and `MarkRung`, or
`PassOver`. `PulseFails` is the `?` that leaves a pulse at a store error. `silent`
stands for "updated_at older than TIMEOUT_MS": every write of a row refreshes it, a
mark included. `turn` numbers the transitions of a row and `heard` collects the
turns whose wake arrived; rows hold neither, which is the point of the properties.
`raced` marks rows moved while somebody still held an unrecorded wake.

### CodexHost

The host, four kinds of task and the app-server. The server is external; it is
modelled by what the host's requests and its notification handlers expect of it
(it may accept or refuse, one turn at a time, pages of a queue, replies in the order
it wrote them). `asks` is a set because requests are written after the mutex is
released; `out` is a sequence because one pipe carries it.

* `Worker*`: `refresh` and its single worker with the dirty/refreshing flags and
  pages; `Refresh` is the locked part every caller of `refresh()` runs.
* `Control`, `ControlRefresh`, `ChangeSettings`, `SendSettings`, `Op*`: `control()`,
  `change_mode` and the permission menu; `queue_busy` brackets them.
* `Submit`, `Drain`, `Interrupt`, `Answer*`, `Dismiss`: the conversation.
* `AdoptThread` ... `AnswerReply`, `ReaderRefresh`: the reader; after each line it
  may drain the queue and refresh, in locks of their own, so these are steps of
  their own (`reader` says which is next).
* `RetireBrokenWriter`, `StdoutCloses`, `Stop`: the ends of a connection. `dead` is
  the flag that rejects new work, `cut` says that the waiters were dropped.

`Init` covers both a new thread and the resumption of one whose turn is running and
whose queue is not empty. Entries of the server's queue have identities and occur once;
`Without` is the queue from which the server has taken one.

### LaneReconcile

`mode`, `root`, `focused`, `next` are the registry file of one lane; its mutations
are serialised by the registry's mutex, and made under the pool's read lock, so each
verb is one action that writes the registry and leaves its caller about to
reconcile. `reconcile_lane` is `Plan` (read lock), `Spawn` once per missing console
(no lock, ≥ 800 ms; the command, and with it the conversation to resume, is built
first), `Apply` (write lock; every decision made again by the present registry) and
`After` (what the verb does next: the engine of a gui session, or `converge_lane`'s
retry). `Ensure` is `ensure_chat_engine`: a gui session with no slot; it is also
reached by submits, nudges and views (`Demand`) and by a swap of the engine
(`Swap`). `Teardown` is the idle sweep, `ConsoleExits` and `Detect` a dying child and
`detect_and_mark_dead`.

`epoch` counts the Resets, and a console remembers the epoch its command was built
in: with that, "which conversation does this console resume" needs no conversation
ids. `down` is history: the last attempt to start the session failed, or its console
exited since.

Two details of the code are easy to miss: `ensure_chat_engine` sets
the lane's state when the session is the *focused* one, although elsewhere the state
derives from the root; hence the second half of `StateIsTrue`. And a restart of a
gui root starts the engine of the focused session, which may be another.

### TerminalPump

`slot`, `nextPid` and `out` are the pool's PTY slots; `view` the subscriptions
of the lane's terminal topic, numbered by the router's `next_id`; `table` and `pumps`
the pumps on record (`terminal_pumps`) and the tasks that run, which are not the same
thing. `Spawned` is what every change of the subscriptions and every verb that changes
a slot ends in: a task that will call `reconcile_lane_pumps`. A call is five actions,
one for each lock: `ReadDemand` (who subscribes, and the epoch, which is the newest
subscription), `ReadPumps`, `Attach` (slots and snapshots), `Apply` (the table), and
`Abort`, which stops what was taken out after the lock was released. `ScriptReady` is
`catch_up.rs`: a surface whose script has loaded asks for a replay of all
slots (`forced`). A pump is `Replay` (clear, then what was printed), `Forward` per
chunk, and `SlotClosed`.

`screen` follows what the terminal of a watched view shows of each session: of which
process, up to which chunk, and whether anything is missing. A repeated chunk takes
nothing away, a lost one does. `disturbed` is history: the sessions on whose screens a
pump other than the one on record (`Own`) may have written since that one replayed; it
replayed itself, or what it forwarded was ahead (`Ahead`).

### ConversationReplay

Chunks of the conversation are numbered; `printed`, `flushed`, `committed` say how many
the engine has produced, written to the transcript, and moved out of the host's
in-flight tail. `queue` is the host's broadcast as `conversation_pump` has yet to read
it, `Route` one event of it. A demand is `Demand` (ensure the engine, begin or join a
flight), `ReadTail`, `ReadTranscript`, `CheckSeq` (`replay_with_in_flight`: the tail is
kept if the count has not moved, else read again, else dropped after `MAX_ATTEMPTS`),
`PushStart`, `PushBody`, `PushEnd` (with `finish`: once more for those that joined).
`Age` is a flight that has lasted over `REPLAY_FLIGHT_STALE`; `Fail` and `Cancel` are an
unreadable transcript and a task that dies, which leave the flight differently. `Sweep`
and `DemandStop` put an idle engine to sleep; the in-flight tail goes with the host, so
a replay that is still reading has been crossed. `Folded` is the surface: a chunk that
does not follow what it shows garbles it.

### RepoRegistry and CanvasRouters

`RepoRegistry` keeps two views of one repo apart: `listed`, `status`, `running`, `told`
of `RepoManagerCapability`, and `live`, `alive` of `RepoRuntimes`. A start is `Check`,
`Permit` (the semaphore), `Enter` (`start_repo` begins), `StartFails` or `Insert` (the
second look, under the write lock), `Discard` for the loser and the late, `Record`,
`Tell`. A stop is `Find`, `Take`, `Halt`, `Unrecord`, `Untell`; a restart is both, the
second half whatever became of the first. `Close`, `Drain`, `StopHeld` and `Abort` are
the end of the daemon, with starts still under way.

`CanvasRouters` adds the daemon's router per repo. Each step of the registry takes the
routers along (`Carried`: a new runtime adopts the placeholder if there is one, and
its bridges fall with it); `Bridge` is `bridge_orphan_placeholder`, after the
insertion; `Ask` and `Wire` are `canvas_router_for`, which looks for the runtime and,
later and under another lock, for the entry. As `RegistryBelow` proves, it adds
nothing to and takes nothing from what the registry may do.

## 3. Runs, bounds and fairness

| run | module, cfg | properties | instance | states |
|---|---|---|---|---:|
| wire_inbox | `MCWireStore`, `WireInbox` | `SeqNamesOneRow`, `CursorWithinSeq`, `SkippedOnlyIfOvertaken`, `CursorNeverBack` | 3 sends or replies to one agent, 2 overlapping receives of it | 526 631 |
| wire_service | `MCWireStore`, `WireService` | `TypeOK`, `NoLostWakeUp`, `LedgerSpec` | 2 commands to two agents, one under its second spelling; 1 reader, acks, one lane deleted | 277 232 |
| wire_overtaken | `MCWireStore`, `WireOvertaken` | `NothingSkipped` (violated) | 2 sends, 1 receive | stops |
| delivery | `WireDelivery`, `Delivery` | `TypeOK`, `RingingIsBounded`, `RungUntilExhausted`, `DispatchedUntilExhausted` | 1 command, 1 lane, 1 recipient that is no lane, caps 2 and 1 | 377 352 |
| delegation_races | `MCDelegation`, `DelegationRaces` | `TypeOK`, `DeliveredIsHeard`, `TimeoutSparesResults` | 1 row, 2 verbs at once, 4 transitions | 961 364 |
| delegation_live | `MCDelegation`, `DelegationLive` | `UndeliveredIsWoken`, `OpenEnds` | 1 row, 1 verb at once, 3 transitions | 64 972 |
| codex_view | `CodexHost`, `CodexView` | `ViewIsCurrent` | 2 queue entries, pages of 1 and at most 2 of them, 1 user operation, 1 change by others, 1 lost reply | 1 350 473 |
| codex_prompts | `CodexHost`, `CodexPrompts` | `NeverResent`, `PromptsWaitForSettings`, `OnlyRefusalStrands`, `ComesToRest`, `NobodyHangs` | 1 prompt, 1 question, 1 user operation, 1 turn | 218 107 |
| lane | `LaneReconcile`, `Lane` | `OneEngine`, `Settled`, `StateIsTrue`, `SiblingsSpared`, `OnlyOverlapRevives` | 2 concurrent verbs, 3 session keys, 1 fault, 2 attempts | 1 234 942 |
| pump | `MCTerminalPump`, `Pump` | `ConvergesInOrder`, `NoStrayPump`, `ScreenIsWhole` | 1 session, 2 processes that print 0 and up to 3 chunks, 2 overlapping calls, 2 subscriptions of which the second is followed | 3 917 402 |
| replay | `MCConversationReplay`, `Replay` | `OneAtATime`, `EveryDemandServed`, `ExactUnlessCrossed`, `AnswerEnds`, `AwakeWhenWatched` | 2 demands at once, 1 turn of 1 chunk, 2 subscriptions, 1 stale flight, 2 attempts, failures | 2 677 614 |
| canvas | `MCCanvasRouters`, `Canvas` | `NoneLeaks`, `NothingOutlives`, `TableIsTrue`, `HearsUnlessLeft`, `Hooked` | 2 verbs at once and 3 in all, 2 permits, 1 failed start, 2 surfaces, 2 subscriptions | 2 255 616 |

**wire_inbox** shows that numbers stay unique across failed inserts and restarts
(where claimed numbers are handed out again), that no cursor runs ahead of the
counter or back, and that a cursor skips nothing but overtaken rows. Overtaking
needs two sends; the third lets a restart or a second overtaking come between. Two
receives are the smallest number that overlap. `Msgs` and `Readers` are symmetric
(no liveness is checked in this run). **wire_service** is about commands: that the
store implements `CommandLedger` and that a sleeper with mail is woken under either
spelling of its address. The sender receives nothing, which keeps replies from
multiplying the states without adding a recipient of another kind. Fairness: a
stored row is announced, a fired future is polled (`WF`); both are the runtime
polling a ready task. Deadlines get no fairness, so that a time-out cannot hide a
lost wake-up. Both wire runs include `Restart` and failing queries at any point.

**delivery**: ledgers are keyed by pairs and pairs share nothing but the pulse, so one
pair of each kind (a lane, a recipient that is none) shows every path; the cap 2 for
nudges lets a ring be neither the first nor the last. Restarts reset the ledgers and
the counts together: the cap is per run of the daemon, as in the code.
Fairness: the pulse runs (`WF PulseStep`: the 30 s tick), a poll of the activity
does not degrade for ever (`SF`), intervals elapse (`WF`). The liveness properties
speak of a recipient that *stays* reachable and *stays* in debt, so that nothing is
assumed of lanes, users or the network.

**delegation_races**: rows are independent but for the pulse; one row with two verbs
and the loop gives three writers of the same row. Four transitions let the loop's
timeout fall between any two of a verb's. **delegation_live**: the loop's tick and
steps are fair, store errors do not hit the same read or the same row's step every
time (`SF`), time passes, and the daemon eventually stays up (nothing can be
promised to a requester if it never does). The bound on transitions leaves room for
the timeout always, and verbs have no fairness, so "it ends because the bound stopped
it" is excluded.

**codex_view**: the view is read in pages and a page can be stale by the time the next
arrives, so two entries on pages of one are needed, with a page limit that a queue of
two exactly meets. The instance includes another client, the server running its own
queue, a lost reply and every way the connection ends. **codex_prompts** checks the
conversation and, with fairness of the tasks, the reader and the server's answering
of requests, that the host comes to rest. No turn has to end and no deadline has to
pass. `dead` implies that the output closes (the process is killed), which is the
only fairness about failure. Deadlock checking is off in the Codex configurations:
with the bounds exhausted and the connection closed, the host has nothing to do.

**lane**: two verbs overlap with any of failed spawn, exited console, delete and daemon
restart. Three keys are a root, a sibling and a session created meanwhile. The
initial registries are a single session and one short of the bound, in any mode.
`OnlyOverlapRevives` needs a Reset between another verb's `Spawn` and its `Apply`,
which two verbs give.

**pump**: a slot that is replaced while two calls hold readings of different moments is
where pumps get lost or doubled; a second subscription makes the epoch change and lets
the last of them leave while a call is on its way. One session is enough for these,
since calls of one lane treat its sessions alike and share nothing between them but the
moment of the reading. Three chunks are what it takes for a pump that is about to be
aborted to print one after the new pump's replay while the new one has yet to print the
one before. The first process prints nothing, which keeps the run under five minutes; it
was checked once with a chunk of its own (5 472 445 states), and `WholeScreens` is
proved for any output of any processes.

**replay**: a chunk is in the tail, on the broadcast, in the transcript, or in two of
these, and the run has every such moment against every step of a replay, a second
demand that joins it or takes it over when stale, and the surface leaving and
another coming. With one subscription, two chunks have been checked as well (9.5
million states, nothing found, too long to keep as a run).

**canvas**: two verbs overlap with the end of the daemon and with autostart; the third
verb lets a stop or a restart follow what two left behind. Of two surfaces one can be
there before the start and the other come during it. Two permits let two starts run
at once; that no more do is part of `TypeOK` of `RepoRegistry`, which is proved.

No fairness is stated in the last three runs, which check safety only. Deadlock
checking is off in them, as every counter is bounded and a model with all of them
spent and nothing under way stops. Every run ends within five minutes on two workers.

Bounds that are not the code's: `MAX_TURNS`, `MAX_KEY`, `MAX_VERBS`, `MAX_FAULTS`,
`MAX_NEWS`, `MAX_LOST`, `MAX_VIEWS`, `MAX_PIDS`, `MAX_OUT`, `MAX_ASKED`, `Handles`,
`MAX_CHUNKS`, `MAX_OPENED`, `MAX_STALE`, `MAX_FAILURES`, `MAX_ASKS` and the finite
`Msgs`. `MAX_NUDGES`, `MAX_BG_DISPATCHES`, `ATTEMPTS`, `PAGE`, `MAX_PAGES`,
`MAX_ATTEMPTS` and `PERMITS` are constants of the code, made small.

Every property of a passing run has a mutant in `PROJECT.json`: a version of one
definition with a plausible mistake, under which TLC finds the property violated in
the same configuration.

## 4. Proofs

TLC says these properties hold on the instances above; TLAPS proves the following for
every value of the constants allowed by the assumptions in the modules
(`AddressAssumption`, `MessageAssumption`, `BoundAssumption`, `TurnsAssumption`,
`BoundsAssumption`, `KindsAssumption`, `HandlesAssumption`, `AsksAssumption`,
`CallersAssumption`). With them every invariant, every action property and every
refinement that the passing runs check is proved; what is left to TLC alone is liveness.

**WireStoreProofs.** `TypeCorrect`, `SeqUnique`, `CursorBehindCounter`,
`OnlyOvertakenSkipped`, `CursorMonotone` and `StoreImplementsLedger`. The inductive
invariant `IInv` is `TypeOK`, `SeqInv`, `CursorInv`, `BaseInv`, `BatchInv` and
`SkippedOnlyIfOvertaken`. The property alone is not inductive: that the cursor passes
only what was returned depends on what a receive in progress knows. `BaseInv` says
that the cursor value a receive started from is not ahead of the cursor now, and
`BatchInv` that everything stored between that value and the batch's highest number is
in the batch or was overtaken. `SeqInv` ties numbers to the requests that hold them and to
the counter, including across the restart that lowers the counter to the highest
stored number; the counter may be lowered because of `CursorInv`: a cursor stands on
a stored row, never on a number whose row was lost.
The refinement theorem maps every step to a ledger step or a stutter; only the
insertion of a command, an ack and a `LeaveRow` are not stutters.

**WireDeliveryProofs.** `TypeCorrect` and `RingingBounded`. `CountsAgree` is the
strengthening: while a pair is owed, or the pulse still holds it, its ledger entry
*is* the number of times it was rung, so the ledger's cap is a cap on rings. It holds because the GC drops only
pairs the store no longer lists, and, by `CommandLedger`, a settled pair is never
owed again.

**DelegationProofs.** `TypeCorrect`, `DeliveredHeard`, `ResultsSpared`. `IInv` adds
`RoomForTimeout` (verbs leave the last turn to the timeout, which types `turn`) and
`Held` (a wake somebody holds is for the row's present turn unless the row was raced,
and one that will be recorded as arrived was heard).

**CodexHostProofs.** `SettingsBeforePrompts`, `RefusalAloneStrands`, `NothingResent` and
`FreshView`. The first needs `PInv`: `OneHolder` (a working operation holds
`queue_busy`, and only one does) and `NoneWaits` (while settings are being changed no
prompt waits). The second is an action property proved by cases over `Next`.
`NothingResent` adds `NInv`: a prompt waits once, after it was given and before it is
written (`WaitsOnce`), and an answer may be tried only while none counts as written
(`TriedOnce`).

`FreshView` is about a view that is assembled page by page while the queue moves. `VInv`
says, while the connection lasts: the worker waits for one page at a time, asked for or
on its way (`OnePage`); and as long as nothing has marked the pass dirty and no news of
the queue is unread, what it has read is the beginning of the server's queue, and the
page on its way is what follows (`PassOK`). The server announces a change before it
answers anything later, and the pipe keeps that order: this is why a pass that ends
clean has read one queue.

**LaneReconcileProofs.** `LawOfThePool`, `ReconcileSettles`, `StateTold`,
`ConsolesSpared`, `OverlapAloneRevives`, `SomebodyIsAddressed`. `IInv` relates the
processes to the registry in the middle of any number of verbs: `NoStray` (a slot or an
engine that the registry does not want is there only while some caller has an `Apply`
ahead of it), `Covered` (a tui session without a slot is on a caller's list, or is
down), `StateBorneOut`, and the typing of callers and registry. Every console taken down
is then traced to its cause, which is `SiblingsSpared`. `OverlapAloneRevives` needs
`BuiltOK`: no caller holds a console of an epoch to come, so one that is not of the
present epoch is of an earlier. `SomebodyIsAddressed` is about the registry alone: root
and focus are sessions of the lane, and the next key is nobody's. `Remove` moves the
focus to the least remaining key, which exists since `<` is well-founded on the naturals
(`WFMin`).

**TerminalPumpProofs.** `Types`, `NoStray`, `Convergence`, `WholeScreens`. `NoStrayPump`
holds at every moment of a pump's life and `ConvergesInOrder` when no call is under way;
neither is inductive. `IInv` adds `TableOK` and `PumpsOK` (who has which identity),
`CallsOK` and `AttachOK` (what a call under way may hold), and the heart of it,
`ReadingHolds`: what a call has read that nobody applied over is still so, unless a
further call is to come. Convergence then is a hand-over: either the call that applies
last has a reading that holds, or another call follows it.

`WholeScreens` adds `SInv`: each pump on record (`RecordsOK`), and each reading that is
to be applied (`EntriesOK`), has the screens that rely on it in step with what it has
sent, or something that is still to come will replay: a forced replay, or what another
call attaches. The epochs tie calls to screens (`EpochsMade`, `EpochReads`,
`EpochServed`): a pump on record under the newest subscription's epoch serves it.

**ConversationReplayProofs.** `Types`, `TakingTurns`, `Awake`, `DemandsServed`,
`ReplayExact`, `Answered`. The first four need only who holds the flight, who has joined
it, and which demands are where. `ReplayExact` and `Answered` need `XInv`, which follows
the chunks from the engine to the surface: what the engine has printed is what a replay
that nobody crossed has in hand, and then what is still on the broadcast, in order
(`ReplaysOK`, where the count of commits dates the tail), and so it is with what the
surface shows between two replays (`ShownOK`); `QueueOK` and `EngineOK` say that the end
of a turn is the last that is on the broadcast, and that nothing is left unwritten after
it.

**RepoRuntimesProofs** is about `RepoRegistry` and `CanvasRouters`: `Types`, `NoLeak`,
`ShutdownComplete`, `TableTrue`, `RegistryBelow`, `AlwaysHooked`, `Heard`. `IInv` adds
`HandsOK` (no two verbs hold one runtime, and which stage holds one) and `PlacesOK` (the
registered, held and abandoned runtimes are distinct). Of the runtimes, every step of a
verb does one of six things (nothing, spawn, drop, register, unregister, abandon), so
the invariant is proved for these six and not for each of the verbs' steps again.
`TableTrue` needs `TInv`: unless verbs have crossed, one at most is under way
(`AloneOK`), and at each of its stages the table is off by what the stages ahead of it
will put right (`ToldOK`, with `Progress`).

`RegistryBelow` is the refinement `CSpec => Spec`, so the theorems about the registry
hold with surfaces and bridges as well; `AlwaysHooked` is `Hooked`, by `HInv` (an entry
of the map always has its hooks). `Heard` needs `WInv`: a start that has yet to build
its bridge has registered its runtime and not gone on (`AtBridge`), and a surface that
was not left behind is where the next start looks for it, or hears the runtime there is,
or is about to (`ReachedOK`).

**Only model-checked.** Liveness (`NoLostWakeUp`, `RungUntilExhausted`,
`DispatchedUntilExhausted`, `UndeliveredIsWoken`, `OpenEnds`, `ComesToRest`,
`NobodyHangs`): the prover has no support for ENABLED and fairness.

The types of `TerminalPump`, `ConversationReplay` and `RepoRegistry` (`TypeOK`, theorems
`Types`) are proved and not run. `LaneReconcile` and `CodexHost` have no `TypeOK`: what
their theorems need of types is part of their invariants.

## 5. Where code and comments disagree

One of these is a run of its own, whose property is what the source says and whose
counterexample is what the code does:

* **wire_overtaken** (`capability/wiremsg_store.rs:839`). Send A claims 1, send B
  claims 2, B commits, a receive returns B and moves the cursor to 2, A commits: A is
  never returned. The comment at 411–412 says that nothing is dropped since numbers
  are strictly monotone; they are, but commits are not. `SkippedOnlyIfOvertaken`
  (proved) says that this is the only way.

The others are in the models just the same. For each of them a property of a passing
run says exactly when the source's sentence fails; it would be violated without its
exception.

* **Delegation** (`capability/delegation_store.rs:173`). `mark_delivered` records the
  wake of an earlier turn on a row that has moved on. The flag, whose comment (168) says
  that the waking notice was delivered, then says so of a notice nobody got, and the row
  is not re-nudged. `DeliveredIsHeard` (proved): only this overlap does it.
* **Codex host** (`conversation/codex_host.rs:1626`). The refusal of an answer that
  had started a turn makes the host idle without draining its queue; the design
  (`docs/design/69-codex-chat-conception.md:69`) sends waiting prompts when the turn
  ends. `OnlyRefusalStrands` (proved): no other path leaves them.
* **Lanes** (`repo/lane/reconcile.rs:217`). A console whose command was built before a
  Reset is inserted after it, since the new session has the same key; the root then
  resumes the conversation that Reset (`repo/lane/pool.rs:704`) was to throw away.
  `OnlyOverlapRevives` (proved): only a Reset between a verb's spawn and its apply.
* **Terminal pump** (`repo/terminal_pump.rs:193`). Overlapping reconciles are said to
  converge to one pump since the reconcile is idempotent. Each is, from its own
  reading: a call that read "nobody subscribes", applied after one that saw the new
  subscriber, takes the pump away, and nothing else is under way to put it back.
  `ConvergesInOrder` (proved): only a call applied over by another, and last, does it.
* **Terminal pump** (`repo/terminal_pump.rs:58`). The comment on `spawn_lane_terminal_pump`
  says that nothing is lost or doubled, as snapshot and receiver are taken together. Of
  one pump that is so, but a pump that is being replaced runs until it is aborted: what it
  prints between the replay of the new one and its own end comes twice, or ahead of
  what belongs before it. `ScreenIsWhole` (proved): but for that, and for a reading
  applied over by another, a screen shows all its slot printed.
* **Conversation replay** (`conversation/host.rs:31`). A surface that arrives in the
  middle of an answer is said to get the present state exactly. A chunk that is in the
  tail and still on the broadcast reaches it twice, or between the start of the replay
  and its body. `ExactUnlessCrossed` (proved): only an event of the engine or another
  replay routed during the replay does it, or the engine being dropped while it read.
* **Repo registry** (`capability/repo_manager_capability.rs:1199`, `1429`). The map's
  key is said to prevent a double start. Of two overlapping starts both run
  `start_repo`, and one is shut down again (`NoneLeaks`, proved: nothing is left of it);
  overlapping verbs can leave `running_repos` saying what is not so, and `remove_repo`
  (791) does not see a repo that is starting. `TableIsTrue` (proved): only overlaps do
  it, and a restart alone mends it.
* **Placeholders** (`repo/repo_registry.rs:143`). Adoption is said to cure the boot
  window at its root. A surface wired after the start has looked for orphans, on an
  entry replaced before the bridge, or bridged from a runtime that has ended, does not
  hear the repo. `HearsUnlessLeft` (proved): nobody else.

Smaller things seen while reading: `fail_timeout` is guarded
by the state and not by `updated_at`, so a row that was refreshed after it was
listed is timed out all the same; the comment at `repo/lane/reconcile.rs:110` about
an unreadable registry does not fit the fallback of `load`; the idle sweep
(`repo/server.rs:503`) looks and drops under different locks.

## 6. What is not modelled

Inside modelled parts: prompt texts and the wording of nudges; read-only queries of the
store; the spawning of headless engines (the actor sees none of its failures); the
Codex handshake before `thread/start`, history hydration, the model catalog, and
server-initiated approvals; lane creation and the recreation of a lane under a
deleted name, PIDs, terminal sizes, conversation ids other than their loss by a
Reset, and a registry file that cannot be read. A response lost after a handler
returned (a `recv` whose reply dies with its connection) is outside the handlers and
outside the model.

*Terminal pump.* A subscription's entry and its count are one step, as are demand and
epoch of a reading. A broadcast that lags and a subscriber's full channel (1024) are
left out, and a replay is one message. Subscriptions outside `Watched` only count.

*Conversation replay.* A Claude session with a chat surface; one subscription at a
time. The hook's reading of the demand level is part of `Open` and `Close`; ensuring the
engine and beginning a flight are one step, as are transcript and tail on
their way out, and the last event and `finish`. The five idle minutes are taken as
"no turn, nothing on the broadcast". An engine that dies in a message, a failed spawn,
user messages and the splicing of `SessionInit` are left out.

*Repo registry and routers.* One repo. The look into the map and the adoption are one
step, as are `process_status` and `running_repos`, and presence, the database row and the
event (`told`). What `remove_repo` cleans up besides (lanes, ground, rows) and
`reload_config` for a name not listed are left out. A failed start leaves the status
"Starting", and the start that autostart's abort drops leaves its tasks to the process's
end (`orphans`): both are in the model, as the code has them. A surface's two ends of
one subscription are one step with the wiring; retained values and demand counts of
these routers are left out.

*Topic router.* A retained value published between a subscriber's entry in the list and
its reading of the retained values (`repo/topic_router.rs:249`) is listed under `hazards`
only.

Parts not modelled at all, with the reason, are the `not_modelled` entries of
`components`: some are planned (section 7); the others are I/O, presentation or
translation without state that two actors share.

## 7. Plan

The order follows what the system would lose if the part were wrong: messages and
work handed over first, then conversations, then processes, then what is only shown.
The first seven steps are done.

1. `WireStore` with `CommandLedger`: the store, and what it promises.
2. `WireDelivery` on the promise.
3. `Delegation`.
4. `CodexHost`.
5. `LaneReconcile`.
6. `TerminalPump` and `ConversationReplay`: what a surface sees, in the middle of
   changes.
7. `RepoRegistry`, and `CanvasRouters` on it.
8. Retained values of the topic router: subscribe against publish.
9. `Farewell`: facts, judgement, removal, and the fold of observations in the ledger,
   with the lane coming back to life in between. Property: nothing unmerged, dirty or
   live at the moment of removal.
10. Lane creation and recreation as further actions of `LaneReconcile`, and which
    conversation a session resumes.
11. The other engines and their replay log; `Board`; settings sync of `vp-nexus`
    (versions, two machines); dev-flow state as a checked function.
12. Proofs go with the modules: no invariant and no action property of the present
    ones is left, and those of steps 8 to 11 are to be proved as they come.
