------------------------------- MODULE CodexHost -------------------------------
(***************************************************************************)
(* One resident Codex conversation: conversation/codex_host.rs with its    *)
(* submodules codex_queue.rs, codex_runtime.rs and                         *)
(* codex_permission_menu.rs.                                               *)
(*                                                                         *)
(* The host talks to `codex app-server` over two pipes.  The server owns   *)
(* the turn and the native queue of waiting inputs; the host keeps a copy  *)
(* of both and decides by the copy.  Its state sits behind one mutex that  *)
(* no task holds across an await, so the reader of the server's output,    *)
(* the refresh worker, operations of the user, submits and answers to      *)
(* questions interleave at every await.                                    *)
(*                                                                         *)
(* Requests leave after the mutex is released, so `asks` is a set.  What   *)
(* the server writes comes back in order, so `out` is a sequence.          *)
(***************************************************************************)
EXTENDS Naturals, Sequences, SequencesExt

CONSTANTS
    Items,      \* entries of the native queue
    Prompts,    \* prompts a lane submits
    Questions,  \* unanswered questions the conversation resumes with
    Callers,    \* operations of the user: queue edits and settings
    PAGE,       \* entries of one page of the native queue
    MAX_PAGES,  \* pages one refresh reads at most
    MAX_TURNS,  \* bound: turns of the conversation
    MAX_NEWS,   \* bound: changes by other clients, and reopened views
    MAX_LOST    \* bound: RPC deadlines that pass

ASSUME BoundsAssumption ==
    /\ PAGE \in Nat \ {0} /\ MAX_PAGES \in Nat \ {0}
    /\ MAX_TURNS \in Nat /\ MAX_NEWS \in Nat /\ MAX_LOST \in Nat

ASSUME KindsAssumption ==
    /\ Prompts \cap Questions = {}
    /\ "worker" \notin Callers \cup Prompts \cup Questions

VARIABLES
    dead, cut,                  \* the host gave up; its waiters were dropped
    threaded,                   \* the thread id is known
    turnActive, turnId, queue,  \* the host's copy of the turn; its prompts
    busy, dirty, refreshing,    \* flags around the native queue
    ready, items,               \* the cached view of the native queue
    reader, worker, op, question,
    asks, out,                  \* requests and server lines under way
    srvItems, srvTurn,          \* the server's own state
    turns, news, lost,          \* counters of the bounds
    submitted, writes           \* history: prompts given; times each was sent

host   == <<dead, cut, threaded, turnActive, turnId, queue>>
flags  == <<busy, dirty, refreshing, ready, items>>
tasks  == <<reader, worker, op, question>>
server == <<srvItems, srvTurn, turns, news>>
vars   == <<dead, cut, threaded, turnActive, turnId, queue, busy, dirty,
            refreshing, ready, items, reader, worker, op, question, asks, out,
            srvItems, srvTurn, turns, news, lost, submitted, writes>>

Turns    == 0 .. MAX_TURNS
Edits    == {"add", "update", "delete", "reorder"}
OnQueue  == Edits \cup {"start", "steer"}
Settings == {"mode", "permissions"}

\* A request: what it asks, of which entries or turn, and whose it is.
Ask(kind, by, of) == [kind |-> kind, by |-> by, of |-> of]
\* A line of the server: a reply to `by`, or a notification.
Line(kind, by, ok, of) == [kind |-> kind, by |-> by, ok |-> ok, of |-> of]
Notice(kind, of) == Line(kind, "all", TRUE, of)
QueueNews == {"changed", "started", "completed"}

Working(c) == op[c].at \in {"asked", "next", "applying", "await"}

Init ==
    /\ dead = FALSE /\ cut = FALSE /\ threaded = FALSE
    /\ turnActive = FALSE /\ turnId = 0 /\ queue = <<>>
    /\ busy = FALSE /\ dirty = FALSE /\ refreshing = FALSE
    /\ ready = FALSE /\ items = <<>>
    /\ reader = "read" /\ worker = [at |-> "idle", rows |-> <<>>, pages |-> 0]
    /\ op = [c \in Callers |-> [kind |-> "none", at |-> "new"]]
    /\ question = [q \in Questions |-> "live"]
    /\ srvItems \in {<<>>} \cup {<<i>> : i \in Items}
    /\ srvTurn \in Turns \cap {0, 1} /\ turns = srvTurn
    /\ asks = {}
    /\ out = << Line("thread", "host", TRUE, <<srvTurn>>) >>
    /\ news = 0 /\ lost = 0
    /\ submitted = {}
    /\ writes = [x \in Prompts \cup Questions |-> 0]
--------------------------------------------------------------------------------
(* The refresh worker. *)

\* Every caller of refresh() runs this in a lock of its own.
Refresh ==
    IF ~dead /\ threaded /\ ~refreshing /\ dirty
    THEN /\ refreshing' = TRUE
         /\ worker' = [at |-> "begin", rows |-> <<>>, pages |-> 0]
    ELSE UNCHANGED <<refreshing, worker>>

WorkerStops ==
    /\ refreshing' = FALSE
    /\ worker' = [at |-> "idle", rows |-> <<>>, pages |-> 0]

\* A pass begins by taking the invalidations seen so far as handled.
WorkerBegin ==
    /\ worker.at = "begin"
    /\ IF dead
       THEN WorkerStops /\ UNCHANGED dirty
       ELSE /\ dirty' = FALSE
            /\ worker' = [at |-> "ask", rows |-> <<>>, pages |-> 0]
            /\ UNCHANGED refreshing
    /\ UNCHANGED <<host, busy, ready, items, reader, op, question, asks, out,
                   server, lost, submitted, writes>>

WorkerAsk ==
    /\ worker.at = "ask"
    /\ IF dead \/ worker.pages = MAX_PAGES
       THEN worker' = [worker EXCEPT !.at = "failed"] /\ UNCHANGED asks
       ELSE /\ asks' = asks \cup {Ask("list", "worker", <<worker.pages>>)}
            /\ worker' = [worker EXCEPT !.at = "wait"]
    /\ UNCHANGED <<host, flags, reader, op, question, out, server, lost,
                   submitted, writes>>

\* The waiter was dropped with the connection.
WorkerCutOff ==
    /\ worker.at = "wait" /\ cut
    /\ worker' = [worker EXCEPT !.at = "failed"]
    /\ UNCHANGED <<host, flags, reader, op, question, asks, out, server, lost,
                   submitted, writes>>

\* The deadline of a page passes: its answer will find no waiter.
WorkerLost ==
    /\ worker.at = "wait" /\ lost < MAX_LOST
    /\ lost' = lost + 1
    /\ worker' = [worker EXCEPT !.at = "failed"]
    /\ asks' = {a \in asks : a.by # "worker"}
    /\ \/ \E n \in DOMAIN out : out[n].by = "worker" /\ out' = RemoveAt(out, n)
       \/ (\A n \in DOMAIN out : out[n].by # "worker") /\ UNCHANGED out
    /\ UNCHANGED <<host, flags, reader, op, question, server, submitted, writes>>

\* Mutants: a pass ignores the invalidations since its start, and either
\* forgets them or leaves them for nobody.
WorkerEndBlind ==
    /\ worker.at \in {"got", "failed"}
    /\ WorkerStops
    /\ dirty' = FALSE
    /\ ready' = (worker.at = "got")
    /\ items' = IF worker.at = "got" THEN worker.rows ELSE items
    /\ UNCHANGED <<host, busy, reader, op, question, asks, out, server, lost,
                   submitted, writes>>
WorkerEndOnce ==
    /\ worker.at \in {"got", "failed"}
    /\ WorkerStops
    /\ ready' = (worker.at = "got")
    /\ items' = IF worker.at = "got" THEN worker.rows ELSE items
    /\ UNCHANGED <<host, busy, dirty, reader, op, question, asks, out, server,
                   lost, submitted, writes>>

\* A pass ends: an invalidation since its start starts it over.
WorkerEnd ==
    /\ worker.at \in {"got", "failed"}
    /\ IF dead
       THEN WorkerStops /\ UNCHANGED <<ready, items>>
       ELSE IF dirty
       THEN /\ worker' = [at |-> "begin", rows |-> <<>>, pages |-> 0]
            /\ UNCHANGED <<refreshing, ready, items>>
       ELSE /\ WorkerStops
            /\ ready' = (worker.at = "got")
            /\ items' = IF worker.at = "got" THEN worker.rows ELSE items
    /\ UNCHANGED <<host, busy, dirty, reader, op, question, asks, out, server,
                   lost, submitted, writes>>

\* request_history() and history_recovery(): the chat view opens, or its
\* event pump fell behind.  A second such call before a pass begins adds
\* nothing.
RequestHistory ==
    /\ threaded /\ ~dead /\ ~dirty /\ news < MAX_NEWS
    /\ news' = news + 1
    /\ dirty' = TRUE
    /\ IF refreshing THEN UNCHANGED <<refreshing, worker>>
       ELSE /\ refreshing' = TRUE
            /\ worker' = [at |-> "begin", rows |-> <<>>, pages |-> 0]
    /\ UNCHANGED <<host, busy, ready, items, reader, op, question, asks, out,
                   srvItems, srvTurn, turns, lost, submitted, writes>>
--------------------------------------------------------------------------------
(* Operations of the user: edits of the native queue, and settings. *)

\* What control() lets through, by the cached view and turn.
Allowed ==
    {[kind |-> "add", of |-> <<>>]}
    \cup {[kind |-> k, of |-> <<i>>] : k \in {"update", "delete"},
                                      i \in ToSet(items)}
    \cup {[kind |-> "reorder", of |-> s] : s \in SetToSeqs(ToSet(items))}
    \cup {[kind |-> "start", of |-> <<i>>] : i \in {j \in ToSet(items) : ~turnActive}}
    \cup {[kind |-> "steer", of |-> <<t>>] :
             t \in {u \in {turnId} : turnActive /\ u # 0}}

Begin(c, kind) == op' = [op EXCEPT ![c] = [kind |-> kind, at |-> "asked"]]
Goto(c, at) == op' = [op EXCEPT ![c].at = at]

Control(c) ==
    /\ op[c].at = "new" /\ ~dead /\ threaded /\ ~busy /\ ready
    /\ \E x \in Allowed :
         /\ Begin(c, x.kind)
         /\ asks' = asks \cup {Ask(x.kind, c, x.of)}
    /\ busy' = TRUE
    /\ UNCHANGED <<host, dirty, refreshing, ready, items, reader, worker,
                   question, out, server, lost, submitted, writes>>

ControlRefresh(c) ==
    /\ op[c].at = "new" /\ ~dead /\ threaded /\ ~busy
    /\ op' = [op EXCEPT ![c] = [kind |-> "refresh", at |-> "refresh"]]
    /\ dirty' = TRUE /\ ready' = FALSE
    /\ UNCHANGED <<host, busy, refreshing, items, reader, worker, question,
                   asks, out, server, lost, submitted, writes>>

\* Nothing runs and nothing waits, as far as the host can tell.
Quiet == ~turnActive /\ queue = <<>> /\ items = <<>> /\ ~refreshing /\ ready

\* change_mode() and the permission menu first ask for the choices.
ChangeSettings(c, kind) ==
    /\ op[c].at = "new" /\ ~dead /\ threaded /\ ~busy /\ Quiet
    /\ kind = "permissions" => ~dirty
    /\ busy' = TRUE
    /\ Begin(c, kind)
    /\ asks' = asks \cup {Ask("menu", c, <<>>)}
    /\ UNCHANGED <<host, dirty, refreshing, ready, items, reader, worker,
                   question, out, server, lost, submitted, writes>>

\* With the choices at hand the permission menu checks again.
SendSettings(c) ==
    /\ op[c].at = "next"
    /\ IF dead \/ (op[c].kind = "permissions" /\ ~(Quiet /\ ~dirty))
       THEN Goto(c, "over") /\ UNCHANGED asks
       ELSE /\ Goto(c, "applying")
            /\ asks' = asks \cup {Ask("settings", c, <<>>)}
    /\ UNCHANGED <<host, flags, reader, worker, question, out, server, lost,
                   submitted, writes>>

OpCutOff(c) ==
    /\ Working(c) /\ (cut \/ (dead /\ op[c].at = "await"))
    /\ Goto(c, "over")
    /\ UNCHANGED <<host, flags, reader, worker, question, asks, out, server,
                   lost, submitted, writes>>

\* The deadline passes: the outcome is unknown and nothing is sent again.
OpLost(c) ==
    /\ Working(c) /\ op[c].at # "next" /\ lost < MAX_LOST
    /\ lost' = lost + 1
    /\ Goto(c, "over")
    /\ UNCHANGED <<host, flags, reader, worker, question, asks, out, server,
                   submitted, writes>>

OpEnd(c) ==
    /\ op[c].at = "over"
    /\ busy' = FALSE
    /\ IF op[c].kind \in OnQueue
       THEN dirty' = TRUE /\ ready' = FALSE /\ Goto(c, "refresh")
       ELSE Goto(c, "done") /\ UNCHANGED <<dirty, ready>>
    /\ UNCHANGED <<host, refreshing, items, reader, worker, question, asks, out,
                   server, lost, submitted, writes>>

OpRefresh(c) ==
    /\ op[c].at = "refresh"
    /\ Goto(c, "done")
    /\ Refresh
    /\ UNCHANGED <<host, busy, dirty, ready, items, reader, question, asks, out,
                   server, lost, submitted, writes>>
--------------------------------------------------------------------------------
(* Prompts, answers and interrupts. *)

Write(kind, x, of) ==
    /\ asks' = asks \cup {Ask(kind, x, of)}
    /\ writes' = [writes EXCEPT ![x] = @ + 1]

\* Mutant: a prompt does not wait for the operation in progress.
SubmitWhileBusy(p) ==
    /\ p \notin submitted /\ ~dead
    /\ submitted' = submitted \cup {p}
    /\ IF turnActive \/ ~threaded
       THEN /\ queue' = Append(queue, p)
            /\ UNCHANGED <<turnActive, asks, writes>>
       ELSE /\ turnActive' = TRUE
            /\ Write("turn", p, <<>>)
            /\ UNCHANGED queue
    /\ UNCHANGED <<dead, cut, threaded, turnId, flags, tasks, out, server, lost>>

Submit(p) ==
    /\ p \notin submitted /\ ~dead /\ ~busy
    /\ submitted' = submitted \cup {p}
    /\ IF turnActive \/ ~threaded
       THEN /\ queue' = Append(queue, p)
            /\ UNCHANGED <<turnActive, asks, writes>>
       ELSE /\ turnActive' = TRUE
            /\ Write("turn", p, <<>>)
            /\ UNCHANGED queue
    /\ UNCHANGED <<dead, cut, threaded, turnId, flags, tasks, out, server, lost>>

\* The write of a prompt fails: the caller starts a new host.
SubmitBroken(p) ==
    /\ p \notin submitted /\ ~dead /\ ~busy /\ threaded /\ ~turnActive
    /\ submitted' = submitted \cup {p}
    /\ dead' = TRUE /\ turnActive' = FALSE /\ turnId' = 0
    /\ UNCHANGED <<cut, threaded, queue, flags, tasks, asks, out, server, lost,
                   writes>>

\* Mutant: the prompt is read from the queue and stays there.
DrainPeek ==
    /\ reader = "drain"
    /\ reader' = "refresh"
    /\ IF dead \/ turnActive \/ ~threaded \/ queue = <<>>
       THEN UNCHANGED <<turnActive, asks, writes>>
       ELSE turnActive' = TRUE /\ Write("turn", Head(queue), <<>>)
    /\ UNCHANGED <<dead, cut, threaded, turnId, queue, flags, worker, op, question,
                   out, server, lost, submitted>>

Drain ==
    /\ reader = "drain"
    /\ reader' = "refresh"
    /\ IF dead \/ turnActive \/ ~threaded \/ queue = <<>>
       THEN UNCHANGED <<turnActive, queue, asks, writes>>
       ELSE /\ queue' = Tail(queue)
            /\ turnActive' = TRUE
            /\ Write("turn", Head(queue), <<>>)
    /\ UNCHANGED <<dead, cut, threaded, turnId, flags, worker, op, question, out,
                   server, lost, submitted>>

Interrupt ==
    /\ queue # <<>> \/ (threaded /\ turnActive /\ turnId # 0)
    /\ queue' = <<>>
    /\ asks' = IF threaded /\ turnActive /\ turnId # 0 /\ ~cut
               THEN asks \cup {Ask("interrupt", "host", <<turnId>>)} ELSE asks
    /\ UNCHANGED <<dead, cut, threaded, turnActive, turnId, flags, tasks, out,
                   server, lost, submitted, writes>>

\* An answer joins the running turn, or starts one.
Answer(q) ==
    /\ question[q] = "live" /\ ~dead /\ threaded
    /\ ~(turnActive /\ turnId = 0)
    /\ question' = [question EXCEPT ![q] = "responding"]
    /\ turnActive' = TRUE
    /\ IF turnActive THEN Write("answersteer", q, <<turnId>>)
       ELSE Write("answer", q, <<>>)
    /\ UNCHANGED <<dead, cut, threaded, turnId, queue, flags, reader, worker, op,
                   out, server, lost, submitted>>

\* The answering task learns the outcome.  Only a refusal allows another try.
AnswerEnd(q) ==
    /\ question[q] \in {"taken", "refused"}
    /\ question' = [question EXCEPT ![q] =
                      IF question[q] = "taken" THEN "gone" ELSE "live"]
    /\ writes' = [writes EXCEPT ![q] = IF question[q] = "taken" THEN @ ELSE @ - 1]
    /\ UNCHANGED <<host, flags, reader, worker, op, asks, out, server, lost,
                   submitted>>

AnswerUnknown(q) ==
    /\ question[q] = "responding"
    /\ \/ cut /\ UNCHANGED lost
       \/ lost < MAX_LOST /\ lost' = lost + 1
    /\ question' = [question EXCEPT ![q] = "unknown"]
    /\ UNCHANGED <<host, flags, reader, worker, op, asks, out, server, submitted,
                   writes>>

Dismiss(q) ==
    /\ question[q] \in {"live", "unknown"}
    /\ question' = [question EXCEPT ![q] = "gone"]
    /\ UNCHANGED <<host, flags, reader, worker, op, asks, out, server, lost,
                   submitted, writes>>
--------------------------------------------------------------------------------
(* The app-server, as the host's requests and its reader use it. *)

Reply(a, ok, of) == Line(a.kind, a.by, ok, of)
Emit(lines) == out' = out \o lines

\* Serving a request takes it from the pipe; only these parts change.
Serve(a) ==
    /\ a \in asks /\ asks' = asks \ {a}
    /\ UNCHANGED <<host, flags, tasks, lost, submitted, writes, news>>

BeginTurn(lines) ==
    /\ srvTurn = 0 /\ turns < MAX_TURNS
    /\ turns' = turns + 1 /\ srvTurn' = turns + 1
    /\ Emit(Append(lines, Notice("started", <<turns + 1>>)))

Pages(s) == [from |-> s * PAGE + 1,
             to |-> IF (s + 1) * PAGE < Len(srvItems) THEN (s + 1) * PAGE
                    ELSE Len(srvItems)]

ServeList(a) ==
    /\ a.kind = "list" /\ Serve(a)
    /\ LET p == Pages(a.of[1])
       IN Emit(<<Line("page", a.by, p.to < Len(srvItems),
                      SubSeq(srvItems, p.from, p.to))>>)
    /\ UNCHANGED <<srvItems, srvTurn, turns>>

\* The queue without entry i, if it holds one.
Without(i) ==
    {RemoveAt(srvItems, n) : n \in {m \in DOMAIN srvItems : srvItems[m] = i}}

\* What an edit makes of the queue; an edit of a missing entry makes nothing.
Edited(a) ==
    CASE a.kind = "add" -> {Append(srvItems, i) : i \in Items \ ToSet(srvItems)}
      [] a.kind = "update" -> {s \in {srvItems} : ToSet(a.of) \subseteq ToSet(s)}
      [] a.kind = "delete" -> Without(a.of[1])
      [] OTHER -> {s \in {a.of} : ToSet(s) = ToSet(srvItems)}

ServeEdit(a) ==
    /\ a.kind \in Edits /\ Serve(a)
    /\ \E s \in Edited(a) :
         /\ srvItems' = s
         /\ Emit(<<Notice("changed", <<>>), Reply(a, TRUE, <<>>)>>)
    /\ UNCHANGED <<srvTurn, turns>>

ServeStart(a) ==
    /\ a.kind = "start" /\ Serve(a)
    /\ srvItems' \in Without(a.of[1])
    /\ BeginTurn(<<Reply(a, TRUE, <<>>)>>)

\* A steer must name the running turn.
ServeSteer(a) ==
    /\ a.kind \in {"steer", "answersteer"} /\ Serve(a)
    /\ srvTurn # 0 /\ a.of = <<srvTurn>>
    /\ Emit(<<Reply(a, TRUE, a.of)>>)
    /\ UNCHANGED <<srvItems, srvTurn, turns>>

ServeTurn(a) ==
    /\ a.kind \in {"turn", "answer"} /\ Serve(a)
    /\ BeginTurn(<<Reply(a, TRUE, <<turns + 1>>)>>)
    /\ UNCHANGED srvItems

ServeSettings(a) ==
    /\ a.kind \in {"menu", "settings"} /\ Serve(a)
    /\ Emit(IF a.kind = "menu" THEN <<Reply(a, TRUE, <<>>)>>
            ELSE <<Line("told", a.by, TRUE, <<>>), Reply(a, TRUE, <<>>)>>)
    /\ UNCHANGED <<srvItems, srvTurn, turns>>

Refuse(a) ==
    /\ a.kind \notin {"list", "interrupt"} /\ Serve(a)
    /\ Emit(<<Reply(a, FALSE, <<>>)>>)
    /\ UNCHANGED <<srvItems, srvTurn, turns>>

ServeInterrupt(a) ==
    /\ a.kind = "interrupt" /\ Serve(a)
    /\ IF srvTurn # 0 /\ a.of = <<srvTurn>>
       THEN srvTurn' = 0 /\ Emit(<<Notice("completed", <<>>)>>)
       ELSE UNCHANGED <<srvTurn, out>>
    /\ UNCHANGED <<srvItems, turns>>

TurnEnds ==
    /\ srvTurn # 0 /\ ~cut
    /\ srvTurn' = 0
    /\ Emit(<<Notice("completed", <<>>)>>)
    /\ UNCHANGED <<host, flags, tasks, asks, srvItems, turns, news, lost,
                   submitted, writes>>

\* An idle server runs the next entry of its queue.
QueueRuns ==
    /\ srvItems # <<>> /\ ~cut
    /\ srvItems' = Tail(srvItems)
    /\ BeginTurn(<<>>)
    /\ UNCHANGED <<host, flags, tasks, asks, news, lost, submitted, writes>>

\* A console on the same thread adds or deletes entries.
OtherClient ==
    /\ news < MAX_NEWS /\ news' = news + 1 /\ ~cut
    /\ srvItems' \in {Append(srvItems, i) : i \in Items \ ToSet(srvItems)}
                     \cup UNION {Without(i) : i \in ToSet(srvItems)}
    /\ Emit(<<Notice("changed", <<>>)>>)
    /\ UNCHANGED <<host, flags, tasks, asks, srvTurn, turns, lost, submitted, writes>>
--------------------------------------------------------------------------------
(* The reader of the server's output: one line, then drain, then refresh. *)

Take(kinds, next) ==
    /\ reader = "read" /\ ~cut /\ out # <<>> /\ Head(out).kind \in kinds
    /\ out' = Tail(out)
    /\ reader' = next

\* Most lines change a few parts only.
Aside == UNCHANGED <<cut, server, lost, submitted, writes, refreshing, items>>

\* Mutant: prompts given before the thread was known are not drained.
AdoptOnly ==
    /\ Take({"thread"}, "refresh")
    /\ threaded' = TRUE /\ dirty' = TRUE
    /\ turnId' = Head(out).of[1] /\ turnActive' = (turnId' # 0)
    /\ Aside /\ UNCHANGED <<dead, queue, busy, ready, worker, op, question, asks>>

AdoptThread ==
    /\ Take({"thread"}, "drain")
    /\ threaded' = TRUE /\ dirty' = TRUE
    /\ turnId' = Head(out).of[1] /\ turnActive' = (turnId' # 0)
    /\ Aside /\ UNCHANGED <<dead, queue, busy, ready, worker, op, question, asks>>

FailStartup ==
    /\ Take({"thread"}, "refresh")
    /\ dead' = TRUE /\ queue' = <<>>
    /\ Aside
    /\ UNCHANGED <<threaded, turnActive, turnId, busy, dirty, ready, worker, op,
                   question, asks>>

\* process_notification() drops what a dead host hears.
TakeNotice(kind, next) == Take({kind}, IF dead THEN "refresh" ELSE next)

QueueChanged ==
    /\ TakeNotice("changed", "refresh")
    /\ IF dead THEN UNCHANGED <<dirty, ready>> ELSE dirty' = TRUE /\ ready' = FALSE
    /\ Aside
    /\ UNCHANGED <<dead, threaded, turnActive, turnId, queue, busy, worker, op,
                   question, asks>>

TurnStarted ==
    /\ TakeNotice("started", "refresh")
    /\ IF dead THEN UNCHANGED <<dirty, turnActive, turnId>>
       ELSE dirty' = TRUE /\ turnActive' = TRUE /\ turnId' = Head(out).of[1]
    /\ Aside
    /\ UNCHANGED <<dead, threaded, queue, busy, ready, worker, op, question, asks>>

TurnCompleted ==
    /\ TakeNotice("completed", "drain")
    /\ IF dead THEN UNCHANGED <<dirty, turnActive, turnId>>
       ELSE dirty' = TRUE /\ turnActive' = FALSE /\ turnId' = 0
    /\ Aside
    /\ UNCHANGED <<dead, threaded, queue, busy, ready, worker, op, question, asks>>

\* A page for the worker; a repeated entry spoils the pass.
PageRead ==
    /\ Take({"page"}, "refresh")
    /\ LET m == Head(out)
       IN worker' =
            IF ToSet(m.of) \cap ToSet(worker.rows) # {}
            THEN [worker EXCEPT !.at = "failed"]
            ELSE [at |-> IF m.ok THEN "ask" ELSE "got",
                  rows |-> worker.rows \o m.of, pages |-> worker.pages + 1]
    /\ Aside
    /\ UNCHANGED <<dead, threaded, turnActive, turnId, queue, busy, dirty, ready,
                   op, question, asks>>

\* How far a reply, or the notice of new settings, takes an operation.
Answered(x, m) ==
    IF m.kind = "told"
    THEN (CASE x.at = "applying" -> "await" [] x.at = "await" -> "over"
            [] OTHER -> x.at)
    ELSE (CASE x.at = "asked" /\ m.kind = "menu" /\ m.ok -> "next"
            [] x.at = "applying" /\ m.ok -> "await"
            [] x.at \in {"asked", "applying", "await"} -> "over"
            [] OTHER -> x.at)

OpAnswered ==
    /\ Take(OnQueue \cup {"menu", "settings", "told"}, "refresh")
    /\ LET m == Head(out) IN Goto(m.by, Answered(op[m.by], m))
    /\ Aside
    /\ UNCHANGED <<dead, threaded, turnActive, turnId, queue, busy, dirty, ready,
                   worker, question, asks>>

\* The reply to a prompt's turn/start.
TurnReply ==
    /\ Take({"turn"}, IF Head(out).ok THEN "refresh" ELSE "drain")
    /\ IF Head(out).ok
       THEN turnId' = Head(out).of[1] /\ UNCHANGED turnActive
       ELSE turnId' = 0 /\ turnActive' = FALSE
    /\ Aside
    /\ UNCHANGED <<dead, threaded, queue, busy, dirty, ready, worker, op, question,
                   asks>>

\* The reply to an answer.  A refused start makes the host idle again.
AnswerReply ==
    /\ Take({"answer", "answersteer"}, "refresh")
    /\ LET m == Head(out) IN
         /\ question' = [question EXCEPT ![m.by] =
              IF @ = "responding" THEN (IF m.ok THEN "taken" ELSE "refused") ELSE @]
         /\ IF m.kind = "answer" /\ ~m.ok
            THEN turnActive' = FALSE /\ turnId' = 0
            ELSE /\ turnId' = IF m.kind = "answer" /\ turnActive /\ turnId = 0
                             THEN m.of[1] ELSE turnId
                 /\ UNCHANGED turnActive
    /\ Aside
    /\ UNCHANGED <<dead, threaded, queue, busy, dirty, ready, worker, op, asks>>

ReaderRefresh ==
    /\ reader = "refresh"
    /\ reader' = "read"
    /\ Refresh
    /\ UNCHANGED <<host, busy, dirty, ready, items, op, question, asks, out,
                   server, lost, submitted, writes>>
--------------------------------------------------------------------------------
(* The end of the connection. *)

\* Mutant: the waiters of replies outlive the connection.
GiveUpQuietly ==
    /\ dead' = TRUE /\ UNCHANGED cut
    /\ turnActive' = FALSE /\ turnId' = 0
    /\ asks' = {} /\ out' = <<>>

GiveUp ==
    /\ dead' = TRUE /\ cut' = TRUE
    /\ turnActive' = FALSE /\ turnId' = 0
    /\ asks' = {} /\ out' = <<>>

\* A write that its deadline cut short may have left half a line.
RetireBrokenWriter ==
    /\ ~dead
    /\ \E a \in asks : a.by \in Callers \cup {"worker"}
    /\ GiveUp /\ ready' = FALSE
    /\ UNCHANGED <<threaded, queue, busy, dirty, refreshing, items, tasks, server,
                   lost, submitted, writes>>

\* The server's output ends: it crashed, or was killed.
StdoutCloses ==
    /\ ~cut /\ reader = "read"
    /\ GiveUp
    /\ UNCHANGED <<threaded, queue, flags, tasks, server, lost, submitted, writes>>

\* stop(): the lane drops the host.
Stop ==
    /\ ~cut
    /\ GiveUp /\ queue' = <<>>
    /\ UNCHANGED <<threaded, flags, tasks, server, lost, submitted, writes>>

Worker == WorkerBegin \/ WorkerAsk \/ WorkerCutOff \/ WorkerEnd

Operation(c) == SendSettings(c) \/ OpCutOff(c) \/ OpEnd(c) \/ OpRefresh(c)

User ==
    \/ RequestHistory \/ Interrupt
    \/ \E c \in Callers : \/ Control(c) \/ ControlRefresh(c) \/ OpLost(c)
                          \/ \E kind \in Settings : ChangeSettings(c, kind)
    \/ \E p \in Prompts : Submit(p) \/ SubmitBroken(p)
    \/ \E q \in Questions : Answer(q) \/ Dismiss(q)

Outcome(q) == AnswerEnd(q) \/ AnswerUnknown(q)

\* The server handles a request of `by`.
Served(by) == \E a \in {x \in asks : x.by = by} :
    \/ ServeList(a) \/ ServeEdit(a) \/ ServeStart(a) \/ ServeSteer(a)
    \/ ServeTurn(a) \/ ServeSettings(a) \/ Refuse(a) \/ ServeInterrupt(a)

Reader ==
    \/ AdoptThread \/ FailStartup \/ QueueChanged \/ TurnStarted \/ TurnCompleted
    \/ PageRead \/ OpAnswered \/ TurnReply \/ AnswerReply \/ Drain \/ ReaderRefresh

Owners == {"worker", "host"} \cup Callers \cup Prompts \cup Questions

Next ==
    \/ Worker \/ WorkerLost \/ User \/ Reader
    \/ \E x \in Owners : Served(x)
    \/ \E c \in Callers : Operation(c)
    \/ \E q \in Questions : Outcome(q)
    \/ TurnEnds \/ QueueRuns \/ OtherClient
    \/ RetireBrokenWriter \/ StdoutCloses \/ Stop

Spec == Init /\ [][Next]_vars

\* Tasks run, the server serves every request, and a dead server's output
\* ends.  No turn has to end and no deadline has to pass.
FairSpec ==
    /\ Spec
    /\ WF_vars(Worker) /\ WF_vars(Reader)
    /\ \A x \in Owners : WF_vars(Served(x))
    /\ WF_vars(dead /\ StdoutCloses)
    /\ \A c \in Callers : WF_vars(Operation(c))
    /\ \A q \in Questions : WF_vars(Outcome(q))
--------------------------------------------------------------------------------
(* Properties. *)

\* The cached view is the server's queue whenever it counts as fresh: ready,
\* no refresh owed or running, and no news of the queue still unread in the
\* server's output.  It is what lets control() judge an entry by the view.
ViewIsCurrent ==
    (/\ ready /\ ~dead /\ ~dirty /\ ~refreshing
     /\ \A n \in DOMAIN out : out[n].kind \notin QueueNews)
    => items = srvItems

\* Nothing is sent twice: a prompt is written once for good, and an answer
\* again only when the server is known to have refused it.
NeverResent == \A x \in Prompts \cup Questions : writes[x] <= 1

\* No prompt leaves for the server while settings are being changed: the
\* change found no prompt waiting, and submit() waits for it.
PromptsWaitForSettings ==
    [][ \A p \in Prompts :
          writes'[p] > writes[p] =>
            ~ \E c \in Callers : op[c].kind \in Settings /\ Working(c) ]_vars

\* Once the user and the server's news pause, the host always gets back to
\* rest: no operation keeps it busy and no refresh is owed without a worker.
ComesToRest == []<>(dead \/ (~busy /\ ~dirty /\ ~refreshing))

\* A dead connection leaves no operation and no answer waiting.
NobodyHangs == /\ \A c \in Callers : dead ~> ~Working(c)
               /\ \A q \in Questions : dead ~> question[q] # "responding"

\* An idle host with prompts waiting is about to drain them.
IdleDrains ==
    queue # <<>> /\ threaded /\ ~dead /\ ~turnActive => reader = "drain"

\* Every way to become idle drains the waiting prompts, but one: the refusal
\* of an answer that had started the turn.
OnlyRefusalStrands == [][IdleDrains => IdleDrains' \/ AnswerReply]_vars
================================================================================
