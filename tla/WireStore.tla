------------------------------ MODULE WireStore ------------------------------
(***************************************************************************)
(* The daemon's message store ("wire"): WiremsgStore and WireNotifier of   *)
(* capability/wiremsg_store.rs, driven by the handlers of                  *)
(* daemon/wire_ops.rs.                                                     *)
(*                                                                         *)
(* Every request is a task of its own, and every `.await` on the database  *)
(* lets the other tasks run.  A send is therefore four steps (draft, claim *)
(* a local_seq, INSERT, notify), a receive is a loop of four (arm the      *)
(* waiter, read the cursor, fetch, advance), and leaving threads writes    *)
(* one row at a time.  The tables (messages, cursors, acks, thread         *)
(* exceptions) survive Restart; the counter, the tasks and the waiters do  *)
(* not.                                                                    *)
(*                                                                         *)
(* Messages double as the identities of the send requests that create      *)
(* them: phase[m] is the program counter of that request.                  *)
(***************************************************************************)
EXTENDS Naturals, FiniteSets

CONSTANTS
    Agents,      \* canonical addresses, the keys of every table
    Spellings,   \* addresses as callers write them ("agent@r", "agent@r/lead")
    Canon,       \* normalize_wire_addr, from spellings to agents
    Msgs,        \* message ids (uuid v7), one per send request
    NoMsg,       \* prev = None
    Commands,    \* the messages whose body.category is "command"
    Senders,     \* the spellings that send in this instance
    ToLists,     \* the recipient lists callers pass
    Receivers,   \* the spellings that receive in this instance
    Ackers,      \* the spellings that ack in this instance
    Leavers,     \* the spellings whose lane may be deleted in this instance
    Readers      \* wire_recv requests in flight at the same time

ASSUME AddressAssumption ==
    /\ Agents # {}
    /\ Spellings # {}
    /\ Canon \in [Spellings -> Agents]
    /\ Senders \subseteq Spellings
    /\ Receivers \subseteq Spellings
    /\ Ackers \subseteq Spellings
    /\ Leavers \subseteq Spellings
    /\ ToLists \subseteq SUBSET Spellings

ASSUME MessageAssumption ==
    /\ NoMsg \notin Msgs
    /\ Commands \subseteq Msgs

VARIABLES
    phase,      \* progress of the send request that creates the message
    msg,        \* the row (or the draft of it)
    seqOf,      \* its local_seq; 0 until claimed
    seq,        \* WiremsgStore.seq, the in-memory counter
    cursor,     \* agent_cursor.last_read; 0 when there is no row
    acks,       \* wire_acks rows
    left,       \* thread_participant rows with status 'left'
    leaving,    \* roots a running leave_all_threads still has to write
    rpc,        \* where each wire_recv request is
    rfor,       \* the address it was called with
    base,       \* the cursor value its fetch read
    batch,      \* the messages its fetch returned
    woken,      \* its Notified future has fired
    lastPoll,   \* its deadline has passed: the next empty poll returns
    delivered,  \* history: what recv has returned to each agent
    overtaken   \* history: rows inserted after a row with a higher local_seq

readers == <<rpc, rfor, base, batch, woken, lastPoll>>
vars == <<phase, msg, seqOf, seq, cursor, acks, left, leaving,
          rpc, rfor, base, batch, woken, lastPoll, delivered, overtaken>>

-----------------------------------------------------------------------------
Phases == {"unborn", "drafted", "claimed", "stored", "announced", "failed"}
RecvStates == {"idle", "armed", "fetch", "empty", "waiting", "advance"}

Message == [from : Agents, to : SUBSET Agents, prev : Msgs \cup {NoMsg},
            root : Msgs, notify : SUBSET Agents]

TypeOK ==
    /\ phase \in [Msgs -> Phases]
    /\ msg \in [Msgs -> Message]
    /\ seqOf \in [Msgs -> Nat]
    /\ seq \in Nat
    /\ cursor \in [Agents -> Nat]
    /\ acks \in SUBSET (Msgs \X Agents)
    /\ left \in SUBSET (Msgs \X Agents)
    /\ leaving \in [Agents -> SUBSET Msgs]
    /\ rpc \in [Readers -> RecvStates]
    /\ rfor \in [Readers -> Spellings]
    /\ base \in [Readers -> Nat]
    /\ batch \in [Readers -> SUBSET Msgs]
    /\ woken \in [Readers -> BOOLEAN]
    /\ lastPoll \in [Readers -> BOOLEAN]
    /\ delivered \in [Agents -> SUBSET Msgs]
    /\ overtaken \in SUBSET Msgs

\* The rows of wire_messages.
Stored == {m \in Msgs : phase[m] \in {"stored", "announced"}}

\* messages_to_after: addressed to the agent, and past the cursor.
Unread(a, c) == {m \in Stored : a \in msg[m].to /\ seqOf[m] > c}

LeftAgents(t) == {a \in Agents : <<t, a>> \in left}

\* Mutant of Pending: the first ack of a command settles it for everybody.
PendingUntilAnyAck(m) == {a \in msg[m].to : /\ a # msg[m].from
                                            /\ \A k \in acks : k[1] # m
                                            /\ a \notin LeftAgents(msg[m].root)}

\* unacked_commands: the recipients of a command that still owe an ack.
Pending(m) == {a \in msg[m].to : /\ a # msg[m].from
                                 /\ <<m, a>> \notin acks
                                 /\ a \notin LeftAgents(msg[m].root)}

\* A row nobody has drafted yet.
Blank(m) == [from |-> CHOOSE a \in Agents : TRUE, to |-> {},
             prev |-> NoMsg, root |-> m, notify |-> {}]

\* Mutant of CanonAll: the addresses are stored as written.
AsWritten(S) == S
CanonAll(S) == {Canon[s] : s \in S}

-----------------------------------------------------------------------------
Init ==
    /\ phase = [m \in Msgs |-> "unborn"]
    /\ msg = [m \in Msgs |-> Blank(m)]
    /\ seqOf = [m \in Msgs |-> 0]
    /\ seq = 0
    /\ cursor = [a \in Agents |-> 0]
    /\ acks = {}
    /\ left = {}
    /\ leaving = [a \in Agents |-> {}]
    /\ rpc = [r \in Readers |-> "idle"]
    /\ rfor = [r \in Readers |-> CHOOSE s \in Spellings : TRUE]
    /\ base = [r \in Readers |-> 0]
    /\ batch = [r \in Readers |-> {}]
    /\ woken = [r \in Readers |-> FALSE]
    /\ lastPoll = [r \in Readers |-> FALSE]
    /\ delivered = [a \in Agents |-> {}]
    /\ overtaken = {}

-----------------------------------------------------------------------------
(* Sending: send_root / send_reply, insert_message, wire_send_store.       *)

\* new_root: canonical sender and recipients; the thread is the message's own.
\* wire_send_store will notify the recipients not spelled as the sender is.
NewRoot(m, f, to) ==
    /\ phase[m] = "unborn"
    /\ phase' = [phase EXCEPT ![m] = "drafted"]
    /\ msg' = [msg EXCEPT ![m] = [from |-> Canon[f], to |-> CanonAll(to),
                                  prev |-> NoMsg, root |-> m,
                                  notify |-> CanonAll(to \ {f})]]
    /\ UNCHANGED <<seqOf, seq, cursor, acks, left, leaving, readers,
                   delivered, overtaken>>

\* expand_reply_recipients: the participants of prev and the extra ones, less
\* those who left the thread (as the table is now) and the sender.
ReplyTo(f, extra, p) ==
    (({msg[p].from} \cup msg[p].to \cup CanonAll(extra))
        \ LeftAgents(msg[p].root)) \ {Canon[f]}

\* A reply to a row that does not exist is an error and changes nothing.
NewReply(m, f, extra, p) ==
    /\ phase[m] = "unborn"
    /\ p \in Stored
    /\ phase' = [phase EXCEPT ![m] = "drafted"]
    /\ msg' = [msg EXCEPT ![m] = [from |-> Canon[f], to |-> ReplyTo(f, extra, p),
                                  prev |-> p, root |-> msg[p].root,
                                  notify |-> ReplyTo(f, extra, p)]]
    /\ UNCHANGED <<seqOf, seq, cursor, acks, left, leaving, readers,
                   delivered, overtaken>>

\* insert_message up to its await: fetch_add(1) on the shared counter.
ClaimSeq(m) ==
    /\ phase[m] = "drafted"
    /\ phase' = [phase EXCEPT ![m] = "claimed"]
    /\ seq' = seq + 1
    /\ seqOf' = [seqOf EXCEPT ![m] = seq + 1]
    /\ UNCHANGED <<msg, cursor, acks, left, leaving, readers, delivered,
                   overtaken>>

\* The CREATE commits.
Insert(m) ==
    /\ phase[m] = "claimed"
    /\ phase' = [phase EXCEPT ![m] = "stored"]
    /\ overtaken' = IF \E n \in Stored : seqOf[n] > seqOf[m]
                    THEN overtaken \cup {m} ELSE overtaken
    /\ UNCHANGED <<msg, seqOf, seq, cursor, acks, left, leaving, readers,
                   delivered>>

\* The CREATE fails: the caller gets an error and the number is not reused.
InsertFails(m) ==
    /\ phase[m] = "claimed"
    /\ phase' = [phase EXCEPT ![m] = "failed"]
    /\ seqOf' = [seqOf EXCEPT ![m] = 0]
    /\ UNCHANGED <<msg, seq, cursor, acks, left, leaving, readers,
                   delivered, overtaken>>

\* Mutant of Hears: the Notified future is made after the store was polled.
HearsAsleep(r, a) == rpc[r] = "waiting" /\ Canon[rfor[r]] = a

\* The waiters that notify_waiters reaches: it stores no permit, so only the
\* Notified futures that exist now.
Hears(r, a) ==
    rpc[r] \in {"armed", "fetch", "empty", "waiting"} /\ Canon[rfor[r]] = a

\* wire_send_store, after the INSERT.
Announce(m) ==
    /\ phase[m] = "stored"
    /\ phase' = [phase EXCEPT ![m] = "announced"]
    /\ woken' = [r \in Readers |->
                    woken[r] \/ \E a \in msg[m].notify : Hears(r, a)]
    /\ UNCHANGED <<msg, seqOf, seq, cursor, acks, left, leaving, rpc, rfor,
                   base, batch, lastPoll, delivered, overtaken>>

-----------------------------------------------------------------------------
(* Receiving: wire_recv_store, its loop around WiremsgStore.recv.          *)

\* The top of the loop: the Notified future is made before the store is polled.
Arm(r) ==
    /\ rpc' = [rpc EXCEPT ![r] = "armed"]
    /\ woken' = [woken EXCEPT ![r] = FALSE]

\* recv has returned or failed: its locals are gone.
Forget(r) ==
    /\ rpc' = [rpc EXCEPT ![r] = "idle"]
    /\ base' = [base EXCEPT ![r] = 0]
    /\ batch' = [batch EXCEPT ![r] = {}]
    /\ woken' = [woken EXCEPT ![r] = FALSE]
    /\ lastPoll' = [lastPoll EXCEPT ![r] = FALSE]

RecvCall(r, s) ==
    /\ rpc[r] = "idle"
    /\ Arm(r)
    /\ rfor' = [rfor EXCEPT ![r] = s]
    /\ UNCHANGED <<phase, msg, seqOf, seq, cursor, acks, left, leaving,
                   base, batch, lastPoll, delivered, overtaken>>

\* get_cursor
ReadCursor(r) ==
    /\ rpc[r] = "armed"
    /\ rpc' = [rpc EXCEPT ![r] = "fetch"]
    /\ base' = [base EXCEPT ![r] = cursor[Canon[rfor[r]]]]
    /\ UNCHANGED <<phase, msg, seqOf, seq, cursor, acks, left, leaving,
                   rfor, batch, woken, lastPoll, delivered, overtaken>>

\* messages_to_after finds something to return ...
FetchSome(r) ==
    /\ rpc[r] = "fetch"
    /\ Unread(Canon[rfor[r]], base[r]) # {}
    /\ rpc' = [rpc EXCEPT ![r] = "advance"]
    /\ batch' = [batch EXCEPT ![r] = Unread(Canon[rfor[r]], base[r])]
    /\ UNCHANGED <<phase, msg, seqOf, seq, cursor, acks, left, leaving,
                   rfor, base, woken, lastPoll, delivered, overtaken>>

\* ... or nothing, and the cursor stays.
FetchNone(r) ==
    /\ rpc[r] = "fetch"
    /\ Unread(Canon[rfor[r]], base[r]) = {}
    /\ rpc' = [rpc EXCEPT ![r] = "empty"]
    /\ UNCHANGED <<phase, msg, seqOf, seq, cursor, acks, left, leaving, rfor,
                   base, batch, woken, lastPoll, delivered, overtaken>>

\* With time remaining, await the future made at the top of the loop ...
Sleep(r) ==
    /\ rpc[r] = "empty"
    /\ ~lastPoll[r]
    /\ rpc' = [rpc EXCEPT ![r] = "waiting"]
    /\ UNCHANGED <<phase, msg, seqOf, seq, cursor, acks, left, leaving, rfor,
                   base, batch, woken, lastPoll, delivered, overtaken>>

\* ... and at the deadline return an empty list.
ReturnEmpty(r) ==
    /\ rpc[r] = "empty"
    /\ Forget(r)
    /\ UNCHANGED <<phase, msg, seqOf, seq, cursor, acks, left, leaving, rfor,
                   delivered, overtaken>>

\* Mutant of Target: the counter instead of what was fetched.
CounterTarget(r, n) == n = seq

\* The highest local_seq of the batch.
Target(r, n) ==
    /\ n \in {seqOf[m] : m \in batch[r]}
    /\ \A m \in batch[r] : seqOf[m] <= n

\* Mutant of Forward: the UPSERT assigns without comparing.
Assigned(old, new) == new

\* The SET clause of the UPSERT: last_read never moves back.
Forward(old, new) == IF old < new THEN new ELSE old

\* recv moves the cursor to the end of its batch, and returns the batch.
Advance(r) ==
    /\ rpc[r] = "advance"
    /\ LET a == Canon[rfor[r]] IN
       /\ \E n \in 0 .. seq :
            /\ Target(r, n)
            /\ cursor' = [cursor EXCEPT ![a] = Forward(@, n)]
       /\ delivered' = [delivered EXCEPT ![a] = @ \cup batch[r]]
    /\ Forget(r)
    /\ UNCHANGED <<phase, msg, seqOf, seq, acks, left, leaving, rfor,
                   overtaken>>

\* One of recv's queries fails: the caller gets an error, the cursor stays.
RecvFails(r) ==
    /\ rpc[r] \in {"armed", "fetch", "advance"}
    /\ Forget(r)
    /\ UNCHANGED <<phase, msg, seqOf, seq, cursor, acks, left, leaving, rfor,
                   delivered, overtaken>>

\* The future fires: poll again, with a new future.
WakeUp(r) ==
    /\ rpc[r] = "waiting"
    /\ woken[r]
    /\ Arm(r)
    /\ UNCHANGED <<phase, msg, seqOf, seq, cursor, acks, left, leaving,
                   rfor, base, batch, lastPoll, delivered, overtaken>>

\* The deadline passes: one last poll.
TimeOut(r) ==
    /\ rpc[r] = "waiting"
    /\ Arm(r)
    /\ lastPoll' = [lastPoll EXCEPT ![r] = TRUE]
    /\ UNCHANGED <<phase, msg, seqOf, seq, cursor, acks, left, leaving,
                   rfor, base, batch, delivered, overtaken>>

-----------------------------------------------------------------------------
(* The ack ledger and leaving threads.                                     *)

\* ack: an existing row only; acking twice changes nothing.
Ack(m, s) ==
    /\ m \in Stored
    /\ acks' = acks \cup {<<m, Canon[s]>>}
    /\ UNCHANGED <<phase, msg, seqOf, seq, cursor, left, leaving, readers,
                   delivered, overtaken>>

\* leave_all_threads, its SELECT: the roots of everything addressed to a.
LeaveSelect(s) ==
    /\ leaving[Canon[s]] = {}
    /\ leaving' = [leaving EXCEPT ![Canon[s]] =
                     {msg[m].root : m \in {n \in Stored : Canon[s] \in msg[n].to}}]
    /\ UNCHANGED <<phase, msg, seqOf, seq, cursor, acks, left, readers,
                   delivered, overtaken>>

\* Its CREATE for one root; a row that exists is left as it is.
LeaveRow(a, t) ==
    /\ t \in leaving[a]
    /\ left' = left \cup {<<t, a>>}
    /\ leaving' = [leaving EXCEPT ![a] = @ \ {t}]
    /\ UNCHANGED <<phase, msg, seqOf, seq, cursor, acks, readers,
                   delivered, overtaken>>

\* A failing CREATE ends the loop with the remaining rows unwritten.
LeaveFails(a) ==
    /\ leaving[a] # {}
    /\ leaving' = [leaving EXCEPT ![a] = {}]
    /\ UNCHANGED <<phase, msg, seqOf, seq, cursor, acks, left, readers,
                   delivered, overtaken>>

-----------------------------------------------------------------------------
\* Mutant of Restored: the number of rows instead of the highest number.
RestoredCount(n) == n = Cardinality(Stored)

\* query_max_local_seq: the highest local_seq of the table, 0 when it is empty.
Restored(n) ==
    /\ n \in {0} \cup {seqOf[m] : m \in Stored}
    /\ \A m \in Stored : seqOf[m] <= n

\* The daemon dies and starts again: requests, waiters and half-done leaves
\* are gone, the tables stay, and WiremsgStore::new restores the counter from
\* the highest local_seq on disk.
Restart ==
    /\ \E n \in 0 .. seq : Restored(n) /\ seq' = n
    /\ phase' = [m \in Msgs |->
                   CASE phase[m] \in {"drafted", "claimed"} -> "failed"
                     [] phase[m] = "stored" -> "announced"
                     [] OTHER -> phase[m]]
    /\ seqOf' = [m \in Msgs |-> IF m \in Stored THEN seqOf[m] ELSE 0]
    /\ leaving' = [a \in Agents |-> {}]
    /\ rpc' = [r \in Readers |-> "idle"]
    /\ base' = [r \in Readers |-> 0]
    /\ batch' = [r \in Readers |-> {}]
    /\ woken' = [r \in Readers |-> FALSE]
    /\ lastPoll' = [r \in Readers |-> FALSE]
    /\ UNCHANGED <<msg, cursor, acks, left, rfor, delivered, overtaken>>

-----------------------------------------------------------------------------
SendStep(m) ==
    \/ \E f \in Senders, to \in ToLists : NewRoot(m, f, to)
    \/ \E f \in Senders, to \in ToLists, p \in Msgs : NewReply(m, f, to, p)
    \/ ClaimSeq(m)
    \/ Insert(m)
    \/ InsertFails(m)
    \/ Announce(m)

RecvStep(r) ==
    \/ \E s \in Receivers : RecvCall(r, s)
    \/ ReadCursor(r)
    \/ FetchSome(r)
    \/ FetchNone(r)
    \/ Sleep(r)
    \/ ReturnEmpty(r)
    \/ Advance(r)
    \/ RecvFails(r)
    \/ WakeUp(r)
    \/ TimeOut(r)

LedgerStep ==
    \/ \E m \in Msgs, s \in Ackers : Ack(m, s)
    \/ \E s \in Leavers : LeaveSelect(s)
    \/ \E a \in Agents, t \in Msgs : LeaveRow(a, t)
    \/ \E a \in Agents : LeaveFails(a)

Next ==
    \/ \E m \in Msgs : SendStep(m)
    \/ \E r \in Readers : RecvStep(r)
    \/ LedgerStep
    \/ Restart

Spec == Init /\ [][Next]_vars

\* The runtime polls a ready task and a fired future: a stored message is
\* announced, and a woken request polls again.  Nothing else is assumed; in
\* particular no deadline has to pass for a sleeper to be woken.
Fairness ==
    /\ \A m \in Msgs : WF_vars(Announce(m))
    /\ \A r \in Readers : WF_vars(WakeUp(r))

FairSpec == Spec /\ Fairness

-----------------------------------------------------------------------------
(* Properties.                                                             *)

\* A local_seq names one row, also across restarts: the counter restored from
\* the table never hands out a number a surviving row or a running send has
\* (WiremsgStore::new against insert_message).
SeqNamesOneRow ==
    \A m, n \in Msgs : seqOf[m] # 0 /\ seqOf[m] = seqOf[n] => m = n

\* No cursor is ahead of the counter.  Were one ahead, every message numbered
\* up to it from now on would be born already read (recv, advance_cursor and
\* the restored counter after a crash that lost claimed numbers).
CursorWithinSeq == \A a \in Agents : cursor[a] <= seq

\* What a cursor has passed and recv never returned, for any agent, are only
\* rows whose INSERT committed after that of a row with a higher number: no
\* interleaving of receives, restarts, alias spellings or failed inserts
\* loses a message in another way (recv, fetch_unread, advance_cursor).
SkippedOnlyIfOvertaken ==
    \A a \in Agents : \A m \in Stored :
        (a \in msg[m].to /\ seqOf[m] <= cursor[a])
            => m \in delivered[a] \cup overtaken

\* What recv's comment says: because local_seq is strictly monotone, nothing a
\* cursor passes is lost.
NothingSkipped ==
    \A a \in Agents : \A m \in Stored :
        (a \in msg[m].to /\ seqOf[m] <= cursor[a]) => m \in delivered[a]

\* Receives of one agent that overlap never move its cursor back, so what one
\* of them returned is not served again by a later call (advance_cursor).
CursorNeverBack ==
    [][\A a \in Agents : cursor'[a] >= cursor[a]]_vars

\* No lost wake-up: a receive asleep while an unread message from somebody
\* else is there polls again without waiting for its deadline (the arming
\* order of wire_recv_store and the address folding of WireNotifier).
SleeperHasMail(r, m) ==
    /\ rpc[r] = "waiting"
    /\ m \in Unread(Canon[rfor[r]], cursor[Canon[rfor[r]]])
    /\ msg[m].from # Canon[rfor[r]]

NoLostWakeUp ==
    \A r \in Readers, m \in Msgs : SleeperHasMail(r, m) ~> ~SleeperHasMail(r, m)

\* What the store promises the delivery loop: see CommandLedger.
posted == Stored \cap Commands
owed == [m \in Commands |-> IF m \in posted THEN Pending(m) ELSE {}]
Ledger == INSTANCE CommandLedger
LedgerSpec == Ledger!Spec
=============================================================================
