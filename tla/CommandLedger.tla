---------------------------- MODULE CommandLedger ----------------------------
(***************************************************************************)
(* What the message store promises the delivery loop about commands        *)
(* (decision D3 of capability/wiremsg_store.rs: the ack ledger does not    *)
(* depend on cursors): a command that was stored stays owed by each of its *)
(* recipients until that recipient acks it or leaves its thread.  Reading, *)
(* cursors, failures and restarts of the daemon change nothing.            *)
(*                                                                         *)
(* WireStore implements this specification; WireDelivery runs against it.  *)
(***************************************************************************)
CONSTANTS Commands,  \* the command messages
          Agents     \* their possible recipients

VARIABLES posted,    \* the commands whose row exists
          owed       \* who still owes an ack of each of them

ledger == <<posted, owed>>

Init == posted = {} /\ owed = [m \in Commands |-> {}]

\* A command is stored, owed by some of its recipients.
Post(m) ==
    /\ m \notin posted
    /\ posted' = posted \cup {m}
    /\ \E S \in SUBSET Agents : owed' = [owed EXCEPT ![m] = S]

\* One recipient acks one command.
Settle(m, a) ==
    /\ a \in owed[m]
    /\ owed' = [owed EXCEPT ![m] = @ \ {a}]
    /\ UNCHANGED posted

\* One recipient leaves the threads of some commands.
Depart(a, M) ==
    /\ owed' = [m \in Commands |-> IF m \in M THEN owed[m] \ {a} ELSE owed[m]]
    /\ UNCHANGED posted

Next ==
    \/ \E m \in Commands : Post(m)
    \/ \E m \in Commands, a \in Agents : Settle(m, a)
    \/ \E a \in Agents, M \in SUBSET Commands : Depart(a, M)

Spec == Init /\ [][Next]_ledger
=============================================================================
