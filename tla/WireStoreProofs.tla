--------------------------- MODULE WireStoreProofs ---------------------------
(* Proofs about the message store, for any number of agents, spellings,     *)
(* messages and readers.                                                    *)
EXTENDS WireStore, TLAPS

-----------------------------------------------------------------------------
(* The inductive invariant.                                                 *)

Numbered == {"claimed", "stored", "announced"}

\* A message has a number exactly while its request holds one, no number is
\* beyond the counter, and no two messages share one.
SeqInv ==
    /\ \A m \in Msgs : phase[m] \in Numbered <=> seqOf[m] > 0
    /\ \A m \in Msgs : seqOf[m] <= seq
    /\ SeqNamesOneRow

\* A cursor stands on a row of the table.
CursorInv ==
    \A a \in Agents : cursor[a] = 0 \/ \E m \in Stored : seqOf[m] = cursor[a]

\* A receive's copy of the cursor is no further than the cursor.
BaseInv ==
    \A r \in Readers :
        rpc[r] \in {"fetch", "advance"} => base[r] <= cursor[Canon[rfor[r]]]

\* A row that belongs in a receive's batch and is not there overtook nobody.
BatchInv ==
    \A r \in Readers :
        rpc[r] = "advance" =>
            /\ batch[r] # {}
            /\ batch[r] \subseteq Stored
            /\ \A m \in Stored :
                 (/\ Canon[rfor[r]] \in msg[m].to
                  /\ base[r] < seqOf[m]
                  /\ \E n \in batch[r] : seqOf[m] <= seqOf[n])
                 => m \in batch[r] \cup overtaken

IInv ==
    /\ TypeOK
    /\ SeqInv
    /\ CursorInv
    /\ BaseInv
    /\ BatchInv
    /\ SkippedOnlyIfOvertaken

-----------------------------------------------------------------------------
LEMMA TypeInit == Init => TypeOK
  BY AddressAssumption, MessageAssumption
  DEF Init, TypeOK, Blank, Message, Phases, RecvStates, AddressAssumption,
      MessageAssumption

\* Every step of a send request keeps the types.
LEMMA TypeSend ==
    ASSUME TypeOK, NEW m \in Msgs, SendStep(m) PROVE TypeOK'
  <1> USE AddressAssumption, MessageAssumption
      DEF AddressAssumption, MessageAssumption
  <1>1. ASSUME NEW f \in Senders, NEW to \in ToLists, NewRoot(m, f, to)
        PROVE  TypeOK'
    BY <1>1 DEF TypeOK, NewRoot, readers, Message, Phases, CanonAll
  <1>2. ASSUME NEW f \in Senders, NEW to \in ToLists, NEW p \in Msgs,
               NewReply(m, f, to, p)
        PROVE  TypeOK'
    <2>1. ReplyTo(f, to, p) \in SUBSET Agents
      BY DEF TypeOK, ReplyTo, CanonAll, Message
    <2> QED
      BY <1>2, <2>1 DEF TypeOK, NewReply, readers, Message, Phases
  <1>3. CASE ClaimSeq(m)
    BY <1>3 DEF TypeOK, ClaimSeq, readers, Phases
  <1>4. CASE Insert(m)
    BY <1>4 DEF TypeOK, Insert, readers, Phases
  <1>5. CASE InsertFails(m)
    BY <1>5 DEF TypeOK, InsertFails, readers, Phases
  <1>6. CASE Announce(m)
    BY <1>6 DEF TypeOK, Announce, Phases
  <1> QED
    BY <1>1, <1>2, <1>3, <1>4, <1>5, <1>6 DEF SendStep

\* Every step of a receive keeps the types.
LEMMA TypeRecv ==
    ASSUME TypeOK, NEW r \in Readers, RecvStep(r) PROVE TypeOK'
  <1> USE AddressAssumption DEF AddressAssumption
  <1>1. ASSUME NEW s \in Receivers, RecvCall(r, s) PROVE TypeOK'
    BY <1>1 DEF TypeOK, RecvCall, Arm, RecvStates
  <1>2. CASE ReadCursor(r)
    BY <1>2 DEF TypeOK, ReadCursor, RecvStates
  <1>3. CASE FetchSome(r)
    BY <1>3 DEF TypeOK, FetchSome, RecvStates, Unread, Stored
  <1>4. CASE FetchNone(r) \/ Sleep(r)
    BY <1>4 DEF TypeOK, FetchNone, Sleep, RecvStates
  <1>8. CASE ReturnEmpty(r)
    BY <1>8 DEF TypeOK, ReturnEmpty, Forget, RecvStates
  <1>9. CASE RecvFails(r)
    BY <1>9 DEF TypeOK, RecvFails, Forget, RecvStates
  <1>5. CASE Advance(r)
    BY <1>5 DEF TypeOK, Advance, Target, Forward, Forget, RecvStates
  <1>6. CASE WakeUp(r)
    BY <1>6 DEF TypeOK, WakeUp, Arm, RecvStates
  <1>7. CASE TimeOut(r)
    BY <1>7 DEF TypeOK, TimeOut, Arm, RecvStates
  <1> QED
    BY <1>1, <1>2, <1>3, <1>4, <1>5, <1>6, <1>7, <1>8, <1>9 DEF RecvStep

\* Acks, leaves and restarts keep the types.
LEMMA TypeLedger ==
    ASSUME TypeOK, LedgerStep PROVE TypeOK'
  <1> USE AddressAssumption DEF AddressAssumption
  <1>1. ASSUME NEW m \in Msgs, NEW s \in Ackers, Ack(m, s) PROVE TypeOK'
    BY <1>1 DEF TypeOK, Ack, readers
  <1>2. ASSUME NEW s \in Leavers, LeaveSelect(s) PROVE TypeOK'
    BY <1>2 DEF TypeOK, LeaveSelect, readers, Stored, Message
  <1>3. ASSUME NEW a \in Agents, NEW t \in Msgs, LeaveRow(a, t) PROVE TypeOK'
    BY <1>3 DEF TypeOK, LeaveRow, readers
  <1>4. ASSUME NEW a \in Agents, LeaveFails(a) PROVE TypeOK'
    BY <1>4 DEF TypeOK, LeaveFails, readers
  <1> QED
    BY <1>1, <1>2, <1>3, <1>4 DEF LedgerStep

LEMMA TypeRestart ==
    ASSUME TypeOK, Restart PROVE TypeOK'
  BY DEF TypeOK, Restart, Restored, Phases, RecvStates, Stored

\* Every variable of the store keeps its type.
THEOREM TypeCorrect == Spec => []TypeOK
  <1>1. TypeOK /\ [Next]_vars => TypeOK'
    <2> SUFFICES ASSUME TypeOK, [Next]_vars PROVE TypeOK'
      OBVIOUS
    <2>1. CASE Next
      BY <2>1, TypeSend, TypeRecv, TypeLedger, TypeRestart DEF Next
    <2>2. CASE UNCHANGED vars
      BY <2>2 DEF vars, TypeOK
    <2> QED
      BY <2>1, <2>2
  <1> QED
    BY <1>1, TypeInit, PTL DEF Spec

-----------------------------------------------------------------------------
(* Preservation of the inductive invariant, by the part of the store that   *)
(* a step works on.                                                         *)

LEMMA InvInit == Init => IInv
  <1> SUFFICES ASSUME Init PROVE IInv
    OBVIOUS
  <1>1. TypeOK
    BY TypeInit
  <1>2. Stored = {}
    BY DEF Init, Stored
  <1>3. SeqInv
    BY DEF Init, SeqInv, SeqNamesOneRow, Numbered
  <1>4. CursorInv
    BY DEF Init, CursorInv
  <1>5. BaseInv /\ BatchInv
    BY DEF Init, BaseInv, BatchInv
  <1>6. SkippedOnlyIfOvertaken
    BY <1>2 DEF SkippedOnlyIfOvertaken
  <1> QED
    BY <1>1, <1>3, <1>4, <1>5, <1>6 DEF IInv

\* A step that changes neither rows, numbers, cursors nor receives.
LEMMA InvFrame ==
    ASSUME IInv, TypeOK',
           UNCHANGED <<phase, msg, seqOf, seq, cursor, rpc, rfor, base, batch,
                       delivered, overtaken>>
    PROVE  IInv'
  BY DEF IInv, SeqInv, SeqNamesOneRow, CursorInv, BaseInv, BatchInv,
         SkippedOnlyIfOvertaken, Stored

\* Drafting: the draft is not a row yet.
LEMMA InvDraft ==
    ASSUME IInv, TypeOK', NEW m \in Msgs,
           phase[m] = "unborn",
           phase' = [phase EXCEPT ![m] = "drafted"],
           \A n \in Msgs \ {m} : msg'[n] = msg[n],
           UNCHANGED <<seqOf, seq, cursor, readers, delivered, overtaken>>
    PROVE  IInv'
  <1> USE DEF IInv, TypeOK
  <1>1. Stored' = Stored /\ m \notin Stored
    BY DEF Stored
  <1>2. \A n \in Stored : msg'[n] = msg[n]
    BY <1>1 DEF Stored
  <1>3. SeqInv'
    BY DEF SeqInv, SeqNamesOneRow, Numbered
  <1>4. CursorInv'
    BY <1>1 DEF CursorInv
  <1>5. BaseInv'
    BY DEF BaseInv, readers
  <1>6. BatchInv'
    BY <1>1, <1>2 DEF BatchInv, readers
  <1>7. SkippedOnlyIfOvertaken'
    BY <1>1, <1>2 DEF SkippedOnlyIfOvertaken
  <1> QED
    BY <1>3, <1>4, <1>5, <1>6, <1>7

LEMMA InvClaim ==
    ASSUME IInv, TypeOK', NEW m \in Msgs, ClaimSeq(m) PROVE IInv'
  <1> USE DEF IInv, TypeOK, ClaimSeq
  <1>1. Stored' = Stored /\ m \notin Stored
    BY DEF Stored
  <1>2. \A n \in Stored : seqOf'[n] = seqOf[n]
    BY <1>1 DEF Stored
  <1>3. SeqInv'
    BY DEF SeqInv, SeqNamesOneRow, Numbered
  <1>4. CursorInv'
    BY <1>1, <1>2 DEF CursorInv
  <1>5. BaseInv'
    BY DEF BaseInv, readers
  <1>6. BatchInv'
    <2>1. \A r \in Readers : rpc[r] = "advance" => batch[r] \subseteq Stored
      BY DEF BatchInv
    <2> QED
      BY <1>1, <1>2, <2>1 DEF BatchInv, readers
  <1>7. SkippedOnlyIfOvertaken'
    BY <1>1, <1>2 DEF SkippedOnlyIfOvertaken
  <1> QED
    BY <1>3, <1>4, <1>5, <1>6, <1>7

\* The commit: a row that lands behind a cursor, or behind a fetched batch,
\* lands behind a row with a higher number, so it is overtaken.
LEMMA InvInsert ==
    ASSUME IInv, TypeOK', NEW m \in Msgs, Insert(m) PROVE IInv'
  <1> USE DEF IInv, TypeOK, Insert
  <1>1. Stored' = Stored \cup {m} /\ m \notin Stored
    BY DEF Stored
  <1>2. overtaken \subseteq overtaken'
    OBVIOUS
  <1>3. \A n \in Stored : seqOf[n] # seqOf[m]
    BY <1>1 DEF SeqInv, SeqNamesOneRow, Numbered, Stored
  <1>4. \A n \in Stored : seqOf[m] <= seqOf[n] => m \in overtaken'
    <2> SUFFICES ASSUME NEW n \in Stored, seqOf[m] <= seqOf[n]
                 PROVE  m \in overtaken'
      OBVIOUS
    <2>1. seqOf[n] \in Nat /\ seqOf[m] \in Nat
      BY DEF Stored
    <2>2. seqOf[n] > seqOf[m]
      BY <1>3, <2>1
    <2> QED
      BY <2>2
  <1>5. SeqInv'
    BY DEF SeqInv, SeqNamesOneRow, Numbered
  <1>6. CursorInv'
    BY <1>1 DEF CursorInv
  <1>7. BaseInv'
    BY DEF BaseInv, readers
  <1>8. BatchInv'
    <2> SUFFICES ASSUME NEW r \in Readers, rpc[r] = "advance"
                 PROVE  /\ batch[r] # {}
                        /\ batch[r] \subseteq Stored'
                        /\ \A n \in Stored' :
                             (/\ Canon[rfor[r]] \in msg[n].to
                              /\ base[r] < seqOf[n]
                              /\ \E k \in batch[r] : seqOf[n] <= seqOf[k])
                             => n \in batch[r] \cup overtaken'
      BY DEF BatchInv, readers
    <2>1. batch[r] # {} /\ batch[r] \subseteq Stored
      BY DEF BatchInv
    <2>2. ASSUME NEW n \in Stored', Canon[rfor[r]] \in msg[n].to,
                 base[r] < seqOf[n], \E k \in batch[r] : seqOf[n] <= seqOf[k]
          PROVE  n \in batch[r] \cup overtaken'
      <3>1. CASE n = m
        BY <2>1, <2>2, <3>1, <1>4
      <3>2. CASE n # m
        BY <2>2, <3>2, <1>1, <1>2 DEF BatchInv
      <3> QED
        BY <3>1, <3>2
    <2> QED
      BY <1>1, <2>1, <2>2
  <1>9. SkippedOnlyIfOvertaken'
    <2> SUFFICES ASSUME NEW a \in Agents, NEW n \in Stored',
                        a \in msg[n].to, seqOf[n] <= cursor[a]
                 PROVE  n \in delivered[a] \cup overtaken'
      BY DEF SkippedOnlyIfOvertaken
    <2>1. CASE n # m
      BY <2>1, <1>1, <1>2 DEF SkippedOnlyIfOvertaken
    <2>2. CASE n = m
      <3>1. seqOf[m] > 0
        BY DEF SeqInv, Numbered
      <3>2. cursor[a] # 0
        BY <2>2, <3>1
      <3>3. \E k \in Stored : seqOf[k] = cursor[a]
        BY <3>2 DEF CursorInv
      <3> QED
        BY <2>2, <3>3, <1>4
    <2> QED
      BY <2>1, <2>2
  <1> QED
    BY <1>5, <1>6, <1>7, <1>8, <1>9

LEMMA InvInsertFails ==
    ASSUME IInv, TypeOK', NEW m \in Msgs, InsertFails(m) PROVE IInv'
  <1> USE DEF IInv, TypeOK, InsertFails
  <1>1. Stored' = Stored /\ m \notin Stored
    BY DEF Stored
  <1>2. \A n \in Stored : seqOf'[n] = seqOf[n]
    BY <1>1 DEF Stored
  <1>3. SeqInv'
    BY DEF SeqInv, SeqNamesOneRow, Numbered
  <1>4. CursorInv'
    BY <1>1, <1>2 DEF CursorInv
  <1>5. BaseInv'
    BY DEF BaseInv, readers
  <1>6. BatchInv'
    <2>1. \A r \in Readers : rpc[r] = "advance" => batch[r] \subseteq Stored
      BY DEF BatchInv
    <2> QED
      BY <1>1, <1>2, <2>1 DEF BatchInv, readers
  <1>7. SkippedOnlyIfOvertaken'
    BY <1>1, <1>2 DEF SkippedOnlyIfOvertaken
  <1> QED
    BY <1>3, <1>4, <1>5, <1>6, <1>7

LEMMA InvAnnounce ==
    ASSUME IInv, TypeOK', NEW m \in Msgs, Announce(m) PROVE IInv'
  <1> USE DEF IInv, TypeOK, Announce
  <1>1. Stored' = Stored
    BY DEF Stored
  <1>2. SeqInv'
    BY DEF SeqInv, SeqNamesOneRow, Numbered
  <1>3. CursorInv' /\ BaseInv'
    BY <1>1 DEF CursorInv, BaseInv
  <1>4. BatchInv'
    BY <1>1 DEF BatchInv
  <1>5. SkippedOnlyIfOvertaken'
    BY <1>1 DEF SkippedOnlyIfOvertaken
  <1> QED
    BY <1>2, <1>3, <1>4, <1>5

LEMMA InvSend ==
    ASSUME IInv, NEW m \in Msgs, SendStep(m) PROVE IInv'
  <1>1. TypeOK'
    BY TypeSend DEF IInv
  <1>2. ASSUME NEW f \in Senders, NEW to \in ToLists, NewRoot(m, f, to)
        PROVE  IInv'
    <2>1. \A n \in Msgs \ {m} : msg'[n] = msg[n]
      BY <1>2 DEF NewRoot, IInv, TypeOK
    <2> QED
      BY <1>1, <1>2, <2>1, InvDraft DEF NewRoot
  <1>3. ASSUME NEW f \in Senders, NEW to \in ToLists, NEW p \in Msgs,
               NewReply(m, f, to, p)
        PROVE  IInv'
    <2>1. \A n \in Msgs \ {m} : msg'[n] = msg[n]
      BY <1>3 DEF NewReply, IInv, TypeOK
    <2> QED
      BY <1>1, <1>3, <2>1, InvDraft DEF NewReply
  <1> QED
    BY <1>1, <1>2, <1>3, InvClaim, InvInsert, InvInsertFails, InvAnnounce
    DEF SendStep

-----------------------------------------------------------------------------
\* A receive step other than the fetch that finds something and the advance:
\* afterwards the reader holds no batch, and its cursor copy is fresh.
LEMMA InvReaderMoves ==
    ASSUME IInv, TypeOK', NEW r \in Readers,
           \A q \in Readers \ {r} : /\ rpc'[q] = rpc[q]
                                    /\ rfor'[q] = rfor[q]
                                    /\ base'[q] = base[q]
                                    /\ batch'[q] = batch[q],
           rpc'[r] # "advance",
           rpc'[r] = "fetch" => base'[r] = cursor[Canon[rfor'[r]]],
           UNCHANGED <<phase, msg, seqOf, seq, cursor, delivered, overtaken>>
    PROVE  IInv'
  <1> USE AddressAssumption DEF IInv, TypeOK, AddressAssumption
  <1>1. Stored' = Stored
    BY DEF Stored
  <1>2. SeqInv'
    BY DEF SeqInv, SeqNamesOneRow, Numbered
  <1>3. CursorInv'
    BY <1>1 DEF CursorInv
  <1>4. BaseInv'
    BY DEF BaseInv
  <1>5. BatchInv'
    BY <1>1 DEF BatchInv
  <1>6. SkippedOnlyIfOvertaken'
    BY <1>1 DEF SkippedOnlyIfOvertaken
  <1> QED
    BY <1>2, <1>3, <1>4, <1>5, <1>6

LEMMA InvFetchSome ==
    ASSUME IInv, TypeOK', NEW r \in Readers, FetchSome(r) PROVE IInv'
  <1> USE AddressAssumption DEF IInv, TypeOK, FetchSome, AddressAssumption
  <1>1. Stored' = Stored
    BY DEF Stored
  <1>2. SeqInv'
    BY DEF SeqInv, SeqNamesOneRow, Numbered
  <1>3. CursorInv'
    BY <1>1 DEF CursorInv
  <1>4. BaseInv'
    BY DEF BaseInv
  <1>5. BatchInv'
    <2>1. /\ batch'[r] # {}
          /\ batch'[r] \subseteq Stored
          /\ \A m \in Stored : (Canon[rfor[r]] \in msg[m].to /\ base[r] < seqOf[m])
                               => m \in batch'[r]
      BY DEF Unread, Stored
    <2>2. ASSUME NEW q \in Readers \ {r}
          PROVE  rpc'[q] = rpc[q] /\ batch'[q] = batch[q]
      OBVIOUS
    <2> QED
      BY <1>1, <2>1, <2>2 DEF BatchInv
  <1>6. SkippedOnlyIfOvertaken'
    BY <1>1 DEF SkippedOnlyIfOvertaken
  <1> QED
    BY <1>2, <1>3, <1>4, <1>5, <1>6

\* recv returns: everything up to the new cursor was returned now, had been
\* passed before, or is overtaken.
LEMMA InvAdvance ==
    ASSUME IInv, TypeOK', NEW r \in Readers, Advance(r) PROVE IInv'
  <1> USE AddressAssumption DEF IInv, TypeOK, AddressAssumption
  <1> DEFINE a == Canon[rfor[r]]
  <1>1. Stored' = Stored
    BY DEF Stored, Advance
  <1>2. PICK top \in batch[r] :
          /\ \A m \in batch[r] : seqOf[m] <= seqOf[top]
          /\ cursor' = [cursor EXCEPT ![a] =
                          IF @ < seqOf[top] THEN seqOf[top] ELSE @]
    <2>1. PICK n \in 0 .. seq :
            /\ Target(r, n)
            /\ cursor' = [cursor EXCEPT ![a] = Forward(@, n)]
      BY DEF Advance
    <2>2. PICK top \in batch[r] : n = seqOf[top]
      BY <2>1 DEF Target
    <2> QED
      BY <2>1, <2>2 DEF Target, Forward
  <1>3. top \in Stored /\ top \in Msgs
    BY DEF Advance, BatchInv, Stored
  <1>4. a \in Agents
    OBVIOUS
  <1>5. \A b \in Agents : cursor'[b] >= cursor[b]
    BY <1>2, <1>3, <1>4
  <1>6. SeqInv'
    BY DEF SeqInv, SeqNamesOneRow, Numbered, Advance
  <1>7. CursorInv'
    BY <1>1, <1>2, <1>3, <1>4 DEF CursorInv, Advance
  <1>8. \A q \in Readers \ {r} : /\ rpc'[q] = rpc[q]
                                 /\ rfor'[q] = rfor[q]
                                 /\ base'[q] = base[q]
                                 /\ batch'[q] = batch[q]
    BY DEF Advance, Forget
  <1>9. rpc'[r] = "idle"
    BY DEF Advance, Forget
  <1>10. BaseInv'
    <2> SUFFICES ASSUME NEW q \in Readers, rpc'[q] \in {"fetch", "advance"}
                 PROVE  base'[q] <= cursor'[Canon[rfor'[q]]]
      BY DEF BaseInv
    <2>1. q # r
      BY <1>9
    <2>2. base[q] <= cursor[Canon[rfor[q]]] /\ Canon[rfor[q]] \in Agents
      BY <1>8, <2>1 DEF BaseInv
    <2> QED
      BY <1>5, <1>8, <2>1, <2>2
  <1>11. BatchInv'
    BY <1>1, <1>8, <1>9 DEF BatchInv, Advance
  <1>12. SkippedOnlyIfOvertaken'
    <2> SUFFICES ASSUME NEW b \in Agents, NEW m \in Stored,
                        b \in msg[m].to, seqOf[m] <= cursor'[b]
                 PROVE  m \in delivered'[b] \cup overtaken
      BY <1>1 DEF SkippedOnlyIfOvertaken, Advance
    <2>1. delivered[b] \subseteq delivered'[b]
      BY DEF Advance
    <2>2. CASE seqOf[m] <= cursor[b]
      BY <2>1, <2>2 DEF SkippedOnlyIfOvertaken
    <2>3. CASE ~(seqOf[m] <= cursor[b])
      <3>1. b = a /\ cursor'[b] = seqOf[top]
        BY <1>2, <1>3, <1>4, <2>3
      <3>2. base[r] <= cursor[a]
        BY DEF BaseInv, Advance
      <3>3. base[r] < seqOf[m]
        BY <2>3, <3>1, <3>2 DEF Stored
      <3>4. m \in batch[r] \cup overtaken
        BY <1>2, <3>1, <3>3 DEF BatchInv, Advance
      <3>5. batch[r] \subseteq delivered'[b]
        BY <1>4, <3>1 DEF Advance
      <3> QED
        BY <3>4, <3>5
    <2> QED
      BY <2>2, <2>3
  <1> QED
    BY <1>6, <1>7, <1>10, <1>11, <1>12

LEMMA InvRecv ==
    ASSUME IInv, NEW r \in Readers, RecvStep(r) PROVE IInv'
  <1> USE DEF IInv
  <1>1. TypeOK'
    BY TypeRecv
  <1>2. ASSUME NEW s \in Receivers, RecvCall(r, s) PROVE IInv'
    BY <1>1, <1>2, InvReaderMoves DEF TypeOK, RecvCall, Arm
  <1>3. CASE ReadCursor(r)
    BY <1>1, <1>3, InvReaderMoves DEF TypeOK, ReadCursor
  <1>4. CASE FetchSome(r)
    BY <1>1, <1>4, InvFetchSome
  <1>5. CASE FetchNone(r) \/ Sleep(r)
    BY <1>1, <1>5, InvReaderMoves DEF TypeOK, FetchNone, Sleep
  <1>9. CASE ReturnEmpty(r) \/ RecvFails(r)
    BY <1>1, <1>9, InvReaderMoves DEF TypeOK, ReturnEmpty, RecvFails, Forget
  <1>6. CASE Advance(r)
    BY <1>1, <1>6, InvAdvance
  <1>7. CASE WakeUp(r)
    BY <1>1, <1>7, InvReaderMoves DEF TypeOK, WakeUp, Arm
  <1>8. CASE TimeOut(r)
    BY <1>1, <1>8, InvReaderMoves DEF TypeOK, TimeOut, Arm
  <1> QED
    BY <1>2, <1>3, <1>4, <1>5, <1>6, <1>7, <1>8, <1>9 DEF RecvStep

LEMMA InvLedger ==
    ASSUME IInv, LedgerStep PROVE IInv'
  <1>1. TypeOK'
    BY TypeLedger DEF IInv
  <1>2. UNCHANGED <<phase, msg, seqOf, seq, cursor, rpc, rfor, base, batch,
                    delivered, overtaken>>
    BY DEF LedgerStep, Ack, LeaveSelect, LeaveRow, LeaveFails, readers
  <1> QED
    BY <1>1, <1>2, InvFrame

\* A restart loses claimed numbers; the restored counter still covers every
\* row, hence every cursor.
LEMMA InvRestart ==
    ASSUME IInv, Restart PROVE IInv'
  <1> USE DEF IInv, TypeOK
  <1>1. TypeOK'
    BY TypeRestart
  <1>2. Stored' = Stored
    BY DEF Stored, Restart
  <1>3. \A m \in Stored : seqOf'[m] = seqOf[m] /\ seqOf[m] <= seq'
    BY DEF Restart, Restored, Stored
  <1>4. \A m \in Msgs \ Stored : seqOf'[m] = 0 /\ phase'[m] \notin Numbered
    BY DEF Restart, Stored, Numbered, Phases
  <1>5. SeqInv'
    <2>1. ASSUME NEW m \in Stored
          PROVE  m \in Msgs /\ seqOf[m] > 0 /\ phase'[m] \in Numbered
      BY DEF Stored, SeqInv, Numbered, Restart
    <2>2. seq' \in Nat
      BY <1>1
    <2> QED
      BY <1>3, <1>4, <2>1, <2>2 DEF SeqInv, SeqNamesOneRow
  <1>6. CursorInv'
    BY <1>2, <1>3 DEF CursorInv, Restart
  <1>7. BaseInv' /\ BatchInv'
    BY DEF BaseInv, BatchInv, Restart
  <1>8. SkippedOnlyIfOvertaken'
    BY <1>2, <1>3 DEF SkippedOnlyIfOvertaken, Restart
  <1> QED
    BY <1>1, <1>5, <1>6, <1>7, <1>8

-----------------------------------------------------------------------------
LEMMA InvStep == IInv /\ [Next]_vars => IInv'
  <1> SUFFICES ASSUME IInv, [Next]_vars PROVE IInv'
    OBVIOUS
  <1>1. CASE Next
    BY <1>1, InvSend, InvRecv, InvLedger, InvRestart DEF Next
  <1>2. CASE UNCHANGED vars
    <2>1. TypeOK'
      BY <1>2 DEF vars, IInv, TypeOK
    <2> QED
      BY <1>2, <2>1, InvFrame DEF vars
  <1> QED
    BY <1>1, <1>2

\* The inductive invariant holds in every reachable state.
THEOREM Invariance == Spec => []IInv
  BY InvInit, InvStep, PTL DEF Spec

\* A local_seq names one row, also across restarts and failed inserts.
THEOREM SeqUnique == Spec => []SeqNamesOneRow
  <1>1. IInv => SeqNamesOneRow
    BY DEF IInv, SeqInv
  <1> QED
    BY <1>1, Invariance, PTL

\* No cursor is ahead of the counter that numbers the next message.
THEOREM CursorBehindCounter == Spec => []CursorWithinSeq
  <1>1. IInv => CursorWithinSeq
    BY DEF IInv, TypeOK, CursorWithinSeq, CursorInv, SeqInv, Stored
  <1> QED
    BY <1>1, Invariance, PTL

\* The only messages a cursor passes unread are the overtaken ones.
THEOREM OnlyOvertakenSkipped == Spec => []SkippedOnlyIfOvertaken
  <1>1. IInv => SkippedOnlyIfOvertaken
    BY DEF IInv
  <1> QED
    BY <1>1, Invariance, PTL

\* No step moves a cursor back.
THEOREM CursorMonotone == Spec => CursorNeverBack
  <1>1. IInv /\ [Next]_vars => [\A a \in Agents : cursor'[a] >= cursor[a]]_vars
    <2> SUFFICES ASSUME IInv, Next
                 PROVE  \A a \in Agents : cursor'[a] >= cursor[a]
      BY DEF vars
    <2> USE DEF IInv, TypeOK
    <2>1. ASSUME NEW r \in Readers, Advance(r)
          PROVE  \A a \in Agents : cursor'[a] >= cursor[a]
      <3>1. batch[r] \subseteq Msgs
        OBVIOUS
      <3> QED
        BY <2>1, <3>1 DEF Advance, Target, Forward
    <2>2. CASE UNCHANGED cursor
      BY <2>2
    <2>3. (\E r \in Readers : Advance(r)) \/ UNCHANGED cursor
      BY DEF Next, SendStep, NewRoot, NewReply, ClaimSeq, Insert, InsertFails,
             Announce, RecvStep, RecvCall, ReadCursor, FetchSome, FetchNone,
             Sleep, ReturnEmpty, RecvFails,
             WakeUp, TimeOut, LedgerStep, Ack, LeaveSelect, LeaveRow,
             LeaveFails, Restart
    <2> QED
      BY <2>1, <2>2, <2>3
  <1> QED
    BY <1>1, Invariance, PTL DEF Spec, CursorNeverBack

-----------------------------------------------------------------------------
(* The store implements the ledger of commands.                             *)

\* Rows, acks and departures untouched: the ledger is.
LEMMA LedgerFrame ==
    ASSUME UNCHANGED <<phase, msg, acks, left>>
    PROVE  UNCHANGED Ledger!ledger
  BY DEF Ledger!ledger, posted, owed, Stored, Pending, LeftAgents

LEMMA LedgerSend ==
    ASSUME IInv, NEW m \in Msgs, SendStep(m)
    PROVE  [Ledger!Next]_(Ledger!ledger)
  <1> USE DEF IInv, TypeOK
  <1>1. ASSUME phase[m] = "unborn", phase'[m] = "drafted",
               \A n \in Msgs \ {m} : msg'[n] = msg[n] /\ phase'[n] = phase[n],
               UNCHANGED <<acks, left>>
        PROVE  UNCHANGED Ledger!ledger
    <2>1. Stored' = Stored /\ \A n \in Stored : msg'[n] = msg[n]
      BY <1>1 DEF Stored
    <2>2. posted' = posted /\ \A n \in posted : Pending(n)' = Pending(n)
      BY <1>1, <2>1 DEF posted, Pending, LeftAgents
    <2> QED
      BY <2>2 DEF Ledger!ledger, owed
  <1>2. ASSUME NEW f \in Senders, NEW to \in ToLists, NewRoot(m, f, to)
        PROVE  UNCHANGED Ledger!ledger
    BY <1>1, <1>2 DEF NewRoot
  <1>3. ASSUME NEW f \in Senders, NEW to \in ToLists, NEW p \in Msgs,
               NewReply(m, f, to, p)
        PROVE  UNCHANGED Ledger!ledger
    BY <1>1, <1>3 DEF NewReply
  <1>4. ASSUME Stored' = Stored, UNCHANGED <<msg, acks, left>>
        PROVE  UNCHANGED Ledger!ledger
    BY <1>4 DEF Ledger!ledger, posted, owed, Pending, LeftAgents
  <1>5. CASE ClaimSeq(m) \/ InsertFails(m) \/ Announce(m)
    <2>1. Stored' = Stored
      BY <1>5 DEF ClaimSeq, InsertFails, Announce, Stored
    <2> QED
      BY <1>4, <1>5, <2>1 DEF ClaimSeq, InsertFails, Announce
  <1>6. CASE Insert(m)
    <2>1. Stored' = Stored \cup {m} /\ m \notin Stored
      BY <1>6 DEF Insert, Stored
    <2>2. \A n \in Msgs : Pending(n)' = Pending(n)
      BY <1>6 DEF Insert, Pending, LeftAgents
    <2>3. CASE m \notin Commands
      <3>1. posted' = posted
        BY <2>1, <2>3 DEF posted
      <3>2. owed' = owed
        BY <2>2, <3>1, MessageAssumption DEF owed, posted, MessageAssumption
      <3> QED
        BY <3>1, <3>2 DEF Ledger!ledger
    <2>4. CASE m \in Commands
      <3>1. m \notin posted /\ posted' = posted \cup {m}
        BY <2>1, <2>4 DEF posted
      <3>2. Pending(m) \in SUBSET Agents
        BY DEF Pending, Message
      <3>3. owed' = [owed EXCEPT ![m] = Pending(m)]
        BY <2>2, <2>4, <3>1, MessageAssumption DEF owed, MessageAssumption
      <3>4. Ledger!Post(m)
        BY <3>1, <3>2, <3>3 DEF Ledger!Post
      <3> QED
        BY <2>4, <3>4 DEF Ledger!Next
    <2> QED
      BY <2>3, <2>4
  <1> QED
    BY <1>2, <1>3, <1>5, <1>6 DEF SendStep

LEMMA LedgerLedger ==
    ASSUME IInv, LedgerStep
    PROVE  [Ledger!Next]_(Ledger!ledger)
  <1> USE AddressAssumption, MessageAssumption
      DEF IInv, TypeOK, AddressAssumption, MessageAssumption
  <1>1. ASSUME NEW m \in Msgs, NEW s \in Ackers, Ack(m, s)
        PROVE  [Ledger!Next]_(Ledger!ledger)
    <2> DEFINE a == Canon[s]
    <2>1. posted' = posted
      BY <1>1 DEF Ack, posted, Stored
    <2>2. \A n \in Msgs : Pending(n)' = IF n = m THEN Pending(n) \ {a} ELSE Pending(n)
      BY <1>1 DEF Ack, Pending, LeftAgents
    <2>3. CASE m \in Commands /\ a \in owed[m]
      <3>1. m \in posted
        BY <2>3 DEF owed
      <3>2. owed' = [owed EXCEPT ![m] = @ \ {a}]
        BY <2>1, <2>2, <2>3, <3>1 DEF owed
      <3>3. Ledger!Settle(m, a)
        BY <2>1, <2>3, <3>2 DEF Ledger!Settle
      <3> QED
        BY <2>3, <3>3 DEF Ledger!Next
    <2>4. CASE ~(m \in Commands /\ a \in owed[m])
      <3>1. \A n \in posted : Pending(n)' = Pending(n)
        <4> SUFFICES ASSUME NEW n \in posted PROVE Pending(n)' = Pending(n)
          OBVIOUS
        <4>1. n \in Commands /\ n \in Msgs /\ owed[n] = Pending(n)
          BY DEF posted, owed
        <4>2. CASE n # m
          BY <2>2, <4>1, <4>2
        <4>3. CASE n = m
          <5>1. a \notin Pending(n)
            BY <2>4, <4>1, <4>3
          <5>2. Pending(n) \ {a} = Pending(n)
            BY <5>1
          <5> QED
            BY <2>2, <4>1, <4>3, <5>2
        <4> QED
          BY <4>2, <4>3
      <3>2. owed' = owed
        BY <2>1, <3>1 DEF owed
      <3> QED
        BY <2>1, <3>2 DEF Ledger!ledger
    <2> QED
      BY <2>3, <2>4
  <1>2. ASSUME NEW s \in Leavers, LeaveSelect(s)
        PROVE  [Ledger!Next]_(Ledger!ledger)
    BY <1>2, LedgerFrame DEF LeaveSelect
  <1>3. ASSUME NEW a \in Agents, NEW t \in Msgs, LeaveRow(a, t)
        PROVE  [Ledger!Next]_(Ledger!ledger)
    <2> DEFINE M == {m \in Commands : msg[m].root = t}
    <2>1. posted' = posted
      BY <1>3 DEF LeaveRow, posted, Stored
    <2>2. \A m \in Commands : Pending(m)' = IF m \in M THEN Pending(m) \ {a}
                                                       ELSE Pending(m)
      BY <1>3 DEF LeaveRow, Pending, LeftAgents, Message
    <2>3. owed' = [m \in Commands |-> IF m \in M THEN owed[m] \ {a} ELSE owed[m]]
      BY <2>1, <2>2 DEF owed
    <2>4. Ledger!Depart(a, M)
      BY <2>1, <2>3 DEF Ledger!Depart
    <2> QED
      BY <2>4 DEF Ledger!Next
  <1>4. ASSUME NEW a \in Agents, LeaveFails(a)
        PROVE  [Ledger!Next]_(Ledger!ledger)
    BY <1>4, LedgerFrame DEF LeaveFails
  <1> QED
    BY <1>1, <1>2, <1>3, <1>4 DEF LedgerStep

LEMMA LedgerRestart ==
    ASSUME IInv, Restart PROVE UNCHANGED Ledger!ledger
  <1>1. Stored' = Stored
    BY DEF IInv, TypeOK, Restart, Stored
  <1>2. UNCHANGED <<msg, acks, left>>
    BY DEF Restart
  <1> QED
    BY <1>1, <1>2 DEF Ledger!ledger, posted, owed, Pending, LeftAgents

\* The store implements CommandLedger: a stored command stays owed until its
\* recipient acks it or leaves, whatever else happens.
THEOREM StoreImplementsLedger == Spec => LedgerSpec
  <1>1. Init => Ledger!Init
    BY DEF Init, Ledger!Init, posted, owed, Stored
  <1>2. IInv /\ [Next]_vars => [Ledger!Next]_(Ledger!ledger)
    <2> SUFFICES ASSUME IInv, [Next]_vars
                 PROVE  [Ledger!Next]_(Ledger!ledger)
      OBVIOUS
    <2>1. ASSUME NEW r \in Readers, RecvStep(r)
          PROVE  UNCHANGED <<phase, msg, acks, left>>
      BY <2>1 DEF RecvStep, RecvCall, ReadCursor, FetchSome, FetchNone,
             Sleep, ReturnEmpty, RecvFails,
                  Advance, WakeUp, TimeOut
    <2>2. CASE UNCHANGED vars
      BY <2>2, LedgerFrame DEF vars
    <2> QED
      BY <2>1, <2>2, LedgerSend, LedgerLedger, LedgerRestart, LedgerFrame
      DEF Next
  <1> QED
    BY <1>1, <1>2, Invariance, PTL DEF Spec, LedgerSpec, Ledger!Spec
=============================================================================
