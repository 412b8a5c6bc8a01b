---------------------------- MODULE CodexHostProofs ----------------------------
(* Proofs about the Codex host, for any prompts, questions, operations and   *)
(* native queues, and whatever the server answers.                          *)
EXTENDS CodexHost, Integers, FiniteSetTheorems, TLAPS

--------------------------------------------------------------------------------
(* A waiting prompt is stranded by a refused answer only.                    *)

\* Steps of the server and of the other tasks leave the host's copy of the
\* turn, its prompts and its reader alone.
LEMMA ElsewhereKeepsIdleDrains ==
    ASSUME IdleDrains, UNCHANGED <<host, reader>>
    PROVE  IdleDrains'
  BY DEF IdleDrains, host

\* The reader's lines: before each of them no prompt waits on an idle host.
LEMMA ReaderKeepsIdleDrains ==
    ASSUME IdleDrains, Reader
    PROVE  IdleDrains' \/ AnswerReply
  <1> USE DEF IdleDrains, Take, TakeNotice, Aside
  <1>1. CASE AdoptThread
    BY <1>1 DEF AdoptThread
  <1>2. CASE FailStartup
    BY <1>2 DEF FailStartup
  <1>3. CASE QueueChanged
    BY <1>3 DEF QueueChanged
  <1>4. CASE TurnStarted
    BY <1>4 DEF TurnStarted
  <1>5. CASE TurnCompleted
    BY <1>5 DEF TurnCompleted
  <1>6. CASE PageRead
    BY <1>6 DEF PageRead
  <1>7. CASE OpAnswered
    BY <1>7 DEF OpAnswered
  <1>8. CASE TurnReply
    BY <1>8 DEF TurnReply
  <1>9. CASE Drain
    BY <1>9 DEF Drain, Write
  <1>10. CASE ReaderRefresh
    BY <1>10 DEF ReaderRefresh, host
  <1> QED
    BY <1>1, <1>2, <1>3, <1>4, <1>5, <1>6, <1>7, <1>8, <1>9, <1>10 DEF Reader

LEMMA UserKeepsIdleDrains ==
    ASSUME IdleDrains, User
    PROVE  IdleDrains'
  <1> USE DEF IdleDrains, host, tasks
  <1>1. CASE RequestHistory
    BY <1>1 DEF RequestHistory
  <1>2. CASE Interrupt
    BY <1>2 DEF Interrupt
  <1>3. ASSUME NEW c \in Callers,
               Control(c) \/ ControlRefresh(c) \/ OpLost(c)
        PROVE  IdleDrains'
    BY <1>3 DEF Control, ControlRefresh, OpLost
  <1>4. ASSUME NEW c \in Callers, NEW kind \in Settings, ChangeSettings(c, kind)
        PROVE  IdleDrains'
    BY <1>4 DEF ChangeSettings
  <1>5. ASSUME NEW p \in Prompts, Submit(p) PROVE IdleDrains'
    BY <1>5 DEF Submit, Write
  <1>6. ASSUME NEW p \in Prompts, SubmitBroken(p) PROVE IdleDrains'
    BY <1>6 DEF SubmitBroken
  <1>7. ASSUME NEW q \in Questions, Answer(q) PROVE IdleDrains'
    BY <1>7 DEF Answer, Write
  <1>8. ASSUME NEW q \in Questions, Dismiss(q) PROVE IdleDrains'
    BY <1>8 DEF Dismiss
  <1> QED
    BY <1>1, <1>2, <1>3, <1>4, <1>5, <1>6, <1>7, <1>8 DEF User

\* What the server and the queue machinery do changes no part of the host.
LEMMA ServerLeavesHost ==
    ASSUME \/ Worker \/ WorkerLost
           \/ \E x \in Owners : Served(x)
           \/ \E c \in Callers : Operation(c)
           \/ \E q \in Questions : Outcome(q)
           \/ TurnEnds \/ QueueRuns \/ OtherClient
    PROVE  UNCHANGED <<host, reader>>
  <1>1. CASE Worker \/ WorkerLost
    BY <1>1 DEF Worker, WorkerBegin, WorkerAsk, WorkerCutOff, WorkerEnd,
                WorkerLost
  <1>2. ASSUME NEW x \in Owners, Served(x) PROVE UNCHANGED <<host, reader>>
    BY <1>2 DEF Served, ServeList, ServeEdit, ServeStart, ServeSteer, ServeTurn,
                ServeSettings, Refuse, ServeInterrupt, Serve, tasks
  <1>3. ASSUME NEW c \in Callers, Operation(c) PROVE UNCHANGED <<host, reader>>
    BY <1>3 DEF Operation, SendSettings, OpCutOff, OpEnd, OpRefresh
  <1>4. ASSUME NEW q \in Questions, Outcome(q) PROVE UNCHANGED <<host, reader>>
    BY <1>4 DEF Outcome, AnswerEnd, AnswerUnknown
  <1>5. CASE TurnEnds \/ QueueRuns \/ OtherClient
    BY <1>5 DEF TurnEnds, QueueRuns, OtherClient, tasks
  <1> QED
    BY <1>1, <1>2, <1>3, <1>4, <1>5

\* Whatever happens, an idle host with prompts waiting is about to drain them,
\* unless the step is the reply to an answer.
THEOREM RefusalAloneStrands == Spec => OnlyRefusalStrands
  <1>1. [Next]_vars => (IdleDrains => IdleDrains' \/ AnswerReply)
    <2> SUFFICES ASSUME [Next]_vars, IdleDrains
                 PROVE  IdleDrains' \/ AnswerReply
      OBVIOUS
    <2>1. CASE RetireBrokenWriter \/ StdoutCloses \/ Stop
      BY <2>1 DEF RetireBrokenWriter, StdoutCloses, Stop, GiveUp, IdleDrains
    <2>2. CASE UNCHANGED vars
      BY <2>2 DEF vars, IdleDrains
    <2> QED
      BY <2>1, <2>2, ServerLeavesHost, ElsewhereKeepsIdleDrains,
         ReaderKeepsIdleDrains, UserKeepsIdleDrains DEF Next
  <1> QED
    BY <1>1, PTL DEF Spec, OnlyRefusalStrands

--------------------------------------------------------------------------------
(* No prompt is sent while settings change.                                  *)

Stages == {"new", "asked", "next", "applying", "await", "over", "refresh", "done"}

PartsOK ==
    /\ queue \in Seq(Prompts)
    /\ writes \in [Prompts \cup Questions -> Int]
    /\ op \in [Callers -> [kind : OnQueue \cup Settings \cup {"none", "refresh"},
                           at : Stages]]

\* The operation has set busy and has not yet cleared it.
Holding(c) == op[c].at \in {"asked", "next", "applying", "await", "over"}

\* The flag stands for one operation, ...
OneHolder ==
    /\ \A c \in Callers : Holding(c) => busy
    /\ \A c, d \in Callers : Holding(c) /\ Holding(d) => c = d

\* ... and one that changes settings began with no prompt waiting.
NoneWaits ==
    \A c \in Callers : Holding(c) /\ op[c].kind \in Settings => queue = <<>>

PInv == PartsOK /\ OneHolder /\ NoneWaits

LEMMA PInvInit == Init => PInv
  BY DEF Init, PInv, PartsOK, OneHolder, NoneWaits, Holding, Stages

\* Nothing the invariant speaks of changes.
LEMMA PInvFrame ==
    ASSUME PInv, UNCHANGED <<queue, writes, op, busy>>
    PROVE  PInv'
  BY DEF PInv, PartsOK, OneHolder, NoneWaits, Holding

\* An operation begins: none was under way.
LEMMA PInvBegin ==
    ASSUME PInv, NEW c \in Callers, ~busy, busy',
           NEW kind \in OnQueue \cup Settings, Begin(c, kind),
           kind \in Settings => queue = <<>>,
           UNCHANGED <<queue, writes>>
    PROVE  PInv'
  <1> USE DEF PInv, Begin
  <1>1. PartsOK'
    BY DEF PartsOK, Stages
  <1>2. \A d \in Callers : Holding(d)' => d = c
    BY DEF OneHolder, Holding, PartsOK
  <1>3. OneHolder'
    BY <1>2 DEF OneHolder
  <1>4. NoneWaits'
    <2>1. op'[c].kind = kind
      BY DEF PartsOK
    <2> QED
      BY <1>2, <2>1 DEF NoneWaits
  <1> QED
    BY <1>1, <1>3, <1>4

\* An operation goes on: it neither starts holding nor changes its kind.
LEMMA PInvGoto ==
    ASSUME PInv, NEW c, NEW at \in Stages, Goto(c, at),
           c \in Callers /\ at \in {"asked", "next", "applying", "await", "over"}
               => Holding(c),
           UNCHANGED <<queue, writes, busy>>
    PROVE  PInv'
  <1> USE DEF PInv, Goto
  <1>1. PartsOK'
    BY DEF PartsOK
  <1>2. \A d \in Callers : (Holding(d)' => Holding(d)) /\ op'[d].kind = op[d].kind
    BY DEF Holding, PartsOK
  <1>3. OneHolder'
    BY <1>2 DEF OneHolder
  <1>4. NoneWaits'
    BY <1>2 DEF NoneWaits
  <1> QED
    BY <1>1, <1>3, <1>4

\* An operation ends: it was the only one.
LEMMA PInvEnd ==
    ASSUME PInv, NEW c \in Callers, OpEnd(c) PROVE PInv'
  <1> USE DEF PInv, Goto
  <1>1. PICK at \in {"refresh", "done"} : op' = [op EXCEPT ![c].at = at]
    BY DEF OpEnd
  <1>2. PartsOK'
    BY <1>1 DEF OpEnd, PartsOK, Stages, host
  <1>3. Holding(c)
    BY DEF OpEnd, Holding
  <1>4. \A d \in Callers : ~Holding(d)'
    BY <1>1, <1>3 DEF OneHolder, Holding, PartsOK
  <1> QED
    BY <1>2, <1>4 DEF OneHolder, NoneWaits

\* The queue or the counts change while no operation holds the flag, or the
\* queue only shrinks.
LEMMA PInvPrompt ==
    ASSUME PInv, PartsOK', UNCHANGED <<op, busy>>,
           busy => queue' = queue \/ queue' = <<>> \/ queue # <<>>
    PROVE  PInv'
  BY DEF PInv, OneHolder, NoneWaits, Holding

LEMMA PInvUser == ASSUME PInv, User PROVE PInv'
  <1> USE DEF host, flags, tasks
  <1>1. CASE RequestHistory
    BY <1>1, PInvFrame DEF RequestHistory
  <1>2. CASE Interrupt
    <2>1. queue' = <<>> /\ UNCHANGED <<op, busy, writes>>
      BY <1>2 DEF Interrupt
    <2>2. PartsOK'
      BY <2>1 DEF PInv, PartsOK
    <2> QED
      BY <2>1, <2>2, PInvPrompt
  <1>3. ASSUME NEW c \in Callers, Control(c) PROVE PInv'
    <2>1. PICK x \in Allowed : Begin(c, x.kind)
      BY <1>3 DEF Control
    <2>2. x.kind \in OnQueue /\ x.kind \notin Settings
      BY DEF Allowed, OnQueue, Edits, Settings
    <2> QED
      BY <1>3, <2>1, <2>2, PInvBegin DEF Control
  <1>4. ASSUME NEW c \in Callers, ControlRefresh(c) PROVE PInv'
    <2> USE DEF PInv, ControlRefresh
    <2>1. PartsOK'
      BY <1>4 DEF PartsOK, Stages
    <2>2. \A d \in Callers :
            Holding(d)' => Holding(d) /\ op'[d].kind = op[d].kind
      BY <1>4 DEF Holding, PartsOK
    <2> QED
      BY <1>4, <2>1, <2>2 DEF OneHolder, NoneWaits
  <1>5. ASSUME NEW c \in Callers, OpLost(c) PROVE PInv'
    BY <1>5, PInvGoto DEF OpLost, Working, Holding, Stages
  <1>6. ASSUME NEW c \in Callers, NEW kind \in Settings, ChangeSettings(c, kind)
        PROVE  PInv'
    BY <1>6, PInvBegin DEF ChangeSettings, Quiet
  <1>7. ASSUME NEW p \in Prompts, Submit(p) PROVE PInv'
    <2>1. PartsOK'
      <3>1. op' = op
        BY <1>7 DEF Submit
      <3>2. queue' \in Seq(Prompts)
        <4>1. queue' = queue \/ queue' = Append(queue, p)
          BY <1>7 DEF Submit
        <4> QED
          BY <4>1 DEF PInv, PartsOK
      <3>3. writes' = writes \/ writes' = [writes EXCEPT ![p] = @ + 1]
        BY <1>7 DEF Submit, Write
      <3>4. writes' \in [Prompts \cup Questions -> Int]
        BY <3>3 DEF PInv, PartsOK
      <3> QED
        BY <3>1, <3>2, <3>4 DEF PInv, PartsOK
    <2> QED
      BY <1>7, <2>1, PInvPrompt DEF Submit
  <1>8. ASSUME NEW p \in Prompts, SubmitBroken(p) PROVE PInv'
    BY <1>8, PInvFrame DEF SubmitBroken
  <1>9. ASSUME NEW q \in Questions, Answer(q) PROVE PInv'
    <2>1. PartsOK'
      BY <1>9 DEF Answer, Write, PInv, PartsOK
    <2> QED
      BY <1>9, <2>1, PInvPrompt DEF Answer
  <1>10. ASSUME NEW q \in Questions, Dismiss(q) PROVE PInv'
    BY <1>10, PInvFrame DEF Dismiss
  <1> QED
    BY <1>1, <1>2, <1>3, <1>4, <1>5, <1>6, <1>7, <1>8, <1>9, <1>10 DEF User

LEMMA PInvReader == ASSUME PInv, Reader PROVE PInv'
  <1> USE DEF Take, TakeNotice, Aside, host, server
  <1>1. CASE \/ AdoptThread \/ QueueChanged \/ TurnStarted \/ TurnCompleted
             \/ PageRead \/ TurnReply \/ AnswerReply \/ ReaderRefresh
    BY <1>1, PInvFrame
    DEF AdoptThread, QueueChanged, TurnStarted, TurnCompleted, PageRead,
        TurnReply, AnswerReply, ReaderRefresh
  <1>2. CASE FailStartup
    <2>1. queue' = <<>> /\ UNCHANGED <<op, busy, writes>>
      BY <1>2 DEF FailStartup
    <2>2. PartsOK'
      BY <2>1 DEF PInv, PartsOK
    <2> QED
      BY <2>1, <2>2, PInvPrompt
  <1>3. CASE OpAnswered
    <2> DEFINE m == Head(out)  c == m.by  at == Answered(op[c], m)
    <2>1. Goto(c, at) /\ UNCHANGED <<queue, writes, busy>>
      BY <1>3 DEF OpAnswered
    <2>2. CASE c \in Callers
      <3>1. at \in Stages
        BY <2>2 DEF PInv, PartsOK, Answered, Stages
      <3>2. at \in {"asked", "next", "applying", "await", "over"} => Holding(c)
        BY <2>2 DEF PInv, PartsOK, Answered, Holding, Stages
      <3> HIDE DEF c, at
      <3> QED
        BY <2>1, <2>2, <3>1, <3>2, PInvGoto
    <2>3. CASE c \notin Callers
      <3>1. op' = op
        BY <2>1, <2>3 DEF Goto, PInv, PartsOK
      <3> QED
        BY <2>1, <3>1, PInvFrame
    <2> QED
      BY <2>2, <2>3
  <1>4. CASE Drain
    <2>1. PartsOK'
      <3>1. CASE queue = <<>>
        BY <1>4, <3>1 DEF Drain, PInv, PartsOK, tasks
      <3>2. CASE queue # <<>>
        <4>1. Tail(queue) \in Seq(Prompts) /\ Head(queue) \in Prompts
          BY <3>2 DEF PInv, PartsOK
        <4> QED
          <5>1. op' = op
            BY <1>4 DEF Drain
          <5>2. queue' \in Seq(Prompts)
            BY <1>4, <4>1 DEF Drain, PInv, PartsOK
          <5>3. \/ writes' = writes
                \/ writes' = [writes EXCEPT ![Head(queue)] = @ + 1]
            BY <1>4 DEF Drain, Write
          <5>4. writes' \in [Prompts \cup Questions -> Int]
            BY <4>1, <5>3 DEF PInv, PartsOK
          <5> QED
            BY <5>1, <5>2, <5>4 DEF PInv, PartsOK
      <3> QED
        BY <3>1, <3>2
    <2>2. UNCHANGED <<op, busy>> /\ (queue' = queue \/ queue # <<>>)
      BY <1>4 DEF Drain, flags
    <2> QED
      BY <2>1, <2>2, PInvPrompt
  <1> QED
    BY <1>1, <1>2, <1>3, <1>4 DEF Reader

LEMMA PInvOther ==
    ASSUME PInv,
           \/ Worker \/ WorkerLost
           \/ \E x \in Owners : Served(x)
           \/ \E c \in Callers : Operation(c)
           \/ \E q \in Questions : Outcome(q)
           \/ TurnEnds \/ QueueRuns \/ OtherClient
           \/ RetireBrokenWriter \/ StdoutCloses \/ Stop
    PROVE  PInv'
  <1> USE DEF host, flags, tasks
  <1>1. CASE Worker \/ WorkerLost
    BY <1>1, PInvFrame DEF Worker, WorkerBegin, WorkerAsk, WorkerCutOff,
                           WorkerEnd, WorkerLost
  <1>2. ASSUME NEW x \in Owners, Served(x) PROVE PInv'
    <2>1. UNCHANGED <<queue, writes, op, busy>>
      BY <1>2 DEF Served, ServeList, ServeEdit, ServeStart, ServeSteer,
                  ServeTurn, ServeSettings, Refuse, ServeInterrupt, Serve
    <2> QED
      BY <2>1, PInvFrame
  <1>3. ASSUME NEW c \in Callers, Operation(c) PROVE PInv'
    <2>1. CASE SendSettings(c)
      <3>1. PICK at \in {"over", "applying"} : Goto(c, at)
        BY <2>1 DEF SendSettings
      <3> QED
        BY <2>1, <3>1, PInvGoto DEF SendSettings, Holding, Stages
    <2>2. CASE OpCutOff(c)
      BY <2>2, PInvGoto DEF OpCutOff, Working, Holding, Stages
    <2>3. CASE OpRefresh(c)
      BY <2>3, PInvGoto DEF OpRefresh, Holding, Stages
    <2> QED
      BY <1>3, <2>1, <2>2, <2>3, PInvEnd DEF Operation
  <1>4. ASSUME NEW q \in Questions, Outcome(q) PROVE PInv'
    <2>1. UNCHANGED <<queue, op, busy>>
      BY <1>4 DEF Outcome, AnswerEnd, AnswerUnknown
    <2>2. PartsOK'
      BY <1>4 DEF Outcome, AnswerEnd, AnswerUnknown, PInv, PartsOK
    <2> QED
      BY <2>1, <2>2, PInvPrompt
  <1>5. CASE TurnEnds \/ QueueRuns \/ OtherClient
    BY <1>5, PInvFrame DEF TurnEnds, QueueRuns, OtherClient
  <1>6. CASE RetireBrokenWriter \/ StdoutCloses
    BY <1>6, PInvFrame DEF RetireBrokenWriter, StdoutCloses
  <1>7. CASE Stop
    <2>1. queue' = <<>> /\ UNCHANGED <<op, busy, writes>>
      BY <1>7 DEF Stop
    <2>2. PartsOK'
      BY <2>1 DEF PInv, PartsOK
    <2> QED
      BY <2>1, <2>2, PInvPrompt
  <1> QED
    BY <1>1, <1>2, <1>3, <1>4, <1>5, <1>6, <1>7

LEMMA PInvStep == PInv /\ [Next]_vars => PInv'
  <1> SUFFICES ASSUME PInv, [Next]_vars PROVE PInv'
    OBVIOUS
  <1>1. CASE UNCHANGED vars
    BY <1>1, PInvFrame DEF vars
  <1> QED
    BY <1>1, PInvUser, PInvReader, PInvOther DEF Next

\* A prompt's count grows in Submit and Drain only; submit() waits for the flag
\* and a drained prompt was waiting.
LEMMA WrittenWhileFree ==
    ASSUME PInv, Next, NEW p \in Prompts, writes'[p] > writes[p],
           NEW c \in Callers, op[c].kind \in Settings, Working(c)
    PROVE  FALSE
  <1> USE KindsAssumption DEF KindsAssumption, PInv, PartsOK
  <1>1. busy /\ queue = <<>>
    BY DEF OneHolder, NoneWaits, Holding, Working
  <1>2. writes' # writes
    OBVIOUS
  <1>3. \A r \in Prompts : ~Submit(r)
    BY <1>1 DEF Submit
  <1>4. ~Drain
    BY <1>1, <1>2 DEF Drain
  <1>5. ASSUME NEW q \in Questions, Answer(q) \/ Outcome(q) PROVE FALSE
    BY <1>5 DEF Answer, Write, Outcome, AnswerEnd, AnswerUnknown
  <1>6. CASE User
    BY <1>2, <1>3, <1>5, <1>6 DEF User, RequestHistory, Interrupt, Control,
       ControlRefresh, OpLost, ChangeSettings, SubmitBroken, Dismiss
  <1>7. CASE Reader
    BY <1>2, <1>4, <1>7
    DEF Reader, AdoptThread, FailStartup, QueueChanged, TurnStarted,
        TurnCompleted, PageRead, OpAnswered, TurnReply, AnswerReply,
        ReaderRefresh, Aside
  <1>8. ASSUME NEW x \in Owners, Served(x) PROVE FALSE
    BY <1>2, <1>8 DEF Served, ServeList, ServeEdit, ServeStart, ServeSteer,
       ServeTurn, ServeSettings, Refuse, ServeInterrupt, Serve
  <1>9. CASE Worker \/ WorkerLost \/ TurnEnds \/ QueueRuns \/ OtherClient
             \/ RetireBrokenWriter \/ StdoutCloses \/ Stop
    BY <1>2, <1>9 DEF Worker, WorkerBegin, WorkerAsk, WorkerCutOff, WorkerEnd,
       WorkerLost, TurnEnds, QueueRuns, OtherClient, RetireBrokenWriter,
       StdoutCloses, Stop
  <1>10. ASSUME NEW d \in Callers, Operation(d) PROVE FALSE
    BY <1>2, <1>10 DEF Operation, SendSettings, OpCutOff, OpEnd, OpRefresh
  <1> QED
    BY <1>5, <1>6, <1>7, <1>8, <1>9, <1>10 DEF Next

\* No prompt leaves for the server while settings are being changed.
THEOREM SettingsBeforePrompts == Spec => PromptsWaitForSettings
  <1>1. PInv /\ [Next]_vars =>
          [\A p \in Prompts :
             writes'[p] > writes[p] =>
               ~ \E c \in Callers : op[c].kind \in Settings /\ Working(c)]_vars
    BY WrittenWhileFree
  <1> QED
    BY <1>1, PInvInit, PInvStep, PTL DEF Spec, PromptsWaitForSettings

--------------------------------------------------------------------------------
(* Nothing is sent twice.                                                    *)

Outcomes == {"live", "responding", "taken", "refused", "unknown", "gone"}

\* A prompt waits once, after it was given and before it is written, ...
WaitsOnce ==
    /\ \A i, j \in 1 .. Len(queue) : queue[i] = queue[j] => i = j
    /\ \A i \in 1 .. Len(queue) : queue[i] \in submitted /\ writes[queue[i]] <= 0
    /\ \A p \in Prompts \ submitted : writes[p] <= 0

\* ... and an answer may be tried only while none counts as written.
TriedOnce ==
    /\ question \in [Questions -> Outcomes]
    /\ \A q \in Questions : question[q] = "live" => writes[q] <= 0

NInv == WaitsOnce /\ TriedOnce /\ NeverResent

LEMMA NInvInit == Init => NInv
  BY DEF Init, NInv, WaitsOnce, TriedOnce, NeverResent, Outcomes

LEMMA NInvFrame ==
    ASSUME NInv, UNCHANGED <<queue, writes, submitted, question>>
    PROVE  NInv'
  BY DEF NInv, WaitsOnce, TriedOnce, NeverResent

\* Prompts that waited are thrown away.
LEMMA NInvCleared ==
    ASSUME NInv, queue' = <<>>, UNCHANGED <<writes, submitted, question>>
    PROVE  NInv'
  BY DEF NInv, WaitsOnce, TriedOnce, NeverResent

LEMMA NInvSubmit ==
    ASSUME PInv, NInv, NEW p \in Prompts, Submit(p) \/ SubmitBroken(p)
    PROVE  NInv'
  <1> USE KindsAssumption DEF KindsAssumption
  <1>1. /\ p \notin submitted /\ submitted' = submitted \cup {p} /\ question' = question
        /\ \/ queue' = Append(queue, p) /\ writes' = writes
           \/ queue' = queue /\ writes' = [writes EXCEPT ![p] = @ + 1]
           \/ queue' = queue /\ writes' = writes
    BY DEF Submit, SubmitBroken, Write, tasks
  <1>2. queue \in Seq(Prompts) /\ writes \in [Prompts \cup Questions -> Int]
    BY DEF PInv, PartsOK
  <1>3. \A i \in 1 .. Len(queue) : queue[i] # p
    BY <1>1 DEF NInv, WaitsOnce
  <1>4. CASE queue' = Append(queue, p) /\ writes' = writes
    <2>1. /\ Len(queue') = Len(queue) + 1 /\ queue'[Len(queue) + 1] = p
          /\ \A i \in 1 .. Len(queue) : queue'[i] = queue[i]
      BY <1>2, <1>4
    <2>2. writes[p] <= 0
      BY <1>1 DEF NInv, WaitsOnce
    <2>3. \A i \in 1 .. Len(queue') : i \in 1 .. Len(queue) \/ (i = Len(queue) + 1 /\ queue'[i] = p)
      BY <1>2, <2>1
    <2>4. WaitsOnce'
      <3>1. \A i, j \in 1 .. Len(queue') : queue'[i] = queue'[j] => i = j
        BY <1>3, <2>1, <2>3 DEF NInv, WaitsOnce
      <3>2. \A i \in 1 .. Len(queue') : queue'[i] \in submitted' /\ writes'[queue'[i]] <= 0
        BY <1>1, <1>4, <2>1, <2>2, <2>3 DEF NInv, WaitsOnce
      <3> QED
        BY <1>1, <1>4, <3>1, <3>2 DEF NInv, WaitsOnce
    <2> QED
      BY <1>1, <1>4, <2>4 DEF NInv, TriedOnce, NeverResent
  <1>5. CASE queue' = queue /\ writes' = [writes EXCEPT ![p] = @ + 1]
    <2>1. \A x \in Prompts \cup Questions : x # p => writes'[x] = writes[x]
      BY <1>2, <1>5
    <2>2. writes'[p] <= 1
      BY <1>1, <1>2, <1>5 DEF NInv, WaitsOnce
    <2>3. \A i \in 1 .. Len(queue) : queue[i] \in Prompts
      BY <1>2
    <2>4. WaitsOnce'
      BY <1>1, <1>3, <1>5, <2>1, <2>3 DEF NInv, WaitsOnce
    <2>5. TriedOnce' /\ NeverResent'
      BY <1>1, <2>1, <2>2 DEF NInv, TriedOnce, NeverResent
    <2> QED
      BY <2>4, <2>5 DEF NInv
  <1>6. CASE queue' = queue /\ writes' = writes
    BY <1>1, <1>6 DEF NInv, WaitsOnce, TriedOnce, NeverResent
  <1> QED
    BY <1>1, <1>4, <1>5, <1>6

LEMMA NInvDrain ==
    ASSUME PInv, NInv, Drain
    PROVE  NInv'
  <1> USE KindsAssumption DEF KindsAssumption
  <1>1. /\ UNCHANGED <<submitted, question>>
        /\ \/ UNCHANGED <<queue, writes>>
           \/ /\ queue # <<>> /\ queue' = Tail(queue)
              /\ writes' = [writes EXCEPT ![Head(queue)] = @ + 1]
    BY DEF Drain, Write
  <1>2. CASE UNCHANGED <<queue, writes>>
    BY <1>1, <1>2, NInvFrame
  <1>3. CASE /\ queue # <<>> /\ queue' = Tail(queue)
             /\ writes' = [writes EXCEPT ![Head(queue)] = @ + 1]
    <2> DEFINE p == Head(queue)
    <2>1. queue \in Seq(Prompts) /\ writes \in [Prompts \cup Questions -> Int]
      BY DEF PInv, PartsOK
    <2>2. /\ p = queue[1] /\ p \in Prompts /\ 1 \in 1 .. Len(queue)
          /\ Len(queue') = Len(queue) - 1
          /\ \A i \in 1 .. Len(queue') : queue'[i] = queue[i + 1] /\ i + 1 \in 1 .. Len(queue)
      BY <1>3, <2>1
    <2>3. p \in submitted /\ writes[p] <= 0
      BY <2>2 DEF NInv, WaitsOnce
    <2> HIDE DEF p
    <2>4. writes'[p] <= 1 /\ \A x \in Prompts \cup Questions : x # p => writes'[x] = writes[x]
      BY <1>3, <2>1, <2>2, <2>3 DEF p
    <2>0. ASSUME NEW i \in 1 .. Len(queue), NEW j \in 1 .. Len(queue), queue[i] = queue[j] PROVE i = j
      BY <2>0 DEF NInv, WaitsOnce
    <2>5. ASSUME NEW i \in 1 .. Len(queue') PROVE queue'[i] # p /\ queue'[i] \in Prompts
      <3>1. i + 1 \in 1 .. Len(queue) /\ i + 1 # 1 /\ queue'[i] = queue[i + 1]
        BY <2>2
      <3>2. queue[i + 1] # queue[1]
        BY <2>0, <2>2, <3>1
      <3> QED
        BY <2>1, <2>2, <3>1, <3>2
    <2>6. WaitsOnce'
      <3>1. ASSUME NEW i \in 1 .. Len(queue'), NEW j \in 1 .. Len(queue'), queue'[i] = queue'[j] PROVE i = j
        <4>1. /\ i + 1 \in 1 .. Len(queue) /\ j + 1 \in 1 .. Len(queue)
              /\ queue[i + 1] = queue[j + 1]
          BY <2>2, <3>1
        <4>2. i + 1 = j + 1
          BY <2>0, <4>1
        <4> QED
          BY <4>2
      <3>2. \A i \in 1 .. Len(queue') : queue'[i] \in submitted' /\ writes'[queue'[i]] <= 0
        BY <1>1, <2>2, <2>4, <2>5 DEF NInv, WaitsOnce
      <3>3. \A r \in Prompts \ submitted' : writes'[r] <= 0
        BY <1>1, <2>3, <2>4 DEF NInv, WaitsOnce
      <3> QED
        BY <3>1, <3>2, <3>3 DEF WaitsOnce
    <2>7. TriedOnce' /\ NeverResent'
      BY <1>1, <2>2, <2>4 DEF NInv, TriedOnce, NeverResent
    <2> QED
      BY <2>6, <2>7 DEF NInv
  <1> QED
    BY <1>1, <1>2, <1>3

\* An answer is written, or its outcome is learnt.
LEMMA NInvAnswers ==
    ASSUME PInv, NInv, NEW q \in Questions, Answer(q) \/ Dismiss(q) \/ Outcome(q)
    PROVE  NInv'
  <1> USE KindsAssumption DEF KindsAssumption
  <1>1. /\ UNCHANGED <<queue, submitted>>
        /\ queue \in Seq(Prompts) /\ writes \in [Prompts \cup Questions -> Int]
        /\ question \in [Questions -> Outcomes]
    BY DEF Answer, Dismiss, Outcome, AnswerEnd, AnswerUnknown, host, PInv, PartsOK, NInv, TriedOnce
  <1>2. CASE Answer(q)
    <2>1. /\ question[q] = "live" /\ question' = [question EXCEPT ![q] = "responding"]
          /\ writes' = [writes EXCEPT ![q] = @ + 1]
      BY <1>2 DEF Answer, Write
    <2> QED
      BY <1>1, <2>1 DEF NInv, WaitsOnce, TriedOnce, NeverResent, Outcomes
  <1>3. CASE Dismiss(q) \/ AnswerUnknown(q)
    <2>1. /\ writes' = writes
          /\ \E o \in {"gone", "unknown"} : question' = [question EXCEPT ![q] = o]
      BY <1>3 DEF Dismiss, AnswerUnknown
    <2> QED
      BY <1>1, <2>1 DEF NInv, WaitsOnce, TriedOnce, NeverResent, Outcomes
  <1>4. CASE AnswerEnd(q)
    <2>1. CASE question[q] = "taken"
      <3>1. writes' = writes /\ question' = [question EXCEPT ![q] = "gone"]
        BY <1>1, <1>4, <2>1 DEF AnswerEnd
      <3> QED
        BY <1>1, <3>1 DEF NInv, WaitsOnce, TriedOnce, NeverResent, Outcomes
    <2>2. CASE question[q] # "taken"
      <3>1. writes' = [writes EXCEPT ![q] = @ - 1] /\ question' = [question EXCEPT ![q] = "live"]
        BY <1>1, <1>4, <2>2 DEF AnswerEnd
      <3>2. writes[q] <= 1
        BY DEF NInv, NeverResent
      <3> QED
        BY <1>1, <3>1, <3>2 DEF NInv, WaitsOnce, TriedOnce, NeverResent, Outcomes
    <2> QED
      BY <2>1, <2>2
  <1> QED
    BY <1>2, <1>3, <1>4 DEF Outcome

LEMMA NInvUser == ASSUME PInv, NInv, User PROVE NInv'
  <1> USE DEF host, flags, tasks
  <1>1. CASE RequestHistory
    BY <1>1, NInvFrame DEF RequestHistory
  <1>2. CASE Interrupt
    BY <1>2, NInvCleared DEF Interrupt
  <1>3. ASSUME NEW c \in Callers, Control(c) \/ ControlRefresh(c) \/ OpLost(c) PROVE NInv'
    BY <1>3, NInvFrame DEF Control, ControlRefresh, OpLost
  <1>4. ASSUME NEW c \in Callers, NEW kind \in Settings, ChangeSettings(c, kind) PROVE NInv'
    BY <1>4, NInvFrame DEF ChangeSettings
  <1>5. ASSUME NEW p \in Prompts, Submit(p) \/ SubmitBroken(p) PROVE NInv'
    BY <1>5, NInvSubmit
  <1>6. ASSUME NEW q \in Questions, Answer(q) \/ Dismiss(q) PROVE NInv'
    BY <1>6, NInvAnswers
  <1> QED
    BY <1>1, <1>2, <1>3, <1>4, <1>5, <1>6 DEF User

LEMMA NInvReader == ASSUME PInv, NInv, Reader PROVE NInv'
  <1> USE DEF Take, TakeNotice, Aside
  <1>1. CASE AdoptThread \/ QueueChanged \/ TurnStarted \/ TurnCompleted
    BY <1>1, NInvFrame DEF AdoptThread, QueueChanged, TurnStarted, TurnCompleted
  <1>2. CASE PageRead \/ OpAnswered \/ TurnReply
    BY <1>2, NInvFrame DEF PageRead, OpAnswered, TurnReply
  <1>3. CASE ReaderRefresh
    BY <1>3, NInvFrame DEF ReaderRefresh, host
  <1>4. CASE FailStartup
    BY <1>4, NInvCleared DEF FailStartup
  <1>5. CASE AnswerReply
    <2>1. UNCHANGED <<queue, writes, submitted>>
      BY <1>5 DEF AnswerReply
    <2>2. \E x, o : /\ question' = [question EXCEPT ![x] = o]
                    /\ o = question[x] \/ o \in {"taken", "refused"}
      BY <1>5 DEF AnswerReply
    <2>3. TriedOnce'
      BY <2>1, <2>2 DEF NInv, TriedOnce, Outcomes
    <2> QED
      BY <2>1, <2>3 DEF NInv, WaitsOnce, NeverResent
  <1> QED
    BY <1>1, <1>2, <1>3, <1>4, <1>5, NInvDrain DEF Reader

LEMMA NInvStep == PInv /\ NInv /\ [Next]_vars => NInv'
  <1> SUFFICES ASSUME PInv, NInv, [Next]_vars PROVE NInv'
    OBVIOUS
  <1> USE DEF host, tasks
  <1>1. CASE Worker \/ WorkerLost
    BY <1>1, NInvFrame DEF Worker, WorkerBegin, WorkerAsk, WorkerCutOff, WorkerEnd, WorkerLost
  <1>2. ASSUME NEW x \in Owners, Served(x) PROVE NInv'
    <2>1. UNCHANGED <<queue, writes, submitted, question>>
      BY <1>2 DEF Served, ServeList, ServeEdit, ServeStart, ServeSteer,
                  ServeTurn, ServeSettings, Refuse, ServeInterrupt, Serve
    <2> QED
      BY <2>1, NInvFrame
  <1>3. ASSUME NEW c \in Callers, Operation(c) PROVE NInv'
    BY <1>3, NInvFrame DEF Operation, SendSettings, OpCutOff, OpEnd, OpRefresh
  <1>4. CASE TurnEnds \/ QueueRuns \/ OtherClient \/ RetireBrokenWriter \/ StdoutCloses
    BY <1>4, NInvFrame DEF TurnEnds, QueueRuns, OtherClient, RetireBrokenWriter, StdoutCloses
  <1>5. CASE Stop
    BY <1>5, NInvCleared DEF Stop
  <1>6. CASE UNCHANGED vars
    BY <1>6, NInvFrame DEF vars
  <1>7. ASSUME NEW q \in Questions, Outcome(q) PROVE NInv'
    BY <1>7, NInvAnswers
  <1> QED
    BY <1>1, <1>2, <1>3, <1>4, <1>5, <1>6, <1>7, NInvUser, NInvReader DEF Next

\* Whatever deadlines pass and whatever the server answers, a prompt is written
\* to it once, and an answer again only after the server refused it.
THEOREM NothingResent == Spec => []NeverResent
  <1>1. NInv => NeverResent
    BY DEF NInv
  <1> QED
    BY <1>1, PInvInit, PInvStep, NInvInit, NInvStep, PTL DEF Spec

--------------------------------------------------------------------------------
(* A fresh view is the server's queue.                                       *)

\* A sequence, of whatever it holds.
Listed(s) == s \in Seq(ToSet(s))

\* The server has written news of its queue that the reader has not read, ...
News == \E n \in DOMAIN out : out[n].kind \in QueueNews

\* ... or an invalidation waits for the next pass.  Else the pass still holds.
Undisturbed == ~dirty /\ ~News

ListsOK ==
    /\ Listed(out) /\ Listed(items) /\ Listed(srvItems) /\ Listed(worker.rows)
    /\ \A a \in asks : a.kind = "reorder" => Listed(a.of)
    /\ \A n \in DOMAIN out : out[n].kind = "page" => Listed(out[n].of)

\* The worker waits for one page at a time, asked for or on its way, ...
OnePage ==
    /\ \A a \in asks : a.kind # "page" /\ (a.kind = "list" <=> a.by = "worker")
    /\ \A n \in DOMAIN out : out[n].kind = "page" <=> out[n].by = "worker"
    /\ \A a \in asks : a.kind = "list" =>
         /\ worker.at = "wait" /\ a = Ask("list", "worker", <<worker.pages>>)
         /\ \A n \in DOMAIN out : out[n].kind # "page"
    /\ \A n \in DOMAIN out : out[n].kind = "page" => worker.at = "wait"
    /\ \A n, m \in DOMAIN out : out[n].kind = "page" /\ out[m].kind = "page" => n = m

Taken == worker.pages * PAGE

\* ... and what it has read is the beginning of the queue.
PassOK ==
    /\ worker = [at |-> worker.at, rows |-> worker.rows, pages |-> worker.pages]
    /\ worker.pages \in Nat
    /\ refreshing <=> worker.at # "idle"
    /\ Undisturbed /\ worker.at \in {"ask", "wait"} =>
         Taken <= Len(srvItems) /\ worker.rows = SubSeq(srvItems, 1, Taken)
    /\ Undisturbed => \A n \in DOMAIN out : out[n].kind = "page" =>
         LET p == Pages(worker.pages)
         IN  /\ out[n].ok <=> p.to < Len(srvItems)
             /\ out[n].of = SubSeq(srvItems, p.from, p.to)
    /\ Undisturbed /\ worker.at = "got" => worker.rows = srvItems

VInv == ~dead => ~cut /\ ListsOK /\ OnePage /\ PassOK /\ ViewIsCurrent

\* A request of somebody else than the worker.
Foreign(a) ==
    /\ a.kind \notin {"list", "page"} /\ a.by # "worker"
    /\ a.kind = "reorder" => Listed(a.of)

LEMMA ListedSeq == ASSUME NEW S, NEW s \in Seq(S) PROVE Listed(s)
<1>1. s \in [1 .. Len(s) -> ToSet(s)]
  BY DEF ToSet
<1> QED
  BY <1>1 DEF Listed

\* What u = s \o t holds, place by place.
Joins(u, s, t) ==
    /\ \A n \in DOMAIN s : n \in DOMAIN u /\ u[n] = s[n]
    /\ \A n \in DOMAIN t : Len(s) + n \in DOMAIN u /\ u[Len(s) + n] = t[n]
    /\ \A n \in DOMAIN u :
         n \in DOMAIN s \/ (n - Len(s) \in DOMAIN t /\ u[n] = t[n - Len(s)])

LEMMA ListedJoined ==
    ASSUME NEW s, Listed(s), NEW t, Listed(t), NEW u, u = s \o t
    PROVE  Listed(u) /\ Joins(u, s, t)
<1> DEFINE A == ToSet(s)
           B == ToSet(t)
<1>1. s \in Seq(A) /\ t \in Seq(B)
  BY DEF Listed
<1> HIDE DEF A, B
<1>2. s \in Seq(A \cup B) /\ t \in Seq(A \cup B)
  BY <1>1
<1>3. u \in Seq(A \cup B) /\ Len(u) = Len(s) + Len(t)
  BY <1>2
<1>4. DOMAIN s = 1 .. Len(s) /\ DOMAIN t = 1 .. Len(t) /\ Len(s) \in Nat /\ Len(t) \in Nat
  BY <1>1
<1>5. DOMAIN u = 1 .. Len(s) + Len(t)
  BY <1>3
<1>6. \A n \in DOMAIN s : n \in DOMAIN u /\ u[n] = s[n]
  BY <1>2, <1>4, <1>5
<1>7. \A n \in DOMAIN t : Len(s) + n \in DOMAIN u /\ u[Len(s) + n] = t[n]
  BY <1>2, <1>4, <1>5
<1>8. ASSUME NEW n \in DOMAIN u
      PROVE  n \in DOMAIN s \/ (n - Len(s) \in DOMAIN t /\ u[n] = t[n - Len(s)])
  <2>1. n \in 1 .. Len(s) + Len(t)
    BY <1>5, <1>8
  <2>2. CASE n > Len(s)
    <3>1. n - Len(s) \in 1 .. Len(t)
      BY <1>4, <2>1, <2>2
    <3>2. u[n] = t[n - Len(s)]
      BY <1>2, <1>4, <2>1, <2>2
    <3> QED
      BY <1>4, <3>1, <3>2
  <2> QED
    BY <1>4, <2>1, <2>2
<1>9. Listed(u)
  BY <1>3, ListedSeq
<1> QED
  BY <1>6, <1>7, <1>8, <1>9 DEF Joins

LEMMA Adjacent ==
    ASSUME NEW S, NEW s \in Seq(S), NEW a \in Nat, NEW b \in Nat, a <= b, b <= Len(s)
    PROVE  SubSeq(s, 1, a) \o SubSeq(s, a + 1, b) = SubSeq(s, 1, b)
<1> DEFINE l == SubSeq(s, 1, a)
           r == SubSeq(s, a + 1, b)
           w == SubSeq(s, 1, b)
<1>1. l \in Seq(S) /\ Len(l) = a /\ \A i \in 1 .. a : l[i] = s[i]
  OBVIOUS
<1>2. r \in Seq(S) /\ Len(r) = b - a /\ \A i \in 1 .. b - a : r[i] = s[a + i]
  OBVIOUS
<1>3. w \in Seq(S) /\ Len(w) = b /\ \A i \in 1 .. b : w[i] = s[i]
  OBVIOUS
<1> HIDE DEF l, r, w
<1>0. b - a \in Nat /\ a + (b - a) = b
  OBVIOUS
<1>4. l \o r \in Seq(S) /\ Len(l \o r) = b
  <2>1. l \in Seq(S) /\ r \in Seq(S)
    BY <1>1, <1>2
  <2>2. l \o r \in Seq(S) /\ Len(l \o r) = Len(l) + Len(r)
    BY <2>1
  <2> QED
    BY <1>0, <1>1, <1>2, <2>2
<1>5. ASSUME NEW i \in 1 .. b PROVE (l \o r)[i] = w[i]
  <2>1. CASE i <= a
    <3>1. i \in 1 .. Len(l) /\ i \in 1 .. Len(l) + Len(r)
      BY <1>0, <1>1, <1>2, <2>1
    <3>2. (l \o r)[i] = l[i]
      BY <1>1, <1>2, <3>1
    <3> QED
      BY <1>1, <1>3, <2>1, <3>2
  <2>2. CASE ~(i <= a)
    <3>1. (l \o r)[i] = r[i - a] /\ i - a \in 1 .. b - a /\ a + (i - a) = i
      BY <1>1, <1>2, <2>2
    <3> QED
      BY <1>2, <1>3, <3>1
  <2> QED
    BY <2>1, <2>2
<1>6. l \o r = w
  BY <1>3, <1>4, <1>5
<1> QED
  BY <1>6 DEF l, r, w

LEMMA ListedTail ==
    ASSUME NEW s, Listed(s), s # <<>>
    PROVE  /\ Listed(Tail(s)) /\ 1 \in DOMAIN s /\ Head(s) = s[1]
           /\ \A n \in DOMAIN Tail(s) : n + 1 \in DOMAIN s /\ Tail(s)[n] = s[n + 1]
           /\ \A n \in DOMAIN s \ {1} : n - 1 \in DOMAIN Tail(s) /\ Tail(s)[n - 1] = s[n]
<1> DEFINE A == ToSet(s)
<1>1. s \in Seq(A)
  BY DEF Listed
<1> HIDE DEF A
<1>2. Tail(s) \in Seq(A) /\ Len(Tail(s)) = Len(s) - 1 /\ Len(s) \in Nat \ {0}
  BY <1>1
<1>3. DOMAIN s = 1 .. Len(s) /\ DOMAIN Tail(s) = 1 .. Len(s) - 1
  BY <1>1, <1>2
<1>4. \A n \in 1 .. Len(s) - 1 : Tail(s)[n] = s[n + 1]
  BY <1>1, <1>2
<1>5. \A n \in DOMAIN s \ {1} : n - 1 \in DOMAIN Tail(s) /\ Tail(s)[n - 1] = s[n]
  BY <1>1, <1>2, <1>3
<1>6. Listed(Tail(s))
  BY <1>2, ListedSeq
<1>7. 1 \in DOMAIN s /\ Head(s) = s[1]
  BY <1>1, <1>2, <1>3
<1>8. \A n \in DOMAIN Tail(s) : n + 1 \in DOMAIN s /\ Tail(s)[n] = s[n + 1]
  BY <1>2, <1>3, <1>4
<1> QED
  BY <1>5, <1>6, <1>7, <1>8

LEMMA ListedPart ==
    ASSUME NEW s, Listed(s), NEW a \in Int, NEW b \in Int, 1 <= a, b <= Len(s)
    PROVE  Listed(SubSeq(s, a, b))
<1> DEFINE A == ToSet(s)
<1>1. s \in Seq(A)
  BY DEF Listed
<1> HIDE DEF A
<1>2. SubSeq(s, a, b) \in Seq(A)
  BY <1>1
<1> QED
  BY <1>2, ListedSeq

LEMMA RemovedAt ==
    ASSUME NEW s, Listed(s), NEW n \in DOMAIN s
    PROVE  /\ Listed(RemoveAt(s, n))
           /\ \A j \in DOMAIN RemoveAt(s, n) :
                \E k \in DOMAIN s \ {n} : RemoveAt(s, n)[j] = s[k]
<1> DEFINE A == ToSet(s)
<1>1. s \in Seq(A)
  BY DEF Listed
<1> HIDE DEF A
<1>2. n \in 1 .. Len(s) /\ n - 1 \in Int /\ n + 1 \in Int /\ Len(s) \in Nat
  BY <1>1
<1> DEFINE a == SubSeq(s, 1, n - 1)
           b == SubSeq(s, n + 1, Len(s))
<1>3. a \in Seq(A) /\ Len(a) = n - 1 /\ \A j \in 1 .. n - 1 : a[j] = s[j]
  BY <1>1, <1>2
<1>4. b \in Seq(A) /\ Len(b) = Len(s) - n /\ \A j \in 1 .. Len(s) - n : b[j] = s[n + j]
  BY <1>1, <1>2
<1>5. RemoveAt(s, n) = a \o b
  BY DEF RemoveAt
<1> HIDE DEF a, b
<1>6. a \o b \in Seq(A) /\ Len(a \o b) = Len(s) - 1
  BY <1>2, <1>3, <1>4
<1>7. ASSUME NEW j \in DOMAIN (a \o b) PROVE \E k \in DOMAIN s \ {n} : (a \o b)[j] = s[k]
  <2>1. j \in 1 .. Len(s) - 1 /\ DOMAIN s = 1 .. Len(s)
    BY <1>1, <1>6, <1>7
  <2>2. CASE j <= n - 1
    <3>1. (a \o b)[j] = s[j] /\ j \in DOMAIN s \ {n}
      BY <1>2, <1>3, <1>4, <2>1, <2>2
    <3> QED
      BY <3>1
  <2>3. CASE ~(j <= n - 1)
    <3>1. (a \o b)[j] = b[j - (n - 1)] /\ j - (n - 1) \in 1 .. Len(s) - n
      BY <1>2, <1>3, <1>4, <2>1, <2>3
    <3>2. n + (j - (n - 1)) = j + 1 /\ j + 1 \in DOMAIN s \ {n}
      BY <1>2, <2>1, <2>3
    <3>3. b[j - (n - 1)] = s[n + (j - (n - 1))]
      BY <1>4, <3>1
    <3> QED
      BY <3>1, <3>2, <3>3
  <2> QED
    BY <2>2, <2>3
<1> QED
  BY <1>5, <1>6, <1>7, ListedSeq

LEMMA VInvInit == ASSUME Init PROVE VInv
<1>1. Listed(out) /\ Listed(items) /\ Listed(srvItems) /\ Listed(worker.rows)
  <2>1. Listed(out)
    <3>1. out \in Seq({Line("thread", "host", TRUE, <<srvTurn>>)})
      BY DEF Init
    <3> QED
      BY <3>1, ListedSeq
  <2>2. items = <<>> /\ worker.rows = <<>> /\ <<>> \in Seq({})
    BY DEF Init
  <2>3. srvItems \in Seq(Items)
    <3>1. srvItems = <<>> \/ \E i \in Items : srvItems = <<i>>
      BY DEF Init
    <3>2. <<>> \in Seq(Items) /\ \A i \in Items : <<i>> \in Seq(Items)
      OBVIOUS
    <3> QED
      BY <3>1, <3>2
  <2>4. Listed(<<>>)
    BY <2>2, ListedSeq
  <2> QED
    BY <2>1, <2>2, <2>3, <2>4, ListedSeq
<1>2. \A n \in DOMAIN out : out[n].kind = "thread" /\ out[n].by = "host"
  BY DEF Init, Line
<1>3. /\ asks = {} /\ ~cut /\ ~ready /\ worker.at = "idle" /\ worker.pages = 0 /\ ~refreshing
      /\ worker = [at |-> worker.at, rows |-> worker.rows, pages |-> worker.pages]
  BY DEF Init
<1>4. ListsOK
  BY <1>1, <1>2, <1>3 DEF ListsOK
<1>5. OnePage
  BY <1>2, <1>3 DEF OnePage
<1>6. PassOK
  BY <1>2, <1>3 DEF PassOK
<1> QED
  BY <1>3, <1>4, <1>5, <1>6 DEF VInv, ViewIsCurrent

\* The pass and the view are left alone; at most they are invalidated.
LEMMA VInvFrame ==
    ASSUME VInv, UNCHANGED <<worker, refreshing, items, srvItems, out>>,
           dead => dead', cut' => cut \/ dead', dirty => dirty', ready' => ready,
           \A a \in asks' : a \in asks \/ Foreign(a)
    PROVE  VInv'
<1> SUFFICES ASSUME ~dead' PROVE (~cut /\ ListsOK /\ OnePage /\ PassOK /\ ViewIsCurrent)'
  BY DEF VInv
<1>1. ~dead /\ ~cut /\ ~cut' /\ ListsOK /\ OnePage /\ PassOK /\ ViewIsCurrent
  BY DEF VInv
<1>2. ListsOK'
  BY <1>1 DEF ListsOK, Foreign
<1>3. OnePage'
  BY <1>1 DEF OnePage, Foreign
<1>4. Undisturbed' => Undisturbed
  BY DEF Undisturbed, News
<1>5. PassOK'
  BY <1>1, <1>4 DEF PassOK, Taken, Pages
<1>6. ViewIsCurrent'
  BY <1>1 DEF ViewIsCurrent
<1> QED
  BY <1>1, <1>2, <1>3, <1>5, <1>6

\* Somebody asks for a refresh: a pass is begun if none runs.
LEMMA VInvRefresh ==
    ASSUME VInv, UNCHANGED <<dead, cut, items, ready, srvItems, out, asks>>, dirty => dirty',
           \/ UNCHANGED <<worker, refreshing>>
           \/ ~refreshing /\ refreshing' /\ worker' = [at |-> "begin", rows |-> <<>>, pages |-> 0]
    PROVE  VInv'
<1>1. CASE UNCHANGED <<worker, refreshing>>
  BY <1>1, VInvFrame
<1>2. CASE ~refreshing /\ refreshing' /\ worker' = [at |-> "begin", rows |-> <<>>, pages |-> 0]
  <2> SUFFICES ASSUME ~dead PROVE (~cut /\ ListsOK /\ OnePage /\ PassOK /\ ViewIsCurrent)'
    BY DEF VInv
  <2>1. ~cut /\ ListsOK /\ OnePage /\ PassOK
    BY DEF VInv
  <2>2. worker.at = "idle"
    BY <1>2, <2>1 DEF PassOK
  <2>3. worker'.at = "begin" /\ worker'.rows = <<>> /\ worker'.pages = 0
    BY <1>2
  <2>4. Listed(worker'.rows)
    <3>1. worker'.rows \in Seq({})
      BY <2>3
    <3> QED
      BY <3>1, ListedSeq
  <2>5. ListsOK'
    BY <2>1, <2>4 DEF ListsOK
  <2>6. OnePage'
    BY <2>1, <2>2, <2>3 DEF OnePage
  <2>7. PassOK'
    <3>1. \A n \in DOMAIN out : out[n].kind # "page"
      BY <2>1, <2>2 DEF OnePage
    <3> QED
      BY <1>2, <2>3, <3>1 DEF PassOK
  <2> QED
    BY <1>2, <2>1, <2>5, <2>6, <2>7 DEF ViewIsCurrent
<1> QED
  BY <1>1, <1>2

\* The server writes lines that are no page; what it changes it announces.
LEMMA VInvEmit ==
    ASSUME VInv, NEW lines, Listed(lines), out' = out \o lines, asks' \subseteq asks,
           \A n \in DOMAIN lines : lines[n].kind # "page" /\ lines[n].by # "worker",
           UNCHANGED <<dead, cut, dirty, refreshing, ready, items, worker>>,
           \/ srvItems' = srvItems
           \/ Listed(srvItems') /\ \E n \in DOMAIN lines : lines[n].kind \in QueueNews
    PROVE  VInv'
<1> SUFFICES ASSUME ~dead PROVE (~cut /\ ListsOK /\ OnePage /\ PassOK /\ ViewIsCurrent)'
  BY DEF VInv
<1>1. ~cut /\ ListsOK /\ OnePage /\ PassOK /\ ViewIsCurrent
  BY DEF VInv
<1>2. Listed(out)
  BY <1>1 DEF ListsOK
<1>3. /\ Listed(out')
      /\ \A n \in DOMAIN out : n \in DOMAIN out' /\ out'[n] = out[n]
      /\ \A n \in DOMAIN lines : \E k \in DOMAIN out' : out'[k] = lines[n]
      /\ \A n \in DOMAIN out' : \/ n \in DOMAIN out /\ out'[n] = out[n]
                                \/ out'[n].kind # "page" /\ out'[n].by # "worker"
  <2>1. /\ Listed(out')
        /\ \A n \in DOMAIN out : n \in DOMAIN out' /\ out'[n] = out[n]
        /\ \A n \in DOMAIN lines : Len(out) + n \in DOMAIN out' /\ out'[Len(out) + n] = lines[n]
        /\ \A n \in DOMAIN out' :
                n \in DOMAIN out \/ (n - Len(out) \in DOMAIN lines /\ out'[n] = lines[n - Len(out)])
    <3>1. Listed(out') /\ Joins(out', out, lines)
      BY <1>2, ListedJoined
    <3> QED
      BY <3>1 DEF Joins
  <2>3. ASSUME NEW n \in DOMAIN lines PROVE \E k \in DOMAIN out' : out'[k] = lines[n]
    BY <2>1
  <2>4. ASSUME NEW n \in DOMAIN out', n \notin DOMAIN out
        PROVE  out'[n].kind # "page" /\ out'[n].by # "worker"
    BY <2>1, <2>4
  <2> QED
    BY <2>1, <2>3, <2>4
<1>4. News => News'
  BY <1>3 DEF News
<1>5. srvItems' = srvItems \/ News'
  BY <1>3 DEF News
<1>6. ListsOK'
  BY <1>1, <1>3 DEF ListsOK
<1>7. OnePage'
  BY <1>1, <1>3 DEF OnePage
<1>8. PassOK'
  <2> SUFFICES ASSUME Undisturbed' PROVE PassOK'
    BY <1>1 DEF PassOK
  <2>1. Undisturbed /\ srvItems' = srvItems
    BY <1>4, <1>5 DEF Undisturbed
  <2> QED
    BY <1>1, <1>3, <2>1 DEF PassOK, Taken, Pages
<1>9. ViewIsCurrent'
  <2> SUFFICES ASSUME ~News' PROVE ViewIsCurrent'
    BY DEF ViewIsCurrent, News
  <2>1. ~News /\ srvItems' = srvItems
    BY <1>4, <1>5
  <2> QED
    BY <1>1, <2>1 DEF ViewIsCurrent, News
<1> QED
  BY <1>1, <1>6, <1>7, <1>8, <1>9

\* The reader takes a line that is no page; of news it makes an invalidation.
LEMMA VInvTake ==
    ASSUME VInv, out # <<>>, Head(out).kind # "page", out' = Tail(out), dead => dead',
           Head(out).kind \in QueueNews => dead' \/ dirty', dirty => dirty', ready' => ready,
           UNCHANGED <<cut, refreshing, items, worker, srvItems, asks>>
    PROVE  VInv'
<1> SUFFICES ASSUME ~dead' PROVE (~cut /\ ListsOK /\ OnePage /\ PassOK /\ ViewIsCurrent)'
  BY DEF VInv
<1>1. ~dead /\ ~cut /\ ListsOK /\ OnePage /\ PassOK /\ ViewIsCurrent
  BY DEF VInv
<1>2. Listed(out)
  BY <1>1 DEF ListsOK
<1>3. /\ Listed(out') /\ 1 \in DOMAIN out /\ Head(out) = out[1]
      /\ \A n \in DOMAIN out' : n + 1 \in DOMAIN out /\ out'[n] = out[n + 1]
      /\ \A n \in DOMAIN out \ {1} : n - 1 \in DOMAIN out' /\ out'[n - 1] = out[n]
  BY <1>2, ListedTail
<1>4. ASSUME ~dirty' PROVE ~dirty /\ (News => News')
  <2>1. Head(out).kind \notin QueueNews
    BY <1>4
  <2> QED
    BY <1>3, <1>4, <2>1 DEF News
<1>5. ListsOK'
  BY <1>1, <1>3 DEF ListsOK
<1>6. OnePage'
  <2>1. \A n \in DOMAIN out' : out'[n].kind = "page" <=> out'[n].by = "worker"
    BY <1>1, <1>3 DEF OnePage
  <2>2. ASSUME NEW a \in asks', a.kind = "list"
        PROVE  /\ worker'.at = "wait" /\ a = Ask("list", "worker", <<worker'.pages>>)
               /\ \A n \in DOMAIN out' : out'[n].kind # "page"
    BY <1>1, <1>3, <2>2 DEF OnePage
  <2>3. \A n \in DOMAIN out' : out'[n].kind = "page" => worker'.at = "wait"
    BY <1>1, <1>3 DEF OnePage
  <2>4. ASSUME NEW n \in DOMAIN out', NEW m \in DOMAIN out', out'[n].kind = "page", out'[m].kind = "page"
        PROVE  n = m
    <3>1. n + 1 = m + 1
      BY <1>1, <1>3, <2>4 DEF OnePage
    <3>2. n \in Int /\ m \in Int
      BY <1>3 DEF Listed
    <3> QED
      BY <3>1, <3>2
  <2> QED
    BY <1>1, <2>1, <2>2, <2>3, <2>4 DEF OnePage
<1>7. PassOK'
  <2> SUFFICES ASSUME Undisturbed' PROVE PassOK'
    BY <1>1 DEF PassOK
  <2>1. Undisturbed
    BY <1>4 DEF Undisturbed
  <2>2. ASSUME NEW n \in DOMAIN out', out'[n].kind = "page"
        PROVE  LET p == Pages(worker.pages)
               IN  /\ out'[n].ok <=> p.to < Len(srvItems)
                   /\ out'[n].of = SubSeq(srvItems, p.from, p.to)
    BY <1>1, <1>3, <2>1, <2>2 DEF PassOK
  <2> QED
    BY <1>1, <2>1, <2>2 DEF PassOK, Taken, Pages
<1>8. ViewIsCurrent'
  BY <1>1, <1>4 DEF ViewIsCurrent, News
<1> QED
  BY <1>1, <1>5, <1>6, <1>7, <1>8

\* A pass begins on a clean slate.
LEMMA VInvBegin == ASSUME VInv, WorkerBegin PROVE VInv'
<1> USE DEF host
<1> SUFFICES ASSUME ~dead' PROVE (~cut /\ ListsOK /\ OnePage /\ PassOK /\ ViewIsCurrent)'
  BY DEF VInv
<1>1. ~dead /\ ~cut /\ ListsOK /\ OnePage /\ PassOK
  BY DEF VInv, WorkerBegin
<1>2. /\ UNCHANGED <<dead, cut, refreshing, ready, items, out, asks, srvItems>>
      /\ worker' = [at |-> "ask", rows |-> <<>>, pages |-> 0] /\ worker.at = "begin"
      /\ worker'.at = "ask" /\ worker'.rows = <<>> /\ worker'.pages = 0
  BY <1>1 DEF WorkerBegin, server
<1>3. Listed(worker'.rows)
  <2>1. worker'.rows \in Seq({})
    BY <1>2
  <2> QED
    BY <2>1, ListedSeq
<1>4. /\ \A n \in DOMAIN out : out[n].kind # "page"
      /\ \A a \in asks : a.kind # "list"
  BY <1>1, <1>2 DEF OnePage
<1>5. ListsOK'
  BY <1>1, <1>2, <1>3 DEF ListsOK
<1>6. OnePage'
  BY <1>1, <1>2, <1>4 DEF OnePage
<1>7. PassOK'
  <2>1. worker'.pages * PAGE = 0 /\ worker'.pages \in Nat
    BY <1>2, BoundsAssumption DEF BoundsAssumption
  <2>2. Listed(srvItems)
    BY <1>1 DEF ListsOK
  <2>3. Len(srvItems) \in Nat /\ SubSeq(srvItems, 1, 0) = <<>>
    BY <2>2 DEF Listed
  <2> QED
    BY <1>1, <1>2, <1>4, <2>1, <2>3 DEF PassOK, Taken
<1>8. ViewIsCurrent'
  BY <1>1, <1>2 DEF ViewIsCurrent, PassOK
<1> QED
  BY <1>1, <1>2, <1>5, <1>6, <1>7, <1>8

\* The worker gives the pass up.
LEMMA VInvFailed ==
    ASSUME VInv, worker.at # "idle", worker' = [worker EXCEPT !.at = "failed"], Listed(out'),
           \A a \in asks' : a \in asks /\ a.by # "worker",
           \A j \in DOMAIN out' : out'[j].by # "worker" /\ \E n \in DOMAIN out : out'[j] = out[n],
           UNCHANGED <<dead, cut, dirty, refreshing, ready, items, srvItems>>
    PROVE  VInv'
<1> SUFFICES ASSUME ~dead PROVE (~cut /\ ListsOK /\ OnePage /\ PassOK /\ ViewIsCurrent)'
  BY DEF VInv
<1>1. ~cut /\ ListsOK /\ OnePage /\ PassOK
  BY DEF VInv
<1>2. worker'.at = "failed" /\ worker'.rows = worker.rows /\ worker'.pages = worker.pages
      /\ worker' = [at |-> worker'.at, rows |-> worker'.rows, pages |-> worker'.pages]
  BY <1>1 DEF PassOK
<1>3. /\ \A n \in DOMAIN out' : out'[n].kind # "page"
      /\ \A a \in asks' : a.kind # "list"
  BY <1>1 DEF OnePage
<1>4. ListsOK'
  BY <1>1, <1>2, <1>3 DEF ListsOK
<1>5. OnePage'
  BY <1>1, <1>2, <1>3 DEF OnePage
<1>6. refreshing /\ refreshing'
  BY <1>1 DEF PassOK
<1>7. PassOK'
  BY <1>1, <1>2, <1>3, <1>6 DEF PassOK
<1> QED
  BY <1>1, <1>4, <1>5, <1>6, <1>7 DEF ViewIsCurrent

LEMMA VInvEnd == ASSUME VInv, WorkerEnd PROVE VInv'
<1> USE DEF host
<1> SUFFICES ASSUME ~dead' PROVE (~cut /\ ListsOK /\ OnePage /\ PassOK /\ ViewIsCurrent)'
  BY DEF VInv
<1>1. ~dead /\ ~cut /\ ListsOK /\ OnePage /\ PassOK
  BY DEF VInv, WorkerEnd
<1>2. /\ UNCHANGED <<dead, cut, dirty, out, asks, srvItems>>
      /\ worker.at \in {"got", "failed"}
      /\ worker' = [at |-> worker'.at, rows |-> <<>>, pages |-> 0]
      /\ worker'.rows = <<>> /\ worker'.pages = 0
      /\ \/ dirty /\ worker'.at = "begin" /\ UNCHANGED <<refreshing, ready, items>>
         \/ /\ ~dirty /\ worker'.at = "idle" /\ ~refreshing'
            /\ ready' = (worker.at = "got")
            /\ items' = IF worker.at = "got" THEN worker.rows ELSE items
  BY <1>1 DEF WorkerEnd, WorkerStops, server
<1>3. Listed(worker'.rows)
  <2>1. worker'.rows \in Seq({})
    BY <1>2
  <2> QED
    BY <2>1, ListedSeq
<1>4. /\ \A n \in DOMAIN out : out[n].kind # "page"
      /\ \A a \in asks : a.kind # "list"
  BY <1>1, <1>2 DEF OnePage
<1>5. ListsOK'
  BY <1>1, <1>2, <1>3 DEF ListsOK
<1>6. OnePage'
  BY <1>1, <1>2, <1>4 DEF OnePage
<1>7. PassOK'
  <2>1. refreshing
    BY <1>1, <1>2 DEF PassOK
  <2>2. refreshing' <=> worker'.at # "idle"
    BY <1>2, <2>1
  <2>3. worker'.at \notin {"ask", "wait", "got"} /\ worker'.pages \in Nat
    BY <1>2
  <2> QED
    BY <1>2, <1>4, <2>2, <2>3 DEF PassOK
<1>8. ViewIsCurrent'
  <2> SUFFICES ASSUME ready', ~dirty', ~refreshing', ~News' PROVE items' = srvItems'
    BY DEF ViewIsCurrent, News
  <2>1. worker.at = "got" /\ items' = worker.rows
    <3>1. refreshing
      BY <1>1, <1>2 DEF PassOK
    <3> QED
      BY <1>2, <3>1
  <2>2. Undisturbed
    BY <1>2 DEF Undisturbed, News
  <2> QED
    BY <1>1, <1>2, <2>1, <2>2 DEF PassOK
<1> QED
  BY <1>1, <1>2, <1>5, <1>6, <1>7, <1>8

\* A page is asked for.
LEMMA VInvAsk == ASSUME VInv, WorkerAsk PROVE VInv'
<1> USE DEF host, flags
<1>1. CASE dead \/ worker.pages = MAX_PAGES
  <2> SUFFICES ASSUME ~dead PROVE VInv'
    BY <1>1 DEF VInv, WorkerAsk
  <2>1. /\ UNCHANGED <<dead, cut, dirty, refreshing, ready, items, srvItems, out, asks>>
        /\ worker' = [worker EXCEPT !.at = "failed"] /\ worker.at = "ask"
    BY <1>1 DEF WorkerAsk, server
  <2>2. OnePage /\ Listed(out)
    BY DEF VInv, ListsOK
  <2>3. /\ \A a \in asks' : a \in asks /\ a.by # "worker"
        /\ \A j \in DOMAIN out' : out'[j].by # "worker" /\ \E n \in DOMAIN out : out'[j] = out[n]
    BY <2>1, <2>2 DEF OnePage
  <2> QED
    BY <2>1, <2>2, <2>3, VInvFailed
<1>2. CASE ~(dead \/ worker.pages = MAX_PAGES)
  <2> SUFFICES (~cut /\ ListsOK /\ OnePage /\ PassOK /\ ViewIsCurrent)'
    BY DEF VInv
  <2>1. ~cut /\ ListsOK /\ OnePage /\ PassOK
    BY <1>2 DEF VInv
  <2>2. /\ UNCHANGED <<dead, cut, dirty, refreshing, ready, items, srvItems, out>>
        /\ worker' = [worker EXCEPT !.at = "wait"] /\ worker.at = "ask"
        /\ asks' = asks \cup {Ask("list", "worker", <<worker.pages>>)}
    BY <1>2 DEF WorkerAsk, server
  <2>3. /\ worker'.at = "wait" /\ worker'.rows = worker.rows /\ worker'.pages = worker.pages
        /\ worker' = [at |-> worker'.at, rows |-> worker'.rows, pages |-> worker'.pages]
    BY <2>1, <2>2 DEF PassOK
  <2>4. \A n \in DOMAIN out : out[n].kind # "page"
    BY <2>1, <2>2 DEF OnePage
  <2>5. ListsOK'
    BY <2>1, <2>2, <2>3 DEF ListsOK, Ask
  <2>6. OnePage'
    <3>1. \A a \in asks' : a.kind # "page" /\ (a.kind = "list" <=> a.by = "worker")
      BY <2>1, <2>2 DEF OnePage, Ask
    <3>2. \A a \in asks' : a.kind = "list" => a = Ask("list", "worker", <<worker'.pages>>)
      BY <2>1, <2>2, <2>3 DEF OnePage
    <3> QED
      BY <2>1, <2>2, <2>3, <2>4, <3>1, <3>2 DEF OnePage
  <2>7. PassOK'
    BY <2>1, <2>2, <2>3, <2>4 DEF PassOK, Undisturbed, News, Taken
  <2>8. ViewIsCurrent'
    BY <2>1, <2>2 DEF ViewIsCurrent, PassOK
  <2> QED
    BY <2>1, <2>2, <2>5, <2>6, <2>7, <2>8
<1> QED
  BY <1>1, <1>2

LEMMA VInvGivesUp == ASSUME VInv, WorkerCutOff \/ WorkerLost PROVE VInv'
<1> USE DEF host, flags
<1> SUFFICES ASSUME ~dead PROVE VInv'
  BY DEF VInv, WorkerCutOff, WorkerLost
<1>1. ~cut /\ ListsOK /\ OnePage
  BY DEF VInv
<1>2. /\ UNCHANGED <<dead, cut, dirty, refreshing, ready, items, srvItems>>
      /\ worker' = [worker EXCEPT !.at = "failed"] /\ worker.at = "wait"
      /\ asks' = {a \in asks : a.by # "worker"}
      /\ \/ \E n \in DOMAIN out : out[n].by = "worker" /\ out' = RemoveAt(out, n)
         \/ (\A n \in DOMAIN out : out[n].by # "worker") /\ UNCHANGED out
  BY <1>1 DEF WorkerCutOff, WorkerLost, server
<1>3. Listed(out)
  BY <1>1 DEF ListsOK
<1>4. /\ Listed(out')
      /\ \A j \in DOMAIN out' : out'[j].by # "worker" /\ \E n \in DOMAIN out : out'[j] = out[n]
  <2>1. CASE (\A n \in DOMAIN out : out[n].by # "worker") /\ UNCHANGED out
    BY <1>3, <2>1
  <2>2. ASSUME NEW n \in DOMAIN out, out[n].by = "worker", out' = RemoveAt(out, n)
        PROVE  /\ Listed(out')
               /\ \A j \in DOMAIN out' : out'[j].by # "worker" /\ \E k \in DOMAIN out : out'[j] = out[k]
    <3>1. Listed(out') /\ \A j \in DOMAIN out' : \E k \in DOMAIN out \ {n} : out'[j] = out[k]
      BY <1>3, <2>2, RemovedAt
    <3>2. \A k \in DOMAIN out \ {n} : out[k].by # "worker"
      BY <1>1, <2>2 DEF OnePage
    <3> QED
      BY <3>1, <3>2
  <2> QED
    BY <1>2, <2>1, <2>2
<1> QED
  BY <1>2, <1>4, VInvFailed

LEMMA Arithmetic ==
    ASSUME NEW n \in Nat
    PROVE  n * PAGE \in Nat /\ (n + 1) * PAGE = n * PAGE + PAGE /\ PAGE \in Nat \ {0}
  BY BoundsAssumption, SMT DEF BoundsAssumption

\* A page is read: if the pass still holds, it is the next of the queue.
LEMMA VInvPage == ASSUME VInv, PageRead PROVE VInv'
<1> USE DEF Take, Aside
<1> SUFFICES ASSUME ~dead PROVE (~cut /\ ListsOK /\ OnePage /\ PassOK /\ ViewIsCurrent)'
  BY DEF VInv, PageRead
<1>1. ~cut /\ ListsOK /\ OnePage /\ PassOK
  BY DEF VInv
<1>2. /\ UNCHANGED <<dead, cut, dirty, refreshing, ready, items, srvItems, asks>>
      /\ out # <<>> /\ out' = Tail(out) /\ Head(out).kind = "page"
      /\ \/ worker' = [worker EXCEPT !.at = "failed"]
         \/ worker' = [at |-> IF Head(out).ok THEN "ask" ELSE "got",
                       rows |-> worker.rows \o Head(out).of, pages |-> worker.pages + 1]
  BY DEF PageRead, server
<1>3. Listed(out) /\ Listed(worker.rows)
  BY <1>1 DEF ListsOK
<1>4. /\ Listed(out') /\ 1 \in DOMAIN out /\ Head(out) = out[1]
      /\ \A n \in DOMAIN out' : n + 1 \in DOMAIN out /\ out'[n] = out[n + 1]
      /\ \A n \in DOMAIN out \ {1} : n - 1 \in DOMAIN out' /\ out'[n - 1] = out[n]
  BY <1>2, <1>3, ListedTail
<1>5. \A n \in DOMAIN out' : out'[n].kind # "page" /\ out'[n].by # "worker"
  <2> SUFFICES ASSUME NEW n \in DOMAIN out' PROVE out'[n].kind # "page" /\ out'[n].by # "worker"
    OBVIOUS
  <2>1. n + 1 # 1
    BY <1>4 DEF Listed
  <2>2. out[n + 1].kind # "page"
    BY <1>1, <1>2, <1>4, <2>1 DEF OnePage
  <2> QED
    BY <1>1, <1>4, <2>2 DEF OnePage
<1>6. worker.at = "wait" /\ \A a \in asks : a.kind # "list"
  BY <1>1, <1>2, <1>4 DEF OnePage
<1>7. CASE worker' = [worker EXCEPT !.at = "failed"]
  <2>1. /\ \A a \in asks' : a \in asks /\ a.by # "worker"
        /\ \A j \in DOMAIN out' : out'[j].by # "worker" /\ \E n \in DOMAIN out : out'[j] = out[n]
    BY <1>1, <1>2, <1>4, <1>5, <1>6 DEF OnePage
  <2>2. VInv'
    BY <1>2, <1>4, <1>6, <1>7, <2>1, VInvFailed
  <2> QED
    BY <1>2, <2>2 DEF VInv
<1>8. CASE worker' = [at |-> IF Head(out).ok THEN "ask" ELSE "got",
                      rows |-> worker.rows \o Head(out).of, pages |-> worker.pages + 1]
  <2> DEFINE p == Pages(worker.pages)
  <2>1. /\ worker'.at \in {"ask", "got"} /\ (worker'.at = "ask" <=> Head(out).ok)
        /\ worker'.rows = worker.rows \o Head(out).of /\ worker'.pages = worker.pages + 1
        /\ worker' = [at |-> worker'.at, rows |-> worker'.rows, pages |-> worker'.pages]
    BY <1>8
  <2>2. Listed(Head(out).of)
    BY <1>1, <1>2, <1>4 DEF ListsOK
  <2>3. Listed(worker'.rows)
    BY <1>3, <2>1, <2>2, ListedJoined
  <2>4. ListsOK'
    BY <1>1, <1>2, <1>4, <1>5, <2>3 DEF ListsOK
  <2>5. OnePage'
    BY <1>1, <1>2, <1>5, <1>6 DEF OnePage
  <2>6. worker.pages \in Nat /\ refreshing
    BY <1>1, <1>6 DEF PassOK
  <2>7. ASSUME Undisturbed'
        PROVE  /\ worker'.at = "ask" => Taken' <= Len(srvItems) /\ worker'.rows = SubSeq(srvItems, 1, Taken')
               /\ worker'.at = "got" => worker'.rows = srvItems
    <3>1. Undisturbed
      <4>1. Head(out).kind \notin QueueNews
        BY <1>2 DEF QueueNews
      <4>2. News => News'
        BY <1>4, <4>1 DEF News
      <4> QED
        BY <1>2, <2>7, <4>2 DEF Undisturbed
    <3>2. /\ Taken <= Len(srvItems) /\ worker.rows = SubSeq(srvItems, 1, Taken)
          /\ Head(out).ok <=> p.to < Len(srvItems)
          /\ Head(out).of = SubSeq(srvItems, p.from, p.to)
      BY <1>1, <1>2, <1>4, <1>6, <3>1 DEF PassOK
    <3>3. /\ Taken \in Nat /\ Taken' = Taken + PAGE /\ PAGE \in Nat \ {0}
          /\ p.from = Taken + 1
          /\ p.to = IF Taken' < Len(srvItems) THEN Taken' ELSE Len(srvItems)
      BY <2>1, <2>6, Arithmetic DEF Taken, Pages
    <3> HIDE DEF p, Taken
    <3>4. Len(srvItems) \in Nat /\ srvItems \in Seq(ToSet(srvItems))
      BY <1>1 DEF ListsOK, Listed
    <3>5. Taken <= p.to /\ p.to <= Len(srvItems) /\ p.to \in Nat
      BY <3>2, <3>3, <3>4
    <3>6. worker'.rows = SubSeq(srvItems, 1, p.to)
      <4> DEFINE A == ToSet(srvItems)
      <4> HIDE DEF A
      <4>1. srvItems \in Seq(A)
        BY <3>4 DEF A
      <4>2. SubSeq(srvItems, 1, Taken) \o SubSeq(srvItems, Taken + 1, p.to) = SubSeq(srvItems, 1, p.to)
        BY <3>2, <3>3, <3>4, <3>5, <4>1, Adjacent
      <4> QED
        BY <2>1, <3>2, <3>3, <4>2
    <3>7. CASE Head(out).ok
      <4>1. p.to = Taken' /\ Taken' <= Len(srvItems)
        BY <3>2, <3>3, <3>4, <3>7
      <4> QED
        BY <2>1, <3>6, <3>7, <4>1
    <3>8. CASE ~Head(out).ok
      <4>1. p.to = Len(srvItems)
        BY <3>2, <3>3, <3>4, <3>5, <3>8
      <4>2. SubSeq(srvItems, 1, Len(srvItems)) = srvItems
        BY <3>4
      <4> QED
        BY <2>1, <3>6, <3>8, <4>1, <4>2
    <3> QED
      BY <3>7, <3>8
  <2>8. PassOK'
    <3>1. worker'.pages \in Nat /\ worker'.at # "idle" /\ worker'.at # "wait" /\ refreshing'
      BY <1>2, <2>1, <2>6
    <3>2. Undisturbed' => /\ worker'.at = "ask" =>
                               Taken' <= Len(srvItems') /\ worker'.rows = SubSeq(srvItems', 1, Taken')
                          /\ worker'.at = "got" => worker'.rows = srvItems'
      BY <1>2, <2>7
    <3> QED
      BY <1>5, <2>1, <3>1, <3>2 DEF PassOK
  <2> QED
    BY <1>1, <1>2, <2>4, <2>5, <2>6, <2>8 DEF ViewIsCurrent
<1> QED
  BY <1>2, <1>7, <1>8

LEMMA Reordered ==
    ASSUME NEW s, Listed(s), NEW r \in SetToSeqs(ToSet(s)) PROVE Listed(r)
<1>1. s \in Surjection(1 .. Len(s), ToSet(s)) /\ Len(s) \in Nat
  BY DEF Listed, Surjection, ToSet
<1>2. IsFiniteSet(1 .. Len(s))
  BY <1>1, FS_Interval
<1>3. IsFiniteSet(ToSet(s))
  BY <1>1, <1>2, FS_Surjection
<1>4. Cardinality(ToSet(s)) \in Nat
  BY <1>3, FS_CardinalityType
<1>5. r \in [1 .. Cardinality(ToSet(s)) -> ToSet(s)]
  BY DEF SetToSeqs
<1>6. r \in Seq(ToSet(s))
  BY <1>4, <1>5
<1> QED
  BY <1>6, ListedSeq

\* What edits leave of a queue is a queue.
LEMMA QueueStays ==
    ASSUME Listed(srvItems)
    PROVE  /\ \A i : \A q \in Without(i) : Listed(q)
           /\ \A i : Listed(Append(srvItems, i))
           /\ srvItems # <<>> => Listed(Tail(srvItems))
<1>1. \A i : \A q \in Without(i) : Listed(q)
  BY RemovedAt DEF Without
<1>2. ASSUME NEW i PROVE Listed(Append(srvItems, i))
  <2> DEFINE A == ToSet(srvItems)
  <2>1. srvItems \in Seq(A)
    BY DEF Listed
  <2> HIDE DEF A
  <2>2. srvItems \in Seq(A \cup {i})
    BY <2>1
  <2>3. Append(srvItems, i) \in Seq(A \cup {i})
    BY <2>2
  <2> QED
    BY <2>3, ListedSeq
<1>3. srvItems # <<>> => Listed(Tail(srvItems))
  BY ListedTail
<1> QED
  BY <1>1, <1>2, <1>3

LEMMA ListedShort ==
    /\ \A x : Listed(<<x>>) /\ \A n \in DOMAIN <<x>> : n = 1
    /\ \A x, y : Listed(<<x, y>>) /\ \A n \in DOMAIN <<x, y>> : n \in {1, 2}
<1>1. ASSUME NEW x PROVE Listed(<<x>>) /\ \A n \in DOMAIN <<x>> : n = 1
  <2>1. <<x>> \in Seq({x}) /\ \A n \in DOMAIN <<x>> : n = 1
    OBVIOUS
  <2>2. Listed(<<x>>)
    BY <2>1, ListedSeq
  <2> QED
    BY <2>1, <2>2
<1>2. ASSUME NEW x, NEW y PROVE Listed(<<x, y>>) /\ \A n \in DOMAIN <<x, y>> : n \in {1, 2}
  <2>1. <<x, y>> \in Seq({x, y})
    OBVIOUS
  <2>2. Listed(<<x, y>>)
    BY <2>1, ListedSeq
  <2>3. \A n \in DOMAIN <<x, y>> : n \in {1, 2}
    OBVIOUS
  <2> QED
    BY <2>2, <2>3
<1> QED
  BY <1>1, <1>2

LEMMA AppendTwo == \A x, y : Append(<<x>>, y) = <<x, y>>
<1> SUFFICES ASSUME NEW x, NEW y PROVE Append(<<x>>, y) = <<x, y>>
  OBVIOUS
<1> DEFINE a == Append(<<x>>, y)
           b == <<x, y>>
<1>1. <<x>> \in Seq({x, y}) /\ Len(<<x>>) = 1 /\ <<x>>[1] = x
  OBVIOUS
<1>2. a \in Seq({x, y}) /\ Len(a) = 2 /\ a[1] = x /\ a[2] = y
  BY <1>1
<1>3. b \in Seq({x, y}) /\ Len(b) = 2 /\ b[1] = x /\ b[2] = y
  OBVIOUS
<1> HIDE DEF a, b
<1>4. a = b
  BY <1>2, <1>3
<1> QED
  BY <1>4 DEF a, b

\* The server writes one or two lines.
LEMMA VInvSays ==
    ASSUME VInv, asks' \subseteq asks, NEW x, x.kind # "page", x.by # "worker",
           UNCHANGED <<dead, cut, dirty, refreshing, ready, items, worker>>,
           srvItems' = srvItems \/ (Listed(srvItems') /\ x.kind \in QueueNews),
           \/ out' = out \o <<x>>
           \/ \E y : y.kind # "page" /\ y.by # "worker" /\ (out' = out \o <<x, y>> \/ out' = out \o <<y, x>>)
    PROVE  VInv'
<1>1. CASE out' = out \o <<x>>
  <2> DEFINE l == <<x>>
  <2>1. /\ Listed(l) /\ \A n \in DOMAIN l : l[n] = x
        /\ \E n \in DOMAIN l : l[n] = x
    BY ListedShort
  <2>2. out' = out \o l
    BY <1>1
  <2> HIDE DEF l
  <2> QED
    BY <2>1, <2>2, VInvEmit
<1>2. ASSUME NEW y, y.kind # "page", y.by # "worker", out' = out \o <<x, y>> PROVE VInv'
  <2> DEFINE l == <<x, y>>
  <2>1. /\ Listed(l) /\ \A n \in DOMAIN l : l[n] \in {x, y}
        /\ \E n \in DOMAIN l : l[n] = x
    BY ListedShort
  <2>2. out' = out \o l
    BY <1>2
  <2> HIDE DEF l
  <2> QED
    BY <1>2, <2>1, <2>2, VInvEmit
<1>3. ASSUME NEW y, y.kind # "page", y.by # "worker", out' = out \o <<y, x>> PROVE VInv'
  <2> DEFINE l == <<y, x>>
  <2>1. /\ Listed(l) /\ \A n \in DOMAIN l : l[n] \in {x, y}
        /\ \E n \in DOMAIN l : l[n] = x
    BY ListedShort
  <2>2. out' = out \o l
    BY <1>3
  <2> HIDE DEF l
  <2> QED
    BY <1>3, <2>1, <2>2, VInvEmit
<1> QED
  BY <1>1, <1>2, <1>3

LEMMA VInvServeList == ASSUME VInv, NEW a, ServeList(a) PROVE VInv'
<1> USE DEF host, flags, tasks
<1> SUFFICES ASSUME ~dead PROVE (~cut /\ ListsOK /\ OnePage /\ PassOK /\ ViewIsCurrent)'
  BY DEF VInv, ServeList, Serve
<1>1. ~cut /\ ListsOK /\ OnePage /\ PassOK /\ ViewIsCurrent
  BY DEF VInv
<1> DEFINE p == Pages(a.of[1])
           x == Line("page", a.by, p.to < Len(srvItems), SubSeq(srvItems, p.from, p.to))
<1>2. /\ UNCHANGED <<dead, cut, dirty, refreshing, ready, items, srvItems, worker>>
      /\ a \in asks /\ a.kind = "list" /\ asks' = asks \ {a}
      /\ out' = out \o <<x>>
  BY DEF ServeList, Serve, Emit, server
<1>3. /\ a = Ask("list", "worker", <<worker.pages>>) /\ worker.at = "wait"
      /\ \A n \in DOMAIN out : out[n].kind # "page"
  BY <1>1, <1>2 DEF OnePage
<1>4. a.of[1] = worker.pages /\ a.by = "worker"
  BY <1>3 DEF Ask
<1>5. \A b \in asks' : b \in asks /\ b.kind \notin {"list", "page"} /\ b.by # "worker"
  BY <1>1, <1>2, <1>3 DEF OnePage
<1>6. worker.pages \in Nat /\ Taken \in Nat /\ PAGE \in Nat \ {0}
  BY <1>1, Arithmetic DEF PassOK, Taken
<1>7. Listed(srvItems) /\ Len(srvItems) \in Nat
  BY <1>1 DEF ListsOK, Listed
<1>8. /\ x.kind = "page" /\ x.by = "worker" /\ x.kind \notin QueueNews
      /\ x.ok <=> Pages(worker.pages).to < Len(srvItems)
      /\ x.of = SubSeq(srvItems, Pages(worker.pages).from, Pages(worker.pages).to)
  BY <1>4 DEF Line, QueueNews
<1>9. Listed(x.of)
  <2>1. Pages(worker.pages).from = Taken + 1
    BY DEF Pages, Taken
  <2>2. (worker.pages + 1) * PAGE \in Nat
    BY <1>6, Arithmetic
  <2>3. Pages(worker.pages).to \in Nat /\ Pages(worker.pages).to <= Len(srvItems)
    BY <1>7, <2>2 DEF Pages
  <2>4. Taken + 1 \in Int /\ 1 <= Taken + 1 /\ Pages(worker.pages).to \in Int
    BY <1>6, <2>3
  <2>5. Listed(SubSeq(srvItems, Pages(worker.pages).from, Pages(worker.pages).to))
    BY <1>7, <2>1, <2>3, <2>4, ListedPart
  <2> QED
    BY <1>8, <2>5
<1> HIDE DEF x, p
<1>10. /\ Listed(out') /\ \A n \in DOMAIN out : n \in DOMAIN out' /\ out'[n] = out[n]
       /\ \A n \in DOMAIN out' : n \in DOMAIN out \/ (n = Len(out) + 1 /\ out'[n] = x)
  <2> DEFINE l == <<x>>
  <2>1. Listed(l) /\ Listed(out) /\ out' = out \o l
    BY <1>1, <1>2, ListedShort DEF ListsOK
  <2>2. Len(out) \in Nat /\ DOMAIN l = {1} /\ l[1] = x
    BY <2>1 DEF Listed
  <2> HIDE DEF l
  <2>3. Listed(out') /\ Joins(out', out, l)
    BY <2>1, ListedJoined
  <2>4. DOMAIN out' \subseteq Nat
    BY <2>3 DEF Listed
  <2>5. ASSUME NEW n \in DOMAIN out', n \notin DOMAIN out
        PROVE  n = Len(out) + 1 /\ out'[n] = x
    <3>1. n - Len(out) \in DOMAIN l /\ out'[n] = l[n - Len(out)]
      BY <2>3, <2>5 DEF Joins
    <3>2. n - Len(out) = 1
      BY <2>2, <3>1
    <3> QED
      BY <2>2, <2>4, <3>1, <3>2
  <2> QED
    BY <2>3, <2>5 DEF Joins
<1>11. ListsOK'
  BY <1>1, <1>2, <1>3, <1>5, <1>9, <1>10 DEF ListsOK
<1>12. OnePage'
  <2>1. \A n, m \in DOMAIN out' : out'[n].kind = "page" /\ out'[m].kind = "page" => n = m
    BY <1>3, <1>10
  <2>2. \A n \in DOMAIN out' : out'[n].kind = "page" <=> out'[n].by = "worker"
    BY <1>1, <1>8, <1>10 DEF OnePage
  <2> QED
    BY <1>1, <1>2, <1>3, <1>5, <2>1, <2>2 DEF OnePage
<1>13. Undisturbed' => Undisturbed
  BY <1>2, <1>10 DEF Undisturbed, News
<1>14. PassOK'
  <2> SUFFICES ASSUME Undisturbed' PROVE PassOK'
    BY <1>1, <1>2 DEF PassOK
  <2>1. ASSUME NEW n \in DOMAIN out', out'[n].kind = "page"
        PROVE  /\ out'[n].ok <=> Pages(worker.pages).to < Len(srvItems)
               /\ out'[n].of = SubSeq(srvItems, Pages(worker.pages).from, Pages(worker.pages).to)
    <3>1. out'[n] = x
      BY <1>3, <1>10, <2>1
    <3> QED
      BY <1>8, <3>1
  <2> QED
    BY <1>1, <1>2, <1>13, <2>1 DEF PassOK, Taken, Pages
<1>15. ViewIsCurrent'
  BY <1>1, <1>2, <1>3, <1>10 DEF ViewIsCurrent, PassOK
<1> QED
  BY <1>1, <1>2, <1>11, <1>12, <1>14, <1>15

LEMMA VInvServe == ASSUME VInv, NEW o \in Owners, Served(o) PROVE VInv'
<1> USE DEF host, flags, tasks
<1> SUFFICES ASSUME ~dead' PROVE VInv'
  BY DEF VInv
<1> PICK a \in asks :
      \/ ServeList(a) \/ ServeEdit(a) \/ ServeStart(a) \/ ServeSteer(a)
      \/ ServeTurn(a) \/ ServeSettings(a) \/ Refuse(a) \/ ServeInterrupt(a)
  BY DEF Served
<1>1. /\ UNCHANGED <<dead, cut, dirty, refreshing, ready, items, worker>>
      /\ asks' \subseteq asks
  BY DEF ServeList, ServeEdit, ServeStart, ServeSteer, ServeTurn, ServeSettings, Refuse, ServeInterrupt, Serve
<1>2. ListsOK /\ OnePage /\ Listed(srvItems)
  BY <1>1 DEF VInv, ListsOK
<1>3. a.kind # "list" => a.by # "worker"
  BY <1>2 DEF OnePage
<1>4. ASSUME NEW of
      PROVE  /\ Notice("started", of).kind \in QueueNews
             /\ Notice("changed", of).kind \in QueueNews
             /\ Notice("completed", of).kind \in QueueNews
             /\ Notice("started", of).kind # "page"
             /\ Notice("changed", of).kind # "page"
             /\ Notice("completed", of).kind # "page"
             /\ Notice("started", of).by # "worker"
             /\ Notice("changed", of).by # "worker"
             /\ Notice("completed", of).by # "worker"
  BY DEF Notice, Line, QueueNews
<1>5. \A ok, of : Reply(a, ok, of).kind = a.kind /\ Reply(a, ok, of).by = a.by
  BY DEF Reply, Line
<1>6. CASE ServeEdit(a)
  <2>1. PICK s \in Edited(a) : /\ srvItems' = s
                               /\ out' = out \o <<Notice("changed", <<>>), Reply(a, TRUE, <<>>)>>
    BY <1>6 DEF ServeEdit, Emit
  <2>2. a.kind \in Edits
    BY <1>6 DEF ServeEdit
  <2>3. Listed(s)
    <3>1. a.kind \notin {"add", "update", "delete"} => a.kind = "reorder"
      BY <2>2 DEF Edits
    <3>2. a.kind = "reorder" => Listed(a.of)
      BY <1>2 DEF ListsOK
    <3> QED
      BY <1>2, <3>1, <3>2, QueueStays DEF Edited
  <2> QED
    BY <1>1, <1>3, <1>4, <1>5, <2>1, <2>2, <2>3, VInvSays DEF Edits
<1>7. CASE ServeStart(a)
  <2>1. /\ srvItems' \in Without(a.of[1]) /\ a.kind = "start"
        /\ out' = out \o Append(<<Reply(a, TRUE, <<>>)>>, Notice("started", <<turns + 1>>))
    BY <1>7 DEF ServeStart, BeginTurn, Emit
  <2>2. out' = out \o <<Reply(a, TRUE, <<>>), Notice("started", <<turns + 1>>)>>
    BY <2>1, AppendTwo
  <2>3. Listed(srvItems')
    BY <1>2, <2>1, QueueStays
  <2> QED
    BY <1>1, <1>3, <1>4, <1>5, <2>1, <2>2, <2>3, VInvSays
<1>8. CASE ServeTurn(a)
  <2>1. /\ srvItems' = srvItems /\ a.kind \in {"turn", "answer"}
        /\ out' = out \o Append(<<Reply(a, TRUE, <<turns + 1>>)>>, Notice("started", <<turns + 1>>))
    BY <1>8 DEF ServeTurn, BeginTurn, Emit
  <2>2. out' = out \o <<Reply(a, TRUE, <<turns + 1>>), Notice("started", <<turns + 1>>)>>
    BY <2>1, AppendTwo
  <2> QED
    BY <1>1, <1>3, <1>4, <1>5, <2>1, <2>2, VInvSays
<1>9. CASE ServeSteer(a) \/ Refuse(a)
  <2>1. /\ srvItems' = srvItems /\ a.kind # "list"
        /\ \E ok, of : out' = out \o <<Reply(a, ok, of)>>
    BY <1>9 DEF ServeSteer, Refuse, Emit
  <2>2. a.kind # "page"
    BY <1>2 DEF OnePage
  <2> QED
    BY <1>1, <1>3, <1>5, <2>1, <2>2, VInvSays
<1>10. CASE ServeSettings(a)
  <2>1. /\ srvItems' = srvItems /\ a.kind \in {"menu", "settings"}
        /\ \/ out' = out \o <<Reply(a, TRUE, <<>>)>>
           \/ out' = out \o <<Line("told", a.by, TRUE, <<>>), Reply(a, TRUE, <<>>)>>
    BY <1>10 DEF ServeSettings, Emit
  <2>2. Line("told", a.by, TRUE, <<>>).kind = "told" /\ Line("told", a.by, TRUE, <<>>).by = a.by
    BY DEF Line
  <2> QED
    BY <1>1, <1>3, <1>5, <2>1, <2>2, VInvSays
<1>11. CASE ServeInterrupt(a)
  <2>1. srvItems' = srvItems /\ (out' = out \/ out' = out \o <<Notice("completed", <<>>)>>)
    BY <1>11 DEF ServeInterrupt, Emit
  <2>2. CASE out' = out
    BY <1>1, <2>1, <2>2, VInvFrame
  <2>3. CASE out' = out \o <<Notice("completed", <<>>)>>
    <3> DEFINE over == Notice("completed", <<>>)
    <3>1. over.kind # "page" /\ over.by # "worker" /\ out' = out \o <<over>>
      BY <1>4, <2>3
    <3> HIDE DEF over
    <3> QED
      BY <1>1, <2>1, <3>1, VInvSays
  <2> QED
    BY <2>1, <2>2, <2>3
<1> QED
  BY <1>6, <1>7, <1>8, <1>9, <1>10, <1>11, VInvServeList

\* The server acts on its own.
LEMMA VInvServer == ASSUME VInv, TurnEnds \/ QueueRuns \/ OtherClient PROVE VInv'
<1> USE DEF host, flags, tasks
<1> SUFFICES ASSUME ~dead' PROVE VInv'
  BY DEF VInv
<1>1. UNCHANGED <<dead, cut, dirty, refreshing, ready, items, worker, asks>>
  BY DEF TurnEnds, QueueRuns, OtherClient
<1>2. Listed(srvItems)
  BY <1>1 DEF VInv, ListsOK
<1>3. PICK kind, of :
        /\ kind \in QueueNews
        /\ out' = out \o <<Notice(kind, of)>>
        /\ srvItems' = srvItems \/ Listed(srvItems')
  <2>1. CASE TurnEnds
    BY <2>1 DEF TurnEnds, Emit, QueueNews
  <2>2. CASE QueueRuns
    <3>1. out' = out \o <<Notice("started", <<turns + 1>>)>>
      <4>1. \A x : Append(<<>>, x) = <<x>>
        OBVIOUS
      <4> QED
        BY <2>2, <4>1 DEF QueueRuns, BeginTurn, Emit
    <3>2. Listed(srvItems')
      BY <1>2, <2>2, QueueStays DEF QueueRuns
    <3> QED
      BY <3>1, <3>2 DEF QueueNews
  <2>3. CASE OtherClient
    <3>1. out' = out \o <<Notice("changed", <<>>)>>
      BY <2>3 DEF OtherClient, Emit
    <3>2. Listed(srvItems')
      BY <1>2, <2>3, QueueStays DEF OtherClient
    <3> QED
      BY <3>1, <3>2 DEF QueueNews
  <2> QED
    BY <2>1, <2>2, <2>3
<1> DEFINE x == Notice(kind, of)
<1>4. x.kind \in QueueNews /\ x.kind # "page" /\ x.by # "worker" /\ out' = out \o <<x>>
  BY <1>3 DEF Notice, Line, QueueNews
<1> HIDE DEF x
<1> QED
  BY <1>1, <1>3, <1>4, VInvSays

\* A request of a lane, a surface or an answer is foreign to the worker.
LEMMA Foreigners ==
    ASSUME NEW by \in Callers \cup Prompts \cup Questions \cup {"host"}, NEW of,
           NEW kind \in (OnQueue \ {"reorder"}) \cup {"menu", "settings", "turn", "answer",
                                                      "answersteer", "interrupt"}
    PROVE  Foreign(Ask(kind, by, of))
  BY KindsAssumption DEF KindsAssumption, Foreign, Ask, OnQueue, Edits

LEMMA VInvReader == ASSUME PInv, VInv, Reader PROVE VInv'
<1> USE DEF Take, Aside, host, flags, server
<1>1. CASE AdoptThread \/ FailStartup \/ OpAnswered \/ TurnReply \/ AnswerReply
  <2>1. /\ UNCHANGED <<cut, refreshing, items, worker, srvItems, asks>>
        /\ dead => dead'
        /\ dirty => dirty'
        /\ ready' => ready
        /\ out # <<>> /\ out' = Tail(out)
        /\ Head(out).kind \in {"thread", "menu", "settings", "told", "turn", "answer", "answersteer"} \cup OnQueue
    BY <1>1 DEF AdoptThread, FailStartup, OpAnswered, TurnReply, AnswerReply
  <2>2. Head(out).kind # "page" /\ Head(out).kind \notin QueueNews
    BY <2>1 DEF OnQueue, Edits, QueueNews
  <2> QED
    BY <2>1, <2>2, VInvTake
<1>2. CASE QueueChanged \/ TurnStarted \/ TurnCompleted
  <2>1. /\ UNCHANGED <<dead, cut, refreshing, items, worker, srvItems, asks>>
        /\ dirty => dirty'
        /\ ready' => ready
        /\ dead \/ dirty'
        /\ out # <<>> /\ out' = Tail(out)
        /\ Head(out).kind \in {"changed", "started", "completed"}
    BY <1>2 DEF QueueChanged, TurnStarted, TurnCompleted, TakeNotice
  <2> QED
    BY <2>1, VInvTake
<1>3. CASE PageRead
  BY <1>3, VInvPage
<1>4. CASE Drain
  <2>1. /\ UNCHANGED <<dead, cut, dirty, refreshing, ready, items, worker, srvItems, out>>
        /\ asks' = asks \/ \E q \in Prompts : asks' = asks \cup {Ask("turn", q, <<>>)}
    <3>1. queue # <<>> => Head(queue) \in Prompts
      BY DEF PInv, PartsOK
    <3> QED
      BY <1>4, <3>1 DEF Drain, Write
  <2> QED
    BY <2>1, VInvFrame, Foreigners
<1>5. CASE ReaderRefresh
  BY <1>5, VInvRefresh DEF ReaderRefresh, Refresh
<1> QED
  BY <1>1, <1>2, <1>3, <1>4, <1>5 DEF Reader

LEMMA VInvUser == ASSUME VInv, User PROVE VInv'
<1> USE DEF host, flags, tasks, server
<1>1. CASE RequestHistory
  BY <1>1, VInvRefresh DEF RequestHistory
<1>2. CASE Interrupt
  <2>1. /\ UNCHANGED <<dead, cut, dirty, refreshing, ready, items, worker, srvItems, out>>
        /\ asks' = asks \/ asks' = asks \cup {Ask("interrupt", "host", <<turnId>>)}
    BY <1>2 DEF Interrupt
  <2> QED
    BY <2>1, VInvFrame, Foreigners
<1>3. ASSUME NEW c \in Callers, Control(c) PROVE VInv'
  <2>1. PICK x \in Allowed : asks' = asks \cup {Ask(x.kind, c, x.of)}
    BY <1>3 DEF Control
  <2>2. UNCHANGED <<dead, cut, dirty, refreshing, ready, items, worker, srvItems, out>>
    BY <1>3 DEF Control
  <2> SUFFICES ASSUME ~dead PROVE VInv'
    BY <2>2 DEF VInv
  <2>3. Listed(items)
    BY DEF VInv, ListsOK
  <2>4. x.kind \in OnQueue /\ (x.kind = "reorder" => Listed(x.of))
    BY <2>3, Reordered DEF Allowed, OnQueue, Edits
  <2>5. Foreign(Ask(x.kind, c, x.of))
    BY <2>4, KindsAssumption DEF KindsAssumption, Foreign, Ask, OnQueue, Edits
  <2> QED
    BY <2>1, <2>2, <2>5, VInvFrame
<1>4. ASSUME NEW c \in Callers, ControlRefresh(c) \/ OpLost(c) PROVE VInv'
  <2>1. /\ UNCHANGED <<dead, cut, refreshing, items, worker, srvItems, out, asks>>
        /\ dirty => dirty'
        /\ ready' => ready
    BY <1>4 DEF ControlRefresh, OpLost
  <2> QED
    BY <2>1, VInvFrame
<1>5. ASSUME NEW c \in Callers, NEW kind \in Settings, ChangeSettings(c, kind) PROVE VInv'
  <2>1. /\ UNCHANGED <<dead, cut, dirty, refreshing, ready, items, worker, srvItems, out>>
        /\ asks' = asks \cup {Ask("menu", c, <<>>)}
    BY <1>5 DEF ChangeSettings
  <2> QED
    BY <2>1, VInvFrame, Foreigners
<1>6. ASSUME NEW p \in Prompts, Submit(p) PROVE VInv'
  <2>1. /\ UNCHANGED <<dead, cut, dirty, refreshing, ready, items, worker, srvItems, out>>
        /\ asks' = asks \/ asks' = asks \cup {Ask("turn", p, <<>>)}
    BY <1>6 DEF Submit, Write
  <2> QED
    BY <2>1, VInvFrame, Foreigners
<1>7. ASSUME NEW p \in Prompts, SubmitBroken(p) PROVE VInv'
  BY <1>7 DEF SubmitBroken, VInv
<1>8. ASSUME NEW q \in Questions, Answer(q) PROVE VInv'
  <2>1. /\ UNCHANGED <<dead, cut, dirty, refreshing, ready, items, worker, srvItems, out>>
        /\ \/ asks' = asks \cup {Ask("answersteer", q, <<turnId>>)}
           \/ asks' = asks \cup {Ask("answer", q, <<>>)}
    BY <1>8 DEF Answer, Write
  <2> QED
    BY <2>1, VInvFrame, Foreigners
<1>9. ASSUME NEW q \in Questions, Dismiss(q) PROVE VInv'
  BY <1>9, VInvFrame DEF Dismiss
<1> QED
  BY <1>1, <1>2, <1>3, <1>4, <1>5, <1>6, <1>7, <1>8, <1>9 DEF User

LEMMA VInvStep == PInv /\ VInv /\ [Next]_vars => VInv'
<1> SUFFICES ASSUME PInv, VInv, [Next]_vars PROVE VInv'
  OBVIOUS
<1>1. CASE Worker \/ WorkerLost
  BY <1>1, VInvBegin, VInvAsk, VInvGivesUp, VInvEnd DEF Worker
<1>2. ASSUME NEW c \in Callers, Operation(c) PROVE VInv'
  <2>1. CASE SendSettings(c)
    <3>1. /\ UNCHANGED <<dead, cut, dirty, refreshing, ready, items, worker, srvItems, out>>
          /\ asks' = asks \/ asks' = asks \cup {Ask("settings", c, <<>>)}
      BY <2>1 DEF SendSettings, host, flags, server
    <3> QED
      BY <3>1, VInvFrame, Foreigners
  <2>2. CASE OpCutOff(c) \/ OpEnd(c)
    <3>1. /\ UNCHANGED <<dead, cut, refreshing, items, worker, srvItems, out, asks>>
          /\ dirty => dirty'
          /\ ready' => ready
      BY <2>2 DEF OpCutOff, OpEnd, host, flags, server
    <3> QED
      BY <3>1, VInvFrame
  <2>3. CASE OpRefresh(c)
    BY <2>3, VInvRefresh DEF OpRefresh, Refresh, host, server
  <2> QED
    BY <1>2, <2>1, <2>2, <2>3 DEF Operation
<1>3. ASSUME NEW q \in Questions, Outcome(q) PROVE VInv'
  BY <1>3, VInvFrame DEF Outcome, AnswerEnd, AnswerUnknown, host, flags, server
<1>4. CASE RetireBrokenWriter \/ StdoutCloses \/ Stop
  BY <1>4 DEF RetireBrokenWriter, StdoutCloses, Stop, GiveUp, VInv
<1>5. CASE UNCHANGED vars
  BY <1>5, VInvFrame DEF vars
<1> QED
  BY <1>1, <1>2, <1>3, <1>4, <1>5, VInvUser, VInvReader, VInvServe, VInvServer DEF Next

\* For any queue, pages, operations and deadlines, and whatever the server and
\* its other clients do: a view that counts as fresh is the server's queue.
THEOREM FreshView == Spec => []ViewIsCurrent
<1>1. VInv => ViewIsCurrent
  BY DEF VInv, ViewIsCurrent
<1> QED
  BY <1>1, PInvInit, PInvStep, VInvInit, VInvStep, PTL DEF Spec

================================================================================
