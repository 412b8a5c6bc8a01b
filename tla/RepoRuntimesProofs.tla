------------------------- MODULE RepoRuntimesProofs -------------------------
(***************************************************************************)
(* The runtimes of a repo and who hears them, for any number of verbs      *)
(* under way, permits, failures and surfaces: no runtime leaks or outlives *)
(* the daemon's shutdown, the table tells the truth once verbs have not    *)
(* crossed, and a surface that was not left behind hears what runs.        *)
(***************************************************************************)
EXTENDS CanvasRouters, FiniteSetTheorems, TLAPS

\* Where a verb has a runtime in its hands.
Handling == {"starting", "refused", "closed", "halt"}

HandsOK ==
    /\ \A c \in Calls : call[c].g # NONE <=> call[c].at \in Handling
    \* a runtime is in one place only
    /\ \A c, d \in Calls : call[c].g # NONE /\ call[c].g = call[d].g => c = d
    /\ \A c \in Calls : call[c].g # NONE => call[c].g # live /\ call[c].g \notin held \cup orphans

PlacesOK ==
    /\ live # NONE => live \notin held \cup orphans
    /\ held \cap orphans = {}
    /\ phase \in {"drained", "down"} => live = NONE
    /\ phase # "drained" => held = {}

Owned == HandsOK /\ PlacesOK /\ NoneLeaks
IInv == TypeOK /\ Owned

-----------------------------------------------------------------------------
LEMMA InitIInv == Init => IInv
<1> SUFFICES ASSUME Init PROVE IInv
  OBVIOUS
<1>1. \A c \in Calls : call[c].at = "idle" /\ call[c].g = NONE
  BY DEF Init, Free
<1>2. Holding = {} /\ Handled = {}
  BY <1>1 DEF Holding, Handled
<1>3. Cardinality(Holding) = 0
  BY <1>2, FS_EmptySet
<1>4. TypeOK
  <2>1. call \in [Calls -> [verb : Verbs, at : Stages, g : 0 .. born, alone : BOOLEAN]]
    BY DEF Init, Free, Verbs, Stages, NONE
  <2>2. verbs \in 0 .. MAX_VERBS /\ failures \in 0 .. MAX_FAILURES /\ Cardinality(Holding) <= PERMITS
    BY <1>3, BoundsAssumption DEF Init
  <2>3. /\ born \in Nat /\ live \in 0 .. born
        /\ alive \subseteq 1 .. born /\ held \subseteq 1 .. born /\ orphans \subseteq 1 .. born
    BY DEF Init, NONE
  <2>4. /\ listed \in BOOLEAN /\ running \in BOOLEAN /\ told \in BOOLEAN /\ closing \in BOOLEAN /\ crossed \in BOOLEAN
        /\ status \in {"Stopped", "Starting", "Running", "Stopping"}
        /\ phase \in {"up", "closing", "drained", "down"} /\ (closing <=> phase # "up")
    BY DEF Init
  <2> QED
    BY <2>1, <2>2, <2>3, <2>4 DEF TypeOK
<1>5. Owned
  BY <1>1, <1>2 DEF Init, Owned, HandsOK, PlacesOK, NoneLeaks, Handling, NONE
<1> QED
  BY <1>4, <1>5 DEF IInv

-----------------------------------------------------------------------------
(* Types.                                                                  *)

\* A call that holds a permit had one, or was let through.
LEMMA HoldingKept ==
    ASSUME TypeOK, NEW c \in Calls, Verb(c)
    PROVE  \/ Holding' \subseteq Holding
           \/ Holding' \subseteq Holding \cup {c} /\ Cardinality(Holding) < PERMITS
<1> USE DEF TypeOK, Holding, Goes, Returns, Free
<1>1. ASSUME NEW v \in Verbs, Begin(c, v) PROVE Holding' \subseteq Holding
  BY <1>1 DEF Begin, Verbs
<1>2. CASE Permit(c)
  BY <1>2 DEF Permit, PermitLeft
<1>3. CASE Check(c) \/ Enter(c) \/ StartFails(c) \/ Insert(c)
  BY <1>3 DEF Check, Enter, StartFails, Insert
<1>4. CASE Discard(c) \/ Record(c) \/ Tell(c)
  BY <1>4 DEF Discard, Record, Tell
<1>5. CASE Find(c) \/ Take(c) \/ Halt(c) \/ Unrecord(c) \/ Untell(c)
  BY <1>5 DEF Find, Take, Halt, Unrecord, Untell, AfterStop
<1>6. CASE Remove(c) \/ Forget(c) \/ Add(c) \/ Abort(c)
  BY <1>6 DEF Remove, Forget, Add, Abort
<1> QED
  BY <1>1, <1>2, <1>3, <1>4, <1>5, <1>6 DEF Verb

LEMMA PermitsKept ==
    ASSUME TypeOK, NEW c \in Calls, Verb(c)
    PROVE  Cardinality(Holding') <= PERMITS
<1>1. IsFiniteSet(Holding) /\ IsFiniteSet(Holding \cup {c})
  <2>1. Holding \subseteq Calls /\ Holding \cup {c} \subseteq Calls
    BY DEF Holding
  <2> QED
    BY <2>1, BoundsAssumption, FS_Subset
<1>2. Cardinality(Holding) \in Nat /\ Cardinality(Holding) <= PERMITS /\ PERMITS \in Nat
  BY <1>1, FS_CardinalityType, BoundsAssumption DEF TypeOK
<1>3. CASE Holding' \subseteq Holding
  <2>1. Cardinality(Holding') <= Cardinality(Holding) /\ Cardinality(Holding') \in Nat
    BY <1>1, <1>3, FS_Subset, FS_CardinalityType
  <2> QED
    BY <2>1, <1>2
<1>4. CASE Holding' \subseteq Holding \cup {c} /\ Cardinality(Holding) < PERMITS
  <2>1. /\ Cardinality(Holding') <= Cardinality(Holding \cup {c})
        /\ Cardinality(Holding') \in Nat /\ Cardinality(Holding \cup {c}) \in Nat
    BY <1>1, <1>4, FS_Subset, FS_CardinalityType
  <2>2. Cardinality(Holding \cup {c}) <= Cardinality(Holding) + 1
    BY <1>1, <1>2, FS_AddElement
  <2> QED
    BY <2>1, <2>2, <1>2, <1>4
<1> QED
  BY <1>3, <1>4, HoldingKept
-----------------------------------------------------------------------------
\* TypeOK in parts.
Slots(n) == [verb : Verbs, at : Stages, g : 0 .. n, alone : BOOLEAN]
CallsOK == call \in [Calls -> Slots(born)]
TableOK ==
    /\ listed \in BOOLEAN /\ running \in BOOLEAN /\ told \in BOOLEAN
    /\ status \in {"Stopped", "Starting", "Running", "Stopping"}
    /\ verbs \in 0 .. MAX_VERBS /\ failures \in 0 .. MAX_FAILURES
DaemonOK ==
    /\ closing \in BOOLEAN
    /\ phase \in {"up", "closing", "drained", "down"} /\ (closing <=> phase # "up")
RuntimesOK ==
    /\ born \in Nat /\ live \in 0 .. born
    /\ alive \subseteq 1 .. born /\ held \subseteq 1 .. born /\ orphans \subseteq 1 .. born

LEMMA TypeParts ==
    TypeOK <=> CallsOK /\ TableOK /\ DaemonOK /\ RuntimesOK /\ crossed \in BOOLEAN /\ Cardinality(Holding) <= PERMITS
BY DEF TypeOK, CallsOK, Slots, TableOK, DaemonOK, RuntimesOK

\* After the step the call is at s with g in its hands, the others as before.
At(c, s, g) ==
    /\ call' \in [Calls -> Slots(born')]
    /\ call'[c].at = s /\ call'[c].g = g
    /\ \A d \in Calls \ {c} : call'[d].at = call[d].at /\ call'[d].g = call[d].g

LEMMA SlotParts ==
    ASSUME NEW n \in Nat, NEW r \in Slots(n)
    PROVE  /\ r.verb \in Verbs /\ r.at \in Stages /\ r.g \in 0 .. n /\ r.alone \in BOOLEAN
           /\ r = [verb |-> r.verb, at |-> r.at, g |-> r.g, alone |-> r.alone]
BY DEF Slots

LEMMA Wider ==
    ASSUME NEW n \in Nat, NEW m \in Nat, n <= m
    PROVE  Slots(n) \subseteq Slots(m)
<1>1. 0 .. n \subseteq 0 .. m
  OBVIOUS
<1> QED
  BY <1>1 DEF Slots

LEMMA HandsAt ==
    ASSUME CallsOK, born \in Nat, born' \in Nat, born <= born', NEW c \in Calls, NEW s \in Stages, NEW g \in 0 .. born',
           call' = [call EXCEPT ![c].at = s, ![c].g = g]
    PROVE  At(c, s, g)
<1>1. call[c] \in Slots(born') /\ \A d \in Calls : call[d] \in Slots(born')
  BY Wider DEF CallsOK
<1>2. [call[c] EXCEPT !.at = s, !.g = g] \in Slots(born')
  BY <1>1, SlotParts DEF Slots
<1>3. call' = [call EXCEPT ![c] = [call[c] EXCEPT !.at = s, !.g = g]]
  BY DEF CallsOK
<1>4. call' \in [Calls -> Slots(born')]
  BY <1>1, <1>2, <1>3 DEF CallsOK
<1>5. call'[c] = [call[c] EXCEPT !.at = s, !.g = g] /\ \A d \in Calls \ {c} : call'[d] = call[d]
  BY <1>3 DEF CallsOK
<1>6. call'[c].at = s /\ call'[c].g = g
  BY <1>1, <1>5 DEF Slots
<1> QED
  BY <1>4, <1>5, <1>6 DEF At

LEMMA GoesAt ==
    ASSUME CallsOK, born \in Nat, born' = born, NEW c \in Calls, NEW s \in Stages, Goes(c, s)
    PROVE  At(c, s, call[c].g)
<1>1. call[c] \in Slots(born)
  BY DEF CallsOK
<1>2. call[c].g \in 0 .. born' /\ [call[c] EXCEPT !.at = s] = [call[c] EXCEPT !.at = s, !.g = call[c].g]
  BY <1>1, SlotParts
<1>3. call' = [call EXCEPT ![c].at = s, ![c].g = call[c].g]
  BY <1>2 DEF CallsOK, Goes
<1>4. born' \in Nat /\ born <= born'
  OBVIOUS
<1> DEFINE g == call[c].g
<1> HIDE DEF g
<1>5. At(c, s, g)
  BY <1>2, <1>3, <1>4, HandsAt DEF g
<1> QED
  BY <1>5 DEF g

LEMMA LetsGoAt ==
    ASSUME CallsOK, born \in Nat, born' = born, NEW c \in Calls, NEW s \in Stages,
           call' = [call EXCEPT ![c].at = s, ![c].g = NONE]
    PROVE  At(c, s, NONE)
<1>1. NONE \in 0 .. born' /\ born' \in Nat /\ born <= born'
  BY DEF NONE
<1> QED
  BY <1>1, HandsAt

LEMMA ReturnsAt ==
    ASSUME CallsOK, born \in Nat, born' = born, NEW c \in Calls, Returns(c)
    PROVE  At(c, "idle", NONE)
<1>1. Free \in Slots(born')
  BY DEF Free, Slots, Verbs, Stages, NONE
<1>2. call' \in [Calls -> Slots(born')]
  BY <1>1 DEF CallsOK, Returns
<1>3. call'[c] = Free /\ \A d \in Calls \ {c} : call'[d] = call[d]
  BY DEF CallsOK, Returns
<1> QED
  BY <1>2, <1>3 DEF At, Free

LEMMA BeginAt ==
    ASSUME CallsOK, born \in Nat, NEW c \in Calls, NEW v \in Verbs, Begin(c, v)
    PROVE  \E s \in Stages \ Handling : At(c, s, NONE)
<1> DEFINE s == CASE v \in {"start", "auto"} -> "check" [] v \in {"stop", "restart"} -> "find" [] OTHER -> v
           r == [verb |-> v, g |-> NONE, alone |-> Quiet, at |-> s]
<1>1. s \in Stages \ Handling
  BY DEF Verbs, Stages, Handling
<1>2. Quiet \in BOOLEAN
  BY DEF Quiet
<1>3. call' = [d \in Calls |-> IF d = c THEN r ELSE [call[d] EXCEPT !.alone = FALSE]] /\ born' = born
  BY DEF Begin
<1> HIDE DEF s
<1>4. r \in Slots(born')
  BY <1>1, <1>2, <1>3 DEF Slots, NONE
<1>5. ASSUME NEW d \in Calls
      PROVE  /\ [call[d] EXCEPT !.alone = FALSE] \in Slots(born')
             /\ [call[d] EXCEPT !.alone = FALSE].at = call[d].at
             /\ [call[d] EXCEPT !.alone = FALSE].g = call[d].g
  <2>1. call[d] \in Slots(born)
    BY DEF CallsOK
  <2> QED
    BY <2>1, <1>3, SlotParts DEF Slots
<1>6. call' \in [Calls -> Slots(born')]
  <2> HIDE DEF r
  <2> QED
    BY <1>3, <1>4, <1>5
<1>7. call'[c].at = s /\ call'[c].g = NONE
  BY <1>3
<1>8. \A d \in Calls \ {c} : call'[d].at = call[d].at /\ call'[d].g = call[d].g
  BY <1>3, <1>5
<1> QED
  BY <1>1, <1>6, <1>7, <1>8 DEF At

-----------------------------------------------------------------------------
\* The four things a verb may do to the runtimes.
Paper(c) ==
    /\ \E s \in Stages : At(c, s, call[c].g) /\ (s \in Handling <=> call[c].at \in Handling)
    /\ UNCHANGED <<live, alive, held, orphans, born>>
Spawns(c) ==
    /\ call[c].at \notin Handling /\ At(c, "starting", born + 1)
    /\ born' = born + 1 /\ alive' = alive \cup {born + 1}
    /\ UNCHANGED <<live, held, orphans>>
Drops(c) ==
    /\ call[c].at \in Handling /\ \E s \in Stages \ Handling : At(c, s, NONE)
    /\ alive' = alive \ {call[c].g}
    /\ UNCHANGED <<live, held, orphans, born>>
Registers(c) ==
    /\ call[c].at \in Handling /\ \E s \in Stages \ Handling : At(c, s, NONE)
    /\ live = NONE /\ ~closing /\ live' = call[c].g
    /\ UNCHANGED <<alive, held, orphans, born>>
Unregisters(c) ==
    /\ call[c].at \notin Handling /\ live # NONE /\ At(c, "halt", live) /\ live' = NONE
    /\ UNCHANGED <<alive, held, orphans, born>>
Strays(c) ==
    /\ call[c].at \in Handling /\ \E s \in Stages \ Handling : At(c, s, NONE)
    /\ orphans' = orphans \cup {call[c].g}
    /\ UNCHANGED <<live, alive, held, born>>

Effect(c) == Paper(c) \/ Spawns(c) \/ Drops(c) \/ Registers(c) \/ Unregisters(c) \/ Strays(c)

LEMMA PaperGoes ==
    ASSUME IInv, NEW c \in Calls, NEW s \in Stages, Goes(c, s), s \in Handling <=> call[c].at \in Handling,
           UNCHANGED <<live, alive, held, orphans, born>>
    PROVE  Paper(c)
BY GoesAt, TypeParts DEF IInv, RuntimesOK, Paper

LEMMA PaperReturns ==
    ASSUME IInv, NEW c \in Calls, Returns(c), call[c].at \notin Handling,
           UNCHANGED <<live, alive, held, orphans, born>>
    PROVE  Paper(c)
<1>1. At(c, "idle", NONE)
  BY ReturnsAt, TypeParts DEF IInv, RuntimesOK
<1>2. call[c].g = NONE
  BY DEF IInv, Owned, HandsOK
<1> QED
  BY <1>1, <1>2 DEF Paper, Stages, Handling

LEMMA Effects ==
    ASSUME IInv, NEW c \in Calls, Verb(c)
    PROVE  Effect(c)
<1>0. /\ CallsOK /\ born \in Nat /\ live \in 0 .. born
      /\ call[c].g # NONE <=> call[c].at \in Handling
  BY TypeParts DEF IInv, RuntimesOK, Owned, HandsOK
<1>1. ASSUME NEW v \in Verbs, Begin(c, v) PROVE Paper(c)
  <2>1. PICK s \in Stages \ Handling : At(c, s, NONE)
    BY <1>0, <1>1, BeginAt
  <2>2. call[c].at = "idle" /\ UNCHANGED <<live, alive, held, orphans, born>>
    BY <1>1 DEF Begin, daemon
  <2> QED
    BY <1>0, <2>1, <2>2 DEF Paper, Handling
<1>2. CASE Check(c)
  BY <1>2, PaperGoes, PaperReturns DEF Check, Handling, Stages, daemon, Effect
<1>3. CASE Permit(c)
  BY <1>3, PaperGoes DEF Permit, Handling, Stages, daemon, Effect
<1>4. CASE Enter(c)
  <2>1. call[c].at = "enter" /\ UNCHANGED <<live, held, orphans>>
    BY <1>4 DEF Enter, daemon
  <2>2. CASE Returns(c) /\ UNCHANGED <<alive, born>>
    BY <2>1, <2>2, PaperReturns DEF Handling, Effect
  <2>3. CASE Goes(c, "record") /\ UNCHANGED <<alive, born>>
    BY <2>1, <2>3, PaperGoes DEF Handling, Stages, Effect
  <2>4. CASE /\ born' = born + 1 /\ alive' = alive \cup {born + 1}
             /\ call' = [call EXCEPT ![c].at = "starting", ![c].g = born + 1]
    <3>1. born + 1 \in 0 .. born' /\ born' \in Nat /\ born <= born' /\ "starting" \in Stages
      BY <1>0, <2>4 DEF Stages
    <3>2. At(c, "starting", born + 1)
      BY <1>0, <2>4, <3>1, HandsAt
    <3> QED
      BY <2>1, <2>4, <3>2 DEF Spawns, Effect, Handling
  <2> QED
    BY <1>4, <2>2, <2>3, <2>4 DEF Enter, Effect
<1>5. CASE StartFails(c)
  <2>1. At(c, "idle", NONE) /\ call[c].at = "starting" /\ "idle" \in Stages \ Handling
    BY <1>0, <1>5, ReturnsAt DEF StartFails, Stages, Handling
  <2> QED
    BY <1>5, <2>1 DEF StartFails, Drops, Effect, Handling, daemon
<1>6. CASE Insert(c)
  <2>1. call[c].at = "starting" /\ UNCHANGED <<alive, held, orphans, born>>
    BY <1>6 DEF Insert, daemon
  <2>2. CASE (Goes(c, "refused") \/ Goes(c, "closed")) /\ UNCHANGED live
    BY <2>1, <2>2, PaperGoes DEF Handling, Stages, Effect
  <2>3. CASE /\ live = NONE /\ ~ClosedMeanwhile /\ live' = call[c].g
             /\ call' = [call EXCEPT ![c].at = "record", ![c].g = NONE]
    <3>0. "record" \in Stages \ Handling
      BY DEF Stages, Handling
    <3>1. At(c, "record", NONE) /\ "record" \in Stages \ Handling
      BY <1>0, <2>1, <2>3, <3>0, LetsGoAt
    <3> QED
      BY <2>1, <2>3, <3>1 DEF Registers, Effect, Handling, ClosedMeanwhile
  <2> QED
    BY <1>6, <2>2, <2>3 DEF Insert
<1>7. CASE Discard(c)
  <2>1. /\ call[c].at \in Handling /\ alive' = alive \ {call[c].g}
        /\ UNCHANGED <<live, held, orphans, born>>
    BY <1>7 DEF Discard, Dropped, Handling, daemon
  <2>2. CASE call[c].at = "closed"
    <3>1. Returns(c)
      BY <1>7, <2>2 DEF Discard, Returns
    <3>2. At(c, "idle", NONE) /\ "idle" \in Stages \ Handling
      BY <1>0, <2>1, <3>1, ReturnsAt DEF Stages, Handling
    <3> QED
      BY <2>1, <3>2 DEF Drops, Effect
  <2>3. CASE call[c].at = "refused"
    <3>1. call' = [call EXCEPT ![c].at = "record", ![c].g = NONE]
      BY <1>0, <1>7, <2>3 DEF Discard, CallsOK
    <3>0. "record" \in Stages \ Handling
      BY DEF Stages, Handling
    <3>2. At(c, "record", NONE) /\ "record" \in Stages \ Handling
      BY <1>0, <2>1, <3>0, <3>1, LetsGoAt
    <3> QED
      BY <2>1, <3>2 DEF Drops, Effect
  <2> QED
    BY <1>7, <2>2, <2>3 DEF Discard
<1>8. CASE Record(c)
  BY <1>8, PaperGoes DEF Record, Handling, Stages, daemon, Effect
<1>9. CASE Tell(c)
  BY <1>9, PaperReturns DEF Tell, Handling, daemon, Effect
<1>10. CASE Find(c)
  BY <1>10, PaperGoes, PaperReturns DEF Find, AfterStop, Handling, Stages, daemon, Effect
<1>11. CASE Take(c)
  <2>1. /\ call[c].at = "take" /\ live' = NONE /\ UNCHANGED <<alive, held, orphans, born>>
        /\ call' = [call EXCEPT ![c].at = IF live = NONE THEN "unrecord" ELSE "halt", ![c].g = live]
    BY <1>11 DEF Take, daemon
  <2>2. CASE live = NONE
    <3>0. "unrecord" \in Stages \ Handling /\ call' = [call EXCEPT ![c].at = "unrecord", ![c].g = NONE]
      BY <2>1, <2>2 DEF Stages, Handling
    <3>1. At(c, "unrecord", NONE) /\ "unrecord" \in Stages \ Handling
      BY <1>0, <2>1, <3>0, LetsGoAt
    <3> QED
      BY <1>0, <2>1, <2>2, <3>1 DEF Paper, Effect, Handling
  <2>3. CASE live # NONE
    <3>0. /\ "halt" \in Stages /\ call' = [call EXCEPT ![c].at = "halt", ![c].g = live]
          /\ born' \in Nat /\ born <= born' /\ live \in 0 .. born'
      BY <1>0, <2>1, <2>3 DEF Stages
    <3>1. At(c, "halt", live)
      BY <1>0, <3>0, HandsAt
    <3> QED
      BY <2>1, <2>3, <3>1 DEF Unregisters, Effect, Handling
  <2> QED
    BY <2>2, <2>3
<1>12. CASE Halt(c)
  <2>0. /\ "unrecord" \in Stages \ Handling /\ born' = born
        /\ call' = [call EXCEPT ![c].at = "unrecord", ![c].g = NONE]
    BY <1>12 DEF Stages, Handling, Halt
  <2>1. At(c, "unrecord", NONE) /\ "unrecord" \in Stages \ Handling
    BY <1>0, <2>0, LetsGoAt
  <2> QED
    BY <1>12, <2>1 DEF Halt, Drops, Effect, Handling, daemon
<1>13. CASE Unrecord(c)
  BY <1>13, PaperGoes DEF Unrecord, Handling, Stages, daemon, Effect
<1>14. CASE Untell(c)
  BY <1>14, PaperGoes, PaperReturns DEF Untell, AfterStop, Handling, Stages, daemon, Effect
<1>15. CASE Remove(c)
  BY <1>15, PaperGoes, PaperReturns DEF Remove, Handling, Stages, daemon, Effect
<1>16. CASE Forget(c) \/ Add(c)
  BY <1>16, PaperReturns DEF Forget, Add, Handling, daemon, Effect
<1>17. CASE Abort(c)
  <2>1. UNCHANGED <<live, held, born>> /\ Returns(c)
    BY <1>17 DEF Abort, daemon
  <2>2. At(c, "idle", NONE) /\ "idle" \in Stages \ Handling
    BY <1>0, <2>1, ReturnsAt DEF Stages, Handling
  <2>3. CASE call[c].at = "starting"
    BY <1>17, <2>1, <2>2, <2>3 DEF Abort, Strays, Effect, Handling
  <2>4. CASE call[c].at \in Handling \ {"starting"}
    BY <1>17, <2>1, <2>2, <2>4 DEF Abort, Drops, Effect
  <2>5. CASE call[c].at \notin Handling
    <3>1. alive' = alive \ {NONE} /\ orphans' = orphans
      BY <1>0, <1>17, <2>5 DEF Abort, Handling
    <3>2. alive' = alive
      BY <3>1, TypeParts DEF IInv, RuntimesOK, NONE
    <3> QED
      BY <2>1, <2>5, <3>1, <3>2, PaperReturns DEF Effect
  <2> QED
    BY <2>3, <2>4, <2>5
<1> QED
  BY <1>1, <1>2, <1>3, <1>4, <1>5, <1>6, <1>7, <1>8, <1>9, <1>10, <1>11, <1>12, <1>13, <1>14, <1>15, <1>16, <1>17
     DEF Verb, Effect

-----------------------------------------------------------------------------
(* What the effects keep.                                                  *)

\* Who has a runtime whose tasks run.
Has(x) == \/ x = live \/ x \in held \/ x \in orphans
          \/ \E d \in Calls : call[d].g = x
LEMMA Leakless ==
    ASSUME RuntimesOK, CallsOK
    PROVE  NoneLeaks <=> \A x : x \in alive <=> x # NONE /\ Has(x)
<1>1. NONE \notin alive \cup held \cup orphans
  BY DEF RuntimesOK, NONE
<1> QED
  BY <1>1 DEF NoneLeaks, Handled, Has

LEMMA LeaklessNext ==
    ASSUME RuntimesOK', CallsOK'
    PROVE  NoneLeaks' <=> \A x : x \in alive' <=> x # NONE /\ Has(x)'
<1>1. NONE \notin alive' \cup held' \cup orphans'
  BY DEF RuntimesOK, NONE
<1> QED
  BY <1>1 DEF NoneLeaks, Handled, Has

LEMMA TypePartsNext ==
    TypeOK' <=> /\ CallsOK' /\ TableOK' /\ DaemonOK' /\ RuntimesOK' /\ crossed' \in BOOLEAN
                /\ Cardinality(Holding') <= PERMITS
BY DEF TypeOK, CallsOK, Slots, TableOK, DaemonOK, RuntimesOK

LEMMA EffectTypes ==
    ASSUME IInv, NEW c \in Calls, Effect(c)
    PROVE  CallsOK' /\ RuntimesOK'
<1>0. CallsOK /\ RuntimesOK /\ \A d \in Calls : call[d].g \in 0 .. born
  BY TypeParts, SlotParts DEF IInv, CallsOK, RuntimesOK
<1>1. CallsOK'
  BY DEF Effect, Paper, Spawns, Drops, Registers, Unregisters, Strays, At, CallsOK
<1>2. call[c].at \in Handling => call[c].g \in 1 .. born
  BY <1>0 DEF IInv, Owned, HandsOK, RuntimesOK, NONE
<1>3. CASE Paper(c) \/ Unregisters(c)
  <2>1. UNCHANGED <<alive, held, orphans, born>> /\ live' \in {live, NONE}
    BY <1>3 DEF Paper, Unregisters
  <2> QED
    BY <1>0, <1>1, <2>1 DEF RuntimesOK, NONE
<1>4. CASE Spawns(c)
  <2>1. 1 .. born \subseteq 1 .. born + 1 /\ 0 .. born \subseteq 0 .. born + 1 /\ born + 1 \in Nat
    BY <1>0 DEF RuntimesOK
  <2>2. born + 1 \in 1 .. born + 1
    BY <1>0 DEF RuntimesOK
  <2>3. /\ live' \in 0 .. born /\ alive' = alive \cup {born + 1} /\ alive \subseteq 1 .. born
        /\ held' \subseteq 1 .. born /\ orphans' \subseteq 1 .. born /\ born' = born + 1
    BY <1>0, <1>4 DEF Spawns, RuntimesOK
  <2> QED
    BY <1>1, <2>1, <2>2, <2>3 DEF RuntimesOK
<1>5. CASE Drops(c)
  BY <1>0, <1>1, <1>5 DEF Drops, RuntimesOK
<1>6. CASE Registers(c) \/ Strays(c)
  BY <1>0, <1>1, <1>2, <1>6 DEF Registers, Strays, RuntimesOK
<1> QED
  BY <1>1, <1>3, <1>4, <1>5, <1>6 DEF Effect

LEMMA EffectOwned ==
    ASSUME IInv, NEW c \in Calls, Effect(c), UNCHANGED phase
    PROVE  Owned'
<1>0. /\ CallsOK /\ RuntimesOK /\ HandsOK /\ PlacesOK /\ NoneLeaks /\ CallsOK' /\ RuntimesOK'
      /\ phase \in {"up", "closing", "drained", "down"} /\ (closing <=> phase # "up")
  BY TypeParts, EffectTypes DEF IInv, Owned, DaemonOK
<1>1. \A x : x \in alive <=> x # NONE /\ Has(x)
  BY <1>0, Leakless
<1>2. SUFFICES HandsOK' /\ PlacesOK' /\ \A x : x \in alive' <=> x # NONE /\ Has(x)'
  BY <1>0, Leakless DEF Owned, RuntimesOK, CallsOK, NoneLeaks, Handled, Has, NONE
<1>3. CASE Paper(c)
  <2>1. PICK s \in Stages : At(c, s, call[c].g) /\ (s \in Handling <=> call[c].at \in Handling)
    BY <1>3 DEF Paper
  <2>2. \A d \in Calls : call'[d].g = call[d].g /\ (call'[d].at \in Handling <=> call[d].at \in Handling)
    BY <2>1 DEF At
  <2> QED
    BY <1>0, <1>1, <1>3, <2>2 DEF Paper, HandsOK, PlacesOK, Has
<1>4. CASE Spawns(c)
  <2>1. /\ \A d \in Calls : call[d].g # born + 1
        /\ born + 1 \notin held \cup orphans \cup {live, NONE}
    BY <1>0, SlotParts DEF RuntimesOK, CallsOK, NONE
  <2>2. At(c, "starting", born + 1) /\ call[c].g = NONE
    BY <1>0, <1>4 DEF Spawns, HandsOK
  <2>3. HandsOK'
    BY <1>0, <1>4, <2>1, <2>2 DEF Spawns, HandsOK, At, Handling
  <2>4. PlacesOK'
    BY <1>0, <1>4 DEF Spawns, PlacesOK
  <2>5. \A x : x \in alive' <=> x # NONE /\ Has(x)'
    BY <1>0, <1>1, <1>4, <2>1, <2>2 DEF Spawns, Has, At
  <2> QED
    BY <2>3, <2>4, <2>5
<1>5. ASSUME NEW s \in Stages \ Handling, At(c, s, NONE), call[c].at \in Handling,
             Drops(c) \/ Registers(c) \/ Strays(c)
      PROVE  HandsOK' /\ PlacesOK' /\ \A x : x \in alive' <=> x # NONE /\ Has(x)'
  <2>1. /\ call[c].g # NONE /\ call[c].g # live /\ call[c].g \notin held \cup orphans
        /\ \A d \in Calls \ {c} : call[d].g # call[c].g
    BY <1>0, <1>5 DEF HandsOK
  <2>2. /\ \A d \in Calls : call'[d].g # NONE <=> call'[d].at \in Handling
        /\ \A d \in Calls \ {c} : call'[d].g = call[d].g
        /\ call'[c].g = NONE
    BY <1>0, <1>5 DEF HandsOK, At
  <2>3. HandsOK'
    BY <1>0, <1>5, <2>1, <2>2 DEF HandsOK, Drops, Registers, Strays
  <2>4. PlacesOK'
    BY <1>0, <1>5, <2>1 DEF PlacesOK, Drops, Registers, Strays
  <2>5. \A x : x \in alive' <=> x # NONE /\ Has(x)'
    <3>1. CASE Drops(c)
      BY <1>0, <1>1, <2>1, <2>2, <3>1 DEF Drops, Has
    <3>2. CASE Registers(c)
      BY <1>0, <1>1, <2>1, <2>2, <3>2 DEF Registers, Has
    <3>3. CASE Strays(c)
      BY <1>0, <1>1, <2>1, <2>2, <3>3 DEF Strays, Has
    <3> QED
      BY <1>5, <3>1, <3>2, <3>3
  <2> QED
    BY <2>3, <2>4, <2>5
<1>6. CASE Unregisters(c)
  <2>1. call[c].g = NONE /\ live # NONE /\ At(c, "halt", live)
    BY <1>0, <1>6 DEF Unregisters, HandsOK
  <2>2. HandsOK'
    BY <1>0, <1>6, <2>1 DEF Unregisters, HandsOK, PlacesOK, At, Handling
  <2>3. PlacesOK'
    BY <1>0, <1>6 DEF Unregisters, PlacesOK
  <2>4. \A x : x \in alive' <=> x # NONE /\ Has(x)'
    BY <1>0, <1>1, <1>6, <2>1 DEF Unregisters, Has, At
  <2> QED
    BY <2>2, <2>3, <2>4
<1> QED
  BY <1>3, <1>4, <1>5, <1>6 DEF Effect, Drops, Registers, Strays

-----------------------------------------------------------------------------
(* Each step.                                                              *)

LEMMA TableKept ==
    ASSUME IInv, NEW c \in Calls, Verb(c)
    PROVE  TableOK' /\ UNCHANGED phase /\ UNCHANGED closing
<1>0. TableOK /\ MAX_VERBS \in Nat /\ MAX_FAILURES \in Nat
  BY TypeParts, BoundsAssumption DEF IInv
<1> USE DEF TableOK, control, daemon, Says
<1>1. ASSUME NEW v \in Verbs, Begin(c, v) PROVE TableOK' /\ UNCHANGED phase /\ UNCHANGED closing
  BY <1>0, <1>1 DEF Begin
<1>2. CASE Check(c) \/ Permit(c) \/ Enter(c)
  BY <1>0, <1>2 DEF Check, Permit, Enter
<1>3. CASE StartFails(c) \/ Insert(c) \/ Discard(c)
  BY <1>0, <1>3 DEF StartFails, Insert, Discard
<1>4. CASE Record(c) \/ Tell(c) \/ Find(c)
  BY <1>0, <1>4 DEF Record, Tell, Find
<1>5. CASE Take(c) \/ Halt(c) \/ Unrecord(c) \/ Untell(c)
  BY <1>0, <1>5 DEF Take, Halt, Unrecord, Untell
<1>6. CASE Remove(c) \/ Forget(c) \/ Add(c) \/ Abort(c)
  BY <1>0, <1>6 DEF Remove, Forget, Add, Abort
<1> QED
  BY <1>1, <1>2, <1>3, <1>4, <1>5, <1>6 DEF Verb

LEMMA StepKeeps ==
    ASSUME IInv, NEW c \in Calls, Step(c)
    PROVE  IInv'
<1>1. Verb(c) /\ crossed' = ((crossed \/ (verbs' # verbs /\ ~Quiet)) /\ ~Mended(c))
  BY DEF Step
<1>2. Effect(c) /\ TableOK' /\ UNCHANGED phase /\ UNCHANGED closing
  BY <1>1, Effects, TableKept
<1>3. CallsOK' /\ RuntimesOK' /\ Owned'
  BY <1>2, EffectTypes, EffectOwned
<1>4. crossed' \in BOOLEAN
  BY <1>1
<1>5. DaemonOK'
  BY <1>2, TypeParts DEF IInv, DaemonOK
<1>6. Cardinality(Holding') <= PERMITS
  BY <1>1, PermitsKept DEF IInv
<1> QED
  BY <1>2, <1>3, <1>4, <1>5, <1>6, TypePartsNext DEF IInv

LEMMA DaemonKeeps ==
    ASSUME IInv, Close \/ Drain \/ StopHeld, UNCHANGED crossed
    PROVE  IInv'
<1>0. /\ CallsOK /\ RuntimesOK /\ HandsOK /\ PlacesOK /\ TableOK /\ DaemonOK
      /\ crossed \in BOOLEAN /\ Cardinality(Holding) <= PERMITS
      /\ \A x : x \in alive <=> x # NONE /\ Has(x)
  BY TypeParts, Leakless DEF IInv, Owned
<1>1. call' = call /\ born' = born /\ orphans' = orphans /\ TableOK' /\ CallsOK'
  BY <1>0 DEF Close, Drain, StopHeld, TableOK, CallsOK, control
<1>2. Cardinality(Holding') <= PERMITS /\ DaemonOK'
  BY <1>0, <1>1 DEF Holding, DaemonOK, Close, Drain, StopHeld
<1>3. CASE Close
  <2>1. RuntimesOK' /\ HandsOK' /\ PlacesOK'
    BY <1>0, <1>1, <1>3 DEF Close, RuntimesOK, HandsOK, PlacesOK
  <2>2. \A x : x \in alive' <=> x # NONE /\ Has(x)'
    BY <1>0, <1>1, <1>3 DEF Close, Has
  <2> QED
    BY <1>0, <1>1, <1>2, <2>1, <2>2, LeaklessNext, TypePartsNext DEF IInv, Owned
<1>4. CASE Drain
  <2>0. held = {} /\ held' = {live} \ {NONE} /\ live' = NONE /\ alive' = alive
    BY <1>0, <1>4 DEF Drain, PlacesOK
  <2>1. RuntimesOK'
    BY <1>0, <1>1, <2>0 DEF RuntimesOK, NONE
  <2>2. HandsOK' /\ PlacesOK'
    BY <1>0, <1>1, <1>4, <2>0 DEF Drain, HandsOK, PlacesOK
  <2>3. \A x : x \in alive' <=> x # NONE /\ Has(x)'
    BY <1>0, <1>1, <2>0 DEF Has
  <2> QED
    BY <1>0, <1>1, <1>2, <2>1, <2>2, <2>3, LeaklessNext, TypePartsNext DEF IInv, Owned
<1>5. CASE StopHeld
  <2>0. live' = live /\ alive' = alive \ held /\ held' = {} /\ live = NONE
    BY <1>0, <1>5 DEF StopHeld, PlacesOK
  <2>1. RuntimesOK' /\ HandsOK' /\ PlacesOK'
    BY <1>0, <1>1, <1>5, <2>0 DEF StopHeld, RuntimesOK, HandsOK, PlacesOK
  <2>2. \A x : x \in alive' <=> x # NONE /\ Has(x)'
    BY <1>0, <1>1, <2>0 DEF Has, HandsOK, PlacesOK
  <2> QED
    BY <1>0, <1>1, <1>2, <2>1, <2>2, LeaklessNext, TypePartsNext DEF IInv, Owned
<1> QED
  BY <1>3, <1>4, <1>5

THEOREM Invariance == Spec => []IInv
<1>1. IInv /\ [Next]_vars => IInv'
  <2> SUFFICES ASSUME IInv, [Next]_vars PROVE IInv'
    OBVIOUS
  <2>1. CASE Next
    BY <2>1, StepKeeps, DaemonKeeps DEF Next
  <2>2. CASE UNCHANGED vars
    BY <2>2 DEF vars, control, daemon, IInv, TypeOK, Holding, Owned, HandsOK, PlacesOK, NoneLeaks, Handled
  <2> QED
    BY <2>1, <2>2
<1> QED
  BY InitIInv, <1>1, PTL DEF Spec

\* The control plane, the registry and the shutdown stay within their types,
\* and the permits of spawn_cap are never overdrawn.
THEOREM Types == Spec => []TypeOK
BY Invariance, PTL DEF IInv

\* However verbs, failures and the shutdown interleave, a runtime whose tasks
\* run is registered, in the hands of exactly one verb or of the shutdown, or
\* one that the aborted autostart left behind.
THEOREM NoLeak == Spec => []NoneLeaks
BY Invariance, PTL DEF IInv, Owned

\* Once shutdown_all has returned no start registers a runtime any more, and
\* when the last has returned none runs.
THEOREM ShutdownComplete == Spec => []NothingOutlives
<1>1. IInv => NothingOutlives
  <2> SUFFICES ASSUME IInv, phase = "down" PROVE live = NONE /\ (Quiet => alive \subseteq orphans)
    BY DEF NothingOutlives
  <2>1. live = NONE /\ held = {}
    BY DEF IInv, Owned, PlacesOK
  <2>2. ASSUME Quiet PROVE alive \subseteq orphans
    <3>1. \A c \in Calls : call[c].g = NONE
      BY <2>2 DEF IInv, Owned, HandsOK, Quiet, Handling
    <3> QED
      BY <2>1, <3>1 DEF IInv, Owned, NoneLeaks, Handled
  <2> QED
    BY <2>1, <2>2
<1> QED
  BY Invariance, <1>1, PTL

-----------------------------------------------------------------------------
(* What the user is told.                                                  *)

\* The table is true ...
Table ==
    /\ running <=> live # NONE
    /\ told <=> running
    /\ status = "Running" <=> running
    /\ running => listed
Active(c) == call[c].at # "idle"

\* ... and, from stage to stage, this much of it is so for a verb no other has
\* got in the way of.  A restart that found the table untrue makes it true.
Progress(c) ==
    LET at == call[c].at IN
    /\ at \notin {"refused", "closed"}
    /\ at \in {"check", "find", "remove", "add", "queued", "forget"} => crossed \/ Table
    /\ at = "check" /\ call[c].verb = "restart" => ~(listed /\ running)
    /\ at \in {"remove", "forget", "add"} => call[c].verb # "restart"
    /\ at \in {"queued", "enter", "starting", "record", "tell", "take", "halt", "unrecord", "untell"} => listed
    /\ at \in {"forget", "queued", "enter", "starting"} => ~running
    /\ at \in {"enter", "starting"} => status = "Starting" /\ (crossed \/ (live = NONE /\ ~told))
    /\ at = "starting" => live = NONE
    /\ at \in {"record", "tell"} => live # NONE
    /\ at = "tell" => running /\ status = "Running"
    /\ at \in {"halt", "unrecord", "untell"} => live = NONE
    /\ at = "untell" => ~running /\ status = "Stopped"

Trusted(c) == ~crossed \/ (call[c].alone /\ call[c].verb = "restart")
AloneOK ==
    /\ ~crossed => \A c, d \in Calls : Active(c) /\ Active(d) => c = d
    /\ \A c \in Calls : call[c].alone => Active(c) /\ \A d \in Calls \ {c} : ~Active(d)
ToldOK ==
    phase = "up" =>
        /\ Quiet /\ ~crossed => Table
        /\ \A c \in Calls : Active(c) /\ Trusted(c) => Progress(c)
TInv == AloneOK /\ ToldOK

\* A call that is under way is one verb to its end.
LEMMA SameVerb ==
    ASSUME CallsOK, NEW c \in Calls, Verb(c), call[c].at # "idle"
    PROVE  /\ \A d \in Calls \ {c} : call'[d] = call[d]
           /\ \/ call'[c] = Free
              \/ call'[c].at # "idle" /\ call'[c].verb = call[c].verb /\ call'[c].alone = call[c].alone
<1> USE DEF CallsOK, Slots, Goes, Returns, Free
<1>1. CASE Check(c) \/ Permit(c)
  BY <1>1 DEF Check, Permit
<1>2. CASE Enter(c)
  <2>1. CASE Returns(c)
    BY <2>1
  <2>2. CASE Goes(c, "record")
    BY <2>2
  <2>3. CASE call' = [call EXCEPT ![c].at = "starting", ![c].g = born + 1]
    BY <2>3
  <2> QED
    BY <1>2, <2>1, <2>2, <2>3 DEF Enter
<1>3. CASE StartFails(c) \/ Abort(c)
  BY <1>3 DEF StartFails, Abort
<1>4. CASE Insert(c)
  BY <1>4 DEF Insert
<1>5. CASE Discard(c)
  BY <1>5 DEF Discard
<1>6. CASE Record(c) \/ Tell(c)
  BY <1>6 DEF Record, Tell
<1>7. CASE Find(c) \/ Untell(c)
  BY <1>7 DEF Find, Untell, AfterStop
<1>8. CASE Take(c)
  BY <1>8 DEF Take
<1>9. CASE Halt(c) \/ Unrecord(c)
  BY <1>9 DEF Halt, Unrecord
<1>10. CASE Remove(c) \/ Forget(c) \/ Add(c)
  BY <1>10 DEF Remove, Forget, Add
<1>11. ASSUME NEW v \in Verbs, Begin(c, v) PROVE FALSE
  BY <1>11 DEF Begin
<1> QED
  BY <1>1, <1>2, <1>3, <1>4, <1>5, <1>6, <1>7, <1>8, <1>9, <1>10, <1>11 DEF Verb

\* From stage to stage, and at its return.
LEMMA Proceeds ==
    ASSUME IInv, phase = "up", NEW c \in Calls, Verb(c), call[c].at # "idle", Progress(c)
    PROVE  /\ call'[c].at # "idle" /\ call'[c].verb = call[c].verb /\ crossed' = crossed => Progress(c)'
           /\ /\ call'[c].at = "idle"
              /\ ~crossed \/ (call[c].verb = "restart" /\ listed /\ failures' = failures)
              => Table'
<1>0. /\ CallsOK /\ ~closing /\ failures \in Nat
      /\ call[c].at = "starting" => call[c].g # NONE
  <2>1. failures \in Nat /\ CallsOK /\ ~closing
    BY BoundsAssumption DEF IInv, TypeOK, CallsOK, Slots
  <2> QED
    BY <2>1 DEF IInv, Owned, HandsOK, Handling
<1> USE DEF CallsOK, Slots, Progress, Table, Goes, Returns, Free, control, Says
<1>1. CASE Check(c)
  BY <1>0, <1>1 DEF Check
<1>2. CASE Permit(c)
  BY <1>0, <1>2 DEF Permit
<1>3. CASE Enter(c)
  BY <1>0, <1>3 DEF Enter
<1>4. CASE StartFails(c)
  BY <1>0, <1>4 DEF StartFails
<1>5. CASE Insert(c)
  BY <1>0, <1>5 DEF Insert, ClosedMeanwhile
<1>6. CASE Discard(c)
  BY <1>0, <1>6 DEF Discard
<1>7. CASE Record(c)
  BY <1>0, <1>7 DEF Record
<1>8. CASE Tell(c)
  BY <1>0, <1>8 DEF Tell
<1>9. CASE Find(c)
  BY <1>0, <1>9 DEF Find, AfterStop
<1>10. CASE Take(c)
  BY <1>0, <1>10 DEF Take
<1>11. CASE Halt(c)
  BY <1>0, <1>11 DEF Halt
<1>12. CASE Unrecord(c)
  BY <1>0, <1>12 DEF Unrecord
<1>13. CASE Untell(c)
  BY <1>0, <1>13 DEF Untell, AfterStop
<1>14. CASE Remove(c)
  BY <1>0, <1>14 DEF Remove
<1>15. CASE Forget(c)
  BY <1>0, <1>15 DEF Forget
<1>16. CASE Add(c)
  BY <1>0, <1>16 DEF Add
<1>17. ASSUME Abort(c) \/ \E v \in Verbs : Begin(c, v) PROVE FALSE
  BY <1>17 DEF Begin, Abort
<1> QED
  BY <1>1, <1>2, <1>3, <1>4, <1>5, <1>6, <1>7, <1>8, <1>9, <1>10, <1>11, <1>12, <1>13, <1>14, <1>15, <1>16, <1>17
     DEF Verb

LEMMA BeginTold ==
    ASSUME IInv, TInv, NEW c \in Calls, NEW v \in Verbs, Begin(c, v), Step(c)
    PROVE  TInv'
<1> DEFINE s == CASE v \in {"start", "auto"} -> "check" [] v \in {"stop", "restart"} -> "find" [] OTHER -> v
<1>1. /\ call[c].at = "idle" /\ verbs' = verbs + 1 /\ UNCHANGED <<control, live, phase>>
      /\ call' = [d \in Calls |-> IF d = c THEN [verb |-> v, g |-> NONE, alone |-> Quiet, at |-> s]
                                          ELSE [call[d] EXCEPT !.alone = FALSE]]
  BY DEF Begin, daemon
<1>2. verbs' # verbs
  BY <1>1 DEF IInv, TypeOK
<1>3. crossed' <=> crossed \/ ~Quiet
  BY <1>1, <1>2 DEF Step, Mended
<1>4. s \in {"check", "find", "remove", "add"} /\ s # "idle"
  BY DEF Verbs
<1>5. /\ s = "check" => v # "restart"
      /\ s \in {"remove", "add"} => v # "restart"
  BY DEF Verbs
<1> HIDE DEF s
<1>6. call'[c].at = s /\ call'[c].verb = v /\ call'[c].alone = Quiet
  BY <1>1
<1>7. ASSUME NEW d \in Calls \ {c} PROVE call'[d].at = call[d].at /\ call'[d].alone = FALSE
  <2>1. call[d] \in Slots(born)
    BY TypeParts DEF IInv, CallsOK
  <2> QED
    BY <1>1, <2>1 DEF Slots
<1>8. AloneOK'
  BY <1>1, <1>3, <1>4, <1>6, <1>7 DEF AloneOK, Active, Quiet
<1>9. Table' <=> Table
  BY <1>1 DEF Table, control
<1>10. ASSUME phase' = "up" PROVE /\ Quiet' /\ ~crossed' => Table'
                                 /\ \A d \in Calls : Active(d)' /\ Trusted(d)' => Progress(d)'
  <2>1. ~Quiet'
    BY <1>4, <1>6 DEF Quiet
  <2>2. ASSUME NEW d \in Calls \ {c} PROVE ~(Active(d)' /\ Trusted(d)')
    BY <1>3, <1>7 DEF Active, Trusted, Quiet
  <2>3. crossed' \/ Table'
    BY <1>1, <1>3, <1>9, <1>10 DEF TInv, ToldOK
  <2>4. Progress(c)'
    BY <1>4, <1>5, <1>6, <2>3 DEF Progress
  <2> QED
    BY <2>1, <2>2, <2>4
<1> QED
  BY <1>8, <1>10 DEF TInv, ToldOK

LEMMA MoveTold ==
    ASSUME IInv, TInv, NEW c \in Calls, Step(c), call[c].at # "idle"
    PROVE  TInv'
<1>1. /\ Verb(c) /\ UNCHANGED phase
      /\ \A d \in Calls \ {c} : call'[d] = call[d]
      /\ \/ call'[c] = Free
         \/ call'[c].at # "idle" /\ call'[c].verb = call[c].verb /\ call'[c].alone = call[c].alone
  BY SameVerb, TableKept, TypeParts DEF IInv, Step
<1>2. verbs' = verbs
  BY <1>1 DEF Verb, Begin, Check, Permit, Enter, StartFails, Insert, Discard, Record, Tell,
              Find, Take, Halt, Unrecord, Untell, Remove, Forget, Add, Abort
<1>3. crossed' <=> crossed /\ ~Mended(c)
  BY <1>2 DEF Step
<1>4. ASSUME NEW d \in Calls \ {c}, call[d].at # "idle"
      PROVE  crossed /\ crossed' /\ ~call[d].alone /\ ~call[c].alone
  BY <1>3, <1>4 DEF TInv, AloneOK, Active, Mended
<1>5. AloneOK'
  <2>1. ASSUME NEW d \in Calls, call'[d].alone PROVE Active(d)' /\ \A e \in Calls \ {d} : ~Active(e)'
    <3>1. CASE d = c
      BY <1>1, <1>4, <2>1, <3>1 DEF Free, Active
    <3>2. CASE d # c
      BY <1>1, <2>1, <3>2 DEF TInv, AloneOK, Active
    <3> QED
      BY <3>1, <3>2
  <2>2. ASSUME ~crossed', NEW d \in Calls, NEW e \in Calls, Active(d)', Active(e)' PROVE d = e
    BY <1>1, <1>4, <2>2 DEF Active
  <2> QED
    BY <2>1, <2>2 DEF AloneOK
<1>6. ASSUME phase = "up", Quiet', ~crossed' PROVE Table'
  <2>1. call'[c].at = "idle"
    BY <1>6 DEF Quiet
  <2>2. ~crossed \/ Mended(c)
    BY <1>3, <1>6
  <2>3. Progress(c)
    BY <1>6, <2>2 DEF TInv, ToldOK, Active, Trusted, Mended
  <2> QED
    BY <1>1, <1>6, <2>1, <2>2, <2>3, Proceeds DEF Mended
<1>7. ASSUME phase = "up", NEW d \in Calls, Active(d)', Trusted(d)' PROVE Progress(d)'
  <2>1. d = c
    BY <1>1, <1>4, <1>7 DEF Active, Trusted
  <2>2. call'[c].at # "idle" /\ call'[c].verb = call[c].verb /\ call'[c].alone = call[c].alone
    BY <1>1, <1>7, <2>1 DEF Active, Free
  <2>3. crossed' <=> crossed
    BY <1>3, <2>2 DEF Mended
  <2>4. Progress(c)
    BY <1>7, <2>1, <2>2, <2>3 DEF TInv, ToldOK, Active, Trusted
  <2>5. crossed' = crossed
    BY <2>3, <1>1 DEF Step, IInv, TypeOK
  <2> QED
    BY <1>1, <1>7, <2>1, <2>2, <2>4, <2>5, Proceeds
<1> QED
  BY <1>1, <1>5, <1>6, <1>7 DEF TInv, ToldOK

LEMMA ToldKept == ASSUME IInv, TInv, [Next]_vars PROVE TInv'
<1>1. ASSUME NEW c \in Calls, Step(c) PROVE TInv'
  <2>1. CASE call[c].at # "idle"
    BY <1>1, <2>1, MoveTold
  <2>2. CASE call[c].at = "idle"
    <3>1. \E v \in Verbs : Begin(c, v)
      BY <1>1, <2>2 DEF Step, Verb, Check, Permit, Enter, StartFails, Insert, Discard, Record, Tell,
                        Find, Take, Halt, Unrecord, Untell, Remove, Forget, Add, Abort
    <3> QED
      BY <1>1, <3>1, BeginTold
  <2> QED
    BY <2>1, <2>2
<1>2. CASE (Close \/ Drain \/ StopHeld) /\ UNCHANGED crossed
  <2>1. call' = call /\ crossed' = crossed /\ phase' # "up"
    BY <1>2 DEF Close, Drain, StopHeld
  <2> QED
    BY <2>1 DEF TInv, AloneOK, ToldOK, Active
<1>3. CASE UNCHANGED vars
  BY <1>3 DEF vars, control, daemon, TInv, AloneOK, ToldOK, Active, Quiet, Trusted, Progress, Table
<1> QED
  BY <1>1, <1>2, <1>3 DEF Next

\* As long as no two verbs have crossed, whenever none is under way the user
\* is told the truth of the repo; and a restart that runs alone to its end
\* restores it, whatever crossed verbs had left.
THEOREM TableTrue == Spec => []TableIsTrue
<1>1. Init => TInv
  BY DEF Init, TInv, AloneOK, ToldOK, Active, Quiet, Table, Free, NONE
<1>2. TInv => TableIsTrue
  BY DEF TInv, ToldOK, TableIsTrue, Table
<1> QED
  BY <1>1, <1>2, Invariance, ToldKept, PTL DEF Spec

-----------------------------------------------------------------------------
(* Who hears the repo.                                                     *)

\* Every step of a surface or a bridge leaves the registry alone.
LEMMA StepBelow == ASSUME [CNext]_cvars PROVE [Next]_vars
<1>1. CASE DaemonStep
  BY <1>1 DEF DaemonStep, Next
<1>2. ASSUME NEW c \in Calls, RegistryStep(c) \/ Bridge(c) PROVE [Next]_vars
  BY <1>2 DEF RegistryStep, Bridge, Next
<1>3. ASSUME NEW s \in Surfaces, Ask(s) \/ Wire(s) \/ Leave(s) PROVE [Next]_vars
  BY <1>3 DEF Ask, Wire, Leave
<1>4. CASE UNCHANGED cvars
  BY <1>4 DEF cvars
<1> QED
  BY <1>1, <1>2, <1>3, <1>4 DEF CNext

\* The repo's verbs under the routers are the verbs of RepoRegistry: what is
\* proved of them holds with surfaces, placeholders and bridges as well.
THEOREM RegistryBelow == CSpec => Spec
<1>1. CInit => Init
  BY DEF CInit
<1> QED
  BY <1>1, StepBelow, PTL DEF CSpec, Spec

\* The routers a surface can be on: made, and given the hooks.
HInv ==
    /\ made \in Nat /\ DOMAIN surface = Surfaces
    /\ entry # NONE => entry \in hooked
    /\ Hooked

LEMMA HooksKept == ASSUME HInv, [CNext]_cvars PROVE HInv'
<1>1. CASE DaemonStep
  BY <1>1 DEF DaemonStep, wiring, HInv, Hooked, On
<1>2. ASSUME NEW c \in Calls, RegistryStep(c) PROVE HInv'
  <2>1. UNCHANGED <<entry, hooked, surface>> /\ made' \in {made, made + 1}
    BY <1>2 DEF RegistryStep, Carried
  <2> QED
    BY <2>1 DEF HInv, Hooked, On
<1>3. ASSUME NEW c \in Calls, Bridge(c) PROVE HInv'
  BY <1>3 DEF Bridge, AfterBridge, HInv, Hooked, On
<1>4. ASSUME NEW s \in Surfaces, Ask(s) PROVE HInv'
  BY <1>4 DEF Ask, HInv, Hooked, On
<1>5. ASSUME NEW s \in Surfaces, Leave(s) PROVE HInv'
  BY <1>5 DEF Leave, HInv, Hooked, On, Off
<1>6. ASSUME NEW s \in Surfaces, Wire(s) PROVE HInv'
  <2> DEFINE r == IF surface[s].on # NONE THEN surface[s].on ELSE IF entry # NONE THEN entry ELSE made + 1
  <2>1. /\ surface' = [surface EXCEPT ![s] = [at |-> "on", on |-> r]]
        /\ entry' = r
        /\ made' \in {made, made + 1}
        /\ hooked' = hooked \cup (IF r # entry THEN {r} ELSE {})
    BY <1>6 DEF Wire
  <2>2. r # NONE
    BY DEF HInv, NONE
  <2> HIDE DEF r
  <2>3. r \in hooked'
    BY <2>1, <2>2 DEF HInv
  <2> QED
    BY <2>1, <2>3 DEF HInv, Hooked, On
<1>7. CASE UNCHANGED cvars
  BY <1>7 DEF cvars, HInv, Hooked, On
<1> QED
  BY <1>1, <1>2, <1>3, <1>4, <1>5, <1>6, <1>7 DEF CNext

\* Whichever way a surface was wired, and whatever was put in the map
\* meanwhile, its router calls the demand hooks.
THEOREM AlwaysHooked == CSpec => []Hooked
<1>1. CInit => HInv
  BY DEF CInit, HInv, Hooked, On, Off, NONE
<1>2. HInv => Hooked
  BY DEF HInv
<1> QED
  BY <1>1, <1>2, HooksKept, PTL DEF CSpec

-----------------------------------------------------------------------------
WiringOK ==
    /\ entry \in Nat /\ made \in Nat
    /\ router \in Seq(Nat) /\ Len(router) = born
    /\ surface \in [Surfaces -> [at : {"off", "asked", "on"}, on : Nat]]
    /\ bridging \in [Calls -> Nat]
    /\ \A s \in Surfaces : On(s) => surface[s].on # NONE

\* A start sees to its bridge before it goes on.
AtBridge == phase = "up" => \A c \in Calls : bridging[c] # NONE => call[c].at = "record"

Awaited == \E c \in Calls : bridging[c] = live
\* A surface is where the next start will look for it, or hears the runtime
\* there is, or will as soon as the start has built its bridge.
Reached(s) == IF live = NONE THEN surface[s].on = entry
                             ELSE Hears(s) \/ (surface[s].on = entry /\ Awaited)
ReachedOK == phase = "up" => \A s \in Surfaces \ astray : On(s) => Reached(s)

WInv == WiringOK /\ AtBridge /\ ReachedOK

LEMMA LiveRuns == ASSUME IInv, live # NONE PROVE live \in alive /\ live \in 1 .. born
BY DEF IInv, TypeOK, Owned, NoneLeaks, NONE

\* What a verb does to the registered runtime, as far as routers are concerned.
LEMMA LiveMoves ==
    ASSUME IInv, NEW c \in Calls, Verb(c)
    PROVE  /\ born \in Nat /\ born' \in {born, born + 1} /\ live' \in Nat
           /\ live' \in {live, NONE} \/ (live = NONE /\ call'[c].at = "record")
           /\ \A d \in Calls \ {c} : call'[d].at = call[d].at
           /\ call[c].at = "record" /\ phase = "up" => call'[c].at = "tell"
<1>1. CallsOK /\ born \in Nat /\ CallsOK' /\ RuntimesOK'
  BY Effects, EffectTypes, TypeParts DEF IInv, RuntimesOK
<1>2. born' \in {born, born + 1} /\ \A d \in Calls \ {c} : call'[d].at = call[d].at
  BY Effects DEF Effect, Paper, Spawns, Drops, Registers, Unregisters, Strays, At
<1>3. live' \in {live, NONE} \/ (live = NONE /\ call'[c].at = "record")
  <2>1. CASE Insert(c)
    BY <1>1, <2>1 DEF Insert, CallsOK, Slots
  <2>2. CASE ~Insert(c)
    BY <2>2 DEF Verb, Begin, Check, Permit, Enter, StartFails, Discard, Record, Tell,
                Find, Take, Halt, Unrecord, Untell, Remove, Forget, Add, Abort
  <2> QED
    BY <2>1, <2>2
<1>4. ASSUME call[c].at = "record", phase = "up" PROVE call'[c].at = "tell"
  <2>1. Record(c)
    BY <1>4 DEF Verb, Begin, Check, Permit, Enter, StartFails, Insert, Discard, Tell,
                Find, Take, Halt, Unrecord, Untell, Remove, Forget, Add, Abort
  <2> QED
    BY <1>1, <2>1 DEF Record, Goes, CallsOK, Slots
<1> QED
  BY <1>1, <1>2, <1>3, <1>4 DEF RuntimesOK

LEMMA RouterKept ==
    ASSUME WiringOK, born \in Nat, NEW e \in Nat, NEW g \in 1 .. born
    PROVE  /\ Append(router, e) \in Seq(Nat) /\ Len(Append(router, e)) = born + 1
           /\ Append(router, e)[g] = router[g]
BY DEF WiringOK

LEMMA RouterGrows ==
    ASSUME WiringOK, born \in Nat, NEW e \in Nat
    PROVE  Append(router, e) \in Seq(Nat) /\ Len(Append(router, e)) = born + 1
BY DEF WiringOK

LEMMA VerbReaches ==
    ASSUME IInv, IInv', WInv, NEW c \in Calls, RegistryStep(c)
    PROVE  WInv'
<1>1. /\ Verb(c) /\ Carried(c) /\ phase' = phase
      /\ UNCHANGED <<entry, surface>> /\ astray \subseteq astray'
      /\ bridging[c] # NONE => call'[c].at \in {"record", "idle"}
  BY TableKept DEF RegistryStep, Carried, Step
<1>2. /\ born \in Nat /\ born' \in {born, born + 1} /\ live' \in Nat
      /\ live' \in {live, NONE} \/ (live = NONE /\ call'[c].at = "record")
      /\ \A d \in Calls \ {c} : call'[d].at = call[d].at
      /\ call[c].at = "record" /\ phase = "up" => call'[c].at = "tell"
  BY <1>1, LiveMoves
<1>3. Adopted \in Nat
  BY DEF Adopted, WInv, WiringOK
<1>4. /\ made' \in Nat /\ router' \in Seq(Nat) /\ Len(router') = born'
      /\ \A g \in 1 .. born : router'[g] = router[g]
  <2>1. CASE born' = born
    BY <1>1, <2>1 DEF Carried, WInv, WiringOK
  <2>2. CASE born' # born
    <3>1. router' = Append(router, Adopted) /\ made' \in {made, made + 1} /\ born' = born + 1
      BY <1>1, <1>2, <2>2 DEF Carried
    <3> QED
      BY <1>2, <1>3, <3>1, RouterKept, RouterGrows DEF WInv, WiringOK
  <2> QED
    BY <2>1, <2>2
<1>5. /\ bridging' \in [Calls -> Nat]
      /\ \A d \in Calls \ {c} : bridging'[d] = bridging[d]
      /\ bridging'[c] = IF live' \notin {live, NONE} THEN live' ELSE IF call'[c].at = "idle" THEN NONE ELSE bridging[c]
  BY <1>1, <1>2 DEF Carried, WInv, WiringOK, NONE
<1>6. WiringOK'
  BY <1>1, <1>4, <1>5 DEF WInv, WiringOK, On
<1>7. ASSUME phase = "up" PROVE bridging[c] = NONE
  BY <1>1, <1>2, <1>7 DEF WInv, AtBridge
<1>8. AtBridge'
  BY <1>1, <1>2, <1>5, <1>7 DEF WInv, AtBridge
<1>9. ASSUME phase = "up", NEW s \in Surfaces \ astray', On(s)' PROVE Reached(s)'
  <2>1. On(s) /\ s \notin astray /\ Reached(s)
    BY <1>1, <1>9 DEF On, WInv, ReachedOK
  <2>2. CASE live' = live /\ live = NONE
    BY <1>1, <2>1, <2>2 DEF Reached
  <2>3. CASE live' = live /\ live # NONE
    <3>1. live \in alive' /\ router'[live] = router[live]
      BY <1>4, <2>3, LiveRuns DEF IInv, TypeOK, Owned, NoneLeaks
    <3>2. Hears(s) => Hears(s)'
      BY <1>1, <2>3, <3>1 DEF Hears, Bridged, Carried
    <3>3. Awaited => Awaited'
      BY <1>5, <1>7, <1>9, <2>3 DEF Awaited
    <3> QED
      BY <1>1, <2>1, <2>3, <3>2, <3>3 DEF Reached
  <2>4. CASE live = NONE /\ live' # NONE
    <3>1. Awaited'
      BY <1>5, <2>4 DEF Awaited
    <3> QED
      BY <1>1, <2>1, <2>4, <3>1 DEF Reached
  <2>5. CASE live # NONE /\ live' = NONE
    BY <1>1, <1>9, <2>1, <2>5 DEF Reached, Carried, On
  <2> QED
    BY <1>2, <2>2, <2>3, <2>4, <2>5
<1> QED
  BY <1>1, <1>6, <1>8, <1>9 DEF WInv, ReachedOK

LEMMA BridgeReaches ==
    ASSUME IInv, WInv, NEW c \in Calls, Bridge(c)
    PROVE  WInv'
<1>1. /\ UNCHANGED <<live, born, phase, call, entry, made, router, surface, astray, alive>>
      /\ bridging' = [bridging EXCEPT ![c] = NONE]
      /\ bridges' = IF Orphan(bridging[c]) /\ bridging[c] \in alive
                    THEN bridges \cup {[by |-> bridging[c], to |-> entry]} ELSE bridges
  BY DEF Bridge, AfterBridge, vars, control, daemon
<1>2. WiringOK'
  BY <1>1 DEF WInv, WiringOK, On, NONE
<1>3. AtBridge'
  BY <1>1 DEF WInv, AtBridge, WiringOK
<1>4. ASSUME phase = "up", NEW s \in Surfaces \ astray, On(s) PROVE Reached(s)'
  <2>1. Reached(s) /\ surface[s].on # NONE
    BY <1>4 DEF WInv, ReachedOK, WiringOK
  <2>2. CASE live = NONE
    BY <1>1, <2>1, <2>2 DEF Reached
  <2>3. CASE live # NONE /\ Hears(s)
    BY <1>1, <2>3 DEF Reached, Hears, Bridged
  <2>4. CASE live # NONE /\ surface[s].on = entry /\ bridging[c] = live
    <3>1. live \in alive
      BY <2>4, LiveRuns
    <3>2. Hears(s)'
      BY <1>1, <2>1, <2>4, <3>1 DEF Hears, Bridged, Orphan
    <3> QED
      BY <1>1, <2>4, <3>2 DEF Reached
  <2>5. CASE live # NONE /\ surface[s].on = entry /\ \E d \in Calls \ {c} : bridging[d] = live
    <3>1. Awaited'
      BY <1>1, <2>5 DEF Awaited, WInv, WiringOK
    <3> QED
      BY <1>1, <2>5, <3>1 DEF Reached
  <2> QED
    BY <2>1, <2>2, <2>3, <2>4, <2>5 DEF Reached, Awaited
<1> QED
  BY <1>1, <1>2, <1>3, <1>4 DEF WInv, ReachedOK, On

LEMMA WireReaches ==
    ASSUME IInv, WInv, NEW s \in Surfaces, Wire(s)
    PROVE  WInv'
<1> DEFINE r == IF surface[s].on # NONE THEN surface[s].on ELSE IF entry # NONE THEN entry ELSE made + 1
<1>1. /\ UNCHANGED <<live, born, phase, call, router, bridging, bridges>>
      /\ surface' = [surface EXCEPT ![s] = [at |-> "on", on |-> r]]
      /\ entry' = r /\ made' \in {made, made + 1}
      /\ astray' = astray
             \cup {t \in Surfaces \ {s} : On(t) /\ entry # r /\ surface[t].on = entry /\ ~(live # NONE /\ Hears(t))}
             \cup (IF live # NONE /\ live \notin {bridging[c] : c \in Calls} /\ router[live] # r /\ ~Bridged(live, r)
                   THEN {s} ELSE {})
  BY DEF Wire, vars, control, daemon
<1>2. r \in Nat /\ r # NONE
  BY DEF WInv, WiringOK, NONE
<1> HIDE DEF r
<1>3. /\ surface'[s] = [at |-> "on", on |-> r]
      /\ \A t \in Surfaces \ {s} : surface'[t] = surface[t]
  BY <1>1 DEF WInv, WiringOK
<1>4. WiringOK'
  <2>1. surface' \in [Surfaces -> [at : {"off", "asked", "on"}, on : Nat]]
    BY <1>1, <1>2 DEF WInv, WiringOK
  <2>2. ASSUME NEW t \in Surfaces, On(t)' PROVE surface'[t].on # NONE
    <3>1. CASE t = s
      BY <1>2, <1>3, <3>1
    <3>2. CASE t # s
      <4>1. surface'[t] = surface[t] /\ On(t)
        BY <1>3, <2>2, <3>2 DEF On
      <4> QED
        BY <4>1 DEF WInv, WiringOK
    <3> QED
      BY <3>1, <3>2
  <2> QED
    BY <1>1, <1>2, <2>1, <2>2 DEF WInv, WiringOK
<1>5. AtBridge'
  BY <1>1 DEF WInv, AtBridge
<1>6. ASSUME phase = "up", NEW t \in Surfaces \ astray', On(t)' PROVE Reached(t)'
  <2>1. CASE t = s
    BY <1>1, <1>3, <1>6, <2>1 DEF Reached, Hears, Bridged, Awaited
  <2>2. CASE t # s
    <3>1. On(t) /\ t \notin astray /\ surface'[t] = surface[t]
      BY <1>1, <1>3, <1>6, <2>2 DEF On
    <3>2. Reached(t) /\ ~(entry # r /\ surface[t].on = entry /\ ~(live # NONE /\ Hears(t)))
      BY <1>1, <1>6, <2>2, <3>1 DEF WInv, ReachedOK
    <3>3. (Hears(t)' <=> Hears(t)) /\ (Awaited' <=> Awaited)
      BY <1>1, <3>1 DEF Hears, Bridged, Awaited
    <3> QED
      BY <1>1, <3>1, <3>2, <3>3 DEF Reached
  <2> QED
    BY <2>1, <2>2
<1> QED
  BY <1>1, <1>4, <1>5, <1>6 DEF WInv, ReachedOK

LEMMA ReachKept == ASSUME IInv, IInv', WInv, [CNext]_cvars PROVE WInv'
<1>1. CASE DaemonStep
  <2>1. /\ phase' # "up" /\ UNCHANGED <<born, entry, made, router, surface, bridging>>
    BY <1>1 DEF DaemonStep, Close, Drain, StopHeld, wiring
  <2> QED
    BY <2>1 DEF WInv, WiringOK, AtBridge, ReachedOK, On
<1>2. ASSUME NEW c \in Calls, RegistryStep(c) \/ Bridge(c) PROVE WInv'
  BY <1>2, VerbReaches, BridgeReaches
<1>3. ASSUME NEW s \in Surfaces, Wire(s) PROVE WInv'
  BY <1>3, WireReaches
<1>4. ASSUME NEW s \in Surfaces, Ask(s) \/ Leave(s) PROVE WInv'
  <2>1. /\ UNCHANGED <<live, born, phase, call, entry, made, router, bridging, bridges>>
        /\ \E a \in {"off", "asked"}, n \in Nat : surface' = [surface EXCEPT ![s] = [at |-> a, on |-> n]]
        /\ astray \subseteq astray' \cup {s}
    <3>1. CASE Ask(s)
      <4>1. (IF live = NONE THEN NONE ELSE router[live]) \in Nat
        BY LiveRuns DEF WInv, WiringOK, NONE
      <4> QED
        BY <3>1, <4>1 DEF Ask, vars, control, daemon
    <3>2. CASE Leave(s)
      <4>1. NONE \in Nat
        BY DEF NONE
      <4> QED
        BY <3>2, <4>1 DEF Leave, Off, vars, control, daemon
    <3> QED
      BY <1>4, <3>1, <3>2
  <2>2. /\ surface' \in [Surfaces -> [at : {"off", "asked", "on"}, on : Nat]]
        /\ ~On(s)' /\ \A t \in Surfaces \ {s} : surface'[t] = surface[t]
    BY <2>1 DEF WInv, WiringOK, On
  <2>3. WiringOK' /\ AtBridge'
    BY <2>1, <2>2 DEF WInv, WiringOK, AtBridge, On
  <2>4. ASSUME NEW t \in Surfaces \ {s} PROVE (On(t)' <=> On(t)) /\ (Reached(t)' <=> Reached(t))
    BY <2>1, <2>2 DEF On, Reached, Hears, Bridged, Awaited
  <2> QED
    BY <2>1, <2>2, <2>3, <2>4 DEF WInv, ReachedOK
<1>5. CASE UNCHANGED cvars
  BY <1>5 DEF cvars, vars, control, daemon, WInv, WiringOK, AtBridge, ReachedOK, On, Reached, Hears, Bridged, Awaited
<1> QED
  BY <1>1, <1>2, <1>3, <1>4, <1>5 DEF CNext

\* Whoever is on a router hears the runtime there is once its start has
\* returned, unless he was left behind: whichever came first, the surface or
\* the runtime, and however often the repo was restarted in between.
THEOREM Heard == CSpec => []HearsUnlessLeft
<1>1. CInit => WInv
  <2> SUFFICES ASSUME CInit PROVE WInv
    OBVIOUS
  <2>1. \A s \in Surfaces : ~On(s)
    BY DEF CInit, On, Off
  <2>2. surface \in [Surfaces -> [at : {"off", "asked", "on"}, on : Nat]] /\ bridging \in [Calls -> Nat]
    BY DEF CInit, Off, NONE
  <2>3. router \in Seq(Nat) /\ Len(router) = born /\ entry \in Nat /\ made \in Nat
    BY DEF CInit, Init, NONE
  <2> QED
    BY <2>1, <2>2, <2>3 DEF CInit, WInv, WiringOK, AtBridge, ReachedOK
<1>2. WInv => HearsUnlessLeft
  BY DEF WInv, ReachedOK, Reached, Awaited, HearsUnlessLeft, Settled
<1>3. CSpec => []IInv
  BY RegistryBelow, Invariance, PTL
<1>4. IInv /\ IInv' /\ WInv /\ [CNext]_cvars => WInv'
  BY ReachKept
<1> QED
  BY <1>1, <1>2, <1>3, <1>4, PTL DEF CSpec
=============================================================================
