------------------------- MODULE UpstreamProxyProofs -------------------------
(***************************************************************************)
(* Proofs about UpstreamProxy, for every set of upstreams and every finite *)
(* set of attempts.                                                        *)
(***************************************************************************)
EXTENDS UpstreamProxy, BreakerProofs

USE SMTT(30)

\* Breakers change only through their methods, which keep them well-formed.
LEMMA BreakerSteps ==
  ASSUME ProxyTypeOK
  PROVE  /\ Scanned \in [Upstreams -> CircuitBreaker]
         /\ \A u \in Upstreams : Reserve(breaker[u]) \in CircuitBreaker
         /\ \A u \in Upstreams, o \in BreakerOutcome : Record(breaker[u], o) \in CircuitBreaker
         /\ \A u \in Upstreams : Elapse(breaker[u]) \in CircuitBreaker
<1>1. \A u \in Upstreams : breaker[u] \in CircuitBreaker
  BY DEF ProxyTypeOK
<1>2. \A u \in Upstreams : advanceLocked(breaker[u]) \in CircuitBreaker
  BY <1>1, AdvanceInv
<1>3. Scanned \in [Upstreams -> CircuitBreaker]
  BY <1>1, <1>2 DEF Scanned
<1>4. \A u \in Upstreams, o \in BreakerOutcome : Record(breaker[u], o) \in CircuitBreaker
  BY <1>1, RecordProperties
<1>5. \A u \in Upstreams :
        Reserve(breaker[u]) \in CircuitBreaker /\ Elapse(breaker[u]) \in CircuitBreaker
  BY <1>1, ReserveProperties, ElapseProperties
<1> QED
  BY <1>3, <1>4, <1>5

\* The half of the state that RecordOutcome changes keeps its type.
LEMMA RecordOutcomeType ==
  ASSUME ProxyTypeOK, NEW a \in Attempts, chosen[a] \in Upstreams,
         NEW o \in BreakerOutcome, NEW f \in BOOLEAN, RecordOutcome(a, o, f)
  PROVE  /\ breaker' \in [Upstreams -> CircuitBreaker]
         /\ probing' \in [Attempts -> BOOLEAN]
         /\ sent' \in [Upstreams -> 0..(HalfOpenProbes + 1)]
         /\ earned' \in [Upstreams -> Nat]
         /\ blamed' \in [Upstreams -> BOOLEAN]
<1> DEFINE b == Record(breaker[chosen[a]], o)
<1>1. b \in CircuitBreaker
  BY BreakerSteps
<1> HIDE DEF b
<1>2. breaker' = [breaker EXCEPT ![chosen[a]] = b]
  BY DEF RecordOutcome, b
<1>3. breaker' \in [Upstreams -> CircuitBreaker]
  BY <1>1, <1>2 DEF ProxyTypeOK
<1>4. probing' \in [Attempts -> BOOLEAN]
  BY DEF ProxyTypeOK, RecordOutcome
<1>5. 0 \in 0..(HalfOpenProbes + 1)
  BY BreakerConfig
<1>6. sent' \in [Upstreams -> 0..(HalfOpenProbes + 1)]
  BY <1>5 DEF ProxyTypeOK, RecordOutcome
<1>7. earned' \in [Upstreams -> Nat]
  BY DEF ProxyTypeOK, RecordOutcome
<1>8. blamed' \in [Upstreams -> BOOLEAN]
  BY DEF ProxyTypeOK, RecordOutcome
<1> QED
  BY <1>3, <1>4, <1>6, <1>7, <1>8

\* The count of attempts sent stops one past HalfOpenProbes, as its type says.
LEMMA CountSentType ==
  ASSUME ProxyTypeOK, NEW u, NEW b, CountSent(u, b)
  PROVE  sent' \in [Upstreams -> 0..(HalfOpenProbes + 1)]
<1>1. \A n \in 0..(HalfOpenProbes + 1) : n <= HalfOpenProbes => n + 1 \in 0..(HalfOpenProbes + 1)
  BY BreakerConfig
<1> QED
  BY Zenon, <1>1 DEF CountSent, ProxyTypeOK

\* The breaker NewCircuitBreaker returns is well-formed.
LEMMA NewBreakerType == NewCircuitBreaker \in CircuitBreaker
<1>1. <<>> \in Seq(breakerSample)
  OBVIOUS
<1> QED
  BY <1>1, BreakerConfig DEF NewCircuitBreaker, CircuitBreaker, BreakerState

\* The pool main builds, with every breaker closed, has the right types.
LEMMA InitType == ProxyInit => ProxyTypeOK
  BY BreakerConfig, PoolAssumption, NewBreakerType DEF ProxyInit, ProxyTypeOK, AttemptPC

\* Every step keeps the type invariant.
LEMMA TypeStep == ProxyTypeOK /\ [ProxyNext]_proxyVars => ProxyTypeOK'
<1> SUFFICES ASSUME ProxyTypeOK, [ProxyNext]_proxyVars PROVE ProxyTypeOK'
  OBVIOUS
<1> USE DEF GoesTo, Returns, AddInFlight, upstreamVars, attemptVars, ghosts
<1>0. /\ \A a \in Attempts : pc[a] # "idle" => chosen[a] \in Upstreams
      /\ NoUpstream \notin Upstreams
  BY PoolAssumption DEF ProxyTypeOK
<1>1. CASE UNCHANGED proxyVars
  BY <1>1 DEF proxyVars, ProxyTypeOK
<1>2. ASSUME NEW a \in Attempts, NEW x, PickNone(a, x) PROVE ProxyTypeOK'
  BY <1>2, BreakerSteps DEF PickNone, ProxyTypeOK
<1>3. ASSUME NEW a \in Attempts, NEW u \in Upstreams, NEW x, NEW e \in BOOLEAN, Pick(a, u, x, e)
      PROVE  ProxyTypeOK'
  BY <1>0, <1>3, BreakerSteps DEF Pick, ProxyTypeOK, AttemptPC
<1>4. ASSUME NEW a \in Attempts, NEW u \in Upstreams, PickTCP(a, u) PROVE ProxyTypeOK'
  <2>1. sent' \in [Upstreams -> 0..(HalfOpenProbes + 1)]
    BY <1>4, CountSentType DEF PickTCP
  <2> QED
    BY <1>0, <1>4, <2>1, BreakerSteps DEF PickTCP, ProxyTypeOK, AttemptPC
<1>5. ASSUME NEW a \in Attempts, Refused(a) PROVE ProxyTypeOK'
  BY <1>0, <1>5, BreakerSteps DEF Refused, ProxyTypeOK, AttemptPC
<1>6. ASSUME NEW a \in Attempts, NEW w \in {"reserved", "handshake"}, Admitted(a, w)
      PROVE  ProxyTypeOK'
  <2>1. sent' \in [Upstreams -> 0..(HalfOpenProbes + 1)]
    BY <1>6, CountSentType DEF Admitted
  <2> QED
    BY Zenon, <1>0, <1>6, <2>1, BreakerSteps DEF Admitted, ProxyTypeOK, AttemptPC
<1>7. ASSUME NEW a \in Attempts, CountInFlight(a) PROVE ProxyTypeOK'
  BY <1>0, <1>7 DEF CountInFlight, ProxyTypeOK, AttemptPC
<1>8. ASSUME NEW a \in Attempts, NEW f \in BOOLEAN, RoundTripFails(a, f) PROVE ProxyTypeOK'
  <2>1. chosen[a] \in Upstreams /\ pc[a] # "idle"
        /\ (IF cancelled[a] THEN "cancellation" ELSE "failure") \in BreakerOutcome
    BY <1>0, <1>8 DEF RoundTripFails, BreakerOutcome
  <2> QED
    BY <1>8, <2>1, RecordOutcomeType DEF RoundTripFails, ProxyTypeOK, AttemptPC
<1>9. ASSUME NEW a \in Attempts, NEW f \in BOOLEAN, RoundTripAnswers(a, f) PROVE ProxyTypeOK'
  <2>1. chosen[a] \in Upstreams /\ pc[a] # "idle"
        /\ (IF f THEN "failure" ELSE "success") \in BreakerOutcome
    BY <1>0, <1>9 DEF RoundTripAnswers, BreakerOutcome
  <2> QED
    BY ZenonT(30), <1>9, <2>1, RecordOutcomeType DEF RoundTripAnswers, ProxyTypeOK, AttemptPC
<1>10. ASSUME NEW a \in Attempts, Finish(a) PROVE ProxyTypeOK'
  BY <1>0, <1>10 DEF Finish, ProxyTypeOK, AttemptPC
<1>11. ASSUME NEW a \in Attempts, HandshakeFails(a) PROVE ProxyTypeOK'
  BY <1>0, <1>11 DEF HandshakeFails, ProxyTypeOK, AttemptPC
<1>12. ASSUME NEW a \in Attempts, HandshakeAccepted(a) PROVE ProxyTypeOK'
  <2>1. chosen[a] \in Upstreams /\ pc[a] # "idle" /\ "success" \in BreakerOutcome
    BY <1>0, <1>12 DEF HandshakeAccepted, BreakerOutcome
  <2> QED
    BY Zenon, <1>12, <2>1, RecordOutcomeType DEF HandshakeAccepted, ProxyTypeOK, AttemptPC
<1>13. ASSUME NEW a \in Attempts, ShuttleStarts(a) PROVE ProxyTypeOK'
  BY <1>0, <1>13 DEF ShuttleStarts, ProxyTypeOK, AttemptPC
<1>14. ASSUME NEW a \in Attempts, DialFails(a) PROVE ProxyTypeOK'
  <2>1. chosen[a] \in Upstreams /\ "failure" \in BreakerOutcome
    BY Zenon, <1>0, <1>14 DEF DialFails, BreakerOutcome
  <2> QED
    BY Zenon, <1>0, <1>14, <2>1, RecordOutcomeType DEF DialFails, ProxyTypeOK, AttemptPC
<1>15. ASSUME NEW a \in Attempts, SessionStarts(a) PROVE ProxyTypeOK'
  BY <1>0, <1>15 DEF SessionStarts, ProxyTypeOK, AttemptPC
<1>16. ASSUME NEW a \in Attempts, SessionEnds(a) PROVE ProxyTypeOK'
  <2>1. chosen[a] \in Upstreams /\ pc[a] # "idle" /\ "success" \in BreakerOutcome
    BY Zenon, <1>0, <1>16 DEF SessionEnds, BreakerOutcome
  <2> QED
    BY Zenon, <1>16, <2>1, RecordOutcomeType DEF SessionEnds, ProxyTypeOK, AttemptPC
<1>17. ASSUME NEW S \in SUBSET Attempts, Cancel(S) PROVE ProxyTypeOK'
  BY <1>17 DEF Cancel, ProxyTypeOK
<1>18. ASSUME NEW u \in Upstreams, HealthFlips(u) PROVE ProxyTypeOK'
  BY <1>18 DEF HealthFlips, ProxyTypeOK
<1>19. CASE Tick
  BY <1>19, BreakerSteps DEF Tick, ProxyTypeOK
<1> QED
  BY ZenonT(30), <1>1, <1>2, <1>3, <1>4, <1>5, <1>6, <1>7, <1>8, <1>9, <1>10, <1>11, <1>12,
     <1>13, <1>14, <1>15, <1>16, <1>17, <1>18, <1>19
  DEF ProxyNext, Arrive, TryAgain, Progress

-----------------------------------------------------------------------------
(* InFlight.  A step leaves the counters and the counted attempts alone, or*)
(* moves one attempt and one counter together.                             *)
InFlightPC == {"roundtrip", "session", "closing"}

StaysQuiet ==
  /\ inFlight' = inFlight
  /\ \A u \in Upstreams : Counted(u)' = Counted(u)

Enters(a) ==
  /\ pc[a] \notin InFlightPC /\ chosen[a] \in Upstreams
  /\ AddInFlight(a, 1) /\ chosen' = chosen
  /\ \E w \in InFlightPC : GoesTo(a, w)

LeavesCount(a) ==
  /\ pc[a] \in InFlightPC /\ chosen[a] \in Upstreams
  /\ AddInFlight(a, -1) /\ Returns(a)

\* Every step is one of the three.
LEMMA InFlightMoves ==
  ASSUME ProxyTypeOK, [ProxyNext]_proxyVars
  PROVE  StaysQuiet \/ \E a \in Attempts : Enters(a) \/ LeavesCount(a)
<1> USE DEF GoesTo, Returns, upstreamVars, attemptVars, ghosts, InFlightPC
<1>0. \A a \in Attempts : pc[a] # "idle" => chosen[a] \in Upstreams
  BY DEF ProxyTypeOK
<1>1. CASE UNCHANGED proxyVars
  BY <1>1 DEF proxyVars, StaysQuiet, Counted
<1>2. ASSUME NEW a \in Attempts, Arrive(a) \/ TryAgain(a) PROVE StaysQuiet
  BY <1>2 DEF Arrive, TryAgain, PickNone, Pick, PickTCP, StaysQuiet, Counted, ProxyTypeOK
<1>3. ASSUME NEW a \in Attempts, Refused(a) PROVE StaysQuiet
  BY Zenon, <1>3, PoolAssumption DEF Refused, StaysQuiet, Counted, ProxyTypeOK
<1>4. ASSUME NEW a \in Attempts, NEW w \in {"reserved", "handshake"}, Admitted(a, w)
      PROVE  StaysQuiet
  BY <1>4 DEF Admitted, StaysQuiet, Counted, ProxyTypeOK
<1>5. ASSUME NEW a \in Attempts, CountInFlight(a) \/ ShuttleStarts(a) \/ SessionStarts(a)
      PROVE  Enters(a)
  BY <1>0, <1>5 DEF CountInFlight, ShuttleStarts, SessionStarts, Enters
<1>6. ASSUME NEW a \in Attempts, Finish(a) PROVE LeavesCount(a)
  BY <1>0, <1>6 DEF Finish, LeavesCount
<1>7. ASSUME NEW a \in Attempts,
             \/ \E f \in BOOLEAN : RoundTripFails(a, f) \/ RoundTripAnswers(a, f)
             \/ SessionEnds(a)
      PROVE  StaysQuiet
  <2>1. ASSUME NEW f \in BOOLEAN, RoundTripFails(a, f) PROVE StaysQuiet
    BY <2>1 DEF RoundTripFails, StaysQuiet, Counted, ProxyTypeOK
  <2>2. ASSUME NEW f \in BOOLEAN, RoundTripAnswers(a, f) PROVE StaysQuiet
    BY <2>2 DEF RoundTripAnswers, StaysQuiet, Counted, ProxyTypeOK
  <2>3. CASE SessionEnds(a)
    BY <2>3 DEF SessionEnds, StaysQuiet, Counted, ProxyTypeOK
  <2> QED
    BY ZenonT(30), <1>7, <2>1, <2>2, <2>3
<1>8. ASSUME NEW a \in Attempts, HandshakeFails(a) \/ HandshakeAccepted(a) \/ DialFails(a)
      PROVE  StaysQuiet
  BY ZenonT(30), <1>8, PoolAssumption
  DEF HandshakeFails, HandshakeAccepted, DialFails, StaysQuiet, Counted, ProxyTypeOK
<1>9. ASSUME NEW S \in SUBSET Attempts, Cancel(S) PROVE StaysQuiet
  BY <1>9 DEF Cancel, StaysQuiet, Counted
<1>10. ASSUME NEW u \in Upstreams, HealthFlips(u) PROVE StaysQuiet
  BY <1>10 DEF HealthFlips, StaysQuiet, Counted
<1>11. CASE Tick
  BY <1>11 DEF Tick, StaysQuiet, Counted
<1> QED
  BY ZenonT(30), <1>1, <1>2, <1>3, <1>4, <1>5, <1>6, <1>7, <1>8, <1>9, <1>10, <1>11
  DEF ProxyNext, Progress

\* Every step keeps InFlight equal to the number of attempts it counts: an
\* attempt enters or leaves that set exactly when its handler adds 1 or -1.
LEMMA InFlightStep ==
  ProxyTypeOK /\ InFlightBalanced /\ [ProxyNext]_proxyVars => InFlightBalanced'
<1> SUFFICES ASSUME ProxyTypeOK, InFlightBalanced, [ProxyNext]_proxyVars,
                    NEW u \in Upstreams
             PROVE  inFlight'[u] = Cardinality(Counted(u)')
  BY DEF InFlightBalanced
<1>0. /\ Counted(u) \in SUBSET Attempts /\ IsFiniteSet(Attempts)
      /\ inFlight[u] = Cardinality(Counted(u)) /\ inFlight \in [Upstreams -> Int]
      /\ pc \in [Attempts -> AttemptPC] /\ NoUpstream \notin Upstreams
      /\ chosen \in [Attempts -> Upstreams \cup {NoUpstream}]
  BY PoolAssumption DEF ProxyTypeOK, InFlightBalanced, Counted
<1>1. IsFiniteSet(Counted(u)) /\ Cardinality(Counted(u)) \in Nat
  BY <1>0, FS_Subset, FS_CardinalityType
<1>2. CASE StaysQuiet
  BY <1>0, <1>2 DEF StaysQuiet
<1>3. ASSUME NEW a \in Attempts, Enters(a) PROVE inFlight'[u] = Cardinality(Counted(u)')
  <2>1. CASE chosen[a] = u
    <3>1. Counted(u)' = Counted(u) \cup {a} /\ a \notin Counted(u)
      BY <1>0, <1>3, <2>1 DEF Enters, GoesTo, InFlightPC, Counted
    <3>2. inFlight'[u] = inFlight[u] + 1
      BY <1>0, <1>3, <2>1 DEF Enters, AddInFlight
    <3>3. Cardinality(Counted(u) \cup {a}) = Cardinality(Counted(u)) + 1
      BY Zenon, <1>1, <3>1, FS_AddElement
    <3> QED
      BY <1>0, <3>1, <3>2, <3>3
  <2>2. CASE chosen[a] # u
    <3>1. Counted(u)' = Counted(u)
      BY Zenon, <1>0, <1>3, <2>2 DEF Enters, GoesTo, InFlightPC, Counted
    <3>2. inFlight'[u] = inFlight[u]
      BY Zenon, <1>0, <1>3, <2>2 DEF Enters, AddInFlight
    <3> QED
      BY ZenonT(30), <1>0, <3>1, <3>2
  <2> QED
    BY <2>1, <2>2
<1>4. ASSUME NEW a \in Attempts, LeavesCount(a) PROVE inFlight'[u] = Cardinality(Counted(u)')
  <2>1. CASE chosen[a] = u
    <3>1. Counted(u)' = Counted(u) \ {a} /\ a \in Counted(u)
      BY Zenon, <1>0, <1>4, <2>1 DEF LeavesCount, Returns, GoesTo, InFlightPC, Counted
    <3>2. inFlight'[u] = inFlight[u] - 1
      BY <1>0, <1>4, <2>1 DEF LeavesCount, AddInFlight
    <3>3. Cardinality(Counted(u) \ {a}) = Cardinality(Counted(u)) - 1
      BY Zenon, <1>1, <3>1, FS_RemoveElement
    <3> QED
      BY ZenonT(30), <1>0, <3>1, <3>2, <3>3
  <2>2. CASE chosen[a] # u
    <3>1. Counted(u)' = Counted(u)
      BY <1>0, <1>4, <2>2 DEF LeavesCount, Returns, GoesTo, InFlightPC, Counted
    <3>2. inFlight'[u] = inFlight[u]
      BY <1>0, <1>4, <2>2 DEF LeavesCount, AddInFlight
    <3> QED
      BY <1>0, <3>1, <3>2
  <2> QED
    BY <2>1, <2>2
<1> QED
  BY <1>2, <1>3, <1>4, InFlightMoves

\* InFlight is the number of attempts it should be, for every pool and any
\* number of attempts: no path out of the three handlers leaks a count.
THEOREM InFlightNeverLeaks == ProxySpec => []InFlightBalanced
<1>2. ProxyInit => InFlightBalanced
  <2> SUFFICES ASSUME ProxyInit, NEW u \in Upstreams PROVE inFlight[u] = Cardinality(Counted(u))
    BY DEF InFlightBalanced
  <2>1. Counted(u) = {} /\ inFlight[u] = 0
    BY DEF ProxyInit, Counted
  <2> QED
    BY <2>1, FS_EmptySet
<1> QED
  BY <1>2, InitType, TypeStep, InFlightStep, PTL DEF ProxySpec

\* Attempts and upstreams keep their types.
THEOREM ProxyTypeCorrect == ProxySpec => []ProxyTypeOK
  BY InitType, TypeStep, PTL DEF ProxySpec

-----------------------------------------------------------------------------
(* Breakers.  Besides Record a breaker only sees State, Reserve and time.  *)
Moves(b, c) == c = b \/ c = advanceLocked(b) \/ c = Elapse(b)

OnlyMoves ==
  /\ \A u \in Upstreams : Moves(breaker[u], breaker'[u])
  /\ blamed' = blamed /\ sent' = sent

Reserves(a) == Refused(a) \/ \E w \in AttemptPC : Admitted(a, w)

Reports(a, o, f) ==
  /\ chosen[a] \in Upstreams
  /\ o = "failure" => f
  /\ RecordOutcome(a, o, f)

\* A step of the pool calls State on some breakers, or lets time pass, or
\* reserves on one, or reports an attempt's outcome to one.
LEMMA BreakerMoves ==
  ASSUME ProxyTypeOK, [ProxyNext]_proxyVars
  PROVE  \/ OnlyMoves
         \/ \E a \in Attempts : Reserves(a)
         \/ \E a \in Attempts, o \in BreakerOutcome, f \in BOOLEAN : Reports(a, o, f)
         \/ "tcp" \in Kinds /\ \E a \in Attempts, u \in Upstreams : PickTCP(a, u)
<1> USE DEF upstreamVars, attemptVars, ghosts
<1>0. /\ \A a \in Attempts : pc[a] # "idle" => chosen[a] \in Upstreams
      /\ breaker \in [Upstreams -> CircuitBreaker] /\ cancelled \in [Attempts -> BOOLEAN]
  BY DEF ProxyTypeOK
<1>1. CASE UNCHANGED proxyVars
  BY Zenon, <1>1 DEF proxyVars, OnlyMoves, Moves
<1>2. ASSUME NEW a \in Attempts, Arrive(a) \/ TryAgain(a)
      PROVE  OnlyMoves \/ ("tcp" \in Kinds /\ \E u \in Upstreams : PickTCP(a, u))
  BY <1>2 DEF Arrive, TryAgain, PickNone, Pick, Scanned, OnlyMoves, Moves
<1>3. ASSUME NEW a \in Attempts,
             Refused(a) \/ Admitted(a, "reserved") \/ Admitted(a, "handshake")
      PROVE  Reserves(a)
  BY <1>3 DEF Reserves, AttemptPC
<1>4. ASSUME NEW a \in Attempts,
             \/ CountInFlight(a) \/ ShuttleStarts(a) \/ SessionStarts(a)
             \/ Finish(a) \/ HandshakeFails(a)
      PROVE  OnlyMoves
  BY <1>4
  DEF CountInFlight, ShuttleStarts, SessionStarts, Finish, HandshakeFails,
      OnlyMoves, Moves
<1>5. ASSUME NEW a \in Attempts, NEW f \in BOOLEAN, RoundTripFails(a, f)
      PROVE  \E o \in BreakerOutcome : Reports(a, o, f)
  BY Zenon, <1>0, <1>5 DEF RoundTripFails, Reports, BreakerOutcome
<1>6. ASSUME NEW a \in Attempts, NEW f \in BOOLEAN, RoundTripAnswers(a, f)
      PROVE  \E o \in BreakerOutcome : Reports(a, o, f)
  BY <1>0, <1>6 DEF RoundTripAnswers, Reports, BreakerOutcome
<1>7. ASSUME NEW a \in Attempts, HandshakeAccepted(a) \/ SessionEnds(a)
      PROVE  Reports(a, "success", FALSE) /\ "success" \in BreakerOutcome
  BY Zenon, <1>0, <1>7 DEF HandshakeAccepted, SessionEnds, Reports, BreakerOutcome
<1>8. ASSUME NEW a \in Attempts, DialFails(a)
      PROVE  Reports(a, "failure", TRUE) /\ "failure" \in BreakerOutcome
  BY Zenon, <1>0, <1>8 DEF DialFails, Reports, BreakerOutcome
<1>9. ASSUME \/ \E u \in Upstreams : HealthFlips(u)
             \/ \E S \in SUBSET Attempts : Cancel(S)
      PROVE  OnlyMoves
  BY <1>9 DEF HealthFlips, Cancel, OnlyMoves, Moves
<1>10. CASE Tick
  BY <1>10 DEF Tick, OnlyMoves, Moves
<1> QED
  BY ZenonT(30), <1>1, <1>2, <1>3, <1>4, <1>5, <1>6, <1>7, <1>8, <1>9, <1>10 DEF ProxyNext, Progress

\* An upstream whose breaker is not closed, or whose window holds a failure,
\* has itself failed: the inductive form of NoTripWithoutFault.
FaultInv ==
  \A u \in Upstreams :
    breaker[u].state # "closed" \/ SomeFailure(breaker[u].samples) => blamed[u]

\* Every step keeps FaultInv: the handlers record OutcomeFailure only for an
\* attempt that the upstream failed.
LEMMA FaultStep == ProxyTypeOK /\ FaultInv /\ [ProxyNext]_proxyVars => FaultInv'
<1> SUFFICES ASSUME ProxyTypeOK, FaultInv, [ProxyNext]_proxyVars, NEW u \in Upstreams,
                    breaker'[u].state # "closed" \/ SomeFailure(breaker'[u].samples)
             PROVE  blamed'[u]
  BY DEF FaultInv
<1>0. /\ \A v \in Upstreams : breaker[v] \in CircuitBreaker
      /\ breaker \in [Upstreams -> CircuitBreaker] /\ blamed \in [Upstreams -> BOOLEAN]
      /\ breaker[u].state # "closed" \/ SomeFailure(breaker[u].samples) => blamed[u]
  BY DEF ProxyTypeOK, FaultInv
<1>1. ASSUME NEW c, Moves(breaker[u], c), c.state # "closed" \/ SomeFailure(c.samples)
      PROVE  blamed[u]
  <2>1. CASE c = breaker[u]
    BY ZenonT(30), <1>0, <1>1, <2>1
  <2>2. CASE c = advanceLocked(breaker[u])
    <3>1. c.samples = breaker[u].samples /\ (c.state = "closed" <=> breaker[u].state = "closed")
      BY ZenonT(30), <1>0, <2>2, AdvanceInv
    <3> QED
      BY Zenon, <1>0, <1>1, <3>1
  <2>3. CASE c = Elapse(breaker[u])
    BY ZenonT(30), <1>0, <1>1, <2>3, ElapseProperties
  <2> QED
    BY ZenonT(30), <1>1, <2>1, <2>2, <2>3 DEF Moves
<1>2. CASE OnlyMoves
  BY <1>1, <1>2 DEF OnlyMoves
<1>3. ASSUME NEW a \in Attempts, Reserves(a) PROVE blamed'[u]
  <2>1. blamed' = blamed /\ breaker' = [breaker EXCEPT ![chosen[a]] = Reserve(@)]
    BY <1>3 DEF Reserves, Refused, Admitted, ghosts
  <2>2. CASE chosen[a] = u
    <3>1. breaker'[u] = Reserve(breaker[u])
      BY ZenonT(30), <1>0, <2>1, <2>2
    <3>2. /\ breaker'[u].samples = breaker[u].samples
          /\ breaker'[u].state = "closed" <=> breaker[u].state = "closed"
      BY <1>0, <3>1, ReserveProperties, AdvanceInv
    <3> QED
      BY <1>0, <2>1, <3>2
  <2> QED
    BY ZenonT(30), <1>0, <2>1, <2>2
<1>4. ASSUME NEW a \in Attempts, NEW o \in BreakerOutcome, NEW f \in BOOLEAN, Reports(a, o, f)
      PROVE  blamed'[u]
  <2> DEFINE b == Record(breaker[u], o)
  <2>1. CASE chosen[a] = u
    <3>1. /\ breaker'[u] = b
          /\ blamed'[u] = (f \/ (blamed[u] /\ ~ (b.state = "closed" /\ breaker[u].state # "closed")))
      BY ZenonT(30), <1>0, <1>4, <2>1 DEF Reports, RecordOutcome
    <3>2. /\ b.state # "closed" /\ breaker[u].state = "closed" =>
               o = "failure" \/ SomeFailure(breaker[u].samples)
          /\ SomeFailure(b.samples) => o = "failure" \/ SomeFailure(breaker[u].samples)
          /\ b.state = "closed" /\ breaker[u].state # "closed" => ~ SomeFailure(b.samples)
      BY ZenonT(30), <1>0, RecordProperties
    <3>3. o = "failure" => f
      BY Zenon, SMTT(30), <1>4 DEF Reports
    <3> HIDE DEF b
    <3> QED
      BY ZenonT(30), <1>0, <3>1, <3>2, <3>3
  <2>2. CASE chosen[a] # u
    BY Zenon, <1>0, <1>4, <2>2 DEF Reports, RecordOutcome
  <2> QED
    BY Zenon, <2>1, <2>2
<1>5. ASSUME NEW a \in Attempts, NEW v \in Upstreams, PickTCP(a, v) PROVE blamed'[u]
  BY ZenonT(30), SMTT(30), <1>1, <1>5 DEF PickTCP, Scanned, Moves
<1> QED
  BY ZenonT(30), <1>2, <1>3, <1>4, <1>5, BreakerMoves

\* What Reserve counted bounds what was sent, and nothing was sent since the
\* breaker opened: the inductive form of HalfOpenAdmission.
SentBound ==
  \A u \in Upstreams :
    /\ breaker[u].state = "half-open" => sent[u] <= breaker[u].probesAdmitted
    /\ breaker[u].state = "open" => sent[u] = 0

\* Every step of the HTTP and WebSocket handlers, which reserve before they
\* send, keeps the bound.
LEMMA SentStep ==
  ASSUME "tcp" \notin Kinds
  PROVE  ProxyTypeOK /\ SentBound /\ [ProxyNext]_proxyVars => SentBound'
<1> SUFFICES ASSUME ProxyTypeOK, SentBound, [ProxyNext]_proxyVars, NEW u \in Upstreams
             PROVE  /\ breaker'[u].state = "half-open" => sent'[u] <= breaker'[u].probesAdmitted
                    /\ breaker'[u].state = "open" => sent'[u] = 0
  BY Zenon DEF SentBound
<1> DEFINE b == breaker[u]
           adv == advanceLocked(b)
<1>0. /\ b \in CircuitBreaker /\ sent[u] \in Nat
      /\ breaker \in [Upstreams -> CircuitBreaker] /\ sent \in [Upstreams -> 0..(HalfOpenProbes + 1)]
      /\ b.state = "half-open" => sent[u] <= b.probesAdmitted
      /\ b.state = "open" => sent[u] = 0
      /\ HalfOpenProbes \in Nat
  BY BreakerConfig DEF ProxyTypeOK, SentBound
<1>1. /\ adv \in CircuitBreaker
      /\ adv.probesAdmitted \in Nat
      /\ adv.state = "half-open" => sent[u] <= adv.probesAdmitted
      /\ adv.state = "open" => sent[u] = 0
  <2>1. /\ adv \in CircuitBreaker
        /\ adv.state = b.state \/ (b.state = "open" /\ adv.state = "half-open")
        /\ b.state # "open" => adv = b
    BY Zenon, <1>0, AdvanceInv
  <2>2. adv.probesAdmitted \in Nat /\ 0 <= adv.probesAdmitted
    BY <1>0, <2>1 DEF CircuitBreaker
  <2> HIDE DEF adv, b
  <2> QED
    BY ZenonT(30), <1>0, <2>1, <2>2
<1>2. CASE OnlyMoves
  <2>1. sent'[u] = sent[u] /\ Moves(b, breaker'[u])
    BY Zenon, <1>2 DEF OnlyMoves
  <2>2. CASE breaker'[u] = Elapse(b)
    BY ZenonT(30), <1>0, <2>1, <2>2, ElapseProperties
  <2> QED
    BY Zenon, <1>0, <1>1, <2>1, <2>2 DEF Moves
<1>3. ASSUME NEW a \in Attempts, Reserves(a), chosen[a] = u
      PROVE  /\ breaker'[u].state = "half-open" => sent'[u] <= breaker'[u].probesAdmitted
             /\ breaker'[u].state = "open" => sent'[u] = 0
  <2> DEFINE r == Reserve(b)
  <2>1. /\ r.state = adv.state
        /\ r.probesAdmitted = IF Admits(b) /\ adv.state = "half-open"
                                THEN adv.probesAdmitted + 1 ELSE adv.probesAdmitted
    BY Zenon, <1>0, ReserveProperties
  <2>2. breaker'[u] = r
    BY Zenon, <1>0, <1>3 DEF Reserves, Refused, Admitted
  <2>3. CASE Refused(a)
    <3>1. sent'[u] = sent[u] /\ ~ Admits(b)
      BY Zenon, <1>3, <2>3 DEF Refused, ghosts
    <3> HIDE DEF r, adv, b
    <3> QED
      BY ZenonT(30), <1>1, <2>1, <2>2, <3>1
  <2>4. ASSUME NEW w \in AttemptPC, Admitted(a, w)
        PROVE  /\ r.state = "half-open" => sent'[u] <= r.probesAdmitted
               /\ r.state = "open" => sent'[u] = 0
    <3>1. /\ Admits(b)
          /\ sent'[u] = IF r.state = "half-open" /\ sent[u] <= HalfOpenProbes
                          THEN sent[u] + 1 ELSE sent[u]
      BY ZenonT(30), <1>0, <1>3, <2>4 DEF Admitted, CountSent
    <3>2. adv.state # "open"
      BY <3>1 DEF Admits
    <3>3. CASE r.state = "half-open"
      <4>1. r.probesAdmitted = adv.probesAdmitted + 1 /\ sent[u] <= adv.probesAdmitted
        BY ZenonT(30), <1>1, <2>1, <3>1, <3>3
      <4> HIDE DEF r, adv, b
      <4> QED
        BY SMTT(30), <1>0, <1>1, <3>1, <3>3, <4>1
    <3> QED
      BY ZenonT(30), <2>1, <3>2, <3>3
  <2> QED
    BY ZenonT(30), <1>3, <2>2, <2>3, <2>4 DEF Reserves
<1>4. ASSUME NEW a \in Attempts, NEW o \in BreakerOutcome, NEW f \in BOOLEAN,
             Reports(a, o, f), chosen[a] = u
      PROVE  /\ breaker'[u].state = "half-open" => sent'[u] <= breaker'[u].probesAdmitted
             /\ breaker'[u].state = "open" => sent'[u] = 0
  <2> DEFINE r == Record(b, o)
  <2>1. breaker'[u] = r /\ sent'[u] = IF r.state = "open" THEN 0 ELSE sent[u]
    BY <1>0, <1>4 DEF Reports, RecordOutcome
  <2>2. /\ r \in CircuitBreaker
        /\ r.state = "half-open" =>
             \/ b.state = "half-open" /\ r.probesAdmitted = b.probesAdmitted
             \/ b.state = "open"
    BY ZenonT(30), <1>0, RecordProperties
  <2>3. r.probesAdmitted \in Nat
    BY <1>0, <2>2 DEF CircuitBreaker
  <2> HIDE DEF r, b
  <2> QED
    BY SMTT(30), <1>0, <2>1, <2>2, <2>3
<1>5. ASSUME NEW a \in Attempts, chosen[a] # u,
             \/ Reserves(a)
             \/ \E o \in BreakerOutcome, f \in BOOLEAN : Reports(a, o, f)
      PROVE  breaker'[u] = b /\ sent'[u] = sent[u]
  BY Zenon, <1>0, <1>5
  DEF Reserves, Refused, Admitted, CountSent, Reports, RecordOutcome, ghosts
<1> HIDE DEF b, adv
<1>6. b = breaker[u]
  BY DEF b
<1> QED
  BY ZenonT(30), <1>0, <1>2, <1>3, <1>4, <1>5, <1>6, BreakerMoves

\* While half-open an upstream is sent at most HalfOpenProbes attempts: what
\* ServeHTTP's Reserve gate promises, for any number of concurrent attempts,
\* as long as the pool serves no TCP listener.
THEOREM HalfOpenNeverFlooded ==
  ASSUME "tcp" \notin Kinds
  PROVE  ProxySpec => []HalfOpenAdmission
<1>2. ProxyInit => SentBound
  BY DEF ProxyInit, SentBound, NewCircuitBreaker
<1>3. ProxyTypeOK /\ SentBound => HalfOpenAdmission
  <2> SUFFICES ASSUME ProxyTypeOK, SentBound, NEW u \in Upstreams,
                      breaker[u].state = "half-open"
               PROVE  sent[u] <= HalfOpenProbes
    BY DEF HalfOpenAdmission
  <2>1. breaker[u].probesAdmitted \in 0..HalfOpenProbes /\ sent[u] \in 0..(HalfOpenProbes + 1)
    BY DEF ProxyTypeOK, CircuitBreaker
  <2>2. sent[u] <= breaker[u].probesAdmitted
    BY DEF SentBound
  <2> QED
    BY <2>1, <2>2, BreakerConfig
<1>4. ProxyTypeOK /\ SentBound /\ [ProxyNext]_proxyVars => SentBound'
  BY SentStep
<1> QED
  BY <1>2, <1>3, <1>4, InitType, TypeStep, PTL DEF ProxySpec

\* A breaker is never tripped by attempts the upstream is not to blame for,
\* with all three handlers reporting to it concurrently.
THEOREM OnlyFaultsTrip == ProxySpec => []NoTripWithoutFault
<1>2. ProxyInit => FaultInv
  BY DEF ProxyInit, FaultInv, NewCircuitBreaker, SomeFailure
<1>3. FaultInv => NoTripWithoutFault
  BY DEF FaultInv, NoTripWithoutFault
<1> QED
  BY <1>2, <1>3, InitType, TypeStep, FaultStep, PTL DEF ProxySpec

-----------------------------------------------------------------------------
(* Probe slots.  An attempt holds a slot from Reserve to Record; nothing is*)
(* held or earned outside a half-open phase but what the last one earned.  *)
HoldsSlot == {"reserved", "roundtrip", "handshake"}

SlotInv ==
  /\ \A a \in Attempts : probing[a] => pc[a] \in HoldsSlot
  /\ \A u \in Upstreams :
       /\ breaker[u].state # "half-open" => Outstanding(u) = {}
       /\ breaker[u].state = "open" => earned[u] = 0

\* The probes of u that Reserve admitted and that are neither running nor
\* paid back.
SlotsLost(u) == breaker[u].probesAdmitted - Cardinality(Outstanding(u)) - earned[u]

\* What a step may do to the slots of u.
NoSlotMoves(u) ==
  /\ Moves(breaker[u], breaker'[u])
  /\ Outstanding(u)' = Outstanding(u) /\ earned'[u] = earned[u]

SlotRefused(u) ==
  /\ ~ Admits(breaker[u]) /\ breaker'[u] = Reserve(breaker[u])
  /\ Outstanding(u)' = Outstanding(u) /\ earned'[u] = earned[u]

SlotTaken(a, u) ==
  /\ Admits(breaker[u]) /\ breaker'[u] = Reserve(breaker[u])
  /\ a \notin Outstanding(u) /\ earned'[u] = earned[u]
  /\ Outstanding(u)' = IF breaker'[u].state = "half-open"
                         THEN Outstanding(u) \cup {a} ELSE Outstanding(u)

SlotReturned(a, o, u) ==
  /\ breaker'[u] = Record(breaker[u], o)
  /\ Outstanding(u)' = IF breaker'[u].state = "half-open"
                         THEN Outstanding(u) \ {a} ELSE {}
  /\ earned'[u] = IF breaker'[u].state = "open" THEN 0
                  ELSE IF a \in Outstanding(u) /\ o = "success" THEN earned[u] + 1
                  ELSE earned[u]
  /\ o = "cancellation" => cancelled'[a]

SlotDropped(a, u) ==
  /\ HandshakeFails(a)
  /\ breaker'[u] = breaker[u]
  /\ Outstanding(u)' = Outstanding(u) \ {a} /\ earned'[u] = earned[u]

\* Every step is one of these for every upstream, and an attempt that holds a
\* slot stays between Reserve and Record.
LEMMA SlotMoves ==
  ASSUME ProxyTypeOK, SlotInv, [ProxyNext]_proxyVars, NEW u \in Upstreams
  PROVE  /\ \A a \in Attempts : probing'[a] => pc'[a] \in HoldsSlot
         /\ \/ NoSlotMoves(u) \/ SlotRefused(u)
            \/ \E a \in Attempts :
                 \/ SlotTaken(a, u) \/ SlotDropped(a, u)
                 \/ \E o \in BreakerOutcome : SlotReturned(a, o, u)
<1> USE DEF GoesTo, Returns, upstreamVars, attemptVars, ghosts, HoldsSlot
<1> DEFINE Held == \A a \in Attempts : probing'[a] => pc'[a] \in HoldsSlot
<1> DEFINE Leaves(a) == /\ \E x : pc' = [pc EXCEPT ![a] = x]
                        /\ chosen' = chosen \/ chosen' = [chosen EXCEPT ![a] = NoUpstream]
<1>0. /\ pc \in [Attempts -> AttemptPC] /\ probing \in [Attempts -> BOOLEAN]
      /\ chosen \in [Attempts -> Upstreams \cup {NoUpstream}]
      /\ cancelled \in [Attempts -> BOOLEAN]
      /\ breaker \in [Upstreams -> CircuitBreaker] /\ earned \in [Upstreams -> Nat]
      /\ \A a \in Attempts : pc[a] # "idle" => chosen[a] \in Upstreams
      /\ \A a \in Attempts : probing[a] => pc[a] \in HoldsSlot
      /\ NoUpstream \notin Upstreams
  BY ZenonT(30), PoolAssumption DEF ProxyTypeOK, SlotInv
<1>1. CASE UNCHANGED proxyVars
  BY ZenonT(30), <1>0, <1>1 DEF proxyVars, NoSlotMoves, Moves, Outstanding
<1>2. ASSUME NEW a \in Attempts, Arrive(a) \/ TryAgain(a) PROVE Held /\ NoSlotMoves(u)
  <2>1. pc[a] = "idle" /\ ~ probing[a] /\ probing' = probing /\ earned' = earned
        /\ (\E x : chosen' = [chosen EXCEPT ![a] = x] \/ chosen' = chosen)
        /\ (\E x : pc' = [pc EXCEPT ![a] = x] \/ pc' = pc)
        /\ breaker' = Scanned
    BY Zenon, <1>0, <1>2 DEF Arrive, TryAgain, PickNone, Pick, PickTCP
  <2>2. Moves(breaker[u], breaker'[u])
    BY ZenonT(30), <2>1 DEF Scanned, Moves
  <2>3. Held /\ Outstanding(u)' = Outstanding(u)
    BY ZenonT(30), <1>0, <2>1 DEF Outstanding
  <2> QED
    BY ZenonT(30), <2>1, <2>2, <2>3 DEF NoSlotMoves
<1>3. ASSUME NEW a \in Attempts, Refused(a) PROVE Held /\ (NoSlotMoves(u) \/ SlotRefused(u))
  <2>1. Held /\ Outstanding(u)' = Outstanding(u) /\ earned' = earned
    BY ZenonT(30), <1>0, <1>3 DEF Refused, Outstanding
  <2>2. CASE chosen[a] = u
    BY ZenonT(30), <1>0, <1>3, <2>1, <2>2 DEF Refused, SlotRefused
  <2>3. CASE chosen[a] # u
    BY ZenonT(30), <1>0, <1>3, <2>1, <2>3 DEF Refused, NoSlotMoves, Moves
  <2> QED
    BY Zenon, SMTT(30), <2>1, <2>2, <2>3
<1>4. ASSUME NEW a \in Attempts, NEW w \in {"reserved", "handshake"}, Admitted(a, w)
      PROVE  Held /\ (NoSlotMoves(u) \/ SlotTaken(a, u))
  <2> DEFINE b == Reserve(breaker[chosen[a]])
  <2>1. /\ pc[a] = "picked" /\ ~ probing[a] /\ chosen[a] \in Upstreams
        /\ Admits(breaker[chosen[a]])
        /\ breaker' = [breaker EXCEPT ![chosen[a]] = b]
        /\ pc' = [pc EXCEPT ![a] = w] /\ chosen' = chosen /\ earned' = earned
        /\ probing' = [probing EXCEPT ![a] = b.state = "half-open"]
    BY Zenon, <1>0, <1>4 DEF Admitted
  <2> HIDE DEF b
  <2>2. Held
    <3>1. w \in HoldsSlot
      BY Zenon
    <3> QED
      BY ZenonT(30), <1>0, <2>1, <3>1
  <2>3. CASE chosen[a] = u
    <3>1. breaker'[u] = b
      BY <1>0, <2>1, <2>3
    <3>2. a \notin Outstanding(u) /\ Outstanding(u)' = IF b.state = "half-open"
                               THEN Outstanding(u) \cup {a} ELSE Outstanding(u)
      BY ZenonT(30), <1>0, <2>1, <2>3 DEF Outstanding
    <3>3. breaker'[u] = Reserve(breaker[u])
      BY Zenon, <2>3, <3>1 DEF b
    <3>4. SlotTaken(a, u)
      BY ZenonT(30), <2>1, <2>3, <3>1, <3>2, <3>3 DEF SlotTaken
    <3> QED
      BY Zenon, <2>2, <3>4
  <2>4. CASE chosen[a] # u
    BY ZenonT(30), <1>0, <2>1, <2>2, <2>4 DEF NoSlotMoves, Moves, Outstanding
  <2> QED
    BY Zenon, <2>3, <2>4
<1>5. ASSUME NEW a \in Attempts,
             CountInFlight(a) \/ ShuttleStarts(a) \/ SessionStarts(a) \/ Finish(a)
      PROVE  Held /\ NoSlotMoves(u)
  BY SMTT(30), <1>0, <1>5
  DEF CountInFlight, ShuttleStarts, SessionStarts, Finish, NoSlotMoves, Moves, Outstanding
<1>6. ASSUME NEW a \in Attempts, HandshakeFails(a) PROVE Held /\ SlotDropped(a, u)
  BY ZenonT(30), <1>0, <1>6 DEF HandshakeFails, SlotDropped, Outstanding
<1>7. ASSUME NEW a \in Attempts, NEW o \in BreakerOutcome, NEW f \in BOOLEAN,
             RecordOutcome(a, o, f), pc[a] # "idle", chosen[a] \in Upstreams,
             Leaves(a),
             o = "cancellation" => cancelled'[a]
      PROVE  Held /\ (NoSlotMoves(u) \/ SlotReturned(a, o, u))
  <2> DEFINE b == Record(breaker[chosen[a]], o)
  <2>1. /\ breaker' = [breaker EXCEPT ![chosen[a]] = b]
        /\ probing' = [x \in Attempts |->
             probing[x] /\ x # a /\ ~ (chosen[x] = chosen[a] /\ b.state # "half-open")]
        /\ earned' = [earned EXCEPT ![chosen[a]] =
             IF b.state = "open" THEN 0
             ELSE IF probing[a] /\ o = "success" THEN @ + 1 ELSE @]
    BY <1>7 DEF RecordOutcome
  <2> HIDE DEF b
  <2>2. Held
    BY ZenonT(30), <1>0, <1>7, <2>1
  <2>3. CASE chosen[a] = u
    <3>1. breaker'[u] = b /\ b = Record(breaker[u], o)
      BY <1>0, <2>1, <2>3 DEF b
    <3>2. Outstanding(u)' = IF b.state = "half-open" THEN Outstanding(u) \ {a} ELSE {}
      BY ZenonT(30), <1>0, <1>7, <2>1, <2>3 DEF Outstanding
    <3>3. a \in Outstanding(u) <=> probing[a]
      BY Zenon, <2>3 DEF Outstanding
    <3>4. earned'[u] = IF b.state = "open" THEN 0
                       ELSE IF probing[a] /\ o = "success" THEN earned[u] + 1 ELSE earned[u]
      BY ZenonT(30), <1>0, <2>1, <2>3
    <3>5. SlotReturned(a, o, u)
      BY ZenonT(30), <1>7, <3>1, <3>2, <3>3, <3>4 DEF SlotReturned
    <3> QED
      BY Zenon, <2>2, <3>5
  <2>4. CASE chosen[a] # u
    BY <1>0, <1>7, <2>1, <2>2, <2>4 DEF NoSlotMoves, Moves, Outstanding
  <2> QED
    BY ZenonT(30), SMTT(30), <2>3, <2>4
<1>8. ASSUME NEW a \in Attempts, NEW f \in BOOLEAN, RoundTripFails(a, f)
      PROVE  Held /\ (NoSlotMoves(u) \/ \E o \in BreakerOutcome : SlotReturned(a, o, u))
  <2> DEFINE o == IF cancelled[a] THEN "cancellation" ELSE "failure"
  <2>1. /\ o \in BreakerOutcome /\ RecordOutcome(a, o, f) /\ pc[a] # "idle"
        /\ chosen[a] \in Upstreams /\ Leaves(a)
        /\ o = "cancellation" => cancelled'[a]
    BY ZenonT(30), <1>0, <1>8 DEF RoundTripFails, BreakerOutcome
  <2> HIDE DEF o, Leaves, Held
  <2> QED
    BY Zenon, <1>7, <2>1
<1>9. ASSUME NEW a \in Attempts, NEW f \in BOOLEAN, RoundTripAnswers(a, f)
      PROVE  Held /\ (NoSlotMoves(u) \/ \E o \in BreakerOutcome : SlotReturned(a, o, u))
  <2> DEFINE o == IF f THEN "failure" ELSE "success"
  <2>1. /\ o \in BreakerOutcome /\ RecordOutcome(a, o, f) /\ pc[a] # "idle"
        /\ chosen[a] \in Upstreams /\ Leaves(a)
        /\ o # "cancellation"
    BY ZenonT(30), <1>0, <1>9 DEF RoundTripAnswers, BreakerOutcome
  <2> HIDE DEF o, Leaves, Held
  <2> QED
    BY Zenon, <1>7, <2>1
<1>10. ASSUME NEW a \in Attempts, HandshakeAccepted(a) \/ SessionEnds(a) \/ DialFails(a)
       PROVE  Held /\ (NoSlotMoves(u) \/ \E o \in BreakerOutcome : SlotReturned(a, o, u))
  <2>1. PICK o \in {"success", "failure"}, f \in BOOLEAN :
          /\ RecordOutcome(a, o, f) /\ pc[a] # "idle"
          /\ chosen[a] \in Upstreams /\ Leaves(a)
    BY Zenon, <1>0, <1>10 DEF HandshakeAccepted, SessionEnds, DialFails
  <2>2. o \in BreakerOutcome /\ o # "cancellation"
    BY Zenon DEF BreakerOutcome
  <2> HIDE DEF Leaves, Held
  <2> QED
    BY ZenonT(30), <1>7, <2>1, <2>2
<1>11. ASSUME \/ \E v \in Upstreams : HealthFlips(v)
              \/ \E S \in SUBSET Attempts : Cancel(S)
              \/ Tick
       PROVE  Held /\ NoSlotMoves(u)
  BY ZenonT(30), <1>0, <1>11 DEF HealthFlips, Cancel, Tick, NoSlotMoves, Moves, Outstanding
<1> QED
  BY ZenonT(30), <1>1, <1>2, <1>3, <1>4, <1>5, <1>6, <1>8, <1>9, <1>10, <1>11 DEF ProxyNext, Progress

\* What the slots of u amount to before the step, if its phase is not new.
LostSoFar(u) == IF breaker[u].state = "half-open" THEN SlotsLost(u) ELSE 0

\* Every step keeps SlotInv, and in a half-open phase it never gives a slot
\* back that nobody took; it loses one only when a context has ended or a
\* handshake failed.
LEMMA SlotStep ==
  ASSUME ProxyTypeOK, SlotInv, [ProxyNext]_proxyVars
  PROVE  /\ SlotInv'
         /\ \A u \in Upstreams : breaker'[u].state = "half-open" =>
              /\ SlotsLost(u)' >= LostSoFar(u)
              /\ KeepsSlots => SlotsLost(u)' = LostSoFar(u)
<1> DEFINE Kept(u) ==
      /\ breaker'[u].state # "half-open" => Outstanding(u)' = {}
      /\ breaker'[u].state = "open" => earned'[u] = 0
      /\ breaker'[u].state = "half-open" =>
           /\ SlotsLost(u)' >= LostSoFar(u)
           /\ KeepsSlots => SlotsLost(u)' = LostSoFar(u)
<1>1. ASSUME NEW u \in Upstreams PROVE Kept(u)
  <2> DEFINE b == breaker[u]
             c == breaker'[u]
             adv == advanceLocked(b)
             O == Outstanding(u)
             P == Outstanding(u)'
             e == earned[u]
             d == earned'[u]
  <2>0. /\ b \in CircuitBreaker /\ e \in Nat /\ IsFiniteSet(O)
        /\ b.state # "half-open" => O = {}
        /\ b.state = "open" => e = 0
    <3>1. O \in SUBSET Attempts /\ IsFiniteSet(Attempts)
      BY Zenon, SMTT(30), PoolAssumption DEF Outstanding
    <3> QED
      BY Zenon, <3>1, FS_Subset DEF ProxyTypeOK, SlotInv
  <2>1. /\ b.probesAdmitted \in Nat /\ b.state \in BreakerState
        /\ Cardinality(O) \in Nat /\ Cardinality({}) = 0
        /\ LostSoFar(u) = IF b.state = "half-open"
                            THEN b.probesAdmitted - Cardinality(O) - e ELSE 0
        /\ SlotsLost(u)' = c.probesAdmitted - Cardinality(P) - d
    <3>1. b.probesAdmitted \in Nat /\ b.state \in BreakerState
      <4> HIDE DEF b
      <4> QED
        BY SMTT(30), <2>0 DEF CircuitBreaker
    <3>2. Cardinality(O) \in Nat /\ Cardinality({}) = 0
      BY Zenon, <2>0, FS_CardinalityType, FS_EmptySet
    <3>3. /\ LostSoFar(u) = IF b.state = "half-open"
                              THEN b.probesAdmitted - Cardinality(O) - e ELSE 0
          /\ SlotsLost(u)' = c.probesAdmitted - Cardinality(P) - d
      BY Zenon DEF LostSoFar, SlotsLost
    <3> QED
      BY Zenon, <3>1, <3>2, <3>3
  <2>2. /\ adv \in CircuitBreaker
        /\ adv.state = b.state \/ (b.state = "open" /\ adv.state = "half-open")
        /\ b.state # "open" => adv = b
        /\ b.state = "open" /\ adv.state = "half-open" => adv.probesAdmitted = 0
    BY ZenonT(30), <2>0, AdvanceInv, PhaseStarts
  <2>3. adv.probesAdmitted \in Nat
    BY SMTT(30), <2>2 DEF CircuitBreaker
  <2>4. /\ adv.state # "half-open" => O = {}
        /\ adv.state = "open" => e = 0
        /\ adv.state = "half-open" =>
             adv.probesAdmitted - Cardinality(O) - e = LostSoFar(u)
    <3> HIDE DEF adv, b, O, e
    <3> QED
      BY SMTT(30), <2>0, <2>1, <2>2, <2>3
  <2>5. LostSoFar(u) \in Int
    <3> HIDE DEF b, O, e
    <3> QED
      BY SMTT(30), <2>0, <2>1
  <2>6. CASE NoSlotMoves(u)
    <3>1. P = O /\ d = e /\ (c = b \/ c = adv \/ c = Elapse(b))
      BY Zenon, <2>6 DEF NoSlotMoves, Moves
    <3>2. Elapse(b).state = b.state /\ Elapse(b).probesAdmitted = b.probesAdmitted
      BY Zenon, <2>0, ElapseProperties
    <3> HIDE DEF adv, b, c, O, P, e, d
    <3>3. /\ c.state # "half-open" => P = {}
          /\ c.state = "open" => d = 0
          /\ c.state = "half-open" => c.probesAdmitted - Cardinality(P) - d = LostSoFar(u)
      BY ZenonT(30), <2>0, <2>1, <2>4, <3>1, <3>2
    <3> QED
      BY SMTT(30), <2>1, <2>5, <3>3 DEF b, c, P, d
  <2>7. CASE SlotRefused(u)
    <3>1. P = O /\ d = e /\ c.state = adv.state /\ c.probesAdmitted = adv.probesAdmitted
      BY ZenonT(30), <2>0, <2>7, ReserveProperties DEF SlotRefused
    <3> HIDE DEF adv, b, O, e
    <3> QED
      BY SMTT(30), <2>1, <2>4, <2>5, <3>1
  <2>8. ASSUME NEW a \in Attempts, SlotTaken(a, u) PROVE Kept(u)
    <3>1. /\ d = e /\ c.state = adv.state /\ adv.state # "open" /\ a \notin O
          /\ c.probesAdmitted = IF adv.state = "half-open"
                                  THEN adv.probesAdmitted + 1 ELSE adv.probesAdmitted
          /\ P = IF c.state = "half-open" THEN O \cup {a} ELSE O
      BY <2>0, <2>8, ReserveProperties DEF SlotTaken, Admits
    <3>2. Cardinality(O \cup {a}) = Cardinality(O) + 1
      BY ZenonT(30), <2>0, <3>1, FS_AddElement
    <3> HIDE DEF adv, b, c, O, P, e, d
    <3>3. c.state = "half-open" => c.probesAdmitted - Cardinality(P) - d = LostSoFar(u)
      BY SMTT(30), <2>0, <2>1, <2>3, <2>4, <3>1, <3>2
    <3>4. c.state # "half-open" => P = {}
      BY ZenonT(30), SMTT(30), <2>4, <3>1
    <3> QED
      BY SMTT(30), <2>1, <2>5, <3>1, <3>3, <3>4 DEF c, P, d
  <2>9. ASSUME NEW a \in Attempts, SlotDropped(a, u) PROVE Kept(u)
    <3>1. c = b /\ P = O \ {a} /\ d = e /\ ~ KeepsSlots
      BY <2>9 DEF SlotDropped, KeepsSlots
    <3>2. Cardinality(O \ {a}) = IF a \in O THEN Cardinality(O) - 1 ELSE Cardinality(O)
      BY Zenon, <2>0, FS_RemoveElement
    <3> HIDE DEF adv, b, c, O, P, e, d
    <3>3. c.state = "half-open" => c.probesAdmitted - Cardinality(P) - d >= LostSoFar(u)
      BY SMTT(30), <2>0, <2>1, <3>1, <3>2
    <3> QED
      BY ZenonT(30), <2>0, <2>1, <3>1, <3>3 DEF c, P, d
  <2>10. ASSUME NEW a \in Attempts, NEW o \in BreakerOutcome, SlotReturned(a, o, u) PROVE Kept(u)
    <3>1. /\ c = Record(b, o)
          /\ P = IF c.state = "half-open" THEN O \ {a} ELSE {}
          /\ d = IF c.state = "open" THEN 0
                 ELSE IF a \in O /\ o = "success" THEN e + 1 ELSE e
          /\ o = "cancellation" => ~ KeepsSlots
      BY SMTT(30), <2>10 DEF SlotReturned, KeepsSlots
    <3>2. /\ c.state = "half-open" =>
               \/ b.state = "half-open" /\ c.probesAdmitted = b.probesAdmitted
               \/ b.state = "open" /\ c.probesAdmitted = 0
      <4>1. c.state = "half-open" =>
              \/ b.state = "half-open" /\ c.probesAdmitted = b.probesAdmitted
              \/ b.state = "open"
        BY SMTT(30), <2>0, <3>1, RecordProperties
      <4>2. b.state = "open" /\ c.state = "half-open" => c.probesAdmitted = 0
        BY Zenon, <2>0, <3>1, PhaseStarts
      <4> QED
        BY ZenonT(30), <4>1, <4>2
    <3>3. o = "failure" => c.state # "half-open" \/ O = {}
      <4>1. ASSUME o = "failure", c.state = "half-open", b.state = "half-open" PROVE FALSE
        <5>1. c = RecordHalfOpen(b, TRUE)
          BY Zenon, <2>0, <3>1, <4>1, NotOpen DEF Record
        <5> QED
          BY Zenon, <2>0, <4>1, <5>1 DEF RecordHalfOpen, CircuitBreaker
      <4> QED
        BY Zenon, <2>0, <3>2, <4>1
    <3>4. Cardinality(O \ {a}) = IF a \in O THEN Cardinality(O) - 1 ELSE Cardinality(O)
      BY Zenon, <2>0, FS_RemoveElement
    <3>5. o \in {"success", "failure", "cancellation"}
      BY Zenon DEF BreakerOutcome
    <3> HIDE DEF adv, b, c, O, P, e, d
    <3>6. CASE c.state # "half-open"
      BY ZenonT(30), SMTT(30), <3>1, <3>6 DEF c, P, d
    <3>7. CASE c.state = "half-open" /\ b.state = "half-open"
      <4>1. c.probesAdmitted = b.probesAdmitted /\ P = O \ {a}
            /\ d = IF a \in O /\ o = "success" THEN e + 1 ELSE e
        BY ZenonT(30), SMTT(30), <3>1, <3>2, <3>7
      <4>2. a \notin O \/ o = "success" =>
              c.probesAdmitted - Cardinality(P) - d = LostSoFar(u)
        BY SMTT(30), <2>0, <2>1, <3>4, <3>7, <4>1
      <4>3. a \in O /\ o # "success" =>
              c.probesAdmitted - Cardinality(P) - d = LostSoFar(u) + 1
        BY <2>0, <2>1, <3>4, <3>7, <4>1
      <4>4. a \in O /\ o # "success" => ~ KeepsSlots
        BY ZenonT(30), <3>1, <3>3, <3>5, <3>7
      <4> QED
        BY SMTT(30), <2>1, <2>5, <3>7, <4>2, <4>3, <4>4 DEF c, P, d
    <3>8. CASE c.state = "half-open" /\ b.state # "half-open"
      <4>1. O = {} /\ P = {} /\ e = 0 /\ d = 0 /\ c.probesAdmitted = 0
        BY ZenonT(30), <2>0, <3>1, <3>2, <3>8
      <4> QED
        BY <2>1, <3>8, <4>1 DEF c, P, d
    <3> QED
      BY ZenonT(30), SMTT(30), <3>6, <3>7, <3>8
  <2> QED
    BY ZenonT(30), <2>6, <2>7, <2>8, <2>9, <2>10, SlotMoves
<1>2. ASSUME Upstreams # {} PROVE \A a \in Attempts : probing'[a] => pc'[a] \in HoldsSlot
  BY Zenon, <1>2, SlotMoves
<1>3. ASSUME Upstreams = {} PROVE \A a \in Attempts : probing'[a] => pc'[a] \in HoldsSlot
  <2>1. /\ \A a \in Attempts : pc[a] = "idle"
        /\ \A a \in Attempts : probing[a] => pc[a] \in HoldsSlot
    BY <1>3 DEF ProxyTypeOK, SlotInv
  <2>2. \A a \in Attempts : ~ Progress(a)
    BY ZenonT(30), <2>1
    DEF Progress, Refused, Admitted, CountInFlight, RoundTripFails, RoundTripAnswers, Finish,
        HandshakeFails, HandshakeAccepted, ShuttleStarts, DialFails, SessionStarts, SessionEnds
  <2>3. probing' = probing /\ pc' = pc
    BY ZenonT(30), SMTT(30), <1>3, <2>2
    DEF ProxyNext, Arrive, TryAgain, PickNone, Cancel, HealthFlips, Tick,
        proxyVars, attemptVars, ghosts
  <2> QED
    BY ZenonT(30), <2>1, <2>3
<1> HIDE DEF Kept
<1>4. SlotInv'
  <2>1. \A a \in Attempts : probing'[a] => pc'[a] \in HoldsSlot
    BY Zenon, <1>2, <1>3
  <2>2. \A u \in Upstreams : /\ breaker'[u].state # "half-open" => Outstanding(u)' = {}
                             /\ breaker'[u].state = "open" => earned'[u] = 0
    BY <1>1 DEF Kept
  <2> QED
    BY Zenon, <2>1, <2>2 DEF SlotInv
<1>5. \A u \in Upstreams : breaker'[u].state = "half-open" =>
        /\ SlotsLost(u)' >= LostSoFar(u)
        /\ KeepsSlots => SlotsLost(u)' = LostSoFar(u)
  BY ZenonT(30), <1>1 DEF Kept
<1> QED
  BY <1>4, <1>5

\* The pool main builds has no slot taken.
LEMMA SlotInit == ProxyInit => SlotInv /\ NoSlotLost
  BY SMTT(30) DEF ProxyInit, SlotInv, NoSlotLost, NewCircuitBreaker, Outstanding

\* A half-open breaker has admitted every probe that is running or has paid
\* its slot back: whatever its attempts do, and though contexts end, hedges
\* lose and handshakes fail, Record and Reserve never let more through than
\* Reserve has counted.
NoSlotForged ==
  \A u \in Upstreams : breaker[u].state = "half-open" =>
    Cardinality(Outstanding(u)) + earned[u] <= breaker[u].probesAdmitted

\* NoSlotForged and NoSlotLost in terms of SlotsLost.
SlotsAddUp ==
  /\ \A u \in Upstreams : SlotsLost(u) \in Int
  /\ NoSlotForged <=>
       \A u \in Upstreams : breaker[u].state = "half-open" => SlotsLost(u) >= 0
  /\ NoSlotLost <=>
       \A u \in Upstreams : breaker[u].state = "half-open" => SlotsLost(u) = 0

\* The two readings agree in every well-typed state.
LEMMA LostIs == ProxyTypeOK => SlotsAddUp
<1> SUFFICES ASSUME ProxyTypeOK, NEW u \in Upstreams
             PROVE  /\ SlotsLost(u) \in Int
                    /\ SlotsLost(u) = 0 <=>
                         breaker[u].probesAdmitted = Cardinality(Outstanding(u)) + earned[u]
                    /\ SlotsLost(u) >= 0 <=>
                         Cardinality(Outstanding(u)) + earned[u] <= breaker[u].probesAdmitted
  BY Zenon DEF SlotsAddUp, NoSlotForged, NoSlotLost
<1>1. Outstanding(u) \in SUBSET Attempts /\ IsFiniteSet(Attempts)
  BY Zenon, PoolAssumption DEF Outstanding
<1>2. Cardinality(Outstanding(u)) \in Nat
  BY Zenon, <1>1, FS_Subset, FS_CardinalityType
<1>3. breaker[u] \in CircuitBreaker /\ earned[u] \in Nat
  BY Zenon DEF ProxyTypeOK
<1>4. breaker[u].probesAdmitted \in Nat
  BY <1>3 DEF CircuitBreaker
<1> QED
  BY <1>2, <1>3, <1>4 DEF SlotsLost

\* No half-open breaker ever has more probes out, or paid back, than it
\* admitted, for any pool and any interleaving of its handlers.
THEOREM SlotsNeverForged == ProxySpec => []NoSlotForged
<1>1. ProxyInit => NoSlotForged
  BY DEF ProxyInit, NoSlotForged, NewCircuitBreaker
<1>0. (ProxyTypeOK => SlotsAddUp)'
  BY LostIs, PTL
<1>2. ASSUME ProxyTypeOK, SlotInv, NoSlotForged, [ProxyNext]_proxyVars PROVE NoSlotForged'
  <2>0. SlotsAddUp /\ SlotsAddUp'
    BY ZenonT(30), SMTT(30), <1>0, <1>2, TypeStep, LostIs
  <2> SUFFICES ASSUME NEW u \in Upstreams, breaker'[u].state = "half-open"
               PROVE  (SlotsLost(u) >= 0)'
    BY Zenon, <2>0 DEF SlotsAddUp
  <2>1. LostSoFar(u) \in Int /\ LostSoFar(u) >= 0
    BY SMTT(30), <1>2, <2>0 DEF SlotsAddUp, LostSoFar
  <2>2. SlotsLost(u)' >= LostSoFar(u) /\ SlotsLost(u)' \in Int
    BY ZenonT(30), <1>2, <2>0, SlotStep DEF SlotsAddUp
  <2> QED
    BY <2>1, <2>2
<1>3. ProxyTypeOK /\ SlotInv /\ [ProxyNext]_proxyVars => SlotInv'
  BY SlotStep
<1>4. ProxyTypeOK /\ SlotInv /\ NoSlotForged /\ [ProxyNext]_proxyVars => NoSlotForged'
  BY <1>2
<1> QED
  BY <1>1, <1>3, <1>4, InitType, TypeStep, SlotInit, PTL DEF ProxySpec

\* As long as no context ends early and no WebSocket handshake fails, every
\* probe slot given out in a half-open phase is held by a running attempt or
\* was paid back by a success: no order of the handlers' steps loses one.
THEOREM SlotsNeverLost ==
  ProxyInit /\ [][ProxyNext /\ KeepsSlots]_proxyVars => []NoSlotLost
<1>0. (ProxyTypeOK => SlotsAddUp)'
  BY LostIs, PTL
<1>1. ASSUME ProxyTypeOK, SlotInv, NoSlotLost, [ProxyNext /\ KeepsSlots]_proxyVars
      PROVE  NoSlotLost'
  <2>1. CASE UNCHANGED proxyVars
    BY Zenon, <1>1, <2>1
    DEF NoSlotLost, Outstanding, proxyVars, upstreamVars, attemptVars, ghosts
  <2>2. CASE ProxyNext /\ KeepsSlots
    <3>0. SlotsAddUp /\ SlotsAddUp'
      BY ZenonT(30), <1>0, <1>1, <2>2, TypeStep, LostIs
    <3> SUFFICES ASSUME NEW u \in Upstreams, breaker'[u].state = "half-open"
                 PROVE  (SlotsLost(u) = 0)'
      BY Zenon, <3>0 DEF SlotsAddUp
    <3>1. LostSoFar(u) = 0
      BY <1>1, <3>0 DEF SlotsAddUp, LostSoFar
    <3> QED
      BY Zenon, <1>1, <2>2, <3>1, SlotStep
  <2> QED
    BY Zenon, <1>1, <2>1, <2>2
<1>2. [ProxyNext /\ KeepsSlots]_proxyVars => [ProxyNext]_proxyVars
  OBVIOUS
<1>3. ProxyTypeOK /\ SlotInv /\ [ProxyNext]_proxyVars => SlotInv'
  BY SlotStep
<1>4. ProxyTypeOK /\ SlotInv /\ NoSlotLost /\ [ProxyNext /\ KeepsSlots]_proxyVars => NoSlotLost'
  BY <1>1
<1> QED
  BY <1>2, <1>3, <1>4, InitType, TypeStep, SlotInit, PTL
=============================================================================
