--------------------------- MODULE L4ListenerProofs ---------------------------
(***************************************************************************)
(* Proofs about L4Listener, for any number of connections and upstreams.   *)
(***************************************************************************)
EXTENDS L4Listener, UpstreamProxyProofs

USE SMTT(30)

Counts(phase) == phase \in {"counted", "served", "ending"}
CountedConns == {a \in Attempts : Counts(conn[a])}

\* Serve has at most one connection in hand; the socket is closed when Shutdown
\* waits; and when the wait is over no two connections are left.
ListenerInv ==
  /\ L4TypeOK
  /\ \A a, b \in Attempts : conn[a] = "accepted" /\ conn[b] = "accepted" => a = b
  /\ shutdown \in {"waiting", "drained", "expired", "exited"} => closed
  /\ shutdown = "drained" => \A a, b \in Attempts : conn[a] # "none" /\ conn[b] # "none" => a = b

\* What a step does to connection a: nothing, or it moves on to phase q, the
\* WaitGroup following.
Advances(a, p, q) ==
  /\ conn[a] = p /\ conn' = [conn EXCEPT ![a] = q]
  /\ conns' = IF Counts(q) /\ ~ Counts(p) THEN conns + 1
              ELSE IF Counts(p) /\ ~ Counts(q) THEN conns - 1 ELSE conns

\* The WaitGroup's counter follows the connections it counts.
LEMMA WaitGroupCounts ==
  ASSUME L4TypeOK, NEW a \in Attempts, NEW p, NEW q, Advances(a, p, q)
  PROVE  conns' = Cardinality(CountedConns') /\ conns = Cardinality(CountedConns)
<1>1. conns = Cardinality(CountedConns)
  BY Zenon DEF L4TypeOK, CountedConns, Counts
<1>2. IsFiniteSet(CountedConns) /\ Cardinality(CountedConns) \in Nat
  BY PoolAssumption, FS_Subset, FS_CardinalityType DEF CountedConns
<1>3. conn \in [Attempts -> {"none", "accepted", "counted", "served", "ending"}]
  BY Zenon DEF L4TypeOK
<1>4. CASE Counts(q) /\ ~ Counts(p)
  <2>1. CountedConns' = CountedConns \cup {a} /\ a \notin CountedConns
    BY <1>3, <1>4 DEF CountedConns, Advances
  <2> QED
    BY ZenonT(30), <1>1, <1>2, <1>4, <2>1, FS_AddElement DEF Advances
<1>5. CASE Counts(p) /\ ~ Counts(q)
  <2>1. CountedConns' = CountedConns \ {a} /\ a \in CountedConns
    BY <1>3, <1>5 DEF CountedConns, Advances
  <2> QED
    BY ZenonT(30), <1>1, <1>2, <1>5, <2>1, FS_RemoveElement DEF Advances
<1>6. CASE Counts(p) <=> Counts(q)
  <2>1. CountedConns' = CountedConns
    BY <1>3, <1>6 DEF CountedConns, Advances
  <2> QED
    BY <1>1, <1>6, <2>1 DEF Advances
<1> QED
  BY <1>4, <1>5, <1>6

\* Every step of the listener is a step of the proxy, or none of its business.
LEMMA L4StepIsProxyStep ==
  ASSUME [L4Next]_l4Vars
  PROVE  [ProxyNext]_proxyVars
<1>1. "tcp" \in Kinds
  BY ListenerAssumption
<1>2. ASSUME NEW a \in Attempts, Begin(a) PROVE ProxyNext
  <2>1. Arrive(a)
    BY <1>1, <1>2, Zenon DEF Begin, Arrive
  <2> QED
    BY <2>1 DEF ProxyNext
<1>3. ASSUME NEW a \in Attempts, Continue(a) PROVE ProxyNext
  <2>1. Progress(a)
    BY <1>3, Zenon DEF Continue, Progress
  <2> QED
    BY <2>1 DEF ProxyNext
<1>4. ASSUME TickRunning PROVE ProxyNext
  BY <1>4 DEF TickRunning, ProxyNext
<1>5. ASSUME \/ \E a \in Attempts : Accept(a) \/ ConnDone(a)
             \/ ServeStep \/ Stop \/ ShutdownStep
      PROVE  UNCHANGED proxyVars
  BY Zenon, <1>5 DEF Accept, ConnDone, ServeStep, AcceptFails, Dispatch, Stop, ShutdownStep,
              CloseSocket, WaitReturns, DeadlinePasses, Exit
<1>6. ASSUME Over \/ UNCHANGED l4Vars PROVE UNCHANGED proxyVars
  BY <1>6 DEF Over, l4Vars
<1> QED
  BY <1>2, <1>3, <1>4, <1>5, <1>6, Zenon DEF L4Next

\* The listener's sessions are the attempts UpstreamProxy specifies.
THEOREM SessionsAreAttempts == L4Spec => L4ImplementsProxy
<1>1. L4Init => ProxyInit
  BY Zenon DEF L4Init
<1>2. [L4Next]_l4Vars => [ProxyNext]_proxyVars
  BY L4StepIsProxyStep
<1> QED
  BY <1>1, <1>2, PTL DEF L4Spec, L4ImplementsProxy, ProxySpec

\* So InFlight never leaks behind a listener, also while it shuts down ...
THEOREM InFlightBehindListener == L4Spec => []InFlightBalanced
BY SessionsAreAttempts, InFlightNeverLeaks, PTL DEF L4ImplementsProxy

\* ... and only failed dials open a breaker of a TCP pool.
THEOREM OnlyDialsTrip == L4Spec => []NoTripWithoutFault
BY SessionsAreAttempts, OnlyFaultsTrip, PTL DEF L4ImplementsProxy

-----------------------------------------------------------------------------
Phases == {"none", "accepted", "counted", "served", "ending"}

\* A step of connection a from phase p to q, the listener's flags unchanged; the
\* attempt is at work just when the connection is served.
ConnStep(a, p, q) ==
  /\ Advances(a, p, q) /\ p \in Phases /\ q \in Phases
  /\ p = "none" => q = "accepted" /\ ~ InHand /\ ~ closed
  /\ q = "accepted" => p = "none"
  /\ \A b \in Attempts \ {a} : pc'[b] = pc[b]
  /\ pc'[a] = "idle" <=> q # "served"
  /\ UNCHANGED <<stopping, closed, shutdown>> /\ accepting' = accepting

\* A step that leaves the connections alone and only moves the flags.
FlagStep ==
  /\ conn' = conn /\ conns' = conns /\ pc' = pc
  /\ accepting' \in BOOLEAN /\ stopping' \in BOOLEAN /\ closed' \in BOOLEAN
  /\ shutdown' \in {"not called", "closing", "waiting", "drained", "expired", "exited"}
  /\ closed => closed'
  /\ shutdown' \in {"waiting", "drained", "expired", "exited"} =>
       closed' \/ shutdown \in {"waiting", "drained", "expired", "exited"}
  /\ shutdown' = "drained" => shutdown = "drained" \/ conns = 0

ListenerStep(a) == Accept(a) \/ Dispatch(a) \/ Begin(a) \/ Continue(a) \/ ConnDone(a)

\* Every step of the listener is one or the other.
LEMMA StepKinds ==
  ASSUME ListenerInv, [L4Next]_l4Vars
  PROVE  FlagStep \/ \E a \in Attempts, p, q \in Phases : ConnStep(a, p, q)
<1>1. /\ conn \in [Attempts -> Phases] /\ pc \in [Attempts -> AttemptPC]
      /\ \A a \in Attempts : pc[a] = "idle" <=> conn[a] # "served"
      /\ accepting \in BOOLEAN /\ stopping \in BOOLEAN /\ closed \in BOOLEAN
      /\ shutdown \in {"not called", "closing", "waiting", "drained", "expired", "exited"}
  BY Zenon DEF ListenerInv, L4TypeOK, ProxyTypeOK, Phases
<1>2. ASSUME NEW a \in Attempts, Accept(a) PROVE ConnStep(a, "none", "accepted")
  BY Zenon, <1>1, <1>2
  DEF Accept, ConnStep, Advances, Becomes, Phases, Counts, proxyVars, attemptVars
<1>3. ASSUME NEW a \in Attempts, Dispatch(a) PROVE ConnStep(a, "accepted", "counted")
  BY Zenon, <1>1, <1>3
  DEF Dispatch, ConnStep, Advances, Becomes, Phases, Counts, proxyVars, attemptVars
<1>4. ASSUME NEW a \in Attempts, Begin(a)
      PROVE  ConnStep(a, "counted", "ending") \/ ConnStep(a, "counted", "served")
  <2>1. CASE PickNone(a, {}) /\ Becomes(a, "ending")
    BY Zenon, <1>1, <1>4, <2>1
    DEF Begin, PickNone, ConnStep, Advances, Becomes, Phases, Counts, attemptVars
  <2>2. ASSUME NEW u \in Upstreams, PickTCP(a, u), Becomes(a, "served")
        PROVE  ConnStep(a, "counted", "served")
    BY Zenon, <1>1, <1>4, <2>2
    DEF Begin, PickTCP, GoesTo, ConnStep, Advances, Becomes, Phases, Counts
  <2> QED
    BY Zenon, <1>4, <2>1, <2>2 DEF Begin
<1>5. ASSUME NEW a \in Attempts, Continue(a)
      PROVE  ConnStep(a, "served", "ending") \/ ConnStep(a, "served", "served")
  <2>1. \A b \in Attempts \ {a} : pc'[b] = pc[b]
    BY Zenon, <1>1, <1>5 DEF Continue, DialFails, SessionStarts, SessionEnds, Finish, Returns, GoesTo
  <2>2. conn[a] = "served" /\ conns' = conns /\ UNCHANGED <<accepting, stopping, closed, shutdown>>
    BY <1>5 DEF Continue
  <2>3. CASE pc'[a] = "idle"
    <3>1. conn' = [conn EXCEPT ![a] = "ending"]
      BY Zenon, <1>5, <2>3 DEF Continue
    <3> QED
      BY ZenonT(30), <2>1, <2>2, <2>3, <3>1 DEF ConnStep, Advances, Phases, Counts
  <2>4. CASE pc'[a] # "idle"
    <3>1. conn' = [conn EXCEPT ![a] = "served"]
      BY Zenon, <1>1, <1>5, <2>2, <2>4 DEF Continue
    <3> QED
      BY ZenonT(30), <2>1, <2>2, <2>4, <3>1 DEF ConnStep, Advances, Phases, Counts
  <2> QED
    BY Zenon, <2>3, <2>4
<1>6. ASSUME NEW a \in Attempts, ConnDone(a) PROVE ConnStep(a, "ending", "none")
  BY Zenon, <1>1, <1>6
  DEF ConnDone, ConnStep, Advances, Becomes, Phases, Counts, proxyVars, attemptVars
<1>7. ASSUME AcceptFails PROVE FlagStep
  BY Zenon, <1>1, <1>7 DEF AcceptFails, FlagStep, proxyVars, attemptVars
<1>8. ASSUME Stop \/ ShutdownStep PROVE FlagStep
  BY Zenon, <1>1, <1>8
  DEF Stop, ShutdownStep, CloseSocket, WaitReturns, DeadlinePasses, Exit, FlagStep,
      proxyVars, attemptVars
<1>9. ASSUME TickRunning PROVE FlagStep
  BY Zenon, <1>1, <1>9 DEF TickRunning, Tick, FlagStep, listenerVars, attemptVars
<1>10. ASSUME Over \/ UNCHANGED l4Vars PROVE FlagStep
  BY Zenon, <1>1, <1>10 DEF Over, l4Vars, listenerVars, FlagStep, proxyVars, attemptVars
<1>11. \A a \in Attempts : ListenerStep(a) => \E p, q \in Phases : ConnStep(a, p, q)
  BY ZenonT(30), <1>2, <1>3, <1>4, <1>5, <1>6 DEF ListenerStep, Phases
<1> QED
  BY <1>7, <1>8, <1>9, <1>10, <1>11, Zenon DEF L4Next, ServeStep, ListenerStep

\* A step of a connection keeps the invariant.
LEMMA ConnStepKeeps ==
  ASSUME ListenerInv, ProxyTypeOK', NEW a \in Attempts, NEW p \in Phases, NEW q \in Phases,
         ConnStep(a, p, q)
  PROVE  ListenerInv'
<1>1. /\ conn \in [Attempts -> Phases] /\ conn[a] = p
      /\ \A b \in Attempts : pc[b] = "idle" <=> conn[b] # "served"
      /\ conn' = [conn EXCEPT ![a] = q]
  BY Zenon DEF ListenerInv, L4TypeOK, Phases, ConnStep, Advances
<1>2. conn' \in [Attempts -> Phases] /\ conn'[a] = q /\ \A b \in Attempts \ {a} : conn'[b] = conn[b]
  BY <1>1
<1>3. \A b \in Attempts : pc'[b] = "idle" <=> conn'[b] # "served"
  BY <1>1, <1>2 DEF ConnStep
<1>4. conns' = Cardinality(CountedConns')
  BY WaitGroupCounts DEF ConnStep, ListenerInv
<1>5. L4TypeOK'
  BY ZenonT(30), <1>2, <1>3, <1>4 DEF ListenerInv, L4TypeOK, ConnStep, Phases, CountedConns, Counts
<1>6. \A b, c \in Attempts : conn'[b] = "accepted" /\ conn'[c] = "accepted" => b = c
  <2>1. CASE q = "accepted"
    BY <1>2, <2>1 DEF ConnStep, InHand
  <2>2. CASE q # "accepted"
    BY <1>2, <2>2 DEF ListenerInv
  <2> QED
    BY <2>1, <2>2
<1>7. shutdown' \in {"waiting", "drained", "expired", "exited"} => closed'
  BY DEF ListenerInv, ConnStep
<1>8. ASSUME shutdown' = "drained", NEW b \in Attempts, NEW c \in Attempts,
             conn'[b] # "none", conn'[c] # "none"
      PROVE  b = c
  <2>1. shutdown = "drained" /\ closed
    BY <1>8 DEF ConnStep, ListenerInv
  <2>2. p # "none"
    BY <2>1 DEF ConnStep
  <2>3. conn[b] # "none" /\ conn[c] # "none"
    BY ZenonT(30), <1>1, <1>2, <1>8, <2>2
  <2> QED
    BY Zenon, <2>1, <2>3 DEF ListenerInv
<1> QED
  BY ZenonT(30), <1>5, <1>6, <1>7, <1>8 DEF ListenerInv

\* So does a step of the flags: when the wait ends by itself only a connection
\* Serve has in hand can be left.
LEMMA FlagStepKeeps ==
  ASSUME ListenerInv, ProxyTypeOK', FlagStep
  PROVE  ListenerInv'
<1>1. L4TypeOK'
  BY Zenon DEF ListenerInv, L4TypeOK, FlagStep
<1>2. ASSUME conns = 0, NEW a \in Attempts, conn[a] # "none" PROVE conn[a] = "accepted"
  <2>1. conns = Cardinality(CountedConns) /\ conn[a] \in Phases
    BY Zenon DEF ListenerInv, L4TypeOK, CountedConns, Counts, Phases
  <2>2. IsFiniteSet(CountedConns)
    BY PoolAssumption, FS_Subset DEF CountedConns
  <2>3. CountedConns = {}
    BY ZenonT(30), <1>2, <2>1, <2>2, FS_EmptySet
  <2> QED
    BY Zenon, <1>2, <2>1, <2>3 DEF CountedConns, Counts, Phases
<1>3. ASSUME shutdown' = "drained", NEW b \in Attempts, NEW c \in Attempts,
             conn'[b] # "none", conn'[c] # "none"
      PROVE  b = c
  <2>1. conn[b] # "none" /\ conn[c] # "none"
    BY <1>3 DEF FlagStep
  <2>2. CASE shutdown = "drained"
    BY <2>1, <2>2 DEF ListenerInv
  <2>3. CASE conns = 0
    BY ZenonT(30), <1>2, <2>1, <2>3 DEF ListenerInv
  <2> QED
    BY ZenonT(30), <1>3, <2>2, <2>3 DEF FlagStep
<1>4. /\ \A b, c \in Attempts : conn'[b] = "accepted" /\ conn'[c] = "accepted" => b = c
      /\ shutdown' \in {"waiting", "drained", "expired", "exited"} => closed'
  BY Zenon DEF ListenerInv, FlagStep
<1> QED
  BY ZenonT(30), <1>1, <1>3, <1>4 DEF ListenerInv

\* ListenerInv is an inductive invariant.
LEMMA ListenerInvariant == L4Spec => []ListenerInv
<1>1. L4Init => ListenerInv
  <2> SUFFICES ASSUME L4Init PROVE ListenerInv
    OBVIOUS
  <2>1. CountedConns = {} /\ Cardinality({}) = 0
    BY Zenon, FS_EmptySet DEF L4Init, CountedConns, Counts
  <2>2. ProxyTypeOK /\ \A a \in Attempts : pc[a] = "idle"
    BY Zenon, InitType DEF L4Init, ProxyInit
  <2> QED
    BY Zenon, <2>1, <2>2 DEF L4Init, ListenerInv, L4TypeOK, CountedConns, Counts
<1>2. ListenerInv /\ [L4Next]_l4Vars => ListenerInv'
  <2> SUFFICES ASSUME ListenerInv, [L4Next]_l4Vars PROVE ListenerInv'
    OBVIOUS
  <2>1. ProxyTypeOK'
    BY Zenon, L4StepIsProxyStep, TypeStep DEF ListenerInv, L4TypeOK
  <2> QED
    BY <2>1, StepKinds, ConnStepKeeps, FlagStepKeeps, ZenonT(30)
<1> QED
  BY <1>1, <1>2, PTL DEF L4Spec

\* The WaitGroup counts exactly the connections between Add and Done.
THEOREM L4TypeCorrect == L4Spec => []L4TypeOK
BY ListenerInvariant, PTL DEF ListenerInv

\* A drained listener leaves at most one connection behind (Serve, Shutdown).
THEOREM OneSlipsAtMost == L4Spec => []AtMostOneSlips
<1>1. ListenerInv => AtMostOneSlips
  <2> SUFFICES ASSUME ListenerInv, shutdown = "drained"
               PROVE  Cardinality({a \in Attempts : conn[a] # "none"}) <= 1
    BY DEF AtMostOneSlips
  <2> DEFINE Left == {a \in Attempts : conn[a] # "none"}
  <2>1. CASE Left = {}
    BY <2>1, FS_EmptySet
  <2>2. ASSUME NEW a \in Left PROVE Cardinality(Left) = 1
    <3>1. Left = {a}
      BY <2>2 DEF ListenerInv
    <3> QED
      BY Zenon, <3>1, FS_Singleton
  <2> QED
    BY <2>1, <2>2
<1> QED
  BY <1>1, ListenerInvariant, PTL
=============================================================================
