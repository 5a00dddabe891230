---------------------------- MODULE UpstreamProxy ----------------------------
(***************************************************************************)
(* One pool's upstreams and the attempts that use them concurrently: the   *)
(* HTTP attempts of internal/upstream/proxy.go (ServeHTTP), the WebSocket  *)
(* sessions of websocket.go (serveWebSocket) and the TCP sessions of       *)
(* internal/l4/proxy.go (ServeConn).  Every attempt is a goroutine; what   *)
(* the attempts share is, per upstream, the circuit breaker, the InFlight  *)
(* counter and the Eligible flag, and each access to one of them is a step *)
(* of its own.                                                             *)
(*                                                                         *)
(* A selector is any choice from eligibleSet, which is what the five       *)
(* algorithms have in common.  The wire is the environment: a round trip,  *)
(* a dial or a handshake ends in any way it can.  What a handler tells its *)
(* caller (status and error) is left to Retry, which reads it.             *)
(***************************************************************************)
EXTENDS Breaker

CONSTANTS
  Upstreams,
  Attempts,
  NoUpstream,
  Kinds,       \* what the attempts may be: main builds L7 and TCP pools apart
  MayCancel    \* can a context end early (client gone, deadline, lost hedge)

ASSUME PoolAssumption ==
  /\ IsFiniteSet(Attempts) /\ NoUpstream \notin Upstreams
  /\ Kinds = {"tcp"} \/ Kinds \in (SUBSET {"http", "websocket"}) \ {{}}
  /\ MayCancel \in BOOLEAN

VARIABLES
  breaker, inFlight, eligible,   \* the fields of each lb.Upstream
  pc, chosen, cancelled,         \* each attempt: where it is, and its context
  \* Not in the program:
  probing,   \* the attempt was admitted in its breaker's present half-open phase
  sent,      \* attempts sent to the upstream in that phase (up to one too many)
  earned,    \* how many of them succeeded in it
  blamed     \* did the upstream itself fail since its breaker last closed

upstreamVars == <<breaker, inFlight, eligible>>
attemptVars == <<pc, chosen, cancelled>>
ghosts == <<probing, sent, earned, blamed>>
proxyVars == <<upstreamVars, attemptVars, ghosts>>

ProxyInit ==
  /\ breaker = [u \in Upstreams |-> NewCircuitBreaker]
  /\ inFlight = [u \in Upstreams |-> 0]
  /\ eligible = [u \in Upstreams |-> TRUE]
  /\ pc = [a \in Attempts |-> "idle"]
  /\ chosen = [a \in Attempts |-> NoUpstream]
  /\ cancelled = [a \in Attempts |-> FALSE]
  /\ probing = [a \in Attempts |-> FALSE]
  /\ sent = [u \in Upstreams |-> 0]
  /\ earned = [u \in Upstreams |-> 0]
  /\ blamed = [u \in Upstreams |-> FALSE]

-----------------------------------------------------------------------------
EligibleForSelection(u) ==
  eligible[u] /\ advanceLocked(breaker[u]).state # "open"

eligibleSet(exclude) == {u \in Upstreams \ exclude : EligibleForSelection(u)}

\* eligibleSet calls State() on every upstream whose flag is set, which
\* advances its breaker.
Scanned ==
  [u \in Upstreams |-> IF eligible[u] THEN advanceLocked(breaker[u]) ELSE breaker[u]]

GoesTo(a, where) == pc' = [pc EXCEPT ![a] = where]

\* The handler is over: its locals and its context are gone.
Returns(a) ==
  /\ GoesTo(a, "idle")
  /\ chosen' = [chosen EXCEPT ![a] = NoUpstream]
  /\ cancelled' = [cancelled EXCEPT ![a] = FALSE]

AddInFlight(a, n) == inFlight' = [inFlight EXCEPT ![chosen[a]] = @ + n]

\* The upstream u, with breaker b, is sent one more attempt.
CountSent(u, b) ==
  sent' = [sent EXCEPT ![u] =
             IF b.state = "half-open" /\ @ <= HalfOpenProbes THEN @ + 1 ELSE @]

\* Pick finds no upstream outside exclude: the handler answers and returns.
PickNone(a, exclude) ==
  /\ pc[a] = "idle" /\ eligibleSet(exclude) = {}
  /\ breaker' = Scanned
  /\ UNCHANGED <<inFlight, eligible, attemptVars, ghosts>>

\* Pick returns u to an attempt with http semantics, which has yet to reserve;
\* the attempt's context may have ended before it began.
Pick(a, u, exclude, ended) ==
  /\ pc[a] = "idle" /\ u \in eligibleSet(exclude)
  /\ breaker' = Scanned
  /\ chosen' = [chosen EXCEPT ![a] = u]
  /\ cancelled' = [cancelled EXCEPT ![a] = ended]
  /\ GoesTo(a, "picked")
  /\ UNCHANGED <<inFlight, eligible, ghosts>>

\* Reserve on the upstream Pick returned, some time ago.
Refused(a) ==
  /\ pc[a] = "picked" /\ ~ Admits(breaker[chosen[a]])
  /\ breaker' = [breaker EXCEPT ![chosen[a]] = Reserve(@)]
  /\ Returns(a)
  /\ UNCHANGED <<inFlight, eligible, ghosts>>

Admitted(a, where) ==
  LET u == chosen[a]
      b == Reserve(breaker[u])
  IN  /\ pc[a] = "picked" /\ Admits(breaker[u])
      /\ breaker' = [breaker EXCEPT ![u] = b]
      /\ GoesTo(a, where)
      /\ probing' = [probing EXCEPT ![a] = b.state = "half-open"]
      /\ CountSent(u, b)
      /\ UNCHANGED <<inFlight, eligible, chosen, cancelled, earned, blamed>>

\* Breaker.Record(outcome) on a's upstream, and what the ghosts make of it: a
\* half-open phase ends when the breaker opens or closes.
RecordOutcome(a, outcome, upstreamFailed) ==
  LET u == chosen[a]
      b == Record(breaker[u], outcome)
  IN  /\ breaker' = [breaker EXCEPT ![u] = b]
      /\ probing' = [x \in Attempts |->
           probing[x] /\ x # a /\ ~ (chosen[x] = u /\ b.state # "half-open")]
      /\ sent' = [sent EXCEPT ![u] = IF b.state = "open" THEN 0 ELSE @]
      /\ earned' = [earned EXCEPT ![u] =
           IF b.state = "open" THEN 0
           ELSE IF probing[a] /\ outcome = "success" THEN @ + 1 ELSE @]
      /\ blamed' = [blamed EXCEPT ![u] =
           \/ upstreamFailed
           \/ @ /\ ~ (b.state = "closed" /\ breaker[u].state # "closed")]

-----------------------------------------------------------------------------
\* HTTP: InFlight.Add(1), then the round trip.
CountInFlight(a) ==
  /\ pc[a] = "reserved"
  /\ AddInFlight(a, 1)
  /\ GoesTo(a, "roundtrip")
  /\ UNCHANGED <<breaker, eligible, chosen, cancelled, ghosts>>

\* Mutants of RoundTripFails: the deferred Add(-1) registered after the error
\* return; the context not asked.
failsBeforeDefer(a, upstreamFailed) ==
  /\ pc[a] = "roundtrip"
  /\ upstreamFailed \/ cancelled[a]
  /\ RecordOutcome(a, IF cancelled[a] THEN "cancellation" ELSE "failure", upstreamFailed)
  /\ Returns(a)
  /\ UNCHANGED <<inFlight, eligible>>

blamesUpstream(a, upstreamFailed) ==
  /\ pc[a] = "roundtrip"
  /\ upstreamFailed \/ cancelled[a]
  /\ RecordOutcome(a, "failure", upstreamFailed)
  /\ GoesTo(a, "closing")
  /\ UNCHANGED <<inFlight, eligible, chosen, cancelled>>

\* RoundTrip returns an error: the upstream failed, or the context ended, and
\* the handler only asks whether the context has ended.
RoundTripFails(a, upstreamFailed) ==
  /\ pc[a] = "roundtrip"
  /\ upstreamFailed \/ cancelled[a]
  /\ RecordOutcome(a, IF cancelled[a] THEN "cancellation" ELSE "failure", upstreamFailed)
  /\ GoesTo(a, "closing")
  /\ UNCHANGED <<inFlight, eligible, chosen, cancelled>>

\* Mutant of RoundTripAnswers: a success is not recorded.
recordsOnly5xx(a, is5xx) ==
  /\ pc[a] = "roundtrip"
  /\ RecordOutcome(a, IF is5xx THEN "failure" ELSE "cancellation", is5xx)
  /\ GoesTo(a, "closing")
  /\ UNCHANGED <<inFlight, eligible, chosen, cancelled>>

\* RoundTrip returns a response, with a status of 500 or more or below.
RoundTripAnswers(a, is5xx) ==
  /\ pc[a] = "roundtrip"
  /\ RecordOutcome(a, IF is5xx THEN "failure" ELSE "success", is5xx)
  /\ GoesTo(a, "closing")
  /\ UNCHANGED <<inFlight, eligible, chosen, cancelled>>

\* The response is copied, or the session shuttled, to its end; the deferred
\* InFlight.Add(-1) is the last thing the handler does.
Finish(a) ==
  /\ pc[a] = "closing"
  /\ AddInFlight(a, -1)
  /\ Returns(a)
  /\ UNCHANGED <<breaker, eligible, ghosts>>

-----------------------------------------------------------------------------
\* WebSocket.  No hijack, no connection, no answer, or an answer that is not
\* 101: the handler returns, and the breaker is told nothing.
HandshakeFails(a) ==
  /\ pc[a] = "handshake"
  /\ probing' = [probing EXCEPT ![a] = FALSE]
  /\ Returns(a)
  /\ UNCHANGED <<upstreamVars, sent, earned, blamed>>

HandshakeAccepted(a) ==
  /\ pc[a] = "handshake"
  /\ RecordOutcome(a, "success", FALSE)
  /\ GoesTo(a, "accepted")
  /\ UNCHANGED <<inFlight, eligible, chosen, cancelled>>

ShuttleStarts(a) ==
  /\ pc[a] = "accepted"
  /\ AddInFlight(a, 1)
  /\ GoesTo(a, "closing")
  /\ UNCHANGED <<breaker, eligible, chosen, cancelled, ghosts>>

-----------------------------------------------------------------------------
\* TCP: the session is on its way to the upstream once it is picked; nothing
\* is reserved.
PickTCP(a, u) ==
  /\ pc[a] = "idle" /\ u \in eligibleSet({})
  /\ breaker' = Scanned
  /\ chosen' = [chosen EXCEPT ![a] = u]
  /\ GoesTo(a, "dialing")
  /\ CountSent(u, Scanned[u])
  /\ UNCHANGED <<inFlight, eligible, cancelled, probing, earned, blamed>>

DialFails(a) ==
  /\ pc[a] = "dialing"
  /\ RecordOutcome(a, "failure", TRUE)
  /\ Returns(a)
  /\ UNCHANGED <<inFlight, eligible>>

SessionStarts(a) ==
  /\ pc[a] = "dialing"
  /\ AddInFlight(a, 1)
  /\ GoesTo(a, "session")
  /\ UNCHANGED <<breaker, eligible, chosen, cancelled, ghosts>>

\* Whatever happened in the session, its end is recorded as a success.
SessionEnds(a) ==
  /\ pc[a] = "session"
  /\ RecordOutcome(a, "success", FALSE)
  /\ GoesTo(a, "closing")
  /\ UNCHANGED <<inFlight, eligible, chosen, cancelled>>

-----------------------------------------------------------------------------
\* The contexts of the attempts in S end: client gone, deadline passed, hedge
\* lost.  It only matters until the round trip is over; a dial or a handshake
\* that it ends has failed like any other.
Cancellable(a) == pc[a] \in {"picked", "reserved", "roundtrip"} /\ ~ cancelled[a]

Cancel(S) ==
  /\ MayCancel /\ \A a \in S : Cancellable(a)
  /\ cancelled' = [a \in Attempts |-> cancelled[a] \/ a \in S]
  /\ UNCHANGED <<upstreamVars, pc, chosen, ghosts>>

\* The health monitor, which no TCP pool has, stores Eligible.
HealthFlips(u) ==
  /\ Kinds # {"tcp"}
  /\ eligible' = [eligible EXCEPT ![u] = ~ @]
  /\ UNCHANGED <<breaker, inFlight, attemptVars, ghosts>>

Tick ==
  /\ breaker' = [u \in Upstreams |-> Elapse(breaker[u])]
  /\ UNCHANGED <<inFlight, eligible, attemptVars, ghosts>>

\* A request or a connection arrives.
Arrive(a) ==
  \/ PickNone(a, {})
  \/ Kinds # {"tcp"} /\ \E u \in Upstreams : Pick(a, u, {}, FALSE)
  \/ "tcp" \in Kinds /\ \E u \in Upstreams : PickTCP(a, u)

\* A request is tried again, which excludes upstreams, or is tried although its
\* context has ended.
TryAgain(a) ==
  /\ Kinds # {"tcp"}
  /\ \E exclude \in SUBSET Upstreams :
       \/ PickNone(a, exclude)
       \/ \E u \in Upstreams, ended \in BOOLEAN :
            (ended => MayCancel) /\ Pick(a, u, exclude, ended)

\* What the handler of attempt a does next.
Progress(a) ==
  \/ Refused(a)
  \/ "http" \in Kinds /\ Admitted(a, "reserved")
  \/ "websocket" \in Kinds /\ Admitted(a, "handshake")
  \/ CountInFlight(a)
  \/ \E f \in BOOLEAN : RoundTripFails(a, f)
  \/ \E f \in BOOLEAN : RoundTripAnswers(a, f)
  \/ Finish(a)
  \/ HandshakeFails(a)
  \/ HandshakeAccepted(a)
  \/ ShuttleStarts(a)
  \/ DialFails(a)
  \/ SessionStarts(a)
  \/ SessionEnds(a)

ProxyNext ==
  \/ \E a \in Attempts : Arrive(a) \/ TryAgain(a) \/ Progress(a)
  \/ \E S \in SUBSET Attempts : Cancel(S)
  \/ \E u \in Upstreams : HealthFlips(u)
  \/ Tick

ProxySpec == ProxyInit /\ [][ProxyNext]_proxyVars

\* A handler runs to its end (a dial, a round trip and the answer's header have
\* timeouts), time passes, and requests keep coming.
ProxyFairness ==
  /\ WF_proxyVars(Tick)
  /\ \A a \in Attempts : WF_proxyVars(Progress(a)) /\ WF_proxyVars(Arrive(a))

FairProxySpec == ProxySpec /\ ProxyFairness

-----------------------------------------------------------------------------
\* The fields of the upstreams and the locals of the attempts keep their
\* types, and an attempt has an upstream from Pick to its return.
AttemptPC == {"idle", "picked", "reserved", "roundtrip", "handshake", "accepted",
              "dialing", "session", "closing"}

ProxyTypeOK ==
  /\ breaker \in [Upstreams -> CircuitBreaker]
  /\ inFlight \in [Upstreams -> Int]
  /\ eligible \in [Upstreams -> BOOLEAN]
  /\ pc \in [Attempts -> AttemptPC]
  /\ chosen \in [Attempts -> Upstreams \cup {NoUpstream}]
  /\ \A a \in Attempts : chosen[a] = NoUpstream <=> pc[a] = "idle"
  /\ cancelled \in [Attempts -> BOOLEAN]
  /\ probing \in [Attempts -> BOOLEAN]
  /\ sent \in [Upstreams -> 0..(HalfOpenProbes + 1)]
  /\ earned \in [Upstreams -> Nat]
  /\ blamed \in [Upstreams -> BOOLEAN]

Counted(u) == {a \in Attempts :
                 chosen[a] = u /\ pc[a] \in {"roundtrip", "session", "closing"}}

\* InFlight is exactly the number of attempts between their Add(1) and their
\* deferred Add(-1), on every path out of the three handlers: the selectors
\* that compare it never see a leak or a negative count.
InFlightBalanced ==
  \A u \in Upstreams : inFlight[u] = Cardinality(Counted(u))

\* While its breaker is half-open an upstream is sent at most HalfOpenProbes
\* attempts, however Pick and Reserve of different attempts interleave: what
\* the Reserve gate in ServeHTTP is for.
HalfOpenAdmission ==
  \A u \in Upstreams : breaker[u].state = "half-open" => sent[u] <= HalfOpenProbes

\* A breaker leaves Closed only when its upstream has failed since it closed:
\* attempts that ended because the client, a deadline or a won hedge ended
\* them are never charged to the upstream.
NoTripWithoutFault ==
  \A u \in Upstreams : breaker[u].state # "closed" => blamed[u]

Outstanding(u) == {a \in Attempts : probing[a] /\ chosen[a] = u}

\* Every probe slot Reserve gave out in the present half-open phase is held by
\* an attempt that is still running, or was paid back by its success.  With
\* the failure that ends the phase, this is all that can become of a slot when
\* no context ends early and no WebSocket handshake fails (KeepsSlots).
NoSlotLost ==
  \A u \in Upstreams : breaker[u].state = "half-open" =>
    breaker[u].probesAdmitted = Cardinality(Outstanding(u)) + earned[u]

\* A step in which no context ends early and no WebSocket handshake fails.
KeepsSlots == \A a \in Attempts : ~ HandshakeFails(a) /\ ~ cancelled'[a]

\* An open period ends: stray failures of attempts admitted before the trip
\* may restart it, but they run out, since none is admitted meanwhile.
OpenEnds ==
  \A u \in Upstreams : breaker[u].state = "open" ~> breaker[u].state # "open" \/ ~ eligible[u]

\* A half-open phase ends: the probes all succeed and the breaker closes, or
\* one fails and it opens, as long as the upstream stays eligible.
HalfOpenResolves ==
  \A u \in Upstreams :
    breaker[u].state = "half-open" ~> breaker[u].state # "half-open" \/ ~ eligible[u]
=============================================================================
