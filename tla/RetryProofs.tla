----------------------------- MODULE RetryProofs -----------------------------
(***************************************************************************)
(* Proofs about Retry, for any number of requests and attempts.            *)
(***************************************************************************)
EXTENDS Retry, UpstreamProxyProofs

USE SMTT(30)

\* The attempts of a request that may be running, given where its handler is.
Live(q) ==
  CASE q.pc = "sequential" -> {q.n}
    [] q.pc = "primary"    -> {1}
    [] q.pc = "racing"     -> {1, 2}
    [] q.pc = "draining"   -> {3 - q.winner}
    [] OTHER               -> {}

\* Counters of a handler are within what its loop and its two attempts allow.
HandlerOK ==
  \A r \in Requests :
    /\ req[r].n <= req[r].max
    /\ req[r].pc = "new" => req[r].n = 1 /\ req[r].exclude = {}
    /\ req[r].pc \in {"primary", "racing", "draining"} => MaxAttempts >= 2
    /\ req[r].pc = "draining" => req[r].winner \in 1..2

\* Only attempts the handler waits for are running, and the proxy is at work
\* only for attempts that are running.
OnlyLiveRun ==
  \A r \in Requests, i \in 1..MaxAttempts :
    /\ running[<<r, i>>] = "yes" => i \in Live(req[r])
    /\ running[<<r, i>>] # "yes" => pc[<<r, i>>] = "idle"

\* The Exclude list holds every upstream tried so far, and the present attempt
\* is not at one of them.
ExcludeKnows ==
  \A r \in Requests, i \in 1..MaxAttempts :
    req[r].pc = "sequential" =>
      /\ i < req[r].n => result[<<r, i>>].chosen \in req[r].exclude \cup {NoUpstream}
      /\ chosen[<<r, i>>] \notin req[r].exclude

RetryInv ==
  /\ ProxyTypeOK /\ RetryTypeOK
  /\ HandlerOK /\ OnlyLiveRun /\ ExcludeKnows

\* What a step of a dispatched attempt does: nothing to the handlers and the
\* other attempts; it may pick an upstream outside its Exclude list; and it
\* returns with the proxy's handler over.
AttemptEffect(a) ==
  /\ req' = req
  /\ \A b \in Attempts \ {a} : /\ running'[b] = running[b] /\ result'[b] = result[b]
                               /\ pc'[b] = pc[b] /\ chosen'[b] = chosen[b]
  /\ running'[a] = "yes" \/ (running'[a] = "returned" /\ pc'[a] = "idle")
  /\ chosen'[a] \in {chosen[a], NoUpstream} \cup (Upstreams \ Excluded(a))
  /\ running' \in [Attempts -> {"no", "yes", "returned"}]
  /\ result' \in [Attempts -> Result]

\* Every step the proxy takes for an attempt has that effect.
LEMMA AttemptEffects ==
  ASSUME RetryInv, NEW a \in Attempts, AttemptStep(a)
  PROVE  running[a] = "yes" /\ AttemptEffect(a)
<1>1. /\ running \in [Attempts -> {"no", "yes", "returned"}]
      /\ result \in [Attempts -> Result]
      /\ pc \in [Attempts -> AttemptPC] /\ chosen \in [Attempts -> Upstreams \cup {NoUpstream}]
      /\ cancelled \in [Attempts -> BOOLEAN]
      /\ running[a] = "yes" /\ req' = req
  BY DEF RetryInv, ProxyTypeOK, RetryTypeOK, AttemptStep
<1> DEFINE ResultsKept == /\ result' \in [Attempts -> Result]
                          /\ \A b \in Attempts \ {a} : result'[b] = result[b]
<1>2. \A x \in Result : result' = [result EXCEPT ![a] = x] => ResultsKept
  BY <1>1
<1> DEFINE Failed(s, u) == [status |-> s, err |-> TRUE, chosen |-> u, aborted |-> TRUE /\ cancelled[a]]
           Passed(s, u) == [status |-> s, err |-> FALSE, chosen |-> u, aborted |-> FALSE /\ cancelled[a]]
<1>16. \A s \in Status, u \in Upstreams \cup {NoUpstream} :
         Failed(s, u) \in Result /\ Passed(s, u) \in Result
  <2>1. (TRUE /\ cancelled[a]) \in BOOLEAN /\ (FALSE /\ cancelled[a]) \in BOOLEAN
    OBVIOUS
  <2> QED
    BY <2>1 DEF Result
<1> HIDE DEF ResultsKept, Failed, Passed
<1>3. Returned(a) => /\ running' \in [Attempts -> {"no", "yes", "returned"}]
                     /\ running'[a] = "returned"
                     /\ \A b \in Attempts \ {a} : running'[b] = running[b]
  BY <1>1 DEF Returned
<1>4. chosen[a] \in Upstreams \cup {NoUpstream}
  BY <1>1
<1>17. PICK s500 \in Status, s502 \in Status, s503 \in Status : s500 = 500 /\ s502 = 502 /\ s503 = 503
  BY DEF Status
<1>5. CASE PickNone(a, Excluded(a)) /\ Leaves(a, 503, TRUE, NoUpstream) /\ Returned(a)
  <2>1. pc[a] = "idle" /\ pc' = pc /\ chosen' = chosen
    BY <1>5 DEF PickNone, attemptVars
  <2>2. ResultsKept
    <3>1. result' = [result EXCEPT ![a] = Failed(s503, NoUpstream)]
      BY <1>17, <1>5 DEF Leaves, Failed
    <3> QED
      BY Zenon, <1>2, <1>4, <1>16, <3>1
  <2> QED
    BY ZenonT(30), <1>1, <1>3, <1>5, <2>1, <2>2 DEF AttemptEffect, ResultsKept
<1>6. ASSUME NEW u \in Upstreams, Pick(a, u, Excluded(a), CtxEnded(a)), UNCHANGED <<running, result>>
      PROVE  AttemptEffect(a)
  BY <1>1, <1>6 DEF Pick, eligibleSet, GoesTo, AttemptEffect
<1>7. ASSUME Returns(a) PROVE /\ pc'[a] = "idle" /\ chosen'[a] = NoUpstream
                              /\ \A b \in Attempts \ {a} : pc'[b] = pc[b] /\ chosen'[b] = chosen[b]
  BY <1>1, <1>7 DEF Returns, GoesTo
<1>8. CASE Refused(a) /\ Leaves(a, 503, FALSE, chosen[a]) /\ Returned(a)
  <2>1. ResultsKept
    <3>1. result' = [result EXCEPT ![a] = Passed(s503, chosen[a])]
      BY <1>17, <1>8 DEF Leaves, Passed
    <3> QED
      BY ZenonT(30), <1>2, <1>4, <1>16, <3>1
  <2>2. Returns(a)
    BY <1>8 DEF Refused
  <2> QED
    BY ZenonT(30), <1>1, <1>3, <1>7, <1>8, <2>1, <2>2 DEF AttemptEffect, ResultsKept
<1>9. CASE HandshakeFails(a) /\ Leaves(a, 500, FALSE, chosen[a]) /\ Returned(a)
  <2>1. ResultsKept
    <3>1. result' = [result EXCEPT ![a] = Passed(s500, chosen[a])]
      BY <1>17, <1>9 DEF Leaves, Passed
    <3> QED
      BY ZenonT(30), <1>2, <1>4, <1>16, <3>1
  <2>2. Returns(a)
    BY <1>9 DEF HandshakeFails
  <2> QED
    BY ZenonT(30), <1>1, <1>3, <1>7, <1>9, <2>1, <2>2 DEF AttemptEffect, ResultsKept
<1>10. CASE Finish(a) /\ Returned(a) /\ UNCHANGED result
  BY ZenonT(30), <1>1, <1>3, <1>7, <1>10 DEF Finish, AttemptEffect
<1>11. ASSUME NEW w, GoesTo(a, w), chosen' = chosen, UNCHANGED running, ResultsKept
       PROVE  AttemptEffect(a)
  BY <1>1, <1>11 DEF GoesTo, AttemptEffect, ResultsKept
<1>12. ASSUME NEW w, Admitted(a, w), UNCHANGED <<running, result>> PROVE AttemptEffect(a)
  BY <1>1, <1>11, <1>12 DEF Admitted, ResultsKept
<1>13. CASE CountInFlight(a) /\ UNCHANGED <<running, result>>
  BY ZenonT(30), <1>1, <1>11, <1>13 DEF CountInFlight, ResultsKept
<1>14. ASSUME NEW f \in BOOLEAN, RoundTripFails(a, f),
              Leaves(a, 502, TRUE, chosen[a]), UNCHANGED running
       PROVE  AttemptEffect(a)
  <2>1. ResultsKept
    <3>1. result' = [result EXCEPT ![a] = Failed(s502, chosen[a])]
      BY <1>17, <1>14 DEF Leaves, Failed
    <3> QED
      BY Zenon, <1>2, <1>4, <1>16, <3>1
  <2> QED
    BY <2>1, <1>11, <1>14 DEF RoundTripFails
<1>15. ASSUME NEW s \in Status, RoundTripAnswers(a, s >= 500),
              Leaves(a, s, FALSE, chosen[a]), UNCHANGED running
       PROVE  AttemptEffect(a)
  <2>1. ResultsKept
    <3>1. result' = [result EXCEPT ![a] = Passed(s, chosen[a])]
      BY <1>15 DEF Leaves, Passed
    <3> QED
      BY Zenon, <1>2, <1>4, <1>16, <3>1
  <2> QED
    BY <2>1, <1>11, <1>15 DEF RoundTripAnswers
<1> QED
  BY ZenonT(30), <1>1, <1>5, <1>6, <1>8, <1>9, <1>10, <1>12, <1>13, <1>14, <1>15 DEF AttemptStep

\* Every step behind the middleware is a step of the proxy or none of its
\* business: the middleware only chooses when attempts start, what they exclude
\* and when their contexts end.
LEMMA RetryStepIsProxyStep ==
  ASSUME RetryInv, [RetryNext]_allVars
  PROVE  [ProxyNext]_proxyVars
<1>1. /\ req \in [Requests -> Request] /\ MayCancel /\ Kinds # {"tcp"}
      /\ \A r \in Requests, i \in 1..MaxAttempts : <<r, i>> \in Attempts
      /\ MaxAttempts \in Nat \ {0}
  BY RetryAssumption DEF RetryInv, RetryTypeOK
<1>2. ASSUME NEW a \in Attempts, AttemptStep(a) PROVE ProxyNext
  <2>1. PICK r \in Requests, i \in 1..MaxAttempts : a = <<r, i>>
    BY RetryAssumption
  <2>2. Excluded(a) \in SUBSET Upstreams
    BY <1>1, <2>1 DEF Excluded, Request
  <2>3. CtxEnded(a) \in BOOLEAN
    BY <1>1, <2>1 DEF CtxEnded, Request
  <2>4. \A s \in Status : (s >= 500) \in BOOLEAN
    OBVIOUS
  <2>5. CASE \/ PickNone(a, Excluded(a))
             \/ \E u \in Upstreams : Pick(a, u, Excluded(a), CtxEnded(a))
    <3> DEFINE e == CtxEnded(a)
    <3>1. e \in BOOLEAN
      BY <2>3
    <3>2. PickNone(a, Excluded(a)) \/ \E u \in Upstreams : Pick(a, u, Excluded(a), e)
      BY <2>5
    <3> HIDE DEF e
    <3>3. TryAgain(a)
      BY <1>1, <2>2, <3>1, <3>2, Zenon DEF TryAgain
    <3> QED
      BY <3>3 DEF ProxyNext
  <2>6. ASSUME NEW s \in Status, RoundTripAnswers(a, s >= 500) PROVE Progress(a)
    <3>1. PICK f \in BOOLEAN : f = (s >= 500)
      BY ZenonT(30), <2>4
    <3>2. RoundTripAnswers(a, f)
      BY <2>6, <3>1
    <3> QED
      BY <3>2, Zenon DEF Progress
  <2>7. \/ PickNone(a, Excluded(a))
        \/ \E u \in Upstreams : Pick(a, u, Excluded(a), CtxEnded(a))
        \/ Refused(a) \/ CountInFlight(a) \/ HandshakeFails(a) \/ Finish(a)
        \/ "http" \in Kinds /\ Admitted(a, "reserved")
        \/ "websocket" \in Kinds /\ Admitted(a, "handshake")
        \/ \E f \in BOOLEAN : RoundTripFails(a, f)
        \/ \E s \in Status : RoundTripAnswers(a, s >= 500)
    BY <1>2, ZenonT(30) DEF AttemptStep
  <2>8. CASE Progress(a)
    BY <2>8 DEF ProxyNext
  <2>9. \/ Refused(a) \/ CountInFlight(a) \/ HandshakeFails(a) \/ Finish(a)
        \/ "http" \in Kinds /\ Admitted(a, "reserved")
        \/ "websocket" \in Kinds /\ Admitted(a, "handshake")
        \/ \E f \in BOOLEAN : RoundTripFails(a, f)
        => Progress(a)
    BY Zenon DEF Progress
  <2> QED
    BY <2>5, <2>6, <2>7, <2>8, <2>9, ZenonT(30)
<1>3. ASSUME NEW r \in Requests, NEW i \in 1..2, Wins(r, i) PROVE [ProxyNext]_proxyVars
  <2>1. 3 - i \in 1..MaxAttempts
    BY <1>1, <1>3 DEF Wins, RetryInv, HandlerOK
  <2>2. {<<r, 3 - i>>} \in SUBSET Attempts
    BY <1>1, <2>1
  <2> QED
    BY <1>3, <2>2 DEF Wins, ProxyNext
<1>4. ASSUME NEW r \in Requests, ClientGone(r) PROVE ProxyNext
  BY Zenon, <1>4 DEF ClientGone, ProxyNext
<1>5. ASSUME NEW r \in Requests,
             \/ \E max \in {1, MaxAttempts} : ArriveSequential(r, max)
             \/ ArriveHedged(r) \/ SequentialNext(r) \/ PrimaryInTime(r)
             \/ HedgeFires(r) \/ Drained(r)
      PROVE  UNCHANGED proxyVars
  BY <1>5 DEF ArriveSequential, ArriveHedged, SequentialNext, PrimaryInTime, HedgeFires, Drained
<1>6. CASE \/ Tick \/ \E u \in Upstreams : HealthFlips(u)
  BY <1>6 DEF ProxyNext
<1>7. CASE UNCHANGED allVars
  BY <1>7 DEF allVars
<1> QED
  BY ZenonT(30), <1>2, <1>3, <1>4, <1>5, <1>6, <1>7 DEF RetryNext, Handler

-----------------------------------------------------------------------------
\* What a step of request r's handler does, q being its new locals: it may
\* dispatch the attempt d it will wait for (0 for none), and touches neither
\* another request nor what an attempt has done.
HandlerEffect(r, q, d) ==
  /\ req' = [req EXCEPT ![r] = q] /\ q \in Request
  /\ running' = [a \in Attempts |-> IF a = <<r, d>> THEN "yes" ELSE running[a]]
  /\ pc' = pc /\ chosen' = chosen /\ result' = result

\* What the new locals q must satisfy for the invariant to hold of r again.
HandlerSafe(r, q, d) ==
  /\ q.n <= q.max /\ q.pc # "new"
  /\ q.pc \in {"primary", "racing", "draining"} => MaxAttempts >= 2
  /\ q.pc = "draining" => q.winner \in 1..2
  /\ \A i \in 1..MaxAttempts : (running[<<r, i>>] = "yes" \/ i = d) => i \in Live(q)
  /\ \A i \in 1..MaxAttempts : q.pc = "sequential" =>
       /\ i < q.n => result[<<r, i>>].chosen \in q.exclude \cup {NoUpstream}
       /\ chosen[<<r, i>>] \notin q.exclude

\* The locals of a handler after a step keep the invariant if they do for the
\* handler's own request.
LEMMA HandlerKeeps ==
  ASSUME RetryInv, NEW r \in Requests, NEW q, NEW d \in Nat, HandlerEffect(r, q, d),
         HandlerSafe(r, q, d)
  PROVE  RetryTypeOK' /\ HandlerOK' /\ OnlyLiveRun' /\ ExcludeKnows'
<1>1. /\ req \in [Requests -> Request]
      /\ running \in [Attempts -> {"no", "yes", "returned"}]
      /\ \A s \in Requests, i \in 1..MaxAttempts : <<s, i>> \in Attempts
  BY RetryAssumption DEF RetryInv, RetryTypeOK
<1>2. req' \in [Requests -> Request] /\ req'[r] = q
      /\ \A s \in Requests \ {r} : req'[s] = req[s]
  BY <1>1 DEF HandlerEffect
<1>3. /\ running' \in [Attempts -> {"no", "yes", "returned"}]
      /\ \A s \in Requests, i \in 1..MaxAttempts :
           running'[<<s, i>>] = IF s = r /\ i = d THEN "yes" ELSE running[<<s, i>>]
  BY <1>1 DEF HandlerEffect
<1>4. RetryTypeOK'
  BY Zenon, <1>2, <1>3 DEF HandlerEffect, RetryInv, RetryTypeOK
<1>5. HandlerOK'
  BY Zenon, <1>2 DEF RetryInv, HandlerOK, HandlerSafe
<1>6. OnlyLiveRun'
  <2> SUFFICES ASSUME NEW s \in Requests, NEW i \in 1..MaxAttempts
               PROVE  /\ running'[<<s, i>>] = "yes" => i \in Live(req'[s])
                      /\ running'[<<s, i>>] # "yes" => pc'[<<s, i>>] = "idle"
    BY Zenon DEF OnlyLiveRun
  <2>1. running[<<s, i>>] = "yes" => i \in Live(req[s])
    BY DEF RetryInv, OnlyLiveRun
  <2>2. running'[<<s, i>>] # "yes" => pc'[<<s, i>>] = "idle"
    BY <1>3 DEF RetryInv, OnlyLiveRun, HandlerEffect
  <2>3. CASE s = r
    BY Zenon, <1>2, <1>3, <2>2, <2>3 DEF HandlerSafe
  <2>4. CASE s # r
    BY ZenonT(30), <1>2, <1>3, <2>1, <2>2, <2>4
  <2> QED
    BY Zenon, <2>3, <2>4
<1>7. ExcludeKnows'
  BY <1>2 DEF RetryInv, ExcludeKnows, HandlerEffect, HandlerSafe
<1> QED
  BY Zenon, <1>4, <1>5, <1>6, <1>7

\* A step of an attempt keeps it: it concerns an attempt its handler waits for,
\* and picks outside the handler's Exclude list.
LEMMA AttemptKeeps ==
  ASSUME RetryInv, NEW a \in Attempts, AttemptStep(a)
  PROVE  RetryTypeOK' /\ HandlerOK' /\ OnlyLiveRun' /\ ExcludeKnows'
<1>1. running[a] = "yes" /\ AttemptEffect(a)
  BY AttemptEffects
<1>2. PICK r \in Requests, i \in 1..MaxAttempts : a = <<r, i>>
  BY RetryAssumption
<1>3. \A s \in Requests, j \in 1..MaxAttempts : <<s, j>> \in Attempts
  BY Zenon, RetryAssumption
<1>4. RetryTypeOK' /\ HandlerOK'
  BY Zenon, <1>1 DEF AttemptEffect, RetryInv, RetryTypeOK, HandlerOK
<1>5. OnlyLiveRun'
  <2> SUFFICES ASSUME NEW s \in Requests, NEW j \in 1..MaxAttempts
               PROVE  /\ running'[<<s, j>>] = "yes" => j \in Live(req[s])
                      /\ running'[<<s, j>>] # "yes" => pc'[<<s, j>>] = "idle"
    BY Zenon, <1>1 DEF OnlyLiveRun, AttemptEffect
  <2>1. CASE <<s, j>> = a
    BY Zenon, <1>1, <2>1 DEF RetryInv, OnlyLiveRun, AttemptEffect
  <2>2. CASE <<s, j>> # a
    BY Zenon, <1>1, <1>3, <2>2 DEF RetryInv, OnlyLiveRun, AttemptEffect
  <2> QED
    BY <2>1, <2>2
<1>6. ExcludeKnows'
  <2> SUFFICES ASSUME NEW s \in Requests, NEW j \in 1..MaxAttempts, req[s].pc = "sequential"
               PROVE  /\ j < req[s].n =>
                           result'[<<s, j>>].chosen \in req[s].exclude \cup {NoUpstream}
                      /\ chosen'[<<s, j>>] \notin req[s].exclude
    BY <1>1 DEF ExcludeKnows, AttemptEffect
  <2>1. req[s].exclude \in SUBSET Upstreams /\ req[s].n \in Nat
    BY RetryAssumption DEF RetryInv, RetryTypeOK, Request
  <2>2. CASE <<s, j>> = a
    <3>1. j = req[s].n
      BY ZenonT(30), <1>1, <2>2 DEF RetryInv, OnlyLiveRun, Live
    <3>2. chosen'[a] \notin req[s].exclude
      BY SMTT(30), <1>1, <1>2, <2>1, <2>2, PoolAssumption DEF RetryInv, ExcludeKnows, AttemptEffect, Excluded
    <3> QED
      BY <2>1, <2>2, <3>1, <3>2
  <2>3. CASE <<s, j>> # a
    BY ZenonT(30), <1>1, <1>3, <2>3 DEF RetryInv, ExcludeKnows, AttemptEffect
  <2> QED
    BY Zenon, <2>2, <2>3
<1> QED
  BY Zenon, <1>4, <1>5, <1>6

\* The invariant holds of the first state, with no request and no attempt.
LEMMA RetryInitInv == RetryInit => RetryInv
<1> SUFFICES ASSUME RetryInit PROVE RetryInv
  OBVIOUS
<1>1. MaxAttempts \in Nat \ {0} /\ 1 \in 1..MaxAttempts
  BY RetryAssumption
<1>2. [pc |-> "new", n |-> 1, max |-> 1, exclude |-> {}, gone |-> FALSE, winner |-> 1]
        \in Request
  BY <1>1 DEF Request, RequestPC
<1>3. [status |-> 200, err |-> FALSE, chosen |-> NoUpstream, aborted |-> FALSE] \in Result
  BY DEF Result, Status
<1>4. ProxyTypeOK /\ RetryTypeOK
  BY ZenonT(30), SMTT(30), <1>2, <1>3, InitType DEF RetryInit, RetryTypeOK
<1>5. HandlerOK /\ ExcludeKnows
  BY DEF RetryInit, HandlerOK, ExcludeKnows
<1>6. OnlyLiveRun
  BY RetryAssumption DEF RetryInit, ProxyInit, OnlyLiveRun
<1> QED
  BY Zenon, <1>4, <1>5, <1>6 DEF RetryInv

\* A handler's locals stay locals when a step assigns one or two of them.
LEMMA RequestFields ==
  ASSUME NEW p \in Request
  PROVE  /\ \A x \in RequestPC : [p EXCEPT !.pc = x] \in Request
         /\ \A m \in 1..MaxAttempts : /\ [p EXCEPT !.max = m] \in Request
                                      /\ [p EXCEPT !.n = m] \in Request
                                      /\ [p EXCEPT !.winner = m] \in Request
         /\ \A E \in SUBSET Upstreams : [p EXCEPT !.exclude = E] \in Request
         /\ [p EXCEPT !.gone = TRUE] \in Request
BY Zenon DEF Request

\* Every step of a handler keeps the invariant.
LEMMA HandlerSteps ==
  ASSUME RetryInv, NEW r \in Requests,
         \/ \E max \in {1, MaxAttempts} : ArriveSequential(r, max)
         \/ ArriveHedged(r) \/ Handler(r) \/ ClientGone(r)
  PROVE  RetryTypeOK' /\ HandlerOK' /\ OnlyLiveRun' /\ ExcludeKnows'
<1> DEFINE Keeps == RetryTypeOK' /\ HandlerOK' /\ OnlyLiveRun' /\ ExcludeKnows'
<1>0. PICK p : p = req[r]
  BY Zenon
<1>1. /\ req \in [Requests -> Request] /\ p \in Request /\ MaxAttempts \in Nat \ {0}
      /\ running \in [Attempts -> {"no", "yes", "returned"}]
      /\ result \in [Attempts -> Result]
      /\ \A i \in 1..MaxAttempts : <<r, i>> \in Attempts
  BY Zenon, <1>0, RetryAssumption DEF RetryInv, RetryTypeOK
<1>2. /\ p.pc \in RequestPC /\ p.n \in 1..MaxAttempts /\ p.max \in 1..MaxAttempts
      /\ p.exclude \in SUBSET Upstreams /\ p.winner \in 1..MaxAttempts
      /\ p.pc = "new" => p.n = 1 /\ p.exclude = {}
      /\ p.n <= p.max /\ p.gone \in BOOLEAN
      /\ p.pc \in {"primary", "racing", "draining"} => MaxAttempts >= 2
      /\ p.pc = "draining" => p.winner \in 1..2
  BY ZenonT(30), SMTT(30), <1>0, <1>1 DEF Request, RetryInv, HandlerOK
<1>3. \A i \in 1..MaxAttempts : running[<<r, i>>] = "yes" => i \in Live(p)
  BY ZenonT(30), <1>0 DEF RetryInv, OnlyLiveRun
<1>4. \A i \in 1..MaxAttempts : p.pc = "sequential" =>
        /\ i < p.n => result[<<r, i>>].chosen \in p.exclude \cup {NoUpstream}
        /\ chosen[<<r, i>>] \notin p.exclude
  BY <1>0 DEF RetryInv, ExcludeKnows
<1>5. ASSUME NEW d \in 1..MaxAttempts, Dispatch(<<r, d>>)
      PROVE  running' = [a \in Attempts |-> IF a = <<r, d>> THEN "yes" ELSE running[a]]
  BY Zenon, <1>1, <1>5 DEF Dispatch
<1>6. running = [a \in Attempts |-> IF a = <<r, 0>> THEN "yes" ELSE running[a]]
  BY <1>1, RetryAssumption
<1>7. ASSUME NEW max \in {1, MaxAttempts}, ArriveSequential(r, max) PROVE Keeps
  <2>1. PICK q : q = [p EXCEPT !.pc = "sequential", !.max = max]
    OBVIOUS
  <2>2. 1 \in 1..MaxAttempts /\ max \in 1..MaxAttempts /\ "sequential" \in RequestPC
    BY <1>1 DEF RequestPC
  <2>3. q \in Request
    BY Zenon, <1>1, <2>1, <2>2, RequestFields
  <2>4. req' = [req EXCEPT ![r] = q]
    BY Zenon, <1>0, <1>1, <1>7, <2>1 DEF ArriveSequential, Request
  <2>5. HandlerEffect(r, q, 1)
    BY ZenonT(30), <1>5, <1>7, <2>2, <2>3, <2>4 DEF ArriveSequential, HandlerEffect, proxyVars, attemptVars
  <2>6. q.pc = "sequential" /\ q.max = max /\ q.n = p.n /\ q.exclude = p.exclude
    BY Zenon, <1>1, <2>1 DEF Request
  <2>7. p.pc = "new" /\ Live(p) = {}
    BY Zenon, <1>0, <1>7 DEF ArriveSequential, Live
  <2>8. Live(q) = {1} /\ q.n = 1 /\ q.exclude = {}
    BY ZenonT(30), <1>2, <2>6, <2>7 DEF Live
  <2>20. HandlerSafe(r, q, 1)
    BY <1>3, <2>2, <2>6, <2>7, <2>8 DEF HandlerSafe
  <2> QED
    BY ZenonT(30), <2>5, <2>20, HandlerKeeps
<1>8. CASE ArriveHedged(r)
  <2>1. PICK q : q = [p EXCEPT !.pc = "primary"]
    BY Zenon
  <2>2. 1 \in 1..MaxAttempts /\ "primary" \in RequestPC /\ MaxAttempts >= 2
    BY <1>1, <1>8 DEF RequestPC, ArriveHedged
  <2>3. q \in Request
    BY Zenon, <1>1, <2>1, <2>2, RequestFields
  <2>4. req' = [req EXCEPT ![r] = q]
    BY ZenonT(30), <1>0, <1>1, <1>8, <2>1 DEF ArriveHedged, Request
  <2>5. HandlerEffect(r, q, 1)
    BY ZenonT(30), <1>5, <1>8, <2>2, <2>3, <2>4 DEF ArriveHedged, HandlerEffect, proxyVars, attemptVars
  <2>6. q.pc = "primary" /\ q.max = p.max /\ q.n = p.n
    BY Zenon, <1>1, <2>1 DEF Request
  <2>7. Live(p) = {} /\ Live(q) = {1}
    BY ZenonT(30), <1>0, <1>8, <2>6 DEF ArriveHedged, Live
  <2>20. HandlerSafe(r, q, 1)
    BY ZenonT(30), <1>2, <1>3, <2>2, <2>6, <2>7 DEF HandlerSafe
  <2> QED
    BY ZenonT(30), <2>5, <2>20, HandlerKeeps
<1>9. CASE PrimaryInTime(r)
  <2>1. PICK q : q = [p EXCEPT !.pc = "answered"]
    BY Zenon
  <2>2. q \in Request
    BY ZenonT(30), <1>1, <2>1, RequestFields DEF RequestPC
  <2>3. req' = [req EXCEPT ![r] = q]
    BY <1>0, <1>1, <1>9, <2>1 DEF PrimaryInTime, Request
  <2>4. HandlerEffect(r, q, 0)
    BY Zenon, <1>6, <1>9, <2>2, <2>3 DEF PrimaryInTime, HandlerEffect, proxyVars, attemptVars
  <2>5. q.pc = "answered" /\ q.max = p.max /\ q.n = p.n
    BY Zenon, <1>1, <2>1 DEF Request
  <2>6. Live(p) = {1} /\ running[<<r, 1>>] # "yes"
    BY ZenonT(30), <1>0, <1>9 DEF PrimaryInTime, Live
  <2>20. HandlerSafe(r, q, 0)
    BY <1>2, <1>3, <2>5, <2>6 DEF HandlerSafe
  <2> QED
    BY ZenonT(30), <2>4, <2>20, HandlerKeeps
<1>10. CASE HedgeFires(r)
  <2>1. PICK q : q = [p EXCEPT !.pc = "racing"]
    BY Zenon
  <2>2. p.pc = "primary" /\ 2 \in 1..MaxAttempts /\ MaxAttempts >= 2
    BY <1>0, <1>1, <1>2, <1>10 DEF HedgeFires
  <2>3. q \in Request
    BY ZenonT(30), <1>1, <2>1, RequestFields DEF RequestPC
  <2>4. req' = [req EXCEPT ![r] = q]
    BY ZenonT(30), <1>0, <1>1, <1>10, <2>1 DEF HedgeFires, Request
  <2>5. HandlerEffect(r, q, 2)
    BY Zenon, <1>5, <1>10, <2>2, <2>3, <2>4 DEF HedgeFires, HandlerEffect, proxyVars, attemptVars
  <2>6. q.pc = "racing" /\ q.max = p.max /\ q.n = p.n
    BY <1>1, <2>1 DEF Request
  <2>7. Live(p) = {1} /\ Live(q) = {1, 2}
    BY Zenon, <2>2, <2>6 DEF Live
  <2>20. HandlerSafe(r, q, 2)
    BY ZenonT(30), <1>2, <1>3, <2>2, <2>6, <2>7 DEF HandlerSafe
  <2> QED
    BY ZenonT(30), <2>5, <2>20, HandlerKeeps
<1>11. ASSUME NEW i \in 1..2, Wins(r, i) PROVE Keeps
  <2>1. PICK q : q = [p EXCEPT !.pc = "draining", !.winner = i]
    OBVIOUS
  <2>2. p.pc = "racing" /\ MaxAttempts >= 2 /\ i \in 1..MaxAttempts /\ "draining" \in RequestPC
    BY <1>0, <1>1, <1>2, <1>11 DEF Wins, RequestPC
  <2>3. q \in Request
    BY Zenon, <1>1, <2>1, <2>2, RequestFields
  <2>4. req' = [req EXCEPT ![r] = q]
    BY Zenon, <1>0, <1>1, <1>11, <2>1 DEF Wins, Request
  <2>5. pc' = pc /\ chosen' = chosen
    BY <1>11 DEF Wins, Cancel, proxyVars, attemptVars
  <2>6. HandlerEffect(r, q, 0)
    BY Zenon, <1>6, <1>11, <2>3, <2>4, <2>5 DEF Wins, HandlerEffect
  <2>7. q.pc = "draining" /\ q.max = p.max /\ q.n = p.n /\ q.winner = i
    BY Zenon, <1>1, <2>1 DEF Request
  <2>8. Live(p) = {1, 2} /\ Live(q) = {3 - i} /\ running[<<r, i>>] # "yes"
    BY ZenonT(30), <1>11, <2>2, <2>7 DEF Wins, Live
  <2>9. \A j \in {1, 2} : j # i => j \in {3 - i}
    OBVIOUS
  <2>20. HandlerSafe(r, q, 0)
    BY SMTT(30), <1>2, <1>3, <2>2, <2>7, <2>8, <2>9 DEF HandlerSafe
  <2> QED
    BY ZenonT(30), <2>6, <2>20, HandlerKeeps
<1>12. CASE Drained(r)
  <2>1. PICK q : q = [p EXCEPT !.pc = "answered"]
    BY Zenon
  <2>2. q \in Request
    BY Zenon, <1>1, <2>1, RequestFields DEF RequestPC
  <2>3. req' = [req EXCEPT ![r] = q]
    BY ZenonT(30), <1>0, <1>1, <1>12, <2>1 DEF Drained, Request
  <2>4. HandlerEffect(r, q, 0)
    BY ZenonT(30), <1>6, <1>12, <2>2, <2>3 DEF Drained, HandlerEffect, proxyVars, attemptVars
  <2>5. q.pc = "answered" /\ q.max = p.max /\ q.n = p.n
    BY <1>1, <2>1 DEF Request
  <2>6. Live(p) = {3 - p.winner} /\ running[<<r, 3 - p.winner>>] # "yes"
    BY Zenon, <1>0, <1>12 DEF Drained, Live
  <2>20. HandlerSafe(r, q, 0)
    BY <1>2, <1>3, <2>5, <2>6 DEF HandlerSafe
  <2> QED
    BY <2>4, <2>20, HandlerKeeps
<1>13. CASE ClientGone(r)
  <2>1. PICK q : q = [p EXCEPT !.gone = TRUE]
    BY Zenon
  <2>2. q \in Request
    BY Zenon, <1>1, <2>1, RequestFields
  <2>3. req' = [req EXCEPT ![r] = q]
    BY <1>0, <1>1, <1>13, <2>1 DEF ClientGone, Request
  <2>4. HandlerEffect(r, q, 0)
    BY Zenon, <1>6, <1>13, <2>2, <2>3 DEF ClientGone, Cancel, HandlerEffect
  <2>5. /\ q.pc = p.pc /\ q.max = p.max /\ q.n = p.n /\ q.winner = p.winner
        /\ q.exclude = p.exclude /\ p.pc # "new"
    BY ZenonT(30), <1>0, <1>1, <1>13, <2>1 DEF Request, ClientGone
  <2>6. Live(q) = Live(p)
    BY ZenonT(30), <2>5 DEF Live
  <2>20. HandlerSafe(r, q, 0)
    BY <1>2, <1>3, <1>4, <2>5, <2>6 DEF HandlerSafe
  <2> QED
    BY <2>4, <2>20, HandlerKeeps
<1>14. CASE SequentialNext(r)
  <2>1. /\ p.pc = "sequential" /\ Live(p) = {p.n} /\ running[<<r, p.n>>] # "yes"
        /\ <<r, p.n>> \in Attempts /\ result[<<r, p.n>>].chosen \in Upstreams \cup {NoUpstream}
    BY ZenonT(30), <1>0, <1>1, <1>2, <1>14 DEF SequentialNext, Live, Result
  <2>2. CASE /\ req' = [req EXCEPT ![r].pc = "answered", ![r].winner = req[r].n]
             /\ UNCHANGED running
    <3>1. PICK q : q = [p EXCEPT !.pc = "answered", !.winner = p.n]
      OBVIOUS
    <3>2. q \in Request
      BY Zenon, <1>1, <1>2, <3>1, RequestFields DEF RequestPC
    <3>3. req' = [req EXCEPT ![r] = q]
      BY Zenon, <1>0, <1>1, <2>2, <3>1 DEF Request
    <3>4. HandlerEffect(r, q, 0)
      BY Zenon, <1>6, <1>14, <2>2, <3>2, <3>3 DEF SequentialNext, HandlerEffect, proxyVars, attemptVars
    <3>5. q.pc = "answered" /\ q.max = p.max /\ q.n = p.n
      BY ZenonT(30), <1>1, <3>1 DEF Request
    <3>20. HandlerSafe(r, q, 0)
      BY <1>2, <1>3, <2>1, <3>5 DEF HandlerSafe
    <3> QED
      BY <3>4, <3>20, HandlerKeeps
  <2>3. CASE /\ req[r].n # req[r].max
             /\ req' = [req EXCEPT ![r].n = @ + 1, ![r].exclude =
                         @ \cup ({result[<<r, req[r].n>>].chosen} \ {NoUpstream})]
             /\ Dispatch(<<r, req[r].n + 1>>)
    <3>1. PICK E : E = p.exclude \cup ({result[<<r, p.n>>].chosen} \ {NoUpstream})
      BY Zenon
    <3>2. PICK m : m = p.n + 1
      BY Zenon
    <3>3. PICK q : q = [p EXCEPT !.n = m, !.exclude = E]
      OBVIOUS
    <3>4. E \in SUBSET Upstreams /\ m \in 1..MaxAttempts /\ m <= p.max
      BY <1>0, <1>1, <1>2, <2>1, <2>3, <3>1, <3>2
    <3>5. q \in Request
      BY Zenon, <1>1, <3>3, <3>4, RequestFields
    <3>6. req' = [req EXCEPT ![r] = q]
      BY Zenon, <1>0, <1>1, <2>3, <3>1, <3>2, <3>3 DEF Request
    <3>7. HandlerEffect(r, q, m)
      BY ZenonT(30), <1>0, <1>5, <1>14, <2>3, <3>2, <3>4, <3>5, <3>6
      DEF SequentialNext, HandlerEffect, proxyVars, attemptVars
    <3>8. q.pc = "sequential" /\ q.n = m /\ q.max = p.max /\ q.exclude = E /\ Live(q) = {m}
      BY ZenonT(30), <1>1, <2>1, <3>3 DEF Request, Live
    <3>9. ASSUME NEW i \in 1..MaxAttempts
          PROVE  /\ i < m => result[<<r, i>>].chosen \in E \cup {NoUpstream}
                 /\ chosen[<<r, i>>] \notin E
      <4>1. i < m => result[<<r, i>>].chosen \in E \cup {NoUpstream}
        BY SMTT(30), <1>2, <1>4, <2>1, <3>1, <3>2
      <4>2. running[<<r, i>>] # "yes" /\ <<r, i>> \in Attempts
        BY ZenonT(30), <1>1, <1>3, <2>1
      <4>3. chosen[<<r, i>>] = NoUpstream
        BY ZenonT(30), SMTT(30), <4>2 DEF RetryInv, OnlyLiveRun, ProxyTypeOK
      <4> QED
        BY ZenonT(30), <3>4, <4>1, <4>3, PoolAssumption
    <3>20. HandlerSafe(r, q, m)
      BY SMTT(30), <1>2, <1>3, <2>1, <3>4, <3>8, <3>9 DEF HandlerSafe
    <3> QED
      BY SMTT(30), <3>7, <3>20, <3>4, HandlerKeeps
  <2> QED
    BY ZenonT(30), <1>14, <2>2, <2>3 DEF SequentialNext
<1> QED
  BY ZenonT(30), <1>7, <1>8, <1>9, <1>10, <1>11, <1>12, <1>13, <1>14 DEF Handler

\* Every step keeps the invariant.
LEMMA RetryStep == RetryInv /\ [RetryNext]_allVars => RetryInv'
<1> SUFFICES ASSUME RetryInv, [RetryNext]_allVars PROVE RetryInv'
  OBVIOUS
<1>1. ProxyTypeOK'
  BY Zenon, SMTT(30), RetryStepIsProxyStep, TypeStep DEF RetryInv
<1>2. ASSUME UNCHANGED <<retryVars, pc, chosen>>
      PROVE  RetryTypeOK' /\ HandlerOK' /\ OnlyLiveRun' /\ ExcludeKnows'
  BY Zenon, <1>2 DEF RetryInv, retryVars, RetryTypeOK, HandlerOK, OnlyLiveRun, ExcludeKnows
<1>3. CASE UNCHANGED allVars
  BY ZenonT(30), <1>1, <1>2, <1>3 DEF allVars, proxyVars, attemptVars, RetryInv
<1>4. CASE (Tick \/ \E u \in Upstreams : HealthFlips(u)) /\ UNCHANGED retryVars
  BY Zenon, <1>1, <1>2, <1>4 DEF Tick, HealthFlips, attemptVars, RetryInv
<1>5. ASSUME NEW a \in Attempts, AttemptStep(a) PROVE RetryInv'
  BY Zenon, <1>1, <1>5, AttemptKeeps DEF RetryInv
<1>6. ASSUME NEW r \in Requests,
             \/ \E max \in {1, MaxAttempts} : ArriveSequential(r, max)
             \/ ArriveHedged(r) \/ Handler(r) \/ ClientGone(r)
      PROVE  RetryInv'
  BY Zenon, <1>1, <1>6, HandlerSteps DEF RetryInv
<1> QED
  BY ZenonT(30), <1>3, <1>4, <1>5, <1>6 DEF RetryNext

\* The inductive invariant holds of every behaviour.
LEMMA RetryInvariant == RetrySpec => []RetryInv
BY RetryInitInv, RetryStep, PTL DEF RetrySpec

-----------------------------------------------------------------------------
\* Requests and results keep their types (RetryTypeOK): the attempt counter of
\* serveSequential in particular stays within MaxAttempts.
THEOREM RetryTypeCorrect == RetrySpec => []RetryTypeOK
<1>1. RetryInv => RetryTypeOK
  BY Zenon DEF RetryInv
<1> QED
  BY <1>1, RetryInvariant, PTL

\* When ServeHTTP of the middleware has answered, none of the request's attempts
\* is still running, hedged or not (NothingLeftBehind).
THEOREM AnsweredMeansOver == RetrySpec => []NothingLeftBehind
<1>1. RetryInv => NothingLeftBehind
  <2> SUFFICES ASSUME RetryInv, NEW a \in Attempts, req[a[1]].pc = "answered"
               PROVE  running[a] # "yes" /\ pc[a] = "idle"
    BY DEF NothingLeftBehind
  <2>1. PICK r \in Requests, i \in 1..MaxAttempts : a = <<r, i>>
    BY RetryAssumption
  <2>2. Live(req[r]) = {}
    BY Zenon, <2>1 DEF Live
  <2> QED
    BY Zenon, <2>1, <2>2 DEF RetryInv, OnlyLiveRun
<1> QED
  BY <1>1, RetryInvariant, PTL

\* A request that serveSequential retries never returns to an upstream it has
\* tried (RetriesElsewhere), whatever the breakers and the health flags do.
THEOREM RetriesGoElsewhere == RetrySpec => []RetriesElsewhere
<1>1. RetryInv => RetriesElsewhere
  <2> SUFFICES ASSUME RetryInv, NEW r \in Requests, req[r].pc = "sequential",
                      NEW i \in 1..MaxAttempts, NEW j \in 1..MaxAttempts, i < j,
                      chosen[<<r, j>>] # NoUpstream
               PROVE  chosen[<<r, j>>] # result[<<r, i>>].chosen
    BY DEF RetriesElsewhere
  <2>1. <<r, j>> \in Attempts
    BY Zenon, RetryAssumption
  <2>2. running[<<r, j>>] = "yes"
    BY <2>1 DEF RetryInv, OnlyLiveRun, ProxyTypeOK
  <2>3. j = req[r].n
    BY <2>2 DEF RetryInv, OnlyLiveRun, Live
  <2> QED
    BY Zenon, <2>3 DEF RetryInv, ExcludeKnows
<1> QED
  BY <1>1, RetryInvariant, PTL

\* The proxy behind the middleware is the proxy (ImplementsProxy): retries and
\* hedges only choose among the behaviours UpstreamProxy already has.
THEOREM RetryImplementsProxy == RetrySpec => ImplementsProxy
<1>1. RetryInit => ProxyInit
  BY DEF RetryInit
<1>2. RetryInv /\ [RetryNext]_allVars => [ProxyNext]_proxyVars
  BY RetryStepIsProxyStep
<1> QED
  BY <1>1, <1>2, RetryInvariant, PTL DEF RetrySpec, ImplementsProxy, ProxySpec

\* So what is proved of the proxy holds behind the middleware: InFlight counts
\* the requests in flight, a half-open upstream is not flooded by retries and
\* hedges, and the losers of hedged pairs never trip a breaker.
THEOREM ProxyGuaranteesBehindRetry ==
  RetrySpec => [](InFlightBalanced /\ HalfOpenAdmission /\ NoTripWithoutFault)
<1>1. "tcp" \notin Kinds
  BY Zenon, RetryAssumption, PoolAssumption
<1>2. ProxySpec => []HalfOpenAdmission
  BY Zenon, <1>1, HalfOpenNeverFlooded
<1> QED
  BY <1>2, RetryImplementsProxy, InFlightNeverLeaks, OnlyFaultsTrip, PTL DEF ImplementsProxy

-----------------------------------------------------------------------------
(* Aborted attempts.  Whoever's context was ended has a handler that wants *)
(* none of it: its client is gone, or it lost a hedged pair.               *)
CutOff(q, i) == q.gone \/ (q.pc \in {"draining", "answered"} /\ i # q.winner)

AbortInv ==
  \A r \in Requests, i \in 1..MaxAttempts :
    cancelled[<<r, i>>] \/ result[<<r, i>>].aborted => CutOff(req[r], i)

\* A step of an attempt ends no context but its own, which begins ended if it
\* is picked for a request that is cut off, and marks a result as aborted only
\* when its context has ended.
LEMMA AttemptAborts ==
  ASSUME RetryInv, NEW a \in Attempts, AttemptStep(a)
  PROVE  /\ \A b \in Attempts \ {a} : cancelled'[b] = cancelled[b]
         /\ cancelled'[a] => cancelled[a] \/ CtxEnded(a)
         /\ result'[a].aborted => result[a].aborted \/ cancelled[a]
<1>1. cancelled \in [Attempts -> BOOLEAN] /\ result \in [Attempts -> Result]
  BY DEF RetryInv, ProxyTypeOK, RetryTypeOK
<1>2. ASSUME NEW s, NEW e, NEW u, Leaves(a, s, e, u)
      PROVE  result'[a].aborted => cancelled[a]
  BY Zenon, <1>1, <1>2 DEF Leaves
<1>3. result'[a].aborted => result[a].aborted \/ cancelled[a]
  <2> DEFINE G == result'[a].aborted => result[a].aborted \/ cancelled[a]
  <2>1. UNCHANGED result \/ UNCHANGED <<running, result>> => G
    OBVIOUS
  <2>2. ASSUME NEW s, NEW u, Leaves(a, s, TRUE, u) PROVE G
    BY Zenon, <1>2, <2>2
  <2>3. ASSUME NEW s, NEW u, Leaves(a, s, FALSE, u) PROVE G
    BY Zenon, <1>2, <2>3
  <2> HIDE DEF G
  <2>4. /\ Leaves(a, 503, TRUE, NoUpstream) => G
        /\ Leaves(a, 502, TRUE, chosen[a]) => G
        /\ Leaves(a, 503, FALSE, chosen[a]) => G
        /\ Leaves(a, 500, FALSE, chosen[a]) => G
        /\ \A s \in Status : Leaves(a, s, FALSE, chosen[a]) => G
    <3>1. Leaves(a, 503, TRUE, NoUpstream) => G
      BY Zenon, <2>2
    <3>2. Leaves(a, 502, TRUE, chosen[a]) => G
      BY Zenon, <2>2
    <3>3. \A s : Leaves(a, s, FALSE, chosen[a]) => G
      BY Zenon, <2>3
    <3> QED
      BY ZenonT(30), <3>1, <3>2, <3>3
  <2>5. G
    BY <2>1, <2>4, ZenonT(30) DEF AttemptStep
  <2> QED
    BY ZenonT(30), <2>5 DEF G
<1>4. \/ cancelled' = cancelled
      \/ cancelled' = [cancelled EXCEPT ![a] = FALSE]
      \/ cancelled' = [cancelled EXCEPT ![a] = CtxEnded(a)]
  BY ZenonT(30) DEF AttemptStep, PickNone, Pick, Refused, Admitted, HandshakeFails, CountInFlight,
         RoundTripFails, RoundTripAnswers, Finish, Returns, attemptVars
<1> QED
  BY Zenon, <1>1, <1>3, <1>4

\* Every step keeps AbortInv: a handler that has cut an attempt off never takes
\* it back, and the ends of contexts come from nowhere else.
LEMMA AbortStep == RetryInv /\ AbortInv /\ [RetryNext]_allVars => AbortInv'
<1> SUFFICES ASSUME RetryInv, AbortInv, [RetryNext]_allVars,
                    NEW r \in Requests, NEW i \in 1..MaxAttempts,
                    cancelled'[<<r, i>>] \/ result'[<<r, i>>].aborted
             PROVE  CutOff(req'[r], i)
  BY Zenon DEF AbortInv
<1> DEFINE x == <<r, i>>
<1>1. /\ x \in Attempts /\ x[1] = r /\ x[2] = i
      /\ cancelled \in [Attempts -> BOOLEAN] /\ req \in [Requests -> Request]
      /\ cancelled[x] \/ result[x].aborted => CutOff(req[r], i)
  BY Zenon, RetryAssumption DEF RetryInv, ProxyTypeOK, RetryTypeOK, AbortInv
<1>2. ASSUME NEW a \in Attempts, AttemptStep(a) PROVE CutOff(req'[r], i)
  <2>1. /\ req' = req
        /\ x # a => result'[x] = result[x] /\ cancelled'[x] = cancelled[x]
    BY <1>1, <1>2, AttemptEffects, AttemptAborts DEF AttemptEffect
  <2>2. CASE x = a
    BY SMTT(30), <1>1, <1>2, <2>1, <2>2, AttemptAborts DEF CtxEnded, CutOff
  <2>3. CASE x # a
    BY ZenonT(30), <1>1, <2>1, <2>3
  <2> QED
    BY ZenonT(30), <2>2, <2>3
<1>3. ASSUME NEW s \in Requests, NEW q, req' = [req EXCEPT ![s] = q],
             \A j \in 1..MaxAttempts : CutOff(req[s], j) => CutOff(q, j),
             cancelled'[x] => cancelled[x] \/ (s = r /\ CutOff(q, i)), result' = result
      PROVE  CutOff(req'[r], i)
  BY <1>1, <1>3
<1>4. ASSUME NEW s \in Requests, NEW max \in {1, MaxAttempts}, ArriveSequential(s, max)
      PROVE  CutOff(req'[r], i)
  <2>1. PICK q : q = [req[s] EXCEPT !.pc = "sequential", !.max = max]
    OBVIOUS
  <2>2. req' = [req EXCEPT ![s] = q] /\ cancelled' = cancelled /\ result' = result
    BY ZenonT(30), <1>1, <1>4, <2>1 DEF ArriveSequential, proxyVars, attemptVars, Request
  <2>3. \A j \in 1..MaxAttempts : CutOff(req[s], j) => CutOff(q, j)
    BY <1>1, <1>4, <2>1 DEF ArriveSequential, CutOff, Request
  <2> QED
    BY Zenon, <1>3, <2>2, <2>3
<1>5. ASSUME NEW s \in Requests, ArriveHedged(s) PROVE CutOff(req'[r], i)
  <2>1. PICK q : q = [req[s] EXCEPT !.pc = "primary"]
    BY Zenon
  <2>2. req' = [req EXCEPT ![s] = q] /\ cancelled' = cancelled /\ result' = result
    BY <1>1, <1>5, <2>1 DEF ArriveHedged, proxyVars, attemptVars, Request
  <2>3. \A j \in 1..MaxAttempts : CutOff(req[s], j) => CutOff(q, j)
    BY SMTT(30), <1>1, <1>5, <2>1 DEF ArriveHedged, CutOff, Request
  <2> QED
    BY Zenon, <1>3, <2>2, <2>3
<1>6. ASSUME NEW s \in Requests, PrimaryInTime(s) \/ Drained(s) PROVE CutOff(req'[r], i)
  <2>1. PICK q : q = [req[s] EXCEPT !.pc = "answered"]
    BY Zenon
  <2>2. req' = [req EXCEPT ![s] = q] /\ cancelled' = cancelled /\ result' = result
    BY ZenonT(30), <1>1, <1>6, <2>1 DEF PrimaryInTime, Drained, proxyVars, attemptVars, Request
  <2>3. \A j \in 1..MaxAttempts : CutOff(req[s], j) => CutOff(q, j)
    BY ZenonT(30), <1>1, <2>1 DEF CutOff, Request
  <2> QED
    BY Zenon, <1>3, <2>2, <2>3
<1>7. ASSUME NEW s \in Requests, HedgeFires(s) PROVE CutOff(req'[r], i)
  <2>1. PICK q : q = [req[s] EXCEPT !.pc = "racing"]
    BY Zenon
  <2>2. req' = [req EXCEPT ![s] = q] /\ cancelled' = cancelled /\ result' = result
    BY <1>1, <1>7, <2>1 DEF HedgeFires, proxyVars, attemptVars, Request
  <2>3. \A j \in 1..MaxAttempts : CutOff(req[s], j) => CutOff(q, j)
    BY <1>1, <1>7, <2>1 DEF HedgeFires, CutOff, Request
  <2> QED
    BY Zenon, <1>3, <2>2, <2>3
<1>8. ASSUME NEW s \in Requests, NEW k \in 1..2, Wins(s, k) PROVE CutOff(req'[r], i)
  <2>1. PICK q : q = [req[s] EXCEPT !.pc = "draining", !.winner = k]
    OBVIOUS
  <2>2. req' = [req EXCEPT ![s] = q] /\ result' = result /\ req[s].pc = "racing"
    BY Zenon, <1>1, <1>8, <2>1 DEF Wins, Request
  <2>3. q.pc = "draining" /\ q.winner = k /\ q.gone = req[s].gone
    BY Zenon, <1>1, <2>1 DEF Request
  <2>4. \A j \in 1..MaxAttempts : CutOff(req[s], j) => CutOff(q, j)
    BY Zenon, <2>2, <2>3 DEF CutOff
  <2>5. cancelled'[x] => cancelled[x] \/ x = <<s, 3 - k>>
    BY Zenon, <1>1, <1>8 DEF Wins, Cancel, proxyVars, attemptVars
  <2>6. x = <<s, 3 - k>> => s = r /\ CutOff(q, i)
    <3>1. x = <<s, 3 - k>> => s = r /\ i = 3 - k
      OBVIOUS
    <3>2. 3 - k # k
      OBVIOUS
    <3> QED
      BY Zenon, <2>3, <3>1, <3>2 DEF CutOff
  <2> QED
    BY Zenon, <1>3, <2>2, <2>4, <2>5, <2>6
<1>9. ASSUME NEW s \in Requests, ClientGone(s) PROVE CutOff(req'[r], i)
  <2>1. PICK q : q = [req[s] EXCEPT !.gone = TRUE]
    BY Zenon
  <2>2. req' = [req EXCEPT ![s] = q] /\ result' = result
    BY Zenon, <1>1, <1>9, <2>1 DEF ClientGone, Request
  <2>3. q.gone
    BY <1>1, <2>1 DEF Request
  <2>4. \A j \in 1..MaxAttempts : CutOff(q, j)
    BY <2>3 DEF CutOff
  <2>5. cancelled'[x] => cancelled[x] \/ s = r
    BY Zenon, <1>1, <1>9 DEF ClientGone, Cancel
  <2> QED
    BY Zenon, <1>3, <2>2, <2>4, <2>5
<1>10. ASSUME NEW s \in Requests, SequentialNext(s) PROVE CutOff(req'[r], i)
  <2>1. /\ req[s].pc = "sequential" /\ cancelled' = cancelled /\ result' = result
    BY Zenon, <1>10 DEF SequentialNext, proxyVars, attemptVars
  <2>2. PICK q : /\ req' = [req EXCEPT ![s] = q] /\ q.gone = req[s].gone
    <3>1. CASE req' = [req EXCEPT ![s].pc = "answered", ![s].winner = req[s].n]
      <4>1. req' = [req EXCEPT ![s] = [req[s] EXCEPT !.pc = "answered", !.winner = req[s].n]]
        BY Zenon, <1>1, <3>1 DEF Request
      <4>2. [req[s] EXCEPT !.pc = "answered", !.winner = req[s].n].gone = req[s].gone
        BY <1>1 DEF Request
      <4> QED
        BY Zenon, <4>1, <4>2
    <3>2. CASE req' = [req EXCEPT ![s].n = @ + 1, ![s].exclude =
                         @ \cup ({result[<<s, req[s].n>>].chosen} \ {NoUpstream})]
      <4> DEFINE E == req[s].exclude \cup ({result[<<s, req[s].n>>].chosen} \ {NoUpstream})
      <4>1. req' = [req EXCEPT ![s] = [req[s] EXCEPT !.n = req[s].n + 1, !.exclude = E]]
        BY Zenon, <1>1, <3>2 DEF Request
      <4>2. [req[s] EXCEPT !.n = req[s].n + 1, !.exclude = E].gone = req[s].gone
        BY Zenon, <1>1 DEF Request
      <4> QED
        BY Zenon, <4>1, <4>2
    <3> QED
      BY Zenon, <1>10, <3>1, <3>2 DEF SequentialNext
  <2>3. \A j \in 1..MaxAttempts : CutOff(req[s], j) => CutOff(q, j)
    BY Zenon, <2>1, <2>2 DEF CutOff
  <2> QED
    BY Zenon, <1>3, <2>1, <2>2, <2>3
<1>11. ASSUME UNCHANGED <<retryVars, cancelled>> PROVE CutOff(req'[r], i)
  BY Zenon, <1>1, <1>11 DEF retryVars
<1>12. CASE UNCHANGED allVars
  BY Zenon, <1>11, <1>12 DEF allVars, proxyVars, attemptVars
<1>13. CASE (Tick \/ \E u \in Upstreams : HealthFlips(u)) /\ UNCHANGED retryVars
  BY Zenon, <1>11, <1>13 DEF Tick, HealthFlips, attemptVars
<1> QED
  BY SMTT(30), <1>2, <1>4, <1>5, <1>6, <1>7, <1>8, <1>9, <1>10, <1>12, <1>13 DEF RetryNext, Handler

\* A client that waits for its answer never gets the remains of an attempt the
\* middleware cut off (AnswerNotAborted), however the attempts of a hedged pair,
\* their cancellation and their results interleave.
THEOREM WaitingClientGetsAnAnswer == RetrySpec => []AnswerNotAborted
<1>1. RetryInit => AbortInv
  BY RetryAssumption DEF RetryInit, ProxyInit, AbortInv
<1>2. RetryInv /\ AbortInv => AnswerNotAborted
  <2> SUFFICES ASSUME RetryInv, AbortInv, NEW r \in Requests, req[r].pc = "answered",
                      result[<<r, req[r].winner>>].aborted
               PROVE  req[r].gone
    BY DEF AnswerNotAborted
  <2>1. req[r].winner \in 1..MaxAttempts
    BY DEF RetryInv, RetryTypeOK, Request
  <2> QED
    BY Zenon, <2>1 DEF AbortInv, CutOff
<1> QED
  BY <1>1, <1>2, RetryInvariant, AbortStep, PTL DEF RetrySpec
=============================================================================
