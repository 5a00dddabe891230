-------------------------------- MODULE Retry --------------------------------
(***************************************************************************)
(* The retry middleware (internal/middleware/retry.go) in front of the     *)
(* upstream proxy: requests that are tried one upstream after another      *)
(* (serveSequential), and requests whose slow first attempt is raced by a  *)
(* hedge (serveHedged).  Attempt <<r, n>> is the n-th dispatch for request *)
(* r; its steps are those of UpstreamProxy, and this module adds what the  *)
(* middleware sees of them: the status in the buffered response and the    *)
(* AttemptOutcome.                                                         *)
(***************************************************************************)
EXTENDS UpstreamProxy

CONSTANTS
  Requests,
  MaxAttempts,
  RetryOn       \* the retryable statuses

Status == {200, 500, 502, 503}

ASSUME RetryAssumption ==
  /\ MaxAttempts \in Nat \ {0} /\ RetryOn \subseteq Status
  /\ Attempts = Requests \X (1..MaxAttempts)
  /\ Kinds # {"tcp"} /\ MayCancel

VARIABLES
  req,       \* each request's handler: where it is, and its locals
  running,   \* has dispatch been called, and has it returned, per attempt
  result     \* attemptResult: the status, and outcome's Chosen and Err

retryVars == <<req, running, result>>

RequestPC == {"new", "sequential", "primary", "racing", "draining", "answered"}

Request == [pc : RequestPC, n : 1..MaxAttempts, max : 1..MaxAttempts,
            exclude : SUBSET Upstreams,
            gone : BOOLEAN,             \* the request's own context has ended
            winner : 1..MaxAttempts]

\* aborted is not in the program: the proxy saw the attempt's context ended.
Result == [status : Status, err : BOOLEAN, chosen : Upstreams \cup {NoUpstream},
           aborted : BOOLEAN]

RetryInit ==
  /\ ProxyInit
  /\ req = [r \in Requests |-> [pc |-> "new", n |-> 1, max |-> 1, exclude |-> {},
                                gone |-> FALSE, winner |-> 1]]
  /\ running = [a \in Attempts |-> "no"]
  /\ result = [a \in Attempts |-> [status |-> 200, err |-> FALSE,
                                   chosen |-> NoUpstream, aborted |-> FALSE]]

-----------------------------------------------------------------------------
\* dispatch is called, and dispatch returns with the proxy's handler.
Dispatch(a) == running' = [running EXCEPT ![a] = "yes"]
Returned(a) == running' = [running EXCEPT ![a] = "returned"]

\* What the proxy left in the buffered response and in outcome.
Leaves(a, status, err, u) ==
  result' = [result EXCEPT ![a] =
    [status |-> status, err |-> err, chosen |-> u, aborted |-> err /\ cancelled[a]]]

\* Mutant of Excluded: the list is not passed on.
excludesNone(a) == {}

\* The hint of the attempt: what serveSequential has collected so far, and
\* nothing for the two attempts of serveHedged.
Excluded(a) == req[a[1]].exclude

\* Has the attempt's context ended: the request's, or that of a hedged pair's
\* loser.
CtxEnded(a) ==
  \/ req[a[1]].gone
  \/ req[a[1]].pc = "draining" /\ a[2] # req[a[1]].winner

\* The steps of the proxy on behalf of a dispatched attempt.
AttemptStep(a) ==
  /\ running[a] = "yes"
  /\ UNCHANGED req
  /\ \/ /\ PickNone(a, Excluded(a))
        /\ Leaves(a, 503, TRUE, NoUpstream) /\ Returned(a)
     \/ /\ \E u \in Upstreams : Pick(a, u, Excluded(a), CtxEnded(a))
        /\ UNCHANGED <<running, result>>
     \/ Refused(a) /\ Leaves(a, 503, FALSE, chosen[a]) /\ Returned(a)
     \/ "http" \in Kinds /\ Admitted(a, "reserved") /\ UNCHANGED <<running, result>>
     \/ "websocket" \in Kinds /\ Admitted(a, "handshake") /\ UNCHANGED <<running, result>>
     \/ HandshakeFails(a) /\ Leaves(a, 500, FALSE, chosen[a]) /\ Returned(a)
     \/ CountInFlight(a) /\ UNCHANGED <<running, result>>
     \/ /\ \E f \in BOOLEAN : RoundTripFails(a, f)
        /\ Leaves(a, 502, TRUE, chosen[a]) /\ UNCHANGED running
     \/ /\ \E status \in Status :
             RoundTripAnswers(a, status >= 500) /\ Leaves(a, status, FALSE, chosen[a])
        /\ UNCHANGED running
     \/ Finish(a) /\ Returned(a) /\ UNCHANGED result

-----------------------------------------------------------------------------
\* A request for which a retry is allowed (max = MaxAttempts) or not (max = 1).
ArriveSequential(r, max) ==
  /\ req[r].pc = "new"
  /\ req' = [req EXCEPT ![r].pc = "sequential", ![r].max = max]
  /\ Dispatch(<<r, 1>>)
  /\ UNCHANGED <<proxyVars, result>>

ArriveHedged(r) ==
  /\ req[r].pc = "new" /\ MaxAttempts >= 2
  /\ req' = [req EXCEPT ![r].pc = "primary"]
  /\ Dispatch(<<r, 1>>)
  /\ UNCHANGED <<proxyVars, result>>

shouldRetry(res) == res.err \/ res.status \in RetryOn

\* Mutant of SequentialNext: the last attempt's result is only used when it is
\* a good one.
dropsLastResult(r) ==
  LET a == <<r, req[r].n>>
  IN  /\ req[r].pc = "sequential" /\ running[a] = "returned"
      /\ IF ~ shouldRetry(result[a])
           THEN /\ req' = [req EXCEPT ![r].pc = "answered", ![r].winner = req[r].n]
                /\ UNCHANGED running
           ELSE /\ req[r].n < req[r].max
                /\ req' = [req EXCEPT ![r].n = @ + 1,
                             ![r].exclude = @ \cup ({result[a].chosen} \ {NoUpstream})]
                /\ Dispatch(<<r, req[r].n + 1>>)
      /\ UNCHANGED <<proxyVars, result>>

\* serveSequential gets a result back: the last one is the answer, and so is
\* one that is not to be retried; else the next attempt avoids this upstream.
SequentialNext(r) ==
  LET a == <<r, req[r].n>>
      last == req[r].n = req[r].max \/ ~ shouldRetry(result[a])
  IN  /\ req[r].pc = "sequential" /\ running[a] = "returned"
      /\ IF last
           THEN /\ req' = [req EXCEPT ![r].pc = "answered", ![r].winner = req[r].n]
                /\ UNCHANGED running
           ELSE /\ req' = [req EXCEPT ![r].n = @ + 1,
                             ![r].exclude = @ \cup ({result[a].chosen} \ {NoUpstream})]
                /\ Dispatch(<<r, req[r].n + 1>>)
      /\ UNCHANGED <<proxyVars, result>>

\* serveHedged: the primary returns before the timer is noticed.
PrimaryInTime(r) ==
  /\ req[r].pc = "primary" /\ running[<<r, 1>>] = "returned"
  /\ req' = [req EXCEPT ![r].pc = "answered"]
  /\ UNCHANGED <<proxyVars, running, result>>

HedgeFires(r) ==
  /\ req[r].pc = "primary"
  /\ req' = [req EXCEPT ![r].pc = "racing"]
  /\ Dispatch(<<r, 2>>)
  /\ UNCHANGED <<proxyVars, result>>

\* The first attempt to return wins, and the context of the other is ended.
Wins(r, i) ==
  LET loser == <<r, 3 - i>>
  IN  /\ req[r].pc = "racing" /\ running[<<r, i>>] = "returned"
      /\ req' = [req EXCEPT ![r].pc = "draining", ![r].winner = i]
      /\ IF Cancellable(loser) THEN Cancel({loser}) ELSE UNCHANGED proxyVars
      /\ UNCHANGED <<running, result>>

\* Mutants of Drained: the loser is not waited for; its response is flushed.
answersAtOnce(r) ==
  /\ req[r].pc = "draining"
  /\ req' = [req EXCEPT ![r].pc = "answered"]
  /\ UNCHANGED <<proxyVars, running, result>>

drainsToLoser(r) ==
  /\ req[r].pc = "draining" /\ running[<<r, 3 - req[r].winner>>] = "returned"
  /\ req' = [req EXCEPT ![r].pc = "answered", ![r].winner = 3 - @]
  /\ UNCHANGED <<proxyVars, running, result>>

\* The loser is drained, and the winner's response flushed.
Drained(r) ==
  /\ req[r].pc = "draining" /\ running[<<r, 3 - req[r].winner>>] = "returned"
  /\ req' = [req EXCEPT ![r].pc = "answered"]
  /\ UNCHANGED <<proxyVars, running, result>>

\* The client goes away, or the route's deadline passes.
ClientGone(r) ==
  LET S == {a \in Attempts : a[1] = r /\ Cancellable(a)}
  IN  /\ MayCancel /\ ~ req[r].gone /\ req[r].pc \notin {"new", "answered"}
      /\ req' = [req EXCEPT ![r].gone = TRUE]
      /\ Cancel(S)
      /\ UNCHANGED <<running, result>>

Handler(r) ==
  \/ SequentialNext(r)
  \/ PrimaryInTime(r)
  \/ HedgeFires(r)
  \/ \E i \in 1..2 : Wins(r, i)
  \/ Drained(r)

RetryNext ==
  \/ \E r \in Requests :
       \/ \E max \in {1, MaxAttempts} : ArriveSequential(r, max)
       \/ ArriveHedged(r)
       \/ Handler(r)
       \/ ClientGone(r)
  \/ \E a \in Attempts : AttemptStep(a)
  \/ \E u \in Upstreams : HealthFlips(u) /\ UNCHANGED retryVars
  \/ Tick /\ UNCHANGED retryVars

allVars == <<proxyVars, retryVars>>

RetrySpec == RetryInit /\ [][RetryNext]_allVars

\* A handler waits only for its attempts and its timer, and an attempt runs to
\* its end: ProxyFairness, attempt by attempt.
FairRetrySpec ==
  /\ RetrySpec
  /\ \A r \in Requests : WF_allVars(Handler(r))
  /\ \A a \in Attempts : WF_allVars(AttemptStep(a))

-----------------------------------------------------------------------------
\* Requests and results keep their types.
RetryTypeOK ==
  /\ req \in [Requests -> Request]
  /\ running \in [Attempts -> {"no", "yes", "returned"}]
  /\ result \in [Attempts -> Result]

\* When a request is answered none of its attempts is still running: the loser
\* of a hedged pair is drained, and holds neither a goroutine nor an InFlight
\* count nor a probe past the answer.
NothingLeftBehind ==
  \A a \in Attempts : req[a[1]].pc = "answered" =>
    running[a] # "yes" /\ pc[a] = "idle"

\* No upstream is tried twice for a request that is retried sequentially, as
\* the Exclude list is for.
RetriesElsewhere ==
  \A r \in Requests : req[r].pc = "sequential" =>
    \A i, j \in 1..MaxAttempts :
      LET a == <<r, i>>
          b == <<r, j>>
      IN  i < j /\ running[a] = "returned" /\ chosen[b] # NoUpstream =>
            chosen[b] # result[a].chosen

\* A request whose own context is alive is never answered with the remains of
\* an attempt that the middleware itself cut off.
AnswerNotAborted ==
  \A r \in Requests :
    req[r].pc = "answered" /\ result[<<r, req[r].winner>>].aborted => req[r].gone

\* Every request is answered: no order of the timer, the attempts' ends and the
\* cancellations leaves serveHedged or serveSequential waiting.
EveryRequestAnswered ==
  \A r \in Requests : req[r].pc # "new" ~> req[r].pc = "answered"

\* The attempts of a retried or hedged request are attempts of the proxy: what
\* is shown of UpstreamProxy holds of it behind this middleware.
ImplementsProxy == ProxySpec
=============================================================================
