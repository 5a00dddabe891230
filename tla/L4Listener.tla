----------------------------- MODULE L4Listener -----------------------------
(***************************************************************************)
(* A TCP listener (internal/l4/listener.go) in front of a TCP pool: the    *)
(* accept loop of Serve, a goroutine for every connection, which runs      *)
(* ServeConn as an attempt of UpstreamProxy, Shutdown, and the end of the  *)
(* process (serve in cmd/l7rp/main.go), which waits for both.              *)
(*                                                                         *)
(* Between Accept and conns.Add(1) a connection is in nobody's count, and  *)
(* the WaitGroup may be waited for meanwhile.                              *)
(***************************************************************************)
EXTENDS UpstreamProxy

ASSUME ListenerAssumption == Kinds = {"tcp"}

VARIABLES
  conn,      \* each attempt's connection: not there, accepted, counted, served, ending
  accepting, \* is Serve in its loop
  conns,     \* the WaitGroup's counter
  stopping,  \* the flag
  closed,    \* is the socket closed
  shutdown   \* how far Shutdown is, or how it returned; then the process is over

listenerVars == <<conn, accepting, conns, stopping, closed, shutdown>>
l4Vars == <<proxyVars, listenerVars>>

L4Init ==
  /\ ProxyInit
  /\ conn = [a \in Attempts |-> "none"]
  /\ accepting = TRUE /\ conns = 0 /\ stopping = FALSE /\ closed = FALSE
  /\ shutdown = "not called"

Running == shutdown # "exited"
Becomes(a, phase) == conn' = [conn EXCEPT ![a] = phase]
InHand == \E a \in Attempts : conn[a] = "accepted"

-----------------------------------------------------------------------------
\* Serve.  Accept returns a connection.
Accept(a) ==
  /\ Running /\ accepting /\ ~ InHand /\ ~ closed /\ conn[a] = "none"
  /\ Becomes(a, "accepted")
  /\ UNCHANGED <<proxyVars, accepting, conns, stopping, closed, shutdown>>

\* Mutant of Dispatch: the goroutine does the counting.
countsLater(a) ==
  /\ Running /\ conn[a] = "accepted"
  /\ Becomes(a, "counted")
  /\ UNCHANGED <<proxyVars, accepting, conns, stopping, closed, shutdown>>

\* conns.Add(1), and the goroutine.
Dispatch(a) ==
  /\ Running /\ conn[a] = "accepted"
  /\ Becomes(a, "counted")
  /\ conns' = conns + 1
  /\ UNCHANGED <<proxyVars, accepting, stopping, closed, shutdown>>

\* Mutant of AcceptFails: a closed socket is an error like any other.
retriesAnyError ==
  /\ Running /\ accepting /\ ~ InHand
  /\ UNCHANGED l4Vars

\* Accept returns an error; Serve goes on unless it is to stop.
AcceptFails ==
  /\ Running /\ accepting /\ ~ InHand
  /\ accepting' = (~ stopping /\ ~ closed)
  /\ UNCHANGED <<proxyVars, conn, conns, stopping, closed, shutdown>>

-----------------------------------------------------------------------------
\* Mutant of Begin: an upstream is dialed whatever its breaker says.
dialsAny(a) ==
  /\ Running /\ conn[a] = "counted"
  /\ breaker' = Scanned
  /\ \E u \in Upstreams : chosen' = [chosen EXCEPT ![a] = u] /\ CountSent(u, Scanned[u])
  /\ GoesTo(a, "dialing") /\ Becomes(a, "served")
  /\ UNCHANGED <<inFlight, eligible, cancelled, probing, earned, blamed>>
  /\ UNCHANGED <<accepting, conns, stopping, closed, shutdown>>

\* ServeConn picks an upstream, or returns.
Begin(a) ==
  /\ Running /\ conn[a] = "counted"
  /\ \/ PickNone(a, {}) /\ Becomes(a, "ending")
     \/ \E u \in Upstreams : PickTCP(a, u) /\ Becomes(a, "served")
  /\ UNCHANGED <<accepting, conns, stopping, closed, shutdown>>

Continue(a) ==
  /\ Running /\ conn[a] = "served"
  /\ DialFails(a) \/ SessionStarts(a) \/ SessionEnds(a) \/ Finish(a)
  /\ conn' = IF pc'[a] = "idle" THEN [conn EXCEPT ![a] = "ending"] ELSE conn
  /\ UNCHANGED <<accepting, conns, stopping, closed, shutdown>>

\* The deferred conns.Done().
ConnDone(a) ==
  /\ Running /\ conn[a] = "ending"
  /\ Becomes(a, "none")
  /\ conns' = conns - 1
  /\ UNCHANGED <<proxyVars, accepting, stopping, closed, shutdown>>

-----------------------------------------------------------------------------
\* Shutdown, up to its Wait.
Stop ==
  /\ shutdown = "not called"
  /\ stopping' = TRUE /\ shutdown' = "closing"
  /\ UNCHANGED <<proxyVars, conn, accepting, conns, closed>>

\* Mutant of CloseSocket: the socket stays open.
onlyFlags ==
  /\ shutdown = "closing"
  /\ shutdown' = "waiting"
  /\ UNCHANGED <<proxyVars, conn, accepting, conns, stopping, closed>>

CloseSocket ==
  /\ shutdown = "closing"
  /\ closed' = TRUE /\ shutdown' = "waiting"
  /\ UNCHANGED <<proxyVars, conn, accepting, conns, stopping>>

WaitReturns ==
  /\ shutdown = "waiting" /\ conns = 0
  /\ shutdown' = "drained"
  /\ UNCHANGED <<proxyVars, conn, accepting, conns, stopping, closed>>

DeadlinePasses ==
  /\ shutdown = "waiting"
  /\ shutdown' = "expired"
  /\ UNCHANGED <<proxyVars, conn, accepting, conns, stopping, closed>>

\* listenerWG.Wait() returns, and serve does: the process and what is left of
\* its connections is gone.
Exit ==
  /\ shutdown \in {"drained", "expired"} /\ ~ accepting
  /\ shutdown' = "exited"
  /\ UNCHANGED <<proxyVars, conn, accepting, conns, stopping, closed>>

TickRunning == Running /\ Tick /\ UNCHANGED listenerVars

Over == ~ Running /\ UNCHANGED l4Vars

ServeStep == AcceptFails \/ \E a \in Attempts : Dispatch(a)
ShutdownStep == CloseSocket \/ WaitReturns \/ DeadlinePasses \/ Exit

L4Next ==
  \/ \E a \in Attempts : Accept(a) \/ Begin(a) \/ Continue(a) \/ ConnDone(a)
  \/ ServeStep
  \/ Stop
  \/ ShutdownStep
  \/ TickRunning
  \/ Over

\* The goroutines of Serve and of Shutdown run, and the drain context ends.
\* A session need not.
L4Spec ==
  /\ L4Init /\ [][L4Next]_l4Vars
  /\ WF_l4Vars(ServeStep) /\ WF_l4Vars(ShutdownStep)

-----------------------------------------------------------------------------
\* The listener's fields keep their types, and a connection that is not
\* being served has no attempt.
L4TypeOK ==
  /\ ProxyTypeOK
  /\ conn \in [Attempts -> {"none", "accepted", "counted", "served", "ending"}]
  /\ \A a \in Attempts : pc[a] = "idle" <=> conn[a] # "served"
  /\ accepting \in BOOLEAN /\ stopping \in BOOLEAN /\ closed \in BOOLEAN
  /\ conns = Cardinality({a \in Attempts : conn[a] \in {"counted", "served", "ending"}})
  /\ shutdown \in {"not called", "closing", "waiting", "drained", "expired", "exited"}

\* When Shutdown returns because all connections have finished, at most one
\* has not: the one Accept had returned and Serve had not counted.  The
\* process may end in the middle of that one's session, never of another's
\* (Serve, Shutdown).
AtMostOneSlips ==
  shutdown = "drained" => Cardinality({a \in Attempts : conn[a] # "none"}) <= 1

\* Once Shutdown is called the process ends, though sessions may go on for
\* ever: Accept fails on the closed socket, Serve sees why and returns, and
\* the deadline bounds the wait (Serve, Shutdown, serve).
ShutdownCompletes == stopping ~> shutdown = "exited"

\* The listener's sessions are attempts of UpstreamProxy, and only that: what
\* holds of them there holds behind a listener.
L4ImplementsProxy == ProxySpec
=============================================================================
