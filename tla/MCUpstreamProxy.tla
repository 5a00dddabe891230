--------------------------- MODULE MCUpstreamProxy ---------------------------
EXTENDS UpstreamProxy

\* The steps of an L7 pool whose attempts are not cancelled and whose WebSocket
\* handshakes do not fail, as these lose slots; both are taken behind Retry,
\* and a TCP pool's steps behind L4Listener.
L7Next ==
  \/ \E a \in Attempts :
       \/ PickNone(a, {})
       \/ \E u \in Upstreams : Pick(a, u, {}, FALSE)
       \/ TryAgain(a)
       \/ Refused(a)
       \/ Admitted(a, "reserved") \/ Admitted(a, "handshake")
       \/ CountInFlight(a)
       \/ \E f \in BOOLEAN : RoundTripFails(a, f) \/ RoundTripAnswers(a, f)
       \/ HandshakeAccepted(a) \/ ShuttleStarts(a)
       \/ Finish(a)
  \/ \E u \in Upstreams : HealthFlips(u)
  \/ Tick

FairL7Spec == ProxyInit /\ [][L7Next]_proxyVars /\ ProxyFairness
=============================================================================
