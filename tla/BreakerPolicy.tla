---------------------------- MODULE BreakerPolicy ----------------------------
(***************************************************************************)
(* What the circuit breaker promises its callers (README.md, "Circuit      *)
(* breaker", and the comments of CircuitBreakerConfig), without how it is  *)
(* kept.  Three things differ from internal/lb/circuit.go.  Open turns     *)
(* into half-open by the passing of time alone, where the code waits for   *)
(* the next call to notice.  The whole history of outcomes since the       *)
(* breaker closed is kept, and the window is defined on it as the          *)
(* intersection of "the most recent WindowSize" and "within                *)
(* WindowDuration", where the code trims a slice as it goes.  And the      *)
(* counters of a phase exist only in that phase.                           *)
(***************************************************************************)
EXTENDS Breaker

VARIABLES
  mode,       \* closed, open or half-open
  outcomes,   \* closed: every outcome since the breaker closed, with its age
  period,     \* open, half-open: how long this opening lasts
  remaining,  \* open: time left before probes are admitted
  admitted,   \* half-open: probes admitted
  passed      \* half-open: probes that succeeded

policyVars == <<mode, outcomes, period, remaining, admitted, passed>>

PolicyInit ==
  /\ mode = "closed" /\ outcomes = <<>>
  /\ period = 0 /\ remaining = 0 /\ admitted = 0 /\ passed = 0

\* The window, as the set of positions of the history that are in it.
InWindow(h) ==
  {i \in 1..Len(h) : i > Len(h) - WindowSize /\ h[i].age <= WindowDuration}

TooManyFailures(h) ==
  LET w == InWindow(h)
      failed == {i \in w : h[i].failure}
  IN  /\ Cardinality(w) >= MinObservations
      /\ FailDen * Cardinality(failed) > FailNum * Cardinality(w)

\* Open for p units of time, with nothing remembered of earlier phases.
BecomeOpen(p) ==
  /\ mode' = "open" /\ outcomes' = <<>>
  /\ period' = p /\ remaining' = p
  /\ admitted' = 0 /\ passed' = 0

BecomeClosed ==
  /\ mode' = "closed" /\ outcomes' = <<>>
  /\ period' = 0 /\ remaining' = 0 /\ admitted' = 0 /\ passed' = 0

TimePasses ==
  /\ outcomes' = Older(outcomes)
  /\ remaining' = IF remaining > 0 THEN remaining - 1 ELSE 0
  /\ mode' = IF mode = "open" /\ remaining' = 0 THEN "half-open" ELSE mode
  /\ UNCHANGED <<period, admitted, passed>>

ObserveClosed(failed) ==
  LET h == Append(outcomes, [failure |-> failed, age |-> 0])
  IN  /\ mode = "closed"
      /\ IF TooManyFailures(h)
           THEN BecomeOpen(OpenMin)
           ELSE /\ outcomes' = h
                /\ UNCHANGED <<mode, period, remaining, admitted, passed>>

ProbeFails ==
  /\ mode = "half-open"
  /\ BecomeOpen(IF 2 * period > OpenMax THEN OpenMax ELSE 2 * period)

ProbePasses ==
  /\ mode = "half-open"
  /\ IF passed + 1 >= HalfOpenProbes
       THEN BecomeClosed
       ELSE /\ passed' = passed + 1
            /\ UNCHANGED <<mode, outcomes, period, remaining, admitted>>

AdmitProbe ==
  /\ mode = "half-open" /\ admitted < HalfOpenProbes
  /\ admitted' = admitted + 1
  /\ UNCHANGED <<mode, outcomes, period, remaining, passed>>

PolicyNext ==
  \/ TimePasses
  \/ \E failed \in BOOLEAN : ObserveClosed(failed)
  \/ ProbeFails
  \/ ProbePasses
  \/ AdmitProbe

PolicySpec == PolicyInit /\ [][PolicyNext]_policyVars
=============================================================================
