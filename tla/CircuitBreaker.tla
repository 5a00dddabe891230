--------------------------- MODULE CircuitBreaker ---------------------------
(***************************************************************************)
(* One circuit breaker under every sequence of method calls its users can  *)
(* make: State from the selectors, Reserve and Record from the proxies, in *)
(* any order and number, with time passing in between.                     *)
(*                                                                         *)
(* history is not part of the program: it remembers every outcome recorded *)
(* since the breaker last became closed, so that what the breaker does with*)
(* its trimmed window can be compared with the policy's definition.        *)
(***************************************************************************)
EXTENDS Breaker

CONSTANT MaxHistory   \* bound on the outcomes recorded in one closed phase

ASSUME MaxHistoryAssumption == MaxHistory \in Nat

VARIABLES cb, history

vars == <<cb, history>>

Init == cb = NewCircuitBreaker /\ history = <<>>

CallState ==
  /\ cb' = advanceLocked(cb)
  /\ UNCHANGED history

CallReserve ==
  /\ cb' = Reserve(cb)
  /\ UNCHANGED history

CallRecord(outcome) ==
  /\ cb.state = "closed" => Len(history) < MaxHistory
  /\ cb' = Record(cb, outcome)
  /\ history' = IF cb.state = "closed" /\ cb'.state = "closed"
                    /\ outcome # "cancellation"
                  THEN Append(history, [failure |-> outcome = "failure", age |-> 0])
                ELSE IF cb'.state = cb.state THEN history
                ELSE <<>>

ClockTicks ==
  /\ cb' = Elapse(cb)
  /\ history' = Older(history)

Next ==
  \/ CallState
  \/ CallReserve
  \/ \E outcome \in BreakerOutcome : CallRecord(outcome)
  \/ ClockTicks

Spec == Init /\ [][Next]_vars

-----------------------------------------------------------------------------
\* The fields of the breaker keep their ranges: in particular the probe
\* counters never pass HalfOpenProbes, the open duration never passes OpenMax
\* and the sample slice never passes WindowSize (Record trims after append).
TypeOK ==
  /\ cb \in CircuitBreaker
  /\ Len(cb.samples) <= WindowSize
  /\ history \in Seq(breakerSample)

\* Each phase starts clean: no sample survives from before a trip into the
\* closed phase that follows it, no probe is counted outside half-open, and an
\* opening lasts at least OpenMin, which is what the resets scattered over
\* advanceLocked and the branches of Record are for.
PhasesStartClean ==
  /\ cb.state # "closed" =>
       cb.samples = <<>> /\ history = <<>> /\ cb.openDuration >= OpenMin
  /\ cb.state # "half-open" => cb.probesAdmitted = 0 /\ cb.probesSucceeded = 0

\* s is the tail of h from which only what is outside the window is missing.
WindowOf(s, h) ==
  LET d == Len(h) - Len(s)
  IN  /\ d >= 0
      /\ \A i \in 1..Len(s) : s[i] = h[d + i]
      /\ \A i \in 1..d : h[i].age = StaleAge \/ i <= Len(h) - WindowSize
      /\ \A i, j \in 1..Len(h) : i < j => h[i].age >= h[j].age

\* The trimmed slice is the tail of the history, it is ordered from the oldest
\* sample to the newest, and a sample that was dropped is outside the policy's
\* window for good: nothing the trip decision needs is ever thrown away.
WindowIsTailOfHistory == WindowOf(cb.samples, history)

-----------------------------------------------------------------------------
\* The breaker implements its policy: the state callers are told is the
\* policy's mode, whoever calls first after the open period is over.
Effective == advanceLocked(cb)

Policy == INSTANCE BreakerPolicy WITH
  mode      <- Effective.state,
  outcomes  <- history,
  period    <- IF Effective.state = "closed" THEN 0 ELSE Effective.openDuration,
  remaining <- RemainingOpen(cb),
  admitted  <- Effective.probesAdmitted,
  passed    <- Effective.probesSucceeded

\* Every behaviour of circuit.go's lazy, trimming breaker is a behaviour of
\* the policy, in which time alone ends an opening and a trip is decided on
\* the whole history.
ImplementsPolicy == Policy!PolicySpec
=============================================================================
