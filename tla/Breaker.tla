------------------------------- MODULE Breaker -------------------------------
(***************************************************************************)
(* The per-upstream circuit breaker of internal/lb/circuit.go as a data    *)
(* type: a breaker is a record, and every method is an operator from the   *)
(* breaker before the call to the breaker after it.  Each method holds     *)
(* cb.mu from start to end, so a call is one atomic step.                  *)
(*                                                                         *)
(* Time is relative.  In place of openedAt and of a sample's "at" a breaker*)
(* keeps the time elapsed since then (sinceOpened, age), and Elapse adds   *)
(* one unit to each.  The code only ever compares now-openedAt with        *)
(* openDuration <= OpenMax, and now-at with WindowDuration, so both clocks *)
(* saturate at the first value past their last comparison.                 *)
(***************************************************************************)
EXTENDS Integers, Sequences, FiniteSets

CONSTANTS
  FailNum, FailDen,   \* FailureRatio, as the fraction FailNum/FailDen
  MinObservations,
  WindowDuration,
  WindowSize,
  OpenMin,
  OpenMax,
  HalfOpenProbes

\* What DefaultCircuitBreakerConfig, the only configuration main builds
\* breakers with, satisfies.
ASSUME BreakerConfig ==
  /\ FailDen \in Nat \ {0} /\ FailNum \in 1..FailDen
  /\ WindowSize \in Nat \ {0} /\ MinObservations \in 1..WindowSize
  /\ WindowDuration \in Nat \ {0}
  /\ OpenMin \in Nat \ {0} /\ OpenMax \in Nat /\ OpenMin <= OpenMax
  /\ HalfOpenProbes \in Nat \ {0}

BreakerState == {"closed", "open", "half-open"}
BreakerOutcome == {"success", "failure", "cancellation"}

\* An age past the window, and the age at which a sample's clock stops.
StaleAge == WindowDuration + 1

breakerSample == [failure : BOOLEAN, age : 0..StaleAge]

CircuitBreaker ==
  [state           : BreakerState,
   sinceOpened     : 0..OpenMax,
   openDuration    : 0..OpenMax,
   probesAdmitted  : 0..HalfOpenProbes,
   probesSucceeded : 0..HalfOpenProbes,
   samples         : Seq(breakerSample)]

\* Closed, with the zero values of the other fields: openDuration is 0 until
\* the first trip, and the zero openedAt is longer ago than any duration.
NewCircuitBreaker ==
  [state |-> "closed", sinceOpened |-> OpenMax, openDuration |-> 0,
   probesAdmitted |-> 0, probesSucceeded |-> 0, samples |-> <<>>]

-----------------------------------------------------------------------------
\* One unit of wall time passes: cb.now() moves on.
Until(t, limit) == IF t < limit THEN t + 1 ELSE limit

Older(s) ==
  [i \in 1..Len(s) |->
     [failure |-> s[i].failure, age |-> Until(s[i].age, StaleAge)]]

Elapse(b) ==
  [b EXCEPT !.sinceOpened = Until(@, OpenMax), !.samples = Older(@)]

\* Mutant of advanceLocked: the comparison the wrong way round.
advancesEarly(b) ==
  IF b.state = "open" /\ b.sinceOpened < b.openDuration
    THEN [b EXCEPT !.state = "half-open",
                   !.probesAdmitted = 0, !.probesSucceeded = 0]
    ELSE b

advanceLocked(b) ==
  IF b.state = "open" /\ b.sinceOpened >= b.openDuration
    THEN [b EXCEPT !.state = "half-open",
                   !.probesAdmitted = 0, !.probesSucceeded = 0]
    ELSE b

\* Mutant of trimWindowLocked: a sample exactly WindowDuration old is dropped.
trimTooEarly(s) ==
  LET dropped == {i \in 1..Len(s) : \A j \in 1..i : s[j].age >= WindowDuration}
      kept == SubSeq(s, Cardinality(dropped) + 1, Len(s))
  IN  IF Len(kept) > WindowSize
        THEN SubSeq(kept, Len(kept) - WindowSize + 1, Len(kept)) ELSE kept

\* The leading stale samples go first, then all but the last WindowSize.
trimWindowLocked(s) ==
  LET dropped == {i \in 1..Len(s) : \A j \in 1..i : s[j].age = StaleAge}
      first == IF Len(s) - Cardinality(dropped) > WindowSize
                 THEN Len(s) - WindowSize + 1
                 ELSE Cardinality(dropped) + 1
  IN  SubSeq(s, first, Len(s))

\* Mutant of shouldTripLocked: trips when the ratio is reached, not exceeded.
tripsAtRatio(s) ==
  /\ Len(s) >= MinObservations
  /\ FailDen * Cardinality({i \in 1..Len(s) : s[i].failure}) >= FailNum * Len(s)

shouldTripLocked(s) ==
  /\ Len(s) >= MinObservations
  /\ FailDen * Cardinality({i \in 1..Len(s) : s[i].failure}) > FailNum * Len(s)

\* Record in Closed: the sample enters the window, which may trip the breaker.
RecordClosed(b, isFailure) ==
  LET s == trimWindowLocked(Append(b.samples, [failure |-> isFailure, age |-> 0]))
  IN  IF shouldTripLocked(s)
        THEN [b EXCEPT !.openDuration = OpenMin, !.sinceOpened = 0,
                       !.state = "open", !.samples = <<>>]
        ELSE [b EXCEPT !.samples = s]

\* Mutants of RecordHalfOpen: re-opening forgets to reset the probe counters;
\* one success too many to close.
reopenKeepsCounters(b, isFailure) ==
  IF isFailure
    THEN [b EXCEPT !.openDuration = IF 2 * @ > OpenMax THEN OpenMax ELSE 2 * @,
                   !.sinceOpened = 0, !.state = "open"]
  ELSE IF b.probesSucceeded + 1 >= HalfOpenProbes
    THEN [b EXCEPT !.state = "closed", !.openDuration = OpenMin,
                   !.probesAdmitted = 0, !.probesSucceeded = 0,
                   !.samples = <<>>]
  ELSE [b EXCEPT !.probesSucceeded = @ + 1]

closesLate(b, isFailure) ==
  IF isFailure
    THEN [b EXCEPT !.openDuration = IF 2 * @ > OpenMax THEN OpenMax ELSE 2 * @,
                   !.sinceOpened = 0, !.state = "open",
                   !.probesAdmitted = 0, !.probesSucceeded = 0]
  ELSE IF b.probesSucceeded >= HalfOpenProbes
    THEN [b EXCEPT !.state = "closed", !.openDuration = OpenMin,
                   !.probesAdmitted = 0, !.probesSucceeded = 0,
                   !.samples = <<>>]
  ELSE [b EXCEPT !.probesSucceeded = @ + 1]

\* Record in HalfOpen: a failure re-opens for twice as long, up to OpenMax;
\* the HalfOpenProbes-th success closes.
RecordHalfOpen(b, isFailure) ==
  IF isFailure
    THEN [b EXCEPT !.openDuration = IF 2 * @ > OpenMax THEN OpenMax ELSE 2 * @,
                   !.sinceOpened = 0, !.state = "open",
                   !.probesAdmitted = 0, !.probesSucceeded = 0]
  ELSE IF b.probesSucceeded + 1 >= HalfOpenProbes
    THEN [b EXCEPT !.state = "closed", !.openDuration = OpenMin,
                   !.probesAdmitted = 0, !.probesSucceeded = 0,
                   !.samples = <<>>]
  ELSE [b EXCEPT !.probesSucceeded = @ + 1]

Record(b, outcome) ==
  LET a == advanceLocked(b)
      isFailure == outcome = "failure"
  IN  IF outcome = "cancellation" THEN b
      ELSE IF a.state = "closed" THEN RecordClosed(a, isFailure)
      ELSE IF a.state = "half-open" THEN RecordHalfOpen(a, isFailure)
      ELSE a

\* Mutant of Admits: no limit on the probes.
admitsAnyHalfOpen(b) == advanceLocked(b).state # "open"

\* Does Reserve admit the selection, and the breaker it leaves behind.
Admits(b) ==
  LET a == advanceLocked(b)
  IN  \/ a.state = "closed"
      \/ a.state = "half-open" /\ a.probesAdmitted < HalfOpenProbes

Reserve(b) ==
  LET a == advanceLocked(b)
  IN  IF a.state = "half-open" /\ a.probesAdmitted < HalfOpenProbes
        THEN [a EXCEPT !.probesAdmitted = @ + 1]
        ELSE a

RemainingOpen(b) ==
  IF b.state = "open" /\ b.sinceOpened < b.openDuration
    THEN b.openDuration - b.sinceOpened
    ELSE 0
=============================================================================
