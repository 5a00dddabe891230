---------------------------- MODULE BreakerProofs ----------------------------
(***************************************************************************)
(* Lemmas about the methods of Breaker, which the proofs about everything  *)
(* that holds a breaker cite, and the proofs about CircuitBreaker, for     *)
(* every configuration that satisfies BreakerConfig and every bound on the *)
(* history.                                                                *)
(***************************************************************************)
EXTENDS CircuitBreaker, FiniteSetTheorems, TLAPS

USE SMTT(30)

\* Facts about sequences.
LEMMA LenIs ==
  ASSUME NEW S, NEW s \in Seq(S)
  PROVE  Len(s) \in Nat /\ s \in [1..Len(s) -> S] /\ DOMAIN s = 1..Len(s)
OBVIOUS

LEMMA EmptyIs ==
  ASSUME NEW S
  PROVE  <<>> \in Seq(S) /\ Len(<<>>) = 0 /\ \A s \in Seq(S) : s # <<>> => Len(s) \in Nat \ {0}
OBVIOUS

LEMMA AppendIs ==
  ASSUME NEW S, NEW s \in Seq(S), NEW e \in S
  PROVE  /\ Append(s, e) \in Seq(S) /\ Append(s, e) # <<>>
         /\ Len(Append(s, e)) = Len(s) + 1
         /\ \A i \in 1..Len(s) : Append(s, e)[i] = s[i]
         /\ Append(s, e)[Len(s) + 1] = e
OBVIOUS

LEMMA SubSeqIs ==
  ASSUME NEW S, NEW s, NEW m \in Int, NEW n \in Int, \A i \in m..n : s[i] \in S
  PROVE  /\ SubSeq(s, m, n) \in Seq(S)
         /\ Len(SubSeq(s, m, n)) = IF m <= n THEN n - m + 1 ELSE 0
         /\ \A i \in 1..(n - m + 1) : SubSeq(s, m, n)[i] = s[m + i - 1]
OBVIOUS

\* A non-empty set of naturals has a least element.
LEMMA LeastNatural ==
  ASSUME NEW T \in SUBSET Nat, T # {}
  PROVE  \E m \in T : \A n \in T : m <= n
<1>1. PICK m \in T : \A n \in T : ~ (<<n, m>> \in OpToRel(<, Nat))
  BY Zenon, NatLessThanWellFounded, WFMin
<1>2. \A n \in T : ~ (n < m)
  BY Zenon, <1>1 DEF OpToRel
<1> QED
  BY <1>2

\* The stale prefix that trimWindowLocked's loop walks over.
StalePrefix(s) == {i \in 1..Len(s) : \A j \in 1..i : s[j].age = StaleAge}

\* The loop of trimWindowLocked stops at the first sample that is not stale:
\* the positions it walks over are 1..k for some k.
LEMMA StalePrefixIsInterval ==
  ASSUME NEW s \in Seq(breakerSample)
  PROVE  \E k \in 0..Len(s) :
           /\ StalePrefix(s) = 1..k
           /\ Cardinality(StalePrefix(s)) = k
           /\ \A i \in 1..k : s[i].age = StaleAge
           /\ k < Len(s) => s[k + 1].age # StaleAge
<1> DEFINE Stops == {i \in 1..(Len(s) + 1) : i <= Len(s) => s[i].age # StaleAge}
<1>1. Len(s) \in Nat
  BY LenIs
<1>2. Len(s) + 1 \in Stops /\ Stops \in SUBSET Nat
  BY <1>1
<1>3. PICK m \in Stops : \A n \in Stops : m <= n
  BY Zenon, <1>2, LeastNatural
<1>4. m \in 1..(Len(s) + 1) /\ m - 1 \in 0..Len(s)
  BY <1>1
<1>5. \A i \in 1..(m - 1) : s[i].age = StaleAge
  BY <1>1, <1>3, <1>4
<1>6. m - 1 < Len(s) => s[m].age # StaleAge
  BY <1>1, <1>4
<1>7. StalePrefix(s) = 1..(m - 1)
  <2>1. ASSUME NEW i \in 1..(m - 1) PROVE i \in StalePrefix(s)
    BY <1>1, <1>4, <1>5 DEF StalePrefix
  <2>2. ASSUME NEW i \in StalePrefix(s) PROVE i \in 1..(m - 1)
    <3>1. i \in 1..Len(s) /\ \A j \in 1..i : s[j].age = StaleAge
      BY DEF StalePrefix
    <3>2. CASE m <= i
      BY <1>1, <1>4, <1>6, <3>1, <3>2
    <3> QED
      BY <1>1, <1>4, <3>1, <3>2
  <2> QED
    BY Zenon, <2>1, <2>2
<1>8. Cardinality(StalePrefix(s)) = m - 1
  BY <1>1, <1>4, <1>7, FS_Interval
<1> QED
  BY <1>4, <1>5, <1>6, <1>7, <1>8

\* t is what is left of s when its first e samples, each of them stale or too
\* far back, are dropped; unless that is all of s, some sample at or before the
\* first one kept is not stale.
TrimsTo(s, e, t) ==
  /\ t \in Seq(breakerSample)
  /\ Len(t) <= WindowSize
  /\ e \in 0..Len(s)
  /\ Len(t) = Len(s) - e
  /\ \A i \in 1..Len(t) : t[i] = s[e + i]
  /\ \A i \in 1..e : s[i].age = StaleAge \/ i <= Len(s) - WindowSize
  /\ e < Len(s) => \E i \in 1..(e + 1) : s[i].age # StaleAge

\* What trimWindowLocked does to any slice.
LEMMA TrimProperties ==
  ASSUME NEW s \in Seq(breakerSample)
  PROVE  \E e : TrimsTo(s, e, trimWindowLocked(s))
<1> DEFINE t == trimWindowLocked(s)
           k == Cardinality(StalePrefix(s))
           first == IF Len(s) - k > WindowSize THEN Len(s) - WindowSize + 1 ELSE k + 1
<1>1. Len(s) \in Nat /\ \A i \in 1..Len(s) : s[i] \in breakerSample
  BY LenIs
<1>2. WindowSize \in Nat /\ WindowSize > 0
  BY BreakerConfig
<1>3. /\ k \in 0..Len(s)
      /\ \A i \in 1..k : s[i].age = StaleAge
      /\ k < Len(s) => s[k + 1].age # StaleAge
  BY StalePrefixIsInterval
<1>4. first \in 1..(Len(s) + 1) /\ first >= k + 1
  BY <1>1, <1>2, <1>3
<1>5. t = SubSeq(s, first, Len(s))
  BY DEF trimWindowLocked, StalePrefix
<1> HIDE DEF first, k, t
<1>6. \A i \in first..Len(s) : s[i] \in breakerSample
  BY <1>1, <1>4
<1>7. /\ t \in Seq(breakerSample)
      /\ Len(t) = IF first <= Len(s) THEN Len(s) - first + 1 ELSE 0
      /\ \A i \in 1..(Len(s) - first + 1) : t[i] = s[first + i - 1]
  BY <1>1, <1>4, <1>5, <1>6, SubSeqIs
<1> DEFINE e == first - 1
<1>8. e \in 0..Len(s) /\ Len(t) = Len(s) - e
  BY <1>1, <1>4, <1>7
<1>9. Len(t) <= WindowSize
  BY <1>1, <1>2, <1>3, <1>8 DEF first
<1>10. ASSUME NEW i \in 1..Len(t) PROVE t[i] = s[e + i]
  <2>1. e + i = first + i - 1 /\ i \in 1..(Len(s) - first + 1)
    BY <1>1, <1>4, <1>8
  <2> QED
    BY <1>7, <2>1
<1>11. \A i \in 1..e : s[i].age = StaleAge \/ i <= Len(s) - WindowSize
  BY <1>1, <1>2, <1>3 DEF first
<1>12. ASSUME e < Len(s) PROVE \E i \in 1..(e + 1) : s[i].age # StaleAge
  <2>1. k + 1 \in 1..(e + 1) /\ k < Len(s)
    BY <1>1, <1>3, <1>4, <1>12
  <2> QED
    BY <1>3, <2>1
<1>13. TrimsTo(s, e, t)
  BY <1>7, <1>8, <1>9, <1>10, <1>11, <1>12 DEF TrimsTo
<1> QED
  BY <1>13 DEF t

\* The passing of time ages every sample and changes nothing else of a slice.
LEMMA OlderProperties ==
  ASSUME NEW s \in Seq(breakerSample)
  PROVE  /\ Older(s) \in Seq(breakerSample)
         /\ Len(Older(s)) = Len(s)
         /\ \A i \in 1..Len(s) :
              Older(s)[i] = [failure |-> s[i].failure, age |-> Until(s[i].age, StaleAge)]
         /\ \A i \in 1..Len(s) : Older(s)[i].age = Until(s[i].age, StaleAge)
         /\ s = <<>> => Older(s) = <<>>
<1>1. Len(s) \in Nat /\ \A i \in 1..Len(s) : s[i] \in breakerSample
  BY LenIs
<1>2. \A i \in 1..Len(s) :
        [failure |-> s[i].failure, age |-> Until(s[i].age, StaleAge)] \in breakerSample
  BY <1>1, BreakerConfig DEF breakerSample, Until, StaleAge
<1>3. Older(s) \in [1..Len(s) -> breakerSample]
  BY <1>2 DEF Older
<1>4. Older(s) \in Seq(breakerSample) /\ Len(Older(s)) = Len(s)
  BY <1>1, <1>3
<1>5. s = <<>> => Older(s) = <<>>
  BY <1>4, EmptyIs
<1>6. ASSUME NEW i \in 1..Len(s)
      PROVE  /\ Older(s)[i] = [failure |-> s[i].failure, age |-> Until(s[i].age, StaleAge)]
             /\ Older(s)[i].age = Until(s[i].age, StaleAge)
  BY DEF Older
<1> QED
  BY Zenon, <1>4, <1>5, <1>6

\* advanceLocked, which starts every method, keeps a breaker well-formed.
LEMMA AdvanceInv ==
  ASSUME NEW b \in CircuitBreaker
  PROVE  LET a == advanceLocked(b)
         IN  /\ a \in CircuitBreaker
             /\ a.samples = b.samples /\ a.openDuration = b.openDuration
             /\ a.state = b.state \/ (b.state = "open" /\ a.state = "half-open")
             /\ b.state # "open" => a = b
<1> DEFINE a == advanceLocked(b)
<1>1. CASE b.state = "open" /\ b.sinceOpened >= b.openDuration
  <2>1. a = [b EXCEPT !.state = "half-open",
                      !.probesAdmitted = 0, !.probesSucceeded = 0]
    BY <1>1 DEF advanceLocked
  <2>2. 0 \in 0..HalfOpenProbes /\ "half-open" \in BreakerState
    BY BreakerConfig DEF BreakerState
  <2>3. a \in CircuitBreaker
    BY Zenon, <2>1, <2>2 DEF CircuitBreaker
  <2> QED
    BY <1>1, <2>1, <2>3 DEF CircuitBreaker
<1>2. CASE ~ (b.state = "open" /\ b.sinceOpened >= b.openDuration)
  BY <1>2 DEF advanceLocked
<1> QED
  BY <1>1, <1>2

\* advanceLocked does now what the next call would do.
LEMMA AdvanceTwice ==
  ASSUME NEW b \in CircuitBreaker
  PROVE  /\ advanceLocked(advanceLocked(b)) = advanceLocked(b)
         /\ RemainingOpen(advanceLocked(b)) = RemainingOpen(b)
BY BreakerConfig DEF advanceLocked, RemainingOpen, CircuitBreaker

\* A breaker that is not open is what advanceLocked makes of it.
LEMMA NotOpen ==
  ASSUME NEW b, b.state # "open"
  PROVE  advanceLocked(b) = b /\ RemainingOpen(b) = 0
BY DEF advanceLocked, RemainingOpen

-----------------------------------------------------------------------------
\* Which branch of Record runs.
LEMMA RecordCases ==
  ASSUME NEW b \in CircuitBreaker, NEW o \in BreakerOutcome
  PROVE  \/ Record(b, o) = b
         \/ /\ o # "cancellation" /\ b.state = "closed"
            /\ Record(b, o) = RecordClosed(b, o = "failure")
         \/ /\ o # "cancellation" /\ b.state # "closed"
            /\ advanceLocked(b).state = "half-open"
            /\ Record(b, o) = RecordHalfOpen(advanceLocked(b), o = "failure")
<1> DEFINE a == advanceLocked(b)
<1>1. /\ a \in CircuitBreaker
      /\ a.state = b.state \/ (b.state = "open" /\ a.state = "half-open")
      /\ b.state # "open" => a = b
  BY AdvanceInv
<1>2. a.state = "open" => a = b
  BY DEF advanceLocked, CircuitBreaker
<1>3. a.state \in BreakerState
  BY <1>1 DEF CircuitBreaker
<1> QED
  BY <1>1, <1>2, <1>3 DEF Record, BreakerState

SomeFailure(s) == \E i \in 1..Len(s) : s[i].failure

\* shouldTripLocked needs a failed sample to trip on.
LEMMA TripNeedsFailure ==
  ASSUME NEW s \in Seq(breakerSample), shouldTripLocked(s)
  PROVE  SomeFailure(s)
<1> DEFINE F == {i \in 1..Len(s) : s[i].failure}
<1>1. Len(s) \in Nat /\ FailNum \in Nat /\ FailDen \in Nat
  BY LenIs, BreakerConfig
<1>2. SUFFICES ASSUME F = {} PROVE FALSE
  BY DEF SomeFailure
<1>3. Cardinality(F) = 0
  BY Zenon, <1>2, FS_EmptySet
<1>4. FailDen * 0 > FailNum * Len(s)
  BY <1>3 DEF shouldTripLocked
<1>5. FailNum * Len(s) >= 0
  BY <1>1
<1> QED
  BY <1>1, <1>4, <1>5

\* A sample that enters the window and survives trimming was there before, or
\* is the one that entered.
LEMMA TrimKeepsFailures ==
  ASSUME NEW s \in Seq(breakerSample), NEW f \in BOOLEAN
  PROVE  LET t == trimWindowLocked(Append(s, [failure |-> f, age |-> 0]))
         IN  /\ t \in Seq(breakerSample)
             /\ SomeFailure(t) => SomeFailure(s) \/ f
<1> DEFINE x == [failure |-> f, age |-> 0]
           s1 == Append(s, x)
           t == trimWindowLocked(s1)
<1>1. Len(s) \in Nat /\ x \in breakerSample
  BY LenIs, BreakerConfig DEF breakerSample, StaleAge
<1>2. /\ s1 \in Seq(breakerSample) /\ Len(s1) = Len(s) + 1
      /\ \A i \in 1..Len(s) : s1[i] = s[i]
      /\ s1[Len(s) + 1] = x
  BY <1>1, AppendIs
<1> HIDE DEF s1
<1>3. PICK e : TrimsTo(s1, e, t)
  BY <1>2, TrimProperties
<1> HIDE DEF t
<1>4. ASSUME SomeFailure(t) PROVE SomeFailure(s) \/ f
  <2>1. PICK i \in 1..Len(t) : t[i].failure
    BY <1>4 DEF SomeFailure
  <2>2. e + i \in 1..(Len(s) + 1) /\ t[i] = s1[e + i] /\ s1[e + i].failure
    BY <1>1, <1>2, <1>3, <2>1 DEF TrimsTo
  <2>3. CASE e + i = Len(s) + 1
    BY <1>2, <2>2, <2>3
  <2>4. CASE e + i \in 1..Len(s)
    BY <1>2, <2>2, <2>4 DEF SomeFailure
  <2> QED
    BY <1>1, <2>2, <2>3, <2>4
<1> QED
  BY <1>3, <1>4 DEF TrimsTo, t, s1

\* What Record may do to a breaker, whatever it is told.
LEMMA RecordProperties ==
  ASSUME NEW b \in CircuitBreaker, NEW o \in BreakerOutcome
  PROVE  LET r == Record(b, o)
         IN  /\ r \in CircuitBreaker
             /\ o = "cancellation" => r = b
             /\ r.state # "closed" /\ b.state = "closed" =>
                  r.state = "open" /\ (o = "failure" \/ SomeFailure(b.samples))
             /\ SomeFailure(r.samples) => o = "failure" \/ SomeFailure(b.samples)
             /\ r.state = "closed" /\ b.state # "closed" => ~ SomeFailure(r.samples)
             /\ r.state = "half-open" =>
                  \/ b.state = "half-open" /\ r.probesAdmitted = b.probesAdmitted
                  \/ b.state = "open"
<1> DEFINE r == Record(b, o)
           a == advanceLocked(b)
           f == (o = "failure")
<1>1. b.samples \in Seq(breakerSample) /\ f \in BOOLEAN
  BY DEF CircuitBreaker
<1>2. /\ <<>> \in Seq(breakerSample) /\ ~ SomeFailure(<<>>)
      /\ 0 \in 0..OpenMax /\ OpenMin \in 0..OpenMax /\ 0 \in 0..HalfOpenProbes
  BY BreakerConfig DEF SomeFailure
<1>3. o = "cancellation" => r = b
  BY DEF Record
<1>4. CASE r = b
  BY <1>3, <1>4 DEF CircuitBreaker, BreakerState
<1>5. CASE o # "cancellation" /\ b.state = "closed" /\ r = RecordClosed(b, f)
  <2> DEFINE s == trimWindowLocked(Append(b.samples, [failure |-> f, age |-> 0]))
  <2>1. s \in Seq(breakerSample) /\ (SomeFailure(s) => SomeFailure(b.samples) \/ f)
    BY Zenon, <1>1, TrimKeepsFailures
  <2>2. r = IF shouldTripLocked(s)
              THEN [b EXCEPT !.openDuration = OpenMin, !.sinceOpened = 0,
                             !.state = "open", !.samples = <<>>]
              ELSE [b EXCEPT !.samples = s]
    BY <1>5 DEF RecordClosed
  <2> HIDE DEF s, r
  <2>3. CASE shouldTripLocked(s)
    <3>1. r \in CircuitBreaker /\ r.state = "open" /\ r.samples = <<>>
      BY Zenon, <1>2, <2>2, <2>3 DEF CircuitBreaker, BreakerState
    <3>2. o = "failure" \/ SomeFailure(b.samples)
      BY <2>1, <2>3, TripNeedsFailure
    <3> QED
      BY <1>2, <1>3, <1>5, <3>1, <3>2 DEF r
  <2>4. CASE ~ shouldTripLocked(s)
    <3>1. r \in CircuitBreaker /\ r.state = "closed" /\ r.samples = s
      BY <1>5, <2>1, <2>2, <2>4 DEF CircuitBreaker
    <3> QED
      BY <1>3, <1>5, <2>1, <3>1 DEF r
  <2> QED
    BY <2>3, <2>4
<1>6. CASE /\ o # "cancellation" /\ b.state # "closed" /\ a.state = "half-open"
           /\ r = RecordHalfOpen(a, f)
  <2>1. /\ a \in CircuitBreaker /\ a.samples = b.samples
        /\ a.state = b.state \/ (b.state = "open" /\ a.state = "half-open")
        /\ b.state # "open" => a = b
    BY AdvanceInv
  <2> DEFINE dur == IF 2 * a.openDuration > OpenMax THEN OpenMax ELSE 2 * a.openDuration
  <2>2. a.openDuration \in Nat /\ OpenMax \in Nat
    BY <2>1, BreakerConfig DEF CircuitBreaker
  <2>3. dur \in 0..OpenMax
    BY <2>2
  <2>4. r = IF f THEN [a EXCEPT !.openDuration = dur, !.sinceOpened = 0, !.state = "open",
                                !.probesAdmitted = 0, !.probesSucceeded = 0]
            ELSE IF a.probesSucceeded + 1 >= HalfOpenProbes
              THEN [a EXCEPT !.state = "closed", !.openDuration = OpenMin,
                             !.probesAdmitted = 0, !.probesSucceeded = 0, !.samples = <<>>]
            ELSE [a EXCEPT !.probesSucceeded = @ + 1]
    BY <1>6 DEF RecordHalfOpen
  <2> HIDE DEF dur, r, a
  <2>5. CASE f
    <3>1. r \in CircuitBreaker /\ r.state = "open" /\ r.samples = b.samples
      BY Zenon, <1>2, <2>1, <2>3, <2>4, <2>5 DEF CircuitBreaker, BreakerState
    <3> QED
      BY <1>3, <1>6, <3>1 DEF r
  <2>6. CASE ~ f /\ a.probesSucceeded + 1 >= HalfOpenProbes
    <3>1. r \in CircuitBreaker /\ r.state = "closed" /\ r.samples = <<>>
      BY Zenon, <1>2, <2>1, <2>4, <2>6 DEF CircuitBreaker, BreakerState
    <3> QED
      BY <1>2, <1>3, <1>6, <3>1 DEF r
  <2>7. CASE ~ f /\ ~ (a.probesSucceeded + 1 >= HalfOpenProbes)
    <3>1. a.probesSucceeded + 1 \in 0..HalfOpenProbes
      BY <2>1, <2>7, BreakerConfig DEF CircuitBreaker
    <3>2. /\ r \in CircuitBreaker /\ r.state = "half-open" /\ r.samples = b.samples
          /\ r.probesAdmitted = a.probesAdmitted
      BY <1>6, <2>1, <2>4, <2>7, <3>1 DEF CircuitBreaker
    <3> QED
      BY Zenon, <1>3, <1>6, <2>1, <3>2 DEF r, CircuitBreaker, BreakerState
  <2> QED
    BY <2>5, <2>6, <2>7
<1> QED
  BY <1>4, <1>5, <1>6, RecordCases

\* A half-open phase starts with every probe slot free, whether State, Reserve
\* or a late Record is what finds the open period over.
LEMMA PhaseStarts ==
  ASSUME NEW b \in CircuitBreaker, b.state = "open"
  PROVE  /\ advanceLocked(b).state = "half-open" => advanceLocked(b).probesAdmitted = 0
         /\ \A o \in BreakerOutcome :
              Record(b, o).state = "half-open" => Record(b, o).probesAdmitted = 0
<1> DEFINE a == advanceLocked(b)
<1>1. a \in CircuitBreaker /\ (a.state = "half-open" => a.probesAdmitted = 0)
  <2>1. a.state = "half-open" => a.probesAdmitted = 0
    BY DEF advanceLocked, CircuitBreaker
  <2> QED
    BY <2>1, AdvanceInv
<1>2. ASSUME NEW o \in BreakerOutcome, Record(b, o).state = "half-open"
      PROVE  Record(b, o).probesAdmitted = 0
  <2>1. Record(b, o) = RecordHalfOpen(a, o = "failure") /\ a.state = "half-open"
    BY <1>2, RecordCases
  <2> HIDE DEF a
  <2>2. RecordHalfOpen(a, o = "failure").state = "half-open" =>
          RecordHalfOpen(a, o = "failure").probesAdmitted = a.probesAdmitted
    BY <1>1 DEF RecordHalfOpen, CircuitBreaker
  <2> QED
    BY <1>1, <1>2, <2>1, <2>2
<1> QED
  BY <1>1, <1>2

\* Reserve takes one slot exactly when it admits a half-open selection.
LEMMA ReserveProperties ==
  ASSUME NEW b \in CircuitBreaker
  PROVE  LET a == advanceLocked(b)
             r == Reserve(b)
         IN  /\ r \in CircuitBreaker
             /\ r.state = a.state /\ r.samples = b.samples
             /\ r.probesAdmitted = IF Admits(b) /\ a.state = "half-open"
                                     THEN a.probesAdmitted + 1 ELSE a.probesAdmitted
<1> DEFINE a == advanceLocked(b)
           r == Reserve(b)
<1>1. a \in CircuitBreaker /\ a.samples = b.samples
  BY AdvanceInv
<1>2. CASE a.state = "half-open" /\ a.probesAdmitted < HalfOpenProbes
  <2>1. r = [a EXCEPT !.probesAdmitted = @ + 1] /\ Admits(b)
    BY <1>2 DEF Reserve, Admits
  <2>2. a.probesAdmitted + 1 \in 0..HalfOpenProbes
    BY <1>1, <1>2, BreakerConfig DEF CircuitBreaker
  <2> HIDE DEF a, r
  <2>3. /\ r \in CircuitBreaker /\ r.state = a.state /\ r.samples = a.samples
        /\ r.probesAdmitted = a.probesAdmitted + 1
    BY Zenon, <1>1, <2>1, <2>2 DEF CircuitBreaker
  <2> QED
    BY <1>1, <1>2, <2>1, <2>3 DEF a, r
<1>3. CASE ~ (a.state = "half-open" /\ a.probesAdmitted < HalfOpenProbes)
  <2>1. r = a /\ ~ (Admits(b) /\ a.state = "half-open")
    BY <1>3 DEF Reserve, Admits
  <2> QED
    BY <1>1, <2>1
<1> QED
  BY <1>2, <1>3

\* The passing of time moves a breaker's clocks and nothing else.
LEMMA ElapseProperties ==
  ASSUME NEW b \in CircuitBreaker
  PROVE  LET r == Elapse(b)
         IN  /\ r \in CircuitBreaker /\ r.state = b.state
             /\ r.probesAdmitted = b.probesAdmitted
             /\ SomeFailure(r.samples) => SomeFailure(b.samples)
<1> DEFINE r == Elapse(b)
<1>1. b.samples \in Seq(breakerSample) /\ Until(b.sinceOpened, OpenMax) \in 0..OpenMax
  BY BreakerConfig DEF CircuitBreaker, Until
<1>2. /\ Older(b.samples) \in Seq(breakerSample) /\ Len(Older(b.samples)) = Len(b.samples)
      /\ \A i \in 1..Len(b.samples) : Older(b.samples)[i].failure = b.samples[i].failure
  <2>1. \A i \in 1..Len(b.samples) : Older(b.samples)[i].failure = b.samples[i].failure
    BY DEF Older
  <2> QED
    BY <1>1, <2>1, OlderProperties
<1>3. r = [b EXCEPT !.sinceOpened = Until(b.sinceOpened, OpenMax), !.samples = Older(b.samples)]
  BY DEF Elapse
<1> HIDE DEF r
<1>4. /\ r \in CircuitBreaker /\ r.state = b.state /\ r.probesAdmitted = b.probesAdmitted
      /\ r.samples = Older(b.samples)
  BY Zenon, <1>1, <1>2, <1>3 DEF CircuitBreaker
<1>5. SomeFailure(r.samples) => SomeFailure(b.samples)
  BY <1>2, <1>4 DEF SomeFailure
<1> QED
  BY <1>4, <1>5 DEF r

-----------------------------------------------------------------------------
\* The breaker under every sequence of calls.

\* The policy's copies of the operators it shares with the breaker.
LEMMA PolicySharesDefinitions ==
  /\ \A S : Policy!Cardinality(S) = Cardinality(S)
  /\ \A s : Policy!Older(s) = Older(s)
<1>1. \A S : Policy!IsFiniteSet(S) = IsFiniteSet(S)
  BY DEF Policy!IsFiniteSet, IsFiniteSet
<1>2. \A S : Policy!Cardinality(S) = Cardinality(S)
  BY <1>1 DEF Policy!Cardinality, Cardinality
<1>3. \A s : Policy!Older(s) = Older(s)
  BY DEF Policy!Older, Older, Policy!Until, Until, Policy!StaleAge, StaleAge
<1> QED
  BY <1>2, <1>3

-----------------------------------------------------------------------------
\* Appending an outcome to the history and to the trimmed slice, and trimming
\* again, keeps the slice the window's tail of the history, and then the
\* slice is exactly the policy's window.
LEMMA WindowAppend ==
  ASSUME NEW s \in Seq(breakerSample), NEW h \in Seq(breakerSample),
         WindowOf(s, h), NEW f \in BOOLEAN
  PROVE  LET x == [failure |-> f, age |-> 0]
             t == trimWindowLocked(Append(s, x))
             h1 == Append(h, x)
         IN  /\ WindowOf(t, h1)
             /\ Policy!InWindow(h1) = ((Len(h1) - Len(t)) + 1)..Len(h1)
<1> DEFINE x == [failure |-> f, age |-> 0]
           s1 == Append(s, x)
           h1 == Append(h, x)
           t == trimWindowLocked(s1)
           d == Len(h) - Len(s)
<1>1. x \in breakerSample
  BY BreakerConfig DEF breakerSample, StaleAge
<1>2. /\ s1 \in Seq(breakerSample) /\ Len(s1) = Len(s) + 1
      /\ \A i \in 1..Len(s) : s1[i] = s[i]
      /\ s1[Len(s) + 1] = x
  BY <1>1, AppendIs
<1>3. /\ h1 \in Seq(breakerSample) /\ Len(h1) = Len(h) + 1
      /\ \A i \in 1..Len(h) : h1[i] = h[i]
      /\ h1[Len(h) + 1] = x
  BY <1>1, AppendIs
<1>4. Len(s) \in Nat /\ Len(h) \in Nat /\ WindowSize \in Nat
  BY LenIs, BreakerConfig
<1>5. /\ d \in Nat
      /\ \A i \in 1..Len(s) : s[i] = h[d + i]
      /\ \A i \in 1..d : h[i].age = StaleAge \/ i <= Len(h) - WindowSize
      /\ \A i, j \in 1..Len(h) : i < j => h[i].age >= h[j].age
  BY <1>4 DEF WindowOf
<1> HIDE DEF x, s1, h1, t, d
<1>6. PICK e : TrimsTo(s1, e, t)
  BY <1>2, TrimProperties DEF t
<1>7. /\ e \in 0..Len(s1)
      /\ Len(t) = Len(s1) - e /\ Len(h1) - Len(t) = d + e
  BY <1>2, <1>3, <1>4, <1>6 DEF d, TrimsTo
<1>8. ASSUME NEW i \in 1..Len(s1) PROVE s1[i] = h1[d + i]
  <2>1. CASE i \in 1..Len(s)
    <3>1. d + i \in 1..Len(h)
      BY <1>4, <1>5, <2>1 DEF d
    <3> QED
      BY <1>2, <1>3, <1>5, <2>1, <3>1
  <2>2. CASE i = Len(s) + 1
    <3>1. d + i = Len(h) + 1
      BY <1>4, <2>2 DEF d
    <3> QED
      BY <1>2, <1>3, <2>2, <3>1
  <2> QED
    BY <1>2, <1>4, <2>1, <2>2
<1>9. ASSUME NEW i \in 1..Len(t) PROVE t[i] = h1[(d + e) + i]
  <2>1. e + i \in 1..Len(s1) /\ (d + e) + i = d + (e + i)
    BY <1>2, <1>4, <1>5, <1>7
  <2> QED
    BY <1>6, <1>8, <2>1 DEF TrimsTo
<1>10. ASSUME NEW i \in 1..(d + e)
       PROVE  h1[i].age = StaleAge \/ i <= Len(h1) - WindowSize
  <2>1. CASE i \in 1..d
    <3>1. i \in 1..Len(h)
      BY <1>4, <1>5, <2>1 DEF d
    <3>2. h1[i] = h[i] /\ (h[i].age = StaleAge \/ i <= Len(h) - WindowSize)
      BY <1>3, <1>5, <2>1, <3>1
    <3> QED
      BY <1>3, <1>4, <3>1, <3>2
  <2>2. CASE i \notin 1..d
    <3> DEFINE j == i - d
    <3>1. j \in 1..e /\ j \in 1..Len(s1) /\ d + j = i
      BY <1>2, <1>4, <1>5, <1>7, <2>2
    <3>2. s1[j] = h1[i]
      BY <1>8, <3>1
    <3>3. s1[j].age = StaleAge \/ j <= Len(s1) - WindowSize
      BY <1>6, <3>1 DEF TrimsTo
    <3>4. j <= Len(s1) - WindowSize => i <= Len(h1) - WindowSize
      BY <1>2, <1>3, <1>4, <1>5, <3>1 DEF d
    <3> QED
      BY <3>2, <3>3, <3>4
  <2> QED
    BY <2>1, <2>2
<1>11. ASSUME NEW i \in 1..Len(h1), NEW j \in 1..Len(h1), i < j
       PROVE  h1[i].age >= h1[j].age
  <2>1. i \in 1..Len(h) /\ h1[i] = h[i] /\ h[i].age \in Nat
    <3>1. i \in 1..Len(h)
      BY <1>3, <1>4, <1>11
    <3>2. h[i] \in breakerSample
      BY <3>1, LenIs
    <3>3. h[i].age \in Nat
      BY <3>2, BreakerConfig DEF breakerSample, StaleAge
    <3>4. h1[i] = h[i]
      BY <1>3, <3>1
    <3> QED
      BY <3>1, <3>3, <3>4
  <2>2. CASE j \in 1..Len(h)
    BY <1>3, <1>5, <1>11, <2>1, <2>2
  <2>3. CASE j = Len(h) + 1
    BY <1>3, <2>1, <2>3 DEF x
  <2> QED
    BY <1>3, <1>4, <2>2, <2>3
<1>12. d + e >= 0
  BY <1>2, <1>4, <1>5, <1>7
<1>13. WindowOf(t, h1)
  BY <1>7, <1>9, <1>10, <1>11, <1>12 DEF WindowOf
<1>14. Policy!InWindow(h1) = ((d + e) + 1)..Len(h1)
  <2>1. \A i \in 1..Len(h1) : h1[i].age \in 0..StaleAge
    <3>1. \A i \in 1..Len(h1) : h1[i] \in breakerSample
      BY <1>3, LenIs
    <3> QED
      BY <3>1 DEF breakerSample
  <2>2. ASSUME NEW i \in Policy!InWindow(h1) PROVE i \in ((d + e) + 1)..Len(h1)
    <3>1. i \in 1..Len(h1) /\ i > Len(h1) - WindowSize /\ h1[i].age <= WindowDuration
      BY DEF Policy!InWindow
    <3>2. h1[i].age # StaleAge /\ ~ (i <= Len(h1) - WindowSize)
      BY <1>3, <1>4, <2>1, <3>1, BreakerConfig DEF StaleAge
    <3> QED
      BY <1>3, <1>4, <1>5, <1>7, <1>10, <3>1, <3>2
  <2>3. ASSUME NEW i \in ((d + e) + 1)..Len(h1) PROVE i \in Policy!InWindow(h1)
    <3>1. e < Len(s1)
      BY <1>2, <1>3, <1>4, <1>5, <1>7 DEF d
    <3>2. PICK j \in 1..(e + 1) : s1[j].age # StaleAge
      BY <1>6, <3>1 DEF TrimsTo
    <3>3. j \in 1..Len(s1) /\ d + j \in 1..Len(h1) /\ d + j <= i /\ i \in 1..Len(h1)
      BY <1>2, <1>3, <1>4, <1>5, <1>7, <3>1 DEF d
    <3>4. h1[d + j].age # StaleAge
      BY <1>8, <3>2, <3>3
    <3>5. h1[d + j].age >= h1[i].age
      <4>1. CASE d + j = i
        BY <2>1, <3>3, <4>1, BreakerConfig DEF StaleAge
      <4>2. CASE d + j < i
        BY <1>11, <3>3, <4>2
      <4> QED
        BY <1>3, <1>4, <3>3, <4>1, <4>2
    <3>6. h1[i].age <= WindowDuration
      BY <2>1, <3>3, <3>4, <3>5, BreakerConfig DEF StaleAge
    <3>7. i > Len(h1) - WindowSize
      <4>1. Len(t) <= WindowSize
        BY <1>6 DEF TrimsTo
      <4> QED
        BY <1>2, <1>3, <1>4, <1>5, <1>7, <4>1
    <3> QED
      BY <3>3, <3>6, <3>7 DEF Policy!InWindow
  <2> QED
    BY Zenon, <2>2, <2>3
<1> QED
  BY <1>7, <1>13, <1>14 DEF t, h1, s1, x

\* Aging the slice and the history together keeps the slice the window's tail.
LEMMA WindowOlder ==
  ASSUME NEW s \in Seq(breakerSample), NEW h \in Seq(breakerSample),
         WindowOf(s, h)
  PROVE  WindowOf(Older(s), Older(h))
<1> DEFINE d == Len(h) - Len(s)
           os == Older(s)
           oh == Older(h)
<1>1. Len(s) \in Nat /\ Len(h) \in Nat /\ \A i \in 1..Len(h) : h[i] \in breakerSample
  BY LenIs
<1>2. /\ d >= 0
      /\ \A i \in 1..Len(s) : s[i] = h[d + i]
      /\ \A i \in 1..d : h[i].age = StaleAge \/ i <= Len(h) - WindowSize
      /\ \A i, j \in 1..Len(h) : i < j => h[i].age >= h[j].age
  BY DEF WindowOf
<1>3. /\ Len(os) = Len(s)
      /\ \A i \in 1..Len(s) : os[i] = [failure |-> s[i].failure, age |-> Until(s[i].age, StaleAge)]
      /\ Len(oh) = Len(h)
      /\ \A i \in 1..Len(h) : oh[i] = [failure |-> h[i].failure, age |-> Until(h[i].age, StaleAge)]
      /\ \A i \in 1..Len(h) : oh[i].age = Until(h[i].age, StaleAge)
  BY OlderProperties
<1> HIDE DEF os, oh
<1>4. ASSUME NEW i \in 1..Len(s) PROVE os[i] = oh[d + i]
  <2>1. d + i \in 1..Len(h)
    BY <1>1, <1>2
  <2> QED
    BY Zenon, <1>2, <1>3, <2>1
<1>5. ASSUME NEW i \in 1..d PROVE oh[i].age = StaleAge \/ i <= Len(h) - WindowSize
  <2>1. i \in 1..Len(h)
    BY <1>1
  <2>2. oh[i].age = Until(h[i].age, StaleAge) /\ StaleAge \in Nat
    BY <1>3, <2>1, BreakerConfig DEF StaleAge, Until
  <2> QED
    BY <1>2, <2>2 DEF Until
<1>6. ASSUME NEW i \in 1..Len(h), NEW j \in 1..Len(h), i < j
      PROVE  oh[i].age >= oh[j].age
  <2>1. h[i].age \in 0..StaleAge /\ h[j].age \in 0..StaleAge /\ h[i].age >= h[j].age
    BY <1>1, <1>2, <1>6 DEF breakerSample
  <2>2. StaleAge \in Nat
    BY BreakerConfig DEF StaleAge
  <2>3. oh[i].age = Until(h[i].age, StaleAge) /\ oh[j].age = Until(h[j].age, StaleAge)
    BY <1>3 DEF Until
  <2> QED
    BY <2>1, <2>2, <2>3 DEF Until
<1> QED
  BY <1>2, <1>3, <1>4, <1>5, <1>6 DEF WindowOf, os, oh

-----------------------------------------------------------------------------
\* A slice and its copy d positions further on hold the same number of failures.
LEMMA ShiftedFailures ==
  ASSUME NEW t \in Seq(breakerSample), NEW h, NEW d \in Nat,
         \A i \in 1..Len(t) : t[i] = h[d + i]
  PROVE  LET S == {i \in 1..Len(t) : t[i].failure}
             T == {i \in (d + 1)..(d + Len(t)) : h[i].failure}
         IN  Cardinality(T) = Cardinality(S)
<1> DEFINE S == {i \in 1..Len(t) : t[i].failure}
           T == {i \in (d + 1)..(d + Len(t)) : h[i].failure}
           shift == [i \in S |-> d + i]
<1>1. Len(t) \in Nat
  BY LenIs
<1>2. IsFiniteSet(S)
  <2>1. S \in SUBSET (1..Len(t)) /\ IsFiniteSet(1..Len(t))
    BY <1>1, FS_Interval
  <2> QED
    BY <2>1, FS_Subset
<1>3. \A i \in S : d + i \in T
  BY <1>1
<1>4. \A j \in T : j - d \in S /\ d + (j - d) = j
  <2> SUFFICES ASSUME NEW j \in T PROVE j - d \in S /\ d + (j - d) = j
    OBVIOUS
  <2>1. j - d \in 1..Len(t) /\ d + (j - d) = j
    BY <1>1
  <2>2. t[j - d] = h[j]
    BY <2>1
  <2> QED
    BY <2>1, <2>2
<1>5. shift \in Bijection(S, T)
  <2>1. shift \in [S -> T]
    BY <1>3
  <2>2. \A i, j \in S : shift[i] = shift[j] => i = j
    BY <1>1
  <2>3. \A j \in T : \E i \in S : shift[i] = j
    BY <1>4
  <2> QED
    BY Zenon, <2>1, <2>2, <2>3 DEF Bijection, Injection, Surjection, IsInjective
<1> QED
  BY <1>2, <1>5, FS_Bijection DEF ExistsBijection

\* The trip decision on the trimmed slice is the policy's decision on the whole
\* history.
LEMMA TripAgrees ==
  ASSUME NEW s \in Seq(breakerSample), NEW h \in Seq(breakerSample),
         WindowOf(s, h), NEW f \in BOOLEAN
  PROVE  LET x == [failure |-> f, age |-> 0]
         IN  shouldTripLocked(trimWindowLocked(Append(s, x)))
               <=> Policy!TooManyFailures(Append(h, x))
<1> DEFINE x == [failure |-> f, age |-> 0]
           t == trimWindowLocked(Append(s, x))
           h1 == Append(h, x)
           d == Len(h1) - Len(t)
           S == {i \in 1..Len(t) : t[i].failure}
           T == {i \in (d + 1)..(d + Len(t)) : h1[i].failure}
<1>1. x \in breakerSample
  BY BreakerConfig DEF breakerSample, StaleAge
<1>2. Append(s, x) \in Seq(breakerSample) /\ h1 \in Seq(breakerSample)
  BY <1>1, AppendIs
<1>3. WindowOf(t, h1) /\ Policy!InWindow(h1) = (d + 1)..Len(h1)
  BY WindowAppend
<1>4. t \in Seq(breakerSample)
  BY Zenon, <1>2, TrimProperties DEF TrimsTo
<1> HIDE DEF x, t, h1
<1>5. Len(t) \in Nat /\ Len(h1) \in Nat
  BY <1>2, <1>4, LenIs
<1>6. d \in Nat /\ \A i \in 1..Len(t) : t[i] = h1[d + i]
  BY <1>3, <1>5 DEF WindowOf
<1>7. Len(h1) = d + Len(t)
  BY <1>5
<1> HIDE DEF d
<1>8. Cardinality(T) = Cardinality(S)
  BY Zenon, <1>4, <1>6, ShiftedFailures
<1>9. Policy!InWindow(h1) = (d + 1)..(d + Len(t))
  BY <1>3, <1>7
<1>10. Cardinality(Policy!InWindow(h1)) = Len(t)
  <2>1. Cardinality((d + 1)..(d + Len(t)))
          = IF d + 1 > d + Len(t) THEN 0 ELSE (d + Len(t)) - (d + 1) + 1
    <3>1. d + 1 \in Int /\ d + Len(t) \in Int
      BY <1>5, <1>6
    <3> QED
      BY <3>1, FS_Interval
  <2> QED
    BY <1>5, <1>6, <1>9, <2>1
<1>11. {i \in Policy!InWindow(h1) : h1[i].failure} = T
  BY <1>9
<1> HIDE DEF S, T
<1>12. shouldTripLocked(t) <=> Policy!TooManyFailures(h1)
  <2>1. Policy!TooManyFailures(h1)
          <=> /\ Len(t) >= MinObservations
              /\ FailDen * Cardinality(S) > FailNum * Len(t)
    <3>1. Policy!TooManyFailures(h1)
            <=> /\ Cardinality(Policy!InWindow(h1)) >= MinObservations
                /\ FailDen * Cardinality({i \in Policy!InWindow(h1) : h1[i].failure})
                     > FailNum * Cardinality(Policy!InWindow(h1))
      BY PolicySharesDefinitions DEF Policy!TooManyFailures
    <3> QED
      BY Zenon, <1>8, <1>10, <1>11, <3>1
  <2>2. shouldTripLocked(t)
          <=> /\ Len(t) >= MinObservations
              /\ FailDen * Cardinality(S) > FailNum * Len(t)
    BY DEF shouldTripLocked, S
  <2> QED
    BY <2>1, <2>2
<1> QED
  BY <1>12 DEF t, h1, x

-----------------------------------------------------------------------------
\* The inductive invariant: the three invariants of CircuitBreaker together.
\* WindowOf needs the history's types, and the clean start of a phase is what
\* makes the empty window of a new closed phase the tail of an empty history.
IndInv == TypeOK /\ PhasesStartClean /\ WindowIsTailOfHistory

\* The empty slice is the window of the empty history.
LEMMA WindowEmpty == WindowOf(<<>>, <<>>)
BY BreakerConfig DEF WindowOf

\* A new breaker satisfies the invariant.
LEMMA InitInv == Init => IndInv
<1> SUFFICES ASSUME Init PROVE IndInv
  OBVIOUS
<1>1. <<>> \in Seq(breakerSample) /\ Len(<<>>) = 0
  OBVIOUS
<1>2. TypeOK
  BY <1>1, BreakerConfig
  DEF Init, TypeOK, NewCircuitBreaker, CircuitBreaker, BreakerState
<1>3. PhasesStartClean
  BY DEF Init, PhasesStartClean, NewCircuitBreaker
<1>4. WindowIsTailOfHistory
  BY WindowEmpty DEF Init, WindowIsTailOfHistory, NewCircuitBreaker
<1> QED
  BY <1>2, <1>3, <1>4 DEF IndInv

\* State changes nothing but an open breaker whose time is up.
LEMMA CallStateInv == IndInv /\ CallState => IndInv'
<1> SUFFICES ASSUME IndInv, CallState PROVE IndInv'
  OBVIOUS
<1>1. cb \in CircuitBreaker /\ cb' = advanceLocked(cb) /\ history' = history
  BY DEF IndInv, TypeOK, CallState
<1>2. /\ cb' \in CircuitBreaker
      /\ cb'.samples = cb.samples /\ cb'.openDuration = cb.openDuration
      /\ cb'.state = cb.state \/ (cb.state = "open" /\ cb'.state = "half-open")
      /\ cb.state # "open" => cb' = cb
  BY <1>1, AdvanceInv
<1>3. cb'.state # "half-open" => cb'.probesAdmitted = 0 /\ cb'.probesSucceeded = 0
  BY <1>1 DEF IndInv, PhasesStartClean, advanceLocked, CircuitBreaker
<1> QED
  BY <1>1, <1>2, <1>3
  DEF IndInv, TypeOK, PhasesStartClean, WindowIsTailOfHistory

\* Reserve counts a probe only in half-open, and only while one is left.
LEMMA CallReserveInv == IndInv /\ CallReserve => IndInv'
<1> SUFFICES ASSUME IndInv, CallReserve PROVE IndInv'
  OBVIOUS
<1> DEFINE a == advanceLocked(cb)
<1>1. cb \in CircuitBreaker /\ cb' = Reserve(cb) /\ history' = history
  BY DEF IndInv, TypeOK, CallReserve
<1>2. /\ a \in CircuitBreaker
      /\ a.samples = cb.samples /\ a.openDuration = cb.openDuration
      /\ a.state = cb.state \/ (cb.state = "open" /\ a.state = "half-open")
      /\ cb.state # "open" => a = cb
  BY <1>1, AdvanceInv
<1>3. a.state # "half-open" => a.probesAdmitted = 0 /\ a.probesSucceeded = 0
  BY <1>1 DEF IndInv, PhasesStartClean, advanceLocked, CircuitBreaker
<1>4. cb' = a \/ /\ a.state = "half-open" /\ a.probesAdmitted < HalfOpenProbes
                 /\ cb' = [a EXCEPT !.probesAdmitted = @ + 1]
  BY <1>1 DEF Reserve
<1> HIDE DEF a
<1>5. /\ cb' \in CircuitBreaker
      /\ cb'.samples = cb.samples /\ cb'.openDuration = cb.openDuration
      /\ cb'.state = a.state
      /\ cb'.state # "half-open" => cb'.probesAdmitted = 0 /\ cb'.probesSucceeded = 0
  <2>1. CASE cb' = a
    BY <1>2, <1>3, <2>1
  <2>2. CASE /\ a.state = "half-open" /\ a.probesAdmitted < HalfOpenProbes
             /\ cb' = [a EXCEPT !.probesAdmitted = @ + 1]
    <3>1. a.probesAdmitted + 1 \in 0..HalfOpenProbes
      BY <1>2, <2>2, BreakerConfig DEF CircuitBreaker
    <3>2. cb' \in CircuitBreaker
      BY <1>2, <2>2, <3>1 DEF CircuitBreaker
    <3> QED
      BY <1>2, <2>2, <3>2 DEF CircuitBreaker
  <2> QED
    BY <1>4, <2>1, <2>2
<1> QED
  BY <1>1, <1>2, <1>5
  DEF IndInv, TypeOK, PhasesStartClean, WindowIsTailOfHistory

\* Time ages the samples and the history alike.
LEMMA TickInv == IndInv /\ ClockTicks => IndInv'
<1> SUFFICES ASSUME IndInv, ClockTicks PROVE IndInv'
  OBVIOUS
<1>1. /\ cb \in CircuitBreaker /\ cb.samples \in Seq(breakerSample)
      /\ Len(cb.samples) <= WindowSize /\ history \in Seq(breakerSample)
  BY DEF IndInv, TypeOK, CircuitBreaker
<1>2. /\ cb' = [cb EXCEPT !.sinceOpened = Until(cb.sinceOpened, OpenMax),
                          !.samples = Older(cb.samples)]
      /\ history' = Older(history)
  BY DEF ClockTicks, Elapse
<1>3. Until(cb.sinceOpened, OpenMax) \in 0..OpenMax
  BY <1>1, BreakerConfig DEF CircuitBreaker, Until
<1>4. /\ Older(cb.samples) \in Seq(breakerSample) /\ Len(Older(cb.samples)) = Len(cb.samples)
      /\ cb.samples = <<>> => Older(cb.samples) = <<>>
      /\ Older(history) \in Seq(breakerSample)
      /\ history = <<>> => Older(history) = <<>>
  BY <1>1, OlderProperties
<1>5. cb' \in CircuitBreaker
  BY Zenon, <1>1, <1>2, <1>3, <1>4 DEF CircuitBreaker
<1>6. /\ cb'.samples = Older(cb.samples) /\ cb'.state = cb.state
      /\ cb'.openDuration = cb.openDuration
      /\ cb'.probesAdmitted = cb.probesAdmitted
      /\ cb'.probesSucceeded = cb.probesSucceeded
  BY <1>1, <1>2 DEF CircuitBreaker
<1>7. TypeOK'
  BY <1>1, <1>2, <1>4, <1>5, <1>6 DEF TypeOK
<1>8. PhasesStartClean'
  BY <1>2, <1>4, <1>6 DEF IndInv, PhasesStartClean
<1>9. WindowIsTailOfHistory'
  BY <1>1, <1>2, <1>6, WindowOlder DEF IndInv, WindowIsTailOfHistory
<1> QED
  BY <1>7, <1>8, <1>9 DEF IndInv

-----------------------------------------------------------------------------
(* The branches of Record, as actions on a breaker that has advanced.      *)
Sample(f) == [failure |-> f, age |-> 0]
Trimmed(f) == trimWindowLocked(Append(cb.samples, Sample(f)))

KeepsClosed(f) ==
  /\ cb.state = "closed" /\ ~ shouldTripLocked(Trimmed(f))
  /\ cb' = [cb EXCEPT !.samples = Trimmed(f)]
  /\ history' = Append(history, Sample(f))

Trips(f) ==
  /\ cb.state = "closed" /\ shouldTripLocked(Trimmed(f))
  /\ cb' = [cb EXCEPT !.openDuration = OpenMin, !.sinceOpened = 0,
                      !.state = "open", !.samples = <<>>]
  /\ history' = <<>>

Reopens ==
  /\ cb.state # "closed" /\ Effective.state = "half-open"
  /\ cb' = [Effective EXCEPT
              !.openDuration = IF 2 * Effective.openDuration > OpenMax
                                 THEN OpenMax ELSE 2 * Effective.openDuration,
              !.sinceOpened = 0, !.state = "open",
              !.probesAdmitted = 0, !.probesSucceeded = 0]
  /\ history' = <<>>

Closes ==
  /\ cb.state # "closed" /\ Effective.state = "half-open"
  /\ Effective.probesSucceeded + 1 >= HalfOpenProbes
  /\ cb' = [Effective EXCEPT !.state = "closed", !.openDuration = OpenMin,
              !.probesAdmitted = 0, !.probesSucceeded = 0, !.samples = <<>>]
  /\ history' = <<>>

CountsProbe ==
  /\ cb.state # "closed" /\ Effective.state = "half-open"
  /\ ~ (Effective.probesSucceeded + 1 >= HalfOpenProbes)
  /\ cb' = [Effective EXCEPT !.probesSucceeded = @ + 1]
  /\ history' = <<>>

\* Every Record takes one of these branches, or changes nothing: it was a
\* cancellation, or a stray outcome while the breaker is open.
LEMMA RecordBranches ==
  ASSUME IndInv, NEW o \in BreakerOutcome, CallRecord(o)
  PROVE  \/ cb' = cb /\ history' = history
         \/ \E f \in BOOLEAN : KeepsClosed(f) \/ Trips(f)
         \/ Reopens \/ Closes \/ CountsProbe
<1>1. /\ cb \in CircuitBreaker /\ cb' = Record(cb, o)
      /\ cb.state # "closed" => history = <<>>
  BY DEF IndInv, TypeOK, PhasesStartClean, CallRecord
<1>2. /\ Effective \in CircuitBreaker
      /\ Effective.state = cb.state \/ (cb.state = "open" /\ Effective.state = "half-open")
      /\ cb.state # "open" => Effective = cb
      /\ Effective.state = "open" => Effective = cb
  <2>1. Effective.state = "open" => Effective = cb
    BY <1>1 DEF Effective, advanceLocked, CircuitBreaker
  <2> QED
    BY <1>1, <2>1, AdvanceInv DEF Effective
<1>3. CASE o = "cancellation"
  BY <1>1, <1>3 DEF Record, CallRecord
<1>4. CASE o # "cancellation" /\ Effective.state = "closed"
  <2> DEFINE f == (o = "failure")
  <2>1. cb.state = "closed" /\ Effective = cb /\ f \in BOOLEAN
    BY <1>2, <1>4
  <2>2. cb' = IF shouldTripLocked(Trimmed(f))
                THEN [cb EXCEPT !.openDuration = OpenMin, !.sinceOpened = 0,
                                !.state = "open", !.samples = <<>>]
                ELSE [cb EXCEPT !.samples = Trimmed(f)]
    BY <1>1, <1>4, <2>1 DEF Record, RecordClosed, Effective, Trimmed, Sample
  <2>3. CASE shouldTripLocked(Trimmed(f))
    <3>1. cb'.state = "open"
      BY <1>1, <2>2, <2>3 DEF CircuitBreaker
    <3>2. history' = <<>>
      BY <2>1, <3>1 DEF CallRecord
    <3> QED
      BY Zenon, <2>1, <2>2, <2>3, <3>2 DEF Trips
  <2>4. CASE ~ shouldTripLocked(Trimmed(f))
    <3>1. cb'.state = "closed"
      BY <1>1, <2>1, <2>2, <2>4 DEF CircuitBreaker
    <3>2. history' = Append(history, Sample(f))
      BY <1>4, <2>1, <3>1 DEF CallRecord, Sample
    <3> QED
      BY Zenon, <2>1, <2>2, <2>4, <3>2 DEF KeepsClosed
  <2> QED
    BY <2>3, <2>4
<1>5. CASE o # "cancellation" /\ Effective.state = "half-open"
  <2>1. cb.state # "closed" /\ history = <<>> /\ history' = <<>>
    BY <1>1, <1>2, <1>5 DEF CallRecord
  <2>2. cb' = RecordHalfOpen(Effective, o = "failure")
    BY <1>1, <1>5 DEF Record, Effective
  <2> QED
    BY <1>5, <2>1, <2>2 DEF RecordHalfOpen, Reopens, Closes, CountsProbe
<1>6. CASE o # "cancellation" /\ Effective.state = "open"
  <2>1. cb' = cb /\ cb.state = "open"
    BY <1>1, <1>2, <1>6 DEF Record, Effective
  <2> QED
    BY <2>1 DEF CallRecord
<1>7. Effective.state \in BreakerState
  BY <1>2 DEF CircuitBreaker
<1> QED
  BY Zenon, <1>3, <1>4, <1>5, <1>6, <1>7 DEF BreakerState

\* What the invariant says of the breaker as a caller finds it.
LEMMA EffectiveInv ==
  ASSUME IndInv
  PROVE  /\ cb \in CircuitBreaker /\ Effective \in CircuitBreaker
         /\ Effective.samples = cb.samples
         /\ Effective.openDuration = cb.openDuration
         /\ Effective.state = "closed" <=> cb.state = "closed"
         /\ Effective.state # "half-open" =>
              Effective.probesAdmitted = 0 /\ Effective.probesSucceeded = 0
<1>1. cb \in CircuitBreaker
  BY DEF IndInv, TypeOK
<1>2. Effective.state # "half-open" =>
        Effective.probesAdmitted = 0 /\ Effective.probesSucceeded = 0
  BY <1>1 DEF IndInv, PhasesStartClean, Effective, advanceLocked, CircuitBreaker
<1> QED
  BY <1>1, <1>2, AdvanceInv DEF Effective

\* Every branch of Record keeps the invariant.
LEMMA CallRecordInv ==
  ASSUME IndInv, NEW o \in BreakerOutcome, CallRecord(o)
  PROVE  IndInv'
<1>1. /\ cb \in CircuitBreaker /\ cb.samples \in Seq(breakerSample)
      /\ Len(cb.samples) <= WindowSize /\ history \in Seq(breakerSample)
      /\ WindowOf(cb.samples, history)
      /\ cb.state # "half-open" => cb.probesAdmitted = 0 /\ cb.probesSucceeded = 0
      /\ cb.state # "closed" => cb.samples = <<>> /\ cb.openDuration >= OpenMin
  BY DEF IndInv, TypeOK, WindowIsTailOfHistory, PhasesStartClean, CircuitBreaker
<1>2. /\ <<>> \in Seq(breakerSample) /\ Len(<<>>) = 0 /\ WindowSize \in Nat
      /\ WindowOf(<<>>, <<>>)
      /\ 0 \in 0..OpenMax /\ OpenMin \in 0..OpenMax /\ 0 \in 0..HalfOpenProbes
  BY WindowEmpty, BreakerConfig
<1>3. Effective \in CircuitBreaker /\ Effective.openDuration = cb.openDuration
      /\ Effective.samples = cb.samples
  BY EffectiveInv
<1>4. CASE cb' = cb /\ history' = history
  BY <1>4 DEF IndInv, TypeOK, PhasesStartClean, WindowIsTailOfHistory
<1>5. ASSUME NEW f \in BOOLEAN, KeepsClosed(f) PROVE IndInv'
  <2>1. Sample(f) \in breakerSample
    BY BreakerConfig DEF Sample, breakerSample, StaleAge
  <2>2. Append(cb.samples, Sample(f)) \in Seq(breakerSample) /\ history' \in Seq(breakerSample)
    BY <1>1, <1>5, <2>1, AppendIs DEF KeepsClosed
  <2>3. Trimmed(f) \in Seq(breakerSample) /\ Len(Trimmed(f)) <= WindowSize
    BY Zenon, <2>2, TrimProperties DEF TrimsTo, Trimmed
  <2>4. WindowOf(Trimmed(f), history')
    BY <1>1, <1>5, WindowAppend DEF KeepsClosed, Trimmed, Sample
  <2>5. cb' \in CircuitBreaker /\ cb'.samples = Trimmed(f)
    BY Zenon, <1>1, <1>5, <2>3 DEF KeepsClosed, CircuitBreaker
  <2>6. cb'.state = "closed" /\ cb'.probesAdmitted = 0 /\ cb'.probesSucceeded = 0
    BY <1>1, <1>5 DEF KeepsClosed, CircuitBreaker
  <2> QED
    BY <2>2, <2>3, <2>4, <2>5, <2>6
    DEF IndInv, TypeOK, PhasesStartClean, WindowIsTailOfHistory
<1>6. ASSUME NEW f \in BOOLEAN, Trips(f) PROVE IndInv'
  <2>1. /\ cb' \in CircuitBreaker /\ history' = <<>>
        /\ cb'.samples = <<>> /\ cb'.openDuration = OpenMin /\ cb'.state = "open"
        /\ cb'.probesAdmitted = 0 /\ cb'.probesSucceeded = 0
    BY Zenon, <1>1, <1>2, <1>6 DEF Trips, CircuitBreaker, BreakerState
  <2> QED
    BY <1>2, <2>1, BreakerConfig DEF IndInv, TypeOK, PhasesStartClean, WindowIsTailOfHistory
<1>7. CASE Reopens
  <2> DEFINE dur == IF 2 * Effective.openDuration > OpenMax
                      THEN OpenMax ELSE 2 * Effective.openDuration
  <2>0. /\ Effective.openDuration \in Nat /\ Effective.openDuration >= OpenMin
        /\ OpenMin \in Nat /\ OpenMax \in Nat /\ OpenMin <= OpenMax
    BY <1>1, <1>3, <1>7, BreakerConfig DEF Reopens, CircuitBreaker
  <2>1. dur \in 0..OpenMax /\ dur >= OpenMin
    BY <2>0
  <2>2. cb' = [Effective EXCEPT !.openDuration = dur,
                 !.sinceOpened = 0, !.state = "open",
                 !.probesAdmitted = 0, !.probesSucceeded = 0]
        /\ history' = <<>> /\ Effective.samples = <<>>
    BY <1>1, <1>3, <1>7 DEF Reopens
  <2> HIDE DEF dur
  <2>3. /\ cb' \in CircuitBreaker
        /\ cb'.samples = <<>> /\ cb'.openDuration = dur /\ cb'.state = "open"
        /\ cb'.probesAdmitted = 0 /\ cb'.probesSucceeded = 0
    BY Zenon, <1>2, <1>3, <2>1, <2>2 DEF CircuitBreaker, BreakerState
  <2> QED
    BY <1>2, <2>1, <2>2, <2>3 DEF IndInv, TypeOK, PhasesStartClean, WindowIsTailOfHistory
<1>8. CASE Closes
  <2>1. /\ cb' \in CircuitBreaker /\ history' = <<>>
        /\ cb'.samples = <<>> /\ cb'.state = "closed"
        /\ cb'.probesAdmitted = 0 /\ cb'.probesSucceeded = 0
    BY Zenon, <1>2, <1>3, <1>8 DEF Closes, CircuitBreaker, BreakerState
  <2> QED
    BY <1>2, <2>1 DEF IndInv, TypeOK, PhasesStartClean, WindowIsTailOfHistory
<1>9. CASE CountsProbe
  <2>1. Effective.probesSucceeded + 1 \in 0..HalfOpenProbes
    BY <1>3, <1>9, BreakerConfig DEF CountsProbe, CircuitBreaker
  <2>2. /\ cb' \in CircuitBreaker /\ history' = <<>>
        /\ cb'.samples = <<>> /\ cb'.state = "half-open"
        /\ cb'.openDuration = cb.openDuration
    BY Zenon, <1>1, <1>3, <1>9, <2>1 DEF CountsProbe, CircuitBreaker
  <2> QED
    BY <1>1, <1>2, <1>9, <2>2
    DEF IndInv, TypeOK, PhasesStartClean, WindowIsTailOfHistory, CountsProbe
<1> QED
  BY ZenonT(30), <1>4, <1>5, <1>6, <1>7, <1>8, <1>9, RecordBranches

\* Every step keeps the invariant.
LEMMA StepInv == IndInv /\ [Next]_vars => IndInv'
<1> SUFFICES ASSUME IndInv, [Next]_vars PROVE IndInv'
  OBVIOUS
<1>1. CASE UNCHANGED vars
  BY <1>1 DEF vars, IndInv, TypeOK, PhasesStartClean, WindowIsTailOfHistory
<1> QED
  BY <1>1, CallStateInv, CallReserveInv, CallRecordInv, TickInv DEF Next

\* The fields of the breaker keep their ranges whatever is called in whatever
\* order: the slice circuit.go trims never outgrows WindowSize, and the probe
\* counters of Reserve and Record never pass HalfOpenProbes.
THEOREM TypeCorrect == Spec => []TypeOK
<1>1. Init => IndInv
  BY InitInv
<1>2. IndInv /\ [Next]_vars => IndInv'
  BY StepInv
<1>3. IndInv => TypeOK
  BY DEF IndInv
<1> QED
  BY <1>1, <1>2, <1>3, PTL DEF Spec

\* Each phase of the breaker starts clean: the resets in advanceLocked and in
\* the branches of Record leave nothing over from an earlier phase.
THEOREM PhasesClean == Spec => []PhasesStartClean
<1>1. IndInv => PhasesStartClean
  BY DEF IndInv
<1> QED
  BY <1>1, InitInv, StepInv, PTL DEF Spec

\* trimWindowLocked never drops a sample that the window still contains.
THEOREM WindowCorrect == Spec => []WindowIsTailOfHistory
<1>1. IndInv => WindowIsTailOfHistory
  BY DEF IndInv
<1> QED
  BY <1>1, InitInv, StepInv, PTL DEF Spec

-----------------------------------------------------------------------------
(***************************************************************************)
(* The refinement.  Every step of the breaker is a step of the policy, or  *)
(* leaves everything the policy talks about as it was.                     *)
(***************************************************************************)

\* What the policy sees is determined by these three.
LEMMA SeenByPolicy ==
  ASSUME Effective' = Effective, history' = history,
         RemainingOpen(cb)' = RemainingOpen(cb)
  PROVE  UNCHANGED Policy!policyVars
BY DEF Policy!policyVars

\* A new breaker is the policy's initial state.
LEMMA InitRefines == Init => Policy!PolicyInit
BY DEF Init, NewCircuitBreaker, Policy!PolicyInit, Effective, advanceLocked, RemainingOpen

\* State is invisible to the policy.
LEMMA CallStateRefines ==
  ASSUME IndInv, CallState
  PROVE  UNCHANGED Policy!policyVars
<1>1. cb \in CircuitBreaker /\ cb' = advanceLocked(cb) /\ history' = history
  BY DEF IndInv, TypeOK, CallState
<1>2. Effective' = Effective /\ RemainingOpen(cb)' = RemainingOpen(cb)
  BY <1>1, AdvanceTwice DEF Effective
<1> QED
  BY <1>1, <1>2, SeenByPolicy

\* Reserve admits a probe, or is invisible to the policy.
LEMMA CallReserveRefines ==
  ASSUME IndInv, CallReserve
  PROVE  Policy!AdmitProbe \/ UNCHANGED Policy!policyVars
<1>1. cb \in CircuitBreaker /\ cb' = Reserve(cb) /\ history' = history
  BY DEF IndInv, TypeOK, CallReserve
<1>2. Effective \in CircuitBreaker
  BY EffectiveInv
<1>3. CASE Effective.state = "half-open" /\ Effective.probesAdmitted < HalfOpenProbes
  <2>1. cb' = [Effective EXCEPT !.probesAdmitted = @ + 1]
    BY <1>1, <1>3 DEF Reserve, Effective
  <2>2. /\ cb'.state = "half-open" /\ cb'.openDuration = Effective.openDuration
        /\ cb'.probesAdmitted = Effective.probesAdmitted + 1
        /\ cb'.probesSucceeded = Effective.probesSucceeded
    BY <1>2, <1>3, <2>1 DEF CircuitBreaker
  <2>3. Effective' = cb' /\ RemainingOpen(cb') = 0
    BY <2>2, NotOpen DEF Effective
  <2>4. RemainingOpen(cb) = 0
    BY <1>1, <1>3, AdvanceTwice, NotOpen DEF Effective
  <2> QED
    BY <1>1, <1>3, <2>2, <2>3, <2>4 DEF Policy!AdmitProbe
<1>4. CASE ~ (Effective.state = "half-open" /\ Effective.probesAdmitted < HalfOpenProbes)
  <2>1. cb' = Effective
    BY <1>1, <1>4 DEF Reserve, Effective
  <2>2. Effective' = Effective /\ RemainingOpen(cb)' = RemainingOpen(cb)
    BY <1>1, <2>1, AdvanceTwice DEF Effective
  <2> QED
    BY <1>1, <2>2, SeenByPolicy
<1> QED
  BY <1>3, <1>4

\* A unit of time in the breaker is a unit of time in the policy.
LEMMA TickRefines ==
  ASSUME IndInv, ClockTicks
  PROVE  Policy!TimePasses
<1>1. /\ cb \in CircuitBreaker /\ cb.samples \in Seq(breakerSample)
      /\ cb.state # "half-open" => cb.probesAdmitted = 0 /\ cb.probesSucceeded = 0
      /\ cb.state # "closed" => cb.openDuration >= OpenMin
  BY DEF IndInv, TypeOK, PhasesStartClean, CircuitBreaker
<1>2. cb' = Elapse(cb) /\ history' = Older(history)
  BY DEF ClockTicks
<1>3. /\ cb'.state = cb.state /\ cb'.openDuration = cb.openDuration
      /\ cb'.probesAdmitted = cb.probesAdmitted
      /\ cb'.probesSucceeded = cb.probesSucceeded
      /\ cb'.sinceOpened = Until(cb.sinceOpened, OpenMax)
  BY <1>1, <1>2 DEF Elapse, CircuitBreaker
<1>4. /\ cb.sinceOpened \in Nat /\ cb.openDuration \in Nat /\ cb.openDuration <= OpenMax
      /\ OpenMin \in Nat /\ OpenMin > 0 /\ OpenMax \in Nat /\ cb.sinceOpened <= OpenMax
  BY <1>1, BreakerConfig DEF CircuitBreaker
<1>5. cb' \in CircuitBreaker
  BY TickInv DEF IndInv, TypeOK
<1>6. history' = Policy!Older(history)
  BY <1>2, PolicySharesDefinitions
<1>7. CASE cb.state # "open"
  <2>1. /\ Effective = cb /\ Effective' = cb'
        /\ RemainingOpen(cb) = 0 /\ RemainingOpen(cb') = 0
    BY <1>3, <1>7, NotOpen DEF Effective
  <2> QED
    BY <1>3, <1>6, <1>7, <2>1 DEF Policy!TimePasses
<1>8. CASE cb.state = "open" /\ cb.sinceOpened >= cb.openDuration
  <2>1. cb'.sinceOpened >= cb'.openDuration
    BY <1>3, <1>4, <1>8 DEF Until
  <2>2. /\ Effective.state = "half-open" /\ Effective'.state = "half-open"
        /\ Effective.probesAdmitted = 0 /\ Effective'.probesAdmitted = 0
        /\ Effective.probesSucceeded = 0 /\ Effective'.probesSucceeded = 0
        /\ Effective.openDuration = cb.openDuration
        /\ Effective'.openDuration = cb.openDuration
    BY <1>1, <1>3, <1>5, <1>8, <2>1 DEF Effective, advanceLocked, CircuitBreaker
  <2>3. RemainingOpen(cb) = 0 /\ RemainingOpen(cb') = 0
    BY <1>3, <1>4, <1>8, <2>1 DEF RemainingOpen, Until
  <2> QED
    BY <1>6, <2>2, <2>3 DEF Policy!TimePasses
<1>9. CASE cb.state = "open" /\ cb.sinceOpened < cb.openDuration
  <2>1. Effective = cb /\ RemainingOpen(cb) = cb.openDuration - cb.sinceOpened
    BY <1>4, <1>9 DEF Effective, advanceLocked, RemainingOpen
  <2>2. cb'.sinceOpened = cb.sinceOpened + 1
    BY <1>3, <1>4, <1>9 DEF Until
  <2>3. RemainingOpen(cb') = RemainingOpen(cb) - 1
    BY <1>3, <1>4, <1>9, <2>1, <2>2 DEF RemainingOpen
  <2>4. Effective'.state = IF RemainingOpen(cb') = 0 THEN "half-open" ELSE "open"
    BY <1>3, <1>4, <1>5, <1>9, <2>1, <2>2, <2>3 DEF Effective, advanceLocked, CircuitBreaker
  <2>5. /\ Effective'.openDuration = cb.openDuration
        /\ Effective'.probesAdmitted = 0 /\ Effective'.probesSucceeded = 0
    BY ZenonT(30), <1>1, <1>3, <1>5, <1>9 DEF Effective, advanceLocked, CircuitBreaker
  <2>6. RemainingOpen(cb) > 0
    BY <1>4, <1>9, <2>1
  <2> QED
    BY <1>1, <1>6, <1>9, <2>1, <2>3, <2>4, <2>5, <2>6 DEF Policy!TimePasses
<1> QED
  BY <1>4, <1>7, <1>8, <1>9

\* A breaker that has just opened has the whole period before it.
LEMMA JustOpened ==
  ASSUME NEW b \in CircuitBreaker, b.state = "open", b.sinceOpened = 0,
         b.openDuration >= OpenMin
  PROVE  advanceLocked(b) = b /\ RemainingOpen(b) = b.openDuration
<1>1. b.openDuration \in Nat /\ b.openDuration > 0
  BY BreakerConfig DEF CircuitBreaker
<1> QED
  BY <1>1 DEF advanceLocked, RemainingOpen

\* Every branch of Record is the policy's step of the same name.
LEMMA CallRecordRefines ==
  ASSUME IndInv, NEW o \in BreakerOutcome, CallRecord(o)
  PROVE  Policy!PolicyNext \/ UNCHANGED Policy!policyVars
<1>1. /\ cb \in CircuitBreaker /\ cb.samples \in Seq(breakerSample)
      /\ history \in Seq(breakerSample) /\ WindowOf(cb.samples, history)
      /\ cb.state # "half-open" => cb.probesAdmitted = 0 /\ cb.probesSucceeded = 0
  BY DEF IndInv, TypeOK, WindowIsTailOfHistory, PhasesStartClean, CircuitBreaker
<1>2. Effective \in CircuitBreaker
  BY EffectiveInv
<1>3. cb' \in CircuitBreaker /\ (cb'.state # "closed" => cb'.openDuration >= OpenMin)
  BY CallRecordInv DEF IndInv, TypeOK, PhasesStartClean
<1>4. Effective.state = "half-open" => RemainingOpen(cb) = 0
  BY <1>1, AdvanceTwice, NotOpen DEF Effective
<1>5. CASE cb' = cb /\ history' = history
  BY <1>5, SeenByPolicy DEF Effective
<1>6. ASSUME NEW f \in BOOLEAN, KeepsClosed(f) PROVE Policy!ObserveClosed(f)
  <2>1. ~ Policy!TooManyFailures(Append(history, Sample(f)))
    BY <1>1, <1>6, TripAgrees DEF KeepsClosed, Trimmed, Sample
  <2>2. cb.state = "closed" /\ cb'.state = "closed"
        /\ cb'.probesAdmitted = cb.probesAdmitted /\ cb'.probesSucceeded = cb.probesSucceeded
        /\ history' = Append(history, Sample(f))
    BY <1>1, <1>6 DEF KeepsClosed, CircuitBreaker
  <2>3. /\ Effective = cb /\ Effective' = cb'
        /\ RemainingOpen(cb) = 0 /\ RemainingOpen(cb') = 0
    BY <2>2, NotOpen DEF Effective
  <2> QED
    BY <2>1, <2>2, <2>3 DEF Policy!ObserveClosed, Sample
<1>7. ASSUME NEW f \in BOOLEAN, Trips(f) PROVE Policy!ObserveClosed(f)
  <2>1. Policy!TooManyFailures(Append(history, Sample(f)))
    BY <1>1, <1>7, TripAgrees DEF Trips, Trimmed, Sample
  <2>2. /\ cb.state = "closed" /\ cb'.state = "open" /\ cb'.sinceOpened = 0
        /\ cb'.openDuration = OpenMin /\ history' = <<>>
        /\ cb'.probesAdmitted = 0 /\ cb'.probesSucceeded = 0
    BY <1>1, <1>7 DEF Trips, CircuitBreaker
  <2>3. Effective = cb
    BY <2>2, NotOpen DEF Effective
  <2>4. Effective' = cb' /\ RemainingOpen(cb') = OpenMin
    BY <1>3, <2>2, JustOpened DEF Effective
  <2> QED
    BY <2>1, <2>2, <2>3, <2>4 DEF Policy!ObserveClosed, Policy!BecomeOpen, Sample
<1>8. CASE Reopens
  <2> DEFINE dur == IF 2 * Effective.openDuration > OpenMax
                      THEN OpenMax ELSE 2 * Effective.openDuration
  <2>1. /\ Effective.state = "half-open" /\ cb'.state = "open" /\ cb'.sinceOpened = 0
        /\ cb'.openDuration = dur /\ history' = <<>>
        /\ cb'.probesAdmitted = 0 /\ cb'.probesSucceeded = 0
    BY <1>2, <1>8 DEF Reopens, CircuitBreaker
  <2>2. Effective' = cb' /\ RemainingOpen(cb') = dur
    BY <1>3, <2>1, JustOpened DEF Effective
  <2> QED
    BY <2>1, <2>2 DEF Policy!PolicyNext, Policy!ProbeFails, Policy!BecomeOpen
<1>9. CASE Closes
  <2>1. /\ Effective.state = "half-open" /\ cb'.state = "closed" /\ history' = <<>>
        /\ cb'.probesAdmitted = 0 /\ cb'.probesSucceeded = 0
        /\ Effective.probesSucceeded + 1 >= HalfOpenProbes
    BY <1>2, <1>9 DEF Closes, CircuitBreaker
  <2>2. Effective' = cb' /\ RemainingOpen(cb') = 0
    BY <2>1, NotOpen DEF Effective
  <2> QED
    BY <2>1, <2>2 DEF Policy!PolicyNext, Policy!ProbePasses, Policy!BecomeClosed
<1>10. CASE CountsProbe
  <2>1. /\ Effective.state = "half-open" /\ cb'.state = "half-open"
        /\ cb'.openDuration = Effective.openDuration
        /\ cb'.probesAdmitted = Effective.probesAdmitted
        /\ cb'.probesSucceeded = Effective.probesSucceeded + 1
        /\ ~ (Effective.probesSucceeded + 1 >= HalfOpenProbes)
    BY <1>2, <1>10 DEF CountsProbe, CircuitBreaker
  <2>2. history' = history
    BY <1>10 DEF CountsProbe, IndInv, PhasesStartClean
  <2>3. Effective' = cb' /\ RemainingOpen(cb') = 0
    BY <2>1, NotOpen DEF Effective
  <2> QED
    BY <1>4, <2>1, <2>2, <2>3 DEF Policy!PolicyNext, Policy!ProbePasses
<1>11. (\E f \in BOOLEAN : Policy!ObserveClosed(f)) => Policy!PolicyNext
  BY DEF Policy!PolicyNext
<1> QED
  BY ZenonT(30), <1>5, <1>6, <1>7, <1>8, <1>9, <1>10, <1>11, RecordBranches

\* The breaker of circuit.go, which notices the end of an opening only when
\* it is next called and decides trips on a slice it trims as it goes, is
\* indistinguishable from the policy, whatever the configuration.
THEOREM BreakerRefinesPolicy == Spec => ImplementsPolicy
<1>1. IndInv /\ [Next]_vars => [Policy!PolicyNext]_(Policy!policyVars)
  <2> SUFFICES ASSUME IndInv, [Next]_vars
               PROVE  Policy!PolicyNext \/ UNCHANGED Policy!policyVars
    OBVIOUS
  <2>1. CASE UNCHANGED vars
    BY <2>1, SeenByPolicy DEF vars, Effective
  <2>2. Policy!AdmitProbe \/ Policy!TimePasses => Policy!PolicyNext
    BY DEF Policy!PolicyNext
  <2> QED
    BY <2>1, <2>2, CallStateRefines, CallReserveRefines, CallRecordRefines, TickRefines DEF Next
<1> QED
  BY <1>1, InitRefines, InitInv, StepInv, PTL DEF Spec, ImplementsPolicy, Policy!PolicySpec
=============================================================================
