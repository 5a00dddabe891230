---------------------------- MODULE HealthMonitor ----------------------------
(***************************************************************************)
(* The health monitors of one upstream (internal/health/monitor.go): the   *)
(* probe goroutines of the monitor that runs now, those an earlier monitor *)
(* left behind when a reload rebuilt the pool (cmd/l7rp/main.go), and the  *)
(* request handlers that feed the passive score, all storing to the one    *)
(* Eligible flag.  Probes overlap: a tick starts one whether or not the    *)
(* previous one is over.                                                   *)
(*                                                                         *)
(* Counters are capped one past the thresholds they are compared with.  The*)
(* passive score is kept as what the code asks of it, is it above the      *)
(* threshold: an average moves towards a sample by any amount, or none.    *)
(***************************************************************************)
EXTENDS Integers, Sequences

CONSTANTS
  Probes,               \* bound: probe goroutines alive at a time
  MaxMonitors,          \* bound: monitors built for this upstream, one per reload
  HealthyThreshold,
  UnhealthyThreshold

ASSUME MonitorConfig ==
  /\ MaxMonitors \in Nat \ {0}
  /\ HealthyThreshold \in Nat \ {0} /\ UnhealthyThreshold \in Nat \ {0}

VARIABLES
  backend,     \* "up", "sick" (passes probes, fails requests) or "down"
  eligible,    \* u.Eligible
  gen,         \* the pool's present monitor, by number
  mode,        \* its Run: "starting", "running", or "stopping" once cancelled
  states,      \* each monitor's probeState
  probe,       \* each probe goroutine
  \* Not in the program:
  results      \* each monitor's probe results since a failure, the last HealthyThreshold

monVars == <<gen, mode>>
healthVars == <<backend, eligible, monVars, states, probe, results>>

Monitors == 1..MaxMonitors

probeState == [successes : 0..(HealthyThreshold + 1),
               failures  : 0..(UnhealthyThreshold + 1),
               scored    : BOOLEAN,    \* lastPassive is set
               high      : BOOLEAN]    \* errEWMA > threshold

NoResults == [successes |-> 0, failures |-> 0, scored |-> FALSE, high |-> FALSE]

\* A goroutine's locals: whose monitor it belongs to, its result, and whether
\* the counter it read under the lock reached the threshold.
ProbePC == {"idle", "sent", "answered", "counted", "storing"}
Probe == [pc : ProbePC, mon : Monitors, ok : BOOLEAN, enough : BOOLEAN]

NoProbe == [pc |-> "idle", mon |-> 1, ok |-> FALSE, enough |-> FALSE]

HealthInit ==
  /\ backend \in {"up", "sick", "down"}
  /\ eligible = FALSE
  /\ gen = 1 /\ mode = "starting"
  /\ states = [g \in Monitors |-> NoResults]
  /\ probe = [p \in Probes |-> NoProbe]
  /\ results = [g \in Monitors |-> <<>>]

-----------------------------------------------------------------------------
Capped(n, threshold) == IF n > threshold THEN threshold + 1 ELSE n

\* Run, to its loop: every upstream of the pool is ineligible until probed.
RunStarts ==
  /\ mode = "starting"
  /\ mode' = "running"
  /\ eligible' = FALSE
  /\ UNCHANGED <<backend, gen, states, probe, results>>

\* A tick, or the end of the first jitter, starts a probe.  A tick may still
\* win over a context that has ended.
StartProbe(p) ==
  /\ mode \in {"running", "stopping"} /\ probe[p].pc = "idle"
  /\ probe' = [probe EXCEPT ![p].pc = "sent", ![p].mon = gen]
  /\ UNCHANGED <<backend, eligible, monVars, states, results>>

Stopped(g) == g < gen \/ (g = gen /\ mode = "stopping")

\* client.Do returns: with the backend's answer, or with the context's end.
Answer(p, ok) ==
  /\ probe[p].pc = "sent"
  /\ ok => backend # "down"
  /\ ~ ok => backend = "down" \/ Stopped(probe[p].mon)
  /\ probe' = [probe EXCEPT ![p].pc = "answered", ![p].ok = ok]
  /\ UNCHANGED <<backend, eligible, monVars, states, results>>

\* Mutant of Counted: a failure leaves the run of successes as it is.
countedWithoutReset(s, ok) ==
  IF ok THEN [s EXCEPT !.successes = Capped(@ + 1, HealthyThreshold), !.failures = 0]
        ELSE [s EXCEPT !.failures = Capped(@ + 1, UnhealthyThreshold)]

Counted(s, ok) ==
  IF ok THEN [s EXCEPT !.successes = Capped(@ + 1, HealthyThreshold), !.failures = 0]
        ELSE [s EXCEPT !.failures = Capped(@ + 1, UnhealthyThreshold), !.successes = 0]

\* Mutant of Reached: a threshold is met only by its exact count.
reachedExactly(s, ok) ==
  IF ok THEN s.successes = HealthyThreshold ELSE s.failures = UnhealthyThreshold

Reached(s, ok) ==
  IF ok THEN s.successes >= HealthyThreshold ELSE s.failures >= UnhealthyThreshold

LastResults(s) ==
  SubSeq(s, IF Len(s) > HealthyThreshold THEN Len(s) - HealthyThreshold + 1 ELSE 1, Len(s))

\* recordResult, under the lock: count the result and copy the counters.  (A
\* failure makes the results before it irrelevant.)
Count(p) ==
  LET g == probe[p].mon
      ok == probe[p].ok
      s == Counted(states[g], ok)
  IN  /\ probe[p].pc = "answered"
      /\ states' = [states EXCEPT ![g] = s]
      /\ probe' = [probe EXCEPT ![p].pc = "counted", ![p].enough = Reached(s, ok)]
      /\ results' = [results EXCEPT ![g] = IF ok THEN LastResults(Append(@, ok)) ELSE <<>>]
      /\ UNCHANGED <<backend, eligible, monVars>>

Done(p) == [probe EXCEPT ![p] = NoProbe]

\* recordResult, after the unlock: read Eligible, and then store to it.
Decide(p) ==
  /\ probe[p].pc = "counted"
  /\ probe' = IF probe[p].enough /\ eligible # probe[p].ok
                THEN [probe EXCEPT ![p].pc = "storing"] ELSE Done(p)
  /\ UNCHANGED <<backend, eligible, monVars, states, results>>

Store(p) ==
  /\ probe[p].pc = "storing"
  /\ eligible' = probe[p].ok
  /\ probe' = Done(p)
  /\ UNCHANGED <<backend, monVars, states, results>>

-----------------------------------------------------------------------------
\* Is the score above the threshold after a sample: the first sample is the
\* score, and a later one only moves the score towards itself.
Scores(s, isError) ==
  IF ~ s.scored THEN {isError}
  ELSE IF isError THEN {s.high, TRUE} ELSE {s.high, FALSE}

\* RecordOutcome, for a request handler whose pool's monitor was g.  The score
\* may clear the flag, whatever this sample was, and then resets the counters.
RecordOutcome(g, isError, high) ==
  LET ejects == high /\ eligible
  IN  /\ g <= gen
      /\ isError => backend # "up"
      /\ ~ isError => backend = "up"
      /\ high \in Scores(states[g], isError)
      /\ states' = [states EXCEPT ![g] =
           [successes |-> IF ejects THEN 0 ELSE @.successes,
            failures  |-> IF ejects THEN 0 ELSE @.failures,
            scored    |-> TRUE,
            high      |-> high]]
      /\ eligible' = (eligible /\ ~ high)
      /\ UNCHANGED <<backend, monVars, probe, results>>

-----------------------------------------------------------------------------
\* A reload rebuilds the pool: it cancels the monitor, waits for its Run to
\* return, which no probe goroutine holds up, and starts the next monitor.
CancelMonitor ==
  /\ mode = "running" /\ gen < MaxMonitors
  /\ mode' = "stopping"
  /\ UNCHANGED <<backend, eligible, gen, states, probe, results>>

ReplaceMonitor ==
  /\ mode = "stopping"
  /\ mode' = "starting" /\ gen' = gen + 1
  /\ UNCHANGED <<backend, eligible, states, probe, results>>

BackendChanges ==
  /\ backend' \in {"up", "sick", "down"} \ {backend}
  /\ UNCHANGED <<eligible, monVars, states, probe, results>>

ProbeSteps(p) ==
  \/ \E ok \in BOOLEAN : Answer(p, ok)
  \/ Count(p)
  \/ Decide(p)
  \/ Store(p)

HealthNext ==
  \/ RunStarts
  \/ \E p \in Probes : StartProbe(p) \/ ProbeSteps(p)
  \/ \E g \in Monitors, isError \in BOOLEAN, high \in BOOLEAN : RecordOutcome(g, isError, high)
  \/ CancelMonitor
  \/ ReplaceMonitor
  \/ BackendChanges

HealthSpec == HealthInit /\ [][HealthNext]_healthVars

\* The ticker keeps starting probes, a probe ends (it has a timeout), and a
\* reload that cancelled a monitor goes on to start the next one.
Fairness ==
  /\ WF_healthVars(RunStarts) /\ WF_healthVars(ReplaceMonitor)
  /\ \A p \in Probes : WF_healthVars(StartProbe(p)) /\ WF_healthVars(ProbeSteps(p))

FairHealthSpec == HealthSpec /\ Fairness

-----------------------------------------------------------------------------
\* Counters stay within their caps and goroutines keep to recordResult's steps.
\* (A reload stops a monitor only to start the next.)
HealthTypeOK ==
  /\ backend \in {"up", "sick", "down"}
  /\ eligible \in BOOLEAN
  /\ gen \in Monitors
  /\ mode \in {"starting", "running"} \/ (mode = "stopping" /\ gen < MaxMonitors)
  /\ states \in [Monitors -> probeState]
  /\ probe \in [Probes -> Probe]
  /\ results \in [Monitors -> Seq(BOOLEAN)]
  /\ \A g \in Monitors : Len(results[g]) <= HealthyThreshold

\* A monitor's success counter reaches HealthyThreshold only when its last
\* HealthyThreshold probes all succeeded, however probes overlap and whenever
\* the passive score resets the counters: no untested or flapping upstream is
\* put into rotation on a miscounted run.
RestoredByRun ==
  \A g \in Monitors : states[g].successes >= HealthyThreshold =>
    Len(results[g]) = HealthyThreshold /\ \A i \in 1..HealthyThreshold : results[g][i]

\* A backend that goes down and stays down leaves rotation for good, whatever
\* probes were still running with an older result when it went.
DownStaysOut == <>[](backend = "down") => <>[](~ eligible)

\* A backend that comes up and stays up is put back into rotation again and
\* again: neither the score, which cannot restore, nor a stale probe that takes
\* it out keeps it out.
UpComesBack == <>[](backend = "up") => []<>eligible
=============================================================================
