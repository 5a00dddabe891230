------------------------------ MODULE Selectors ------------------------------
(***************************************************************************)
(* The five selectors (internal/lb): goroutines that Pick an upstream of   *)
(* one pool, count it in flight, and release it.  InFlight is an atomic,   *)
(* and no selector locks it: every load is a step of its own, and what was *)
(* loaded before may have changed.                                         *)
(*                                                                         *)
(* Upstreams are their indices in the pool.  eligibleSet returns any part  *)
(* of it, as health checks, breakers and the attempt's Exclude will have   *)
(* it.  RoundRobin's counter is kept modulo CounterPeriod, a common        *)
(* multiple of all pool sizes, which is all that % n sees of it.  Ring is  *)
(* the sorted ring, by upstream, and a request's key is the ring entry its *)
(* hash leads to.                                                          *)
(***************************************************************************)
EXTENDS Integers, Sequences, FiniteSetsExt

CONSTANTS
  N,                \* upstreams in the pool
  Pickers,          \* bound: goroutines that use the selector at a time
  Weights,          \* the pool's weights: each a function of the upstream
  Ring,             \* ConsistentHashBounded.ring
  Keys,             \* bound: the entries of it that requests' hashes lead to
  EpsNum, EpsDen,   \* epsilon
  CounterPeriod,
  MaxLatency,       \* bound: largest latency of a session
  MaxLoad           \* bound: attempts in flight on an upstream, besides Pickers

Upstreams == 1..N

Algorithms == {"round-robin", "weighted-rr", "least-conn", "p2c-ewma",
               "consistent-hash-bounded"}

ASSUME SelectorAssumption ==
  /\ N \in Nat \ {0} /\ Weights \subseteq [Upstreams -> Int]
  /\ Ring \in Seq(Upstreams) /\ Range(Ring) = Upstreams /\ Keys \subseteq DOMAIN Ring
  /\ EpsNum \in Nat \ {0} /\ EpsDen \in Nat \ {0}
  /\ CounterPeriod \in Nat \ {0} /\ \A n \in Upstreams : CounterPeriod % n = 0
  /\ MaxLatency \in Nat \ {0} /\ MaxLoad \in Nat /\ IsFiniteSet(Pickers)

VARIABLES
  algorithm, weight,           \* the pool's configuration
  reports,                     \* do its requests report their latency
  inFlight, ewma,              \* the upstreams' atomics
  counter, cw,                 \* RoundRobin, WeightedRoundRobin
  pick,                        \* each goroutine: where it is, and its locals
  \* Not in the program:
  disturbed,      \* Picks during which something they read has changed
  uniform, given  \* has every Pick had the whole pool, and to whom it was given

config == <<algorithm, weight, reports>>
atomics == <<inFlight, ewma>>
selector == <<counter, cw>>
ghosts == <<disturbed, uniform, given>>
pickVars == <<config, atomics, selector, pick, ghosts>>

\* list is eligibleSet's result; i a loop's index; low and count what the loops
\* collect (a minimum, a score, the cap; a total, ties); draw what rng returned.
PickPC == {"eligible", "min", "ties", "only", "draw", "tiebreak", "scores",
           "sum", "walk", "fallback", "picked", "none", "panicked"}

Local == [pc : PickPC \cup {"idle", "holding", "closing"},
          key : DOMAIN Ring, list : Seq(Upstreams),
          i : Nat, low : Nat, count : Nat, draw : Nat \X Nat, up : 0..N]

Idle == [pc |-> "idle", key |-> 1, list |-> <<>>, i |-> 1, low |-> 0, count |-> 0,
         draw |-> <<1, 1>>, up |-> 0]

Even == [u \in Upstreams |-> 1]    \* for the selectors that read no weight

\* What a function of the upstreams adds up to, over all of them and over some.
Total(f) ==
  LET sum[n \in 0..N] == IF n = 0 THEN 0 ELSE sum[n - 1] + f[n]
  IN  sum[N]

Only(f, S) == [u \in Upstreams |-> IF u \in S THEN f[u] ELSE 0]

\* The parts of the pool, in its order.
Sublists ==
  {list \in UNION {[1..n -> Upstreams] : n \in 0..N} :
     \A i, j \in DOMAIN list : i < j => list[i] < list[j]}

\* What other attempts hold, for the selectors that compare counts as such.
Loads == IF algorithm \in {"least-conn", "consistent-hash-bounded"}
           THEN [Upstreams -> 0..MaxLoad] ELSE {[u \in Upstreams |-> 0]}

InPick(p) == pick[p].pc \in PickPC

PickInit ==
  /\ algorithm \in Algorithms
  /\ weight \in IF algorithm = "weighted-rr" THEN Weights ELSE {Even}
  /\ reports \in {FALSE, algorithm = "p2c-ewma"}
  /\ inFlight \in Loads
  /\ ewma = [u \in Upstreams |-> 0]
  /\ counter = 0 /\ cw = [u \in Upstreams |-> 0]
  /\ pick = [p \in Pickers |-> Idle]
  /\ disturbed = {}
  /\ uniform = (algorithm \in {"round-robin", "weighted-rr"})
  /\ given = [u \in Upstreams |-> 0]

-----------------------------------------------------------------------------
\* p's next locals, and nothing shared changes.
Goes(p, l) ==
  /\ pick' = [pick EXCEPT ![p] = l]
  /\ UNCHANGED <<config, atomics, selector, ghosts>>

\* p's locals once Pick has returned.
Outcome(p, pc, u) ==
  [Idle EXCEPT !.pc = pc, !.up = u, !.list = pick[p].list, !.key = pick[p].key]

Returns(p, u) == Goes(p, Outcome(p, "picked", u))

\* One load of a loop over list; l is what the loop has collected with it.
Loops(p, l, next) ==
  IF l.i = Len(l.list) THEN Goes(p, [l EXCEPT !.pc = next, !.i = 1])
                       ELSE Goes(p, [l EXCEPT !.i = @ + 1])

\* Pick is called for a request with this key; eligibleSet keeps the pool's
\* order.
eligibleSet(p, key, list) ==
  /\ pick[p].pc = "idle"
  /\ pick' = [pick EXCEPT ![p] =
                [Idle EXCEPT !.pc = "eligible", !.key = key, !.list = list]]
  /\ uniform' = (uniform /\ Len(list) = N)
  /\ given' = [u \in Upstreams |-> IF uniform' THEN given[u] ELSE 0]
  /\ UNCHANGED <<config, atomics, selector, disturbed>>

\* What every Pick does with an empty list, and with a list of one.
NoneOrOne(p) ==
  LET l == pick[p]
  IN  /\ l.pc = "eligible"
      /\ \/ l.list = <<>> /\ Goes(p, Outcome(p, "none", 0))
         \/ Len(l.list) = 1 /\ Returns(p, l.list[1])

Enters(p, alg, next) ==
  /\ pick[p].pc = "eligible" /\ Len(pick[p].list) > 1 /\ algorithm = alg
  /\ Goes(p, [pick[p] EXCEPT !.pc = next])

-----------------------------------------------------------------------------
\* A Pick was given to u.  Whole rounds are taken off, each upstream's share of
\* a round being share[u].
Gives(u, share) ==
  LET g == [given EXCEPT ![u] = @ + 1]
      round == \A v \in Upstreams : g[v] >= share[v]
  IN  given' = [v \in Upstreams |-> IF ~ uniform THEN 0
                                    ELSE IF round THEN g[v] - share[v] ELSE g[v]]

\* RoundRobin: counter.Add(1), the only step on shared state.
RoundRobin(p) ==
  LET list == pick[p].list
      next == (counter + 1) % CounterPeriod
      u == list[(next % Len(list)) + 1]
  IN  /\ pick[p].pc = "eligible" /\ Len(list) > 1 /\ algorithm = "round-robin"
      /\ counter' = next
      /\ pick' = [pick EXCEPT ![p] = Outcome(p, "picked", u)]
      /\ Gives(u, [v \in Upstreams |-> 1])
      /\ UNCHANGED <<config, atomics, cw, disturbed, uniform>>

\* Weights that count: an upstream without a positive one is skipped.
effective == [u \in Upstreams |-> IF weight[u] > 0 THEN weight[u] ELSE 0]

\* Mutants of WeightedRoundRobin: the chosen one pays its own weight; the choice
\* is by weight.
paysOwnWeight(p) ==
  LET cands == {u \in Range(pick[p].list) : weight[u] > 0}
      gained == [u \in Upstreams |-> IF u \in cands THEN cw[u] + weight[u] ELSE cw[u]]
      best == Min({u \in cands : \A v \in cands : gained[v] <= gained[u]})
  IN  /\ pick[p].pc = "eligible" /\ Len(pick[p].list) > 1 /\ algorithm = "weighted-rr"
      /\ cands # {}
      /\ cw' = [gained EXCEPT ![best] = @ - weight[best]]
      /\ pick' = [pick EXCEPT ![p] = Outcome(p, "picked", best)]
      /\ Gives(best, effective)
      /\ UNCHANGED <<config, atomics, counter, disturbed, uniform>>

choosesByWeight(p) ==
  LET cands == {u \in Range(pick[p].list) : weight[u] > 0}
      gained == [u \in Upstreams |-> IF u \in cands THEN cw[u] + weight[u] ELSE cw[u]]
      best == Min({u \in cands : \A v \in cands : weight[v] <= weight[u]})
  IN  /\ pick[p].pc = "eligible" /\ Len(pick[p].list) > 1 /\ algorithm = "weighted-rr"
      /\ cands # {}
      /\ cw' = [gained EXCEPT ![best] = @ - Total(Only(weight, cands))]
      /\ pick' = [pick EXCEPT ![p] = Outcome(p, "picked", best)]
      /\ Gives(best, effective)
      /\ UNCHANGED <<config, atomics, counter, disturbed, uniform>>

\* WeightedRoundRobin, from Lock to Unlock: every candidate gains its weight,
\* the first of those that have most is chosen, and pays for all.
WeightedRoundRobin(p) ==
  LET cands == {u \in Range(pick[p].list) : weight[u] > 0}
      gained == [u \in Upstreams |-> IF u \in cands THEN cw[u] + weight[u] ELSE cw[u]]
      best == Min({u \in cands : \A v \in cands : gained[v] <= gained[u]})
  IN  /\ pick[p].pc = "eligible" /\ Len(pick[p].list) > 1 /\ algorithm = "weighted-rr"
      /\ \/ cands = {} /\ Goes(p, Outcome(p, "none", 0))
         \/ /\ cands # {}
            /\ cw' = [gained EXCEPT ![best] = @ - Total(Only(weight, cands))]
            /\ pick' = [pick EXCEPT ![p] = Outcome(p, "picked", best)]
            /\ Gives(best, effective)
            /\ UNCHANGED <<config, atomics, counter, disturbed, uniform>>

-----------------------------------------------------------------------------
\* LeastConnections: the minimum, then how many have it, each from new loads.
LoadMin(p) ==
  LET l == pick[p]
      v == inFlight[l.list[l.i]]
  IN  /\ l.pc = "min"
      /\ Loops(p, [l EXCEPT !.low = IF l.i = 1 \/ v < @ THEN v ELSE @], "ties")

LoadTies(p) ==
  LET l == pick[p]
      count == l.count + (IF inFlight[l.list[l.i]] = l.low THEN 1 ELSE 0)
  IN  /\ l.pc = "ties"
      /\ Loops(p, [l EXCEPT !.count = count], IF count = 1 THEN "only" ELSE "draw")

\* One tie: the first to have the minimum now; if none has, on to the draw.
LoadOnly(p) ==
  LET l == pick[p]
  IN  /\ l.pc = "only"
      /\ IF inFlight[l.list[l.i]] = l.low THEN Returns(p, l.list[l.i])
                                          ELSE Loops(p, l, "draw")

\* rng.IntN(tieCount), which panics when tieCount is 0.
DrawTie(p) ==
  LET l == pick[p]
  IN  /\ l.pc = "draw"
      /\ \/ l.count = 0 /\ Goes(p, Outcome(p, "panicked", 0))
         \/ \E d \in 0..(l.count - 1) :
              Goes(p, [l EXCEPT !.pc = "tiebreak", !.draw = <<d, d>>, !.count = 0])

\* The drawn one of those that have the minimum now, else the first of list.
LoadTieBreak(p) ==
  LET l == pick[p]
      ties == inFlight[l.list[l.i]] = l.low
  IN  /\ l.pc = "tiebreak"
      /\ \/ ties /\ l.count = l.draw[1] /\ Returns(p, l.list[l.i])
         \/ /\ ~ (ties /\ l.count = l.draw[1])
            /\ IF l.i = Len(l.list) THEN Returns(p, l.list[1])
               ELSE Goes(p, [l EXCEPT !.i = @ + 1, !.count = IF ties THEN @ + 1 ELSE @])

-----------------------------------------------------------------------------
\* P2C: two distinct indices, then one score after the other, each from a load
\* of the average and one of InFlight.
SampleTwo(p, i, j) ==
  LET l == pick[p]
  IN  /\ l.pc = "eligible" /\ algorithm = "p2c-ewma"
      /\ i \in DOMAIN l.list /\ j \in DOMAIN l.list /\ i # j
      /\ Goes(p, [l EXCEPT !.pc = "scores", !.draw = <<i, j>>])

LoadScore(p) ==
  LET l == pick[p]
      a == l.list[l.draw[1]]
      b == l.list[l.draw[2]]
  IN  /\ l.pc = "scores"
      /\ \/ l.i = 1 /\ Goes(p, [l EXCEPT !.i = 2, !.low = ewma[a]])
         \/ l.i = 2 /\ Goes(p, [l EXCEPT !.i = 3, !.low = @ * (1 + inFlight[a])])
         \/ l.i = 3 /\ Goes(p, [l EXCEPT !.i = 4, !.count = ewma[b]])
         \/ l.i = 4 /\ Returns(p, IF l.low <= l.count * (1 + inFlight[b]) THEN a ELSE b)

-----------------------------------------------------------------------------
\* The cap: (1 + epsilon) times the mean, rounded up, and at least 1.
Capacity(total, n) ==
  LET num == (EpsDen + EpsNum) * total
      den == EpsDen * n
  IN  Max({1, (num + den - 1) \div den})

\* ConsistentHashBounded: the total in flight, for the cap.
LoadTotal(p) ==
  LET l == pick[p]
      total == l.count + inFlight[l.list[l.i]]
  IN  /\ l.pc = "sum"
      /\ Loops(p, [l EXCEPT !.count = total,
                            !.low = IF l.i = Len(l.list) THEN Capacity(total, l.i) ELSE 0],
               "walk")

\* The i-th ring entry clockwise, from the key's.
Entry(key, i) == Ring[((key + i - 2) % Len(Ring)) + 1]

\* Does the walk look at an upstream there, eligible and not visited before?
Visits(l, i) ==
  /\ Entry(l.key, i) \in Range(l.list)
  /\ \A j \in 1..(i - 1) : Entry(l.key, j) # Entry(l.key, i)

\* Mutant of LoadWalk: an upstream that would just reach the cap is passed over.
walksPastCap(p) ==
  LET l == pick[p]
      ahead == {i \in l.i..Len(Ring) : Visits(l, i)}
      u == Entry(l.key, Min(ahead))
  IN  /\ l.pc = "walk"
      /\ IF ahead = {} THEN Goes(p, [l EXCEPT !.pc = "fallback", !.i = 1, !.low = 0])
         ELSE IF inFlight[u] + 1 < l.low THEN Returns(p, u)
         ELSE Goes(p, [l EXCEPT !.i = Min(ahead) + 1])

\* The next upstream of the walk, if there is one, with what is in flight.
LoadWalk(p) ==
  LET l == pick[p]
      ahead == {i \in l.i..Len(Ring) : Visits(l, i)}
      u == Entry(l.key, Min(ahead))
  IN  /\ l.pc = "walk"
      /\ IF ahead = {} THEN Goes(p, [l EXCEPT !.pc = "fallback", !.i = 1, !.low = 0])
         ELSE IF inFlight[u] + 1 <= l.low THEN Returns(p, u)
         ELSE Goes(p, [l EXCEPT !.i = Min(ahead) + 1])

\* Every one was at the cap: the first of those with least in flight.
LoadFallback(p) ==
  LET l == pick[p]
      v == inFlight[l.list[l.i]]
      better == l.i = 1 \/ v < l.low
      best == IF better THEN l.i ELSE l.draw[1]
  IN  /\ l.pc = "fallback"
      /\ IF l.i = Len(l.list) THEN Returns(p, l.list[best])
         ELSE Goes(p, [l EXCEPT !.i = @ + 1, !.low = IF better THEN v ELSE @,
                                !.draw = <<best, best>>])

PickStep(p) ==
  \/ NoneOrOne(p)
  \/ RoundRobin(p)
  \/ WeightedRoundRobin(p)
  \/ Enters(p, "least-conn", "min")
  \/ LoadMin(p) \/ LoadTies(p) \/ LoadOnly(p) \/ DrawTie(p) \/ LoadTieBreak(p)
  \/ \E i, j \in Upstreams : SampleTwo(p, i, j)
  \/ LoadScore(p)
  \/ Enters(p, "consistent-hash-bounded", "sum")
  \/ LoadTotal(p) \/ LoadWalk(p) \/ LoadFallback(p)

-----------------------------------------------------------------------------
\* p is out of Pick, and what the others have loaded is no longer so.
Disturbs(p) == disturbed' = {q \in Pickers \ {p} : InPick(q)}

\* The caller counts the attempt in flight, when Reserve or the dial lets it.
AddInFlight(p) ==
  /\ pick[p].pc = "picked"
  /\ inFlight' = [inFlight EXCEPT ![pick[p].up] = @ + 1]
  /\ pick' = [pick EXCEPT ![p] = [Idle EXCEPT !.pc = "holding", !.up = pick[p].up]]
  /\ Disturbs(p)
  /\ UNCHANGED <<config, ewma, selector, uniform, given>>

\* Mutant of GivesUp: Add(-1) deferred before Reserve.
givesUpAfterDefer(p) ==
  /\ pick[p].pc \in {"picked", "none", "panicked"}
  /\ inFlight' = IF pick[p].pc = "picked" THEN [inFlight EXCEPT ![pick[p].up] = @ - 1]
                 ELSE inFlight
  /\ pick' = [pick EXCEPT ![p] = Idle]
  /\ disturbed' = disturbed \ {p}
  /\ UNCHANGED <<config, ewma, selector, uniform, given>>

GivesUp(p) ==
  /\ pick[p].pc \in {"picked", "none", "panicked"}
  /\ pick' = [pick EXCEPT ![p] = Idle]
  /\ disturbed' = disturbed \ {p}
  /\ UNCHANGED <<config, atomics, selector, uniform, given>>

\* Upstream.RecordLatency: the first observation is taken as it is, a later
\* one moves the average towards itself.
RecordLatency(p, obs, avg) ==
  LET u == pick[p].up
      old == IF ewma[u] = 0 THEN obs ELSE ewma[u]
  IN  /\ pick[p].pc = "holding" /\ reports
      /\ avg \in Min({old, obs})..Max({old, obs})
      /\ ewma' = [ewma EXCEPT ![u] = avg]
      /\ pick' = [pick EXCEPT ![p].pc = "closing"]
      /\ Disturbs(p)
      /\ UNCHANGED <<config, inFlight, selector, uniform, given>>

Release(p) ==
  /\ pick[p].pc = IF reports THEN "closing" ELSE "holding"
  /\ inFlight' = [inFlight EXCEPT ![pick[p].up] = @ - 1]
  /\ pick' = [pick EXCEPT ![p] = Idle]
  /\ Disturbs(p)
  /\ UNCHANGED <<config, ewma, selector, uniform, given>>

\* One of the other attempts ends.
OtherEnds(u) ==
  /\ inFlight[u] > Cardinality({p \in Pickers : pick[p].pc \in {"holding", "closing"}
                                                /\ pick[p].up = u})
  /\ inFlight' = [inFlight EXCEPT ![u] = @ - 1]
  /\ disturbed' = {p \in Pickers : InPick(p)}
  /\ UNCHANGED <<config, ewma, selector, pick, uniform, given>>

RequestKeys == IF algorithm = "consistent-hash-bounded" THEN Keys ELSE {1}

PickNext ==
  \/ \E p \in Pickers :
       \/ \E key \in RequestKeys, list \in Sublists : eligibleSet(p, key, list)
       \/ PickStep(p)
       \/ AddInFlight(p) \/ GivesUp(p) \/ Release(p)
       \/ \E obs \in 1..MaxLatency, avg \in 1..MaxLatency : RecordLatency(p, obs, avg)
  \/ \E u \in Upstreams : OtherEnds(u)

PickSpec == PickInit /\ [][PickNext]_pickVars

-----------------------------------------------------------------------------
\* Fields, locals and the selectors' own state keep their types; no count in
\* flight goes below zero, and the counter stays one period.
PickTypeOK ==
  /\ algorithm \in Algorithms /\ weight \in Weights \cup {Even} /\ reports \in BOOLEAN
  /\ inFlight \in [Upstreams -> Nat] /\ ewma \in [Upstreams -> 0..MaxLatency]
  /\ counter \in 0..(CounterPeriod - 1) /\ cw \in [Upstreams -> Int]
  /\ pick \in [Pickers -> Local]
  /\ disturbed \subseteq Pickers
  /\ uniform \in BOOLEAN /\ given \in [Upstreams -> Nat]

score(u) == ewma[u] * (1 + inFlight[u])

\* What the documentation promises of a Pick, for one that happens at once.
Candidates(p) == Range(pick[p].list)

Roomy(p) ==
  LET cands == Candidates(p)
      cap == Capacity(Total(Only(inFlight, cands)), Len(pick[p].list))
  IN  {u \in cands : inFlight[u] + 1 <= cap}

Distance(key, u) == Min({i \in DOMAIN Ring : Entry(key, i) = u})

Promised(p) ==
  LET cands == Candidates(p)
  IN  IF Len(pick[p].list) = 1 THEN cands
      ELSE CASE algorithm = "least-conn" ->
             {u \in cands : \A v \in cands : inFlight[u] <= inFlight[v]}
        [] algorithm = "p2c-ewma" ->
             {u \in cands : \E v \in cands \ {u} : score(u) <= score(v)}
        [] algorithm = "consistent-hash-bounded" ->
             {u \in Roomy(p) : \A v \in Roomy(p) :
                Distance(pick[p].key, u) <= Distance(pick[p].key, v)}
        [] OTHER -> cands

\* A Pick that nothing disturbs returns what its algorithm promises, load by
\* load though it works: least-conn a least loaded upstream, p2c never the worst,
\* consistent hashing the nearest with room, of which there always is one.  So
\* only a race makes least-conn panic, or consistent hashing pass its cap.
UndisturbedPickIsExact ==
  \A p \in Pickers \ disturbed :
    /\ pick[p].pc # "panicked"
    /\ pick[p].pc = "picked" => pick[p].up \in Promised(p)

\* While every Pick has the whole pool, round-robin has given no upstream more
\* than one Pick more than another; and weighted-rr gives each exactly its
\* weight in a round, a round being as many Picks as the weights add up to, and
\* within the round none a whole Pick more than its share, nor (N - 1) / 2
\* Picks less: whatever Picks overlap.
EveryoneGetsTheirShare ==
  LET picks == Total(given)
      total == Total(effective)
  IN  uniform =>
        /\ algorithm = "round-robin" =>
             \A u, v \in Upstreams : given[u] <= given[v] + 1
        /\ algorithm = "weighted-rr" /\ total > 0 =>
             /\ picks < total
             /\ \A u \in Upstreams : LET due == picks * effective[u] - total * given[u]
                                     IN  - total < due /\ 2 * due <= (N - 1) * total

\* Weighted round robin neither loses nor invents credit: through any changes
\* of eligibility the current weights add up to nothing, and none runs away.
\* (With three upstreams the bound is the sum of the weights; with more, one
\* can be further from its due than that.)
CreditIsConserved ==
  /\ Total(cw) = 0
  /\ \A u \in Upstreams : LET bound == (N - 1) * Total(effective)
                          IN  - bound <= 2 * cw[u] /\ 2 * cw[u] <= bound
=============================================================================
