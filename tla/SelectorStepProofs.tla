------------------------- MODULE SelectorStepProofs -------------------------
(***************************************************************************)
(* The invariant of Selectors' Picks, and that it is kept by every step of *)
(* a Pick's loop over its list (leastconnections.go, p2c.go and            *)
(* consistenthash.go) and by what callers do before and after Pick.        *)
(* SelectorsProofs has the choices of round robin and weighted round robin *)
(* and the theorems.                                                       *)
(***************************************************************************)
EXTENDS Selectors, FiniteSetTheorems, WellFoundedInduction, TLAPS

USE SMTT(30)


\* What a function of the upstreams adds up to.

\* A non-empty set of naturals has a least element.
LEMMA LeastNatural ==
  ASSUME NEW T \in SUBSET Nat, T # {}
  PROVE  \E m \in T : \A n \in T : m <= n
<1>1. PICK m \in T : \A n \in T : ~ (<<n, m>> \in OpToRel(<, Nat))
  BY Zenon, NatLessThanWellFounded, WFMin
<1>2. \A n \in T : ~ (n < m)
  BY Zenon, <1>1 DEF OpToRel
<1> QED
  BY <1>2

\* Induction over the naturals up to n, for a set.
LEMMA UpTo ==
  ASSUME NEW n \in Nat, NEW D, 0 \in D, \A k \in 1..n : k - 1 \in D => k \in D
  PROVE  \A k \in 0..n : k \in D
<1> DEFINE Out == {k \in 0..n : k \notin D}
<1>1. ASSUME Out # {} PROVE FALSE
  <2>1. Out \in SUBSET Nat
    OBVIOUS
  <2>2. PICK m \in Out : \A k \in Out : m <= k
    <3> HIDE DEF Out
    <3> QED
      BY <1>1, <2>1, LeastNatural
  <2>3. m \in 1..n /\ m - 1 \in 0..n /\ m - 1 \notin Out
    BY <2>2
  <2> QED
    BY <2>2, <2>3
<1> QED
  BY <1>1

\* f[k] is what the first k of n steps make of base.
Iterates(f, S, base, n, step) ==
  /\ f \in [0..n -> S] /\ f[0] = base
  /\ \A k \in 1..n : f[k] = step[k][f[k - 1]]

\* A value can be taken through n steps, one after the other: what a loop that
\* is written as a recursive function computes is there.
LEMMA StepByStep ==
  ASSUME NEW S, NEW base \in S, NEW n \in Nat, NEW step \in [1..n -> [S -> S]]
  PROVE  \E f : Iterates(f, S, base, n, step)
<1> DEFINE Reaches(m) ==
      \E f \in [0..m -> S] : f[0] = base /\ \A k \in 1..m : f[k] = step[k][f[k - 1]]
           D == {m \in 0..n : Reaches(m)}
<1>1. Reaches(0)
  <2>1. [k \in 0..0 |-> base] \in [0..0 -> S] /\ [k \in 0..0 |-> base][0] = base
    OBVIOUS
  <2>2. \A k \in 1..0 : FALSE
    OBVIOUS
  <2> QED
    BY Zenon, <2>1, <2>2
<1>2. ASSUME NEW m \in 1..n, Reaches(m - 1)
      PROVE  Reaches(m)
  <2>1. PICK f \in [0..(m - 1) -> S] :
          f[0] = base /\ \A k \in 1..(m - 1) : f[k] = step[k][f[k - 1]]
    BY <1>2
  <2> DEFINE g == [k \in 0..m |-> IF k = m THEN step[m][f[m - 1]] ELSE f[k]]
  <2>2. step[m][f[m - 1]] \in S
    OBVIOUS
  <2>3. g \in [0..m -> S]
    BY <2>2
  <2>4. g[0] = base
    BY <2>1
  <2>5. \A k \in 1..m : g[k] = step[k][g[k - 1]]
    BY <2>1
  <2> QED
    BY Zenon, <2>3, <2>4, <2>5
<1> HIDE DEF Reaches
<1>3. 0 \in D /\ \A k \in 1..n : k - 1 \in D => k \in D
  BY <1>1, <1>2
<1>4. \A k \in 0..n : k \in D
  <2> HIDE DEF D
  <2> QED
    BY Zenon, <1>3, UpTo
<1> QED
  BY <1>4 DEF Reaches, Iterates

\* Total adds up its argument from the first upstream on.
LEMMA TotalAddsUp ==
  ASSUME NEW f \in [Upstreams -> Int]
  PROVE  \E sum \in [0..N -> Int] :
           /\ sum[0] = 0 /\ \A k \in 1..N : sum[k] = sum[k - 1] + f[k]
           /\ Total(f) = sum[N]
<1> DEFINE step == [k \in 1..N |-> [v \in Int |-> v + f[k]]]
           Adds(g) == g = [k \in 0..N |-> IF k = 0 THEN 0 ELSE g[k - 1] + f[k]]
           sum == CHOOSE g : Adds(g)
<1>1. N \in Nat /\ 0 \in Int /\ step \in [1..N -> [Int -> Int]]
  BY SelectorAssumption DEF Upstreams
<1>2. PICK g : Iterates(g, Int, 0, N, step)
  <2> HIDE DEF step
  <2> QED
    BY <1>1, StepByStep, Zenon
<1>3. \A k \in 1..N : g[k] = g[k - 1] + f[k]
  <2> TAKE k \in 1..N
  <2>1. g[k] = step[k][g[k - 1]]
    BY <1>2 DEF Iterates
  <2>2. k - 1 \in 0..N
    BY <1>1
  <2>3. g[k - 1] \in Int
    BY <1>2, <2>2 DEF Iterates
  <2>4. step[k] = [v \in Int |-> v + f[k]]
    OBVIOUS
  <2> QED
    BY <2>1, <2>3, <2>4
<1>4. g \in [0..N -> Int] /\ g[0] = 0
  BY <1>2 DEF Iterates
<1>5. Adds(g)
  BY <1>1, <1>3, <1>4
<1>6. Adds(sum)
  BY Zenon, <1>5
<1>7. Total(f) = sum[N]
  BY DEF Total
<1> HIDE DEF sum
<1>8. sum[0] = 0 /\ \A k \in 1..N : sum[k] = sum[k - 1] + f[k]
  <2>1. \A k \in 0..N : sum[k] = IF k = 0 THEN 0 ELSE sum[k - 1] + f[k]
    BY <1>6, Zenon
  <2> QED
    BY <1>1, <2>1
<1>9. \A k \in 0..N : sum[k] = g[k]
  <2> DEFINE D == {k \in 0..N : sum[k] = g[k]}
  <2>1. 0 \in D /\ \A k \in 1..N : k - 1 \in D => k \in D
    BY <1>1, <1>3, <1>4, <1>8
  <2>2. \A k \in 0..N : k \in D
    <3> HIDE DEF D
    <3> QED
      BY Zenon, <1>1, <2>1, UpTo
  <2> QED
    BY <2>2
<1>10. sum \in [0..N -> Int]
  BY <1>4, <1>6, <1>9
<1> QED
  BY Zenon, <1>7, <1>8, <1>10

\* What is added up one by one is added up.
LEMMA TotalOfSum ==
  ASSUME NEW f \in [Upstreams -> Int], NEW g \in [Upstreams -> Int],
         NEW h \in [Upstreams -> Int], \A u \in Upstreams : h[u] = f[u] + g[u]
  PROVE  Total(f) \in Int /\ Total(g) \in Int /\ Total(h) = Total(f) + Total(g)
<1>1. N \in Nat
  BY SelectorAssumption
<1>2. PICK F \in [0..N -> Int] : /\ F[0] = 0 /\ \A k \in 1..N : F[k] = F[k - 1] + f[k]
                                /\ Total(f) = F[N]
  BY Zenon, TotalAddsUp
<1>3. PICK G \in [0..N -> Int] : /\ G[0] = 0 /\ \A k \in 1..N : G[k] = G[k - 1] + g[k]
                                /\ Total(g) = G[N]
  BY Zenon, TotalAddsUp
<1>4. PICK H \in [0..N -> Int] : /\ H[0] = 0 /\ \A k \in 1..N : H[k] = H[k - 1] + h[k]
                                /\ Total(h) = H[N]
  BY Zenon, TotalAddsUp
<1> DEFINE D == {k \in 0..N : H[k] = F[k] + G[k]}
<1>5. 0 \in D
  BY <1>1, <1>2, <1>3, <1>4
<1>6. ASSUME NEW k \in 1..N, k - 1 \in D PROVE k \in D
  <2>1. k \in Upstreams /\ k \in 0..N /\ k - 1 \in 0..N
    BY <1>1 DEF Upstreams
  <2>2. f[k] \in Int /\ g[k] \in Int /\ h[k] = f[k] + g[k]
    BY <2>1
  <2>3. F[k - 1] \in Int /\ G[k - 1] \in Int /\ H[k - 1] = F[k - 1] + G[k - 1]
    BY <1>6, <2>1
  <2> QED
    BY <1>2, <1>3, <1>4, <2>1, <2>2, <2>3
<1>7. N \in D
  <2> HIDE DEF D
  <2>1. \A k \in 0..N : k \in D
    BY Zenon, <1>1, <1>5, <1>6, UpTo
  <2> QED
    BY <1>1, <2>1
<1> QED
  BY <1>1, <1>2, <1>3, <1>4, <1>7

\* What is no greater anywhere adds up to no more.
LEMMA TotalOfLess ==
  ASSUME NEW f \in [Upstreams -> Int], NEW g \in [Upstreams -> Int],
         \A u \in Upstreams : f[u] <= g[u]
  PROVE  Total(f) \in Int /\ Total(g) \in Int /\ Total(f) <= Total(g)
<1>1. N \in Nat
  BY SelectorAssumption
<1>2. PICK F \in [0..N -> Int] : /\ F[0] = 0 /\ \A k \in 1..N : F[k] = F[k - 1] + f[k]
                                /\ Total(f) = F[N]
  BY TotalAddsUp
<1>3. PICK G \in [0..N -> Int] : /\ G[0] = 0 /\ \A k \in 1..N : G[k] = G[k - 1] + g[k]
                                /\ Total(g) = G[N]
  BY TotalAddsUp
<1> DEFINE D == {k \in 0..N : F[k] <= G[k]}
<1>4. 0 \in D
  BY <1>1, <1>2, <1>3
<1>5. ASSUME NEW k \in 1..N, k - 1 \in D PROVE k \in D
  <2>1. k \in Upstreams /\ k \in 0..N /\ k - 1 \in 0..N
    BY <1>1 DEF Upstreams
  <2>2. f[k] \in Int /\ g[k] \in Int /\ f[k] <= g[k]
    BY <2>1
  <2>3. F[k - 1] \in Int /\ G[k - 1] \in Int /\ F[k - 1] <= G[k - 1]
    BY <1>5, <2>1
  <2> QED
    BY <1>2, <1>3, <2>1, <2>2, <2>3
<1>6. N \in D
  <2> HIDE DEF D
  <2>1. \A k \in 0..N : k \in D
    BY Zenon, <1>1, <1>4, <1>5, UpTo
  <2> QED
    BY <1>1, <2>1
<1> QED
  BY <1>1, <1>2, <1>3, <1>6

\* What is nothing but for one upstream.
LEMMA TotalOfOne ==
  ASSUME NEW f \in [Upstreams -> Int], NEW b \in Upstreams,
         \A u \in Upstreams : u # b => f[u] = 0
  PROVE  Total(f) = f[b]
<1>1. N \in Nat /\ b \in 1..N
  BY SelectorAssumption DEF Upstreams
<1>2. PICK F \in [0..N -> Int] : /\ F[0] = 0 /\ \A k \in 1..N : F[k] = F[k - 1] + f[k]
                                /\ Total(f) = F[N]
  BY TotalAddsUp
<1>3. PICK v \in Int : v = f[b]
  OBVIOUS
<1> DEFINE D == {k \in 0..N : F[k] = IF k < b THEN 0 ELSE v}
<1>4. 0 \in D
  BY <1>1, <1>2
<1>5. ASSUME NEW k \in 1..N, k - 1 \in D PROVE k \in D
  <2>1. k \in Upstreams /\ k \in 0..N /\ k - 1 \in 0..N
    BY <1>1 DEF Upstreams
  <2>2. F[k - 1] = IF k - 1 < b THEN 0 ELSE v
    BY <1>5
  <2>3. f[k] = IF k = b THEN v ELSE 0
    BY <1>3, <2>1
  <2>4. F[k] = F[k - 1] + f[k]
    BY <1>2
  <2> QED
    BY <1>1, <2>1, <2>2, <2>3, <2>4
<1>6. N \in D
  <2> HIDE DEF D
  <2>1. \A k \in 0..N : k \in D
    BY Zenon, <1>1, <1>4, <1>5, UpTo
  <2> QED
    BY <1>1, <2>1
<1> QED
  BY <1>1, <1>2, <1>3, <1>6

\* What is counted of a part of the pool only.
LEMMA OnlyIs ==
  ASSUME NEW f \in [Upstreams -> Int], NEW S
  PROVE  /\ Only(f, S) \in [Upstreams -> Int]
         /\ \A u \in Upstreams : Only(f, S)[u] = IF u \in S THEN f[u] ELSE 0
BY DEF Only

\* A part that is there adds up to a number, no upstream to nothing, one to itself,
\* and the pool to all there is.
LEMMA TotalOfPart ==
  ASSUME NEW f \in [Upstreams -> Int]
  PROVE  /\ \A S : Total(Only(f, S)) \in Int
         /\ Total(Only(f, {})) = 0
         /\ \A u \in Upstreams : Total(Only(f, {u})) = f[u]
         /\ Total(Only(f, Upstreams)) = Total(f) /\ Total(f) \in Int
<1>1. ASSUME NEW S PROVE Total(Only(f, S)) \in Int
  <2>1. PICK g \in [Upstreams -> Int] : g = Only(f, S)
    BY OnlyIs
  <2>2. \A u \in Upstreams : g[u] <= g[u]
    OBVIOUS
  <2> QED
    BY <2>1, <2>2, TotalOfLess
<1>2. Total(Only(f, {})) = 0
  <2>1. PICK g \in [Upstreams -> Int] : g = Only(f, {}) /\ \A u \in Upstreams : g[u] = 0
    BY OnlyIs
  <2>2. 1 \in Upstreams
    BY SelectorAssumption DEF Upstreams
  <2>3. Total(g) = g[1]
    BY <2>1, <2>2, TotalOfOne
  <2> QED
    BY <2>1, <2>2, <2>3
<1>3. ASSUME NEW u \in Upstreams PROVE Total(Only(f, {u})) = f[u]
  <2>1. PICK g \in [Upstreams -> Int] :
          g = Only(f, {u}) /\ g[u] = f[u] /\ \A v \in Upstreams : v # u => g[v] = 0
    BY OnlyIs
  <2> QED
    BY Zenon, <2>1, TotalOfOne
<1>4. Only(f, Upstreams) = f
  BY DEF Only
<1> QED
  BY <1>1, <1>2, <1>3, <1>4

\* Two parts that share no upstream.
LEMMA TotalOfParts ==
  ASSUME NEW f \in [Upstreams -> Int], NEW S, NEW R, S \cap R = {}
  PROVE  Total(Only(f, S \cup R)) = Total(Only(f, S)) + Total(Only(f, R))
<1>1. PICK g \in [Upstreams -> Int] :
        g = Only(f, S) /\ \A u \in Upstreams : g[u] = IF u \in S THEN f[u] ELSE 0
  BY OnlyIs
<1>2. PICK h \in [Upstreams -> Int] :
        h = Only(f, R) /\ \A u \in Upstreams : h[u] = IF u \in R THEN f[u] ELSE 0
  BY OnlyIs
<1>3. PICK k \in [Upstreams -> Int] :
        k = Only(f, S \cup R)
        /\ \A u \in Upstreams : k[u] = IF u \in S \cup R THEN f[u] ELSE 0
  BY OnlyIs
<1>4. ASSUME NEW u \in Upstreams PROVE k[u] = g[u] + h[u]
  <2>1. f[u] \in Int /\ ~ (u \in S /\ u \in R)
    OBVIOUS
  <2>2. (u \in S \cup R) = (u \in S \/ u \in R)
    OBVIOUS
  <2>3. /\ g[u] = IF u \in S THEN f[u] ELSE 0
        /\ h[u] = IF u \in R THEN f[u] ELSE 0
        /\ k[u] = IF u \in S \cup R THEN f[u] ELSE 0
    BY <1>1, <1>2, <1>3
  <2> QED
    BY <2>1, <2>2, <2>3
<1>5. Total(k) = Total(g) + Total(h)
  BY <1>4, TotalOfSum
<1> QED
  BY <1>1, <1>2, <1>3, <1>5

\* One upstream more, and all but one.
LEMMA TotalOfMore ==
  ASSUME NEW f \in [Upstreams -> Int], NEW S, NEW u \in Upstreams
  PROVE  /\ u \notin S => Total(Only(f, S \cup {u})) = Total(Only(f, S)) + f[u]
         /\ u \in S => Total(Only(f, S)) = Total(Only(f, S \ {u})) + f[u]
<1>1. ASSUME NEW R, u \notin R PROVE Total(Only(f, R \cup {u})) = Total(Only(f, R)) + f[u]
  <2>1. R \cap {u} = {}
    BY <1>1
  <2>2. Total(Only(f, R \cup {u})) = Total(Only(f, R)) + Total(Only(f, {u}))
    BY <2>1, TotalOfParts
  <2>3. Total(Only(f, {u})) = f[u]
    BY TotalOfPart
  <2> QED
    BY <2>2, <2>3
<1>2. u \in S => (S \ {u}) \cup {u} = S /\ u \notin S \ {u}
  OBVIOUS
<1> QED
  BY <1>1, <1>2

-----------------------------------------------------------------------------
\* The invariant of the Picks.

\* Where the Picks of a selector are while they choose.
LeastPC == {"min", "ties", "only", "draw", "tiebreak"}
HashPC == {"sum", "walk", "fallback"}
Looping == {"min", "ties", "only", "tiebreak", "sum", "fallback"}

\* What a goroutine's locals are, whatever the others do.
LocalOK(l, alg) ==
  /\ l \in Local /\ l.list \in Sublists
  /\ l.pc \in LeastPC \cup HashPC \cup {"scores"} => Len(l.list) > 1
  /\ l.pc \in LeastPC => alg = "least-conn"
  /\ l.pc \in HashPC => alg = "consistent-hash-bounded"
  /\ l.pc = "scores" => alg = "p2c-ewma"
  /\ l.pc \in {"eligible", "min"} => l.count = 0
  /\ l.pc \in {"eligible", "draw"} => l.i = 1
  /\ l.pc \in Looping => l.i \in 1..Len(l.list)
  /\ l.pc = "walk" => l.i >= 1
  /\ l.pc = "scores" => /\ l.i \in 1..4 /\ l.draw[1] # l.draw[2]
                        /\ l.draw[1] \in 1..Len(l.list) /\ l.draw[2] \in 1..Len(l.list)
  /\ l.pc = "fallback" /\ l.i > 1 => l.draw[1] \in 1..Len(l.list)
  /\ l.pc = "picked" => \E k \in 1..Len(l.list) : l.up = l.list[k]
  /\ l.pc \in {"holding", "closing"} => l.up \in Upstreams

\* low is the least of the first n of the list, with f in flight.
Least(l, f, n) ==
  /\ \E k \in 1..n : f[l.list[k]] = l.low
  /\ \A k \in 1..n : l.low <= f[l.list[k]]

\* How many of the first n have it.
Ties(l, f, n) == Cardinality({k \in 1..n : f[l.list[k]] = l.low})

\* The upstreams that are among the first n of the list.
FirstOf(l, n) == {l.list[k] : k \in 1..n}

Cap(l, f) == Capacity(Total(Only(f, Range(l.list))), Len(l.list))

Roomiest(l, f) ==
  LET roomy == {u \in Range(l.list) : f[u] + 1 <= Cap(l, f)}
  IN  {u \in roomy : \A v \in roomy : Distance(l.key, u) <= Distance(l.key, v)}

\* What a Pick with these locals may return, with f in flight and averages e.
PromisedOf(l, alg, f, e) ==
  LET cands == Range(l.list)
  IN  IF Len(l.list) = 1 THEN cands
      ELSE CASE alg = "least-conn" -> {u \in cands : \A v \in cands : f[u] <= f[v]}
        [] alg = "p2c-ewma" ->
             {u \in cands : \E v \in cands \ {u} : e[u] * (1 + f[u]) <= e[v] * (1 + f[v])}
        [] alg = "consistent-hash-bounded" -> Roomiest(l, f)
        [] OTHER -> cands

\* What the locals are as long as nothing has changed that they were read from.
LeastExact(l, f) ==
  /\ l.pc = "min" /\ l.i > 1 => Least(l, f, l.i - 1)
  /\ l.pc \in {"ties", "only", "draw", "tiebreak"} => Least(l, f, Len(l.list))
  /\ l.pc \in {"ties", "tiebreak"} => l.count = Ties(l, f, l.i - 1)
  /\ l.pc = "only" => \E k \in l.i..Len(l.list) : f[l.list[k]] = l.low
  /\ l.pc = "draw" => l.count = Ties(l, f, Len(l.list))
  /\ l.pc = "tiebreak" => l.count <= l.draw[1] /\ l.draw[1] < Ties(l, f, Len(l.list))

ScoresExact(l, f, e) ==
  LET a == l.list[l.draw[1]] IN
  l.pc = "scores" =>
    /\ l.i = 2 => l.low = e[a]
    /\ l.i > 2 => l.low = e[a] * (1 + f[a])
    /\ l.i = 4 => l.count = e[l.list[l.draw[2]]]

HashExact(l, f) ==
  /\ l.pc = "sum" => l.count = Total(Only(f, FirstOf(l, l.i - 1)))
  /\ l.pc = "walk" =>
       /\ l.low = Cap(l, f)
       /\ \A j \in 1..Len(Ring) : j < l.i /\ Visits(l, j) => f[Entry(l.key, j)] + 1 > l.low

ExactAt(l, alg, f, e) ==
  /\ LeastExact(l, f) /\ ScoresExact(l, f, e) /\ HashExact(l, f)
  /\ l.pc \notin {"fallback", "panicked"}
  /\ l.pc = "picked" => l.up \in PromisedOf(l, alg, f, e)

\* The sessions that are counted in flight on u.
Holders(u) == {p \in Pickers : pick[p].pc \in {"holding", "closing"} /\ pick[p].up = u}

PickInv ==
  /\ PickTypeOK
  /\ \A p \in Pickers : LocalOK(pick[p], algorithm)
  /\ \A u \in Upstreams : Cardinality(Holders(u)) <= inFlight[u]
  /\ \A p \in Pickers \ disturbed : ExactAt(pick[p], algorithm, inFlight, ewma)

\* A part of the pool, as a list.
LEMMA ListIs ==
  ASSUME NEW list \in Sublists
  PROVE  /\ list \in Seq(Upstreams) /\ Len(list) \in 0..N /\ Len(list) \in Nat
         /\ DOMAIN list = 1..Len(list)
         /\ \A k \in 1..Len(list) : list[k] \in Upstreams
         /\ \A i, j \in 1..Len(list) : i < j => list[i] < list[j]
         /\ Range(list) = {list[k] : k \in 1..Len(list)} /\ Range(list) \subseteq Upstreams
<1>1. PICK n \in 0..N : list \in [1..n -> Upstreams]
  BY DEF Sublists
<1>2. n \in Nat
  BY <1>1, SelectorAssumption
<1>3. list \in Seq(Upstreams) /\ Len(list) = n /\ DOMAIN list = 1..n
  BY <1>1, <1>2
<1>4. \A i, j \in 1..n : i < j => list[i] < list[j]
  BY <1>3 DEF Sublists
<1>5. Range(list) = {list[k] : k \in 1..n}
  BY <1>3 DEF Range
<1>6. Range(list) \subseteq Upstreams
  BY <1>1, <1>5
<1> QED
  BY <1>1, <1>2, <1>3, <1>4, <1>5, <1>6

\* No upstream is in it twice.
LEMMA NoneTwice ==
  ASSUME NEW list \in Sublists, NEW i \in 1..Len(list), NEW j \in 1..Len(list), i # j
  PROVE  list[i] # list[j]
<1>1. list[i] \in Int /\ list[j] \in Int /\ i \in Int /\ j \in Int
  <2>1. N \in Nat
    BY SelectorAssumption
  <2> QED
    BY <2>1, ListIs DEF Upstreams
<1>2. i < j \/ j < i
  BY <1>1
<1>3. list[i] < list[j] \/ list[j] < list[i]
  BY <1>2, ListIs
<1> QED
  BY <1>1, <1>3

\* p goes on from one step of its Pick to the next.
Moves(p) ==
  \E m : /\ LocalOK(m, algorithm) /\ m.pc \in PickPC \ {"eligible"} /\ Goes(p, m)
         /\ ExactAt(pick[p], algorithm, inFlight, ewma)
              => ExactAt(m, algorithm, inFlight, ewma)

\* Such a step keeps the invariant.
LEMMA MovesKeeps ==
  ASSUME PickInv, NEW p \in Pickers, InPick(p), Moves(p)
  PROVE  PickInv'
<1>1. PICK m : /\ LocalOK(m, algorithm) /\ m.pc \in PickPC \ {"eligible"} /\ Goes(p, m)
               /\ ExactAt(pick[p], algorithm, inFlight, ewma)
                    => ExactAt(m, algorithm, inFlight, ewma)
  BY DEF Moves
<1>2. m \in Local
  BY <1>1 DEF LocalOK
<1>3. pick \in [Pickers -> Local] /\ pick' = [pick EXCEPT ![p] = m]
  BY <1>1 DEF Goes, PickInv, PickTypeOK
<1>4. /\ algorithm' = algorithm /\ weight' = weight /\ reports' = reports
      /\ inFlight' = inFlight /\ ewma' = ewma /\ counter' = counter /\ cw' = cw
      /\ disturbed' = disturbed /\ uniform' = uniform /\ given' = given
  BY <1>1 DEF Goes, config, atomics, selector, ghosts
<1>5. pick' \in [Pickers -> Local]
  BY <1>2, <1>3
<1>6. pick'[p] = m /\ \A q \in Pickers : q # p => pick'[q] = pick[q]
  BY <1>3
<1>7. PickTypeOK'
  BY <1>4, <1>5 DEF PickInv, PickTypeOK
<1>8. \A q \in Pickers : LocalOK(pick[q], algorithm)'
  <2> TAKE q \in Pickers
  <2>1. LocalOK(pick[q], algorithm)
    BY DEF PickInv
  <2>2. q # p => LocalOK(pick'[q], algorithm')
    BY <1>4, <1>6, <2>1
  <2>3. q = p => LocalOK(pick'[q], algorithm')
    BY Zenon, <1>1, <1>4, <1>6
  <2> QED
    BY <2>2, <2>3
<1>9. \A u \in Upstreams : (Cardinality(Holders(u)) <= inFlight[u])'
  <2> TAKE u \in Upstreams
  <2>1. m.pc \notin {"holding", "closing"} /\ pick[p].pc \notin {"holding", "closing"}
    BY Zenon, <1>1 DEF PickPC, InPick
  <2>2. Holders(u)' = Holders(u)
    BY <1>6, <2>1 DEF Holders
  <2> QED
    BY <1>4, <2>2 DEF PickInv
<1>10. \A q \in Pickers \ disturbed' : ExactAt(pick[q], algorithm, inFlight, ewma)'
  <2> TAKE q \in Pickers \ disturbed'
  <2>1. ExactAt(pick[q], algorithm, inFlight, ewma)
    BY Zenon, <1>4 DEF PickInv
  <2>2. q # p => ExactAt(pick'[q], algorithm', inFlight', ewma')
    BY <1>4, <1>6, <2>1
  <2>3. q = p => ExactAt(pick'[q], algorithm', inFlight', ewma')
    BY <1>1, <1>4, <1>6, <2>1
  <2> QED
    BY <2>2, <2>3
<1> QED
  BY <1>7, <1>8, <1>9, <1>10 DEF PickInv

-----------------------------------------------------------------------------
\* The arithmetic of the cap and of the ring.

\* Min and Max are what they are called.
LEMMA MinIs ==
  ASSUME NEW S \in SUBSET Nat, S # {}
  PROVE  Min(S) \in S /\ \A n \in S : Min(S) <= n
<1>1. \E m \in S : \A n \in S : m <= n
  BY LeastNatural
<1> QED
  BY Zenon, <1>1 DEF Min

\* The greater of two, which Capacity takes of 1 and the rounded share.
LEMMA MaxOfTwo ==
  ASSUME NEW a \in Nat, NEW b \in Nat
  PROVE  Max({a, b}) \in Nat /\ Max({a, b}) >= a /\ Max({a, b}) >= b
<1>1. \E m \in {a, b} : \A n \in {a, b} : m >= n
  OBVIOUS
<1>2. Max({a, b}) \in {a, b} /\ \A n \in {a, b} : Max({a, b}) >= n
  BY <1>1 DEF Max
<1> QED
  BY <1>2

\* Division that rounds up.
LEMMA Ceiling ==
  ASSUME NEW a \in Nat, NEW d \in Nat \ {0}
  PROVE  (a + d - 1) \div d \in Nat /\ d * ((a + d - 1) \div d) >= a
<1>1. PICK b \in Nat : b = a + d - 1
  OBVIOUS
<1>2. b \div d \in Nat /\ d * (b \div d) <= b /\ b < d * (b \div d) + d
  OBVIOUS
<1> QED
  BY <1>1, <1>2

\* A position within the ring's length, and one a round further.
LEMMA ModIs ==
  ASSUME NEW L \in Nat \ {0}, NEW a \in 0..(L - 1)
  PROVE  a % L = a /\ (a + L) % L = a
OBVIOUS

\* The cap is such that not all can be at it.
LEMMA CapacityIs ==
  ASSUME NEW total \in Nat, NEW n \in Nat \ {0}
  PROVE  Capacity(total, n) \in Nat /\ total < n * Capacity(total, n)
<1> DEFINE num == (EpsDen + EpsNum) * total
           den == EpsDen * n
           q == (num + den - 1) \div den
<1>1. EpsNum \in Nat \ {0} /\ EpsDen \in Nat \ {0}
  BY SelectorAssumption
<1>2. num \in Nat /\ den \in Nat \ {0}
  BY <1>1
<1>3. q \in Nat /\ den * q >= num
  <2> HIDE DEF num, den
  <2> QED
    BY <1>2, Ceiling
<1>4. PICK cap \in Nat : cap = Capacity(total, n) /\ cap >= 1 /\ cap >= q
  <2>1. Max({1, q}) \in Nat /\ Max({1, q}) >= 1 /\ Max({1, q}) >= q
    <3> HIDE DEF q
    <3> QED
      BY <1>3, MaxOfTwo
  <2> QED
    BY <2>1 DEF Capacity
<1>5. den * cap >= num
  <2> HIDE DEF q, num, den
  <2>1. den * cap >= den * q
    BY <1>2, <1>3, <1>4
  <2> QED
    BY <1>2, <1>3, <1>4, <2>1
<1>6. PICK nc \in Nat : nc = n * cap /\ nc >= 1
  BY <1>4
<1>7. den * cap = EpsDen * nc
  BY <1>1, <1>4, <1>6
<1>8. total >= nc => FALSE
  <2> SUFFICES ASSUME total >= nc PROVE FALSE
    OBVIOUS
  <2>1. EpsDen * total >= EpsDen * nc
    BY <1>1, <1>6
  <2>2. EpsNum * total >= 1
    BY <1>1, <1>6
  <2>3. num = EpsDen * total + EpsNum * total
    BY <1>1
  <2> QED
    BY <1>1, <1>5, <1>6, <1>7, <2>1, <2>2, <2>3
<1> QED
  BY <1>4, <1>6, <1>8

-----------------------------------------------------------------------------
\* The ring, from a key on, meets every upstream.
LEMMA RingMeetsAll ==
  ASSUME NEW key \in DOMAIN Ring, NEW u \in Upstreams
  PROVE  /\ Len(Ring) \in Nat /\ DOMAIN Ring = 1..Len(Ring)
         /\ \E j \in DOMAIN Ring : Entry(key, j) = u
<1>1. Ring \in Seq(Upstreams) /\ Range(Ring) = Upstreams
  BY SelectorAssumption
<1>2. Len(Ring) \in Nat /\ DOMAIN Ring = 1..Len(Ring)
  BY <1>1
<1>3. PICK t \in DOMAIN Ring : Ring[t] = u
  BY <1>1 DEF Range
<1>4. PICK L \in Nat \ {0} : L = Len(Ring)
  <2>1. PICK n \in Nat : n = Len(Ring)
    BY Zenon, <1>2
  <2>2. t \in 1..n
    BY <1>2, <1>3, <2>1
  <2>3. n # 0
    BY <2>2
  <2> QED
    BY <2>1, <2>3
<1>5. t \in 1..L /\ key \in 1..L
  BY <1>2, <1>3, <1>4
<1>6. PICK a \in 0..(L - 1) : a = t - 1
  BY <1>5
<1>7. a % L = a /\ (a + L) % L = a
  BY Zenon, <1>4, <1>6, ModIs
<1>8. CASE t >= key
  <2>1. t - key + 1 \in 1..L /\ key + (t - key + 1) - 2 = a /\ a + 1 = t
    BY <1>5, <1>6, <1>8
  <2>2. PICK j \in 1..L : j = t - key + 1
    BY <2>1
  <2>3. key + j - 2 = a
    BY <2>1, <2>2
  <2> QED
    BY Zenon, <1>2, <1>3, <1>4, <1>7, <2>1, <2>2, <2>3 DEF Entry
<1>9. CASE t < key
  <2>1. t - key + 1 + L \in 1..L /\ key + (t - key + 1 + L) - 2 = a + L /\ a + 1 = t
    BY <1>5, <1>6, <1>9
  <2>2. PICK j \in 1..L : j = t - key + 1 + L
    BY <2>1
  <2>3. key + j - 2 = a + L
    BY <2>1, <2>2
  <2> QED
    BY Zenon, <1>2, <1>3, <1>4, <1>7, <2>1, <2>2, <2>3 DEF Entry
<1> QED
  BY <1>2, <1>5, <1>8, <1>9

\* Distance is where it first does.
LEMMA DistanceIs ==
  ASSUME NEW key \in DOMAIN Ring, NEW u \in Upstreams
  PROVE  /\ Distance(key, u) \in 1..Len(Ring) /\ Entry(key, Distance(key, u)) = u
         /\ \A j \in 1..(Distance(key, u) - 1) : Entry(key, j) # u
         /\ \A d \in 1..Len(Ring) :
              Entry(key, d) = u /\ (\A j \in 1..(d - 1) : Entry(key, j) # u)
                => Distance(key, u) = d
<1> DEFINE S == {i \in DOMAIN Ring : Entry(key, i) = u}
<1>1. Len(Ring) \in Nat /\ DOMAIN Ring = 1..Len(Ring) /\ S # {}
  BY RingMeetsAll
<1>2. S \in SUBSET Nat
  BY <1>1
<1>3. Min(S) \in S /\ \A n \in S : Min(S) <= n
  <2> HIDE DEF S
  <2> QED
    BY <1>1, <1>2, MinIs
<1>4. PICK m \in S : m = Distance(key, u) /\ \A n \in S : m <= n
  BY <1>3 DEF Distance
<1>5. m \in 1..Len(Ring) /\ Entry(key, m) = u
  BY <1>1, <1>4
<1>6. \A j \in 1..(m - 1) : Entry(key, j) # u
  <2> SUFFICES ASSUME NEW j \in 1..(m - 1), Entry(key, j) = u PROVE FALSE
    OBVIOUS
  <2>1. j \in 1..Len(Ring) /\ j < m
    BY <1>1, <1>5
  <2> QED
    BY <1>1, <1>4, <1>5, <2>1
<1>7. ASSUME NEW d \in 1..Len(Ring), Entry(key, d) = u, \A j \in 1..(d - 1) : Entry(key, j) # u
      PROVE  m = d
  <2>1. m <= d
    BY <1>1, <1>4, <1>7
  <2>2. m < d => m \in 1..(d - 1)
    BY <1>1, <1>5, <1>7
  <2> QED
    BY <1>1, <1>5, <1>7, <2>1, <2>2
<1> QED
  BY <1>4, <1>5, <1>6, <1>7

-----------------------------------------------------------------------------
\* Steps of a Pick.

\* Locals that a step of the loops leaves as they are.
Like(m, l) == m.key = l.key /\ m.list = l.list /\ m.up = l.up

\* What the invariant says of one goroutine's Pick.
LEMMA Here ==
  ASSUME PickInv, NEW p \in Pickers
  PROVE  /\ LocalOK(pick[p], algorithm) /\ pick[p] \in Local /\ pick[p].list \in Sublists
         /\ pick[p].key \in DOMAIN Ring /\ pick[p].i \in Nat /\ pick[p].low \in Nat
         /\ pick[p].count \in Nat /\ pick[p].draw \in Nat \X Nat /\ pick[p].up \in 0..N
         /\ pick[p].draw[1] \in Nat /\ pick[p].draw[2] \in Nat
         /\ inFlight \in [Upstreams -> Nat] /\ inFlight \in [Upstreams -> Int]
         /\ ewma \in [Upstreams -> Nat]
<1>1. LocalOK(pick[p], algorithm) /\ inFlight \in [Upstreams -> Nat]
      /\ ewma \in [Upstreams -> 0..MaxLatency] /\ MaxLatency \in Nat
  BY SelectorAssumption DEF PickInv, PickTypeOK
<1>2. inFlight \in [Upstreams -> Int] /\ ewma \in [Upstreams -> Nat]
  BY <1>1
<1>3. PICK l : l = pick[p] /\ l \in Local /\ l.list \in Sublists
  BY <1>1 DEF LocalOK
<1>4. /\ l.key \in DOMAIN Ring /\ l.i \in Nat /\ l.low \in Nat
      /\ l.count \in Nat /\ l.draw \in Nat \X Nat /\ l.up \in 0..N
  BY <1>3 DEF Local
<1>5. l.draw[1] \in Nat /\ l.draw[2] \in Nat
  BY <1>4
<1> QED
  BY <1>1, <1>2, <1>3, <1>4, <1>5

\* m is l after the loop has gone on, or out to next.
Looped(m, l, next) ==
  /\ Like(m, l) /\ m.low = l.low /\ m.count = l.count /\ m.draw = l.draw
  /\ l.i = Len(l.list) => m.pc = next /\ m.i = 1
  /\ l.i # Len(l.list) => m.pc = l.pc /\ m.i = l.i + 1

\* A step of a loop.
LEMMA LoopGoes ==
  ASSUME NEW p, NEW l \in Local, NEW next \in PickPC, Loops(p, l, next)
  PROVE  \E m \in Local : Goes(p, m) /\ Looped(m, l, next)
<1>1. CASE l.i = Len(l.list)
  <2>1. PICK m : m = [l EXCEPT !.pc = next, !.i = 1]
    OBVIOUS
  <2>2. m \in Local
    BY Zenon, <2>1 DEF Local
  <2>3. /\ m.key = l.key /\ m.list = l.list /\ m.up = l.up /\ m.low = l.low
        /\ m.count = l.count /\ m.draw = l.draw /\ m.pc = next /\ m.i = 1
    BY <2>1 DEF Local
  <2>4. Goes(p, m)
    BY <1>1, <2>1 DEF Loops
  <2> QED
    BY <1>1, <2>2, <2>3, <2>4 DEF Like, Looped
<1>2. CASE l.i # Len(l.list)
  <2>1. PICK m : m = [l EXCEPT !.i = @ + 1]
    BY Zenon
  <2>2. m \in Local
    BY <2>1 DEF Local
  <2>3. /\ m.key = l.key /\ m.list = l.list /\ m.up = l.up /\ m.low = l.low
        /\ m.count = l.count /\ m.draw = l.draw /\ m.pc = l.pc /\ m.i = l.i + 1
    BY <2>1 DEF Local
  <2>4. Goes(p, m)
    BY <1>2, <2>1 DEF Loops
  <2> QED
    BY <1>2, <2>2, <2>3, <2>4 DEF Like, Looped
<1> QED
  BY <1>1, <1>2

\* What Pick leaves when it returns.
LEMMA OutcomeIs ==
  ASSUME NEW p, pick[p].list \in Seq(Upstreams), pick[p].key \in DOMAIN Ring,
         NEW pc \in PickPC, NEW u \in 0..N
  PROVE  \E m \in Local : /\ m = Outcome(p, pc, u) /\ m.pc = pc /\ m.up = u
                          /\ m.list = pick[p].list /\ m.key = pick[p].key
                          /\ m.i = 1 /\ m.count = 0
<1>1. PICK m : m = Outcome(p, pc, u)
  OBVIOUS
<1>2. m.pc = pc /\ m.up = u /\ m.list = pick[p].list /\ m.key = pick[p].key
      /\ m.i = 1 /\ m.count = 0
  BY <1>1 DEF Outcome, Idle
<1>3. m \in Local
  BY Zenon, <1>1 DEF Outcome, Idle, Local
<1> QED
  BY <1>1, <1>2, <1>3

\* Pick returns an upstream of its list, and the right one if nothing has
\* disturbed it.
LEMMA ReturnMoves ==
  ASSUME PickInv, NEW p \in Pickers, NEW k \in 1..Len(pick[p].list),
         NEW u, u = pick[p].list[k],
         ExactAt(pick[p], algorithm, inFlight, ewma)
           => u \in PromisedOf(pick[p], algorithm, inFlight, ewma),
         Returns(p, u)
  PROVE  Moves(p)
<1>1. PICK l : l = pick[p] /\ l.list \in Sublists /\ l.key \in DOMAIN Ring
  BY Zenon, Here
<1>2. l.list \in Seq(Upstreams) /\ u \in Upstreams
  BY Zenon, <1>1, ListIs
<1>3. u \in 0..N /\ "picked" \in PickPC
  BY <1>2, SelectorAssumption DEF Upstreams, PickPC
<1>4. PICK m \in Local : /\ m = Outcome(p, "picked", u) /\ m.pc = "picked" /\ m.up = u
                         /\ m.list = l.list /\ m.key = l.key
  BY <1>1, <1>2, <1>3, OutcomeIs
<1>5. LocalOK(m, algorithm)
  BY Zenon, <1>1, <1>4 DEF LocalOK, LeastPC, HashPC, Looping
<1>6. PromisedOf(m, algorithm, inFlight, ewma) = PromisedOf(l, algorithm, inFlight, ewma)
  BY Zenon, <1>4 DEF PromisedOf, Roomiest, Cap
<1>7. m.up \in PromisedOf(m, algorithm, inFlight, ewma)
      => ExactAt(m, algorithm, inFlight, ewma)
  BY Zenon, <1>4 DEF ExactAt, LeastExact, ScoresExact, HashExact
<1>8. Goes(p, m)
  BY Zenon, <1>4 DEF Returns
<1> QED
  BY Zenon, <1>1, <1>3, <1>4, <1>5, <1>6, <1>7, <1>8 DEF Moves

\* Pick ends without one.
LEMMA EndMoves ==
  ASSUME PickInv, NEW p \in Pickers, NEW pc \in {"none", "panicked"},
         ExactAt(pick[p], algorithm, inFlight, ewma) => pc = "none",
         Goes(p, Outcome(p, pc, 0))
  PROVE  Moves(p)
<1>1. PICK l : l = pick[p] /\ l.list \in Sublists /\ l.key \in DOMAIN Ring
  BY Here
<1>2. l.list \in Seq(Upstreams)
  BY <1>1, ListIs
<1>3. 0 \in 0..N /\ pc \in PickPC
  BY SelectorAssumption DEF PickPC
<1>4. PICK m \in Local : /\ m = Outcome(p, pc, 0) /\ m.pc = pc /\ m.up = 0
                         /\ m.list = l.list /\ m.key = l.key
  BY <1>1, <1>2, <1>3, OutcomeIs
<1>5. LocalOK(m, algorithm)
  BY <1>1, <1>4 DEF LocalOK, LeastPC, HashPC, Looping
<1>6. pc = "none" => ExactAt(m, algorithm, inFlight, ewma)
  BY Zenon, <1>4 DEF ExactAt, LeastExact, ScoresExact, HashExact
<1> QED
  BY Zenon, <1>3, <1>4, <1>5, <1>6 DEF Moves

\* Pick on a list of none or of one.
LEMMA NoneOrOneMoves ==
  ASSUME PickInv, NEW p \in Pickers, NoneOrOne(p)
  PROVE  Moves(p)
<1>1. PICK l : l = pick[p] /\ l.list \in Sublists
  BY Zenon, Here
<1>2. l.list = <<>> /\ Goes(p, Outcome(p, "none", 0)) => Moves(p)
  BY Zenon, EndMoves
<1>3. ASSUME Len(l.list) = 1, Returns(p, l.list[1]) PROVE Moves(p)
  <2>1. 1 \in 1..Len(l.list) /\ Range(l.list) = {l.list[k] : k \in 1..Len(l.list)}
    BY <1>1, <1>3, ListIs
  <2>2. PromisedOf(l, algorithm, inFlight, ewma) = Range(l.list)
    BY <1>3 DEF PromisedOf
  <2>3. l.list[1] \in Range(l.list)
    BY <2>1
  <2> QED
    BY Zenon, <1>1, <1>3, <2>1, <2>2, <2>3, ReturnMoves
<1> QED
  BY Zenon, <1>1, <1>2, <1>3 DEF NoneOrOne

\* Least connections and consistent hashing begin their first loop.
LEMMA EntersMoves ==
  ASSUME PickInv, NEW p \in Pickers,
         Enters(p, "least-conn", "min") \/ Enters(p, "consistent-hash-bounded", "sum")
  PROVE  Moves(p)
<1>1. PICK next \in {"min", "sum"} :
        /\ pick[p].pc = "eligible" /\ Len(pick[p].list) > 1
        /\ next = "min" => algorithm = "least-conn"
        /\ next = "sum" => algorithm = "consistent-hash-bounded"
        /\ Goes(p, [pick[p] EXCEPT !.pc = next])
  BY Zenon DEF Enters
<1>2. PICK l \in Local : l = pick[p] /\ LocalOK(l, algorithm) /\ l.list \in Sublists
  BY Here
<1>3. PICK m : m = [l EXCEPT !.pc = next]
  BY Zenon
<1>4. m \in Local
  BY Zenon, <1>3 DEF Local, PickPC
<1>5. m.pc = next /\ m.list = l.list /\ m.i = l.i /\ m.count = l.count
  BY <1>3 DEF Local
<1>6. l.i = 1 /\ l.count = 0
  BY <1>1, <1>2 DEF LocalOK
<1>7. Len(l.list) \in Nat /\ 1 \in 1..Len(l.list) /\ next \in PickPC
  BY <1>1, <1>2, ListIs DEF PickPC
<1>8. LocalOK(m, algorithm)
  BY <1>1, <1>2, <1>4, <1>5, <1>6, <1>7 DEF LocalOK, LeastPC, HashPC, Looping
<1>9. Total(Only(inFlight, FirstOf(m, 0))) = 0
  <2>1. FirstOf(m, 0) = {}
    BY DEF FirstOf
  <2> QED
    BY Zenon, <2>1, Here, TotalOfPart
<1>10. ExactAt(m, algorithm, inFlight, ewma)
  <2>1. LeastExact(m, inFlight)
    BY <1>5, <1>6 DEF LeastExact
  <2>2. HashExact(m, inFlight)
    BY <1>5, <1>6, <1>9 DEF HashExact
  <2>3. ScoresExact(m, inFlight, ewma)
    BY Zenon, <1>5 DEF ScoresExact
  <2> QED
    BY Zenon, <1>5, <2>1, <2>2, <2>3 DEF ExactAt
<1> QED
  BY Zenon, <1>1, <1>2, <1>3, <1>5, <1>7, <1>8, <1>10 DEF Moves

-----------------------------------------------------------------------------
\* Ties, one upstream after the other.
LEMMA TiesCount ==
  ASSUME NEW l, NEW f, NEW n \in Nat
  PROVE  /\ Ties(l, f, 0) = 0 /\ Ties(l, f, n) \in Nat
         /\ Ties(l, f, n + 1)
              = Ties(l, f, n) + (IF f[l.list[n + 1]] = l.low THEN 1 ELSE 0)
         /\ (\E k \in 1..n : f[l.list[k]] = l.low) => Ties(l, f, n) # 0
<1> DEFINE T(x) == {k \in 1..x : f[l.list[k]] = l.low}
<1>1. IsFiniteSet(1..n)
  BY FS_Interval
<1>2. T(n) \in SUBSET (1..n)
  OBVIOUS
<1>3. IsFiniteSet(T(n))
  <2> HIDE DEF T
  <2> QED
    BY <1>1, <1>2, FS_Subset
<1>4. Cardinality(T(n)) \in Nat
  BY <1>3, FS_CardinalityType
<1>5. T(0) = {} /\ Cardinality({}) = 0
  BY FS_EmptySet
<1>6. n + 1 \notin T(n)
  OBVIOUS
<1>7. ASSUME f[l.list[n + 1]] = l.low PROVE Ties(l, f, n + 1) = Ties(l, f, n) + 1
  <2>1. T(n + 1) = T(n) \cup {n + 1}
    BY <1>7
  <2>2. Cardinality(T(n) \cup {n + 1}) = Cardinality(T(n)) + 1
    <3> HIDE DEF T
    <3> QED
      BY <1>3, <1>6, FS_AddElement
  <2>3. Ties(l, f, n + 1) = Cardinality(T(n + 1)) /\ Ties(l, f, n) = Cardinality(T(n))
    BY Zenon DEF Ties
  <2> QED
    BY Zenon, <2>1, <2>2, <2>3
<1>8. ASSUME f[l.list[n + 1]] # l.low PROVE Ties(l, f, n + 1) = Ties(l, f, n) + 0
  <2>1. T(n + 1) = T(n)
    BY <1>8
  <2> QED
    BY <1>4, <1>8, <2>1 DEF Ties
<1>9. (\E k \in 1..n : f[l.list[k]] = l.low) => Cardinality(T(n)) # 0
  <2>1. (\E k \in 1..n : f[l.list[k]] = l.low) => T(n) # {}
    OBVIOUS
  <2> HIDE DEF T
  <2> QED
    BY <1>3, <2>1, FS_EmptySet
<1> QED
  BY <1>4, <1>5, <1>7, <1>8, <1>9 DEF Ties

\* LeastConnections.Pick's first loop: low is the least of what it has loaded.
LEMMA LoadMinMoves ==
  ASSUME PickInv, NEW p \in Pickers, LoadMin(p)
  PROVE  Moves(p)
<1>1. PICK l \in Local : /\ l = pick[p] /\ LocalOK(l, algorithm) /\ l.list \in Sublists
                         /\ l.i \in Nat /\ l.low \in Nat
  BY Zenon, Here
<1>2. PICK f \in [Upstreams -> Nat] : f = inFlight
  BY Zenon, Here
<1>3. /\ l.pc = "min" /\ Len(l.list) > 1 /\ algorithm = "least-conn" /\ l.i \in 1..Len(l.list)
      /\ l.count = 0
  BY Zenon, <1>1 DEF LoadMin, LocalOK, LeastPC, Looping
<1>4. Len(l.list) \in Nat /\ \A k \in 1..Len(l.list) : l.list[k] \in Upstreams
  BY Zenon, <1>1, ListIs
<1>5. PICK v \in Nat : v = f[l.list[l.i]]
  BY <1>3, <1>4
<1>6. PICK low \in Nat : /\ low = IF l.i = 1 \/ v < l.low THEN v ELSE l.low
                         /\ low <= v /\ (l.i > 1 => low <= l.low) /\ low \in {v, l.low}
                         /\ l.i = 1 => low = v
  <2>1. PICK old \in Nat : old = l.low
    BY <1>1
  <2>2. l.i = 1 \/ v < l.low
        => v <= v /\ (l.i > 1 => v <= l.low) /\ v \in {v, l.low} /\ (l.i = 1 => v = v)
    BY <1>5, <2>1
  <2>3. ~ (l.i = 1 \/ v < l.low)
        => l.low <= v /\ (l.i > 1 => l.low <= l.low) /\ l.low \in {v, l.low}
           /\ (l.i = 1 => l.low = v)
    BY <1>5, <2>1
  <2> QED
    BY Zenon, <1>1, <1>5, <2>2, <2>3
<1>7. PICK l2 : l2 = [l EXCEPT !.low = low] /\ Loops(p, l2, "ties")
  BY Zenon, <1>1, <1>2, <1>5, <1>6 DEF LoadMin
<1>8. l2 \in Local
  BY Zenon, <1>7 DEF Local
<1>9. l2.pc = "min" /\ l2.i = l.i /\ l2.list = l.list /\ l2.low = low /\ l2.count = 0
  BY <1>3, <1>7 DEF Local
<1>10. "ties" \in PickPC /\ "min" \in PickPC
  BY DEF PickPC
<1>11. PICK m \in Local :
         /\ Goes(p, m) /\ m.list = l.list /\ m.low = low /\ m.count = 0
         /\ l.i = Len(l.list) => m.pc = "ties" /\ m.i = 1
         /\ l.i # Len(l.list) => m.pc = "min" /\ m.i = l.i + 1
  <2>1. PICK m \in Local : Goes(p, m) /\ Looped(m, l2, "ties")
    BY <1>7, <1>8, <1>10, LoopGoes
  <2>2. /\ m.list = l.list /\ m.low = low /\ m.count = 0
        /\ l.i = Len(l.list) => m.pc = "ties" /\ m.i = 1
        /\ l.i # Len(l.list) => m.pc = "min" /\ m.i = l.i + 1
    BY <1>9, <2>1 DEF Like, Looped
  <2> QED
    BY <2>1, <2>2
<1>12. m.pc \in {"min", "ties"} /\ m.i \in 1..Len(m.list) /\ Len(m.list) > 1
  BY <1>3, <1>4, <1>11
<1>13. LocalOK(m, algorithm)
  BY Zenon, <1>1, <1>3, <1>11, <1>12 DEF LocalOK, LeastPC, HashPC, Looping
<1>14. ASSUME LeastExact(l, f) PROVE Least(m, f, l.i)
  <2>1. l.i > 1 => Least(l, f, l.i - 1)
    BY <1>3, <1>14 DEF LeastExact
  <2>2. \A k \in 1..l.i : f[l.list[k]] \in Nat
    BY <1>3, <1>4
  <2>3. CASE l.i = 1
    BY <1>5, <1>6, <1>11, <2>3 DEF Least
  <2>4. CASE l.i > 1
    <3>1. PICK k \in 1..(l.i - 1) : f[l.list[k]] = l.low
      BY Zenon, <2>1, <2>4 DEF Least
    <3>2. \A j \in 1..(l.i - 1) : l.low <= f[l.list[j]]
      BY <2>1, <2>4 DEF Least
    <3>3. \A j \in 1..l.i : j \in 1..(l.i - 1) \/ j = l.i
      BY <1>1
    <3>4. \A j \in 1..l.i : low <= f[l.list[j]]
      <4> TAKE j \in 1..l.i
      <4>1. PICK x \in Nat : x = f[l.list[j]] /\ (j \in 1..(l.i - 1) => l.low <= x)
        BY Zenon, <2>2, <3>2
      <4>2. j = l.i => x = v
        BY <1>5, <4>1
      <4>3. low <= v /\ low <= l.low
        BY Zenon, <1>1, <1>5, <1>6, <2>4
      <4>4. PICK old \in Nat : old = l.low
        BY Zenon, <1>1
      <4>5. x = v \/ old <= x
        BY <3>3, <4>1, <4>2, <4>4
      <4>6. low <= x
        BY <4>3, <4>4, <4>5
      <4> QED
        BY <4>1, <4>6
    <3>5. \E j \in 1..l.i : f[l.list[j]] = low
      <4>1. k \in 1..l.i /\ l.i \in 1..l.i
        BY <1>1, <2>4
      <4>2. low = v \/ low = l.low
        BY Zenon, <1>6
      <4> QED
        BY Zenon, <1>5, <3>1, <4>1, <4>2
    <3> QED
      BY <1>11, <3>4, <3>5 DEF Least
  <2> QED
    BY <1>3, <2>3, <2>4
<1>15. Ties(m, f, 0) = 0
  BY TiesCount
<1>16. ASSUME LeastExact(l, f) PROVE ExactAt(m, algorithm, f, ewma)
  <2>1. LeastExact(m, f)
    BY <1>1, <1>11, <1>12, <1>14, <1>15, <1>16 DEF LeastExact
  <2> QED
    BY ZenonT(30), <1>12, <2>1 DEF ExactAt, ScoresExact, HashExact
<1> QED
  BY Zenon, <1>1, <1>2, <1>10, <1>11, <1>12, <1>13, <1>16 DEF Moves, ExactAt

\* Locals of a loop of LeastConnections.
LEMMA LeastHere ==
  ASSUME PickInv, NEW p \in Pickers, pick[p].pc \in LeastPC
  PROVE  \E l \in Local : \E f \in [Upstreams -> Nat] :
           /\ l = pick[p] /\ LocalOK(l, algorithm) /\ l.list \in Sublists
           /\ f = inFlight /\ algorithm = "least-conn"
           /\ l.i \in Nat /\ l.low \in Nat /\ l.count \in Nat /\ Len(l.list) \in Nat
           /\ Len(l.list) > 1 /\ l.i \in 1..Len(l.list) /\ (l.pc = "draw" => l.i = 1)
           /\ \A k \in 1..Len(l.list) : l.list[k] \in Upstreams /\ f[l.list[k]] \in Nat
<1>1. PICK l \in Local : /\ l = pick[p] /\ LocalOK(l, algorithm) /\ l.list \in Sublists
                         /\ l.i \in Nat /\ l.low \in Nat /\ l.count \in Nat
  BY Zenon, Here
<1>2. PICK f \in [Upstreams -> Nat] : f = inFlight
  BY Zenon, Here
<1>3. /\ Len(l.list) > 1 /\ algorithm = "least-conn"
      /\ l.pc # "draw" => l.i \in 1..Len(l.list)
  BY Zenon, <1>1 DEF LocalOK, LeastPC, Looping
<1>4. Len(l.list) \in Nat /\ \A k \in 1..Len(l.list) : l.list[k] \in Upstreams
  BY Zenon, <1>1, ListIs
<1>5. \A k \in 1..Len(l.list) : f[l.list[k]] \in Nat
  BY <1>4
<1>6. l.i \in 1..Len(l.list) /\ (l.pc = "draw" => l.i = 1)
  <2>1. l.pc = "draw" => l.i = 1
    BY <1>1 DEF LocalOK
  <2>2. 1 \in 1..Len(l.list)
    BY <1>3, <1>4
  <2> QED
    BY Zenon, <1>3, <2>1, <2>2
<1> QED
  BY Zenon, <1>1, <1>2, <1>3, <1>4, <1>5, <1>6

\* One that has the least of all is what least-conn promises.
LEMMA LeastPromised ==
  ASSUME NEW l, l.list \in Sublists, Len(l.list) > 1, NEW f, NEW e,
         Least(l, f, Len(l.list)), NEW k \in 1..Len(l.list), f[l.list[k]] = l.low
  PROVE  l.list[k] \in PromisedOf(l, "least-conn", f, e)
<1> DEFINE cands == Range(l.list)
<1>1. cands = {l.list[j] : j \in 1..Len(l.list)}
  BY Zenon, ListIs
<1>2. l.list[k] \in cands /\ \A v \in cands : f[l.list[k]] <= f[v]
  BY Zenon, <1>1 DEF Least
<1>3. Len(l.list) # 1
  BY ListIs
<1>4. PromisedOf(l, "least-conn", f, e) = {u \in cands : \A v \in cands : f[u] <= f[v]}
  BY <1>3 DEF PromisedOf
<1> QED
  BY <1>2, <1>4

\* What is exact of locals at these places is LeastExact.
LEMMA OnlyLeastCounts ==
  ASSUME NEW l, NEW alg, NEW f, NEW e
  PROVE  /\ l.pc \in LeastPC /\ LeastExact(l, f) => ExactAt(l, alg, f, e)
         /\ ExactAt(l, alg, f, e) => LeastExact(l, f)
BY Zenon DEF LeastPC, ExactAt, ScoresExact, HashExact

\* Locals with the same minimum of the same list have the same ties.
LEMMA SameTies ==
  ASSUME NEW m, NEW l, m.list = l.list, m.low = l.low, NEW f, NEW n
  PROVE  Ties(m, f, n) = Ties(l, f, n) /\ (Least(l, f, n) => Least(m, f, n))
BY Zenon DEF Ties, Least

\* Its second loop, over new loads: with none loaded that has changed, they are the
\* ties of the first, and of these there is at least one.
LEMMA LoadTiesMoves ==
  ASSUME PickInv, NEW p \in Pickers, LoadTies(p)
  PROVE  Moves(p)
<1>1. pick[p].pc = "ties" /\ "ties" \in LeastPC
  BY Zenon DEF LoadTies, LeastPC
<1>2. PICK l \in Local : \E f \in [Upstreams -> Nat] :
           /\ l = pick[p] /\ LocalOK(l, algorithm) /\ l.list \in Sublists
           /\ f = inFlight /\ algorithm = "least-conn"
           /\ l.i \in Nat /\ l.low \in Nat /\ l.count \in Nat /\ Len(l.list) \in Nat
           /\ Len(l.list) > 1 /\ l.i \in 1..Len(l.list) /\ (l.pc = "draw" => l.i = 1)
           /\ \A k \in 1..Len(l.list) : l.list[k] \in Upstreams /\ f[l.list[k]] \in Nat
  BY <1>1, LeastHere
<1>3. PICK f \in [Upstreams -> Nat] : f = inFlight
  BY Zenon, <1>2
<1>4. l.i \in 1..Len(l.list)
  BY Zenon, <1>1, <1>2
<1>5. PICK count \in Nat : count = l.count + (IF f[l.list[l.i]] = l.low THEN 1 ELSE 0)
  BY <1>2
<1>6. PICK next \in {"only", "draw"} : next = IF count = 1 THEN "only" ELSE "draw"
  OBVIOUS
<1>7. PICK l2 : l2 = [l EXCEPT !.count = count] /\ Loops(p, l2, next)
  BY Zenon, <1>2, <1>3, <1>5, <1>6 DEF LoadTies
<1>8. l2 \in Local
  BY Zenon, <1>7 DEF Local
<1>9. l2.pc = "ties" /\ l2.i = l.i /\ l2.list = l.list /\ l2.low = l.low /\ l2.count = count
  BY <1>1, <1>2, <1>7 DEF Local
<1>10. next \in PickPC
  BY DEF PickPC
<1>11. PICK m \in Local : Goes(p, m) /\ Looped(m, l2, next)
  BY Zenon, <1>7, <1>8, <1>10, LoopGoes
<1>12. /\ m.list = l.list /\ m.low = l.low /\ m.count = count
       /\ l.i = Len(l.list) => m.pc = next /\ m.i = 1
       /\ l.i # Len(l.list) => m.pc = "ties" /\ m.i = l.i + 1
  BY Zenon, <1>9, <1>11 DEF Like, Looped
<1>13. m.pc \in {"ties", "only", "draw"} /\ m.i \in 1..Len(m.list) /\ Len(m.list) > 1
  BY <1>2, <1>4, <1>12
<1>14. LocalOK(m, algorithm) /\ m.pc \in PickPC \ {"eligible"} /\ m.pc \in LeastPC
  BY Zenon, <1>2, <1>12, <1>13 DEF LocalOK, LeastPC, HashPC, Looping, PickPC
<1>15. ASSUME LeastExact(l, f) PROVE LeastExact(m, f)
  <2>1. Least(l, f, Len(l.list)) /\ l.count = Ties(l, f, l.i - 1)
    BY <1>1, <1>2, <1>15 DEF LeastExact
  <2>2. Least(m, f, Len(m.list))
    BY Zenon, <1>12, <2>1, SameTies
  <2>3. count = Ties(m, f, l.i)
    <3>1. PICK n \in Nat : n = l.i - 1 /\ l.i = n + 1
      BY <1>2, <1>4
    <3>2. Ties(l, f, n + 1) = Ties(l, f, n) + (IF f[l.list[n + 1]] = l.low THEN 1 ELSE 0)
      BY Zenon, TiesCount
    <3> QED
      BY <1>5, <1>12, <2>1, <3>1, <3>2, SameTies
  <2>4. m.pc = "ties" => m.count = Ties(m, f, m.i - 1)
    <3>1. m.pc = "ties" => m.i = l.i + 1
      BY Zenon, <1>12
    <3>2. l.i + 1 - 1 = l.i
      BY <1>2
    <3> QED
      <4> SUFFICES ASSUME m.pc = "ties" PROVE m.count = Ties(m, f, m.i - 1)
        BY Zenon
      <4>1. m.i = l.i + 1
        BY Zenon, <3>1
      <4>2. m.i - 1 = l.i
        BY <1>2, <4>1
      <4> QED
        BY Zenon, <1>12, <2>3, <4>2
  <2>5. m.pc = "only" => \E k \in m.i..Len(m.list) : f[m.list[k]] = m.low
    <3>1. m.pc = "only" => m.i = 1
      BY Zenon, <1>12
    <3> QED
      BY <2>2, <3>1 DEF Least
  <2>6. m.pc = "draw" => m.count = Ties(m, f, Len(m.list))
    BY <1>12, <2>3
  <2> QED
    BY ZenonT(30), <1>13, <2>2, <2>4, <2>5, <2>6 DEF LeastExact
<1>16. ExactAt(l, algorithm, f, ewma) => ExactAt(m, algorithm, f, ewma)
  BY Zenon, <1>14, <1>15, OnlyLeastCounts
<1> QED
  BY Zenon, <1>2, <1>3, <1>11, <1>14, <1>16 DEF Moves

\* Its loop for a single tie finds it, and only a load that has changed lets it end
\* without one.
LEMMA LoadOnlyMoves ==
  ASSUME PickInv, NEW p \in Pickers, LoadOnly(p)
  PROVE  Moves(p)
<1>1. pick[p].pc = "only" /\ "only" \in LeastPC
  BY Zenon DEF LoadOnly, LeastPC
<1>2. PICK l \in Local : \E f \in [Upstreams -> Nat] :
           /\ l = pick[p] /\ LocalOK(l, algorithm) /\ l.list \in Sublists
           /\ f = inFlight /\ algorithm = "least-conn"
           /\ l.i \in Nat /\ l.low \in Nat /\ l.count \in Nat /\ Len(l.list) \in Nat
           /\ Len(l.list) > 1 /\ l.i \in 1..Len(l.list) /\ (l.pc = "draw" => l.i = 1)
           /\ \A k \in 1..Len(l.list) : l.list[k] \in Upstreams /\ f[l.list[k]] \in Nat
  BY <1>1, LeastHere
<1>3. PICK f \in [Upstreams -> Nat] : f = inFlight
  BY <1>2
<1>4. l.i \in 1..Len(l.list)
  BY <1>1, <1>2
<1>5. ASSUME f[l.list[l.i]] = l.low PROVE Moves(p)
  <2>1. Returns(p, l.list[l.i])
    BY Zenon, <1>2, <1>3, <1>5 DEF LoadOnly
  <2>2. LeastExact(l, f) => Least(l, f, Len(l.list))
    BY Zenon, <1>1, <1>2 DEF LeastExact
  <2>3. LeastExact(l, f) => l.list[l.i] \in PromisedOf(l, algorithm, f, ewma)
    BY Zenon, <1>2, <1>4, <1>5, <2>2, LeastPromised
  <2>4. ExactAt(l, algorithm, f, ewma) => l.list[l.i] \in PromisedOf(l, algorithm, f, ewma)
    BY <2>3, OnlyLeastCounts
  <2> QED
    BY Zenon, <1>2, <1>3, <1>4, <2>1, <2>4, ReturnMoves
<1>6. ASSUME f[l.list[l.i]] # l.low PROVE Moves(p)
  <2>1. Loops(p, l, "draw") /\ "draw" \in PickPC
    BY <1>2, <1>3, <1>6 DEF LoadOnly, PickPC
  <2>2. PICK m \in Local : Goes(p, m) /\ Looped(m, l, "draw")
    BY <2>1, LoopGoes
  <2>3. /\ m.list = l.list /\ m.low = l.low
        /\ l.i = Len(l.list) => m.pc = "draw" /\ m.i = 1
        /\ l.i # Len(l.list) => m.pc = "only" /\ m.i = l.i + 1
    BY Zenon, <1>1, <1>2, <2>2 DEF Like, Looped
  <2>4. /\ m.pc \in {"only", "draw"} /\ (m.pc = "only" => m.i \in 1..Len(m.list))
        /\ m.pc = "draw" => m.i = 1
    BY <1>2, <1>4, <2>3
  <2>5. LocalOK(m, algorithm) /\ m.pc \in PickPC \ {"eligible"} /\ m.pc \in LeastPC
    BY Zenon, <1>2, <2>3, <2>4 DEF LocalOK, LeastPC, HashPC, Looping, PickPC
  <2>6. ASSUME LeastExact(l, f) PROVE LeastExact(m, f)
    <3>1. Least(l, f, Len(l.list))
      BY Zenon, <1>1, <1>2, <2>6 DEF LeastExact
    <3>2. PICK k \in l.i..Len(l.list) : f[l.list[k]] = l.low
      BY Zenon, <1>1, <1>2, <2>6 DEF LeastExact
    <3>3. k # l.i
      BY Zenon, <1>6, <3>2
    <3>4. l.i # Len(l.list) /\ k \in (l.i + 1)..Len(l.list)
      BY <1>2, <1>4, <3>3
    <3>5. Least(m, f, Len(m.list)) /\ m.pc = "only" /\ k \in m.i..Len(m.list)
      BY <2>3, <3>1, <3>4, SameTies
    <3> QED
      BY <2>3, <3>2, <3>5 DEF LeastExact
  <2>7. ExactAt(l, algorithm, f, ewma) => ExactAt(m, algorithm, f, ewma)
    BY <2>5, <2>6, OnlyLeastCounts
  <2> QED
    BY ZenonT(30), <1>2, <1>3, <2>2, <2>5, <2>7 DEF Moves
<1> QED
  BY Zenon, <1>5, <1>6

\* It draws among the ties; rng.IntN(0) panics, which only changed loads bring about.
LEMMA DrawTieMoves ==
  ASSUME PickInv, NEW p \in Pickers, DrawTie(p)
  PROVE  Moves(p)
<1>1. pick[p].pc = "draw" /\ "draw" \in LeastPC
  BY Zenon DEF DrawTie, LeastPC
<1>2. PICK l \in Local : \E f \in [Upstreams -> Nat] :
           /\ l = pick[p] /\ LocalOK(l, algorithm) /\ l.list \in Sublists
           /\ f = inFlight /\ algorithm = "least-conn"
           /\ l.i \in Nat /\ l.low \in Nat /\ l.count \in Nat /\ Len(l.list) \in Nat
           /\ Len(l.list) > 1 /\ l.i \in 1..Len(l.list) /\ (l.pc = "draw" => l.i = 1)
           /\ \A k \in 1..Len(l.list) : l.list[k] \in Upstreams /\ f[l.list[k]] \in Nat
  BY <1>1, LeastHere
<1>3. PICK f \in [Upstreams -> Nat] : f = inFlight
  BY <1>2
<1>4. LeastExact(l, f) => Least(l, f, Len(l.list)) /\ l.count = Ties(l, f, Len(l.list))
  BY Zenon, <1>1, <1>2 DEF LeastExact
<1>5. ASSUME l.count = 0, Goes(p, Outcome(p, "panicked", 0)) PROVE Moves(p)
  <2>1. LeastExact(l, f) => l.count # 0
    <3>1. LeastExact(l, f) => \E k \in 1..Len(l.list) : f[l.list[k]] = l.low
      BY <1>4 DEF Least
    <3>2. (\E k \in 1..Len(l.list) : f[l.list[k]] = l.low) => Ties(l, f, Len(l.list)) # 0
      BY Zenon, <1>2, TiesCount
    <3> QED
      BY Zenon, <1>4, <3>1, <3>2
  <2>2. ExactAt(l, algorithm, f, ewma) => FALSE
    BY <1>5, <2>1, OnlyLeastCounts
  <2> QED
    BY Zenon, <1>2, <1>3, <1>5, <2>2, EndMoves
<1>6. ASSUME NEW d \in 0..(l.count - 1),
             Goes(p, [l EXCEPT !.pc = "tiebreak", !.draw = <<d, d>>, !.count = 0])
      PROVE  Moves(p)
  <2>1. d \in Nat /\ d < l.count
    BY <1>2, <1>6
  <2>2. PICK dd : dd = <<d, d>> /\ dd \in Nat \X Nat /\ dd[1] = d
    <3>1. <<d, d>> \in Nat \X Nat
      BY <2>1
    <3>2. <<d, d>>[1] = d
      OBVIOUS
    <3> QED
      BY <3>1, <3>2
  <2>3. PICK m : m = [l EXCEPT !.pc = "tiebreak", !.draw = dd, !.count = 0]
    OBVIOUS
  <2>4. m \in Local
    BY Zenon, <2>2, <2>3 DEF Local, PickPC
  <2>5. /\ m.list = l.list /\ m.low = l.low /\ m.pc = "tiebreak" /\ m.i = l.i /\ m.count = 0
        /\ m.draw = dd
    BY <2>3 DEF Local
  <2>6. Goes(p, m)
    BY Zenon, <1>6, <2>2, <2>3
  <2>7. l.i = 1 /\ 1 \in 1..Len(l.list)
    BY <1>1, <1>2
  <2>8. LocalOK(m, algorithm) /\ m.pc \in PickPC \ {"eligible"} /\ m.pc \in LeastPC
    BY Zenon, <1>2, <2>4, <2>5, <2>7 DEF LocalOK, LeastPC, HashPC, Looping, PickPC
  <2>9. ASSUME LeastExact(l, f) PROVE LeastExact(m, f)
    <3>1. Least(m, f, Len(m.list)) /\ Ties(m, f, Len(m.list)) = l.count
      BY <1>4, <2>5, <2>9, SameTies
    <3>2. m.i - 1 = 0 /\ Ties(m, f, 0) = 0
      BY <2>5, <2>7, TiesCount
    <3>3. 0 <= d /\ d < Ties(m, f, Len(m.list)) /\ m.draw[1] = d
      BY <2>1, <2>2, <2>5, <3>1
    <3> QED
      BY Zenon, <2>5, <3>1, <3>2, <3>3 DEF LeastExact
  <2>10. ExactAt(l, algorithm, f, ewma) => ExactAt(m, algorithm, f, ewma)
    BY <2>8, <2>9, OnlyLeastCounts
  <2> QED
    BY Zenon, <1>2, <1>3, <2>6, <2>8, <2>10 DEF Moves
<1> QED
  BY Zenon, <1>2, <1>5, <1>6 DEF DrawTie

\* Its last loop stops at the tie that was drawn.
LEMMA LoadTieBreakMoves ==
  ASSUME PickInv, NEW p \in Pickers, LoadTieBreak(p)
  PROVE  Moves(p)
<1>1. pick[p].pc = "tiebreak" /\ "tiebreak" \in LeastPC
  BY Zenon DEF LoadTieBreak, LeastPC
<1>2. PICK l \in Local : \E f \in [Upstreams -> Nat] :
           /\ l = pick[p] /\ LocalOK(l, algorithm) /\ l.list \in Sublists
           /\ f = inFlight /\ algorithm = "least-conn"
           /\ l.i \in Nat /\ l.low \in Nat /\ l.count \in Nat /\ Len(l.list) \in Nat
           /\ Len(l.list) > 1 /\ l.i \in 1..Len(l.list) /\ (l.pc = "draw" => l.i = 1)
           /\ \A k \in 1..Len(l.list) : l.list[k] \in Upstreams /\ f[l.list[k]] \in Nat
  BY <1>1, LeastHere
<1>3. PICK f \in [Upstreams -> Nat] : f = inFlight
  BY <1>2
<1>4. PICK d \in Nat : d = l.draw[1]
  BY Zenon, <1>2, Here
<1> DEFINE ties == f[l.list[l.i]] = l.low
<1>5. LeastExact(l, f) => /\ Least(l, f, Len(l.list)) /\ l.count = Ties(l, f, l.i - 1)
                          /\ l.count <= d /\ d < Ties(l, f, Len(l.list))
  BY Zenon, <1>1, <1>2, <1>4 DEF LeastExact
<1>6. PICK n \in Nat : n = l.i - 1 /\ l.i = n + 1
  BY <1>2
<1>7. PICK t \in Nat : t = Ties(l, f, n) /\ Ties(l, f, l.i) = t + (IF ties THEN 1 ELSE 0)
  BY <1>6, TiesCount
<1>8. ASSUME ties, Returns(p, l.list[l.i]) PROVE Moves(p)
  <2>1. LeastExact(l, f) => l.list[l.i] \in PromisedOf(l, algorithm, f, ewma)
    BY Zenon, <1>2, <1>5, <1>8, LeastPromised
  <2>2. ExactAt(l, algorithm, f, ewma) => l.list[l.i] \in PromisedOf(l, algorithm, f, ewma)
    BY <2>1, OnlyLeastCounts
  <2> QED
    BY Zenon, <1>2, <1>3, <1>8, <2>2, ReturnMoves
<1>9. ASSUME ~ (ties /\ l.count = d), l.i = Len(l.list), Returns(p, l.list[1]) PROVE Moves(p)
  <2>1. LeastExact(l, f) => FALSE
    <3> SUFFICES ASSUME LeastExact(l, f) PROVE FALSE
      BY Zenon
    <3>1. l.count = t /\ t <= d /\ d < t + (IF ties THEN 1 ELSE 0)
      BY Zenon, <1>5, <1>6, <1>7, <1>9
    <3>2. CASE ties
      <4>1. d < t + 1 /\ t # d
        BY Zenon, <1>9, <3>1, <3>2
      <4> QED
        BY <3>1, <4>1
    <3>3. CASE ~ ties
      <4>1. d < t + 0
        BY <3>1, <3>3
      <4> QED
        BY <3>1, <4>1
    <3> QED
      BY <3>2, <3>3
  <2>2. ExactAt(l, algorithm, f, ewma) => FALSE
    BY Zenon, <2>1, OnlyLeastCounts
  <2>3. 1 \in 1..Len(l.list)
    BY <1>2
  <2> QED
    BY Zenon, <1>2, <1>3, <1>9, <2>2, <2>3, ReturnMoves
<1>10. ASSUME ~ (ties /\ l.count = d), l.i # Len(l.list),
              Goes(p, [l EXCEPT !.i = @ + 1, !.count = IF ties THEN @ + 1 ELSE @])
       PROVE  Moves(p)
  <2>1. PICK count \in Nat : /\ count = IF ties THEN l.count + 1 ELSE l.count
                             /\ count = l.count + (IF ties THEN 1 ELSE 0)
    BY <1>2
  <2>2. PICK i \in Nat : i = l.i + 1 /\ i \in 1..Len(l.list) /\ i - 1 = l.i
    <3>1. PICK a \in Nat, b \in Nat : a = l.i /\ b = Len(l.list)
      BY <1>2
    <3>2. a \in 1..b /\ a # b
      BY <1>2, <1>10, <3>1
    <3>3. a + 1 \in Nat /\ a + 1 \in 1..b /\ a + 1 - 1 = a
      BY <3>2
    <3> QED
      BY <3>1, <3>3
  <2>3. PICK m : m = [l EXCEPT !.i = i, !.count = count]
    OBVIOUS
  <2>4. m \in Local
    BY Zenon, <2>3 DEF Local
  <2>5. /\ m.list = l.list /\ m.low = l.low /\ m.pc = "tiebreak" /\ m.i = i
        /\ m.count = count /\ m.draw[1] = d
    BY <1>1, <1>2, <1>4, <2>3 DEF Local
  <2>6. Goes(p, m)
    BY Zenon, <1>10, <2>1, <2>3, <2>2
  <2>7. m.i \in 1..Len(m.list)
    BY <2>5, <2>2
  <2>8. LocalOK(m, algorithm) /\ m.pc \in PickPC \ {"eligible"} /\ m.pc \in LeastPC
    BY Zenon, <1>2, <2>4, <2>5, <2>7 DEF LocalOK, LeastPC, HashPC, Looping, PickPC
  <2>9. ASSUME LeastExact(l, f) PROVE LeastExact(m, f)
    <3>1. Least(m, f, Len(m.list)) /\ d < Ties(m, f, Len(m.list))
      BY <1>5, <2>5, <2>9, SameTies
    <3>2. l.count = t /\ t <= d
      BY Zenon, <1>5, <1>6, <1>7, <2>9
    <3>3. m.i - 1 = l.i
      BY Zenon, <2>5, <2>2
    <3>4. count = Ties(l, f, l.i)
      BY Zenon, <1>7, <2>1, <3>2
    <3>5. count = Ties(m, f, m.i - 1)
      BY <2>5, <3>3, <3>4, SameTies
    <3>6. count <= d
      <4>1. ties => count = t + 1 /\ t # d
        BY Zenon, <1>10, <2>1, <3>2
      <4>2. ~ ties => count = t
        BY <2>1, <3>2
      <4> QED
        BY <3>2, <4>1, <4>2
    <3> QED
      BY Zenon, <2>5, <3>1, <3>5, <3>6 DEF LeastExact
  <2>10. ExactAt(l, algorithm, f, ewma) => ExactAt(m, algorithm, f, ewma)
    BY Zenon, <2>8, <2>9, OnlyLeastCounts
  <2> QED
    BY ZenonT(30), <1>2, <1>3, <2>6, <2>8, <2>10 DEF Moves
<1> QED
  BY Zenon, <1>2, <1>3, <1>4, <1>8, <1>9, <1>10 DEF LoadTieBreak

-----------------------------------------------------------------------------
\* P2CEWMA.Pick draws two different candidates.
LEMMA SampleTwoMoves ==
  ASSUME PickInv, NEW p \in Pickers, NEW i \in Upstreams, NEW j \in Upstreams,
         SampleTwo(p, i, j)
  PROVE  Moves(p)
<1>1. PICK l \in Local : l = pick[p] /\ LocalOK(l, algorithm) /\ l.list \in Sublists
  BY Here
<1>2. /\ l.pc = "eligible" /\ algorithm = "p2c-ewma"
      /\ i \in 1..Len(l.list) /\ j \in 1..Len(l.list) /\ i # j
      /\ Goes(p, [l EXCEPT !.pc = "scores", !.draw = <<i, j>>])
  BY <1>1, ListIs DEF SampleTwo
<1>3. Len(l.list) \in Nat /\ i \in Nat /\ j \in Nat
  BY <1>1, <1>2, ListIs
<1>4. Len(l.list) > 1 /\ l.i = 1
  BY <1>1, <1>2, <1>3 DEF LocalOK
<1>5. PICK d : d = <<i, j>> /\ d \in Nat \X Nat /\ d[1] = i /\ d[2] = j
  <2>1. <<i, j>> \in Nat \X Nat
    BY <1>3
  <2>2. <<i, j>>[1] = i /\ <<i, j>>[2] = j
    OBVIOUS
  <2> QED
    BY <2>1, <2>2
<1>6. PICK m : m = [l EXCEPT !.pc = "scores", !.draw = d]
  OBVIOUS
<1>7. m \in Local
  BY Zenon, <1>5, <1>6 DEF Local, PickPC
<1>8. m.pc = "scores" /\ m.list = l.list /\ m.i = 1 /\ m.draw[1] = i /\ m.draw[2] = j
  BY <1>4, <1>5, <1>6 DEF Local
<1>9. LocalOK(m, algorithm) /\ m.pc \in PickPC \ {"eligible"}
  BY <1>1, <1>2, <1>4, <1>7, <1>8 DEF LocalOK, LeastPC, HashPC, Looping, PickPC
<1>10. ExactAt(m, algorithm, inFlight, ewma)
  <2>1. LeastExact(m, inFlight) /\ HashExact(m, inFlight)
    BY Zenon, <1>8 DEF LeastExact, HashExact
  <2>2. m.i # 2 /\ ~ (m.i > 2) /\ m.i # 4
    BY <1>8
  <2>3. ScoresExact(m, inFlight, ewma)
    BY Zenon, <2>2 DEF ScoresExact
  <2> QED
    BY Zenon, <1>8, <2>1, <2>3 DEF ExactAt
<1>11. Goes(p, m)
  BY <1>2, <1>5, <1>6
<1> QED
  BY Zenon, <1>9, <1>10, <1>11 DEF Moves

\* What is exact of locals there is ScoresExact.
LEMMA OnlyScoresCount ==
  ASSUME NEW l, NEW alg, NEW f, NEW e, l.pc = "scores"
  PROVE  ExactAt(l, alg, f, e) <=> ScoresExact(l, f, e)
BY Zenon DEF ExactAt, LeastExact, HashExact

\* One that does no worse than some other is what p2c promises.
LEMMA ScoresPromised ==
  ASSUME NEW l, l.list \in Sublists, Len(l.list) > 1, NEW f, NEW e,
         NEW u \in Range(l.list), NEW v \in Range(l.list), u # v,
         e[u] * (1 + f[u]) <= e[v] * (1 + f[v])
  PROVE  u \in PromisedOf(l, "p2c-ewma", f, e)
<1> DEFINE cands == Range(l.list)
<1>1. Len(l.list) # 1
  BY ListIs
<1>2. PromisedOf(l, "p2c-ewma", f, e)
        = {x \in cands : \E y \in cands \ {x} : e[x] * (1 + f[x]) <= e[y] * (1 + f[y])}
  BY <1>1 DEF PromisedOf
<1> QED
  BY Zenon, <1>2

\* It loads average and count of each, and returns the one with the lower score.
LEMMA LoadScoreMoves ==
  ASSUME PickInv, NEW p \in Pickers, LoadScore(p)
  PROVE  Moves(p)
<1>1. PICK l \in Local : /\ l = pick[p] /\ LocalOK(l, algorithm) /\ l.list \in Sublists
                         /\ l.i \in Nat /\ l.low \in Nat /\ l.count \in Nat
  BY Zenon, Here
<1>2. PICK f \in [Upstreams -> Nat] : f = inFlight
  BY Here
<1>3. PICK e \in [Upstreams -> Nat] : e = ewma
  BY Zenon, Here
<1>4. PICK d \in Nat, c \in Nat : d = l.draw[1] /\ c = l.draw[2]
  BY <1>1, Here
<1>5. /\ l.pc = "scores" /\ Len(l.list) > 1 /\ algorithm = "p2c-ewma" /\ l.i \in 1..4 /\ d # c
      /\ d \in 1..Len(l.list) /\ c \in 1..Len(l.list)
  BY Zenon, <1>1, <1>4 DEF LoadScore, LocalOK
<1>6. PICK a \in Upstreams, b \in Upstreams : a = l.list[d] /\ b = l.list[c] /\ a # b
  <2>1. l.list[d] \in Upstreams /\ l.list[c] \in Upstreams
    BY Zenon, <1>1, <1>5, ListIs
  <2> QED
    BY <1>1, <1>5, <2>1, NoneTwice
<1>7. PICK sa \in Nat, sb \in Nat : sa = e[a] * (1 + f[a]) /\ sb = e[b] * (1 + f[b])
  <2>1. \A x, y \in Nat : x * (1 + y) \in Nat
    OBVIOUS
  <2> QED
    BY <2>1
<1>8. ScoresExact(l, f, e) => /\ l.i = 2 => l.low = e[a]
                              /\ l.i > 2 => l.low = sa
                              /\ l.i = 4 => l.count = e[b]
  BY Zenon, <1>4, <1>5, <1>6, <1>7 DEF ScoresExact
<1>9. ASSUME NEW i \in 2..4, NEW low \in Nat, NEW count \in Nat,
             Goes(p, [l EXCEPT !.i = i, !.low = low, !.count = count]),
             ScoresExact(l, f, e) => /\ i = 2 => low = e[a]
                                     /\ i > 2 => low = sa
                                     /\ i = 4 => count = e[b]
      PROVE  Moves(p)
  <2>1. PICK m : m = [l EXCEPT !.i = i, !.low = low, !.count = count]
    OBVIOUS
  <2>2. i \in Nat /\ i \in 1..4
    OBVIOUS
  <2>3. m \in Local
    BY Zenon, <2>1, <2>2 DEF Local
  <2>4. /\ m.pc = "scores" /\ m.list = l.list /\ m.i = i /\ m.low = low /\ m.count = count
        /\ m.draw = l.draw
    BY <1>5, <2>1 DEF Local
  <2>5. LocalOK(m, algorithm) /\ m.pc \in PickPC \ {"eligible"}
    BY Zenon, <1>1, <1>4, <1>5, <2>2, <2>3, <2>4 DEF LocalOK, LeastPC, HashPC, Looping, PickPC
  <2>6. ScoresExact(l, f, e) => ScoresExact(m, f, e)
    BY Zenon, <1>4, <1>6, <1>7, <1>9, <2>4 DEF ScoresExact
  <2>7. ExactAt(l, algorithm, f, e) => ExactAt(m, algorithm, f, e)
    BY <1>5, <2>4, <2>6, OnlyScoresCount
  <2> QED
    BY Zenon, <1>1, <1>2, <1>3, <1>9, <2>1, <2>5, <2>7 DEF Moves
<1>10. ASSUME l.i = 1, Goes(p, [l EXCEPT !.i = 2, !.low = e[a]]) PROVE Moves(p)
  <2>1. [l EXCEPT !.i = 2, !.low = e[a]] = [l EXCEPT !.i = 2, !.low = e[a], !.count = l.count]
    BY Zenon DEF Local
  <2>2. PICK i \in 2..4 : i = 2 /\ ~ (i > 2) /\ i # 4
    OBVIOUS
  <2>3. PICK low \in Nat : low = e[a]
    OBVIOUS
  <2>4. Goes(p, [l EXCEPT !.i = i, !.low = low, !.count = l.count])
    BY <1>10, <2>1, <2>2, <2>3
  <2> QED
    BY Zenon, <1>1, <1>9, <2>2, <2>3, <2>4
<1>11. ASSUME l.i = 2, Goes(p, [l EXCEPT !.i = 3, !.low = l.low * (1 + f[a])]) PROVE Moves(p)
  <2>1. PICK low \in Nat : low = l.low * (1 + f[a])
    BY <1>1
  <2>2. [l EXCEPT !.i = 3, !.low = low] = [l EXCEPT !.i = 3, !.low = low, !.count = l.count]
    BY Zenon DEF Local
  <2>3. PICK i \in 2..4 : i = 3 /\ i # 2 /\ i # 4
    OBVIOUS
  <2>4. ScoresExact(l, f, e) => low = sa
    BY <1>7, <1>8, <1>11, <2>1
  <2>5. Goes(p, [l EXCEPT !.i = i, !.low = low, !.count = l.count])
    BY <1>11, <2>1, <2>2, <2>3
  <2> QED
    BY Zenon, <1>1, <1>9, <2>3, <2>4, <2>5
<1>12. ASSUME l.i = 3, Goes(p, [l EXCEPT !.i = 4, !.count = e[b]]) PROVE Moves(p)
  <2>1. [l EXCEPT !.i = 4, !.count = e[b]] = [l EXCEPT !.i = 4, !.low = l.low, !.count = e[b]]
    BY Zenon DEF Local
  <2>2. PICK i \in 2..4, count \in Nat : i = 4 /\ i # 2 /\ count = e[b]
    OBVIOUS
  <2>3. ScoresExact(l, f, e) => l.low = sa
    BY <1>8, <1>12
  <2>4. Goes(p, [l EXCEPT !.i = i, !.low = l.low, !.count = count])
    BY <1>12, <2>1, <2>2
  <2> QED
    BY Zenon, <1>1, <1>9, <2>2, <2>3, <2>4
<1>13. ASSUME l.i = 4, NEW k \in {d, c}, Returns(p, l.list[k]),
              l.low <= l.count * (1 + f[b]) => k = d, ~ (l.low <= l.count * (1 + f[b])) => k = c
       PROVE  Moves(p)
  <2>1. a \in Range(l.list) /\ b \in Range(l.list)
    <3>1. Range(l.list) = {l.list[j] : j \in 1..Len(l.list)}
      BY Zenon, <1>1, ListIs
    <3> QED
      BY Zenon, <1>5, <1>6, <3>1
  <2>2. ASSUME ScoresExact(l, f, e) PROVE l.list[k] \in PromisedOf(l, algorithm, f, e)
    <3>1. l.low = sa /\ l.count * (1 + f[b]) = sb
      BY <1>7, <1>8, <1>13, <2>2
    <3>2. sa <= sb => l.list[k] = a
      BY Zenon, <1>6, <1>13, <3>1
    <3>3. ~ (sa <= sb) => l.list[k] = b /\ sb <= sa
      BY <1>6, <1>13, <3>1
    <3> QED
      BY ZenonT(30), <1>1, <1>5, <1>6, <1>7, <2>1, <3>2, <3>3, ScoresPromised
  <2>3. ExactAt(l, algorithm, f, e) => l.list[k] \in PromisedOf(l, algorithm, f, e)
    BY Zenon, <1>5, <2>2, OnlyScoresCount
  <2>4. k \in 1..Len(l.list)
    BY Zenon, <1>5
  <2> QED
    BY Zenon, <1>1, <1>2, <1>3, <1>13, <2>3, <2>4, ReturnMoves
<1>14. ASSUME l.i = 4, Returns(p, IF l.low <= l.count * (1 + f[b]) THEN a ELSE b)
       PROVE  Moves(p)
  BY <1>6, <1>13, <1>14
<1> QED
  BY Zenon, <1>1, <1>2, <1>3, <1>4, <1>6, <1>10, <1>11, <1>12, <1>14 DEF LoadScore

-----------------------------------------------------------------------------
\* Consistent hashing.

\* What the first n of a list have in flight, one after the other.
LEMMA SumGrows ==
  ASSUME NEW l, l.list \in Sublists, NEW f \in [Upstreams -> Int], NEW n \in 1..Len(l.list)
  PROVE  /\ Total(Only(f, FirstOf(l, n))) = Total(Only(f, FirstOf(l, n - 1))) + f[l.list[n]]
         /\ Total(Only(f, FirstOf(l, n - 1))) \in Int
         /\ FirstOf(l, 0) = {} /\ FirstOf(l, Len(l.list)) = Range(l.list)
<1>1. Len(l.list) \in Nat /\ l.list[n] \in Upstreams
  BY Zenon, ListIs
<1>2. PICK m \in Nat : m = n - 1 /\ n = m + 1 /\ m \in 0..Len(l.list)
  BY <1>1
<1>3. FirstOf(l, n) = FirstOf(l, m) \cup {l.list[n]}
  BY <1>2 DEF FirstOf
<1>4. l.list[n] \notin FirstOf(l, m)
  <2> SUFFICES ASSUME NEW k \in 1..m, l.list[n] = l.list[k] PROVE FALSE
    BY Zenon DEF FirstOf
  <2>1. k \in 1..Len(l.list) /\ k # n
    BY <1>1, <1>2
  <2> QED
    BY <2>1, NoneTwice
<1>5. Total(Only(f, FirstOf(l, m) \cup {l.list[n]})) = Total(Only(f, FirstOf(l, m))) + f[l.list[n]]
  BY Zenon, <1>1, <1>4, TotalOfMore
<1>6. Total(Only(f, FirstOf(l, m))) \in Int
  BY Zenon, TotalOfPart
<1>7. FirstOf(l, 0) = {}
  BY DEF FirstOf
<1>8. FirstOf(l, Len(l.list)) = Range(l.list)
  BY Zenon, ListIs DEF FirstOf
<1> QED
  BY Zenon, <1>2, <1>3, <1>5, <1>6, <1>7, <1>8

\* If each of the list has c in flight, together they have as many times c.
LEMMA SumIsLarge ==
  ASSUME NEW l, l.list \in Sublists, NEW f \in [Upstreams -> Int], NEW c \in Int,
         \A k \in 1..Len(l.list) : f[l.list[k]] >= c
  PROVE  Total(Only(f, Range(l.list))) >= Len(l.list) * c
<1> DEFINE S(k) == Total(Only(f, FirstOf(l, k)))
           D == {k \in 0..Len(l.list) : S(k) >= k * c}
<1>1. Len(l.list) \in Nat /\ FirstOf(l, Len(l.list)) = Range(l.list)
  BY Zenon, ListIs DEF FirstOf
<1>2. 0 \in D
  <2>1. FirstOf(l, 0) = {}
    BY DEF FirstOf
  <2>2. S(0) = 0
    BY Zenon, <2>1, TotalOfPart
  <2>3. 0 >= 0 * c
    OBVIOUS
  <2> QED
    BY <1>1, <2>2, <2>3
<1>3. \A k \in 1..Len(l.list) : k - 1 \in D => k \in D
  <2> SUFFICES ASSUME NEW k \in 1..Len(l.list), k - 1 \in D PROVE k \in D
    OBVIOUS
  <2>1. S(k) = S(k - 1) + f[l.list[k]] /\ S(k - 1) \in Int
    BY Zenon, SumGrows
  <2>2. PICK x \in Int, y \in Int : x = S(k - 1) /\ y = f[l.list[k]]
    <3>1. f[l.list[k]] \in Int
      BY Zenon, ListIs
    <3> QED
      BY <2>1, <3>1
  <2>3. y >= c /\ x >= (k - 1) * c
    BY Zenon, <2>2
  <2>4. k \in Int /\ (k - 1) * c + c = k * c /\ (k - 1) * c \in Int /\ k * c \in Int
    BY <1>1
  <2>5. x + y >= k * c
    BY <2>3, <2>4
  <2>6. k \in 0..Len(l.list)
    BY <1>1
  <2> QED
    BY Zenon, <2>1, <2>2, <2>5, <2>6
<1>4. \A k \in 0..Len(l.list) : k \in D
  <2> HIDE DEF D
  <2> QED
    BY Zenon, <1>1, <1>2, <1>3, UpTo
<1>5. Len(l.list) \in 0..Len(l.list)
  BY <1>1
<1> QED
  BY Zenon, <1>1, <1>4, <1>5

\* So there always is one with room.
LEMMA SomeoneHasRoom ==
  ASSUME NEW l, l.list \in Sublists, Len(l.list) > 1, NEW f \in [Upstreams -> Nat]
  PROVE  /\ Cap(l, f) \in Nat
         /\ \E k \in 1..Len(l.list) : f[l.list[k]] + 1 <= Cap(l, f)
<1>1. f \in [Upstreams -> Int]
  OBVIOUS
<1>2. PICK n \in Nat : n = Len(l.list) /\ n > 1
  BY Zenon, ListIs
<1>3. PICK total \in Int : total = Total(Only(f, Range(l.list)))
  BY <1>1, TotalOfPart
<1>4. total \in Nat
  <2>1. \A k \in 1..Len(l.list) : f[l.list[k]] >= 0
    BY ListIs
  <2>2. total >= n * 0
    BY <1>1, <1>2, <1>3, <2>1, SumIsLarge
  <2> QED
    BY <2>2
<1>5. PICK cap \in Nat : cap = Cap(l, f) /\ total < n * cap
  <2>1. n \in Nat \ {0}
    BY <1>2
  <2> QED
    BY Zenon, <1>2, <1>3, <1>4, <2>1, CapacityIs DEF Cap
<1>6. ASSUME \A k \in 1..Len(l.list) : ~ (f[l.list[k]] + 1 <= cap) PROVE FALSE
  <2>1. \A k \in 1..Len(l.list) : f[l.list[k]] >= cap
    <3> TAKE k \in 1..Len(l.list)
    <3>1. PICK x \in Nat : x = f[l.list[k]]
      BY Zenon, ListIs
    <3>2. ~ (x + 1 <= cap)
      BY <1>6, <3>1
    <3>3. x >= cap
      BY <3>2
    <3> QED
      BY Zenon, <3>1, <3>3
  <2>2. cap \in Int
    OBVIOUS
  <2>3. total >= n * cap
    BY Zenon, <2>2, <1>1, <1>2, <1>3, <2>1, SumIsLarge
  <2>4. n * cap \in Int
    OBVIOUS
  <2> QED
    BY <1>5, <2>3, <2>4
<1> QED
  BY <1>5, <1>6

\* Locals of a loop of ConsistentHashBounded.
LEMMA HashHere ==
  ASSUME PickInv, NEW p \in Pickers, pick[p].pc \in HashPC
  PROVE  \E l \in Local : \E f \in [Upstreams -> Nat] :
           /\ l = pick[p] /\ LocalOK(l, algorithm) /\ l.list \in Sublists
           /\ f = inFlight /\ f \in [Upstreams -> Int]
           /\ algorithm = "consistent-hash-bounded" /\ l.key \in DOMAIN Ring
           /\ l.i \in Nat /\ l.low \in Nat /\ l.count \in Nat /\ Len(l.list) \in Nat
           /\ Len(l.list) > 1 /\ (l.pc # "walk" => l.i \in 1..Len(l.list))
           /\ \A k \in 1..Len(l.list) : l.list[k] \in Upstreams /\ f[l.list[k]] \in Nat
<1>1. PICK l \in Local : /\ l = pick[p] /\ LocalOK(l, algorithm) /\ l.list \in Sublists
                         /\ l.i \in Nat /\ l.low \in Nat /\ l.count \in Nat
                         /\ l.key \in DOMAIN Ring
  BY Zenon, Here
<1>2. PICK f \in [Upstreams -> Nat] : f = inFlight /\ f \in [Upstreams -> Int]
  BY Zenon, Here
<1>3. /\ Len(l.list) > 1 /\ algorithm = "consistent-hash-bounded"
      /\ l.pc # "walk" => l.i \in 1..Len(l.list)
  BY Zenon, <1>1 DEF LocalOK, HashPC, Looping
<1>4. Len(l.list) \in Nat /\ \A k \in 1..Len(l.list) : l.list[k] \in Upstreams
  BY <1>1, ListIs
<1>5. \A k \in 1..Len(l.list) : f[l.list[k]] \in Nat
  BY <1>4
<1> QED
  BY Zenon, <1>1, <1>2, <1>3, <1>4, <1>5

\* What is exact of locals at these places is HashExact.
LEMMA OnlyHashCounts ==
  ASSUME NEW l, NEW alg, NEW f, NEW e
  PROVE  /\ l.pc \in {"sum", "walk"} /\ HashExact(l, f) => ExactAt(l, alg, f, e)
         /\ ExactAt(l, alg, f, e) => HashExact(l, f)
BY Zenon DEF ExactAt, LeastExact, ScoresExact

\* ConsistentHash.Pick's loop for the total: its cap is that of all it has loaded.
LEMMA LoadTotalMoves ==
  ASSUME PickInv, NEW p \in Pickers, LoadTotal(p)
  PROVE  Moves(p)
<1>1. pick[p].pc = "sum" /\ "sum" \in HashPC
  BY Zenon DEF LoadTotal, HashPC
<1>2. PICK l \in Local : \E f \in [Upstreams -> Nat] :
           /\ l = pick[p] /\ LocalOK(l, algorithm) /\ l.list \in Sublists
           /\ f = inFlight /\ f \in [Upstreams -> Int]
           /\ algorithm = "consistent-hash-bounded" /\ l.key \in DOMAIN Ring
           /\ l.i \in Nat /\ l.low \in Nat /\ l.count \in Nat /\ Len(l.list) \in Nat
           /\ Len(l.list) > 1 /\ (l.pc # "walk" => l.i \in 1..Len(l.list))
           /\ \A k \in 1..Len(l.list) : l.list[k] \in Upstreams /\ f[l.list[k]] \in Nat
  BY <1>1, HashHere
<1>3. PICK f \in [Upstreams -> Nat] : f = inFlight /\ f \in [Upstreams -> Int]
  BY Zenon, <1>2
<1>4. l.i \in 1..Len(l.list)
  BY Zenon, <1>1, <1>2
<1>5. PICK total \in Nat : total = l.count + f[l.list[l.i]]
  BY <1>2, <1>3, <1>4
<1>6. PICK low \in Nat : /\ low = IF l.i = Len(l.list) THEN Capacity(total, l.i) ELSE 0
                         /\ l.i = Len(l.list) => low = Capacity(total, Len(l.list))
  <2>1. l.i \in Nat \ {0}
    BY <1>4
  <2>2. Capacity(total, l.i) \in Nat
    BY <2>1, CapacityIs
  <2> QED
    BY <2>2
<1>7. PICK l2 : l2 = [l EXCEPT !.count = total, !.low = low] /\ Loops(p, l2, "walk")
  BY Zenon, <1>2, <1>3, <1>5, <1>6 DEF LoadTotal
<1>8. l2 \in Local
  BY Zenon, <1>7 DEF Local
<1>9. l2.pc = "sum" /\ l2.i = l.i /\ l2.list = l.list /\ l2.low = low /\ l2.count = total
  BY <1>1, <1>2, <1>7 DEF Local
<1>10. PICK m \in Local : Goes(p, m) /\ Looped(m, l2, "walk")
  <2>1. "walk" \in PickPC
    BY Zenon DEF PickPC
  <2> QED
    BY <1>7, <1>8, <2>1, LoopGoes
<1>11. /\ m.list = l.list /\ m.low = low /\ m.count = total
       /\ l.i = Len(l.list) => m.pc = "walk" /\ m.i = 1
       /\ l.i # Len(l.list) => m.pc = "sum" /\ m.i = l.i + 1
  BY Zenon, <1>9, <1>10 DEF Like, Looped
<1>12. m.pc \in {"sum", "walk"} /\ (m.pc = "sum" => m.i \in 1..Len(m.list)) /\ m.i >= 1
  BY <1>2, <1>4, <1>11
<1>13. LocalOK(m, algorithm) /\ m.pc \in PickPC \ {"eligible"}
  BY Zenon, <1>2, <1>11, <1>12 DEF LocalOK, LeastPC, HashPC, Looping, PickPC
<1>14. ASSUME HashExact(l, f) PROVE HashExact(m, f)
  <2>1. l.count = Total(Only(f, FirstOf(l, l.i - 1)))
    BY Zenon, <1>1, <1>2, <1>14 DEF HashExact
  <2>2. total = Total(Only(f, FirstOf(l, l.i)))
    <3>1. /\ Total(Only(f, FirstOf(l, l.i))) = Total(Only(f, FirstOf(l, l.i - 1))) + f[l.list[l.i]]
          /\ Total(Only(f, FirstOf(l, l.i - 1))) \in Int
      BY Zenon, <1>2, <1>3, <1>4, SumGrows
    <3> QED
      BY Zenon, <1>5, <2>1, <3>1
  <2>3. m.pc = "sum" => m.count = Total(Only(f, FirstOf(m, m.i - 1)))
    <3> SUFFICES ASSUME m.pc = "sum" PROVE total = Total(Only(f, FirstOf(m, m.i - 1)))
      BY <1>11
    <3>1. m.i = l.i + 1
      BY Zenon, <1>11
    <3>2. m.i - 1 = l.i
      BY <1>2, <3>1
    <3>3. FirstOf(m, l.i) = FirstOf(l, l.i)
      BY Zenon, <1>11 DEF FirstOf
    <3> QED
      BY Zenon, <2>2, <3>2, <3>3
  <2>4. ASSUME m.pc = "walk" PROVE m.low = Cap(m, f) /\ m.i = 1
    <3>1. l.i = Len(l.list) /\ m.i = 1
      BY <1>11, <2>4
    <3>2. FirstOf(l, Len(l.list)) = Range(l.list)
      BY Zenon, <1>2, <1>3, <1>4, SumGrows
    <3>3. total = Total(Only(f, Range(l.list)))
      BY <2>2, <3>1, <3>2
    <3> QED
      BY <1>6, <1>11, <3>1, <3>3 DEF Cap
  <2>5. \A j \in 1..Len(Ring) : ~ (j < 1)
    OBVIOUS
  <2> QED
    BY <2>3, <2>4, <2>5 DEF HashExact
<1>15. ExactAt(l, algorithm, f, ewma) => ExactAt(m, algorithm, f, ewma)
  BY <1>12, <1>14, OnlyHashCounts
<1> QED
  BY Zenon, <1>2, <1>3, <1>10, <1>13, <1>15 DEF Moves

\* The fallback of consistent hashing returns a candidate; with nothing changed there
\* is one below the cap, and this loop is never reached.
LEMMA LoadFallbackMoves ==
  ASSUME PickInv, NEW p \in Pickers, LoadFallback(p)
  PROVE  Moves(p)
<1>1. pick[p].pc = "fallback" /\ "fallback" \in HashPC
  BY Zenon DEF LoadFallback, HashPC
<1>2. PICK l \in Local : \E f \in [Upstreams -> Nat] :
           /\ l = pick[p] /\ LocalOK(l, algorithm) /\ l.list \in Sublists
           /\ f = inFlight /\ f \in [Upstreams -> Int]
           /\ algorithm = "consistent-hash-bounded" /\ l.key \in DOMAIN Ring
           /\ l.i \in Nat /\ l.low \in Nat /\ l.count \in Nat /\ Len(l.list) \in Nat
           /\ Len(l.list) > 1 /\ (l.pc # "walk" => l.i \in 1..Len(l.list))
           /\ \A k \in 1..Len(l.list) : l.list[k] \in Upstreams /\ f[l.list[k]] \in Nat
  BY <1>1, HashHere
<1>3. PICK f \in [Upstreams -> Nat] : f = inFlight /\ f \in [Upstreams -> Int]
  BY <1>2
<1>4. l.i \in 1..Len(l.list)
  BY Zenon, <1>1, <1>2
<1>5. PICK v \in Nat : v = f[l.list[l.i]]
  BY Zenon, <1>2, <1>3, <1>4
<1>6. PICK best \in 1..Len(l.list) : best = IF l.i = 1 \/ v < l.low THEN l.i ELSE l.draw[1]
  <2>1. l.i > 1 => l.draw[1] \in 1..Len(l.list)
    BY Zenon, <1>1, <1>2 DEF LocalOK
  <2>2. l.i = 1 \/ l.i > 1
    BY <1>2, <1>4
  <2> QED
    BY <1>4, <2>1, <2>2
<1>7. ~ ExactAt(l, algorithm, f, ewma)
  BY <1>1, <1>2 DEF ExactAt
<1>8. ASSUME l.i = Len(l.list), Returns(p, l.list[best]) PROVE Moves(p)
  BY Zenon, <1>2, <1>3, <1>7, <1>8, ReturnMoves
<1>9. ASSUME l.i # Len(l.list),
             Goes(p, [l EXCEPT !.i = @ + 1, !.low = IF l.i = 1 \/ v < l.low THEN v ELSE @,
                               !.draw = <<best, best>>])
      PROVE  Moves(p)
  <2>1. PICK i \in Nat : i = l.i + 1 /\ i \in 1..Len(l.list)
    <3>1. PICK a \in Nat, b \in Nat : a = l.i /\ b = Len(l.list)
      BY <1>2
    <3>2. a \in 1..b /\ a # b
      BY <1>4, <1>9, <3>1
    <3>3. a + 1 \in Nat /\ a + 1 \in 1..b
      BY <3>2
    <3> QED
      BY Zenon, <3>1, <3>3
  <2>2. PICK low \in Nat : low = IF l.i = 1 \/ v < l.low THEN v ELSE l.low
    BY Zenon, <1>2
  <2>3. PICK d : d = <<best, best>> /\ d \in Nat \X Nat /\ d[1] = best
    <3>1. best \in Nat
      BY <1>2
    <3>2. <<best, best>> \in Nat \X Nat
      BY <3>1
    <3>3. <<best, best>>[1] = best
      OBVIOUS
    <3> QED
      BY Zenon, <3>2, <3>3
  <2>4. PICK m : m = [l EXCEPT !.i = i, !.low = low, !.draw = d]
    OBVIOUS
  <2>5. m \in Local
    BY Zenon, <2>3, <2>4 DEF Local
  <2>6. m.list = l.list /\ m.pc = "fallback" /\ m.i = i /\ m.draw = d
    BY <1>1, <1>2, <2>4 DEF Local
  <2>7. Goes(p, m)
    BY <1>9, <2>1, <2>2, <2>3, <2>4
  <2>8. LocalOK(m, algorithm) /\ m.pc \in PickPC \ {"eligible"}
    BY Zenon, <1>2, <2>1, <2>3, <2>5, <2>6 DEF LocalOK, LeastPC, HashPC, Looping, PickPC
  <2> QED
    BY Zenon, <1>2, <1>3, <1>7, <2>7, <2>8 DEF Moves
<1> QED
  BY Zenon, <1>2, <1>3, <1>5, <1>6, <1>8, <1>9 DEF LoadFallback

\* The walk visits every upstream of the list, at its distance.
LEMMA VisitsAll ==
  ASSUME NEW l, l.list \in Sublists, l.key \in DOMAIN Ring
  PROVE  /\ \A u \in Range(l.list) : /\ Distance(l.key, u) \in 1..Len(Ring)
                                     /\ Visits(l, Distance(l.key, u))
                                     /\ Entry(l.key, Distance(l.key, u)) = u
         /\ \A j \in 1..Len(Ring) :
              Visits(l, j) => /\ Entry(l.key, j) \in Range(l.list)
                              /\ Distance(l.key, Entry(l.key, j)) = j
<1>1. Range(l.list) \subseteq Upstreams
  BY Zenon, ListIs
<1>2. ASSUME NEW u \in Range(l.list)
      PROVE  /\ Distance(l.key, u) \in 1..Len(Ring) /\ Visits(l, Distance(l.key, u))
             /\ Entry(l.key, Distance(l.key, u)) = u
  BY <1>1, DistanceIs DEF Visits
<1>3. ASSUME NEW j \in 1..Len(Ring), Visits(l, j)
      PROVE  Entry(l.key, j) \in Range(l.list) /\ Distance(l.key, Entry(l.key, j)) = j
  <2>1. PICK u \in Range(l.list) : u = Entry(l.key, j)
    BY Zenon, <1>3 DEF Visits
  <2>2. \A i \in 1..(j - 1) : Entry(l.key, i) # u
    BY ZenonT(30), <1>3, <2>1 DEF Visits
  <2> QED
    BY Zenon, <1>1, <2>1, <2>2, DistanceIs
<1> QED
  BY Zenon, <1>2, <1>3

\* The walk cannot come round, and the first with room that it comes to is what
\* consistent hashing promises.
LEMMA WalkIsExact ==
  ASSUME NEW l, l.list \in Sublists, l.key \in DOMAIN Ring, Len(l.list) > 1, l.pc = "walk",
         l.i \in Nat, NEW f \in [Upstreams -> Nat], HashExact(l, f), NEW e
  PROVE  /\ \E j \in l.i..Len(Ring) : Visits(l, j)
         /\ \A d \in l.i..Len(Ring) :
              /\ Visits(l, d) /\ f[Entry(l.key, d)] + 1 <= l.low
              /\ \A j \in l.i..Len(Ring) : Visits(l, j) => d <= j
              /\ l.i >= 1
              => Entry(l.key, d) \in PromisedOf(l, "consistent-hash-bounded", f, e)
<1> DEFINE D(u) == Distance(l.key, u)
<1>1. /\ l.low = Cap(l, f) /\ Len(Ring) \in Nat
      /\ \A j \in 1..Len(Ring) : j < l.i /\ Visits(l, j) => f[Entry(l.key, j)] + 1 > l.low
  BY SelectorAssumption DEF HashExact
<1>2. \A u \in Range(l.list) : D(u) \in 1..Len(Ring) /\ Visits(l, D(u)) /\ Entry(l.key, D(u)) = u
  BY Zenon, VisitsAll
<1>3. PICK cap \in Nat : cap = Cap(l, f)
  BY Zenon, SomeoneHasRoom
<1>4. \A u \in Range(l.list) : f[u] \in Nat
  BY Zenon, ListIs
<1>5. ASSUME NEW u \in Range(l.list), f[u] + 1 <= cap
      PROVE  D(u) \in l.i..Len(Ring)
  <2>1. ~ (D(u) < l.i)
    <3>1. D(u) < l.i => f[u] + 1 > cap
      BY Zenon, <1>1, <1>2, <1>3
    <3>2. PICK x \in Nat : x = f[u]
      BY Zenon, <1>4
    <3>3. x + 1 <= cap
      BY Zenon, <1>5, <3>2
    <3>4. ~ (x + 1 > cap)
      BY <3>3
    <3> QED
      BY Zenon, <3>1, <3>2, <3>4
  <2>2. PICK i \in Nat, y \in Nat, n \in Nat : i = l.i /\ y = D(u) /\ n = Len(Ring) /\ y \in 1..n
    BY <1>1, <1>2
  <2>3. y \in i..n
    BY <2>1, <2>2
  <2> QED
    BY Zenon, <2>2, <2>3
<1>6. \E j \in l.i..Len(Ring) : Visits(l, j)
  <2>1. PICK k \in 1..Len(l.list) : f[l.list[k]] + 1 <= cap
    BY <1>3, SomeoneHasRoom
  <2>2. PICK u \in Range(l.list) : u = l.list[k]
    BY Zenon, ListIs
  <2>3. D(u) \in l.i..Len(Ring)
    BY Zenon, <1>5, <2>1, <2>2
  <2> QED
    BY Zenon, <1>2, <2>3
<1>7. ASSUME NEW d \in l.i..Len(Ring), Visits(l, d), f[Entry(l.key, d)] + 1 <= l.low,
             \A j \in l.i..Len(Ring) : Visits(l, j) => d <= j, l.i >= 1
      PROVE  Entry(l.key, d) \in PromisedOf(l, "consistent-hash-bounded", f, e)
  <2>1. d \in 1..Len(Ring)
    BY <1>1, <1>7
  <2>2. PICK u \in Range(l.list) : u = Entry(l.key, d) /\ D(u) = d
    BY Zenon, <1>7, <2>1, VisitsAll
  <2>3. f[u] + 1 <= cap
    BY Zenon, <1>1, <1>3, <1>7, <2>2
  <2>4. \A v \in Range(l.list) : f[v] + 1 <= cap => D(u) <= D(v)
    BY Zenon, <1>2, <1>5, <1>7, <2>2
  <2>5. u \in Roomiest(l, f)
    BY Zenon, <1>3, <2>3, <2>4 DEF Roomiest
  <2>6. Len(l.list) # 1
    BY ListIs
  <2>7. PromisedOf(l, "consistent-hash-bounded", f, e) = Roomiest(l, f)
    BY <2>6 DEF PromisedOf
  <2> QED
    BY Zenon, <2>2, <2>5, <2>7
<1> QED
  BY <1>6, <1>7

\* The walk round the ring returns the first candidate that has room: with nothing
\* changed, the nearest.
LEMMA LoadWalkMoves ==
  ASSUME PickInv, NEW p \in Pickers, LoadWalk(p)
  PROVE  Moves(p)
<1>1. pick[p].pc = "walk" /\ "walk" \in HashPC
  BY Zenon DEF LoadWalk, HashPC
<1>2. PICK l \in Local : \E f \in [Upstreams -> Nat] :
           /\ l = pick[p] /\ LocalOK(l, algorithm) /\ l.list \in Sublists
           /\ f = inFlight /\ f \in [Upstreams -> Int]
           /\ algorithm = "consistent-hash-bounded" /\ l.key \in DOMAIN Ring
           /\ l.i \in Nat /\ l.low \in Nat /\ l.count \in Nat /\ Len(l.list) \in Nat
           /\ Len(l.list) > 1 /\ (l.pc # "walk" => l.i \in 1..Len(l.list))
           /\ \A k \in 1..Len(l.list) : l.list[k] \in Upstreams /\ f[l.list[k]] \in Nat
  BY <1>1, HashHere
<1>3. PICK f \in [Upstreams -> Nat] : f = inFlight
  BY ZenonT(30), <1>2
<1>4. l.i >= 1 /\ Len(Ring) \in Nat
  BY <1>1, <1>2, SelectorAssumption DEF LocalOK
<1>5. PICK ahead \in SUBSET Nat : ahead = {i \in l.i..Len(Ring) : Visits(l, i)}
  <2>1. {i \in l.i..Len(Ring) : Visits(l, i)} \in SUBSET Nat
    BY <1>2, <1>4
  <2> QED
    BY Zenon, <2>1
<1>6. ASSUME ahead = {}, Goes(p, [l EXCEPT !.pc = "fallback", !.i = 1, !.low = 0])
      PROVE  Moves(p)
  <2>1. ~ ExactAt(l, algorithm, f, ewma)
    <3>1. HashExact(l, f) => \E j \in l.i..Len(Ring) : Visits(l, j)
      BY Zenon, <1>1, <1>2, WalkIsExact
    <3>2. ~ HashExact(l, f)
      BY <1>5, <1>6, <3>1
    <3> QED
      BY <3>2, OnlyHashCounts
  <2>2. PICK m : m = [l EXCEPT !.pc = "fallback", !.i = 1, !.low = 0]
    OBVIOUS
  <2>3. m \in Local
    BY Zenon, <2>2 DEF Local, PickPC
  <2>4. m.pc = "fallback" /\ m.list = l.list /\ m.i = 1
    BY Zenon, <2>2 DEF Local
  <2>5. 1 \in 1..Len(m.list) /\ ~ (m.i > 1)
    BY <1>2, <2>4
  <2>6. LocalOK(m, algorithm) /\ m.pc \in PickPC \ {"eligible"}
    BY Zenon, <1>2, <2>3, <2>4, <2>5 DEF LocalOK, LeastPC, HashPC, Looping, PickPC
  <2> QED
    BY Zenon, <1>2, <1>3, <1>6, <2>1, <2>2, <2>6 DEF Moves
<1>7. ASSUME ahead # {} PROVE Moves(p)
  <2>1. PICK d \in ahead : d = Min(ahead) /\ \A j \in ahead : d <= j
    BY Zenon, <1>7, MinIs
  <2>2. d \in l.i..Len(Ring) /\ Visits(l, d) /\ d \in 1..Len(Ring) /\ d \in Nat
    BY <1>2, <1>4, <1>5
  <2>3. PICK u \in Range(l.list) : u = Entry(l.key, d)
    BY <2>2 DEF Visits
  <2>4. ASSUME f[u] + 1 <= l.low, Returns(p, u) PROVE Moves(p)
    <3>1. PICK k \in 1..Len(l.list) : u = l.list[k]
      <4>1. Range(l.list) = {l.list[k] : k \in 1..Len(l.list)}
        BY Zenon, <1>2, ListIs
      <4> QED
        BY <4>1
    <3>2. HashExact(l, f) => u \in PromisedOf(l, "consistent-hash-bounded", f, ewma)
      <4>1. \A j \in l.i..Len(Ring) : Visits(l, j) => d <= j
        BY <1>5, <2>1
      <4> QED
        BY Zenon, <1>1, <1>2, <1>4, <2>2, <2>3, <2>4, <4>1, WalkIsExact
    <3>3. ExactAt(l, algorithm, f, ewma) => u \in PromisedOf(l, algorithm, f, ewma)
      BY Zenon, <1>2, <3>2, OnlyHashCounts
    <3> QED
      BY Zenon, <1>2, <1>3, <2>4, <3>1, <3>3, ReturnMoves
  <2>5. ASSUME ~ (f[u] + 1 <= l.low), Goes(p, [l EXCEPT !.i = d + 1]) PROVE Moves(p)
    <3>1. PICK i \in Nat : i = d + 1
      BY <2>2
    <3>2. PICK m : m = [l EXCEPT !.i = i]
      BY Zenon
    <3>3. m \in Local
      BY Zenon, <3>2 DEF Local
    <3>4. /\ m.pc = "walk" /\ m.list = l.list /\ m.i = i /\ m.low = l.low /\ m.key = l.key
      BY <1>1, <1>2, <3>2 DEF Local
    <3>5. i >= 1
      BY <2>2, <3>1
    <3>6. LocalOK(m, algorithm) /\ m.pc \in PickPC \ {"eligible"}
      BY Zenon, <1>2, <3>3, <3>4, <3>5 DEF LocalOK, LeastPC, HashPC, Looping, PickPC
    <3>7. ASSUME HashExact(l, f) PROVE HashExact(m, f)
      <4>1. /\ l.low = Cap(l, f)
            /\ \A j \in 1..Len(Ring) : j < l.i /\ Visits(l, j) => f[Entry(l.key, j)] + 1 > l.low
        BY Zenon, <1>1, <1>2, <3>7 DEF HashExact
      <4>2. Cap(m, f) = Cap(l, f) /\ \A j : Visits(m, j) <=> Visits(l, j)
        BY Zenon, <3>4 DEF Cap, Visits
      <4>3. ASSUME NEW j \in 1..Len(Ring), j < i, Visits(l, j)
            PROVE  f[Entry(l.key, j)] + 1 > l.low
        <5>1. CASE j < l.i
          BY <4>1, <4>3, <5>1
        <5>2. CASE ~ (j < l.i)
          <6>1. j \in l.i..Len(Ring)
            BY <1>2, <1>4, <5>2
          <6>2. d <= j
            BY <1>5, <2>1, <4>3, <6>1
          <6>3. j = d
            BY <1>4, <2>2, <3>1, <4>3, <6>2
          <6>4. PICK x \in Nat, y \in Nat : x = f[u] /\ y = l.low
            BY Zenon, <1>2, ListIs
          <6>5. ~ (x + 1 <= y)
            BY <2>5, <6>4
          <6>6. x + 1 > y
            BY <6>5
          <6> QED
            BY Zenon, <2>3, <6>3, <6>4, <6>6
        <5> QED
          BY <5>1, <5>2
      <4> QED
        BY <3>4, <4>1, <4>2, <4>3 DEF HashExact
    <3>8. ExactAt(l, algorithm, f, ewma) => ExactAt(m, algorithm, f, ewma)
      BY <3>4, <3>7, OnlyHashCounts
    <3>9. Goes(p, m)
      BY <2>5, <3>1, <3>2
    <3> QED
      BY Zenon, <1>2, <1>3, <3>6, <3>8, <3>9 DEF Moves
  <2> QED
    BY <1>2, <1>3, <1>5, <1>7, <2>1, <2>3, <2>4, <2>5 DEF LoadWalk
<1> QED
  BY <1>2, <1>5, <1>6, <1>7 DEF LoadWalk

-----------------------------------------------------------------------------
\* Steps into and out of Pick.

\* A step of p's that leaves what the Picks of others read.
Quiet(p, m) ==
  /\ pick' = [pick EXCEPT ![p] = m]
  /\ UNCHANGED <<config, atomics>>
  /\ counter' \in 0..(CounterPeriod - 1) /\ cw' \in [Upstreams -> Int]
  /\ uniform' \in BOOLEAN /\ given' \in [Upstreams -> Nat]
  /\ disturbed' \in {disturbed, disturbed \ {p}}

\* A step that changes no load keeps the invariant.
LEMMA QuietKeeps ==
  ASSUME PickInv, NEW p \in Pickers, NEW m, Quiet(p, m), LocalOK(m, algorithm),
         m.pc \notin {"holding", "closing"}, pick[p].pc \notin {"holding", "closing"},
         p \notin disturbed' => ExactAt(m, algorithm, inFlight, ewma)
  PROVE  PickInv'
<1>1. m \in Local
  BY Zenon DEF LocalOK
<1>2. pick \in [Pickers -> Local] /\ pick' = [pick EXCEPT ![p] = m] /\ disturbed \subseteq Pickers
  BY Zenon DEF Quiet, PickInv, PickTypeOK
<1>3. /\ algorithm' = algorithm /\ weight' = weight /\ reports' = reports
      /\ inFlight' = inFlight /\ ewma' = ewma
      /\ disturbed' \subseteq Pickers /\ \A q \in Pickers : q # p /\ q \notin disturbed'
                                                            => q \notin disturbed
  BY <1>2 DEF Quiet, config, atomics
<1>4. pick' \in [Pickers -> Local] /\ pick'[p] = m /\ \A q \in Pickers : q # p => pick'[q] = pick[q]
  BY Zenon, <1>1, <1>2
<1>5. PickTypeOK'
  BY <1>3, <1>4 DEF PickInv, PickTypeOK, Quiet
<1>6. \A q \in Pickers : LocalOK(pick[q], algorithm)'
  <2> TAKE q \in Pickers
  <2>1. LocalOK(pick[q], algorithm)
    BY ZenonT(30) DEF PickInv
  <2>2. LocalOK(pick'[q], algorithm')
    BY <1>3, <1>4, <2>1
  <2> QED
    BY <2>2
<1>7. \A u \in Upstreams : (Cardinality(Holders(u)) <= inFlight[u])'
  <2> TAKE u \in Upstreams
  <2>1. Holders(u)' = Holders(u)
    BY Zenon, <1>4 DEF Holders
  <2> QED
    BY Zenon, <1>3, <2>1 DEF PickInv
<1>8. \A q \in Pickers \ disturbed' : ExactAt(pick[q], algorithm, inFlight, ewma)'
  <2> TAKE q \in Pickers \ disturbed'
  <2>1. q # p => ExactAt(pick[q], algorithm, inFlight, ewma)
    BY Zenon, <1>3 DEF PickInv
  <2>2. q # p => ExactAt(pick'[q], algorithm', inFlight', ewma')
    BY Zenon, <1>3, <1>4, <2>1
  <2>3. q = p => ExactAt(pick'[q], algorithm', inFlight', ewma')
    BY Zenon, <1>3, <1>4
  <2> QED
    BY Zenon, <2>2, <2>3
<1> QED
  BY Zenon, <1>5, <1>6, <1>7, <1>8 DEF PickInv

\* Out of Pick, and idle.
LEMMA OutOfPick ==
  ASSUME NEW l, NEW alg, NEW f, NEW e, l.pc \notin PickPC
  PROVE  ExactAt(l, alg, f, e)
BY Zenon DEF PickPC, ExactAt, LeastExact, ScoresExact, HashExact

\* A goroutine outside Pick.
LEMMA IdleOK ==
  ASSUME NEW alg
  PROVE  /\ LocalOK(Idle, alg) /\ Idle.pc = "idle" /\ Idle.list = <<>> /\ Idle.i = 1
         /\ Idle.count = 0 /\ Idle.key \in DOMAIN Ring /\ Idle \in Local
<1>1. PICK m : m = Idle
  OBVIOUS
<1>2. /\ m.pc = "idle" /\ m.list = <<>> /\ m.i = 1 /\ m.count = 0 /\ m.key = 1
      /\ m.up = 0
  BY <1>1 DEF Idle
<1>3. 1 \in DOMAIN Ring
  <2>1. N \in Nat \ {0} /\ Ring \in Seq(Upstreams) /\ Range(Ring) = Upstreams
    BY SelectorAssumption
  <2>2. 1 \in Upstreams
    BY <2>1 DEF Upstreams
  <2>3. PICK t \in DOMAIN Ring : Ring[t] = 1
    BY <2>1, <2>2 DEF Range
  <2>4. PICK n \in Nat : DOMAIN Ring = 1..n
    BY <2>1
  <2> QED
    BY <2>3, <2>4
<1>4. <<1, 1>> \in Nat \X Nat /\ 0 \in 0..N /\ <<>> \in Seq(Upstreams)
  BY SelectorAssumption
<1>5. m \in Local
  BY <1>1, <1>3, <1>4 DEF Idle, Local
<1>6. m.list \in Sublists
  <2>1. 0 \in 0..N
    BY SelectorAssumption
  <2>2. <<>> \in [1..0 -> Upstreams] /\ DOMAIN <<>> = {}
    OBVIOUS
  <2>3. <<>> \in Sublists
    BY ZenonT(30), <2>1, <2>2 DEF Sublists
  <2> QED
    BY <1>2, <2>3
<1>7. LocalOK(m, alg)
  BY <1>2, <1>5, <1>6 DEF LocalOK, LeastPC, HashPC, Looping
<1> QED
  BY <1>1, <1>2, <1>3, <1>5, <1>7

\* A new Pick, with the list that eligibleSet returns.
LEMMA EligibleKeeps ==
  ASSUME PickInv, NEW p \in Pickers, NEW key \in RequestKeys, NEW list \in Sublists,
         eligibleSet(p, key, list)
  PROVE  PickInv'
<1>1. key \in DOMAIN Ring
  BY SelectorAssumption, IdleOK DEF RequestKeys, Idle
<1>2. list \in Seq(Upstreams) /\ Len(list) \in Nat
  BY ListIs
<1>3. PICK m : m = [Idle EXCEPT !.pc = "eligible", !.key = key, !.list = list]
  OBVIOUS
<1>4. m \in Local
  BY Zenon, <1>1, <1>2, <1>3, IdleOK DEF Local, PickPC
<1>5. m.pc = "eligible" /\ m.list = list /\ m.i = 1 /\ m.count = 0
  BY Zenon, <1>3 DEF Idle
<1>6. LocalOK(m, algorithm)
  BY <1>4, <1>5 DEF LocalOK, LeastPC, HashPC, Looping
<1>7. ExactAt(m, algorithm, inFlight, ewma)
  BY Zenon, <1>5 DEF ExactAt, LeastExact, ScoresExact, HashExact
<1>8. Quiet(p, m)
  <2>1. /\ pick' = [pick EXCEPT ![p] = m] /\ UNCHANGED <<config, atomics>>
        /\ counter' = counter /\ cw' = cw /\ disturbed' = disturbed
        /\ uniform' = (uniform /\ Len(list) = N)
        /\ given' = [u \in Upstreams |-> IF uniform' THEN given[u] ELSE 0]
    BY Zenon, <1>3 DEF eligibleSet, selector
  <2>2. /\ counter \in 0..(CounterPeriod - 1) /\ cw \in [Upstreams -> Int]
        /\ uniform \in BOOLEAN /\ given \in [Upstreams -> Nat]
    BY DEF PickInv, PickTypeOK
  <2>3. given' \in [Upstreams -> Nat]
    BY <2>1, <2>2
  <2>4. uniform' \in BOOLEAN
    BY <2>1
  <2> QED
    BY <2>1, <2>2, <2>3, <2>4 DEF Quiet
<1> QED
  BY Zenon, <1>5, <1>6, <1>7, <1>8, QuietKeeps DEF eligibleSet

\* The caller does not use the upstream that Pick returned.
LEMMA GivesUpKeeps ==
  ASSUME PickInv, NEW p \in Pickers, GivesUp(p)
  PROVE  PickInv'
<1>1. Quiet(p, Idle)
  BY DEF GivesUp, Quiet, PickInv, PickTypeOK, atomics, selector
<1>2. LocalOK(Idle, algorithm) /\ Idle.pc = "idle"
  BY IdleOK
<1>3. ExactAt(Idle, algorithm, inFlight, ewma)
  BY <1>2, OutOfPick DEF PickPC
<1> QED
  BY <1>1, <1>2, <1>3, QuietKeeps DEF GivesUp

\* A step of p's out of Pick that others may notice.
Loud(p, m) ==
  /\ pick' = [pick EXCEPT ![p] = m]
  /\ UNCHANGED <<config, selector, uniform, given>>
  /\ inFlight' \in [Upstreams -> Nat] /\ ewma' \in [Upstreams -> 0..MaxLatency]
  /\ Disturbs(p)

\* A step that changes loads keeps the invariant: every Pick under way is disturbed.
LEMMA LoudKeeps ==
  ASSUME PickInv, NEW p \in Pickers, NEW m, Loud(p, m), LocalOK(m, algorithm),
         m.pc \notin PickPC, \A u \in Upstreams : Cardinality(Holders(u)') <= inFlight'[u]
  PROVE  PickInv'
<1>1. m \in Local
  BY Zenon DEF LocalOK
<1>2. pick \in [Pickers -> Local] /\ pick' = [pick EXCEPT ![p] = m]
  BY DEF Loud, PickInv, PickTypeOK
<1>3. /\ algorithm' = algorithm /\ weight' = weight /\ reports' = reports
      /\ counter' = counter /\ cw' = cw /\ uniform' = uniform /\ given' = given
  BY DEF Loud, config, selector
<1>4. pick' \in [Pickers -> Local] /\ pick'[p] = m /\ \A q \in Pickers : q # p => pick'[q] = pick[q]
  BY Zenon, <1>1, <1>2
<1>5. /\ disturbed' \subseteq Pickers
      /\ \A q \in Pickers : q # p /\ q \notin disturbed' => pick[q].pc \notin PickPC
  BY Zenon DEF Loud, Disturbs, InPick
<1>6. PickTypeOK'
  BY <1>3, <1>4, <1>5 DEF PickInv, PickTypeOK, Loud
<1>7. \A q \in Pickers : LocalOK(pick[q], algorithm)'
  <2> TAKE q \in Pickers
  <2>1. LocalOK(pick[q], algorithm)
    BY Zenon DEF PickInv
  <2>2. LocalOK(pick'[q], algorithm')
    BY <1>3, <1>4, <2>1
  <2> QED
    BY <2>2
<1>8. \A u \in Upstreams : (Cardinality(Holders(u)) <= inFlight[u])'
  BY Zenon
<1>9. \A q \in Pickers \ disturbed' : ExactAt(pick[q], algorithm, inFlight, ewma)'
  <2> TAKE q \in Pickers \ disturbed'
  <2>1. pick'[q].pc \notin PickPC
    BY <1>4, <1>5
  <2>2. ExactAt(pick'[q], algorithm', inFlight', ewma')
    BY Zenon, <2>1, OutOfPick
  <2> QED
    BY <2>2
<1> QED
  BY Zenon, <1>6, <1>7, <1>8, <1>9 DEF PickInv

\* Sessions are finitely many.
LEMMA HoldersAre ==
  ASSUME NEW u
  PROVE  IsFiniteSet(Holders(u)) /\ Cardinality(Holders(u)) \in Nat
<1>1. Holders(u) \in SUBSET Pickers
  BY DEF Holders
<1>2. IsFiniteSet(Holders(u))
  BY <1>1, SelectorAssumption, FS_Subset
<1> QED
  BY <1>2, FS_CardinalityType

\* InFlight.Add(1), once the attempt is let through.
LEMMA AddInFlightKeeps ==
  ASSUME PickInv, NEW p \in Pickers, AddInFlight(p)
  PROVE  PickInv'
<1>1. PICK l : l = pick[p] /\ LocalOK(l, algorithm) /\ l.list \in Sublists /\ l.pc = "picked"
  BY Here DEF AddInFlight
<1>2. PICK up \in Upstreams : up = l.up
  BY Zenon, <1>1, ListIs DEF LocalOK
<1>3. PICK m : m = [Idle EXCEPT !.pc = "holding", !.up = up]
  OBVIOUS
<1>4. m \in Local
  <2>1. up \in 0..N
    BY SelectorAssumption DEF Upstreams
  <2>2. PICK idle \in Local : idle = Idle
    BY Zenon, IdleOK
  <2>3. m = [idle EXCEPT !.pc = "holding", !.up = up]
    BY <1>3, <2>2
  <2> QED
    BY Zenon, <2>1, <2>2, <2>3 DEF Local
<1>5. m.pc = "holding" /\ m.up = up /\ m.list = <<>>
  BY Zenon, <1>3 DEF Idle
<1>6. <<>> \in Sublists
  BY ZenonT(30), IdleOK DEF LocalOK
<1>7. LocalOK(m, algorithm)
  BY <1>4, <1>5, <1>6 DEF LocalOK, LeastPC, HashPC, Looping
<1>8. inFlight \in [Upstreams -> Nat] /\ inFlight' = [inFlight EXCEPT ![up] = @ + 1]
  BY Zenon, <1>1, <1>2 DEF AddInFlight, PickInv, PickTypeOK
<1>9. inFlight' \in [Upstreams -> Nat] /\ inFlight'[up] = inFlight[up] + 1
      /\ \A u \in Upstreams : u # up => inFlight'[u] = inFlight[u]
  BY <1>8
<1>10. Loud(p, m)
  BY <1>1, <1>2, <1>3, <1>9 DEF AddInFlight, Loud, PickInv, PickTypeOK
<1>11. pick' = [pick EXCEPT ![p] = m] /\ pick \in [Pickers -> Local]
  BY <1>10 DEF Loud, PickInv, PickTypeOK
<1>12. /\ Holders(up)' = Holders(up) \cup {p}
       /\ \A u \in Upstreams : u # up => Holders(u)' = Holders(u)
  BY Zenon, <1>1, <1>5, <1>11 DEF Holders
<1>13. ASSUME NEW u \in Upstreams PROVE Cardinality(Holders(u)') <= inFlight'[u]
  <2>1. Cardinality(Holders(u)) <= inFlight[u]
    BY Zenon DEF PickInv
  <2>2. u # up => Cardinality(Holders(u)') <= inFlight'[u]
    BY <1>9, <1>12, <2>1
  <2>3. ASSUME u = up PROVE Cardinality(Holders(u)') <= inFlight'[u]
    <3>1. PICK c \in Nat : c = Cardinality(Holders(up))
      BY Zenon, HoldersAre
    <3>2. p \notin Holders(up)
      BY <1>1 DEF Holders
    <3>3. Cardinality(Holders(up) \cup {p}) = c + 1
      BY Zenon, <3>1, <3>2, HoldersAre, FS_AddElement
    <3>4. PICK f \in Nat : f = inFlight[up] /\ c <= f
      BY <1>8, <2>1, <2>3, <3>1
    <3>5. c + 1 <= f + 1
      BY <3>4
    <3> QED
      BY Zenon, <1>9, <1>12, <2>3, <3>3, <3>4, <3>5
  <2> QED
    BY <2>2, <2>3
<1>14. m.pc \notin PickPC
  BY <1>5 DEF PickPC
<1> QED
  BY <1>7, <1>10, <1>13, <1>14, LoudKeeps

\* InFlight.Add(-1): the session was among those counted, so nothing falls below zero.
LEMMA ReleaseKeeps ==
  ASSUME PickInv, NEW p \in Pickers, Release(p)
  PROVE  PickInv'
<1>1. PICK l : l = pick[p] /\ LocalOK(l, algorithm) /\ l.pc \in {"holding", "closing"}
  BY Zenon, Here DEF Release
<1>2. PICK up \in Upstreams : up = l.up
  BY Zenon, <1>1 DEF LocalOK
<1>3. PICK m : m = Idle /\ LocalOK(m, algorithm) /\ m.pc = "idle"
  BY Zenon, IdleOK
<1>4. p \in Holders(up)
  BY <1>1, <1>2 DEF Holders
<1>5. PICK c \in Nat : c = Cardinality(Holders(up)) /\ c # 0
  BY Zenon, <1>4, HoldersAre, FS_EmptySet
<1>6. PICK f \in Nat : f = inFlight[up] /\ c <= f
  BY Zenon, <1>5 DEF PickInv, PickTypeOK
<1>7. inFlight \in [Upstreams -> Nat] /\ inFlight' = [inFlight EXCEPT ![up] = f - 1]
  BY <1>1, <1>2, <1>6 DEF Release, PickInv, PickTypeOK
<1>8. f - 1 \in Nat /\ c - 1 <= f - 1
  BY <1>5, <1>6
<1>9. inFlight' \in [Upstreams -> Nat] /\ inFlight'[up] = f - 1
      /\ \A u \in Upstreams : u # up => inFlight'[u] = inFlight[u]
  BY Zenon, <1>7, <1>8
<1>10. Loud(p, m)
  BY Zenon, <1>3, <1>9 DEF Release, Loud, PickInv, PickTypeOK
<1>11. pick' = [pick EXCEPT ![p] = m] /\ pick \in [Pickers -> Local]
  BY Zenon, <1>10 DEF Loud, PickInv, PickTypeOK
<1>12. Holders(up)' = Holders(up) \ {p} /\ \A u \in Upstreams : u # up => Holders(u)' = Holders(u)
  BY <1>1, <1>2, <1>3, <1>11 DEF Holders
<1>13. ASSUME NEW u \in Upstreams PROVE Cardinality(Holders(u)') <= inFlight'[u]
  <2>1. Cardinality(Holders(u)) <= inFlight[u]
    BY DEF PickInv
  <2>2. u # up => Cardinality(Holders(u)') <= inFlight'[u]
    BY <1>9, <1>12, <2>1
  <2>3. Cardinality(Holders(up) \ {p}) = c - 1
    BY <1>4, <1>5, HoldersAre, FS_RemoveElement
  <2>4. u = up => Cardinality(Holders(u)') <= inFlight'[u]
    BY Zenon, <1>8, <1>9, <1>12, <2>3
  <2> QED
    BY <2>2, <2>4
<1>14. m.pc \notin PickPC
  BY <1>3 DEF PickPC
<1> QED
  BY <1>3, <1>10, <1>13, <1>14, LoudKeeps

\* Upstream.RecordLatency.
LEMMA RecordLatencyKeeps ==
  ASSUME PickInv, NEW p \in Pickers, NEW obs \in 1..MaxLatency, NEW avg \in 1..MaxLatency,
         RecordLatency(p, obs, avg)
  PROVE  PickInv'
<1>1. PICK l : l = pick[p] /\ LocalOK(l, algorithm) /\ l \in Local /\ l.pc = "holding"
  BY Here DEF RecordLatency, LocalOK
<1>2. PICK up \in Upstreams : up = l.up
  BY Zenon, <1>1 DEF LocalOK
<1>3. ewma' = [ewma EXCEPT ![up] = avg]
  BY Zenon, <1>1, <1>2 DEF RecordLatency
<1>4. ewma' \in [Upstreams -> 0..MaxLatency]
  <2>1. avg \in 0..MaxLatency
    BY SelectorAssumption
  <2> QED
    BY Zenon, <1>3, <2>1 DEF PickInv, PickTypeOK
<1>5. PICK m : m = [l EXCEPT !.pc = "closing"]
  BY Zenon
<1>6. m \in Local
  BY Zenon, <1>1, <1>5 DEF Local
<1>7. m.pc = "closing" /\ m.up = up /\ m.list = l.list
  BY <1>1, <1>2, <1>5 DEF Local
<1>8. LocalOK(m, algorithm)
  BY Zenon, <1>1, <1>6, <1>7 DEF LocalOK, LeastPC, HashPC, Looping
<1>9. Loud(p, m)
  <2>1. pick' = [pick EXCEPT ![p] = m]
    BY <1>1, <1>5 DEF RecordLatency
  <2> QED
    BY Zenon, <1>4, <2>1 DEF RecordLatency, Loud, PickInv, PickTypeOK
<1>10. pick' = [pick EXCEPT ![p] = m] /\ pick \in [Pickers -> Local] /\ inFlight' = inFlight
  BY Zenon, <1>9 DEF Loud, PickInv, PickTypeOK, RecordLatency
<1>11. \A u \in Upstreams : Holders(u)' = Holders(u)
  BY Zenon, <1>1, <1>2, <1>7, <1>10 DEF Holders
<1>12. \A u \in Upstreams : Cardinality(Holders(u)') <= inFlight'[u]
  BY <1>10, <1>11 DEF PickInv
<1>13. m.pc \notin PickPC
  BY <1>7 DEF PickPC
<1> QED
  BY Zenon, <1>8, <1>9, <1>12, <1>13, LoudKeeps

\* An attempt ends that none of these goroutines made.
LEMMA OtherEndsKeeps ==
  ASSUME PickInv, NEW u \in Upstreams, OtherEnds(u)
  PROVE  PickInv'
<1>1. /\ algorithm' = algorithm /\ weight' = weight /\ reports' = reports /\ counter' = counter
      /\ cw' = cw /\ uniform' = uniform /\ given' = given /\ ewma' = ewma /\ pick' = pick
  BY Zenon DEF OtherEnds, config, selector
<1>2. PICK c \in Nat : c = Cardinality(Holders(u))
  BY HoldersAre
<1>3. PICK f \in Nat : f = inFlight[u]
  BY DEF PickInv, PickTypeOK
<1>4. f > c
  BY Zenon, <1>2, <1>3 DEF OtherEnds, Holders
<1>5. f - 1 \in Nat /\ c <= f - 1
  BY <1>4
<1>6. inFlight \in [Upstreams -> Nat] /\ inFlight' = [inFlight EXCEPT ![u] = f - 1]
  BY Zenon, <1>3 DEF OtherEnds, PickInv, PickTypeOK
<1>7. /\ inFlight' \in [Upstreams -> Nat] /\ inFlight'[u] = f - 1
      /\ \A v \in Upstreams : v # u => inFlight'[v] = inFlight[v]
  BY <1>5, <1>6
<1>8. disturbed' = {q \in Pickers : InPick(q)}
  BY Zenon DEF OtherEnds
<1>9. PickTypeOK'
  BY <1>1, <1>7, <1>8 DEF PickInv, PickTypeOK
<1>10. \A q \in Pickers : LocalOK(pick[q], algorithm)'
  BY <1>1 DEF PickInv
<1>11. \A v \in Upstreams : (Cardinality(Holders(v)) <= inFlight[v])'
  <2> TAKE v \in Upstreams
  <2>1. Cardinality(Holders(v)) <= inFlight[v]
    BY DEF PickInv
  <2>2. Holders(v)' = Holders(v)
    BY <1>1 DEF Holders
  <2> QED
    BY <1>2, <1>5, <1>7, <2>1, <2>2
<1>12. \A q \in Pickers \ disturbed' : ExactAt(pick[q], algorithm, inFlight, ewma)'
  <2> TAKE q \in Pickers \ disturbed'
  <2>1. pick'[q].pc \notin PickPC
    BY <1>1, <1>8 DEF InPick
  <2>2. ExactAt(pick'[q], algorithm', inFlight', ewma')
    BY Zenon, <2>1, OutOfPick
  <2> QED
    BY <2>2
<1> QED
  BY Zenon, <1>9, <1>10, <1>11, <1>12 DEF PickInv
==============================================================================
