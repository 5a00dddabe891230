-------------------------- MODULE SelectorsProofs --------------------------
(***************************************************************************)
(* What holds of the selectors for any pool, weights, ring and number of   *)
(* goroutines.                                                             *)
(***************************************************************************)
EXTENDS SelectorStepProofs

USE SMTT(30)

\* How many upstreams a part has.
Count(S) == Total(Only(Even, S))

\* Counting is counting.
LEMMA Counts ==
  /\ Even \in [Upstreams -> Int] /\ Count({}) = 0 /\ Count(Upstreams) = N
  /\ \A S : Count(S) \in Nat
  /\ \A S : \A u \in Upstreams : u \notin S => Count(S \cup {u}) = Count(S) + 1
  /\ \A S : \A u \in Upstreams : u \in S => Count(S) = Count(S \ {u}) + 1
<1>1. N \in Nat
  BY SelectorAssumption
<1>2. PICK e \in [Upstreams -> Int] : e = Even /\ \A u \in Upstreams : e[u] = 1
  <2>1. [u \in Upstreams |-> 1] \in [Upstreams -> Int]
    OBVIOUS
  <2>2. \A u \in Upstreams : [v \in Upstreams |-> 1][u] = 1
    OBVIOUS
  <2> QED
    BY <2>1, <2>2, Zenon DEF Even
<1>3. Total(e) = N
  <2>1. PICK F \in [0..N -> Int] : /\ F[0] = 0 /\ \A k \in 1..N : F[k] = F[k - 1] + e[k]
                                  /\ Total(e) = F[N]
    BY TotalAddsUp
  <2> DEFINE D == {k \in 0..N : F[k] = k}
  <2>2. 0 \in D
    BY <1>1, <2>1
  <2>3. ASSUME NEW k \in 1..N, k - 1 \in D PROVE k \in D
    <3>1. k \in Upstreams /\ k \in 0..N /\ k - 1 \in 0..N
      BY <1>1 DEF Upstreams
    <3> QED
      BY <1>2, <2>1, <2>3, <3>1
  <2>4. N \in D
    <3> HIDE DEF D
    <3>1. \A k \in 0..N : k \in D
      BY Zenon, <1>1, <2>2, <2>3, UpTo
    <3> QED
      BY <1>1, <3>1
  <2> QED
    BY <2>1, <2>4
<1>4. ASSUME NEW S PROVE Total(Only(e, S)) \in Nat
  <2>1. PICK g \in [Upstreams -> Int] :
          g = Only(e, S) /\ \A u \in Upstreams : g[u] = IF u \in S THEN 1 ELSE 0
    BY <1>2, OnlyIs
  <2>2. PICK z \in [Upstreams -> Int] : z = Only(e, {}) /\ \A u \in Upstreams : z[u] = 0
    BY OnlyIs
  <2>3. \A u \in Upstreams : z[u] <= g[u]
    BY <2>1, <2>2
  <2>4. Total(z) \in Int /\ Total(g) \in Int /\ Total(z) <= Total(g)
    BY <2>3, TotalOfLess
  <2>5. Total(z) = 0
    BY <2>2, TotalOfPart
  <2> QED
    BY <2>1, <2>4, <2>5
<1>5. Total(Only(e, {})) = 0 /\ Total(Only(e, Upstreams)) = N
  BY <1>3, TotalOfPart
<1>6. ASSUME NEW S, NEW u \in Upstreams
      PROVE  /\ u \notin S => Total(Only(e, S \cup {u})) = Total(Only(e, S)) + 1
             /\ u \in S => Total(Only(e, S)) = Total(Only(e, S \ {u})) + 1
  BY <1>2, TotalOfMore
<1> QED
  BY <1>2, <1>4, <1>5, <1>6 DEF Count

-----------------------------------------------------------------------------
\* The bound on credit, for every part of the pool.

\* No part of k upstreams is owed more than W * k * (N - k) / 2 in all.
Owed(x, W) ==
  \A A \in SUBSET Upstreams : 2 * Total(Only(x, A)) <= W * (Count(A) * (N - Count(A)))

\* y is x after a Pick among S that b has won: each of S has gained its weight,
\* and b has paid for all.
Pays(y, x, w, S, b) ==
  LET all == Total(Only(w, S)) IN
  /\ \A u \in Upstreams : y[u] = x[u] + Only(w, S)[u] - (IF u = b THEN all ELSE 0)
  /\ \A u \in S : y[u] <= y[b] + all

\* What a Pick does to a part of the pool.
LEMMA PaidByPart ==
  ASSUME NEW x \in [Upstreams -> Int], NEW y \in [Upstreams -> Int],
         NEW w \in [Upstreams -> Int], NEW S \in SUBSET Upstreams, NEW b \in S,
         Pays(y, x, w, S, b), NEW A \in SUBSET Upstreams
  PROVE  /\ Total(Only(x, A)) \in Int /\ Total(Only(w, S \cap A)) \in Int
         /\ Total(Only(w, S)) \in Int
         /\ Total(Only(y, A)) = Total(Only(x, A)) + Total(Only(w, S \cap A))
                                - (IF b \in A THEN Total(Only(w, S)) ELSE 0)
<1>1. PICK all \in Int : all = Total(Only(w, S))
  BY TotalOfPart
<1>2. PICK f \in [Upstreams -> Int] :
        f = Only(y, A) /\ \A u \in Upstreams : f[u] = IF u \in A THEN y[u] ELSE 0
  BY OnlyIs
<1>3. PICK g \in [Upstreams -> Int] :
        g = Only(x, A) /\ \A u \in Upstreams : g[u] = IF u \in A THEN x[u] ELSE 0
  BY OnlyIs
<1>4. PICK h \in [Upstreams -> Int] :
        h = Only(w, S \cap A)
        /\ \A u \in Upstreams : h[u] = IF u \in S \cap A THEN w[u] ELSE 0
  BY OnlyIs
<1>5. PICK p \in [Upstreams -> Int] :
        \A u \in Upstreams : p[u] = IF u = b /\ b \in A THEN - all ELSE 0
  <2> DEFINE q == [u \in Upstreams |-> IF u = b /\ b \in A THEN - all ELSE 0]
  <2>1. /\ q \in [Upstreams -> Int]
        /\ \A u \in Upstreams : q[u] = IF u = b /\ b \in A THEN - all ELSE 0
    OBVIOUS
  <2> QED
    BY Zenon, <2>1
<1>6. PICK s \in [Upstreams -> Int] : \A u \in Upstreams : s[u] = g[u] + h[u]
  <2> DEFINE q == [u \in Upstreams |-> g[u] + h[u]]
  <2>1. q \in [Upstreams -> Int] /\ \A u \in Upstreams : q[u] = g[u] + h[u]
    OBVIOUS
  <2> QED
    BY Zenon, <2>1
<1>7. ASSUME NEW u \in Upstreams PROVE f[u] = s[u] + p[u]
  <2>1. PICK c \in [Upstreams -> Int] :
          c = Only(w, S) /\ \A v \in Upstreams : c[v] = IF v \in S THEN w[v] ELSE 0
    BY OnlyIs
  <2>2. y[u] = x[u] + c[u] - (IF u = b THEN all ELSE 0)
    BY <1>1, <2>1 DEF Pays
  <2>3. c[u] = IF u \in S THEN w[u] ELSE 0
    BY <2>1
  <2>4. /\ f[u] = IF u \in A THEN y[u] ELSE 0
        /\ g[u] = IF u \in A THEN x[u] ELSE 0
        /\ h[u] = IF u \in S /\ u \in A THEN w[u] ELSE 0
        /\ s[u] = g[u] + h[u]
        /\ p[u] = IF u = b /\ u \in A THEN - all ELSE 0
    BY Zenon, <1>2, <1>3, <1>4, <1>5, <1>6
  <2>5. x[u] \in Int /\ w[u] \in Int /\ y[u] \in Int
    OBVIOUS
  <2>6. CASE u \in A
    BY <2>2, <2>3, <2>4, <2>5, <2>6
  <2>7. CASE u \notin A
    BY <2>4, <2>7
  <2> QED
    BY <2>6, <2>7
<1>8. /\ Total(s) = Total(g) + Total(h) /\ Total(g) \in Int /\ Total(h) \in Int
  BY <1>6, TotalOfSum
<1>9. Total(f) = Total(s) + Total(p)
  BY <1>7, TotalOfSum
<1>10. Total(p) = IF b \in A THEN - all ELSE 0
  <2>1. b \in Upstreams
    OBVIOUS
  <2>2. \A u \in Upstreams : u # b => p[u] = 0
    BY <1>5
  <2>3. Total(p) = p[b]
    BY <2>1, <2>2, TotalOfOne
  <2> QED
    BY <1>5, <2>1, <2>3
<1> QED
  BY <1>1, <1>2, <1>3, <1>4, <1>8, <1>9, <1>10

\* Of what S gains, a part gains no more than all.
LEMMA GainOfPart ==
  ASSUME NEW w \in [Upstreams -> Int], NEW S \in SUBSET Upstreams,
         \A u \in S : w[u] > 0, NEW R \in SUBSET S
  PROVE  Total(Only(w, R)) <= Total(Only(w, S))
<1>1. PICK f \in [Upstreams -> Int] :
        f = Only(w, R) /\ \A u \in Upstreams : f[u] = IF u \in R THEN w[u] ELSE 0
  BY OnlyIs
<1>2. PICK g \in [Upstreams -> Int] :
        g = Only(w, S) /\ \A u \in Upstreams : g[u] = IF u \in S THEN w[u] ELSE 0
  BY OnlyIs
<1>3. ASSUME NEW u \in Upstreams PROVE f[u] <= g[u]
  <2>1. w[u] \in Int /\ (u \in S => w[u] > 0) /\ (u \in R => u \in S)
    OBVIOUS
  <2> QED
    BY <1>1, <1>2, <2>1
<1>4. Total(f) <= Total(g)
  BY <1>3, TotalOfLess
<1> QED
  BY <1>1, <1>2, <1>4

\* The arithmetic of the bound.
LEMMA Concave ==
  ASSUME NEW W \in Int, NEW m \in Int, NEW n \in Int, NEW a \in Int, NEW b \in Int, NEW c \in Int,
         2 * b <= W * ((m - 1) * (n - (m - 1))), 2 * c <= W * ((m + 1) * (n - (m + 1))),
         2 * a <= b + c + W
  PROVE  2 * a <= W * (m * (n - m))
<1>1. PICK r \in Int : r = m * (n - m)
  OBVIOUS
<1>2. (m - 1) * (n - (m - 1)) + (m + 1) * (n - (m + 1)) + 2 = 2 * r
  BY <1>1
<1>3. PICK p \in Int : p = (m - 1) * (n - (m - 1))
  OBVIOUS
<1>4. PICK q \in Int : q = (m + 1) * (n - (m + 1))
  OBVIOUS
<1>5. W * p + W * q + 2 * W = 2 * (W * r)
  <2>1. p + q + 2 = 2 * r
    BY <1>2, <1>3, <1>4
  <2>2. p = 2 * r - 2 - q
    BY <2>1
  <2> QED
    BY <2>2
<1>6. PICK i \in Int : i = W * p
  OBVIOUS
<1>7. PICK j \in Int : j = W * q
  OBVIOUS
<1>8. PICK k \in Int : k = W * r
  OBVIOUS
<1>9. i + j + 2 * W = 2 * k /\ 2 * b <= i /\ 2 * c <= j /\ 2 * a <= b + c + W
  BY <1>3, <1>4, <1>5, <1>6, <1>7, <1>8
<1>10. 2 * a <= k
  BY <1>9
<1> QED
  BY <1>1, <1>8, <1>10

\* Does the bound hold of A?
Within(y, W, A) == 2 * Total(Only(y, A)) <= W * (Count(A) * (N - Count(A)))

\* A part that the winner is in, or that has no part in the Pick, owes as before.
LEMMA StaysWithin ==
  ASSUME NEW x \in [Upstreams -> Int], NEW y \in [Upstreams -> Int],
         NEW w \in [Upstreams -> Int], NEW S \in SUBSET Upstreams, NEW b \in S,
         \A u \in S : w[u] > 0, Pays(y, x, w, S, b), NEW W \in Int,
         NEW A \in SUBSET Upstreams, Within(x, W, A), b \in A \/ S \cap A = {}
  PROVE  Within(y, W, A)
<1>1. PICK all \in Int : all = Total(Only(w, S))
  BY TotalOfPart
<1>2. PICK g \in Int : g = Total(Only(w, S \cap A))
  BY TotalOfPart
<1>3. PICK t \in Int : t = Total(Only(x, A))
  BY TotalOfPart
<1>4. Total(Only(y, A)) = t + g - (IF b \in A THEN all ELSE 0)
  BY <1>1, <1>2, <1>3, PaidByPart
<1>5. g <= all
  <2>1. S \cap A \in SUBSET S
    OBVIOUS
  <2> QED
    BY Zenon, <1>1, <1>2, <2>1, GainOfPart
<1>6. S \cap A = {} => g = 0
  BY Zenon, <1>2, TotalOfPart
<1>7. b \in S /\ (b \in A => S \cap A # {})
  OBVIOUS
<1>8. PICK z \in Int : z = Total(Only(y, A))
  BY TotalOfPart
<1>9. z <= t
  BY <1>4, <1>5, <1>6, <1>7, <1>8
<1>10. PICK k \in Int : k = W * (Count(A) * (N - Count(A)))
  <2>1. Count(A) \in Nat /\ N \in Nat
    BY Counts, SelectorAssumption
  <2> QED
    BY <2>1
<1>11. 2 * t <= k
  BY <1>3, <1>10 DEF Within
<1>12. 2 * z <= k
  BY <1>9, <1>11
<1> QED
  BY <1>8, <1>10, <1>12 DEF Within

\* However the list changes from Pick to Pick, the choice of the one with most
\* credit keeps all parts of the pool within their bounds.
LEMMA GreedyKeeps ==
  ASSUME NEW x \in [Upstreams -> Int], NEW y \in [Upstreams -> Int],
         NEW w \in [Upstreams -> Int], NEW S \in SUBSET Upstreams, NEW b \in S,
         \A u \in S : w[u] > 0, Pays(y, x, w, S, b), NEW W \in Int, Total(Only(w, S)) <= W,
         Owed(x, W)
  PROVE  Owed(y, W)
<1> DEFINE Bad == {A \in SUBSET Upstreams : ~ Within(y, W, A)}
           Bads == {Count(A) : A \in Bad}
<1>1. \A A \in SUBSET Upstreams : Within(x, W, A)
  BY DEF Owed, Within
<1>2. \A A \in SUBSET Upstreams : b \in A \/ S \cap A = {} => Within(y, W, A)
  BY <1>1, StaysWithin
<1>3. ASSUME Bad # {} PROVE FALSE
  <2>1. Bads \in SUBSET Nat /\ Bads # {}
    BY <1>3, Counts
  <2>2. PICK m \in Bads : \A k \in Bads : m <= k
    <3> HIDE DEF Bads
    <3> QED
      BY <2>1, LeastNatural
  <2>3. PICK A \in SUBSET Upstreams : ~ Within(y, W, A) /\ m = Count(A)
    BY <2>2
  <2>4. PICK u \in S : u \in A /\ b \notin A
    BY <1>2, <2>3
  <2>5. u \in Upstreams /\ b \in Upstreams /\ m \in Nat /\ N \in Nat
    BY <2>1, <2>2, SelectorAssumption
  <2>6. PICK B \in SUBSET Upstreams : B = A \ {u}
    BY Zenon
  <2>7. PICK C \in SUBSET Upstreams : C = A \cup {b}
    BY Zenon, <2>5
  <2>8. Count(B) = m - 1 /\ Count(C) = m + 1
    <3>1. Count(A) = Count(B) + 1 /\ Count(C) = Count(A) + 1 /\ Count(B) \in Nat
      BY <2>4, <2>5, <2>6, <2>7, Counts
    <3> QED
      BY <2>3, <2>5, <3>1
  <2>9. Within(y, W, C)
    BY <1>2, <2>7
  <2>10. Within(y, W, B)
    <3>1. ~ Within(y, W, B) => m <= m - 1
      BY <2>2, <2>8
    <3> QED
      BY <2>5, <3>1
  <2>11. PICK d \in Int : d = Total(Only(y, B))
    BY TotalOfPart
  <2>12. PICK e \in Int : e = Total(Only(y, C))
    BY TotalOfPart
  <2>13. PICK a \in Int : a = Total(Only(y, A))
    BY TotalOfPart
  <2>14. a = d + y[u] /\ e = a + y[b]
    BY <2>4, <2>5, <2>6, <2>7, <2>11, <2>12, <2>13, TotalOfMore
  <2>15. y[u] <= y[b] + W
    <3>1. PICK all \in Int : all = Total(Only(w, S)) /\ all <= W
      BY TotalOfPart
    <3>2. y[u] <= y[b] + all
      BY <3>1, <2>4 DEF Pays
    <3>3. y[u] \in Int /\ y[b] \in Int
      BY <2>5
    <3> QED
      BY <3>1, <3>2, <3>3
  <2>16. 2 * a <= d + e + W
    <3>1. y[u] \in Int /\ y[b] \in Int
      BY Zenon, <2>5
    <3> QED
      BY <2>14, <2>15, <3>1
  <2>17. 2 * d <= W * ((m - 1) * (N - (m - 1))) /\ 2 * e <= W * ((m + 1) * (N - (m + 1)))
    BY <2>8, <2>9, <2>10, <2>11, <2>12 DEF Within
  <2>18. m \in Int /\ N \in Int
    BY <2>5
  <2>19. 2 * a <= W * (m * (N - m))
    BY <2>16, <2>17, <2>18, Concave
  <2> QED
    BY <2>3, <2>13, <2>19 DEF Within
<1>4. \A A \in SUBSET Upstreams : Within(y, W, A)
  BY <1>3
<1> QED
  BY <1>4 DEF Owed, Within

\* What the bound says of one upstream, when all credit adds up to nothing.
LEMMA OwedToOne ==
  ASSUME NEW x \in [Upstreams -> Int], NEW W \in Int, Owed(x, W), Total(x) = 0,
         NEW u \in Upstreams
  PROVE  2 * x[u] <= (N - 1) * W /\ - ((N - 1) * W) <= 2 * x[u]
<1>1. N \in Nat /\ x[u] \in Int
  BY SelectorAssumption
<1>2. PICK A \in SUBSET Upstreams : A = {u}
  BY Zenon
<1>3. PICK B \in SUBSET Upstreams : B = Upstreams \ {u}
  BY Zenon
<1>4. Count(A) = 1 /\ Count(B) = N - 1
  <2>1. A = {} \cup {u} /\ u \notin {}
    BY <1>2
  <2>2. Count(A) = Count({}) + 1
    BY <2>1, Counts
  <2>3. Count(Upstreams) = Count(B) + 1 /\ Count(B) \in Nat
    BY <1>3, Counts
  <2> QED
    BY <2>2, <2>3, Counts
<1>5. Total(Only(x, A)) = x[u]
  BY <1>2, TotalOfPart
<1>6. Total(Only(x, B)) = - x[u]
  <2>1. Total(Only(x, Upstreams)) = 0
    BY TotalOfPart
  <2>2. Total(Only(x, Upstreams)) = Total(Only(x, B)) + x[u]
    BY <1>3, TotalOfMore
  <2>3. Total(Only(x, B)) \in Int
    BY Zenon, TotalOfPart
  <2> QED
    BY <1>1, <2>1, <2>2, <2>3
<1>7. 2 * x[u] <= W * (1 * (N - 1)) /\ 2 * (- x[u]) <= W * ((N - 1) * (N - (N - 1)))
  BY <1>4, <1>5, <1>6 DEF Owed
<1>8. PICK v \in Int : v = x[u]
  BY <1>1
<1>9. 2 * v <= (N - 1) * W
  <2>1. W * (1 * (N - 1)) = (N - 1) * W
    BY <1>1
  <2> QED
    BY <1>7, <1>8, <2>1
<1>10. 2 * (- v) <= (N - 1) * W
  <2>1. N - (N - 1) = 1
    BY <1>1
  <2>2. W * ((N - 1) * 1) = (N - 1) * W
    BY <1>1
  <2> QED
    BY <1>7, <1>8, <2>1, <2>2
<1>11. PICK k \in Int : k = (N - 1) * W
  BY <1>1
<1> QED
  BY <1>8, <1>9, <1>10, <1>11

-----------------------------------------------------------------------------
\* Round robin, and weighted round robin.

\* Pick returns one of its list, as round-robin and weighted-rr do at once.
LEMMA PickedIs ==
  ASSUME PickInv, NEW p \in Pickers, NEW k \in 1..Len(pick[p].list),
         NEW u, u = pick[p].list[k]
  PROVE  \E m : /\ m = Outcome(p, "picked", u) /\ LocalOK(m, algorithm) /\ m.pc = "picked"
                /\ u \in Upstreams
                /\ algorithm \in {"round-robin", "weighted-rr"}
                     => ExactAt(m, algorithm, inFlight, ewma)
<1>1. PICK l : l = pick[p] /\ l.list \in Sublists /\ l.key \in DOMAIN Ring
  BY Zenon, Here
<1>2. l.list \in Seq(Upstreams) /\ u \in Upstreams /\ u \in Range(l.list)
  BY Zenon, <1>1, ListIs
<1>3. u \in 0..N /\ "picked" \in PickPC
  BY <1>2, SelectorAssumption DEF Upstreams, PickPC
<1>4. PICK m \in Local : /\ m = Outcome(p, "picked", u) /\ m.pc = "picked" /\ m.up = u
                         /\ m.list = l.list /\ m.key = l.key
  BY <1>1, <1>2, <1>3, OutcomeIs
<1>5. LocalOK(m, algorithm)
  BY Zenon, <1>1, <1>4 DEF LocalOK, LeastPC, HashPC, Looping
<1>6. ASSUME algorithm \in {"round-robin", "weighted-rr"}
      PROVE  ExactAt(m, algorithm, inFlight, ewma)
  <2>1. PromisedOf(m, algorithm, inFlight, ewma) = Range(m.list)
    BY <1>6 DEF PromisedOf
  <2> QED
    BY Zenon, <1>2, <1>4, <2>1 DEF ExactAt, LeastExact, ScoresExact, HashExact
<1> QED
  BY Zenon, <1>2, <1>4, <1>5, <1>6

\* Giving keeps counting.
LEMMA GivesCounts ==
  ASSUME given \in [Upstreams -> Nat], NEW u \in Upstreams, NEW share \in [Upstreams -> Nat],
         Gives(u, share)
  PROVE  given' \in [Upstreams -> Nat]
<1>1. given[u] + 1 \in Nat
  OBVIOUS
<1>2. PICK g \in [Upstreams -> Nat] : g = [given EXCEPT ![u] = @ + 1]
  BY Zenon, <1>1
<1>3. PICK round : round = \A v \in Upstreams : g[v] >= share[v]
  BY Zenon
<1>4. given' = [v \in Upstreams |-> IF ~ uniform THEN 0
                                    ELSE IF \A x \in Upstreams : g[x] >= share[x]
                                           THEN g[v] - share[v] ELSE g[v]]
  BY <1>2 DEF Gives
<1>5. ASSUME NEW v \in Upstreams
      PROVE  (IF ~ uniform THEN 0
              ELSE IF \A x \in Upstreams : g[x] >= share[x]
                     THEN g[v] - share[v] ELSE g[v]) \in Nat
  <2>1. g[v] >= share[v] => g[v] - share[v] \in Nat
    OBVIOUS
  <2> QED
    BY <2>1
<1> QED
  BY <1>4, <1>5

\* RoundRobin.Pick: one Add and an index.
LEMMA RoundRobinKeeps ==
  ASSUME PickInv, NEW p \in Pickers, RoundRobin(p)
  PROVE  PickInv'
<1>1. PICK list \in Sublists : list = pick[p].list
  BY Zenon, Here
<1>2. PICK n \in Nat : n = Len(list) /\ n > 1
  BY <1>1, ListIs DEF RoundRobin
<1>3. PICK next \in 0..(CounterPeriod - 1) : next = (counter + 1) % CounterPeriod
  <2>1. CounterPeriod \in Nat \ {0} /\ counter \in Nat
    BY SelectorAssumption DEF PickInv, PickTypeOK
  <2>2. \A a, b \in Nat : b # 0 => a % b \in 0..(b - 1)
    OBVIOUS
  <2> QED
    BY <2>1, <2>2
<1>4. PICK k \in 1..Len(list) : k = (next % n) + 1
  <2>1. next \in Nat
    BY <1>3, SelectorAssumption
  <2>2. next % n \in 0..(n - 1)
    BY <1>2, <2>1
  <2>3. (next % n) + 1 \in 1..n
    BY <1>2, <2>2
  <2> QED
    BY <1>2, <2>3
<1>5. PICK u : u = list[k]
  OBVIOUS
<1>6. PICK m : /\ m = Outcome(p, "picked", u) /\ LocalOK(m, algorithm) /\ m.pc = "picked"
               /\ u \in Upstreams
               /\ algorithm \in {"round-robin", "weighted-rr"}
                    => ExactAt(m, algorithm, inFlight, ewma)
  BY Zenon, <1>1, <1>4, <1>5, PickedIs
<1>7. PICK share \in [Upstreams -> Nat] : share = [v \in Upstreams |-> 1]
  BY Zenon
<1>8. /\ pick[p].pc = "eligible" /\ algorithm = "round-robin" /\ counter' = next
      /\ pick' = [pick EXCEPT ![p] = m] /\ Gives(u, share)
      /\ UNCHANGED <<config, atomics, cw, disturbed, uniform>>
  BY Zenon, <1>1, <1>2, <1>3, <1>4, <1>5, <1>6, <1>7 DEF RoundRobin
<1>9. given' \in [Upstreams -> Nat]
  BY Zenon, <1>6, <1>8, GivesCounts DEF PickInv, PickTypeOK
<1>10. Quiet(p, m)
  BY Zenon, <1>8, <1>9 DEF Quiet, PickInv, PickTypeOK
<1> QED
  BY <1>6, <1>8, <1>10, QuietKeeps

\* The weights, and those that count.
LEMMA WeightsAre ==
  ASSUME PickInv
  PROVE  /\ weight \in [Upstreams -> Int] /\ effective \in [Upstreams -> Nat]
         /\ effective \in [Upstreams -> Int]
         /\ \A u \in Upstreams : effective[u] = IF weight[u] > 0 THEN weight[u] ELSE 0
<1>1. weight \in [Upstreams -> Int]
  BY SelectorAssumption, Counts DEF PickInv, PickTypeOK
<1> QED
  BY <1>1 DEF effective

\* Of some upstreams with numbers, there is one with the largest.
LEMMA MostIs ==
  ASSUME NEW g \in [Upstreams -> Int], NEW S \in SUBSET Upstreams, S # {}
  PROVE  \E b \in S : \A v \in S : g[v] <= g[b]
<1> DEFINE Most(R) == \E b \in R : \A v \in R : g[v] <= g[b]
           Upper(k) == {u \in S : u <= k}
           D == {k \in 0..N : Upper(k) # {} => Most(Upper(k))}
<1>1. N \in Nat /\ Upstreams = 1..N
  BY Zenon, SelectorAssumption DEF Upstreams
<1>2. \A u \in S : u \in Nat /\ 1 <= u /\ u <= N
  BY <1>1
<1>3. 0 \in D
  <2>1. Upper(0) = {}
    BY <1>2
  <2> QED
    BY <1>1, <2>1
<1>4. \A k \in 1..N : k - 1 \in D => k \in D
  <2> SUFFICES ASSUME NEW k \in 1..N, k - 1 \in D PROVE k \in D
    OBVIOUS
  <2>1. k \in 0..N /\ k \in Upstreams
    BY <1>1
  <2>2. \A u \in S : u <= k <=> (u <= k - 1 \/ u = k)
    BY <1>1, <1>2
  <2>3. CASE k \notin S
    <3>1. Upper(k) = Upper(k - 1)
      BY Zenon, <2>3, <2>2
    <3> QED
      BY Zenon, <2>1, <3>1
  <2>4. CASE k \in S
    <3>1. Upper(k) = Upper(k - 1) \cup {k} /\ Upper(k - 1) \subseteq Upstreams
      BY Zenon, <2>4, <2>2
    <3>2. CASE Upper(k - 1) = {}
      <4>1. Upper(k) = {k} /\ g[k] <= g[k]
        BY <2>1, <3>1, <3>2
      <4>2. Most(Upper(k))
        BY Zenon, <4>1
      <4> QED
        BY Zenon, <2>1, <4>2
    <3>3. CASE Upper(k - 1) # {}
      <4>1. PICK b \in Upper(k - 1) : \A v \in Upper(k - 1) : g[v] <= g[b]
        BY Zenon, <3>3
      <4>2. g[b] \in Int /\ g[k] \in Int /\ \A v \in Upper(k - 1) : g[v] \in Int
        BY Zenon, <2>1, <3>1
      <4>3. CASE g[k] <= g[b]
        <5>1. \A v \in Upper(k) : g[v] <= g[b]
          BY Zenon, <3>1, <4>1, <4>3
        <5> QED
          BY Zenon, <2>1, <3>1, <4>1, <5>1
      <4>4. CASE g[b] < g[k]
        <5>1. \A v \in Upper(k) : g[v] <= g[k]
          BY <3>1, <4>1, <4>2, <4>4
        <5> QED
          BY Zenon, <2>1, <3>1, <5>1
      <4> QED
        BY <4>2, <4>3, <4>4
    <3> QED
      BY <3>2, <3>3
  <2> QED
    BY Zenon, <2>3, <2>4
<1>5. \A k \in 0..N : k \in D
  <2> HIDE DEF D
  <2> QED
    BY Zenon, <1>1, <1>3, <1>4, UpTo
<1>6. N \in D /\ Upper(N) = S
  <2>1. N \in 0..N
    BY <1>1
  <2>2. Upper(N) = S
    BY <1>2
  <2> QED
    BY <1>5, <2>1, <2>2
<1> QED
  BY Zenon, <1>6

\* What weighted-rr does when someone is there to be chosen.
Chosen(p, cands, best) ==
  /\ cands = {u \in Range(pick[p].list) : weight[u] > 0}
  /\ cands \in SUBSET Upstreams /\ best \in cands
  /\ cw' \in [Upstreams -> Int] /\ Pays(cw', cw, weight, cands, best)
  /\ \A u \in cands : cw[u] + weight[u] <= cw[best] + weight[best]
  /\ pick' = [pick EXCEPT ![p] = Outcome(p, "picked", best)]
  /\ Gives(best, effective)
  /\ UNCHANGED <<config, atomics, counter, disturbed, uniform>>

\* WeightedRoundRobin.Pick under its mutex: without a candidate it returns none, else
\* the one with most credit, which pays the weights of all candidates.
LEMMA WeightedChooses ==
  ASSUME PickInv, NEW p \in Pickers, WeightedRoundRobin(p)
  PROVE  /\ pick[p].pc = "eligible" /\ Len(pick[p].list) > 1 /\ algorithm = "weighted-rr"
         /\ \/ Goes(p, Outcome(p, "none", 0))
            \/ \E cands, best : Chosen(p, cands, best)
<1>1. PICK list \in Sublists : list = pick[p].list
  BY Zenon, Here
<1>2. Range(list) \subseteq Upstreams /\ N \in Nat
  BY Zenon, ListIs, SelectorAssumption
<1>3. weight \in [Upstreams -> Int] /\ cw \in [Upstreams -> Int]
  BY Zenon, WeightsAre DEF PickInv, PickTypeOK
<1> DEFINE cands == {u \in Range(pick[p].list) : weight[u] > 0}
           gained == [u \in Upstreams |-> IF u \in cands THEN cw[u] + weight[u] ELSE cw[u]]
           most == {u \in cands : \A v \in cands : gained[v] <= gained[u]}
           best == Min(most)
           all == Total(Only(weight, cands))
<1>4. cands \in SUBSET Upstreams /\ \A v \in cands : weight[v] > 0
  BY <1>1, <1>2
<1>5. /\ gained \in [Upstreams -> Int]
      /\ \A u \in cands : gained[u] = cw[u] + weight[u]
      /\ \A u \in Upstreams \ cands : gained[u] = cw[u]
  <2> HIDE DEF cands
  <2>1. \A u \in Upstreams : (IF u \in cands THEN cw[u] + weight[u] ELSE cw[u]) \in Int
    BY <1>3
  <2> QED
    BY Zenon, <1>4, <2>1
<1>6. pick[p].pc = "eligible" /\ Len(pick[p].list) > 1 /\ algorithm = "weighted-rr"
  BY Zenon DEF WeightedRoundRobin
<1>7. cands = {} => Goes(p, Outcome(p, "none", 0))
  BY Zenon DEF WeightedRoundRobin
<1>8. ASSUME cands # {} PROVE Chosen(p, cands, best)
  <2>1. /\ cw' = [gained EXCEPT ![best] = @ - all]
        /\ pick' = [pick EXCEPT ![p] = Outcome(p, "picked", best)]
        /\ Gives(best, effective)
        /\ UNCHANGED <<config, atomics, counter, disturbed, uniform>>
    BY Zenon, <1>8 DEF WeightedRoundRobin
  <2>2. \A u \in Upstreams : u \in Nat
    BY <1>2 DEF Upstreams
  <2>3. cands = {u \in Range(pick[p].list) : weight[u] > 0}
    BY Zenon
  <2> HIDE DEF cands, gained
  <2>4. most # {} /\ most \in SUBSET Nat
    <3>1. \E b \in cands : \A v \in cands : gained[v] <= gained[b]
      BY <1>4, <1>5, <1>8, MostIs
    <3>2. most # {}
      BY <3>1
    <3>3. most \in SUBSET Nat
      BY <1>4, <2>2
    <3> QED
      BY Zenon, <3>2, <3>3
  <2>5. best \in most
    <3> HIDE DEF most
    <3> QED
      BY Zenon, <2>4, MinIs
  <2>6. best \in cands /\ \A v \in cands : gained[v] <= gained[best]
    BY Zenon, <2>5
  <2>7. all \in Int
    BY <1>3, TotalOfPart
  <2> HIDE DEF most, best, all
  <2>8. cw' \in [Upstreams -> Int] /\ best \in Upstreams
    <3>1. best \in Upstreams
      BY Zenon, <1>4, <2>6
    <3>2. gained[best] - all \in Int
      BY <1>5, <2>7, <3>1
    <3> QED
      BY Zenon, <1>5, <2>1, <3>1, <3>2
  <2>9. \A u \in Upstreams : Only(weight, cands)[u] = IF u \in cands THEN weight[u] ELSE 0
    BY <1>3, OnlyIs
  <2>10. cw'[best] = gained[best] - all /\ \A u \in Upstreams : u # best => cw'[u] = gained[u]
    BY Zenon, <1>5, <2>1, <2>8
  <2>11. \A u \in Upstreams :
          cw'[u] = cw[u] + Only(weight, cands)[u] - (IF u = best THEN all ELSE 0)
    <3> TAKE u \in Upstreams
    <3>1. PICK x \in Int : x = gained[u]
      BY Zenon, <1>5
    <3>2. x = cw[u] + Only(weight, cands)[u]
      <4>1. cw[u] + 0 = cw[u]
        BY <1>3
      <4>2. u \notin cands => Only(weight, cands)[u] = 0 /\ x = cw[u]
        BY Zenon, <1>5, <2>9, <3>1
      <4>3. u \in cands => Only(weight, cands)[u] = weight[u] /\ x = cw[u] + weight[u]
        BY Zenon, <1>5, <2>9, <3>1
      <4> QED
        BY <4>1, <4>2, <4>3
    <3>3. PICK c \in Int, o \in Int : c = cw[u] /\ o = Only(weight, cands)[u]
      BY <1>3, OnlyIs
    <3>4. PICK paid \in Int : paid = IF u = best THEN all ELSE 0
      BY <2>7
    <3>5. cw'[u] = x - paid
      BY <2>10, <3>1, <3>4
    <3>6. cw'[u] = c + (o - paid)
      BY <3>2, <3>3, <3>5
    <3> QED
      BY Zenon, <3>3, <3>4, <3>6
  <2>12. \A u \in cands : gained[u] <= gained[best] /\ gained[u] = cw[u] + weight[u]
    BY Zenon, <1>5, <2>6
  <2>13. \A u \in cands : cw[u] + weight[u] <= cw[best] + weight[best]
    BY Zenon, <2>12, <2>6
  <2>14. \A u \in cands : cw'[u] <= cw'[best] + all
    <3> TAKE u \in cands
    <3>1. PICK x \in Int, b \in Int : x = gained[u] /\ b = gained[best] /\ x <= b
      <4>1. gained[u] \in Int /\ gained[best] \in Int
        BY Zenon, <1>4, <1>5, <2>8
      <4> QED
        BY Zenon, <2>12, <4>1
    <3>2. cw'[best] = b - all
      BY Zenon, <2>10, <3>1
    <3>3. u # best => cw'[u] = x
      BY Zenon, <1>4, <2>10, <3>1
    <3>4. all >= 0
      <4>1. {} \in SUBSET cands
        BY Zenon
      <4>2. Total(Only(weight, {})) <= Total(Only(weight, cands))
        BY Zenon, <1>3, <1>4, <4>1, GainOfPart
      <4>3. Total(Only(weight, {})) = 0
        BY Zenon, <1>3, TotalOfPart
      <4> QED
        BY <2>7, <4>2, <4>3 DEF all
    <3>5. CASE u # best
      BY <2>7, <3>1, <3>2, <3>3, <3>5
    <3>6. CASE u = best
      BY <2>7, <3>1, <3>2, <3>4, <3>6
    <3> QED
      BY <3>5, <3>6
  <2> QED
    <3>1. Pays(cw', cw, weight, cands, best)
      BY Zenon, <2>11, <2>14 DEF Pays, all
    <3> QED
      BY Zenon, <1>4, <2>3, <2>1, <2>8, <2>13, <2>6, <3>1 DEF Chosen
<1> HIDE DEF cands, best
<1> QED
  BY Zenon, <1>6, <1>7, <1>8

\* That step keeps the invariant.
LEMMA WeightedRoundRobinKeeps ==
  ASSUME PickInv, NEW p \in Pickers, WeightedRoundRobin(p)
  PROVE  PickInv'
<1>1. pick[p].pc = "eligible" /\ algorithm = "weighted-rr"
  BY Zenon, WeightedChooses
<1>2. InPick(p)
  BY <1>1 DEF InPick, PickPC
<1>3. ASSUME Goes(p, Outcome(p, "none", 0)) PROVE PickInv'
  <2>1. PICK pc \in {"none", "panicked"} : pc = "none"
    BY Zenon
  <2>2. Moves(p)
    BY <1>3, <2>1, EndMoves
  <2> QED
    BY <1>2, <2>2, MovesKeeps
<1>4. ASSUME NEW cands, NEW best, Chosen(p, cands, best) PROVE PickInv'
  <2>1. PICK list \in Sublists : list = pick[p].list
    BY Here
  <2>2. Range(list) = {list[k] : k \in 1..Len(list)}
    BY ListIs
  <2>3. best \in Range(list)
    BY Zenon, <1>4, <2>1 DEF Chosen
  <2>4. PICK k \in 1..Len(list) : best = list[k]
    BY <2>2, <2>3
  <2>5. PICK m : /\ m = Outcome(p, "picked", best) /\ LocalOK(m, algorithm) /\ m.pc = "picked"
                 /\ best \in Upstreams
                 /\ algorithm \in {"round-robin", "weighted-rr"}
                      => ExactAt(m, algorithm, inFlight, ewma)
    BY Zenon, <2>1, <2>4, PickedIs
  <2>6. given' \in [Upstreams -> Nat]
    <3>1. given \in [Upstreams -> Nat] /\ effective \in [Upstreams -> Nat]
      BY WeightsAre DEF PickInv, PickTypeOK
    <3>2. Gives(best, effective)
      BY Zenon, <1>4 DEF Chosen
    <3> QED
      BY Zenon, <2>5, <3>1, <3>2, GivesCounts
  <2>7. Quiet(p, m)
    BY <1>4, <2>5, <2>6 DEF Chosen, Quiet, PickInv, PickTypeOK
  <2> QED
    BY Zenon, <1>1, <2>5, <2>7, QuietKeeps
<1> QED
  BY <1>3, <1>4, WeightedChooses

\* The invariant holds of a new selector.
LEMMA PickStarts ==
  ASSUME PickInit
  PROVE  PickInv
<1>1. /\ algorithm \in Algorithms /\ weight \in Weights \cup {Even} /\ reports \in BOOLEAN
      /\ inFlight \in [Upstreams -> Nat] /\ ewma \in [Upstreams -> 0..MaxLatency]
      /\ counter \in 0..(CounterPeriod - 1) /\ cw \in [Upstreams -> Int]
      /\ uniform \in BOOLEAN /\ given \in [Upstreams -> Nat] /\ disturbed \subseteq Pickers
  <2>1. algorithm \in Algorithms /\ weight \in Weights \cup {Even} /\ disturbed \subseteq Pickers
    BY DEF PickInit
  <2>2. reports \in BOOLEAN /\ uniform \in BOOLEAN
    <3>1. reports = FALSE \/ reports = (algorithm = "p2c-ewma")
      BY Zenon DEF PickInit
    <3>2. (algorithm = "p2c-ewma") \in BOOLEAN
      OBVIOUS
    <3>3. (algorithm \in {"round-robin", "weighted-rr"}) \in BOOLEAN
      OBVIOUS
    <3>4. uniform = (algorithm \in {"round-robin", "weighted-rr"})
      BY Zenon DEF PickInit
    <3>5. uniform \in BOOLEAN
      BY <3>3, <3>4, Zenon
    <3>6. reports \in BOOLEAN
      BY <3>1, <3>2, Zenon
    <3> QED
      BY <3>5, <3>6
  <2>3. inFlight \in [Upstreams -> Nat]
    BY SelectorAssumption DEF PickInit, Loads
  <2>4. 0 \in 0..MaxLatency /\ 0 \in 0..(CounterPeriod - 1)
    BY SelectorAssumption
  <2>5. /\ ewma \in [Upstreams -> 0..MaxLatency] /\ cw \in [Upstreams -> Int]
        /\ counter \in 0..(CounterPeriod - 1) /\ given \in [Upstreams -> Nat]
    BY <2>4 DEF PickInit
  <2> QED
    BY Zenon, <2>1, <2>3, <2>5, <2>2
<1>2. /\ pick \in [Pickers -> Local] /\ \A p \in Pickers : pick[p] = Idle
  BY IdleOK DEF PickInit
<1>3. \A p \in Pickers : LocalOK(pick[p], algorithm)
  BY Zenon, <1>2, IdleOK
<1>4. \A u \in Upstreams : Cardinality(Holders(u)) <= inFlight[u]
  <2> TAKE u \in Upstreams
  <2>1. Holders(u) = {}
    BY Zenon, <1>2, IdleOK DEF Holders
  <2> QED
    BY <1>1, <2>1, FS_EmptySet
<1>5. \A p \in Pickers : ExactAt(pick[p], algorithm, inFlight, ewma)
  <2> TAKE p \in Pickers
  <2>1. pick[p].pc \notin PickPC
    BY <1>2, IdleOK DEF PickPC
  <2> QED
    BY <2>1, OutOfPick
<1> QED
  BY <1>1, <1>2, <1>3, <1>4, <1>5 DEF PickInv, PickTypeOK

\* Every step of Pick keeps the invariant.
LEMMA PickStepKeeps ==
  ASSUME PickInv, NEW p \in Pickers, PickStep(p)
  PROVE  PickInv'
<1>1. CASE RoundRobin(p)
  BY <1>1, RoundRobinKeeps
<1>2. CASE WeightedRoundRobin(p)
  BY <1>2, WeightedRoundRobinKeeps
<1>3. CASE Moves(p)
  <2>1. pick[p].pc \in {"eligible", "min", "ties", "only", "draw", "tiebreak", "scores", "sum",
                        "walk", "fallback"}
    BY Zenon DEF PickStep, NoneOrOne, RoundRobin, WeightedRoundRobin, Enters, LoadMin, LoadTies,
           LoadOnly, DrawTie, LoadTieBreak, SampleTwo, LoadScore, LoadTotal, LoadWalk,
           LoadFallback
  <2>2. InPick(p)
    BY <2>1 DEF InPick, PickPC
  <2> QED
    BY <1>3, <2>2, MovesKeeps
<1>4. RoundRobin(p) \/ WeightedRoundRobin(p) \/ Moves(p)
  BY NoneOrOneMoves, EntersMoves, LoadMinMoves, LoadTiesMoves, LoadOnlyMoves, DrawTieMoves,
     LoadTieBreakMoves, SampleTwoMoves, LoadScoreMoves, LoadTotalMoves, LoadWalkMoves,
     LoadFallbackMoves, Zenon DEF PickStep
<1> QED
  BY <1>1, <1>2, <1>3, <1>4

\* And so does every step.
LEMMA PickNextKeeps ==
  ASSUME PickInv, [PickNext]_pickVars
  PROVE  PickInv'
<1>1. ASSUME NEW p \in Pickers, NEW key \in RequestKeys, NEW list \in Sublists,
             eligibleSet(p, key, list)
      PROVE  PickInv'
  BY Zenon, <1>1, EligibleKeeps
<1>2. ASSUME NEW p \in Pickers, PickStep(p) PROVE PickInv'
  BY Zenon, <1>2, PickStepKeeps
<1>3. ASSUME NEW p \in Pickers, AddInFlight(p) PROVE PickInv'
  BY <1>3, AddInFlightKeeps
<1>4. ASSUME NEW p \in Pickers, GivesUp(p) PROVE PickInv'
  BY <1>4, GivesUpKeeps
<1>5. ASSUME NEW p \in Pickers, Release(p) PROVE PickInv'
  BY <1>5, ReleaseKeeps
<1>6. ASSUME NEW p \in Pickers, NEW obs \in 1..MaxLatency, NEW avg \in 1..MaxLatency,
             RecordLatency(p, obs, avg)
      PROVE  PickInv'
  BY Zenon, <1>6, RecordLatencyKeeps
<1>7. ASSUME NEW u \in Upstreams, OtherEnds(u) PROVE PickInv'
  BY Zenon, <1>7, OtherEndsKeeps
<1>8. ASSUME UNCHANGED pickVars PROVE PickInv'
  <2>1. /\ algorithm' = algorithm /\ weight' = weight /\ reports' = reports
        /\ inFlight' = inFlight /\ ewma' = ewma /\ counter' = counter /\ cw' = cw
        /\ pick' = pick /\ disturbed' = disturbed /\ uniform' = uniform /\ given' = given
    BY Zenon, <1>8 DEF pickVars, config, atomics, selector, ghosts
  <2>2. PickTypeOK'
    BY <2>1 DEF PickInv, PickTypeOK
  <2>3. \A u \in Upstreams : Holders(u)' = Holders(u)
    BY Zenon, <2>1 DEF Holders
  <2> QED
    BY Zenon, <2>1, <2>2, <2>3 DEF PickInv
<1> QED
  BY <1>1, <1>2, <1>3, <1>4, <1>5, <1>6, <1>7, <1>8, ZenonT(30) DEF PickNext

\* What goroutines in Pick have collected, load by load and interleaved with everyone
\* else, is what their selector reads as long as no load has changed.
THEOREM PicksInvariant == PickSpec => []PickInv
<1> QED
  BY PickStarts, PickNextKeeps, PTL DEF PickSpec

\* The selectors' state, the upstreams' atomics and every Pick's locals keep their
\* types; in particular Upstream.InFlight never falls below zero.
THEOREM PickTypes == PickSpec => []PickTypeOK
<1>1. PickInv => PickTypeOK
  BY DEF PickInv
<1> QED
  BY <1>1, PicksInvariant, PTL

\* A Pick during which no load changes returns what its algorithm promises, for any pool,
\* ring, epsilon and number of goroutines: a least loaded upstream (leastconnections.go), not
\* the worse of the pool (p2c.go), the nearest on the ring with room under the cap
\* (consistenthash.go), of which there always is one; and rng.IntN never panics.
THEOREM UndisturbedPicksAreExact == PickSpec => []UndisturbedPickIsExact
<1>1. PickInv => UndisturbedPickIsExact
  <2> SUFFICES ASSUME PickInv, NEW p \in Pickers \ disturbed
               PROVE  /\ pick[p].pc # "panicked"
                      /\ pick[p].pc = "picked" => pick[p].up \in Promised(p)
    BY Zenon DEF UndisturbedPickIsExact
  <2>1. ExactAt(pick[p], algorithm, inFlight, ewma)
    BY DEF PickInv
  <2>2. Promised(p) = PromisedOf(pick[p], algorithm, inFlight, ewma)
    BY Zenon DEF Promised, PromisedOf, Candidates, score, Roomy, Roomiest, Cap
  <2> QED
    BY Zenon, <2>1, <2>2 DEF ExactAt
<1> QED
  BY <1>1, PicksInvariant, PTL

-----------------------------------------------------------------------------
\* Credit.

\* A step that is no Pick's choice of weighted or plain round robin, and no
\* new Pick.
Aside ==
  /\ UNCHANGED <<config, selector, uniform, given>>
  /\ \A q \in Pickers : pick'[q].pc = "eligible" => pick'[q] = pick[q]

\* A Pick of weighted round robin that finds a candidate.
Elects(p) ==
  /\ pick[p].pc = "eligible" /\ algorithm = "weighted-rr"
  /\ \E cands, best : Chosen(p, cands, best)

\* A step within Pick is of no concern to credit and shares.
LEMMA MovesAside ==
  ASSUME PickInv, NEW p \in Pickers, Moves(p)
  PROVE  Aside
<1>1. PICK m : m.pc # "eligible" /\ Goes(p, m)
  BY Zenon DEF Moves
<1>2. pick' = [pick EXCEPT ![p] = m] /\ pick \in [Pickers -> Local]
  BY Zenon, <1>1 DEF Goes, PickInv, PickTypeOK
<1>3. pick'[p] = m /\ \A q \in Pickers : q # p => pick'[q] = pick[q]
  BY Zenon, <1>2
<1>4. UNCHANGED <<config, selector, uniform, given>>
  BY Zenon, <1>1 DEF Goes, ghosts
<1> QED
  BY Zenon, <1>1, <1>3, <1>4 DEF Aside

\* Nor is a step by which a goroutine leaves Pick.
LEMMA LeavesAside ==
  ASSUME PickInv, NEW p \in Pickers, NEW m, pick' = [pick EXCEPT ![p] = m],
         m.pc # "eligible", UNCHANGED <<config, selector, uniform, given>>
  PROVE  Aside
<1>1. pick \in [Pickers -> Local]
  BY Zenon DEF PickInv, PickTypeOK
<1>2. pick'[p] = m /\ \A q \in Pickers : q # p => pick'[q] = pick[q]
  BY Zenon, <1>1
<1> QED
  BY Zenon, <1>2 DEF Aside

\* What concerns them are the choices of plain and weighted round robin.
LEMMA PickStepIs ==
  ASSUME PickInv, NEW p \in Pickers, PickStep(p)
  PROVE  Aside \/ RoundRobin(p) \/ Elects(p)
<1>1. CASE WeightedRoundRobin(p)
  <2>1. CASE Goes(p, Outcome(p, "none", 0))
    <3>1. PICK pc \in {"none", "panicked"} : pc = "none"
      OBVIOUS
    <3>2. Moves(p)
      BY <2>1, <3>1, EndMoves
    <3> QED
      BY <3>2, MovesAside
  <2> QED
    BY Zenon, <1>1, <2>1, WeightedChooses DEF Elects
<1>2. CASE Moves(p)
  BY <1>2, MovesAside
<1>3. RoundRobin(p) \/ WeightedRoundRobin(p) \/ Moves(p)
  BY NoneOrOneMoves, EntersMoves, LoadMinMoves, LoadTiesMoves, LoadOnlyMoves, DrawTieMoves,
     LoadTieBreakMoves, SampleTwoMoves, LoadScoreMoves, LoadTotalMoves, LoadWalkMoves,
     LoadFallbackMoves, Zenon DEF PickStep
<1> QED
  BY <1>1, <1>2, <1>3

\* The steps, for credit and shares: a choice, a new Pick, or neither.
LEMMA NextIs ==
  ASSUME PickInv, [PickNext]_pickVars
  PROVE  \/ Aside
         \/ \E p \in Pickers : RoundRobin(p) \/ Elects(p)
         \/ \E p \in Pickers, key \in RequestKeys, list \in Sublists : eligibleSet(p, key, list)
<1>1. ASSUME NEW p \in Pickers, AddInFlight(p) PROVE Aside
  <2>1. PICK m : m = [Idle EXCEPT !.pc = "holding", !.up = pick[p].up]
    OBVIOUS
  <2>2. m.pc # "eligible"
    BY <2>1 DEF Idle
  <2> QED
    BY Zenon, <1>1, <2>1, <2>2, LeavesAside DEF AddInFlight
<1>2. ASSUME NEW p \in Pickers, GivesUp(p) \/ Release(p) PROVE Aside
  BY Zenon, <1>2, IdleOK, LeavesAside DEF GivesUp, Release
<1>3. ASSUME NEW p \in Pickers, NEW obs, NEW avg, RecordLatency(p, obs, avg) PROVE Aside
  <2>1. PICK l \in Local : l = pick[p]
    BY Zenon, Here
  <2>2. PICK m : m = [l EXCEPT !.pc = "closing"]
    BY Zenon
  <2>3. m.pc # "eligible"
    BY Zenon, <2>2 DEF Local
  <2> QED
    BY Zenon, <1>3, <2>1, <2>2, <2>3, LeavesAside DEF RecordLatency
<1>4. ASSUME NEW u, OtherEnds(u) PROVE Aside
  BY Zenon, <1>4 DEF OtherEnds, Aside
<1>5. ASSUME UNCHANGED pickVars PROVE Aside
  BY Zenon, <1>5 DEF pickVars, ghosts, Aside
<1> QED
  BY <1>1, <1>2, <1>3, <1>4, <1>5, PickStepIs, ZenonT(30) DEF PickNext

\* What there is of weighted round robin's credit.
CreditInv == Total(cw) = 0 /\ Owed(cw, Total(effective))

\* The weights of the candidates are some of the weights that count.
LEMMA CandidatesWeigh ==
  ASSUME PickInv, NEW S \in SUBSET Upstreams, \A u \in S : weight[u] > 0
  PROVE  /\ Total(Only(weight, S)) <= Total(effective) /\ Total(effective) \in Int
         /\ Total(Only(weight, S)) \in Int
<1>1. /\ weight \in [Upstreams -> Int] /\ effective \in [Upstreams -> Int]
      /\ \A u \in Upstreams : effective[u] = IF weight[u] > 0 THEN weight[u] ELSE 0
  BY Zenon, WeightsAre
<1>2. PICK g \in [Upstreams -> Int] :
        g = Only(weight, S) /\ \A u \in Upstreams : g[u] = IF u \in S THEN weight[u] ELSE 0
  BY <1>1, OnlyIs
<1>3. ASSUME NEW u \in Upstreams PROVE g[u] <= effective[u]
  <2>1. PICK w \in Int : w = weight[u]
    BY <1>1
  <2>2. PICK e \in Int : e = effective[u] /\ e = IF w > 0 THEN w ELSE 0
    BY Zenon, <1>1, <2>1
  <2>3. g[u] = (IF u \in S THEN w ELSE 0) /\ (u \in S => w > 0)
    BY Zenon, <1>2, <2>1
  <2> QED
    BY <2>2, <2>3
<1>4. Total(g) \in Int /\ Total(effective) \in Int /\ Total(g) <= Total(effective)
  BY Zenon, <1>1, <1>3, TotalOfLess
<1> QED
  BY Zenon, <1>2, <1>4

\* A part of the pool is no more than the pool.
LEMMA CountsWithin ==
  ASSUME NEW A \in SUBSET Upstreams
  PROVE  Count(A) \in Nat /\ Count(A) <= N
<1>1. PICK g \in [Upstreams -> Int] :
        g = Only(Even, A) /\ \A u \in Upstreams : g[u] = IF u \in A THEN Even[u] ELSE 0
  BY Counts, OnlyIs
<1>2. PICK h \in [Upstreams -> Int] :
        h = Only(Even, Upstreams) /\ \A u \in Upstreams : h[u] = Even[u]
  BY Counts, OnlyIs
<1>3. \A u \in Upstreams : g[u] <= h[u]
  BY <1>1, <1>2 DEF Even
<1>4. Total(g) <= Total(h)
  BY <1>3, TotalOfLess
<1> QED
  BY Zenon, <1>1, <1>2, <1>4, Counts DEF Count

\* A new selector has given no credit.
LEMMA CreditStarts ==
  ASSUME PickInit
  PROVE  CreditInv
<1>1. PICK x \in [Upstreams -> Int] : x = cw /\ \A u \in Upstreams : x[u] = 0
  BY DEF PickInit
<1>2. PickInv
  BY PickStarts
<1>3. N \in Nat \ {0} /\ 1 \in Upstreams
  BY SelectorAssumption DEF Upstreams
<1>4. Total(x) = 0
  BY <1>1, <1>3, TotalOfOne
<1>5. PICK W \in Nat : W = Total(effective)
  <2>1. {} \in SUBSET Upstreams /\ \A u \in {} : weight[u] > 0
    BY Zenon
  <2>2. weight \in [Upstreams -> Int]
    BY Zenon, <1>2, WeightsAre
  <2>3. Total(Only(weight, {})) = 0
    BY Zenon, <2>2, TotalOfPart
  <2> QED
    BY <1>2, <2>1, <2>3, CandidatesWeigh
<1>6. ASSUME NEW A \in SUBSET Upstreams
      PROVE  2 * Total(Only(x, A)) <= W * (Count(A) * (N - Count(A)))
  <2>1. PICK g \in [Upstreams -> Int] : g = Only(x, A) /\ \A u \in Upstreams : g[u] = 0
    BY <1>1, OnlyIs
  <2>2. Total(g) = 0
    BY <1>3, <2>1, TotalOfOne
  <2>3. Count(A) \in Nat /\ Count(A) <= N
    BY Zenon, CountsWithin
  <2>4. PICK c \in Nat, d \in Nat : c = Count(A) /\ d = N - Count(A)
    BY <1>3, <2>3
  <2>5. PICK cd \in Nat : cd = c * d
    OBVIOUS
  <2>6. PICK z \in Nat : z = W * cd
    OBVIOUS
  <2> QED
    BY <2>1, <2>2, <2>4, <2>5, <2>6
<1> QED
  BY <1>1, <1>4, <1>5, <1>6 DEF CreditInv, Owed

\* An election among any of the pool moves credit within the bounds and loses none.
LEMMA ElectionKeepsCredit ==
  ASSUME PickInv, CreditInv, NEW p \in Pickers, NEW S, NEW best, Chosen(p, S, best)
  PROVE  CreditInv'
<1>1. /\ S \in SUBSET Upstreams /\ best \in S /\ \A u \in S : weight[u] > 0
      /\ cw' \in [Upstreams -> Int] /\ Pays(cw', cw, weight, S, best)
  BY Zenon DEF Chosen
<1>2. cw \in [Upstreams -> Int] /\ weight \in [Upstreams -> Int]
  BY Zenon, WeightsAre DEF PickInv, PickTypeOK
<1>3. PICK W \in Int : W = Total(effective) /\ Total(Only(weight, S)) <= W
  BY <1>1, CandidatesWeigh
<1>4. effective' = effective
  BY Zenon DEF Chosen, config, effective
<1>5. Owed(cw', W)
  BY Zenon, <1>1, <1>2, <1>3, GreedyKeeps DEF CreditInv
<1>6. Total(cw') = 0
  <2>1. PICK all \in Int : all = Total(Only(weight, S))
    BY Zenon, <1>2, TotalOfPart
  <2>2. S \cap Upstreams = S /\ Upstreams \in SUBSET Upstreams /\ best \in Upstreams
    BY Zenon, <1>1
  <2>3. PICK x \in Int : x = Total(Only(cw, Upstreams)) /\ x = 0
    BY Zenon, <1>2, TotalOfPart DEF CreditInv
  <2>4. Total(Only(cw', Upstreams)) = x + all - all
    <3>1. Total(Only(cw', Upstreams))
            = Total(Only(cw, Upstreams)) + Total(Only(weight, S \cap Upstreams))
                       - (IF best \in Upstreams THEN Total(Only(weight, S)) ELSE 0)
      BY <1>1, <1>2, <2>2, PaidByPart
    <3>2. Total(Only(cw', Upstreams)) = x + all - (IF best \in Upstreams THEN all ELSE 0)
      BY Zenon, <2>1, <2>2, <2>3, <3>1
    <3> QED
      BY Zenon, <2>2, <3>2
  <2>5. Total(Only(cw', Upstreams)) = Total(cw')
    BY <1>1, TotalOfPart
  <2> QED
    BY <2>3, <2>4, <2>5
<1> QED
  BY <1>3, <1>4, <1>5, <1>6 DEF CreditInv

\* Every step keeps what there is of credit.
LEMMA CreditKeeps ==
  ASSUME PickInv, CreditInv, [PickNext]_pickVars
  PROVE  CreditInv'
<1>1. ASSUME NEW p \in Pickers, Elects(p) PROVE CreditInv'
  BY Zenon, <1>1, ElectionKeepsCredit DEF Elects
<1>2. ASSUME cw' = cw, weight' = weight PROVE CreditInv'
  BY <1>2 DEF CreditInv, effective
<1>3. Aside => cw' = cw /\ weight' = weight
  BY Zenon DEF Aside, config, selector
<1>4. ASSUME NEW p, RoundRobin(p) PROVE cw' = cw /\ weight' = weight
  BY <1>4 DEF RoundRobin, config
<1>5. ASSUME NEW p, NEW key, NEW list, eligibleSet(p, key, list)
      PROVE  cw' = cw /\ weight' = weight
  BY <1>5 DEF eligibleSet, config, selector
<1> QED
  BY <1>1, <1>2, <1>3, <1>4, <1>5, NextIs, Zenon

\* Weighted round robin (weighted.go) neither loses nor invents credit, for any pool, any weights
\* and any changes of eligibility between Picks: the current weights add up to zero, and
\* none is further from it than (N - 1) / 2 times the sum of the weights.
THEOREM CreditIsKept == PickSpec => []CreditIsConserved
<1>1. PickInv /\ CreditInv => CreditIsConserved
  <2> SUFFICES ASSUME PickInv, CreditInv PROVE CreditIsConserved
    BY Zenon
  <2>1. cw \in [Upstreams -> Int] /\ weight \in [Upstreams -> Int]
    BY WeightsAre DEF PickInv, PickTypeOK
  <2>2. PICK W \in Int : W = Total(effective)
    <3>1. {} \in SUBSET Upstreams /\ \A u \in {} : weight[u] > 0
      BY Zenon
    <3> QED
      BY Zenon, <3>1, CandidatesWeigh
  <2>3. \A u \in Upstreams : 2 * cw[u] <= (N - 1) * W /\ - ((N - 1) * W) <= 2 * cw[u]
    BY <2>1, <2>2, OwedToOne DEF CreditInv
  <2> QED
    BY <2>2, <2>3 DEF CreditIsConserved, CreditInv
<1>2. PickSpec => []CreditInv
  BY CreditStarts, CreditKeeps, PicksInvariant, PTL DEF PickSpec
<1> QED
  BY <1>1, <1>2, PicksInvariant, PTL

-----------------------------------------------------------------------------
\* Shares.

\* Round robin's round so far: the counter has passed these.
Passed(g, c) == \A u \in Upstreams : g[u] = IF 2 <= u /\ u <= (c % N) + 1 THEN 1 ELSE 0

\* Weighted round robin's round so far: the credit is what each is owed of it.
Rounds(g, x, e) ==
  LET picks == Total(g)
      total == Total(e)
  IN  total > 0 => /\ picks < total
                   /\ \A u \in Upstreams : x[u] = picks * e[u] - total * g[u] /\ - total < x[u]

ShareInv ==
  uniform => /\ \A p \in Pickers : pick[p].pc = "eligible" => Len(pick[p].list) = N
             /\ algorithm = "round-robin" => Passed(given, counter)
             /\ algorithm = "weighted-rr" => Rounds(given, cw, effective)

\* A list of the whole pool is the pool in its order.
LEMMA WholePool ==
  ASSUME NEW list \in Sublists, Len(list) = N
  PROVE  /\ \A k \in 1..N : list[k] = k
         /\ Range(list) = Upstreams
<1>1. N \in Nat \ {0} /\ Upstreams = 1..N
  BY Zenon, SelectorAssumption DEF Upstreams
<1>2. /\ \A k \in 1..N : list[k] \in 1..N
      /\ \A i, j \in 1..N : i < j => list[i] < list[j]
      /\ Range(list) = {list[k] : k \in 1..N}
  BY <1>1, ListIs
<1>3. \A k \in 1..N : list[k] >= k
  <2> DEFINE D == {k \in 0..N : k = 0 \/ list[k] >= k}
  <2>1. 0 \in D
    BY <1>1
  <2>2. ASSUME NEW k \in 1..N, k - 1 \in D PROVE k \in D
    <3>1. PICK v \in Int : v = list[k] /\ v >= 1
      BY <1>1, <1>2
    <3>2. CASE k = 1
      BY <3>1, <3>2
    <3>3. CASE k # 1
      <4>1. k - 1 \in 1..N /\ k - 1 < k
        BY <1>1, <3>3
      <4>2. PICK w \in Int : w = list[k - 1] /\ w >= k - 1 /\ w < v
        BY <1>1, <1>2, <2>2, <3>1, <4>1
      <4> QED
        BY <1>1, <3>1, <4>2
    <3> QED
      BY Zenon, <3>2, <3>3
  <2>3. \A k \in 0..N : k \in D
    <3> HIDE DEF D
    <3> QED
      BY <1>1, <2>1, <2>2, UpTo
  <2> QED
    BY <1>1, <2>3
<1>4. \A k \in 1..N : list[k] <= k
  <2> DEFINE D == {j \in 0..(N - 1) : list[N - j] <= N - j}
  <2>1. 0 \in D
    BY <1>1, <1>2
  <2>2. ASSUME NEW j \in 1..(N - 1), j - 1 \in D PROVE j \in D
    <3>1. PICK k \in 1..(N - 1) : k = N - j /\ N - (j - 1) = k + 1
      BY <1>1
    <3>2. PICK w \in Int : w = list[k + 1] /\ w <= k + 1
      BY <1>1, <1>2, <2>2, <3>1
    <3>3. PICK v \in Int : v = list[k] /\ v < w
      BY <1>1, <1>2, <3>1, <3>2
    <3> QED
      BY <1>1, <3>1, <3>2, <3>3
  <2>3. N - 1 \in Nat /\ \A j \in 1..(N - 1) : j - 1 \in D => j \in D
    BY <1>1, <2>2
  <2>4. \A j \in 0..(N - 1) : j \in D
    <3> HIDE DEF D
    <3> QED
      BY Zenon, <2>1, <2>3, UpTo
  <2>5. ASSUME NEW k \in 1..N PROVE list[k] <= k
    <3>1. N - k \in 0..(N - 1) /\ N - (N - k) = k
      BY <1>1
    <3> QED
      BY <2>4, <3>1
  <2> QED
    BY <2>5
<1>5. \A k \in 1..N : list[k] = k
  <2> TAKE k \in 1..N
  <2>1. PICK v \in Int : v = list[k] /\ v >= k /\ v <= k
    BY <1>1, <1>2, <1>3, <1>4
  <2> QED
    BY <1>1, <2>1
<1> QED
  BY <1>1, <1>2, <1>5

Divided(k, n, q, r) == k = n * q + r

\* There is one remainder.
LEMMA RemainderIs ==
  ASSUME NEW n \in Nat \ {0}, NEW q \in Nat, NEW r \in 0..(n - 1), NEW k \in Nat,
         Divided(k, n, q, r)
  PROVE  k % n = r
<1>1. PICK p \in Nat, s \in 0..(n - 1) : k = n * p + s /\ s = k % n
  <2>1. k = n * (k \div n) + (k % n) /\ k \div n \in Nat /\ k % n \in 0..(n - 1)
    OBVIOUS
  <2> QED
    BY <2>1
<1>2. ASSUME NEW a \in Nat, NEW b \in Nat, a < b PROVE n * a + n <= n * b
  <2>1. PICK d \in Nat : b = a + 1 + d
    BY <1>2
  <2>2. n * b = n * a + n + n * d
    BY <2>1
  <2>3. n * d \in Nat /\ n * a \in Nat
    OBVIOUS
  <2> QED
    BY <2>2, <2>3
<1>3. PICK x \in Nat, y \in Nat : x = n * p /\ y = n * q
  OBVIOUS
<1>4. x + s = y + r
  BY Zenon, <1>1, <1>3 DEF Divided
<1>5. ~ (p < q) /\ ~ (q < p)
  BY <1>2, <1>3, <1>4
<1>6. x = y
  BY <1>3, <1>5
<1> QED
  BY <1>1, <1>4, <1>6

\* Where the counter is in its round, after it has gone on or around.
LEMMA SuccessorOf ==
  ASSUME NEW n \in Nat \ {0}, NEW k \in Nat
  PROVE  /\ k % n \in 0..(n - 1)
         /\ (k + 1) % n = IF (k % n) + 1 = n THEN 0 ELSE (k % n) + 1
<1>1. PICK q \in Nat, r \in 0..(n - 1) : k = n * q + r /\ r = k % n
  <2>1. k = n * (k \div n) + (k % n) /\ k \div n \in Nat /\ k % n \in 0..(n - 1)
    OBVIOUS
  <2> QED
    BY Zenon, <2>1
<1>2. CASE r + 1 # n
  <2>1. k + 1 = n * q + (r + 1) /\ r + 1 \in 0..(n - 1)
    BY <1>1, <1>2
  <2>2. (k + 1) % n = r + 1
    <3>1. PICK j \in Nat, s \in 0..(n - 1) : j = k + 1 /\ s = r + 1 /\ j = n * q + s
      BY <2>1
    <3>2. Divided(j, n, q, s)
      BY <3>1, Zenon DEF Divided
    <3>3. j % n = s
      BY Zenon, <3>2, RemainderIs
    <3> QED
      BY <3>1, <3>3
  <2> QED
    BY <1>1, <1>2, <2>2
<1>3. CASE r + 1 = n
  <2>1. n * (q + 1) = n * q + n
    OBVIOUS
  <2>2. k + 1 = n * (q + 1) + 0 /\ 0 \in 0..(n - 1) /\ q + 1 \in Nat
    <3>1. PICK x \in Nat : x = n * q
      OBVIOUS
    <3> QED
      BY <1>1, <1>3, <2>1, <3>1
  <2>3. (k + 1) % n = 0
    <3>1. PICK j \in Nat : j = k + 1
      OBVIOUS
    <3>2. PICK t \in Nat : t = q + 1
      OBVIOUS
    <3>3. PICK s \in 0..(n - 1) : s = 0
      OBVIOUS
    <3>4. Divided(j, n, t, s)
      BY <2>2, <3>1, <3>2, <3>3, ZenonT(30) DEF Divided
    <3>5. j % n = s
      BY Zenon, <3>4, RemainderIs
    <3> QED
      BY <3>1, <3>3, <3>5
  <2> QED
    BY <1>1, <1>3, <2>3
<1> QED
  BY <1>2, <1>3

\* The counter, one Add further, is at the next upstream: it wraps where a round ends.
LEMMA CounterGoesRound ==
  ASSUME NEW c \in 0..(CounterPeriod - 1), NEW next, next = (c + 1) % CounterPeriod
  PROVE  /\ c % N \in 0..(N - 1) /\ next \in Nat
         /\ next % N = IF (c % N) + 1 = N THEN 0 ELSE (c % N) + 1
<1>1. N \in Nat \ {0} /\ CounterPeriod \in Nat \ {0} /\ c \in Nat /\ CounterPeriod % N = 0
  BY SelectorAssumption DEF Upstreams
<1>2. /\ c % N \in 0..(N - 1)
      /\ (c + 1) % N = IF (c % N) + 1 = N THEN 0 ELSE (c % N) + 1
  BY Zenon, <1>1, SuccessorOf
<1>3. CASE c + 1 = CounterPeriod
  <2>1. PICK z \in {0} : z = 0
    OBVIOUS
  <2>2. next = 0 /\ z % N = 0
    BY <1>1, <1>3, <2>1
  <2>3. (c % N) + 1 = N
    BY <1>1, <1>2, <1>3
  <2> QED
    BY <1>2, <2>1, <2>2, <2>3
<1>4. CASE c + 1 # CounterPeriod
  <2>1. c + 1 \in 0..(CounterPeriod - 1)
    BY <1>1, <1>4
  <2>2. next = c + 1
    BY Zenon, <1>1, <2>1, ModIs
  <2> QED
    BY <1>1, <1>2, <2>2
<1> QED
  BY <1>3, <1>4

\* The Pick that is counted, within the round or as its last.
LEMMA GivesIs ==
  ASSUME given \in [Upstreams -> Nat], uniform, NEW u \in Upstreams,
         NEW share \in [Upstreams -> Nat], Gives(u, share)
  PROVE  \E g \in [Upstreams -> Nat] :
           /\ \A v \in Upstreams : g[v] = given[v] + (IF v = u THEN 1 ELSE 0)
           /\ \/ /\ \A v \in Upstreams : g[v] >= share[v]
                 /\ \A v \in Upstreams : given'[v] = g[v] - share[v]
              \/ /\ ~ \A v \in Upstreams : g[v] >= share[v]
                 /\ given' = g
<1>1. given[u] + 1 \in Nat
  OBVIOUS
<1>2. PICK g \in [Upstreams -> Nat] : g = [given EXCEPT ![u] = @ + 1]
  BY Zenon, <1>1
<1>3. \A v \in Upstreams : g[v] = given[v] + (IF v = u THEN 1 ELSE 0)
  BY <1>2
<1>4. given' = [v \in Upstreams |-> IF ~ uniform THEN 0
                                    ELSE IF \A x \in Upstreams : g[x] >= share[x]
                                           THEN g[v] - share[v] ELSE g[v]]
  BY Zenon, <1>2 DEF Gives
<1>5. CASE \A x \in Upstreams : g[x] >= share[x]
  BY Zenon, <1>3, <1>4, <1>5
<1>6. CASE ~ \A x \in Upstreams : g[x] >= share[x]
  <2>1. given' = [v \in Upstreams |-> g[v]]
    BY Zenon, <1>4, <1>6
  <2>2. given' = g
    BY Zenon, <2>1
  <2> QED
    BY Zenon, <1>3, <1>6, <2>2
<1> QED
  BY <1>5, <1>6

\* Plain round robin goes on to the next, and a round ends with the first upstream.
LEMMA RoundRobinPasses ==
  ASSUME PickInv, uniform, NEW p \in Pickers, RoundRobin(p), Len(pick[p].list) = N,
         Passed(given, counter)
  PROVE  Passed(given', counter')
<1>1. N \in Nat \ {0} /\ Upstreams = 1..N /\ 1 \in Upstreams
  BY SelectorAssumption DEF Upstreams
<1>2. PICK list \in Sublists : list = pick[p].list
  BY Zenon, Here
<1>3. \A k \in 1..N : list[k] = k
  BY <1>2, WholePool
<1>4. PICK next : next = (counter + 1) % CounterPeriod /\ counter' = next
  BY Zenon DEF RoundRobin
<1>5. counter \in 0..(CounterPeriod - 1) /\ given \in [Upstreams -> Nat]
  BY Zenon DEF PickInv, PickTypeOK
<1>6. PICK c \in 0..(N - 1) : c = counter % N /\ next % N = IF c + 1 = N THEN 0 ELSE c + 1
  BY Zenon, <1>4, <1>5, CounterGoesRound
<1>7. PICK d \in 0..(N - 1) : d = next % N /\ d = IF c + 1 = N THEN 0 ELSE c + 1
  BY <1>1, <1>6
<1>8. PICK u \in Upstreams : u = d + 1 /\ u = list[d + 1]
  BY <1>1, <1>3, <1>7
<1>9. PICK one \in [Upstreams -> Nat] :
        one = [v \in Upstreams |-> 1] /\ \A v \in Upstreams : one[v] = 1
  <2>1. [v \in Upstreams |-> 1] \in [Upstreams -> Nat]
    OBVIOUS
  <2> QED
    BY Zenon, <2>1
<1>10. Gives(u, one)
  BY Zenon, <1>2, <1>4, <1>7, <1>8, <1>9 DEF RoundRobin
<1>11. PICK g \in [Upstreams -> Nat] :
         /\ \A v \in Upstreams : g[v] = given[v] + (IF v = u THEN 1 ELSE 0)
         /\ \/ /\ \A v \in Upstreams : g[v] >= one[v]
               /\ \A v \in Upstreams : given'[v] = g[v] - one[v]
            \/ /\ ~ \A v \in Upstreams : g[v] >= one[v]
               /\ given' = g
  BY <1>5, <1>10, GivesIs, Zenon
<1>12. \A v \in Upstreams : given[v] = IF 2 <= v /\ v <= c + 1 THEN 1 ELSE 0
  BY Zenon, <1>6 DEF Passed
<1>13. \A v \in Upstreams :
         g[v] = (IF 2 <= v /\ v <= c + 1 THEN 1 ELSE 0) + (IF v = u THEN 1 ELSE 0)
  BY Zenon, <1>11, <1>12
<1>14. CASE c + 1 = N
  <2>1. ASSUME NEW v \in Upstreams PROVE g[v] = 1
    <3>1. v \in 1..N /\ u = 1 /\ c + 1 = N
      BY <1>1, <1>7, <1>8, <1>14
    <3>2. g[v] = (IF 2 <= v /\ v <= c + 1 THEN 1 ELSE 0) + (IF v = u THEN 1 ELSE 0)
      BY Zenon, <1>13
    <3> QED
      BY <1>1, <3>1, <3>2
  <2>2. \A v \in Upstreams : given'[v] = 0
    BY <1>9, <1>11, <2>1
  <2>3. d = 0
    BY <1>7, <1>14
  <2> QED
    BY <1>1, <1>4, <1>7, <2>2, <2>3 DEF Passed
<1>15. CASE c + 1 # N
  <2>1. u = c + 2 /\ d = c + 1
    BY <1>1, <1>7, <1>8, <1>15
  <2>2. g[1] = 0
    BY <1>1, <1>13, <2>1
  <2>3. given' = g
    BY <1>1, <1>9, <1>11, <2>2
  <2>4. ASSUME NEW v \in Upstreams PROVE g[v] = IF 2 <= v /\ v <= d + 1 THEN 1 ELSE 0
    <3>1. v \in 1..N /\ c \in Nat
      BY <1>1
    <3>2. g[v] = (IF 2 <= v /\ v <= c + 1 THEN 1 ELSE 0) + (IF v = u THEN 1 ELSE 0)
      BY <1>13
    <3> QED
      BY <1>1, <2>1, <3>1, <3>2
  <2> QED
    BY <1>4, <1>7, <2>3, <2>4 DEF Passed
<1> QED
  BY Zenon, <1>14, <1>15

\* No number of several that are not negative is more than their sum.
LEMMA OneOfTotal ==
  ASSUME NEW f \in [Upstreams -> Int], \A v \in Upstreams : f[v] >= 0, NEW u \in Upstreams
  PROVE  f[u] <= Total(f) /\ Total(f) \in Int
<1>1. PICK g \in [Upstreams -> Int] :
        g = Only(f, {u}) /\ \A v \in Upstreams : g[v] = IF v \in {u} THEN f[v] ELSE 0
  BY OnlyIs
<1>2. \A v \in Upstreams : g[v] <= f[v]
  BY <1>1
<1>3. Total(g) <= Total(f)
  BY Zenon, <1>2, TotalOfLess
<1>4. Total(g) = f[u] /\ Total(f) \in Int
  BY Zenon, <1>1, TotalOfPart
<1> QED
  BY <1>3, <1>4

\* What is nowhere less, and not more in all, is the same.
LEMMA SameTotal ==
  ASSUME NEW f \in [Upstreams -> Int], NEW g \in [Upstreams -> Int],
         \A u \in Upstreams : f[u] <= g[u], Total(g) <= Total(f)
  PROVE  \A u \in Upstreams : f[u] = g[u]
<1>1. PICK d \in [Upstreams -> Int] : d = [u \in Upstreams |-> g[u] - f[u]]
  <2>1. [u \in Upstreams |-> g[u] - f[u]] \in [Upstreams -> Int]
    OBVIOUS
  <2> QED
    BY Zenon, <2>1
<1>2. \A u \in Upstreams : g[u] = f[u] + d[u] /\ d[u] >= 0
  BY <1>1
<1>3. PICK F \in Int, G \in Int, D \in Int : /\ F = Total(f) /\ G = Total(g) /\ D = Total(d)
                                             /\ G = F + D
  BY <1>2, TotalOfSum
<1>4. D <= 0
  BY <1>3
<1>5. ASSUME NEW u \in Upstreams PROVE f[u] = g[u]
  <2>1. d[u] <= D
    BY Zenon, <1>2, <1>3, OneOfTotal
  <2> QED
    BY <1>2, <1>3, <1>4, <2>1
<1> QED
  BY <1>5

\* Nothing adds up to nothing.
LEMMA TotalOfNone ==
  ASSUME NEW f \in [Upstreams -> Int], \A u \in Upstreams : f[u] = 0
  PROVE  Total(f) = 0
<1>1. 1 \in Upstreams
  BY SelectorAssumption DEF Upstreams
<1> QED
  BY Zenon, <1>1, TotalOfOne

\* What an election among the whole pool does: each gains its weight, and the
\* one with most credit pays the sum of the weights.
Elected(b) ==
  /\ b \in Upstreams /\ effective[b] > 0
  /\ \A u \in Upstreams :
       cw'[u] = cw[u] + effective[u] - (IF u = b THEN Total(effective) ELSE 0)
  /\ \A u \in Upstreams : effective[u] > 0 => cw[u] + effective[u] <= cw[b] + effective[b]

\* With the whole pool on the list, the candidates are those whose weight counts.
LEMMA WholeElection ==
  ASSUME PickInv, NEW p \in Pickers, NEW S, NEW b, Chosen(p, S, b), Len(pick[p].list) = N
  PROVE  Elected(b)
<1>1. PICK list \in Sublists : list = pick[p].list
  BY Zenon, Here
<1>2. Range(list) = Upstreams
  BY <1>1, WholePool
<1>3. S = {u \in Upstreams : weight[u] > 0} /\ b \in S
  BY Zenon, <1>1, <1>2 DEF Chosen
<1>4. /\ weight \in [Upstreams -> Int] /\ effective \in [Upstreams -> Int]
      /\ \A u \in Upstreams : effective[u] = IF weight[u] > 0 THEN weight[u] ELSE 0
  BY Zenon, WeightsAre
<1>5. Only(weight, S) = effective
  BY <1>3 DEF Only, effective
<1>6. \A u \in Upstreams :
        cw'[u] = cw[u] + effective[u] - (IF u = b THEN Total(effective) ELSE 0)
  BY Zenon, <1>5 DEF Chosen, Pays
<1>7. \A u \in S : cw[u] + weight[u] <= cw[b] + weight[b]
  BY Zenon DEF Chosen
<1>8. \A u \in S : u \in Upstreams /\ effective[u] = weight[u] /\ effective[u] > 0
  BY Zenon, <1>3, <1>4
<1>9. \A u \in Upstreams : effective[u] > 0 => u \in S
  BY <1>3, <1>4
<1>10. \A u \in Upstreams : effective[u] > 0 => cw[u] + effective[u] <= cw[b] + effective[b]
  BY <1>3, <1>7, <1>8, <1>9, Zenon
<1>11. b \in Upstreams /\ effective[b] > 0
  BY <1>3, <1>8, Zenon
<1> QED
  BY Zenon, <1>6, <1>10, <1>11 DEF Elected

\* The one that pays had some credit: all there was of it added up to the sum.
LEMMA WinnerHasCredit ==
  ASSUME NEW x \in [Upstreams -> Int], NEW e \in [Upstreams -> Nat], NEW b \in Upstreams,
         Total(x) = 0, e[b] > 0, \A u \in Upstreams : e[u] > 0 => x[u] + e[u] <= x[b] + e[b],
         \A u \in Upstreams : e[u] = 0 => x[u] <= 0
  PROVE  x[b] + e[b] > 0 /\ Total(e) > 0 /\ Total(e) \in Int
<1>1. e \in [Upstreams -> Int] /\ \A v \in Upstreams : e[v] >= 0
  OBVIOUS
<1>2. PICK T \in Int : T = Total(e) /\ T > 0
  BY <1>1, OneOfTotal
<1>3. [u \in Upstreams |-> x[u] + e[u]] \in [Upstreams -> Int]
  BY <1>1
<1>4. PICK h \in [Upstreams -> Int] : h = [u \in Upstreams |-> x[u] + e[u]]
  BY Zenon, <1>3
<1>5. \A u \in Upstreams : h[u] = x[u] + e[u]
  BY Zenon, <1>4
<1>6. Total(h) = T
  BY <1>1, <1>2, <1>5, TotalOfSum
<1>7. ASSUME ~ (x[b] + e[b] > 0) PROVE FALSE
  <2>1. [u \in Upstreams |-> 0] \in [Upstreams -> Int]
    OBVIOUS
  <2>2. PICK z \in [Upstreams -> Int] : \A u \in Upstreams : z[u] = 0
    BY Zenon, <2>1
  <2>3. ASSUME NEW u \in Upstreams PROVE h[u] <= z[u]
    <3>1. PICK xu \in Int, eu \in Nat : xu = x[u] /\ eu = e[u]
      BY Zenon
    <3>2. PICK m \in Int : m = x[b] + e[b] /\ m <= 0
      BY <1>1, <1>7
    <3>3. eu > 0 => xu + eu <= m
      BY <3>1, <3>2
    <3>4. eu = 0 => xu <= 0
      BY Zenon, <3>1
    <3>5. h[u] = xu + eu /\ z[u] = 0
      BY Zenon, <1>5, <2>2, <3>1
    <3> QED
      BY <3>2, <3>3, <3>4, <3>5
  <2>4. Total(h) <= Total(z) /\ Total(z) = 0
    BY <2>2, <2>3, TotalOfLess, TotalOfNone
  <2> QED
    BY <1>2, <1>6, <2>4
<1> QED
  BY Zenon, <1>2, <1>7

\* One more.
LEMMA OneMore ==
  ASSUME NEW f \in [Upstreams -> Int], NEW g \in [Upstreams -> Int], NEW b \in Upstreams,
         \A u \in Upstreams : g[u] = f[u] + (IF u = b THEN 1 ELSE 0)
  PROVE  Total(g) = Total(f) + 1 /\ Total(f) \in Int
<1>1. [u \in Upstreams |-> IF u = b THEN 1 ELSE 0] \in [Upstreams -> Int]
  OBVIOUS
<1>2. PICK h \in [Upstreams -> Int] : \A u \in Upstreams : h[u] = IF u = b THEN 1 ELSE 0
  BY Zenon, <1>1
<1>3. Total(h) = 1
  BY <1>2, TotalOfOne
<1>4. \A u \in Upstreams : g[u] = f[u] + h[u]
  BY Zenon, <1>2
<1> QED
  BY <1>3, <1>4, TotalOfSum

\* Credit is what is due, one Pick further.
LEMMA DueGoesOn ==
  ASSUME NEW P \in Int, NEW T \in Int, NEW e \in Int, NEW g \in Int, NEW x \in Int, NEW y \in Int,
         NEW one \in {0, 1}, x = P * e - T * g, y = x + e - one * T
  PROVE  y = (P + 1) * e - T * (g + one)
<1>1. PICK pe \in Int, tg \in Int : pe = P * e /\ tg = T * g
  OBVIOUS
<1>2. (P + 1) * e = pe + e
  BY <1>1
<1>3. T * (g + one) = tg + one * T
  BY <1>1
<1> QED
  BY <1>1, <1>2, <1>3

\* One Pick: b has had g's, each has gained its weight, b has paid, and was first.
Turn(g, given0, y, x, e, b) ==
  /\ \A u \in Upstreams : g[u] = given0[u] + (IF u = b THEN 1 ELSE 0)
  /\ \A u \in Upstreams : y[u] = x[u] + e[u] - (IF u = b THEN Total(e) ELSE 0)
  /\ \A u \in Upstreams : e[u] > 0 => x[u] + e[u] <= x[b] + e[b]

\* With Q Picks of a round of T, the credit y is what each is owed.
Due(y, g, e, T, Q) ==
  /\ T = Total(e) /\ Q = Total(g) /\ T > 0 /\ Q <= T
  /\ \A u \in Upstreams : y[u] = Q * e[u] - T * g[u] /\ - T < y[u]

\* The credit of each, and the Picks of the round, one Pick further.
LEMMA RoundGoesOn ==
  ASSUME NEW e \in [Upstreams -> Nat], NEW given0 \in [Upstreams -> Nat],
         NEW g \in [Upstreams -> Nat], NEW x \in [Upstreams -> Int],
         NEW y \in [Upstreams -> Int], NEW b \in Upstreams, e[b] > 0, Total(x) = 0,
         Rounds(given0, x, e), Turn(g, given0, y, x, e, b)
  PROVE  \E T \in Nat, Q \in Nat : Due(y, g, e, T, Q)
<1>1. /\ e \in [Upstreams -> Int] /\ g \in [Upstreams -> Int] /\ given0 \in [Upstreams -> Int]
      /\ \A v \in Upstreams : e[v] >= 0 /\ given0[v] >= 0
  OBVIOUS
<1>2. PICK T \in Nat : T = Total(e) /\ T > 0
  BY <1>1, OneOfTotal
<1>3. PICK P \in Nat : P = Total(given0)
  BY <1>1, OneOfTotal
<1>4. P < T /\ \A u \in Upstreams : x[u] = P * e[u] - T * given0[u] /\ - T < x[u]
  BY <1>2, <1>3 DEF Rounds
<1>5. Total(g) = P + 1
  BY Zenon, <1>1, <1>3, OneMore DEF Turn
<1>6. \A u \in Upstreams : e[u] = 0 => x[u] <= 0
  <2> SUFFICES ASSUME NEW u \in Upstreams, e[u] = 0 PROVE x[u] <= 0
    BY Zenon
  <2>1. PICK n \in Nat : n = given0[u]
    BY Zenon
  <2>2. x[u] = P * 0 - T * n /\ T * n \in Nat
    BY <1>4, <2>1
  <2> QED
    BY <2>2
<1>7. x[b] + e[b] > 0
  BY Zenon, <1>6, WinnerHasCredit DEF Turn
<1>8. ASSUME NEW u \in Upstreams PROVE y[u] = (P + 1) * e[u] - T * g[u]
  <2>1. PICK one \in {0, 1} : one = IF u = b THEN 1 ELSE 0
    BY Zenon
  <2>2. PICK xu \in Int, yu \in Int, eu \in Int, gu \in Int :
          xu = x[u] /\ yu = y[u] /\ eu = e[u] /\ gu = given0[u]
    BY Zenon, <1>1
  <2>3. xu = P * eu - T * gu
    BY Zenon, <1>4, <2>2
  <2>4. yu = xu + eu - one * T
    BY <1>2, <2>1, <2>2 DEF Turn
  <2>5. yu = (P + 1) * eu - T * (gu + one)
    BY <2>3, <2>4, DueGoesOn
  <2> QED
    BY Zenon, <2>1, <2>2, <2>5 DEF Turn
<1>9. ASSUME NEW u \in Upstreams PROVE - T < y[u]
  <2>1. PICK xu \in Int, yu \in Int, eu \in Nat : xu = x[u] /\ yu = y[u] /\ eu = e[u]
    BY Zenon
  <2>2. yu = xu + eu - (IF u = b THEN T ELSE 0) /\ - T < xu
    BY <1>2, <1>4, <2>1 DEF Turn
  <2>3. u = b => xu + eu > 0
    BY <1>7, <2>1
  <2> QED
    BY <1>2, <2>1, <2>2, <2>3
<1>10. PICK Q \in Nat : Q = P + 1
  OBVIOUS
<1>11. Due(y, g, e, T, Q)
  BY <1>2, <1>4, <1>5, <1>8, <1>9, <1>10 DEF Due
<1> QED
  BY Zenon, <1>11

\* At the end of the round each has had its weight.
LEMMA RoundIsWhole ==
  ASSUME NEW e \in [Upstreams -> Nat], NEW g \in [Upstreams -> Nat],
         NEW y \in [Upstreams -> Int], NEW T \in Nat, Due(y, g, e, T, T)
  PROVE  \A u \in Upstreams : g[u] = e[u]
<1>1. ASSUME NEW u \in Upstreams PROVE g[u] <= e[u]
  <2>1. PICK eu \in Nat, gu \in Nat : eu = e[u] /\ gu = g[u]
    BY Zenon
  <2>2. - T < T * eu - T * gu
    BY Zenon, <2>1 DEF Due
  <2>3. ASSUME gu > eu PROVE FALSE
    <3>1. PICK d \in Nat : gu = eu + 1 + d
      BY <2>3
    <3>2. T * gu = T * eu + T + T * d
      BY <3>1
    <3>3. PICK te \in Nat, td \in Nat : te = T * eu /\ td = T * d
      OBVIOUS
    <3>4. PICK tg \in Nat : tg = T * gu
      OBVIOUS
    <3> QED
      BY <2>2, <3>2, <3>3, <3>4
  <2> QED
    BY <2>1, <2>3
<1>2. e \in [Upstreams -> Int] /\ g \in [Upstreams -> Int]
  OBVIOUS
<1>3. Total(e) <= Total(g)
  BY Zenon DEF Due
<1> QED
  BY <1>1, <1>2, <1>3, SameTotal, ZenonT(30)

\* An election among the whole pool: within the round or as its last, the credit stays
\* what each is owed.
LEMMA ElectionShares ==
  ASSUME PickInv, CreditInv, uniform, NEW p \in Pickers, NEW S, NEW b, Chosen(p, S, b),
         Len(pick[p].list) = N, Rounds(given, cw, effective)
  PROVE  Rounds(given', cw', effective)
<1>1. Elected(b)
  BY Zenon, WholeElection
<1>2. PICK e \in [Upstreams -> Nat] : e = effective
  BY WeightsAre
<1>3. given \in [Upstreams -> Nat] /\ cw \in [Upstreams -> Int] /\ cw' \in [Upstreams -> Int]
  BY Zenon DEF PickInv, PickTypeOK, Chosen
<1>4. /\ b \in Upstreams /\ e[b] > 0
      /\ \A u \in Upstreams : cw'[u] = cw[u] + e[u] - (IF u = b THEN Total(e) ELSE 0)
      /\ \A u \in Upstreams : e[u] > 0 => cw[u] + e[u] <= cw[b] + e[b]
  BY Zenon, <1>1, <1>2 DEF Elected
<1>5. Gives(b, e)
  BY Zenon, <1>2 DEF Chosen
<1>6. PICK g \in [Upstreams -> Nat] :
        /\ \A v \in Upstreams : g[v] = given[v] + (IF v = b THEN 1 ELSE 0)
        /\ \/ /\ \A v \in Upstreams : g[v] >= e[v]
              /\ \A v \in Upstreams : given'[v] = g[v] - e[v]
           \/ /\ ~ \A v \in Upstreams : g[v] >= e[v]
              /\ given' = g
  BY <1>3, <1>4, <1>5, GivesIs, Zenon
<1>7. PICK y \in [Upstreams -> Int], x \in [Upstreams -> Int] : y = cw' /\ x = cw
  BY <1>3
<1>8. PICK T \in Nat, Q \in Nat : Due(y, g, e, T, Q)
  <2>1. Total(x) = 0 /\ Rounds(given, x, e)
    BY Zenon, <1>2, <1>7 DEF CreditInv
  <2>2. Turn(g, given, y, x, e, b)
    BY ZenonT(30), <1>4, <1>6, <1>7 DEF Turn
  <2> QED
    BY Zenon, <1>3, <1>4, <2>1, <2>2, RoundGoesOn
<1>9. CASE Q = T
  <2>1. \A u \in Upstreams : g[u] = e[u]
    BY Zenon, <1>8, <1>9, RoundIsWhole
  <2>2. \A u \in Upstreams : given'[u] = 0
    BY <1>6, <2>1
  <2>3. given' \in [Upstreams -> Nat]
    BY <1>2, <1>3, <1>4, <1>5, GivesCounts
  <2>4. Total(given') = 0
    <3>1. given' \in [Upstreams -> Int]
      BY <2>3
    <3> QED
      BY Zenon, <2>2, <3>1, TotalOfNone
  <2>5. ASSUME NEW u \in Upstreams PROVE y[u] = 0 * e[u] - T * given'[u] /\ - T < y[u]
    <3>1. PICK eu \in Nat, yu \in Int : eu = e[u] /\ yu = y[u] /\ - T < yu
      BY Zenon, <1>8 DEF Due
    <3>2. PICK te \in Nat : te = T * eu
      OBVIOUS
    <3>3. yu = te - te
      BY <1>8, <1>9, <2>1, <3>1, <3>2 DEF Due
    <3>4. 0 * eu = 0 /\ T * 0 = 0
      OBVIOUS
    <3> QED
      BY <2>2, <3>1, <3>3, <3>4
  <2> QED
    BY <1>2, <1>7, <1>8, <2>4, <2>5 DEF Rounds, Due
<1>10. CASE Q # T
  <2>1. Q < T
    BY <1>8, <1>10 DEF Due
  <2>2. given' = g
    <3>1. ASSUME \A v \in Upstreams : g[v] >= e[v] PROVE FALSE
      <4>1. e \in [Upstreams -> Int] /\ g \in [Upstreams -> Int]
        OBVIOUS
      <4>2. \A v \in Upstreams : e[v] <= g[v]
        BY <3>1
      <4>3. Total(e) <= Total(g)
        BY Zenon, <4>1, <4>2, TotalOfLess
      <4> QED
        BY <1>8, <2>1, <4>3 DEF Due
    <3> QED
      BY Zenon, <1>6, <3>1
  <2> QED
    BY <1>2, <1>7, <1>8, <2>1, <2>2 DEF Rounds, Due
<1> QED
  BY Zenon, <1>9, <1>10

\* A new round.
LEMMA ShareStarts ==
  ASSUME PickInit
  PROVE  ShareInv
<1>1. PickInv
  BY Zenon, PickStarts
<1>2. N \in Nat \ {0} /\ Upstreams = 1..N
  BY Zenon, SelectorAssumption DEF Upstreams
<1>3. \A p \in Pickers : pick[p].pc # "eligible"
  BY Zenon, IdleOK DEF PickInit
<1>4. given \in [Upstreams -> Nat] /\ cw \in [Upstreams -> Int]
  BY Zenon, <1>1 DEF PickInv, PickTypeOK
<1>5. counter = 0 /\ \A u \in Upstreams : given[u] = 0 /\ cw[u] = 0
  BY Zenon DEF PickInit
<1>6. Passed(given, counter)
  <2>1. PICK z \in 0..(N - 1) : z = counter
    BY <1>2, <1>5
  <2>2. counter % N = 0
    BY <1>2, <1>5, <2>1, ModIs
  <2>3. \A u \in Upstreams : ~ (2 <= u /\ u <= 0 + 1)
    BY <1>2
  <2> QED
    BY <1>5, <2>2, <2>3 DEF Passed
<1>7. Rounds(given, cw, effective)
  <2>1. PICK e \in [Upstreams -> Nat] : e = effective
    BY Zenon, <1>1, WeightsAre
  <2>2. Total(given) = 0
    BY <1>4, <1>5, TotalOfNone
  <2>3. e \in [Upstreams -> Int]
    OBVIOUS
  <2>4. PICK T \in Int : T = Total(e)
    BY Zenon, <2>3, TotalOfPart
  <2>5. T > 0 => \A u \in Upstreams : cw[u] = 0 * e[u] - T * given[u] /\ - T < cw[u]
    BY <1>5
  <2> QED
    BY Zenon, <2>1, <2>2, <2>4, <2>5 DEF Rounds
<1> QED
  BY <1>3, <1>6, <1>7 DEF ShareInv

\* Steps of which the shares know nothing.
LEMMA AsideShares ==
  ASSUME ShareInv, Aside
  PROVE  ShareInv'
<1>1. /\ uniform' = uniform /\ algorithm' = algorithm /\ given' = given /\ counter' = counter
      /\ cw' = cw /\ weight' = weight
  BY DEF Aside, config, selector
<1>2. effective' = effective
  BY <1>1 DEF effective
<1>3. uniform => \A q \in Pickers : pick'[q].pc = "eligible" => Len(pick'[q].list) = N
  BY Zenon DEF ShareInv, Aside
<1> QED
  BY Zenon, <1>1, <1>2, <1>3 DEF ShareInv, Passed, Rounds

\* A new Pick either has the whole pool or ends the count.
LEMMA NewPickShares ==
  ASSUME PickInv, ShareInv, NEW p \in Pickers, NEW key \in RequestKeys, NEW list \in Sublists,
         eligibleSet(p, key, list)
  PROVE  ShareInv'
<1> SUFFICES ASSUME uniform'
             PROVE  /\ \A q \in Pickers : pick'[q].pc = "eligible" => Len(pick'[q].list) = N
                    /\ algorithm' = "round-robin" => Passed(given', counter')
                    /\ algorithm' = "weighted-rr" => Rounds(given', cw', effective')
  BY Zenon DEF ShareInv, Passed, Rounds
<1>1. uniform /\ Len(list) = N
  BY Zenon DEF eligibleSet
<1>2. /\ algorithm' = algorithm /\ counter' = counter /\ cw' = cw /\ weight' = weight
  BY Zenon DEF eligibleSet, config, selector
<1>3. effective' = effective
  BY Zenon, <1>2 DEF effective
<1>4. given' = given
  <2>1. given' = [u \in Upstreams |-> IF uniform' THEN given[u] ELSE 0]
    BY ZenonT(30) DEF eligibleSet
  <2>2. given' = [u \in Upstreams |-> given[u]]
    BY <2>1
  <2> QED
    BY <2>2 DEF PickInv, PickTypeOK
<1>5. PICK m : m = [Idle EXCEPT !.pc = "eligible", !.key = key, !.list = list]
  OBVIOUS
<1>6. m.list = list
  BY Zenon, <1>5 DEF Idle
<1>7. pick' = [pick EXCEPT ![p] = m] /\ pick \in [Pickers -> Local]
  BY Zenon, <1>5 DEF eligibleSet, PickInv, PickTypeOK
<1>8. pick'[p] = m /\ \A q \in Pickers : q # p => pick'[q] = pick[q]
  BY <1>7
<1>9. \A q \in Pickers : pick'[q].pc = "eligible" => Len(pick'[q].list) = N
  BY Zenon, <1>1, <1>6, <1>8 DEF ShareInv
<1> QED
  BY Zenon, <1>1, <1>2, <1>3, <1>4, <1>9 DEF ShareInv

\* The Pick is over: no other's list changes.
LEMMA OthersKeepLists ==
  ASSUME PickInv, ShareInv, uniform, NEW p \in Pickers, NEW u \in Upstreams,
         pick' = [pick EXCEPT ![p] = Outcome(p, "picked", u)]
  PROVE  \A q \in Pickers : pick'[q].pc = "eligible" => Len(pick'[q].list) = N
<1>1. PICK m : m = Outcome(p, "picked", u)
  OBVIOUS
<1>2. m.pc = "picked"
  BY Zenon, <1>1 DEF Outcome, Idle
<1>3. pick' = [pick EXCEPT ![p] = m] /\ pick \in [Pickers -> Local]
  BY Zenon, <1>1 DEF PickInv, PickTypeOK
<1>4. pick'[p] = m /\ \A q \in Pickers : q # p => pick'[q] = pick[q]
  BY <1>3
<1> QED
  BY Zenon, <1>2, <1>4 DEF ShareInv

\* Plain round robin's choice keeps the shares.
LEMMA RoundRobinShares ==
  ASSUME PickInv, ShareInv, NEW p \in Pickers, RoundRobin(p)
  PROVE  ShareInv'
<1>1. algorithm = "round-robin" /\ algorithm' = algorithm /\ uniform' = uniform
      /\ pick[p].pc = "eligible"
  BY Zenon DEF RoundRobin, config
<1> SUFFICES ASSUME uniform
             PROVE  /\ \A q \in Pickers : pick'[q].pc = "eligible" => Len(pick'[q].list) = N
                    /\ Passed(given', counter')
  BY Zenon, <1>1 DEF ShareInv, Passed
<1>2. Len(pick[p].list) = N /\ Passed(given, counter)
  BY Zenon, <1>1 DEF ShareInv
<1>3. Passed(given', counter')
  BY <1>2, RoundRobinPasses
<1>4. PICK u \in Upstreams : pick' = [pick EXCEPT ![p] = Outcome(p, "picked", u)]
  <2>1. N \in Nat \ {0} /\ Upstreams = 1..N
    BY SelectorAssumption DEF Upstreams
  <2>2. PICK list \in Sublists : list = pick[p].list
    BY Zenon, Here
  <2>3. PICK next \in Nat : next = (counter + 1) % CounterPeriod
    <3>1. counter \in 0..(CounterPeriod - 1)
      BY Zenon DEF PickInv, PickTypeOK
    <3> QED
      BY Zenon, <3>1, CounterGoesRound
  <2>4. PICK d \in 0..(N - 1) : d = next % N
    BY <2>1
  <2>5. list[d + 1] \in Upstreams
    BY <1>2, <2>1, <2>2, WholePool
  <2> QED
    BY Zenon, <1>2, <2>2, <2>3, <2>4, <2>5 DEF RoundRobin
<1> QED
  BY Zenon, <1>3, <1>4, OthersKeepLists

\* Weighted round robin's choice keeps them.
LEMMA ElectionKeepsShares ==
  ASSUME PickInv, CreditInv, ShareInv, NEW p \in Pickers, Elects(p)
  PROVE  ShareInv'
<1>1. PICK S, b : Chosen(p, S, b)
  BY Zenon DEF Elects
<1>2. algorithm = "weighted-rr" /\ pick[p].pc = "eligible"
  BY Zenon DEF Elects
<1>3. algorithm' = algorithm /\ uniform' = uniform /\ weight' = weight
      /\ pick' = [pick EXCEPT ![p] = Outcome(p, "picked", b)] /\ b \in Upstreams
  BY Zenon, <1>1 DEF Chosen, config
<1>4. effective' = effective
  BY <1>3 DEF effective
<1> SUFFICES ASSUME uniform
             PROVE  /\ \A q \in Pickers : pick'[q].pc = "eligible" => Len(pick'[q].list) = N
                    /\ Rounds(given', cw', effective)
  BY Zenon, <1>2, <1>3, <1>4 DEF ShareInv, Rounds
<1>5. Len(pick[p].list) = N /\ Rounds(given, cw, effective)
  BY Zenon, <1>2 DEF ShareInv
<1>6. Rounds(given', cw', effective)
  BY Zenon, <1>1, <1>5, ElectionShares
<1> QED
  BY Zenon, <1>3, <1>6, OthersKeepLists

\* Every step keeps them.
LEMMA SharesKeep ==
  ASSUME PickInv, CreditInv, ShareInv, [PickNext]_pickVars
  PROVE  ShareInv'
BY AsideShares, NewPickShares, RoundRobinShares, ElectionKeepsShares, NextIs, Zenon

\* While every Pick has the whole pool, roundrobin.go gives none more than one Pick more
\* than another, and weighted.go gives each its weight in every round and within it stays less
\* than a Pick above its share and (N - 1) / 2 Picks below: for any pool and any weights.
THEOREM SharesAreFair == PickSpec => []EveryoneGetsTheirShare
<1>1. PickInv /\ CreditInv /\ ShareInv => EveryoneGetsTheirShare
  <2> SUFFICES ASSUME PickInv, CreditInv, ShareInv, uniform
               PROVE  /\ algorithm = "round-robin" =>
                           \A u, v \in Upstreams : given[u] <= given[v] + 1
                      /\ algorithm = "weighted-rr" /\ Total(effective) > 0 =>
                           /\ Total(given) < Total(effective)
                           /\ \A u \in Upstreams :
                                LET due == Total(given) * effective[u] - Total(effective) * given[u]
                                IN  /\ - Total(effective) < due
                                    /\ 2 * due <= (N - 1) * Total(effective)
    BY Zenon DEF EveryoneGetsTheirShare
  <2>1. ASSUME algorithm = "round-robin", NEW u \in Upstreams, NEW v \in Upstreams
        PROVE  given[u] <= given[v] + 1
    <3>1. given[u] \in {0, 1} /\ given[v] \in {0, 1}
      BY Zenon, <2>1 DEF ShareInv, Passed
    <3> QED
      BY <3>1
  <2>2. ASSUME algorithm = "weighted-rr", Total(effective) > 0
        PROVE  /\ Total(given) < Total(effective)
               /\ \A u \in Upstreams :
                    LET due == Total(given) * effective[u] - Total(effective) * given[u]
                    IN  - Total(effective) < due /\ 2 * due <= (N - 1) * Total(effective)
    <3>1. /\ Total(given) < Total(effective)
          /\ \A u \in Upstreams :
               /\ cw[u] = Total(given) * effective[u] - Total(effective) * given[u]
               /\ - Total(effective) < cw[u]
      BY Zenon, <2>2 DEF ShareInv, Rounds
    <3>2. PICK W \in Int : W = Total(effective)
      BY Zenon, WeightsAre, TotalOfPart
    <3>3. \A u \in Upstreams : 2 * cw[u] <= (N - 1) * W
      BY <3>2, OwedToOne DEF CreditInv, PickInv, PickTypeOK
    <3>4. ASSUME NEW u \in Upstreams
          PROVE  LET due == Total(given) * effective[u] - Total(effective) * given[u]
                 IN  - Total(effective) < due /\ 2 * due <= (N - 1) * Total(effective)
      <4>1. PICK due : due = Total(given) * effective[u] - Total(effective) * given[u]
        OBVIOUS
      <4>2. due = cw[u]
        BY <3>1, <4>1, ZenonT(30)
      <4>3. - Total(effective) < due /\ 2 * due <= (N - 1) * Total(effective)
        BY <3>1, <3>2, <3>3, <4>2
      <4> QED
        BY <4>1, <4>3, Zenon
    <3> QED
      BY <3>1, <3>4, Zenon
  <2> QED
    BY <2>1, <2>2, Zenon
<1>2. PickSpec => [](PickInv /\ CreditInv)
  BY CreditStarts, CreditKeeps, PicksInvariant, PTL DEF PickSpec
<1>3. PickSpec => []ShareInv
  BY <1>2, ShareStarts, SharesKeep, PTL DEF PickSpec
<1> QED
  BY <1>1, <1>2, <1>3, PTL
=============================================================================
