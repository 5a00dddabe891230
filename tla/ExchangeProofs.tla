--------------------------- MODULE ExchangeProofs ---------------------------
(***************************************************************************)
(* That ExchangeInv is an invariant of Exchange: what each of the writers  *)
(* between a handler and the client holds, for every place a request can   *)
(* be in.  First what the writers' operations do to one such state, then   *)
(* one lemma per action, then the theorems.                                *)
(***************************************************************************)
EXTENDS Exchange, WellFoundedInduction, TLAPS

USE SMTT(30)

-----------------------------------------------------------------------------
\* Sequences, and induction along the values of a recursive function.

\* Sequences with the same elements are the same.
LEMMA SameSeq ==
  ASSUME NEW S, NEW s \in Seq(S), NEW t \in Seq(S),
         Len(s) = Len(t), \A i \in 1..Len(s) : s[i] = t[i]
  PROVE  s = t
OBVIOUS

\* A non-empty set of naturals has a least element.
LEMMA LeastNatural ==
  ASSUME NEW T \in SUBSET Nat, T # {}
  PROVE  \E m \in T : \A n \in T : m <= n
<1>1. PICK m \in T : \A n \in T : ~ (<<n, m>> \in OpToRel(<, Nat))
  BY Zenon, NatLessThanWellFounded, WFMin
<1>2. \A n \in T : ~ (n < m)
  BY Zenon, <1>1 DEF OpToRel
<1> QED
  BY <1>2

\* Induction over the naturals up to n, for a set.
LEMMA UpTo ==
  ASSUME NEW n \in Nat, NEW D, 0 \in D, \A k \in 1..n : k - 1 \in D => k \in D
  PROVE  \A k \in 0..n : k \in D
<1> DEFINE Out == {k \in 0..n : k \notin D}
<1>1. ASSUME Out # {} PROVE FALSE
  <2>1. Out \in SUBSET Nat
    OBVIOUS
  <2>2. PICK m \in Out : \A k \in Out : m <= k
    <3> HIDE DEF Out
    <3> QED
      BY <1>1, <2>1, LeastNatural
  <2>3. m \in 1..n /\ m - 1 \in 0..n /\ m - 1 \notin Out
    BY <2>2
  <2> QED
    BY <2>2, <2>3
<1> QED
  BY <1>1

\* f[k] is what the first k of n steps make of base.
Iterates(f, S, base, n, step) ==
  /\ f \in [0..n -> S] /\ f[0] = base
  /\ \A k \in 1..n : f[k] = step[k][f[k - 1]]

\* A value can be taken through n steps, one after the other: what a loop that
\* is written as a recursive function computes is there.
LEMMA StepByStep ==
  ASSUME NEW S, NEW base \in S, NEW n \in Nat, NEW step \in [1..n -> [S -> S]]
  PROVE  \E f : Iterates(f, S, base, n, step)
<1> DEFINE Reaches(m) ==
      \E f \in [0..m -> S] : f[0] = base /\ \A k \in 1..m : f[k] = step[k][f[k - 1]]
           D == {m \in 0..n : Reaches(m)}
<1>1. Reaches(0)
  <2>1. [k \in 0..0 |-> base] \in [0..0 -> S] /\ [k \in 0..0 |-> base][0] = base
    OBVIOUS
  <2>2. \A k \in 1..0 : FALSE
    OBVIOUS
  <2> QED
    BY Zenon, <2>1, <2>2
<1>2. ASSUME NEW m \in 1..n, Reaches(m - 1)
      PROVE  Reaches(m)
  <2>1. PICK f \in [0..(m - 1) -> S] :
          f[0] = base /\ \A k \in 1..(m - 1) : f[k] = step[k][f[k - 1]]
    BY <1>2
  <2> DEFINE g == [k \in 0..m |-> IF k = m THEN step[m][f[m - 1]] ELSE f[k]]
  <2>2. step[m][f[m - 1]] \in S
    OBVIOUS
  <2>3. g \in [0..m -> S]
    BY <2>2
  <2>4. g[0] = base
    BY <2>1
  <2>5. \A k \in 1..m : g[k] = step[k][g[k - 1]]
    BY <2>1
  <2> QED
    BY Zenon, <2>3, <2>4, <2>5
<1> HIDE DEF Reaches
<1>3. 0 \in D /\ \A k \in 1..n : k - 1 \in D => k \in D
  BY <1>1, <1>2
<1>4. \A k \in 0..n : k \in D
  <2> HIDE DEF D
  <2> QED
    BY Zenon, <1>3, UpTo
<1> QED
  BY <1>4 DEF Reaches, Iterates

\* Total adds up its argument from the left.
LEMMA TotalAddsUp ==
  ASSUME NEW s \in Seq(Nat)
  PROVE  \E sum \in [0..Len(s) -> Nat] :
           /\ sum[0] = 0 /\ \A k \in 1..Len(s) : sum[k] = sum[k - 1] + s[k]
           /\ Total(s) = sum[Len(s)]
<1> DEFINE n == Len(s)
           step == [k \in 1..n |-> [v \in Nat |-> v + s[k]]]
           Adds(f) == f = [k \in 0..n |-> IF k = 0 THEN 0 ELSE f[k - 1] + s[k]]
           sum == CHOOSE f : Adds(f)
<1>1. n \in Nat /\ 0 \in Nat /\ step \in [1..n -> [Nat -> Nat]]
  OBVIOUS
<1>2. PICK g : Iterates(g, Nat, 0, n, step)
  <2> HIDE DEF step, n
  <2> QED
    BY <1>1, StepByStep, Zenon
<1>3. \A k \in 1..n : g[k] = g[k - 1] + s[k]
  <2> TAKE k \in 1..n
  <2>1. g[k] = step[k][g[k - 1]]
    BY <1>2 DEF Iterates
  <2>2. k - 1 \in 0..n
    OBVIOUS
  <2>3. g[k - 1] \in Nat
    BY Zenon, <1>2, <2>2 DEF Iterates
  <2>4. step[k] = [v \in Nat |-> v + s[k]]
    OBVIOUS
  <2> QED
    BY <2>1, <2>3, <2>4
<1>4. g \in [0..n -> Nat] /\ g[0] = 0
  BY <1>2 DEF Iterates
<1>5. Adds(g)
  BY <1>1, <1>3, <1>4
<1>6. Adds(sum)
  BY Zenon, <1>5
<1>7. Total(s) = sum[n]
  BY DEF Total
<1> HIDE DEF sum
<1>8. sum[0] = 0 /\ \A k \in 1..n : sum[k] = sum[k - 1] + s[k]
  <2>1. \A k \in 0..n : sum[k] = IF k = 0 THEN 0 ELSE sum[k - 1] + s[k]
    BY <1>6, Zenon
  <2> QED
    BY <1>1, <2>1
<1>9. \A k \in 0..n : sum[k] = g[k]
  <2> DEFINE D == {k \in 0..n : sum[k] = g[k]}
  <2>1. 0 \in D /\ \A k \in 1..n : k - 1 \in D => k \in D
    BY <1>1, <1>3, <1>4, <1>8
  <2>2. \A k \in 0..n : k \in D
    <3> HIDE DEF D, n
    <3> QED
      BY Zenon, <1>1, <2>1, UpTo
  <2> QED
    BY <2>2
<1>10. sum \in [0..n -> Nat]
  BY Zenon, <1>4, <1>6, <1>9
<1> QED
  BY Zenon, <1>7, <1>8, <1>10

\* What climbs at every step climbs.
LEMMA Climbs ==
  ASSUME NEW n \in Nat, NEW f \in [0..n -> Nat], \A k \in 1..n : f[k - 1] <= f[k]
  PROVE  \A i, j \in 0..n : i <= j => f[i] <= f[j]
<1> TAKE i, j \in 0..n
<1> DEFINE D == {k \in 0..n : i <= k => f[i] <= f[k]}
<1>1. \A k \in 0..n : k \in D
  <2>1. 0 \in D
    OBVIOUS
  <2>2. ASSUME NEW k \in 1..n, k - 1 \in D PROVE k \in D
    <3>1. f[k - 1] \in Nat /\ f[k] \in Nat /\ f[i] \in Nat /\ f[k - 1] <= f[k]
      OBVIOUS
    <3> QED
      BY <2>2, <3>1
  <2> HIDE DEF D
  <2> QED
    BY Zenon, <2>1, <2>2, UpTo
<1> QED
  BY <1>1

\* What is longer adds up to no less, and to more when nothing added is 0.
LEMMA TotalOfPrefix ==
  ASSUME NEW s \in Seq(Nat), NEW t \in Seq(Nat), Len(t) <= Len(s),
         \A i \in 1..Len(t) : t[i] = s[i]
  PROVE  /\ Total(t) \in Nat /\ Total(s) \in Nat /\ Total(t) <= Total(s)
         /\ (\A i \in 1..Len(s) : s[i] # 0) /\ Len(t) < Len(s) => Total(t) < Total(s)
<1>1. PICK f \in [0..Len(s) -> Nat] :
        /\ f[0] = 0 /\ \A k \in 1..Len(s) : f[k] = f[k - 1] + s[k]
        /\ Total(s) = f[Len(s)]
  BY TotalAddsUp
<1>2. PICK g \in [0..Len(t) -> Nat] :
        /\ g[0] = 0 /\ \A k \in 1..Len(t) : g[k] = g[k - 1] + t[k]
        /\ Total(t) = g[Len(t)]
  BY Zenon, TotalAddsUp
<1>3. Len(t) \in 0..Len(s) /\ Len(t) \in Nat /\ Len(s) \in Nat
  OBVIOUS
<1>4. \A k \in 0..Len(t) : g[k] = f[k]
  <2> DEFINE D == {k \in 0..Len(t) : g[k] = f[k]}
  <2>1. 0 \in D /\ \A k \in 1..Len(t) : k - 1 \in D => k \in D
    BY <1>1, <1>2, <1>3
  <2>2. \A k \in 0..Len(t) : k \in D
    <3> HIDE DEF D
    <3> QED
      BY Zenon, <1>3, <2>1, UpTo
  <2> QED
    BY <2>2
<1>5. Total(t) = f[Len(t)]
  BY <1>2, <1>3, <1>4
<1>6. \A k \in 1..Len(s) : f[k - 1] <= f[k] /\ (s[k] # 0 => f[k - 1] < f[k])
  <2> TAKE k \in 1..Len(s)
  <2>1. k - 1 \in 0..Len(s) /\ s[k] \in Nat
    BY <1>3
  <2>2. f[k - 1] \in Nat /\ f[k] = f[k - 1] + s[k]
    BY Zenon, <1>1, <2>1
  <2> QED
    BY <2>1, <2>2
<1>7. \A i, j \in 0..Len(s) : i <= j => f[i] <= f[j]
  BY Zenon, <1>3, <1>6, Climbs
<1>8. Total(t) <= Total(s) /\ Total(t) \in Nat /\ Total(s) \in Nat
  BY <1>1, <1>3, <1>5, <1>7
<1>9. ASSUME \A i \in 1..Len(s) : s[i] # 0, Len(t) < Len(s)
      PROVE  Total(t) < Total(s)
  <2>1. Len(t) + 1 \in 1..Len(s) /\ Len(t) + 1 - 1 = Len(t)
    BY <1>3, <1>9
  <2>2. f[Len(t)] < f[Len(t) + 1] /\ f[Len(t) + 1] <= f[Len(s)]
    BY <1>3, <1>6, <1>7, <1>9, <2>1
  <2> QED
    <3>1. \A k \in 0..Len(s) : f[k] \in Nat
      BY Zenon
    <3>2. f[Len(t)] \in Nat /\ f[Len(t) + 1] \in Nat /\ f[Len(s)] \in Nat
      BY <1>3, <2>1, <3>1
    <3>3. f[Len(t)] < f[Len(s)]
      BY <2>2, <3>2
    <3> QED
      BY <1>1, <1>5, <3>3
<1> QED
  BY <1>8, <1>9

\* Nothing adds up to 0, one to itself; and all is no less than the first.
LEMMA TotalOfFirst ==
  /\ Total(<<>>) = 0 /\ \A x \in Nat : Total(<<x>>) = x
  /\ \A s \in Seq(Nat) : s # <<>> => Total(s) \in Nat /\ s[1] <= Total(s)
<1>1. \A x \in Nat : Total(<<x>>) = x
  <2> TAKE x \in Nat
  <2>1. <<x>> \in Seq(Nat) /\ Len(<<x>>) = 1 /\ <<x>>[1] = x
    OBVIOUS
  <2>2. PICK f \in [0..1 -> Nat] :
          /\ f[0] = 0 /\ \A k \in 1..1 : f[k] = f[k - 1] + <<x>>[k]
          /\ Total(<<x>>) = f[1]
    BY Zenon, <2>1, TotalAddsUp
  <2> QED
    BY <2>1, <2>2
<1>2. Total(<<>>) = 0
  <2>1. <<>> \in Seq(Nat) /\ Len(<<>>) = 0
    OBVIOUS
  <2> QED
    BY Zenon, <2>1, TotalAddsUp
<1>3. ASSUME NEW s \in Seq(Nat), s # <<>>
      PROVE  Total(s) \in Nat /\ s[1] <= Total(s)
  <2>1. s[1] \in Nat /\ <<s[1]>> \in Seq(Nat) /\ Len(<<s[1]>>) = 1 /\ 1 <= Len(s)
    BY <1>3
  <2>2. \A i \in 1..Len(<<s[1]>>) : <<s[1]>>[i] = s[i]
    BY <2>1
  <2> QED
    BY Zenon, <1>1, <2>1, <2>2, TotalOfPrefix
<1> QED
  BY <1>1, <1>2, <1>3

-----------------------------------------------------------------------------
\* pickEncoding: the loop over Accept-Encoding leaves the best of what was offered.

\* The encodings there are, and the one a name stands for.
LEMMA EncodingNames ==
  /\ DOMAIN Encodings = 1..3 /\ Range(Encodings) = {"gzip", "zstd", "br"}
  /\ Encodings[1] = "gzip" /\ Encodings[2] = "zstd" /\ Encodings[3] = "br"
<1>1. DOMAIN Encodings = 1..3 /\ Encodings[1] = "gzip" /\ Encodings[2] = "zstd"
      /\ Encodings[3] = "br"
  BY DEF Encodings
<1>2. Range(Encodings) = {Encodings[i] : i \in DOMAIN Encodings}
  BY DEF Range
<1> QED
  BY <1>1, <1>2

\* How well an encoding does, by its name.
Rank(name) == IF name = "br" THEN 3 ELSE IF name = "zstd" THEN 2 ELSE 1

\* A directive's name leads to the encoding it names, and to none when the proxy
\* has no encoder for it.
LEMMA CandidateIs ==
  ASSUME NEW d \in [name : STRING, q : Nat]
  PROVE  candidate(d) = IF d.name \in Range(Encodings) THEN Rank(d.name) ELSE 0
<1>1. CASE d.name \in Range(Encodings)
  <2>1. \E e \in DOMAIN Encodings : Encodings[e] = d.name
    BY <1>1, EncodingNames
  <2>2. candidate(d) \in 1..3 /\ Encodings[candidate(d)] = d.name
    BY <1>1, <2>1, EncodingNames DEF candidate
  <2> QED
    BY <1>1, <2>2, EncodingNames DEF Rank
<1>2. CASE d.name \notin Range(Encodings)
  BY <1>2 DEF candidate
<1> QED
  BY <1>1, <1>2

\* An Accept-Encoding's directives, and what pickEncoding's loop keeps of them.
Directive == [name : STRING, q : Nat]
Best == [enc : 0..3, q : Int]

\* b is the best of the first n directives.
IsBest(b, accept, n) ==
  /\ b \in Best
  /\ b.enc = 0 => b.q = -1
  /\ b.enc # 0 => \E i \in 1..n : accept[i].q = b.q /\ b.q > 0 /\ candidate(accept[i]) = b.enc
  /\ \A i \in 1..n : accept[i].q > 0 /\ candidate(accept[i]) # 0 =>
       accept[i].q < b.q \/ (accept[i].q = b.q /\ candidate(accept[i]) <= b.enc)

\* The loop's next best, after one more directive.
Takes(b, d) == IF Beats(d, b) THEN [enc |-> candidate(d), q |-> d.q] ELSE b

\* One round of the loop keeps the best of the directives it has seen.
LEMMA BestStep ==
  ASSUME NEW accept \in Seq(Directive), NEW n \in 1..Len(accept), NEW b,
         IsBest(b, accept, n - 1)
  PROVE  IsBest(Takes(b, accept[n]), accept, n)
<1>1. PICK d \in Directive : d = accept[n]
  OBVIOUS
<1>2. d.q \in Nat /\ candidate(d) \in 0..3
  BY <1>1, CandidateIs DEF Directive, Rank
<1>3. b \in Best /\ b.q \in Int /\ b.enc \in 0..3
  BY DEF IsBest, Best
<1>4. \A i \in 1..n : i # n => i \in 1..(n - 1)
  OBVIOUS
<1>5. \A i \in 1..(n - 1) : i \in 1..n /\ accept[i].q \in Nat /\ candidate(accept[i]) \in 0..3
  <2> TAKE i \in 1..(n - 1)
  <2>1. accept[i] \in Directive
    OBVIOUS
  <2> QED
    BY <2>1, CandidateIs DEF Directive, Rank
<1>6. CASE Beats(d, b)
  <2> DEFINE c == [enc |-> candidate(d), q |-> d.q]
  <2>1. Takes(b, accept[n]) = c
    BY <1>1, <1>6 DEF Takes
  <2>2. c \in Best /\ c.enc = candidate(d) /\ c.q = d.q /\ c.enc # 0 /\ d.q > 0
        /\ (d.q > b.q \/ (d.q = b.q /\ c.enc > b.enc))
    BY <1>2, <1>3, <1>6 DEF Best, Beats
  <2> HIDE DEF c
  <2>3. \A i \in 1..n : accept[i].q > 0 /\ candidate(accept[i]) # 0 =>
          accept[i].q < c.q \/ (accept[i].q = c.q /\ candidate(accept[i]) <= c.enc)
    <3> TAKE i \in 1..n
    <3>1. CASE i = n
      BY <1>1, <1>2, <2>2, <3>1
    <3>2. CASE i # n
      BY <1>2, <1>3, <1>4, <1>5, <2>2, <3>2 DEF IsBest
    <3> QED
      BY <3>1, <3>2
  <2>4. \E i \in 1..n : accept[i].q = c.q /\ c.q > 0 /\ candidate(accept[i]) = c.enc
    BY <1>1, <2>2
  <2> QED
    BY <2>1, <2>2, <2>3, <2>4 DEF IsBest
<1>7. CASE ~ Beats(d, b)
  <2>1. Takes(b, accept[n]) = b
    BY <1>1, <1>7 DEF Takes
  <2>2. \A i \in 1..n : accept[i].q > 0 /\ candidate(accept[i]) # 0 =>
          accept[i].q < b.q \/ (accept[i].q = b.q /\ candidate(accept[i]) <= b.enc)
    <3> TAKE i \in 1..n
    <3>1. CASE i = n
      BY <1>1, <1>2, <1>3, <1>7, <3>1 DEF Beats
    <3>2. CASE i # n
      BY <1>4, <3>2 DEF IsBest
    <3> QED
      BY <3>1, <3>2
  <2>3. b.enc # 0 =>
          \E i \in 1..n : accept[i].q = b.q /\ b.q > 0 /\ candidate(accept[i]) = b.enc
    BY <1>5 DEF IsBest
  <2> QED
    BY <1>3, <2>1, <2>2, <2>3 DEF IsBest
<1> QED
  BY <1>6, <1>7

\* pickEncoding returns what its loop has found best.
LEMMA PickIsBest ==
  ASSUME NEW accept \in Seq(Directive)
  PROVE  \E b : IsBest(b, accept, Len(accept)) /\ pickEncoding(accept) = b.enc
<1> DEFINE n == Len(accept)
           base == [enc |-> 0, q |-> -1]
           step == [k \in 1..n |-> [b \in Best |-> Takes(b, accept[k])]]
           Loops(f) == f = [k \in 0..n |-> IF k = 0 THEN base
                                           ELSE IF Beats(accept[k], f[k - 1])
                                             THEN [enc |-> candidate(accept[k]), q |-> accept[k].q]
                                           ELSE f[k - 1]]
           best == CHOOSE f : Loops(f)
<1>1. n \in Nat /\ base \in Best
  BY DEF Best
<1>2. step \in [1..n -> [Best -> Best]]
  <2>1. ASSUME NEW k \in 1..n, NEW b \in Best PROVE Takes(b, accept[k]) \in Best
    <3>1. accept[k] \in Directive
      OBVIOUS
    <3>2. candidate(accept[k]) \in 0..3 /\ accept[k].q \in Int
      BY <3>1, CandidateIs DEF Directive, Rank
    <3> QED
      BY <3>2 DEF Takes, Best
  <2> QED
    BY <2>1
<1>3. PICK g : Iterates(g, Best, base, n, step)
  <2> HIDE DEF step, n, base
  <2> QED
    BY <1>1, <1>2, StepByStep
<1>4. g \in [0..n -> Best] /\ g[0] = base
  BY <1>3 DEF Iterates
<1>5. \A k \in 1..n : g[k] = Takes(g[k - 1], accept[k])
  <2> TAKE k \in 1..n
  <2>1. g[k] = step[k][g[k - 1]]
    BY <1>3 DEF Iterates
  <2>2. k - 1 \in 0..n
    OBVIOUS
  <2>3. g[k - 1] \in Best
    BY <1>4, <2>2
  <2>4. step[k] = [b \in Best |-> Takes(b, accept[k])]
    OBVIOUS
  <2> QED
    BY <2>1, <2>3, <2>4
<1>6. Loops(g)
  <2> HIDE DEF base
  <2> QED
    BY <1>1, <1>4, <1>5 DEF Takes
<1>7. Loops(best)
  BY Zenon, <1>6
<1>8. pickEncoding(accept) = best[n].enc
  BY DEF pickEncoding
<1> HIDE DEF best
<1>9. best[0] = base /\ \A k \in 1..n : best[k] = Takes(best[k - 1], accept[k])
  <2>1. \A k \in 0..n : best[k] = IF k = 0 THEN base
                                  ELSE IF Beats(accept[k], best[k - 1])
                                    THEN [enc |-> candidate(accept[k]), q |-> accept[k].q]
                                  ELSE best[k - 1]
    BY <1>7, Zenon
  <2>2. 0 \in 0..n /\ \A k \in 1..n : k \in 0..n /\ k # 0
    BY <1>1
  <2> HIDE DEF base
  <2>3. best[0] = base
    BY Zenon, <2>1, <2>2
  <2>4. ASSUME NEW k \in 1..n PROVE best[k] = Takes(best[k - 1], accept[k])
    BY <2>1, <2>2, Zenon DEF Takes
  <2> QED
    BY <2>3, <2>4
<1> DEFINE D == {k \in 0..n : IsBest(best[k], accept, k)}
<1>10. 0 \in D
  BY <1>1, <1>9 DEF IsBest
<1>11. ASSUME NEW k \in 1..n, k - 1 \in D PROVE k \in D
  BY <1>9, <1>11, BestStep
<1>12. \A k \in 0..n : k \in D
  <2> HIDE DEF D, n
  <2> QED
    BY Zenon, <1>1, <1>10, <1>11, UpTo
<1> QED
  BY <1>1, <1>8, <1>12

\* What the model's records range over: headers, the route's middlewares, a
\* request, a body's items and the writers.
Header == [coding : {"none", "upstream"} \cup Range(Encodings), length : Int,
           skipType : BOOLEAN, added : BOOLEAN]

Chain == [retry : BOOLEAN, headers : BOOLEAN, compress : BOOLEAN, timeout : BOOLEAN]
Message == [body : {"none", "small", "large", "broken"}, retryable : BOOLEAN,
            accept : AcceptHeaders]

Chunk == [attempt : Nat, index : Nat, size : Nat, coded : BOOLEAN]
Items == Seq(Chunk)

Compressor == [wroteHeader : BOOLEAN, committed : BOOLEAN, compress : BOOLEAN,
               status : Nat, buf : Items]
Buffer == [status : Nat, body : Items]
Server == [status : Nat, hdr : Header, body : Items, headers : Nat]

WriterState ==
  [hdr : Header, applied : BOOLEAN, comp : Compressor, rec : Buffer,
   wroteHeader : BOOLEAN, logged : Nat, logging : BOOLEAN, net : Server]

-----------------------------------------------------------------------------
\* The invariant.

\* The first n chunks of an attempt's body of these sizes.
Chunks(sizes, n, coded) ==
  [i \in 1..n |-> [attempt |-> attempt, index |-> i, size |-> sizes[i], coded |-> coded]]

\* The headers h as they leave the route, and as they leave Compress when it codes.
Added(h) == [h EXCEPT !.added = chain.headers]
CodedHeader(h) ==
  [h EXCEPT !.coding = Encodings[pickEncoding(msg.accept)], !.length = NoLength]

\* The server and the recorders have seen nothing; and nothing has left the
\* compressor.
Fresh(x) ==
  x.net = Writers.net /\ ~ x.wroteHeader /\ ~ x.logging /\ x.logged = 200

Nothing(x) == Fresh(x) /\ x.rec = NewBuffer /\ ~ x.applied

\* The writers as an attempt gets them.
Untouched(x) == Nothing(x) /\ x.comp = NewCompressor /\ x.hdr = NoHeader

\* What the server and the recorders have.
Delivered(x, code, h, items) ==
  /\ x.net = [status |-> code, hdr |-> h, body |-> items, headers |-> 1]
  /\ x.wroteHeader /\ x.logging /\ x.logged = code

\* This status, these headers and these items have left the compressor, for
\* Retry's buffer or for the server.
Gone(x, code, h, items) ==
  IF chain.retry THEN Fresh(x) /\ x.rec = [status |-> code, body |-> items] /\ x.hdr = h
  ELSE Delivered(x, code, h, items)

Going(x, code, h, items) == Gone(x, code, h, items) /\ x.applied = chain.headers

\* An answer of which Compress may code the first n chunks.
Codable(code, h, sizes, n) ==
  /\ Compressing /\ h.coding = "none" /\ ~ h.skipType /\ code # 204
  /\ n > 0 => sizes[1] >= MinBytes

\* Compress has decided, and has passed on n chunks of an answer.
Decided(x, code, h, sizes, n) ==
  LET yes == x.comp.compress IN
  /\ x.comp.committed /\ x.comp.buf = <<>>
  /\ yes => Codable(code, h, sizes, n)
  /\ Going(x, code, Added(IF yes THEN CodedHeader(h) ELSE h), Chunks(sizes, n, yes))

\* The writers when n chunks of an answer have been copied to them.
Copied(x, code, h, sizes, n) ==
  IF ~ Compressing
    THEN x.comp = NewCompressor /\ Going(x, code, Added(h), Chunks(sizes, n, FALSE))
  ELSE IF n = 0
    THEN /\ x.comp = [NewCompressor EXCEPT !.wroteHeader = TRUE, !.status = code]
         /\ x.hdr = h /\ Nothing(x)
  ELSE x.comp.wroteHeader /\ Decided(x, code, h, sizes, n)

\* These are all of an answer of which n chunks were copied.
Whole(code, h, items, code0, h0, sizes, n) ==
  /\ code = code0
  /\ \/ h = Added(h0) /\ items = Chunks(sizes, n, FALSE)
     \/ /\ Codable(code0, h0, sizes, n)
        /\ h = Added(CodedHeader(h0))
        /\ items = Append(Chunks(sizes, n, TRUE), Trailer)

\* These are what a panic before the answer leaves.
Unwound(code, h, items) ==
  IF Compressing THEN Whole(code, h, items, 200, NoHeader, <<>>, 0) /\ items # <<>>
  ELSE /\ h = NoHeader /\ code = IF chain.retry THEN 502 ELSE 500
       /\ items = IF chain.retry THEN <<>> ELSE Chunks(<<1>>, 1, FALSE)

\* What an attempt with response r has handed on when it is over.
Outcome(r, code, h, items) ==
  CASE r.from = "upstream" -> Whole(code, h, items, r.status, r.hdr, r.sizes, r.read)
    [] r.from = "proxy" -> Whole(code, h, items, r.status, NoHeader, <<1>>, 1)
    [] r.from = "panic" -> Unwound(code, h, items)
    [] OTHER -> FALSE

\* Headers as an upstream sends them.
Plain(h) == h \in Header /\ h.coding \in {"none", "upstream"} /\ h.added = FALSE

\* The response of an attempt.
Sizes == Seq(Nat \ {0})
Response == [from : {"none", "proxy", "panic", "upstream"}, status : Nat, hdr : Header,
             sizes : Sizes, read : Nat, broken : BOOLEAN]

\* A response is an upstream's, or one without headers and body.
Sound(r) ==
  /\ r \in Response /\ Plain(r.hdr) /\ r.read <= Len(r.sizes)
  /\ r.hdr.length \in {NoLength, Total(r.sizes)}
  /\ r.from # "upstream" => r.hdr = NoHeader /\ r.sizes = <<>>
  /\ r.from \in {"upstream", "proxy"} => r.status # 0

\* Attempts are counted as Retry does, and the body is as it was buffered.
AttemptsOK ==
  /\ maxAttempts = IF pc # "arrived" /\ chain.retry /\ msg.retryable /\ msg.body # "large"
                     THEN MaxAttempts ELSE 1
  /\ attempt \in 0..maxAttempts
  /\ pc \in {"arrived", "dispatch"} => attempt < maxAttempts
  /\ pc = "arrived" => attempt = 0
  /\ pc \notin {"arrived", "dispatch"} => attempt > 0
  /\ ~ chain.retry /\ pc = "dispatch" => attempt = 0
  /\ bodyBuf = IF pc = "arrived" THEN "none"
               ELSE IF chain.retry THEN bufferReplayBody(msg.body) ELSE msg.body

\* At most one request was sent per attempt, the same every time.
SentOK ==
  /\ sent \in Seq({Request}) /\ Len(sent) <= attempt
  /\ pc = "proxy" => Len(sent) < attempt
  /\ pc = "arrived" => sent = <<>>

\* The writers x go with the response r at the point p of the request.
Fits(p, r, x) ==
  /\ x \in WriterState
  /\ p # "copying" => x.comp.buf = <<>>
  /\ p \in {"arrived", "dispatch"} => Fresh(x)
  /\ p \in {"arrived", "dispatch"} /\ ~ chain.retry => x.rec = NewBuffer
  /\ p = "proxy" => Untouched(x) /\ r = NoResponse
  /\ p = "copying" =>
       /\ r.from = "upstream" /\ ~ r.broken
       /\ Copied(x, r.status, r.hdr, r.sizes, r.read)
  /\ p = "attempted" =>
       chain.retry /\ Fresh(x) /\ x.rec.status # 0 /\ Outcome(r, x.rec.status, x.hdr, x.rec.body)
  /\ p = "done" =>
       /\ x.net.headers = 1 /\ x.logged = x.net.status
       /\ Outcome(r, x.net.status, x.net.hdr, x.net.body)
  /\ p \in {"attempted", "done"} /\ r.from = "upstream" =>
       r.broken = (r.read < Len(r.sizes))

\* The writers go with the response, where the request is.
WritersOK == Fits(pc, resp, w)

\* The inductive invariant.
ExchangeInv ==
  /\ chain \in Chain /\ msg \in Message
  /\ pc \in {"arrived", "dispatch", "proxy", "copying", "attempted", "done"}
  /\ expired \in BOOLEAN /\ err \in BOOLEAN
  /\ AttemptsOK /\ SentOK /\ Sound(resp) /\ WritersOK

\* Two states of the writers that differ in no more than the headers and
\* whether the route's have been added.
SameBut(y, x) ==
  /\ y.comp = x.comp /\ y.rec = x.rec /\ y.net = x.net
  /\ y.wroteHeader = x.wroteHeader /\ y.logging = x.logging /\ y.logged = x.logged

-----------------------------------------------------------------------------
\* What the writers do: the headers, the server, the buffer of Retry.

\* applyOnce adds the route's headers, once, and touches nothing else.
LEMMA AppliesOnce ==
  ASSUME NEW x \in WriterState, chain \in Chain, x.applied => x.hdr.added,
         ~ x.applied => x.hdr.added = FALSE, x.applied => chain.headers
  PROVE  /\ applyOnce(x) \in WriterState /\ SameBut(applyOnce(x), x)
         /\ applyOnce(x).applied = chain.headers /\ applyOnce(x).hdr = Added(x.hdr)
<1>1. x.hdr \in Header /\ Added(x.hdr) \in Header
  BY DEF WriterState, Header, Added, Chain
<1>2. CASE chain.headers /\ ~ x.applied
  <2>1. applyOnce(x) = [x EXCEPT !.applied = TRUE, !.hdr.added = TRUE]
    BY <1>2 DEF applyOnce
  <2>2. [x EXCEPT !.applied = TRUE, !.hdr.added = TRUE]
          = [x EXCEPT !.applied = TRUE, !.hdr = Added(x.hdr)]
    BY <1>1, <1>2 DEF WriterState, Added, Header
  <2>3. PICK h \in Header : h = Added(x.hdr)
    BY <1>1
  <2>4. applyOnce(x) = [x EXCEPT !.applied = TRUE, !.hdr = h]
    BY <2>1, <2>2, <2>3
  <2>5. applyOnce(x) \in WriterState
    BY Zenon, <2>4 DEF WriterState
  <2>6. applyOnce(x).applied /\ applyOnce(x).hdr = h /\ SameBut(applyOnce(x), x)
    BY <2>4 DEF WriterState, SameBut
  <2> QED
    BY <1>2, <2>3, <2>5, <2>6 DEF Chain
<1>3. CASE ~ (chain.headers /\ ~ x.applied)
  <2>1. applyOnce(x) = x
    BY <1>3 DEF applyOnce
  <2>2. Added(x.hdr) = x.hdr
    BY <1>1, <1>3 DEF Added, Header, Chain, WriterState
  <2> QED
    BY <1>3, <2>1, <2>2 DEF WriterState, SameBut, Chain
<1> QED
  BY <1>2, <1>3

\* Two states of the writers that differ in no more than what is behind Retry.
SameInFront(y, x) ==
  y.comp = x.comp /\ y.rec = x.rec /\ y.hdr = x.hdr /\ y.applied = x.applied

\* A server's writer is what its fields are.
LEMMA ServerIs ==
  ASSUME NEW m \in Server, NEW n \in Server,
         m.status = n.status, m.hdr = n.hdr, m.body = n.body, m.headers = n.headers
  PROVE  m = n
BY DEF Server

\* The first status to reach the recorders goes to the log and to the server.
LEMMA FirstHeader ==
  ASSUME NEW x \in WriterState, Fresh(x), NEW code \in Nat \ {0}
  PROVE  /\ outerWriteHeader(x, code) \in WriterState
         /\ SameInFront(outerWriteHeader(x, code), x)
         /\ Delivered(outerWriteHeader(x, code), code, x.hdr, <<>>)
<1> DEFINE y == [x EXCEPT !.wroteHeader = TRUE, !.logging = TRUE, !.logged = code]
           net == [status |-> code, hdr |-> x.hdr, body |-> <<>>, headers |-> 1]
<1>1. [x EXCEPT !.wroteHeader = TRUE, !.logging = TRUE,
                !.logged = IF x.logging THEN @ ELSE code] = y
  BY DEF Fresh
<1>2. y \in WriterState /\ y.hdr = x.hdr /\ y.applied = x.applied /\ y.comp = x.comp
      /\ y.rec = x.rec /\ y.net = x.net /\ y.wroteHeader /\ y.logging /\ y.logged = code
  BY Zenon DEF WriterState
<1>3. x.net = [status |-> 0, hdr |-> NoHeader, body |-> <<>>, headers |-> 0]
  BY DEF Fresh, Writers
<1>4. x.hdr \in Header /\ <<>> \in Items
  BY DEF WriterState, Items
<1>5. net \in Server /\ net.status = code /\ net.hdr = x.hdr /\ net.body = <<>> /\ net.headers = 1
  BY <1>4 DEF Server
<1> HIDE DEF y
<1>6. netWriteHeader(y, code) = [y EXCEPT !.net = net]
  <2>1. y.net.status = 0 /\ y.net.headers = 0 /\ y.net.body = <<>>
    BY <1>2, <1>3
  <2>2. netWriteHeader(y, code) =
          [y EXCEPT !.net = [y.net EXCEPT !.headers = 0 + 1, !.status = code, !.hdr = x.hdr]]
    BY Zenon, <1>2, <1>3, <2>1 DEF netWriteHeader, WriterState
  <2>3. PICK n \in Server : n = y.net
    BY <1>2 DEF WriterState
  <2>4. PICK m : m = [n EXCEPT !.headers = 1, !.status = code, !.hdr = x.hdr]
    OBVIOUS
  <2>5. m \in Server /\ m.headers = 1 /\ m.status = code /\ m.hdr = x.hdr /\ m.body = n.body
    <3>1. PICK h \in Header : h = x.hdr
      BY <1>4
    <3>2. m = [n EXCEPT !.headers = 1, !.status = code, !.hdr = h]
      BY <2>4, <3>1
    <3>3. m \in Server
      BY Zenon, <3>2 DEF Server
    <3>4. m.headers = 1 /\ m.status = code /\ m.hdr = h /\ m.body = n.body
      BY <3>2 DEF Server
    <3> QED
      BY <3>1, <3>3, <3>4
  <2> HIDE DEF net
  <2>6. m = net
    BY <1>5, <2>1, <2>3, <2>5, ServerIs
  <2>7. 0 + 1 = 1
    OBVIOUS
  <2> QED
    BY <2>2, <2>3, <2>4, <2>6, <2>7, Zenon
<1> HIDE DEF net
<1>7. PICK z : z = [y EXCEPT !.net = net]
  BY Zenon
<1>8. z \in WriterState
  BY <1>2, <1>5, <1>7 DEF WriterState
<1>9. z.net = net /\ z.hdr = x.hdr /\ z.applied = x.applied /\ z.comp = x.comp
      /\ z.rec = x.rec /\ z.wroteHeader /\ z.logging /\ z.logged = code
  BY <1>2, <1>7 DEF WriterState
<1>10. outerWriteHeader(x, code) = z
  BY Zenon, <1>1, <1>6, <1>7 DEF outerWriteHeader
<1> QED
  BY <1>8, <1>9, <1>10 DEF SameInFront, Delivered, net

\* A body behind a status is added to what the server has.
LEMMA LaterWrite ==
  ASSUME NEW x \in WriterState, NEW code \in Nat \ {0}, NEW h, NEW items \in Items,
         Delivered(x, code, h, items), NEW more \in Items
  PROVE  /\ outerWrite(x, more) \in WriterState
         /\ SameInFront(outerWrite(x, more), x)
         /\ Delivered(outerWrite(x, more), code, h, items \o more)
<1> DEFINE y == [x EXCEPT !.wroteHeader = TRUE, !.logging = TRUE]
           net == [status |-> code, hdr |-> h, body |-> items \o more, headers |-> 1]
<1>1. y \in WriterState /\ y.hdr = x.hdr /\ y.applied = x.applied /\ y.comp = x.comp
      /\ y.rec = x.rec /\ y.net = x.net /\ y.wroteHeader /\ y.logging /\ y.logged = code
  BY Zenon DEF WriterState, Delivered
<1>2. x.net = [status |-> code, hdr |-> h, body |-> items, headers |-> 1] /\ h \in Header
  <2>1. x.net = [status |-> code, hdr |-> h, body |-> items, headers |-> 1]
    BY DEF Delivered
  <2>2. x.net \in Server
    BY DEF WriterState
  <2> QED
    BY <2>1, <2>2 DEF Server
<1>3. items \o more \in Items
  BY DEF Items
<1>4. net \in Server /\ net.status = code /\ net.hdr = h /\ net.body = items \o more
      /\ net.headers = 1
  BY <1>2, <1>3 DEF Server
<1> HIDE DEF y
<1>5. netWrite(y, more) = [y EXCEPT !.net = net]
  <2>1. PICK n \in Server : n = y.net
    BY <1>1 DEF WriterState
  <2>2. n.status = code /\ n.hdr = h /\ n.body = items /\ n.headers = 1
    BY <1>1, <1>2, <2>1
  <2>3. netWrite(y, more) = [y EXCEPT !.net = [n EXCEPT !.body = n.body \o more]]
    BY Zenon, <1>1, <2>1, <2>2 DEF netWrite, WriterState
  <2>4. PICK all \in Items : all = items \o more
    BY Zenon, <1>3
  <2>5. PICK m : m = [n EXCEPT !.body = all]
    BY Zenon
  <2>6. m \in Server /\ m.headers = 1 /\ m.status = code /\ m.hdr = h /\ m.body = all
    BY <2>2, <2>5 DEF Server
  <2> HIDE DEF net
  <2>7. m = net
    BY ZenonT(30), <1>4, <2>4, <2>6, ServerIs
  <2> QED
    BY Zenon, <2>2, <2>3, <2>4, <2>5, <2>7
<1> HIDE DEF net
<1>6. PICK z : z = [y EXCEPT !.net = net]
  BY Zenon
<1>7. z \in WriterState
  BY <1>1, <1>4, <1>6 DEF WriterState
<1>8. z.net = net /\ z.hdr = x.hdr /\ z.applied = x.applied /\ z.comp = x.comp
      /\ z.rec = x.rec /\ z.wroteHeader /\ z.logging /\ z.logged = code
  BY <1>1, <1>6 DEF WriterState
<1>9. outerWrite(x, more) = z
  BY <1>5, <1>6 DEF outerWrite, y
<1> QED
  BY <1>7, <1>8, <1>9 DEF SameInFront, Delivered, net

\* Retry's buffer is what its fields are.
LEMMA BufferIs ==
  ASSUME NEW m \in Buffer, NEW n \in Buffer, m.status = n.status, m.body = n.body
  PROVE  m = n
BY DEF Buffer

\* y is x but for Retry's buffer.
LEMMA Buffered ==
  ASSUME NEW x \in WriterState, NEW r \in Buffer, NEW y, y = [x EXCEPT !.rec = r]
  PROVE  /\ y \in WriterState /\ y.rec = r /\ y.comp = x.comp /\ y.hdr = x.hdr
         /\ y.applied = x.applied /\ (Fresh(x) => Fresh(y))
<1>1. y \in WriterState
  BY DEF WriterState
<1>2. y.rec = r /\ y.comp = x.comp /\ y.hdr = x.hdr /\ y.applied = x.applied
  BY DEF WriterState
<1>3. y.net = x.net /\ y.wroteHeader = x.wroteHeader /\ y.logging = x.logging
      /\ y.logged = x.logged
  BY DEF WriterState
<1> QED
  BY <1>1, <1>2, <1>3 DEF Fresh

\* The first status to leave the compressor goes on with the headers there are
\* and those the route adds.
LEMMA SinkHeader ==
  ASSUME NEW x \in WriterState, chain \in Chain, Nothing(x), x.hdr.added = FALSE,
         NEW code \in Nat \ {0}
  PROVE  /\ sinkWriteHeader(x, code) \in WriterState
         /\ sinkWriteHeader(x, code).comp = x.comp
         /\ Going(sinkWriteHeader(x, code), code, Added(x.hdr), <<>>)
<1>1. PICK z : z = applyOnce(x)
  OBVIOUS
<1>2. z \in WriterState /\ SameBut(z, x) /\ z.applied = chain.headers /\ z.hdr = Added(x.hdr)
  BY Zenon, <1>1, AppliesOnce DEF Nothing
<1>3. z.rec = NewBuffer /\ Fresh(z) /\ z.comp = x.comp
  BY <1>2 DEF Nothing, SameBut, Fresh
<1>4. sinkWriteHeader(x, code) = bufWriteHeader(z, code)
  BY <1>1 DEF sinkWriteHeader
<1>5. CASE chain.retry
  <2> DEFINE r == [status |-> code, body |-> <<>>]
  <2>1. r \in Buffer /\ r.status = code /\ r.body = <<>>
    BY DEF Buffer, Items
  <2>2. PICK b \in Buffer : b = z.rec
    BY <1>2 DEF WriterState
  <2>3. b.status = 0 /\ b.body = <<>>
    BY <1>3, <2>2 DEF NewBuffer
  <2>4. bufWriteHeader(z, code) = [z EXCEPT !.rec = [b EXCEPT !.status = code]]
    BY <1>2, <1>5, <2>2, <2>3 DEF bufWriteHeader, WriterState
  <2>5. PICK c : c = [b EXCEPT !.status = code]
    BY Zenon
  <2>6. c \in Buffer /\ c.status = code /\ c.body = <<>>
    BY <2>3, <2>5 DEF Buffer
  <2> HIDE DEF r
  <2>7. c = r
    BY <2>1, <2>6, BufferIs
  <2>8. PICK y : y = [z EXCEPT !.rec = r]
    BY Zenon
  <2>9. y \in WriterState /\ y.rec = r /\ y.comp = z.comp /\ y.hdr = z.hdr
        /\ y.applied = z.applied /\ Fresh(y)
    BY <1>2, <1>3, <2>1, <2>8, Buffered
  <2>10. sinkWriteHeader(x, code) = y
    BY <1>4, <2>4, <2>5, <2>7, <2>8
  <2> QED
    BY <1>2, <1>3, <1>5, <2>9, <2>10 DEF Going, Gone, r
<1>6. CASE ~ chain.retry
  <2>1. sinkWriteHeader(x, code) = outerWriteHeader(z, code)
    BY <1>4, <1>6 DEF bufWriteHeader
  <2>2. PICK y : y = outerWriteHeader(z, code)
    OBVIOUS
  <2>3. y \in WriterState /\ SameInFront(y, z) /\ Delivered(y, code, z.hdr, <<>>)
    BY <1>2, <1>3, <2>2, FirstHeader
  <2> QED
    BY <1>2, <1>3, <1>6, <2>1, <2>2, <2>3 DEF Going, Gone, SameInFront
<1> QED
  BY <1>5, <1>6

\* What leaves the compressor after that is added to the body.
LEMMA SinkWrite ==
  ASSUME NEW x \in WriterState, chain \in Chain, NEW code \in Nat \ {0}, NEW h,
         NEW items \in Items, Going(x, code, h, items), NEW more \in Items
  PROVE  /\ sinkWrite(x, more) \in WriterState
         /\ sinkWrite(x, more).comp = x.comp
         /\ Going(sinkWrite(x, more), code, h, items \o more)
<1>1. sinkWrite(x, more) = bufWrite(x, more)
  BY DEF sinkWrite, applyOnce, Going, Chain
<1>2. PICK all \in Items : all = items \o more
  <2>1. items \o more \in Items
    BY DEF Items
  <2> QED
    BY Zenon, <2>1
<1>3. CASE chain.retry
  <2> DEFINE r == [status |-> code, body |-> all]
  <2>1. r \in Buffer /\ r.status = code /\ r.body = all
    BY DEF Buffer
  <2>2. PICK b \in Buffer : b = x.rec
    BY DEF WriterState
  <2>3. b.status = code /\ b.body = items /\ x.hdr = h /\ Fresh(x)
    BY <1>3, <2>2 DEF Going, Gone
  <2>4. bufWrite(x, more)
          = [x EXCEPT !.rec = [b EXCEPT !.status = b.status, !.body = b.body \o more]]
    BY Zenon, <1>3, <2>2, <2>3 DEF bufWrite, WriterState
  <2>5. PICK c : c = [b EXCEPT !.status = code, !.body = all]
    OBVIOUS
  <2>6. c \in Buffer /\ c.status = code /\ c.body = all
    BY Zenon, <2>3, <2>5 DEF Buffer
  <2> HIDE DEF r
  <2>7. c = r
    BY <2>1, <2>6, BufferIs
  <2>8. PICK y : y = [x EXCEPT !.rec = r]
    BY Zenon
  <2>9. y \in WriterState /\ y.rec = r /\ y.comp = x.comp /\ y.hdr = x.hdr
        /\ y.applied = x.applied /\ Fresh(y)
    BY <2>1, <2>3, <2>8, Buffered
  <2>10. sinkWrite(x, more) = y
    BY <1>1, <1>2, <2>3, <2>4, <2>5, <2>7, <2>8
  <2> QED
    BY <1>2, <1>3, <2>3, <2>9, <2>10 DEF Going, Gone, r
<1>4. CASE ~ chain.retry
  <2>1. sinkWrite(x, more) = outerWrite(x, more)
    BY <1>1, <1>4 DEF bufWrite
  <2>2. PICK y : y = outerWrite(x, more)
    OBVIOUS
  <2>3. Delivered(x, code, h, items)
    BY <1>4 DEF Going, Gone
  <2>4. y \in WriterState /\ SameInFront(y, x) /\ Delivered(y, code, h, items \o more)
    BY <2>2, <2>3, LaterWrite
  <2> QED
    BY <1>4, <2>1, <2>2, <2>4 DEF Going, Gone, SameInFront
<1> QED
  BY <1>3, <1>4

-----------------------------------------------------------------------------
\* The compressor.

\* Compress has an encoder for what it picks.
LEMMA CodingPicked ==
  ASSUME msg \in Message, Compressing
  PROVE  /\ pickEncoding(msg.accept) \in 1..3
         /\ Encodings[pickEncoding(msg.accept)] \in Range(Encodings)
<1>1. msg.accept \in Seq(Directive)
  BY ExchangeAssumption DEF Message, Directive
<1>2. PICK b : IsBest(b, msg.accept, Len(msg.accept)) /\ pickEncoding(msg.accept) = b.enc
  BY <1>1, PickIsBest
<1>3. pickEncoding(msg.accept) \in 1..3
  BY <1>2 DEF IsBest, Best, Compressing
<1> QED
  BY <1>3, EncodingNames

\* Compress names the coding, and takes the length away.
LEMMA CodedHeaderIs ==
  ASSUME NEW h \in Header, msg \in Message, Compressing
  PROVE  /\ CodedHeader(h) \in Header /\ CodedHeader(h).added = h.added
         /\ CodedHeader(h).coding \in Range(Encodings) /\ CodedHeader(h).length = NoLength
<1>1. PICK c \in Range(Encodings) : c = Encodings[pickEncoding(msg.accept)]
  BY CodingPicked
<1>2. CodedHeader(h) = [h EXCEPT !.coding = c, !.length = -1]
  BY <1>1 DEF CodedHeader, NoLength
<1>3. c \in {"none", "upstream"} \cup Range(Encodings)
  OBVIOUS
<1>4. CodedHeader(h) \in Header
  <2> DEFINE Codings == {"none", "upstream"} \cup Range(Encodings)
  <2>1. h \in [coding : Codings, length : Int, skipType : BOOLEAN, added : BOOLEAN]
        /\ c \in Codings /\ -1 \in Int
    BY <1>3 DEF Header
  <2> HIDE DEF Codings
  <2>2. [h EXCEPT !.coding = c, !.length = -1]
          \in [coding : Codings, length : Int, skipType : BOOLEAN, added : BOOLEAN]
    BY Zenon, <2>1
  <2> QED
    BY <1>2, <2>2 DEF Header, Codings
<1>5. CodedHeader(h).added = h.added /\ CodedHeader(h).coding = c /\ CodedHeader(h).length = -1
  BY <1>2 DEF Header
<1> QED
  BY <1>4, <1>5 DEF NoLength

\* Coding changes no number or order of items.
LEMMA CodedItems ==
  ASSUME NEW items \in Items
  PROVE  /\ Coded(items) \in Items /\ Len(Coded(items)) = Len(items)
         /\ \A i \in 1..Len(items) :
              Coded(items)[i] = [items[i] EXCEPT !.coded = TRUE]
<1>1. DOMAIN items = 1..Len(items) /\ Len(items) \in Nat
  BY DEF Items
<1>2. \A i \in 1..Len(items) : [items[i] EXCEPT !.coded = TRUE] \in Chunk
  <2> TAKE i \in 1..Len(items)
  <2>1. PICK c \in Chunk : c = items[i]
    BY <1>1 DEF Items
  <2>2. [c EXCEPT !.coded = TRUE] \in Chunk
    BY Zenon DEF Chunk
  <2> QED
    BY <2>1, <2>2
<1>3. Coded(items) = [i \in 1..Len(items) |-> [items[i] EXCEPT !.coded = TRUE]]
  BY <1>1 DEF Coded
<1> QED
  BY <1>1, <1>2, <1>3 DEF Items

\* A compressor that has decided is one.
LEMMA CompressorCommits ==
  ASSUME NEW c \in Compressor, NEW yes \in BOOLEAN, NEW code \in Nat, NEW e \in Items
  PROVE  [c EXCEPT !.committed = TRUE, !.compress = yes, !.status = code, !.buf = e]
           \in Compressor
BY Zenon DEF Compressor

\* Compress hands on what it has of x, coded or not.
Committed(x, yes, code) ==
  /\ commit(x) \in WriterState
  /\ commit(x).comp = [x.comp EXCEPT !.committed = TRUE, !.compress = yes,
                                     !.status = code, !.buf = <<>>]
  /\ Going(commit(x), code, Added(IF yes THEN CodedHeader(x.hdr) ELSE x.hdr),
           IF yes THEN Coded(x.comp.buf) ELSE x.comp.buf)

\* commit hands on everything buffered, under the headers that say how it is coded.
LEMMA Commits ==
  ASSUME NEW x \in WriterState, chain \in Chain, msg \in Message, Compressing,
         Nothing(x), x.hdr.added = FALSE, NEW yes \in BOOLEAN, NEW code \in Nat
  PROVE  /\ yes = shouldCompress(x)
         /\ code = IF x.comp.status = 0 THEN 200 ELSE x.comp.status
         => Committed(x, yes, code)
<1>1. SUFFICES ASSUME yes = shouldCompress(x),
                      code = IF x.comp.status = 0 THEN 200 ELSE x.comp.status
               PROVE  /\ commit(x) \in WriterState
                      /\ commit(x).comp = [x.comp EXCEPT !.committed = TRUE, !.compress = yes,
                                                         !.status = code, !.buf = <<>>]
                      /\ Going(commit(x), code, Added(IF yes THEN CodedHeader(x.hdr) ELSE x.hdr),
                               IF yes THEN Coded(x.comp.buf) ELSE x.comp.buf)
  BY DEF Committed
<1>2. x.comp \in Compressor /\ x.comp.buf \in Items /\ x.hdr \in Header /\ code \in Nat \ {0}
      /\ <<>> \in Items
  <2>1. x.comp \in Compressor /\ x.hdr \in Header
    BY DEF WriterState
  <2> QED
    BY <1>1, <2>1 DEF Compressor, Items
<1> DEFINE new == [x.comp EXCEPT !.committed = TRUE, !.compress = yes, !.status = code,
                                 !.buf = <<>>]
           y == [x EXCEPT !.comp.committed = TRUE, !.comp.compress = yes, !.comp.status = code,
                          !.comp.buf = <<>>]
           h == IF yes THEN CodedHeader(x.hdr) ELSE x.hdr
           out == IF yes THEN Coded(x.comp.buf) ELSE x.comp.buf
<1>3. new \in Compressor
  <2>1. PICK c \in Compressor : c = x.comp
    BY <1>2
  <2>2. PICK e \in Items : e = <<>>
    BY <1>2
  <2>3. [c EXCEPT !.committed = TRUE, !.compress = yes, !.status = code, !.buf = e] \in Compressor
    BY Zenon, CompressorCommits
  <2> QED
    BY <2>1, <2>2, <2>3
<1>4. y = [x EXCEPT !.comp = new]
  BY Zenon DEF WriterState
<1> HIDE DEF new, y
<1>5. h \in Header /\ h.added = FALSE
  BY <1>2, CodedHeaderIs
<1>6. out \in Items
  BY <1>2, CodedItems
<1>7. PICK v : v = IF yes THEN setCoding(y) ELSE y
  OBVIOUS
<1>8. v \in WriterState /\ v.comp = new /\ v.hdr = h /\ Nothing(v)
  <2>1. y \in WriterState /\ y.comp = new /\ y.hdr = x.hdr /\ y.net = x.net
        /\ y.wroteHeader = x.wroteHeader /\ y.logging = x.logging /\ y.logged = x.logged
        /\ y.rec = x.rec /\ y.applied = x.applied
    BY <1>3, <1>4 DEF WriterState
  <2>2. Nothing(y)
    BY <2>1 DEF Nothing, Fresh
  <2>3. CASE ~ yes
    BY <1>7, <2>1, <2>2, <2>3
  <2>4. CASE yes
    <3>1. setCoding(y) = [y EXCEPT !.hdr = CodedHeader(x.hdr)]
      BY Zenon, <2>1 DEF setCoding, CodedHeader, WriterState
    <3>2. PICK g \in Header : g = CodedHeader(x.hdr)
      BY <1>2, CodedHeaderIs
    <3>3. v = [y EXCEPT !.hdr = g]
      BY <1>7, <2>4, <3>1, <3>2
    <3>4. v \in WriterState /\ v.comp = y.comp /\ v.hdr = g /\ v.net = y.net
          /\ v.wroteHeader = y.wroteHeader /\ v.logging = y.logging /\ v.logged = y.logged
          /\ v.rec = y.rec /\ v.applied = y.applied
      BY <2>1, <3>3 DEF WriterState
    <3> QED
      BY <2>1, <2>2, <2>4, <3>2, <3>4 DEF Nothing, Fresh
  <2> QED
    BY <2>3, <2>4
<1>9. PICK z : z = sinkWriteHeader(v, code)
  OBVIOUS
<1>10. z \in WriterState /\ z.comp = new /\ Going(z, code, Added(h), <<>>)
  <2> HIDE DEF h
  <2>1. v.hdr.added = FALSE
    BY <1>5, <1>8
  <2>2. v \in WriterState /\ Nothing(v) /\ code \in Nat \ {0}
    BY <1>2, <1>8
  <2>3. /\ sinkWriteHeader(v, code) \in WriterState
        /\ sinkWriteHeader(v, code).comp = v.comp
        /\ Going(sinkWriteHeader(v, code), code, Added(v.hdr), <<>>)
    BY <2>1, <2>2, SinkHeader, Zenon
  <2> QED
    BY <1>8, <1>9, <2>3
<1>11. commit(x) = IF x.comp.buf = <<>> THEN z ELSE sinkWrite(z, out)
  BY <1>1, <1>7, <1>9 DEF commit, y
<1>12. CASE x.comp.buf = <<>>
  <2>1. out = <<>>
    <3>1. Coded(<<>>) = <<>>
      BY <1>2, <1>12, CodedItems
    <3> QED
      BY <1>12, <3>1
  <2> QED
    BY <1>10, <1>11, <1>12, <2>1 DEF new
<1>13. CASE x.comp.buf # <<>>
  <2>1. commit(x) = sinkWrite(z, out)
    BY <1>11, <1>13
  <2>2. sinkWrite(z, out) \in WriterState /\ sinkWrite(z, out).comp = new
        /\ Going(sinkWrite(z, out), code, Added(h), <<>> \o out)
    <3>1. PICK g : g = Added(h)
      OBVIOUS
    <3>2. PICK none \in Items : none = <<>>
      BY <1>2
    <3> HIDE DEF out, h
    <3>3. Going(z, code, g, none)
      BY <1>10, <3>1, <3>2
    <3>4. z \in WriterState /\ code \in Nat \ {0} /\ out \in Items
      BY <1>2, <1>6, <1>10
    <3>5. /\ sinkWrite(z, out) \in WriterState /\ sinkWrite(z, out).comp = z.comp
          /\ Going(sinkWrite(z, out), code, g, none \o out)
      BY <3>3, <3>4, SinkWrite, Zenon
    <3> QED
      BY <1>10, <3>1, <3>2, <3>5
  <2>3. <<>> \o out = out
    BY <1>6 DEF Items
  <2> QED
    BY <2>1, <2>2, <2>3 DEF new
<1> QED
  BY <1>12, <1>13

\* The chunk of an attempt with this index.
ChunkAt(i, size, coded) ==
  [attempt |-> attempt, index |-> i, size |-> size, coded |-> coded]

\* An attempt's first n chunks are n items.
LEMMA ChunksAre ==
  ASSUME attempt \in Nat, NEW sizes \in Sizes, NEW n \in Nat, n <= Len(sizes),
         NEW coded \in BOOLEAN
  PROVE  /\ Chunks(sizes, n, coded) \in Items /\ Len(Chunks(sizes, n, coded)) = n
         /\ \A i \in 1..n : Chunks(sizes, n, coded)[i] = ChunkAt(i, sizes[i], coded)
<1>1. \A i \in 1..n : ChunkAt(i, sizes[i], coded) \in Chunk
  BY DEF ChunkAt, Chunk, Sizes
<1>2. Chunks(sizes, n, coded) = [i \in 1..n |-> ChunkAt(i, sizes[i], coded)]
  BY DEF Chunks, ChunkAt
<1> QED
  BY <1>1, <1>2 DEF Items

\* No chunks are no items.
LEMMA NoChunks ==
  ASSUME NEW sizes, NEW coded
  PROVE  Chunks(sizes, 0, coded) = <<>>
BY DEF Chunks

\* One more chunk behind n is n + 1 of them.
LEMMA NextChunk ==
  ASSUME attempt \in Nat, NEW sizes \in Sizes, NEW n \in Nat, n < Len(sizes),
         NEW coded \in BOOLEAN
  PROVE  /\ <<ChunkAt(n + 1, sizes[n + 1], coded)>> \in Items
         /\ Chunks(sizes, n, coded) \o <<ChunkAt(n + 1, sizes[n + 1], coded)>>
              = Chunks(sizes, n + 1, coded)
<1>1. n + 1 \in Nat /\ n + 1 <= Len(sizes) /\ n <= Len(sizes) /\ Len(sizes) \in Nat
  BY DEF Sizes
<1>2. PICK s \in Items : s = Chunks(sizes, n, coded) /\ Len(s) = n
        /\ \A i \in 1..n : s[i] = ChunkAt(i, sizes[i], coded)
  BY <1>1, ChunksAre
<1>3. PICK t \in Items : t = Chunks(sizes, n + 1, coded) /\ Len(t) = n + 1
        /\ \A i \in 1..(n + 1) : t[i] = ChunkAt(i, sizes[i], coded)
  BY <1>1, ChunksAre
<1>4. PICK c \in Chunk : c = ChunkAt(n + 1, sizes[n + 1], coded) /\ c = t[n + 1]
  BY <1>3 DEF Items
<1>5. s \o <<c>> = t
  <2>1. s \in Seq(Chunk) /\ t \in Seq(Chunk) /\ <<c>> \in Seq(Chunk) /\ Len(<<c>>) = 1
    BY DEF Items
  <2>2. s \o <<c>> \in Seq(Chunk) /\ Len(s \o <<c>>) = n + 1
    BY <1>2, <2>1
  <2>3. \A i \in 1..(n + 1) : (s \o <<c>>)[i] = t[i]
    BY <1>2, <1>3, <1>4, <2>1
  <2> QED
    BY <1>3, <2>1, <2>2, <2>3, SameSeq
<1> QED
  BY <1>2, <1>3, <1>4, <1>5 DEF Items

\* A chunk has the fields it was given.
LEMMA ChunkAtIs ==
  ASSUME attempt \in Nat, NEW i \in Nat, NEW size \in Nat, NEW coded \in BOOLEAN
  PROVE  /\ ChunkAt(i, size, coded) \in Chunk
         /\ ChunkAt(i, size, coded).attempt = attempt /\ ChunkAt(i, size, coded).index = i
         /\ ChunkAt(i, size, coded).size = size /\ ChunkAt(i, size, coded).coded = coded
BY DEF ChunkAt, Chunk

\* A chunk is what its fields are.
LEMMA ChunkIs ==
  ASSUME NEW c \in Chunk, NEW d \in Chunk, c.attempt = d.attempt, c.index = d.index,
         c.size = d.size, c.coded = d.coded
  PROVE  c = d
BY DEF Chunk

\* Coding one chunk.
LEMMA OneCoded ==
  ASSUME attempt \in Nat, NEW i \in Nat, NEW size \in Nat
  PROVE  Coded(<<ChunkAt(i, size, FALSE)>>) = <<ChunkAt(i, size, TRUE)>>
<1>1. PICK c \in Chunk : /\ c = ChunkAt(i, size, FALSE)
                         /\ c.attempt = attempt /\ c.index = i /\ c.size = size
  BY Zenon, ChunkAtIs
<1>2. PICK d \in Chunk : /\ d = ChunkAt(i, size, TRUE)
                         /\ d.attempt = attempt /\ d.index = i /\ d.size = size /\ d.coded = TRUE
  BY Zenon, ChunkAtIs
<1>3. [c EXCEPT !.coded = TRUE] = d
  <2>1. PICK e : e = [c EXCEPT !.coded = TRUE]
    BY Zenon
  <2>2. e \in Chunk /\ e.attempt = c.attempt /\ e.index = c.index /\ e.size = c.size
        /\ e.coded = TRUE
    BY Zenon, <2>1 DEF Chunk
  <2>3. e = d
    BY Zenon, <1>1, <1>2, <2>2, ChunkIs
  <2> QED
    BY <2>1, <2>3
<1>4. <<c>> \in Items /\ Len(<<c>>) = 1 /\ <<c>>[1] = c
  BY DEF Items
<1>5. PICK s \in Items : s = <<c>> /\ Len(s) = 1 /\ s[1] = c
  BY <1>4
<1>6. Coded(s) \in Seq(Chunk) /\ Len(Coded(s)) = 1 /\ Coded(s)[1] = d
  <2>1. Coded(s) \in Items /\ Len(Coded(s)) = 1
        /\ \A k \in 1..Len(s) : Coded(s)[k] = [s[k] EXCEPT !.coded = TRUE]
    BY <1>5, CodedItems
  <2>2. Coded(s)[1] = [s[1] EXCEPT !.coded = TRUE]
    BY <1>5, <2>1
  <2>3. Coded(s)[1] = d
    BY Zenon, <1>3, <1>5, <2>2
  <2> QED
    BY <2>1, <2>3 DEF Items
<1>7. Coded(s) = <<d>>
  BY <1>6
<1> QED
  BY Zenon, <1>1, <1>2, <1>5, <1>7

\* The size of one chunk.
LEMMA OneSized ==
  ASSUME NEW i, NEW size \in Nat
  PROVE  Size(<<ChunkAt(i, size, FALSE)>>) = size
<1>1. [k \in DOMAIN <<ChunkAt(i, size, FALSE)>> |-> <<ChunkAt(i, size, FALSE)>>[k].size] = <<size>>
  BY DEF ChunkAt
<1> QED
  BY <1>1, TotalOfFirst DEF Size

\* y is x but for the compressor.
LEMMA Compressed ==
  ASSUME NEW x \in WriterState, NEW c \in Compressor, NEW y, y = [x EXCEPT !.comp = c]
  PROVE  /\ y \in WriterState /\ y.comp = c /\ y.hdr = x.hdr /\ (Nothing(x) => Nothing(y))
<1>1. y \in WriterState
  BY DEF WriterState
<1>2. y.comp = c /\ y.hdr = x.hdr /\ y.applied = x.applied /\ y.rec = x.rec
  BY DEF WriterState
<1>3. y.net = x.net /\ y.wroteHeader = x.wroteHeader /\ y.logging = x.logging
      /\ y.logged = x.logged
  BY DEF WriterState
<1> QED
  BY <1>1, <1>2, <1>3 DEF Fresh, Nothing

\* A compressor that was told nothing.
LEMMA CompressorFields ==
  /\ NewCompressor \in Compressor /\ NewCompressor.wroteHeader = FALSE
  /\ NewCompressor.committed = FALSE /\ NewCompressor.compress = FALSE
  /\ NewCompressor.status = 0 /\ NewCompressor.buf = <<>>
BY DEF NewCompressor, Compressor, Items

\* The compressor that has the header and nothing else.
Told(code) == [NewCompressor EXCEPT !.wroteHeader = TRUE, !.status = code]

\* One that was told the status.
LEMMA ToldFields ==
  ASSUME NEW code \in Nat
  PROVE  /\ Told(code) \in Compressor /\ Told(code).wroteHeader = TRUE
         /\ Told(code).committed = FALSE /\ Told(code).compress = FALSE
         /\ Told(code).status = code /\ Told(code).buf = <<>>
<1>1. PICK n \in Compressor : /\ n = NewCompressor /\ n.wroteHeader = FALSE
                             /\ n.committed = FALSE /\ n.compress = FALSE
                             /\ n.status = 0 /\ n.buf = <<>>
  BY CompressorFields
<1>2. Told(code) = [n EXCEPT !.wroteHeader = TRUE, !.status = code]
  BY <1>1 DEF Told
<1> QED
  BY Zenon, <1>1, <1>2 DEF Compressor

\* An answer's status and headers are written, and nothing of its body.
LEMMA HeaderWritten ==
  ASSUME NEW x \in WriterState, chain \in Chain, Nothing(x), x.comp = NewCompressor,
         x.hdr.added = FALSE, NEW code \in Nat \ {0}, NEW sizes
  PROVE  /\ WriteHeader(x, code) \in WriterState
         /\ Copied(WriteHeader(x, code), code, x.hdr, sizes, 0)
<1>1. CASE ~ Compressing
  <2>1. WriteHeader(x, code) = sinkWriteHeader(x, code)
    BY <1>1 DEF WriteHeader
  <2>2. PICK y : y = sinkWriteHeader(x, code)
    OBVIOUS
  <2>3. y \in WriterState /\ y.comp = NewCompressor /\ Going(y, code, Added(x.hdr), <<>>)
    BY Zenon, <2>2, SinkHeader
  <2>4. Copied(y, code, x.hdr, sizes, 0)
    BY Zenon, <1>1, <2>3, NoChunks DEF Copied
  <2> QED
    BY <2>1, <2>2, <2>3, <2>4
<1>2. CASE Compressing
  <2>1. x.comp.wroteHeader = FALSE
    BY CompressorFields
  <2>2. WriteHeader(x, code) = [x EXCEPT !.comp = Told(code)]
    BY Zenon, <1>2, <2>1 DEF WriteHeader, Told, WriterState
  <2>3. PICK y : y = [x EXCEPT !.comp = Told(code)]
    BY Zenon
  <2>4. Told(code) \in Compressor
    BY Zenon, ToldFields
  <2>5. y \in WriterState /\ y.comp = Told(code) /\ y.hdr = x.hdr /\ Nothing(y)
    BY <2>3, <2>4, Compressed
  <2>6. Copied(y, code, x.hdr, sizes, 0)
    BY <1>2, <2>5 DEF Copied, Told
  <2> QED
    BY <2>2, <2>3, <2>5, <2>6
<1> QED
  BY <1>1, <1>2

\* A chunk is copied when Compress has decided, or is not there.
LEMMA LaterChunk ==
  ASSUME NEW x \in WriterState, chain \in Chain, attempt \in Nat, NEW code \in Nat \ {0},
         NEW sizes \in Sizes, NEW n \in Nat, n < Len(sizes), NEW coded \in BOOLEAN, NEW g,
         Going(x, code, g, Chunks(sizes, n, coded)), NEW y,
         y = sinkWrite(x, <<ChunkAt(n + 1, sizes[n + 1], coded)>>)
  PROVE  /\ y \in WriterState /\ y.comp = x.comp
         /\ Going(y, code, g, Chunks(sizes, n + 1, coded))
<1>1. PICK more \in Items : /\ more = <<ChunkAt(n + 1, sizes[n + 1], coded)>>
                           /\ Chunks(sizes, n, coded) \o more = Chunks(sizes, n + 1, coded)
  BY Zenon, NextChunk
<1>2. PICK items \in Items : items = Chunks(sizes, n, coded)
  <2>1. n <= Len(sizes)
    BY DEF Sizes
  <2> QED
    BY <2>1, ChunksAre
<1>3. y = sinkWrite(x, more) /\ Going(x, code, g, items)
  BY <1>1, <1>2
<1>4. y \in WriterState /\ y.comp = x.comp /\ Going(y, code, g, items \o more)
  BY <1>3, SinkWrite
<1> QED
  BY Zenon, <1>1, <1>2, <1>4

\* An answer's first chunk.
LEMMA OneChunk ==
  ASSUME attempt \in Nat, NEW sizes \in Sizes, 1 <= Len(sizes), NEW coded \in BOOLEAN
  PROVE  /\ Chunks(sizes, 1, coded) = <<ChunkAt(1, sizes[1], coded)>>
         /\ Chunks(sizes, 1, coded) \in Items /\ Chunks(sizes, 1, coded) # <<>>
         /\ sizes[1] \in Nat
<1>1. 0 \in Nat /\ 0 < Len(sizes) /\ 1 \in Nat /\ 0 + 1 = 1 /\ sizes[1] \in Nat
  BY DEF Sizes
<1>2. PICK one \in Items : one = <<ChunkAt(0 + 1, sizes[0 + 1], coded)>>
                           /\ Chunks(sizes, 0, coded) \o one = Chunks(sizes, 0 + 1, coded)
  BY Zenon, <1>1, NextChunk
<1>3. <<>> \o one = one
  BY DEF Items
<1>4. one # <<>>
  BY <1>2
<1> QED
  BY <1>1, <1>2, <1>3, <1>4, NoChunks

\* What Compress decides on, when it has the header of an answer and its first
\* n chunks, n at most 1.
LEMMA Decides ==
  ASSUME NEW x \in WriterState, Compressing, NEW h, x.hdr = h, NEW code \in Nat,
         x.comp.status = code, NEW sizes \in Sizes, NEW n \in {0, 1}, n <= Len(sizes),
         attempt \in Nat, x.comp.buf = Chunks(sizes, n, FALSE), shouldCompress(x)
  PROVE  Codable(code, h, sizes, n)
<1>1. h.coding = "none" /\ ~ h.skipType /\ code # 204
      /\ (x.comp.buf = <<>> \/ Size(x.comp.buf) >= MinBytes)
  BY Zenon DEF shouldCompress
<1>2. ASSUME n = 1 PROVE sizes[1] >= MinBytes
  <2>1. 1 <= Len(sizes) /\ x.comp.buf = Chunks(sizes, 1, FALSE)
    BY <1>2
  <2>2. x.comp.buf = <<ChunkAt(1, sizes[1], FALSE)>> /\ x.comp.buf # <<>> /\ sizes[1] \in Nat
    BY Zenon, <2>1, OneChunk
  <2>3. Size(x.comp.buf) = sizes[1]
    BY Zenon, <2>2, OneSized
  <2> QED
    BY Zenon, <1>1, <2>2, <2>3
<1> QED
  BY <1>1, <1>2 DEF Codable

\* Compress commits an answer with its first n chunks, n at most 1.
LEMMA CommitsAnswer ==
  ASSUME NEW x \in WriterState, chain \in Chain, msg \in Message, attempt \in Nat,
         Compressing, Nothing(x), NEW h, x.hdr = h, h.added = FALSE,
         NEW code \in Nat \ {0}, NEW sizes \in Sizes, NEW n \in {0, 1}, n <= Len(sizes),
         x.comp.status = code, x.comp.buf = Chunks(sizes, n, FALSE), NEW y, y = commit(x)
  PROVE  y \in WriterState /\ y.comp.wroteHeader = x.comp.wroteHeader
         /\ Decided(y, code, h, sizes, n)
<1>1. PICK yes \in BOOLEAN : yes = shouldCompress(x)
  <2>1. shouldCompress(x) \in BOOLEAN
    BY DEF shouldCompress
  <2> QED
    BY <2>1
<1>2. code = IF x.comp.status = 0 THEN 200 ELSE x.comp.status
  OBVIOUS
<1>3. /\ commit(x) \in WriterState
      /\ commit(x).comp = [x.comp EXCEPT !.committed = TRUE, !.compress = yes,
                                         !.status = code, !.buf = <<>>]
      /\ Going(commit(x), code, Added(IF yes THEN CodedHeader(x.hdr) ELSE x.hdr),
               IF yes THEN Coded(x.comp.buf) ELSE x.comp.buf)
  <2>1. Committed(x, yes, code)
    BY Zenon, <1>1, <1>2, Commits
  <2> QED
    BY Zenon, <2>1 DEF Committed
<1>4. y.comp.committed /\ y.comp.wroteHeader = x.comp.wroteHeader /\ y.comp.buf = <<>>
      /\ y.comp.compress = yes
  <2>1. PICK c \in Compressor : c = x.comp
    BY DEF WriterState
  <2>2. y.comp = [c EXCEPT !.committed = TRUE, !.compress = yes, !.status = code, !.buf = <<>>]
    BY <1>3, <2>1
  <2> QED
    BY <2>1, <2>2 DEF Compressor
<1>5. ASSUME yes PROVE Codable(code, h, sizes, n)
  BY Zenon, <1>1, <1>5, Decides
<1>6. (IF yes THEN Coded(x.comp.buf) ELSE x.comp.buf) = Chunks(sizes, n, yes)
  <2>1. CASE ~ yes
    BY Zenon, <2>1
  <2>2. CASE yes /\ n = 0
    <3>1. Coded(<<>>) = <<>>
      BY DEF Coded
    <3> QED
      BY Zenon, <2>2, <3>1, NoChunks
  <2>3. CASE yes /\ n = 1
    <3>1. 1 <= Len(sizes) /\ 1 \in Nat
      BY <2>3
    <3>2. /\ Chunks(sizes, 1, FALSE) = <<ChunkAt(1, sizes[1], FALSE)>>
          /\ Chunks(sizes, 1, TRUE) = <<ChunkAt(1, sizes[1], TRUE)>> /\ sizes[1] \in Nat
      BY Zenon, <3>1, OneChunk
    <3>3. Coded(Chunks(sizes, 1, FALSE)) = Chunks(sizes, 1, TRUE)
      BY Zenon, <3>1, <3>2, OneCoded
    <3> QED
      BY Zenon, <2>3, <3>3
  <2> QED
    BY Zenon, <2>1, <2>2, <2>3
<1> QED
  BY Zenon, <1>3, <1>4, <1>5, <1>6 DEF Decided

\* The first chunk is copied to Compress: it decides, in Write or in Flush.
LEMMA FirstChunk ==
  ASSUME NEW x \in WriterState, chain \in Chain, msg \in Message, attempt \in Nat,
         Compressing, NEW h, h.added = FALSE, NEW code \in Nat \ {0},
         NEW sizes \in Sizes, Len(sizes) > 0, NEW v, NEW y
  PROVE  /\ Copied(x, code, h, sizes, 0)
         /\ v = Write(x, <<ChunkAt(1, sizes[1], FALSE)>>) /\ y = Flush(v)
         => /\ y \in WriterState /\ Copied(y, code, h, sizes, 1)
            /\ Close(v) = Close(y)
<1>1. SUFFICES ASSUME Copied(x, code, h, sizes, 0),
                      v = Write(x, <<ChunkAt(1, sizes[1], FALSE)>>), y = Flush(v)
               PROVE  /\ y \in WriterState /\ Copied(y, code, h, sizes, 1)
                      /\ Close(v) = Close(y)
  OBVIOUS
<1>2. x.comp = Told(code) /\ x.hdr = h /\ Nothing(x)
  BY <1>1 DEF Copied, Told
<1>3. PICK one \in Items : one = <<ChunkAt(1, sizes[1], FALSE)>> /\ one = Chunks(sizes, 1, FALSE)
  <2>1. 1 <= Len(sizes)
    BY DEF Sizes
  <2> QED
    BY Zenon, <2>1, OneChunk
<1>4. PICK c : c = [x.comp EXCEPT !.buf = one]
  BY Zenon
<1>5. c \in Compressor /\ c.wroteHeader = TRUE /\ c.committed = FALSE /\ c.status = code
      /\ c.buf = one
  <2>1. PICK t \in Compressor : t = x.comp /\ t.wroteHeader = TRUE /\ t.committed = FALSE
                               /\ t.status = code
    BY Zenon, <1>2, ToldFields
  <2>2. c = [t EXCEPT !.buf = one]
    BY <1>4, <2>1
  <2> QED
    BY <2>1, <2>2 DEF Compressor
<1>6. PICK z : z = [x EXCEPT !.comp = c]
  BY Zenon
<1>7. z \in WriterState /\ z.comp = c /\ z.hdr = h /\ Nothing(z)
  BY <1>2, <1>5, <1>6, Compressed
<1>8. v = IF Size(z.comp.buf) < MinBytes THEN z ELSE commit(z)
  <2>1. x.comp.wroteHeader = TRUE /\ x.comp.committed = FALSE /\ x.comp.buf = <<>>
    BY Zenon, <1>2, ToldFields
  <2>2. <<>> \o one = one
    BY DEF Items
  <2>3. [x EXCEPT !.comp.buf = @ \o one] = z
    <3>1. [x EXCEPT !.comp.buf = @ \o one]
            = [x EXCEPT !.comp = [x.comp EXCEPT !.buf = x.comp.buf \o one]]
      BY DEF WriterState
    <3> QED
      BY <1>4, <1>6, <2>1, <2>2, <3>1
  <2> QED
    BY Zenon, <1>1, <1>3, <2>1, <2>3 DEF Write
<1>9. PICK u : u = commit(z)
  OBVIOUS
<1>10. u \in WriterState /\ u.comp.wroteHeader = TRUE /\ Decided(u, code, h, sizes, 1)
  <2>1. PICK n \in {0, 1} : n = 1 /\ n <= Len(sizes)
    BY DEF Sizes
  <2>2. z.comp.status = code /\ z.comp.buf = Chunks(sizes, n, FALSE) /\ z.comp.wroteHeader = TRUE
    BY Zenon, <1>3, <1>5, <1>7, <2>1
  <2>3. u \in WriterState /\ u.comp.wroteHeader = z.comp.wroteHeader
        /\ Decided(u, code, h, sizes, n)
    BY Zenon, <1>7, <1>9, <2>1, <2>2, CommitsAnswer
  <2> QED
    BY <2>1, <2>2, <2>3
<1>11. y = u
  <2>1. z.comp.committed = FALSE
    BY <1>5, <1>7
  <2>2. u.comp.committed
    BY <1>10 DEF Decided
  <2> QED
    BY <1>1, <1>8, <1>9, <2>1, <2>2 DEF Flush
<1>12. Close(v) = Close(y)
  <2>1. CASE v = u
    BY <1>11, <2>1
  <2>2. CASE v = z
    <3>1. z.comp.committed = FALSE
      BY <1>5, <1>7
    <3>2. u.comp.committed
      BY <1>10 DEF Decided
    <3> QED
      BY <1>9, <1>11, <2>2, <3>1, <3>2 DEF Close
  <2> QED
    BY <1>8, <1>9, <2>1, <2>2
<1>13. Copied(y, code, h, sizes, 1)
  BY <1>10, <1>11 DEF Copied
<1> QED
  BY <1>10, <1>11, <1>12, <1>13

\* One more chunk after the first n.
Advances(x, code, h, sizes, n) ==
  LET v == Write(x, <<ChunkAt(n + 1, sizes[n + 1], FALSE)>>)
      y == Flush(v)
  IN  y \in WriterState /\ Copied(y, code, h, sizes, n + 1) /\ Close(v) = Close(y)

\* A chunk is copied: one round of copyResponse's loop, or an error's one line.
LEMMA ChunkWritten ==
  ASSUME NEW x \in WriterState, chain \in Chain, msg \in Message, attempt \in Nat,
         NEW h, h.added = FALSE, NEW code \in Nat \ {0},
         NEW sizes \in Sizes, NEW n \in Nat, n < Len(sizes), Copied(x, code, h, sizes, n)
  PROVE  Advances(x, code, h, sizes, n)
<1>1. SUFFICES ASSUME NEW v, NEW y,
                      v = Write(x, <<ChunkAt(n + 1, sizes[n + 1], FALSE)>>), y = Flush(v)
               PROVE  /\ y \in WriterState /\ Copied(y, code, h, sizes, n + 1)
                      /\ Close(v) = Close(y)
  BY Zenon DEF Advances
<1>2. CASE ~ Compressing
  <2>1. v = sinkWrite(x, <<ChunkAt(n + 1, sizes[n + 1], FALSE)>>) /\ y = v
    BY <1>1, <1>2 DEF Write, Flush
  <2>2. x.comp = NewCompressor /\ Going(x, code, Added(h), Chunks(sizes, n, FALSE))
    BY Zenon, <1>1, <1>2 DEF Copied
  <2>3. PICK no \in BOOLEAN : no = FALSE
    BY Zenon
  <2>4. PICK g : g = Added(h)
    OBVIOUS
  <2>5. v \in WriterState /\ v.comp = x.comp /\ Going(v, code, g, Chunks(sizes, n + 1, no))
    <3>1. /\ v = sinkWrite(x, <<ChunkAt(n + 1, sizes[n + 1], no)>>)
          /\ Going(x, code, g, Chunks(sizes, n, no))
      BY Zenon, <2>1, <2>2, <2>3, <2>4
    <3> QED
      BY <3>1, LaterChunk
  <2> QED
    BY Zenon, <1>2, <2>1, <2>2, <2>3, <2>4, <2>5 DEF Copied
<1>3. CASE Compressing /\ n = 0
  <2>1. Len(sizes) > 0 /\ n + 1 = 1
    BY <1>3
  <2>2. Copied(x, code, h, sizes, 0) /\ v = Write(x, <<ChunkAt(1, sizes[1], FALSE)>>)
    BY <1>1, <1>3, <2>1
  <2>3. y \in WriterState /\ Copied(y, code, h, sizes, 1) /\ Close(v) = Close(y)
    BY Zenon, <1>1, <1>3, <2>1, <2>2, FirstChunk
  <2> QED
    BY <2>1, <2>3
<1>4. CASE Compressing /\ n # 0
  <2>1. x.comp.wroteHeader /\ Decided(x, code, h, sizes, n)
    BY <1>1, <1>4 DEF Copied
  <2>2. PICK yes \in BOOLEAN : yes = x.comp.compress
    BY DEF WriterState, Compressor
  <2>3. PICK g : g = Added(IF yes THEN CodedHeader(h) ELSE h)
    BY Zenon
  <2>4. x.comp.committed /\ x.comp.buf = <<>> /\ (yes => Codable(code, h, sizes, n))
        /\ Going(x, code, g, Chunks(sizes, n, yes))
    BY <2>1, <2>2, <2>3 DEF Decided
  <2>5. v = sinkWrite(x, <<ChunkAt(n + 1, sizes[n + 1], yes)>>)
    <3>1. v = sinkWrite(x, IF yes THEN Coded(<<ChunkAt(n + 1, sizes[n + 1], FALSE)>>)
                           ELSE <<ChunkAt(n + 1, sizes[n + 1], FALSE)>>)
      BY <1>1, <1>4, <2>1, <2>2, <2>4 DEF Write
    <3>2. n + 1 \in Nat /\ sizes[n + 1] \in Nat
      BY DEF Sizes
    <3>3. Coded(<<ChunkAt(n + 1, sizes[n + 1], FALSE)>>) = <<ChunkAt(n + 1, sizes[n + 1], TRUE)>>
      BY Zenon, <3>2, OneCoded
    <3>4. CASE yes
      BY Zenon, <3>1, <3>3, <3>4
    <3>5. CASE ~ yes
      BY Zenon, <3>1, <3>5
    <3> QED
      BY Zenon, <3>4, <3>5
  <2>6. v \in WriterState /\ v.comp = x.comp /\ Going(v, code, g, Chunks(sizes, n + 1, yes))
    BY <2>4, <2>5, LaterChunk
  <2>7. y = v
    BY Zenon, <1>1, <2>4, <2>6 DEF Flush
  <2>8. yes => Codable(code, h, sizes, n + 1)
    <3>1. n > 0 /\ n + 1 > 0
      BY <1>4
    <3> QED
      BY <2>4, <3>1 DEF Codable
  <2>9. n + 1 # 0
    OBVIOUS
  <2>10. Decided(y, code, h, sizes, n + 1)
    BY <2>2, <2>3, <2>4, <2>6, <2>7, <2>8 DEF Decided
  <2> QED
    BY <1>4, <2>1, <2>6, <2>7, <2>9, <2>10 DEF Copied
<1> QED
  BY <1>2, <1>3, <1>4

\* What has been handed on is the whole of an answer.
Ended(y, code, h, sizes, n) ==
  \E g, items : Going(y, code, g, items) /\ Whole(code, g, items, code, h, sizes, n)

\* What ends a coded body is one of a body's items.
LEMMA TrailerIsItem == Trailer \in Chunk /\ <<Trailer>> \in Items
<1>1. Trailer \in Chunk
  BY DEF Trailer, Chunk
<1> QED
  BY <1>1 DEF Items

\* One item behind others, in two ways of writing it.
LEMMA AppendIs ==
  \A s \in Items, e \in Chunk : s \o <<e>> = Append(s, e)
<1>1. ASSUME NEW S, NEW s \in Seq(S), NEW e \in S
      PROVE  s \o <<e>> = Append(s, e)
  OBVIOUS
<1> QED
  BY <1>1 DEF Items

\* Compress ends a coded answer.
LEMMA CloseDecided ==
  ASSUME NEW x \in WriterState, chain \in Chain, attempt \in Nat, Compressing,
         NEW h, NEW code \in Nat \ {0}, NEW sizes \in Sizes, NEW n \in Nat, n <= Len(sizes),
         Decided(x, code, h, sizes, n), NEW y
  PROVE  y = (IF x.comp.compress THEN sinkWrite(x, <<Trailer>>) ELSE x)
         => y \in WriterState /\ y.comp = x.comp /\ Ended(y, code, h, sizes, n)
<1>1. SUFFICES ASSUME y = (IF x.comp.compress THEN sinkWrite(x, <<Trailer>>) ELSE x)
               PROVE  y \in WriterState /\ y.comp = x.comp /\ Ended(y, code, h, sizes, n)
  OBVIOUS
<1>2. CASE x.comp.compress
  <2>1. y = sinkWrite(x, <<Trailer>>)
    BY <1>1, <1>2
  <2>2. x.comp.compress = TRUE
    BY <1>2 DEF WriterState, Compressor
  <2>3. PICK g : g = Added(CodedHeader(h))
    OBVIOUS
  <2>4. PICK items \in Items : items = Chunks(sizes, n, TRUE)
    BY Zenon, ChunksAre
  <2>5. Codable(code, h, sizes, n) /\ Going(x, code, g, items)
    BY Zenon, <2>2, <2>3, <2>4 DEF Decided
  <2>6. y \in WriterState /\ y.comp = x.comp /\ Going(y, code, g, items \o <<Trailer>>)
    BY <2>1, <2>5, TrailerIsItem, SinkWrite
  <2>7. items \o <<Trailer>> = Append(Chunks(sizes, n, TRUE), Trailer)
    BY Zenon, <2>4, TrailerIsItem, AppendIs
  <2>8. Whole(code, g, items \o <<Trailer>>, code, h, sizes, n)
    BY Zenon, <2>3, <2>5, <2>7 DEF Whole
  <2> QED
    BY <2>6, <2>8 DEF Ended
<1>3. CASE ~ x.comp.compress
  <2>1. y = x /\ x.comp.compress = FALSE
    BY <1>1, <1>3 DEF WriterState, Compressor
  <2>2. Going(x, code, Added(h), Chunks(sizes, n, FALSE))
    BY Zenon, <2>1 DEF Decided
  <2>3. Whole(code, Added(h), Chunks(sizes, n, FALSE), code, h, sizes, n)
    BY Zenon DEF Whole
  <2> QED
    BY Zenon, <2>1, <2>2, <2>3 DEF Ended
<1> QED
  BY <1>2, <1>3

\* The handler returns, and Compress's deferred Close with it.
LEMMA Closes ==
  ASSUME NEW x \in WriterState, chain \in Chain, msg \in Message, attempt \in Nat,
         NEW h, h.added = FALSE, NEW code \in Nat \ {0},
         NEW sizes \in Sizes, NEW n \in Nat, n <= Len(sizes), Copied(x, code, h, sizes, n)
  PROVE  /\ Close(x) \in WriterState /\ Close(x).comp.buf = <<>>
         /\ Ended(Close(x), code, h, sizes, n)
<1>1. SUFFICES ASSUME NEW y, y = Close(x)
               PROVE  y \in WriterState /\ y.comp.buf = <<>> /\ Ended(y, code, h, sizes, n)
  OBVIOUS
<1>2. CASE ~ Compressing
  <2>1. y = x /\ x.comp = NewCompressor /\ Going(x, code, Added(h), Chunks(sizes, n, FALSE))
    BY Zenon, <1>1, <1>2 DEF Close, Copied
  <2>2. Whole(code, Added(h), Chunks(sizes, n, FALSE), code, h, sizes, n)
    BY Zenon DEF Whole
  <2> QED
    BY Zenon, <2>1, <2>2, CompressorFields DEF Ended
<1>3. ASSUME Compressing, NEW z \in WriterState, Decided(z, code, h, sizes, n),
             y = (IF z.comp.compress THEN sinkWrite(z, <<Trailer>>) ELSE z)
      PROVE  y \in WriterState /\ y.comp.buf = <<>> /\ Ended(y, code, h, sizes, n)
  <2>1. y \in WriterState /\ y.comp = z.comp /\ Ended(y, code, h, sizes, n)
    BY Zenon, <1>3, CloseDecided
  <2> QED
    BY <1>3, <2>1 DEF Decided
<1>4. CASE Compressing /\ n = 0
  <2>1. x.comp = Told(code) /\ x.hdr = h /\ Nothing(x)
    BY <1>1, <1>4 DEF Copied, Told
  <2>2. x.comp.committed = FALSE /\ x.comp.status = code /\ x.comp.buf = <<>>
    BY Zenon, <2>1, ToldFields
  <2>3. PICK z : z = commit(x)
    OBVIOUS
  <2>4. z \in WriterState /\ Decided(z, code, h, sizes, n)
    <3>1. n \in {0, 1} /\ x.comp.buf = Chunks(sizes, n, FALSE)
      BY Zenon, <1>4, <2>2, NoChunks
    <3> QED
      BY Zenon, <1>4, <2>1, <2>2, <2>3, <3>1, CommitsAnswer
  <2>5. y = (IF z.comp.compress THEN sinkWrite(z, <<Trailer>>) ELSE z)
    BY Zenon, <1>1, <1>4, <2>2, <2>3 DEF Close
  <2> QED
    BY <1>3, <1>4, <2>4, <2>5
<1>5. CASE Compressing /\ n # 0
  <2>1. Decided(x, code, h, sizes, n)
    BY Zenon, <1>1, <1>5 DEF Copied
  <2>2. y = (IF x.comp.compress THEN sinkWrite(x, <<Trailer>>) ELSE x)
    BY <1>1, <1>5, <2>1 DEF Close, Decided
  <2> QED
    BY <1>3, <1>5, <2>1, <2>2
<1> QED
  BY <1>2, <1>4, <1>5

\* The headers of an answer of the proxy itself.
LEMMA NoHeaderIs ==
  /\ NoHeader \in Header /\ NoHeader.added = FALSE /\ NoHeader.coding = "none"
  /\ NoHeader.skipType = FALSE /\ NoHeader.length = NoLength
<1>1. "none" \in {"none", "upstream"} \cup Range(Encodings)
  OBVIOUS
<1>2. NoLength \in Int
  BY DEF NoLength
<1>3. NoHeader \in Header
  <2> DEFINE Codings == {"none", "upstream"} \cup Range(Encodings)
  <2>1. "none" \in Codings
    BY <1>1
  <2>2. Header = [coding : Codings, length : Int, skipType : BOOLEAN, added : BOOLEAN]
    BY DEF Header
  <2> HIDE DEF Codings
  <2> QED
    BY <1>2, <2>1, <2>2 DEF NoHeader
<1> QED
  BY <1>3 DEF NoHeader

\* The body of an error, and no body.
LEMMA OneLine ==
  <<1>> \in Sizes /\ Len(<<1>>) = 1 /\ <<1>>[1] = 1 /\ <<>> \in Sizes /\ Len(<<>>) = 0
BY DEF Sizes

\* The proxy answers for itself.
LEMMA ErrorWritten ==
  ASSUME NEW x \in WriterState, chain \in Chain, msg \in Message, attempt \in Nat,
         Untouched(x), NEW code \in Nat \ {0}
  PROVE  LET y == Close(writeError(x, code)) IN
         /\ y \in WriterState /\ y.comp.buf = <<>>
         /\ Ended(y, code, NoHeader, <<1>>, 1)
<1>1. SUFFICES ASSUME NEW y, y = Close(writeError(x, code))
               PROVE  /\ y \in WriterState /\ y.comp.buf = <<>>
                      /\ Ended(y, code, NoHeader, <<1>>, 1)
  OBVIOUS
<1>2. PICK sizes \in Sizes : sizes = <<1>> /\ Len(sizes) = 1 /\ sizes[1] = 1
  BY OneLine
<1>3. PICK h : h = NoHeader /\ h.added = FALSE
  BY NoHeaderIs
<1>4. PICK z : z = WriteHeader(x, code)
  OBVIOUS
<1>5. z \in WriterState /\ Copied(z, code, h, sizes, 0)
  <2>1. Nothing(x) /\ x.comp = NewCompressor /\ x.hdr = h /\ x.hdr.added = FALSE
    BY <1>3 DEF Untouched
  <2> QED
    BY Zenon, <1>4, <2>1, HeaderWritten
<1>6. PICK v, u : v = Write(z, <<ChunkAt(1, sizes[1], FALSE)>>) /\ u = Flush(v)
  OBVIOUS
<1>7. u \in WriterState /\ Copied(u, code, h, sizes, 1) /\ Close(v) = Close(u)
  <2>1. PICK n \in Nat : n < Len(sizes) /\ n + 1 = 1 /\ n = 0
    BY <1>2
  <2>2. /\ h.added = FALSE /\ n < Len(sizes) /\ z \in WriterState /\ Copied(z, code, h, sizes, n)
    BY <1>3, <1>5, <2>1
  <2>3. Advances(z, code, h, sizes, n)
    BY Zenon, <2>2, ChunkWritten
  <2> QED
    BY <1>6, <2>1, <2>3 DEF Advances
<1>8. writeError(x, code) = v
  BY <1>2, <1>4, <1>6 DEF writeError, Item, ChunkAt
<1>9. y \in WriterState /\ y.comp.buf = <<>> /\ Ended(y, code, h, sizes, 1)
  <2>1. PICK n \in Nat : n <= Len(sizes) /\ n = 1
    BY <1>2
  <2>2. y = Close(u) /\ n <= Len(sizes) /\ h.added = FALSE
        /\ u \in WriterState /\ Copied(u, code, h, sizes, n)
    BY <1>1, <1>2, <1>3, <1>7, <1>8, <2>1
  <2>3. Close(u) \in WriterState /\ Close(u).comp.buf = <<>> /\ Ended(Close(u), code, h, sizes, n)
    BY Zenon, <2>2, Closes
  <2> QED
    BY <2>1, <2>2, <2>3
<1> QED
  BY <1>2, <1>3, <1>9

-----------------------------------------------------------------------------
\* A panic, and the answer of the buffer passed on.

\* Compress's deferred Close, before anything was written.
LEMMA CloseOfNothing ==
  ASSUME NEW x \in WriterState, chain \in Chain, msg \in Message, attempt \in Nat,
         Untouched(x), Compressing
  PROVE  /\ Close(x) \in WriterState /\ Close(x).comp.buf = <<>>
         /\ Going(Close(x), 200, Added(CodedHeader(NoHeader)), <<Trailer>>)
         /\ Whole(200, Added(CodedHeader(NoHeader)), <<Trailer>>, 200, NoHeader, <<>>, 0)
<1>1. SUFFICES ASSUME NEW y, y = Close(x)
      PROVE /\ y \in WriterState /\ y.comp.buf = <<>>
            /\ Going(y, 200, Added(CodedHeader(NoHeader)), <<Trailer>>)
            /\ Whole(200, Added(CodedHeader(NoHeader)), <<Trailer>>, 200, NoHeader, <<>>, 0)
  OBVIOUS
<1>2. PICK yes \in BOOLEAN, code \in Nat \ {0} : yes = TRUE /\ code = 200
  <2>1. TRUE \in BOOLEAN /\ 200 \in Nat \ {0}
    OBVIOUS
  <2> QED
    BY <2>1, Zenon
<1>3. PICK z : z = commit(x)
  OBVIOUS
<1>4. yes = shouldCompress(x)
  BY <1>2, NoHeaderIs, CompressorFields DEF shouldCompress, Untouched
<1>5. code = IF x.comp.status = 0 THEN 200 ELSE x.comp.status
  BY <1>2, CompressorFields DEF Untouched
<1>6. Nothing(x)
  BY Zenon DEF Untouched
<1>7. x.hdr.added = FALSE
  BY NoHeaderIs DEF Untouched
<1>8. /\ z \in WriterState
      /\ z.comp = [x.comp EXCEPT !.committed = TRUE, !.compress = yes,
                                       !.status = code, !.buf = <<>>]
      /\ Going(z, code, Added(IF yes THEN CodedHeader(x.hdr) ELSE x.hdr),
               IF yes THEN Coded(x.comp.buf) ELSE x.comp.buf)
  <2>1. Committed(x, yes, code)
    BY Zenon, <1>4, <1>5, <1>6, <1>7, Commits
  <2> QED
    BY <1>3, <2>1 DEF Committed
<1>9. z.comp.compress /\ z.comp.buf = <<>>
  <2>1. PICK c \in Compressor : c = x.comp
    BY DEF WriterState
  <2>2. z.comp = [c EXCEPT !.committed = TRUE, !.compress = yes, !.status = code, !.buf = <<>>]
    BY <1>8, <2>1
  <2> QED
    BY <1>2, <2>2 DEF Compressor
<1>10. PICK g : g = Added(CodedHeader(NoHeader))
  OBVIOUS
<1>11. PICK items \in Items : items = <<>>
  <2>1. <<>> \in Items
    BY DEF Items
  <2> QED
    BY <2>1
<1>12. Going(z, code, g, items)
  <2>1. Coded(<<>>) = <<>>
    BY DEF Coded
  <2> QED
    BY <1>2, <1>8, <1>10, <1>11, <2>1, CompressorFields DEF Untouched
<1>13. y = sinkWrite(z, <<Trailer>>)
  BY Zenon, <1>1, <1>3, <1>9, CompressorFields DEF Close, Untouched
<1>14. y \in WriterState /\ y.comp = z.comp /\ Going(y, code, g, items \o <<Trailer>>)
  <2>1. PICK more \in Items : more = <<Trailer>>
    BY TrailerIsItem
  <2>2. y = sinkWrite(z, more)
    BY <1>13, <2>1
  <2>3. z \in WriterState /\ Going(z, code, g, items)
    BY <1>8, <1>12
  <2>4. /\ sinkWrite(z, more) \in WriterState /\ sinkWrite(z, more).comp = z.comp
        /\ Going(sinkWrite(z, more), code, g, items \o more)
    BY <2>3, SinkWrite
  <2> QED
    BY <2>1, <2>2, <2>4
<1>15. items \o <<Trailer>> = <<Trailer>> /\ Append(items, Trailer) = <<Trailer>>
  <2>1. items \o <<Trailer>> = Append(items, Trailer)
    BY TrailerIsItem, AppendIs
  <2>2. Append(<<>>, Trailer) = <<Trailer>>
    OBVIOUS
  <2> QED
    BY <1>11, <2>1, <2>2
<1>16. Codable(200, NoHeader, <<>>, 0)
  BY NoHeaderIs DEF Codable
<1>17. Whole(code, g, <<Trailer>>, code, NoHeader, <<>>, 0)
  <2>1. Append(Chunks(<<>>, 0, TRUE), Trailer) = <<Trailer>>
    BY Zenon, <1>11, <1>15, NoChunks
  <2> QED
    BY Zenon, <1>2, <1>10, <1>16, <2>1 DEF Whole
<1> QED
  BY ZenonT(40), <1>2, <1>9, <1>10, <1>14, <1>15, <1>17

\* Retry's buffer is a record, and so are the writers.
LEMMA SameBuffer ==
  ASSUME NEW x \in WriterState, NEW s, s = x.rec.status
  PROVE  [x EXCEPT !.rec.status = s] = x
<1>1. PICK r \in Buffer : r = x.rec
  BY DEF WriterState
<1>2. [r EXCEPT !.status = s] = r
  BY <1>1 DEF Buffer
<1>3. [x EXCEPT !.rec.status = s] = [x EXCEPT !.rec = r]
  BY <1>1, <1>2 DEF WriterState
<1>4. [x EXCEPT !.rec = r] = x
  BY Zenon, <1>1 DEF WriterState
<1> QED
  BY <1>3, <1>4

\* The attempt that panicked has handed this on.
Fell(y) ==
  \E code \in Nat \ {0} : \E g, items : Gone(y, code, g, items) /\ Unwound(code, g, items)

\* A panic is recovered behind Compress: its deferred Close has sent an empty
\* coded body, and 200 with it, before PanicRecover or dispatch gets there.
LEMMA RecoversCoded ==
  ASSUME NEW x \in WriterState, chain \in Chain, msg \in Message, attempt \in Nat,
         Untouched(x), Compressing
  PROVE  LET y == Recovered(Close(x)) IN
         y \in WriterState /\ y.comp.buf = <<>> /\ Fell(y)
<1>1. PICK c, g, items :
        c = Close(x) /\ g = Added(CodedHeader(NoHeader)) /\ items = <<Trailer>>
  BY Zenon
<1>2. PICK code \in Nat \ {0} : code = 200
  OBVIOUS
<1>3. c \in WriterState /\ c.comp.buf = <<>> /\ Going(c, code, g, items)
      /\ Whole(code, g, items, 200, NoHeader, <<>>, 0)
  BY <1>2, <1>1, CloseOfNothing
<1>4. items # <<>>
  BY Zenon, <1>1
<1>5. Unwound(code, g, items)
  BY <1>3, <1>4 DEF Unwound
<1>6. Recovered(c) = c
  <2>1. CASE chain.retry
    <3>1. c.rec = [status |-> code, body |-> items]
      BY <1>3, <2>1 DEF Going, Gone
    <3>2. c.rec.status = code /\ code # 0
      BY <3>1
    <3>3. PICK s : s = c.rec.status
      OBVIOUS
    <3>4. Recovered(c) = [c EXCEPT !.rec.status = s]
      BY <2>1, <3>2, <3>3 DEF Recovered, WriterState
    <3> QED
      BY <1>3, <3>3, <3>4, SameBuffer
  <2>2. CASE ~ chain.retry
    BY <1>3, <2>2 DEF Recovered, Going, Gone, Delivered
  <2> QED
    BY <2>1, <2>2
<1> QED
  BY <1>1, <1>3, <1>5, <1>6 DEF Fell, Going

\* A status and a body make a buffer.
LEMMA NewRecord ==
  ASSUME NEW code \in Nat, NEW items \in Items
  PROVE  [status |-> code, body |-> items] \in Buffer
BY DEF Buffer

\* A panic is recovered with nothing written: the client gets an error.
LEMMA RecoversPlain ==
  ASSUME NEW x \in WriterState, chain \in Chain, msg \in Message, attempt \in Nat,
         Untouched(x), ~ Compressing
  PROVE  LET y == Recovered(Close(x)) IN
         y \in WriterState /\ y.comp.buf = <<>> /\ Fell(y)
<1>1. Close(x) = x /\ Nothing(x) /\ x.comp.buf = <<>> /\ x.hdr = NoHeader
  BY Zenon, CompressorFields DEF Close, Untouched
<1>2. CASE chain.retry
  <2>1. PICK r \in Buffer : r = [status |-> 502, body |-> <<>>]
    <3>1. PICK code \in Nat : code = 502
      OBVIOUS
    <3>2. PICK items \in Items : items = <<>>
      <4>1. <<>> \in Items
        BY DEF Items
      <4> QED
        BY <4>1
    <3>3. [status |-> code, body |-> items] \in Buffer
      BY NewRecord
    <3> QED
      BY <3>1, <3>2, <3>3
  <2>2. x.rec = NewBuffer /\ Fresh(x)
    BY <1>1 DEF Nothing
  <2>3. Recovered(x) = [x EXCEPT !.rec = r]
    <3>1. x.rec.status = 0 /\ [x.rec EXCEPT !.status = 502] = r
      BY <2>1, <2>2 DEF NewBuffer
    <3> QED
      BY <1>2, <3>1 DEF Recovered, WriterState
  <2>4. PICK y : y = Recovered(x)
    OBVIOUS
  <2>5. y \in WriterState /\ y.rec = r /\ y.comp = x.comp /\ y.hdr = x.hdr /\ Fresh(y)
    BY <2>2, <2>3, <2>4, Buffered
  <2>6. Gone(y, 502, NoHeader, <<>>)
    BY <1>1, <1>2, <2>1, <2>5 DEF Gone
  <2>7. Unwound(502, NoHeader, <<>>)
    BY <1>2 DEF Unwound
  <2>8. 502 \in Nat \ {0}
    OBVIOUS
  <2>9. Fell(y)
    BY <2>6, <2>7, <2>8, ZenonT(30) DEF Fell
  <2> QED
    BY <1>1, <2>4, <2>5, <2>9
<1>3. CASE ~ chain.retry
  <2>1. PICK code \in Nat \ {0} : code = 500
    OBVIOUS
  <2>2. PICK z : z = outerWriteHeader(x, code)
    OBVIOUS
  <2>3. Fresh(x)
    BY Zenon, <1>1 DEF Nothing
  <2>4. z \in WriterState /\ SameInFront(z, x) /\ Delivered(z, code, NoHeader, <<>>)
    BY <1>1, <2>2, <2>3, FirstHeader
  <2>5. PICK items \in Items : items = <<>>
    <3>1. <<>> \in Items
      BY DEF Items
    <3> QED
      BY <3>1
  <2>6. PICK one \in Items : one = <<ChunkAt(1, 1, FALSE)>> /\ one = Chunks(<<1>>, 1, FALSE)
    <3>1. PICK sizes \in Sizes : sizes = <<1>> /\ 1 <= Len(sizes) /\ sizes[1] = 1
      BY OneLine
    <3>2. FALSE \in BOOLEAN
      OBVIOUS
    <3>3. Chunks(sizes, 1, FALSE) = <<ChunkAt(1, sizes[1], FALSE)>>
          /\ Chunks(sizes, 1, FALSE) \in Items
      BY Zenon, <3>1, <3>2, OneChunk
    <3> QED
      BY Zenon, <3>1, <3>3
  <2>7. PICK y : y = outerWrite(z, one)
    OBVIOUS
  <2>8. y \in WriterState /\ SameInFront(y, z) /\ Delivered(y, code, NoHeader, items \o one)
    BY Zenon, <2>4, <2>5, <2>7, LaterWrite
  <2>9. items \o one = one
    <3>1. \A S : \A s \in Seq(S) : <<>> \o s = s
      OBVIOUS
    <3> QED
      BY <2>5, <3>1 DEF Items
  <2>10. Recovered(x) = y
    BY Zenon, <1>3, <2>1, <2>2, <2>3, <2>6, <2>7 DEF Recovered, Fresh, Item, ChunkAt
  <2>11. y.comp = x.comp
    BY <2>4, <2>8 DEF SameInFront
  <2>12. Gone(y, code, NoHeader, one)
    BY Zenon, <1>3, <2>8, <2>9 DEF Gone
  <2>13. Unwound(code, NoHeader, one)
    BY Zenon, <1>3, <2>1, <2>6 DEF Unwound
  <2>14. Fell(y)
    BY Zenon, <2>12, <2>13 DEF Fell
  <2> QED
    BY Zenon, <1>1, <2>8, <2>10, <2>11, <2>14
<1> QED
  BY <1>2, <1>3

\* flushTo hands Retry's buffer to the server.
LEMMA Flushes ==
  ASSUME NEW x \in WriterState, Fresh(x), x.rec.status # 0
  PROVE  LET y == flushTo(x) IN
         /\ y \in WriterState /\ y.comp = x.comp
         /\ Delivered(y, x.rec.status, x.hdr, x.rec.body)
<1>1. x.rec \in Buffer
  BY DEF WriterState
<1>2. PICK code \in Nat \ {0}, body \in Items : code = x.rec.status /\ body = x.rec.body
  BY <1>1 DEF Buffer
<1>3. PICK z : z = outerWriteHeader(x, code)
  OBVIOUS
<1>4. PICK h : h = x.hdr
  BY Zenon
<1>5. z \in WriterState /\ SameInFront(z, x) /\ Delivered(z, code, h, <<>>)
  BY <1>3, <1>4, FirstHeader
<1>6. PICK none \in Items : none = <<>>
  <2>1. <<>> \in Items
    BY DEF Items
  <2> QED
    BY <2>1
<1>7. PICK y : y = outerWrite(z, body)
  OBVIOUS
<1>8. y \in WriterState /\ SameInFront(y, z) /\ Delivered(y, code, h, none \o body)
  BY Zenon, <1>5, <1>6, <1>7, LaterWrite
<1>9. none \o body = body
  <2>1. \A S : \A s \in Seq(S) : <<>> \o s = s
    OBVIOUS
  <2> QED
    BY <1>6, <2>1 DEF Items
<1>10. flushTo(x) = y
  BY Zenon, <1>2, <1>3, <1>7 DEF flushTo
<1>11. y.comp = x.comp
  BY <1>5, <1>8 DEF SameInFront
<1> QED
  BY <1>2, <1>4, <1>8, <1>9, <1>10, <1>11

\* While an attempt lasts, what depends on the route, the request and the
\* attempt's number stays.
Lasts == chain' = chain /\ msg' = msg /\ attempt' = attempt

-----------------------------------------------------------------------------
\* What a step leaves alone.

\* The parts of an answer stay while the attempt lasts.
LEMMA PartsLast ==
  ASSUME Lasts
  PROVE  /\ Compressing' = Compressing
         /\ \A sizes, n, coded : Chunks(sizes, n, coded)' = Chunks(sizes, n, coded)
         /\ \A h : Added(h)' = Added(h) /\ CodedHeader(h)' = CodedHeader(h)
<1>1. Compressing' = Compressing
  BY DEF Lasts, Compressing
<1>2. \A sizes, n, coded : Chunks(sizes, n, coded)' = Chunks(sizes, n, coded)
  BY DEF Lasts, Chunks
<1>3. \A h : Added(h)' = Added(h) /\ CodedHeader(h)' = CodedHeader(h)
  BY Zenon DEF Lasts, Added, CodedHeader
<1> QED
  BY <1>1, <1>2, <1>3

\* So does what makes it whole,
LEMMA AnswerLasts ==
  ASSUME Lasts
  PROVE  /\ \A code, h, sizes, n : Codable(code, h, sizes, n)' = Codable(code, h, sizes, n)
         /\ \A code, h, items, code0, h0, sizes, n :
              Whole(code, h, items, code0, h0, sizes, n)
                => Whole(code, h, items, code0, h0, sizes, n)'
         /\ \A code, h, items : Unwound(code, h, items) => Unwound(code, h, items)'
<1>1. \A code, h, sizes, n : Codable(code, h, sizes, n)' = Codable(code, h, sizes, n)
  BY PartsLast DEF Codable
<1>2. ASSUME NEW code, NEW h, NEW items, NEW code0, NEW h0, NEW sizes, NEW n,
             Whole(code, h, items, code0, h0, sizes, n)
      PROVE  Whole(code, h, items, code0, h0, sizes, n)'
  BY Zenon, <1>1, <1>2, PartsLast DEF Whole
<1>3. ASSUME NEW code, NEW h, NEW items, Unwound(code, h, items)
      PROVE  Unwound(code, h, items)'
  <2>1. CASE Compressing
    BY <1>2, <1>3, <2>1, PartsLast DEF Unwound
  <2>2. CASE ~ Compressing
    <3>1. /\ h = NoHeader /\ code = IF chain.retry THEN 502 ELSE 500
          /\ items = IF chain.retry THEN <<>> ELSE Chunks(<<1>>, 1, FALSE)
      BY Zenon, <1>3, <2>2 DEF Unwound
    <3>2. Chunks(<<1>>, 1, FALSE)' = Chunks(<<1>>, 1, FALSE)
      BY DEF Lasts, Chunks
    <3>3. ~ Compressing'
      BY <2>2, PartsLast
    <3>4. chain'.retry = chain.retry
      BY DEF Lasts
    <3> QED
      BY Zenon, <3>1, <3>2, <3>4, <3>3 DEF Unwound
  <2> QED
    BY <2>1, <2>2
<1> QED
  BY <1>1, <1>2, <1>3

\* what has been copied of it,
LEMMA CopiedLasts ==
  ASSUME Lasts, NEW x, NEW code, NEW h, NEW sizes, NEW n, Copied(x, code, h, sizes, n)
  PROVE  Copied(x, code, h, sizes, n)'
<1>1. ASSUME NEW g, NEW items, Going(x, code, g, items)
      PROVE  Going(x, code, g, items)'
  BY <1>1 DEF Going, Gone, Delivered, Fresh, Lasts
<1>2. ASSUME Decided(x, code, h, sizes, n)
      PROVE  Decided(x, code, h, sizes, n)'
  <2>1. \A y, z, c : Chunks(y, z, c)' = Chunks(y, z, c)
    BY Zenon, PartsLast
  <2>2. \A g : Added(g)' = Added(g) /\ CodedHeader(g)' = CodedHeader(g)
    BY Zenon, PartsLast
  <2>3. Codable(code, h, sizes, n)' = Codable(code, h, sizes, n)
    BY Zenon, AnswerLasts
  <2> QED
    BY Zenon, <1>1, <1>2, <2>1, <2>2, <2>3 DEF Decided
<1>3. Nothing(x) => Nothing(x)'
  BY Zenon DEF Nothing, Fresh
<1> QED
  <2>1. CASE ~ Compressing
    <3>1. x.comp = NewCompressor /\ Going(x, code, Added(h), Chunks(sizes, n, FALSE))
      BY Zenon, <2>1 DEF Copied
    <3>2. PICK g, items : g = Added(h) /\ items = Chunks(sizes, n, FALSE)
      BY Zenon
    <3>3. Chunks(sizes, n, FALSE)' = Chunks(sizes, n, FALSE)
      BY DEF Lasts, Chunks
    <3>4. ~ Compressing'
      BY <2>1, PartsLast
    <3>5. Added(h)' = Added(h)
      BY PartsLast
    <3>6. g = Added(h)' /\ items = Chunks(sizes, n, FALSE)' /\ ~ Compressing'
      BY Zenon, <3>2, <3>3, <3>4, <3>5
    <3>7. Going(x, code, g, items)'
      BY Zenon, <1>1, <3>1, <3>2
    <3> QED
      BY <3>1, <3>6, <3>7 DEF Copied, NewCompressor, Going, Gone, Delivered, Fresh
  <2>2. CASE Compressing
    BY Zenon, <1>2, <1>3, <2>2, PartsLast DEF Copied
  <2> QED
    BY <2>1, <2>2

\* what an attempt leaves behind,
LEMMA OutcomeLasts ==
  ASSUME Lasts, NEW r, NEW code, NEW h, NEW items, Outcome(r, code, h, items)
  PROVE  Outcome(r, code, h, items)'
BY AnswerLasts DEF Outcome

\* and what fits a point of the request.
LEMMA FitsLasts ==
  ASSUME Lasts, NEW p, NEW r, NEW x, Fits(p, r, x)
  PROVE  Fits(p, r, x)'
<1>1. ASSUME NEW code, NEW h, NEW items, Outcome(r, code, h, items)
      PROVE  Outcome(r, code, h, items)'
  BY <1>1, OutcomeLasts
<1>2. ASSUME NEW code, NEW h, NEW sizes, NEW n, Copied(x, code, h, sizes, n)
      PROVE  Copied(x, code, h, sizes, n)'
  BY Zenon, <1>2, CopiedLasts
<1>3. (Fresh(x) => Fresh(x)') /\ (Untouched(x) => Untouched(x)')
  BY DEF Untouched, Nothing, Fresh
<1>4. chain'.retry = chain.retry
  BY DEF Lasts
<1> QED
  BY Zenon, <1>1, <1>2, <1>3, <1>4 DEF Fits

\* The writers fit after a step when they do where it leaves them.
FitsHere == \A p, r, x : p = pc /\ r = resp /\ x = w /\ Fits(p, r, x) => WritersOK

\* The writers fit where the request is.
LEMMA FitsNow == FitsHere
BY DEF FitsHere, WritersOK

\* A step that leaves writers that fit keeps WritersOK.
LEMMA FitsThen ==
  ASSUME Lasts, NEW p, NEW r, NEW x, p = pc', r = resp', x = w', Fits(p, r, x)
  PROVE  WritersOK'
<1>1. FitsHere'
  BY FitsNow, PTL
<1>2. Fits(p, r, x)'
  BY FitsLasts
<1>3. p = pc' /\ r = resp' /\ x = w' /\ Fits(p, r, x)' => WritersOK'
  BY <1>1 DEF FitsHere
<1> QED
  BY <1>2, <1>3

\* The writers of a request that has just arrived.
LEMMA WritersIs ==
  /\ Writers \in WriterState /\ Fresh(Writers) /\ Writers.rec = NewBuffer
  /\ Writers.comp = NewCompressor
<1>1. PICK h \in Header : h = NoHeader
  BY NoHeaderIs
<1>2. PICK c \in Compressor : c = NewCompressor
  BY CompressorFields
<1>3. PICK none \in Items : none = <<>>
  <2>1. <<>> \in Items
    BY DEF Items
  <2> QED
    BY <2>1
<1>4. PICK b \in Buffer : b = NewBuffer
  <2>1. NewBuffer = [status |-> 0, body |-> none]
    BY <1>3 DEF NewBuffer
  <2>2. 0 \in Nat
    OBVIOUS
  <2> QED
    BY <2>1, <2>2, NewRecord
<1>5. PICK n \in Server : n = [status |-> 0, hdr |-> h, body |-> none, headers |-> 0]
  BY Zenon DEF Server
<1>6. Writers = [hdr |-> h, applied |-> FALSE, comp |-> c, rec |-> b, wroteHeader |-> FALSE,
                 logged |-> 200, logging |-> FALSE, net |-> n]
  BY <1>1, <1>2, <1>3, <1>4, <1>5 DEF Writers
<1>7. Writers \in WriterState
  BY <1>6 DEF WriterState
<1>8. ~ Writers.wroteHeader /\ ~ Writers.logging /\ Writers.logged = 200
      /\ Writers.rec = NewBuffer /\ Writers.comp = NewCompressor
  BY <1>2, <1>4, <1>6
<1> QED
  BY <1>7, <1>8 DEF Fresh

\* A response that is not an upstream's.
Own(from, status) ==
  [from |-> from, status |-> status, hdr |-> NoHeader, sizes |-> <<>>, read |-> 0,
   broken |-> FALSE]

\* A response is what its fields are.
LEMMA ResponseIs ==
  ASSUME NEW q \in Response, NEW r \in Response, q.from = r.from, q.status = r.status,
         q.hdr = r.hdr, q.sizes = r.sizes, q.read = r.read, q.broken = r.broken
  PROVE  q = r
BY DEF Response

\* r has the fields of a response that is not an upstream's.
IsOwn(r, from, status) ==
  /\ r \in Response /\ r.from = from /\ r.status = status /\ r.hdr = NoHeader
  /\ r.sizes = <<>> /\ r.read = 0 /\ r.broken = FALSE

\* Such a response has them.
LEMMA OwnFields ==
  ASSUME NEW from \in {"none", "proxy", "panic"}, NEW status \in Nat
  PROVE  IsOwn(Own(from, status), from, status)
<1>1. PICK h \in Header, sizes \in Sizes : h = NoHeader /\ sizes = <<>>
  BY NoHeaderIs, OneLine
<1>2. PICK r : r = [from |-> from, status |-> status, hdr |-> h, sizes |-> sizes, read |-> 0,
                    broken |-> FALSE]
  BY Zenon
<1>3. r \in Response
  BY <1>2 DEF Response
<1>4. r.from = from /\ r.status = status /\ r.hdr = h /\ r.sizes = sizes /\ r.read = 0
      /\ r.broken = FALSE
  BY <1>2
<1>5. r = Own(from, status)
  BY <1>1, <1>2 DEF Own
<1> QED
  BY <1>1, <1>3, <1>4, <1>5 DEF IsOwn

\* The responses the proxy makes itself.
LEMMA OwnIs ==
  /\ NoResponse = Own("none", 0)
  /\ \A from \in {"proxy", "panic"}, status \in Nat :
       [NoResponse EXCEPT !.from = from, !.status = status] = Own(from, status)
  /\ [NoResponse EXCEPT !.from = "panic"] = Own("panic", 0)
<1>1. NoResponse = Own("none", 0)
  BY DEF NoResponse, Own
<1>2. PICK q \in Response : /\ q = NoResponse /\ q.status = 0 /\ q.hdr = NoHeader
                            /\ q.sizes = <<>> /\ q.read = 0 /\ q.broken = FALSE
  <2>1. PICK none \in {"none", "proxy", "panic"}, zero \in Nat : none = "none" /\ zero = 0
    OBVIOUS
  <2>2. IsOwn(Own(none, zero), none, zero)
    BY OwnFields
  <2> QED
    BY <1>1, <2>1, <2>2 DEF IsOwn
<1>3. ASSUME NEW from \in {"proxy", "panic"}, NEW status \in Nat
      PROVE  [q EXCEPT !.from = from, !.status = status] = Own(from, status)
  <2>1. PICK r : r = [q EXCEPT !.from = from, !.status = status]
    OBVIOUS
  <2>2. r \in Response /\ r.from = from /\ r.status = status /\ r.hdr = q.hdr
        /\ r.sizes = q.sizes /\ r.read = q.read /\ r.broken = q.broken
    BY Zenon, <2>1 DEF Response
  <2>3. PICK o \in Response : /\ o = Own(from, status) /\ o.from = from /\ o.status = status
                              /\ o.hdr = NoHeader /\ o.sizes = <<>> /\ o.read = 0
                              /\ o.broken = FALSE
    <3>1. IsOwn(Own(from, status), from, status)
      BY OwnFields
    <3> QED
      BY <3>1 DEF IsOwn
  <2>4. r = o
    BY Zenon, <1>2, <2>2, <2>3, ResponseIs
  <2> QED
    BY <2>1, <2>3, <2>4
<1>4. [q EXCEPT !.from = "panic"] = [q EXCEPT !.from = "panic", !.status = 0]
  BY Zenon, <1>2 DEF Response
<1>5. [q EXCEPT !.from = "panic", !.status = 0] = Own("panic", 0)
  BY Zenon, <1>3
<1> QED
  BY Zenon, <1>1, <1>2, <1>3, <1>4, <1>5

\* They have neither body nor headers.
LEMMA OwnResponse ==
  ASSUME NEW from \in {"none", "proxy", "panic"}, NEW status \in Nat,
         from = "proxy" => status # 0
  PROVE  Sound(Own(from, status))
<1>1. PICK r : r = Own(from, status)
  BY Zenon
<1>2. r \in Response /\ r.from = from /\ r.status = status /\ r.hdr = NoHeader
      /\ r.sizes = <<>> /\ r.read = 0
  <2>1. IsOwn(Own(from, status), from, status)
    BY Zenon, OwnFields
  <2> QED
    BY <1>1, <2>1 DEF IsOwn
<1>3. Plain(r.hdr) /\ r.hdr.length = NoLength
  BY <1>2, NoHeaderIs DEF Plain
<1>4. r.read <= Len(r.sizes)
  BY <1>2
<1> QED
  BY <1>1, <1>2, <1>3, <1>4 DEF Sound

-----------------------------------------------------------------------------
\* The steps.

\* The invariant holds when a request arrives.
LEMMA InitFits == ExchangeInit => ExchangeInv
<1> SUFFICES ASSUME ExchangeInit PROVE ExchangeInv
  OBVIOUS
<1>1. chain \in Chain /\ msg \in Message /\ pc = "arrived" /\ expired = FALSE /\ err = FALSE
  BY Zenon DEF ExchangeInit, Chain, Message
<1>2. AttemptsOK
  BY DEF ExchangeInit, AttemptsOK
<1>3. SentOK
  BY DEF ExchangeInit, SentOK
<1>4. Sound(resp)
  <2>1. resp = Own("none", 0)
    BY Zenon, OwnIs DEF ExchangeInit
  <2>2. 0 \in Nat /\ "none" # "proxy"
    OBVIOUS
  <2> QED
    BY <2>1, <2>2, OwnResponse
<1>5. WritersOK
  <2>1. Fits("arrived", resp, Writers)
    BY Zenon, WritersIs, CompressorFields DEF Fits
  <2> QED
    BY Zenon, <1>1, <2>1 DEF WritersOK, ExchangeInit
<1> QED
  BY Zenon, <1>1, <1>2, <1>3, <1>4, <1>5 DEF ExchangeInv

\* A step within an attempt keeps what is known of the attempts.
LEMMA AttemptsKept ==
  ASSUME AttemptsOK, chain' = chain, msg' = msg, attempt' = attempt,
         maxAttempts' = maxAttempts, bodyBuf' = bodyBuf, pc # "arrived", pc' # "arrived",
         pc' = "dispatch" => attempt < maxAttempts /\ (~ chain.retry => attempt = 0),
         pc' # "dispatch" => attempt > 0
  PROVE  AttemptsOK'
<1> USE DEF AttemptsOK
<1>1. maxAttempts' = IF pc' # "arrived" /\ chain'.retry /\ msg'.retryable /\ msg'.body # "large"
                       THEN MaxAttempts ELSE 1
  BY Zenon
<1>2. attempt' \in 0..maxAttempts' /\ (pc' \in {"arrived", "dispatch"} => attempt' < maxAttempts')
      /\ (pc' \notin {"arrived", "dispatch"} => attempt' > 0)
      /\ (~ chain'.retry /\ pc' = "dispatch" => attempt' = 0)
  BY Zenon
<1>3. bodyBuf' = IF pc' = "arrived" THEN "none"
                 ELSE IF chain'.retry THEN bufferReplayBody(msg'.body) ELSE msg'.body
  OBVIOUS
<1> QED
  BY Zenon, <1>1, <1>2, <1>3

\* A step that sends nothing, or the one request of its attempt, keeps what is
\* known of the requests sent.
LEMMA SentKept ==
  ASSUME SentOK, attempt \in Nat, chain' = chain, attempt' = attempt, bodyBuf' = bodyBuf,
         pc' # "proxy", pc' # "arrived",
         \/ sent' = sent
         \/ sent' = Append(sent, Request) /\ pc = "proxy"
  PROVE  SentOK'
<1>1. Request' = Request
  BY DEF Request
<1>2. sent \in Seq({Request}) /\ Len(sent) <= attempt /\ (pc = "proxy" => Len(sent) < attempt)
  BY DEF SentOK
<1>3. CASE sent' = sent
  BY <1>1, <1>2, <1>3 DEF SentOK
<1>4. CASE sent' = Append(sent, Request) /\ pc = "proxy"
  <2>1. PICK q : q = Request
    OBVIOUS
  <2>2. sent \in Seq({q}) /\ Len(sent) < attempt /\ sent' = Append(sent, q)
    BY <1>2, <1>4, <2>1
  <2>3. sent' \in Seq({q}) /\ Len(sent') <= attempt
    BY <2>2
  <2> QED
    BY <1>1, <2>1, <2>3 DEF SentOK
<1> QED
  BY <1>3, <1>4

\* Attempts are counted from 0.
LEMMA AttemptIsNat ==
  ASSUME AttemptsOK
  PROVE  attempt \in Nat /\ maxAttempts \in Nat
BY ExchangeAssumption DEF AttemptsOK

\* The handlers in front of the proxy run, and Retry buffers the body.
LEMMA StartFits == ExchangeInv /\ RequestStart => ExchangeInv'
<1> SUFFICES ASSUME ExchangeInv, RequestStart PROVE ExchangeInv'
  BY Zenon
<1>1. /\ pc = "arrived" /\ pc' = "dispatch" /\ Lasts
      /\ bodyBuf' = IF chain.retry THEN bufferReplayBody(msg.body) ELSE msg.body
      /\ maxAttempts' = IF chain.retry /\ msg.retryable /\ msg.body # "large"
                          THEN MaxAttempts ELSE 1
      /\ expired' = expired /\ err' = err /\ resp' = resp /\ w' = w /\ sent' = sent
  BY DEF RequestStart, Lasts
<1>2. chain \in Chain /\ msg \in Message /\ expired \in BOOLEAN /\ err \in BOOLEAN
      /\ AttemptsOK /\ SentOK /\ Sound(resp) /\ WritersOK
  BY Zenon DEF ExchangeInv
<1>3. AttemptsOK'
  <2>1. attempt = 0
    BY <1>1, <1>2 DEF AttemptsOK
  <2>2. maxAttempts' \in Nat \ {0}
    BY <1>1, ExchangeAssumption
  <2> QED
    BY <1>1, <2>1, <2>2 DEF AttemptsOK, Lasts
<1>4. SentOK'
  BY <1>1, <1>2, AttemptIsNat DEF SentOK, Lasts
<1>5. WritersOK'
  <2>1. PICK p, r, x : p = "dispatch" /\ r = resp /\ x = w
    OBVIOUS
  <2>2. Fits(p, r, x)
    BY Zenon, <1>1, <1>2, <2>1 DEF WritersOK, Fits
  <2>3. p = pc' /\ r = resp' /\ x = w'
    BY <1>1, <2>1
  <2> QED
    BY <1>1, <2>2, <2>3, FitsThen
<1> QED
  BY <1>1, <1>2, <1>3, <1>4, <1>5 DEF ExchangeInv, Lasts

\* An attempt starts, with writers that nothing was written to.
LEMMA DispatchFits == ExchangeInv /\ Dispatch => ExchangeInv'
<1> SUFFICES ASSUME ExchangeInv, Dispatch PROVE ExchangeInv'
  OBVIOUS
<1>1. /\ pc = "dispatch" /\ pc' = "proxy" /\ attempt' = attempt + 1
      /\ err' = FALSE /\ resp' = NoResponse
      /\ w' = [w EXCEPT !.hdr = NoHeader, !.applied = FALSE, !.comp = NewCompressor,
                        !.rec = NewBuffer]
      /\ chain' = chain /\ msg' = msg /\ bodyBuf' = bodyBuf /\ maxAttempts' = maxAttempts
      /\ expired' = expired /\ sent' = sent
  BY DEF Dispatch
<1>2. chain \in Chain /\ msg \in Message /\ expired \in BOOLEAN /\ err \in BOOLEAN
      /\ AttemptsOK /\ SentOK /\ Sound(resp) /\ WritersOK
  BY DEF ExchangeInv
<1>3. AttemptsOK'
  <2>1. attempt \in Nat /\ maxAttempts \in Nat /\ attempt < maxAttempts
    BY <1>1, <1>2, AttemptIsNat DEF AttemptsOK
  <2>2. attempt' \in 0..maxAttempts' /\ attempt' > 0
    BY <1>1, <2>1
  <2> QED
    BY <1>1, <1>2, <2>2 DEF AttemptsOK
<1>4. SentOK'
  <2>1. Request' = Request
    BY <1>1 DEF Request
  <2>2. sent \in Seq({Request}) /\ Len(sent) <= attempt /\ attempt \in Nat
    BY <1>2, AttemptIsNat DEF SentOK
  <2>3. Len(sent) < attempt + 1
    <3>1. Len(sent) \in Nat
      BY <2>2
    <3> QED
      BY <2>2, <3>1
  <2> QED
    BY <1>1, <2>1, <2>2, <2>3 DEF SentOK
<1>5. Sound(resp)'
  <2>1. 0 \in Nat /\ "none" # "proxy"
    OBVIOUS
  <2>2. Sound(Own("none", 0))
    BY Zenon, <2>1, OwnResponse
  <2> QED
    BY Zenon, <1>1, <2>2, OwnIs
<1>6. WritersOK'
  <2>1. PICK h \in Header, c \in Compressor, b \in Buffer :
          h = NoHeader /\ c = NewCompressor /\ b = NewBuffer
    <3>1. NewBuffer \in Buffer
      BY WritersIs DEF WriterState
    <3> QED
      BY <3>1, NoHeaderIs, CompressorFields
  <2>2. w \in WriterState /\ Fresh(w)
    BY <1>1, <1>2 DEF WritersOK, Fits
  <2>3. PICK x : x = [w EXCEPT !.hdr = h, !.applied = FALSE, !.comp = c, !.rec = b]
    OBVIOUS
  <2>4. x \in WriterState
    BY Zenon, <2>2, <2>3 DEF WriterState
  <2>5. x.hdr = h /\ ~ x.applied /\ x.comp = c /\ x.rec = b /\ x.net = w.net
        /\ x.wroteHeader = w.wroteHeader /\ x.logging = w.logging /\ x.logged = w.logged
    BY Zenon, <2>2, <2>3 DEF WriterState
  <2>6. Fresh(x)
    BY Zenon, <2>2, <2>5 DEF Fresh
  <2>7. Untouched(x)' /\ x.comp.buf = <<>>
    BY <2>1, <2>5, <2>6, CompressorFields DEF Untouched, Nothing, Fresh
  <2>8. PICK p, r : p = "proxy" /\ r = NoResponse
    OBVIOUS
  <2>9. Fits(p, r, x)'
    BY Zenon, <2>4, <2>7, <2>8 DEF Fits
  <2>10. p = pc' /\ r = resp' /\ x = w'
    BY <1>1, <2>1, <2>3, <2>8
  <2>11. FitsHere'
    BY FitsNow, PTL
  <2> QED
    BY Zenon, <2>9, <2>10, <2>11 DEF FitsHere
<1> QED
  BY Zenon, <1>1, <1>2, <1>3, <1>4, <1>5, <1>6 DEF ExchangeInv

\* Only the deadline passes, or nothing happens.
LEMMA DeadlineFits ==
  /\ ExchangeInv /\ expired' \in BOOLEAN
  /\ UNCHANGED <<chain, msg, pc, bodyBuf, maxAttempts, attempt, err, resp, w, sent>>
  => ExchangeInv'
<1> SUFFICES ASSUME ExchangeInv, expired' \in BOOLEAN,
                    UNCHANGED <<chain, msg, pc, bodyBuf, maxAttempts, attempt, err, resp, w, sent>>
             PROVE ExchangeInv'
  BY Zenon
<1>1. AttemptsOK' /\ SentOK'
  BY Zenon DEF ExchangeInv, AttemptsOK, SentOK, Request
<1>2. WritersOK'
  <2>1. PICK p, r, x : p = pc /\ r = resp /\ x = w
    BY Zenon
  <2>2. Fits(p, r, x)
    BY Zenon, <2>1 DEF WritersOK, ExchangeInv
  <2>3. p = pc' /\ r = resp' /\ x = w' /\ Lasts
    BY Zenon, <2>1 DEF Lasts
  <2> QED
    BY <2>2, <2>3, FitsThen
<1> QED
  BY Zenon, <1>1, <1>2 DEF ExchangeInv

\* Retry goes on to another attempt, or hands its buffer to the server.
LEMMA AfterFits == ExchangeInv /\ AfterAttempt => ExchangeInv'
<1> SUFFICES ASSUME ExchangeInv, AfterAttempt PROVE ExchangeInv'
  OBVIOUS
<1> DEFINE last == attempt = maxAttempts \/ ~ shouldRetry
<1>1. /\ pc = "attempted" /\ Lasts
      /\ w' = IF last THEN flushTo(w) ELSE w
      /\ pc' = IF last THEN "done" ELSE "dispatch"
      /\ bodyBuf' = bodyBuf /\ maxAttempts' = maxAttempts
      /\ expired' = expired /\ err' = err /\ resp' = resp /\ sent' = sent
  BY DEF AfterAttempt, Lasts
<1>2. chain \in Chain /\ msg \in Message /\ expired \in BOOLEAN /\ err \in BOOLEAN
      /\ AttemptsOK /\ SentOK /\ Sound(resp) /\ WritersOK
  BY DEF ExchangeInv
<1>3. PICK x, r : x = w /\ r = resp
  OBVIOUS
<1>4. /\ x \in WriterState /\ chain.retry /\ Fresh(x) /\ x.rec.status # 0
      /\ x.comp.buf = <<>> /\ Outcome(r, x.rec.status, x.hdr, x.rec.body)
      /\ r.from = "upstream" => r.broken = (r.read < Len(r.sizes))
  BY Zenon, <1>1, <1>2, <1>3 DEF WritersOK, Fits
<1>5. ~ last => attempt < maxAttempts
  BY <1>2, AttemptIsNat DEF AttemptsOK
<1>6. attempt > 0
  BY Zenon, <1>1, <1>2 DEF AttemptsOK
<1> HIDE DEF last
<1>7. AttemptsOK'
  BY <1>1, <1>2, <1>4, <1>5, <1>6, AttemptsKept DEF Lasts
<1>8. SentOK'
  BY <1>1, <1>2, AttemptIsNat, SentKept DEF Lasts
<1>9. WritersOK'
  <2>1. CASE ~ last
    <3>1. PICK p : p = "dispatch"
      OBVIOUS
    <3>2. Fits(p, r, x)
      BY Zenon, <1>4, <3>1 DEF Fits
    <3>3. p = pc' /\ r = resp' /\ x = w'
      BY <1>1, <1>3, <2>1, <3>1
    <3> QED
      BY <1>1, <3>2, <3>3, FitsThen
  <2>2. CASE last
    <3>1. PICK p, y : p = "done" /\ y = flushTo(x)
      BY Zenon
    <3>2. y \in WriterState /\ y.comp = x.comp /\ Delivered(y, x.rec.status, x.hdr, x.rec.body)
      BY Zenon, <1>4, <3>1, Flushes
    <3>3. /\ y.net.status = x.rec.status /\ y.net.hdr = x.hdr /\ y.net.body = x.rec.body
          /\ y.net.headers = 1 /\ y.logged = y.net.status
      BY <3>2 DEF Delivered
    <3>4. Fits(p, r, y)
      BY Zenon, <1>4, <3>1, <3>2, <3>3 DEF Fits
    <3>5. p = pc' /\ r = resp' /\ y = w'
      BY <1>1, <1>3, <2>2, <3>1
    <3> QED
      BY <1>1, <3>4, <3>5, FitsThen
  <2> QED
    BY Zenon, <2>1, <2>2
<1>10. pc' \in {"arrived", "dispatch", "proxy", "copying", "attempted", "done"}
  BY <1>1
<1> QED
  BY <1>1, <1>2, <1>7, <1>8, <1>9, <1>10 DEF ExchangeInv, Lasts

\* The writers x have the outcome of an attempt with response r.
Landed(r, x) ==
  /\ x \in WriterState /\ x.comp.buf = <<>>
  /\ r.from = "upstream" => r.broken = (r.read < Len(r.sizes))
  /\ \E code \in Nat \ {0} : \E g, items :
       Gone(x, code, g, items) /\ Outcome(r, code, g, items)

\* Writers that have the outcome of an attempt fit the point after it.
LEMMA Lands ==
  ASSUME chain \in Chain, NEW r, NEW x, Landed(r, x), NEW p,
         p = IF chain.retry THEN "attempted" ELSE "done"
  PROVE  Fits(p, r, x)
<1>1. PICK code \in Nat \ {0} : \E g, items :
        Gone(x, code, g, items) /\ Outcome(r, code, g, items)
  BY Zenon DEF Landed
<1>2. PICK g, items : Gone(x, code, g, items) /\ Outcome(r, code, g, items)
  BY Zenon, <1>1
<1>3. x \in WriterState /\ x.comp.buf = <<>>
      /\ (r.from = "upstream" => r.broken = (r.read < Len(r.sizes)))
  BY DEF Landed
<1>4. CASE chain.retry
  <2>1. Fresh(x) /\ x.rec = [status |-> code, body |-> items] /\ x.hdr = g
    BY Zenon, <1>2, <1>4 DEF Gone
  <2>2. x.rec.status = code /\ x.rec.body = items
    BY <2>1
  <2> QED
    BY Zenon, <1>2, <1>3, <1>4, <2>1, <2>2 DEF Fits
<1>5. CASE ~ chain.retry
  <2>1. Delivered(x, code, g, items)
    BY Zenon, <1>2, <1>5 DEF Gone
  <2>2. x.net.status = code /\ x.net.hdr = g /\ x.net.body = items /\ x.net.headers = 1
        /\ x.logged = code
    BY <2>1 DEF Delivered
  <2> QED
    BY Zenon, <1>2, <1>3, <1>5, <2>2 DEF Fits
<1> QED
  BY Zenon, <1>4, <1>5

\* A step that ends an attempt keeps the invariant.
LEMMA OverFits ==
  ASSUME ExchangeInv, Lasts, pc \in {"proxy", "copying"},
         pc' = (IF chain.retry THEN "attempted" ELSE "done"),
         bodyBuf' = bodyBuf, maxAttempts' = maxAttempts, expired' = expired, err' \in BOOLEAN,
         \/ sent' = sent
         \/ sent' = Append(sent, Request) /\ pc = "proxy",
         NEW r, r = resp', Sound(r), NEW x, x = w', Landed(r, x)
  PROVE  ExchangeInv'
<1>1. chain \in Chain /\ msg \in Message /\ expired \in BOOLEAN
      /\ AttemptsOK /\ SentOK /\ WritersOK
  BY DEF ExchangeInv
<1>2. PICK p : p = IF chain.retry THEN "attempted" ELSE "done"
  BY Zenon
<1>3. WritersOK'
  <2>1. Fits(p, r, x)
    BY <1>1, <1>2, Lands
  <2>2. p = pc'
    BY <1>2
  <2> QED
    BY Zenon, <2>1, <2>2, FitsThen
<1>4. pc' \in {"attempted", "done"} /\ pc # "arrived"
  BY Zenon
<1>5. AttemptsOK'
  <2>1. attempt > 0
    BY Zenon, <1>1 DEF AttemptsOK
  <2> QED
    BY Zenon, <1>1, <1>4, <2>1, AttemptsKept DEF Lasts
<1>6. SentOK'
  BY <1>1, <1>4, AttemptIsNat, SentKept DEF Lasts
<1> QED
  BY <1>1, <1>3, <1>4, <1>5, <1>6 DEF ExchangeInv, Lasts

\* What a whole answer leaves.
LEMMA EndedLands ==
  ASSUME NEW x \in WriterState, x.comp.buf = <<>>, NEW code \in Nat \ {0}, NEW h, NEW sizes,
         NEW n, Ended(x, code, h, sizes, n), NEW r,
         r.from = "upstream" => r.broken = (r.read < Len(r.sizes)),
         \A g, items : Whole(code, g, items, code, h, sizes, n) => Outcome(r, code, g, items)
  PROVE  Landed(r, x)
<1>1. PICK g, items : Going(x, code, g, items) /\ Whole(code, g, items, code, h, sizes, n)
  BY Zenon DEF Ended
<1>2. Gone(x, code, g, items) /\ Outcome(r, code, g, items)
  BY Zenon, <1>1 DEF Going
<1> QED
  BY Zenon, <1>2 DEF Landed

\* The proxy answers for itself: Refused and RoundTripFails.
LEMMA OwnAnswerFits ==
  ASSUME ExchangeInv, pc = "proxy", NEW code \in Nat \ {0}, Returns(writeError(w, code)),
         err' \in BOOLEAN, resp' = [NoResponse EXCEPT !.from = "proxy", !.status = code],
         sent' = sent \/ sent' = Append(sent, Request)
  PROVE  ExchangeInv'
<1>1. /\ w' = Close(writeError(w, code)) /\ Lasts
      /\ pc' = (IF chain.retry THEN "attempted" ELSE "done")
      /\ bodyBuf' = bodyBuf /\ maxAttempts' = maxAttempts /\ expired' = expired
  BY DEF Returns, Lasts
<1>2. chain \in Chain /\ msg \in Message /\ attempt \in Nat
  BY AttemptIsNat DEF ExchangeInv
<1>3. PICK x \in WriterState : x = w /\ Untouched(x)
  BY DEF ExchangeInv, WritersOK, Fits
<1>4. PICK y : y = Close(writeError(x, code))
  OBVIOUS
<1>5. y \in WriterState /\ y.comp.buf = <<>> /\ Ended(y, code, NoHeader, <<1>>, 1)
  BY <1>2, <1>3, <1>4, ErrorWritten
<1>6. PICK r : r = Own("proxy", code)
  OBVIOUS
<1>7. IsOwn(r, "proxy", code) /\ Sound(r)
  BY <1>6, OwnFields, OwnResponse
<1>8. Landed(r, y)
  <2>1. r.from = "proxy" /\ r.status = code
    BY <1>7 DEF IsOwn
  <2>2. \A g, items : Whole(code, g, items, code, NoHeader, <<1>>, 1) => Outcome(r, code, g, items)
    BY <2>1 DEF Outcome
  <2> QED
    BY <1>5, <2>1, <2>2, EndedLands
<1>9. y = w' /\ r = resp'
  BY Zenon, <1>1, <1>3, <1>4, <1>6, OwnIs
<1> QED
  BY <1>1, <1>7, <1>8, <1>9, OverFits

\* A panic before the answer keeps it.
LEMMA PanicFits == ExchangeInv /\ Panics => ExchangeInv'
<1> SUFFICES ASSUME ExchangeInv, Panics PROVE ExchangeInv'
  OBVIOUS
<1>1. /\ pc = "proxy" /\ w' = Recovered(Close(w)) /\ Lasts
      /\ pc' = (IF chain.retry THEN "attempted" ELSE "done")
      /\ bodyBuf' = bodyBuf /\ maxAttempts' = maxAttempts /\ expired' = expired
      /\ err' \in BOOLEAN /\ sent' = sent /\ resp' = [NoResponse EXCEPT !.from = "panic"]
  BY DEF Panics, Lasts
<1>2. chain \in Chain /\ msg \in Message /\ attempt \in Nat
  BY AttemptIsNat DEF ExchangeInv
<1>3. PICK x \in WriterState : x = w /\ Untouched(x)
  BY <1>1 DEF ExchangeInv, WritersOK, Fits
<1>4. PICK y : y = Recovered(Close(x))
  BY Zenon
<1>5. y \in WriterState /\ y.comp.buf = <<>> /\ Fell(y)
  BY <1>2, <1>3, <1>4, RecoversCoded, RecoversPlain
<1>6. PICK r : r = Own("panic", 0)
  OBVIOUS
<1>7. IsOwn(r, "panic", 0) /\ Sound(r)
  <2>1. 0 \in Nat /\ "panic" # "proxy"
    OBVIOUS
  <2> QED
    BY <1>6, <2>1, OwnFields, OwnResponse
<1>8. Landed(r, y)
  <2>1. r.from = "panic"
    BY <1>7 DEF IsOwn
  <2>2. \A code, g, items : Unwound(code, g, items) => Outcome(r, code, g, items)
    BY <2>1 DEF Outcome
  <2> QED
    BY Zenon, <1>5, <2>1, <2>2 DEF Landed, Fell
<1>9. y = w' /\ r = resp'
  BY Zenon, <1>1, <1>3, <1>4, <1>6, OwnIs
<1> QED
  BY <1>1, <1>7, <1>8, <1>9, OverFits

\* A step in which an answer is handed on, and the attempt goes on.
LEMMA CopyingFits ==
  ASSUME ExchangeInv, Lasts, pc \in {"proxy", "copying"}, pc' = "copying",
         bodyBuf' = bodyBuf, maxAttempts' = maxAttempts, expired' = expired, err' = err,
         \/ sent' = sent
         \/ sent' = Append(sent, Request) /\ pc = "proxy",
         NEW r, r = resp', Sound(r), NEW x, x = w', x \in WriterState,
         r.from = "upstream", ~ r.broken, Copied(x, r.status, r.hdr, r.sizes, r.read)
  PROVE  ExchangeInv'
<1>1. chain \in Chain /\ msg \in Message /\ expired \in BOOLEAN /\ err \in BOOLEAN
      /\ AttemptsOK /\ SentOK
  BY Zenon DEF ExchangeInv
<1>2. WritersOK'
  <2>1. PICK p : p = "copying"
    OBVIOUS
  <2>2. Fits(p, r, x)
    BY Zenon, <2>1 DEF Fits
  <2>3. p = pc'
    BY Zenon, <2>1
  <2> QED
    BY <2>2, <2>3, FitsThen
<1>3. AttemptsOK'
  <2>1. attempt > 0
    BY Zenon, <1>1 DEF AttemptsOK
  <2> QED
    BY Zenon, <1>1, <2>1, AttemptsKept DEF Lasts
<1>4. SentOK'
  BY <1>1, AttemptIsNat, SentKept DEF Lasts
<1> QED
  BY Zenon, <1>1, <1>2, <1>3, <1>4 DEF ExchangeInv, Lasts

\* The upstream answers: its status and headers are handed on.
LEMMA AnswersFit ==
  ASSUME ExchangeInv, NEW status \in Nat \ {0}, NEW hdr, Plain(hdr), NEW sizes \in Sizes,
         hdr.length \in {NoLength, Total(sizes)}, Answers(status, hdr, sizes)
  PROVE  ExchangeInv'
<1>1. PICK r : r = [from |-> "upstream", status |-> status, hdr |-> hdr, sizes |-> sizes,
                    read |-> 0, broken |-> FALSE]
  BY Zenon
<1>2. /\ pc = "proxy" /\ r = resp' /\ w' = WriteHeader([w EXCEPT !.hdr = hdr], status)
      /\ sent' = Append(sent, Request) /\ pc' = "copying" /\ Lasts
      /\ bodyBuf' = bodyBuf /\ maxAttempts' = maxAttempts /\ expired' = expired /\ err' = err
  BY Zenon, <1>1 DEF Answers, Lasts
<1>3. hdr \in Header /\ hdr.added = FALSE
  BY Zenon DEF Plain
<1>4. /\ r.from = "upstream" /\ r.status = status /\ r.hdr = hdr /\ r.sizes = sizes
      /\ r.read = 0 /\ r.broken = FALSE
  BY Zenon, <1>1
<1>5. r \in Response
  BY Zenon, <1>1, <1>3 DEF Response
<1>6. Sound(r)
  <2>1. 0 <= Len(sizes)
    BY DEF Sizes
  <2> QED
    BY <1>4, <1>5, <2>1 DEF Sound
<1>7. PICK x \in WriterState : x = w /\ Untouched(x)
  BY <1>2 DEF ExchangeInv, WritersOK, Fits
<1>8. PICK z : z = [x EXCEPT !.hdr = hdr]
  BY Zenon
<1>9. z \in WriterState /\ Nothing(z) /\ z.comp = NewCompressor /\ z.hdr = hdr
  <2>1. z \in WriterState
    BY <1>3, <1>8 DEF WriterState
  <2>2. z.hdr = hdr /\ z.comp = x.comp /\ z.rec = x.rec /\ z.applied = x.applied
        /\ z.net = x.net /\ z.wroteHeader = x.wroteHeader /\ z.logging = x.logging
        /\ z.logged = x.logged
    BY Zenon, <1>8 DEF WriterState
  <2> QED
    BY <1>7, <2>1, <2>2 DEF Untouched, Nothing, Fresh
<1>10. PICK y : y = WriteHeader(z, status)
  BY Zenon
<1>11. y \in WriterState /\ Copied(y, status, hdr, sizes, 0)
  <2>1. z.hdr.added = FALSE /\ chain \in Chain
    BY <1>3, <1>9 DEF ExchangeInv
  <2>2. WriteHeader(z, status) \in WriterState
        /\ Copied(WriteHeader(z, status), status, z.hdr, sizes, 0)
    BY Zenon, <1>9, <2>1, HeaderWritten
  <2> QED
    BY Zenon, <1>9, <1>10, <2>2
<1>12. y = w'
  BY Zenon, <1>2, <1>7, <1>8, <1>10
<1>13. Copied(y, r.status, r.hdr, r.sizes, r.read) /\ ~ r.broken
  BY Zenon, <1>4, <1>11
<1> QED
  BY <1>2, <1>4, <1>6, <1>11, <1>12, <1>13, CopyingFits

\* An upstream's response, while it is copied.
LEMMA Copying ==
  ASSUME ExchangeInv, pc = "copying"
  PROVE  /\ chain \in Chain /\ msg \in Message /\ attempt \in Nat
         /\ w \in WriterState /\ resp \in Response /\ resp.from = "upstream" /\ ~ resp.broken
         /\ resp.status \in Nat \ {0} /\ resp.hdr.added = FALSE /\ resp.sizes \in Sizes
         /\ resp.read \in Nat /\ resp.read <= Len(resp.sizes)
         /\ Copied(w, resp.status, resp.hdr, resp.sizes, resp.read)
<1>1. chain \in Chain /\ msg \in Message /\ attempt \in Nat
  BY AttemptIsNat DEF ExchangeInv
<1>2. w \in WriterState /\ resp.from = "upstream" /\ ~ resp.broken
      /\ Copied(w, resp.status, resp.hdr, resp.sizes, resp.read)
  BY Zenon DEF ExchangeInv, WritersOK, Fits
<1>3. resp \in Response /\ Plain(resp.hdr) /\ resp.read <= Len(resp.sizes) /\ resp.status # 0
  BY Zenon, <1>2 DEF ExchangeInv, Sound
<1> QED
  BY <1>1, <1>2, <1>3 DEF Response, Plain

\* A round of copyResponse's loop keeps the invariant.
LEMMA CopyChunkFits == ExchangeInv /\ CopyChunk => ExchangeInv'
<1> SUFFICES ASSUME ExchangeInv, CopyChunk PROVE ExchangeInv'
  OBVIOUS
<1>1. /\ pc = "copying" /\ resp.read + 1 <= Len(resp.sizes)
      /\ w' = Flush(Write(w, <<Item(resp.read + 1, resp.sizes[resp.read + 1])>>))
      /\ resp' = [resp EXCEPT !.read = resp.read + 1] /\ Lasts
      /\ pc' = pc /\ bodyBuf' = bodyBuf /\ maxAttempts' = maxAttempts /\ expired' = expired
      /\ err' = err /\ sent' = sent
  BY Zenon DEF CopyChunk, Lasts
<1>2. PICK x \in WriterState, q \in Response : x = w /\ q = resp
  BY <1>1, Copying
<1>3. PICK code \in Nat \ {0}, sizes \in Sizes, n \in Nat :
        code = q.status /\ sizes = q.sizes /\ n = q.read
  BY <1>1, <1>2, Copying
<1>4. PICK h : h = q.hdr
  OBVIOUS
<1>5. /\ Copied(x, code, h, sizes, n) /\ h.added = FALSE /\ n < Len(sizes)
      /\ chain \in Chain /\ msg \in Message /\ attempt \in Nat
  <2>1. Len(sizes) \in Nat
    BY DEF Sizes
  <2>2. Copied(x, code, h, sizes, n) /\ h.added = FALSE
        /\ chain \in Chain /\ msg \in Message /\ attempt \in Nat
    BY Zenon, <1>1, <1>2, <1>3, <1>4, Copying
  <2> QED
    BY <1>1, <1>2, <1>3, <2>1, <2>2
<1>6. Advances(x, code, h, sizes, n)
  BY Zenon, <1>5, ChunkWritten
<1>7. PICK y : y = Flush(Write(x, <<ChunkAt(n + 1, sizes[n + 1], FALSE)>>))
  BY Zenon
<1>8. y \in WriterState /\ Copied(y, code, h, sizes, n + 1)
  BY <1>6, <1>7 DEF Advances
<1>9. y = w'
  BY <1>1, <1>2, <1>3, <1>7 DEF Item, ChunkAt
<1>10. PICK r : r = [q EXCEPT !.read = n + 1]
  BY Zenon
<1>11. r \in Response /\ r.from = q.from /\ r.status = q.status /\ r.hdr = q.hdr
       /\ r.sizes = q.sizes /\ r.read = n + 1 /\ r.broken = q.broken
  BY <1>10 DEF Response
<1>12. Sound(r)
  <2>1. Sound(q)
    BY <1>2 DEF ExchangeInv
  <2>2. r.read <= Len(r.sizes)
    BY <1>1, <1>2, <1>3, <1>11
  <2> QED
    BY Zenon, <1>11, <2>1, <2>2 DEF Sound
<1>13. r = resp' /\ r.from = "upstream" /\ ~ r.broken
  BY Zenon, <1>1, <1>2, <1>3, <1>10, <1>11, Copying
<1>14. Copied(y, r.status, r.hdr, r.sizes, r.read)
  BY <1>3, <1>4, <1>8, <1>11
<1> QED
  BY Zenon, <1>1, <1>8, <1>9, <1>12, <1>13, <1>14, CopyingFits

\* So does the end of that loop, of the body or at an upstream's error.
LEMMA CopyEndsFits == ExchangeInv /\ CopyEnds => ExchangeInv'
<1> SUFFICES ASSUME ExchangeInv, CopyEnds PROVE ExchangeInv'
  OBVIOUS
<1>1. /\ pc = "copying" /\ w' = Close(w) /\ Lasts
      /\ pc' = (IF chain.retry THEN "attempted" ELSE "done")
      /\ resp' = [resp EXCEPT !.broken = resp.read < Len(resp.sizes)]
      /\ bodyBuf' = bodyBuf /\ maxAttempts' = maxAttempts /\ expired' = expired
      /\ err' = err /\ sent' = sent
  BY DEF CopyEnds, Returns, Lasts
<1>2. PICK x \in WriterState, q \in Response : x = w /\ q = resp
  BY <1>1, Copying
<1>3. PICK code \in Nat \ {0}, sizes \in Sizes, n \in Nat :
        code = q.status /\ sizes = q.sizes /\ n = q.read
  BY <1>1, <1>2, Copying
<1>4. PICK h : h = q.hdr
  OBVIOUS
<1>5. /\ Copied(x, code, h, sizes, n) /\ h.added = FALSE /\ n <= Len(sizes)
      /\ chain \in Chain /\ msg \in Message /\ attempt \in Nat /\ q.from = "upstream"
  BY Zenon, <1>1, <1>2, <1>3, <1>4, Copying
<1>6. PICK y : y = Close(x)
  OBVIOUS
<1>7. y \in WriterState /\ y.comp.buf = <<>> /\ Ended(y, code, h, sizes, n)
  <2>1. Close(x) \in WriterState /\ Close(x).comp.buf = <<>> /\ Ended(Close(x), code, h, sizes, n)
    BY Zenon, <1>5, Closes
  <2> QED
    BY Zenon, <1>6, <2>1
<1>8. PICK b \in BOOLEAN : b = (n < Len(sizes))
  <2>1. (n < Len(sizes)) \in BOOLEAN
    OBVIOUS
  <2> QED
    BY Zenon, <2>1
<1>9. PICK r : r = [q EXCEPT !.broken = b]
  BY Zenon
<1>10. r \in Response /\ r.from = q.from /\ r.status = q.status /\ r.hdr = q.hdr
       /\ r.sizes = q.sizes /\ r.read = q.read /\ r.broken = b
  BY <1>9 DEF Response
<1>11. Sound(r)
  <2>1. Sound(q)
    BY <1>2 DEF ExchangeInv
  <2> QED
    BY Zenon, <1>10, <2>1 DEF Sound
<1>12. r = resp'
  BY <1>1, <1>2, <1>3, <1>8, <1>9
<1>13. Landed(r, y)
  <2>1. r.from = "upstream" /\ r.broken = (r.read < Len(r.sizes))
    BY <1>3, <1>5, <1>8, <1>10
  <2>2. \A g, items : Whole(code, g, items, code, h, sizes, n) => Outcome(r, code, g, items)
    BY <1>3, <1>4, <1>10, <2>1 DEF Outcome
  <2> QED
    BY Zenon, <1>7, <2>1, <2>2, EndedLands
<1>14. y = w' /\ err' \in BOOLEAN
  BY Zenon, <1>1, <1>2, <1>6 DEF ExchangeInv
<1> QED
  BY <1>1, <1>11, <1>12, <1>13, <1>14, OverFits

\* An upstream's headers, whose length is that of the body when they give one.
LEMMA UpstreamsHeaders ==
  ASSUME NEW sizes \in Sizes, NEW hdr \in UpstreamHeaders(sizes)
  PROVE  Plain(hdr) /\ hdr.length \in {NoLength, Total(sizes)}
<1>1. Total(sizes) \in Nat
  <2>1. sizes \in Seq(Nat) /\ Len(sizes) <= Len(sizes)
    BY DEF Sizes
  <2> QED
    BY <2>1, TotalOfPrefix
<1>2. PICK len \in Int : len = hdr.length
  BY <1>1 DEF UpstreamHeaders, NoLength
<1>3. PICK c \in {"none", "upstream"} \cup Range(Encodings) : c = hdr.coding
  BY DEF UpstreamHeaders
<1>4. PICK s \in BOOLEAN : s = hdr.skipType
  BY DEF UpstreamHeaders
<1>5. hdr = [coding |-> c, length |-> len, skipType |-> s, added |-> FALSE]
      /\ hdr.added = FALSE /\ hdr.coding \in {"none", "upstream"}
  BY Zenon, <1>2, <1>3, <1>4 DEF UpstreamHeaders
<1>6. hdr \in Header
  <2> DEFINE Codings == {"none", "upstream"} \cup Range(Encodings)
  <2>1. c \in Codings
    BY <1>3
  <2>2. Header = [coding : Codings, length : Int, skipType : BOOLEAN, added : BOOLEAN]
    BY DEF Header
  <2> HIDE DEF Codings
  <2> QED
    BY Zenon, <1>5, <2>1, <2>2
<1>7. hdr.length \in {NoLength, Total(sizes)}
  BY Zenon DEF UpstreamHeaders
<1> QED
  BY <1>5, <1>6, <1>7 DEF Plain

\* Every step keeps the invariant.
LEMMA NextFits == ExchangeInv /\ [ExchangeNext]_exchangeVars => ExchangeInv'
<1> SUFFICES ASSUME ExchangeInv, [ExchangeNext]_exchangeVars PROVE ExchangeInv'
  BY Zenon
<1>1. CASE RequestStart
  BY <1>1, StartFits
<1>2. CASE Dispatch
  BY <1>2, DispatchFits
<1>3. ASSUME NEW pickFailed \in BOOLEAN, Refused(pickFailed)
      PROVE  ExchangeInv'
  <2>1. PICK code \in Nat \ {0} : code = 503
    OBVIOUS
  <2>2. /\ pc = "proxy" /\ Returns(writeError(w, code)) /\ err' \in BOOLEAN /\ sent' = sent
        /\ resp' = [NoResponse EXCEPT !.from = "proxy", !.status = code]
    BY <1>3, <2>1 DEF Refused
  <2> QED
    BY Zenon, <2>2, OwnAnswerFits
<1>4. CASE RoundTripFails
  <2>1. PICK code \in Nat \ {0} : code = IF expired THEN 504 ELSE 502
    OBVIOUS
  <2>2. /\ pc = "proxy" /\ Returns(writeError(w, code)) /\ err' \in BOOLEAN
        /\ sent' = Append(sent, Request)
        /\ resp' = [NoResponse EXCEPT !.from = "proxy", !.status = code]
    BY <1>4, <2>1 DEF RoundTripFails
  <2> QED
    BY Zenon, <2>2, OwnAnswerFits
<1>5. CASE Panics
  BY <1>5, PanicFits
<1>6. ASSUME NEW status \in {200, 503}, NEW sizes \in Bodies, NEW hdr \in UpstreamHeaders(sizes),
             Answers(status, hdr, sizes)
      PROVE  ExchangeInv'
  <2>1. status \in Nat \ {0} /\ sizes \in Sizes
    BY ExchangeAssumption DEF Sizes
  <2>2. Plain(hdr) /\ hdr.length \in {NoLength, Total(sizes)}
    BY <2>1, UpstreamsHeaders
  <2> QED
    BY <1>6, <2>1, <2>2, AnswersFit
<1>7. CASE Answers(204, NoHeader, <<>>)
  <2>1. PICK status \in Nat \ {0}, hdr \in Header, sizes \in Sizes :
          status = 204 /\ hdr = NoHeader /\ sizes = <<>>
    BY OneLine, NoHeaderIs
  <2>2. Plain(hdr) /\ hdr.length \in {NoLength, Total(sizes)} /\ Answers(status, hdr, sizes)
    BY Zenon, <1>7, <2>1, NoHeaderIs DEF Plain
  <2> QED
    BY <2>2, AnswersFit
<1>8. CASE CopyChunk
  BY <1>8, CopyChunkFits
<1>9. CASE CopyEnds
  BY <1>9, CopyEndsFits
<1>10. CASE AfterAttempt
  BY <1>10, AfterFits
<1>11. CASE Deadline
  <2>1. expired' \in BOOLEAN
        /\ UNCHANGED <<chain, msg, pc, bodyBuf, maxAttempts, attempt, err, resp, w, sent>>
    BY Zenon, <1>11 DEF Deadline
  <2> QED
    BY Zenon, <2>1, DeadlineFits
<1>12. CASE UNCHANGED exchangeVars
  <2>1. expired' \in BOOLEAN
        /\ UNCHANGED <<chain, msg, pc, bodyBuf, maxAttempts, attempt, err, resp, w, sent>>
    BY <1>12 DEF exchangeVars, ExchangeInv
  <2> QED
    BY <2>1, DeadlineFits
<1> QED
  BY <1>1, <1>2, <1>3, <1>4, <1>5, <1>6, <1>7, <1>8, <1>9, <1>10, <1>11, <1>12
     DEF ExchangeNext, Done

\* In every state of a request, each of the nested writers holds what the code
\* up to that point makes it hold of the attempt's answer (the inductive
\* invariant behind the theorems below).
THEOREM ExchangeInvariant == ExchangeSpec => []ExchangeInv
BY InitFits, NextFits, PTL DEF ExchangeSpec

-----------------------------------------------------------------------------
\* What the invariant says of the finished exchange.

\* Adding the route's headers leaves the others alone.
LEMMA AddedIs ==
  ASSUME NEW h \in Header, chain \in Chain
  PROVE  /\ Added(h).coding = h.coding /\ Added(h).length = h.length
         /\ Added(h).skipType = h.skipType /\ Added(h).added = chain.headers
<1>1. chain.headers \in BOOLEAN
  BY DEF Chain
<1> QED
  BY <1>1 DEF Added, Header

\* What the server has is some chunks of the attempt, coded as the headers say.
Shown(code, h, items) ==
  \E sizes \in Sizes, n \in Nat :
    /\ n <= Len(sizes)
    /\ \/ h.coding = resp.hdr.coding /\ items = Chunks(sizes, n, FALSE)
       \/ /\ Codable(code, resp.hdr, sizes, n) /\ h.coding = CodedHeader(resp.hdr).coding
          /\ items \in {Chunks(sizes, n, TRUE), Append(Chunks(sizes, n, TRUE), Trailer)}

\* The whole of an answer is coded as its headers say.
LEMMA WholeShows ==
  ASSUME ExchangeInv, NEW code, NEW h, NEW items, NEW sizes \in Sizes, NEW n \in Nat,
         n <= Len(sizes), Whole(code, h, items, code, resp.hdr, sizes, n)
  PROVE  Shown(code, h, items)
<1>1. resp.hdr \in Header /\ chain \in Chain /\ msg \in Message
  BY Zenon DEF ExchangeInv, Sound, Plain
<1>2. CASE h = Added(resp.hdr) /\ items = Chunks(sizes, n, FALSE)
  BY Zenon, <1>1, <1>2, AddedIs DEF Shown
<1>3. CASE /\ Codable(code, resp.hdr, sizes, n) /\ h = Added(CodedHeader(resp.hdr))
           /\ items = Append(Chunks(sizes, n, TRUE), Trailer)
  <2>1. CodedHeader(resp.hdr) \in Header
    BY Zenon, <1>1, <1>3, CodedHeaderIs DEF Codable
  <2>2. h.coding = CodedHeader(resp.hdr).coding
    BY Zenon, <1>1, <1>3, <2>1, AddedIs
  <2> QED
    BY Zenon, <1>3, <2>2 DEF Shown
<1> QED
  BY Zenon, <1>2, <1>3 DEF Whole

\* So is what has been copied of one, if the server has any of it.
LEMMA CopiedShows ==
  ASSUME ExchangeInv, pc = "copying", NEW x, x = w
  PROVE  Fresh(x) \/ (x.net.headers = 1 /\ Shown(x.net.status, x.net.hdr, x.net.body))
<1>1. PICK code \in Nat, h \in Header, sizes \in Sizes, n \in Nat :
        code = resp.status /\ h = resp.hdr /\ sizes = resp.sizes /\ n = resp.read
  BY Copying DEF Response
<1>2. Copied(x, code, h, sizes, n) /\ n <= Len(sizes) /\ h \in Header /\ chain \in Chain
      /\ msg \in Message
  BY Zenon, <1>1, Copying DEF ExchangeInv, Sound, Plain
<1>3. ASSUME NEW g, NEW items, Going(x, code, g, items), ~ Fresh(x)
      PROVE  x.net.headers = 1 /\ x.net.status = code /\ x.net.hdr = g /\ x.net.body = items
  BY <1>3 DEF Going, Gone, Delivered
<1>4. ASSUME Going(x, code, Added(h), Chunks(sizes, n, FALSE))
      PROVE  Fresh(x) \/ (x.net.headers = 1 /\ Shown(x.net.status, x.net.hdr, x.net.body))
  <2>1. PICK g, items : g = Added(h) /\ items = Chunks(sizes, n, FALSE)
    BY Zenon
  <2>2. g.coding = h.coding
    BY <1>2, <2>1, AddedIs
  <2>3. Shown(code, g, items)
    BY Zenon, <1>1, <1>2, <2>1, <2>2 DEF Shown
  <2>4. Going(x, code, g, items)
    BY Zenon, <1>4, <2>1
  <2> QED
    BY Zenon, <1>3, <2>3, <2>4
<1>5. CASE ~ Compressing
  <2>1. Going(x, code, Added(h), Chunks(sizes, n, FALSE))
    BY Zenon, <1>2, <1>5 DEF Copied
  <2> QED
    BY Zenon, <1>4, <2>1
<1>6. CASE Compressing /\ n = 0
  BY <1>2, <1>6 DEF Copied, Nothing
<1>7. CASE Compressing /\ n # 0
  <2>1. Decided(x, code, h, sizes, n)
    BY Zenon, <1>2, <1>7 DEF Copied
  <2>2. CASE x.comp.compress = TRUE
    <3>1. Codable(code, h, sizes, n)
          /\ Going(x, code, Added(CodedHeader(h)), Chunks(sizes, n, TRUE))
      BY Zenon, <2>1, <2>2 DEF Decided
    <3>2. PICK g, items : g = Added(CodedHeader(h)) /\ items = Chunks(sizes, n, TRUE)
      BY Zenon
    <3>3. g.coding = CodedHeader(h).coding
      BY Zenon, <1>2, <1>7, <3>2, CodedHeaderIs, AddedIs
    <3>4. Shown(code, g, items)
      BY Zenon, <1>1, <1>2, <3>1, <3>2, <3>3 DEF Shown
    <3>5. Going(x, code, g, items)
      BY Zenon, <3>1, <3>2
    <3> QED
      BY <1>3, <3>4, <3>5
  <2>3. CASE x.comp.compress = FALSE
    <3>1. Going(x, code, Added(h), Chunks(sizes, n, FALSE))
      BY Zenon, <2>1, <2>3 DEF Decided
    <3> QED
      BY Zenon, <1>4, <3>1
  <2>4. x.comp.compress \in BOOLEAN
    BY Zenon, Copying DEF WriterState, Compressor
  <2> QED
    BY Zenon, <2>2, <2>3, <2>4
<1> QED
  BY Zenon, <1>5, <1>6, <1>7

\* So is what an attempt leaves behind.
LEMMA DoneShows ==
  ASSUME ExchangeInv, NEW code, NEW h, NEW items, Outcome(resp, code, h, items)
  PROVE  Shown(code, h, items)
<1>1. Sound(resp) /\ chain \in Chain /\ msg \in Message /\ attempt \in Nat
  BY Zenon, AttemptIsNat DEF ExchangeInv
<1>2. CASE resp.from = "upstream"
  <2>1. PICK sizes \in Sizes, n \in Nat : sizes = resp.sizes /\ n = resp.read /\ n <= Len(sizes)
    BY <1>1 DEF Sound, Response
  <2>2. Whole(code, h, items, code, resp.hdr, sizes, n)
    BY Zenon, <1>2, <2>1 DEF Outcome, Whole
  <2> QED
    BY Zenon, <2>1, <2>2, WholeShows
<1>3. CASE resp.from = "proxy"
  <2>1. PICK sizes \in Sizes, n \in Nat : sizes = <<1>> /\ n = 1 /\ n <= Len(sizes)
    BY OneLine
  <2>2. Whole(code, h, items, code, resp.hdr, sizes, n)
    <3>1. resp.hdr = NoHeader
      BY <1>1, <1>3 DEF Sound
    <3> QED
      BY Zenon, <1>3, <2>1, <3>1 DEF Outcome, Whole
  <2> QED
    BY <2>1, <2>2, WholeShows
<1>4. CASE resp.from = "panic"
  <2>1. Unwound(code, h, items) /\ resp.hdr = NoHeader
    BY Zenon, <1>1, <1>4 DEF Outcome, Sound
  <2>2. CASE Compressing
    <3>1. PICK sizes \in Sizes, n \in Nat : sizes = <<>> /\ n = 0 /\ n <= Len(sizes)
      BY OneLine
    <3>2. Whole(code, h, items, 200, resp.hdr, sizes, n)
      BY <2>1, <2>2, <3>1 DEF Unwound
    <3>3. Whole(code, h, items, code, resp.hdr, sizes, n)
      BY Zenon, <3>2 DEF Whole
    <3> QED
      BY <3>1, <3>3, WholeShows
  <2>3. CASE ~ Compressing /\ chain.retry
    <3>1. h = NoHeader /\ items = <<>>
      BY <2>1, <2>3 DEF Unwound
    <3>2. PICK sizes \in Sizes, n \in Nat : sizes = <<>> /\ n = 0 /\ n <= Len(sizes)
      BY OneLine
    <3>3. items = Chunks(sizes, n, FALSE)
      BY Zenon, <3>1, <3>2, NoChunks
    <3> QED
      BY Zenon, <2>1, <3>1, <3>2, <3>3 DEF Shown
  <2>4. CASE ~ Compressing /\ ~ chain.retry
    <3>1. h = NoHeader /\ items = Chunks(<<1>>, 1, FALSE)
      BY Zenon, <2>1, <2>4 DEF Unwound
    <3>2. PICK sizes \in Sizes, n \in Nat : sizes = <<1>> /\ n = 1 /\ n <= Len(sizes)
      BY OneLine
    <3> QED
      BY Zenon, <2>1, <3>1, <3>2 DEF Shown
  <2> QED
    BY <2>2, <2>3, <2>4
<1> QED
  BY <1>2, <1>3, <1>4 DEF Outcome

\* So is, at any time, what the server has.
LEMMA Shows ==
  ASSUME ExchangeInv
  PROVE  Fresh(w) \/ (w.net.headers = 1 /\ Shown(w.net.status, w.net.hdr, w.net.body))
<1>1. CASE pc = "copying"
  BY <1>1, CopiedShows
<1>2. CASE pc = "done"
  BY Zenon, <1>2, DoneShows DEF ExchangeInv, WritersOK, Fits
<1>3. CASE pc \in {"arrived", "dispatch", "proxy", "attempted"}
  BY Zenon, <1>3 DEF ExchangeInv, WritersOK, Fits, Untouched, Nothing
<1> QED
  BY Zenon, <1>1, <1>2, <1>3 DEF ExchangeInv

\* Items that are the first n chunks of an attempt's answer, coded or not.
ItemsOf(items, sizes, n, coded) ==
  /\ items \in Items /\ Len(items) = n /\ DOMAIN items = 1..n
  /\ \A i \in 1..n : /\ items[i].attempt = attempt /\ items[i].index = i
                     /\ items[i].coded = coded /\ items[i].size = sizes[i]
                     /\ sizes[i] \in Nat \ {0}

\* The items of an answer, and their sizes.
LEMMA ItemFields ==
  ASSUME attempt \in Nat, NEW sizes \in Sizes, NEW n \in Nat, n <= Len(sizes),
         NEW coded \in BOOLEAN, NEW items, items = Chunks(sizes, n, coded)
  PROVE  ItemsOf(items, sizes, n, coded)
<1>1. items \in Items /\ Len(items) = n /\ \A i \in 1..n : items[i] = ChunkAt(i, sizes[i], coded)
  BY ChunksAre
<1>2. DOMAIN items = 1..n
  <2>1. items \in Seq(Chunk) /\ Len(items) = n
    BY Zenon, <1>1 DEF Items
  <2> QED
    BY <2>1
<1>3. ASSUME NEW i \in 1..n
      PROVE  /\ items[i].attempt = attempt /\ items[i].index = i
             /\ items[i].coded = coded /\ items[i].size = sizes[i] /\ sizes[i] \in Nat \ {0}
  <2>1. i \in Nat /\ sizes[i] \in Nat \ {0}
    BY DEF Sizes
  <2> QED
    BY <1>1, <2>1, ChunkAtIs
<1> QED
  BY Zenon, <1>1, <1>2, <1>3 DEF ItemsOf

\* A coded body's items, with its end.
LEMMA EndedItems ==
  ASSUME NEW s \in Items, NEW items, items = Append(s, Trailer)
  PROVE  /\ items \in Items /\ Len(items) = Len(s) + 1 /\ DOMAIN items = 1..(Len(s) + 1)
         /\ items[Len(s) + 1] = Trailer /\ \A i \in 1..Len(s) : items[i] = s[i]
<1>1. ASSUME NEW S, NEW t \in Seq(S), NEW e \in S
      PROVE  /\ Append(t, e) \in Seq(S) /\ Len(Append(t, e)) = Len(t) + 1
             /\ DOMAIN Append(t, e) = 1..(Len(t) + 1)
             /\ Append(t, e)[Len(t) + 1] = e /\ \A i \in 1..Len(t) : Append(t, e)[i] = t[i]
  OBVIOUS
<1> QED
  BY <1>1, TrailerIsItem DEF Items

\* Items that are shown are of one attempt, in order and coded alike.
LEMMA ShownAgrees ==
  ASSUME ExchangeInv, NEW code, NEW h, NEW items, Shown(code, h, items),
         NEW coded, coded = (h.coding \in Range(Encodings))
  PROVE  \A i \in DOMAIN items :
           \/ items[i].attempt = attempt /\ items[i].index = i /\ items[i].coded = coded
           \/ items[i] = Trailer /\ i = Len(items) /\ coded
<1>1. PICK sizes \in Sizes, n \in Nat :
        /\ n <= Len(sizes)
        /\ \/ h.coding = resp.hdr.coding /\ items = Chunks(sizes, n, FALSE)
           \/ /\ Codable(code, resp.hdr, sizes, n) /\ h.coding = CodedHeader(resp.hdr).coding
              /\ items \in {Chunks(sizes, n, TRUE), Append(Chunks(sizes, n, TRUE), Trailer)}
  BY Zenon DEF Shown
<1>2. attempt \in Nat /\ msg \in Message /\ resp.hdr \in Header
      /\ resp.hdr.coding \in {"none", "upstream"}
  BY AttemptIsNat DEF ExchangeInv, Sound, Plain
<1>3. CASE h.coding = resp.hdr.coding /\ items = Chunks(sizes, n, FALSE)
  <2>1. PICK no \in BOOLEAN : no = FALSE
    BY Zenon
  <2>2. coded = no
    BY <1>2, <1>3, <2>1, EncodingNames
  <2>3. items = Chunks(sizes, n, no)
    BY Zenon, <1>3, <2>1
  <2>4. ItemsOf(items, sizes, n, no)
    BY Zenon, <1>1, <1>2, <2>3, ItemFields
  <2> QED
    BY Zenon, <2>2, <2>4 DEF ItemsOf
<1>4. CASE /\ Codable(code, resp.hdr, sizes, n) /\ h.coding = CodedHeader(resp.hdr).coding
           /\ items \in {Chunks(sizes, n, TRUE), Append(Chunks(sizes, n, TRUE), Trailer)}
  <2>1. PICK yes \in BOOLEAN : yes = TRUE
    BY Zenon
  <2>2. coded = yes
    BY Zenon, <1>2, <1>4, <2>1, CodedHeaderIs DEF Codable
  <2>3. PICK s : s = Chunks(sizes, n, yes)
    OBVIOUS
  <2>4. /\ s \in Items /\ Len(s) = n /\ DOMAIN s = 1..n
        /\ \A i \in 1..n : s[i].attempt = attempt /\ s[i].index = i /\ s[i].coded = yes
    <3>1. ItemsOf(s, sizes, n, yes)
      BY Zenon, <1>1, <1>2, <2>3, ItemFields
    <3> QED
      BY Zenon, <3>1 DEF ItemsOf
  <2>5. CASE items = s
    BY Zenon, <2>2, <2>4, <2>5
  <2>6. CASE items = Append(s, Trailer)
    <3>1. /\ Len(items) = n + 1 /\ DOMAIN items = 1..(n + 1)
          /\ items[n + 1] = Trailer /\ \A i \in 1..n : items[i] = s[i]
      BY <2>4, <2>6, EndedItems
    <3>2. \A i \in 1..(n + 1) : i = n + 1 \/ i \in 1..n
      OBVIOUS
    <3>3. \A i \in 1..n : /\ items[i].attempt = attempt /\ items[i].index = i
                         /\ items[i].coded = coded
      BY Zenon, <2>2, <2>4, <3>1
    <3>4. n + 1 = Len(items) /\ coded
      BY Zenon, <2>1, <2>2, <3>1
    <3> QED
      BY Zenon, <3>1, <3>2, <3>3, <3>4
  <2> QED
    BY Zenon, <1>4, <2>1, <2>3, <2>5, <2>6
<1> QED
  BY Zenon, <1>1, <1>3, <1>4

\* What the server has before anything is written.
LEMMA NothingSent ==
  Writers.net.headers = 0 /\ Writers.net.body = <<>> /\ Writers.net.hdr = NoHeader
BY DEF Writers

\* The invariant implies OneAnswer.
LEMMA OneAnswerHolds == ExchangeInv => OneAnswer
<1> SUFFICES ASSUME ExchangeInv PROVE OneAnswer
  BY Zenon
<1>1. CASE Fresh(w)
  <2>1. w.net.headers = 0 /\ w.net.body = <<>>
    BY Zenon, <1>1, NothingSent DEF Fresh
  <2>2. DOMAIN (w.net.body) = {} /\ w.net.headers <= 1
    BY <2>1
  <2> QED
    BY Zenon, <2>2 DEF OneAnswer
<1>2. CASE w.net.headers = 1 /\ Shown(w.net.status, w.net.hdr, w.net.body)
  <2>1. PICK coded, h, body : coded = CodedHere /\ h = w.net.hdr /\ body = w.net.body
    OBVIOUS
  <2>2. coded = (h.coding \in Range(Encodings))
    BY Zenon, <2>1 DEF CodedHere
  <2>3. \A i \in DOMAIN body :
           \/ body[i].attempt = attempt /\ body[i].index = i /\ body[i].coded = coded
           \/ body[i] = Trailer /\ i = Len(body) /\ coded
    BY <1>2, <2>1, <2>2, ShownAgrees
  <2> QED
    BY <1>2, <2>1, <2>3 DEF OneAnswer
<1> QED
  BY <1>1, <1>2, Shows

\* What the client has of an upstream's answer when the handler has returned.
LEMMA DoneWhole ==
  ASSUME ExchangeInv, pc = "done", resp.from = "upstream"
  PROVE  /\ Whole(w.net.status, w.net.hdr, w.net.body, resp.status, resp.hdr, resp.sizes, resp.read)
         /\ resp.broken = (resp.read < Len(resp.sizes))
         /\ resp.sizes \in Sizes /\ resp.read \in Nat /\ resp.read <= Len(resp.sizes)
         /\ Plain(resp.hdr) /\ resp.hdr.length \in {NoLength, Total(resp.sizes)}
         /\ chain \in Chain /\ msg \in Message /\ attempt \in Nat /\ resp.broken \in BOOLEAN
<1>1. /\ Outcome(resp, w.net.status, w.net.hdr, w.net.body)
      /\ resp.broken = (resp.read < Len(resp.sizes))
  BY Zenon DEF ExchangeInv, WritersOK, Fits
<1>2. Sound(resp) /\ chain \in Chain /\ msg \in Message /\ attempt \in Nat
  BY AttemptIsNat DEF ExchangeInv
<1>3. resp \in Response /\ resp.read <= Len(resp.sizes) /\ Plain(resp.hdr)
      /\ resp.hdr.length \in {NoLength, Total(resp.sizes)}
  BY Zenon, <1>2 DEF Sound
<1>4. Whole(w.net.status, w.net.hdr, w.net.body, resp.status, resp.hdr, resp.sizes, resp.read)
  BY <1>1 DEF Outcome
<1> QED
  BY <1>1, <1>2, <1>3, <1>4 DEF Response

\* It implies AnswerComplete.
LEMMA AnswerCompleteHolds == ExchangeInv => AnswerComplete
<1> SUFFICES ASSUME ExchangeInv, pc = "done", resp.from = "upstream"
             PROVE  /\ w.net.status = resp.status
                    /\ Len(w.net.body) = resp.read + (IF CodedHere THEN 1 ELSE 0)
                    /\ w.net.hdr.added = chain.headers
                    /\ CodedHere => w.net.body[Len(w.net.body)] = Trailer
  BY DEF AnswerComplete
<1>1. PICK code, g, items, h : code = w.net.status /\ g = w.net.hdr /\ items = w.net.body
                               /\ h = resp.hdr
  BY Zenon
<1>2. PICK sizes \in Sizes, n \in Nat : sizes = resp.sizes /\ n = resp.read
  BY DoneWhole
<1>3. /\ Whole(code, g, items, resp.status, h, sizes, n) /\ n <= Len(sizes) /\ h \in Header
      /\ h.coding \in {"none", "upstream"}
      /\ chain \in Chain /\ msg \in Message /\ attempt \in Nat
  BY Zenon, <1>1, <1>2, DoneWhole DEF Plain
<1>4. code = resp.status
  BY Zenon, <1>3 DEF Whole
<1>5. CASE g = Added(h) /\ items = Chunks(sizes, n, FALSE)
  <2>1. g.added = chain.headers /\ g.coding = h.coding
    BY Zenon, <1>3, <1>5, AddedIs
  <2>2. ~ CodedHere
    BY <1>1, <1>3, <2>1, EncodingNames DEF CodedHere
  <2>3. PICK no \in BOOLEAN : no = FALSE
    BY Zenon
  <2>4. items = Chunks(sizes, n, no)
    BY Zenon, <1>5, <2>3
  <2>5. Len(items) = n
    <3>1. ItemsOf(items, sizes, n, no)
      BY Zenon, <1>3, <2>4, ItemFields
    <3> QED
      BY Zenon, <3>1 DEF ItemsOf
  <2> QED
    BY <1>1, <1>2, <1>4, <2>1, <2>2, <2>5
<1>6. CASE /\ Codable(resp.status, h, sizes, n) /\ g = Added(CodedHeader(h))
           /\ items = Append(Chunks(sizes, n, TRUE), Trailer)
  <2>1. CodedHeader(h) \in Header /\ CodedHeader(h).coding \in Range(Encodings)
    BY Zenon, <1>3, <1>6, CodedHeaderIs DEF Codable
  <2>2. g.added = chain.headers /\ CodedHere
    <3>1. PICK k \in Header : k = CodedHeader(h)
      BY Zenon, <2>1
    <3>2. g.added = chain.headers /\ g.coding = k.coding
      BY Zenon, <1>3, <1>6, <3>1, AddedIs
    <3> QED
      BY Zenon, <1>1, <2>1, <3>1, <3>2 DEF CodedHere
  <2>3. PICK yes \in BOOLEAN : yes = TRUE
    BY Zenon
  <2>4. PICK s : s = Chunks(sizes, n, yes)
    OBVIOUS
  <2>5. s \in Items /\ Len(s) = n
    <3>1. ItemsOf(s, sizes, n, yes)
      BY Zenon, <1>3, <2>4, ItemFields
    <3> QED
      BY Zenon, <3>1 DEF ItemsOf
  <2>6. items = Append(s, Trailer)
    BY Zenon, <1>6, <2>3, <2>4
  <2>7. Len(items) = n + 1 /\ items[n + 1] = Trailer
    BY <2>5, <2>6, EndedItems
  <2> QED
    BY Zenon, <1>1, <1>2, <1>4, <2>2, <2>7
<1> QED
  BY Zenon, <1>3, <1>5, <1>6 DEF Whole

\* It implies LengthTells: a body that was cut adds up to less than its length.
LEMMA LengthTellsHolds == ExchangeInv => LengthTells
<1> SUFFICES ASSUME ExchangeInv, pc = "done", resp.from = "upstream"
             PROVE  /\ w.net.hdr.length = IF CodedHere THEN NoLength ELSE resp.hdr.length
                    /\ w.net.hdr.length # NoLength =>
                         (w.net.hdr.length = Size(w.net.body)) = ~ resp.broken
  BY DEF LengthTells
<1>1. PICK code, g, items, h : code = w.net.status /\ g = w.net.hdr /\ items = w.net.body
                               /\ h = resp.hdr
  OBVIOUS
<1>2. PICK sizes \in Sizes, n \in Nat : sizes = resp.sizes /\ n = resp.read
  BY DoneWhole
<1>3. /\ Whole(code, g, items, resp.status, h, sizes, n) /\ n <= Len(sizes) /\ h \in Header
      /\ h.coding \in {"none", "upstream"} /\ h.length \in {NoLength, Total(sizes)}
      /\ chain \in Chain /\ msg \in Message /\ attempt \in Nat
      /\ resp.broken = (n < Len(sizes))
  BY Zenon, <1>1, <1>2, DoneWhole DEF Plain
<1>4. CASE g = Added(h) /\ items = Chunks(sizes, n, FALSE)
  <2>1. g.length = h.length /\ g.coding = h.coding
    BY Zenon, <1>3, <1>4, AddedIs
  <2>2. ~ CodedHere
    BY Zenon, <1>1, <1>3, <2>1, EncodingNames DEF CodedHere
  <2>3. PICK no \in BOOLEAN : no = FALSE
    BY Zenon
  <2>4. items = Chunks(sizes, n, no)
    BY Zenon, <1>4, <2>3
  <2>5. DOMAIN items = 1..n /\ \A i \in 1..n : items[i].size = sizes[i]
    <3>1. ItemsOf(items, sizes, n, no)
      BY Zenon, <1>3, <2>4, ItemFields
    <3> QED
      BY Zenon, <3>1 DEF ItemsOf
  <2>6. PICK t : t = [i \in DOMAIN items |-> items[i].size]
    BY Zenon
  <2>7. sizes \in Seq(Nat) /\ Len(sizes) \in Nat /\ \A i \in 1..Len(sizes) : sizes[i] # 0
    BY DEF Sizes
  <2>8. t \in Seq(Nat) /\ Len(t) = n /\ \A i \in 1..n : t[i] = sizes[i]
    <3>1. t = [i \in 1..n |-> sizes[i]]
      BY Zenon, <2>5, <2>6
    <3>2. \A i \in 1..n : sizes[i] \in Nat
      BY <1>3, <2>7
    <3> QED
      BY <3>1, <3>2
  <2>9. /\ Total(t) \in Nat /\ Total(sizes) \in Nat /\ Total(t) <= Total(sizes)
        /\ n < Len(sizes) => Total(t) < Total(sizes)
    BY Zenon, <1>3, <2>7, <2>8, TotalOfPrefix
  <2>10. n = Len(sizes) => Total(t) = Total(sizes)
    <3>1. ASSUME n = Len(sizes) PROVE t = sizes
      <4>1. Len(t) = Len(sizes) /\ \A i \in 1..Len(t) : t[i] = sizes[i]
        BY Zenon, <2>8, <3>1
      <4> QED
        BY Zenon, <2>7, <2>8, <4>1, SameSeq
    <3> QED
      BY Zenon, <3>1
  <2>11. Size(items) = Total(t)
    BY Zenon, <2>6 DEF Size
  <2>12. (Total(sizes) = Size(items)) = ~ (n < Len(sizes))
    BY <1>3, <2>7, <2>9, <2>10, <2>11
  <2> QED
    BY Zenon, <1>1, <1>3, <2>1, <2>2, <2>12
<1>5. CASE /\ Codable(resp.status, h, sizes, n) /\ g = Added(CodedHeader(h))
           /\ items = Append(Chunks(sizes, n, TRUE), Trailer)
  <2>1. /\ CodedHeader(h) \in Header /\ CodedHeader(h).coding \in Range(Encodings)
        /\ CodedHeader(h).length = NoLength
    BY <1>3, <1>5, CodedHeaderIs DEF Codable
  <2>2. g.length = NoLength /\ CodedHere
    <3>1. PICK k \in Header : k = CodedHeader(h)
      BY Zenon, <2>1
    <3>2. g.length = k.length /\ g.coding = k.coding
      BY Zenon, <1>3, <1>5, <3>1, AddedIs
    <3> QED
      BY Zenon, <1>1, <2>1, <3>1, <3>2 DEF CodedHere
  <2> QED
    BY Zenon, <1>1, <2>2
<1> QED
  BY ZenonT(30), <1>3, <1>4, <1>5 DEF Whole

\* What Compress codes has no size or a size worth coding.
LEMMA ShownSize ==
  ASSUME ExchangeInv, NEW sizes \in Sizes, NEW n \in Nat, n <= Len(sizes),
         n > 0 => sizes[1] >= MinBytes, NEW items,
         items \in {Chunks(sizes, n, TRUE), Append(Chunks(sizes, n, TRUE), Trailer)}
  PROVE  Size(items) = 0 \/ Size(items) >= MinBytes
<1>1. attempt \in Nat /\ MinBytes \in Nat
  BY ExchangeAssumption, AttemptIsNat DEF ExchangeInv
<1>2. PICK yes \in BOOLEAN : yes = TRUE
  BY Zenon
<1>3. PICK s : s = Chunks(sizes, n, yes)
  BY Zenon
<1>4. /\ s \in Items /\ Len(s) = n /\ DOMAIN s = 1..n
      /\ \A i \in 1..n : s[i].size = sizes[i] /\ sizes[i] \in Nat
  <2>1. ItemsOf(s, sizes, n, yes)
    BY Zenon, <1>1, <1>3, ItemFields
  <2>2. Nat \ {0} \subseteq Nat
    BY Zenon
  <2> QED
    BY Zenon, <2>1, <2>2 DEF ItemsOf
<1>5. PICK t : t = [i \in DOMAIN items |-> items[i].size]
  BY Zenon
<1>6. Size(items) = Total(t)
  BY Zenon, <1>5 DEF Size
<1>7. Trailer.size = 0
  BY DEF Trailer
<1>8. t \in Seq(Nat) /\ (n = 0 => t \in {<<>>, <<0>>}) /\ (n > 0 => t # <<>> /\ t[1] = sizes[1])
  <2>1. CASE items = s
    <3>1. t = [i \in 1..n |-> sizes[i]]
      BY ZenonT(30), <1>4, <1>5, <2>1
    <3>2. t \in Seq(Nat) /\ Len(t) = n /\ \A i \in 1..n : t[i] = sizes[i]
      BY <1>4, <3>1
    <3> QED
      BY <3>2
  <2>2. CASE items = Append(s, Trailer)
    <3>1. /\ DOMAIN items = 1..(n + 1) /\ items[n + 1] = Trailer
          /\ \A i \in 1..n : items[i] = s[i]
      BY ZenonT(30), <1>4, <2>2, EndedItems
    <3>2. \A i \in 1..(n + 1) : items[i].size \in Nat
      <4> TAKE i \in 1..(n + 1)
      <4>1. CASE i = n + 1
        BY <1>7, <3>1, <4>1
      <4>2. CASE i \in 1..n
        BY <1>4, <3>1, <4>2
      <4> QED
        BY <4>1, <4>2
    <3>3. PICK z : z = [i \in 1..(n + 1) |-> items[i].size]
      BY Zenon
    <3>4. z = t
      BY ZenonT(30), <1>5, <3>1, <3>3
    <3>5. z \in Seq(Nat) /\ Len(z) = n + 1 /\ z[n + 1] = 0
      BY <1>7, <3>1, <3>2, <3>3
    <3>6. n > 0 => z[1] = sizes[1]
      BY <1>4, <3>1, <3>3
    <3>7. n = 0 => z = <<0>>
      BY <3>5
    <3>8. z # <<>>
      BY <3>5
    <3> QED
      BY Zenon, <3>4, <3>5, <3>6, <3>7, <3>8
  <2> QED
    BY Zenon, <1>2, <1>3, <2>1, <2>2
<1>9. CASE n = 0
  <2>1. 0 \in Nat
    BY Zenon
  <2> QED
    BY Zenon, <1>6, <1>8, <1>9, <2>1, TotalOfFirst
<1>10. CASE n > 0
  <2>1. t \in Seq(Nat) /\ t # <<>> /\ t[1] = sizes[1] /\ sizes[1] \in Nat /\ sizes[1] >= MinBytes
    BY <1>4, <1>8, <1>10
  <2>2. Total(t) \in Nat /\ t[1] <= Total(t)
    BY ZenonT(30), <2>1, TotalOfFirst
  <2> QED
    BY <1>1, <1>6, <2>1, <2>2
<1> QED
  BY <1>9, <1>10

\* The encoding Compress picks is one the client likes best.
LEMMA CodingLiked ==
  ASSUME msg \in Message, Compressing
  PROVE  LET offers == {d \in Range(msg.accept) : d.q > 0 /\ d.name \in Range(Encodings)}
         IN  \E d \in offers : /\ d.name = Encodings[pickEncoding(msg.accept)]
                               /\ \A o \in offers : o.q < d.q
                                                    \/ (o.q = d.q /\ Rank(o.name) <= Rank(d.name))
<1> DEFINE accept == msg.accept
           offers == {d \in Range(accept) : d.q > 0 /\ d.name \in Range(Encodings)}
<1>1. accept \in Seq(Directive)
  BY ExchangeAssumption DEF Message, Directive
<1> HIDE DEF accept
<1>2. PICK b : IsBest(b, accept, Len(accept)) /\ pickEncoding(accept) = b.enc
  BY Zenon, <1>1, PickIsBest
<1>3. b.enc \in 0..3 /\ b.enc # 0
  BY Zenon, <1>2 DEF IsBest, Best, Compressing, accept
<1>4. PICK i \in 1..Len(accept) : accept[i].q = b.q /\ b.q > 0 /\ candidate(accept[i]) = b.enc
  BY Zenon, <1>2, <1>3 DEF IsBest
<1>5. \A d \in Range(accept) : d \in Directive /\ \E j \in 1..Len(accept) : d = accept[j]
  BY <1>1 DEF Range
<1>6. \A j \in 1..Len(accept) : accept[j] \in Directive /\ accept[j] \in Range(accept)
  BY <1>1 DEF Range
<1>7. PICK d \in Directive : d = accept[i]
  BY Zenon, <1>6
<1>8. d.name \in Range(Encodings) /\ Rank(d.name) = b.enc /\ d \in offers
  <2>1. candidate(d) = IF d.name \in Range(Encodings) THEN Rank(d.name) ELSE 0
    BY Zenon, CandidateIs DEF Directive
  <2> QED
    BY Zenon, <1>3, <1>4, <1>6, <1>7, <2>1
<1>9. d.name = Encodings[b.enc]
  BY Zenon, <1>8, EncodingNames DEF Rank
<1>10. ASSUME NEW o \in offers
       PROVE  o.q < d.q \/ (o.q = d.q /\ Rank(o.name) <= Rank(d.name))
  <2>1. PICK j \in 1..Len(accept) : o = accept[j] /\ o \in Directive
    BY Zenon, <1>5
  <2>2. candidate(o) = Rank(o.name) /\ Rank(o.name) # 0
    BY <2>1, CandidateIs DEF Directive, Rank
  <2>3. accept[j].q > 0 /\ candidate(accept[j]) # 0
    BY Zenon, <2>1, <2>2
  <2>4. accept[j].q < b.q \/ (accept[j].q = b.q /\ candidate(accept[j]) <= b.enc)
    BY Zenon, <1>2, <2>3 DEF IsBest
  <2> QED
    BY Zenon, <1>4, <1>7, <1>8, <2>1, <2>2, <2>4
<1> QED
  BY <1>2, <1>8, <1>9, <1>10 DEF accept

\* It implies CodingAgreed.
LEMMA CodingAgreedHolds == ExchangeInv => CodingAgreed
<1> SUFFICES ASSUME ExchangeInv, CodedHere PROVE CodingAgreed
  BY DEF CodingAgreed
<1>1. PICK code, h, items : code = w.net.status /\ h = w.net.hdr /\ items = w.net.body
  OBVIOUS
<1>2. h.coding \in Range(Encodings)
  BY <1>1 DEF CodedHere
<1>3. ~ Fresh(w)
  <2>1. Fresh(w) => w.net.hdr.coding = "none"
    BY Zenon, NothingSent, NoHeaderIs DEF Fresh
  <2>2. "none" \notin Range(Encodings)
    BY EncodingNames
  <2> QED
    BY Zenon, <2>1, <2>2 DEF CodedHere
<1>4. Shown(code, h, items)
  BY ZenonT(30), <1>1, <1>3, Shows
<1>5. msg \in Message /\ resp.hdr \in Header /\ resp.hdr.coding \in {"none", "upstream"}
  BY DEF ExchangeInv, Sound, Plain
<1>6. PICK sizes \in Sizes, n \in Nat :
        /\ n <= Len(sizes)
        /\ Codable(code, resp.hdr, sizes, n) /\ h.coding = CodedHeader(resp.hdr).coding
        /\ items \in {Chunks(sizes, n, TRUE), Append(Chunks(sizes, n, TRUE), Trailer)}
  BY ZenonT(30), <1>2, <1>4, <1>5, EncodingNames DEF Shown
<1>7. /\ Compressing /\ resp.hdr.coding = "none" /\ ~ resp.hdr.skipType /\ code # 204
      /\ n > 0 => sizes[1] >= MinBytes
  BY <1>6 DEF Codable
<1>8. Size(items) = 0 \/ Size(items) >= MinBytes
  BY Zenon, <1>6, <1>7, ShownSize
<1>9. chain.compress
  BY Zenon, <1>7 DEF Compressing
<1>10. h.coding = Encodings[pickEncoding(msg.accept)]
  BY Zenon, <1>5, <1>6 DEF CodedHeader, Header
<1> DEFINE rank(d) == IF d.name = "br" THEN 3 ELSE IF d.name = "zstd" THEN 2 ELSE 1
           offers == {d \in Range(msg.accept) : d.q > 0 /\ d.name \in Range(Encodings)}
<1>11. \E d \in offers : /\ d.name = h.coding
                         /\ \A o \in offers : o.q < d.q \/ (o.q = d.q /\ rank(o) <= rank(d))
  <2>1. \A d : rank(d) = Rank(d.name)
    BY Zenon DEF Rank
  <2> HIDE DEF rank
  <2> QED
    BY <1>5, <1>7, <1>10, <2>1, CodingLiked
<1> QED
  BY ZenonT(30), <1>1, <1>7, <1>8, <1>9, <1>11 DEF CodingAgreed

\* It implies ExchangeTypeOK.
LEMMA ExchangeTypeHolds == ExchangeInv => ExchangeTypeOK
<1> SUFFICES ASSUME ExchangeInv PROVE ExchangeTypeOK
  OBVIOUS
<1>1. pc \in {"arrived", "dispatch", "proxy", "copying", "attempted", "done"}
      /\ expired \in BOOLEAN /\ err \in BOOLEAN /\ msg \in Message /\ AttemptsOK
      /\ Sound(resp) /\ Fits(pc, resp, w)
  BY Zenon DEF ExchangeInv, WritersOK
<1>2. bodyBuf \in {"none", "small", "large", "broken", "cut", "closed"}
  <2>1. msg.body \in {"none", "small", "large", "broken"}
    BY <1>1 DEF Message
  <2>2. bufferReplayBody(msg.body) \in {"none", "small", "cut", "closed"}
    BY Zenon, <2>1 DEF bufferReplayBody
  <2> QED
    BY Zenon, <1>1, <2>1, <2>2 DEF AttemptsOK
<1>3. attempt \in 0..maxAttempts /\ maxAttempts \in 1..MaxAttempts
  BY <1>1, ExchangeAssumption DEF AttemptsOK
<1>4. resp.from \in {"none", "proxy", "panic", "upstream"} /\ resp.read \in 0..Len(resp.sizes)
  <2>1. resp \in Response /\ resp.read <= Len(resp.sizes)
    BY Zenon, <1>1 DEF Sound
  <2>2. resp.read \in Nat /\ resp.sizes \in Sizes
    BY <2>1 DEF Response
  <2>3. Len(resp.sizes) \in Nat
    BY <2>2 DEF Sizes
  <2> QED
    BY <2>1, <2>2, <2>3 DEF Response
<1>5. w \in WriterState
  BY Zenon, <1>1 DEF Fits
<1>6. w.hdr.coding \in {"none", "upstream"} \cup Range(Encodings)
  <2>1. w.hdr \in Header
    BY Zenon, <1>5 DEF WriterState
  <2> QED
    BY <2>1 DEF Header
<1>7. w.comp.committed => w.comp.buf = <<>>
  <2>1. CASE pc # "copying"
    BY Zenon, <1>1, <2>1 DEF Fits
  <2>2. CASE pc = "copying"
    <3>1. PICK code \in Nat : code = resp.status
      BY <1>1 DEF Sound, Response
    <3>2. w.comp = NewCompressor \/ w.comp = Told(code) \/ w.comp.buf = <<>>
      BY Zenon, <1>1, <2>2, <3>1, Copying DEF Copied, Told, Decided
    <3> QED
      BY Zenon, <3>2, CompressorFields, ToldFields
  <2> QED
    BY <2>1, <2>2
<1> QED
  BY <1>1, <1>2, <1>3, <1>4, <1>6, <1>7 DEF ExchangeTypeOK

\* It implies LoggedIsSent.
LEMMA LoggedHolds == ExchangeInv => LoggedIsSent
BY Zenon DEF ExchangeInv, WritersOK, Fits, LoggedIsSent

\* It implies FailuresReported.
LEMMA FailuresHold == ExchangeInv => FailuresReported
<1> SUFFICES ASSUME ExchangeInv, pc = "done" PROVE FailuresReported
  BY DEF FailuresReported
<1>1. Outcome(resp, w.net.status, w.net.hdr, w.net.body)
  BY Zenon DEF ExchangeInv, WritersOK, Fits
<1>2. resp.from = "proxy" => w.net.status = resp.status
  BY <1>1 DEF Outcome, Whole
<1>3. resp.from = "panic" /\ ~ Compressing => w.net.status = IF chain.retry THEN 502 ELSE 500
  BY <1>1 DEF Outcome, Unwound
<1> QED
  BY Zenon, <1>2, <1>3 DEF FailuresReported

\* It implies RequestsAgree.
LEMMA RequestsHold == ExchangeInv => RequestsAgree
<1> SUFFICES ASSUME ExchangeInv PROVE RequestsAgree
  OBVIOUS
<1>1. AttemptsOK /\ SentOK /\ msg \in Message /\ chain \in Chain
  BY DEF ExchangeInv
<1>2. attempt \in Nat /\ maxAttempts \in Nat
  BY <1>1, AttemptIsNat
<1>3. sent \in Seq({Request}) /\ Len(sent) <= attempt
  BY Zenon, <1>1 DEF SentOK
<1>4. Len(sent) <= IF chain.retry /\ msg.retryable /\ msg.body # "large" THEN MaxAttempts ELSE 1
  <2>1. Len(sent) \in Nat /\ MaxAttempts \in Nat \ {0}
    BY <1>3, ExchangeAssumption
  <2>2. Len(sent) <= maxAttempts
    BY <1>1, <1>2, <1>3, <2>1 DEF AttemptsOK
  <2>3. maxAttempts <= IF chain.retry /\ msg.retryable /\ msg.body # "large" THEN MaxAttempts ELSE 1
    BY <1>1, <2>1 DEF AttemptsOK
  <2> QED
    BY <1>2, <2>1, <2>2, <2>3
<1>5. ASSUME NEW i \in DOMAIN sent
      PROVE  /\ sent[i].hops = IF chain.headers THEN 1 ELSE 0
             /\ sent[i].body = msg.body
                  \/ (chain.retry
                      /\ <<msg.body, sent[i].body>> \in {<<"large", "cut">>, <<"broken", "closed">>})
  <2>1. PICK q : q = Request
    OBVIOUS
  <2>2. sent[i] = q
    <3>1. sent \in Seq({q})
      BY Zenon, <1>3, <2>1
    <3> QED
      BY <1>5, <3>1
  <2>3. q.hops = (IF chain.headers THEN 1 ELSE 0) /\ q.body = bodyBuf
    BY <2>1 DEF Request
  <2>4. pc # "arrived"
    BY <1>1, <1>5 DEF SentOK
  <2>5. bodyBuf = IF chain.retry THEN bufferReplayBody(msg.body) ELSE msg.body
    BY <1>1, <2>4 DEF AttemptsOK
  <2>6. msg.body \in {"none", "small", "large", "broken"}
    BY <1>1 DEF Message
  <2> QED
    BY <2>2, <2>3, <2>5, <2>6 DEF bufferReplayBody
<1> QED
  BY Zenon, <1>4, <1>5 DEF RequestsAgree

-----------------------------------------------------------------------------
\* The theorems.

\* The state of an exchange is always well-typed, and Compress holds nothing
\* back once it has decided.
THEOREM ExchangeTypes == ExchangeSpec => []ExchangeTypeOK
BY ExchangeInvariant, ExchangeTypeHolds, PTL

\* Whatever the middlewares of the route, the upstream's answers, Retry's
\* attempts and panics, the client sees one answer: one status, and the bytes of
\* one attempt in order, coded all or not at all.
THEOREM ClientSeesOneAnswer == ExchangeSpec => []OneAnswer
BY ExchangeInvariant, OneAnswerHolds, PTL

\* When the handler has returned, the client has everything that was read of
\* the answer, and a coded body is ended.
THEOREM AnswersAreWhole == ExchangeSpec => []AnswerComplete
BY ExchangeInvariant, AnswerCompleteHolds, PTL

\* A Content-Length that reaches the client is right exactly when the upstream
\* did not break off.
THEOREM LengthsTell == ExchangeSpec => []LengthTells
BY ExchangeInvariant, LengthTellsHolds, PTL

\* Compress codes only in the encoding the client likes best of those the proxy
\* has, and only what is worth it, for every Accept-Encoding header.
THEOREM CodingsAreAgreed == ExchangeSpec => []CodingAgreed
BY ExchangeInvariant, CodingAgreedHolds, PTL

\* The access log and the metrics have the status the client was sent.
THEOREM LogsAreTrue == ExchangeSpec => []LoggedIsSent
BY ExchangeInvariant, LoggedHolds, PTL

\* The proxy's own errors and recovered panics reach the client as such.
THEOREM FailuresAreReported == ExchangeSpec => []FailuresReported
BY ExchangeInvariant, FailuresHold, PTL

\* All attempts of a request send the same, and no more often than configured.
THEOREM AttemptsSendTheSame == ExchangeSpec => []RequestsAgree
BY ExchangeInvariant, RequestsHold, PTL
=============================================================================
