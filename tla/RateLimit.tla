------------------------------ MODULE RateLimit ------------------------------
(***************************************************************************)
(* The RateLimit middleware of one route: a token bucket for each key.     *)
(* A request reads the clock before it takes the mutex of the bucket map,  *)
(* so that buckets are filled with readings that may be out of order.      *)
(*                                                                         *)
(* Time is counted in units of 1/Second of a second, and tokens in units   *)
(* of 1/Second of a token, so that a bucket gains RPS units of tokens in a *)
(* unit of time.                                                           *)
(***************************************************************************)
EXTENDS Integers, Sequences

CONSTANTS
  Handlers,   \* bound: the requests that are handled at a time
  RPS, Burst, Scope, TrustProxyHops,   \* the route's RateLimitConfig
  Second,
  Clients,    \* bound: the requests' peer addresses and X-Forwarded-For chains
  Addresses,  \* the addresses in them
  MaxTime,    \* bound: on the clock
  MaxAdmits   \* bound: on the requests admitted for a key

ASSUME RateLimitAssumption ==
  /\ RPS \in Nat \ {0} /\ Second \in Nat \ {0} /\ Burst \in Nat /\ MaxTime \in Nat
  /\ MaxAdmits \in Nat /\ TrustProxyHops \in Nat
  /\ Clients \subseteq [peer : Addresses, xff : Seq(Addresses)]

VARIABLES
  clock,
  key, now,  \* of each handler: its bucket's key, once it has one, and allow's now
  buckets,   \* the buckets there are, by their keys
  admits,    \* ghost: by key, the bucket's lastFill at every admission
  promise    \* ghost: by key, when a refused client was told to be back

limitVars == <<clock, key, now, buckets, admits, promise>>

None == "none"
Route == "route"
Keys == Addresses \cup {Route}
Never == -1
NoBucket == [tokens |-> 0, lastFill |-> Never]

\* The capacity, in units.
burst == Second * IF Burst = 0 THEN RPS ELSE Burst

LimitInit ==
  /\ clock = 0
  /\ key = [h \in Handlers |-> None] /\ now = [h \in Handlers |-> 0]
  /\ buckets = [k \in Keys |-> NoBucket]
  /\ admits = [k \in Keys |-> <<>>]
  /\ promise = [k \in Keys |-> Never]

clientIPWithTrust(c) ==
  IF TrustProxyHops > 0 /\ c.xff # <<>>
    THEN c.xff[IF TrustProxyHops > Len(c.xff) THEN 1 ELSE Len(c.xff) - TrustProxyHops + 1]
    ELSE c.peer

bucketKey(c) == IF Scope = "per-route" THEN Route ELSE clientIPWithTrust(c)

\* The handler's key and its reading of the clock.
Arrive(h, c) ==
  /\ key[h] = None
  /\ key' = [key EXCEPT ![h] = bucketKey(c)]
  /\ now' = [now EXCEPT ![h] = clock]
  /\ UNCHANGED <<clock, buckets, admits, promise>>

\* Mutant of Fill: a reading from before the last one moves lastFill back.
fillsAtAnyReading(b, t) ==
  IF b.lastFill = Never THEN [tokens |-> burst, lastFill |-> t]
  ELSE LET sum == IF t > b.lastFill THEN b.tokens + (t - b.lastFill) * RPS ELSE b.tokens
       IN  [tokens |-> IF sum > burst THEN burst ELSE sum, lastFill |-> t]

\* Mutant of Fill: nothing stops a bucket at its capacity.
overflows(b, t) ==
  IF b.lastFill = Never THEN [tokens |-> burst, lastFill |-> t]
  ELSE IF t > b.lastFill
    THEN [tokens |-> b.tokens + (t - b.lastFill) * RPS, lastFill |-> t]
    ELSE b

\* The first half of allow: a new bucket is full, one that is there gains
\* what the time since its lastFill is worth, if that is in the past.
Fill(b, t) ==
  IF b.lastFill = Never THEN [tokens |-> burst, lastFill |-> t]
  ELSE IF t > b.lastFill
    THEN LET sum == b.tokens + (t - b.lastFill) * RPS
         IN  [tokens |-> IF sum > burst THEN burst ELSE sum, lastFill |-> t]
    ELSE b

\* Mutant of RetryAfter: whole seconds, rounded down.
roundsDown(tokens) == (Second - tokens) \div (RPS * Second)

\* The seconds a refused client is told to wait.
RetryAfter(tokens) == ((Second - tokens) \div (RPS * Second)) + 1

\* The rest of allow, and of the handler, under the bucket map's mutex.
Admit(h) ==
  LET k == key[h]
      b == Fill(buckets[k], now[h])
  IN  /\ k # None /\ b.tokens >= Second /\ Len(admits[k]) < MaxAdmits
      /\ buckets' = [buckets EXCEPT ![k] = [b EXCEPT !.tokens = @ - Second]]
      /\ admits' = [admits EXCEPT ![k] = Append(@, b.lastFill)]
      /\ promise' = [promise EXCEPT ![k] = Never]
      /\ key' = [key EXCEPT ![h] = None]
      /\ now' = [now EXCEPT ![h] = 0]
      /\ UNCHANGED clock

Refuse(h) ==
  LET k == key[h]
      b == Fill(buckets[k], now[h])
      back == clock + RetryAfter(b.tokens) * Second
  IN  /\ k # None /\ b.tokens < Second
      /\ buckets' = [buckets EXCEPT ![k] = b]
      /\ promise' = [promise EXCEPT ![k] = IF @ = Never \/ back < @ THEN back ELSE @]
      /\ key' = [key EXCEPT ![h] = None]
      /\ now' = [now EXCEPT ![h] = 0]
      /\ UNCHANGED <<clock, admits>>

Tick ==
  /\ clock < MaxTime
  /\ clock' = clock + 1
  /\ UNCHANGED <<key, now, buckets, admits, promise>>

LimitNext ==
  \/ \E h \in Handlers, c \in Clients : Arrive(h, c)
  \/ \E h \in Handlers : Admit(h) \/ Refuse(h)
  \/ Tick

LimitSpec == LimitInit /\ [][LimitNext]_limitVars

-----------------------------------------------------------------------------
\* The state is well-typed: no bucket holds more than the capacity or less
\* than nothing, and none was filled at a time still to come.
LimitTypeOK ==
  /\ clock \in Nat
  /\ key \in [Handlers -> Keys \cup {None}]
  /\ now \in [Handlers -> 0..clock]
  /\ buckets \in [Keys -> [tokens : 0..burst, lastFill : Never..clock]]
  /\ admits \in [Keys -> Seq(0..clock)]
  /\ promise \in [Keys -> {Never} \cup Nat]

\* The limit: of the requests of a key, the i-th to the j-th are no more than
\* the burst and what the rate gives in the time between their fills, for
\* all i and j, however the readings of the clock and the turns at the mutex
\* are interleaved (allow).
WithinRate ==
  \A k \in Keys : \A i, j \in DOMAIN admits[k] :
    i <= j => (j - i + 1) * Second <= burst + (admits[k][j] - admits[k][i]) * RPS

\* Retry-After is enough: a client that comes back no sooner than it was
\* told, when no other request of its key was admitted meanwhile, is not
\* refused again (RateLimit, allow).
PromiseKept ==
  [][\A h \in Handlers : Refuse(h) /\ promise[key[h]] # Never => now[h] < promise[key[h]]]_limitVars
=============================================================================
