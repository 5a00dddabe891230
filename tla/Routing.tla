------------------------------- MODULE Routing -------------------------------
(***************************************************************************)
(* The tables a listener consults before a request reaches a middleware    *)
(* chain: the certificates, by the server name of the handshake, and the   *)
(* router, by host, path and headers.  Both are built from a configuration *)
(* that Load has validated and NewRouter validates again, and are then     *)
(* only read.                                                              *)
(*                                                                         *)
(* A host is its sequence of labels, in lower case, with a port or none; a *)
(* pattern may begin with the label "*".  A path is its sequence of        *)
(* segments, and "/v1/" ends with the segment "".  A header predicate is a *)
(* name with its value, and a request has a set of those.                  *)
(***************************************************************************)
EXTENDS Integers, SequencesExt

CONSTANTS
  Routes,      \* bound: [host, prefix, preds] the configuration may contain
  MaxRoutes,   \* bound: on their number
  CertHosts,   \* bound: the lists of hosts a certificate may be configured for
  MaxCerts,    \* bound: on the number of certificates
  Requests,    \* bound: [host, path, header] of the requests
  ServerNames  \* bound: the server names of the handshakes

VARIABLES
  routes,   \* the configured routes, in order
  certs,    \* the configured certificates, each by its hosts, in order
  pc,       \* "loading", then "serving", or "refused" by either validation
  router,   \* what NewRouter returns
  certMap,  \* what buildCertMap returns
  asked,    \* the request or the handshake that is being answered
  answer    \* the route, the certificate, or 0

vars == <<routes, certs, pc, router, certMap, asked, answer>>

Nothing == [kind |-> "nothing"]

Wild(pattern) == pattern # <<>> /\ Head(pattern) = "*"

\* The routes of a host; a route is known by its place in the configuration.
Bucket(host) == SelectSeq([i \in DOMAIN routes |-> i], LAMBDA i : routes[i].host = host)

-----------------------------------------------------------------------------
\* config.validateRoutes, and the first half of router.validate: no two
\* routes agree in host, prefix and predicates.
NoDuplicates(rs) == \A i, j \in DOMAIN rs : rs[i] = rs[j] => i = j

\* The second half: no predicated route after a catch-all at its host and prefix.
NoneBlocked(rs) ==
  \A i, j \in DOMAIN rs :
    i < j /\ rs[i].host = rs[j].host /\ rs[i].prefix = rs[j].prefix /\ rs[i].preds = {}
      => rs[j].preds = {}

\* len(PathPrefix), for segments of one letter.
PrefixLen(prefix) == 2 * Len(prefix) - IF prefix # <<>> /\ Last(prefix) = "" THEN 1 ELSE 0

\* Mutant of Before: the predicates are compared the wrong way round.
catchAllFirst(i, j) ==
  LET li == PrefixLen(routes[i].prefix)
      lj == PrefixLen(routes[j].prefix)
      pi == Cardinality(routes[i].preds)
      pj == Cardinality(routes[j].preds)
  IN  li > lj \/ (li = lj /\ (pi < pj \/ (pi = pj /\ i < j)))

\* sortRoutes' order; the sort is stable.
Before(i, j) ==
  LET li == PrefixLen(routes[i].prefix)
      lj == PrefixLen(routes[j].prefix)
      pi == Cardinality(routes[i].preds)
      pj == Cardinality(routes[j].preds)
  IN  li > lj \/ (li = lj /\ (pi > pj \/ (pi = pj /\ i < j)))

sortRoutes(list) == SortSeq(list, Before)

\* At most one wildcard matches a host, its "*" being one label, so that the
\* order of hostWildcards does not matter.
NewRouter ==
  [host \in {routes[i].host : i \in DOMAIN routes} |-> sortRoutes(Bucket(host))]

\* buildCertMap: a later certificate takes an exact host from an earlier one
\* but not a wildcard, the sort being stable and the first found; the last
\* certificate without hosts is the fallback.
buildCertMap ==
  LET For(h) == {c \in DOMAIN certs : h \in Range(certs[c])}
      hosts == UNION {Range(certs[c]) : c \in DOMAIN certs}
      open == {c \in DOMAIN certs : certs[c] = <<>>}
  IN  [hosts |-> [h \in hosts |-> IF Wild(h) THEN Min(For(h)) ELSE Max(For(h))],
       fallback |-> IF open = {} THEN 0 ELSE Max(open)]

Init ==
  /\ \/ routes \in SeqOf(Routes, MaxRoutes) /\ certs = <<>>
     \/ routes = <<>> /\ certs \in SeqOf(CertHosts, MaxCerts)
  /\ pc = "loading" /\ router = <<>> /\ certMap = [hosts |-> <<>>, fallback |-> 0]
  /\ asked = Nothing /\ answer = 0

\* Load, and buildRuntime as far as the router and the listeners' certificates.
Load ==
  /\ pc = "loading"
  /\ IF NoDuplicates(routes) /\ NoneBlocked(routes)
       THEN pc' = "serving" /\ router' = NewRouter /\ certMap' = buildCertMap
       ELSE pc' = "refused" /\ UNCHANGED <<router, certMap>>
  /\ UNCHANGED <<routes, certs, asked, answer>>

-----------------------------------------------------------------------------
\* The port is cut off.
canonicalizeHost(h) == h.labels

\* "/v1" covers itself and what is below it, "/v1/" only what is below.
pathMatchesPrefix(path, prefix) ==
  IF prefix # <<>> /\ Last(prefix) = ""
    THEN Len(path) >= Len(prefix) /\ IsPrefix(Front(prefix), path)
    ELSE IsPrefix(prefix, path)

predicatesMatch(preds, header) == preds \subseteq header

\* The first of a bucket that matches, or 0.
matchInBucket(list, req) ==
  LET hits == SelectSeq(list, LAMBDA i : /\ pathMatchesPrefix(req.path, routes[i].prefix)
                                         /\ predicatesMatch(routes[i].preds, req.header))
  IN  IF hits = <<>> THEN 0 ELSE Head(hits)

\* matchesWildcard's only pattern for a host of these labels.
WildcardOf(labels) == <<"*">> \o Tail(labels)

\* Mutant of Match: a host with routes of its own has no other.
noFallback(req) ==
  LET h == canonicalizeHost(req.host)
      pattern == IF h \in DOMAIN router THEN h ELSE WildcardOf(h)
  IN  IF pattern \in DOMAIN router THEN matchInBucket(router[pattern], req) ELSE 0

Match(req) ==
  LET h == canonicalizeHost(req.host)
      find(pattern) == IF pattern \in DOMAIN router
                         THEN matchInBucket(router[pattern], req) ELSE 0
      exact == find(h)
  IN  IF exact # 0 THEN exact ELSE find(WildcardOf(h))

\* Mutant of GetCertificate: the wildcards come first.
wildcardsFirst(name) ==
  CASE WildcardOf(name) \in DOMAIN certMap.hosts -> certMap.hosts[WildcardOf(name)]
    [] WildcardOf(name) \notin DOMAIN certMap.hosts /\ name \in DOMAIN certMap.hosts ->
         certMap.hosts[name]
    [] OTHER -> certMap.fallback

GetCertificate(name) ==
  CASE name \in DOMAIN certMap.hosts -> certMap.hosts[name]
    [] name \notin DOMAIN certMap.hosts /\ WildcardOf(name) \in DOMAIN certMap.hosts ->
         certMap.hosts[WildcardOf(name)]
    [] OTHER -> certMap.fallback

\* The listener's handler looks a request up; 404 if nothing matches.
Route(req) ==
  /\ pc = "serving" /\ asked = Nothing
  /\ asked' = [kind |-> "request", req |-> req]
  /\ answer' = Match(req)
  /\ UNCHANGED <<routes, certs, pc, router, certMap>>

\* The handshake asks for a certificate; it fails if there is none.
Handshake(name) ==
  /\ pc = "serving" /\ asked = Nothing
  /\ asked' = [kind |-> "handshake", name |-> name]
  /\ answer' = GetCertificate(name)
  /\ UNCHANGED <<routes, certs, pc, router, certMap>>

Answered ==
  /\ pc = "refused" \/ asked # Nothing
  /\ UNCHANGED vars

Next ==
  \/ Load
  \/ \E req \in Requests : Route(req)
  \/ \E name \in ServerNames : Handshake(name)
  \/ Answered

Spec == Init /\ [][Next]_vars

-----------------------------------------------------------------------------
\* Does a pattern cover these labels?
Covers(pattern, labels) ==
  /\ Len(pattern) = Len(labels)
  /\ \A n \in DOMAIN pattern : pattern[n] = labels[n] \/ (n = 1 /\ pattern[n] = "*")

\* The route a request gets is the most specific of those that fit it,
\* whatever the order of the configuration: one for its very host before a
\* wildcard's, then the longest prefix, then the most predicates, and only
\* then the order.  It gets none only if none fits: an exact host whose
\* routes all miss falls back to the wildcard (NewRouter, sortRoutes, Match).
MostSpecific ==
  asked.kind = "request" =>
    LET req == asked.req
        below(prefix) == IF prefix # <<>> /\ Last(prefix) = "" THEN Front(prefix) ELSE prefix
        fits == {i \in DOMAIN routes :
                   /\ Covers(routes[i].host, req.host.labels)
                   /\ IsPrefix(below(routes[i].prefix), req.path)
                   /\ Len(req.path) >= Len(routes[i].prefix)
                   /\ routes[i].preds \subseteq req.header}
        rank(i) == <<IF Wild(routes[i].host) THEN 0 ELSE 1, PrefixLen(routes[i].prefix),
                     Cardinality(routes[i].preds), - i>>
        above(i, j) == \E n \in 1..4 : /\ rank(i)[n] > rank(j)[n]
                                      /\ \A m \in 1..(n - 1) : rank(i)[m] = rank(j)[m]
    IN  IF fits = {} THEN answer = 0
        ELSE answer \in fits /\ \A j \in fits \ {answer} : above(answer, j)

\* A configuration that is accepted has no dead route: for every route there
\* is a request it gets.  The one case that validation does not see is a
\* route without a prefix next to one for "/", which is longer and covers
\* as much (validate, validateRoutes, sortRoutes).
NoDeadRoute ==
  pc = "serving" /\ asked = Nothing =>
    \A i \in DOMAIN routes :
      \/ \E req \in Requests : Match(req) = i
      \/ /\ routes[i].prefix = <<>>
         /\ \E j \in DOMAIN routes : /\ routes[j].host = routes[i].host
                                     /\ routes[j].prefix = <<"">>
                                     /\ routes[j].preds \subseteq routes[i].preds

\* A handshake gets a certificate configured for its server name, one that
\* names it before one for a wildcard, or the fallback when there is none
\* for it; it fails only without either (buildCertMap, GetCertificate).
CertificateFits ==
  asked.kind = "handshake" =>
    LET for(c) == {h \in Range(certs[c]) : Covers(h, asked.name)}
        named == {c \in DOMAIN certs : asked.name \in for(c)}
        fit == {c \in DOMAIN certs : for(c) # {}}
        open == {c \in DOMAIN certs : certs[c] = <<>>}
    IN  CASE named # {} -> answer \in named
          [] named = {} /\ fit # {} -> answer \in fit
          [] fit = {} /\ open # {} -> answer \in open
          [] OTHER -> answer = 0
=============================================================================
