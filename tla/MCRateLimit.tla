----------------------------- MODULE MCRateLimit -----------------------------
EXTENDS RateLimit, TLC

\* One address, seen directly, behind a proxy that is trusted, and behind as
\* many as are trusted.
MCClients ==
  {[peer |-> "a", xff |-> <<>>], [peer |-> "b", xff |-> <<"a">>],
   [peer |-> "b", xff |-> <<"b", "a", "b">>]}

Interchangeable == Permutations(Handlers)
=============================================================================
