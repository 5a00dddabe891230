------------------------------ MODULE MCRouting ------------------------------
EXTENDS Routing

Exact == <<"a", "ex">>
Wildcard == <<"*", "ex">>

MCRoutes ==
  [host : {Exact, Wildcard}, prefix : {<<>>, <<"">>, <<"v">>, <<"v", "">>},
   preds : {{}, {"p"}, {"q"}}]
  \cup {[host |-> Exact, prefix |-> <<"v">>, preds |-> {"p", "q"}]}

\* Both hosts, one the wildcard alone covers, and one label too many; paths
\* at, above, below and beside the prefixes.
MCRequests ==
  [host : [labels : {Exact, <<"b", "ex">>}, port : {FALSE}]
          \cup {[labels |-> Exact, port |-> TRUE], [labels |-> <<"b", "a", "ex">>, port |-> FALSE]},
   path : {<<"">>, <<"v">>, <<"v", "">>, <<"v", "x">>, <<"w">>},
   header : SUBSET {"p", "q"}]

MCCertHosts == {<<>>, <<Exact>>, <<Wildcard>>, <<Wildcard, Exact>>}
\* The name <<"">> is that of a handshake without one.
MCServerNames == {Exact, <<"b", "ex">>, <<"ex">>, <<"b", "a", "ex">>, <<"">>}
=============================================================================
