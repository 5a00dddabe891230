----------------------------- MODULE MCExchange -----------------------------
EXTENDS Exchange

\* No header; one encoding; a tie and a preference between encodings; one
\* refused; none the proxy has.
MCAcceptHeaders ==
  {<<>>,
   <<[name |-> "gzip", q |-> 2]>>,
   <<[name |-> "br", q |-> 2], [name |-> "gzip", q |-> 2]>>,
   <<[name |-> "gzip", q |-> 1], [name |-> "zstd", q |-> 2], [name |-> "br", q |-> 1]>>,
   <<[name |-> "br", q |-> 0], [name |-> "gzip", q |-> 1]>>,
   <<[name |-> "identity", q |-> 2]>>}

\* Around the threshold of 2: no chunk, short, long, and both orders.
MCBodies == {<<>>, <<1>>, <<2>>, <<1, 2>>, <<2, 1>>, <<1, 1>>}
=============================================================================
