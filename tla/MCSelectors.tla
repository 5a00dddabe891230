----------------------------- MODULE MCSelectors -----------------------------
EXTENDS Selectors, TLC

\* Weights with every upstream in rotation, and with one taken out of it.
MCWeights == {<<2, 1, 1>>, <<1, 2, 0>>}

\* A ring on which an upstream is met twice.
MCRing == <<1, 2, 1, 3>>

\* A walk that passes an upstream again, and one past the end of the ring.
MCKeys == {1, 4}

Interchangeable == Permutations(Pickers)
=============================================================================
