------------------------------ MODULE MCRuntime ------------------------------
EXTENDS Runtime, TLC

Interchangeable == Permutations(Names)
=============================================================================
