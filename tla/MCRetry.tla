------------------------------- MODULE MCRetry -------------------------------
EXTENDS Retry

MCAttempts == Requests \X (1..MaxAttempts)
=============================================================================
