-------------------------- MODULE MCSessionContext --------------------------
EXTENDS SessionContext, TLC

\* No action tells one worker from another.
WorkerSymmetry == Permutations(Workers)
=============================================================================
