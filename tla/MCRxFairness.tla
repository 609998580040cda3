---------------------------- MODULE MCRxFairness ----------------------------
EXTENDS RxFairness
MCQueueSize == [a \in App |-> IF a = Watched THEN 2 ELSE 3]
=============================================================================
