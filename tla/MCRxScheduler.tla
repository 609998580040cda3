--------------------------- MODULE MCRxScheduler ----------------------------
EXTENDS RxScheduler
MCQueueSize == [a \in App |-> IF a = 1 THEN 2 ELSE 3]
=============================================================================
