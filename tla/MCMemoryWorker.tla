---------------------------- MODULE MCMemoryWorker ----------------------------
EXTENDS MemoryWorker

CONSTANT s1

\* All jobs come from one source.
MCSourceOf == [j \in Jobs |-> s1]
=============================================================================
