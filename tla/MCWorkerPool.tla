---------------------------- MODULE MCWorkerPool ----------------------------
\* WorkerPool for TLC; the configurations give the constants.
EXTENDS WorkerPool
=============================================================================
