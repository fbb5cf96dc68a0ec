-------------------------- MODULE MCTaskScheduler --------------------------
\* A task that recurs and one that runs once.
EXTENDS TaskScheduler

CONSTANTS c, o, f1, f2
=============================================================================
