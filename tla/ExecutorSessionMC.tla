--------------------------- MODULE ExecutorSessionMC ---------------------------
EXTENDS ExecutorSession
=============================================================================
