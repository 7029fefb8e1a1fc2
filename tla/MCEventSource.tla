--------------------------- MODULE MCEventSource ----------------------------
EXTENDS EventSource

\* The first listener acknowledges in bits.
TheAcks == <<{1}, {}>>
=============================================================================
