---------------------------- MODULE MCWebSocket -----------------------------
EXTENDS WebSocket

\* A frame of a peer: its header, which arrives in one piece, and its data.
Frame(op, len) == <<[op |-> op, len |-> len]>> \o [i \in 1 .. len |-> [op |-> "byte", len |-> i]]

\* The first peer talks and closes, or only pings; the second only listens.
TheScripts ==
    {<<Frame("TEXT", 2) \o Frame("CLOSE", 0), <<>>>>, <<Frame("PING", 0), <<>>>>}

\* A text first, then binary data.
TheOpcodes == <<"TEXT", "BINARY">>
=============================================================================
