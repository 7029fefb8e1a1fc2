--------------------------- MODULE WebConnection ---------------------------
(***************************************************************************)
(* A connection to the web server, from the first byte of a request to the *)
(* last one of its response: the handler is called, and answers, while the *)
(* segment that completes the request is taken in.                         *)
(***************************************************************************)
EXTENDS WebRequest, WebResponse

\* What a handler may answer to a request is one of the responses.
ASSUME ConnectionAssumption == \A q \in Requests : q.responses \subseteq Responses

vars == <<request, incoming, r, s, wire, acked, reports>>

Init == RequestInit /\ ResponseInit

\* AsyncWebServerRequest::_onData() with the handler it calls.
OnData ==
    /\ Receive
    /\ IF r'.handled > r.handled
       THEN \E a \in request.responses : Respond(a)
       ELSE UNCHANGED responseVars

Next ==
    \/ OnData
    \/ ResponseNext /\ UNCHANGED requestVars

Fairness == WF_vars(OnData) /\ ResponseFairness

Spec == Init /\ [][Next]_vars /\ Fairness

\* A request that has been sent is answered, to the last byte of the response,
\* however it is cut into segments, whatever it carries, and however small the
\* room of the send buffer is; unless the source of the response fails under way,
\* as that of a frail one may.
RequestIsAnswered == <>[](Finished /\ acked = Len(wire))
=============================================================================
