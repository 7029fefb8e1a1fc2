------------------------ MODULE WebSocketHandshake --------------------------
(***************************************************************************)
(* How AsyncWebSocket answers the request that is to become a socket.      *)
(* The headers of a request are a function from the names it has.          *)
(***************************************************************************)
EXTENDS WebAuthentication, FiniteSets

WS_STR_UUID == <<"258EAFA5">>    \* and so on

canHandle(socket, request) ==
    /\ socket.enabled
    /\ request.method = <<"GET">> /\ request.url = socket.url /\ request.type = "ws"

\* requestAuthentication(), here with the digest it asks for by default.
requestAuthentication == [code |-> 401, headers |-> [challenge |-> requestDigestAuthentication({})]]

\* AsyncWebSocketResponse: without memory for the hash the connection is closed.
Opening(key, memory) ==
    IF ~memory THEN [code |-> 0, headers |-> <<>>]
    ELSE [code |-> 101,
          headers |-> [Connection |-> <<"Upgrade">>, Upgrade |-> <<"websocket">>,
                       Accept |-> base64_encode(<<"sha1(">> \o key \o WS_STR_UUID \o <<")">>)]]

WithHeader(response, name, value) ==
    [response EXCEPT !.headers = [n \in DOMAIN @ \cup {name} |-> IF n = name THEN value ELSE @[n]]]

handleRequest(socket, request, memory) ==
    LET has(name) == name \in DOMAIN request.headers
        opening   == Opening(request.headers.Key, memory)
    IN  CASE ~has("Version") \/ ~has("Key") -> [code |-> 400, headers |-> <<>>]
          [] has("Version") /\ has("Key")
               /\ socket.username # <<>> /\ socket.password # <<>>
               /\ ~authenticate(request, socket.username, socket.password, {}, FALSE) -> requestAuthentication
          [] OTHER ->
               IF request.headers.Version # 13 THEN [code |-> 400, headers |-> [Version |-> 13]]
               ELSE IF has("Protocol") THEN WithHeader(opening, "Protocol", request.headers.Protocol)
               ELSE opening

\* A client that follows RFC 6455 takes the socket for open exactly if it has
\* asked for version 13 with a key and, should the socket have a login, has
\* given it: the answer fits its key, and no protocol it has not asked for is
\* in it.
SocketOpens(socket, request, memory) ==
    LET answer  == handleRequest(socket, request, memory)
        headers == request.headers
        open    == /\ answer.code = 101
                   /\ answer.headers.Accept =
                        <<"base64(", "sha1(">> \o headers.Key \o <<"258EAFA5", ")", ")">>
                   /\ "Protocol" \in DOMAIN answer.headers =>
                        "Protocol" \in DOMAIN headers /\ answer.headers.Protocol = headers.Protocol
        login   == socket.username = <<>> \/ socket.password = <<>> \/ request.user = socket.username
        asks    == {"Version", "Key"} \subseteq DOMAIN headers /\ headers.Version = 13
    IN  canHandle(socket, request) /\ memory => (open <=> asks /\ login)
=============================================================================
