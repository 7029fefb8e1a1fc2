-------------------------- MODULE MCWebConnection --------------------------
EXTENDS WebConnection

TheBoundary == <<"b", "b">>

\* Data that looks more or less like the end of a part, but does not hold a
\* delimiter.
Pieces == {<<"x">>, <<"-">>, <<"b">>, <<"CR">>, <<"CR", "LF">>, <<"CR", "LF", "-">>,
           <<"CR", "LF", "-", "-">>, <<"CR", "LF", "-", "-", "b">>}
HasDelimiter(d) ==
    \E i \in 1 .. Len(d) - 5 : SubSeq(d, i, i + 5) = <<"CR", "LF", "-", "-", "b", "b">>
FileData == {d \in {a \o b : a \in Pieces, b \in Pieces} : ~HasDelimiter(d)}

P(file, name, data) == [file |-> file, name |-> <<name>>, data |-> data]
Ask(method, kind, parts, responses) ==
    [method |-> method, url |-> "u", kind |-> kind, parts |-> parts, responses |-> responses]

Ok == [kind |-> "basic", head |-> 4, content |-> 5, source |-> "sound"]
TheServerError == [kind |-> "basic", head |-> 4, content |-> 0, source |-> "sound"]
Files == [kind : {"basic", "sized", "unsized"}, head : {2, 4, 12, 13}, content : {0, 1, 5, 7, 11},
          source : {"sound"}]
Chunks == [kind : {"chunked"}, head : {3, 5, 13}, content : {0, 1, 7}, source : {"sound"}]
Unsound == [kind : {"sized", "unsized", "chunked"}, head : {3, 13}, content : {7},
            source : {"frail", "missing"}]

TheResponses == {TheServerError} \cup Files \cup Chunks \cup Unsound

TheRequests ==
    {Ask("POST", "multipart", <<P(TRUE, "f", d)>>, {Ok}) : d \in FileData}
      \cup {Ask("POST", "multipart",
                <<P(FALSE, "n", <<"x", "CR">>), P(TRUE, "f", <<"x", "CR", "LF">>),
                  P(TRUE, "g", <<"x", "x", "x">>)>>, {Ok}),
            Ask("POST", "multipart", <<P(FALSE, "n", <<>>)>>, {Ok}),
            Ask("POST", "plain", <<P(FALSE, "n", <<"x", "=", "%", "&", " ">>), P(FALSE, "m", <<>>)>>, {Ok}),
            Ask("POST", "raw", <<P(FALSE, "-", <<"{", "x">>)>>, {Ok}),
            Ask("GET", "get", <<P(FALSE, "n", <<"x", "=", "+", " ">>), P(FALSE, "m", <<>>)>>, {Ok}),
            Ask("GET", "get", <<>>, TheResponses)}
=============================================================================
