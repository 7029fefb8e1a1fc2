------------------------------ MODULE MCParts -------------------------------
EXTENDS Parts, MCMqttPacket

\* As in data/, with a page that is stored in both forms and one in a
\* directory of its own.
MCStored ==
    {<<"index.html">>, <<"index.htm">>, <<"css", "cf84f.css", ".gz">>,
     <<"js", "app.js", ".gz">>, <<"both.js">>, <<"both.js", ".gz">>,
     <<"help", "index.html", ".gz">>, <<"api">>, <<"favicon.ico">>, <<"logo.woff2", ".gz">>}

MCRoutes ==
    <<[method |-> "GET", url |-> <<"heap">>], [method |-> "GET", url |-> <<"reboot">>],
      [method |-> "GET", url |-> <<"api", "ssid">>], [method |-> "GET", url |-> <<"fs">>],
      [method |-> "POST", url |-> <<"do-fs">>], [method |-> "POST", url |-> <<"update">>],
      [method |-> "POST", url |-> <<"api", "wifi", "sta">>]>>

MCVisits ==
    [method : {"GET"}, type : {"http"},
     url : {<<"">>, <<"index.html">>, <<"css", "cf84f.css">>, <<"js", "app.js">>,
            <<"js", "app.js", ".gz">>, <<"both.js">>, <<"help">>, <<"help", "">>,
            <<"heap">>, <<"api", "ssid", "x">>, <<"api">>, <<"events">>, <<"missing">>,
            <<"favicon.ico">>, <<"logo.woff2">>}]
    \cup [method : {"GET"}, type : {"ws"}, url : {<<"ws">>, <<"index.html">>}]
    \cup [method : {"GET"}, type : {"event"}, url : {<<"events">>}]
    \cup [method : {"POST"}, type : {"http"}, url : {<<"update">>, <<"index.html">>}]

MCExtension ==
    [name \in {Last(path) : path \in MCStored} \cup {"cf84f.css", "app.js", "logo.woff2"} |->
        CASE name = "index.html" -> "html"
          [] name = "index.htm" -> "htm"
          [] name = "cf84f.css" -> "css"
          [] name \in {"app.js", "both.js"} -> "js"
          [] name = "favicon.ico" -> "ico"
          [] name = "logo.woff2" -> "woff2"
          [] OTHER -> ""]

MCCapacity == [info |-> 1024, d |-> 512]

Number(o, k, width) == [object |-> o, key |-> k, number |-> TRUE, width |-> width]
Literal(o, k, width) == [object |-> o, key |-> k, number |-> FALSE, width |-> width]
String(o, k, n, width) ==
    [object |-> o, key |-> k, number |-> FALSE, length |-> n, width |-> width]
Setting(o, k, setting, width) ==
    [object |-> o, key |-> k, number |-> FALSE, setting |-> setting, width |-> width]

\* Widths: the key, the longest value, and the quotes, colon and comma; those
\* of settings are without the value.
MCConstructed ==
    <<String("info", "ssid", 32, 42), String("info", "chip_id", 17, 30),
      Number("info", "flash_size", 24), String("info", "mac", 17, 26)>>

MCConfigured ==
    <<Setting("info", "id", "client", 8), Setting("info", "client_id", "client", 15),
      String("info", "device_id", 17, 32), Setting("info", "prefix", "prefix", 12),
      String("info", "ip", 15, 23)>>

MCAssigned ==
    <<Literal("d", "frameWorkVersion", 27), String("d", "appVersion", 6, 22),
      Number("d", "appVersionInt", 27), Setting("d", "myName", "name", 12),
      Number("d", "millis", 20), Number("d", "first_published", 20),
      Number("d", "raw_first_published", 24), Number("d", "lwt", 8),
      Number("d", "seq", 17), Number("d", "PUBLISH_EVERY_S", 29),
      String("info", "version", 5, 18),
      Number("d", "heap", 18), Number("d", "rssi", 12), Number("d", "counter", 22),
      Number("d", "millis", 20), Number("d", "subscription", 26)>>

\* Two times 200 and 80 leave nothing of the room; two times 340 are more than
\* the buffer of "info" holds.  pool.__device_name has room for 29 characters.
MCStatusLengths ==
    [name : {0, 12, 29}, client : {0, 1, 23, 200, 226, 340}, prefix : {0, 10, 80}]

RGB(r, g, b, w) == [r |-> r, g |-> g, b |-> b, w |-> w]
MCColours == {RGB(255, 128, 1, 77)}
MCStripTypes == {RGB(1, 0, 2, 1), RGB(0, 1, 2, 3)}    \* NEO_GRB, NEO_RGBW

Doc(type, value) == [type |-> type, value |-> value]
Texts ==
    {<<>>, <<"a">>, <<"quote">>, <<"backslash", "n">>, <<"newline", "backslash">>,
     <<"'", "{">>, <<"}", ",", "quote", "backspace">>}
Scalars == {Doc("string", s) : s \in Texts} \cup {Doc("integer", n) : n \in {0, 7, 10, -305}}
Arrays  == {Doc("array", v) : v \in {<<>>} \cup {<<x, y>> : x \in Scalars, y \in Scalars}}
Objects ==
    {Doc("object", v) : v \in {<<>>} \cup {<< <<k, x>> >> : k \in Texts, x \in Scalars \cup Arrays}}
    \cup {Doc("object", << <<k, x>>, <<l, x>> >>) :
            k \in Texts, l \in {m \in Texts : Len(m) = 2}, x \in Scalars}

\* The keys of an object differ.
MCDocuments ==
    {o \in Objects : \A i, j \in DOMAIN o.value : o.value[i][1] = o.value[j][1] => i = j}

MCEvents ==
    [id : {<<"0">>, <<"7">>}, event : {<<>>, <<"e">>},
     message : UNION {[1 .. n -> {"CR", "LF", "x"}] : n \in 0 .. 4}]

\* The values of a page: longer than its placeholder, shorter and empty.
MCValues ==
    (<<"n">> :> <<"1", "2", "3", "4", "5", "6">>) @@ (<<"m", "o">> :> <<"9">>) @@ (<<"p">> :> <<>>)

\* Pages of up to three pieces, one of them a name nobody knows.
PagePieces ==
    {<<"a">>, <<"b", "c", "d">>, <<"%", "n", "%">>, <<"%", "m", "o", "%">>, <<"%", "p", "%">>,
     <<"%", "%">>, <<"%", "u", "%">>}
PageTexts == {FlattenSeq(q) : q \in UNION {[1 .. n -> PagePieces] : n \in 0 .. 3}}

MCTemplates ==
    [text : PageTexts, first : 1 .. 4, then : {1, 2, 3, 5, 20}]
    \cup [text : PageTexts, first : {12}, then : {12}]

Users ==
    [name : {<<"u">>, <<"v">>, <<"u", ",", "w">>}, password : {<<"p">>, <<"q">>, <<"p", ":">>}]
FieldNames == <<"username", "realm", "nonce", "uri", "algorithm", "response", "qop", "nc", "cnonce">>
Orders ==
    {FieldNames, Reverse(FieldNames),
     <<"nonce", "response", "username", "uri", "qop", "opaque", "realm", "cnonce", "nc">>}
Browsers ==
    [digest : BOOLEAN, user : Users, realm : {{}, {<<"r">>}}, method : {<<"GET">>, <<"POST">>},
     url : {<<"/">>, <<"/", "a", "=", "1">>, <<"/", ",">>}, order : Orders, between : {<<>>, <<" ">>}]

MCLogins ==
    [browser : Browsers, login : {u \in Users : u.password = <<"p">> /\ u.name # <<"v">>},
     realm : {{}, {<<"r">>}}, kept : {"plain", "hash", "text"}, method : {<<"GET">>}]

\* Decimals with one to seven digits around the limits of normalize(), from
\* the smallest exponent to the largest.
Mantissas ==
    {0, 1, 5, 12, 123, 999999, 1000001, 1234567, 1234565, 8388607, 8388609, 9999999, 9999995, 100005}
Finite ==
    {Variant!Decimal(neg, m, e) : neg \in BOOLEAN, m \in Mantissas, e \in -42 .. 31}
Specials == {Variant!Special("inf", TRUE), Variant!Special("inf", FALSE), Variant!Special("nan", FALSE)}
MCNumbers == {x \in Finite : Variant!Magnitude(x) \in -37 .. 37} \cup Specials

MCVariants ==
    {Variant!OfBoolean(b) : b \in BOOLEAN}
    \cup {Variant!OfInteger(n) :
            n \in {0, 1, -1, 7, 305, -305, 32767, -32768, 40000, -40000, 65536, 99999}}
    \cup {Variant!OfFloat(x) : x \in Specials \cup
            {Variant!Decimal(neg, m, e) : neg \in BOOLEAN, m \in {0, 1, 5, 12, 123, 999999},
                                         e \in {-8, -6, -3, -1, 0, 1, 3}}}
    \cup {Variant!OfString(s) :
            s \in {Variant!NullPointer, <<>>, <<"t">>, Variant!TrueText, Variant!NullText, <<"1", "2">>,
                   <<"-", "7">>, <<"1", ".", "5">>, <<"n">>}}

\* What is saved as it is, a text that is copied and one that is parsed.
MCGiven ==
    {[save |-> "plain", length |-> 1], [save |-> "duplicate", length |-> 4],
     [save |-> "parsed", length |-> 5]}

Param(name, value, post) == [name |-> name, value |-> value, post |-> post]
MCRewrites ==
    {[from |-> <<"a">>, to |-> <<"b">>, params |-> <<Param("n", 1, FALSE)>>, filter |-> "all"],
     [from |-> <<"b">>, to |-> <<"a", "x">>, params |-> <<Param("m", 2, FALSE)>>, filter |-> "sta"]}

Route(uri, methods, filter) ==
    [kind |-> "route", uri |-> uri, methods |-> methods, filter |-> filter]
Page(uri, files, login, dated, tagged) ==
    [kind |-> "page", uri |-> uri, files |-> files, login |-> login, dated |-> dated,
     tagged |-> tagged, filter |-> "all"]
MCHandlers ==
    {Route(<<"a">>, {"GET", "POST"}, "ap"), Route(<<"a", "*">>, {"POST"}, "all"),
     Page(<<"a">>, {<<>>, <<"/", "f">>}, <<"u">>, TRUE, TRUE),
     Page(<<>>, {<<"b">>, <<"a">>}, <<>>, FALSE, TRUE)}

MCRequests ==
    [method : {"GET", "POST"}, url : {<<"a">>, <<"a", "/", "f">>, <<"b">>},
     params : {<<>>, <<Param("n", 7, TRUE), Param("n", 8, FALSE)>>},
     via : {"sta", "ap"}, login : {<<>>, <<"u">>}]

Byte256 == 0 .. 255
AllHues == 0 .. 65535

\* Days around the ends of years and leap days, up to the last one of 32 bits.
MCTimes ==
    [days : {d \in 0 .. 49709 : d < 1200 \/ d \in 10950 .. 11750
                                 \/ d \in 47400 .. 47900 \/ d > 49340},
     secs : {0, 43199, 86399}]

Sockets ==
    [enabled : BOOLEAN, url : {<<"/ws">>}, username : {<<>>, <<"u">>}, password : {<<>>, <<"p">>}]
SocketHeaders ==
    UNION {[s -> {13}] : s \in {{"Version"}}}
    \cup {[n \in s |-> CASE n = "Version" -> v [] n = "Key" -> <<"k">> [] n = "Protocol" -> <<"chat">>] :
             s \in SUBSET {"Version", "Key", "Protocol"}, v \in {8, 13}}
LoginOf(m, l, u, digest) ==
    IF digest
    THEN Login!Authorization([digest |-> TRUE, user |-> [name |-> u, password |-> <<"p">>], realm |-> {},
                              method |-> m, url |-> l, order |-> FieldNames, between |-> <<" ">>],
                             Login!requestDigestAuthentication({}))
    ELSE Login!base64_encode(u \o <<":", "p">>)
Openings ==
    {[method |-> m, url |-> l, type |-> t, headers |-> h, user |-> u, isDigest |-> d,
      authorization |-> LoginOf(m, l, u, d)] :
        m \in {<<"GET">>, <<"POST">>}, l \in {<<"/ws">>, <<"/x">>}, t \in {"ws", "http"},
        h \in SocketHeaders, u \in {<<"u">>, <<"w">>}, d \in BOOLEAN}
MCHandshakes == [socket : Sockets, request : Openings, memory : BOOLEAN]

\* Up to three or four calls for each kind of message.
Switch(call, b) == [set |-> call, on |-> b]
Auth(u, p) == [set |-> "auth", user |-> u, password |-> p]
Will(topic, message, q, r) ==
    [set |-> "will", topic |-> topic, message |-> message, qos |-> q, retain |-> r]
ConnectCalls ==
    {Switch("clean_session", b) : b \in BOOLEAN}
    \cup {Auth(<<1>>, <<2, 3>>), Auth(<<>>, <<2>>), Auth(<<4>>, <<>>), [set |-> "no_auth"]}
    \cup {[set |-> "keepalive", seconds |-> 300], [set |-> "no_will"],
          Will(<<5>>, <<6>>, 1, TRUE), Will(<<>>, <<6>>, 1, TRUE), Will(<<7>>, <<>>, 3, FALSE)}
PublishCalls ==
    {[set |-> "qos", qos |-> q] : q \in 0 .. 3} \cup {[set |-> "no_qos"]}
    \cup {Switch(n, b) : n \in {"retain", "dup"}, b \in BOOLEAN}
TopicCalls == {[set |-> "topic", topic |-> t, qos |-> q] : t \in {<<1>>, <<2, 3>>}, q \in 0 .. 2}
UpTo(n, S) == UNION {[1 .. k -> S] : k \in 0 .. n}
MCCalls ==
    [type : {"CONNECT"}, calls : UpTo(3, ConnectCalls)]
    \cup [type : {"PUBLISH"}, calls : UpTo(4, PublishCalls)]
    \cup [type : {"SUBSCRIBE", "UNSUBSCRIBE"}, calls : UpTo(2, TopicCalls)]

\* Characters: 32 is a blank, 36 "$", 47 "/".
DeviceNames == {<<>>, <<100>>, <<100, 32>>, <<100, 47, 101>>, <<109>>}
MCSettings ==
    [settings :
        [MQTT_CLIENT_ID : DeviceNames, DEVICE_NAME : DeviceNames,
         MQTT_PREFIX : {<<>>, <<112, 47>>, <<112>>, <<32, 112, 47>>},
         MQTT_USERNAME : {<<>>, <<32>>, <<117>>}, MQTT_PASSWORD : {<<>>, <<119, 32>>}],
     options :
        [lastWill : BOOLEAN, capitals : BOOLEAN, topicSub : {<<>>, <<32>>, <<116, 47, 36, 47, 99>>}],
     mac : {<<109, 97>>}, other : {<<120>>, <<109>>}]

MCAdjustments == {-1, 2}

MCSSIDs == <<"cafe", "home">>

\* What the file of the MQTT page may have, and two visits.
JsonTexts == {"", "undefined", "t"}
MCForms ==
    [json : [clientId : JsonTexts, deviceName : JsonTexts, prefix : JsonTexts,
             lwt : {"undefined", "false", "0", "1"}, others : {"o"}],
     hash : {"h"}, again : {"i"}]

MCWildcards ==
    [pattern : UpTo(4, {"a", "*", "?"}), name : UpTo(4, {"a", "b"})]
MCExcludeLists == UpTo(8, {"x", "LF"}) \cup UpTo(5, {"x", "LF", "CR"})
=============================================================================
