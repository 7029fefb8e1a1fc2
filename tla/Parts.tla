------------------------------- MODULE Parts --------------------------------
(***************************************************************************)
(* The parts of the firmware that share no state with any other, side by   *)
(* side: the packets of MQTT, the pages of the portal and the lists of its *)
(* server, the document of a status and the memory of such documents, the  *)
(* configuration file and the editor of files, the strip of LEDs, the      *)
(* status LED, the clock, the administration pages in a browser, and what  *)
(* is computed at once: the session the settings make, and the conversions *)
(* of texts, numbers, times and colours.  Which of them moves is chosen at *)
(* the beginning.                                                          *)
(***************************************************************************)
EXTENDS MqttPacket, Pixels, ConfigFile, StatusLed, Clock

CONSTANTS
    Stored, Routes, Visits, Extension,       \* of WebPages
    Capacity, NodeSize, ObjectSize, TextCapacity,
    Constructed, Configured, Assigned, MacLength, StatusLengths, SettingsRoom,    \* of StatusJson
    InitialSize, HeapSize, BlockHeader, NodeBytes, ContainerBytes,
    Keys, Given, MaxOperations,              \* of JsonStore
    Rewrites, Handlers, Requests, Sizes, Dates, MaxSteps,   \* of WebServer
    IntWidth,                                \* of JsonValues
    NameLength, Values,                      \* of WebTemplate
    SSIDs, Passwords, MaxPresses,            \* of AdminPages
    Names, Editors, UploadPieces, Room, MaxLength, MaxEdits,      \* of FileEditor
    Documents, Depths, Numbers, Variants, Events, Times, Wheels, Hues,
    Templates, Logins, Handshakes, Calls, Settings, Wildcards, ExcludeLists, Forms
                                             \* what is converted

VARIABLES
    part,
    gzipStats, gzipFirst, visit, answer,
    lengths, json, reading, status,
    mem, nodes, firstNode, meant, operations,
    heap, root, catchAll, page, copy, exchange, registered, steps,
    form, scans, timers, posts, stored, presses, submitted, refreshed, failed,
    account, disk, authenticated, edits, reply, made, disturbed,
    sample

Pages  == INSTANCE WebPages
Status == INSTANCE StatusJson
Store  == INSTANCE JsonStore
Server == INSTANCE WebServer WITH meant <- registered
Json   == INSTANCE JsonText
Pretty   == INSTANCE JsonPrint
Variant  == INSTANCE JsonValues
Template == INSTANCE WebTemplate
Login    == INSTANCE WebSocketHandshake
Session  == INSTANCE MqttSession
Admin    == INSTANCE AdminPages
Editor   == INSTANCE FileEditor
Event  == INSTANCE EventText
Time   == INSTANCE TimeFields

ASSUME PartsAssumption ==
    /\ Pages!PagesAssumption /\ Status!StatusAssumption /\ Store!StoreAssumption
    /\ Server!ServerAssumption /\ Variant!WidthAssumption /\ Template!TemplateAssumption
    /\ ConfigAssumption /\ LedAssumption /\ ClockAssumption /\ Editor!EditorAssumption

pageVars   == <<gzipStats, gzipFirst, visit, answer>>
statusVars == <<lengths, json, reading, status>>
storeVars  == <<mem, nodes, firstNode, meant, operations>>
serverVars == <<heap, root, catchAll, page, copy, exchange, registered, steps>>
adminVars  == <<form, scans, timers, posts, stored, presses, submitted, refreshed, failed>>
editorVars == <<account, disk, authenticated, edits, reply, made, disturbed>>
partVars   == <<vars, pageVars, statusVars, stripVars, storeVars, serverVars, configVars, ledVars,
                clockVars, adminVars, editorVars, part, sample>>

NoSample == [kind |-> "none"]

\* A sample is converted once, in the initial state that has it.
Sampled ==
    \/ \E d \in Documents, n \in Depths : sample = [kind |-> "json", doc |-> d, limit |-> n]
    \/ \E x \in Numbers : sample = [kind |-> "number", number |-> x]
    \/ \E v \in Variants : sample = [kind |-> "variant", variant |-> v]
    \/ \E e \in Events : sample = [kind |-> "event", event |-> e]
    \/ \E t \in Times : sample = [kind |-> "time", time |-> t]
    \/ \E pos \in Wheels : sample = [kind |-> "wheel", pos |-> pos]
    \/ \E hue \in Hues : sample = [kind |-> "hue", hue |-> hue]
    \/ \E t \in Templates : sample = [kind |-> "template", of |-> t]
    \/ \E l \in Logins : sample = [kind |-> "login", of |-> l]
    \/ \E h \in Handshakes : sample = [kind |-> "handshake", of |-> h]
    \/ \E c \in Calls : sample = [kind |-> "message", of |-> c]
    \/ \E x \in Settings : sample = [kind |-> "session", of |-> x]
    \/ \E w \in Wildcards : sample = [kind |-> "wildcard", of |-> w]
    \/ \E l \in ExcludeLists : sample = [kind |-> "excludes", text |-> l]
    \/ \E f \in Forms : sample = [kind |-> "form", of |-> f]

\* A part that does not move is in one of its initial states.
PartsInit ==
    /\ part \in {"packets", "pages", "status", "strip", "store", "server", "config", "led", "clock",
                "admin", "editor", "conversions"}
    /\ Init /\ Pages!PagesInit /\ Status!StatusInit /\ StripInit
    /\ Store!StoreInit /\ Server!ServerInit /\ ClockInit
    /\ ConfigInit /\ (part # "config" => file = Missing)
    /\ LedInit /\ (part # "led" => ~pin /\ led.prev_active = 0)
    /\ Admin!AdminInit /\ Editor!EditorInit
    /\ part # "editor" => account = "none" /\ disk = <<>>
    /\ part # "status" => lengths = CHOOSE s \in StatusLengths : TRUE
    /\ part # "strip" => stripType = (CHOOSE t \in StripTypes : TRUE) /\ numLEDs = 0
    /\ IF part = "conversions" THEN Sampled ELSE sample = NoSample

PacketsMove ==
    /\ part = "packets" /\ Next
    /\ UNCHANGED <<pageVars, statusVars, stripVars, storeVars, serverVars, configVars, ledVars,
                   clockVars, adminVars, editorVars, part, sample>>

PagesMove ==
    /\ part = "pages" /\ Pages!PagesNext
    /\ UNCHANGED <<vars, statusVars, stripVars, storeVars, serverVars, configVars, ledVars,
                   clockVars, adminVars, editorVars, part, sample>>

StatusMoves ==
    /\ part = "status" /\ Status!doPublish
    /\ UNCHANGED <<vars, pageVars, stripVars, storeVars, serverVars, configVars, ledVars, clockVars,
                   adminVars, editorVars, part, sample>>

StripMoves ==
    /\ part = "strip" /\ StripNext
    /\ UNCHANGED <<vars, pageVars, statusVars, storeVars, serverVars, configVars, ledVars,
                   clockVars, adminVars, editorVars, part, sample>>

StoreMoves ==
    /\ part = "store" /\ Store!StoreNext
    /\ UNCHANGED <<vars, pageVars, statusVars, stripVars, serverVars, configVars, ledVars,
                   clockVars, adminVars, editorVars, part, sample>>

ServerMoves ==
    /\ part = "server" /\ Server!ServerNext
    /\ UNCHANGED <<vars, pageVars, statusVars, stripVars, storeVars, configVars, ledVars, clockVars,
                   adminVars, editorVars, part, sample>>

ConfigMoves ==
    /\ part = "config" /\ ConfigNext
    /\ UNCHANGED <<vars, pageVars, statusVars, stripVars, storeVars, serverVars, ledVars, clockVars,
                   adminVars, editorVars, part, sample>>

LedMoves ==
    /\ part = "led" /\ LedNext
    /\ UNCHANGED <<vars, pageVars, statusVars, stripVars, storeVars, serverVars, configVars,
                   clockVars, adminVars, editorVars, part, sample>>

ClockMoves ==
    /\ part = "clock" /\ ClockNext
    /\ UNCHANGED <<vars, pageVars, statusVars, stripVars, storeVars, serverVars, configVars,
                   ledVars, adminVars, editorVars, part, sample>>

AdminMoves ==
    /\ part = "admin" /\ Admin!AdminNext
    /\ UNCHANGED <<vars, pageVars, statusVars, stripVars, storeVars, serverVars, configVars, ledVars,
                   clockVars, editorVars, part, sample>>

EditorMoves ==
    /\ part = "editor" /\ Editor!EditorNext
    /\ UNCHANGED <<vars, pageVars, statusVars, stripVars, storeVars, serverVars, configVars, ledVars,
                   clockVars, adminVars, part, sample>>

PartsNext ==
    \/ PacketsMove \/ PagesMove \/ StatusMoves \/ StripMoves \/ StoreMoves \/ ServerMoves
    \/ ConfigMoves \/ LedMoves \/ ClockMoves \/ AdminMoves \/ EditorMoves

\* Only the packets wait for something.
PartsSpec ==
    /\ PartsInit /\ [][PartsNext]_partVars
    /\ WF_vars(Arrive) /\ WF_vars(Reader)

-----------------------------------------------------------------------------
(* Properties                                                                *)

\* A packet has the length its header tells, and is read as it was sent.
PacketsAreWhole == LengthsAgree /\ ReadAsSent

\* A status has every field it should have, or the connector learns that it has
\* not; and a document keeps what has been put into it, whatever its memory can
\* not take (see StatusJson and JsonStore).
StatusIsComplete == Status!StatusIsComplete /\ Store!StoreKeepsValues

\* A request is answered by the page or route it is for, as the server is set
\* up at that moment and as the files are stored (see WebServer and WebPages).
\* What the owner has typed is what is sent and stored, across the calls of the
\* administration pages, and an uploaded file is whole (see AdminPages and
\* FileEditor).
RequestsAreAnswered ==
    /\ Server!RequestsAreAnswered /\ Pages!PagesAreServed
    /\ Admin!FormIsKept /\ Editor!UploadsAreWhole
    /\ sample.kind = "form" => Admin!StoredAgain(sample.of.json, sample.of.hash, sample.of.again)

\* What the firmware writes as text is read back as what it was: a JSON
\* document by its parser, in both forms it is printed in, a number and a
\* value of each type, an event by a browser, a time by the calendar.  The
\* effects of the strip run without a jump, from every position and hue.  A
\* page of the server has the values for its placeholders and nothing else of it
\* is changed, wherever its buffers end.  A pattern of the file editor matches
\* what its stars and question marks stand for.
ConversionsHold ==
    CASE sample.kind = "json" ->
           /\ Json!ReadBack(sample.doc, sample.limit)
           /\ Pretty!PrettyReadBack(sample.doc, sample.limit)
      [] sample.kind = "number"  -> Variant!NumberReadBack(sample.number)
      [] sample.kind = "variant" -> Variant!ValueReadBack(sample.variant)
      [] sample.kind = "event" -> Event!EventReadBack(sample.event)
      [] sample.kind = "time"  -> Time!TimeReadBack(sample.time)
      [] sample.kind = "wheel" -> WheelIsSmooth(sample.pos)
      [] sample.kind = "hue"   -> HuesAreSmooth(sample.hue)
      [] sample.kind = "wildcard" -> Editor!StarsMatch(sample.of.pattern, sample.of.name)
      [] sample.kind = "excludes" -> Editor!LinesAreExcluded(sample.text)
      [] sample.kind = "template" ->
           Template!PageIsExpanded(sample.of.text, sample.of.first, sample.of.then)
      [] OTHER -> TRUE

\* Who knows the name and the password gets in, and nobody else does; so it is
\* for a socket, which is opened as the protocol wants it.
OwnersPass ==
    CASE sample.kind = "login" ->
           LET l == sample.of IN Login!OwnerPasses(l.browser, l.login, l.realm, l.kept, l.method)
      [] sample.kind = "handshake" ->
           Login!SocketOpens(sample.of.socket, sample.of.request, sample.of.memory)
      [] OTHER -> TRUE

\* The broker gets the messages the program has made, and a device whose
\* settings are stored gets its commands and those only.
SessionIsUnderstood ==
    CASE sample.kind = "message" -> Session!MessagesSaySo(sample.of.type, sample.of.calls)
      [] sample.kind = "session" ->
           Session!CommandsAreUnderstood(sample.of.settings, sample.of.options, sample.of.mac, sample.of.other)
      [] OTHER -> TRUE
=============================================================================
