# A formal model of the jr-legend firmware

jr-legend is the firmware of an ESP32 device. It has two modes. In the
*configuration portal* the device is an access point with a web server, where a
client stores WiFi credentials and MQTT settings and uploads images. In *run
mode* it joins the access point it was given, connects to an MQTT broker and
publishes its status. A push button, a timeout and the web handlers move it from
one mode to the other, always through a restart of the chip. The repository holds, next
to the firmware's own code, the libraries it is built from, with changes of its own in
some; those the firmware runs on are modelled too.

This directory holds TLA+ modules that model the firmware, TLC configurations
that check them on small instances, and proofs for TLAPS.
All paths below are relative to the root of the repository.

- [The system](#the-system): components, state, interaction, what is hard
- [The modules](#the-modules): which models what, and how they match the code
- [Assumptions](#assumptions)
- [The runs](#the-runs): what is checked, bounds, fairness
- [The proofs](#the-proofs)
- [Findings](#findings)
- [What is not modelled](#what-is-not-modelled)
- [Where it could go on](#where-it-could-go-on)

## The system

Two tasks of the chip run this code, and a thread of the network stack calls into it.

- **loopTask** executes `setup()` and `loop()` of `src/main.cpp`. In
  portal mode it never leaves `CMMC_Legend::init_network()`, which polls
  `stopFlag`, the button and a 20-minute timeout. In run mode it does everything:
  it joins the network, runs the MQTT client and polls the button.
- **async_tcp** takes packets out of a queue and executes what they ask for: the
  web server with its handlers, one after the other. The server exists in portal
  mode only.
- **tcpip** is LwIP's thread. It puts packets into that queue, and carries out what
  async_tcp asks of a connection.

loopTask and async_tcp share the flash, the mount state of SPIFFS, the global
`Update` object, `stopFlag` and the members of the modules, without a lock. Either
may restart the chip while the other is in the middle of something.

| Component | Where | State | Operations | What makes it correct |
|---|---|---|---|---|
| Boot and mode switch | `lib/CMMC-Legend/src/CMMC_Legend.*`, `src/main.cpp` | file `/enabled`, `mode`, mount state, `stopFlag` | boot, leave the portal (button, timeout, image), long press, restart | the device comes up in the mode the flash asks for; every exit of the portal leads to run mode, every recognised press to the portal |
| Portal: uploads, reboot, routes | `CMMC_Legend.cpp:383-598` | the `Update` session, the two partitions | the chunks of `/update`, `/do-firmware`, `/do-fs`; `GET /reboot` | a mounted file system is never rewritten; a request reaches its handler |
| WiFi credentials | `src/modules/WiFiModule.*` | NVS `db-conf-wifi`, `sta_ssid`, `sta_pwd` | `config()`, `POST /api/wifi/sta`, join | no mixture of two networks is ever marked as saved; what was confirmed stays |
| MQTT settings | `src/modules/MqttModule.*` | NVS `db-conf-mqtt`, eight members | `config()`, `POST /api/mqtt` | a confirmed form is in flash as a whole; run mode uses what is in flash, in the right unit |
| MQTT session | `lib/MQTT-Connector-master-2/src/MqttConnector.*` | subscription object and count, publication timer, time of the last message, a request flag | `_connect()`, `loop()`, `doPublish()` | the count reported belongs to the session; statuses keep coming; lost connections are replaced |
| MQTT client | `.../PubSubClient.*` | packet identifier, activity times, ping flag, the waits on the call stack | connect, publish, subscribe, unsubscribe, disconnect, loop | a call that returns true has had its effect; a live broker is kept, a dead one noticed |
| MQTT packets | `.../MQTT.*` | none | encode, decode | the buffer is as long as what is written; what was sent is read back, however the network delivers it |
| Messages and topics | `.../MQTT.*`, `MqttConnector.cpp:142-338` | flags and fields of a message; client id, topics, last will | constructors and setters; the hooks and `_hook_config()` | the broker gets the message that was made; the device recognises its own commands and no others |
| Status document | `.../ArduinoJson`, `MqttModule.cpp` | two static buffers, two objects | publish, serialise, parse | a status is complete however often it has been published, or the connector is told; a text is read back as it was |
| JSON in dynamic memory | `.../ArduinoJson/DynamicJsonBuffer.hpp`, `JsonArray.hpp`, `JsonObject.hpp`, `JsonVariant*.hpp` | blocks, lists of nodes, copies of strings | add, set, get, remove, nest, clear | what was put in is found, also when the heap is used up; a value is what it was when it comes back from its text |
| AsyncTCP | `lib/AsyncTCP-master/src` | the packet queue, a client per connection | LwIP's callbacks, the methods of a client, close | no packet reaches a client that is gone; data stays in order; every client is deleted |
| Web server: requests | `lib/ESPAsyncWebServer-master/src/WebRequest.cpp` | the request being parsed | `_onData()`, handlers | the handler gets what was sent, however it was cut |
| Web server: responses | `.../WebResponses.cpp` | the response being written | `_respond()`, `_ack()` | the peer gets the whole response, once |
| Web server: pages and routes | `.../WebHandlers.cpp`, `WebServer.cpp` | lists of rewrites and handlers, statistics of compressed files | add, remove, `canHandle()`, `handleRequest()` | the first handler in the list as it is now answers; a stored page is served in the form it is stored in, whatever was asked before |
| Web server: templates | `.../WebResponses.cpp:379-478` | cache | `_fillBufferAndProcessTemplates()` | placeholders are replaced and nothing else, wherever buffers end |
| Web server: logins | `.../WebAuthentication.cpp` | none | basic and digest authentication | who knows name and password passes, nobody else |
| Web server: file editor | `.../SPIFFSEditor.cpp` | the file under upload, the list of excluded files | upload, list, create, delete | an upload that is confirmed is stored whole |
| WebSocket | `.../AsyncWebSocket.*` | two queues per client, shared buffers | send, acknowledge, parse, close | frames leave whole and in order; a shared buffer lives as long as it is used |
| Server-sent events | `.../AsyncEventSource.*` | a queue per client | send, acknowledge | no event twice or out of order; a browser reads what was sent |
| LED strip | `lib/Adafruit_NeoPixel`, `src/src/stripfn.h` | pixel buffer, type, brightness | set, fill, brightness, effects | nothing stored is brighter than allowed; effects run without a jump |
| Time | `lib/Time-master` | seconds, the `millis()` they belong to, a cache of fields | `breakTime()`, `makeTime()`, `now()`, setting, synchronisation | the fields of a time are its date; the clock keeps time across the turns of `millis()` |
| Status LED | `lib/CMMC-Legend/src/xCMMC_LED.*` | two tickers | `blink()`, `set()`, `toggle()`, `detach()` | a LED that blinks goes on blinking and is not left lit |
| Configuration files | `lib/CMMC-Legend/src/CMMC_ConfigManager.*` | a JSON file | load, add, commit | a save that is not cut short survives every later restart |
| Administration pages | `lib/CMMC-Legend/cmmcAdmin/src` | the forms, timers and calls of a browser | choose, type, submit, reload | what is submitted is what the owner saw |

How they interact:

- `main.cpp` calls `CMMC_Legend::setup()`, which boots, calls `config()` of
  each module (both read NVS and register their handlers), and then waits in the
  portal or returns. In run mode `start()` calls `setup()` of each module: the
  WiFi module waits for the access point, the MQTT module for the broker.
  `run()` then calls their `loop()` for ever and polls the button.
- A save of credentials ends with a chip that sleeps and boots again; the boot
  finds the mark `WIFI_FIRST`, puts it back and restarts once more.
- `MqttModule` registers hooks with `MqttConnector`, which drives `PubSubClient`
  and gets its messages through a callback, inside whatever wait is in progress.
- A segment of a request goes from LwIP through the queue to `AsyncClient`, to
  `AsyncWebServerRequest`, to the handlers of `CMMC_Legend` and of the modules; the
  response goes back as far as the send buffer has room, and on with each
  acknowledgement or poll, which come through the queue as well. A request that is
  upgraded hands its connection to a client of the WebSocket or of the event source.

What is hard here, and what the properties are aimed at:

- **Several commits per save.** Credentials are three puts, MQTT settings eight,
  and the power, or the other task, may end them anywhere.
- **Exits against handlers.** A press of the button while an upload or a save is
  half done; `enable_run_mode()` on a file system an upload has unmounted.
- **Shared upload session.** Three routes, any number of requests, one object.
- **Nested waits.** A message processed inside a wait starts a wait of its own,
  which can consume the reply the outer one needs; the callback discards input.
- **Retries.** Late replies, identifiers that come round, a broker that
  remembers an identifier the client has given up.
- **Keep-alive.** It has to tell a busy device from a dead broker.
- **A stream in pieces.** Packets, requests and frames are cut out of a byte stream
  that arrives in any pieces.
- **Two threads and a queue.** Packets name their client by address; the client may be
  closed, deleted and its address used again while they wait.
- **Little room.** Responses, frames and events leave through a send buffer that holds
  a few thousand bytes, and go on when acknowledgements are reported, late and joined.
- **Buffers that fill.** The status document is assigned again and again in memory that
  is never given back.
- **Stale counts.** The connector's state outlives the connection it describes; handlers
  are removed while requests come in; a page in a browser is older than the device.
- **Numbers at their limits.** `millis()` turns over, brightness is rounded in place,
  a float is printed and read with too few digits, lengths are computed in two places.

`PROJECT.json` lists each hazard at its line, with the properties that would catch it.

## The modules

One module per component; where components share state, a module composes them. `Parts`
puts the components that share no state side by side, so that one run checks them all.

| Module | Models |
|---|---|
| `Legend` | boot, portal, run mode, WiFi credentials, uploads, restarts |
| `ModeSwitch` | what the firmware promises about its modes (abstract); `Legend` refines it |
| `MqttSettings` | the stored MQTT settings |
| `MqttConnector` | the session with the broker |
| `MqttSession` | what the session is configured with: topics, client id, last will, login, commands |
| `PubSubClient` | the MQTT client, message by message |
| `MqttPacket` | packets, byte by byte, written and read |
| `MqttMessages` | the constructors and setters that make a message |
| `AsyncTcp` | the queue between LwIP and the task async_tcp, the clients of connections |
| `WebRequest`, `WebResponse` | the parser of requests; the writer of responses |
| `WebConnection` | both on one connection, from the first byte to the last acknowledgement |
| `WebServer` | lists of rewrites and handlers; headers, parameters, validators, logins as a handler sees them |
| `WebPages` | stored pages, the routes of the firmware, the captive portal |
| `WebTemplate` | placeholders in pages |
| `WebAuthentication` | basic and digest logins |
| `WebSocket`, `WebSocketHandshake` | sockets; the request that opens one |
| `EventSource`, `EventText` | queues of server-sent events; the text of one |
| `FileEditor` | uploads and files of `SPIFFSEditor`, its list of excluded names |
| `StatusJson` | the status document in its static buffers |
| `JsonStore` | arrays and objects in a dynamic buffer |
| `JsonValues` | values, their conversions and comparisons, numbers as text |
| `JsonText`, `JsonPrint` | serialiser and parser; pretty printing |
| `Pixels` | the LED strip and its effects |
| `TimeFields`, `Clock` | dates; the clock |
| `StatusLed` | the status LED and its tickers |
| `ConfigFile` | the configuration file manager |
| `AdminPages` | the forms of the administration pages |
| `Parts` | `MqttPacket`, `Pixels`, `ConfigFile`, `StatusLed`, `Clock`, extended, and 14 of the modules above, instantiated |
| `MCParts`, `MCWebConnection`, `MCWebSocket`, `MCEventSource`, `MCMqttPacket` | instances for TLC |
| `...Proofs` | the proofs about `Legend`, `AsyncTcp`, `PubSubClient`, `WebConnection`, `WebSocket`, `EventSource`, in `MqttProofs` about `MqttSettings` and `MqttConnector`, and in `PartsProofs` about `Pixels`, `ConfigFile`, `StatusLed`, `Clock`, `FileEditor`, `AdminPages` |

The other runs check a component's module itself, with the values in its `.cfg`.
`MqttConnector` does not instantiate `PubSubClient`, and `WebConnection` not `AsyncTcp`: each
uses what the other module shows (see [Assumptions](#assumptions)).

### Legend

`pc` is where loopTask is; the boot is `off`, `config`, and then either `portal`
or `bootButton`, `sta`, `mqtt`, `run`. `http` is where the save handler is: one
position before each put, before the answer, before the run flag and before the
sleep. `posts` and `session` are the requests in the middle of an upload and the
target of the shared `Update` object.

| Action | Code |
|---|---|
| `Boot` | `setup()` up to `init_fs()`: mount SPIFFS, look for `/enabled` |
| `ConsumeFirst`, `LoadConfig` | `WiFiModule::config()`, and `init_network()` up to the portal loop |
| `BootButton`, `BootReleased` | the button test in `main.cpp` |
| `PortalStop`, `PortalButton`, `PortalTimeout`, `Restart` | the portal loop; its three exits set the run flag, wait and restart |
| `StaJoin`, `MqttJoin`, `MqttLost`, `RemoteReboot` | run mode against the network; `$/reboot` |
| `Pressed`, `ShortReleased`, `LongPressed`, `LongReleased` | `isLongPressed()` and its caller |
| `SaveBegin`, `PutSsid`, `PutPass`, `PutFirst`, `SaveReply`, `SaveEnable`, `SaveSleep` | `POST /api/wifi/sta`, one action per commit |
| `UploadStart`, `UploadWrite`, `UploadSuccess`, `UploadFailure` | the chunks of the three upload routes |
| `RebootRequest` | `GET /reboot` |
| `Outage`, `PressButton`, `ReleaseButton`, `TimeoutElapses` | power, user and clock |

`PowerOff` is what every restart has in common: all RAM is lost, and `spiffs`,
`enabled` and `nvs` stay. `enable_run_mode` and `enable_config_mode` do nothing
without a mounted file system, as in the code, where nobody reads the result.

`ModeSwitch` says that the device comes up in the mode recorded in
flash, stays in it until it is switched off, and that the record becomes `RUN` in the
portal only and `CONFIG` only by the button of a running device or by a new file
system image. `Legend` maps `phase` to off, portal or run (a device that has
chosen its mode and not yet acted on it is still off) and `next` to the mode its
flash asks for.

### MQTT

**`MqttSettings`.** A key holds the number of the form its value comes from, and the two values that
are not used as entered, password and period. `Submit` copies the form into RAM, `Put` is one
`preferences.put...()`, `Reply` the answer. `config` loads, replaces blanks of the password by
plus signs and turns seconds into milliseconds. `Restart` is any restart; `Legend`
says which there are. Until a restart, RAM holds the unconverted form.

**`MqttConnector`.** `pc` follows `_connect()` (`connecting`, `subscribing`, `greeting`) and `loop()`
(`running`, `publishing`). `Publish` and `Skip` are the two outcomes of
`doPublish()`, with its early returns. The request of the application is cleared in both. The
device is subscribed to its own status topic, so `Publish` puts a message into
`pending`, and reading it sets `quiet` back. `subscribe()` may take effect at the
broker after the call has given up (`BrokerSubscribes` in any position).

**`MqttSession`.** `OnPrepareConfiguration` is the hook of `MqttModule`, `_hook_config` what the
connector makes of it, `connect` what it hands to the client, `Arrives` and `Effect` what a message
on a topic makes the device do. A broker's matching of topics is part of the model, because the
property is about what reaches whom.

**`PubSubClient`.** The call stack is `stack`: one entry per `_send_message()` that
waits, innermost first, with its message, its retries and its place in
`_wait_for()`: `first`, until there is input or the period is over
(`WaitInput`, `WaitExpired`); `check`, the test of the time (`WaitCheck`, `WaitTooLate`);
`read`, inside `readPacket()`, which blocks (`ReadReply`, `ReadOther`);
`after`, a message that was not the reply has been processed (`AfterOther`),
which may have pushed a nested wait in between. `WaitFailed` retries or gives up, `WaitSucceeded` goes on
(a QoS 2 publication with its PUBREL, a nested wait with its PUBCOMP).
`LoopStop`, `LoopRun` and `LoopOffline` are `loop()`. `Flushing`, true in both runs, gives the client
the callback of `MqttConnector`, which discards what has arrived behind a message. `waited` and `dropped` remember what has
happened to the last ping and are read by no step. A field
`no` of each message stands for the payload; the properties tell
publications apart by it, and the program never reads it.

**`MqttPacket`.** Writing is a set of operators, one for each `write_variable_header()`,
`write_payload()` and length function of the message classes; the lengths are
computed apart from the bytes, as in the code, so that they can disagree.
Reading is a machine: `ReadType` and `ReadLength` wait for each byte, `ReadBody` takes what has
arrived, and `Parse` ends that loop, also
when bytes are missing, and makes the message. Of a packet above `MQTT_TOO_BIG` only the fields in
front of the payload are read (`StreamedPublish`, `StreamedSubscribeAck`). `Pieces` is the network: with
`SplitBodies` it separates any two bytes, without it only bytes of the fixed header.
What only a broker reads is decoded as the protocol defines.

**`MqttMessages`.** `Made` runs a constructor and any calls of the setters in any order; `SentAs` is
the packet that goes out, `ReadBackAs` what a broker makes of it. `MadeByClient` adds the messages
that `PubSubClient.h` makes from its arguments.

### AsyncTCP and the web server

**`AsyncTcp`.** `lwip` is the tcpip thread inside a callback: it has a packet to put into the queue
(`Send`, which waits while the queue is full), or is in `_lwip_fin()` (`LwipFin`). `task` is
async_tcp, between packets or inside a close, step by step: `CloseClear` and `FinClear` put the CLEAR
packet in front, `CloseApi` has LwIP close the connection, `HandleClear` and `RotateStep` turn the
queue over. `Accept`, `Data`, `Acked`, `Poll`, `Fin`, `Reset` are LwIP's callbacks; `Handle...` are the
methods that `_handle_async_event()` calls, with what the web server does in them (`HandleRecv` may answer). Addresses of
clients and of LwIP's structures are used again at any time. `mishaps` records three orders of steps that the code does not exclude
and does not stand; a behaviour is followed up to the first reuse of an address that is still named.

**`WebRequest`** is the parser: `_parseReqHead`, `_parseReqHeader`, `_parsePlainPostChar` and
`_parseMultipartPostByte` with its eight states; `Receive` takes one segment of any size.
**`WebResponse`**: `BasicRespond` and `BasicAck` are `AsyncBasicResponse`, `AbstractAck` the response
that files, streams and callbacks share: in chunks (`Chunked`), or plain, with a length or without one (`Plain`). `TryAgain` is a fill
that finds nothing yet or gets no memory, `SourceFails` a source that turns invalid; one that is missing is answered with an error (`Answer`).
`lapse` records the two ways in which the code cuts a response short. The report of an acknowledgement
(`OnAck`) comes later than the room it makes, and reports may be joined. **`WebConnection`** joins the two:
the handler is called, and answers, while the last segment is taken in.

**`WebServer`** and **`WebPages`.** `Adds`, `Removes`, `onNotFound` change the lists,
`Serve` answers one request from rewriting to the response. `WebPages` is the handler of stored pages
with its statistics over the last eight requests, in front of the firmware's routes and the captive
portal's handler. `WebServer` takes the two forms of a page for one and has what a client and its cache do.

**`WebTemplate`** is `_fillBufferAndProcessTemplates()` over a sequence of buffers, with data, cache
and content as the code has them. **`WebAuthentication`** takes a header apart, field by field;
hashes are free constructors: equal only if their arguments are.
**`WebSocketHandshake`** is `AsyncWebSocket::canHandle` and `handleRequest` on top of it.

**`WebSocket`.** A client has two queues; `_runQueue` decides between control frames and the next
frame of a message, `Window` is what a frame may hold. `buffers` are the texts to all with their
counts, `_cleanBuffers` the only place where they go. `_onData()` is taken apart into a segment that arrives
(`_onData`) and one turn of its loop for each frame (`ReadFrame`); `textAll()`, `pingAll()` and `closeAll()` into what comes
before the loop, one client (`ForOne`) and what comes behind it (`AllDone`). `task` is where such a handler is; no other
handler runs meanwhile, but the peers acknowledge, so that the window may grow between two clients.
**`EventSource`.** `SendOne` is one turn of the loop of `_runQueue()`, `CreditOne` one of that of `_onAck()`; `PeerAck`
may come in the middle.
**`EventText`** is `generateEventMessage()` and the parser of a browser.

**`FileEditor`.** `handleUpload` takes a piece, `handlePost` answers, `handleRequest` is the rest;
several browsers upload at a time. `loadExcludeList`, `isExcluded`, `matchWild` are operators on texts.

### JSON

**`StatusJson`.** `init_config` and `hook_config` set the fields of `info`, the second with the settings of the device, whose `lengths` differ;
`doPublish` assigns all fields of the two documents again; memory only grows.
**`JsonStore`.** `mem` is the chain of blocks with what is allocated in each, `nodes` the lists;
`alloc`, `appendChar`, `clear` are the buffer's. Every operation may find the heap used up after any
of its allocations. `meant` is what the caller has been told is stored.
**`JsonValues`.** A variant is a type and a content; `as`, `is`, `equals`, `Compares` are tables of the
code's overloads. A float is a decimal: a sign, an integer and a power of ten. `FloatParts`,
`writeFloat`, `parseFloat` follow the code's loops; that a float of the chip is binary is left out.
**`JsonText`**, **`JsonPrint`.** The serialiser and the parser with its nesting limit; the pretty printer
as the filter over characters that it is.

### Devices, time, files, pages

**`Pixels`.** A colour is a record, a type of strip the positions of its bytes; `Scale` is the product
with the brightness, also applied to what is stored. **`StatusLed`.** A tick is 10 ms; `Toggled` and
`Watched` are the two tickers. **`TimeFields`** has times as pairs of days and seconds.
**`Clock`.** `millis` counts modulo `Wrap`; `truth` is the time it should be. **`ConfigFile`.** `commit()`
is taken apart: `init` and `saveConfig` load the document and open the file, which empties it; `CommitEnds`
prints into it. `Restart` may come in between.
**`AdminPages`.** `reloadAP` and `onSubmit` start a timer and a call each; the answers come in any
order, or never. `mounted`, `fetchConfig`, `onSubmitMqtt` are the form for MQTT.

## Assumptions

- A put to NVS succeeds and is atomic. The code looks at no result.
- async_tcp runs one handler at a time, to its end; a handler that blocks
  (`delay`, `deepSleep`) blocks the others. Chunks of different requests may
  interleave, because each chunk is a call of its own.
- `Update.begin()` fails while a session is open; `write()` and `end()` may fail
  and then close it. This is how the routes in `CMMC_Legend.cpp` use it.
- Rewriting the file system partition makes it unmountable until the image is
  complete, and a complete image has no file `/enabled`: the repository's `data`
  directory has none.
- In `PubSubClient` a TCP connection delivers whole packets in order or breaks. A broker answers
  each message as the protocol asks, once, and remembers a QoS 2 identifier from
  PUBLISH to PUBREL within a connection. It may stop answering.
- Times in `PubSubClient` and `MqttConnector` are ages in ticks, not a 32-bit counter.
- An SSID and its password are one value, a *credential*; buffer lengths are not
  modelled.
- `MqttConnector` assumes of the client that `subscribe()` returns true only on a
  subscribed session (`TrueMeansDone` of `PubSubClient`), and does not assume that
  it returns when the connection is lost.
- `WebConnection`, `WebSocket` and `EventSource` assume of AsyncTCP that segments and acknowledgements
  are handed over in order (`DataInOrder` of `AsyncTcp`).
- `AsyncTcp`: nothing is followed behind the first reuse of an address that a packet or a method still names, when two
  objects share one memory.
- `WebResponse`: `send(NULL)` does not occur; no handler of the firmware calls it.
- `WebSocket`: a frame is acknowledged as a whole, and the head of a peer's frame comes in one
  segment: the code reads it from one. A peer sends one CLOSE, as the protocol asks, and the send buffer has less than 64K, so
  that two bytes hold the length of a frame. The handler is given a split control frame in part, which is not recorded. `QueueIsServed` is about clients whose queue nothing runs while a
  control frame of theirs waits for its acknowledgement (`Calm`): the code would send that frame again.
- `EventSource`: `EventsInOrder` states the order when all events have one size and no room is made in the middle of a run of the queue (`even`):
  an event overtakes one that did not fit. In any case none is sent twice, or to a listener it is not meant for.
- `WebTemplate`: a placeholder's name fits its limit and its value the rest of a buffer, where a buffer is not full.
- `AdminPages`: the owner does not type in the millisecond between a submission and its timer.
- `StatusLed`: calls and tickers come one after another. `Ticker` fires when its period has passed. No period is of 70 to 90 ms
  (`LedAssumption`): the watch and the blinking would change the LED in the same tick.

## The runs

State counts are distinct states. "v" marks a run that is expected to find its property violated.

| Run | Module, configuration | States | Properties |
|---|---|---|---|
| `legend` | `Legend`, `Legend.cfg` | 192,584 | `FlagMarksCompleteSave`, `AckedIsDurable`, `RunIsConsistent`, `NeverWriteMounted`, `PortalExitEnablesRun`; `SwitchFairSpec` (`Legend` implements `ModeSwitch` with its liveness: the device does not stay off, the portal closes, so that a run flag set leads to run mode); `ButtonOpensPortal` |
| `settings_save` | `MqttSettings`, `MqttSettings.cfg` | 71,682 | `AckedIsWhole`, `RunsOnSaved` |
| `settings_period` v | `MqttSettings`, `MqttSettings_period.cfg` | | `PeriodIsInSeconds` |
| `connector` | `MqttConnector`, `MqttConnector.cfg` | 6,362 | `StatusIsTrue`, `StatusKeepsComing`, `Reconnects` |
| `client_calls` | `PubSubClient`, `PubSubClient_calls.cfg` | 5,386,120 | `TrueMeansDone`, `NeverTwice` |
| `client_keepalive` | `PubSubClient`, `PubSubClient_keepalive.cfg` | 283,703 | `LiveBrokerKept`, `SilenceNoticed` |
| `packet_split` v | `MCMqttPacket`, `MCMqttPacket_split.cfg` | | `ReadAsSent` |
| `tcp` | `AsyncTcp`, `AsyncTcp.cfg` | 248,826 | `PacketsFindTheirClient`, `CallbacksHaveClient`, `DataInOrder`, `EveryClientIsDeleted` |
| `web` | `MCWebConnection` | 204,668 | `HandledAsSent`, `ResponseIsWhole`, `RequestIsAnswered` |
| `sockets` | `MCWebSocket` | 95,766 | `BufferIsCounted`, `FramesAreTexts`, `HandedInOrder`, `QueueIsServed` |
| `events` | `MCEventSource` | 145,500 | `EventsInOrder`, `QueueDrains` |
| `parts` | `MCParts` | 571,566 | `PacketsAreWhole`, `KeepsReading`, `StatusIsComplete`, `RequestsAreAnswered`, `ConfigIsKept`, `ClockKeepsTime`, `LedBlinks`, `WithinBrightness`, `ConversionsHold`, `OwnersPass`, `SessionIsUnderstood` |

What the properties of `parts` say, part by part:

| Property | Part | Says |
|---|---|---|
| `PacketsAreWhole` | `MqttPacket` | the length computed is the length written, the header fits; with bodies that are not split, what is read is what was sent |
| `KeepsReading` | `MqttPacket` | every packet sent is read in the end |
| `StatusIsComplete` | `StatusJson` | a publication has the numbers read for it, however many went before and whatever the settings; it has all its fields, uncut, while twice the client id, the prefix and the name have at most 480 characters |
| | `JsonStore` | after any operations, with the heap used up anywhere, the store holds what its callers were told |
| `RequestsAreAnswered` | `WebServer` | the answer is that of the first handler registered now, with the parameters and headers sent; "not modified" is said only to a browser that has this page, or, where only the size is looked at, one of the same size |
| | `WebPages` | a page that is stored in any form is served, in a form it is stored in, with that form's encoding and the page's type |
| | `AdminPages` | what the device stores is a network and a password as they were shown when the button was pressed; no second submission overtakes the first; what the MQTT form shows is stored again unchanged |
| | `FileEditor` | a confirmed upload of one who is allowed to is stored whole, a stranger changes nothing |
| `ConfigIsKept` | `ConfigFile` | a field has the value of the last save that was not cut short, over any restarts |
| `ClockKeepsTime` | `Clock` | the seconds are right unless nobody asked for a whole turn of `millis()`; the status and the cache are those of the last setting |
| `LedBlinks` | `StatusLed` | a blinking LED is not lit longer than the watch allows |
| `WithinBrightness` | `Pixels` | no byte stored is brighter than the brightness set last |
| `ConversionsHold` | `JsonText`, `JsonPrint`, `JsonValues` | a document, a number, a value is read back as it was written, compact or pretty |
| | `EventText`, `TimeFields` | a browser reads the event that was sent; a time is its date |
| | `Pixels` | wheel and hue run without a jump |
| | `WebTemplate` | placeholders are replaced and nothing else |
| | `FileEditor` | wildcards match what they stand for; each line of a list is excluded |
| `OwnersPass` | `WebAuthentication`, `WebSocketHandshake` | who knows name and password passes, in any spelling of the header, nobody else; a handshake is answered as the protocol asks |
| `SessionIsUnderstood` | `MqttMessages`, `MqttSession` | the broker reads the message that the calls have made; the device hears its own commands and status and no other device's |

`parts` begins in one part and stays in it: its behaviours are those of the parts, side by side. The
conversions are initial states, one for each sample.

**Bounds, and why they are enough.**

- `Legend`: nothing compares more than two credentials (the one in flash and the
  one being written); a power failure cuts a save, an upload or a boot short, and what it leaves behind meets
  every later restart: `ConsumeFirst`, the portal's exits and `SaveSleep` restart without a bound. The proofs do without the bound. Nothing limits the saves, uploads or presses of a behaviour.
- `MqttSettings`: with three forms a key can be older, as new or newer than
  its neighbours after two saves cut short, and the third can overtake both.
  Period 999 is the last below the threshold, 0 the value of a device never set up.
- `MqttConnector`: the interval (4) is longer than the quiet time (2), as in any
  configuration of a second or more, so a status is due again after its own echo.
  Connections are not bounded, messages of others are (3).
- `PubSubClient`: four calls are a connect and three requests, with the identifiers
  2, 3 and 1, so the identifier wraps around and late replies to two earlier requests
  can be under way in the third; one retry is the first that duplicates a message;
  one inbound message of QoS 2 is enough to nest a wait in each kind of call.
  `TrueMeansDone` says nothing beyond `IdMax + 1` calls (65536 in the code): from
  there on an identifier is used again.
- `MqttPacket`: a string of 130 bytes needs a remaining length of two bytes; two
  messages under way put one packet directly behind the other; streamed payloads lie on both sides
  of each threshold of the header and end at the longest packet of the protocol.
- `AsyncTcp`: two clients and two connections, the fewest that can be mistaken for each other, with addresses that may be
  used again at once; two pieces of data, the fewest that can change places. The queue holds all they can raise.
- `web`: boundary of two bytes, item buffer of 3, segments of 1, 2, 4, 7 or all; bodies have beginnings of
  delimiters at every place where the parser takes them back. The send buffer of 12 bytes cuts head,
  content and chunk frames; two reports may be joined. Contents have a length or none, go out plain or in chunks; the first and
  any later fill may try again or get no memory, and a source is sound, missing or fails between the head and its content.
- `parts`, status: client ids of up to 340 characters with names of up to 29 and prefixes of up to 80, so that twice the id, the prefix and the name
  are below 480, at it and above; a client id that is not set is the MAC address.
- `sockets`: two clients and two calls, so that a shared text and a second one or a control frame meet in each queue, and
  queues of 1 are full at once; texts of 5 bytes in a room of 12 need two frames, one with the long header (from 4 bytes on in the run, from 126 in the code) and one with the short; the peer's segments are of one
  byte or all there is, so that one may end behind a header or inside its data; a peer that talks and closes, or only pings.
  One client is in `Calm` and one is not, so that control frames also go out twice. The safety properties, which are proved, were
  once checked with three calls, queues of 2 and no client in `Calm` (5,395,971 states).
- `events`: two listeners and two events, besides the greeting; room for one large event and not for two.
- `server`: four steps, each a change of the lists, of the stored page or a request; two sizes and two dates.
- `store`: four operations with two keys on a heap of 150 bytes, where the third or fourth runs out;
  blocks of 20 bytes are filled by a node and a string.
- `clock`: a second is 3 ticks, `millis()` turns after 16, pauses are up to 17; five calls.
- `led`: periods of 20, 50 and 120 ms around the watch's 60 and 30 ms; five calls.
- `config`: two fields, two values, five saves or restarts. `editor`: two browsers, three requests, uploads of two
  pieces, room for three. `admin`: four presses, two networks.
- `strip`: one or two LEDs, brightness 0, 1 and 255, three bytes or four.
- `pages`: every url of the firmware, stored plain, compressed or both, after any eight requests.
- Conversions: 65,536 hues and 256 positions of the wheel are all there are; dates around leap days and ends of
  years up to 2106; about 2,400 numbers with exponents from -42 to 31; documents nested to the limit and over it;
  templates of up to three pieces in buffers from 1 to 20 bytes; about 4,000 sequences of up to four calls on a message;
  about 7,200 settings; 6,144 handshakes; 3,751 pairs of pattern and name; lists of up to 8 characters.

**Deadlock** is checked in every run but `web`, `sockets`, `events` and `parts`, whose programs may have nothing
left to do. In `tcp` a connection that has come and gone is the only place to stop (`Quiet`).

**Fairness.** Every assumption is on something that goes on by itself.

- `Legend`: loopTask and a running save handler are scheduled (weak fairness);
  the clock reaches the timeout; a button is released at some time. `BootReleased`
  and `LongReleased` have strong fairness: the loops that wait for the release
  poll continuously, and the user may press again, but is not taken to do so faster
  than the poll each time. Joining a network, clients, presses and power failures have no
  fairness.
- `MqttConnector`: the main task runs, a broker can be reached in the end, and on
  a connection that stays up `subscribe()` returns. The clock ticks. Nothing makes
  a subscription succeed or a connection last.
- `PubSubClient`: `loop()` is called for ever, a wait goes on, a live broker
  answers, the clock ticks. Nothing makes the clock wait: the device may be busy for any time. `SilenceNoticed` excepts a wait
  inside `readPacket()`, from which the client does not come back.
- `MqttPacket`: what was sent arrives, and the reader reads what is there.
- `AsyncTcp`: both tasks are scheduled and LwIP polls every connection; a connection without a request is
  at some poll found to be timed out, and a peer that was answered with "Connection: close" closes (strong fairness: other packets may come first).
- `web`, `sockets`, `events`: what has been reported is handled, and what has gone out is acknowledged in the end
  while the peer stays; a handler of several steps goes on. Polls are not needed.

Each property has, in `PROJECT.json`, a mutant: a changed definition, as a
plausible bug would change it, under which the same run finds the property
violated. Mutants are marked in the modules and are used nowhere else.

## The proofs

All theorems hold for every value of the constants under the named assumptions
of the modules, which give the constants their types (`CredsAssumption` also says that the empty string is no
credential, `NoneAssumption` that a null pointer is no packet, `SocketAssumption` that the send buffer has less than 64K, so that the length of a frame fits its two bytes, `ScriptAssumption` that a peer of a WebSocket closes once,
`EventAssumption` that an event fits the send buffer and is no smaller than the head of the response, `LedAssumption` that no LED blinks with a period of 70 to 90 ms). They rest on no other assumption, except in one theorem:
`ResponsesAreWhole` assumes `[]HandledAsSent`, that is, that the handler is called once and when its request is there;
`web` checks that. What the code does not stand is in the properties themselves: `mishaps` of `AsyncTcp`, `waited` and `dropped`
of `PubSubClient` and `lapse` of `WebResponse` are history variables that record it. They
restrict no step, but that a behaviour of `AsyncTcp` is not followed behind the first `"reuse"`.

| Module | Theorem | States |
|---|---|---|
| `LegendProofs` | `Invariance`, `TypeCorrect` | `IInv` and `TypeOK` are invariants |
| | `MarkIsComplete`, `AckedSurvives` | `FlagMarksCompleteSave`, `AckedIsDurable` |
| | `RunModeConsistent`, `WritesUnmounted`, `ExitsEnable` | `RunIsConsistent`, `NeverWriteMounted`, `PortalExitEnablesRun` |
| | `ImplementsSwitch` | `Legend` implements `ModeSwitch` (safety) |
| `MqttProofs` | `SettingsInvariance`, `KeysInOrder`, `ConfirmedIsWhole`, `RunUsesSaved` | `SettingsInv`, `WrittenInOrder`, `AckedIsWhole`, `RunsOnSaved` |
| | `Invariance`, `TypeCorrect`, `CountIsFresh`, `ReportsAreTrue` | `IInv`, `TypeOK`, `CountOfSession`, `StatusIsTrue` |
| `PubSubClientProofs` | `TypeCorrect`, `AtMostOnce`, `TrueIsDone`, `LiveBrokerStays` | `TypeOK`, `NeverTwice`, `TrueMeansDone`, `LiveBrokerKept` |
| `AsyncTcpProofs` | `CallbacksSafe`, `PacketsFind`, `DataIsInOrder` | `CallbacksHaveClient`, `PacketsFindTheirClient`, `DataInOrder` |
| `WebConnectionProofs` | `ResponsesAreWhole` | `ResponseIsWhole` |
| `WebSocketProofs` | `FramesStayTexts`, `HandedStaysInOrder`, `BuffersStayCounted` | `FramesAreTexts`, `HandedInOrder`, `BufferIsCounted` |
| `EventSourceProofs` | `EventsAreInOrder` | `EventsInOrder` |
| `PartsProofs` | `StripTypeCorrect`, `StripWithinBrightness` | types and the length of the buffer, `WithinBrightness` |
| | `ConfigSurvives`, `ClockIsRight`, `LedKeepsBlinking` | `ConfigIsKept`, `ClockKeepsTime`, `LedBlinks` |
| | `UploadsStayWhole`, `FormStaysKept` | `UploadsAreWhole`, `FormIsKept`, two of the parts of `RequestsAreAnswered` |

**Legend.** None of the five properties is inductive. That the mark of a save
stands beside a complete pair depends on which puts the handler has behind it
(`SaveProgress`); that needs to know that the handler runs in the portal only,
where no other mark can be left from before (`Control`; `ConsumeFirst` precedes the portal).
That run mode is consistent depends on the decision having been made from the flash
as it is now (`ModeIsFresh`), and on nothing in run mode writing it. `IInv` is their
conjunction with the properties. The proof has one lemma for each group of
actions; `PowerOff` occurs in six actions and has a lemma of its own.

**Refinement.** Under `IInv`, a step is mapped by the same groups. The boot steps
map to a stutter and, in `LoadConfig`, to `Start`; `PowerOff` maps to `Stop` or,
from a boot, to a stutter; portal exits and `SaveEnable` to `Approve` or, without
a mounted file system, to a stutter; `LongReleased` and `BootReleased` to
`Withdraw`; a write to the file system partition to `Reflash`. The invariant is needed:
`Start` goes where the flash points only because of `ModeIsFresh`, and `Approve`
sets `next` to `RUN` only because a mounted file system is whole (`NeverWriteMounted`).

**MqttSettings.** `SaveProgress` says that the keys before the next put hold the
newest form and that this is the form in RAM; with it, a put keeps the order of the
keys, and at the answer all keys are of one form.

**MqttConnector.** `Progress` ties the count to the position in `_connect()`, `Ties`
ties count and reports to the connection. The step that matters is `Connect`: the
count is reset only if an object is left from the last connection, which
`counter = 1 => object` guarantees.

**PubSubClient.** That the broker accepts a publication of QoS 2 at most once is about a stack of waits of any
depth. The invariant says that one call is under way at a time and its wait is at the bottom (`OneCall`), that
publications of later calls are neither under way nor accepted (`NotYet`), that the copies of one that are under way
have one identifier and no release of it lies between them (`OnceEach`), and that one more copy
may be sent while its wait goes on (`Resendable`).
`TrueMeansDone` needs a second invariant beside it, `TInv`: the wait at the bottom of the stack is that of the call
in progress (`CallsMatch`); until identifiers come round, those under way are not newer than that of the call (`Fresh`); and
once a reply to the call is in the connection, the broker has done what the call asks for, and nothing still under
way undoes it (`Evidence`, `Results`). Replies to calls that gave up are told apart by their identifier only, which is why the
property ends where identifiers come round.
`LiveBrokerKept` is an action property, proved from a third invariant, `Lively`: with a live broker and nothing
dropped, a ping that is not answered is under way, or its answer is, and what was last sent or read is not older than it has been. A device that is busy for longer, or
whose callback discards the answer, does lose the connection, and the property says that nothing else makes it: `waited` counts the ticks
for which the last ping or its answer was under way, `dropped` tells that the callback has discarded it. `loop()` then finds the
ping unanswered when the next is due only if one of them has happened or the broker is silent.

**AsyncTcp.** `CallbacksHaveClient` needs to know where each task is inside a close (`Detachments`: once a FIN is queued, or the task is closing, no connection has callbacks for that client
any more), that packets in flight and the task name clients that have been used (`Known`), and that the tcpip thread stops
inside a callback for a FIN only (`OnlyFinWaits`). It holds until the first reuse, the two other mishaps included.
The two other properties rest on a second invariant, `OInv`, which holds until the first mishap. `Ordered` says of any two packets for one client which
comes first: ACCEPT before all, FIN or ERROR behind all, data as it was received; and that a packet for a client that is gone
has its CLEAR in front. While `HandleClear` turns the queue over, it says so of the part that was put back, followed by the part still to be
looked at. `QueueFollows` and `PcbsNamed` leave no gap between what the request has been given, what is queued and what the pcb has
received; `Closing` says who waits for a CLEAR, `ConnsApart` that no two clients have one connection.

**WebConnection.** The property speaks of the bytes on the wire, the code of counters: `RInv` ties the two together, until the
response has lapsed (`Lapsed`). `Shape` says it for each
kind of response: with a string, what is on the wire and what the object still holds are the response
together; with a length or without, the wire and the rest of the head are the head and the first `from` bytes (`PlainShape`); in chunks, the head is out
and a body behind it. A response whose source has failed keeps its shape and sends no more. `Room` keeps what is not acknowledged within the send buffer, so that `Fit` never cuts
anything off, which the code relies on and does not look at. `Reported` bounds what has been reported to the object, and all reports
still queued, by what has been acknowledged: a response that ends has been. What a peer reads from chunks is recursive
(`Unchunked`), which does not matter here: `Framed` names the places where each chunk begins and
what it holds, and a walk back from the last chunk, as a minimal counterexample, shows that they are read as the content
(`FramedReads`, `FramedEnds`).

**WebSocket.** One invariant, `SInv`, for the three properties. `Texts` ties the frames out on one connection to the texts that were queued
for it and to the queue: the queue is the end of what was queued (`InQueue`), of its texts only the first has begun, and the
last frame ends where that text is, or is the final one of the text before (`LastFrame`). That is what makes the next frame follow,
whether it continues a text or begins one; a full queue drops a text before it is queued, and what leaves the front has
gone out. Each client may be acknowledged, and so run its queue, for reasons the others know nothing of, but the buffers
are shared: `Counted` says that a buffer's count is the number of clients that have its text in their queue, none of them twice, and
the step of one client is reasoned about with the uses of the others held apart (`Counts`, `CountsAt`, `CountedBy`).
`TaskFits` keeps, in the middle of a text to all, that its buffer is there and that no client still to come has it.
`Reading` says how far the program has been given the frame that a client is inside of; it is why a frame goes on where
it was left, also behind a header that ended a segment. All operations on the queues keep the invariant (`Keeps`), or keep it and delete
the client (`Serves`), so that each handler is a chain of such facts. The invariant was checked with TLC before it was proved.
It does not need `Calm`.

**EventSource.** The order that `EventsInOrder` states for events of one size would be lost if an acknowledgement ever took a message out of the queue that has not been
sent, since the code credits bytes to whatever is in front. `EInv` says why it never does: what is sent and not yet
acknowledged, with the reports not handled and what the task still has to credit, is less than the messages sent
and one more of the queue (`Counted`). The slack is the first acknowledgement, which makes the client and is not credited.
`InLine` says that the messages sent are the first of the queue, `TaskFits` what the
task is in the middle of, and `Apart` that no event is queued or sent twice.

**Pixels.** The product with a brightness is at most the brightness; rescaling what is stored keeps this, although it loses
digits. The proof splits the operations of the strip and uses one lemma for each kind of arithmetic.

**Configuration file.** A save is two steps with a restart possible between them. The invariant (`ConfigIInv`) adds to the property what is
lost in such a restart and not before it: while the file is open and empty, what will be printed into it is in memory and
has every field saved so far.

**Clock.** `now()` adds whole seconds to what it counts and to where it counts from, modulo the width of `millis()`. What has
to be shown is that the ticks not yet turned into seconds, taken modulo that width, grow by exactly the pause, as long as they
have not come to a whole turn (`CountedTicks`, `PassedTicks`), and that the loop takes away as many ticks as it adds seconds
(`CaughtUp`). `ClockIInv` says the same of the fields last read and of those in the cache.

**Status LED.** `LedIInv` distinguishes what the tickers have done since the last call: nothing yet, since little time
has passed (`Unwritten`); or they know the LED's state and count for how long it has been lit (`Clean`); or they took a LED that a call had lit
for a dark one and lit it once more (`StillLit`), which happens once and is over when the time that `LedBlinks` grants is. With a period of 70, 80 or 90 ms the proof does not go through, for a reason: the watch, which looks every 30 ms, can put the LED
out in the same 10 ms in which the other ticker lights it again, and `LedBlinks` fails; TLC shows it. The program's periods are
20, 50, 500, 1000 and 4000 ms.

**File editor.** What is in a file says nothing of who has written it, so each piece has the number of its upload
(history). `EditorIInv` says that numbers are given once (`Numbered`); that `_tempFile` is open from the first to the last piece of one
who may upload, and that the editor's flag is set for as long (`OpenWhileSent`); that the file then holds the pieces sent so
far (`Undisturbed`); and that one who may not upload has no piece anywhere (`Shut`).

**Administration pages.** `AdminIInv` counts list, timers and posts together: without a Refresh there is one of them under way, and the button
is disabled meanwhile (`OneAtATime`). Between the submission and the timer that sends it the form shows what was submitted, or that with the
password cleared by a list that came in between (`SubmittedIsSent`).

**What is model-checked only.** Liveness, since the prover handles neither
fairness nor `ENABLED`: `SwitchFairSpec`, `ButtonOpensPortal`,
`StatusKeepsComing`, `Reconnects`, `SilenceNoticed`, `KeepsReading`, `EveryClientIsDeleted`,
`RequestIsAnswered`, `QueueIsServed`, `QueueDrains`. The conversions and whatever else is computed by recursion over data,
since the prover has neither `RECURSIVE` operators nor induction over data: the JSON modules, packets, templates,
logins, topics. In the web
server that is the reading of requests, a fold over the bytes of a segment (`HandledAsSent`). Of `RequestsAreAnswered` the parts about `WebServer` and `WebPages` are checked only, as are
`StatusIsComplete` and `SessionIsUnderstood`.

## Findings

1. **A period of 1000 seconds or more is taken for milliseconds**
   (`settings_period`; `src/modules/MqttModule.cpp:48`). The form asks for seconds;
   on loading, only values below 1000 are converted.
2. **A packet whose body arrives in pieces is read wrongly** (`packet_split`;
   `lib/MQTT-Connector-master-2/src/MQTT.cpp:218`). The loop that reads the body stops at what has
   arrived; the message is made from a buffer whose rest is not initialised, and the missing
   bytes are taken for the next packet.

Behaviour met while modelling, described here because no run is spent on it:

- *Boot and portal.* The last chunk of a file system upload prints "Rebooting..." and does not set `stopFlag`
  (`CMMC_Legend.cpp:485`). While run mode joins its network it polls no button (`WiFiModule.cpp:212`), so wrong
  credentials can only be left by holding the button through a restart. `onNotFound` (`CMMC_Legend.cpp:583`) is never
  reached, because the captive portal's handler takes every request from the access point. `/api/ssid` is no JSON
  without networks or with an SSID that has a quote. `sta_ssid` and `sta_pwd` have 30 bytes; an SSID may have 32, a passphrase 63.
- *MQTT.* `readPacket()` waits for a byte whether or not the connection is up (`MQTT.cpp:87`). A QoS 2 identifier
  that was given up is still known to the broker when it comes round (`PubSubClient.h:74`). `millis() < lastInActivity +
  keepalive * 1000` is not safe when `millis()` turns. The callback of `MqttConnector` discards what has
  arrived behind a message; if the answer to a ping is in it, `loop()` closes the connection one period later. A client id of more than about 240 characters cuts the status text at 1024. The payload of a streamed packet is not there for
  `payload_string()`. A retained `$/reboot` restarts the device for ever. A device name with "/" makes commands
  unrecognisable; `topicPub.trim()` loses a leading blank of the prefix, so that the device does not hear its own status;
  `sync_advpub()` adds a "/" that the other topics lack; payload "0" does not move the servo. `set_qos(0)` leaves the
  need for an identifier; `Publish` of a flash string uses its length before it is set (`MQTT.cpp:411`).
- *Web server.* The final delimiter of a form is missed without a line end behind it, an empty file is not reported;
  `_removeNotInterestingHeaders()` and `_cleanBuffers()` remove from a list while they go through it. A digest is refused
  if a field has a comma. A template's value is cut when a buffer that is not full has no room for it, and the second of
  two percent signs on the edge of a buffer is lost. The head of a WebSocket frame that is split is read wrongly; texts of
  length 0 are never sent; `messageAll()` queues one object for all clients; a control frame that is split reaches the handler of messages with its beginning;
  behind a second CLOSE `_onData()` goes on in a client that it has deleted; `printfAll_P()` sends a byte too many.
  `AsyncWebSocketResponse` changes the request's key through a const reference. A response whose first fill writes nothing (the
  filler tries again, `malloc()` fails, or a chunk has 8 bytes of room or less) keeps its head, and the next fill uses the room that the head
  takes as well: the bytes at the end of that fill are lost (`WebResponses.cpp:300-330`). One without a length whose head leaves no room ends without its
  content (line 350). Without the exception for either (`lapse`) TLC finds `ResponseIsWhole` violated.
- *AsyncTCP.* The tcpip thread waits for room in the queue while async_tcp waits for that thread: with the queue full
  both stay. A packet sent while CLEAR turns the queue over gets in front of older ones (line 118); the address of a deleted client
  may be used again while packets name it; a timeout of reception may delete the client whose FIN is being handled. From
  there on `DataInOrder` and `PacketsFindTheirClient` fail: without the exceptions (`mishaps`) TLC finds them violated.
- *ArduinoJson.* A text parsed while memory runs out and comes back begins with garbage
  (`DynamicJsonBuffer::String`); an object that cannot copy a key keeps a node without one; a mantissa that overflows with a
  large negative exponent reads as 0; the pretty printer takes the quote behind a backslash at the end of a string for an escaped one.
  A device name of more than about 260 characters is published as `"myName":,`.
- *Files, time, LED.* `commit()` empties the file first, and a file that was cut short is never repaired, while saving
  goes on answering 200. `setTime()` with fields keeps a static structure. `blink()` from two tasks deletes a ticker twice.
  `fill()` of the strip wraps at 16 bits. A line of exactly 31 characters in the list of excluded files takes the next one with it; a blank
  line ends the list; an account without a password lets PUT and DELETE through.
- *Administration pages.* The promises of `api/index.js` are never rejected, so no error ever reaches a view, and the
  button stays disabled when the device sleeps before its answer arrives. `/mymqtt.json` is not served by this firmware: the
  form always shows its defaults. A stored "0" of the last-will box loads as checked.

## What is not modelled

| Part | Why |
|---|---|
| `Adafruit_NeoPixel::show()` (2,000 lines) | timed instructions on a pin, most of them for chips other than this one |
| `lib/ArduinoJson` | a second copy of the library; the firmware includes the one in `MQTT-Connector-master-2` |
| ArduinoJson's traits and overload templates | they choose among the functions modelled |
| Connecting out and DNS in AsyncTCP, its accessors and TLS | the firmware only serves |
| `AsyncJson.h`, the data of the editor's page, `printf` variants | not included, or data |
| The boot counter (`src/main.cpp:132`) | written, never read |
| Scan, DNS server and set-up of the access point | I/O without state the properties tell apart |
| Colours and servo pulses of `$/command` | data |
| `CMMC_System`, `SharedPoolModule`, `CMMC_Interval`, `CMMC_Bucket`, `Servo` | abstract classes, an empty module, and helpers hardly used |
| The other views of `cmmcAdmin`, build and mock server | layout, or calls of routes that this firmware lacks |
| Examples and tests of the libraries | not part of the firmware |

NVS that fails, two tasks in `blink()` and a clock of 32 bits under `PubSubClient` are hazards of this code under which the properties do not hold; the models leave
them out where it is said there. The mishaps of `AsyncTcp` and the lapses of `WebResponse` are modelled; the properties hold up to them.

## Where it could go on

- An abstract client (calls that return true, false or never) that `PubSubClient` refines and `MqttConnector` uses,
  in place of the assumption on `subscribe()`; the stream of `MqttPacket` under the waits of `PubSubClient`.
- An abstract connection between `AsyncTcp` and `WebConnection`.
- `Legend` with `MqttSettings` in one device, with puts that fail.
