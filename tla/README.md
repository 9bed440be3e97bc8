# ESP8266 fan controller: TLA+ models and proofs

The repository is firmware for an ESP8266 (Espressif's non-OS SDK) that drives a
bathroom fan.  It reads a clock chip and sensors, publishes over MQTT, and is
configured through an embedded HTTP server (libesphttpd, vendored and changed).
One thread runs every callback, timer and task to its end; the only interrupt is
the PIR sensor's.  Concurrency is therefore the *order* of callbacks, and it is
everywhere: timers, TCP events, DNS answers, flash writes and HTTP requests
interleave, and any of them may be followed by a power failure.

This directory holds TLA+ modules that model the parts of the firmware with
state, TLC configurations that check them on small instances, and TLAPS proofs
of what matters most for every value of the constants.  All paths below are
relative to the repository.

Contents: [inventory](#inventory), [modules and code](#modules-and-code),
[runs](#runs), [fairness](#fairness), [proofs](#proofs), [findings](#findings),
[not modelled](#not-modelled), [plan](#plan).

## Inventory

"Hard" names the behaviour a test on a desk would hardly reach.  The last column
says what the properties of the [runs](#runs) are about.

| Component | Source | State | Operations | Hard | Correct when |
|---|---|---|---|---|---|
| Byte ring | `mqtt/ringbuf.c` | block, two pointers, fill count | Init, Put, Get | wrap of both pointers | it is a bounded FIFO of bytes |
| Framing and queue | `mqtt/proto.c`, `mqtt/queue.c` | bytes in the ring, a parser on the stack | Puts, Gets, the drop-oldest loop of `MQTT_Publish` | a frame that does not fit leaves half of itself behind | whole messages come out in order, half ones never, and every call ends |
| MQTT messages | `mqtt/mqtt_msg.c`, receive loop of `mqtt.c` | next id, buffer | build every type; read length, topic, payload, id | one or two bytes of length, several messages in a segment | what is built is what is read; each publication is delivered and acknowledged once |
| MQTT client | `mqtt/mqtt.c`, callbacks in `user/user_main.c` | connection state, timer and its counters, pending message, queue, posted event | connect, disconnect, publish, DNS/TCP/sent/received callbacks, 1 s timer, task | late or repeated DNS answers, connections that outlive their `espconn`, one event slot | sessions are what they seem; an outage ends, and costs one message and one more for each late sent callback |
| I2C bus and clock | `driver/my_i2c.c`, `driver/IIC_DS1307.c` | busy bit, buffer, one bus timer, two clock timers | start and finish a read or a write; set the date | two timers and two callers share one buffer; the chip refuses | no date is lost, the clock is read for ever |
| NTP client | `driver/ntp.c`, `user/pages/page_ntp.c` | one global `espconn`, timeout, server | request by broker, page or DNS callback; answer; timeout | a second request overwrites the first's connection | what is freed was not, and no request waits for ever |
| Calendar | `driver/time.c`, `ntp.c:22-113`, `page_ntp.c:311-400` | none | epoch to date and back, daylight saving, registers of the clock | leap days, centuries, hours at which the clock changes | it is the Gregorian calendar; both ways to set the clock agree |
| Minute monitor, fan, sensors | `driver/timer_routines.c`, `driver/DHT22.c`, `driver/PIR.c`, `user/pages/page_index.c` | readings, fan timer, motion flag | 1 s tick, pages, interrupt | broken readings, switching while counting, interrupt within the task | what is shown was measured; the fan's time is the last request's; motion is always watched |
| One-wire sensors | `driver/DS18B20.c` | search position, table, readings | search, measure | branches of the search, bad codes, a full table | each device is found once |
| HTTP connection | `libesphttpd/core/httpd.c` | parser state, POST buffer, flags, CGI, send buffer, backlog | receive, sent, disconnect callbacks | segments cut anywhere, sends refused, the next request on a used connection | the output is complete, in order and framed, and every request is answered |
| HTTP pool | `httpd.c`, `httpd-nonos.c` | array of connections found by peer | connect, callbacks, retire | reused ports, broken connections, a full pool | a callback finds its own connection |
| Form fields | `httpd.c:139-197` | none | find a field, decode it | names that begin another's, escapes, buffer ends | what was typed is what is found |
| Files and templates | `mkespfsimage/main.c`, `espfs.c`, `httpdespfs.c` | image, open file, token | pack; open, read; one buffer per CGI call | padding, the end of a compressed file, a token across two reads | a browser gets the file that was packed |
| Heatshrink | `lib/heatshrink/*.c` | window, position, bits left | sink, poll, finish of both sides; the command's loops | input, output and bits end anywhere | unpacked is what was packed |
| Firmware upload | `libesphttpd/util/cgiflash.c` | upload state, page buffer, flash | one POST in parts, abort, restart | pages, sectors and parts lie across each other | success means the image is in flash; the running firmware is spared |
| Configuration and boot | `modules/config.c`, `user/user_main.c` | sector in flash, copy in RAM, `try` | load, save, defaults, boot in two modes | power fails within a save or a boot | settings survive; defaults come back only when asked for |
| Wi-Fi station | `modules/wifi.c`, `libesphttpd/util/cgiwifi.c`, `user/pages/set_ip.c` | the SDK's station, polling timer, the page's two timers | connect, poll, choose an access point, apply addresses | two drivers of one station | MQTT follows the address; the user's choice is settled |
| Wi-Fi scan | `cgiwifi.c:50-156` | list of access points, an index per request | scan, its callback, one entry per CGI call | the next scan replaces the list between two calls | an undisturbed client gets one list, whole |
| Web sockets, captive DNS, authentication, bit-level drivers, web front end | see [not modelled](#not-modelled) | | | | |

How they interact.  `user_init` loads the configuration, chooses a mode, and
starts the others.  `WIFI_Connect`'s poller tells the MQTT client of the address
(`wifiConnectCb`); the MQTT client queues messages in the framed ring and its
task sends them; the web server calls the pages, which save the configuration,
set the clock over the same I2C bus the clock is read on, drive the station
beside the poller, replace the firmware, and restart the module.

`PROJECT.json` lists, line by line, 40 hazards of this code with the properties
that would catch them; three have none, and say why.

## Modules and code

Every definition that models code names the lines it stands for in
`PROJECT.json`.  An action is a whole callback, with these exceptions, each
because nothing else can run in between in the code: a byte of the ring
(`FrameQueue`), an item of a received segment (`HttpdConn`), a turn of the
upload loop (`FlashUpload`), a state of the compressor or the decompressor
(`HeatshrinkEncoder`, `HeatshrinkDecoder`), a header of the walk and a round of
the read loop (`EspFs`), a pass of the one-wire search (`DS18B20`).  They are
split so that loops are steps and not recursive definitions, which the prover
does not support, and so that "it ends" can be said of them.  In `BootConfig` the
erase and the write of the sector are two steps, because the power may fail in
between.

Operators marked "Mutated form" or "A mutant" are the code with a plausible mistake.  They are
not used by the specifications; replacing the operator that follows by one of
them makes a property fail, which shows that the property depends on that code.

**ByteFifo, RingBuf** (`ringbuf.c`).  `RingBuf` has the block, `p_r`, `p_w` as
offsets, and `fill_cnt`; an action per function.  `ByteFifo` is the abstract
bounded queue, and `RingBuf` implements it by reading the block from `p_r` on.

**MqttMsg** (`mqtt_msg.c`, `mqtt.c:120-239`).  A byte is a number.  One action
builds a message of each kind from every argument, with the two places where the
header may begin; `Receive` and `ReadPacket` are the loop over a segment of
publications, which reads them by the functions of `mqtt_msg.c`.  Where one of
these returns NULL without having set the length, the callback copies bytes from
address 0: bytes of value -1, which nobody sends.  `MqttData` is the ring and
the messages side by side, with the assumptions on their constants; `MCMqttData`
puts `FrameQueue` beside them.

**MsgQueue, FrameQueue** (`proto.c`, `queue.c`, `mqtt.c:398-447`).  `FrameQueue`
runs `PROTO_AddRb` and `PROTO_ParseRb` on an instance of `ByteFifo`, byte by
byte, and the loop by which `MQTT_Publish` throws the oldest message away until
the new one fits.  A frame that does not fit stays in the ring without its end.
`MsgQueue` is what callers believe in: whole messages, oldest first, a call that
discards some of them.  The parser's `isBegin` starts with any value, because
`PROTO_Init` leaves it as the stack had it.

**MqttClient** (`mqtt.c`, `user_main.c:255-492`).  An action per callback, timer
and task turn.  The queue is `MsgQueue`'s, cut down to message types.  The SDK
is external: a connection that is dialled, opens, carries sends and breaks; DNS
lookups whose callbacks may come late, fail, or say 0.0.0.0; a lookup that the
SDK's cache answers fills `client->ip` and has no callback, and while `ip` is set
`mqtt_dns_found` dials nothing (`mqtt.c:78`).  `hostIsName` chooses between
`espconn_gethostbyname` and an address.

`orphans` are connections whose `espconn` was freed by `MQTT_Disconnect`, which
closes nothing: each keeps its sends and its CONNECT under way, and any callback
of `mqtt.c` may come from it (connected, lost, sent, received a CONNACK or a
packet) and reaches the one client through the freed block's `reverse`, or comes
no more.  What a callback does to the client (`Greet`, `Reconnect`,
`TaskIsFree`, `Connack`, `Packet`) is stated once for both kinds of connection.
`MaxOrphans` bounds how many there are at a time.  History variables serve the
properties alone: `stray` (the last CONNACK that began a session was an
orphan's), `barren` (the last word of DNS dialled nothing), `lost` and `late`
(messages handed to a NULL `espconn`, and orphans' sent callbacks, in this
outage).

**I2cRtc** (`my_i2c.c`, `IIC_DS1307.c`, and the two callers that set the date in
`ntp.c` and `page_ntp.c`).  A transfer's address phase runs in its caller, the
data phase in `i2c_timer`'s callback; the variables are `i2c_Do`'s busy bit,
`MasterOutFunc`, `i2c_Buffer` and the armed timers.  The chip may refuse any
byte.  The seven registers are one value.

**Ntp** (`ntp.c:119-268`, `page_ntp.c:141-307`, `user_main.c:324-334`).  `live`
are the SDK's connections that nobody freed, of which `pCon` is the last; an
answer or a timeout deletes `pCon`, whatever it belongs to.  What an answer says
goes to `I2cRtc!Ask`.

**Calendar** (`time.c`, `ntp.c:22-228`, `page_ntp.c:311-400`).  The loops over
years and months are recursive functions, one for the months of `gmtime_r` and
`mktime` alike, since both look for the month a day falls into; an action lets
time pass.  `PcTime` is what the page does with the date a browser posts.

**Monitor, Pir** (`timer_routines.c`, `DHT22.c`, `page_index.c`, `PIR.c`,
`user_main.c:467-488`).  A reading is the forty bits the sensor sends; the line
may lose the last ones or turn one over, and `DHTRead` takes what comes.  The
polled seconds are any of `PolledSeconds`, since a tick may see one twice or never.
`lengthLast` is the order in which the compiler evaluates two arguments.  A text
is what `"%d.%d"` prints: a whole number, a second number with or without a sign
of its own, and as many digits as that has, since no zero is put before it
(`DHT22.c:67`).  In
`Pir` the task's look at the pin and what it does are two steps, because the
interrupt is the one thing that may come between them.

**DS18B20** (`DS18B20.c`).  A device is its code, the bus the set of devices on
it; a pass of `ds_search` walks the bits as the code does, `devices` is the
table.  Nothing in the firmware calls the search or the two measuring timers;
the model is of a caller that searches and then measures.

**HttpdConn** (`httpd.c:378-764`).  One connection; the client sends requests one
after the other, cut into segments anywhere.  `post->len` is the parser's state,
as in the code.  Output is marks (head, data, end), so that framing and order
can be stated.  CGI functions are the outcomes this repository's CGIs can have:
done at once, more to come, with or without data behind the head
(`cgiwifi.c:150-154`), done with nothing to send, on the first call
(`page_index.c:422`) or a later one.  Only `httpdespfs.c:58-62` sends without a
head, to a browser that does not take gzip, and cannot be reached: the build
leaves files for the browser without gzip (`GZIP_COMPRESSION ?= no`,
`libesphttpd/Makefile:9`).  A request is one of
`RequestType`.

**HttpdPool** (`httpd.c:104-136, 735-776`, `httpd-nonos.c`).  The array of
connections, found by the peer's address and port, apart from what happens on
one.  Sockets open, close from either side, break, and their ports are reused.

**WifiScan** (`cgiwifi.c:50-156`).  A browser's CGI is called once per entry;
the list of the last scan is shared.  `alone` remembers that no scan came
between.

**Browsing, House, Images**.  Modules that put components side by side which share
no variable, so that one run and one module of proofs can be about all of them:
`Browsing` is `HttpdPool`, `WifiScan` and `Forms`; `House` is `I2cRtc`, `Ntp`,
`Monitor`, `Pir`, `Calendar` and `DS18B20`; `Images` is `FlashUpload` and
`HeatshrinkTool`, beside which `MCFlashImages` puts `EspFs`.  They declare the components' constants with the assumptions
the proofs need, and a specification for each component.

**Forms** (`httpd.c:139-197`).  The browser's encoding of forms, and the two
functions that undo it: `httpdUrlDecode` round by round, and `httpdFindArg` by
the first of the places it comes to where the name and a "=" are.

**HeatshrinkEncoder, HeatshrinkDecoder, BitStrings, HeatshrinkTool**
(`lib/heatshrink/`).  An action per state function of either machine, with the
bits left over as a sequence; `push_bits` and `get_bits` carry over bytes.  The
search for the longest match is stated by its result.  `HeatshrinkTool` is the
loops of the command: read, sink, poll and finish in pieces of any size.  Powers of
two are a recursive function (`Pow2`), which the provers can unfold.

**EspFs** (`mkespfsimage/main.c`, `espfs.c`, `httpdespfs.c`).  `Pack` writes an
archive into an image, through an instance of the encoder where it compresses;
`espFsOpen` walks it header by header, `espFsRead` feeds an instance of the
decoder, and the two CGI functions send what comes, with tokens marked.  A header
is one item that takes sixteen places.  zlib is external.

**FlashUpload** (`cgiflash.c:30-322`).  The loop of `cgiUploadFirmware`, with the
header of a pair of firmwares, skipping the half that runs, gathering a page,
erasing a sector as it is entered.  A byte is its position in the body, so
"stored" can be stated byte for byte.  The two lengths in a pair's header are
numbers from 0 on, as `mkupgimg` writes them; in the code they have a sign
(`cgiflash.c:121-122`), and negative ones are not modelled.

**BootConfig, WifiStation, Device** (`config.c`, `user_main.c:494-725`, `wifi.c`,
`cgiwifi.c:157-283`, `set_ip.c`).  `BootConfig` is the sector, the copy in RAM,
the counter `try` and the boot; `WifiStation` the SDK's station with its two
drivers.  `Device` composes them: a normal start calls `WIFI_Connect` with the
configuration's access point, a setup start opens an access point, the pages run
in both, and a success on the Wi-Fi page restarts the module.

## Runs

`expect` is "violation" for five runs, each of which shows a
[finding](#findings).  Type invariants are proved (see [proofs](#proofs)), not
run.

Parts that share no state are put into one run where each of them is small.  The
module of such a run (`MCMqttData`, `MCHttpdPool`, `MCHouse`, `MCFlashImages`)
has them side by side and has a variable `part`, chosen in the initial
state, that says which of them a behaviour is about; the others stand still.

| Run | Question | Bounds |
|---|---|---|
| `mqtt_data` | Is the ring a FIFO; are messages read back as they were built; is every publication of a segment delivered; do whole messages come out of the framed ring in order, and does every call end? | 4 slots, 3 byte values; a buffer of 140 bytes, up to 3 publications; a framed ring of 8 bytes, 6 messages |
| `mqtt` | What can callbacks in any order do to the client? | timeouts of 1 or 2 ticks, 2 messages queued, 2 sends and 2 lookups under way, 1 orphan at a time |
| `httpd_conn` | Is a connection's output complete, ordered, framed, and does it come? | up to 4 requests, POST bodies up to 3 bytes for a buffer of 2, backlog of 3 marks, 3 calls of a CGI |
| `httpd_pool` | Do callbacks find their own slot; is a scan's list whole; are fields found as typed? | 4 sockets, 2 slots, 2 addresses, 2 ports; 2 browsers with 2 requests each, lists up to 3; forms of 2 fields |
| `clock_and_sensors` | Do the clock's timers, NTP, the calendar, the bus search, the readings, the fan and the motion sensor keep their promises? | 2 dates; 3 connections; 31 weeks by the hour; 7 devices, 3 in the table; 3 readings, 6 s in minutes of 3 |
| `device` | Do settings, defaults, MQTT and the Wi-Fi page do what they promise? | 2 access points, 2 settings, `try` counting to 3 |
| `flash_images` | Is what is reported as stored in flash; is what is packed what is unpacked and served? | pages of 3 bytes, sectors of 2 pages, firmwares of 4 pages, parts of 5 bytes, a header of 3; a window of 16 bytes and matches of 8, files up to 48; archives of 2 or 3 files, reads of 4 |
| `house_text` | Does the text of a reading, read as a decimal number, tell it? | as `clock_and_sensors` |
| `rtc_stray` | Does a NACK end a transmission? | 2 dates |
| `httpd_empty` | Is a connection that is marked to be closed closed? | as `httpd_conn` |
| `httpd_broken` | Are the slots live? | as `httpd_pool` |
| `wlan_lost` | Is the user's WLAN kept? | as `device` |

What they show, and why the bounds are enough:

* `mqtt_data`: `ImplementsFifo` (refinement; four slots let both pointers wrap
  past each other, empty and full; the proof covers every size);
  `MessageReadsBack`, with payloads that end on both sides of 127 bytes and of the
  buffer's end, every type, and ids that wrap at 4; `PublicationsDelivered`, with
  every order of five kinds of publication.  Both except the payload of a
  publication that has none, asks for an acknowledgement and ends what was
  received: see the last of the observations.
  Of the framed ring, `ImplementsMsgQueue` (refinement); `LossNeedsLongerFrame`
  (a message is discarded only for a frame that does not fit beside it);
  `EveryCallReturns` (the drop-oldest loop ends).  Eight bytes hold two short frames or one long
  one; the messages include the empty one, one of all three special bytes, and
  one whose frame is longer than the ring.
* `mqtt`: `DataMeansSession`, `OutageLosesOne`, and the liveness properties
  `ReconnectionHappens`, `AttemptEnds`, `QueueKeepsMoving`.  The queue has room
  for what a minute publishes but not for the announcement made on connecting, so
  it overflows in both ways.  Timeouts only matter by their order; with 1 and 2
  every timer runs out while anything else is under way.  One orphan at a time
  meets a new connection in every state of either; the proofs cover any number,
  and the run was also made once with two.  An orphan does break what one would
  like to say, and the properties name where: its CONNACK is taken for the one
  awaited (`stray`), and each of its sent callbacks in an outage costs a message
  (`late`); without these conditions TLC finds both within a few steps.
  `AttemptEnds` does not hold of a lookup that ends without dialling (`barren`);
  what comes of that is the theorem `HangLasts`.
* `httpd_conn`: `StreamIntact`, `WellFramed`, `EveryRequestAnswered`.  A body of
  3 bytes takes two parts, one of 2 fills the buffer exactly; an empty line
  follows some requests.  Two situations in which the code does process a request
  again are excluded by name: a CGI that answers before its POST is complete
  (`early`), and an HTTP/1.0 client that sends bytes behind its POST (`Overrun`).
  Both are listed as a hazard (`httpd.c:700`).  A full backlog drops output;
  properties of the stream say nothing after that (`dropped`).
* `httpd_pool`: until a connection breaks, `OwnSlot` and `RefusedOnlyWhenFull`.
  Two sockets more than slots let the pool refuse while others close; addresses
  and ports are shared, so a peer must be compared by both.  `ListIsWhole`: two
  requests of two browsers meet each other's scans at every place of the list.
  An answer that another's scan came between is excluded by `alone`: the code
  then says "scanning" in the middle of a list, or changes lists.
  `FieldReadsBack`: the values are made of the four characters with a meaning,
  the space and a letter that is a name, into a buffer that is too small or not.
* `clock_and_sensors`: `DateNotForgotten` and `ClockRead` (the clock is read for
  ever, unless somebody keeps setting it or a *refused read* has lost the bus,
  which is a hazard); two dates tell a lost one from the other.  `RequestIsTimed`:
  two requests at once and one beside them need three connections.
  `CalendarHolds`, `SummerTime`, `PagesAgree`: the calendar is compared with a
  closed formula of day numbers, and daylight saving with the last Sundays, over
  170 hours around leap days, ends of years, the century of 2000 and both changes
  of every year from 2016 to 2027, which are twelve years with each day of the
  week, in four zones.  The model records what the code does: daylight saving ends
  an hour later than the rule of Ukraine, where the program is used; Sunday is 7
  from NTP and 0 from the browser.  `FoundOnce`: every set of seven devices, two
  of them with a code alike but for the last bit, one with a bad checksum, two of
  other families, and a table too small for all.  It is stated for a bus on which
  nothing is plugged during the search: a device taken off between two passes may
  let another be found twice.  `ShownIsMeasured`: readings below zero, with
  and without a high byte, cut at 0, 38, 39 bits or turned over in a sign, a value or the sum.
  A text must tell its reading as a decimal number if the reading is whole or
  above zero and its tenth is not 1; the texts of the others may not be read so
  (`house_text`), and must have the reading's whole part and hundredths.
  `FanShown`: up to two minutes of three seconds, switched at any second.
  `MotionIsWatched`: all orders of the pin, the interrupt and the task.
* `device`: `SettingsSurvive`, `DefaultsNeedTwoSetups`, `MqttFollowsReports`,
  `AttemptIsSettled`, `FailureIsRetried`, `AddressReachesMqtt`.  `try` is a byte;
  counting to 3 keeps 0, 1 and 2 apart and overflows within four starts.  The
  proofs cover every width.
* `flash_images`: `ImageStored` (what is answered with success is in flash, byte
  for byte), `RunningSpared`.  With 3, 5 and 2 * 3 as lengths, pages begin and end
  anywhere in a part and sectors anywhere in a firmware; all pairs of lengths up
  to 14 (a firmware holds 12 bytes) are tried, whole, cut short and too long.
  `RoundTrip`: all files of five bytes of two values, and files longer than the
  window that repeat within it, over its end and not at all; reads, polls and
  buffers of 1, about half a window, and more than everything.  Numbers are pushed
  and pulled in pieces of 3 and 2 bits, as the code does in pieces of 8 and 7
  where they are longer than a byte.  `ServedWhole`, `TemplateWhole`,
  `ServingEnds`: files shorter and longer than a read, compressed, not worth it,
  gzipped, empty, of signs only, behind each other at every padding.

Deadlock is checked except in the two runs of `HttpdConn`, whose client stops
after its requests.

## Fairness

The SDK's loop runs whatever is due, and a callback never waits, so callbacks and
timers are weakly fair everywhere.  Beyond that:

* `FrameQueue`: the running loop goes on (`WF`).
* `MqttClient`: the posted task runs; it is strongly fair for sending a queued
  message, because MQTT events may take and free its slot for ever; lookups that
  call back do so in the end, with an address or none, and dials end (`WF`), and a broker gives up a connection on which no session comes
  about.  The code has no timeout of its own for those, which is listed as a
  hazard (`mqtt.c:359`).
* `EspFs` (in `MCFlashImages`): the packer and the server's CGI go on (`WF`);
  nobody has to ask.
* `I2cRtc`: the chip does not refuse for ever: transfers that are tried again and
  again get through (`SF`).
* `HttpdConn`: callbacks run to their end, every send is reported, a
  disconnection asked for happens, a client that may send does.
* `Device`: the timers are disabled while a save is between erase and write, so a
  due timer is strongly fair: however often pages save, it runs.  A save ends,
  and the SDK ends an attempt to connect.  Nothing makes a user press anything.

## Proofs

Each `...Proofs` module extends its component's module.  An inductive invariant
implies the properties; that it holds initially and that every step keeps it is
proved action by action, and the theorems follow from it by temporal logic.
Nothing is assumed but the named assumptions on the constants, which TLC
evaluates on every run.

| Module | Theorems | Why the invariant is needed |
|---|---|---|
| `MqttDataProofs` (`RingBuf`) | `TypeCorrect`, `PointersStayInStep`, `RingImplementsFifo` | the refinement maps a window of the block that starts at `p_r`: that `p_w` is `fill_cnt` further is what keeps a Put outside it |
| `MqttDataProofs` (`MqttMsg`) | `MessagesReadBack`, `SegmentsAreDelivered` | below |
| `FrameQueueProofs` | `TypeCorrect`, `ParserNeverReadsGarbage`, `OnlyLongerFramesCost`, `FramesAreMessages` | the ring starts with a BEGIN, and a BEGIN follows every END, whatever half frames it holds, so a fresh parser always meets a BEGIN first; for the last two see below |
| `MqttClientProofs` | `TypeCorrect`, `TimerNeverMeetsNull`, `SessionsAreReal`, `ConnackIsTaken`, `ReconnectReachesTask`, `OneMessagePerOutage`, `HangLasts` | that a NULL `espconn` has no connection and only an open one carries sends, and that a message lost to NULL sets `sendTimeout`, which stops the task from sending another until an orphan's sent callback, counted in `late`, clears it; no assumption on the number of orphans |
| `HouseProofs` (`I2cRtc`) | `TypeCorrect`, `ClockStaysAlive`, `CallbacksMatch`, `BusyExplained`, `LeakLasts`, `DatesArrive` | what the armed timer, the busy bit and the callback say of each other, and that the buffer holds the latest date |
| `HouseProofs` (the others) | `RequestsAreTimed`, `MotionStaysWatched`, `FanIsShown`, `ReadingsAreMeasured`, `ThermometersFound`, `CalendarIsGregorian`, `SummerTimeIsKept`, `PagesDoAgree` | below |
| `HttpdPoolProofs` | `KnownAlways`, `SlotsFollowConnections`, `RefusalsAreJustified`, `ListsAreWhole`, `FieldsReadBack` | slots have different peers, and every live connection has one; so a full array is that many live connections; for the lists and the fields see below |
| `HttpdConnProofs` | `TypeCorrect`, `StreamIsIntact`, `ResponsesAreFramed` | below |
| `ImagesProofs` (`FlashUpload`) | `TypeCorrect`, `ImageIsStored`, `GoodBodyIsStored`, `RunningIsSpared` | an account of every byte: what is received is skipped, in flash, or in the page buffer, in this order; pages behind the address are erased up to the next sector |
| `ImagesProofs` (`HeatshrinkTool`) | `RoundTripHolds` | what is packed has to be known as tokens, each of which stands for bytes of the file; see below |
| `DeviceProofs` | `TypeCorrect`, `SettingsAreKept`, `SetupsRepair`, `DefaultsAreAskedFor`, `MqttIsTold`, `ChoiceIsTried` | follows `try` through the flash: what a setup start leaves is 0, what the next one finds is 1, and only a second one counts to 2 |

The longer arguments:

* *The framed ring is a queue of messages* (`FramesAreMessages`,
  `OnlyLongerFramesCost`).  A frame is a message with its special bytes escaped;
  escaping is a recursive function of the place in the message, and its value is
  unfolded one place at a time, as the parser reads.  `QueueInv` says where in the
  ring each message of the abstract queue has its frame, with the bytes of half
  frames anywhere between them; it says it by functions from the numbers of
  messages, and of a message's bytes, to places, a space that TLC cannot
  enumerate, so this one invariant was not model-checked before it was proved.
  `PROTO_AddRb` adds a frame at the end or breaks it off where the ring is full;
  the parser takes the first frame; a call is a step of `MsgQueue` where it ends
  or discards a message and a stutter elsewhere.
  `LossInv` adds to it what the running call has taken away and what it has room
  for.
* *A message as bytes* (`MessagesReadBack`).  A body is built of strings and ids
  one behind the other, and `Published` says where in it each part stands; the
  header and the length field, of one byte or two, go before it.  The readers find
  the parts again, whatever follows the message, because `Starts` speaks of the
  first bytes only; the length field's bits are summed by a recursive function
  unfolded for its two bytes.
* *A segment of publications* (`SegmentsAreDelivered`).  `SegmentInv` says by an
  increasing function where in what is left of the segment each publication not
  yet delivered ends, and which publication each reply is to.  A publication more
  lengthens the function, a round of the loop takes off its first value and
  shifts the others; that the segment is shorter than `in_buffer` makes an id
  readable that ends the segment.  Like `QueueInv` it quantifies over functions
  TLC cannot enumerate.
* *Requests of the time* (`RequestsAreTimed`): the property is inductive as it
  stands; what the proof adds is that a request takes an `espconn` that is not in
  use from a heap that has one.
* *Motion* (`MotionStaysWatched`): if the task saw a pin that was low and it is
  high by now, the interrupt has come or is armed.
* *The fan* (`FanIsShown`): the countdown is what is left of the minutes that were
  asked for last, or 0 behind them, also on a page that was just made.
* *What is shown was measured* (`ReadingsAreMeasured`).  A byte is the number of
  its bits, by a recursion unfolded for eight bits; a bit that turned over
  changes one byte by a power of two below 256, so that the sum of the four
  differs from the fifth modulo 256, and likewise if the fifth changed; of forty
  bits only whole readings are taken.  Hence what passes the checks of `DHTRead`
  is what the sensor sent.  `TextsShow` is about what `"%d.%d"` makes of it: where
  the reading has a decimal number (`HasDecimal`), the text read as one is within a
  hundredth of it, and elsewhere its two numbers are the whole and the hundredths.
* *Thermometers* (`ThermometersFound`).  Codes are ordered by the first bit in
  which they differ, the order in which the search comes to them.
  `LastDiscrepancy` is the last place where the code under the search could have
  had a 1 instead of its 0; a pass keeps what is before it, takes the 1 there and
  the least from there on, so that it ends at the immediate successor, and
  `LastDeviceFlag` says that there is none.  So what is in the table is exactly
  what is not behind the last code, each once: by counting, all of them if the
  search ends and as many as the table holds otherwise.  That two codes which
  differ have a first bit in which they do is the least element of a finite set.
* *The calendar* (`CalendarIsGregorian`, `SummerTimeIsKept`, `PagesDoAgree`).
  `Jan1` and `First` are the days in front of a year and of a month in closed
  form, and `Moment` the date and time of a second.  The loops of `gmtime_r` and
  `mktime` are recursive functions over all pairs of numbers, not over a count
  that goes up, so their equations hold only if some function satisfies them:
  `YearRun` and `MonthRun` are shown to.  A solution is then the closed form at
  every pair, because a turn comes nearer to the year or month of the day, and a
  least distance at which it were not would have none before it.  `GmtimeIs`: `gmtime_r`
  gives the moment; `MktimeIs`: `mktime` gives that of whatever second the fields
  stand for, in order or not, which is all that `applyTZ` sees of them, so that both
  ways to set the clock agree.  The day numbers of the property, which begin years in March, are the same
  closed form; a month's last Sunday is the one on which `mday - wday` is 25 or
  more.  The invariant is only that the clock fits: `LookInv`.
* *A scan's list* (`ListsAreWhole`): for every browser, what it was told is a
  prefix of one list, and if no scan came between, of the list that is there now,
  as long as its index; `alone` is what the next call relies upon.
* *Form fields* (`FieldsReadBack`).  The line is `FlattenSeq` of its fields and a
  value that of its characters' encodings; both are cut between their pieces, and
  `CutFinds` and `CutHolds` say which piece a place of the line is in and what is
  there.  Names and encoded values have no "&" and no "=", so an "&" separates
  two fields, the places the code comes to are the fields' beginnings, and a name
  followed by "=" is the whole name: here a name that begins another would be
  taken for it if the "=" were not asked for.  Between two characters the
  decoder's `esced` is 0 and it has given the first characters of the value, as
  many as have room; one character's encoding adds one.
* *The output of a connection* (`StreamIsIntact`): the wire, the backlog and the
  send buffer, one behind the other, are what was produced.  The backlog is a
  sequence of buffers; `FlattenSeq` is recursive, and what it does at either end
  of its argument is shown by induction over numbers, itself derived from the
  least element of a finite set of numbers, because the library's induction
  theorems take an operator, which these provers cannot instantiate.  `PostInv` bounds
  the POST buffer.
* *Packed and unpacked* (`RoundTripHolds`).  What is packed is read as one string of
  bits, `Flat`.  A token at a place of it is a literal of nine bits or a back
  reference, and says which bytes of the file come next: `LiteralToken`,
  `ReferenceToken`.  `Boundaries` is a set of places, each a pair of a bit and of a
  byte of the file, from each of which a token leads to another one or which is the
  last one.  The invariant of the encoder, `EncOk`, says that such a set leads to
  where the scan is, that so many bits of the next token are said (`Said`), that
  the buffer holds what `EncWindow` says of the file, and which flags go with which
  state; so a match in the buffer is a repetition in the file.  When `encode` ends
  the set leads to the end of the file, with fewer than eight bits behind it.  The
  invariant of the decoder, `DecOk`, takes that set as it is: the decoder is at a
  place of it or within the token that begins there, so many bits of a number are
  read (`InReference`), and its window holds the last bytes put out.  A byte of a
  reference is put out from the ring, which is why `RoundWindow` is about
  remainders.  At the end the bits that are left are fewer than a token has, so no
  token is left (`NothingLeft`).  The numbers in a reference go out and come in by
  parts of `PushBits` and `GetBits` bits; `NumberOfBits`, `UpperPart` and
  `LowerPart` put them together again, by recursive functions unfolded one bit at a
  time.  The set of places is as long as the file, so TLC cannot enumerate what the
  invariant quantifies over; it checks `RoundTrip` itself.
* *The responses* (`ResponsesAreFramed`).  `FrameInv` follows the parser, the CGI
  and the flags and says in which part of a response the output ends: behind
  a whole one, in its head, or in its body; a new head is produced only in the
  first case.  It has to excuse the same two situations as the property, and to
  remember of the second that the connection then is not a chunked one.

Assumptions.  `BlockAssumption`, `SizeAssumption`: a ring has at least two slots.  `ByteAssumption`:
0 is a byte.  `MessageAssumption`: the buffer of the messages is no longer than
two bytes of length can say, ids and the keepalive are two bytes wide, and a
broker sends no empty topic.  `PacketAssumption`: messages are no longer than the buffer they are
built in.  `TimeoutAssumption`, `BrokerAssumption`: timeouts are numbers, the
send timeout not 0, and the broker sends what the client tells apart.
`ChipAssumption`, `ConfigAssumption`, `ApAssumption`: markers differ from
values, and `try` has at least four values.  `PoolAssumption`: finitely many
sockets.  `ScanAssumption`: a scan gives a list of access points.
`FormAssumption`: the names of fields, which the firmware chooses, have none of
the characters that have a meaning in a line; values are any texts.
`LimitAssumption`, `RequestAssumption`: sizes of buffers are positive numbers,
requests are of their type.  `ConnectionAssumption`: connections are finitely
many numbers.  `ReadingAssumption`: humidity and temperature fit into the two
bytes and the sign that the sensor has for them.  `TimeAssumption`: seconds are
numbers, a minute is not 0.  `RomAssumption`: finitely many codes of one length.
`CalendarAssumption`: seconds since 1970 are not negative and fit 32 bits with a
sign, here and in local time, and a zone is a number of 8 bits; dates before 1970
or behind January 2038 are not covered, nor does the code mean them (`mktime`
returns -1).
`UploadAssumption`: places of firmwares are whole sectors and do not overlap, and
the header of a pair is wholly in the first part, as the comment at
`cgiflash.c:157` says.  `HeatshrinkAssumption`: a file is of bytes, pieces are not
empty, and window and lookahead are as `heatshrink_encoder_alloc` accepts them
(`heatshrink_encoder.c:80-83`), but for two cases that do not round-trip, see the
observations below.

Some theorems state invariants that no run has among its properties, because
the proof says more than a run would: `PointersAgree`, `GarbageNeverRead`,
`TimerHasConnection`, `ConnackIsExpected`, `ReconnectIsPosted`, `HangIsForever`,
`CallbackMatches`, `BusyMeansTransfer`, `LeakIsForever`, `KnownSocket`,
`GoodIsStored`, `TwoSetupsRepair`, `WorksOnChoice`.

Model-checked only:

* every liveness property: the prover has no ENABLED;
* `ServedWhole`, `TemplateWhole`: what the archive gives back.  For compressed files
  they need the invariants of `RoundTripHolds` once more, with bytes as numbers,
  files one behind the other in an image, and the loops of `mkespfsimage` and
  `espFsRead` in place of the command's; this has not been done.

## Findings

* `house_text`: `DHTFloat2String` prints whole part and hundredths with `"%d.%d"`,
  without a leading zero and with both signs: -0.5 is "0.-50", and 5.1 may be
  "5.9".  The page presents the text as the temperature (`html/index.tpl:48`), and
  it is published as such.
* `rtc_stray`: `i2c_send` issues a STOP when the chip refuses a byte and goes on
  sending the other bytes, though `my_i2c.h:23` says "End Transmittion".
* `httpd_empty`: a connection of HTTP/1.0 that is marked to be closed after its
  data is sent stays open if the CGI's last call sent nothing, which
  `cgiEspFsHook` does for files whose length is a multiple of 1024.
* `httpd_broken`: `httpd.c:723` says the platform layer always calls
  `httpdDisconCb`; `platReconCb`, called for a connection that breaks, does not,
  and its slot is lost.
* `wlan_lost`: `README.md:36` says the module keeps the WLAN it was connected to;
  in normal mode it starts with the one of its own configuration, which the Wi-Fi
  page does not set, and overwrites the SDK's.

Observations that no document of the repository contradicts, and that are
therefore recorded here only:

* `mqtt_tcpclient_recv` does not ask which connection a CONNACK came on
  (`mqtt.c:139-153`): one of a connection that `MQTT_Disconnect` abandoned begins a
  session on the next one before the broker accepted it.
* A sent callback of an abandoned connection clears `sendTimeout` (`mqtt.c:261`), so
  that in an outage the task hands another message to a NULL `espconn`.
* When the name is in the SDK's cache, or the answer is 0.0.0.0, nothing is dialled
  (`mqtt.c:78, 619`); the client stays in `TCP_CONNECTING` until Wi-Fi changes.
  Whether the SDK calls back for a cached name is not visible in the repository;
  after one it does not call back for, `client->ip` is set and no answer is used.
* `cgi_index_get_data` ends without an answer for any method but GET
  (`page_index.c:213, 422`).
* `sysCfg.dst_flag` has no effect: `applyTZ` and the page ask `check_dst` alone.
* An NTP request that is overtaken leaves its `espconn` allocated for ever, and a
  name that is not found goes on as an empty address (`page_ntp.c:239`).
* Until the clock is read for the first time its seconds are 0, and the task of
  the minute runs every second (`timer_routines.c:199`).
* `mkespfsimage` divides by the size of an empty file (`main.c:267`).
* A value that fills its buffer is not zero-terminated (`httpd.c:150-172`).
* `heatshrink_encoder_alloc` takes `-w 4 -l 2`, with which a back reference is seven
  bits long: one can be all that is left of the last byte, the decoder says that
  it is done, and four zero bytes unpack to one.  It also takes as many bits of
  lookahead as of window, with which an encoder that is full makes no room.
* For a publication without payload that asks for an acknowledgement and ends what
  was received, `mqtt_get_publish_data` returns NULL and leaves the length of
  the whole message (`mqtt_msg.c:213`), which `mqttDataCb` copies.

## Not modelled

* The SDK (`espconn`, DNS, Wi-Fi, flash): its source is not in the repository.
  Its part is modelled from how the code uses it, and marked external.
* Text: headers, JSON, formatted addresses, the pages' wording, and which field
  of a settings page goes into which setting.
* Time: timers fire in any order that their being armed allows.
* Memory: `malloc` succeeds, though the code does not always check it.
* The chunk header's byte arithmetic (`httpd.c:378-399`): `HttpdConn` counts
  marks, not bytes.
* Two firmware uploads at once, which share a region without a lock.
* Web sockets, `authBasic` with base64 and SHA-1 (not mounted),
  `httpd-freertos.c` (not built), `i2c_Write_Buffer`, `i2c_Read_Buffer`,
  `PROTO_Add`, `PROTO_Parse` (not called), captive DNS (one answer to every
  datagram), `mkupgimg` (its layout is assumed by `FlashUpload`), pin-level
  drivers (no state a property could be about), heatshrink's own tests, and the
  files for the browser.
* Heatshrink's index, which only makes the search for a match faster.

## Plan

The order in which the modules were written: `ByteFifo`, `RingBuf`; `MsgQueue`,
`FrameQueue`; `MqttClient`; `I2cRtc`; `HttpdConn`; `HttpdPool`; `BootConfig`,
`WifiStation`, `Device`; `FlashUpload`; their proofs; then `MqttMsg`;
heatshrink's modules and `EspFs`; `Calendar`, `Ntp`; `DS18B20`; `Monitor`, `Pir`;
`WifiScan`, `Forms`; `Browsing`, `House`, `Images` and the proofs of what they hold.

What could follow:

1. The chunk header by bytes, beside `HttpdConn`'s marks.
2. Two uploads at once, with the lock that the code lacks as the property.
