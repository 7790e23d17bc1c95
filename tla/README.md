# A verification project for the temperature sensor

The repository holds a small distributed system: a battery-powered sender
(ESP32-C3, ESP-NOW), a receiver that prints what it hears on a serial line, a Go
server that keeps readings and shows them on a web page, and two older or
smaller programs. This directory holds TLA+ modules translated from that code,
TLC configurations that check them on small instances, and TLAPS proofs.

    tlc -config Sender.cfg Sender          # one run
    tlapm SenderProofs.tla                 # the proofs of one module

Paths below are relative to the repository; `main.c` is the sender's unless the
receiver is the subject.

## 1. Inventory

| Component | State | Operations | Talks to |
|---|---|---|---|
| sender: wait group (`wait_group.c`) | counter, owner, the owner's task notification | create, add, done, wait | `app_main` and both tasks |
| sender: tasks and resources (`main.c`, `closer.c`) | three tasks, event queue, closer stack, Wi-Fi, ESP-NOW, sensor, ADC, handle for the callback | initialisation, sampling, sending, send callback, teardown, deep sleep | ESP-NOW driver, queue, notifications |
| sender: battery ADC (`bat_adc.c`) | unit, channel, calibration | init, read, deinit | sensor task |
| receiver (`espnow_receiver/main/main.c`) | slot pool with a `uint8_t` counter, queue, one task | initialisation, receive callback, parse and print | ESP-NOW driver, serial line |
| protocol (`common/protocol.h`, `packet.go`) | none | pack, unpack, CRC, range checks | sender, receiver, server |
| server: emitter (`emmiter.go`) | map of unbuffered channels under a mutex | Subscribe, Unsubscribe, Emit, Close | sources, statistics, handlers |
| server: statistics (`stats.go`) | last packet, three data sets | Subscribe, EventResponse, Clear | emitter, handlers |
| server: data sets (`dataset.go`) | sums and counts per day and time of day | push, remove, timeSeries | statistics |
| server: web (`http.go`, `index.html`) | a handler per page, ETag cache; the page's charts | page, events | emitter, statistics, browser |
| server: sources (`udp.go`, `serial.go`, `mqtt/service.go`) | socket, port, MQTT client | receive, parse, Emit | emitter |
| server: lifecycle (`main.go`, service file) | errgroup, contexts | start, stop on signal or error, shutdown, exit code | everything above, systemd |
| server: flags and service file (`config.go`, `temperature-sensor.service`) | which sources are on | parse the flags, start, restart | lifecycle, systemd |
| easy_server | serial port, four histograms | parse lines, observe, push | metrics database |
| sketch_bme280 | sensor, Wi-Fi, blinking LED | sample, broadcast by UDP, sleep | server's UDP source |

What makes each correct, and what is hard about it:

* **wait group** - `wg_wait` joins the tasks and does not miss its notification,
  and the group may be freed after it. The subtraction, the notification, its
  consumption and the final reset are separate steps that interleave.
* **sender** - everything that can be switched off is off before deep sleep,
  whatever else has failed, nothing is released under a task that uses it, no
  wait without a timeout lasts for ever, packets leave in order, a callback reaches
  the right wait. Hard: timeouts against late callbacks, a task that ends before the next starts, every call that may fail.
* **receiver** - a line shows the frame it is for, undamaged, in order. Hard:
  slots are reused without being freed, by a counter that wraps at 256 over a
  pool of six; the callback preempts the task between check and print.
* **hub (emitter, statistics, handlers)** - slow or vanished pages hold nobody
  up, handlers leave nothing behind, pages end up showing the last reading.
  Hard: one lock held over channel operations, and readers that put a response
  together from parts that change meanwhile.
* **lifecycle** - the process ends when asked to, says why it ended otherwise,
  and no order of shutdown makes it panic. Hard: two contexts, a shutdown with a
  timeout, and an emitter that is closed under handlers and messages that are late.
* **data sets** - no reading is lost or counted twice, old days go and recent
  ones stay. Hard: days cut in UTC, parts of days by local time, a daily tick that
  starts at any hour, three sets that are gone through independently.
* **codecs and parsers** - 16-bit signs, bytes, ranges, a CRC; and lines that
  start or end anywhere, read by two parsers written by hand.
* **files and tags** - a browser that is told "not modified" has the right file,
  over restarts and deploys.
* **easy_server** - a push is put together while histograms change.
* **sketch_bme280** - everything that can be switched off is off in deep sleep, and
  the LED tells the number of the error.

`PROJECT.json` lists the hazards one by one with their lines.

## 2. Plan

| Module | Subject | State |
|---|---|---|
| `WaitGroup`, `WaitGroupClient`, `WaitGroupProofs` | wait group alone, any set of tasks | done |
| `TelemetryBatch`, `Sender`, `SenderProofs` | the whole sender; extends `WaitGroup` | done |
| `FrameRelay`, `Receiver`, `ReceiverProofs` | the receiver | done |
| `Hub`, `HubProofs` | emitter, sources, statistics, page handlers | done |
| `SerialReader` | the loop on a serial port, for `Server` and `EasyServer` | done |
| `Server` | life of the server process | done |
| `EasyServer` | the other server | done |
| `Sketch` | the Arduino sender | done |
| `MCPrograms`, `ProgramsProofs` | the run `programs`, and the proofs about the three modules above | done |
| `DataSets` | days, parts of days, their removal, the page's charts | done |
| `Assets` | files, entity tags, browsers | done |
| `Sampling` | what the sender samples, and the ADC it holds | done |
| `Frame` | a packet's bytes from sender to server | done |
| `Lines`, `LineProofs` | a line's text from receiver to both servers | done |
| `MCData`, `DataProofs` | the run `data`, of the last five modules, and the proofs about the first four of them and about the run | done |
| `Means` | lemmas on quotients and on induction, for the proofs | done |

What could still be added: what `Sender` and `Sampling` say of a packet, and `Frame`
and `Lines` of its way to a chart, as one theorem; and the first rendering of the
page.

## 3. Modules

A definition `X_Why` is `X` with a plausible mistake. No specification uses it;
each property was seen to fail when one of them takes the place of `X`.

### WaitGroup and WaitGroupClient

`WaitGroup` states the operations on `counter`, `owner` and `given` (the
notification value). `wg_done` is `WgFetchSub` (the atomic subtraction, whose
previous value `WgLast` looks at) and `WgNotify`; `wg_wait` is `WgFastPath`, or
`WgTake` and `WgReset`. `WaitGroupClient` adds an owner that adds and creates
tasks one after the other, as `app_main` does (main.c:333, 349), and tasks that
end in `wg_done`. The history variables `hitZero` and `late` record whether a
task was added after the counter had come back to zero.

Two things the code does not give. A notification left from such a moment makes
`wg_wait` return too early: `WaitJoins` therefore carries the condition `~late`,
and run `sender_stale_notify` shows it in the sender. And on its fast path
`wg_wait` only reads the counter, so that the last `wg_done` may still be about
to read the group when the owner frees it: `QuietAfterTake` covers the other
path only. On the sender's single core with `app_main` at the lowest priority the
second cannot happen; `Sender` has that order (`At`).

### Sender

`main`, `bme` and `esp` are the program counters of `app_main`, the sensor task
and the radio task; `live` is what has been created and not released, `closers`
the stack of `closer.c`, `queue` the event queue, `air` the frames whose send
callback is due, `status` the radio task's notification value, `target` the
handle the callback notifies. A packet is the number of its sample.
`transmitted` and `incidents` are history.

One action is one step of the code between two points where another task may
run. `CreateWaitGroup` to `Sleep` follow `app_main`. A call that may fail has its
branches behind a member of `Faults`, one kind for the calls that the code treats
alike: a call that aborts, one whose error ends the initialisation, one whose error
is ignored. The calls that give something back are of the last sort: the code
logs their errors or does not look at them (main.c:89-94, 128, 135-136, 145-150,
214, 366) and goes on. They have one kind, "release": `GiveBack` lets each resource
of a release stay on or not, on its own. What stays on so, or is left on by a failed
step that does not clean up, is in the history variable `lost` until the next
waking period. A failed `ESP_ERROR_CHECK` or `configASSERT` resets the chip (`Panic`),
and `Wake` starts again from `Init`, as deep sleep does. `bme` and `esp` follow
their functions line by line; the retries, log lines and register values of the
drivers are left out.

*Scheduling.* The ESP32-C3 has one core and FreeRTOS fixed priorities: Wi-Fi >
radio task (4) > sensor task (3) > `app_main` (1). All of them block in drivers,
delays and queues, so any may come next, with two exceptions that the model
keeps: nobody runs in the middle of the send callback, and `app_main` does not
run between the subtraction and the notification of a `wg_done`.

*Use after release.* A task that touches the queue or the wait group after its
release either fails an assertion (`ReceiveReleased`, `RadioDoneTooLate`) or,
having blocked before, wakes by its timeout (`ReceiveTimeout`). This is a choice
over what the build can do, not a promise.

`TelemetryBatch` is what the radio side promises: the samples of a period are
transmitted in order, none twice, none skipped. `Sender` implements it with
`taken <- made` (run `sender`, theorem `Refinement`); `frames` counts the packets
handed over, so that a packet sent twice is a step and not a stutter.

### Receiver

`data_buffer_pool` maps a slot to the frame it holds, `data_buffer_index` is the
counter with its eight bits, `cb` the event a running callback has not queued,
`recv_cb` the one the task works on. A frame is the number of its arrival.
`RecvFrame` is the callback up to `xQueueSend`, `QueueEvent` and `DropEvent` the
two outcomes of that call; `Parse` and `Log` are separate, since the task may be
preempted between the CRC and the line. A short frame leaves the end of the
earlier frame in its slot; what such a slot holds does not pass for a packet.
`Short` and `Damaged` say which frames are unfit.

`Backlog` bounds the frames between the callback and the line. With four the
slots are intact for any number of frames; with five they are not, because 256 is
not a multiple of six and slots 0 to 3 are followed by slot 0 at the wrap
(`data_buffer_index` 255 is slot 3). One sender sends at most three
frames in a waking period (main.c:36 of the sender), so four is met with one sender.
`ReceiverOverload.cfg` drops that assumption.

`FrameRelay` is the promise on the serial line: undamaged frames, in order, none
twice (`line.number` counts the lines). Lost frames are allowed.

### Hub

`subscribers` and `mu` are the emitter's, `left` the rest of the range loop of
one `Emit`. Channels are unbuffered, so a packet goes to those who wait in their
`select` (`Waiting`) and to nobody else. `StatsSubscribe` and `StatsLoop` are
`Stats.Subscribe`; `handler` follows `subscribeHandler`, with `EventResponse` in
four steps because each part has its own lock. A packet is the number of its
acceptance by the statistics; `accepted` is history apart from that. `online` is
the request's context: when the page goes, net/http cancels it.

Left out here: `emitter.Close` and shutdown (module `Server`), `Clear` (module
`DataSets`). A page has one handler at a time.

### SerialReader, Server and EasyServer

`SerialReader` states the loop that `serial.Service.Run` and easy_server's
`process` share: open the port, scan, skip or take a line, close the port, sleep.
`done` is what each program's select looks at.

`Server` has the process from `systemctl start` to its end. `main` follows
`main()`; `udp`, `serial`, `mqtt`, `mqttCloser`, `stats`, `http` and `shutdown`
are the members of the error group, which `Fail` cancels at the first error.
There are two contexts: a page's request has the signal's (`http.go:46`), which
the group's own cancellation does not reach. Hence the timeout of `Shutdown`
while handlers are still there, and `emitter.Close` under them: `Subscribing` and
`Unsubscribing` say which of their steps panic then. A panic in a handler is
recovered by net/http; one in `Stats` or in a message handler of the MQTT library
would end the process (`Panic`). `Emit` is one step here, since it holds the
emitter's lock from end to end; its own steps are the subject of `Hub`. `Clear`
as a member of the group only waits for `Done`. The MQTT library reconnects by
itself with a clean session, and the code subscribes once: `Reconnect` leaves
`topic` as the loss left it. `enabled` is what the flags switch on (`FlagSets`);
an unknown flag ends the process with code 2. `NotifyExit` and `Restart` are
systemd's part.

`EasyServer` has the serial loop, `observe` with one step per histogram, and the
library's push with one step per histogram, in the order of the metrics' names.

### DataSets

`data` maps a chart to days to parts of days to sum and count; `log` is history:
all that was received. `Push` and `Remove` go through the three sets one at a
time, since each has a lock of its own, and interleave. Time is in hours, days
are cut in UTC (`Bod`) and parts by local time (`PartOf`), as the code does: a
reading after local midnight belongs to the evening part of the UTC day it is in.
`OnEvent` is the page: a series is drawn when it is longer than any drawn before.
An hour is longer than a goroutine waits, so `Pass` happens between pieces of work.
`now`, `nextTick` and `before` are the clock, the ticker and `sevenDaysAgo`.
Means are kept as sum and count: `toFixed` and the rounding of float32 sums are
not in the model. `SumsMatch` compares each part of each kept day of every chart
with `log`: it must have the sum (`SumOf`) and the number (`CountOf`) of the
readings that came in it. It is asked between two pushes, since a push reaches the
three sets one after the other.

### Assets

`etagCache` is the map from files to tags, a tag is the file and the second the
process was started in (`Etag`). `request` follows the handler of each browser,
`cached` is what the browser keeps. `Deploy` installs another build, which takes
a second at least; `Crash` is what the Go runtime may do when one handler writes to
the map while another one uses it. A file's contents are the number of its build.

### Sampling, Frame and Lines

`Sampling` is the loop of `wgBME280_task` with `bat_adc.c`: every call may fail,
a failed reading leaves its field as it was, and the voltage is the mean of what
was read over all packets. A field is known by the round that wrote it.

`Frame` has the bytes: `Representable` says which readings the fields of
`test_espnow_payload_t` can hold, `Payload` packs, `crc16LE` is computed bit by bit on sets
of bits, `Damage` cuts the frame or inverts a burst, `Parse` is the receiver's
check and `Decode` the server's. The receiver prints what it unpacks. What the
sensors report is a set of readings (`Measurements`), a burst is at most
`BurstLength` bits long.

`Lines` has the text of a line, torn at either end or cut by a restart, and
`parseFast` and `parsePayload` as functions of it. `parsePayloadStrings` is the
parser of the tests (`main_test.go:18`), here the reference on arbitrary texts after
the tag. It uses `strconv.Atoi` and `strings.TrimSpace`, which know a "+" and other
white space than the space: such characters are kept out of these texts
(`LibraryOnly`), as the model does not say what the library makes of them.
`ParsersMeetReference` has a part for each way the parsers meet it, and says also where
they do not. `FastIsReference`: `parseFast` takes what the reference takes of the
longest prefix that it accepts. `PayloadCoversReference`: `parsePayload` takes
whatever the reference takes, with the same numbers, if the text has no further
spaces. `PayloadIsLoose`: what `parsePayload` takes, of all texts, are exactly four parts of
digits between commas, each with at most one sign that has nothing but zeros before
it; a part or a number without digits is 0 (`LooseValue`). So it takes `,,,` and `7,,7,7`,
which the other two refuse (section 5). What
follows a number digit by digit is a recursive function, so that it can be
proved about.

### Sketch

`setup()` from the wake-up to deep sleep: `BmeBegin`, `WiFiBegin`, `Read`, `Send`
and `Flush` are the calls with their errors, `NewSeries`, `Toggle` and `Rest` are
`ErrorIndicator::update`. Only waiting takes time. Nobody looks at what
`WiFi.disconnect`, `WiFi.mode` and `Wire.end` return: `Off` has both outcomes, and the
history variable `stuck` what has stayed on.

### MCPrograms and MCData

The parts whose state spaces are small are checked together: the first state
chooses the subject, the others stay in an initial state. Nothing is said about
their composition, as they do not meet in the code, or meet only through data that
another module has. All modules are extended, so that what is checked is the
definition that is proved, but for `EasyServer`, whose names meet those of `Server`
and which is instantiated (`Easy`). `ProgramsProofs` and `DataProofs` are also about the
two `MCSpec`, the very specifications of the runs.

## 4. Runs

| Run | Question | Bounds |
|---|---|---|
| `wait_group` | does `wg_wait` join, is the group quiet, does it return | four tasks |
| `sender` | safety, teardown and end of a waking period under every failure at once, and `TelemetryBatch` | queue and batch of three, as in the code |
| `sender_stale_notify` | the comment at wait_group.c:70 (violated) | no failures |
| `sender_init_fails` | the README's "switch everything off" (violated) | only `sensor_init` |
| `receiver` | lines show their frames, across the wrap of the counter, and `FrameRelay` | 270 frames, backlog four |
| `receiver_overload` | what holds when frames come too fast | backlog eight, 20 frames, all failures |
| `hub` | what a response mixes, what handlers leave behind, whom a page holds up | two sources, one page, three packets |
| `hub_stale_page` | pages follow the readings (README.md:3, violated) | one packet, one page |
| `programs` | how the three other programs run and end | UDP with MQTT, or serial; one page; four lines; five packets and the sketch's own times |
| `server_restart` | "restart if it crashes" (temperature-sensor.service:14, violated) | only MQTT, no page |
| `data` | what becomes of readings, bytes, text and files | below |
| `data_sets_frozen_chart` | pages follow the readings (README.md:3, violated) | one day kept, two readings |

*Why the bounds are enough.* The sender runs with the code's own three packets
(main.c:23, 36), and the proofs cover every length. 270 frames take the counter past 256
once, with damaged and short frames on both sides. Two sources contend for the
emitter's lock, and three packets let a page fall behind by more than one. In
`programs`, UDP and MQTT are there together with a page, so that a failing
source, a late message and a late handler meet at the end; the serial port, whose
loop may not end, is on its own. The sketch has the code's times in units of
its shortest blink; the sum of voltages is capped by `MaxSum`, which the packets
that are sent do not reach.

In `data`: two days of retention and two ticks of `Clear`, of which the second
removes a day (`MaxHour`; a third one, with another half of the states, showed
nothing more, and the proofs have any number), with readings in the
small hours, the afternoon and the late evening, in a zone three hours ahead of
UTC, so that both midnights and all three parts of a day are met; two browsers, two files,
two builds, two starts and three different seconds; three rounds of sampling with
the ends of the ADC's range, calibrated and not; readings at and beyond each end
of each range, with every burst of up to four bits at every place; whole and torn
lines of 48 readings, and all texts of up to eight characters over a digit,
sign, comma and space. A number of such a text
has two digits at most: eight characters are enough for four numbers with their
commas and one more character at either end or in any of them. A sign after a zero
would need the digit 0 in the alphabet: that case is in the theorem (`ParsersAgree`). `Frame` takes a burst of
four, where the CRC is sure of sixteen; what lies between is proved (`PacketsTrue`).

*Deadlock* is checked in `wait_group`, in the violated runs of the sender and in
`server_restart`. It is not in `sender`, where a failed `xTaskCreate` leaves
`app_main` waiting for ever (its result is ignored after `wg_add`, main.c:334,
350), nor where frames, packets, pages, lines or readings may simply stop.

*Fairness.* FreeRTOS runs every ready task in the end, because each task of
higher priority blocks; the timer ends deep sleep; the driver reports every
frame; timeouts expire. That is weak fairness of each task's steps and of the
callback. Creating a task is not fair, since an initialisation may fail. In the
hub and the servers the Go scheduler gives weak fairness, and the starvation-free
`sync.Mutex` strong fairness to those who wait for it. systemd restarts a unit that
failed. Packets, lines, signals and starts need not come, pages need not read, a
port may be silent for ever (`SerialScan` is not fair). The sketch is one thread
whose calls all return.

*What "off in deep sleep" means when something fails.* Five kinds of failure leave something on
in deep sleep: `sensor_init` (run `sender_init_fails`), `adc_channel` (the ADC unit,
bat_adc.c:120), `register_cb` (ESP-NOW stays up, though Wi-Fi under it goes down),
`defer` (CLOSER_DEFER ignores that there was no memory, so there is no closer) and
`release` (a call that should have switched something off has failed). Each puts
just the resources it concerns into `lost`. `AllOffBeforeSleep` says that nothing else is on in deep
sleep, `TornDownInReverse` that what is not lost goes down in order, in every waking
period, whichever failures it has had: one failed release does not make the code skip
another. `EverythingOff` has no exception: it is violated in run `sender_init_fails`,
and is a theorem where none of the five can happen (`OffUnlessLost`). In the same way
`AllOffInSleep` allows the sketch what is in `stuck`. `WakingPeriodEnds` excepts the
waking periods in which a task could not be created ("unborn").

*What other properties except.* Where the code goes wrong by itself and no document
says otherwise, the property states what holds all the same: `StatusIsOfLastSend` and
`NothingLeftBehind` except the timeouts that the code does not make good,
`VoltageInRange` and `SamplesAreTrue` a reading that is repeated or failed, `NeverOlder` has
dropped frames, `EndWhenTold` and `SleepsUnlessSendsFail` except a port that is silent
and sends that always fail. The hazards in `PROJECT.json` name these cases.

## 5. What the violated runs show

* `sender_stale_notify`: when the sensor task ends before the radio task is
  added (its sensor is missing, say), its `wg_done` leaves a notification.
  `wg_wait` later takes it with the counter at 1 and returns. The queue and the
  wait group are freed under the radio task.
* `sender_init_fails`: after `bme280_default_init` fails nothing switches the
  sensor off. Every other error path of `bme280_init` does.
* `hub_stale_page`: a packet wakes a page's handler before the statistics have
  taken it in. The handler sends the previous reading again, and the page stays
  one reading behind until the next packet.
* `server_restart`: a member fails, `main` logs "server error" and returns. The
  exit code is 0, so `Restart=on-failure` leaves the unit down
  (main.go:146-148 against temperature-sensor.service:14).
* `data_sets_frozen_chart`: after the first removal a series is never longer than
  it has been, and the page draws only longer ones (index.html:294-302): the
  chart of a page that stays open stops on that day.

Three facts met while modelling need no run. The service file starts the server with
`-udp=false -dev=...` (temperature-sensor.service:12); `config.go:73, 77` define
`-udp-enable` and `-serial-port`, so `flag.Parse` would refuse them. And without
calibration data `bat_adc_read` returns the ADC's count (bat_adc.c:84-86), which
is sent as the millivolts of protocol.h:13. And `parsePayload` of easy_server takes
parts without a digit, as 0 (easy_server/main.go:63-74), while `parseFast` refuses them
(serial.go:86-88), and so do the other parsers of main_test.go, one of which calls it
"пустое поле" (an empty field, :84-87): a line that has lost digits is a reading for one
server and nothing for the other. `PayloadIsLoose` says what is taken so.

## 6. Proofs

All theorems hold for every value of the constants under the named assumptions,
which TLC evaluates in the runs:

* `TasksAssumption`: finitely many tasks; `SenderAssumption`: a queue of at least one;
* `HubAssumption`: no page and no source has the name of another owner of a channel
  or of the lock; `ReceiverAssumption`, `ServerAssumption`, `MaxLinesAssumption`: types;
* `SketchAssumption`: types, and that the packets that are sent do not reach the
  bound `MaxSum` on the sum of voltages; beyond it the model stops adding, the
  sketch does not;
* `DataSetsAssumption`: at least one day of retention, hours of a day;
  `AssetsAssumption`: some file;
* `SamplingAssumption`: the ADC has twelve bits, and what is on the stack has sixteen;
* `FrameAssumption`: what the sensors report fits the fields of a packet, which
  `test_espnow_payload_t` gives by its types, and a burst has one to sixteen bits,
  which is what a CRC of sixteen bits is sure of;
* `LinesAssumption`: what is printed are the fields of a packet; the texts of the
  comparison have none of the characters that only the library calls know, and at
  most twelve characters. A text that is taken has three commas at least, so a
  number in it has nine digits at most and fits an `int` of 32
  bits (the Makefile builds for ARM). Longer ones would overflow in the two parsers
  written by hand and be refused by the third.

One hypothesis is part of theorems: those about slots in the receiver have
`Backlog <= 4`, and without it they are false (run `receiver_overload` leaves them
out). The type invariants of
`WaitGroupClient`, `Sender` and `Receiver` are theorems and are not checked by a
run again.

* **WaitGroupProofs** - `TypeCorrect`, `Join`, `Quiet`. Neither property is
  inductive. The invariant ties `counter` to the number of running tasks and
  says who may still notify: as long as no task is added late, at most one
  `wg_done` brings the counter to zero, so a notification means that no task
  runs and no other notifier is left.
* **SenderProofs** - `TypeCorrect`, `NeverBlocks`, `TasksStop`, `CallbackSafe`,
  `StatusMatches`, `NothingLost`, `AllOff`, `OffUnlessLost`, `Reversed` and
  `Refinement`. Three parts carry them: the count of `wg_done`s still due against the counter and the
  notification, from which both tasks are gone past `wg_wait`; the position of
  every packet (`queue` holds exactly the samples after the one in `cur`, up to
  `made`), from which the queue never fills and nothing is skipped; and
  `ResourceInv`, which no failure suspends: the stack of closers is what of
  `app_main`'s is open and not lost, newest first (`StackInv`), everything opened so far
  is on it or lost, and the sensor task's own are live exactly while it works with them,
  or lost (`SensorInv`). What is live and not lost is therefore a final part of one order of
  opening, which is `Reversed`; with no closer left and the sensor task gone it is nothing,
  which is `AllOff`. `LostInv` says which kinds of failure can lose anything
  (`OffUnlessLost`).
* **ReceiverProofs** - `TypeCorrect`, `Intact`, `TrueLines`, `Refinement`, and
  `NoneOlder` for any backlog. The pending events are those of the last frames in a
  row, each with the slot of its number; `SlotsDiffer` is the arithmetic of four
  frames in a row over the wrap. `NoneOlder` needs less: slots are only written
  with the newest frame, and before its event is there.
* **HubProofs** - `TypeCorrect`, `ChartsKeepUp`, `NothingLeaks`. Each series has
  every accepted packet but possibly the one in hand, and what a handler has read
  cannot fall behind the current packet it read first. `TypeCorrect` says more
  than types: what a source that holds the lock has left to serve are
  subscribers still, because nobody unsubscribes while the lock is held.
* **ProgramsProofs**, the server - `NoPanic`, `ReasonLogged`, `PortGivenBack`,
  `ServerTypeCorrect`. `ChannelsApart`: no subscriber's channel is closed, and no
  member of the group is left when `emitter.Close` runs, so that what runs on after
  it is a handler, recovered by net/http, or a message that finds no subscriber.
  `ReasonKnown`: the shutdown member does not return before the group is done, so
  without a signal the first error is a failure and not `ErrServerClosed`.
* **ProgramsProofs**, `easy_server` - `PushInStep`. `UpdateInv` says how far the
  histograms are apart at each place of `observe`, `PushInv` what the numbers
  written so far are to each other and that none is ahead of its histogram. The
  names are written in the order humidity, pressure, temperature, voltage and
  updated in another one, which is why the bounds differ.
* **ProgramsProofs**, the sketch - `SketchTypeCorrect`, `NothingOnInSleep`,
  `ErrorIsTold`, `VoltageIsMean`. `PowerInv` says what is on at each place of
  `setup()`, `SeriesInv` counts flashes against blinks, and `SumInv` bounds the sum
  of voltages from below by the lowest reading for every packet that counts, and
  from above by the highest as long as no send was repeated.
* **ProgramsProofs**, together - `TypesCorrect`: in `MCSpec` each of the three keeps
  its types while another one runs.
* **DataProofs**, the data sets - `DataTypeCorrect`, `RetentionHolds`, `SumsHold`,
  `Drawn`. `Kept`, `Removed` and `Agree` say of each set what holds after the part
  of a push or a removal that has come to it; `Clock` ties the ticker to the hour.
  `SumInv` sums and counts for each set the readings it has been given so far
  (`Given`); the step that matters is a day that is there for the first time, which
  had no reading before since only days that are due are removed (`FreshDay`).
  `SumOf` is a recursive function over the readings: that it exists, is unique and
  grows by each reading that is appended (`SumsExist`, `SumsUnique`, `SumOfMore`)
  is induction over their number, stated for a set of numbers (`SetInduction` in
  `Means`, from the library's well-foundedness of `<`).
  `Drawn` rests on series that only grow until then, and on `DrawnInv`: what is
  drawn are points of the series, and `lastChart` is their number.
* **DataProofs**, the files - `AssetsTypeCorrect`, `NotModifiedTrue`.
  `OldFilesOldTags`: a kept file of another build has a tag older than the clock
  and than the process; `TagsOfThisStart` and `HandlersHaveTags`: the server only
  compares with tags of its own start.
* **DataProofs**, `Sampling` - `SamplingTypeCorrect`, `SamplesTrue`, `HeldTrue`.
  `SumInv` and `VoltsInv` place the sum between so many of the lowest and so many
  of the highest reading, which `Means` takes through both divisions
  (`DivLow`, `DivHigh`, `MulMono`) and through the sixteen bits of the field;
  `HeldInv` says what is held at each place of `bat_adc_init` and `bat_adc_deinit`.
* **DataProofs**, `Frame` - `FrameTypeCorrect`, `PacketsTrue`, `CrcCorrect`. The invariant
  says of a frame that it is what was packed, or that with a burst inverted, or that
  without its last byte. Three things are needed of these. `RoundTrip`: reading the
  fields of a packed payload gives back the reading, by the arithmetic of two
  bytes, of three bytes and of the sign. That no burst passes: the register of
  `crc16LE` together with the bits still ahead of it is one sequence of bits, and
  taking a byte in and shifting it is shifting that sequence, which is linear. So
  the difference of two frames may be followed instead of the frames; a burst of
  sixteen bits or less never vanishes under a shift: a pattern that does has a bit at
  0 and one at 16. And
  that the register at the end is the mirrored remainder: division takes off the same
  multiples one by one. Both are inductions over the bits of a frame.
* **LineProofs** - `LineTypeCorrect`, `LinesTrue`, `ParsersAgree`. A printed number is
  read digit by digit as the number that was printed, and so is every beginning of
  it (`DecimalNumeral`, `LeadingIs`). A torn line is a piece of the printed one, with
  the loader's letters behind it or nothing, which is `LineInv`. In a piece the tag is
  found where it was printed or not at all; what follows are four numbers with commas
  between them, or the first few of these with the end of the text in the last one, and then
  `FastOfPiece` and `PayloadOfPiece` follow number by number. For `ParsersAgree` all
  three parsers are described by the same thing, four numbers between commas at
  certain places (`FourParts`): `parsePayloadStrings` takes a text that is that and nothing
  else, `parseFast` the part of a text that is that with the last number as long as it can
  be, so that it is the longest such prefix, and `parsePayload` whatever the first takes.
  What `parsePayload` takes besides is followed one part between commas after another: within
  a part its state is the sign and the value of a loose part, or it has refused for good
  (`PartStep`, `RefusedEver`); at the end it has as many values as there were commas
  and one (`CommasCounted`), so it takes a text just if that has three and loose parts
  (`PayloadLoose`).
* **DataProofs**, together - `SubjectsRun`: in `MCSpec` each of the five subjects behaves
  as its own specification says, so the theorems above hold in the run; `TypesCorrect`.

The functions that recur (`Value`, `Natural`, `Consume`, `SumOf`, `crc16LE`,
`Remainder`, in a frame or a line of any contents) are proved about by naming their values step by step: that
such steps exist is `StepsExist`, and an assertion goes from step to step by
`SetInduction`, which speaks of a set of numbers and not of a predicate (`Means`).

Only model-checked: liveness (`WaitReturns`, `WakingPeriodEnds`, `PagesHoldNobodyUp`,
`EndWhenTold`, `SleepsUnlessSendsFail`), which is out of reach of the prover. Every
invariant and every action property of the passing runs is a theorem.

## 7. Not modelled

* the first rendering of a page from its template, the error of `web.New` when a
  template cannot be parsed, the page's layout, and how a browser mixes files of two
  builds within the hour of `max-age`;
* the values of flags other than which sources are on;
* the bytes of a UDP packet (four floats), `toFixed`, the rounding of float sums;
* systemd's `SIGKILL` after `TimeoutStopSec`;
* what is published to MQTT while the client has no subscription, and messages
  after a reconnection, about which no document promises anything;
* the metrics library of `easy_server` beyond the order in which it reads the
  histograms;
* the drivers themselves, which appear by what the code sees of them: success,
  the error classes above, timeouts and callbacks;
* build and CI files, pictures, and the test application, which have no logic of
  the system.
