# Verification of home-automation

TLA+ models of the programs in this repository, checked by TLC on small instances, with
theorems that TLAPS proves for every instance. `PROJECT.json` lists components, runs, mutants,
the source lines behind each definition, findings, hazards and theorems.

## 1. The system

Devices hang on CAN buses. Each bus has a *bus master* (a TI board) that is a TCP server. The
*router* daemon connects to the bus masters and serves clients; a client sends commands, asks for
values and subscribes to messages. The devices are *CAN nodes* (STM8 boards) whose channels are
switches, buttons, analog inputs or thermometers. A separate Python program runs a web sensor.

    clients --lines--> router --lines--> bus master --frames--> CAN nodes
                      (deephome/router)  (firmware/ti/can_master)  (firmware/stm8/can_node)

| Part | State | Operations | What makes it correct |
|---|---|---|---|
| Router (`deephome/router/Router.cpp`, `Application.cpp`) | `connections_`, `networks_` with their connections, `filters_`, `send_queue_`, send timer, reconnect timer, `connected_networks_` | start, stop, restart; accept, command, error of a client; message, error of a network; the two timers | queued commands leave, lost networks are retried, an answer settles one query, no filter outlives what it waits for, the process survives |
| Socket connection (`deephome/common`) | read and write buffer, `got_error_`, two listeners, queued packets, scope counter | send, readable, writable, error, subscribe, unsubscribe, deliver | lines once and in order however the stream is cut; bytes in order however sends are taken; no call into an owner that left |
| Event loop (`deephome/common`) | `event_queue_`, `is_started_`, the loop's thread, libev's async event | start, stop, run, enqueue, unloop, invalidate a scope | events once, in order, one at a time, none of a dead scope; no lost wakeup; stop drains and returns |
| Message codec, socket server, router configuration | none, or read once | parse, print, accept | round trips |
| Client library (`client/`) | queries with timeouts, result holders | send, query, receive, time out | each query ends once |
| Bus master (`can_server.cpp`, `can.cpp`) | client slots, select set, 15 transmit, 1 request and 16 receive objects | select, connect, data packet, request with its wait, frame received | no frame twice, no waiting command overwritten, no stale answer, nobody starved |
| CAN node (`stm8/can_node`) | function of each channel, settings and values, shared converter, device id, label, EEPROM | packet handlers, the 20 ms tick, save, load, power loss | outputs as commanded, timers that end, locked presses kept, readings of the right channel, configuration survives, the main loop goes on |
| 1-wire library, heater (`ti/onewire`, `ti/heater`) | search state, sessions | reset, search, read | the search finds every device |
| Web sensor (`devices`) | pulse counters, temperatures, timer threads, two files | count, sample, update, save, load | readers find whole files, a pulse goes into one update, updates go on |

What is hard: the router's handlers run one at a time but in any order, and share filters, queue
and timers; sockets fail between a packet's arrival and its delivery; the bus master shares its
controller with an interrupt and blocks in one request; the node saves over its only copy of the
configuration; its ticks interleave with reassignments; the event loop is shared by threads; the web
sensor's timers, monitor and callbacks are threads that share a monitor, a lock and the counters. The
hazards in `PROJECT.json` name each place by line.

## 2. Modules

### Router (`Router`, `Subsequence`, `MCRouter`, `RouterProofs`)

One action per handler of `Router.cpp`, because all of them run on one event-loop thread.
`networks[n]` and `connections[c]` are the state of the connection object: `"up"`/`"open"`, `"error"`
(the window between `got_error_` and the delivery of the null packet, in which sends are swallowed)
and `"down"`/`"absent"`. `filters` and `send_queue` are the lists; `Kept` (module `Subsequence`) is
`remove_if` with `erase`. An address is the set of its one-bits, so that the bit operations of
`passes_filter()`, the misplaced precedence included, are set operations. `Commands` is the set of
commands the clients may send, the rejected forms included. `status` records the two ways the
process fails: `"hung"` and `"crashed"`. An attempt to reconnect that reaches nobody leaves everything
as it was; `attempt` changes with it, so that an attempt is a step of its own.

### Socket connection (`SocketConnection`, `LineChannel`, `MCSocketConnection`, `SocketConnectionProofs`)

One connection and the part of `EventLoop::event_queue_` that belongs to it. Received bytes are
character classes, sent bytes are numbered. `SplitLines` is the loop of `on_read_ready()`. Exceptions
other than a closed connection reach `EventLoop::handle_exception()`, which has no handler in the
router: `status = "terminated"`.

`LineChannel` is what `Connection.h` promises: bytes leave in the order of acceptance, the owner is
told the peer's lines in order, at most one error and nothing after it, nothing once it has left.
The mapping: `open` is `subscribed`, `told` is what was delivered, and `lines` is `Frames(incoming)`,
the lines of the bytes the peer has sent by a definition that only knows line ends. So the
refinement compares the incremental splitting with that definition over all ways to cut the stream.
The channel does not say that what came before an error is still told; `NothingLost` does.

### Event loop (`EventLoop`, `SerialExecutor`, `MCEventLoop`, `EventLoopProofs`)

Three kinds of processes: the owner in `start()`, `stop()` or `run()`; the loop's thread in
`main_loop()` and `handle_events()`; other threads in `enqueue()`. A step is what happens under one
lock, or between two accesses to shared state: pushing and signalling are two steps, so are taking
an event and looking at its scope, and setting `is_started_` and notifying. The condition variable
may wake up spuriously. libev is external: `sent` is its note of `ev_async_send()`, `loop_done` that of
`ev_unloop()`; starting the event again clears the first, entering `ev_loop()` the second. A handler may
enqueue, unloop, return or throw. The scope is invalidated at any moment, as it is done in handlers, in
callbacks of timers and signals and in destructors (`Router.cpp:63`, `Router.cpp:161`,
`Connection.cpp:34`). `ScopedEventLoop::enqueue()` copies the scope before the queue is locked, so that
another thread's event may carry one that has been invalidated meanwhile.

`SerialExecutor` is the promise to those who enqueue: events are dealt with one after the other in
order, the handler is called exactly if the scope is valid when its turn comes, and no two handlers
run at once. The mapping: `submitted` is the history of scopes, `dealt` the events that left the
queue and whose scope was looked at, `busy` is `calling`. `ServedInOrder` is what its users conclude
from it.

### Bus master (`CanMaster`, `MCCanMaster`, `CanMasterProofs`)

The server task is one process whose `phase` is its place in `CanServer::run()`; the controller,
the interrupt and the clients act between any two of its steps. A request's wait is a loop of
`Polls` steps; reading the answer and clearing the object are separate steps, so an answer may
arrive between them. `signal` is a call of `fdSelectAbort()` that the task has not noticed yet; the
wait of a request notices it too. The CAN controller and the NDK sockets are external: the model
has what the code relies on, and allows `CANMessageClear()` to leave a pending transmit request
behind (`"stuck"`), after which requests are refused. A client that does not read (`"stalled"`) keeps
`handle_can_packet()`, and with it the task, in `send()`; as nothing else depends on whether a client
reads, it stalls only while a frame is being sent. The sends of prompts, which may block likewise, are
left out with the prompts. A frame or an answer that is longer than 8 bytes is read and dropped
(`dropped`): `ReceiveOverlong` ends `handle_signal()`, after `AnswerOverlong` the task polls on.

### CAN node (`SwitchChannel`, `ButtonChannel`, `AnalogSensors`, `NodeConfig`, `NodeLoop`, each with an MC module; `ChannelProofs`, `NodeConfigProofs`, `NodeLoopProofs`)

* `SwitchChannel`: `mod_switch.c` for one channel: mode, polarity, value, delayed switch-off.
* `ButtonChannel`: `mod_button.c` for one channel: sampling, resistor, lock, announcements, requests.
  The level of an open contact without the resistor is chosen freely. `read` records whether the value
  was requested since it last changed; the code does not keep this.
* `AnalogSensors`: `mod_analog.c` for all channels: one converter, one turn, and the pass of
  `CAN_Node_handle_timer()` over the channels as separate steps.
* `NodeConfig`: `module.c`, `sysinfo.c`, `eestream.c` and the `on_save`/`on_load` handlers: the image
  is written one byte per step and power fails between any two. Bytes that `analog_save()` leaves
  uninitialised are chosen freely.
* `NodeLoop`: the loop of `main.c` with `clock.c`, `led.c`, the loop over the FIFO in `can.c`, and
  `mod_ds18b20.c` with `onewire.c`. The timer flag is set by hardware between any two steps and is not
  counted; frames arrive at any time. `tim1` says whether TIM1 is set up as a 1-wire cycle needs it:
  without it `reset()` waits for a counter that does not count as expected, `pc = "hung"`.

`ChannelProofs` extends `AnalogSensors` and `SwitchChannel`, `NodeLoopProofs` extends `NodeLoop` and
`ButtonChannel`; this is why the names in the modules of one channel begin with `Switch` and `Button`
where the other module has the plain one.

### Web sensor (`WebSensor`, `MCWebSensor`, `WebSensorProofs`)

The main thread from `__init__()` to `serve_forever()`, the chain of `threading.Timer` threads, the
monitor's thread and the GPIO callbacks. A step is a statement that touches shared state, or a
locked section. `PeriodicTimer` has no lock: test and set of `is_running` are separate steps. The
update holds `_lock` from its start to its end, and saving is open, dump, rename, each of which may
fail. `Kill` ends the process between any two steps; what is on disk stays. A timer's interval is
taken to be longer than the statements of `start()`. `NewTimer` reuses the names of ended timers.

## 3. Runs

| Run | Instance | Shows |
|---|---|---|
| `router_routing` | 2 clients, 2 networks with a device each, buffers of one line, 2 records | `SendTimerArmed`, `NetworksTracked`, `RepliesAwaitedOnConnectedNetworks`, `SubscriptionsOwned`, `AnswersSettleQueries`, `QueriesNotForgotten` |
| `router_commands` | 1 client, 2 networks, addresses of 2 bits, 11 forms of commands, fair timers | `TimersProgress` |
| `socket_connection` | 4 bytes in, 3 bytes out, a write buffer of 2 | `ImplementsLineChannel`, `WriteListenerArmed`, `NothingLost`, `LinesDelivered` |
| `event_loop` | 1 other thread, 2 events besides those of `stop()`, 2 starts, 1 invalidation, no exception handler | `ImplementsExecutor`, `WakeupPending`, `StopDrains`, `CallsReturn`, `EventsHandled` |
| `can_master` | 2 clients, 2 receive objects and 1 transmit object, 1 poll, 2 frames, 1 accepted command | `FramesAccounted`, `CommandsAccounted`, `RequestSettled`, `FramesForwarded`, `MessagesServed` |
| `switch_channel` | words up to 3 | `HighOnlyWhenCommanded`, `OffTimerNeverWraps`, `WholeDelay`, `DelayedOffHappens` |
| `button_channel` | complete | `LockedPressKept`, `AnnouncesState`, `FollowsContact` |
| `analog_sensors` | 4 channels, complete | `SensorsTracked`, `OwnConversion`, `HangsOnlyWithGap`, `EverySensorSampled` |
| `node_config` | 2 channels, a label of 1 byte, 4 changes | `SaveLoads`, `NothingInvented` |
| `node_loop` | 2 channels, the code's postscaler, period and blink times, a FIFO of 3, 2 reads of a conversion | `ErrorShown`, `LoneThermometerReady`, `TicksGoOn` |
| `web_sensor` | 1 flow and 2 temperature sensors, 3 timers at a time, 1 pulse, 1 kill | `FilesWhole`, `PulsesAccounted`, `PulsesCollected` |
| `router_survival` | the smallest | `KeepsServing` fails: section 6 |

Every property of a passing run has a mutant in `PROJECT.json`: a plausible slip in one definition
that makes the run fail. Each module has a type invariant, which describes its state and is
proved (section 4).

**Bounds.** Two clients and two networks are the least with which one party's step can disturb
another's; one-line buffers and one transmit object are full after one entry, so that overflow
happens early. With two receive objects and two frames a frame waits behind one that is forwarded or
dropped; a third frame, which would overwrite one of two, is out of TLC's reach with two clients, and is
left to the proof of `FramesAccounted`. `MaxSends` bounds the commands that get
a number: those beyond it may be sent while the transmit objects are full, and the bus takes nothing
until they have been refused, so that one number is enough for a full object. Two bits of an address distinguish bit 0, which `passes_filter()` treats
specially, from the rest. Four bytes hold two lines with a line end each, or a line cut at any
place. A word of 2 bits runs the off timer through every delay. Two channels move each other's data
in the EEPROM. Two starts of the event loop show what one session leaves to the next; one other thread
and the loop's own handlers are enough for an event between any two steps of either. Three timers are
the two chains that a race of the main thread with a timer's thread may start and the successor of
one; a race of the two chains with each other would need more. One kill falls between any two steps,
and the start after it runs on what was left. `MaxConnections`, `MaxRecords`, `MaxRead`, `MaxWritten`, `MaxFrames`, `MaxSends`,
`MaxChanges`, `MaxEvents`, `MaxStarts`, `MaxScope`, `MaxPulses` and `MaxKills` only bound how long a behaviour goes on.

**Deadlock** is not checked where the system may stop: a router that has exited, crashed or hung, a
connection that has ended, an event loop that is stopped or has terminated the program, a node that
hangs in the search for a sensor.

**Fairness.** Router: libev calls a timer that stays started, and the event loop delivers what is
queued; nothing is assumed of clients, networks or sockets. Fairness of the reconnect timer is that of
the attempt, which may fail for ever: `TimersProgress` says that a lost network is tried again and
again, not that it is reached. Socket connection: libev reports a
readable socket until it was read (the listeners are level-triggered), and `async_event_` is sent
after each `enqueue()`. Bus master: the task runs when it is not waiting; it is its board's only
user of the network stack. The fairness is strong, as a `send()` that waits goes on with the room its
client makes even if the client then stops again; `FramesForwarded` and `MessagesServed` assume that
again and again every client reads (`can_server.cpp:322` "TODO nonblock?"). Event loop: every thread
that is not waiting is scheduled, handlers return, and libev reports an event that was sent; nothing
is assumed of those who enqueue, start and stop. Web sensor: the threads run on and timers expire;
pulses, failures and kills need not happen. Node: `main()` polls the clock for ever and TIM4 counts.
In `NodeLoop` this is weak fairness of the program and the timer, and strong fairness of leaving the
loop over the FIFO, which is found empty again and again on a bus that leaves gaps; `TicksGoOn` has
that, an end of restarts and a node that does not hang as its assumptions.

## 4. Proofs

| Theorem | Module |
|---|---|
| `TypeCorrect`, `SendTimerAlwaysArmed`, `NetworksNeverGivenUp`, `RepliesOnlyAwaitedWhenConnected`, `SubscriptionsAlwaysOwned`, `AnswersAlwaysSettleQueries`, `QueriesNeverForgotten`, `KeptElements`, `KeptInSeq` | `RouterProofs` |
| `LineSplitting`, `ConnectionTypeCorrect`, `WritesNeverStrand`, `NothingEverLost`, `ConnectionRefines` | `SocketConnectionProofs` |
| `EventLoopTypeCorrect`, `NoWakeupLost`, `StopAlwaysDrains`, `EventLoopRefines`, `ExecutorServes`, `EventsAlwaysServed` | `EventLoopProofs` |
| `RequestsAlwaysSettled`, `FramesAlwaysAccounted`, `CommandsAlwaysAccounted`, `CanMasterTypeCorrect` | `CanMasterProofs` |
| `SwitchTypeCorrect`, `SwitchNeverHighUncommanded`, `SwitchTimerNeverWraps`, `SwitchKeepsWholeDelay` | `ChannelProofs` |
| `AnalogTypeCorrect`, `AnalogTracked`, `AnalogOwnConversion`, `AnalogHangsOnlyWithGap` | `ChannelProofs` |
| `NodeLoopTypeCorrect`, `FailedStartAlwaysShown`, `LoneThermometerAlwaysReady` | `NodeLoopProofs` |
| `ButtonTypeCorrect`, `LockedPressAlwaysKept`, `AnnouncementsAlwaysTrue` | `NodeLoopProofs` |
| `ConfigurationNeverInvented`, `SavesAlwaysLoad`, `ConfigTypeCorrect` | `NodeConfigProofs` |
| `FilesAlwaysWhole`, `PulsesAlwaysAccounted`, `WebSensorTypeCorrect` | `WebSensorProofs` |

They hold for every value of the constants, the bounds included, under the named assumptions of each
module: sets of networks, sensors and threads are finite where they are counted, sizes that the code
has as positive constants are positive, and special values are not ordinary ones.

**Recursion.** `Kept`, `SplitLines` and `DataStart` are recursive functions. That such a function
exists, and what it computes, is proved by induction over a set of numbers: `LeastNatural` (a
nonempty set of natural numbers has a least element, from the well-foundedness of `<`), or `UpTo`,
which follows from it. The theorems of the library that take the induction hypothesis as an operator
are not used. Each module that needs the two lemmas has them.

*Router.* The invariant `RouterInv` is the conjunction of the type invariant, the five safety
properties and `StoppedDisconnected` (a stopped router has no network
connected), which the properties need when a router is started again. The proof has one lemma per
group of actions; those that connect and disconnect networks rest on facts about cardinalities of
finite sets, those that erase filters on `KeptElements`. Assumed: each device names a configured
network, networks are finite and there is one, the special values are no devices or addresses.

The two action properties compare counts before and after a step. `CountAppend`, `CountTail`,
`CountConcat`, `CountKept` and `CountSplit` say what `push_back`, `pop_front`, a longer buffer, erasing
and dividing do to a count. A message of device d then sends a connection as many replies as the
connection loses reply filters, all of them for the network of d: a reply filter that the message
passes names d itself, since `RepliesAwaitedOnConnectedNetworks` says that it names some device.

*Socket connection.* `ConnectionInv` adds to the types that the read buffer is the last, unfinished
line of the bytes received, that what the owner was told and what is queued for it are together the
lines received and the error (`ReadInv`); that nothing is listened to after an error or without an
owner (`ListenInv`); that queued events are valid exactly until the owner leaves (`ScopeInv`); and that
the bytes on the wire and in the write buffer are the accepted ones in order (`WriteInv`). The heart
of `ReadInv` is that `SplitLines` of the old rest and a new chunk gives the lines that `Frames` finds
beyond the old ones; both are reduced to what one more byte does. With the invariant every step
maps to a step of `LineChannel` or to none. `NothingLost` is the part of the invariant that the owner
sees: `ReadInv` and `WriteInv` while it is subscribed.

*Event loop.* `EventLoopInv` says that the queue holds the last events in the order of their numbers and
`current` is the one before them (`QueueInv`), which states of the owner, the loop's thread and
`is_started_` go together (`ThreadsInv`), that somebody has sent or is about to from the moment at which
`is_started_` is set (`SignalInv`; `WakeupPending` alone starts too late), and that the events before
`stop()` are gone once the loop closes (`DrainInv`). `QueueInv` is what the refinement needs.
`ServedInOrder` is proved of the abstract executor alone (`ExecutorInv`: the types, `ServedInOrder`, and
that no submitted event is of a scope to come) and carried over to the loop by the refinement.

*Bus master.* `RequestSettled` is inductive as it stands: only a request makes the object receive,
and it makes the task poll; both ends of the poll clear the object, and a frame that was read is sent
before the task selects or serves; an answer that is dropped for its length goes with its object.
`FramesAccounted` needs it: a request resets its object, and a frame
in it would disappear. `CommandsAccounted` needs that accepted and waiting commands are no more than
those that are numbered, unless every object is full. Both count the objects that hold a packet, by the cardinality of finite sets.

*Switch.* The properties are inductive together: the timer does not wrap because it only goes on
below a delay, which is a word, and is reset when the switch goes off (`OffMeansTimerReset`, which
makes `WholeDelay` start at zero). That it never wraps is also what makes a tick add one in `WholeDelay`.

*Button.* Both properties hold step by step from the type: a press is released by `button_set_state()`
only, which has the lock as its guard, and an announcement is made by the same function that stores.

*Analog.* `AnalogInv` says that the statics are `Sound` (count, turn, converter and states agree)
or the node hangs; each `analog_init()`, `analog_deinit()` and timer step keeps them so. For
`HangsOnlyWithGap`, if all channels are analog the search finds the next one at once, and if there is
one the search is not made, as `Sound` says that the count is right.

*Main loop.* `LoopInv` adds that a node without CAN has no frames and converts nothing (`DownIsSilent`:
nothing then blinks over the error or writes a function), and that there is at most one
thermometer until two were there at once (`AtMostOne`), so that a reassigned thermometer channel
leaves none behind whose timer it has switched off.

*Configuration.* `ConfigInv` adds that the id and the functions in the EEPROM, and in the image that
is being written, were commanded; an interrupted save mixes two such images byte by byte, and the id
and each function are one byte. `SaveInv` says that a save under way writes the image of what the node
still has and has written what is before its offset. That the complete image loads as it was rests on
the layout: the starts of the channels' data do not decrease, so each cell belongs to one channel.

*Web sensor.* `FileInv` says that what is renamed is whole. `PulseInv` says that the main thread holds
the lock exactly in `start()` and an update is under way only in the thread that holds it (`LockInv`),
so that an update begins with an empty result, the sensors still to be read have no part in it, and
between the reading of a counter and the end of `_count_passed()` the tally is between what was passed
and the counter (`CollectInv`).

**Only model-checked:** all liveness, since the prover does not do fairness (`TimersProgress`,
`DelayedOffHappens`, `FollowsContact`, `EverySensorSampled`, `LinesDelivered`, `FramesForwarded`,
`MessagesServed`, `CallsReturn`, `EventsHandled`, `PulsesCollected`, `TicksGoOn`). Every safety property
and action property of a passing run is the statement of a theorem. `WholeDelay` with
`OffTimerNeverWraps` is the safety half of `DelayedOffHappens`, and `NothingLost` that of `LinesDelivered`:
what remains to TLC there is that ticks and turns of the loop keep coming.

## 5. Not modelled

Most of the repository's lines are not its own: gtest, the STM8 library, the vendor's board files and
schematics. Of its own programs these are left out:

* Board support, logging, daemonising, the command line, the controller's HTTP sketch, test programs.
* The message codec and the configuration parser: pure conversions of text, which the unit tests
  reach; a model of them would spell out characters. The models start from their results.
* The socket server, which has no state but its sockets.
* The client library: no program uses it, and `DeviceCommand::service_command()` (`Command.cpp:32`), which
  every send of its dispatcher calls, ends without returning a value. A program that does so has no
  defined behaviour that a model could have. `Device::query_serial()` (`Device.cpp:136`) is unfinished
  likewise.
* The TI 1-wire library and the heater: a trial program with an early return in its loop; the search is
  never called, the rest is the timing of slots.
* Of the node, the CAN filters and the slots of a 1-wire byte; of the web sensor, calorimeters, litres
  and the configuration.

Abstractions inside modelled parts: a router packet is a record of parsed fields; a message to the
bus master is its kind; prompts, greetings and log lines are left out; the analog range check
(`mod_analog.c:214`), which nothing calls, is left out. The bus master's task ends when `fdSelect()`
fails (`can_server.cpp:86`): the model's select does not fail. A descriptor is its slot, so that one
closed by a failed send and given to the next client, while `rdset` still names it
(`can_server.cpp:97`), is not told from another. The web sensor's `HTTPServer()` gets its port
(`websensor.py:120`): when it does not, the main thread ends before it has started the monitor, and the
timer's thread is left alone.

## 6. Disagreements between the code and what it says

Shown by the run `router_survival`: stopping the router while a network is down uses a null pointer
(`Router.cpp:123`).

Met while modelling, and in the models as the code has them:

* `Router.cpp:202`: a filter that cannot be routed to stops the router: the loop does not advance. This is
  `status = "hung"`, the other way in which `KeepsServing` fails, with a client that does not read its
  answers or a query whose connection was closed before it was sent.
* `Router.cpp:352`: the null packet that reports a client's lost connection is used, in
  `packet->packet_type()`, before it is tested at `Router.cpp:365`: `OnConnectionTerminated` crashes. This
  is a third way in which `KeepsServing` fails.
* `Router.cpp:217`: `address & (mask != filter)`, where `(address & mask) != filter` is meant: a query is
  answered by a message with another address, and a query for an odd address never.
  `can_proto.h:42` says "Reply with requested value at specified address".
* `SocketConnection.cpp:199`: a peer that closes its end is never noticed, although `Dispatcher.cpp:236`
  has a message for it, "router closed connection"; the socket stays readable and the loop spins.
* `EventLoop.cpp:66`: what is enqueued before `start()` is not signalled to the new loop; it is handled
  with the next event. An unloop enqueued by a `stop()` whose loop had ended already stays in the queue
  and ends the next session.
* `onewire.c:37`: with two thermometer channels, the one that is reassigned switches off the timer of
  the other, whose next request waits for ever; `onewire.c:79` says "TIM1 is configured to 1 MHz, 60 mks
  period". `LoneThermometerReady` is stated for one thermometer at a time.
* `monitor.py:84`: `collect()` clears the dictionary inside the loop over it. The exception ends the first
  update with a reading; after it the monitor's thread ends with a `KeyError` at `monitor.py:164`, so that
  temperatures are never reported. The model has both exceptions; the chain of timers survives them.
* `websensor.py:46`: `_load()` replaces what it has loaded. `websensor.py:27`: the timer runs before `_lock`
  exists; an update that early fails. `periodic.py:22`: two threads may both start a timer, and then two
  chains go on. `monitor.py:151`: a calorimeter cannot be constructed, as its class is not found by
  its bare name.
* `mod_analog.c:99`: `select_next_sensor()` loops for ever when the next channel is not analog. The
  model has the state `hung`; the safety properties hold up to it, and `EverySensorSampled` is stated
  for a node whose channels are all analog.
* `mod_analog.c:244`: a single analog channel is never read.
* `mod_analog.c:271`: `analog_save()` overwrites the configuration with the ranges; `SaveLoads`
  excepts these settings.
* `mod_button.c:123`, `can.c:127`: an announcement that finds no mailbox is not repeated, and none
  is made for a button that is pressed when `Active` is set or when the node starts; `can_node.h:107`
  says "Send button value when it's equal to 1 without user poll request". Releases are announced too.
* `can_node.h:106` says of the lock bit "Lock button value in memory until it's read (0: always report
  current state)". `button_request()` changes nothing and `button_set_state()` does not know of it: a
  press that was read stays locked until a 0 is written. `LockedPressKept` is what both say, that a
  press is kept until it is read or reset.
* `module.c:139`: a save starts with the valid header, so an interrupted one leaves a mixture of old
  and new settings that loads.
* `Message.cpp` writes and reads values as `dev:XX  addr:XXXX  :data`, the bus master as `=data`.
* `can.cpp:177`: a frame that is longer than 8 bytes makes `receive()` return as if there were none, which
  ends the loop at `can_server.cpp:139`; frames behind it stay in their objects until another frame
  arrives or a client sends something. `FramesForwarded` excepts them.
* `can_server.cpp:159`: a client that has closed its end keeps its slot until a send to it fails,
  and the select returns at once meanwhile.
* `Command.cpp`: `DeviceCommand::service_command()` has no return statement.

## 7. Plan

Done: Router, the node's channels, configuration and main loop, socket connection, event loop, bus
master, web sensor, two refinements, and proofs of all their safety properties. Next:

1. The composition of router, connection and bus master, when the two programs agree about the form
   of a value.
