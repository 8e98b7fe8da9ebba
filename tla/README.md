# voltkeeper in TLA+

voltkeeper talks to Bluetti power stations over Bluetooth LE: a daemon polls
them, keeps their state, serves an HTTP and WebSocket API and forwards to MQTT;
command-line tools read, write, verify and load-test one station directly; a
watchdog on another host shuts that host down when the battery runs low.  All
of it is asyncio: each process is one thread, and tasks interleave where they
await.  This directory models the parts of it that interleave, fail and
recover, checks them with TLC and proves the central results with TLAPS.

`PROJECT.json` has the same information in a form that can be processed: the
components, the runs, a mutant for every property (a change of a definition
that the run must notice), the source lines of every definition, the findings,
the hazards and the theorems.

## The system

Paths are relative to `src/src/voltkeeper/`.

| component | state | operations | hard behaviour |
|---|---|---|---|
| BLE client, `bluetooth/client.py` | lock, pending future, response buffer, current command, session, link | connect, disconnect, execute with retries, notification handler | replies name no request; timeouts, retries, link loss and disconnect race with replies; the lock spans the retries |
| handshake and cipher, `bluetooth/handshake.py`, `cipher.py` | the handshake's step and buffer; session keys | run, on_frame; encode and decode of a frame | frames split over notifications; a session that outlives its link |
| commands and TLV, `core/commands.py`, `core/tlv.py`, `core/utils.py` | none | encoding, validity of a response, CRC, bundle parsing | lengths at a boundary |
| devices, `core/devices/` | poll counter, force flag, topology | the poll schedule, parsing of blocks, setters | schedule and forced polls interleave |
| device handler, `device_handler.py` | its place in the loop; TLV or individual reads | connect, discover, poll, handle_command | polls and commands share the client; errors skip, reconnect or end the task |
| event bus, `bus.py`; state store, `state_store.py` | queue, listeners; fields per device | put, run; store the latest message | one listener's exception or delay is everybody's |
| device manager, `device_manager.py`; daemon, `daemon.py` | statuses, devices, handlers, the periodic loop | reconcile (start, periodic, reload), spawn, evict, shutdown | overlapping reconciles with an await in the middle; eviction without waiting |
| API, `api.py` | web sockets, the rate store | command, reload, shutdown, status, WebSocket, address and rate limits | look-ups before and after an await; a snapshot and a subscription with awaits between; slow and vanishing clients |
| configuration, `config.py`, `cli/config.py` | one YAML file | load, set, add-device, remove-device, reload | nothing keeps two commands apart; what runs is what some command wrote |
| MQTT bridge, `mqtt_client.py` | queue, known devices, connection | publish, discovery, commands, reconnect | halves of dead connections live on |
| shutdown watchdog, `shutdown_watch.py` | latch, deadline | reading, countdown, shutdown, reconnect | time only counts when a message comes |
| verify, `core/verify.py`, `core/ground_truth.py`, `cli/verify.py` | tier results, baseline, consent | tiers 1 to 6, ground truth, audit | every write must be undone although any command may fail |
| load test, `load_test.py` | link, log, energy so far | run, abort, summary | reads that raise, interrupts at every await |
| registers, `core/struct.py`, `core/devices/` | tables | parse a block, build a setter | fixed offsets and lengths, chosen by hand, must agree |
| mDNS, scans, other tools, web UI | none | I/O and formatting | none to speak of |

How they interact.  A *handler* and the *bus* (for a write) call `execute` of the
same *client*; the handler puts what it parsed on the bus, which hands each
message to its listeners in turn: the *state store*, the *MQTT bridge* and the
web sockets.  The *API* and the bridge put commands on the bus, whose listeners
are the handlers.  The *manager* owns the handlers, and the API asks it for
reconciles.  The command-line tools have a client of their own.

## Modules

```
RequestChannel    what execute promises: FIFO, one at a time, one end per call
   ^ implemented by (ChannelSpec)         ^ used by (INSTANCE)
BleClient <- MCBleClient               PollCycle <- PollCycleProofs
   ^ BleClientProofs
VerifyProbe <- VerifyRun <- VerifyRunProofs
DeviceManager, MqttBridge, ShutdownWatch  <- MCDaemon  (INSTANCE)
       <- DeviceManagerProofs, MqttBridgeProofs, ShutdownWatchProofs
ApiSessions, ApiGuard, ConfigFile, LoadTest  <- MCApiTools   (INSTANCE)  <- ApiToolsProofs
Handshake, Wire, Registers, Settings, Observations  <- MCRegisters  (INSTANCE)  <- RegistersProofs
```

**BleClient** is `BluetoothClient`, with the device and the link as environment.
`queue` is the asyncio lock and those who wait for it, `future`, `buffer` and
`current` are `_notify_future`, `_notify_response` and `_current_cmd`, `link`
says where `connect` is and whether `_session` belongs to this link.  `Execute`,
`Start`, `Timeout`, `Resume` and `Cancel` are the places where `execute` can
begin, wait and end; `Deliver` is `_on_notification`; `Connect*` and
`Disconnect*` are the awaits of the owner's calls.  A reply is a run of *units*,
each of which knows the request it answers, which the code does not: a unit
stands for as many bytes as lengths tell apart.  Whether a buffer passes the CRC
is then a question of whether it is one whole reply.  The handshake is one step
that succeeds or fails, and `_session` is `fresh`, `stale` or `none`.

**RequestChannel** is the abstract specification: callers queue, the head is served,
and what it is given fits its command.  BleClient implements it with `line <- queue`,
`asked <- cmd` and `given` made of the outcomes; *fits* is as weak as the code
makes it: a response is measured by length.

**PollCycle** composes one V2 device with the bus and the store over that
channel.  `pc` is the handler's place in `run`, `plan` the rest of the cycle's
commands, `counter` and `forced` the schedule of `v2_base.py`, `queue` and `busPc`
the bus, `store` the fields the API shows, each with the number of writes the
device had applied when it was read; `wrote` says that a write has gone through and no
cycle has begun since.  The five slow blocks are one block, and so
are the packs; the block of sub-devices, which `tlv_polling_commands` adds for a model
that declares some, is left out, as no model does.  A bundle is answered as a whole or
fails: whether the bytes of one can pass the client at all is Wire's question, and for the
reads of a poll the answer is no (see Findings), so a daemon whose device answers in that
form is the one whose bundled cycles fail.  What a write changes is a control register,
which no poll reads: SlowBlocksReadAgain speaks of the blocks that are read again after a
write and not of the register written.

**DeviceManager** is the daemon around the handlers.  A reconcile is two actions,
its beginning, which reads `config_addresses` and starts the scan, and
`Reconciled`, all that follows the scan.  Any number of them overlap.  Each
handler task ever started stays in `tasks` with the state of its link; `current`
says whether the device object it holds is the one in `_devices`.
`Reload` is what follows the check of `config_path` in the API, which the shipped `main()`
never passes (ConfigFile has that check): the reconciles of a reload are those of a
Daemon that was given a path.

**MqttBridge** is `MQTTClient`: `half[k]` is the message half of the k-th
connection, alive or not, since `gather` leaves it behind.

**ShutdownWatch** is the watchdog with time in ticks.  `latched` and `left` are `_latched`
and `time_remaining`; `Reading` is a message, `handle_soc` and the shutdown it may run;
`Restart` begins anew from any place but a `systemctl stop`, also after the shutdown was
run, since the unit says `Restart=always`.  `since` is the history of the
countdown: how long it has lasted.

**VerifyProbe** is tier 3 of `verify` on one register, and **VerifyRun** the whole
command as one register goes through it: tier limit, consent, ground truth,
audit.  A command returns or raises, and one that raises may have been applied.
`declared` is what the field says of itself (0 and 1, an enum's members, a range) and
`takes` is what the device takes, which need not agree: a switch register may hold
another value than 0 and 1, a number one out of its range.  `Parsed` is `parse` followed
by `_to_raw_int`, which makes such a switch 0, and `InRange` whether `parse` keeps the value;
where it does not, tier 1 has no baseline and `safe_default` is written.  What is audited
is the parsed value.  Numbers of two registers are left out.

**ApiSessions** is the WebSockets as listeners of the bus.  `bus`, `current` and
`busy` are the queue, the message under way and the listeners that have not
returned from it; `ws` is each session's place in `_handle_websocket`, `todo` the
devices of the snapshot it has still to send, `out` the frames its connection
holds.  `Sent` is `send_json`, which waits when the client does not read, and
raises when it is gone.  The list of listeners is copied at each message, so a
session that subscribes while one is delivered begins with the next.

**ApiGuard** is the middlewares before the handlers: `rate` maps an address to
the count and the start of its window.

**ConfigFile** is the file the `config` commands write, `file`, the ones before and behind
it in the search path, `others`, and the daemon, which at its start reads the first there
is, or the one it was `given`.  A command
loads the document, opens the file (which truncates it), writes, and asks for a
reload, each an action of its own; any number of commands overlap.  The answer is 503
unless the daemon was given a path, which `main()` never does; it is 401 when
the command found its key in another file, or 400 when the file cannot be loaded.  `NotReached`
is the `URLError` the command catches; an answer that is late or cut off is none, and ends
it in a traceback, with the reload applied or not (`Answered`).  `force` is the
configuration the daemon runs with, `told` what the commands have said since it
started: that a restart is due, or a traceback.

**LoadTest** is `run_load_test`: `stage` is its place, `csv` the log, `energy` what
it has added up.

**Handshake** is `HandshakeSession.run` and a device that sends each frame in up to three
notifications.  A piece is the range of bytes of its frame it holds; `stage` is what
`run` waits for, `buf` what `_collect` has, `listening` is `_handshake_mode`.  BleClient
has all of it as one step that succeeds or fails.

**Wire** has the bytes of a read as sequences: the request of a bundle with its
lengths, CRC16 on sets of bits (`CrcBit` is one turn of its inner loop, `Crc` the register
after each byte), the parser of bundles (`Turn` is one turn of its loop).  `awaited` is
`response_size`, which for a bundle is the bytes of its values and 32.  `Receive` compares it
with what has come (`heard`), in clear byte for byte, in a `session` as lengths of encrypted
frames, padded to 16: with less, the command waits until it times out; with enough, what it
checks and parses is the first `awaited` bytes, or the frame decoded.  The environment answers
in the form the parser reads, loses the end of any response, and flips bits of plain ones
in clear.

**Registers** follows each byte of a payload to the value it is shown as.  The
fields of each block, their sizes, the offsets and strides of the arrays and the
bits of the alarm tables are those of the code; a value is its field and the bytes
it was taken from.

**Settings** is the writable fields of each model with their kinds and ranges,
what `build_setter_command` makes of a value, and what the next read shows.

**Observations** is one ground-truth observation, from the blocks tier 1 read to
the comparison with the operator's answer and the scale proposed for a mismatch.

**MCDaemon**, **MCApiTools** and **MCRegisters** hold three, four and five instances.  Their
parts share no variable: `part` says which one moves in a behaviour.

What the modules leave out of the code they map: contents of registers, names,
wording and logging.

## Runs

| run | bounds | properties | shows |
|---|---|---|---|
| `client_faults` | 2 callers, 3 commands, 2 attempts, 2 calls, 2 mishaps, all faults | TypeOK, OneInFlight, RetriesNotInterleaved, AttemptsBounded, PlainReadsFit, ChannelSpec | the lock keeps one command in flight through its retries; in plain mode a response has the right length; execute implements the channel |
| `client_prompt` | 2 callers, 2 commands, 3 calls, 2 mishaps, no late replies | OwnReply, CallsEnd | every call ends and gets an answer to its own request |
| `client_late` | 3 calls, late replies only | OwnCommand **violated** | a late reply is taken for the answer to the next command of the same length |
| `poll_cycle` | counter wraps at 4, 2 writes, 2 mishaps, 3 messages | TypeOK, SlowBlocksRead, StoreNeverGoesBack, SlowBlocksReadAgain | slow blocks are read in time, readings never go back, and after each accepted command the slow blocks come to the store anew or a failure has ended the bus or the handler |
| `poll_bus` | 2 writes, 1 mishap | CommandRouted **violated** | one failed write ends the bus |
| `poll_forced` | 2 writes, no mishap | NextPollFull **violated** | the tick of the cycle under way undoes the full poll a write has forced |
| `daemon` | manager: 1 address, 2 reloads, 1 command; bridge: 2 devices, 3 messages, 3 connections; watchdog: readings below, at and above the threshold, grace 8, one restart | ManagerTyped, HandlersOwned, OneTaker, Released, ShutdownEnds; BridgeTyped, PublishedInOrder, LossBounded, EachHandled; WatchTyped, GraceGiven, RecoveryIgnored | overlapping reconciles neither lose nor double a handler, devices are released, shutdown ends; order survives reconnections, and each costs one message at most; the grace period is kept, and a countdown of a station that publishes ends in the shutdown whatever the battery does |
| `manager_command` | 1 address, no reload | CommandTaken **violated** | the handler of a device that was built again ignores its commands |
| `verify` | values 0..4, any declared range and any values the device takes, 2 commands that raise | TypeOK, Restored, RangeFound, Consented | what was changed is restored or reported but for four cases, the sweep finds the range, nothing supervised changes without consent |
| `verify_unchanged` | values 0..3, 1 command that raises | Unchanged **violated** | a field passes its identity write, its sweep and the audit, and is not as it was |
| `api_tools` | sessions: 2 devices, 2 sessions, 2 frames a connection holds, 2 messages; guard: 3 addresses, 2 of them allowed, window 3, limit 2, 1 tracked, time to 6; configuration: 2 editors, 2 commands, 2 starts, a daemon given a path or not, files before and behind the one written or not; load test: interval 2, 2 retries, 5 samples | ShowsTheStore, NeverBack, BusGoesOn, RateBounded, StaleTold, EnergyOfTheLog, EndsClean | a session shows what the store has once its client has read, but for the updates it missed before it subscribed, and never goes back; a client that vanishes does not stop the bus; nobody passes the limit twice over; where the running daemon differs from the file it would load, some command has said that a restart is due or ended in a traceback, but for `mdns` and the key of a file found earlier; energy is what the log adds up to; an interrupted test closes its log |
| `registers` | handshake frames cut at up to two of 3 to 6 places; bursts of up to 16 bits at every place of 3 payloads, bundles of 1 to 5 sections, of 2 slaves, in clear and encrypted, each short of its end by any number of bytes; 6 ways of decoding, counts 0, 1, 3, 4, 5, 16, 17; every setting of 14 devices, at the edges of its range and at 3 more numbers; 10 observations, 10 register values, all states of their blocks | EndsAsMeant, ResponseSound, ShowsWhatIsThere, WriteReadsBack, ObservationSound | a handshake ends as the device meant it, but for two frames whose pieces are not put together; no damaged plain response is taken; of a bundle the parser returns nothing that was not asked for and whole, or an error; blocks show what they declare, from where it is; a setting reads back as it was written; an observation's verdict and proposed scale are right |

Why the bounds are enough.  In the client a property needs at most two calls
that meet and one fault in each; three calls let a reply cross two calls.  Packs
of one length and a longer home block are the shapes that lengths tell apart.
The poll counter matters modulo 3, and a wrap at 4 has the same remainder, 1, as
the code's 10000 (two full cycles in a row).  Two reloads and the periodic loop
with the start give four reconciles, all of which may overlap; devices do not
share state but for the configuration, so one address shows what there is (an
instance with three reloads passes as well, in more time).  Three connections
leave two halves behind at the same time.  Values 0 to 4 have room for a hole
in the range, a gap that ends it, and a range after the gap.  The sweep's end
does not depend on 255 otherwise.  A session misses an update only between its
snapshot and its subscription, for which two messages are enough, and a second
session is the one that stalls the first; the rate store needs one address more
than it tracks.  Two commands overlap in every order, and a third can only repeat
what one of them does.  The cuts of the handshake are at, before
and after each length `run` compares with.  A CRC detects every burst as long as itself, so the
shapes of the bursts matter and the payloads do not; `RegistersResponseSound` says it of them
all.  A bundle in clear is shorter than awaited with up to four sections and longer from five
on.  Counts go one beyond each limit of the code (3 phases of a range to 4, 5 strings of a range
to 16); settings are tried at both ends of their ranges and one beyond.

`CHECK_DEADLOCK FALSE` is in every configuration: runs of bounded length end,
as do the programs of `daemon` and `verify`; that nothing hangs is what
CallsEnd, ShutdownEnds and EachHandled are for.

### Fairness

*Tasks run and sleeps end* is all that weak fairness says of the programs:
asyncio runs each ready task, and each timeout elapses.  In `client_prompt` a
request is answered or will not be: a reply does not arrive after its timeout;
`client_late` drops that.  `poll_cycle` lets commands fail as often as its
mishaps allow, and asks that a call in the channel ends, which CallsEnd shows of
the client.  In `daemon`, scans end (they have a timeout) and a disconnect
returns (BlueZ has one too); for the bridge and the watchdog, a broker that is tried again and
again is reached again and again (strong fairness of a successful connect); and the station
publishes: when a countdown is over, a reading comes at last to a listener that stays
connected or is connected again and again; nothing is assumed of its value.  A station that
falls silent is outside RecoveryIgnored, and listed under Findings.
`api_tools` asks that the bus, the sessions and the load test run, that a client of a
WebSocket reads what it is sent or goes, and
that reads return or raise.  The part about the client is an assumption the code does not
enforce: TCP gives up on a peer that is gone, and not on one that is alive and leaves its
receive window closed, so BusGoesOn says nothing of such a client, and it does stall the
bus as long as it likes.  No run assumes that the operator or the device do anything.

## Findings

Each is a counterexample TLC finds in the model and the documentation it contradicts;
`PROJECT.json` quotes the lines.

1. `client_late`: after a timeout the reply to the earlier attempt may end the
   next command with the same length (`bluetooth/client.py:132`).
2. `poll_bus`: `gather` in `EventBus.run` passes a listener's exception on, and
   nobody starts the bus again (`bus.py:53`).
3. `poll_forced`: the full poll that a write forces is undone by the tick that ends the
   cycle under way (`device_handler.py:126`, `core/devices/v2_base.py:554`); the next
   cycle, at worst the next two, leave the slow blocks out.
4. `manager_command`: a reconcile builds the device again, and its handler
   compares objects (`device_manager.py:100`).
5. `verify_unchanged`: a switch register that holds neither 0 nor 1, as a child lock does, is
   read as off, written as 0, compared with 0 and audited as off (`core/verify.py:123`).

VerifyRun's `Restored` names four exceptions, each needed (without it TLC finds a
counterexample), and the first three of them break `Unchanged`: the switch of 5; a sweep over
a device that clamps, which ends before the restore of its last probe (`core/verify.py:512`);
a write of the sweep that raised and was applied, which is not undone (`core/verify.py:458`);
and a failed restore that is not noted where a skipped or denied confirmation was
(`core/ground_truth.py:809`).  The audit at the end finds what numbers and modes were left
with, if it can read the register and `parse` keeps the value, which it does not beyond the
declared range; it does not see 5, since it compares parsed values.  After `--tier 1` there is
no audit, although ground truth switches registers.  `Consented` says nothing of tier 3, whose
fields need no consent.

Other places where the code and what is said of it differ, met while the modules were
written.  The ones marked * are exceptions in a property, which fails without them, or are
left out by an assumption of fairness; no run shows the rest.

* The shutdown watchdog: the help of `mqtt-listen` says that the host is shut down when the
  charge "drops below --shutdown-at and stays there" for the grace period, and that of the
  option "Seconds below threshold before shutdown triggers" (`cli/mqtt.py:186`, `:163`).  The
  code latches at the first low reading (`shutdown_watch.py:51`), as the class's docstring and
  the user guide (`mqtt.md:34`) say: a battery that recovers is shut down all the same, which
  is what RecoveryIgnored states.
* The deadline is looked at when a message comes (`shutdown_watch.py:69`), so a station that
  falls silent, as an empty one does, never causes the shutdown it announced (RecoveryIgnored *
  assumes a reading after the countdown); `mqtt.md:31` promises the shutdown after the grace
  period.
* The countdown lives in the process (`shutdown_watch.py:99`), and the unit restarts it always
  (`cli/services.py:242`): a restart forgets it (RecoveryIgnored *), while the docstring says
  that only `systemctl stop` prevents the shutdown (`shutdown_watch.py:20`).
* A reload of the daemon as shipped: `main()` builds the Daemon without a path although it has
  loaded a file, so `POST /api/reload` always answers 503 and no setting is applied by it
  (`api.py:297`, `daemon.py:145`; `daemon.md:83` says that most are).  ConfigFile has this
  daemon and one with a path.
* A bundle: `response_size` is the bytes of its values and 32 (`core/commands.py:195`), and the
  bundle the parser reads has 3 and 7 for each section beside them; 7n + 3 is never 32.  In
  clear one of up to four sections is waited for in vain, and one of five or more is cut
  before it is parsed, so that its last section is dropped or the parser raises (ResponseSound
  says which values may come of it); encrypted, the lengths agree only where the padding to 16
  makes them, which for the reads of a full poll is nowhere.  `polling-strategy.md:57` and
  `modbus-registers.md:134` say that such a response is read with all its blocks.  This is so
  for the format of `core/tlv.py` and of the protocol's documentation; what a station really
  sends the repository does not have.
* The store replaces a device's state with each message (`state_store.py:22`), and polling
  block by block publishes one for each block, so the API, which is to return "the full
  latest parsed state", shows the block read last.
* With `--tier 1 --ground-truth`, tiers 1 to 3 count as consented (`cli/verify.py:107`), so
  ground truth switches fields of a tier that never ran, which `verify.md:128` denies.
* A WebSocket misses an update between its snapshot and its subscription (ShowsTheStore *),
  although `daemon.md:333` promises the current state to each that connects.
* `daemon.md:178` promises 60 requests in 60 seconds; the windows are fixed, so twice as many pass
  around the end of one (RateBounded * states the double).
* A change of `mdns`, and of the key where the command found it in another file than the daemon's,
  counts as applied by a reload, and is not (StaleTold *); `allowed_networks`
  is not applied either.  `config set` without a file writes one with an empty `api_key`, which
  `load_config` refuses.
* The `config` commands write the file of the user's configuration directory, and the daemon and
  `config show` read the first of a search path, which may be another.  A reload whose answer
  is late ends the command in a traceback, since it catches `URLError` only
  (`cli/config.py:209`).
* An aborted load test leaves its link open when the disconnect fails or a second interrupt comes
  in it (EndsClean *).  A handler that ends with an exception leaves its link to the shutdown,
  which disconnects only the handlers it cancels (ShutdownEnds counts it as ended *).
* A setter writes a DecimalField unscaled (registers 2211, 2212, 2214, 2216: WriteReadsBack *).
  The child lock is written as 0x20 or 0x10 and shown as a switch that is on at 1 (*).  A
  word that means nothing turns a switch off (*).  EL100V2 never reads three settings it
  writes (*).  The V1 setters drop no unit, and `system_time` fits no register.
* The V1 serial number, registers 21 to 24, overlaps the first version at 23
  (ShowsWhatIsThere *).  Fields of the home block from 162 on, and of the base block from 1151
  on, lie beyond the registers that are polled.  Pack alarms need more bytes than a pack is
  read for.  Two alarm bits with one name are shown as one.
* A challenge cut after its seventh byte and a status-ack in two notifications fail the
  handshake (`bluetooth/handshake.py:172`, `:184`, EndsAsMeant *).
* The items of a bundle have CRCs that nobody checks (`core/tlv.py:46`), so a bundle in clear whose
  bytes were damaged on the way would pass; the runs damage plain responses only.
* Of two fields with one name the one parsed last is kept, while the raw register that is
  looked up is the first (`core/ground_truth.py:357`, ObservationSound *).
* `mqtt_client.py:513` has its own table of charging modes, and the pattern of command
  topics has no digits, so `pv2_type_set` never matches.
* The load test's summary fails without a sample, and leaves the link open when a check
  before the test fails (`load_test.py:58`).

## Proofs

`BleClientProofs` holds for any number of callers, any commands and
lengths, any set of faults, any number of retries, calls and mishaps
(ClientAssumption: expected lengths are positive, the owner is a caller).

* `ClientTypeOK`.  TypeOK alone is not inductive: `Grounded` adds that a caller
  inside execute has a command, that the device holds only requests that were
  written, and that a future that can be completed belongs to a command and is
  completed with at least one unit.
* `ClientOneInFlight`, with `LockInv`: the queue holds exactly the callers inside
  execute, each once, and whoever has written is at its head.  Cancelling a caller
  in any place of the queue is the interesting case.
* `ClientRetriesNotInterleaved`, with `LogInv`: the requests of a caller in flight are
  the end of the log, so the next one belongs to the same call or to a call without
  requests.
* `ClientAttemptsBounded`, with `AttemptInv`: a call in flight has written one request
  more than it has retried, and a call that waits has written none.
* `ClientPlainReadsFit`, with `ReplyInv`: every unit on its way, in the buffer or in a
  completed future answers a request of the log; without a session nothing of an
  encrypting device is in the air; a completed future fits the command it is for, since
  the buffer is as long as that command expects.
* `ClientOwnReply` has a hypothesis, `Prompt`: the device answers before the timeout or
  not at all, no task is cancelled, the module sends nothing on its own, and no reply is
  shorter than an exception frame.  It needs all four: run `client_late` shows what a late
  reply does.  Drops of the link, silence and retries remain.  By `PromptInv` the device
  has a request, or pieces of its reply are on their way, only while the caller who wrote it
  waits, and all that was gathered is of the latest request.
* `ClientImplementsChannel`, the refinement as a theorem: from the same invariant, a call
  is a `Submit`, the end of the holder's call a `Serve`, a cancellation a `Withdraw`, and
  all else, retries, deliveries and the link, stutters.

`PollCycleProofs` holds for any bounds and any value at which the counter starts over
(PollAssumption).

* `PollTypeOK`: a handler that waits for an answer still has the command in its plan.
* `PollSlowBlocksRead`, with `Schedule`: the cycles already done without the slow blocks
  and those still to come before the counter is a multiple of three are two at most, and
  two more for each write that set the counter back.
* `PollStoreNeverGoesBack`, with `Readings`: store, messages in the queue and the device's
  version are in the order of the writes they show.

The next three modules are about the composition MCDaemon under the assumptions of its
three parts (DaemonAssumption).  A step of the composition is a step of the part or leaves it
as it is (`ManagerMoves`, `BridgeMoves`, `WatchMoves`), so the invariant of a part is one of all.

`DeviceManagerProofs` holds for any finite set of devices (ManagerAssumption: "no scan" is
not an address).  `ManagerHandlersOwned` and `ManagerOneTaker` need each other and
`OneCurrent`: a device in `_devices` belongs to one task at most, although a reconcile
awaits a scan between looking and building.

`MqttBridgeProofs` holds for any devices, messages and connections (BridgeAssumption).
`BridgePublishedInOrder` follows from `Queued` and `Ordered`: what a half holds was taken
before what waits, and only the half of the live connection can publish.
`BridgeLossBounded` follows from `Accounted`: a loss is the last thing a half does.

`ApiToolsProofs` holds for the composition MCApiTools under the assumptions of its four
parts (PartsAssumption): any devices, sessions and room of a connection, any addresses,
limits and windows, any number of config commands and starts, any powers, intervals and
retries.  A step of the composition is a step of one part (`OneOfTheParts`), so each
theorem rests on the invariant of its part.

* `ApiNeverBack` rests on `BusOrder`, the store runs before the sessions' listeners, and
  on `SessionOrder`: the frames on their way are in order up to `Coming`, what the session
  will send of a device next.
* `ApiShowsTheStore`, with `ShownInv`: for every session and device, the last frame on its
  way has what the store has, or the device is still to be read for the snapshot, or a
  listener is about to send it, or it is missed: updated between snapshot and subscription.
* `ApiRateBounded`, with `GuardInv`: what was passed in the current window is what is
  counted, and no stretch that begins before the window has more than the limit ahead of
  it; a stretch of one window's length meets two windows at most, hence the factor two.
  An address that the sweep forgets had a window that was over.
* `ApiEnergyOfTheLog`, with `LoadInv`: twice the energy is between 2 * low * span and
  2 * high * span, with low and high in the log and the span ending at the last sample, not
  at the present; failed reads lengthen the next trapezoid and leave no hole.
* `ApiStaleTold`, with `FileInv`: StaleTold speaks of the moments when every command has
  ended and compares the daemon with `Source`, the file it would load now, wherever in the
  search path that is.  `TellingOwed` says of the other moments that a command which has written
  the last difference has still to ask for its reload, where it says something or the daemon
  takes the file over.
  The write that a command makes over another's is covered because each writer owes for
  itself; a reload that is refused, not reached or ends in a traceback has said so; one that is
  applied leaves a difference in `Unnoticed` at most.  A daemon without a path refuses all of
  them.

`VerifyRunProofs` holds for any range, any device and any commands that raise
(ProbeAssumption).

* `VerifyTypeOK`: TypeOK needs `Typed`, that a report is written once and that a probe goes
  on only where fewer than two values in a row were rejected.
* `VerifyConsented` rests on `Baselined`, that nothing is written before
  tier 1 has read, and on `Permitted`, where a run can stand without consent.
* `VerifyRestored`, with `Settling`: between a write and the end of its restore the register
  may be anything; in every other place it is what it was, or the excuse is on record.  What is
  restored is `original`, which is `Parsed` of the register and so its value but for an odd
  switch.
* `VerifyRangeFound`, with `Sweeping`: the values behind the sweep that the device takes are
  those accepted, and no gap of two lies among them but one that has just ended.  It holds
  for values that are not contiguous, of which the code finds the first run.

`ShutdownWatchProofs` holds for any threshold, grace period, readings and number
of restarts (WatchAssumption).  `Accounted`, the seconds since the latch and the
seconds left are the grace period at least, makes TypeOK inductive, and
`WatchTypeOK` and `WatchGraceGiven` follow.  A restart, from whatever place, forgets the
countdown and its history together, so no shutdown is run by the countdown of another process.

`RegistersProofs` holds for any cuts inside the frames and any number of pieces of each, any
payloads, any bursts of up to sixteen bits, any sections whose numbers fit their two bytes and as
many of them as one request can hold (41), any counters and alarm words, any words of the
registers observed and any numbers a user sets or an operator enters (RegistersAssumption).

* `RegistersEndsAsMeant`: EndsAsMeant speaks of the two places where run ends, and says nothing
  of the others.  `ShakingInv` does: `Places` pairs each place of the client with those the
  device can be in, and `Coming` says for each pair what `Stream`, the notifications that are
  queued or on their way, can hold.  Either what has been collected is the beginning of the
  frame run waits for and the stream has the rest of it (`Partial`, `Rest`), or the history
  says why not: a piece was missed, or the challenge or the status-ack was cut where run takes
  a part for the whole, and a stray piece of it is what the next read finds (`Stray`,
  `HalfAck`, `Spoilt`).  `Statuses` keeps a good confirmation out of a stream whose device has
  not accepted.  A frame that is sent adds pieces that follow each other (`SendsPieces`),
  reading one leaves the rest of the frame (`RestTail`).
* `RegistersObservationSound`: a reading rounded to a whole number is at most half a unit away
  (`RoundedNear`), within every tolerance; with whole blocks what is compared is what is shown
  (`ComparisonComplete`).  Of the three scales infer_scale tries in turn, the first that fits a
  reading of the display is the device's (`ScaleFound`), but for a raw number of one that stands
  for a tenth and is read as nought; such a reading is within the tolerance, and no scale is
  proposed (`LeastMatches`).

* `RegistersWriteReadsBack`: `ModelsRead` says of each model's tables that a field has one
  kind and lies in the registers that are read (`KindsApart`, `AllRead`), and `AcceptedShows`
  that for a field of one kind the word that is accepted decodes to the number meant, whatever
  the number; the run tries numbers at the edges of each range, the theorem every number.
* `RegistersShowsWhatIsThere`, with `ShownInv`: the fields of each block lie one after the other
  (`Spaced`), so no byte is two of them (`ParseApart`); its arrays begin behind its fields
  (`FreeOf`, `GroupsApart`), their elements are a stride apart, and as many of them fit the
  length that is polled as there may be (`ArrayRight`, `AlarmsOf`).  One lemma for each block
  (`HomeRight` to `V1Right`) checks its offsets.  The only overlap that the proof
  leaves is the one `Known` names.
* `RegistersResponseSound`, with `Answered`: a response is a frame (`AnsweredPlain`) or a bundle
  of what was asked (`AnsweredBundle`), whole, hit by one burst, or short of its end, and `Came`
  bounds what has come of it.  A plain response is as long as awaited, so one that lacks its end
  leaves the command waiting, in clear and, by the length of the encrypted frame, in a session.
  For the CRC, the register is linear (`BitLinear`):
  two registers that ran over two frames differ by what the burst alone would leave.  Until the
  burst that difference is nothing but the bits to come (`BitShifts`); from then on it stays in
  sixteen bits and is never nothing (`HitBit`, `HitEight`), since a shift loses the lowest bit
  only where 0xA001 brings in the highest.  So `Hit` is an invariant of the loop over the
  bytes, and at the end the two bytes of the CRC cannot meet it (`EndsMeet`, `FrameHit`).  For
  the bundle, the parser stands after its k-th turn at the end of the k-th item and has the
  first k (`TurnAt`, `ParsedWhole`); of a bundle cut anywhere, as `response_size` cuts one in
  clear, it has some first items when it stops, or the error (`ParsedCut`).  One that is taken
  encrypted is parsed whole.  What was asked for is what the request's bytes say (`AskedIs`):
  the count of a section goes out in bytes and the lengths add up.

The library's induction theorems take an operator, which the provers cannot instantiate.  The
loops over bytes are proved about as recursive functions instead: `FromZeroOn`, induction over
a set, follows from a least number that it lacks, and `StepsExist` says by it that a function
defined step by step has the values its steps give.

Every safety invariant and action property of the passing runs is stated by a theorem.
Only model-checked: all liveness (`CallsEnd`, `BusGoesOn`, `EndsClean` and the rest), since
fairness is beyond the prover, and the claims the violation runs refute.

## Not modelled

Cryptography; mDNS, the web page, scans and the output of
the tools; names, units, scales and text of registers; the tables of pack alarms and of
the MQTT fields; V1 devices beyond their registers and what the client does for them;
the source watcher that ends the process; more than one register of a verify run, so the
audit's count of unreadable fields is missing; the induced checks of ground truth, which write
nothing; the analysis of a load test's log after the test, and an error of the disk while it is
written; the check of the peer's public key in the handshake; the block of sub-devices; damage
of encrypted frames and of bundles other than a lost end, and of plain responses in clear other
than a burst or a lost end.  The vendor's app, while it has the
link, changes nothing.  The scripts beside the package compare versions of the vendor's app and
are not part of the program.

## Plan

What would come next: the poll of a V1 device as a second instance of PollCycle's plan;
scrubbing of reports and the MQTT field tables as operators.
