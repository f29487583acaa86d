# alicatlib in TLA+

Specifications of [alicatlib](../src/README.md), an async Python library that
drives Alicat flow and pressure instruments over RS-232 and RS-485, with the TLC
configurations that model-check them and the TLAPS proofs about them. Paths
below are relative to `src/src/alicatlib/` unless they say otherwise.

## 1. The system

| component | state | operations | modelled in |
|---|---|---|---|
| protocol client `protocol/client.py` | the port lock (`anyio.Lock`, first come first served), the streaming latch, `drain_before_write` | `query_line`, `query_lines`, `write_only`, `_mark_streaming` | `AlicatPort` (who), `Wire` (what) |
| session `devices/session.py` | unit id, lifecycle state, device info, data-frame format, caches of the set-point source and loop variable | `execute` (gates, encode, dispatch, decode), `poll`, `refresh_*`, `change_unit_id`, `change_baud_rate` | `AlicatPort` (lifecycle), `AlicatSession` (gates, caches) |
| streaming session `devices/streaming.py` | entered flag, frame buffer, producer, drop count | `__aenter__`, `__aexit__`, `__anext__`, producer | `AlicatPort` (lifecycle), `Wire` (frames) |
| transport `transport/serial.py` | the port or none, rate, pushback bytes | `open`, `close`, `reopen`, `write`, `read_until`, `read_available`, `drain_input` | `AlicatPort`, `Wire` |
| manager `manager.py` | `_devices`, `_ports` with reference counts, `_state_lock`, `_closed` | `add`, `remove`, `close`, `poll`, `request`, `execute` | `AlicatManager` |
| recorder `streaming/recorder.py` | buffer of batches, counters, tick | `record`, producer, `_publish` | `Recorder` |
| sinks `sinks/` | schema lock, connection, `pipe`'s buffer | `open`, `write_many`, `close`; `pipe` | `Sinks`; `Recorder` |
| factory `devices/factory.py` | none of its own | `open_device`: stream recovery, identification, probes | `Opening` |
| discovery `devices/discovery.py` | a lock per port, a limiter, confirmed rates | `probe`, `find_devices` | `Opening` |
| facades `devices/base.py`, `_controller.py`, ... | none but the session | one method per command | `AlicatSession` |
| commands `commands/`, `firmware.py`, `devices/models.py` | none | encode, decode, gates | `Catalog` |
| tuner `../scripts/pid_autotune.py` | saved state, trial cache, search | `cmd_tune` | `Autotune` |
| parser, registries, EEPROM monitor, sync facade, errors, logging, test doubles | little or none | | section 7 |

Sessions of one port share one client; the manager creates the clients and
counts the devices on each. The recorder polls the manager; sinks consume the
recorder. A stream bypasses the client: it borrows the lock to switch the
device's mode, sets the latch, and then reads the transport with no lock at
all; what keeps others away is the latch they check before they queue.
`open_device` goes through a client of its own, or the caller's, but recovers from a
stream with a raw write.

What is hard is concurrency within one event loop. Every `await` is a place
where other tasks run, where a cancellation may arrive (a timeout around a call
is one), and after which what was read before may be stale. `PROJECT.json` lists
these hazards line by line, each with the properties that would catch it. What
makes the components correct:

* port: one transaction in flight; one streamer; the latch is neither lost nor
  leaked; bytes encoded early reach the right device; unit ids on the bus stay
  unique; after a rate change the two ends agree or the session is BROKEN;
  whoever waits for the lock gets it;
* wire: an answer is the answer to its own command; frames are neither torn,
  reordered nor dropped without being counted;
* session: what the gates let through the device understands as it was meant;
  what was checked or captured before an await is still true after it;
* opening: nothing is concluded of a device that is not so; ports are given back;
* manager: one client per physical port; transports are neither leaked nor
  closed while in use; a dispatch answers for every device and ends;
* recorder and sinks: no batch lost without being counted, cadence without
  catch-up bursts, a schema locked once and only for a table that exists, and what
  a sink acknowledged stays;
* tuner: the loop is left as it was found, or on gains that were proved in trials and are
  confirmed, round by round, to be better than those it came with.

## 2. Plan

The plan is done. Each module below is written and its runs pass; every invariant and
action property the runs check is proved (section 6). What stays with TLC is what the
prover cannot do: the properties that need fairness.

## 3. Modules

Modules meet at narrow places, which is why each is checked alone. `AlicatPort` shows
that transactions exclude each other; `Wire` and `AlicatSession` start from there and
take a port that serves one task at a time. `AlicatManager` sees a command and an
`open_device` as "succeeds" or "fails". `Recorder` sees a poll as a batch or an
exception. `AlicatSession` and `Opening` share the commands of `Catalog`.

### AlicatPort

One serial port. `pc[t]` is the await a coroutine is at, `job[t]` what it captured
before it awaited, so that "encoded before the lock, sent after it" is in the
model: `Execute` stores the session's id in `job`, `SendCommand` uses that copy,
while `StartStream` and `StopStream` read the session's current id, as the code does.

| variable | code |
|---|---|
| `lock` | `AlicatProtocolClient._lock`: owner, then waiters in order |
| `latch` | `AlicatProtocolClient._streaming` |
| `pc`, `job` | a coroutine's program point and locals |
| `sess` | `Session._unit_id`, `_state`; `doubt` is a history variable: a rename ended in an exception |
| `dev` | what the instruments know: address and rate (external) |
| `line` | the transport's rate and whether it is open |
| `loose` | history: the sessions whose device was let go while it streamed, and has heard no stop since |

Operations: `Session.execute` (`Execute`, `Acquire`, `SendCommand`, `ReadReply`),
`change_unit_id` (`ChangeUnitId`, `SendRename`, `Verified`, `VerifyFails`),
`change_baud_rate` (`ChangeBaudRate`, `SendBaud`, `Reopen`, `ReopenFails`,
`AckFails`, `Verified`, `VerifyFails`) and a `StreamingSession` (`EnterStream`,
`RefuseStream`, `MarkStreaming`, `StartStream`, `StartRaises`, `LeaveStream`,
`LeaveCancelled`, `AskToStop`, `AcquireToStop`, `StopStream`, `StopCancelled`,
`Drained`). `WriteRaises` and `CancelWait` are shared. A step between two awaits is
one action.

The bus is modelled as the library relies on it: a command is heard by every
device with that address and the line's rate (`Hears`), the addressee may miss or
refuse it (`Outcomes`), a streaming device answers to `@`. Two choices are
deliberate. A write that raises or is cancelled may or may not have reached the
device. A device is let go (`loose`) by the steps that may leave it streaming without a
streamer: a start that raises after it was heard, a stop that is lost or cancelled, an
exit cancelled while it waits for the lock, a rate moved or a port closed under its stream.
`StoppedOnExit` says that nothing else does. The rename targets offered are *vacant* ids: the docs leave to the caller
that no other device has the new id, and a caller who breaks that rule makes a
collision no library could prevent.

### PortArbiter

What the client promises, in two variables: the tasks in a transaction (at most
one) and the streamer (at most one, and only opened from a silent wire with no
streamer). `Arbitrates` says `AlicatPort` implements it under `busy <- {t : OnWire(t)}`,
`streamer <- {t : Streams(t)}`.

### AlicatManager

| variable | code |
|---|---|
| `devs` | `_devices`, in insertion order (close unwinds it backwards) |
| `ports` | `_ports`: per canonical key the transport and the references |
| `link` | which port each `SerialTransport` of the manager has open |
| `closed` | `_closed` |
| `act` | the `add`, `remove` or `close` that holds `_state_lock`, at its await |
| `disp` | one `_dispatch`: per group the members left and the one awaited, the results |

`poll`, `request` and `execute` differ in the command only and are one dispatch;
they do not take the state lock, so every step of a dispatch interleaves with
`add`, `remove` and `close`. The members of a group are asked in any order, which
covers the one the code takes. `open_device` is "identified" or "fails": it needs an
open transport and may fail on one. `Failures` says which adds may fail (to a new
port, to a shared one) and whether a call may be cancelled in a teardown.
`RealPath` is the canonical form of a path: two spellings of one port have the
same image. A device is identified by its name, so a device that was removed and
added again is taken for the old one by a dispatch that is under way.

### Recorder

`record` and, in its body, `pipe`. A sample is the number of its tick, a batch the
samples of the devices that answered, so a sequence of samples shows what was
recorded, what was lost and in which order.

| variable | code |
|---|---|
| `now` | `anyio.current_time() - start` |
| `call` | `record`'s `overflow` and the `total_ticks` it computes from `duration` (0 is `None`) |
| `prod` | the producer's await, `tick`, the batch it has in hand, when its poll started |
| `queue` | the memory stream's buffer (external; a blocked sender's batch is `prod.batch`) |
| `sum` | `AcquisitionSummary.samples_emitted`, `samples_late` |
| `pipe` | `pipe`'s await, `buffer`, `last_flush`, `now` before a flush, its own `samples_emitted` |
| `sink` | what the sink has stored (external) |
| `body` | the `async with` is open, leaving or closed |
| `sent` | history: the batches the stream accepted |

`Advance` is the top of the producer's loop with no await in it (skip, late count,
target), and is part of every action that comes back to it: `PollReturns` when the
batch is accepted or dropped, `SendReturns` when a blocked one was. A `send` that
waits ends in two steps, because the consumer admits the batch before the producer
resumes; the model lets a cancellation come between. A producer that raises closes its side
of the stream (`PollRaises`) before the task group hears of it (`ProducerFailed`):
`pipe` may see the end of the stream first. A `write_many` that raises or is
cancelled may have stored any prefix of the buffer.

### Wire

One client, one device, the bytes between them. A line is two pieces of which the
second ends it, enough for a line to be cut anywhere it matters.

| variable | code |
|---|---|
| `cfg` | `drain_before_write`, the `OverflowPolicy`, `strict` |
| `owed`, `rx` | pieces the device has still to send; the port's input buffer (external) |
| `push`, `buf` | `SerialTransport._pushback`, the local `buf` of `read_until` |
| `lines`, `answer` | the lines `query_lines` has so far; what the last query returned |
| `frames` | what the device has pushed; `made`, the lines the producer dispatched, each by the device's frame it is or 0; `dropped_frames` |
| `queue`, `taken` | the memory stream, what `__anext__` returned: places in `made` |
| `left`, `clean` | history: an earlier transaction may have left pieces; none were under way |

A read that times out puts what it has back (`read_until`); one that is cancelled
forgets it, as the code does. `query_lines` ends at `max_lines`, at `is_complete` or
at the idle timeout, and then has what it has. `AnswersMatch` is conditional on
`clean`, because without a drain (the default) one late reply makes every later answer
the answer before it; the condition says which user has the guarantee.

The producer's parse counts tokens and looks at no unit id, so a line that is no frame of
this stream may still become one: a late reply, a fragment, a fragment and the line it ran
into. `Verdicts` has the outcomes for each line, a bare end of line among them, which is
skipped under `strict` too. `FramesHonest` therefore speaks of two things: what the producer
made reaches the consumer in order, once, or is counted; and the device's own frames
keep their order among it, and are all of it if the stream began with nothing under way
(`clean`).

### AlicatSession and Catalog

`Catalog` is the declarations of `commands/` as records: token, forms that ask and that
set, gates, reply lengths; and the order of firmware versions. `AlicatSession` has two
tasks call the facade: a call looks at the caches, passes the gates of `execute` in
their order, queues on the port (`line`), and at its reply updates the caches.

| variable | code |
|---|---|
| `info` | `Session._info`, with the units its `full_scale` was read in |
| `dev` | the device's units, source and loop variable (external) |
| `cache` | `_data_frame_format`, `_setpoint_source`, `_loop_control_variable`; `ranged`, the keys of `DeviceInfo.full_scale` |
| `line`, `job` | who waits; what was sent and what was captured before the wait |
| `doubt` | history: a change was sent and its reply lost |

A session begins as the probes of `open_device` left it, and each of them may have had no
reply: any subset of the ranges of its frame's fields is known, the loop variable or not (`Probed`). A set-point is
checked as `_validate_setpoint_preconditions` does: its sign, the cached source, and the range
only if variable and range are known; with `BIDIRECTIONAL` the range goes below zero.
`SetpointSound` promises no more than was known, and no less.

`Interprets` is the device's own reading of a token (external), against which
`Understood` holds the gates.

### Opening

`open_device` of a path, a transport or a client, and `find_devices`: each is a job
that asks, waits for a reply, a refusal or silence, and goes on. `info` grows as
`identify_device`, its fallback without `VE` and the probes fill `DeviceInfo`; the job's
transport, the port lock and the limiter slot are in `open` and `step`. Two devices may
share a bus, either may stream. A reply may be lost (`MaxLost`), not late: lateness
is `Wire`'s. An exchange may also fail with the port (`broken`). The probe report is in the
model as the code builds it: every capability starts absent, of a GP device all stay so, a refusal,
a silence and a garbled reply are told apart, and any other failure is "absent" again
(`AllAbsent`, `Says`). `FactsTrue` says what may be concluded from it: "present" is true;
"absent" is false only of a flag that has no probe, of a device that passed for GP, or where the
port failed. The model rules are the prefixes of `MODEL_RULES`.

### Sinks and AppendLog

Each of the six sinks, driven by one caller through `open`, `write_many` and `close` in any
order. `schema` is the locked schema, `ready` the prepared statement or writer, `table`
what the backend stores; a sample is the call that brought it and the type of its value
in each column. `AppendLog` is what a driver may rely on: whole batches in order, a yes
only for a batch that is stored, with three weaknesses a sink may have (torn batches,
starting over, volatility). `KeepsLog` says that each sink implements it with exactly
the weaknesses its kind has.

### Autotune

`cmd_tune` from its backup to its restore. An action is one command with its retries,
or one stretch of sampling; a command that failed has or has not been obeyed. `trial`
is the trial that runs, `cache` and `lastGood` are the `Runner`'s, `search` the locals of
`compass_search`, `todo` and `failed` what `restore_after_tune` has left and could not
do. Gains are small numbers, costs a few values, `noise_sigma` is chosen at every use. Of the
trials of some gains `cache` keeps how many completed, what they cost in all and how many were
aborted: the code only takes their mean, or that of the ones that were not aborted.
The restore catches `AlicatError` and `GainWriteError`. An algorithm code that is none of
`Algorithm`'s is a `ValueError`, which goes through `attempt` and through the ramp-back
(`Escapes`): what was still to do then stays undone and unreported, as after a Ctrl-C
(`CutShort`). `Restored` counts it as left undone, and says when that can be.
`gain_ramp` is above one and `--final-setpoint` absent.

## 4. Runs

Constants that are sets get their values in the `MC` modules.

| run | bounds | what it shows |
|---|---|---|
| `port_faults` | 3 tasks (symmetric), 2 sessions, 2 rates; every write may fail, every unshielded await but the first of a stream's exit may be cancelled | types; `OneInFlight`; `LatchIsOwned`; `StoppedOnExit`; refinement of `PortArbiter` |
| `port_rename` | 2 tasks, 2 sessions, 3 ids; waiting, writing and leaving may be cancelled | `Addressed`, `CachedIdTrue`, `RenameVerified` |
| `port_live` | 2 tasks, 2 sessions, 2 rates, fair | `BaudReconciled`, `WaitersServed`, `ExitClearsLatch`, `BaudChangeReturns` |
| `port_leak` | violation | a stream left in a cancelled scope leaks the latch |
| `manager` | 2 names, a port with an alias, a caller's client, 2 transports, `RETURN`; any add fails, any call is cancelled in a teardown; fair | `PortsSound`, `RefsExact`, `CompleteOrLost`, `DispatchEnds`, `CloseEnds` |
| `manager_shared` | violation | a failed add to a port in use closes it under its devices |
| `recorder` | 2 devices, 2 time units a tick, no duration, 2 or 3 ticks, both policies, stream of 1, batches of 2, 6 time units; polls, writes and the body fail | types; `SlotsAccounted`, `OnSchedule`, `NothingLost`, `CountHonest`, `ReturnMeansWritten`, `RecordingEnds` |
| `wire` | 2 transactions of 3 shapes, 3 frames, buffer of 1, 3 policies, drain on and off | `AnswersMatch`, `FramesHonest` |
| `session` | 2 tasks (symmetric), 15 devices, on both sides of every cutoff, two units, two variables, the range of each field of the frame (10v05 has one, the others two) and the loop variable known or not, a negative set-point and one that only one range has | `Understood`, `RoutesOpen`, `LabelsTrue`, `SetpointSound` |
| `opening` | every way to open, alone or with a second device, with and without hints; searches of 3 combinations over 2 ports and rates, 1 or 2 slots; 2 lost replies | `FactsTrue`, `RecoveryAimed`, `PortsAccounted`, `SearchComplete` |
| `sinks` | 6 sinks, 4 batches of 2 rows over 2 columns, 3 existing tables, 3 writes, every failure | `OpenHonest`, `RowsFitTable`, `KeepsLog` |
| `autotune` | 2 gains up to 4, 2 trials of search, a confirmation, 3 command lines | `Restored`, `OnlyProven`, `BestConfirmed` |

Bounds. Three tasks give a lock holder, a waiter that was gated before a change
and a third that queues behind both; the proofs of section 6 cover any number.
Two sessions are the least for an address collision or a misdirected command,
three ids the least for a rename, two rates the least for a disagreement. In the
manager two names fill a shared port, or fail an add on it while the other is polled;
two transports are enough because a closed one nobody refers to is as good as new.
The recorder's clock stops at `MaxTime`, which no duration exceeds; six units are
enough for a poll or a write to overrun by two ticks and for a recording to skip,
block and drop before it ends. A stream of one is full after one batch, and a tick
with two answers reaches `batch_size` while one with a single answer waits for
`flush_interval`. On the wire two transactions are the least for one to read what the
other left, three frames the least to overflow a buffer of one while the consumer has
taken one. Two tasks are the least for one to make the other's check stale. Two lost
replies defeat both of the queries that name a firmware. Three writes give a sink one
before, one during and one after a failure, a close or a crash. The tuner's two trials of
search let the second be compared with the first, and a gain at its bound makes a move no move;
one round is the least that can be missing from the count `BestConfirmed` looks at, and the
proof has any number of them.
Nothing else is unbounded, so no run needs a state constraint.

Deadlock is checked except where the system really may stop: `wire` and `autotune` end when
their transactions and their program do, `opening` when the last job is done.

Some properties hold only under a condition, and the condition is a constant of
the run or a history variable the property names. `port_rename` has no lost stop and no
exit cancelled while it waits for the lock: with either the latch is cleared and the device
streams on, at `@`, next to whatever the port is used for then, and `Addressed` fails.
`port_faults` has all of that, and `StoppedOnExit` holds there. With `"leave"` among the cancellable awaits
`LatchIsOwned` promises only that the latch is set for a streamer, not that it is clear
without one; `port_leak` shows why. `BaudReconciled` is stated for a device whose address
nobody shares. `LabelsTrue` and `SetpointSound` exempt a reply of another task's change
that came during the wait (`crossed`) and a change whose reply was lost (`doubt`):
the code has no protection against either. `Restored` exempts what section 7 lists.

## 5. Fairness

`port_live` assumes weak fairness of each task's `Progress`: what is below it is
bounded by a timeout in the code (`write_timeout_s`, `default_timeout_s`, the shields
of the lifecycle changes) and anyio resumes every ready task. The drain of a
stream's exit has an idle timeout only, so `Drained` is fair only while the wire is
silent. Leaving a stream is the caller's choice and is never forced, nor is any
call. `manager` assumes weak fairness of the call in progress (`Work`) and of
the dispatch (`Poll`): their awaits are opens, closes and commands, which end.
`recorder` assumes weak fairness of the clock, the producer, `pipe` and the exit:
polls and writes end, and the event loop resumes whoever is ready. It also takes the
loop to be punctual: time does not pass between the end of a sleep and the producer's
resumption (`Tick`), so `OnSchedule` bounds a poll's start up to the loop's latency.
No failure is forced.
`opening` assumes weak fairness of every job that runs: each of its awaits is a command,
an open or a sniff with a timeout, or a lock or slot whose holder is such a job.
The other runs state safety only.

## 6. Proofs

Every theorem below is of the specification itself, for every value of the constants
that the `ASSUME` of its module admits; the runs of section 4 check the same properties
on small values and with everything enabled. An inductive invariant is stated at the top of
each proof module, one lemma per action says that the action keeps it (or one per kind
of step, where many actions look alike from what the property sees), and the
last lines derive the theorems.

### AlicatPort_proofs

For any number of tasks, sessions, ids and rates; `PortAssumption` says that sessions
start with different ids and that `@` is not one.

| theorem | states |
|---|---|
| `TypeCorrect`, `InFlight`, `LatchOwned` | `[]TypeOK`, `[]OneInFlight`, `[]LatchIsOwned` |
| `Implements` | `Arbitrates`: the port implements `PortArbiter` |
| `RateReconciled` | `BaudReconciled` |
| `ExitStops` | `[]StoppedOnExit` |
| `AddressedOne`, `CacheTrue` | `[]Addressed`, `[]CachedIdTrue`, under `NoStopLost` |
| `RenameIsVerified` | `RenameVerified`, under `NoStopLost` |

`LockInv` is `TypeOK` and "a task on the wire is at the head of the lock's queue". Neither
half is inductive alone: releasing is `Tail(lock)`, which needs a queue that is not empty,
and that follows from the releasing task being its head. The latch and the refinement do
not look at actions again: `StepKinds` classifies every step, seen from outside, as one of
six kinds, and `LatchStep` and `ArbStep` have a case per kind.

`ExitStops` needs none of the assumptions below. Its invariant `ExitInv` says that a device
that streams and was not let go is `Attended`: the latch is set, the port open, the rates the
same, and no exit has written its stop yet, so that the stop will be heard. A command never
turns a device's stream on or off by accident because a streaming device has no unit id to be
addressed by (`SentPast`); a rename while it streams changes the id the stop gives it, not whether it
hears it.

`PortInv` adds the queue (`QueueSound`: nobody twice, nobody who is done) and the
addresses (`AddressInv`). `Addressed` is about devices; what makes it hold is about
promises: of two sessions neither has, nor is about to be given by a rename, an id of the
other (`IdsDisjoint`, `PromisesKept`); nobody else has, or is given before the command is sent,
the id a queued command was encoded with, because the queue keeps a rename to that id behind
it (`EncodedOwn`); a device at `@` is the one of the streamer (`StreamsOwn`).

`NoStopLost` is one rate, no failing write and no cancellation but of a wait, a
write or the beginning of an exit: the constants of `port_rename`. Without it the
three theorems that assume it are false, for the reason section 4 gives: the write that stops a stream is lost, the
latch is cleared, and the device answers to `@` on a port others use.

### AlicatManager_proofs

`ManagerTypes`, `PortsAreSound`, `RefsAreExact`, `DispatchComplete`: `[]` of `TypeOK`,
`PortsSound`, `RefsExact` and `CompleteOrLost`, for any names, paths, aliases, transports and set of
failures. The types, which the other proofs need, are proved and not a property of the run.
`ManagerAssumption` says that `RealPath` is idempotent and that names, paths and
given clients are different things, `NoneIsNoEntry` that `None` is not an entry.

`RefsExact` speaks of the moments between two calls. `RefsSound` says what holds during
one: the one device that has left the registry and is still among the references is the
one whose port is being torn down, and the one open transport without a reference
belongs to the add or the teardown in progress. `ActSound` ties that call to its port, and
`LinksSound` each transport to one entry. The
dispatch needs no more of the registry than its types; `NobodyForgotten` says that
whoever was asked has a result, is being asked or is left to ask.

### Recorder_proofs

`RecorderTypes`, `Accounted`, `KeepsCadence`, `NothingIsLost`, `CountIsHonest`,
`ReturnedIsWritten`: `[]` of `TypeOK`, `SlotsAccounted`, `OnSchedule`, `NothingLost`,
`CountHonest` and `ReturnMeansWritten`, for every period, duration, capacity, batch size
and number of devices (period and sizes are positive).

`RecorderInv` has types, counters and cadence. Its part `SleepsUntilSlot` says that a sleeping
producer's slot has not begun to pass; without it a poll after a sleep could start late.
`SkipCatchesUp` is the arithmetic of a skip, `AdvanceKeeps` what the top of the loop
establishes from any tick.

`StreamInv` follows the samples. `NothingLost` is an equation between sequences,
`sink \o buf \o FlattenSeq(queue) = FlattenSeq(sent)`, and stops at a raise; `Stored` (what was
sent begins with what is stored) goes on after it, which `CountHonest` needs because
a producer may still send. `Drained` says that a `pipe` that left its loop has a closed and empty
stream; it is stable because nothing reopens a stream, and gives `ReturnMeansWritten`.

Of `FlattenSeq` two facts are needed: appending a batch appends its samples
(`FlattenAppend`), and the first batch comes first (`FlattenTail`). It is recursive, and no
induction principle can be cited; their proofs take the least place at which two sequences
differ (`NatMin`, from the well-founded order of the naturals) and refute it.

### Wire_proofs

`AnswersAreOwn`, `FramesAreHonest`: `[]` of `AnswersMatch` and `FramesHonest`, for replies
of any length, any number of transactions and frames, any capacity. `WireAssumption`: a
reply has a line, a query asks for one, the buffer has room for one.

The invariant looks at `Way == buf \o rx \o owed`, all that is on its way to the
client: a read that gets a piece does not change it, and one that returns a line takes
that line off its front. While a clean query reads, `Way` is
its reply from the line after those it has (`Answering`), or a rejection. `InOrder` says that
the frames in `Way` are numbered upwards and after every frame already made, whatever else was
made in between, `Consumed` that the consumer has an increasing sequence of places whose length
and what was dropped make up what was made. `Unmixed` is the stream that began clean: `Way` is
then the device's frames from the first one not yet made, piece by piece, so every line is whole and
parses as the frame it is.

### AlicatSession_proofs

`LabelsAreTrue`, `SetpointsAreSound`, `RoutesAreOpen`, `CommandsAreUnderstood`, for any
number of tasks, any profiles, firmware numbers, units, ranges and values. `SessionAssumption`: a
profile has a firmware version, its scale is in one of the units and its fields are variables.

`CachesTrue` says that what is cached is what the device has unless a reply was lost, and
when the format may be missing; nothing is assumed of which ranges were read. `Gated` says that a job is one the gates let through; `Current`
that what a job captured before its wait still holds unless a change crossed it.
`CommandsAreUnderstood` is the one with cases: for each token that commands share (`T`, `TP`, `L`,
`SR`) which of them a device of that firmware takes it for.

### Opening_proofs

`PortsAreAccounted`, `RecoveryIsAimed`, `FactsAreTrue`: `[]` of `PortsAccounted`,
`RecoveryAimed` and `FactsTrue`, for any bus, any jobs and any number of lost replies.
`OpeningAssumption`: devices of a bus have different ids, a search gives no hint.

`PortsInv` says at which stages a job has its transport open, and that the combinations of
a search take turns on a port. `FactsInv` has `Learned`, what a job knows at each of its awaits
of the device that is meant, and `Found`, what it knows when done. A flag that is absent
because it has not been asked for yet (`ToAsk`) is not yet held against the report.

`FactsAreTrue` assumes `AloneOnPort`: a job that stops a stream shares its port with
no other job. Every scenario of `opening` is of that kind. Without it the other job's
stop may silence a stream between the two questions of an identification, which then takes
the firmware for GP though no reply was lost.

### Sinks_proofs

`OpensAreHonest`, `RowsFit`, `SinksKeepLog`: `[]` of `OpenHonest` and `RowsFitTable`,
and `KeepsLog`, that each sink implements `AppendLog`, for all columns, types,
batches, tables and numbers of calls. `SinksAssumption`: a batch has a row, a row a column.

`OpenedHeld` and `ReadyKept` say when a sink has its handle and its statement,
`FileFits` that a file is written with the columns it was begun with. The refinement maps
each step to an open, an accepted or refused write, a close or a crash of the log, or to
none of them.

### Autotune_proofs

`LoopIsRestored`, `GainsAreProven`, `BestIsConfirmed`: `[]` of `Restored`, `OnlyProven`
and `BestConfirmed`, for all gains, algorithms, arguments, costs, repeats and limits of a search. `AutotuneAssumption`: a trial that
completes costs less than an aborted one counts, and the margin is below 100 percent.

`RestoreInv` has two halves. Before the restore, `Known`: whatever differs from the
saved state is something the restore will look at, because it was switched by an argument it
looks at too, because `algorithm_changed` is set, or because a reply was lost; and nothing
but a register write has reached the EEPROM. From then on, `AllDue`: each part is back, or
still on the list, or reported. It holds of a restore that is left in the middle as of one that
ends, since the item at work stays on the list; `CutInv` says which runs can be left so.
`LeaveIs` says that the list has all that is known when the run
leaves, wherever that is, so the steps of a run need one lemma (`OnTheWayIs`) between
them. The list is sound (`Backed`): a large move back is followed by the gains it leads to,
or an intermediate value would stay.

`ProvenInv` follows the gains from the trial that proved them through the cache, the
search and the confirmation. Its arithmetic is that of an aborted trial: the mean of a
record is at most `Unstable`, and is `Unstable` when no trial completed, so it is below no
other mean, whatever the margin (`AbortedIsNotBelow`). Hence what a search takes for better
was completed once (`CachedIsProven`, `JudgedProven`), and so was the baseline before anything is
searched (`BaselineInv`). A trial's gains are what the search would move to at that
moment (`TrialInv`), or the cost of one would be credited to the other.

`ConfirmInv` counts trials. What was tried has a trial in the cache, even after the
baseline's aborted runs are taken out (`TriedInv`); a round adds one to each of the two
(`RoundsInv`), so after `Confirms` of them both have more than that (`CompareInv`). From the
comparison to the decision the cache may not change, or the means that were compared are
not those of the decision (`DecideInv`): only a hold test runs in between, and
it is neither recorded nor, having no guard, ever aborted (`HoldInv`).

A switch of the algorithm or a save that is obeyed but not answered leaves a change nothing
reports (section 7); `unanswered` in `Known` and `StoredDue` is where the proof meets it.

### Lemmas about sequences

The queue of the port's lock, the registry of the manager, and the bytes and batches of `Wire`
and `Recorder` are sequences. What appending, removing, taking the tail and joining do to
their places (`AppendPlaces`, `RemoveAtPlaces`, `TailPlaces`, `ConcatPlaces`) stands at the head of
each module that uses it.

### Only model-checked

Everything under fairness, which is out of the prover's reach: `WaitersServed`,
`ExitClearsLatch`, `BaudChangeReturns`, `DispatchEnds`, `CloseEnds`, `SearchComplete`,
`RecordingEnds`.

## 7. Not modelled, and known divergences

Not modelled:

* The text of a line: number and label formats, the parser's decode of fields. Pure
  functions, for unit tests. `Wire` has what a line is, `Catalog` how many fields it has.
* The sync facade: one-line forwards through a portal thread, whose lifecycle is AnyIO's.
* Registries (one generated), errors, configuration, logging, test doubles, the other
  scripts: immutable data or straight-line programs.
* The EEPROM monitor: it warns, and nothing depends on it.
* `Session.close`, which only sets the state; a bus of more than one rate while it is used.
* A recorder's time stamps, `max_drift_ms` and `finished_at`; a consumer of the
  stream other than `pipe`.
* Two dispatches at once. They share no state but the registry, which neither writes.
  A device is its name: one removed and added again is the old one to a dispatch.
* A port path that starts or stops existing between two `add`s: `RealPath` is constant.
* `open_device` on a port that other sessions use at that moment, except for the raw
  write of its stream recovery, which `Opening` aims at a device that may stream.

Known divergences. The first two are runs that TLC violates; the others are behaviours
the models contain, or that a property is conditioned on, where the code and its own
words part.

* A stream left in a cancelled scope never clears the latch (`port_leak`).
* A failed `add` to a port in use closes the port under its devices (`manager_shared`).
* Gate before queue: `devices/streaming.py:355-357` says the read side is exclusive, but a
  command that queued before the latch was set, and every lifecycle change, reads while
  the producer does.
* The same comment's "the transport's read side is ours exclusively" does not hold of what was
  there before: nothing is drained when a stream starts, and the producer feeds every line to
  the format's parser, which counts tokens. A late reply to a poll, a tare or a hold is then delivered as
  a frame of the stream (`devices/streaming.py:393-434`, `devices/reading.py`).
* The drain of a stream's exit has no cap (`docs/streaming.md:133,145`): after a stop
  that was lost the exit holds the lock and the latch for as long as the device streams.
* A dispatch looks members up again (`manager.py:643`): one that was removed meanwhile
  raises `KeyError`, and the results of all others are lost, under `RETURN` too.
* A skip can pass the last tick (`streaming/recorder.py:352`), and the producer then polls
  once after the duration.
* Set-points of GP devices: `uses_modern_setpoint`'s docstring sends them to `S`, whose
  families leave GP out, so they are refused.
* `user_data(slot, "")` emits the query form and changes nothing; `totalizer_save(save=...)`
  does not put its argument on the wire.
* The range a set-point is checked against was read in the units of when the device was
  opened (`devices/_controller.py:595`), and stays when the units change.
* `_schema.py` widens mixed columns to `str` "so downstream backends don't have to reason about
  type coercion" (lines 106-107), but `project` coerces nothing, and a typed backend refuses the row.
* With the drain off, a late reply shifts every later answer by one; in
  `probe_capabilities` a late answer to one `FPF` is read as the next one's and claims
  hardware that is not there.
* `DeviceInfo.probe_report` is kept "so users can tell a 'device lacks the hardware' situation
  from a 'probe timed out' situation" (`devices/models.py:211-213`, `docs/devices.md:206-210`). For what
  was never asked, which is ten of twelve flags and all of a GP device, and for a probe whose port
  failed it says "absent" (`devices/factory.py:516-532,600-604`). `docs/troubleshooting.md:201-204`
  expects "timeout" or "rejected" for `TAREABLE_ABSOLUTE_PRESSURE`, which has no probe and is
  never anything but "absent".
* "A crash mid-run loses at most the current batch" (`sinks/parquet.py:20-21`): the footer of
  a Parquet file is written by `close`, and without it none of its row groups can be read. The whole
  unclosed file is lost, which is the volatility `KeepsLog` grants this sink.
* An unknown model has no medium, `??D*` is refused by its gate and `open_device` fails
  unless `assume_media` is given.
* A caller's transport that `open_device` opened stays open when it fails. `PostgresSink`
  keeps its pool when an introspection fails.
* The tuner: a `set_algorithm` that was obeyed but not answered leaves `algorithm_changed`
  false, so the restore that should "undo every temporary change" (`../scripts/pid_autotune.py:2111`)
  leaves the algorithm switched and says nothing; a save that was obeyed but never answered leaves tuned
  gains in EEPROM; "retrying each step independently" (the same line) is not so when a reply to
  `LCA` carries an unknown code, because the `ValueError` of `Algorithm(...)` (lines 379, 383) is caught
  neither by `attempt` nor by the ramp-back and ends the restore; a set-point that could not be read is not put back; Ctrl-C during the
  restore cuts it short; the mean of a confirmation includes the fixed cost of an
  aborted baseline trial.
