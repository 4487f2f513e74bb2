# Timeline State Resolver: a verification project

TSR (`packages/timeline-state-resolver`) turns a timeline, a list of objects
with start and end conditions, into commands for broadcast devices. This
directory holds TLA+ modules translated from its source, the TLC runs that check
them on small instances, and the TLAPS proofs of what holds for every value of
the constants. Paths below are relative to
`packages/timeline-state-resolver/src/` unless they say otherwise.

The program has no test of the orders in which its timers, promises and queues
can interleave. That is what the project is about: an action of a module is the
code between two points at which the event loop can do something else, and the
properties are about what those orders must not break.

## Inventory

| Component | State it keeps | Operations | Talks to |
|---|---|---|---|
| Conductor, resolve loop (`conductor.ts`) | timeline, `_nextResolveTime`, `_resolvedStates`, the trigger timer and the interval, `_actionQueue` | `init`, `setTimelineAndMappings`, `resetResolver`, `devicesMakeReady`, `_resolveTimeline` | AsyncResolver (await), every device (await) |
| Conductor, datastore | `_datastore`, `_deviceStates` per device | `_setDeviceState`, `setDatastore` | `handleState` of the device |
| Conductor, callbacks | `_sentCallbacks`, `_callbackInstances`, the queued callbacks | `_diffStateForCallbacks`, `_queueCallback`, `_sendStartStopCallbacks` | its own order queue; Core |
| Conductor, device management | `devices`, options | `addDevice`, `createDevice`, `initDevice`, `removeDevice` | device containers |
| Async resolver (`AsyncResolver.ts`) | a cache | `resolveTimeline`, `_fixNowObjects` | superfly-timeline |
| Device instance (`service/DeviceInstance.ts`, `service/remoteDeviceInstance.ts`) | the device, its state handler | forwards calls, `initDevice` | the main process, for the time |
| State handler (`service/stateHandler.ts`) | `stateQueue`, `currentState`, `_executingStateChange`, the clock | `handleState`, `clearFutureStates`, `clearFutureAfterTimestamp`, `setCurrentState`, `terminate` | `getCurrentTime` (another process), the device's diff and `sendCommand` |
| Order queue (`devices/doOnTime.ts`) | `_queues`, `_commandsToSendNow`, `_sendingCommands`, `_checkQueueTimeout` | `queue`, `clearQueueAfter`, `clearQueueNowAndAfter`, `dispose` | the commands it runs |
| Device with a state log (`devices/device.ts`, `integrations/abstract`) | `_states`, `_setStateCount` | `prepareForHandleState`, `handleState`, `clearFuture`, `terminate` | its order queue |
| Transitions (`devices/transitions`) | values, the timer | `activateTransition`, `stopAndSnap`, `clearTransition` | the integrations with faders |
| Integrations (`integrations/*`), 21 of them | a connection, retries, tracked states, the cache of Viz elements | `diffStates`, `sendCommand`, connect and reconnect, `makeReady` | the device on the network |

There are two kinds of device. Older integrations extend `DeviceWithState` and
keep a log of states on an order queue. Newer ones are wrapped by
`DeviceInstance`, whose state handler keeps the queue of states and asks the
integration for nothing but a diff and the sending of a command. Either may run in
a process of its own, and then every call in both directions is a message.

What is hard here, and what makes each part correct:

* **State handler.** Everything it decides it decides around an await of
  `getCurrentTime()`, and in another process the answer can come after the queue
  has changed. Correct: commands are the difference from the state the device is
  in, nothing is executed early, nothing due stays queued, it never blocks.
* **Order queue.** Several timeouts can be pending while only the last is known,
  and in `SendMode.IN_ORDER` a queue is woken only by its own completed command.
  Correct: no order without a wake-up, none overtaken, one at a time.
* **Device with a state log.** A new state replaces part of a log and of a queue
  of diffs, and late states and clean-ups rewrite both. Correct: the commands add
  up to the state the log has for the moment.
* **Datastore.** The conductor remembers what it handed over, to hand it over
  again when a value changes. Correct: what is remembered is what the device will
  show, with the values of the moment.
* **Resolve loop.** A timer that every trigger replaces, an interval of 2.5 s beside it,
  a queue of actions, states that are reused for a window of time, and a timeline that
  changes while it is being resolved. Correct: no timeline that was set is forgotten,
  states of a replaced one are not used, every change is handed over in time.
* **Callbacks.** Start and stop of one instance annihilate each other within a
  delay. Correct: Core sees a start for what plays, and a stop after it.
* **Device management.** Creation, initialisation and removal overlap.
* **Integrations.** Connections that drop and come back, requests retried against
  a state that has moved on, transitions replaced while they run.

`PROJECT.json` lists the components with their status, the hazards by line, and
for every definition the lines it translates.

## The modules

| Module | Translates | Extends |
|---|---|---|
| `DeviceSchedule` | what `service/stateHandler.ts` promises, without its prepared commands, questions and timers | |
| `StateHandler` | `service/stateHandler.ts` | |
| `StateHandlerProofs` | theorems about it, and that it implements `DeviceSchedule` | `StateHandler` |
| `DoOnTime` | `devices/doOnTime.ts` | |
| `AbstractDevice` | `devices/device.ts` (the log), `integrations/abstract/index.ts` | `DoOnTime` |
| `AbstractDeviceProofs` | theorems about `DoOnTime`, and about it | `AbstractDevice` |
| `ConductorDatastore` | `conductor.ts` 1196-1276, `fillStateFromDatastore` in `lib.ts` | |
| `ConductorDatastoreProofs` | theorems about it | `ConductorDatastore` |
| `Conductor` | `conductor.ts`, the resolve loop | |
| `ConductorProofs` | theorems about it | `Conductor` |
| `TimelineCallbacks` | `conductor.ts` 1126-1171, 1340-1497 | |
| `TimelineCallbacksProofs` | theorems about it | `TimelineCallbacks` |
| `DeviceLifecycle` | `conductor.ts` 388-483, 698-765, `service/remoteDeviceInstance.ts` | |
| `DeviceLifecycleProofs` | theorems about it | `DeviceLifecycle` |
| `HttpSend` | `integrations/httpSend/index.ts`, sequential sending in `service/stateHandler.ts` | |
| `Quantel` | `integrations/quantel/index.ts` 414-643, `integrations/quantel/connection.ts` | |
| `QuantelProofs` | a theorem about the releases of channels | `Quantel` |
| `Vmix` | `integrations/vmix`: device, differ, connection, timer, polling | |
| `Sisyfos` | `integrations/sisyfos/index.ts`, the state of `connection.ts` | |
| `SisyfosConnection` | the pings of `integrations/sisyfos/connection.ts` | |
| `VizMSE` | `integrations/vizMSE/index.ts` | |
| `VizManager` | `integrations/vizMSE/vizMSEManager.ts`, the elements | |
| `VizManagerProofs` | theorems about it | `VizManager` |
| `Hyperdeck` | `integrations/hyperdeck/index.ts` | |
| `CasparCG` | `integrations/casparCG/index.ts`, for one layer | |
| `Pharos`, `PharosConnection` | `integrations/pharos`: the commands, the connection | |
| `Lawo` | `integrations/lawo/index.ts` | |
| `Obs` | `integrations/obs/index.ts` | |
| `TriCaster` | `integrations/tricaster`: converters, differ, connection | |
| `TcpSend` | `integrations/tcpSend/index.ts` | |
| `Shotoku` | `integrations/shotoku` | |
| `SofieChef` | `integrations/sofieChef/index.ts` | |
| `Panasonic` | `integrations/panasonicPTZ` | |
| `Atem` | `integrations/atem/index.ts` | |
| `Osc`, `MultiOsc` | `integrations/osc/index.ts`, `integrations/multiOsc` | |
| `SingularLive` | `integrations/singularLive/index.ts` | |
| `Telemetrics` | `integrations/telemetrics/index.ts` | |
| `HttpWatcher` | `integrations/httpWatcher/index.ts` | |
| `MCParts` | the part that runs, for TLC | `TimelineCallbacks`, `DeviceLifecycle`, `AbstractDevice`, `ConductorDatastore` |
| `MCIntegrations` | the integration that runs, for TLC | `Quantel`; instances of `HttpSend`, `Quantel`, `Vmix` and `Sisyfos` |
| `MCDevices` | the integration that runs, for TLC | `VizManager`; instances of the nineteen other modules from `SisyfosConnection` to `HttpWatcher` |

Each starts with a comment on its abstraction. In short:

**`StateHandler`.** A state is the number of the `handleState` call that brought
it, and the commands of a queued state are the state they were computed *from*:
that is all the properties need of a diff. `pending` holds the questions to
`getCurrentTime` in the order they were asked; `AnswerTime` is the moment the main
process reads its clock, the `Deliver...` actions are the continuations of the
three awaits in the class (`setCurrentState`, the clock, `calculateNextStateChange`).
`Prompt` says that the device runs in the main process, where an answer is
delivered before any timer, and before any call that comes by itself (`Reachable`). The
conductor does not await its calls, however: it hands over all states of a device in one
go, and a call that follows in the same go finds the questions of the first still open
(`Follows`). In that go the states come in the order of their times, so that they leave
the head alone; but `setDatastore` lists a device once for each of its keys that changed
(`conductor.ts:1249`), and with two of them the states come twice, the first again after
the others. `MayRepeat` allows that (`Repeats`). `ClockMayFail` and `DiffMayFail` let the two
calls out of the class fail. The commands themselves are sent without the handler
waiting for them, so their completion changes nothing here. Left out:
measurements, the second conversion `convertTimelineStateToDeviceState` as such
(pure; a failure of it fails the diff).

**`DeviceSchedule`.** What the conductor may expect of a device it hands states to: a
set of states to come, of which the earliest is shown next, once and not before its
time, unless a later call replaces or withdraws it. `StateHandler` implements it
(`KeepsTheSchedule`): the schedule is the number and time of what is in `stateQueue`,
`shown` is `currentState`, `running` is the interval, and everything else stutters. The
promise is kept while the clock answers. With `ClockMayFail` TRUE TLC refutes it: when the very
first question (line 115) is rejected there is no `currentState`, so a timer's
execution prepares nothing, takes the head off the queue and leaves by the early
return of line 164 with `_executingStateChange` set. Across a process
(`Prompt` FALSE), or where states come twice in one go (`MayRepeat` TRUE), the promise
holds without "not before its time" (`Punctual` is `Prompt /\ ~MayRepeat`).

**`DoOnTime`.** An order is its number, queue and time. `_commandsToSendNow` is a
set, because its order is that of the check that moved an order there and, within
a check, of the numbers. `overwritten` holds the timeouts that `queue` set and
then overwrote without clearing. Left out: the reports of slow and failed commands.

**`AbstractDevice`.** Extends `DoOnTime` with the log of states, and `device`, what
the commands sent so far have made of the device. The calls are those the
conductor makes, in the order it makes them: `prepareForHandleState`, then
`handleState` for the same time, `clearFuture` when nothing follows; and for a
changed datastore the current state and the later ones once more. `SameInstant`
lets the conductor announce a millisecond that a check has already handled. The
TODO at `conductor.ts:969` describes what then happens, and with `SameInstant =
TRUE` the model shows it: the log for that millisecond is dropped although its
commands were sent, and the device keeps what the log no longer knows. The run
keeps it `FALSE`, so its results are for calls that stay ahead of the checks, and
late ones whose millisecond no check has reached.

**`ConductorDatastore`.** One device, since the code treats each alone. A state
names the references its objects make; `plan` is what the device makes of the
calls. The two filters of the code are one operator, `Filtered`, which lists the indices
it keeps in their order. Two constants stand for assumptions the code relies on. `Straddle = TRUE`
lets the millisecond change between the two reads of the clock in
`_setDeviceState`: a state for the millisecond between is then neither current nor
later, and is forgotten. `Touch = TRUE` lets a value be stored again, unchanged,
with a later `modified`: that is no change to `setDatastore`, so a reference with
`overwrite` keeps its object's own value. The runs keep both `FALSE`; with either
`TRUE`, TLC refutes `PlanIsRemembered` or `ValuesAreFresh`.

**`Conductor`.** A timeline is a version and the set of instants at which its state
changes, and a state is a version and the last change: enough to say which state
is shown when. `actionQueue`, `phase` and `job` are the p-queue of concurrency 1
and the action that runs in it, stopped at each of its awaits (the resolver, the
devices). `plan` is what the devices hold. `Resolver.getState` and the next events
are the library's, modelled by what the loop uses of them: with `Repeating` the
changes beyond the resolved window are not among the next events. `Prompt` and
`MaxBusy` bound how late timers and actions run, without which nothing can be said
about time. Two things queue a resolve: the timer, which every trigger sets anew, and the
interval of the constructor (lines 220-224), which nothing stops. A resolve of the
interval may be postponed (953), reuse what is resolved or run while nothing is planned;
it also ends a wait, so `InTime` asks for what is needed until the earlier of the two.
Left out: the statistics, the callbacks and the devices' creation.

**`TimelineCallbacks`.** What plays is compared with what played in the state
before; the starts and stops found wait for `CALLBACK_WAIT_TIME`, in case they
annihilate each other, and a timer sends what is ripe. `known` is the order in which the
keys of the `Map` were inserted, as a set of pairs: an instance is forgotten only if
nothing inserted before it waits. `told` is what Core was last
told of each object. Five constants stand for what the results depend on, and
with any of them widened TLC refutes `CoreKnows`: `PastStarts` (an object comes
back with the start it had before it was taken out), a second element of `Keys` (the
callback id of an object changes while it plays, which starts it and then stops it),
`MaxLate = 1` (the timer is later than the wait, and a flush sends all stops before
all starts), `MaxDelay` above the wait (a state is handled so late that its start is ripe
at once) and `SameTime` (two states are handled for one time).

**`DeviceLifecycle`.** The calls of `createDevice`, `addDevice`, `initDevice` and
`removeDevice` for one device id, each stopped at its awaits. `containers` says what
has become of the container of each creation, since the map `devices` forgets. A call
that is aborted rejects at once, and what it had begun goes on. `MayOverlap = TRUE`
lets a device be removed while it is removed or added: `devices.delete` after an await
then takes out another device with the same id, and TLC refutes `NoOrphan`.
`MayInitAgain` lets `initDevice` be called while it is under way, as a retry of an
aborted call may: `_initialized` is read before the await and set after it
(`remoteDeviceInstance.ts:184`), and with `TRUE` TLC refutes `InitializedOnce`.

**`HttpSend`.** The commands of a state are sent one after the other; the state handler
does not wait for the last. A request is received and answered, or its connection fails
before or after it was received, and then it is sent again as a `retry` if its content is
still what the layer has. Two constants are `FALSE` in the run, and with either `TRUE` TLC
refutes `DeviceFollows` (here: `Posted`): `MayOverlap` (a state is executed while commands
of the last are still to be sent: a command of the older state then comes after one of the
newer) and `MayReorder` (the server receives the requests of a layer in another order).
Left out: manual commands, and answers with a bad status, which are reported and not sent
again.

**`Quantel`.** For every port, the commands of a state and how the manager carries them
out, with what it remembers of the port (`tracked`) beside the port itself (`gateway`,
external). An action ends at an await that the properties can tell. A clip
that is not found is loaded again by a timer of the port, and the play that failed for
it is done then. The run is about the calls one by one; four constants show where it
ends, and with each of them widened TLC refutes `ShowsTheClip` (in the run,
`PortShowsTheClip`) or, for the third,
`NobodyWaitsInVain`. `AheadOfMissing`: the timer of a missing clip is cleared by the
preload of another (`connection.ts:131`), and nothing loads the clip any more.
`MayRace`: a retry runs beside the commands of its port. `ReleaseErrors`: the gateway
answers a release with an error, or with a 404, after which the port is forgotten;
`p.catch()` without a handler catches nothing (`connection.ts:113`), so in both cases the
promise that others wait for is rejected and stays, and the channel is not set up again,
although the comment at `connection.ts:112` says that it never rejects. Who waits for a
release (`waitsFor`) goes on as soon as it is answered, all who wait at once and without a second look at the channel.
`MayRemap`: a port in use gets another channel, and is set up empty. Left out: in- and
out-points, clones of clips, out-transitions (they wait and change nothing), the
watchdog, and failures of the other calls of the gateway.

**`Vmix`.** A state is what is on program, fade to black (a toggle), recording (set;
streaming and external are the same), the second output, which vMix does not report, and a
look for every input, for the properties that polls enforce. `Difference` is the differ,
in the order of its commands; `logged` is `getStateBefore` of the moment, so that states
planned ahead are left out. A connection and a poll are answered by what vMix was when it
was asked, `FullState` and `PartialState` are what the device makes of that, and both make
the conductor hand the state over again. A poll, 5 s after the last command, finds no
command under way. Three constants are `FALSE` in the run. With `MayRace` a state is
handed over before vMix has answered a new connection: its commands are computed from what
vMix was before, and the answer knows nothing of them. With `MayBeLate` a state is handed
over after its time, and clearing the queue takes away `ADD_INPUT`, which was queued while
the difference was made. TLC refutes `ChangesOffAir` with either. With `OutputsMayBeLost`
the second output changes while there is no connection, no answer tells, and TLC refutes
`DeviceFollows`. Left out: layers, transitions as such, scripts, the list and the playback
of inputs, and preview.

**`Sisyfos`.** The levels at the mixer, the log and the orders that are due, and the three
ways to ask for the mixer's state: at the start, again with a resync (`makeReady`, or the
command of that name), and again without one (the action `reinit`). The listeners of the
last two stay, and later answers call them too. `moved` is what an operator has moved
since the last answer was made, for of that the device cannot know. Three constants are
`FALSE` in the run. `MayMix` (`makeReady` and `reinit` are both used: the listeners of
both run on every answer, and the second overwrites the log that the first computed its
commands for) and `MayOverlap` (Sisyfos is asked again before it has answered) let TLC
refute `DeviceFollows`. `MayResync` is the question of the run `sisyfos_resync`. Left out:
states planned ahead, and the pings that say whether Sisyfos is connected.

The other integrations, in `MCDevices`, have models of one kind. `wanted` is the state of
the timeline and `handed` says that it was handed over; `log` is the last state of
`DeviceWithState`, `queue` what is due and still to be sent; the device itself, its answers
and its connection are external. A state is handed over when its time has come, and the
conductor hands it over again when the integration asks for that (`resetResolver`). That it
also does so every `LOOKAHEADTIME` is in `Atem`, where it makes a difference: elsewhere the
log is the state by then and nothing is sent. Constants named `May...` let happen what the
code does not cope with; they are `FALSE` in the run, and with any of them `TRUE` TLC
refutes the property of the module.

**`VizMSE`.** The layers have elements (with delays, cues and steps), continue steps,
concepts and clear-alls; `screen`, `steps`, `cued` and `concept` are what Viz shows.
`diffStates` puts the takeouts after the other commands and delays the takes by the
longest takeout. `MayMove`: a slot of the picture changes layers while the old layer is
busy with it, and its takeout clears what the other layer took (`index.ts:873`).
`MayOverlap`: `makeReady` or a clear-all while commands are under way. `MaySkipSteps`:
continue steps are relative, so an element that is not taken at its first step is not
where the state wants it. A command that fails is not retried, since `_handleRetry`
returns its promise without awaiting it (`vizMSEManager.ts:1110`), and a delay is never
cut short, since `clearAllWaitWithLayer` has its condition the wrong way round (1244).
Left out: the one-shot commands to engines.

**`VizManager`.** `mse` is what exists in the MSE, `cache` what the device knows of it,
`media` what Core knows. The monitor, the loader and new expectations run the same update,
each in a `thread` that stops at its awaits. `MayOverlap`: two updates at once, where each
works on what it read before its awaits (`vizMSEManager.ts:842`). `MayTakeUnexpected`: an
element is taken that is not expected, or is being deleted. `MayReactivate`: a rundown is
activated while a take waits for its element, or once more when elements of it are cached
that are no longer expected; the activation empties the cache under the take, or purges
the MSE of what the cache still names (`vizMSEManager.ts:244-286`). `MayCleanUp`: a show is
cleaned up, and the cache does not learn of it.

**`Hyperdeck`.** The transport (recording, playing, clips; speed, loop and single clips
are one `mode`), the connection with its questions, `makeReady`, and the poll of the
remaining time. `MayKeepRunning`: on a connection the deck is taken to be in the default
state, so one that still records is not stopped (`index.ts:717`). `MayRace`: a state is
handed over while the deck is asked.

**`CasparCG`.** What plays on a layer and what is loaded behind it; the commands between
two states are those of casparcg-state. The log holds what was sent and `confirmed` what
the server has answered to, and the timer of retries loads what differs. After a
connection the server is asked whether it was restarted (`casparCG/index.ts:124`).
`MayLose`: what the retry does not load, a clear say, is sent without a connection.
`MayRace`: commands are sent while that question is open. `CheckMayFail`: it is not
answered, and the log stays. Left out: mixer properties, transitions.

**`Pharos`.** Scenes and timelines that layers start and release by requests. `MayMove`:
one is shown on another layer, and the release of the first comes after its start.
`MayReorder`: requests overtake each other, since nothing waits for an answer.

**`PharosConnection`.** Every socket keeps its handlers, and every loss arms a timer of
its own, so that sockets and reconnections multiply: the model keeps all of them, with
room for what two troubles bring about. `MayFailFirst`: the very first connection fails,
which `_reconnect` is not made for.

**`Lawo`.** A fader is set, moved by an animation of the device or by a ramp of the mixer,
and the device knows the value it was told last. `MayCut`: a fader is set while it is
faded, and the animation goes on. `MayRefuse`: the mixer refuses a ramp, and the value of
the ramp is set then, whatever was sent since.

**`Obs`.** Scene, preview and other properties, which are set alike; a state leaves alone
what it does not name. On a connection the log is dropped and the state handed over again.
The command of a scene is sent before that of its transition (`index.ts:595`), so a cut
uses the transition of before; what is on air is the same in the end, which is what the
run asks.

**`TriCaster`.** A mix effect with two rows, a keyer and an output, in the commands of the
differ: an effect of duration 2 is set up on the preview row and taken, or the program row
is set at once. `MayReturn`: an effect ends with the input the program had before, and no
command is made for it. `MayRace`: the switcher is asked for its state on connection, and
the answer goes into the log under states handled since (`tricaster/index.ts:47`).
`MayCloseAsking`: the connection closes while the switcher is asked; `handleOpen` fails
and the device is never connected (`triCasterConnection.ts:43`). DSK mappings have no
effect (`triCasterTimelineStateConverter.ts:120`).

**`TcpSend`.** Messages of layers by priority, and a connection with its retry timer, the
attempt of a message and the one of `makeReady`. A refused connection is not modelled:
`error` of the socket has no listener, so it ends the process. `MayCut`: `makeReady` while
messages wait. With `MaxTroubles = 2` TLC refutes `Online`: the retry timer is not reset
after it fired, so a second loss is not retried until the next message
(`tcpSend/index.ts:231`).

**`Shotoku`.** Shots and sequences, whose later shots have timers that nothing clears, and
a connection with attempts, timeouts and retries. `MayOverlap`: a shot while those of a
sequence are still to come. `MayCloseLate`: the close of a socket after the next attempt
has begun deletes the client of that attempt (`shotoku/connection.ts:144`).

**`SofieChef`.** The pages of windows, the web socket with its reconnection, and the list
of windows that is asked for on each new connection and replaces the log. `MayShow`: Chef
has pages when it is first connected to, and no list is asked for. `MayRace`: commands
between the answer of Chef and the use of it.

**`Panasonic`.** Preset, speed and zoom, and the queue of requests: one that comes while
others are under way waits until one comes while none is, a ping in the end
(`panasonicPTZ/connection.ts:34`). `MayZoom`: the diff names the zoom speed `speed`
(`index.ts:407`) and the receiver, which wants `zoomSpeed`, throws (322). `MayOvertake`: a
value is sent while an older one is under way, and may be received first.

**`Atem`.** Settings with a default, auxiliaries of which some are not mapped, a state
handed over ahead of its time, the connection and resyncs. After a connection or resync
the entry of the log is the object that the library goes on updating (`Live`), so that
what an operator changes is taken into account once. `MayRace`: a state is compared with
it before the mixer has confirmed the last commands. `MayResyncAhead`: a resync drops what
was handed over ahead; the conductor hands over the state of now, and the next one only
with its next resolve, up to `LOOKAHEADTIME` late. Both refute `ShowsItInTime`; in the end
the mixer is right (`DevicesFollow`). Left out: transitions and power supplies.

**`Osc`.** A value or an animation for each path, in one go by the state handler.
`MayCut`: a value is sent at once for a path that is animated, and the animation goes on
over it. The interval of 40 ms comes when it comes, so an animation of duration 3 is
stepped by 1 or 2, and it may be dropped before its last value is sent
(`osc/index.ts:216`). In the run `devices` a path is therefore asked to be on the way of
the last object wanted, and of no other (`PathsAreOnTheirWay`); that it arrives, as
`osc.spec.ts:340` expects, whose mocked clock hits the very end, is not so: TLC finds the path
`Between` with no animation left, as soon as a step of 2 is taken.

**`MultiOsc`.** The receivers share one queue of which a timer lets one message pass at a
time. `MayThrow`: a message that cannot be sent is an error, and lost.

**`SingularLive`.** Compositions put in and out by requests, the next when the last is
answered. `MayFail`: a request fails and was not received; it is not made again, although
the log has its state.

**`Telemetrics`.** A preset is sent when it is in a state and was not in the one before;
the socket connects again 2 s after it was closed with an error. `MayCut`: the connection
is lost while a preset waits (`dispose` takes it away), or a state comes without one.
`MayEnd`: the camera closes without an error, and that is taken for the end.

**`HttpWatcher`, `SisyfosConnection`.** What the status says of a service that is asked
again and again, over answers that are late, lost or of the past. `MayBeZero`: the ping
counter of Sisyfos, a random number, starts with 0, and a 0 is no answer
(`sisyfos/connection.ts:263`). The watcher looks for its keyword only in a body that is not
empty (`httpWatcher/index.ts:95`), so an empty answer with the right code is good.

**`MCParts`, `MCIntegrations`, `MCDevices`.** Callbacks, device management, the datastore
and a device with a log do not interact in what is modelled of them, and neither do two
integrations. So one run checks the parts around the resolve loop and two the
integrations: `part` is chosen in the initial state, and the parts that do not run stay in
their initial states. `MCParts` extends the modules of its four parts, whose names are
chosen not to clash. The other two extend the module that has a proof, `Quantel` (two ports
that want one channel) and `VizManager`, and instantiate the rest, which share the
variables `v1` to `v11` or `v1` to `v12`; one port of `Quantel` that changes clips is such
an instance. So the properties of these runs that have a theorem are the very definitions
the theorem is about. The fairness of each part is restricted to its steps.

## The runs

| Run | Question | Bounds |
|---|---|---|
| `handler_prompt` | A handler in the main process: blocked? late? does it implement `DeviceSchedule`, also if states come twice in one go? | 4 states, times 0..3, 2 questions of the clock |
| `handler_faults` | A handler in another process, clock and diff failing: are commands always the difference from the actual state, what can make it early? | 3 states, times 0..2, 2 questions of the clock |
| `handler_early` (violated) | In the main process, states coming twice in one go: early? | 4 states, times 0..2 |
| `do_on_time` | IN_ORDER with two queues: order, wake-ups, cover | 3 orders, times 0..3, checks at most 2 apart |
| `conductor_loop` | Is a new timeline used and never forgotten, is the loop in time? | 2 timelines with changes at 3 and 6, times 1..6, interval 2, lookahead 3, window 4, one makeReady, actions lasting up to 1 |
| `conductor_repeating` (violated) | The same with repeating objects: in time? | 1 timeline with changes at 14 and 18, times 1..21, interval 4, lookahead 8, window 16 |
| `parts` | Callbacks: does Core know what plays, is anything left without a timer? | 2 objects, wait 2, times 1..12, states until 7, handled at most 1 late |
| | Device management: is a container lost or replaced? | 2 creations, 2 other calls |
| | Datastore: is what is remembered what the device will show? | 1 key, 1 value, times 1..3, 2 states ahead |
| | Device with a log: does it show what its log says? | 1 layer, 2 objects, 3 diffs, times 1..3, clean-up every 2 |
| `datastore_three_ahead` (violated) | The same with three states ahead | 3 states ahead |
| `integrations` | HTTP: does the server follow? | 2 layers, 2 contents, 2 states, 1 failure |
| | Quantel: does a port show its clip, does a port wait for ever? | 1 port, 2 clips, 3 states; 2 ports, 1 channel, 1 clip, 2 states |
| | vMix: does it follow, does nothing change on air? | 3 inputs, 2 looks, 3 states, 2 changes, 1 lost connection, 1 look changed at vMix |
| | Sisyfos: does it follow? | 2 channels, 2 levels, 3 objects, 2 changes, 1 level moved at the mixer, 2 requests |
| `devices` | Viz: does it show the elements of the state? | 3 elements in 2 slots, 7 layers, delays up to 1, 4 states, one `makeReady` |
| | Viz elements: does every take find its element, are they known in the end? | 2 elements, 2 changes of the expected ones, 2 activations, 1 take and 1 trouble |
| | Hyperdeck: is the transport as wanted? | 2 clips, files and modes, 2 states, 1 lost connection, 1 `makeReady`, 1 poll |
| | CasparCG: does it follow in the end? | 2 clips, one missing, 2 states, 1 lost connection, 1 restart, 1 `makeReady` |
| | Pharos: do scenes run as wanted? | 2 layers, 2 scenes, 1 timeline, any number of states |
| | Pharos: is the connection there in the end? | 2 troubles, 7 sockets, 6 timers |
| | Lawo: do faders follow? | 2 layers, 1 fader, 2 values, 3 states |
| | OBS: does it follow in the end? | 2 layers, 2 values, 2 states, 1 lost connection, 1 failed attempt |
| | TriCaster: do rows, keyer and output follow? | 4 objects on 2 layers, 2 states, 1 close |
| | TCP: do messages arrive, is the connection there? | 2 layers, 2 contents, 2 states, 1 trouble, 1 lapsed attempt |
| | Shotoku: does the camera follow, is the connection there? | 2 shots and their sequence, 2 states, 2 closes, 1 failed attempt |
| | Sofie Chef: does it follow in the end? | 1 window, 2 pages, 2 states, 2 closes, 1 failure |
| | Panasonic: does the camera obey in the end? | 3 layers, 2 values, 2 states, 1 failure |
| | ATEM: has it the settings in time, and in the end? | 2 layers, 3 settings, 2 states, 1 lost connection, resync and change by an operator each |
| | OSC: do paths follow? | 2 layers, 2 paths, 3 animations of duration 3, steps of 1 and 2, 3 states |
| | Multi OSC: do addresses follow in the end? | 3 layers, 2 receivers, 2 values, 3 states |
| | Singular Live: do compositions follow? | 2 layers, 1 composition, 2 payloads, 3 states, 1 failure |
| | Telemetrics: does the head follow, is the connection there? | 2 presets, 3 states, 2 closes |
| | HTTP watcher, pings of Sisyfos: does the status tell in the end? | 3 requests or packets under way, 2 changes of the service, 1 lost and 1 late |
| `callbacks_past_starts` (violated) | Does Core know, if an object comes back with its old start? | 1 object, times 1..15 |
| `sisyfos_resync` (violated) | Does a resync end, if the timeline wants it? | 1 channel, 2 changes, 1 level moved |

Why these bounds are enough to be interesting. Three states or orders are one being
executed, one prepared and one that replaces or overtakes; with two, no stale answer can
meet a third state. Four are two that come twice in one go. Two questions let an answer
arrive after a whole cycle of the clock. Clean-up every second state (11 in the code)
makes the log forget within a run. Two queues in IN_ORDER let one be blocked while the
other goes on. In `conductor_loop` the lookahead is longer than the lag that is allowed
and a wait of it ends within the time, so a wait that is too long is seen; of the changes
one lies within the lookahead of the first resolve and one beyond it, the interval is
shorter than the lookahead, as in the code, and comes between a resolve and its timer, and
every path is taken, the postponed resolve included. In `conductor_repeating` the times
have the order they have in the code (interval, lookahead, window), and the first change
is the last before the end of the window. For the callbacks, states until 7 and a wait of
2 leave room for an object to start, stop and start again with the callbacks of all three
waiting or sent. Two creations are the least that can compete for an id, and with two
other calls one can be removed or initialised meanwhile. One failed request can meet one
newer state; a clip that appears, is missing, and is asked for again needs three states.
The states of vMix are one that stays on program, one that cuts to another input while the
looks change, and one that adds an input; one lost connection meets any of their commands.
Two requests let the listener that the first left behind hear the answer to the second. In
`devices` a state that follows another is the least that can meet what the other left
behind, and each lost connection, restart or refusal can fall between any two of their
steps; four states let a slot of Viz be taken, left and taken again, three an animation be
replaced while it runs. The sockets and timers of `PharosConnection` are as many as two
troubles can leave behind, so the bound takes nothing away. All clocks stop at a bound and
calls are numbered, so every run ends with nothing left to do: `CHECK_DEADLOCK FALSE` in
all of them.

What the violated ones show (details in `PROJECT.json`, `findings`):

* `handler_early`: `calculateNextStateChange` compares the time of the head it
  prepared with an answer that comes later, then executes whatever is the head by
  then. `setDatastore` hands the states of a device over twice in one go if two of its keys
  change: each time the first of them asks the clock about itself, the first answer
  executes it and prepares the next, and the second answer, to a question about the first,
  executes the next, long before its time. In another process it takes less: a timer that
  executes the head while the answer is under way (`NeverEarly` is refuted with
  `Prompt = FALSE` and `MayRepeat = FALSE`, too).
* `datastore_three_ahead`: the copy that `filter` returns is reversed although the
  array was already back in order. Up to two states ahead, reversing what lies
  between is harmless; with three, the current state is missed later.
* `conductor_repeating`: states are reused until the end of the window they were
  resolved for, and near that end the next event of a repeating object is not among
  theirs, so the loop waits past the window, until the interval comes: in the code up to
  2.5 s, by which the event is late.
* `callbacks_past_starts`: `_queueCallback` compares the start of the object, which may
  lie in the past, with the time of a stop that waits. Taken out by one timeline and put
  back with its old start by the next, the object plays and its stop is still sent.
* `sisyfos_resync`: when Sisyfos has answered a resync, the listener makes its commands
  from a state whose `resync` is false to a target whose `resync` is true. The first of
  them is the resync again, and until the timeline lets go of it Sisyfos is asked for ever.

Each property is one that a plausible slip in the code would break. The
operators whose names say what went wrong (`ExecutedDiffingFirst`, `FreeIfSeveral`,
`ResetTimeOnly`, ...) are such slips, each written before the operator it would replace;
they are used by no action. TLC refutes the property with each of them
(`PROJECT.json`, `mutants`).

### Fairness

* `StateHandler`: the interval keeps firing, the continuations of promises run, and the
  main process answers (weak fairness). A due timeout can be disabled again and again by
  the handler's other steps, but timers run in the order of expiry and the interval's next
  expiry always lies ahead, so it cannot be passed over for ever: strong fairness. Nothing
  is assumed of calls from outside.
* `DoOnTime`: expired timeouts run. For `DueIsSent` in IN_ORDER a command must settle: the
  queue waits for it and has no timeout of its own (it reports a slow command, no more).
  The integrations time their commands out.
* `AbstractDevice`: expired timeouts run and time passes. Nothing is assumed of the
  conductor.
* `Conductor`: `init` completes, the timer and the interval fire, the queue goes on. The resolver and the
  devices answer; it is there that the code has no timeout (a resolver that never answers
  stops the loop), while `makeReady` times out after 10 s. `ResolverFails` is never
  required.
* `TimelineCallbacks`: the timer fires and time passes.
* `HttpSend`: promises continue, timeouts expire, and the server answers all requests but
  finitely many (`MaxFailures`): without that no retry helps.
* `Vmix`: the conductor hands over what it was asked for, due commands are sent, vMix
  answers, and the timers of polls and reconnections fire; weak fairness each. Connections
  are lost finitely often (`MaxDrops`).
* `Sisyfos`: the conductor resolves, orders that are due are sent, Sisyfos answers; weak
  fairness each. An answer that is lost is not modelled: `initialized` never comes then,
  and the code has a report for that and no retry.
* The modules of `MCDevices` with properties of what holds in the end: the conductor hands
  over what it was asked for, promises continue, timers fire, and what is asked is
  answered or fails; weak fairness. Connections, restarts and failures are bounded.
  Attempts to connect that a loss can cut short have strong fairness (`CasparCG`,
  `Shotoku`, `SofieChef`), for an attempt is made again and again until the device is
  there. In `HttpWatcher` and `SisyfosConnection` checks are made for ever, and each kind
  of answer that is under way arrives. One part runs at a time, so that the conditions of
  several parts are written as one.
* `DeviceLifecycle`, `ConductorDatastore` and `Quantel` are checked for safety only,
  without fairness.

## What is proved

For all values of the constants, with the bounds read as arbitrary naturals:

| Theorem | Says |
|---|---|
| `StateHandlerProofs!TypeCorrect` | every variable keeps its type |
| `StateHandlerProofs!HeadAlwaysPrepared` | the next change stands ready with commands computed from the actual state, also with late or failed answers and failing diffs |
| `StateHandlerProofs!HandlerNeverStuck` | if `getCurrentTime` does not reject, the flag is up only while a diff is awaited |
| `StateHandlerProofs!DiffsAreFromActual` | what is sent is always the difference from what was sent before |
| `AbstractDeviceProofs!TypeCorrect` | every variable keeps its type |
| `AbstractDeviceProofs!InOrderOneAtATime` | one command per queue, and `_sendingCommands` says so |
| `AbstractDeviceProofs!WakeupsAreKept` | nothing waits in a queue that nothing will wake |
| `AbstractDeviceProofs!OrdersAreCovered` | every queued order has a timeout that is early enough |
| `AbstractDeviceProofs!OrdersAreNotOvertaken` | no command is sent before one of its queue that was queued earlier for a time not later |
| `StateHandlerProofs!TimesAreUnique` | no two queued states are for one time |
| `StateHandlerProofs!EarlyIsStale` | a state is executed early only by an answer to a question about an earlier state, never by a timer |
| `StateHandlerProofs!HandlerKeepsTheSchedule` | if `getCurrentTime` does not reject, the handler implements `DeviceSchedule` |
| `AbstractDeviceProofs!DeviceTypeCorrect` | every variable keeps its type |
| `AbstractDeviceProofs!LogIsShown` | a device shows what its log has for the moment, once what is due is sent |
| `AbstractDeviceProofs!LogIsFollowed` | it changes in a check only, at once to what the log has |
| `ConductorProofs!TypeCorrect` | every variable keeps its type |
| `ConductorProofs!NoTimelineIsForgotten` | when the loop waits, the timeline set last was handed over, or its resolve failed and the timer is set |
| `ConductorProofs!StatesAreFresh` | states of a replaced timeline are not in use without a reset in the queue |
| `ConductorProofs!NothingIsLate` | with prompt timers and without objects that repeat, every change is handed over in time |
| `TimelineCallbacksProofs!TypeCorrect` | every variable keeps its type |
| `TimelineCallbacksProofs!NothingIsLeftWaiting` | what waits to be told to Core has a timer, no further away than the wait |
| `DeviceLifecycleProofs!TypeCorrect` | every variable keeps its type |
| `DeviceLifecycleProofs!PlaceIsKept` | a registered device keeps its place until it is removed |
| `DeviceLifecycleProofs!NothingIsLost` | a container runs if and only if it is registered or a call has it in hand |
| `ConductorDatastoreProofs!DatastoreTypeCorrect` | every variable keeps its type, and the states ahead their bound |
| `ConductorDatastoreProofs!RememberedIsLive` | with at most two states ahead, what is remembered is exactly what the device will still show |
| `ConductorDatastoreProofs!ValuesStayFresh` | and it will show it with the values of the moment |
| `QuantelProofs!WaitersAreReleased` | unless a release is answered with an error, who waits for a channel waits for a release that is under way |
| `VizManagerProofs!ManagerTypeCorrect` | every variable keeps its type, whatever overlaps |

**State handler.** The inductive invariant adds to `TypeOK` and `HeadPrepared`: the
times and numbers in the queue are distinct (`UniqueTimes`; otherwise "the head" is
not well defined and replacing it is not either); numbers in use are below
`nextId`; and what the pending questions say of the handler. Until the first question is
answered there is no current state and nothing is prepared (`InitFirst`,
`WaitingForInit`, `Unprepared`); a `calculate` question is only asked with a state
(`CalculateNeedsState`); a `shift` question is never asked at all (`NoShift`), because
the branch that asks it needs an unprepared head. `HeadPrepared` alone is not
inductive: `handleState` before the first answer leaves an unprepared head, and only
the order of the questions says that nothing can execute it. If `getCurrentTime`
rejects the first question the handler never gets a state (`DiffFromActual` still
holds, nothing is sent). `NeverStuck` follows from the flag never being up at all.
The comment "is this possible?" at `stateHandler.ts:165` is thereby answered: no.

**Its schedule.** That the handler implements `DeviceSchedule` is shown step by step: a
state handed over or cleared is a step of the schedule, an execution takes the earliest
state off, everything else stutters. `ClockMayFail` must be `FALSE`, for the reason given
with `DeviceSchedule` above. What makes an execution punctual is `Punctuality`: a timer
expires no earlier than the state it is for is due (`TimersWait`), an answer of the clock
is a time that has passed (`AnswersPast`), and, in the main process and unless states come
twice in one go, at most one question is open, and it asks for what still is the head
(`OneQuestion`). From the first two alone follows `EarlyIsStale`, which needs no
hypothesis: whatever the process and whoever calls, a state that goes out early is
executed by an answer that was asked for an earlier state. The two ways to get there are
given with `handler_early`. With the third nothing is early (`NeverEarlyInTurn`), and the
schedule is `Punctual`.

**Order queue.** The invariant is `TypeOK /\ OneAtATime /\ NoLostWakeup /\ Covered` and
that BURST never marks a queue. `SendNextKeeps` states what `_sendNextCommand` does
for any set of queues, and the checks and the completions use it. `Covered` needs
the overwritten timeouts: a check that an old timeout starts clears the last one, and
is right to, because it sets a new one for the earliest order left. `NoOvertaking`
is about two states of affairs: what a check has prepared, and what it left in the queue.
`Sorted` says that what is left with a lower number was not due when the other was prepared,
and that of two prepared commands of which the earlier queued has a time not later,
it was not prepared later. The history of that, the time of preparation, is in the
orders themselves.

**Device with a log.** `AbstractDeviceProofs` takes the invariant of the order queue over:
the calls of the conductor clear and fill the order queue. `Follows` is the heart of the
invariant. For every time `u` from the last check, or the last millisecond, on: the
device, changed by the orders queued for times up to `u`, is what the log has at `u`. It
is about all times to come at once, since a state that is put between two planned ones
changes what the later orders start from; it is why `handleState` must clear what is
queued from its time on, and why `cleanUpStates` may only forget what lies before the
state of the moment. It includes the millisecond before this one because a state for this
very millisecond is compared with what came before. `Numbered` says that orders have their
numbers in the order of their times unless they are due, so that a check applies them in
the order of time, and `Logs` that every order leads to a logged state. Without
`~SameInstant` the log may be cut at the millisecond just checked, whose orders have been
sent and cannot be taken back.

**Resolve loop.** `LInv` is for every run: a reset is followed by a resolve in the queue
(`Followed`), once initialized the loop runs or has something to run or its timer is set
(`LoopIsAlive`), a resolve under way knows its time (`Jobs`), and what has been resolved,
or is being resolved, is for the timeline set last unless a reset is queued (`Fresh`).
`NoTimelineIsForgotten` adds `Owed`: unless the version set last has been handed over, its
reset is queued, or it is done and the resolve that follows is the next action, or that
resolve is under way. It needs neither prompt timers nor bounded actions nor the interval.
`PInv` adds what is planned: from now until the next resolve is due (or to the time that
is being resolved) the devices show at every instant what the timeline has there
(`Settled`), for as long as no reset is queued; and actions are as late as `MaxBusy` lets
them be, no later. `InTime` follows. Its hypotheses: `Prompt`, because a timer that is
late by any amount makes any change late; `~Repeating`, because `conductor_repeating`
refutes it otherwise; and `Estimate = 0`, which is what `estimateResolveTime` returns
unless `proActiveResolve` is set (with it, the loop resolves for a later time and lets
what is planned stand until then).

**Callbacks.** `WaitingIsTimed` is inductive with the types: whatever changes an instance
sets the timer unless it is set, and keeps it if it is; the sending sets it for what still
waits, and an instance that it forgets has nothing waiting. There is no hypothesis. That
Core is then told what is right (`CoreKnows`, `Alternating`) is not so for all values of
the constants, as said with the module above and shown by `callbacks_past_starts`, and is
only model-checked.

**Device management.** A call holds the id if it is going to remove a device or to undo
its addition. The invariant says that there is at most one such call and that what it
holds is what is registered (`OneHolder`, `HoldersOwn`); that a container that is not
registered yet is in the hands of its creation (`Unregistered`), that one that
lives is there or registered (`Living`), and that a registered one lives unless its holder is
about to delete it (`Registered`). `removeDevice` looks the device up before its awaits and
deletes the id after them, so `OneHolder` needs `~MayOverlap`, and so does `NoOrphan`. That a
registered device is not replaced needs no such hypothesis: there is no await between the
second look of `createDevice` at the registry and the registration.

**Datastore.** The lemmas on `Filtered` are the base: it lists the indices of a set in
their order, each once, without induction over the sequence. The invariant says of the
states ahead that they stand in the order of their times, before what comes after them
(`AheadInOrder`); that every remembered one, the current one included, is in the plan
(`RememberedIsPlanned`); that what the plan has for later is among the states ahead
(`AheadIsRemembered`), and that nothing of it follows the current state that is not later
(`CurrentIsRemembered`). The last two together say that the device shows nothing that is
forgotten. `AheadInOrder` is where `MaxAhead <= 2` is needed: the code reverses the states
between the first and the last, of which there is at most one then; with three ahead they
leave in the wrong order, and `datastore_three_ahead` shows the current state missed. It
also needs `~Straddle`, or a state falls between the two reads of the clock.
`FilledFresh`, the freshness of the values, needs `~Touch` besides.

**Quantel.** `WaitersAreReleased` is about the note `waitingForReleaseChannel` and those
who wait. `NotedRelease` says that a port noted for a channel is releasing it, `AwaitedRelease`
that a port that waits, waits for one that is releasing, and, if it is to release its own
channel next, for that very channel. Several ports may release a channel at once, since all
who waited go on together: then the first answer deletes the note of another, which is why
the invariant does not say that every release is noted. It holds for any number of ports
and channels, also with `MayRemap` and `MayRace`. It needs `ReleaseErrors = {}`: after a
failed release the note stays and nobody will delete it.

**Viz elements.** `SeenIsCached` makes the types inductive: an update that still holds the
cached object itself holds one that is in the cache, since every removal parts the two
(`Parted`). No hypothesis is needed. That a take finds its element (`NoTakeFails`) is only
model-checked, with four constants `FALSE`: TLC refutes it with each of them `TRUE`
(`MayOverlap` with three changes of the expected elements), so it cannot be a theorem about
the module.

Proofs rest on the named assumptions about the constants, which TLC evaluates, and on
the hypotheses a theorem states. Each inductive invariant was checked by TLC before it
was proved.

Only model-checked, and why:

* Liveness and everything under fairness (`DueIsExecuted`, `DueIsSent`,
  `TimelineIsHandedOver`, `CoreIsTold`, `ReachesTheLog`, the properties of `MCDevices` of
  what holds in the end): out of the prover's reach.
* Of the callbacks, `CoreKnows` and `Alternating`: see above.
* The integrations, in `MCIntegrations` and `MCDevices`, but for `NobodyWaitsInVain`
  and the types of `VizManager`. That a device shows its state (`PortShowsTheClip`,
  `DeviceShowsTheState`), that Vmix changes nothing on air and the type invariants of the
  other modules are checked on the instances of the runs.
* `PartsTypeOK` and the `TypeOK` of the two other MC modules as such: they are put together of
  the parts' type invariants, of which those of the four parts of `MCParts` and of
  `VizManager` are theorems.

## Plan

Done, in order of importance: the state handler, the order queue, the device with a state
log, the datastore, the resolve loop, callbacks, device management, HTTP requests,
Quantel, vMix, Sisyfos, and then every other integration: the graphics and elements of
Viz, CasparCG, Hyperdeck, ATEM, TriCaster, OBS, Lawo, Pharos, Panasonic, Shotoku, Sofie
Chef, OSC, multi OSC, TCP, Singular Live, Telemetrics, the HTTP watcher.

What is left of the system is what "Not modelled" names. What is left to do is to prove.

What is around the integrations is proved, but for liveness and what Core is told. Of the
integrations, theorems worth proving next are those where the order of requests matters
most: `HttpSend` (what the server has is what was posted last), `Vmix` (no change on air)
and the rest of `Quantel` (a port shows its clip), whose invariant has to say for every
await what the port will show when the commands under way are done.

## Not modelled

* Statistics and latency reports (`service/measure.ts`), type declarations and schemas,
  and `quick-tsr`: nothing there decides what a device does.
* `service/DeviceInstance.ts` forwards the calls of the conductor to the device and its
  state handler and the events back; what it decides is in `StateHandler` and
  `DeviceLifecycle`.
* `AsyncResolver.ts`: resolving is superfly-timeline's. What is its own gives objects that
  start "now" a time, and whether the nested ones are given it in the timeline that is
  kept depends on whether the library copies its input, which is not in this repository.
* `devices/transitions`: nothing calls `activateTransition`; CasparCG makes a handler and
  only terminates it.
* The differs of atem-state and casparcg-state: external, modelled by what the
  integrations use of them (a command for every setting that differs; what plays and what
  is loaded on a layer).
* Of the integrations: manual commands and actions that only forward (formatting a disk,
  restarting windows, queries of a camera), and the wording of commands. `components` in
  `PROJECT.json` says for each what else is left out.

## Running

    tlc -workers 2 -config Conductor_loop.cfg Conductor
    tlapm StateHandlerProofs.tla
    tlapm AbstractDeviceProofs.tla
    tlapm ConductorProofs.tla
    tlapm ConductorDatastoreProofs.tla
    tlapm TimelineCallbacksProofs.tla
    tlapm DeviceLifecycleProofs.tla
    tlapm QuantelProofs.tla
    tlapm VizManagerProofs.tla
