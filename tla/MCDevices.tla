------------------------------- MODULE MCDevices -------------------------------
(***************************************************************************)
(* Model checking of the other integrations, each alone, as in             *)
(* MCIntegrations: which of them runs is chosen in the initial state.      *)
(* They share the variables, but for the preparation of elements for Viz,  *)
(* which has those of its module.                                          *)
(***************************************************************************)
EXTENDS VizManager, TLC

CONSTANTS A, B, C, slot1, slot2, red, fast, mode1, mode2, moving, live, home, none

VARIABLES part, v1, v2, v3, v4, v5, v6, v7, v8, v9, v10, v11, v12
shared == <<v1, v2, v3, v4, v5, v6, v7, v8, v9, v10, v11, v12>>
vars == <<part, managerVars, shared>>
Unused == 0

\* Viz: two elements share a slot, one is in another; a concept, a continue step and a clear-all.
Element(e, cue, step, delay) ==
  [type |-> "element", content |-> e, lookahead |-> FALSE, cue |-> cue, continueStep |-> step,
   outDelay |-> delay, delayTake |-> FALSE]
Viz == INSTANCE VizMSE WITH
  Elements <- {A, B, C}, SlotOf <- (A :> slot1 @@ B :> slot1 @@ C :> slot2), Internal <- {B},
  Concepts <- {red}, Nothing <- none, MaxDelay <- 1, MaxStates <- 4, MaxReady <- 1, MaxErrors <- 0,
  MayMove <- FALSE, MayOverlap <- FALSE, MaySkipSteps <- FALSE,
  Timelines <- {
    "L1" :> Element(A, FALSE, 0, 1) @@ "L2" :> Element(C, TRUE, 0, 0),
    "L1" :> Element(B, FALSE, 0, 0) @@ "L2" :> Element(C, FALSE, 0, 1),
    "L1" :> Element(A, FALSE, 1, 0) @@ "L3" :> [type |-> "concept", concept |-> red],
    "L4" :> Element(B, FALSE, 0, 0),
    "L2" :> Element(C, FALSE, 0, 1)
      @@ "L5" :> [type |-> "continue", id |-> 1, reference |-> "L2", direction |-> 1]
      @@ "L6" :> [type |-> "shows", id |-> 1],
    "L7" :> [type |-> "clear"] @@ "L1" :> Element(A, FALSE, 0, 0)},
  logged <- v1, queue <- v2, screen <- v3, steps <- v4, cued <- v5, concept <- v6, happened <- v7
ASSUME Viz!VizAssumption

\* The elements of Viz ahead of time, a template and a pilot element: what the module is extended
\* with.
ASSUME VizManagerAssumption

Deck == INSTANCE Hyperdeck WITH
  Clips <- {A, B}, Files <- {"f", "g"}, Modes <- {mode1, mode2}, DefaultMode <- mode1, NoClip <- none,
  NoFile <- none, MaxStates <- 2, MaxDrops <- 1, MaxSyncs <- 1, MaxPolls <- 1,
  MayKeepRunning <- FALSE, MayRace <- FALSE,
  wanted <- v1, handed <- v2, log <- v3, queue <- v4, deck <- v5, connection <- v6, query <- v7,
  status <- v8, polls <- v9, happened <- v10
ASSUME Deck!HyperdeckAssumption

\* CasparCG: a layer with two clips, of which the server may lack one.
Caspar == INSTANCE CasparCG WITH
  Clips <- {A, B}, Missing <- {B}, Nothing <- none, MaxStates <- 2, MaxDrops <- 1, MaxRestarts <- 1,
  MaxReady <- 1, MayLose <- FALSE, MayRace <- FALSE, CheckMayFail <- FALSE,
  wanted <- v1, handed <- v2, log <- v3, queue <- v4, answers <- v5, server <- v6, missing <- v7,
  confirmed <- v8, retry <- v9, connection <- v10, happened <- v11
ASSUME Caspar!CasparCGAssumption

Lights == INSTANCE Pharos WITH
  LayerOrder <- <<"k", "l">>, Scenes <- {A, B}, Timelines <- {C}, Unreleased <- {B}, Rates <- {fast},
  NoRate <- none, NoObject <- none, MayMove <- FALSE, MayReorder <- FALSE,
  log <- v1, requests <- v2, controller <- v3
ASSUME Lights!PharosAssumption

\* The connection to Pharos, with room for every socket and timer that two troubles bring about.
Web == INSTANCE PharosConnection WITH
  MaxSockets <- 7, MaxTimers <- 6, MaxTroubles <- 2, MayFailFirst <- FALSE,
  socket <- v1, state <- v2, connected <- v3, connecting <- v4, reconnecting <- v5, again <- v6,
  timers <- v7, alive <- v8, reply <- v9, pinged <- v10, troubles <- v11
ASSUME Web!PharosConnectionAssumption

\* Lawo: two layers for one fader.
Desk == INSTANCE Lawo WITH
  LayerOrder <- <<"k", "l">>, PathOrder <- <<"p">>, Values <- {0, 1}, Between <- moving, Nowhere <- none,
  MaxStates <- 3, MayCut <- FALSE, MayRefuse <- FALSE,
  log <- v1, queue <- v2, transitions <- v3, wire <- v4, results <- v5, lastSent <- v6, mixer <- v7,
  ramp <- v8, initialized <- v9, states <- v10
ASSUME Desk!LawoAssumption

\* OBS: two layers that set the current scene.
Scenes == INSTANCE Obs WITH
  LayerOrder <- <<"s", "l">>, FieldOf <- [k \in {"s", "l"} |-> "scene"], FieldOrder <- <<"scene", "preview">>,
  Values <- {0, 1}, Undefined <- none, MaxStates <- 2, MaxDrops <- 1, MaxFailures <- 1,
  wanted <- v1, handed <- v2, log <- v3, queue <- v4, obs <- v5, connection <- v6, initialized <- v7,
  retry <- v8, happened <- v9
ASSUME Scenes!ObsAssumption

\* TriCaster: three objects of its main mix/effect, and one of a keyer on a second layer.
Setting(sets, priority) == [sets |-> sets, priority |-> priority]
Switch == INSTANCE TriCaster WITH
  LayerOrder <- <<"m", "n">>, Inputs <- {"black", "x"}, Black <- "black", Undefined <- none,
  ObjectsOf <- [m |-> {Setting([program |-> "x", effect |-> "fade", duration |-> 2], 0),
                       Setting([program |-> "x", preview |-> "black"], 1), Setting([a |-> "x"], 0)},
                n |-> {Setting([onAir |-> TRUE, output |-> "x"], 1)}],
  MaxStates <- 2, MaxCloses <- 1, MayReturn <- FALSE, MayRace <- FALSE, MayCloseAsking <- FALSE,
  log <- v1, queue <- v2, switcher <- v3, socket <- v4, asking <- v5, connected <- v6,
  initialized <- v7, fresh <- v8, happened <- v9
ASSUME Switch!TriCasterAssumption

Tcp == INSTANCE TcpSend WITH
  LayerOrder <- <<"k", "l">>, Contents <- {"a", "b"}, PriorityOf <- [a |-> 1, b |-> 0], Nowhere <- none,
  MaxStates <- 2, MaxTroubles <- 1, MaxLapses <- 1, makeReadyDoesReset <- TRUE, MayCut <- FALSE,
  log <- v1, queue <- v2, sending <- v3, shown <- v4, connection <- v5, retry <- v6, destroying <- v7,
  phase <- v8, lapsed <- v9, lost <- v10, happened <- v11
ASSUME Tcp!TcpSendAssumption

\* Shotoku: two shots, and a sequence of both.
Shot == INSTANCE Shotoku WITH
  ShotOrder <- <<"s1", "s2">>, SequenceOrder <- <<"q">>, ShotsOf <- [q |-> <<"s1", "s2">>], Nowhere <- none,
  MaxStates <- 2, MaxCloses <- 2, MaxFailures <- 1, MayOverlap <- FALSE, MayCloseLate <- FALSE,
  log <- v1, queue <- v2, pending <- v3, camera <- v4, due <- v5, socket <- v6, client <- v7,
  closing <- v8, attempt <- v9, retry <- v10, connected <- v11, happened <- v12
ASSUME Shot!ShotokuAssumption

Chef == INSTANCE SofieChef WITH
  WindowOrder <- <<"w">>, Urls <- {"a", "b"}, Home <- home, Nowhere <- none,
  MaxStates <- 2, MaxCloses <- 2, MaxFailures <- 1, MayShow <- FALSE, MayRace <- FALSE,
  wanted <- v1, handed <- v2, log <- v3, queue <- v4, chef <- v5, ws <- v6, first <- v7, listing <- v8,
  dead <- v9, reconnect <- v10, happened <- v11
ASSUME Chef!SofieChefAssumption

Camera == INSTANCE Panasonic WITH
  LayerOrder <- <<"p", "s", "z">>, FieldOf <- [p |-> "preset", s |-> "speed", z |-> "zoomSpeed"],
  Values <- {0, 1}, Undefined <- none, MaxStates <- 2, MaxFailures <- 1, MayZoom <- FALSE, MayOvertake <- FALSE,
  log <- v1, requests <- v2, timers <- v3, camera <- v4, lost <- v5, connected <- v6, happened <- v7
ASSUME Camera!PanasonicAssumption

\* ATEM: two layers with settings and an auxiliary of their own, one that is not mapped.
Mixer == INSTANCE Atem WITH
  LayerOrder <- <<"k", "l">>, ObjectsOf <- [k |-> {[pgm |-> 1]}, l |-> {[pgm |-> 0, aux |-> 1], [aux |-> 0]}],
  Settings <- {"pgm", "aux", "spare"}, Auxes <- {"aux", "spare"}, Mapped <- {"aux"},
  Values <- {0, 1}, Default <- 0, Undefined <- none, Live <- live, Nothing <- none,
  MaxStates <- 2, MaxDrops <- 1, MaxResyncs <- 1, MaxMoves <- 1, MayRace <- FALSE, MayResyncAhead <- FALSE,
  wanted <- v1, handed <- v2, coming <- v3, ahead <- v4, log <- v5, later <- v6, queue <- v7, atem <- v8,
  known <- v9, connection <- v10, moved <- v11, happened <- v12
ASSUME Mixer!AtemAssumption

\* OSC: two layers, a path with values and an animation, and another path.
Message(id, path, value, priority) == [id |-> id, path |-> path, value |-> value, priority |-> priority]
Animation(id, path, value, from, priority) == [from |-> from] @@ Message(id, path, value, priority)
Receiver == INSTANCE Osc WITH
  LayerOrder <- <<"k", "l">>,
  Objects <- {Animation(1, "p", 0, none, 0), Animation(2, "p", 1, 0, 1), Animation(3, "p", 0, 1, 1),
              Animation(4, "q", 1, none, 0)},
  Nothing <- none, Between <- moving, Duration <- 3, Steps <- {1, 2}, MaxStates <- 3, MayCut <- FALSE,
  log <- v1, transitions <- v2, receiver <- v3, last <- v4, states <- v5
ASSUME Receiver!OscAssumption

\* Multi OSC: two layers of one receiver, and one of another.
Receivers == INSTANCE MultiOsc WITH
  LayerOrder <- <<"k", "l", "m">>, ConnectionOf <- [k |-> "c", l |-> "c", m |-> "d"], Connections <- {"c", "d"},
  Objects <- {Message(1, "p", 0, 1), Message(2, "p", 1, 0)}, Nothing <- none, MaxStates <- 3, MayThrow <- FALSE,
  wanted <- v1, handed <- v2, log <- v3, commandQueue <- v4, timer <- v5, receiver <- v6, last <- v7, states <- v8
ASSUME Receivers!MultiOscAssumption

\* Singular Live: two layers for one composition.
Graphics == INSTANCE SingularLive WITH
  LayerOrder <- <<"k", "l">>, CompositionOf <- [k |-> "c", l |-> "c"], CompositionOrder <- <<"c">>,
  Payloads <- {"a", "b"}, Nothing <- none, MaxStates <- 3, MaxFailures <- 1, MayFail <- FALSE,
  wanted <- v1, handed <- v2, log <- v3, queue <- v4, requests <- v5, service <- v6, happened <- v7
ASSUME Graphics!SingularLiveAssumption

CameraHead == INSTANCE Telemetrics WITH
  Presets <- {1, 2}, Timelines <- {<<>>, <<1>>, <<2>>}, Nowhere <- none, MaxStates <- 3, MaxCloses <- 2,
  MayCut <- FALSE, MayEnd <- FALSE,
  wanted <- v1, handed <- v2, log <- v3, queue <- v4, camera <- v5, socket <- v6, retry <- v7,
  statusCode <- v8, initialized <- v9, happened <- v10
ASSUME CameraHead!TelemetricsAssumption

Watch == INSTANCE HttpWatcher WITH
  MaxRequests <- 3, MaxChanges <- 2,
  service <- v1, soon <- v2, asked <- v3, answers <- v4, status <- v5, changes <- v6
ASSUME Watch!HttpWatcherAssumption

Ping == INSTANCE SisyfosConnection WITH
  MaxPackets <- 3, MaxChanges <- 2, MaxLosses <- 1, MaxLate <- 1, MayBeZero <- FALSE,
  sisyfos <- v1, pings <- v2, pongs <- v3, timer <- v4, isZero <- v5, connected <- v6, mixerOnline <- v7,
  happened <- v8
ASSUME Ping!SisyfosConnectionAssumption

From4 == <<v4, v5, v6, v7, v8, v9, v10, v11, v12>>
From6 == <<v6, v7, v8, v9, v10, v11, v12>>
From7 == <<v7, v8, v9, v10, v11, v12>>
From8 == <<v8, v9, v10, v11, v12>>
From9 == <<v9, v10, v11, v12>>
From10 == <<v10, v11, v12>>
From11 == <<v11, v12>>
From12 == <<v12>>

Init ==
  /\ ManagerInit
  /\ \/ part = "viz" /\ Viz!Init
         /\ v8 = Unused /\ v9 = Unused /\ v10 = Unused /\ v11 = Unused /\ v12 = Unused
     \/ /\ part = "preparing"
        /\ v1 = Unused /\ v2 = Unused /\ v3 = Unused /\ v4 = Unused /\ v5 = Unused /\ v6 = Unused
        /\ v7 = Unused /\ v8 = Unused /\ v9 = Unused /\ v10 = Unused /\ v11 = Unused /\ v12 = Unused
     \/ part = "deck" /\ Deck!Init /\ v11 = Unused /\ v12 = Unused
     \/ part = "caspar" /\ Caspar!Init /\ v12 = Unused
     \/ part = "lights" /\ Lights!Init
         /\ v4 = Unused /\ v5 = Unused /\ v6 = Unused /\ v7 = Unused /\ v8 = Unused
         /\ v9 = Unused /\ v10 = Unused /\ v11 = Unused /\ v12 = Unused
     \/ part = "web" /\ Web!Init /\ v12 = Unused
     \/ part = "desk" /\ Desk!Init /\ v11 = Unused /\ v12 = Unused
     \/ part = "scenes" /\ Scenes!Init /\ v10 = Unused /\ v11 = Unused /\ v12 = Unused
     \/ part = "switch" /\ Switch!Init /\ v10 = Unused /\ v11 = Unused /\ v12 = Unused
     \/ part = "tcp" /\ Tcp!Init /\ v12 = Unused
     \/ part = "shot" /\ Shot!Init
     \/ part = "chef" /\ Chef!Init /\ v12 = Unused
     \/ part = "camera" /\ Camera!Init
         /\ v8 = Unused /\ v9 = Unused /\ v10 = Unused /\ v11 = Unused /\ v12 = Unused
     \/ part = "mixer" /\ Mixer!Init
     \/ part = "receiver" /\ Receiver!Init
         /\ v6 = Unused /\ v7 = Unused /\ v8 = Unused /\ v9 = Unused /\ v10 = Unused
         /\ v11 = Unused /\ v12 = Unused
     \/ part = "receivers" /\ Receivers!Init
         /\ v9 = Unused /\ v10 = Unused /\ v11 = Unused /\ v12 = Unused
     \/ part = "graphics" /\ Graphics!Init
         /\ v8 = Unused /\ v9 = Unused /\ v10 = Unused /\ v11 = Unused /\ v12 = Unused
     \/ part = "head" /\ CameraHead!Init /\ v11 = Unused /\ v12 = Unused
     \/ part = "watch" /\ Watch!Init
         /\ v7 = Unused /\ v8 = Unused /\ v9 = Unused /\ v10 = Unused /\ v11 = Unused /\ v12 = Unused
     \/ part = "ping" /\ Ping!Init
         /\ v9 = Unused /\ v10 = Unused /\ v11 = Unused /\ v12 = Unused

\* A step of a part that has so many variables, and leaves the rest alone.
Runs(p, A_, rest) == part = p /\ A_ /\ UNCHANGED part /\ UNCHANGED managerVars /\ UNCHANGED rest
Prepares(A_) == part = "preparing" /\ A_ /\ UNCHANGED part /\ UNCHANGED shared

Next ==
  \/ Runs("viz", Viz!Next, From8)
  \/ Prepares(ManagerNext)
  \/ Runs("deck", Deck!Next, From11)
  \/ Runs("caspar", Caspar!Next, From12)
  \/ Runs("lights", Lights!Next, From4)
  \/ Runs("web", Web!Next, From12)
  \/ Runs("desk", Desk!Next, From11)
  \/ Runs("scenes", Scenes!Next, From10)
  \/ Runs("switch", Switch!Next, From10)
  \/ Runs("tcp", Tcp!Next, From12)
  \/ Runs("shot", Shot!Next, <<>>)
  \/ Runs("chef", Chef!Next, From12)
  \/ Runs("camera", Camera!Next, From8)
  \/ Runs("mixer", Mixer!Next, <<>>)
  \/ Runs("receiver", Receiver!Next, From6)
  \/ Runs("receivers", Receivers!Next, From9)
  \/ Runs("graphics", Graphics!Next, From8)
  \/ Runs("head", CameraHead!Next, From11)
  \/ Runs("watch", Watch!Next, From7)
  \/ Runs("ping", Ping!Next, From9)

\* Every part keeps the fairness of its module.  One part runs: what is fair in each may share a
\* condition.
Spec ==
  /\ Init /\ [][Next]_vars
  /\ WF_vars(\/ Prepares(Continues("monitor"))
             \/ Runs("caspar", Caspar!Continues, From12)
             \/ Runs("web", \E s \in Web!Sockets : Web!Opens(s), From12)
             \/ Runs("scenes", Scenes!Continues, From10)
             \/ Runs("tcp", Tcp!Continues, From12)
             \/ Runs("shot", Shot!Timers, <<>>)
             \/ Runs("chef", Chef!Continues, From12)
             \/ Runs("camera", Camera!Pings, From8)
             \/ Runs("mixer", Mixer!Hands, <<>>)
             \/ Runs("receivers", Receivers!HandleState, From9)
             \/ Runs("head", CameraHead!Connecting, From11)
             \/ Runs("watch", Watch!Checks, From7)
             \/ Runs("ping", Ping!Timers, From9))
  /\ WF_vars(\/ Prepares(Continues("loader"))
             \/ Runs("caspar", Caspar!Finds, From12)
             \/ Runs("web", Web!Replied, From12)
             \/ Runs("scenes", Scenes!Connects, From10)
             \/ Runs("tcp", Tcp!Connects, From12)
             \/ Runs("chef", Chef!DeadLists, From12)
             \/ Runs("camera", Camera!Timer, From8)
             \/ Runs("mixer", Mixer!Passes, <<>>)
             \/ Runs("receivers", Receivers!Timer, From9)
             \/ Runs("watch", Watch!Receives, From7)
             \/ Runs("ping", Ping!Arrives("present"), From9))
  /\ WF_vars(\/ Prepares(Continues("expecting"))
             \/ Runs("caspar", Caspar!AssertIntendedState, From12)
             \/ Runs("web", Web!KeepAlive, From12)
             \/ Runs("tcp", Tcp!Timers, From12)
             \/ Runs("camera", Camera!Answers, From8)
             \/ Runs("mixer", Mixer!Resolve, <<>>)
             \/ Runs("watch", Watch!Answered("right"), From7)
             \/ Runs("ping", Ping!Arrives("past"), From9))
  /\ WF_vars(\/ Prepares(Answers)
             \/ Runs("web", Web!ReconnectTimer, From12)
             \/ Runs("camera", Camera!Pongs, From8)
             \/ Runs("mixer", Mixer!Answers, <<>>)
             \/ Runs("watch", Watch!Answered("wrong code"), From7)
             \/ Runs("ping", Ping!Arrives("offline"), From9))
  /\ WF_vars(\/ Prepares(Takes)
             \/ Runs("web", Web!ReconnectFails, From12)
             \/ Runs("watch", Watch!Answered("no keyword"), From7))
  /\ WF_vars(\/ Prepares(MonitorTick)
             \/ Runs("watch", Watch!Answered("error"), From7))
  /\ WF_vars(\/ Prepares(DeleteTimeout)
             \/ Runs("watch", Watch!Answered("empty"), From7))
  /\ SF_vars(\/ Runs("caspar", Caspar!Reconnects, From12)
             \/ Runs("shot", Shot!Connects, <<>>)
             \/ Runs("chef", Chef!Opens, From12))
  /\ SF_vars(Runs("chef", Chef!Lists, From12))
  /\ SF_vars(Runs("chef", Chef!Reconnects, From12))

----------------------------------------------------------------------------
\* The type invariant of the part that runs.
TypeOK ==
  /\ part = "viz" => Viz!TypeOK
  /\ part = "preparing" => ManagerTypeOK
  /\ part = "deck" => Deck!TypeOK
  /\ part = "caspar" => Caspar!TypeOK
  /\ part = "lights" => Lights!TypeOK
  /\ part = "web" => Web!TypeOK
  /\ part = "desk" => Desk!TypeOK
  /\ part = "scenes" => Scenes!TypeOK
  /\ part = "switch" => Switch!TypeOK
  /\ part = "tcp" => Tcp!TypeOK
  /\ part = "shot" => Shot!TypeOK
  /\ part = "chef" => Chef!TypeOK
  /\ part = "camera" => Camera!TypeOK
  /\ part = "mixer" => Mixer!TypeOK
  /\ part = "receiver" => Receiver!TypeOK
  /\ part = "receivers" => Receivers!TypeOK
  /\ part = "graphics" => Graphics!TypeOK
  /\ part = "head" => CameraHead!TypeOK
  /\ part = "watch" => Watch!TypeOK
  /\ part = "ping" => Ping!TypeOK

\* A device whose commands are through has what the last state wants, whatever the commands of
\* earlier states, delays, steps, fades and other transitions have left behind on the way: the
\* elements in Viz, the transport of a Hyperdeck, scenes and timelines of Pharos, faders of Lawo,
\* the program and keyers of a TriCaster, what a TCP receiver was told, a Shotoku camera,
\* the settings of an ATEM, the paths of an OSC receiver (or what they are on the way to), compositions of Singular Live, a preset of
\* a Telemetrics head.
DeviceShowsTheState ==
  /\ part = "viz" => Viz!ShowsTheElements
  /\ part = "deck" => Deck!RunsTheTransport
  /\ part = "lights" => Lights!RunsTheLayers
  /\ part = "desk" => Desk!FadersFollow
  /\ part = "switch" => Switch!SwitchesFollow
  /\ part = "tcp" => Tcp!MessagesArrive
  /\ part = "shot" => Shot!CameraFollows
  /\ part = "mixer" => Mixer!ShowsItInTime
  /\ part = "receiver" => Receiver!PathsAreOnTheirWay
  /\ part = "graphics" => Graphics!CompositionsFollow
  /\ part = "head" => CameraHead!ShowsThePreset

\* In the end a device is as the timeline wants it, whatever was lost, restarted or changed while
\* it was asked: CasparCG, the elements of Viz, OBS, Sofie Chef, a Panasonic camera, an ATEM, the
\* receivers of multi OSC.
DevicesFollow ==
  <>[](/\ part = "caspar" => Caspar!ShowsTheLayer
       /\ part = "preparing" => KnowsTheElements
       /\ part = "scenes" => Scenes!ShowsTheState
       /\ part = "chef" => Chef!ShowsThePages
       /\ part = "camera" => Camera!CameraObeys
       /\ part = "mixer" => Mixer!ShowsTheState
       /\ part = "receivers" => Receivers!AddressesFollow)

\* A connection that is lost, refused or dead is there again in the end, and every timer and socket
\* that was left behind on the way has let it be: Pharos, TCP, Shotoku, Telemetrics.  What is told of a
\* service that is only asked is what it answers: that of an HTTP watcher, Sisyfos.
ConnectionsComeBack ==
  <>[](/\ part = "web" => Web!Online
       /\ part = "tcp" => Tcp!Online
       /\ part = "shot" => Shot!Online
       /\ part = "head" => CameraHead!Online
       /\ part = "watch" => Watch!Tells
       /\ part = "ping" => Ping!Tells)
=============================================================================
