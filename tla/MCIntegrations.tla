---------------------------- MODULE MCIntegrations ----------------------------
(***************************************************************************)
(* Model checking of the integrations, each alone: which of them runs is   *)
(* chosen in the initial state.  They do not interact, so the instances    *)
(* share the variables, each saying what they stand for; two ports of      *)
(* Quantel have those of their module.                                     *)
(***************************************************************************)
EXTENDS Quantel, TLC

CONSTANTS layer1, layer2, old, new, p1, p2, channel1, A, B, i1, i2, i3, dark, bright, c1, c2,
  trigger, none

VARIABLES part, v1, v2, v3, v4, v5, v6, v7, v8, v9, v10, v11
shared == <<v1, v2, v3, v4, v5, v6, v7, v8, v9, v10, v11>>
vars == <<part, quantelVars, shared>>
Unused == 0

Http == INSTANCE HttpSend WITH
  Layers <- {layer1, layer2}, Contents <- {old, new}, MaxStates <- 2, MaxFailures <- 1,
  MayOverlap <- FALSE, MayReorder <- FALSE,
  currentState <- v1, runs <- v2, requests <- v3, retries <- v4, trackedState <- v5,
  terminated <- v6, server <- v7, failures <- v8
ASSUME Http!HttpSendAssumption

\* One port that changes between two clips, of which the server may lack one.
Switching == INSTANCE Quantel WITH
  Ports <- {p1}, Channels <- {channel1}, Clips <- {A, B}, Mode <- [p \in {p1} |-> "quality"],
  FoundLater <- {B}, CLIP_LENGTH <- 20, JUMP_ERROR_MARGIN <- 10, MaxStates <- 3,
  AheadOfMissing <- FALSE, ReleaseErrors <- {"error"}, MayRemap <- FALSE, MayRace <- FALSE,
  state <- v1, handed <- v2, queue <- v3, threads <- v4, tracked <- v5, releasing <- v6,
  retryTimeout <- v7, failedAction <- v8, missing <- v9, gateway <- v10
ASSUME Switching!QuantelAssumption

\* Two ports that want the same channel: what the module is extended with.
FastPorts == [p \in {p1, p2} |-> "speed"]
ASSUME QuantelAssumption

\* vMix with two inputs of its own and one that is added and removed.
Mix(program, black, recording, output, looks) ==
  [program |-> program, fadeToBlack |-> black, recording |-> recording, output |-> output,
   look |-> looks]
Mixing == INSTANCE Vmix WITH
  Inputs <- {i1, i2, i3}, Looks <- {dark, bright}, AddedByUs <- {i3}, DefaultLook <- dark,
  Fresh <- Mix(i1, FALSE, FALSE, i1, i1 :> dark @@ i2 :> dark),
  States <- {Mix(i1, FALSE, FALSE, i1, i1 :> dark @@ i2 :> bright),
             Mix(i2, TRUE, FALSE, i2, i1 :> bright @@ i2 :> bright),
             Mix(i3, FALSE, TRUE, i2, i1 :> dark @@ i2 :> dark @@ i3 :> bright)},
  MaxStates <- 2, MaxDrops <- 1, MaxDrifts <- 1,
  MayRace <- FALSE, MayBeLate <- FALSE, OutputsMayBeLost <- FALSE,
  wanted <- v1, handed <- v2, logged <- v3, commands <- v4, vmix <- v5, connected <- v6,
  reply <- v7, expecting <- v8, initialized <- v9, polling <- v10, happened <- v11
ASSUME Mixing!VmixAssumption

\* Sisyfos with two channels, for one of which two objects compete.
OnChannel(c, priority, level) == [channel |-> c, overridePriority |-> priority, level |-> level]
Faders == INSTANCE Sisyfos WITH
  Channels <- {c1, c2}, Levels <- {0, 1}, DefaultLevel <- 0,
  Objects <- {OnChannel(c1, 0, 1), OnChannel(c1, 1, 0), OnChannel(c2, 0, 1)},
  Triggers <- {trigger}, NoTrigger <- none,
  MaxStates <- 2, MaxMoves <- 1, MaxRequests <- 2,
  MayResync <- FALSE, MayOverlap <- FALSE, MayMix <- FALSE,
  wanted <- v1, log <- v2, queue <- v3, known <- v4, listeners <- v5, replies <- v6,
  mixer <- v7, moved <- v8, happened <- v9
ASSUME Faders!SisyfosAssumption

Init ==
  /\ QuantelInit
  /\ \/ part = "http" /\ Http!Init /\ v9 = Unused /\ v10 = Unused /\ v11 = Unused
     \/ part = "switching" /\ Switching!QuantelInit /\ v11 = Unused
     \/ /\ part = "sharing"
        /\ v1 = Unused /\ v2 = Unused /\ v3 = Unused /\ v4 = Unused /\ v5 = Unused /\ v6 = Unused
        /\ v7 = Unused /\ v8 = Unused /\ v9 = Unused /\ v10 = Unused /\ v11 = Unused
     \/ part = "mixing" /\ Mixing!Init
     \/ part = "faders" /\ Faders!Init /\ v10 = Unused /\ v11 = Unused

HttpRests == UNCHANGED <<part, quantelVars, v9, v10, v11>>
FadersRest == UNCHANGED <<part, quantelVars, v10, v11>>

Next ==
  \/ part = "http" /\ Http!Next /\ HttpRests
  \/ part = "switching" /\ Switching!QuantelNext /\ UNCHANGED <<part, quantelVars, v11>>
  \/ part = "sharing" /\ QuantelNext /\ UNCHANGED <<part, shared>>
  \/ part = "mixing" /\ Mixing!Next /\ UNCHANGED <<part, quantelVars>>
  \/ part = "faders" /\ Faders!Next /\ FadersRest

\* Every part keeps the fairness of its module.
Mixes(A_) == part = "mixing" /\ A_ /\ UNCHANGED <<part, quantelVars>>
Fades(A_) == part = "faders" /\ A_ /\ FadersRest
Spec ==
  /\ Init /\ [][Next]_vars
  /\ WF_vars(part = "http" /\ Http!Progress /\ HttpRests)
  /\ WF_vars(Mixes(Mixing!Hands)) /\ WF_vars(Mixes(Mixing!SendCommand))
  /\ WF_vars(Mixes(Mixing!Tick)) /\ WF_vars(Mixes(Mixing!OnDataReceived))
  /\ WF_vars(Mixes(Mixing!Connect))
  /\ WF_vars(Fades(Faders!HandleState)) /\ WF_vars(Fades(Faders!Send))
  /\ WF_vars(Fades(Faders!Initialized))

----------------------------------------------------------------------------
\* The type invariant of the part that runs.
TypeOK ==
  /\ QuantelTypeOK
  /\ part = "http" => Http!TypeOK
  /\ part = "switching" => Switching!QuantelTypeOK
  /\ part = "mixing" => Mixing!TypeOK
  /\ part = "faders" => Faders!TypeOK

\* In the end a device is as the timeline wants it, whatever was lost, sent again or changed
\* on the way: the HTTP server, vMix, Sisyfos.
DeviceFollows ==
  <>[](/\ part = "http" => Http!Posted
       /\ part = "mixing" => Mixing!Follows
       /\ part = "faders" => Faders!Follows)

\* vMix does not change what is on air before the transition that takes it off.
ChangesOffAir == [][part = "mixing" => Mixing!ChangesOffAir]_vars

\* A Quantel port whose commands are through shows the clip of the state.
PortShowsTheClip == ShowsTheClip /\ (part = "switching" => Switching!ShowsTheClip)
=============================================================================
