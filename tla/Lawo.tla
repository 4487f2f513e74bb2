-------------------------------- MODULE Lawo --------------------------------
(***************************************************************************)
(* integrations/lawo/index.ts: the faders of a sound mixer.  A fader is    *)
(* set, moved by an animation of this device, or by a ramp of the mixer.   *)
(* The device knows the value that the mixer told last.  The mixer and the *)
(* ember tree are external.                                                *)
(***************************************************************************)
EXTENDS Naturals, Sequences

CONSTANTS
  PathOrder,           \* the paths of the faders, in the order of the priorities of their mappings
  LayerOrder, Values, Between, Nowhere,
  MaxStates,           \* bound
  MayCut,              \* a fader is set while it is faded, or faded to where it still is
  MayRefuse            \* the mixer refuses a ramp for good, as when the fader is touched

VARIABLES
  log,          \* the last state in the log of DeviceWithState
  queue,        \* commands that are due
  transitions,  \* by path: where to, or Nowhere
  wire,         \* on its way to the mixer
  results,      \* of ramps, on their way back
  lastSent,     \* _lastSentValue: commands so far, by path
  mixer,        \* external: the values
  ramp,         \* there is a _rampMotorFunctionPath; by the mode of the device
  initialized, states
vars == <<log, queue, transitions, wire, results, lastSent, mixer, ramp, initialized, states>>

Ran(s) == {s[n] : n \in DOMAIN s}
Paths == Ran(PathOrder)
Fades == {"none", "short", "long"}
Node == [value : Values, fade : Fades]
Nodes == [Paths -> Node \cup {Nowhere}]
State == [nodes : Nodes, trigger : BOOLEAN]
Empty == [nodes |-> [p \in Paths |-> Nowhere], trigger |-> FALSE]

LawoAssumption ==
  /\ Between \notin Values /\ Nowhere \notin Values \cup Node /\ MaxStates \in Nat
  /\ {MayCut, MayRefuse} \subseteq BOOLEAN

Command == [path : Paths, value : Values, fade : Fades]
Ramp == [path : Paths, value : Values, sent : Nat]

TypeOK ==
  /\ log \in State /\ queue \in Seq(Command)
  /\ transitions \in [Paths -> Values \cup {Nowhere}]
  /\ wire \in Seq([path : Paths, value : Values \cup {Between}] \cup Ramp) /\ results \in Seq(Ramp)
  /\ mixer \in [Paths -> Values \cup {Between}]
  /\ {ramp, initialized} \subseteq BOOLEAN /\ states \in 0..MaxStates

Init ==
  /\ log = Empty /\ queue = <<>> /\ wire = <<>> /\ results = <<>>
  /\ transitions = [p \in Paths |-> Nowhere] /\ lastSent = [p \in Paths |-> 0]
  /\ mixer \in [Paths -> Values]
  /\ ramp \in BOOLEAN /\ initialized = FALSE /\ states = 0

\* The first connection: the tree is expanded, and the names of the sources are mapped.
Connected ==
  /\ ~initialized /\ initialized' = TRUE
  /\ UNCHANGED <<log, queue, transitions, wire, results, lastSent, mixer, ramp, states>>

----------------------------------------------------------------------------
\* convertStateToLawo: of the sources of the layers the one with the highest priority sets its
\* fader; of equals the last.
Sources == [path : Paths, node : Node, priority : 0..1]
convertStateToLawo(layers, trigger) ==
  LET Of(p) == {n \in DOMAIN LayerOrder : layers[LayerOrder[n]] # Nowhere /\ layers[LayerOrder[n]].path = p}
      Priority(n) == layers[LayerOrder[n]].priority
      Last(p) == CHOOSE n \in Of(p) : \A m \in Of(p) : Priority(m) < Priority(n) \/ (Priority(m) = Priority(n) /\ m <= n)
  IN [nodes |-> [p \in Paths |-> IF Of(p) = {} THEN Nowhere ELSE layers[LayerOrder[Last(p)]].node],
      trigger |-> trigger]

\* _diffStates: a difference of the value, or a trigger that changed; what is no more stays.
Changed(old, new, p) ==
  /\ new.nodes[p] # Nowhere
  /\ \/ old.nodes[p] = Nowhere \/ old.nodes[p].value # new.nodes[p].value
     \/ new.trigger /\ ~old.trigger
diffStates(old, new) ==
  LET To(p) == [path |-> p, value |-> new.nodes[p].value, fade |-> new.nodes[p].fade]
      Is(p) == Changed(old, new, p)
      paths == SelectSeq(PathOrder, Is)
  IN [n \in DOMAIN paths |-> To(paths[n])]

Faded(p) == transitions[p] # Nowhere
\* Nothing is under way, so that the device knows the values.
Quiet == queue = <<>> /\ wire = <<>>

HandleState(layers, trigger) ==
  /\ initialized /\ Quiet /\ states < MaxStates
  /\ LET new == convertStateToLawo(layers, trigger) IN
     /\ \A p \in Paths : Changed(log, new, p) /\ Faded(p) =>
          MayCut \/ (new.nodes[p].fade # "none" /\ new.nodes[p].value # mixer[p])
     /\ queue' = diffStates(log, new)
     /\ log' = new
  /\ states' = states + 1
  /\ UNCHANGED <<transitions, wire, results, lastSent, mixer, ramp, initialized>>

----------------------------------------------------------------------------
(* Commands.  The lookup of a node takes no time here.                     *)

Set(p, value) == <<[path |-> p, value |-> value]>>

\* setValueWrapper: what is so already is not set.
SetValue(p, value) == wire' = IF mixer[p] = value THEN wire ELSE wire \o Set(p, value)

\* Short fades, and all without a function for them, are animated; a fade to where the fader is
\* comes to nothing.
Animates(c) == c.fade # "none" /\ ~ramp
Ramps(c) == c.fade = "long" /\ ramp

SendCommand ==
  /\ queue # <<>>
  /\ LET c == Head(queue)
         count == lastSent[c.path] + 1
     IN /\ lastSent' = [lastSent EXCEPT ![c.path] = count]
        /\ CASE Animates(c) ->
                  /\ transitions' = IF mixer[c.path] = c.value THEN transitions
                                    ELSE [transitions EXCEPT ![c.path] = c.value]
                  /\ UNCHANGED wire
             [] Ramps(c) ->
                  /\ wire' = Append(wire, [path |-> c.path, value |-> c.value, sent |-> count])
                  /\ UNCHANGED transitions
             [] OTHER -> SetValue(c.path, c.value) /\ UNCHANGED transitions
  /\ queue' = Tail(queue)
  /\ UNCHANGED <<log, results, mixer, ramp, initialized, states>>

\* runAnimation, for one of the paths: on its way, or at its end.
RunAnimation(p) ==
  /\ Faded(p) /\ Quiet
  /\ \/ SetValue(p, Between) /\ UNCHANGED transitions
     \/ SetValue(p, transitions[p]) /\ transitions' = [transitions EXCEPT ![p] = Nowhere]
  /\ UNCHANGED <<log, queue, results, lastSent, mixer, ramp, initialized, states>>

\* External: the mixer sets the value, makes the ramp, or refuses it.
IsRamp(message) == "sent" \in DOMAIN message
MixerSets ==
  /\ wire # <<>>
  /\ LET m == Head(wire) IN
     \/ mixer' = [mixer EXCEPT ![m.path] = m.value] /\ UNCHANGED results
     \/ IsRamp(m) /\ results' = Append(results, m) /\ UNCHANGED mixer
     \/ IsRamp(m) /\ MayRefuse /\ UNCHANGED <<mixer, results>>
  /\ wire' = Tail(wire)
  /\ UNCHANGED <<log, queue, transitions, lastSent, ramp, initialized, states>>

\* As it would be if a ramp that failed was not compared with what was sent since.
Late(r) == TRUE

\* A ramp that is not possible is replaced by the value, unless something was sent since.
StillWanted(r) == lastSent[r.path] <= r.sent

RampFailed ==
  /\ results # <<>> /\ queue = <<>>
  /\ LET r == Head(results) IN
     IF StillWanted(r) THEN SetValue(r.path, r.value) ELSE UNCHANGED wire
  /\ results' = Tail(results)
  /\ UNCHANGED <<log, queue, transitions, lastSent, mixer, ramp, initialized, states>>

Next ==
  \/ Connected
  \/ \E layers \in [Ran(LayerOrder) -> Sources \cup {Nowhere}], trigger \in BOOLEAN : HandleState(layers, trigger)
  \/ SendCommand
  \/ \E p \in Paths : RunAnimation(p)
  \/ MixerSets \/ RampFailed

----------------------------------------------------------------------------
\* Once everything is through, the faders are where the state wants them.
FadersFollow ==
  Quiet /\ results = <<>> =>
    \A p \in Paths : log.nodes[p] # Nowhere /\ ~Faded(p) => mixer[p] = log.nodes[p].value
=============================================================================
