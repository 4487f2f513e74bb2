------------------------------- MODULE Pharos -------------------------------
(***************************************************************************)
(* integrations/pharos/index.ts: scenes and timelines of a lighting        *)
(* controller, started and released by HTTP requests as the objects on the *)
(* layers change.  The controller is external.                             *)
(***************************************************************************)
EXTENDS Naturals, SequencesExt

CONSTANTS
  LayerOrder,          \* the layers, in the order of the state's keys
  Scenes, Timelines, Unreleased,   \* what has `noRelease'
  Rates, NoRate, NoObject,
  MayMove,             \* something is moved to another layer, or shown on two
  MayReorder           \* requests overtake each other

VARIABLES
  log,         \* the last state in the log of DeviceWithState
  requests,    \* sent, and not at the controller yet
  controller   \* external: what runs, and how
vars == <<log, requests, controller>>

Layers == Range(LayerOrder)
Things == Scenes \cup Timelines
Object ==
  [of : Scenes, stopped : BOOLEAN, pause : {FALSE}, rate : {NoRate}]
    \cup [of : Timelines, stopped : BOOLEAN, pause : BOOLEAN, rate : Rates \cup {NoRate}]
States == [Layers -> Object \cup {NoObject}]
None == [l \in Layers |-> NoObject]
Off == [on |-> FALSE, paused |-> FALSE, rate |-> NoRate]

PharosAssumption ==
  /\ IsInjective(LayerOrder)
  /\ Scenes \cap Timelines = {} /\ Unreleased \subseteq Things
  /\ NoRate \notin Rates /\ NoObject \notin Object
  /\ {MayMove, MayReorder} \subseteq BOOLEAN

Request ==
  [do : {"start", "release", "pause", "resume"}, of : Things]
    \cup [do : {"rate"}, of : Timelines, rate : Rates \cup {NoRate}]

TypeOK ==
  /\ log \in States /\ requests \in Seq(Request)
  /\ controller \in [Things -> [on : BOOLEAN, paused : BOOLEAN, rate : Rates \cup {NoRate}]]

Init == log = None /\ requests = <<>> /\ controller = [t \in Things |-> Off]

----------------------------------------------------------------------------
(* _diffStates                                                             *)

stopLayer(old) == IF old.of \in Unreleased THEN <<>> ELSE <<[do |-> "release", of |-> old.of]>>

\* Of a timeline that was not there before, neither is known; a rate that is no more is sent as none.
modifyTimelinePlay(new, pause, rate) ==
  IF new.of \in Scenes THEN <<>>
  ELSE (IF pause = {new.pause} THEN <<>> ELSE <<[do |-> IF new.pause THEN "pause" ELSE "resume", of |-> new.of]>>)
         \o (IF rate = new.rate THEN <<>> ELSE <<[do |-> "rate", of |-> new.of, rate |-> new.rate]>>)

\* Object ids, by which a second release of the same object is left out, are not modelled.
startLayer(new) ==
  IF new.stopped THEN stopLayer(new)
  ELSE <<[do |-> "start", of |-> new.of]>> \o modifyTimelinePlay(new, {}, NoRate)

SameKind(a, b) == (a.of \in Scenes) = (b.of \in Scenes)

\* As it would be if a stopped object was not told from one that runs.
ChangedThing(old, new) ==
  IF old.of # new.of THEN stopLayer(old) \o startLayer(new) ELSE modifyTimelinePlay(new, {old.pause}, old.rate)

Changed(old, new) ==
  IF ~SameKind(old, new) \/ old.stopped # new.stopped
  THEN (IF old.stopped THEN <<>> ELSE stopLayer(old)) \o startLayer(new)
  ELSE IF old.of # new.of THEN stopLayer(old) \o startLayer(new)
  ELSE modifyTimelinePlay(new, {old.pause}, old.rate)

AddedOrChanged(old, new) ==
  CASE new = NoObject -> <<>>
    [] old = NoObject -> startLayer(new)
    [] OTHER -> Changed(old, new)
Removed(old, new) == IF new = NoObject /\ old # NoObject THEN stopLayer(old) ELSE <<>>

\* What is new comes before what is removed.
diffStates(old, new) ==
  FlattenSeq([n \in DOMAIN LayerOrder |-> AddedOrChanged(old[LayerOrder[n]], new[LayerOrder[n]])])
    \o FlattenSeq([n \in DOMAIN LayerOrder |-> Removed(old[LayerOrder[n]], new[LayerOrder[n]])])

----------------------------------------------------------------------------
Shows(state, l, t) == state[l] # NoObject /\ state[l].of = t

\* A burst is sent, and has arrived, before the next state is due.
HandleState(new) ==
  /\ requests = <<>>
  /\ MayMove \/ \A t \in Things, k, l \in Layers : Shows(new, k, t) /\ (Shows(new, l, t) \/ Shows(log, l, t)) => k = l
  /\ requests' = diffStates(log, new)
  /\ log' = new
  /\ UNCHANGED controller

\* External: what the controller makes of a request.
Obeyed(r) ==
  CASE r.do = "start" -> [on |-> TRUE, paused |-> FALSE, rate |-> NoRate]
    [] r.do = "release" -> Off
    [] ~controller[r.of].on -> Off
    [] r.do = "pause" -> [controller[r.of] EXCEPT !.paused = TRUE]
    [] r.do = "resume" -> [controller[r.of] EXCEPT !.paused = FALSE]
    [] r.do = "rate" -> [controller[r.of] EXCEPT !.rate = IF r.rate = NoRate THEN @ ELSE r.rate]

Arrive(n) ==
  /\ n = 1 \/ MayReorder
  /\ controller' = [controller EXCEPT ![requests[n].of] = Obeyed(requests[n])]
  /\ requests' = RemoveAt(requests, n)
  /\ UNCHANGED log

Next ==
  \/ \E s \in States : HandleState(s)
  \/ \E n \in DOMAIN requests : Arrive(n)

----------------------------------------------------------------------------
Runs(l, t) == Shows(log, l, t) /\ ~log[l].stopped

\* Once its requests have arrived, the controller runs what the layers show, as they show it, and
\* nothing else, but for what is never released.
RunsTheLayers ==
  requests = <<>> =>
    \A t \in Things :
      /\ \A l \in Layers : Runs(l, t) =>
           /\ controller[t].on
           /\ controller[t].paused = log[l].pause
           /\ log[l].rate \in {NoRate, controller[t].rate}
      /\ controller[t].on => t \in Unreleased \/ \E l \in Layers : Runs(l, t)
=============================================================================
