----------------------------- MODULE Panasonic -----------------------------
(***************************************************************************)
(* integrations/panasonicPTZ: speed, zoom and preset of a camera, which is *)
(* external, and the requests to it.  A request that comes while others    *)
(* are under way waits until one comes while none is: in the end a ping.   *)
(***************************************************************************)
EXTENDS Naturals, SequencesExt

CONSTANTS
  LayerOrder, FieldOf,          \* the layers, and what their mappings are of
  Values, Undefined,
  MaxStates, MaxFailures,       \* bounds
  MayZoom,                      \* a zoom speed is wanted: no command for it is ever sent
  MayOvertake                   \* a value is sent while an older one is under way

VARIABLES
  log,          \* the last state in the log of DeviceWithState
  requests,     \* _commandQueue of the camera
  timers,       \* _executeQueueTimeout: how many
  camera,       \* external
  lost,         \* the fields whose last request failed
  connected, happened
vars == <<log, requests, timers, camera, lost, connected, happened>>

FieldOrder == <<"speed", "zoomSpeed", "zoom", "preset">>     \* COMMAND_PRIORITY
Fields == Range(FieldOrder)
State == [Fields -> Values \cup {Undefined}]
Layers == Range(LayerOrder)
Timelines == [Layers -> Values \cup {Undefined}]
Request == [field : Fields \cup {"ping"}, value : Values \cup {Undefined}, executing : BOOLEAN]

PanasonicAssumption ==
  /\ 0 \in Values /\ Undefined \notin Values /\ FieldOf \in [Layers -> Fields]
  /\ {MaxStates, MaxFailures} \subseteq Nat /\ {MayZoom, MayOvertake} \subseteq BOOLEAN

TypeOK ==
  /\ log \in State /\ requests \in Seq(Request) /\ timers \in Nat
  /\ camera \in State /\ lost \subseteq Fields /\ connected \in BOOLEAN

Count(what) == happened' = [happened EXCEPT ![what] = @ + 1]

\* _getDefaultState
Default == [f \in Fields |-> IF f = "zoomSpeed" THEN 0 ELSE Undefined]
Ping == [field |-> "ping", value |-> Undefined, executing |-> FALSE]

----------------------------------------------------------------------------
(* The requests: r has the requests and the timers.                        *)

Waits(r, n) == ~r.requests[n].executing

\* _executeQueue: the first that waits; a timer for the next, if there is one.
ExecuteQueue(r) ==
  LET waiting == {n \in DOMAIN r.requests : Waits(r, n)} IN
  IF waiting = {} THEN r
  ELSE LET n == CHOOSE m \in waiting : \A k \in waiting : m <= k
       IN [requests |-> [r.requests EXCEPT ![n].executing = TRUE],
           timers |-> IF waiting = {n} THEN r.timers ELSE r.timers + 1]

\* As it would be if a request took the place of those that wait.
SendNewest(r, request) ==
  LET s == [r EXCEPT !.requests = Append(SelectSeq(@, LAMBDA q : q.executing), request)]
  IN IF \A n \in DOMAIN r.requests : Waits(r, n) THEN ExecuteQueue(s) ELSE s

\* sendCommand
Send(r, request) ==
  LET s == [r EXCEPT !.requests = Append(@, request)]
  IN IF \A n \in DOMAIN r.requests : Waits(r, n) THEN ExecuteQueue(s) ELSE s

Now == [requests |-> requests, timers |-> timers]
Is(r) == requests' = r.requests /\ timers' = r.timers

----------------------------------------------------------------------------
Init ==
  /\ log = Default /\ camera = Default /\ lost = {} /\ connected = FALSE
  /\ requests = <<[Ping EXCEPT !.executing = TRUE]>> /\ timers = 0
  /\ happened = [states |-> 0, failures |-> 0]

convertStateToPtz(timeline) ==
  [f \in Fields |->
     LET Of == {n \in DOMAIN LayerOrder : FieldOf[LayerOrder[n]] = f /\ timeline[LayerOrder[n]] # Undefined}
     IN IF Of = {} THEN Default[f] ELSE timeline[LayerOrder[CHOOSE n \in Of : \A m \in Of : m <= n]]]

\* What is wanted, and is another than before.
diffStates(old, new) ==
  LET Changed(f) == new[f] \notin {Undefined, old[f]} IN SelectSeq(FieldOrder, Changed)

\* The command for the zoom speed has the value in another place than is looked for: it is refused.
Sendable(field) == field # "zoomSpeed"

\* A state, with the commands of it in one burst, in the order of their priorities.
HandleState(timeline) ==
  /\ happened.states < MaxStates
  /\ LET new == convertStateToPtz(timeline)
         fields == SelectSeq(diffStates(log, new), Sendable)
         To(f) == [field |-> f, value |-> new[f], executing |-> FALSE]
     IN /\ new # log /\ log' = new
        /\ MayZoom \/ new["zoomSpeed"] = 0
        /\ MayOvertake \/ \A n \in DOMAIN requests : requests[n].field \notin Range(fields)
        /\ Is(FoldLeft(LAMBDA r, f : Send(r, To(f)), Now, fields))
        /\ lost' = lost \ Range(fields)
  /\ Count("states")
  /\ UNCHANGED <<camera, connected>>

\* PROBE_INTERVAL, which is far longer than the timers of the requests.  Of the pings that come
\* while something is under way one is enough.
Pings ==
  /\ timers = 0
  /\ \A n \in DOMAIN requests : Waits(Now, n) \/ \A m \in DOMAIN requests : requests[m].field # "ping"
  /\ Is(Send(Now, Ping))
  /\ UNCHANGED <<log, camera, lost, connected, happened>>

Timer ==
  /\ timers > 0
  /\ Is(ExecuteQueue([Now EXCEPT !.timers = @ - 1]))
  /\ UNCHANGED <<log, camera, lost, connected, happened>>

\* The camera has done what it was asked for.
Answered(n) ==
  /\ requests[n].executing /\ requests[n].field # "ping"
  /\ camera' = [camera EXCEPT ![requests[n].field] = requests[n].value]
  /\ requests' = RemoveAt(requests, n)
  /\ UNCHANGED <<log, timers, lost, connected, happened>>

\* The camera is on, or in standby.
Pinged(n, on) ==
  /\ requests[n].executing /\ requests[n].field = "ping"
  /\ connected' = on
  /\ requests' = RemoveAt(requests, n)
  /\ UNCHANGED <<log, timers, camera, lost, happened>>

\* A request fails, or is answered by an error: it is not made again.
Failed(n, unreachable) ==
  /\ requests[n].executing /\ happened.failures < MaxFailures
  /\ connected' = (connected /\ ~unreachable /\ requests[n].field # "ping")
  /\ lost' = lost \cup ({requests[n].field} \cap Fields)
  /\ requests' = RemoveAt(requests, n)
  /\ Count("failures")
  /\ UNCHANGED <<log, timers, camera>>

Next ==
  \/ \E t \in Timelines : HandleState(t)
  \/ Pings \/ Timer
  \/ \E n \in DOMAIN requests :
       \/ Answered(n)
       \/ \E b \in BOOLEAN : Pinged(n, b) \/ Failed(n, b)

\* The camera is pinged for ever, timers fire, and what is under way is answered.
Answers == \E n \in DOMAIN requests : Answered(n)
Pongs == \E n \in DOMAIN requests, on \in BOOLEAN : Pinged(n, on)
Fairness == WF_vars(Pings) /\ WF_vars(Timer) /\ WF_vars(Answers) /\ WF_vars(Pongs)

----------------------------------------------------------------------------
\* The camera has the values that the state wants, but for those whose request failed.
CameraObeys == \A f \in Fields \ lost : log[f] \in {Undefined, camera[f]}
=============================================================================
