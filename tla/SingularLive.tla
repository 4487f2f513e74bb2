---------------------------- MODULE SingularLive ----------------------------
(***************************************************************************)
(* integrations/singularLive/index.ts: compositions that are put in and    *)
(* out by requests to a service, which is external.  The requests go       *)
(* through one queue of DoOnTime in SendMode.IN_ORDER: the next is made    *)
(* when the last has been answered.  One that fails is not made again.     *)
(***************************************************************************)
EXTENDS Naturals, SequencesExt, FiniteSets

CONSTANTS
  LayerOrder, CompositionOf,   \* the layers, and what they are mapped to
  CompositionOrder, Payloads, Nothing,
  MaxStates, MaxFailures,      \* bounds
  MayFail                      \* a request that fails has not been received

VARIABLES
  wanted, handed,    \* by layer: [state, payload] or Nothing, and: it was handed over
  log,               \* the last state in the log of DeviceWithState
  queue,             \* requests whose time has come, still to be made
  requests,          \* those that were made: [composition, state, payload, received]
  service,           \* external
  happened
vars == <<wanted, handed, log, queue, requests, service, happened>>

Layers == Range(LayerOrder)
Compositions == Range(CompositionOrder)
Node == [state : {"In", "Out"}, payload : Payloads]
Timelines == [Layers -> Node \cup {Nothing}]
Unchanged == "unchanged"       \* a request without a payload
Request == [composition : Compositions, state : {"In", "Out"}, payload : Payloads \cup {Unchanged}]

SingularLiveAssumption ==
  /\ CompositionOf \in [Layers -> Compositions] /\ Nothing \notin Node /\ Unchanged \notin Payloads
  /\ {MaxStates, MaxFailures} \subseteq Nat /\ MayFail \in BOOLEAN

TypeOK ==
  /\ wanted \in Timelines /\ handed \in BOOLEAN
  /\ log \in [Compositions -> Node \cup {Nothing}]
  /\ queue \in Seq(Request)
  /\ \A r \in requests : r.request \in Request /\ r.received \in BOOLEAN
  /\ service \in [Compositions -> Node]

Count(what) == happened' = [happened EXCEPT ![what] = @ + 1]

Init ==
  /\ wanted = [l \in Layers |-> Nothing] /\ handed = FALSE
  /\ log = [c \in Compositions |-> Nothing] /\ queue = <<>> /\ requests = {}
  /\ \E p \in Payloads : service = [c \in Compositions |-> [state |-> "Out", payload |-> p]]
  /\ happened = [states |-> 0, failures |-> 0]

----------------------------------------------------------------------------
\* The last of the layers that show a composition counts.
convertStateToSingularLive(timeline) ==
  LET Showing(c) == {n \in DOMAIN LayerOrder : /\ CompositionOf[LayerOrder[n]] = c
                                               /\ timeline[LayerOrder[n]] # Nothing}
      last(c) == CHOOSE n \in Showing(c) : \A m \in Showing(c) : m <= n
  IN [c \in Compositions |-> IF Showing(c) = {} THEN Nothing ELSE timeline[LayerOrder[last(c)]]]

\* Added, changed and removed compositions, by name.
diffStates(old, new) ==
  LET Different(c) == new[c] # old[c]
      different == SelectSeq(CompositionOrder, Different)
      For(c) == IF new[c] = Nothing THEN [composition |-> c, state |-> "Out", payload |-> Unchanged]
                ELSE [composition |-> c, state |-> new[c].state, payload |-> new[c].payload]
  IN [n \in DOMAIN different |-> For(different[n])]

Want(timeline) ==
  /\ happened.states < MaxStates
  /\ timeline # wanted /\ wanted' = timeline /\ handed' = FALSE
  /\ Count("states")
  /\ UNCHANGED <<log, queue, requests, service>>

\* handleState when its time has come.
HandleState ==
  /\ ~handed /\ handed' = TRUE
  /\ LET new == convertStateToSingularLive(wanted) IN queue' = queue \o diffStates(log, new) /\ log' = new
  /\ UNCHANGED <<wanted, requests, service, happened>>

\* As it would be in SendMode.BURST.
FreeAlways == TRUE

\* SendMode.IN_ORDER
Free == requests = {}

\* _defaultCommandReceiver makes the request, and is through with the answer or the error.
SendCommand ==
  /\ queue # <<>> /\ Free
  /\ requests' = requests \cup {[request |-> Head(queue), received |-> FALSE]}
  /\ queue' = Tail(queue)
  /\ UNCHANGED <<wanted, handed, log, service, happened>>

\* External: the service receives a request.
Receives(r) ==
  /\ r \in requests /\ ~r.received
  /\ LET c == r.request.composition IN
     service' = [service EXCEPT ![c] = [state |-> r.request.state,
                   payload |-> IF r.request.payload = Unchanged THEN @.payload ELSE r.request.payload]]
  /\ requests' = (requests \ {r}) \cup {[r EXCEPT !.received = TRUE]}
  /\ UNCHANGED <<wanted, handed, log, queue, happened>>

\* An answer, good or bad, ends the command.
Answers(r) ==
  /\ r \in requests /\ r.received
  /\ requests' = requests \ {r}
  /\ UNCHANGED <<wanted, handed, log, queue, service, happened>>

\* An error does so as well.
Fails(r) ==
  /\ r \in requests /\ happened.failures < MaxFailures
  /\ r.received \/ MayFail
  /\ requests' = requests \ {r}
  /\ Count("failures")
  /\ UNCHANGED <<wanted, handed, log, queue, service>>

Next ==
  \/ \E t \in Timelines : Want(t)
  \/ HandleState \/ SendCommand
  \/ \E r \in requests : Receives(r) \/ Answers(r) \/ Fails(r)

----------------------------------------------------------------------------
\* When everything is answered, the compositions of the timeline are as it wants them, and the
\* others that it ever had are out.
CompositionsFollow ==
  handed /\ queue = <<>> /\ requests = {} =>
    \A c \in Compositions :
      LET node == convertStateToSingularLive(wanted)[c] IN
      IF node = Nothing THEN service[c].state = "Out" ELSE service[c] = node
=============================================================================
