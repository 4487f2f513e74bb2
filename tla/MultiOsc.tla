------------------------------- MODULE MultiOsc -------------------------------
(***************************************************************************)
(* integrations/multiOsc: messages for the addresses of several receivers, *)
(* which share one queue: a timer lets one message pass at a time, in      *)
(* whatever state the timeline is by then.  The receivers are external.    *)
(***************************************************************************)
EXTENDS Naturals, SequencesExt

CONSTANTS
  LayerOrder, ConnectionOf,    \* the layers, and the connection that each is mapped to
  Connections, Objects,        \* what the layers may have: [id, path, value, priority]
  Nothing,
  MaxStates,                   \* bound
  MayThrow                     \* a message that cannot be sent is an error, and is lost

VARIABLES
  wanted, handed,    \* the layers, and: they were handed over
  log,               \* the last state in the log of DeviceWithState
  commandQueue,
  timer,             \* _commandQueueTimer is armed
  receiver,          \* external: by address, the value
  last,              \* by address, the last value that a state has had
  states
vars == <<wanted, handed, log, commandQueue, timer, receiver, last, states>>

Layers == DOMAIN LayerOrder
Addresses == Connections \X {o.path : o \in Objects}
Values == {o.value : o \in Objects} \cup {Nothing}
Timelines == [Layers -> Objects \cup {Nothing}]

MultiOscAssumption ==
  /\ ConnectionOf \in [Range(LayerOrder) -> Connections] /\ Nothing \notin Objects
  /\ MaxStates \in Nat /\ MayThrow \in BOOLEAN

TypeOK ==
  /\ wanted \in Timelines /\ {handed, timer} \subseteq BOOLEAN
  /\ log \in [Addresses -> Objects \cup {Nothing}]
  /\ commandQueue \in Seq([to : Addresses, value : Values])
  /\ {receiver, last} \subseteq [Addresses -> Values]

Init ==
  /\ wanted = [n \in Layers |-> Nothing] /\ handed = FALSE
  /\ log = [a \in Addresses |-> Nothing] /\ commandQueue = <<>> /\ timer = FALSE
  /\ receiver = [a \in Addresses |-> Nothing] /\ last = receiver /\ states = 0

----------------------------------------------------------------------------
\* Of the objects for an address the one of the highest priority, and of these the last.
convertStateToOSCMessage(layers) ==
  LET To(a) == {n \in Layers : /\ layers[n] # Nothing
                               /\ a = <<ConnectionOf[LayerOrder[n]], layers[n].path>>}
      Yields(n, m) == \/ layers[n].priority < layers[m].priority
                      \/ layers[n].priority = layers[m].priority /\ n <= m
      chosen(a) == CHOOSE m \in To(a) : \A n \in To(a) : Yields(n, m)
  IN [a \in Addresses |-> IF To(a) = {} THEN Nothing ELSE layers[chosen(a)]]

\* What is added or changed; for what is removed nothing is sent.
diffStates(old, new) ==
  LET changed == SetToSeq({a \in Addresses : new[a] \notin {Nothing, old[a]}})
  IN [n \in DOMAIN changed |-> [to |-> changed[n], value |-> new[changed[n]].value]]

\* One message goes out, unless it cannot, and the timer runs; the rest waits.
Passes(queue) ==
  /\ \/ receiver' = [receiver EXCEPT ![Head(queue).to] = Head(queue).value]
     \/ MayThrow /\ UNCHANGED receiver
  /\ commandQueue' = Tail(queue) /\ timer' = TRUE

Want(layers) ==
  /\ states < MaxStates /\ states' = states + 1
  /\ wanted # layers /\ wanted' = layers /\ handed' = FALSE
  /\ UNCHANGED <<log, commandQueue, timer, receiver, last>>

\* handleState when its time has come; its commands are added to the queue in one go.
HandleState ==
  /\ ~handed /\ handed' = TRUE
  /\ LET new == convertStateToOSCMessage(wanted)
         queue == commandQueue \o diffStates(log, new)
     IN /\ log' = new
        /\ last' = [a \in Addresses |-> IF new[a] = Nothing THEN last[a] ELSE new[a].value]
        /\ IF timer \/ queue = <<>> THEN commandQueue' = queue /\ UNCHANGED <<timer, receiver>>
           ELSE Passes(queue)
  /\ UNCHANGED <<wanted, states>>

\* As it would be if the timer did not look at the queue again.
TimerOnce ==
  /\ timer /\ timer' = FALSE
  /\ UNCHANGED <<wanted, handed, log, commandQueue, receiver, last, states>>

Timer ==
  /\ timer
  /\ IF commandQueue = <<>> THEN timer' = FALSE /\ UNCHANGED <<commandQueue, receiver>>
     ELSE Passes(commandQueue)
  /\ UNCHANGED <<wanted, handed, log, last, states>>

Next ==
  \/ \E layers \in Timelines : Want(layers)
  \/ HandleState \/ Timer

Fairness == WF_vars(HandleState) /\ WF_vars(Timer)

----------------------------------------------------------------------------
\* Every address has the last value that a state has had for it.
AddressesFollow == handed /\ receiver = last
=============================================================================
