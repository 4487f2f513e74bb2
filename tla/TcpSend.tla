------------------------------ MODULE TcpSend ------------------------------
(***************************************************************************)
(* integrations/tcpSend/index.ts: messages for the layers of a timeline,   *)
(* over a connection that is made again when it was lost, when a message   *)
(* needs it, and by makeReady.  The receiver is external; it knows the     *)
(* last message of each layer.  A connection that is refused is not in     *)
(* this model: nobody listens to the `error' of the socket.                *)
(***************************************************************************)
EXTENDS Naturals, Sequences, SequencesExt

CONSTANTS
  LayerOrder, Contents, PriorityOf, Nowhere,
  MaxStates, MaxTroubles, MaxLapses,     \* bounds: states, lost connections and makeReady's, attempts
  makeReadyDoesReset,
  MayCut       \* makeReady comes while messages wait

VARIABLES
  log,          \* the last state in the log of DeviceWithState: contents by layer
  queue,        \* commands that are due; one at a time
  sending,      \* the first of them waits for a connection
  shown,        \* external: the last message of each layer
  connection,   \* "down", "connecting", "up"
  retry,        \* _retryConnectTimeout: "never", "armed", "spent"
  destroying,   \* the timer that destroys a connection that does not end is pending
  phase,        \* of reconnect: "none", "ending", "starting"
  lapsed, lost, \* the last attempt to connect was not answered; whose messages were lost with attempts
  happened
vars == <<log, queue, sending, shown, connection, retry, destroying, phase, lapsed, lost, happened>>

Layers == Range(LayerOrder)
State == [Layers -> Contents \cup {Nowhere}]
Empty == [l \in Layers |-> Nowhere]
Command == [layer : Layers, content : Contents, name : {"added", "changed", "removed"}]

TcpSendAssumption ==
  /\ Nowhere \notin Contents /\ PriorityOf \in [Contents -> 0..1]
  /\ {MaxStates, MaxTroubles, MaxLapses} \subseteq Nat
  /\ {makeReadyDoesReset, MayCut} \subseteq BOOLEAN

TypeOK ==
  /\ {log, shown} \subseteq State /\ queue \in Seq(Command)
  /\ {sending, destroying, lapsed} \subseteq BOOLEAN /\ lost \subseteq Layers
  /\ connection \in {"down", "connecting", "up"} /\ retry \in {"never", "armed", "spent"}
  /\ phase \in {"none", "ending", "starting"}

Count(what) == happened' = [happened EXCEPT ![what] = @ + 1]

\* init() connects.
Init ==
  /\ log = Empty /\ queue = <<>> /\ sending = FALSE /\ shown = Empty
  /\ connection = "connecting" /\ retry = "never" /\ destroying = FALSE /\ phase = "none"
  /\ lapsed = FALSE /\ lost = {}
  /\ happened = [states |-> 0, troubles |-> 0, lapses |-> 0]

----------------------------------------------------------------------------
\* The differences, layer by layer, in the order of their priorities.
diffStates(old, new) ==
  LET Added(l) == new[l] # Nowhere /\ old[l] = Nowhere
      Changed(l) == new[l] # Nowhere /\ old[l] \notin {new[l], Nowhere}
      Removed(l) == new[l] = Nowhere /\ old[l] # Nowhere
      Here(l) == Added(l) \/ Changed(l)
      To(l) == [layer |-> l, content |-> IF Removed(l) THEN old[l] ELSE new[l],
                name |-> IF Added(l) THEN "added" ELSE IF Changed(l) THEN "changed" ELSE "removed"]
      layers == SelectSeq(LayerOrder, Here) \o SelectSeq(LayerOrder, Removed)
      commands == [n \in DOMAIN layers |-> To(layers[n])]
      First(c) == PriorityOf[c.content] = 0
      Second(c) == PriorityOf[c.content] = 1
  IN SelectSeq(commands, First) \o SelectSeq(commands, Second)

HandleState(new) ==
  /\ happened.states < MaxStates /\ new # log
  /\ queue' = queue \o diffStates(log, new)
  /\ log' = new
  /\ Count("states")
  /\ UNCHANGED <<sending, shown, connection, retry, destroying, phase, lapsed, lost>>

\* The message of the first command is written.
Writes ==
  /\ shown' = [shown EXCEPT ![Head(queue).layer] = Head(queue).content]
  /\ lost' = lost \ {Head(queue).layer}
  /\ queue' = Tail(queue) /\ sending' = FALSE

\* A command: what is removed sends nothing; without a connection one is made first.
SendCommand ==
  /\ queue # <<>> /\ ~sending
  /\ MayCut \/ phase = "none"
  /\ CASE Head(queue).name = "removed" -> queue' = Tail(queue) /\ UNCHANGED <<sending, shown, lost, connection>>
       [] Head(queue).name # "removed" /\ connection = "up" -> Writes /\ UNCHANGED connection
       [] OTHER -> sending' = TRUE /\ connection' = "connecting" /\ UNCHANGED <<queue, shown, lost>>
  /\ UNCHANGED <<log, retry, destroying, phase, lapsed, happened>>

----------------------------------------------------------------------------
(* The connection.                                                         *)

\* As it would be if nothing was retried.
TriggeredNot == retry' = retry

\* _triggerRetryConnection: the handle of the timer is never given up.
Triggered == retry' = IF retry = "never" THEN "armed" ELSE retry

\* `connect': whoever waits for it goes on; makeReady may reset the state.
Connects ==
  /\ connection = "connecting" /\ connection' = "up" /\ lapsed' = FALSE
  /\ phase' = IF phase = "starting" THEN "none" ELSE phase
  /\ IF phase = "starting" /\ makeReadyDoesReset
     THEN log' = Empty /\ queue' = <<>> /\ sending' = FALSE /\ UNCHANGED <<shown, lost>>
     ELSE /\ UNCHANGED log
          /\ IF sending THEN Writes ELSE UNCHANGED <<queue, sending, shown, lost>>
  /\ UNCHANGED <<retry, destroying, happened>>

\* The time for it is over: who waited has an error.
Lapses ==
  /\ connection = "connecting" /\ happened.lapses < MaxLapses
  /\ connection' = "down" /\ phase' = "none" /\ lapsed' = TRUE
  /\ queue' = IF sending THEN Tail(queue) ELSE queue
  /\ lost' = IF sending THEN lost \cup {Head(queue).layer} ELSE lost
  /\ sending' = FALSE
  /\ Count("lapses")
  /\ UNCHANGED <<log, shown, retry, destroying>>

\* `close' and `end'.
Closes ==
  /\ connection = "up" /\ phase = "none" /\ happened.troubles < MaxTroubles
  /\ connection' = "down" /\ Triggered
  /\ Count("troubles")
  /\ UNCHANGED <<log, queue, sending, shown, destroying, phase, lapsed, lost>>

\* The timer is later than the one that destroys, when the same end started both.
RetryConnection ==
  /\ retry = "armed" /\ ~destroying /\ retry' = "spent"
  /\ connection' = IF connection = "down" /\ phase = "none" THEN "connecting" ELSE connection
  /\ UNCHANGED <<log, queue, sending, shown, destroying, phase, happened, lapsed, lost>>

\* makeReady: the connection ends first.  Without one a new socket takes the place of the old, and
\* who waited for that is forgotten, until his time is over.
MakeReady ==
  /\ phase = "none" /\ happened.troubles < MaxTroubles
  /\ MayCut \/ (queue = <<>> /\ connection # "connecting")
  /\ IF connection = "up" THEN phase' = "ending" /\ destroying' = TRUE /\ UNCHANGED <<connection, queue, sending>>
     ELSE /\ phase' = "starting" /\ connection' = "connecting"
          /\ queue' = IF sending THEN Tail(queue) ELSE queue
          /\ sending' = FALSE
          /\ UNCHANGED destroying
  /\ Count("troubles")
  /\ UNCHANGED <<log, shown, retry, lapsed, lost>>

\* The old connection has ended: it is no more listened to, and a new one is made.
Ended ==
  /\ phase = "ending" /\ phase' = "starting"
  /\ connection' = "connecting" /\ Triggered
  /\ UNCHANGED <<log, queue, sending, shown, destroying, happened, lapsed, lost>>

\* The other timer of _disconnectTCPClient: it destroys whatever connection there is by now.
Destroys ==
  /\ destroying /\ destroying' = FALSE /\ phase # "ending"
  /\ IF connection = "up" THEN connection' = "down" /\ Triggered ELSE UNCHANGED <<connection, retry>>
  /\ UNCHANGED <<log, queue, sending, shown, phase, happened, lapsed, lost>>

Next ==
  \/ \E s \in State : HandleState(s)
  \/ SendCommand
  \/ Connects \/ Lapses \/ Closes \/ RetryConnection
  \/ MakeReady \/ Ended \/ Destroys

\* Commands are sent, attempts are answered, timers fire.
Continues == SendCommand \/ Ended
Timers == RetryConnection \/ Destroys
Fairness == WF_vars(Continues) /\ WF_vars(Connects) /\ WF_vars(Timers)

----------------------------------------------------------------------------
\* Once all commands are through, the receiver has the contents that the state wants, but for
\* messages whose attempt to connect was not answered.
MessagesArrive ==
  queue = <<>> => \A l \in Layers \ lost : log[l] \in {Nowhere, shown[l]}

\* There is a connection in the end, unless the last attempt was not answered: none follows it.
Online == connection = "up" \/ lapsed
=============================================================================
