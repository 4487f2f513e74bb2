-------------------------------- MODULE Obs ---------------------------------
(***************************************************************************)
(* integrations/obs/index.ts: the scenes, the recording and the other      *)
(* properties of an OBS, which are all set alike, and the connection.      *)
(* What a state does not name is left as it is.  OBS itself is external.   *)
(***************************************************************************)
EXTENDS Naturals, SequencesExt

CONSTANTS
  LayerOrder,              \* the layers, as sorted by type of mapping and name
  FieldOf,                 \* the property that a layer sets
  FieldOrder,              \* the properties, in the order of _diffStates; with "scene" and "preview"
  Values, Undefined,
  MaxStates, MaxDrops, MaxFailures   \* bounds: states, lost connections, failed attempts

VARIABLES
  wanted,       \* the state of the timeline
  handed,       \* it was handed over since it changed, and since the last resetResolver
  log,          \* the last state in the log of DeviceWithState
  queue,        \* commands that are due
  obs,          \* external: its properties
  connection,   \* up or down
  initialized,  \* _initialized
  retry,        \* _retryConnectTimeout is armed
  happened
vars == <<wanted, handed, log, queue, obs, connection, initialized, retry, happened>>

Layers == Range(LayerOrder)
Fields == Range(FieldOrder)
Default == [f \in Fields |-> Undefined]
State == [Fields -> Values \cup {Undefined}]
Object == [value : Values, isLookahead : BOOLEAN]
Timelines == [Layers -> Object \cup {Undefined}]

ObsAssumption ==
  /\ Undefined \notin Values \cup Object
  /\ FieldOf \in [Layers -> Fields \ {"preview"}] /\ {"scene", "preview"} \subseteq Fields
  /\ {MaxStates, MaxDrops, MaxFailures} \subseteq Nat

TypeOK ==
  /\ {wanted, log} \subseteq State /\ handed \in BOOLEAN
  /\ queue \in Seq([field : Fields, value : Values])
  /\ obs \in [Fields -> Values]
  /\ connection \in {"down", "up"} /\ {initialized, retry} \subseteq BOOLEAN

Count(what) == happened' = [happened EXCEPT ![what] = @ + 1]

Init ==
  /\ wanted = Default /\ handed = FALSE /\ log = Default /\ queue = <<>>
  /\ \E v \in Values : obs = [f \in Fields |-> v]
  /\ connection = "down" /\ initialized = FALSE /\ retry = TRUE
  /\ happened = [states |-> 0, drops |-> 0, failures |-> 0]

----------------------------------------------------------------------------
\* What an object sets: only scenes are looked ahead to.
Sets(layer, object) ==
  IF ~object.isLookahead THEN {FieldOf[layer]} ELSE IF FieldOf[layer] = "scene" THEN {"preview"} ELSE {}

\* Of the layers that set a property, the last one does.
convertStateToOBS(timeline) ==
  LET Setting(f) == {n \in DOMAIN LayerOrder : timeline[LayerOrder[n]] # Undefined
                                                /\ f \in Sets(LayerOrder[n], timeline[LayerOrder[n]])}
  IN [f \in Fields |->
        IF Setting(f) = {} THEN Undefined ELSE timeline[LayerOrder[CHOOSE n \in Setting(f) : \A m \in Setting(f) : m <= n]].value]

\* As it would be if what a state does not name were a change of it.
CommandsUnchecked(old, new, fields) ==
  LET Changed(f) == f \in fields /\ new[f] # old[f]
      changed == SelectSeq(FieldOrder, Changed)
  IN [n \in DOMAIN changed |-> [field |-> changed[n], value |-> new[changed[n]]]]

\* What is named, and is another than before.
Commands(old, new, fields) ==
  LET Changed(f) == f \in fields /\ new[f] \notin {Undefined, old[f]}
      changed == SelectSeq(FieldOrder, Changed)
  IN [n \in DOMAIN changed |-> [field |-> changed[n], value |-> new[changed[n]]]]

\* The scenes first, and then the transition and all else.
Scenes == {"scene", "preview"}
diffStates(old, new) == Commands(old, new, Scenes) \o Commands(old, new, Fields \ Scenes)

Want(timeline) ==
  /\ happened.states < MaxStates
  /\ LET state == convertStateToOBS(timeline) IN state # wanted /\ wanted' = state
  /\ handed' = FALSE
  /\ Count("states")
  /\ UNCHANGED <<log, queue, obs, connection, initialized, retry>>

HandleState ==
  /\ ~handed /\ initialized
  /\ queue' = queue \o diffStates(log, wanted)
  /\ log' = wanted /\ handed' = TRUE
  /\ UNCHANGED <<wanted, obs, connection, initialized, retry, happened>>

\* Without a connection the command is an error, and that is all.
SendCommand ==
  /\ queue # <<>>
  /\ obs' = IF connection = "down" THEN obs ELSE [obs EXCEPT ![Head(queue).field] = Head(queue).value]
  /\ queue' = Tail(queue)
  /\ UNCHANGED <<wanted, handed, log, connection, initialized, retry, happened>>

----------------------------------------------------------------------------
(* The connection.                                                         *)

\* As it would be if the state was not asked for again.
ConnectsQuietly ==
  /\ connection = "down" /\ retry
  /\ connection' = "up" /\ retry' = FALSE
  /\ initialized' = TRUE /\ UNCHANGED handed
  /\ log' = Default
  /\ UNCHANGED <<wanted, queue, obs, happened>>

\* The timer connects: `AuthenticationSuccess' resets the resolver, and connect() is through
\* before anything else happens.
Connects ==
  /\ connection = "down" /\ retry
  /\ connection' = "up" /\ retry' = FALSE
  /\ initialized' = TRUE /\ handed' = FALSE
  /\ log' = Default
  /\ UNCHANGED <<wanted, queue, obs, happened>>

\* The timer is armed again.
ConnectionFails ==
  /\ connection = "down" /\ retry /\ happened.failures < MaxFailures
  /\ Count("failures")
  /\ UNCHANGED <<wanted, handed, log, queue, obs, connection, initialized, retry>>

\* OBS was restarted, with other values.
ConnectionClosed(value) ==
  /\ connection = "up" /\ happened.drops < MaxDrops
  /\ connection' = "down" /\ initialized' = FALSE /\ retry' = TRUE
  /\ obs' = [f \in Fields |-> value]
  /\ Count("drops")
  /\ UNCHANGED <<wanted, handed, log, queue>>

Next ==
  \/ \E t \in Timelines : Want(t)
  \/ HandleState \/ SendCommand
  \/ Connects \/ ConnectionFails
  \/ \E v \in Values : ConnectionClosed(v)

\* Commands that are due are sent; the timer tries until there is a connection.
Continues == HandleState \/ SendCommand

----------------------------------------------------------------------------
\* OBS shows what the timeline names.
ShowsTheState == \A f \in Fields : wanted[f] \in {Undefined, obs[f]}
=============================================================================
