-------------------------------- MODULE Atem --------------------------------
(***************************************************************************)
(* integrations/atem/index.ts: the settings of a vision mixer, a state     *)
(* that is handed over ahead of its time, the connection and resyncs.  A   *)
(* log entry made from the mixer's own state is the object that the        *)
(* library goes on updating (`Live').  The differ, the library and the     *)
(* mixer are external; transitions and power supplies are left out.        *)
(***************************************************************************)
EXTENDS Naturals, Sequences, TLC

CONSTANTS
  LayerOrder,        \* the layers, by name
  ObjectsOf,         \* by layer: what its objects set, functions of settings
  Settings, Auxes, Mapped,     \* some settings are auxiliaries, and some of these are mapped
  Values, Default, Undefined, Live, Nothing,
  MaxStates, MaxDrops, MaxResyncs, MaxMoves,   \* bounds
  MayRace,           \* a state is compared with the mixer's before the mixer has confirmed the last
  MayResyncAhead     \* a resync comes when a state has been handed over ahead of its time

VARIABLES
  wanted, handed,    \* the state of the timeline now, and: it was handed over
  coming, ahead,     \* the next state or Nothing, and: it was handed over
  log, later,        \* in the log of DeviceWithState: the last entry, and that of the coming state
  queue,             \* its commands
  atem, known,       \* external: the settings, and what the library knows of them
  connection,        \* "none" before the first connection, "up" or "down"
  moved,             \* what was changed at the mixer since its state was made use of
  happened
vars == <<wanted, handed, coming, ahead, log, later, queue, atem, known, connection, moved, happened>>

Layers == DOMAIN ObjectsOf
Controlled == Settings \ (Auxes \ Mapped)
State == [Settings -> Values \cup {Undefined}]
Timelines == {t \in [Layers -> UNION {ObjectsOf[l] : l \in Layers} \cup {<<>>}] :
                \A l \in Layers : t[l] \in ObjectsOf[l] \cup {<<>>}}

AtemAssumption ==
  /\ Mapped \subseteq Auxes /\ Auxes \subseteq Settings
  /\ Default \in Values /\ Undefined \notin Values
  /\ \A l \in Layers : \A o \in ObjectsOf[l] : DOMAIN o \subseteq Settings
  /\ {MaxStates, MaxDrops, MaxResyncs, MaxMoves} \subseteq Nat /\ {MayRace, MayResyncAhead} \subseteq BOOLEAN

TypeOK ==
  /\ wanted \in State /\ coming \in State \cup {Nothing}
  /\ log \in State \cup {Live} /\ later \in State \cup {Nothing}
  /\ {handed, ahead} \subseteq BOOLEAN /\ (ahead => coming # Nothing)
  /\ DOMAIN queue \subseteq Controlled /\ \A f \in DOMAIN queue : queue[f] \in Values
  /\ atem \in [Settings -> Values] /\ known \in [Settings -> Values]
  /\ connection \in {"none", "up", "down"} /\ moved \subseteq Settings

Count(what) == happened' = [happened EXCEPT ![what] = @ + 1]

----------------------------------------------------------------------------
\* A new state has the default of everything but the auxiliaries; of the layers that set
\* something, the last does.
convertStateToAtem(timeline) ==
  LET Setting(f) == {n \in DOMAIN LayerOrder : f \in DOMAIN timeline[LayerOrder[n]]}
      last(f) == CHOOSE n \in Setting(f) : \A m \in Setting(f) : m <= n
  IN [f \in Settings |->
        IF Setting(f) # {} THEN timeline[LayerOrder[last(f)]][f]
        ELSE IF f \in Auxes THEN Undefined ELSE Default]

\* Auxiliaries without a mapping are left alone, they may be used for something else.
diffStates(old, new) ==
  LET changed == {f \in Controlled : new[f] \notin {Undefined, old[f]}}
  IN [f \in changed |-> new[f]]

Init ==
  /\ wanted = convertStateToAtem([l \in Layers |-> <<>>]) /\ handed = FALSE
  /\ coming = Nothing /\ ahead = FALSE
  /\ log = wanted /\ later = Nothing /\ queue = <<>>
  /\ \E v \in Values : atem = [f \in Settings |-> v]
  /\ known = atem /\ connection = "none" /\ moved = {}
  /\ happened = [states |-> 0, drops |-> 0, resyncs |-> 0, moves |-> 0]

\* getStateBefore
Base == IF log = Live THEN known ELSE log
Readable == (log = Live) => MayRace \/ known = atem

\* What is sent without a connection is an error, and that is all.
Send(commands) == atem' = IF connection = "up" THEN commands @@ atem ELSE atem

Want(timeline) ==
  /\ coming = Nothing /\ happened.states < MaxStates
  /\ LET state == convertStateToAtem(timeline) IN state # wanted /\ coming' = state
  /\ Count("states")
  /\ UNCHANGED <<wanted, handed, ahead, log, later, queue, atem, known, connection, moved>>

\* handleState for a time to come.
HandleStateAhead ==
  /\ connection # "none" /\ coming # Nothing /\ handed /\ ~ahead /\ Readable
  /\ queue' = diffStates(Base, coming) /\ later' = coming /\ ahead' = TRUE
  /\ UNCHANGED <<wanted, handed, coming, log, atem, known, connection, moved, happened>>

\* The time of the next state has come: what is in the queue is sent.
Passes ==
  /\ coming # Nothing
  /\ Send(queue)
  /\ wanted' = coming /\ handed' = (handed /\ ahead)
  /\ log' = IF later = Nothing THEN log ELSE later
  /\ coming' = Nothing /\ ahead' = FALSE /\ later' = Nothing /\ queue' = <<>>
  /\ UNCHANGED <<known, connection, moved, happened>>

\* handleState for now takes away what was planned; its commands are sent at once.
HandleState ==
  /\ connection # "none" /\ ~handed /\ Readable
  /\ Send(diffStates(Base, wanted))
  /\ log' = wanted /\ handed' = TRUE /\ later' = Nothing /\ queue' = <<>> /\ ahead' = FALSE
  /\ moved' = IF log = Live THEN {} ELSE moved
  /\ UNCHANGED <<wanted, coming, known, connection, happened>>

\* The conductor resolves again at least every LOOKAHEADTIME.
Resolve ==
  /\ coming = Nothing /\ handed /\ handed' = FALSE
  /\ UNCHANGED <<wanted, coming, ahead, log, later, queue, atem, known, connection, moved, happened>>

\* makeReady, or the action of that name: the conductor knows nothing of what it takes away.
resyncState ==
  /\ connection # "none" /\ happened.resyncs < MaxResyncs
  /\ MayResyncAhead \/ ~ahead
  /\ queue' = <<>> /\ log' = Live /\ later' = Nothing
  /\ Count("resyncs")
  /\ UNCHANGED <<wanted, handed, coming, ahead, atem, known, connection, moved>>

----------------------------------------------------------------------------
(* The mixer and its connection.                                           *)

\* As it would be if the log was not replaced by what the mixer has.
ConnectsQuietly ==
  /\ connection # "up" /\ connection' = "up"
  /\ known' = atem /\ handed' = FALSE
  /\ UNCHANGED <<wanted, coming, ahead, log, later, queue, atem, moved, happened>>

\* The library connects by itself, and has read the state when it says so.
Connects ==
  /\ connection # "up" /\ connection' = "up"
  /\ known' = atem /\ log' = Live /\ later' = Nothing /\ handed' = FALSE
  /\ UNCHANGED <<wanted, coming, ahead, queue, atem, moved, happened>>

\* The mixer may have been restarted.
Disconnects(restarted) ==
  /\ connection = "up" /\ happened.drops < MaxDrops
  /\ connection' = "down"
  /\ atem' = IF restarted THEN [f \in Settings |-> Default] ELSE atem
  /\ Count("drops")
  /\ UNCHANGED <<wanted, handed, coming, ahead, log, later, queue, known, moved>>

\* External: the mixer tells what has changed.
Confirms ==
  /\ connection = "up" /\ known # atem /\ known' = atem
  /\ UNCHANGED <<wanted, handed, coming, ahead, log, later, queue, atem, connection, moved, happened>>

\* External: an operator changes something.
Moves(f, v) ==
  /\ happened.moves < MaxMoves /\ atem[f] # v
  /\ atem' = [atem EXCEPT ![f] = v] /\ moved' = moved \cup {f}
  /\ Count("moves")
  /\ UNCHANGED <<wanted, handed, coming, ahead, log, later, queue, known, connection>>

Next ==
  \/ \E t \in Timelines : Want(t)
  \/ HandleStateAhead \/ Passes \/ HandleState \/ Resolve \/ resyncState
  \/ Connects \/ Confirms
  \/ \E restarted \in BOOLEAN : Disconnects(restarted)
  \/ \E f \in Settings, v \in Values : Moves(f, v)

\* States are handed over and time passes, the library connects, the mixer confirms.
Hands == HandleState \/ HandleStateAhead
Answers == Connects \/ Confirms
Fairness == WF_vars(Hands) /\ WF_vars(Passes) /\ WF_vars(Resolve) /\ WF_vars(Answers)
Spec == Init /\ [][Next]_vars /\ Fairness

----------------------------------------------------------------------------
\* The mixer has what the state wants, unless an operator has changed it since.
ShowsTheState == \A f \in Controlled \ moved : wanted[f] \in {Undefined, atem[f]}

\* It does so from the moment on that the state was handed over for.
ShowsItInTime == connection = "up" /\ handed => ShowsTheState
=============================================================================
