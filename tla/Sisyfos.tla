------------------------------- MODULE Sisyfos -------------------------------
(***************************************************************************)
(* integrations/sisyfos: a mixer whose state is asked for at the start, by *)
(* the action `reinit', and by a resync, which the conductor or the        *)
(* timeline may want.  Each of the three waits for the event `initialized' *)
(* of the API, the last two with listeners that stay.  A level stands for  *)
(* all that a channel has.  `mixer' is external: the levels at Sisyfos.    *)
(* The conductor hands the state of the moment over at every resolve, so   *)
(* HandleState is always possible; orders that are due are sent at once    *)
(* (SendMode.BURST).  States planned ahead are left out.                   *)
(***************************************************************************)
EXTENDS Naturals, Sequences, FiniteSets, SequencesExt, Functions

CONSTANTS
  Channels, Levels, DefaultLevel,
  Objects,         \* what a timeline may have: [channel, overridePriority, level]
  Triggers, NoTrigger,
  MaxStates,       \* bound: changes of the timeline
  MaxMoves,        \* bound: levels moved by an operator
  MaxRequests,     \* bound: calls of makeReady and reinit
  MayResync,       \* the timeline may want a resync
  MayOverlap,      \* Sisyfos is asked again before it has answered
  MayMix           \* it is asked by makeReady and by `reinit'

Timeline == [objects : SUBSET Objects, resync : BOOLEAN, triggerValue : Triggers \cup {NoTrigger}]
LevelsOf == [Channels -> Levels]
State == [channels : LevelsOf, resync : BOOLEAN, triggerValue : Triggers \cup {NoTrigger}]

SisyfosAssumption ==
  /\ DefaultLevel \in Levels /\ NoTrigger \notin Triggers
  /\ Objects \subseteq [channel : Channels, overridePriority : Nat, level : Levels]
  /\ \A o, p \in Objects : o.channel = p.channel /\ o.overridePriority = p.overridePriority => o = p
  /\ MaxStates \in Nat /\ MaxMoves \in Nat /\ MaxRequests \in Nat
  /\ {MayResync, MayOverlap, MayMix} \subseteq BOOLEAN

VARIABLES
  wanted,          \* the timeline
  log,             \* getState(now)
  queue,           \* the orders that are due
  known,           \* the API has a state
  listeners,       \* to `initialized'; one that is there twice does the same twice
  replies,         \* answers to /state/full under way, in the order they were asked for
  mixer,
  moved,           \* channels moved by an operator since the last answer was made
  happened         \* how often what is bounded has happened

vars == <<wanted, log, queue, known, listeners, replies, mixer, moved, happened>>

Listener == {"init", "reinit", "resync"}
Command == [do : {"resync"}] \cup [do : {"set"}, channel : Channels, level : Levels]

TypeOK ==
  /\ wanted \in Timeline /\ log \in State
  /\ queue \in Seq(Command)
  /\ known \in BOOLEAN
  /\ Range(listeners) \subseteq Listener /\ IsInjective(listeners)
  /\ replies \in Seq(LevelsOf) /\ Len(replies) <= MaxRequests + MaxStates + 2
  /\ mixer \in LevelsOf /\ moved \subseteq Channels
  /\ happened \in [states : 0 .. MaxStates, moves : 0 .. MaxMoves, requests : 0 .. MaxRequests]

----------------------------------------------------------------------------
\* getDeviceState(false)
DeviceState(levels) == [channels |-> levels, resync |-> FALSE, triggerValue |-> NoTrigger]

\* Of the objects for a channel the last in the order of overridePriority counts.
Highest(S) == CHOOSE o \in S : \A p \in S : p.overridePriority <= o.overridePriority
convertState(timeline) ==
  LET On(c) == {o \in timeline.objects : o.channel = c}
  IN [channels |-> [c \in Channels |-> IF On(c) = {} THEN DefaultLevel ELSE Highest(On(c)).level],
      resync |-> timeline.resync, triggerValue |-> timeline.triggerValue]

diffStates(old, new) ==
  LET triggered == new.triggerValue \notin {NoTrigger, old.triggerValue}
      different == {c \in Channels : triggered \/ old.channels[c] # new.channels[c]}
      order == SetToSeq(different)
  IN (IF new.resync /\ ~old.resync THEN <<[do |-> "resync"]>> ELSE <<>>)
     \o [n \in DOMAIN order |-> [do |-> "set", channel |-> order[n], level |-> new.channels[order[n]]]]

Init ==
  /\ wanted \in {t \in Timeline : t.objects = {} /\ ~t.resync /\ t.triggerValue = NoTrigger}
  /\ log = [channels |-> [c \in Channels |-> DefaultLevel], resync |-> FALSE, triggerValue |-> NoTrigger]
  /\ queue = <<>>
  /\ mixer \in LevelsOf
  /\ known = FALSE
  /\ listeners = <<"init">> /\ replies = <<mixer>> /\ moved = {}
  /\ happened = [states |-> 0, moves |-> 0, requests |-> 0]

Count(what) == happened' = [happened EXCEPT ![what] = @ + 1]

Want(t) ==
  /\ happened.states < MaxStates /\ t # wanted
  /\ t.resync => MayResync
  /\ wanted' = t
  /\ Count("states")
  /\ UNCHANGED <<log, queue, known, listeners, replies, mixer, moved>>

\* Before Sisyfos has answered, a state is ignored.
HandleState ==
  /\ known
  /\ queue = <<>>
  /\ queue' = diffStates(log, convertState(wanted))
  /\ log' = convertState(wanted)
  /\ UNCHANGED <<wanted, known, listeners, replies, mixer, moved, happened>>

Listening(l) == IF Contains(listeners, l) THEN listeners ELSE Append(listeners, l)

\* _makeReadyInner from the conductor or from the action.
MakeReady(listener) ==
  /\ happened.requests < MaxRequests
  /\ MayOverlap \/ replies = <<>>
  /\ MayMix \/ Range(listeners) \subseteq {"init", listener}
  /\ queue' = <<>>
  /\ known' = FALSE
  /\ replies' = Append(replies, mixer) /\ moved' = {}
  /\ listeners' = Listening(listener)
  /\ Count("requests")
  /\ UNCHANGED <<wanted, log, mixer>>

Asks == Head(queue).do = "resync"

\* The orders that are due, all in one go: a resync comes first, and is answered before the
\* others.
Send ==
  /\ queue # <<>> /\ queue' = <<>>
  /\ known' = (known /\ ~Asks)
  /\ replies' = IF Asks THEN Append(replies, mixer) ELSE replies
  /\ moved' = IF Asks THEN {} ELSE moved
  /\ listeners' = IF Asks THEN Listening("resync") ELSE listeners
  /\ mixer' = [c \in Channels |->
       LET sets == {n \in DOMAIN queue : queue[n].do = "set" /\ queue[n].channel = c}
       IN IF sets = {} THEN mixer[c] ELSE queue[CHOOSE n \in sets : \A k \in sets : k <= n].level]
  /\ UNCHANGED <<wanted, log, happened>>

\* What a listener makes of the log and the queue.
Listened(l, levels, device) ==
  IF l = "resync"
  THEN [log |-> device.log, queue |-> diffStates(DeviceState(levels), device.log)]
  ELSE [device EXCEPT !.log = DeviceState(levels)]

\* The API has a state: every listener is called, and the one of `init' only once.
Initialized ==
  /\ replies # <<>> /\ replies' = Tail(replies)
  /\ known' = TRUE
  /\ LET levels == Head(replies)
         result == FoldLeft(LAMBDA device, l : Listened(l, levels, device),
                            [log |-> log, queue |-> queue], listeners)
     IN log' = result.log /\ queue' = result.queue
  /\ listeners' = SelectSeq(listeners, LAMBDA l : l # "init")
  /\ UNCHANGED <<wanted, mixer, moved, happened>>

\* An operator moves a level.
Move(c, level) ==
  /\ happened.moves < MaxMoves /\ mixer[c] # level
  /\ mixer' = [mixer EXCEPT ![c] = level]
  /\ moved' = moved \cup {c}
  /\ Count("moves")
  /\ UNCHANGED <<wanted, log, queue, known, listeners, replies>>

Next ==
  \/ \E t \in Timeline : Want(t)
  \/ HandleState
  \/ \E listener \in {"resync", "reinit"} : MakeReady(listener)
  \/ Send
  \/ Initialized
  \/ \E c \in Channels, level \in Levels : Move(c, level)

\* The conductor resolves, orders that are due are sent, Sisyfos answers.
Spec ==
  /\ Init /\ [][Next]_vars
  /\ WF_vars(HandleState) /\ WF_vars(Send) /\ WF_vars(Initialized)

----------------------------------------------------------------------------
\* Sisyfos is not asked for its state any more.
Answered == replies = <<>>

\* It has the levels of the timeline, but where an operator has moved one since.
Follows ==
  /\ known /\ Answered
  /\ \A c \in Channels \ moved : mixer[c] = convertState(wanted).channels[c]

\* A resync ends: in the end the state is there and nobody asks for it again, also if the
\* timeline wants the resync (`If state is still not reinitialised afer 5 seconds, we may
\* have a problem').
ResyncEnds == <>[](known /\ Answered)
=============================================================================
