-------------------------------- MODULE Vmix --------------------------------
(***************************************************************************)
(* integrations/vmix: the commands of a state, their sending in order, and *)
(* how polls and reconnections bring the log of the device back in line    *)
(* with vMix.  A state has the input on program, whether the picture is    *)
(* faded to black (toggled), whether it records (set; streaming and        *)
(* external are the same), what the second output shows, which vMix does   *)
(* not report, and for every input a look: the properties that polling     *)
(* enforces, one command each.  `vmix' is external: the state vMix is in.  *)
(* A write and what vMix does on it are one step; the answers are slower.  *)
(***************************************************************************)
EXTENDS Naturals, Sequences, FiniteSets, SequencesExt, Functions

CONSTANTS
  Inputs, Looks,
  AddedByUs,          \* inputs that are added when a state has them
  DefaultLook,        \* of an input just added
  States,             \* the states of the timeline
  Fresh,              \* vMix after a restart
  MaxStates,          \* bound: states of the timeline
  MaxDrops,           \* bound: lost connections
  MaxDrifts,          \* bound: looks changed by an operator at vMix
  MayRace,            \* a state is handed over before vMix has answered a connection
  MayBeLate,          \* a state is handed over after its time
  OutputsMayBeLost    \* the second output changes while there is no connection

State == [program : Inputs, fadeToBlack : BOOLEAN, recording : BOOLEAN, output : Inputs,
          look : UNION {[I -> Looks] : I \in SUBSET Inputs}]

VmixAssumption ==
  /\ AddedByUs \subseteq Inputs /\ DefaultLook \in Looks
  /\ Fresh \in State /\ States \subseteq State
  /\ \A s \in States : Inputs \ AddedByUs \subseteq DOMAIN s.look
  /\ MaxStates \in Nat /\ MaxDrops \in Nat /\ MaxDrifts \in Nat
  /\ {MayRace, MayBeLate, OutputsMayBeLost} \subseteq BOOLEAN

VARIABLES
  wanted,             \* the state of the timeline
  handed,             \* it has been handed over since it last changed or the resolver was reset
  logged,             \* getStateBefore(now): what the device takes vMix to be in
  commands,           \* for every state handed over, its commands not yet sent
  vmix,
  connected,
  reply,              \* the answer to an XML request under way, if any
  expecting,          \* _expectingStateAfterConnecting, _expectingPolledState
  initialized,        \* _initialized
  polling,            \* the polling timer runs
  happened            \* how often what is bounded has happened

vars == <<wanted, handed, logged, commands, vmix, connected, reply, expecting, initialized,
          polling, happened>>

Command ==
  [do : {"add", "remove", "transition", "output"}, input : Inputs]
    \cup [do : {"look"}, input : Inputs, look : Looks]
    \cup [do : {"fadeToBlack"}] \cup [do : {"recording"}, on : BOOLEAN]

TypeOK ==
  /\ wanted \in States /\ handed \in BOOLEAN
  /\ logged \in State /\ vmix \in State
  /\ commands \in Seq(Seq(Command)) /\ <<>> \notin Range(commands)
  /\ reply \in Seq(State) /\ Len(reply) <= 1
  /\ expecting \subseteq {"afterConnecting", "polled"}
  /\ {connected, initialized, polling} \subseteq BOOLEAN
  /\ happened \in [states : 0 .. MaxStates, drops : 0 .. MaxDrops, drifts : 0 .. MaxDrifts]

Init ==
  /\ wanted \in States /\ handed = FALSE
  /\ logged = Fresh /\ vmix = Fresh
  /\ commands = <<>> /\ reply = <<>>
  /\ connected = FALSE /\ initialized = FALSE /\ polling = FALSE
  /\ expecting = {}
  /\ happened = [states |-> 0, drops |-> 0, drifts |-> 0]

----------------------------------------------------------------------------
(* The commands from one state to the next.  Several inputs are served in  *)
(* any one order.                                                          *)

EachOf(S, command(_)) == [n \in 1 .. Cardinality(S) |-> command(SetToSeq(S)[n])]

Toggled(old, new) == IF old.fadeToBlack = new.fadeToBlack THEN <<>> ELSE <<[do |-> "fadeToBlack"]>>

Transition(old, new) ==
  IF old.program = new.program THEN <<>>
  ELSE <<[do |-> "transition", input |-> new.program]>>

OutputSet(old, new) ==
  IF old.output = new.output THEN <<>> ELSE <<[do |-> "output", input |-> new.output]>>

Recording(old, new) ==
  IF old.recording = new.recording THEN <<>>
  ELSE <<[do |-> "recording", on |-> new.recording]>>

LookOf(old, i) == IF i \in DOMAIN old.look THEN old.look[i] ELSE DefaultLook
Restyled(old, new) == {i \in DOMAIN new.look : LookOf(old, i) # new.look[i]}

\* On air or on an output, as far as the device knows.
InUseNowhere(old, i) == FALSE
InUse(old, i) == i \in DOMAIN old.look /\ i \in {old.program, old.output}

Added(old, new) == (DOMAIN new.look \cap AddedByUs) \ DOMAIN old.look
Removed(old, new) == (DOMAIN old.look \cap AddedByUs) \ DOMAIN new.look

\* What is on air changes after the transition began, everything else before.
Difference(old, new) ==
  LET Restyle(i) == [do |-> "look", input |-> i, look |-> new.look[i]]
      TakeOut(i) == [do |-> "remove", input |-> i]
      changed == Restyled(old, new)
      inUse == {i \in changed : InUse(old, i)}
  IN EachOf(changed \ inUse, Restyle) \o Transition(old, new) \o Toggled(old, new)
     \o EachOf(inUse, Restyle) \o Recording(old, new) \o OutputSet(old, new)
     \o EachOf(Removed(old, new), TakeOut)

\* ADD_INPUT is queued for now while the difference is made; clearing the queue for a state
\* that is late takes it away again.
Additions(old, new, late) ==
  LET Bring(i) == [do |-> "add", input |-> i]
  IN IF late THEN <<>> ELSE EachOf(Added(old, new), Bring)

----------------------------------------------------------------------------
Count(what) == happened' = [happened EXCEPT ![what] = @ + 1]
NonEmpty(ss) == SelectSeq(ss, LAMBDA s : s # <<>>)

\* The timeline changes.
Want(s) ==
  /\ happened.states < MaxStates /\ s # wanted
  /\ wanted' = s /\ handed' = FALSE
  /\ Count("states")
  /\ UNCHANGED <<logged, commands, vmix, connected, reply, expecting, initialized, polling>>

HandleState(late) ==
  /\ ~handed /\ late => MayBeLate
  /\ MayRace \/ "afterConnecting" \notin expecting
  /\ OutputsMayBeLost \/ connected \/ wanted.output = logged.output
  /\ handed' = TRUE
  /\ \/ ~initialized /\ UNCHANGED <<logged, commands>>
     \/ /\ initialized
        /\ commands' = commands
             \o NonEmpty(<<Additions(logged, wanted, late) \o Difference(logged, wanted)>>)
        /\ logged' = wanted
  /\ UNCHANGED <<wanted, vmix, connected, reply, expecting, initialized, polling, happened>>

\* External: what vMix makes of a command.
Obeys(c, v) ==
  CASE c.do = "add" -> [v EXCEPT !.look = (c.input :> DefaultLook) @@ @]
    [] c.do = "remove" -> [v EXCEPT !.look = Restrict(@, DOMAIN @ \ {c.input})]
    [] c.do = "look" -> IF c.input \in DOMAIN v.look THEN [v EXCEPT !.look[c.input] = c.look] ELSE v
    [] c.do = "transition" -> IF c.input \in DOMAIN v.look THEN [v EXCEPT !.program = c.input] ELSE v
    [] c.do = "output" -> IF c.input \in DOMAIN v.look THEN [v EXCEPT !.output = c.input] ELSE v
    [] c.do = "fadeToBlack" -> [v EXCEPT !.fadeToBlack = ~@]
    [] c.do = "recording" -> [v EXCEPT !.recording = c.on]

\* _defaultCommandReceiver: a command ends the wait for a poll and puts the next one off,
\* which starts the timer even without a connection; then a write comes to nothing.
SendCommand ==
  /\ commands # <<>>
  /\ commands' = NonEmpty(<<Tail(Head(commands))>> \o Tail(commands))
  /\ vmix' = IF connected THEN Obeys(Head(Head(commands)), vmix) ELSE vmix
  /\ expecting' = expecting \ {"polled"} /\ polling' = TRUE
  /\ UNCHANGED <<wanted, handed, logged, connected, reply, initialized, happened>>

RequestVMixState == reply' = IF connected' THEN <<vmix>> ELSE <<>>

\* A poll, 5 or 10 s after the last request, so its answer has come and the commands that
\* were due have been sent.
Tick ==
  /\ polling /\ reply = <<>> /\ commands = <<>>
  /\ expecting' = expecting \cup {"polled"}
  /\ UNCHANGED connected /\ RequestVMixState
  /\ UNCHANGED <<wanted, handed, logged, commands, vmix, initialized, polling, happened>>

\* _setFullState: everything but what vMix does not report.
FullState(real) == [real EXCEPT !.output = logged.output]
PartialStateUnapplied(real) == logged
\* _setPartialInputState with applyRealState: the looks of the inputs that both know.
PartialState(real) ==
  [logged EXCEPT !.look =
     [i \in DOMAIN logged.look |-> IF i \in DOMAIN real.look THEN real.look[i] ELSE logged.look[i]]]

OnDataReceived ==
  /\ reply # <<>> /\ reply' = <<>>
  /\ initialized' = TRUE
  /\ \/ /\ "afterConnecting" \in expecting
        /\ logged' = FullState(Head(reply))
        /\ expecting' = expecting \ {"afterConnecting"}
        /\ handed' = FALSE
     \/ /\ expecting = {"polled"}
        /\ logged' = PartialState(Head(reply))
        /\ expecting' = {}
        /\ handed' = FALSE
     \/ /\ expecting = {}
        /\ UNCHANGED <<logged, expecting, handed>>
  /\ UNCHANGED <<wanted, commands, vmix, connected, polling, happened>>

\* The socket connects, at first or 5 s after it was closed; by then every command is sent.
Connect ==
  /\ ~connected /\ connected' = TRUE
  /\ commands = <<>>
  /\ expecting' = expecting \cup {"afterConnecting"}
  /\ polling' = TRUE
  /\ RequestVMixState
  /\ UNCHANGED <<wanted, handed, logged, commands, vmix, initialized, happened>>

Outlives(v) == IF OutputsMayBeLost THEN v ELSE [v EXCEPT !.output = vmix.output]

\* The connection is lost, perhaps because vMix restarts.
Drop ==
  /\ happened.drops < MaxDrops
  /\ connected /\ connected' = FALSE
  /\ OutputsMayBeLost \/ \A n \in DOMAIN commands : \A c \in Range(commands[n]) : c.do # "output"
  /\ vmix' \in {vmix, Outlives(Fresh)}
  /\ reply' = <<>> /\ polling' = FALSE
  /\ Count("drops")
  /\ UNCHANGED <<wanted, handed, logged, commands, expecting, initialized>>

\* Somebody at vMix changes a look.
Drift ==
  /\ happened.drifts < MaxDrifts
  /\ \E i \in DOMAIN vmix.look, l \in Looks : vmix' = [vmix EXCEPT !.look[i] = l]
  /\ vmix' # vmix
  /\ Count("drifts")
  /\ UNCHANGED <<wanted, handed, logged, commands, connected, reply, expecting, initialized, polling>>

Next ==
  \/ \E s \in States : Want(s)
  \/ \E late \in BOOLEAN : HandleState(late)
  \/ SendCommand
  \/ Tick
  \/ OnDataReceived
  \/ Connect
  \/ Drop
  \/ Drift

\* The conductor hands over, commands are sent, vMix answers, timers fire.
Hands == \E late \in BOOLEAN : HandleState(late)
Spec ==
  /\ Init /\ [][Next]_vars
  /\ WF_vars(Hands) /\ WF_vars(SendCommand) /\ WF_vars(Tick)
  /\ WF_vars(OnDataReceived) /\ WF_vars(Connect)

----------------------------------------------------------------------------
\* vMix is in the state of the timeline.
Follows == vmix = wanted

\* An input that a state takes off the program does not change before that: no command
\* changes the look of what is on program while the transition of its state is to come.
ChangesOffAir ==
  \A i \in DOMAIN vmix.look \cap DOMAIN vmix'.look :
    i = vmix.program /\ vmix'.look[i] # vmix.look[i] /\ commands' # commands
      => \A n \in DOMAIN Head(commands) : Head(commands)[n].do # "transition"
=============================================================================
