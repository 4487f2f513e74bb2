----------------------------- MODULE Hyperdeck ------------------------------
(***************************************************************************)
(* integrations/hyperdeck/index.ts: the commands from one state of the     *)
(* transport to the next, the connection, makeReady, and the poll of the   *)
(* recording time.  `deck' is external.  A state is handed over when its   *)
(* time has come; a burst is sent before the next one.  The speed, the     *)
(* loop and single clips are one `mode'.                                   *)
(***************************************************************************)
EXTENDS Naturals, Sequences, FiniteSets

CONSTANTS
  Clips, Files, Modes, DefaultMode, NoClip, NoFile,
  MaxStates, MaxDrops, MaxSyncs, MaxPolls,  \* bounds: states, lost connections, makeReady, slots changed
  MayKeepRunning,    \* the deck still plays or records although it should not, when it is connected
  MayRace            \* a state is handed over while the deck is asked for its state

VARIABLES
  wanted,      \* what the timeline wants
  handed,      \* it was handed over since it changed, and since the last resetResolver
  log,         \* the last state in the log of DeviceWithState
  queue,       \* commands that are due
  deck,        \* external: transport, and the notifications it sends
  connection,  \* the connection, and whether the device takes it for connected
  query,       \* who asked for the state of the deck
  status,      \* _transportStatus
  polls,       \* of the recording time: those under way, and those armed
  happened
vars == <<wanted, handed, log, queue, deck, connection, query, status, polls, happened>>

Slots == "slots"
\* What the device asks to be told of; the default state wants nothing.
Wished == {"slot", "transport"}

Stopped == [status |-> "stopped", mode |-> DefaultMode, clip |-> NoClip, file |-> NoFile]
\* What the transport layer of a timeline may be; without one it is stopped.
Transports ==
  {Stopped, [Stopped EXCEPT !.status = "preview"], [Stopped EXCEPT !.status = "jog"]}
    \cup [status : {"play"}, mode : Modes, clip : Clips \cup {NoClip}, file : {NoFile}]
    \cup [status : {"record"}, mode : {DefaultMode}, clip : {NoClip}, file : Files]
DeviceState == [transport : Transports, notify : SUBSET Wished]
DefaultState == [transport |-> Stopped, notify |-> {}]
\* convertStateToHyperdeck leaves the notifications as they are by default.
Converted(t) == [DefaultState EXCEPT !.transport = t]

HyperdeckAssumption ==
  /\ DefaultMode \in Modes /\ NoClip \notin Clips /\ NoFile \notin Files
  /\ {MaxStates, MaxDrops, MaxSyncs, MaxPolls} \subseteq Nat
  /\ {MayKeepRunning, MayRace} \subseteq BOOLEAN

Command ==
  [do : {"play"}, mode : Modes] \cup [do : {"goto"}, clip : Clips] \cup [do : {"record"}, file : Files]
    \cup [do : {"stop", "preview"}] \cup [do : {"notify"}, on : SUBSET Wished]

TypeOK ==
  /\ wanted \in Transports /\ handed \in BOOLEAN
  /\ log.transport.status \in {"stopped", "play", "record", "preview", "jog"} /\ log.notify \subseteq Wished
  /\ queue \in Seq(Command)
  /\ connection \in {"new", "down", "opening", "connected"}
  /\ query \in {"none", "init", "connect", "resync"}
  /\ polls \in [running : Nat, armed : BOOLEAN, lost : Nat]

Init ==
  /\ wanted = Stopped /\ handed = FALSE /\ log = DefaultState /\ queue = <<>>
  /\ deck = [transport |-> Stopped, notify |-> {}]
  /\ connection = "new" /\ query = "none" /\ status = "stopped"
  /\ polls = [running |-> 0, armed |-> FALSE, lost |-> 0]
  /\ happened = [states |-> 0, drops |-> 0, syncs |-> 0, slots |-> 0]

Count(what) == happened' = [happened EXCEPT ![what] = @ + 1]

----------------------------------------------------------------------------
(* _diffStates                                                             *)

Play(t) == [do |-> "play", mode |-> t.mode]
Stop == [do |-> "stop"]

Notify(old, new) == IF old.notify = new.notify THEN <<>> ELSE <<[do |-> "notify", on |-> new.notify]>>

\* As it would be if another file name did not split the recording.
RecordsOn(old, new) == IF old.status = "record" THEN <<>> ELSE <<[do |-> "record", file |-> new.file]>>

\* A recording whose name is not known is not split.
Records(old, new) ==
  CASE old.status # "record" -> <<[do |-> "record", file |-> new.file]>>
    [] old.status = "record" /\ old.file \notin {NoFile, new.file} -> <<Stop, [do |-> "record", file |-> new.file]>>
    [] OTHER -> <<>>

\* Another clip is always played anew, since the last one may have come to its end.
Plays(old, new) ==
  (IF old.status # "play" \/ old.mode # new.mode THEN <<Play(new)>> ELSE <<>>)
    \o (IF new.clip \in {old.clip, NoClip} THEN <<>> ELSE <<[do |-> "goto", clip |-> new.clip], Play(new)>>)

Transport(old, new) ==
  CASE new.status = "record" -> Records(old, new)
    [] new.status = "play" -> Plays(old, new)
    [] new.status = "preview" -> IF old.status = "preview" THEN <<>> ELSE <<[do |-> "preview"]>>
    [] new.status = "stopped" -> IF old.status = "stopped" THEN <<>> ELSE <<Stop>>
    [] OTHER -> IF old.status \in {"record", "play"} THEN <<Stop>> ELSE <<>>

diffStates(old, new) == Notify(old, new) \o Transport(old.transport, new.transport)

----------------------------------------------------------------------------
(* The timeline.                                                           *)

Want(t) ==
  /\ happened.states < MaxStates /\ t # wanted
  /\ MayRace \/ (query = "none" /\ (handed \/ connection = "new"))
  /\ wanted' = t /\ handed' = FALSE
  /\ Count("states")
  /\ UNCHANGED <<log, queue, deck, connection, query, status, polls>>

\* Before it is initialized the device ignores states.
HandleState ==
  /\ ~handed /\ connection # "new" /\ query # "init"
  /\ MayRace \/ query = "none"
  /\ queue' = queue \o diffStates(log, Converted(wanted))
  /\ log' = Converted(wanted)
  /\ handed' = TRUE
  /\ UNCHANGED <<wanted, deck, connection, query, status, polls, happened>>

\* External: what the deck makes of a command.
Obeyed(c) ==
  CASE c.do = "notify" -> [deck EXCEPT !.notify = c.on]
    [] c.do = "record" -> [deck EXCEPT !.transport = [Stopped EXCEPT !.status = "record", !.file = c.file]]
    [] c.do = "stop" -> [deck EXCEPT !.transport.status = "stopped"]
    [] c.do = "preview" -> [deck EXCEPT !.transport.status = "preview"]
    [] c.do = "goto" -> [deck EXCEPT !.transport.clip = c.clip]
    [] c.do = "play" -> [deck EXCEPT !.transport.status = "play", !.transport.mode = c.mode]

\* What the deck does it tells, if it was asked to.
Told(new) ==
  status' = IF "transport" \in deck.notify /\ connection = "connected" THEN new.transport.status ELSE status

\* Without a connection the command is an error, and that is all.
SendCommand ==
  /\ queue # <<>>
  /\ IF connection \in {"new", "down"} THEN UNCHANGED <<deck, status>>
     ELSE deck' = Obeyed(Head(queue)) /\ Told(Obeyed(Head(queue)))
  /\ queue' = Tail(queue)
  /\ UNCHANGED <<wanted, handed, log, connection, query, polls, happened>>

\* A clip comes to its end.
Ends ==
  /\ deck.transport.status = "play" /\ connection = "connected" /\ queue = <<>>
  /\ deck' = [deck EXCEPT !.transport.status = "stopped"] /\ Told(deck')
  /\ UNCHANGED <<wanted, handed, log, queue, connection, query, polls, happened>>

----------------------------------------------------------------------------
(* The connection.                                                         *)

\* The handler of `connected' asks for the state, and for the notifications after that.
Connect ==
  /\ connection \in {"new", "down"}
  /\ MayRace \/ (queue = <<>> /\ query = "none")
  /\ MayKeepRunning \/ (deck.transport.status \in {"play", "record"} => wanted.status = deck.transport.status)
  /\ connection' = "opening" /\ query' = IF connection = "new" THEN "init" ELSE "connect"
  /\ deck' = [deck EXCEPT !.notify = Wished]
  /\ UNCHANGED <<wanted, handed, log, queue, status, polls, happened>>

Drop ==
  /\ connection = "connected" /\ query = "none"
  /\ happened.drops < MaxDrops
  /\ connection' = "down"
  /\ deck' = [deck EXCEPT !.notify = {}]
  /\ Count("drops")
  /\ UNCHANGED <<wanted, handed, log, queue, query, status, polls>>

\* makeReady: the queue is emptied before the question.
Resync ==
  /\ happened.syncs < MaxSyncs /\ query = "none" /\ connection \in {"down", "connected"}
  /\ queue' = <<>> /\ query' = "resync"
  /\ Count("syncs")
  /\ UNCHANGED <<wanted, handed, log, deck, connection, status, polls>>

\* _queryCurrentState answers with the default state while the device counts as disconnected, as
\* it does until the answer on a new connection has come.
CurrentState == IF connection = "connected" THEN deck ELSE DefaultState

Answered ==
  /\ query # "none"
  /\ log' = CurrentState
  /\ status' = IF query # "resync" THEN deck.transport.status ELSE status
  /\ connection' = IF query # "resync" THEN "connected" ELSE connection
  /\ query' = "none" /\ handed' = FALSE
  /\ UNCHANGED <<wanted, queue, deck, polls, happened>>

----------------------------------------------------------------------------
(* The recording time is polled by a timer, and when a slot changes.       *)

\* _queryRecordingTime clears the timer that it knows.
Poll(running) == polls' = [polls EXCEPT !.running = running, !.armed = FALSE]

SlotChanges ==
  /\ "slot" \in deck.notify /\ happened.slots < MaxPolls
  /\ Poll(polls.running + 1)
  /\ Count("slots")
  /\ UNCHANGED <<wanted, handed, log, queue, deck, connection, query, status>>

PollTimeout ==
  /\ \/ polls.armed /\ Poll(polls.running + 1)
     \/ polls.lost > 0 /\ polls' = [polls EXCEPT !.running = @ + 1, !.lost = @ - 1, !.armed = FALSE]
  /\ UNCHANGED <<wanted, handed, log, queue, deck, connection, query, status, happened>>

\* The timer is set again, and an earlier one is forgotten.
Polled ==
  /\ polls.running > 0
  /\ polls' = [running |-> polls.running - 1, armed |-> TRUE, lost |-> polls.lost + (IF polls.armed THEN 1 ELSE 0)]
  /\ UNCHANGED <<wanted, handed, log, queue, deck, connection, query, status, happened>>

Next ==
  \/ \E t \in Transports : Want(t)
  \/ HandleState \/ SendCommand \/ Ends
  \/ Connect \/ Drop \/ Resync \/ Answered
  \/ SlotChanges \/ PollTimeout \/ Polled

----------------------------------------------------------------------------
Settled == handed /\ queue = <<>> /\ query = "none" /\ connection = "connected"

\* Once its commands are through, the deck does what the timeline wants: it records to the file,
\* plays the clip unless that has ended, or does neither.
RunsTheTransport ==
  Settled =>
    LET is == deck.transport IN
    CASE wanted.status = "record" -> is.status = "record" /\ is.file = wanted.file
      [] wanted.status = "play" -> /\ is.status \in {"play", "stopped"}
                                   /\ wanted.clip \in {is.clip, NoClip}
      [] OTHER -> is.status \notin {"play", "record"}
=============================================================================
