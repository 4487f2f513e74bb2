------------------------------ MODULE CasparCG ------------------------------
(***************************************************************************)
(* integrations/casparCG/index.ts, one layer of a channel: what plays and  *)
(* what is loaded behind it.  The commands come from casparcg-state, which *)
(* is external, as is the server.  The device keeps the last state it was  *)
(* given (the log) and, from the answers, the state that the server has    *)
(* confirmed; a timer loads again what differs.  Mixer properties,         *)
(* transitions and pauses are left out.                                    *)
(***************************************************************************)
EXTENDS Naturals, Sequences, FiniteSets

CONSTANTS
  Clips, Missing,      \* some are found on the server later
  Nothing,
  MaxStates, MaxDrops, MaxRestarts, MaxReady,   \* bounds
  MayLose,             \* what is not sent again is sent without a connection, or an answer lost with it
  MayRace,             \* commands are sent while the server is asked whether it was restarted
  CheckMayFail         \* the question whether the server was restarted is not answered

VARIABLES
  wanted,      \* the layer of the timeline
  handed,      \* it was handed over since it changed, and since the last resetResolver
  log,
  queue,       \* commands that are due
  answers,     \* of the server, on their way
  server,      \* external: the layer
  missing,     \* external: clips that are not found yet
  confirmed,   \* _currentState
  retry,       \* _retryTimeout is armed
  connection,  \* the connection; `checking' until the virgin check is through
  happened
vars == <<wanted, handed, log, queue, answers, server, missing, confirmed, retry, connection, happened>>

Layers == [media : Clips \cup {Nothing}, nextUp : Clips \cup {Nothing}]
Empty == [media |-> Nothing, nextUp |-> Nothing]

\* Clips by a play or loadbg, or what is loaded already; the state a command belongs to.
Command ==
  [do : {"play", "loadbg"}, clip : Clips, retry : BOOLEAN]
    \cup [do : {"loadbg"}, clip : {Nothing}, retry : BOOLEAN]
    \cup [do : {"next", "clear"}, retry : BOOLEAN]

\* The layer of a timeline: what is on it, and what is looked ahead to (previewWhenNotOnAir is off).
\* A lookahead object on the layer itself counts as looked ahead to.
Timelines == [on : Clips \cup {Nothing}, isLookahead : BOOLEAN, ahead : Clips \cup {Nothing}]

convertStateToCaspar(timeline) ==
  IF timeline.isLookahead THEN [media |-> Nothing, nextUp |-> timeline.on]
  ELSE [media |-> timeline.on, nextUp |-> timeline.ahead]

CasparCGAssumption ==
  /\ IsFiniteSet(Clips) /\ Missing \subseteq Clips /\ Nothing \notin Clips
  /\ {MaxStates, MaxDrops, MaxRestarts, MaxReady} \subseteq Nat
  /\ {MayLose, MayRace, CheckMayFail} \subseteq BOOLEAN

\* The state that a command was made for; none, once the log was cleared.
Gone == {}
Sent == [command : Command, of : {{l} : l \in Layers} \cup {Gone}]

TypeOK ==
  /\ wanted \in Layers /\ handed \in BOOLEAN /\ log \in Layers
  /\ queue \in Seq(Sent)
  /\ \A n \in DOMAIN answers : answers[n].ok \in BOOLEAN /\ answers[n].sent \in Sent
  /\ server \in Layers /\ missing \subseteq Missing /\ confirmed \in Layers
  /\ retry \in BOOLEAN /\ connection \in {"down", "checking", "up"}

Init ==
  /\ wanted = Empty /\ handed = FALSE /\ log = Empty
  /\ queue = <<>> /\ answers = <<>>
  /\ server = Empty /\ missing = Missing /\ confirmed = Empty
  /\ retry = TRUE /\ connection = "up"
  /\ happened = [states |-> 0, drops |-> 0, restarts |-> 0, ready |-> 0]

Count(what) == happened' = [happened EXCEPT ![what] = @ + 1]

----------------------------------------------------------------------------
(* External: the difference of two layers, as diffStatesOrderedCommands    *)
(* makes it.                                                               *)

Foreground(old, new, again) ==
  IF old.media = new.media THEN <<>>
  ELSE IF new.media = Nothing THEN <<[do |-> "clear", retry |-> again]>>
  ELSE IF new.media = old.nextUp THEN <<[do |-> "next", retry |-> again]>>
  ELSE <<[do |-> "play", clip |-> new.media, retry |-> again]>>

Background(old, new, again) ==
  LET left == IF old.media = new.media THEN old.nextUp ELSE Nothing
  IN IF left = new.nextUp THEN <<>> ELSE <<[do |-> "loadbg", clip |-> new.nextUp, retry |-> again]>>

diffStates(old, new, again) == Foreground(old, new, again) \o Background(old, new, again)

ForState(commands, layer) == [n \in DOMAIN commands |-> [command |-> commands[n], of |-> {layer}]]

\* External: what the server makes of a command, and whether it says that it did it.  A clip that
\* is not found leaves the layer clear (clearOn404).
Plays(c) ==
  CASE c.do = "play" -> [media |-> IF c.clip \in missing THEN Nothing ELSE c.clip, nextUp |-> Nothing]
    [] c.do = "next" -> IF server.nextUp = Nothing THEN server ELSE [media |-> server.nextUp, nextUp |-> Nothing]
    [] c.do = "loadbg" -> IF c.clip \in missing THEN server ELSE [server EXCEPT !.nextUp = c.clip]
    [] c.do = "clear" -> Empty
Done(c) == c.do \in {"play", "loadbg"} => c.clip \notin missing

----------------------------------------------------------------------------
\* No clip is both shown and looked ahead to.
Want(timeline) ==
  /\ happened.states < MaxStates
  /\ timeline.on # timeline.ahead \/ timeline.on = Nothing
  /\ LET layer == convertStateToCaspar(timeline) IN wanted' = layer /\ layer # wanted
  /\ handed' = FALSE
  /\ Count("states")
  /\ UNCHANGED <<log, queue, answers, server, missing, confirmed, retry, connection>>

\* What the timer sends again: only what loads media.
Loads(c) == c.do \in {"play", "loadbg"}

HandleState ==
  /\ ~handed /\ (MayRace \/ connection # "checking")
  /\ LET commands == diffStates(log, wanted, FALSE) IN
     /\ MayLose \/ connection = "up" \/ SelectSeq(commands, Loads) = commands
     /\ queue' = queue \o ForState(commands, wanted)
  /\ log' = wanted /\ handed' = TRUE
  /\ UNCHANGED <<wanted, answers, server, missing, confirmed, retry, connection, happened>>

\* _defaultCommandReceiver: a command that is not a retry arms the timer anew; without a
\* connection it comes to nothing.
SendCommand ==
  /\ queue # <<>>
  /\ LET c == Head(queue).command IN
     /\ retry' = (retry \/ ~c.retry)
     /\ IF connection = "down" THEN UNCHANGED <<server, answers>>
        ELSE /\ server' = Plays(c)
             /\ answers' = Append(answers, [ok |-> Done(c), sent |-> Head(queue)])
  /\ queue' = Tail(queue)
  /\ UNCHANGED <<wanted, handed, log, missing, confirmed, connection, happened>>

\* _changeTrackedStateFromCommand copies what the state of the command has, as far as the command
\* concerns it.
Confirmed(c, expected) ==
  CASE c.do = "next" /\ confirmed.nextUp = Nothing -> confirmed
    [] c.do = "play" \/ (c.do = "next" /\ confirmed.nextUp # Nothing) -> [media |-> expected.media, nextUp |-> Nothing]
    [] c.do = "loadbg" -> [confirmed EXCEPT !.nextUp = expected.nextUp]
    [] c.do = "clear" -> Empty

Answered ==
  /\ answers # <<>>
  /\ LET a == Head(answers) IN
     confirmed' = IF ~a.ok \/ a.sent.of = Gone THEN confirmed
                  ELSE Confirmed(a.sent.command, CHOOSE l \in a.sent.of : TRUE)
  /\ answers' = Tail(answers)
  /\ UNCHANGED <<wanted, handed, log, queue, server, missing, retry, connection, happened>>

\* The timer; an interval is much longer than commands and their answers are under way.
AssertIntendedState ==
  /\ retry /\ queue = <<>> /\ answers = <<>> /\ (MayRace \/ connection # "checking")
  /\ LET again == SelectSeq(diffStates(confirmed, log, TRUE), Loads) IN
     queue' = queue \o ForState(again, log)
  /\ UNCHANGED <<wanted, handed, log, answers, server, missing, confirmed, retry, connection, happened>>

----------------------------------------------------------------------------
(* The connection.  A burst is sent before anything else happens.          *)

\* Answers are lost with the connection.
Disconnect(restarted) ==
  /\ connection = "up" /\ queue = <<>> /\ (MayLose \/ answers = <<>>)
  /\ IF restarted THEN happened.restarts < MaxRestarts /\ Count("restarts")
     ELSE happened.drops < MaxDrops /\ Count("drops")
  /\ connection' = "down"
  /\ server' = IF restarted THEN Empty ELSE server
  /\ answers' = <<>>
  /\ UNCHANGED <<wanted, handed, log, queue, missing, confirmed, retry>>

Connect ==
  /\ connection = "down" /\ queue = <<>>
  /\ connection' = "checking"
  /\ UNCHANGED <<wanted, handed, log, queue, answers, server, missing, confirmed, retry, happened>>

\* As it would be if the conductor was not told to hand the state over again.
ForgottenQuietly ==
  /\ log' = Empty /\ confirmed' = Empty /\ UNCHANGED handed
  /\ answers' = [n \in DOMAIN answers |-> [answers[n] EXCEPT !.sent.of = Gone]]

\* clearStates and resetResolver: answers that are under way are for a state that is forgotten.
Forgotten ==
  /\ log' = Empty /\ confirmed' = Empty /\ handed' = FALSE
  /\ answers' = [n \in DOMAIN answers |-> [answers[n] EXCEPT !.sent.of = Gone]]

\* A server on which nothing plays was restarted; one that does not answer is taken for that.
VirginCheck(answers_) ==
  /\ connection = "checking" /\ queue = <<>>
  /\ answers_ \/ CheckMayFail
  /\ connection' = "up"
  /\ IF server = Empty \/ ~answers_ THEN Forgotten
     ELSE UNCHANGED <<log, confirmed, handed, answers>>
  /\ UNCHANGED <<wanted, queue, server, missing, retry, happened>>

\* makeReady: all channels are cleared.
ClearAllChannels ==
  /\ connection = "up" /\ queue = <<>> /\ happened.ready < MaxReady
  /\ server' = Empty
  /\ Forgotten
  /\ Count("ready")
  /\ UNCHANGED <<wanted, queue, missing, retry, connection>>

Found(c) ==
  /\ c \in missing
  /\ missing' = missing \ {c}
  /\ UNCHANGED <<wanted, handed, log, queue, answers, server, confirmed, retry, connection, happened>>

Next ==
  \/ \E t \in Timelines : Want(t)
  \/ HandleState \/ SendCommand \/ Answered \/ AssertIntendedState
  \/ \E restarted \in BOOLEAN : Disconnect(restarted)
  \/ Connect \/ ClearAllChannels
  \/ \E a \in BOOLEAN : VirginCheck(a)
  \/ \E c \in Clips : Found(c)

\* What goes on by itself, but for the timer: the device, and the connection.
Continues == HandleState \/ SendCommand \/ Answered
Reconnects == Connect \/ VirginCheck(TRUE)
Finds == \E c \in Clips : Found(c)

----------------------------------------------------------------------------
\* The server shows the layer of the timeline.
ShowsTheLayer == server = wanted
=============================================================================
