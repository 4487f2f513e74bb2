------------------------------ MODULE Shotoku ------------------------------
(***************************************************************************)
(* integrations/shotoku: shots and sequences of shots for a camera, and    *)
(* the connection with its three timers.  The camera is external.          *)
(***************************************************************************)
EXTENDS Naturals, Sequences, SequencesExt

CONSTANTS
  ShotOrder, SequenceOrder,      \* what there is in a state, in the order of its keys
  ShotsOf, Nowhere,
  MaxStates, MaxCloses, MaxFailures,   \* bounds
  MayOverlap,     \* a command while shots of a sequence are still to come
  MayCloseLate    \* a socket closes after the next attempt has begun

VARIABLES
  log,          \* the last state in the log of DeviceWithState
  queue,        \* commands that are due
  pending,      \* the timers of the shots of sequences, by their offsets
  camera,       \* external: the last shot, or Nowhere
  due,          \* where the commands bring the camera, or Nowhere after one was lost
  socket,       \* of the last attempt: "none", "connecting", "up"
  client,       \* there is a _tcpClient
  closing,      \* a socket has ended, but not closed
  attempt,      \* the timer of the last attempt: "none", "open", "resolved"
  retry,        \* _retryConnectTimeout is armed
  connected, happened
vars == <<log, queue, pending, camera, due, socket, client, closing, attempt, retry, connected, happened>>

Shots == Range(ShotOrder)
SequenceIds == Range(SequenceOrder)
Things == Shots \cup SequenceIds

ShotokuAssumption ==
  /\ Shots \cap SequenceIds = {} /\ Nowhere \notin Things
  /\ ShotsOf \in [SequenceIds -> Seq(Shots) \ {<<>>}]
  /\ {MaxStates, MaxCloses, MaxFailures} \subseteq Nat /\ {MayOverlap, MayCloseLate} \subseteq BOOLEAN

TypeOK ==
  /\ log \subseteq Things /\ queue \in Seq(Things) /\ pending \in Seq(Shots)
  /\ {camera, due} \subseteq Shots \cup {Nowhere}
  /\ socket \in {"none", "connecting", "up"} /\ attempt \in {"none", "open", "resolved"}
  /\ {client, closing, retry, connected} \subseteq BOOLEAN

Count(what) == happened' = [happened EXCEPT ![what] = @ + 1]
commandVars == <<log, queue, pending, camera, due>>
connectionVars == <<socket, client, closing, attempt, retry, connected>>

\* init() connects.
Init ==
  /\ log = {} /\ queue = <<>> /\ pending = <<>> /\ camera = Nowhere /\ due = Nowhere
  /\ socket = "connecting" /\ client = TRUE /\ closing = FALSE /\ attempt = "open"
  /\ retry = FALSE /\ connected = FALSE
  /\ happened = [states |-> 0, closes |-> 0, failures |-> 0]

----------------------------------------------------------------------------
\* convertStateToShotokuShots: the show and the number of a shot, and the id of a sequence are keys.
convertStateToShotokuShots(timeline) == timeline

\* What is new; nothing else is known to have changed.
diffStates(old, new) ==
  LET Added(thing) == thing \in new \ old
  IN SelectSeq(ShotOrder, Added) \o SelectSeq(SequenceOrder, Added)

HandleState(timeline) ==
  /\ happened.states < MaxStates
  /\ LET new == convertStateToShotokuShots(timeline) IN
     /\ new # log /\ log' = new
     /\ queue' = queue \o diffStates(log, new)
  /\ Count("states")
  /\ UNCHANGED <<pending, camera, due>> /\ UNCHANGED connectionVars

\* send: with an open socket the camera takes the shot.
Takes(shot) == camera' = IF client /\ socket = "up" THEN shot ELSE camera
Reaches(shot) == due' = IF client /\ socket = "up" THEN shot ELSE Nowhere

\* A command without a connection is dropped; a sequence begins its timers.
Execute ==
  /\ queue # <<>>
  /\ MayOverlap \/ pending = <<>>
  /\ LET thing == Head(queue) IN
     CASE ~connected -> due' = Nowhere /\ UNCHANGED <<pending, camera>>
       [] connected /\ thing \in Shots -> Takes(thing) /\ Reaches(thing) /\ UNCHANGED pending
       [] OTHER -> pending' = pending \o ShotsOf[thing] /\ Reaches(Last(ShotsOf[thing])) /\ UNCHANGED camera
  /\ queue' = Tail(queue)
  /\ UNCHANGED <<log, happened>> /\ UNCHANGED connectionVars

\* The timer of a shot; without a client there is a warning.
SequenceShot ==
  /\ pending # <<>>
  /\ Takes(Head(pending))
  /\ due' = IF client /\ socket = "up" THEN due ELSE Nowhere
  /\ pending' = Tail(pending)
  /\ UNCHANGED <<log, queue, happened>> /\ UNCHANGED connectionVars

----------------------------------------------------------------------------
(* The connection.                                                         *)

\* _setConnected: a connection that is lost arms the timer, if it is not armed.
SetConnected(value) ==
  /\ connected' = value
  /\ retry' = (retry \/ (connected /\ ~value))

Connects ==
  /\ socket = "connecting" /\ socket' = "up" /\ SetConnected(TRUE)
  /\ attempt' = "resolved"
  /\ UNCHANGED <<client, closing, happened>> /\ UNCHANGED commandVars

\* `error' and `close' of an attempt.
Refused ==
  /\ socket = "connecting" /\ happened.failures < MaxFailures
  /\ socket' = "none" /\ client' = FALSE /\ SetConnected(FALSE)
  /\ Count("failures")
  /\ UNCHANGED <<closing, attempt>> /\ UNCHANGED commandVars

\* `end': the connection is over, and is forgotten.
Ends ==
  /\ socket = "up" /\ happened.closes < MaxCloses
  /\ socket' = "none" /\ client' = FALSE /\ closing' = TRUE /\ SetConnected(FALSE)
  /\ Count("closes")
  /\ UNCHANGED attempt /\ UNCHANGED commandVars

\* `close', which follows: whatever client there is by now is forgotten.
Closes ==
  /\ closing /\ closing' = FALSE
  /\ client' = FALSE /\ SetConnected(FALSE)
  /\ UNCHANGED <<socket, attempt, happened>> /\ UNCHANGED commandVars

\* As it would be if only a connection that is lost was retried.
TimeoutOnly ==
  /\ attempt # "none" /\ attempt' = "none"
  /\ IF attempt = "open" /\ client THEN socket' = "none" /\ client' = FALSE ELSE UNCHANGED <<socket, client>>
  /\ UNCHANGED <<closing, retry, connected, happened>> /\ UNCHANGED commandVars

\* The timer of an attempt: it arms the other timer in any case, and an attempt without an answer
\* is over.
Timeout ==
  /\ attempt # "none" /\ attempt' = "none"
  /\ retry' = TRUE
  /\ IF attempt = "open" /\ client THEN socket' = "none" /\ client' = FALSE ELSE UNCHANGED <<socket, client>>
  /\ UNCHANGED <<closing, connected, happened>> /\ UNCHANGED commandVars

\* _retryConnection; its time is longer than that of an attempt.
RetryConnection ==
  /\ retry /\ attempt = "none"
  /\ MayCloseLate \/ ~closing
  /\ retry' = FALSE
  /\ IF connected THEN UNCHANGED <<socket, client, attempt>>
     ELSE socket' = "connecting" /\ client' = TRUE /\ attempt' = "open"
  /\ UNCHANGED <<closing, connected, happened>> /\ UNCHANGED commandVars

Next ==
  \/ \E t \in SUBSET Things : HandleState(t)
  \/ Execute \/ SequenceShot
  \/ Connects \/ Refused \/ Ends \/ Closes \/ Timeout \/ RetryConnection

\* Timers fire, and an attempt is answered before its time is over, but for those that fail.
Timers == Timeout \/ RetryConnection \/ Closes
Fairness == WF_vars(Timers) /\ SF_vars(Connects)

----------------------------------------------------------------------------
\* There is a connection in the end, and one that can be sent over.
Online == connected /\ client /\ socket = "up"

\* What is taken for a connection can be sent over; and when a sequence is over, and nothing was
\* lost, the camera is where the last command brings it.
CameraFollows ==
  /\ connected => client /\ socket = "up"
  /\ pending = <<>> /\ due # Nowhere => camera = due
=============================================================================
