-------------------------- MODULE PharosConnection --------------------------
(***************************************************************************)
(* integrations/pharos/connection.ts: the websocket, its pings and its     *)
(* reconnections.  Each socket keeps its handlers for good, so that the    *)
(* events of one that was given up still change the connection.  Delays    *)
(* are left out: a timer may fire whenever it is armed.                    *)
(***************************************************************************)
EXTENDS Naturals, FiniteSets

CONSTANTS
  MaxSockets, MaxTimers, MaxTroubles,   \* bounds: sockets, reconnection timers, sockets that fail or die
  MayFailFirst              \* the very first connection fails

VARIABLES
  socket,        \* _socket
  state,         \* external: of every socket; `dead' is one that says no more
  connected,     \* _connected
  connecting,    \* _isConnecting
  reconnecting,  \* _isReconnecting: the promise of _connectSocket is pending
  again,         \* _aboutToReconnect
  timers,        \* calls of _reconnect that are armed
  alive,         \* _keepAlive, and the timer of the pings with it
  reply,         \* _replyReceived
  pinged,        \* the socket that the last ping went to
  troubles
vars == <<socket, state, connected, connecting, reconnecting, again, timers, alive, reply, pinged, troubles>>

Sockets == 1..MaxSockets
NoSocket == 0

PharosConnectionAssumption ==
  /\ {MaxSockets, MaxTimers, MaxTroubles} \subseteq Nat /\ MaxSockets > 0
  /\ MayFailFirst \in BOOLEAN

TypeOK ==
  /\ {socket, pinged} \subseteq Sockets \cup {NoSocket}
  /\ state \in [Sockets -> {"unused", "connecting", "open", "dead"}]
  /\ {connected, connecting, reconnecting, again, alive, reply} \subseteq BOOLEAN
  /\ timers \in 0..MaxTimers /\ troubles \in 0..MaxTroubles

IsOpen == socket # NoSocket /\ state[socket] = "open"

\* connect() was called.
Init ==
  /\ socket = 1 /\ state = [s \in Sockets |-> IF s = 1 THEN "connecting" ELSE "unused"]
  /\ connecting = TRUE /\ connected = FALSE /\ reconnecting = FALSE /\ again = FALSE
  /\ timers = 0 /\ alive = FALSE /\ reply = FALSE /\ pinged = NoSocket /\ troubles = 0

----------------------------------------------------------------------------
\* _connectSocket, in a world where the sockets are as `now' says.
NewSocket(now) ==
  \E s \in Sockets :
    /\ now[s] = "unused" /\ \A x \in 1..(s - 1) : now[x] # "unused"
    /\ socket' = s /\ state' = [now EXCEPT ![s] = "connecting"]

\* As it would be if a reconnection was ignored while another one is running.
ReconnectOnce(pending) ==
  IF connecting \/ pending THEN reconnecting' = pending /\ UNCHANGED <<again, socket, state>>
  ELSE reconnecting' = TRUE /\ NewSocket(state) /\ UNCHANGED again

\* _reconnect, with a promise that is pending or not.
Reconnect(pending) ==
  IF connecting THEN reconnecting' = pending /\ UNCHANGED <<again, socket, state>>
  ELSE IF pending THEN again' = TRUE /\ UNCHANGED <<reconnecting, socket, state>>
  ELSE reconnecting' = TRUE /\ NewSocket(state) /\ UNCHANGED again

\* _handleWebsocketReconnection; a socket that fails has both an error and an end.
Handle(times) ==
  /\ timers + times <= MaxTimers
  /\ alive' = FALSE /\ socket' = NoSocket /\ connected' = FALSE
  /\ timers' = timers + times

\* Sent, or to be sent as soon as the socket opens; without a socket a new one is made for it.
Ping(now) ==
  /\ IF socket = NoSocket THEN NewSocket(now) ELSE socket' = socket /\ state' = now
  /\ reply' = FALSE /\ pinged' = socket'

\* The promises of connect and of _reconnect are resolved by `connected', which is not emitted
\* when that is so already.
Opens(s) ==
  /\ state[s] = "connecting"
  /\ connected' = TRUE
  /\ connecting' = (connecting /\ connected)
  /\ reconnecting' = (reconnecting /\ connected)
  /\ alive' = TRUE
  /\ Ping([state EXCEPT ![s] = "open"])
  /\ UNCHANGED <<again, timers, troubles>>

Trouble == troubles < MaxTroubles /\ troubles' = troubles + 1

Fails(s) ==
  /\ state[s] = "connecting" /\ (MayFailFirst \/ ~connecting)
  /\ Trouble
  /\ state' = [state EXCEPT ![s] = "unused"]
  /\ Handle(2)
  /\ UNCHANGED <<connecting, reconnecting, again, reply, pinged>>

Closes(s) ==
  /\ \/ state[s] = "open" /\ Trouble
     \/ state[s] = "dead" /\ UNCHANGED troubles
  /\ state' = [state EXCEPT ![s] = "unused"]
  /\ Handle(1)
  /\ UNCHANGED <<connecting, reconnecting, again, reply, pinged>>

Dies(s) ==
  /\ state[s] = "open"
  /\ Trouble
  /\ state' = [state EXCEPT ![s] = "dead"]
  /\ UNCHANGED <<socket, connected, connecting, reconnecting, again, timers, alive, reply, pinged>>

\* A connection is made, and a ping answered, long before the next ping.
Replied ==
  /\ ~reply /\ pinged # NoSocket /\ state[pinged] = "open"
  /\ reply' = TRUE
  /\ UNCHANGED <<socket, state, connected, connecting, reconnecting, again, timers, alive, pinged, troubles>>

Answering == pinged # NoSocket /\ state[pinged] \in {"connecting", "open"}

KeepAlive ==
  /\ alive /\ (reply \/ ~Answering)
  /\ IF reply
     THEN /\ IF connected THEN Ping(state) ELSE reply' = FALSE /\ UNCHANGED <<socket, state, pinged>>
          /\ UNCHANGED <<connected, timers, alive>>
     ELSE Handle(1) /\ UNCHANGED <<state, reply, pinged>>
  /\ UNCHANGED <<connecting, reconnecting, again, troubles>>

ReconnectTimer ==
  /\ timers > 0
  /\ timers' = timers - 1
  /\ Reconnect(reconnecting)
  /\ UNCHANGED <<connected, connecting, alive, reply, pinged, troubles>>

\* The promise of _reconnect is rejected: its time is up, or an error was emitted.
ReconnectFails ==
  /\ reconnecting
  /\ IF again THEN again' = FALSE /\ NewSocket(state) /\ reconnecting' = TRUE
     ELSE reconnecting' = FALSE /\ UNCHANGED <<again, socket, state>>
  /\ UNCHANGED <<connected, connecting, timers, alive, reply, pinged, troubles>>

Next ==
  \/ \E s \in Sockets : Opens(s) \/ Fails(s) \/ Closes(s) \/ Dies(s)
  \/ Replied \/ KeepAlive \/ ReconnectTimer \/ ReconnectFails

----------------------------------------------------------------------------
\* The fairness of the timers, and of a network that is not in trouble.
Fairness ==
  /\ WF_vars(\E s \in Sockets : Opens(s)) /\ WF_vars(Replied) /\ WF_vars(KeepAlive)
  /\ WF_vars(ReconnectTimer) /\ WF_vars(ReconnectFails)

\* The device counts as connected, and the socket that it would send to is open.
Online == connected /\ socket # NoSocket /\ state[socket] = "open"
=============================================================================
