----------------------------- MODULE Telemetrics -----------------------------
(***************************************************************************)
(* integrations/telemetrics/index.ts: preset shots of a camera head, which *)
(* is external, over a socket that is made anew when it was closed with an *)
(* error.  A preset is sent when it is in a state and was not in the one   *)
(* before; `fire and forget'.                                              *)
(***************************************************************************)
EXTENDS Naturals, SequencesExt

CONSTANTS
  Presets, Nowhere,
  Timelines,            \* the presets of a state, sequences
  MaxStates, MaxCloses, \* bounds: states, connections and attempts that come to an end
  MayCut,               \* the connection is lost while a preset waits, or a state comes without one
  MayEnd                \* the camera closes the connection without an error

VARIABLES
  wanted, handed,       \* the state of the timeline, and: it was handed over
  log,                  \* the last state in the log of DeviceWithState
  queue,                \* presets that wait for their time
  camera,               \* external: the last preset it was told
  socket,               \* "connecting", "open" or "closed"
  retry,                \* retryConnectionTimer is armed
  statusCode,
  initialized,          \* the promise of init() is resolved
  happened
vars == <<wanted, handed, log, queue, camera, socket, retry, statusCode, initialized, happened>>

TelemetricsAssumption ==
  /\ Timelines \subseteq Seq(Presets) /\ <<>> \in Timelines /\ Nowhere \notin Presets
  /\ {MaxStates, MaxCloses} \subseteq Nat /\ {MayCut, MayEnd} \subseteq BOOLEAN

TypeOK ==
  /\ {wanted, log} \subseteq Timelines /\ queue \in Seq(Presets)
  /\ camera \in Presets \cup {Nowhere}
  /\ socket \in {"connecting", "open", "closed"} /\ statusCode \in {"UNKNOWN", "GOOD", "BAD"}
  /\ {handed, retry, initialized} \subseteq BOOLEAN

Count(what) == happened' = [happened EXCEPT ![what] = @ + 1]

Init ==
  /\ wanted = <<>> /\ handed = TRUE /\ log = <<>> /\ queue = <<>> /\ camera = Nowhere
  /\ socket = "connecting" /\ retry = FALSE /\ statusCode = "UNKNOWN" /\ initialized = FALSE
  /\ happened = [states |-> 0, closes |-> 0]

----------------------------------------------------------------------------
Want(presets) ==
  /\ happened.states < MaxStates
  /\ wanted # presets /\ wanted' = presets /\ handed' = FALSE
  /\ Count("states")
  /\ UNCHANGED <<log, queue, camera, socket, retry, statusCode, initialized>>

filterNewPresetIdentifiersFromOld(new, old) == SelectSeq(new, LAMBDA p : ~Contains(old, p))

HandleState ==
  /\ initialized /\ ~handed /\ handed' = TRUE
  /\ MayCut \/ socket = "open"
  /\ queue' = queue \o filterNewPresetIdentifiersFromOld(wanted, log)
  /\ log' = wanted
  /\ UNCHANGED <<wanted, camera, socket, retry, statusCode, initialized, happened>>

\* What is written while the socket connects waits for the connection.
SendCommand ==
  /\ queue # <<>> /\ socket # "connecting"
  /\ camera' = IF socket = "open" THEN Head(queue) ELSE camera
  /\ queue' = Tail(queue)
  /\ UNCHANGED <<wanted, handed, log, socket, retry, statusCode, initialized, happened>>

----------------------------------------------------------------------------
(* The connection.                                                         *)

Connects ==
  /\ socket = "connecting" /\ socket' = "open"
  /\ statusCode' = "GOOD" /\ initialized' = TRUE
  /\ UNCHANGED <<wanted, handed, log, queue, camera, retry, happened>>

\* As it would be if an attempt that failed was the last.
RetriesIfConnected(hadError) == retry \/ (hadError /\ socket = "open")

\* A close without an error is taken for the end.
Retries(hadError) == retry \/ hadError

\* A connection, or an attempt, is closed: doOnTime.dispose() takes away what waits.
Closes(hadError) ==
  /\ socket # "closed" /\ happened.closes < MaxCloses
  /\ hadError \/ (MayEnd /\ socket = "open")
  /\ MayCut \/ queue = <<>>
  /\ socket' = "closed" /\ queue' = <<>>
  /\ statusCode' = IF hadError THEN "BAD" ELSE "UNKNOWN"
  /\ retry' = Retries(hadError)
  /\ Count("closes")
  /\ UNCHANGED <<wanted, handed, log, camera, initialized>>

\* The timer makes a new socket.
Reconnects ==
  /\ retry /\ retry' = FALSE
  /\ socket' = "connecting"
  /\ UNCHANGED <<wanted, handed, log, queue, camera, statusCode, initialized, happened>>

Next ==
  \/ \E t \in Timelines : Want(t)
  \/ HandleState \/ SendCommand
  \/ Connects \/ Reconnects
  \/ \E hadError \in BOOLEAN : Closes(hadError)

Connecting == Connects \/ Reconnects

----------------------------------------------------------------------------
\* When a state has one preset, the camera has it once everything is sent.
ShowsThePreset == handed /\ queue = <<>> /\ Len(wanted) = 1 => camera = wanted[1]

Online == socket = "open" /\ statusCode = "GOOD"
=============================================================================
