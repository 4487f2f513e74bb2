----------------------------- MODULE SofieChef -----------------------------
(***************************************************************************)
(* integrations/sofieChef/index.ts: the pages in the windows of a Sofie    *)
(* Chef, which is external, the connection to it, and the list of its      *)
(* windows that is asked for when the connection was made again.           *)
(***************************************************************************)
EXTENDS Naturals, SequencesExt

CONSTANTS
  WindowOrder, Urls, Home, Nowhere,    \* Home: the page of a window when Chef has started
  MaxStates, MaxCloses, MaxFailures,   \* bounds: states, lost connections, attempts and lists that fail
  MayShow,                             \* Chef shows pages when it is first connected to
  MayRace                              \* commands between the answer of Chef and the use of it

VARIABLES
  wanted,      \* the state of the timeline
  handed,      \* it was handed over since it changed, and since the last resetResolver
  log,         \* the last state in the log of DeviceWithState
  queue,       \* commands that are due
  chef,        \* external: the pages in the windows
  ws,          \* _ws: "none", "connecting", "open"
  first,       \* the attempt is that of init()
  listing,     \* the request for the windows: "none", "asked", or the answer
  dead,        \* requests that nobody will answer, whose time is not yet over
  reconnect,   \* reconnectTimeout is armed
  happened
vars == <<wanted, handed, log, queue, chef, ws, first, listing, dead, reconnect, happened>>

Windows == Range(WindowOrder)
State == [Windows -> Urls \cup {Home, Nowhere}]
Empty == [w \in Windows |-> Nowhere]
Timelines == [Windows -> Urls \cup {Nowhere}]

SofieChefAssumption ==
  /\ Home \notin Urls /\ Nowhere \notin Urls \cup {Home}
  /\ {MaxStates, MaxCloses, MaxFailures} \subseteq Nat /\ {MayShow, MayRace} \subseteq BOOLEAN

TypeOK ==
  /\ {wanted, log, chef} \subseteq State /\ handed \in BOOLEAN
  /\ queue \in Seq([window : Windows, url : Urls \cup {Nowhere}])
  /\ ws \in {"none", "connecting", "open"} /\ {first, reconnect} \subseteq BOOLEAN
  /\ listing.is \in {"none", "asked", "answered"} /\ listing.windows \in State /\ dead \in Nat

Count(what) == happened' = [happened EXCEPT ![what] = @ + 1]
Listing(is) == [is |-> is, windows |-> Empty]

Init ==
  /\ wanted = Empty /\ handed = FALSE /\ log = Empty /\ queue = <<>>
  /\ chef \in IF MayShow THEN Timelines ELSE {Empty}
  /\ ws = "connecting" /\ first = TRUE /\ listing = Listing("none") /\ dead = 0 /\ reconnect = FALSE
  /\ happened = [states |-> 0, closes |-> 0, failures |-> 0]

----------------------------------------------------------------------------
\* The last layer of a window counts; here each window has one.
convertStateToSofieChef(timeline) == timeline

\* Added and changed windows, and then the removed ones.
diffStates(old, new) ==
  LET Changed(w) == new[w] \notin {Nowhere, old[w]}
      Removed(w) == new[w] = Nowhere /\ old[w] # Nowhere
      windows == SelectSeq(WindowOrder, Changed) \o SelectSeq(WindowOrder, Removed)
  IN [n \in DOMAIN windows |-> [window |-> windows[n], url |-> new[windows[n]]]]

Want(timeline) ==
  /\ happened.states < MaxStates
  /\ timeline # wanted /\ wanted' = timeline /\ handed' = FALSE
  /\ Count("states")
  /\ UNCHANGED <<log, queue, chef, ws, first, listing, dead, reconnect>>

\* The conductor hands states over when init() has come to its end.
HandleState ==
  /\ ~first /\ ~handed /\ handed' = TRUE
  /\ MayRace \/ listing.is = "none"
  /\ LET new == convertStateToSofieChef(wanted) IN
     queue' = queue \o diffStates(log, new) /\ log' = new
  /\ UNCHANGED <<wanted, chef, ws, first, listing, dead, reconnect, happened>>

\* A message without an open connection comes to nothing, and is reported as an error at most.
SendCommand ==
  /\ queue # <<>>
  /\ chef' = IF ws = "open" THEN [chef EXCEPT ![Head(queue).window] = Head(queue).url] ELSE chef
  /\ queue' = Tail(queue)
  /\ UNCHANGED <<wanted, handed, log, ws, first, listing, dead, reconnect, happened>>

----------------------------------------------------------------------------
(* The connection.                                                         *)

\* `open': after init() that is all; else the windows are asked for.
Opens ==
  /\ ws = "connecting" /\ ws' = "open" /\ first' = FALSE
  /\ listing' = IF first THEN listing ELSE Listing("asked")
  /\ UNCHANGED <<wanted, handed, log, queue, chef, dead, reconnect, happened>>

\* An attempt is refused, or its time is over: another one follows.
ConnectFails ==
  /\ ws = "connecting" /\ happened.failures < MaxFailures
  /\ ws' = "none" /\ first' = FALSE /\ reconnect' = TRUE
  /\ Count("failures")
  /\ UNCHANGED <<wanted, handed, log, queue, chef, listing, dead>>

\* Who asks for the windows over a connection that is no more waits until the time is over.
Forsaken == dead' = IF listing.is = "none" THEN dead ELSE dead + 1

\* `close'; Chef may have been restarted.
Closes(restarted) ==
  /\ ws = "open" /\ happened.closes < MaxCloses
  /\ ws' = "none" /\ reconnect' = TRUE
  /\ Forsaken /\ listing' = Listing("none")
  /\ chef' = IF restarted THEN [w \in Windows |-> Home] ELSE chef
  /\ Count("closes")
  /\ UNCHANGED <<wanted, handed, log, queue, first>>

\* tryReconnect: the timer drops the connection that there is, if any.  Chef, when it answers at
\* all, has done so within RECONNECT_WAIT_TIME.
Reconnects ==
  /\ reconnect /\ reconnect' = FALSE
  /\ listing.is = "none"
  /\ ws' = "connecting" /\ first' = FALSE
  /\ UNCHANGED <<wanted, handed, log, queue, chef, listing, dead, happened>>

\* External: Chef lists its windows.
Answers ==
  /\ listing.is = "asked"
  /\ MayRace \/ queue = <<>>
  /\ listing' = [is |-> "answered", windows |-> chef]
  /\ UNCHANGED <<wanted, handed, log, queue, chef, ws, first, dead, reconnect, happened>>

\* As it would be if the resolver was not reset.
ResyncsQuietly ==
  /\ listing.is = "answered" /\ listing' = Listing("none")
  /\ log' = listing.windows
  /\ UNCHANGED <<wanted, handed, queue, chef, ws, first, dead, reconnect, happened>>

\* resyncState.
Resyncs ==
  /\ listing.is = "answered" /\ listing' = Listing("none")
  /\ log' = listing.windows /\ handed' = FALSE
  /\ UNCHANGED <<wanted, queue, chef, ws, first, dead, reconnect, happened>>

\* A list that takes too long is an error, like a dead one.
ListFails ==
  /\ \/ dead > 0 /\ dead' = dead - 1 /\ UNCHANGED <<listing, happened>>
     \/ /\ listing.is = "asked" /\ happened.failures < MaxFailures
        /\ listing' = Listing("none") /\ Count("failures") /\ UNCHANGED dead
  /\ reconnect' = TRUE
  /\ UNCHANGED <<wanted, handed, log, queue, chef, ws, first>>

Next ==
  \/ \E t \in Timelines : Want(t)
  \/ HandleState \/ SendCommand
  \/ Opens \/ ConnectFails \/ Reconnects
  \/ \E restarted \in BOOLEAN : Closes(restarted)
  \/ Answers \/ Resyncs \/ ListFails

\* Commands that are due are sent, attempts and requests are answered, timers fire.
Continues == HandleState \/ SendCommand
Lists == Answers \/ Resyncs
DeadLists == dead > 0 /\ ListFails
Fairness == WF_vars(Continues) /\ SF_vars(Opens) /\ SF_vars(Lists) /\ SF_vars(Reconnects) /\ WF_vars(DeadLists)

----------------------------------------------------------------------------
\* The windows show the pages that the timeline wants, and the others none.
ShowsThePages == chef = wanted
=============================================================================
