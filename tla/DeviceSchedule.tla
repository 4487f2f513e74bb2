--------------------------- MODULE DeviceSchedule ---------------------------
(***************************************************************************)
(* What a device with a state handler promises to the conductor, which     *)
(* hands states over to it: each is shown once, the earliest first and     *)
(* none before its time, unless a later call replaces or withdraws it.     *)
(* StateHandler shows how that is done.                                    *)
(***************************************************************************)
EXTENDS Naturals

CONSTANTS
  Times,
  Unknown,     \* nothing is known of the device
  Blank,       \* the state that it is taken to be in then
  Punctual     \* nothing is shown before its time

VARIABLES
  now,
  schedule,    \* the states to come: [id, time]
  next,        \* the number of the next state
  shown,       \* the state the device was last commanded to
  running
vars == <<now, schedule, next, shown, running>>

Init == now = 0 /\ schedule = {} /\ next = 1 /\ shown = Unknown /\ running = TRUE

\* handleState: what was planned for this time or a later one is replaced.
HandOver(t) ==
  /\ schedule' = {e \in schedule : e.time < t} \cup {[id |-> next, time |-> t]}
  /\ next' = next + 1
  /\ UNCHANGED <<now, shown, running>>

\* clearFutureAfterTimestamp
Withdraw(t) ==
  /\ schedule' = {e \in schedule : e.time <= t}
  /\ UNCHANGED <<now, next, shown, running>>

\* clearFutureStates
WithdrawAll ==
  /\ schedule' = {}
  /\ UNCHANGED <<now, next, shown, running>>

\* terminate
Stop ==
  /\ running /\ running' = FALSE
  /\ schedule' = {}
  /\ UNCHANGED <<now, next, shown>>

\* The device is there.
Start ==
  /\ shown = Unknown /\ shown' = Blank
  /\ UNCHANGED <<now, schedule, next, running>>

Earliest(e) == \A f \in schedule : e.time <= f.time

\* The difference to the next state is sent.
Show(e) ==
  /\ e \in schedule /\ Earliest(e) /\ shown # Unknown
  /\ Punctual => e.time <= now
  /\ shown' = e.id /\ schedule' = schedule \ {e}
  /\ UNCHANGED <<now, next, running>>

TimePasses ==
  /\ now' = now + 1
  /\ UNCHANGED <<schedule, next, shown, running>>

Next ==
  \/ \E t \in Times : HandOver(t) \/ Withdraw(t)
  \/ WithdrawAll \/ Stop \/ Start \/ TimePasses
  \/ \E e \in schedule : Show(e)

Spec == Init /\ [][Next]_vars
=============================================================================
