--------------------------- MODULE AbstractDevice ---------------------------
(***************************************************************************)
(* integrations/abstract/index.ts on top of DeviceWithState                *)
(* (devices/device.ts) and DoOnTime: the life of a device that keeps a log *)
(* of the states it was given, queues the difference between neighbours    *)
(* for the time of the later one, and rewrites both when a new state       *)
(* replaces the future.  Every integration that extends DeviceWithState    *)
(* has this handleState, prepareForHandleState, clearFuture and terminate. *)
(*                                                                         *)
(* The commands of one diff have one time and are queued together; one     *)
(* order stands for them, and `payload' tells what it changes.             *)
(***************************************************************************)
EXTENDS DoOnTime

CONSTANTS
  Layers, Objects,
  NoObject,     \* nothing on a layer
  CleanEvery,   \* setState cleans old states up every so many calls (11)
  SameInstant   \* the conductor may rewrite the millisecond just checked

DeviceAssumption ==
  /\ NoObject \notin Objects
  /\ CleanEvery \in Nat \ {0}
  /\ SameInstant \in BOOLEAN
  /\ ~InOrder

VARIABLES
  states,         \* _states: the log, by time
  setStateCount,  \* _setStateCount
  payload,        \* what each order changes
  expected,       \* times the conductor is about to hand a state over for
  checkedAt,      \* time of the last _checkQueue
  device          \* what the commands sent so far have made of the device

logVars == <<states, setStateCount, payload>>
deviceVars == <<logVars, expected, checkedAt, device>>
allVars == <<vars, deviceVars>>

DeviceState == [Layers -> Objects \cup {NoObject}]
Empty == [l \in Layers |-> NoObject]
Instants == 1 .. MaxTime

DeviceTypeOK ==
  /\ TypeOK
  /\ DOMAIN states \subseteq Instants
  /\ \A t \in DOMAIN states : states[t] \in DeviceState
  /\ setStateCount \in 0 .. CleanEvery - 1
  /\ DOMAIN payload = 1 .. nextId - 1
  /\ \A i \in DOMAIN payload :
       /\ DOMAIN payload[i] \subseteq Layers
       /\ \A l \in DOMAIN payload[i] : payload[i][l] \in Objects \cup {NoObject}
  /\ expected \subseteq Instants
  /\ checkedAt \in Time
  /\ device \in DeviceState

Latest(S) == CHOOSE n \in S : \A m \in S : m <= n
Second(a, b) == b
Later(a, b) == IF a >= b THEN a ELSE b
Restricted(f, S) == [x \in S |-> f[x]]

----------------------------------------------------------------------------
\* The log.  0 stands for no state found.
getStateBefore(log, t) ==
  LET before == {u \in DOMAIN log : u < t}
  IN IF before = {} THEN 0 ELSE Latest(before)

getState(log, t) == getStateBefore(log, t + 1)

StateAt(log, t) == IF t = 0 THEN Empty ELSE log[t]

cleanUpStates(log, removeBefore, removeAfter) ==
  Restricted(log, {u \in DOMAIN log :
    /\ removeBefore # 0 => u > removeBefore
    /\ removeAfter # 0 => u < removeAfter})

setState(s, t) ==
  LET kept == cleanUpStates(states, 0, t)
      log == [u \in DOMAIN kept \cup {t} |-> IF u = t THEN s ELSE kept[u]]
      last == getStateBefore(log, now)
  IN IF setStateCount + 1 < CleanEvery
     THEN states' = log /\ setStateCount' = setStateCount + 1
     ELSE /\ setStateCount' = 0
          /\ states' = IF last # 0 THEN cleanUpStates(log, last - 1, 0) ELSE log

diffWithoutRemoved(old, new) ==
  Restricted(new, {l \in Layers : old[l] # new[l] /\ new[l] # NoObject})
diffStates(old, new) == Restricted(new, {l \in Layers : old[l] # new[l]})

----------------------------------------------------------------------------
DeviceInit ==
  /\ Init
  /\ states = <<>>
  /\ setStateCount = 0
  /\ payload = <<>>
  /\ expected = {}
  /\ checkedAt = 0
  /\ device = Empty

(* handleState: the difference to the state before `previous' is queued    *)
(* for t, and the state is logged.                                         *)
Handle(s, t) ==
  LET previous == Later(now, t)
      changes == diffStates(StateAt(states, getStateBefore(states, previous)), s)
      kept == {o \in queued : o.time < previous}
  IN /\ ~disposed
     /\ nextId <= MaxOrders
     /\ IF DOMAIN changes = {}
        THEN Enqueue(kept, {}) /\ UNCHANGED payload
        ELSE /\ \E q \in Queues :
                  Enqueue(kept, {[id |-> nextId, queue |-> q, time |-> t]})
             /\ payload' = [i \in 1 .. nextId |->
                              IF i = nextId THEN changes ELSE payload[i]]
     /\ setState(s, t)
     /\ UNCHANGED <<now, ready, sending, inFlight, disposed, checkedAt, device>>

(* The conductor announces the time it is about to resolve, never one that *)
(* has passed, hands the state over when it is resolved, early or late,    *)
(* and, when nothing follows it, clears the future.  Unless SameInstant,   *)
(* the announcement is for a time that no check has reached.               *)
prepareForHandleState(t) ==
  /\ ~disposed
  /\ expected = {}
  /\ t >= now /\ (~SameInstant => t > checkedAt)
  /\ clearQueueNowAndAfter(t)
  /\ states' = cleanUpStates(states, 0, t)
  /\ expected' = {t}
  /\ UNCHANGED <<setStateCount, payload, checkedAt, device>>

handleState(s) ==
  /\ expected # {}
  /\ Handle(s, Earliest(expected))
  /\ expected' = expected \ {Earliest(expected)}

clearFuture ==
  /\ ~disposed
  /\ expected = {} /\ DOMAIN states # {}
  /\ clearQueueAfter(Latest(DOMAIN states))
  /\ UNCHANGED deviceVars

(* A changed datastore: the current state is handed over again, its objects *)
(* with other values, and then those that were planned after it.           *)
handedAgain(s) ==
  LET current == getState(states, now)
  IN /\ expected = {}
     /\ current # 0
     /\ \A l \in Layers : s[l] = NoObject <=> states[current][l] = NoObject
     /\ ~SameInstant => now > checkedAt
     /\ Handle(s, current)
     /\ expected' = {t \in DOMAIN states : t > now}

terminate ==
  /\ dispose
  /\ UNCHANGED deviceVars

\* The commands that a check sends reach the device in the order they are sent.
Received ==
  LET sent == inFlight' \ inFlight
      touching(l) == {o \in sent : l \in DOMAIN payload[o.id]}
  IN device' = [l \in Layers |->
                  IF touching(l) = {} THEN device[l]
                  ELSE payload[Latest({o.id : o \in touching(l)})][l]]

DeviceCheck ==
  /\ CheckLast \/ CheckOverwritten
  /\ Received
  /\ checkedAt' = now
  /\ UNCHANGED <<logVars, expected>>

DeviceTick == Tick /\ UNCHANGED deviceVars

DeviceNext ==
  \/ \E t \in Instants : prepareForHandleState(t)
  \/ \E s \in DeviceState : handleState(s)
  \/ \E s \in DeviceState : handedAgain(s)
  \/ clearFuture
  \/ terminate
  \/ DeviceCheck
  \/ (\E o \in inFlight : Settle(o)) /\ UNCHANGED deviceVars
  \/ DeviceTick

DeviceSpec == DeviceInit /\ [][DeviceNext]_allVars


----------------------------------------------------------------------------
(* What the log says the device shows now. *)
Logged == StateAt(states, getState(states, now))

(* Once the orders that are due are sent, the device shows the state the   *)
(* log has for this moment, however states, preparations and checks were   *)
(* interleaved and whatever the log has forgotten: each diff started from  *)
(* the state the device will be in when it is sent.                        *)
ShowsTheLog == ~disposed /\ Due = {} => device = Logged

(* The device changes only to the state the log has for the moment, never  *)
(* through another one, and never because of a call: only a check moves it.*)
MovesWithTheLog == device' # device => device' = Logged /\ UNCHANGED states
FollowsTheLog == [][MovesWithTheLog]_allVars

(* In step with its log, or terminated.                                    *)
InStep == disposed \/ device = Logged

(* An abandoned or a cleaned up log never costs the device its state: what *)
(* it was last given for a time that has come is shown in the end.         *)
ReachesTheLog == []<>InStep
=============================================================================
