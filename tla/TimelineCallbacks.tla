-------------------------- MODULE TimelineCallbacks --------------------------
(***************************************************************************)
(* conductor.ts, the callbacks of the timeline to Core: the objects that   *)
(* play are compared with those that played before, the starts and stops   *)
(* found wait a little, in case they annihilate each other, and are sent.  *)
(*                                                                         *)
(* An object is known by its id (instanceId).  The rest of its callback id *)
(* (original start, names, data) is its `key': when that changes, the code *)
(* takes it for another object.  States are handled in the order of their  *)
(* times, once they have come, by an order of the conductor's DoOnTime.    *)
(***************************************************************************)
EXTENDS Integers

CONSTANTS
  Instances,           \* objects of the timeline
  HasStart, HasStop,   \* those with callBack, with callBackStopped
  Keys,
  CALLBACK_WAIT_TIME,
  LastTime,            \* bound: the time stops here
  LastState,           \* bound: no state is handled after this
  MaxDelay,            \* how late a state may be handled
  MaxLate,             \* how late the timer may be
  PastStarts,          \* an object may have begun before its first state
  SameTime             \* two states may be handled for the same time

CallbacksAssumption ==
  /\ HasStart \subseteq Instances /\ HasStop \subseteq Instances
  /\ CALLBACK_WAIT_TIME \in Nat \ {0}
  /\ LastTime \in Nat \ {0} /\ LastState \in 0 .. LastTime
  /\ MaxDelay \in Nat /\ MaxLate \in Nat
  /\ PastStarts \in BOOLEAN /\ SameTime \in BOOLEAN

VARIABLES
  clock,               \* getCurrentTime()
  handledAt,           \* time of the state handled last
  sentCallbacks,       \* _sentCallbacks: the objects of that state
  callbackInstances,   \* _callbackInstances
  known,               \* its keys, as pairs: the second was not inserted before the first
  timer,               \* expiry of the timeout of the next sending, or NoTimer
  told                 \* what Core was told of each object

callbacksVars == <<clock, handledAt, sentCallbacks, callbackInstances, known, timer, told>>

Moment == 1 .. LastTime
NoTimer == 0
Nothing == 0      \* no start, no stop is waiting
Callback == [key : Keys, time : Moment]
Active == UNION {[I -> Callback] : I \in SUBSET Instances}

\* `start' and `stop' are playTime and endTime while playChanged, endChanged.
CallbackInstance ==
  [playing : {"undefined", "playing", "stopped"},
   start : Moment \cup {Nothing}, stop : Moment \cup {Nothing}]
Fresh == [playing |-> "undefined", start |-> Nothing, stop |-> Nothing]

\* A Map keeps its keys in the order of their insertion.
Inserted(map) == {p[1] : p \in map}
Orders(S) ==
  {r \in SUBSET (S \X S) :
     \A i, j \in S : /\ <<i, j>> \in r \/ <<j, i>> \in r
                     /\ <<i, j>> \in r /\ <<j, i>> \in r => i = j
                     /\ \A k \in S : <<i, j>> \in r /\ <<j, k>> \in r => <<i, k>> \in r}
InsertedAfter(map, S, order) == map \cup (Inserted(map) \X S) \cup order

CallbacksTypeOK ==
  /\ clock \in Moment
  /\ handledAt \in Moment \cup {0}
  /\ sentCallbacks \in Active
  /\ callbackInstances \in [Instances -> CallbackInstance]
  /\ known \in Orders(Inserted(known)) /\ Inserted(known) \subseteq Instances
  /\ \A i \in Instances \ Inserted(known) : callbackInstances[i] = Fresh
  /\ timer \in 0 .. LastTime + CALLBACK_WAIT_TIME
  /\ told \in [Instances -> [last : {"nothing", "start", "stop"}, twice : BOOLEAN]]

CallbacksInit ==
  /\ clock = 1
  /\ handledAt = 0
  /\ sentCallbacks = <<>>
  /\ callbackInstances = [i \in Instances |-> Fresh]
  /\ known = {}
  /\ timer = NoTimer
  /\ told = [i \in Instances |-> [last |-> "nothing", twice |-> FALSE]]

----------------------------------------------------------------------------
Near(s, t) == s - t < CALLBACK_WAIT_TIME /\ t - s < CALLBACK_WAIT_TIME

\* _queueCallback(true, ...) and _queueCallback(false, ...) for the instance o.
Starts(o, t) ==
  IF o.playing = "playing" THEN o
  ELSE IF o.stop # Nothing /\ Near(t, o.stop)
       THEN [o EXCEPT !.playing = "playing", !.stop = Nothing]
       ELSE [o EXCEPT !.playing = "playing", !.start = t]

StopsAlways(o, t) ==
  IF o.playing = "stopped" THEN o ELSE [o EXCEPT !.playing = "stopped", !.stop = t]

Stops(o, t) ==
  IF o.playing = "stopped" THEN o
  ELSE IF o.start # Nothing /\ Near(t, o.start)
       THEN [o EXCEPT !.playing = "stopped", !.start = Nothing]
       ELSE [o EXCEPT !.playing = "stopped", !.stop = t]

TriggerAfter(t) == timer' = (IF timer = NoTimer THEN t ELSE timer) + CALLBACK_WAIT_TIME
TriggerLater(t) == timer' = IF timer = NoTimer THEN t + CALLBACK_WAIT_TIME ELSE timer

(* _diffStateForCallbacks, for the objects `active' of the state for t.    *)
Same(a, b, i) == i \in DOMAIN a /\ i \in DOMAIN b /\ a[i].key = b[i].key

_diffStateForCallbacks(active, t) ==
  LET sent == [i \in {j \in DOMAIN sentCallbacks : sentCallbacks[j].time < t} |->
                 sentCallbacks[i]]
      started == {i \in DOMAIN active \cap HasStart : ~Same(sent, active, i)}
      stopped == {i \in DOMAIN sent \cap HasStop : ~Same(sent, active, i)}
      firstIn == started \ Inserted(known)
      thenIn == (stopped \ started) \ Inserted(known)
      afterStarts(i) == IF i \in started
                        THEN Starts(callbackInstances[i], active[i].time)
                        ELSE callbackInstances[i]
  IN /\ callbackInstances' =
          [i \in Instances |-> IF i \in stopped THEN Stops(afterStarts(i), t)
                               ELSE afterStarts(i)]
     /\ \E first \in Orders(firstIn), second \in Orders(thenIn) :
          known' = InsertedAfter(InsertedAfter(known, firstIn, first), thenIn, second)
     /\ IF started \cup stopped = {} THEN UNCHANGED timer ELSE TriggerLater(clock)
     /\ sentCallbacks' = active

\* The timer goes first.
Overdue == timer # NoTimer /\ clock >= timer + MaxLate

(* The state of a time that has come is handled.  An object that goes on   *)
(* keeps its time; what is new in it starts with it, unless PastStarts.    *)
HandleState ==
  \E t \in Moment, active \in Active :
    /\ ~Overdue
    /\ t <= clock /\ clock - t <= MaxDelay /\ t <= LastState
    /\ t > handledAt \/ (SameTime /\ t = handledAt)
    /\ \A i \in DOMAIN active :
         /\ active[i].time <= t
         /\ ~PastStarts => active[i].time = IF Same(sentCallbacks, active, i)
                                            THEN sentCallbacks[i].time ELSE t
    /\ _diffStateForCallbacks(active, t)
    /\ handledAt' = t
    /\ UNCHANGED <<clock, told>>

\* What Core knows of an object after a callback.
Told(c, kind) == [last |-> kind, twice |-> c.twice \/ c.last = kind]

RipeAtOnce(t) == t # Nothing /\ t <= clock
Ripe(t) == t # Nothing /\ t < clock - CALLBACK_WAIT_TIME

NotRearmed(waiting) == NoTimer
Rearmed(waiting) == IF waiting = {} THEN NoTimer ELSE clock + CALLBACK_WAIT_TIME

(* The timeout of _sendStartStopCallbacks: stops go before starts.  An     *)
(* instance is forgotten unless it waits, or one inserted before it does.  *)
_sendStartStopCallbacks ==
  LET left(t) == IF Ripe(t) THEN Nothing ELSE t
      after == [i \in Instances |->
                  [callbackInstances[i] EXCEPT !.start = left(@), !.stop = left(@)]]
      waits(i) == after[i].start # Nothing \/ after[i].stop # Nothing
      forgotten == {i \in Inserted(known) :
                      \A j \in Inserted(known) : <<j, i>> \in known => ~waits(j)}
      stopTold(i) == IF Ripe(callbackInstances[i].stop) THEN Told(told[i], "stop") ELSE told[i]
  IN /\ timer # NoTimer /\ timer <= clock
     /\ told' = [i \in Instances |->
                   IF Ripe(callbackInstances[i].start)
                   THEN Told(stopTold(i), "start") ELSE stopTold(i)]
     /\ callbackInstances' = [i \in Instances |-> IF i \in forgotten THEN Fresh ELSE after[i]]
     /\ known' = {p \in known : p[1] \notin forgotten}
     /\ timer' = Rearmed({i \in Inserted(known) : waits(i)})
     /\ UNCHANGED <<clock, handledAt, sentCallbacks>>

TimePasses ==
  /\ clock < LastTime
  /\ ~Overdue
  /\ clock' = clock + 1
  /\ UNCHANGED <<handledAt, sentCallbacks, callbackInstances, known, timer, told>>

CallbacksNext == HandleState \/ _sendStartStopCallbacks \/ TimePasses

CallbacksSpec == CallbacksInit /\ [][CallbacksNext]_callbacksVars
\* The timer fires, and time passes.
CallbacksFairSpec ==
  CallbacksSpec /\ WF_callbacksVars(_sendStartStopCallbacks) /\ WF_callbacksVars(TimePasses)

----------------------------------------------------------------------------
Both == HasStart \cap HasStop
Agreed(i) == told[i].last = "start" <=> i \in DOMAIN sentCallbacks

(* Nothing is left to send of an object: then Core was last told what is   *)
(* the case, that it plays or that it does not.                            *)
CoreKnows ==
  \A i \in Both :
    callbackInstances[i].start = Nothing /\ callbackInstances[i].stop = Nothing => Agreed(i)

(* Starts and stops alternate: Core is told no start of what it was told   *)
(* to play, and no stop twice, whichever of them annihilated each other.   *)
Alternating == \A i \in Both : ~told[i].twice

(* What waits is looked at again within the wait: the timer is set, and no *)
(* later change of an object puts it off (_triggerSendStartStopCallbacks). *)
WaitingIsTimed ==
  /\ \A i \in Instances :
       callbackInstances[i].start # Nothing \/ callbackInstances[i].stop # Nothing
         => timer # NoTimer
  /\ timer <= clock + CALLBACK_WAIT_TIME

(* Core is told in the end: nothing waits for ever, also when the timer    *)
(* finds that it is too early and has to be set again.                     *)
Agreement == \A i \in Both : Agreed(i)
CoreIsTold == <>[]Agreement
=============================================================================
