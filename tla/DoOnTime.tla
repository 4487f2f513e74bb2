------------------------------ MODULE DoOnTime ------------------------------
(***************************************************************************)
(* devices/doOnTime.ts: orders queued for a point in time, the timer that  *)
(* looks for due ones, and the two ways of sending them: all at once       *)
(* (BURST), or one after the other per queue (IN_ORDER).                   *)
(*                                                                         *)
(* An order is known by the number queue() gave it.  An order that was due *)
(* when _checkQueue ran sits in _commandsToSendNow; that array is appended *)
(* to by every check, in the order of the numbers, so its order is the one *)
(* of (prepareTime, number) and a set of orders tells it (Next below).     *)
(*                                                                         *)
(* _checkQueueTimeout holds the last timeout that was set.  queue() sets a *)
(* new one without clearing it, so older ones can still be pending:        *)
(* `overwritten' are their times.  Two of them that expire together count  *)
(* as one.                                                                 *)
(***************************************************************************)
EXTENDS Integers, FiniteSets

CONSTANTS
  Queues,     \* the queueIds in use
  InOrder,    \* _sendMode = SendMode.IN_ORDER, else SendMode.BURST
  MaxWait,    \* a check is at most this far ahead (1000 ms in the code)
  MaxTime,    \* bound: the time stops here
  MaxOrders   \* bound: calls of queue

ASSUME DoOnTimeAssumption ==
  /\ InOrder \in BOOLEAN
  /\ MaxWait \in Nat \ {0} /\ MaxTime \in Nat \ {0} /\ MaxOrders \in Nat

VARIABLES
  now,            \* getCurrentTime()
  queued,         \* _queues: orders not yet due
  ready,          \* _commandsToSendNow
  sending,        \* _sendingCommands: the queues with a command under way
  inFlight,       \* orders sent and not yet fulfilled
  timeout,        \* expiry of _checkQueueTimeout, or NoTimeout
  overwritten,    \* expiries of the older timeouts still pending
  nextId,         \* _i
  disposed        \* dispose() was called

vars == <<now, queued, ready, sending, inFlight, timeout, overwritten, nextId, disposed>>

Time == 0 .. MaxTime
Ids == 1 .. MaxOrders
Order == [id : Ids, queue : Queues, time : Time]
ReadyOrder == [id : Ids, queue : Queues, time : Time, prepared : Time]
NoTimeout == -1

TypeOK ==
  /\ now \in Time
  /\ queued \in SUBSET Order
  /\ ready \in SUBSET ReadyOrder
  /\ sending \in SUBSET Queues
  /\ inFlight \in SUBSET ReadyOrder
  /\ timeout \in Nat \cup {NoTimeout}
  /\ overwritten \in SUBSET Nat
  /\ nextId \in 1 .. MaxOrders + 1
  /\ disposed \in BOOLEAN

Pending == overwritten \cup ({timeout} \ {NoTimeout})
Earliest(S) == CHOOSE n \in S : \A m \in S : n <= m
AtMost(a, b) == IF a <= b THEN a ELSE b

----------------------------------------------------------------------------
Init ==
  /\ now = 1
  /\ queued = {} /\ ready = {} /\ sending = {} /\ inFlight = {}
  /\ timeout = NoTimeout /\ overwritten = {}
  /\ nextId = 1
  /\ disposed = FALSE

\* The orders `new' join those of `kept', each with a check as soon as possible.
Enqueue(kept, new) ==
  /\ queued' = kept \cup new
  /\ nextId' = nextId + Cardinality(new)
  /\ IF new = {}
     THEN UNCHANGED <<timeout, overwritten>>
     ELSE /\ timeout' = now
          /\ overwritten' = Pending \cup (IF Cardinality(new) > 1 THEN {now} ELSE {})

queue(t, q) ==
  /\ ~disposed
  /\ nextId <= MaxOrders
  /\ Enqueue(queued, {[id |-> nextId, queue |-> q, time |-> t]})
  /\ UNCHANGED <<now, ready, sending, inFlight, disposed>>

clearQueueAfter(t) ==
  /\ queued' = {o \in queued : o.time <= t}
  /\ UNCHANGED <<now, ready, sending, inFlight, timeout, overwritten, nextId, disposed>>

clearQueueNowAndAfter(t) ==
  /\ queued' = {o \in queued : o.time < t}
  /\ UNCHANGED <<now, ready, sending, inFlight, timeout, overwritten, nextId, disposed>>

\* clearQueueAfter(0), and the last timeout is cleared: the only one known.
dispose ==
  /\ ~disposed
  /\ disposed' = TRUE
  /\ queued' = {o \in queued : o.time <= 0}
  /\ timeout' = NoTimeout
  /\ UNCHANGED <<now, ready, sending, inFlight, overwritten, nextId>>

----------------------------------------------------------------------------
(* _sendNextCommand, for every queue of qs, finding `waiting' in           *)
(* _commandsToSendNow, `busy' in _sendingCommands, `out' in flight.        *)
LastQueued(S) ==
  CHOOSE o \in S : \A p \in S :
    o.prepared > p.prepared \/ (o.prepared = p.prepared /\ o.id >= p.id)

First(S) ==
  CHOOSE o \in S : \A p \in S :
    o.prepared < p.prepared \/ (o.prepared = p.prepared /\ o.id <= p.id)

OfQueue(S, q) == {o \in S : o.queue = q}

\* The queues that may send.
FreeAlways(qs, waiting, busy) == {q \in qs : OfQueue(waiting, q) # {}}
FreeIfSeveral(qs, waiting, busy) ==
  {q \in qs \ busy : Cardinality(OfQueue(waiting, q)) > 1}
Free(qs, waiting, busy) == {q \in qs \ busy : OfQueue(waiting, q) # {}}

SendNext(qs, waiting, busy, out) ==
  LET free == Free(qs, waiting, busy)
      sent == IF InOrder
              THEN {First(OfQueue(waiting, q)) : q \in free}
              ELSE {o \in waiting : o.queue \in free}
  IN /\ ready' = waiting \ sent
     /\ inFlight' = out \cup sent
     /\ sending' = busy \cup (IF InOrder THEN free ELSE {})

(* _checkQueue: due orders move to _commandsToSendNow, every queue sends,  *)
(* and the timeout is set for the next order.                              *)
Due == {o \in queued : o.time <= now}
PrepareLate(o) == [id |-> o.id, queue |-> o.queue, time |-> o.time, prepared |-> now + 1]
Prepare(o) == [id |-> o.id, queue |-> o.queue, time |-> o.time, prepared |-> now]
WaitFull(later) == MaxWait
Wait(later) ==
  IF later = {} THEN MaxWait
  ELSE AtMost(MaxWait, Earliest({o.time : o \in later}) - now)

checkQueue ==
  /\ queued' = queued \ Due
  /\ SendNext(Queues, ready \cup {Prepare(o) : o \in Due}, sending, inFlight)
  /\ timeout' = now + Wait(queued \ Due)
  /\ UNCHANGED <<now, nextId, disposed>>

\* The timeout of _checkQueueTimeout expires.
CheckLast ==
  /\ timeout # NoTimeout /\ timeout <= now
  /\ checkQueue
  /\ UNCHANGED overwritten

\* An overwritten one expires: its check clears and replaces the last one.
CheckOverwritten ==
  \E x \in overwritten :
    /\ x <= now
    /\ checkQueue
    /\ overwritten' = overwritten \ {x}

(* The promise of a command settles, with a result or an error (which is   *)
(* emitted): IN_ORDER then sends the next one of its queue.                *)
Settle(o) ==
  /\ IF InOrder
     THEN SendNext({o.queue}, ready, sending \ {o.queue}, inFlight \ {o})
     ELSE inFlight' = inFlight \ {o} /\ UNCHANGED <<ready, sending>>
  /\ UNCHANGED <<now, queued, timeout, overwritten, nextId, disposed>>

Tick ==
  /\ now < MaxTime
  /\ now' = now + 1
  /\ UNCHANGED <<queued, ready, sending, inFlight, timeout, overwritten, nextId, disposed>>

Next ==
  \/ \E t \in Time, q \in Queues : queue(t, q)
  \/ \E t \in Time : clearQueueAfter(t)
  \/ \E t \in Time : clearQueueNowAndAfter(t)
  \/ dispose
  \/ CheckLast
  \/ CheckOverwritten
  \/ \E o \in inFlight : Settle(o)
  \/ Tick

Spec == Init /\ [][Next]_vars

(* Expired timeouts run.  The time passes.  For the last property only:    *)
(* every command settles, as those of the integrations do by a timeout of  *)
(* their own.                                                              *)
TimersRun == WF_vars(CheckLast) /\ WF_vars(CheckOverwritten) /\ WF_vars(Tick)
CommandsSettle == \A i \in Ids : WF_vars(\E o \in inFlight : o.id = i /\ Settle(o))
FairSpec == Spec /\ TimersRun /\ CommandsSettle

----------------------------------------------------------------------------
(* SendMode.IN_ORDER waits for a command before it sends the next one of   *)
(* the same queue, whatever checks and completions come in between; the    *)
(* flag _sendingCommands tells exactly whether one is under way.           *)
OneAtATime ==
  InOrder =>
    /\ \A o, p \in inFlight : o.queue = p.queue => o = p
    /\ sending = {o.queue : o \in inFlight}

(* No wake-up is lost: an order in _commandsToSendNow is waiting for a     *)
(* command of its own queue, never for the next timeout.                   *)
NoLostWakeup == \A o \in ready : InOrder /\ o.queue \in sending

(* As long as the object is in use, every queued order is covered by a     *)
(* pending timeout that expires no later than the order is due: queue()    *)
(* overwriting _checkQueueTimeout and _checkQueue clearing it never lose   *)
(* the check an order depends on.                                          *)
Covered ==
  ~disposed =>
    \A o \in queued : \E x \in Pending : x <= (IF o.time > now THEN o.time ELSE now)

(* No overtaking: of two orders of a queue, one queued earlier for a time  *)
(* not later than the other's is not left behind when the other is sent,   *)
(* however late the checks come and whatever was cleared between them.     *)
NoOvertaking ==
  [][\A p \in inFlight' \ inFlight, o \in queued' \cup ready' :
        ~(o.queue = p.queue /\ o.id < p.id /\ o.time <= p.time)]_vars

(* Every order whose time has come is sent or withdrawn.                   *)
DueIsSent ==
  \A i \in Ids :
    (~disposed /\ \E o \in queued : o.id = i /\ o.time <= now)
      ~> (disposed \/ \A o \in queued \cup ready : o.id # i)
=============================================================================
