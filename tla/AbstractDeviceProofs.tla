------------------------ MODULE AbstractDeviceProofs ------------------------
(***************************************************************************)
(* What devices/doOnTime.ts guarantees for every set of queues, every send *)
(* mode and every bound; and, from there on, what a device that keeps a    *)
(* log of its states on such a queue guarantees, however far ahead states  *)
(* are planned, how often they are replaced, how late the checks come and  *)
(* whatever the log has forgotten.                                         *)
(***************************************************************************)
EXTENDS AbstractDevice, FiniteSetTheorems, WellFoundedInduction, TLAPS

----------------------------------------------------------------------------
(* The order queue.                                                        *)

(* Every nonempty set of natural numbers has a least element. *)
LEMMA LeastNatural ==
  ASSUME NEW T \in SUBSET Nat, T # {}
  PROVE  Earliest(T) \in T /\ \A y \in T : Earliest(T) <= y
<1>1. PICK x \in T : \A y \in T : ~ (<<y, x>> \in OpToRel(<, Nat))
  BY NatLessThanWellFounded, WFMin
<1>2. ASSUME NEW y \in T PROVE x <= y
  <2>1. ~ (y < x)
    BY <1>1, <1>2 DEF OpToRel
  <2> QED BY <2>1
<1> QED BY <1>1, <1>2 DEF Earliest

(* Of several orders waiting to be sent one is the first, ahead of all others. *)
LEMMA FirstWaits ==
  ASSUME NEW S \in SUBSET ReadyOrder, S # {}
  PROVE  /\ First(S) \in S
         /\ \A p \in S : \/ First(S).prepared < p.prepared
                         \/ First(S).prepared = p.prepared /\ First(S).id <= p.id
<1> DEFINE T == {o.prepared : o \in S}
           t == Earliest(T)
           U == {o \in S : o.prepared = t}
           V == {o.id : o \in U}
           i == Earliest(V)
<1>1. T \in SUBSET Nat /\ T # {}
  BY DoOnTimeAssumption DEF ReadyOrder, Time
<1>2. t \in T /\ \A y \in T : t <= y
  BY <1>1, LeastNatural
<1> HIDE DEF t
<1>3. V \in SUBSET Nat /\ V # {}
  BY <1>2, DoOnTimeAssumption DEF ReadyOrder, Ids
<1>4. i \in V /\ \A y \in V : i <= y
  BY <1>3, LeastNatural
<1> HIDE DEF i
<1>5. PICK o \in U : o.id = i
  BY <1>4
<1>6. \A p \in S : o.prepared < p.prepared \/ (o.prepared = p.prepared /\ o.id <= p.id)
  <2>1. SUFFICES ASSUME NEW p \in S
                 PROVE  o.prepared < p.prepared \/ (o.prepared = p.prepared /\ o.id <= p.id)
    OBVIOUS
  <2>2. o.prepared <= p.prepared /\ o.prepared \in Int /\ p.prepared \in Int
    BY <1>1, <1>2
  <2>3. o.prepared = p.prepared => o.id <= p.id
    BY <1>4, <1>5
  <2> QED BY <2>2, <2>3
<1> QED BY <1>5, <1>6 DEF First

----------------------------------------------------------------------------
(* The invariant: the three properties, and the flag of BURST never up.    *)
BurstNeverBusy == ~InOrder => sending = {}
IInv == TypeOK /\ OneAtATime /\ BurstNeverBusy /\ NoLostWakeup /\ Covered

LEMMA InitIInv == Init => IInv
<1> SUFFICES ASSUME Init PROVE IInv
  OBVIOUS
<1>1. now \in Time /\ nextId \in 1 .. MaxOrders + 1
  BY DoOnTimeAssumption DEF Init, Time
<1> QED BY <1>1 DEF Init, IInv, TypeOK, OneAtATime, BurstNeverBusy, NoLostWakeup, Covered

(* Sending keeps at most one command of a queue under way, and leaves an   *)
(* order waiting only behind a command of its queue.                       *)
LEMMA SendNextKeeps ==
  ASSUME NEW qs \in SUBSET Queues, NEW waiting \in SUBSET ReadyOrder,
         NEW busy \in SUBSET Queues, NEW out \in SUBSET ReadyOrder,
         SendNext(qs, waiting, busy, out),
         InOrder => /\ \A o, p \in out : o.queue = p.queue => o = p
                    /\ busy = {o.queue : o \in out}
                    /\ \A o \in waiting : o.queue \in busy \cup qs,
         ~InOrder => busy = {} /\ qs = Queues
  PROVE  /\ ready' \in SUBSET ReadyOrder
         /\ inFlight' \in SUBSET ReadyOrder
         /\ sending' \in SUBSET Queues
         /\ OneAtATime' /\ BurstNeverBusy' /\ NoLostWakeup'
<1> DEFINE free == {q \in qs \ busy : OfQueue(waiting, q) # {}}
           first(q) == First(OfQueue(waiting, q))
           next == {first(q) : q \in free}
<1>1. CASE InOrder
  <2>1. /\ ready' = waiting \ next
        /\ inFlight' = out \cup next
        /\ sending' = busy \cup free
    BY <1>1 DEF SendNext, Free
  <2>2. \A q \in free : first(q) \in waiting /\ first(q).queue = q
    <3>1. ASSUME NEW q \in free PROVE first(q) \in waiting /\ first(q).queue = q
      <4>1. OfQueue(waiting, q) \in SUBSET ReadyOrder /\ OfQueue(waiting, q) # {}
        BY DEF OfQueue
      <4>2. first(q) \in OfQueue(waiting, q)
        BY <4>1, FirstWaits
      <4> QED BY <4>2 DEF OfQueue
    <3> QED BY <3>1
  <2>3. \A o \in waiting : o.queue \in busy \cup free
    BY <1>1 DEF OfQueue
  <2> HIDE DEF first
  <2>4. \A o, p \in inFlight' : o.queue = p.queue => o = p
    BY <1>1, <2>1, <2>2
  <2>5. sending' = {o.queue : o \in inFlight'}
    BY <1>1, <2>1, <2>2
  <2> QED BY <1>1, <2>1, <2>2, <2>3, <2>4, <2>5 DEF OneAtATime, BurstNeverBusy, NoLostWakeup
<1>2. CASE ~InOrder
  <2>1. \A o \in waiting : o.queue \in free
    BY <1>2 DEF OfQueue, ReadyOrder
  <2>2. ready' = {} /\ inFlight' = out \cup waiting /\ sending' = {}
    BY <1>2, <2>1 DEF SendNext, Free
  <2> QED BY <1>2, <2>2 DEF OneAtATime, BurstNeverBusy, NoLostWakeup
<1> QED BY <1>1, <1>2

(* An order is queued, perhaps after some were cleared. *)
LEMMA EnqueueKeeps ==
  ASSUME IInv, NEW t \in Time, NEW q \in Queues, NEW kept \in SUBSET queued,
         nextId <= MaxOrders,
         Enqueue(kept, {[id |-> nextId, queue |-> q, time |-> t]}),
         UNCHANGED <<now, ready, sending, inFlight, disposed>>
  PROVE  /\ IInv'
         /\ queued' = kept \cup {[id |-> nextId, queue |-> q, time |-> t]}
         /\ nextId' = nextId + 1
<1> DEFINE new == [id |-> nextId, queue |-> q, time |-> t]
<1>1. Cardinality({new}) = 1 /\ {new} # {}
  BY FS_Singleton
<1>2. nextId \in Ids /\ new \in Order
  BY DoOnTimeAssumption DEF IInv, TypeOK, Ids, Order
<1>3. /\ queued' = kept \cup {new}
      /\ nextId' = nextId + 1
      /\ timeout' = now
      /\ overwritten' = Pending
      /\ UNCHANGED <<now, ready, sending, inFlight, disposed>>
  <2>1. Enqueue(kept, {new})
    OBVIOUS
  <2> HIDE DEF new
  <2>2. ~(Cardinality({new}) > 1)
    BY <1>1
  <2>3. queued' = kept \cup {new} /\ nextId' = nextId + 1 /\ timeout' = now
    BY <1>1, <2>1 DEF Enqueue
  <2>4. overwritten' = Pending
    BY <1>1, <2>1, <2>2 DEF Enqueue
  <2> QED BY <2>3, <2>4
<1> HIDE DEF new
<1>4. Pending \in SUBSET Nat /\ now \in Nat /\ now # NoTimeout
  BY DoOnTimeAssumption DEF IInv, TypeOK, Pending, Time, NoTimeout
<1>5. Pending' = Pending \cup {now}
  BY <1>3, <1>4 DEF Pending
<1>6. TypeOK'
  BY <1>2, <1>3, <1>4, DoOnTimeAssumption DEF IInv, TypeOK, Ids
<1>7. Covered'
  <2>1. SUFFICES ASSUME ~disposed, NEW o \in queued'
                 PROVE  \E x \in Pending' : x <= (IF o.time > now THEN o.time ELSE now)
    BY <1>3 DEF Covered
  <2>2. o.time \in Nat
    BY <1>6, DoOnTimeAssumption DEF TypeOK, Order, Time
  <2> QED BY <1>4, <1>5, <2>2
<1>8. OneAtATime' /\ BurstNeverBusy' /\ NoLostWakeup'
  BY <1>3 DEF IInv, OneAtATime, BurstNeverBusy, NoLostWakeup
<1> QED BY <1>3, <1>6, <1>7, <1>8 DEF IInv, new

LEMMA queueKeeps ==
  ASSUME IInv, NEW t \in Time, NEW q \in Queues, queue(t, q)
  PROVE  IInv'
BY EnqueueKeeps DEF queue

LEMMA clearKeeps ==
  ASSUME IInv,
         \/ \E t \in Time : clearQueueAfter(t)
         \/ \E t \in Time : clearQueueNowAndAfter(t)
         \/ dispose
  PROVE  IInv'
<1>1. /\ queued' \in SUBSET queued
      /\ \/ UNCHANGED <<timeout, disposed>>
         \/ timeout' = NoTimeout /\ disposed' = TRUE
      /\ UNCHANGED <<now, ready, sending, inFlight, overwritten, nextId>>
  BY DEF clearQueueAfter, clearQueueNowAndAfter, dispose
<1>2. TypeOK'
  BY <1>1 DEF IInv, TypeOK
<1>3. Covered'
  BY <1>1 DEF IInv, Covered, Pending
<1>4. OneAtATime' /\ BurstNeverBusy' /\ NoLostWakeup'
  BY <1>1 DEF IInv, OneAtATime, BurstNeverBusy, NoLostWakeup
<1> QED BY <1>2, <1>3, <1>4 DEF IInv

LEMMA checkKeeps ==
  ASSUME IInv, checkQueue, overwritten' \in SUBSET overwritten
  PROVE  IInv'
<1> DEFINE later == queued \ Due
           waiting == ready \cup {Prepare(o) : o \in Due}
           times == {o.time : o \in later}
<1>1. /\ queued' = later
      /\ SendNext(Queues, waiting, sending, inFlight)
      /\ timeout' = now + Wait(later)
      /\ UNCHANGED <<now, nextId, disposed>>
  BY DEF checkQueue
<1>2. now \in Nat /\ queued \in SUBSET Order /\ \A o \in queued : o.time \in Nat
  BY DoOnTimeAssumption DEF IInv, TypeOK, Order, Time
<1>3. \A o \in later : o.time > now
  BY <1>2 DEF Due
<1>4. /\ timeout' \in Nat
      /\ \A o \in later : timeout' <= o.time
  <2>1. CASE later = {}
    BY <1>1, <1>2, <2>1, DoOnTimeAssumption DEF Wait
  <2>2. CASE later # {}
    <3>1. times \in SUBSET Nat /\ times # {}
      BY <1>2, <2>2
    <3>2. Earliest(times) \in times /\ \A y \in times : Earliest(times) <= y
      BY <3>1, LeastNatural
    <3>3. Earliest(times) \in Nat /\ Earliest(times) > now
      BY <1>2, <1>3, <3>2
    <3>4. Wait(later) = AtMost(MaxWait, Earliest(times) - now)
      BY <2>2 DEF Wait
    <3>5. Wait(later) \in Nat /\ Wait(later) <= Earliest(times) - now
      BY <1>2, <3>3, <3>4, DoOnTimeAssumption DEF AtMost
    <3>6. timeout' \in Nat /\ timeout' <= Earliest(times)
      BY <1>1, <1>2, <3>3, <3>5
    <3>7. ASSUME NEW o \in later PROVE timeout' <= o.time
      <4>1. o.time \in times /\ o.time \in Nat
        BY <1>2
      <4>2. Earliest(times) <= o.time
        BY <3>2, <4>1
      <4> HIDE DEF times
      <4> QED BY <3>3, <3>6, <4>1, <4>2
    <3> QED BY <3>6, <3>7
  <2> QED BY <2>1, <2>2
<1>5. waiting \in SUBSET ReadyOrder
  BY <1>2 DEF IInv, TypeOK, Due, Prepare, Order, ReadyOrder, Time
<1>6. /\ ready' \in SUBSET ReadyOrder
      /\ inFlight' \in SUBSET ReadyOrder
      /\ sending' \in SUBSET Queues
      /\ OneAtATime' /\ BurstNeverBusy' /\ NoLostWakeup'
  <2>1. \A o \in waiting : o.queue \in Queues
    BY <1>5 DEF ReadyOrder
  <2>2. sending \in SUBSET Queues /\ inFlight \in SUBSET ReadyOrder
    BY DEF IInv, TypeOK
  <2> HIDE DEF waiting
  <2> QED BY <1>1, <1>5, <2>1, <2>2, SendNextKeeps DEF IInv, OneAtATime, BurstNeverBusy
<1>7. TypeOK'
  BY <1>1, <1>2, <1>4, <1>6 DEF IInv, TypeOK
<1>8. Covered'
  <2>1. timeout' \in Pending'
    BY <1>4 DEF Pending, NoTimeout
  <2>2. SUFFICES ASSUME NEW o \in queued'
                 PROVE  timeout' <= (IF o.time > now' THEN o.time ELSE now')
    BY <2>1 DEF Covered
  <2> QED BY <1>1, <1>3, <1>4
<1> QED BY <1>6, <1>7, <1>8 DEF IInv

LEMMA SettleKeeps ==
  ASSUME IInv, NEW o \in inFlight, Settle(o)
  PROVE  IInv'
<1>1. UNCHANGED <<now, queued, timeout, overwritten, nextId, disposed>>
  BY DEF Settle
<1>2. o.queue \in Queues
  BY DEF IInv, TypeOK, ReadyOrder
<1>3. /\ ready' \in SUBSET ReadyOrder
      /\ inFlight' \in SUBSET ReadyOrder
      /\ sending' \in SUBSET Queues
      /\ OneAtATime' /\ BurstNeverBusy' /\ NoLostWakeup'
  <2>1. CASE InOrder
    <3> DEFINE busy == sending \ {o.queue}
               out == inFlight \ {o}
    <3>1. SendNext({o.queue}, ready, busy, out)
      BY <2>1 DEF Settle
    <3>2. /\ \A p, r \in out : p.queue = r.queue => p = r
          /\ busy = {p.queue : p \in out}
          /\ \A p \in ready : p.queue \in busy \cup {o.queue}
      BY <2>1 DEF IInv, OneAtATime, NoLostWakeup
    <3>3. {o.queue} \in SUBSET Queues /\ ready \in SUBSET ReadyOrder
          /\ busy \in SUBSET Queues /\ out \in SUBSET ReadyOrder
      BY <1>2 DEF IInv, TypeOK
    <3> HIDE DEF busy, out
    <3> QED BY <2>1, <3>1, <3>2, <3>3, SendNextKeeps
  <2>2. CASE ~InOrder
    <3>1. inFlight' = inFlight \ {o} /\ UNCHANGED <<ready, sending>>
      BY <2>2 DEF Settle
    <3> QED BY <2>2, <3>1 DEF IInv, TypeOK, OneAtATime, BurstNeverBusy, NoLostWakeup
  <2> QED BY <2>1, <2>2
<1>4. TypeOK'
  BY <1>1, <1>3 DEF IInv, TypeOK
<1>5. Covered'
  BY <1>1 DEF IInv, Covered, Pending
<1> QED BY <1>3, <1>4, <1>5 DEF IInv

LEMMA TickKeeps ==
  ASSUME IInv, Tick \/ UNCHANGED vars
  PROVE  IInv'
<1>1. /\ UNCHANGED <<queued, ready, sending, inFlight, timeout, overwritten, nextId, disposed>>
      /\ now' \in Time /\ now <= now'
  BY DoOnTimeAssumption DEF IInv, TypeOK, Tick, vars, Time
<1>2. TypeOK'
  BY <1>1 DEF IInv, TypeOK
<1>3. Covered'
  <2>1. SUFFICES ASSUME ~disposed, NEW o \in queued
                 PROVE  \E x \in Pending : x <= (IF o.time > now' THEN o.time ELSE now')
    BY <1>1 DEF Covered, Pending
  <2>2. PICK x \in Pending : x <= (IF o.time > now THEN o.time ELSE now)
    BY <2>1 DEF IInv, Covered
  <2>3. x \in Int /\ o.time \in Int /\ now \in Int /\ now' \in Int
    BY <1>1, DoOnTimeAssumption DEF IInv, TypeOK, Pending, Order, Time, NoTimeout
  <2> QED BY <1>1, <2>2, <2>3
<1>4. OneAtATime' /\ BurstNeverBusy' /\ NoLostWakeup'
  BY <1>1 DEF IInv, OneAtATime, BurstNeverBusy, NoLostWakeup
<1> QED BY <1>2, <1>3, <1>4 DEF IInv

LEMMA NextKeeps == IInv /\ [Next]_vars => IInv'
<1> SUFFICES ASSUME IInv, [Next]_vars PROVE IInv'
  OBVIOUS
<1>1. CASE \E t \in Time, q \in Queues : queue(t, q)
  BY <1>1, queueKeeps
<1>2. CASE \E t \in Time : clearQueueAfter(t)
  BY <1>2, clearKeeps
<1>3. CASE \E t \in Time : clearQueueNowAndAfter(t)
  BY <1>3, clearKeeps
<1>4. CASE dispose
  BY <1>4, clearKeeps
<1>5. CASE CheckLast
  BY <1>5, checkKeeps DEF CheckLast
<1>6. CASE CheckOverwritten
  <2>1. checkQueue /\ overwritten' \in SUBSET overwritten
    BY <1>6 DEF CheckOverwritten
  <2> QED BY <2>1, checkKeeps
<1>7. CASE \E o \in inFlight : Settle(o)
  BY <1>7, SettleKeeps
<1>8. CASE Tick \/ UNCHANGED vars
  BY <1>8, TickKeeps
<1> QED BY <1>1, <1>2, <1>3, <1>4, <1>5, <1>6, <1>7, <1>8 DEF Next

----------------------------------------------------------------------------
(* The state of the queues keeps its type. *)
THEOREM TypeCorrect == Spec => []TypeOK
<1>1. IInv => TypeOK
  BY DEF IInv
<1> QED BY <1>1, InitIInv, NextKeeps, PTL DEF Spec

(* SendMode.IN_ORDER never has two commands of one queue under way, and    *)
(* _sendingCommands is up for exactly the queues that have one.            *)
THEOREM InOrderOneAtATime == Spec => []OneAtATime
<1>1. IInv => OneAtATime
  BY DEF IInv
<1> QED BY <1>1, InitIInv, NextKeeps, PTL DEF Spec

(* An order that was due is sent at once or waits for a command of its own *)
(* queue, whose completion sends it: none is forgotten until a later check.*)
THEOREM WakeupsAreKept == Spec => []NoLostWakeup
<1>1. IInv => NoLostWakeup
  BY DEF IInv
<1> QED BY <1>1, InitIInv, NextKeeps, PTL DEF Spec

(* While the object is in use a timeout is pending for every queued order, *)
(* expiring no later than the order is due.                                *)
THEOREM OrdersAreCovered == Spec => []Covered
<1>1. IInv => Covered
  BY DEF IInv
<1> QED BY <1>1, InitIInv, NextKeeps, PTL DEF Spec

----------------------------------------------------------------------------
(* Of the orders that wait to be sent, one that was queued earlier for a   *)
(* time not later was not prepared later either: when the other was        *)
(* prepared it was due itself.  And what is still queued with a smaller    *)
(* number was not due when any of those that wait was prepared.            *)
Sorted(later, waiting) ==
  /\ \A r \in waiting : r.id < nextId /\ r.time <= r.prepared /\ r.prepared <= now
  /\ \A r \in waiting, o \in later : o.id < r.id => o.time > r.prepared
  /\ \A r, s \in waiting : s.id < r.id /\ s.time <= r.time => s.prepared <= r.prepared
SInv == Sorted(queued, ready) /\ \A o \in queued : o.id < nextId

LEMMA InitSorted == Init => SInv
BY DEF Init, SInv, Sorted

(* A check prepares what is due, and keeps the orders sorted. *)
LEMMA PreparedSorted ==
  ASSUME IInv, SInv
  PROVE  Sorted(queued \ Due, ready \cup {Prepare(o) : o \in Due})
<1> DEFINE later == queued \ Due
           new == {Prepare(o) : o \in Due}
<1>1. /\ now \in Nat /\ nextId \in Nat
      /\ \A o \in queued : o.time \in Nat /\ o.id \in Nat /\ o.id < nextId
      /\ \A r \in ready : r.time \in Nat /\ r.id \in Nat /\ r.prepared \in Nat
  BY DoOnTimeAssumption DEF IInv, TypeOK, Time, Order, ReadyOrder, Ids, SInv
<1>2. \A o \in later : o.time > now /\ o.id \in Nat
  BY <1>1 DEF Due
<1>3. ASSUME NEW r \in new
      PROVE  \E o \in queued : /\ r.id = o.id /\ r.time = o.time /\ r.prepared = now
                               /\ o.time <= now
  BY DEF Prepare, Due
<1>4. ASSUME NEW r \in ready \cup new
      PROVE  /\ r.id < nextId /\ r.time <= r.prepared /\ r.prepared <= now
             /\ r.prepared \in Nat
  BY <1>1, <1>3 DEF SInv, Sorted
<1>5. ASSUME NEW r \in ready \cup new, NEW o \in later, o.id < r.id
      PROVE  o.time > r.prepared
  BY <1>1, <1>2, <1>4
<1>6. ASSUME NEW r \in ready \cup new, NEW s \in ready \cup new,
             s.id < r.id, s.time <= r.time
      PROVE  s.prepared <= r.prepared
  <2>1. CASE r \in new
    BY <1>3, <1>4, <2>1
  <2>2. CASE r \in ready /\ s \in ready
    BY <1>6, <2>2 DEF SInv, Sorted
  <2>3. CASE r \in ready /\ s \in new
    <3>1. PICK o \in queued : s.id = o.id /\ s.time = o.time
      BY <1>3, <2>3
    <3>2. o.time > r.prepared /\ r.time <= r.prepared
      BY <1>6, <2>3, <3>1 DEF SInv, Sorted
    <3> QED BY <1>1, <1>6, <2>3, <3>1, <3>2
  <2> QED BY <2>1, <2>2, <2>3
<1> QED BY <1>4, <1>5, <1>6 DEF Sorted

(* What is sent of sorted orders overtakes none, and what is left is       *)
(* sorted.                                                                 *)
Overtakes(p, o) == o.queue = p.queue /\ o.id < p.id /\ o.time <= p.time

LEMMA SendNextInOrder ==
  ASSUME NEW qs \in SUBSET Queues, NEW waiting \in SUBSET ReadyOrder, NEW busy, NEW out,
         NEW later \in SUBSET Order, Sorted(later, waiting), SendNext(qs, waiting, busy, out),
         now \in Nat
  PROVE  /\ \A p \in inFlight' \ out, o \in later \cup ready' : ~Overtakes(p, o)
         /\ ready' \subseteq waiting
<1> DEFINE free == Free(qs, waiting, busy)
           first(q) == First(OfQueue(waiting, q))
           sent == IF InOrder THEN {first(q) : q \in free}
                   ELSE {o \in waiting : o.queue \in free}
<1>1. ready' = waiting \ sent /\ inFlight' = out \cup sent
  BY DEF SendNext
<1>2. \A r \in waiting : r.id \in Nat /\ r.time \in Nat /\ r.prepared \in Nat
  BY DoOnTimeAssumption DEF ReadyOrder, Ids, Time
<1>3. \A o \in later : o.id \in Nat /\ o.time \in Nat
  BY DoOnTimeAssumption DEF Order, Ids, Time
<1>4. \A q \in free : first(q) \in waiting /\ first(q).queue = q
  <2>1. SUFFICES ASSUME NEW q \in free PROVE first(q) \in OfQueue(waiting, q)
    BY DEF OfQueue
  <2>2. OfQueue(waiting, q) \in SUBSET ReadyOrder /\ OfQueue(waiting, q) # {}
    BY DEF OfQueue, Free
  <2> QED BY <2>2, FirstWaits
<1>5. sent \subseteq waiting
  BY <1>4
<1>6. ASSUME NEW p \in sent, NEW o \in later PROVE ~Overtakes(p, o)
  BY <1>2, <1>3, <1>5, <1>6 DEF Sorted, Overtakes
<1>7. ASSUME NEW p \in sent, NEW o \in waiting \ sent, Overtakes(p, o) PROVE FALSE
  <2>1. o.queue = p.queue /\ o.id < p.id /\ o.time <= p.time
    BY <1>7 DEF Overtakes
  <2>2. CASE InOrder
    <3>1. PICK q \in free : p = first(q)
      BY <2>2
    <3>2. p.queue = q
      BY <1>4, <3>1
    <3>3. o \in OfQueue(waiting, q) /\ OfQueue(waiting, q) \in SUBSET ReadyOrder
      BY <2>1, <3>2 DEF OfQueue
    <3>4. p.prepared < o.prepared \/ (p.prepared = o.prepared /\ p.id <= o.id)
      BY <3>1, <3>3, FirstWaits
    <3>5. o.prepared <= p.prepared
      BY <1>5, <2>1 DEF Sorted
    <3> HIDE DEF sent
    <3> QED BY <1>2, <1>5, <2>1, <3>4, <3>5
  <2>3. CASE ~InOrder
    BY <2>1, <2>3
  <2> QED BY <2>2, <2>3
<1> HIDE DEF sent
<1> QED BY <1>1, <1>6, <1>7

(* No step lets an order overtake another, and the orders stay sorted. *)
LEMMA checkInOrder ==
  ASSUME IInv, SInv, checkQueue
  PROVE  /\ SInv'
         /\ \A p \in inFlight' \ inFlight, o \in queued' \cup ready' : ~Overtakes(p, o)
<1> DEFINE later == queued \ Due
           waiting == ready \cup {Prepare(o) : o \in Due}
<1>1. /\ queued' = later
      /\ SendNext(Queues, waiting, sending, inFlight)
      /\ UNCHANGED <<now, nextId, disposed>>
  BY DEF checkQueue
<1>2. Sorted(later, waiting)
  BY PreparedSorted
<1>3. waiting \in SUBSET ReadyOrder /\ later \in SUBSET Order /\ now \in Nat
  BY DoOnTimeAssumption DEF IInv, TypeOK, Due, Prepare, Order, ReadyOrder, Time
<1>4. later \subseteq queued
  OBVIOUS
<1> HIDE DEF later, waiting
<1>5. /\ \A p \in inFlight' \ inFlight, o \in later \cup ready' : ~Overtakes(p, o)
      /\ ready' \subseteq waiting
  BY <1>1, <1>2, <1>3, SendNextInOrder
<1>6. SInv'
  BY <1>1, <1>2, <1>4, <1>5 DEF SInv, Sorted
<1> QED BY <1>1, <1>5, <1>6

LEMMA SettleInOrder ==
  ASSUME IInv, SInv, NEW s \in inFlight, Settle(s)
  PROVE  /\ SInv'
         /\ \A p \in inFlight' \ inFlight, o \in queued' \cup ready' : ~Overtakes(p, o)
<1>1. UNCHANGED <<now, queued, timeout, overwritten, nextId, disposed>>
  BY DEF Settle
<1>2. CASE InOrder
  <2> DEFINE busy == sending \ {s.queue}
             out == inFlight \ {s}
  <2>1. SendNext({s.queue}, ready, busy, out)
    BY <1>2 DEF Settle
  <2>2. /\ {s.queue} \in SUBSET Queues /\ ready \in SUBSET ReadyOrder
        /\ queued \in SUBSET Order /\ now \in Nat
    BY DoOnTimeAssumption DEF IInv, TypeOK, ReadyOrder, Time
  <2>3. out \subseteq inFlight
    OBVIOUS
  <2> HIDE DEF busy, out
  <2>4. /\ \A p \in inFlight' \ out, o \in queued \cup ready' : ~Overtakes(p, o)
        /\ ready' \subseteq ready
    BY <2>1, <2>2, SendNextInOrder DEF SInv
  <2> QED BY <1>1, <2>3, <2>4 DEF SInv, Sorted
<1>3. CASE ~InOrder
  BY <1>1, <1>3 DEF Settle, SInv, Sorted
<1> QED BY <1>2, <1>3

LEMMA NextInOrder ==
  ASSUME IInv, SInv, [Next]_vars
  PROVE  /\ SInv'
         /\ \A p \in inFlight' \ inFlight, o \in queued' \cup ready' : ~Overtakes(p, o)
<1>1. CASE \E t \in Time, q \in Queues : queue(t, q)
  <2>1. PICK t \in Time, q \in Queues : queue(t, q)
    BY <1>1
  <2> DEFINE new == [id |-> nextId, queue |-> q, time |-> t]
  <2>2. Cardinality({new}) = 1 /\ {new} # {} /\ new.id = nextId
    BY FS_Singleton
  <2> HIDE DEF new
  <2>3. /\ queued' = queued \cup {new} /\ nextId' = nextId + 1
        /\ UNCHANGED <<now, ready, inFlight>>
    BY <2>1, <2>2 DEF queue, Enqueue, new
  <2>4. /\ nextId \in Nat
        /\ \A r \in ready : r.id \in Nat
        /\ \A o \in queued : o.id \in Nat
    BY DoOnTimeAssumption DEF IInv, TypeOK, Order, ReadyOrder, Ids
  <2> QED BY <2>2, <2>3, <2>4 DEF SInv, Sorted
<1>2. CASE \/ \E t \in Time : clearQueueAfter(t)
           \/ \E t \in Time : clearQueueNowAndAfter(t)
           \/ dispose
  <2>1. queued' \subseteq queued /\ UNCHANGED <<now, ready, inFlight, nextId>>
    BY <1>2 DEF clearQueueAfter, clearQueueNowAndAfter, dispose
  <2> QED BY <2>1 DEF SInv, Sorted
<1>3. CASE CheckLast \/ CheckOverwritten
  BY <1>3, checkInOrder DEF CheckLast, CheckOverwritten
<1>4. CASE \E o \in inFlight : Settle(o)
  BY <1>4, SettleInOrder
<1>5. CASE Tick \/ UNCHANGED vars
  <2>1. /\ UNCHANGED <<queued, ready, inFlight, nextId>>
        /\ now \in Nat /\ now' \in Nat /\ now <= now'
        /\ \A r \in ready : r.prepared \in Nat
    BY <1>5, DoOnTimeAssumption DEF IInv, TypeOK, Tick, vars, Time, ReadyOrder
  <2> QED BY <2>1 DEF SInv, Sorted
<1> QED BY <1>1, <1>2, <1>3, <1>4, <1>5 DEF Next

(* However late the checks come, whatever is cleared between them, and in  *)
(* both send modes: a command is not sent while one of its queue that was  *)
(* queued earlier, for a time not later, is still waiting.                 *)
THEOREM OrdersAreNotOvertaken == Spec => NoOvertaking
<1> DEFINE Step == \A p \in inFlight' \ inFlight, o \in queued' \cup ready' :
                     ~(o.queue = p.queue /\ o.id < p.id /\ o.time <= p.time)
<1>1. IInv /\ SInv /\ [Next]_vars => SInv' /\ [Step]_vars
  BY NextInOrder DEF Overtakes
<1> QED BY <1>1, InitIInv, InitSorted, NextKeeps, PTL DEF Spec, NoOvertaking

----------------------------------------------------------------------------
(* The device with its log.                                                *)

(* A set of numbers that has a bound has a last one. *)
LEMMA LatestIs ==
  ASSUME NEW b \in Nat, NEW S \in SUBSET (0 .. b), S # {}
  PROVE  Latest(S) \in S /\ \A n \in S : n <= Latest(S)
<1> DEFINE T == {b - n : n \in S}
<1>1. \A n \in S : n \in Nat /\ b - n \in Nat
  <2>1. ASSUME NEW n \in S PROVE n \in Nat /\ b - n \in Nat
    <3>1. n \in 0 .. b
      OBVIOUS
    <3> QED BY <3>1
  <2> QED BY <2>1
<1>2. T \in SUBSET Nat /\ T # {}
  BY <1>1
<1>3. Earliest(T) \in T /\ \A m \in T : Earliest(T) <= m
  BY <1>2, LeastNatural
<1>4. PICK n \in S : Earliest(T) = b - n
  BY <1>3
<1>5. ASSUME NEW m \in S PROVE m <= n
  <2>1. b - m \in T
    OBVIOUS
  <2>2. b - n <= b - m
    BY <1>3, <1>4, <2>1
  <2> QED BY <1>1, <2>2
<1> QED BY <1>5 DEF Latest

----------------------------------------------------------------------------
(* What a device in state d shows after the orders of S, whose changes are *)
(* those of p: on each layer that of the order queued last.                *)
Touching(p, S, l) == {o \in S : l \in DOMAIN p[o.id]}
Applied(p, d, S) ==
  [l \in Layers |-> IF Touching(p, S, l) = {} THEN d[l]
                    ELSE p[Latest({o.id : o \in Touching(p, S, l)})][l]]
Numbers(S, b) == \A o \in S : o.id \in 1 .. b

LEMMA Untouched ==
  ASSUME NEW p, NEW d, NEW S, NEW l \in Layers, \A o \in S : l \notin DOMAIN p[o.id]
  PROVE  Applied(p, d, S)[l] = d[l]
BY DEF Applied, Touching

LEMMA TouchedLast ==
  ASSUME NEW p, NEW d, NEW S, NEW b \in Nat, Numbers(S, b), NEW l \in Layers,
         NEW o \in S, l \in DOMAIN p[o.id],
         \A q \in S : l \in DOMAIN p[q.id] => q.id <= o.id
  PROVE  Applied(p, d, S)[l] = p[o.id][l]
<1> DEFINE I == {q.id : q \in Touching(p, S, l)}
<1>1. I \in SUBSET (0 .. b) /\ I # {} /\ o.id \in I /\ \A n \in I : n <= o.id
  BY DEF Touching, Numbers
<1>2. Latest(I) \in I /\ \A n \in I : n <= Latest(I)
  BY <1>1, LatestIs
<1>3. Latest(I) = o.id
  <2>1. Latest(I) <= o.id /\ o.id <= Latest(I) /\ Latest(I) \in 0 .. b /\ o.id \in 0 .. b
    BY <1>1, <1>2
  <2> HIDE DEF I
  <2> QED BY <2>1
<1>4. Touching(p, S, l) # {}
  BY <1>1
<1> QED BY <1>3, <1>4 DEF Applied

LEMMA SomeLast ==
  ASSUME NEW p, NEW S, NEW b \in Nat, Numbers(S, b), NEW l \in Layers,
         NEW r \in S, l \in DOMAIN p[r.id]
  PROVE  \E o \in S : /\ l \in DOMAIN p[o.id]
                      /\ \A q \in S : l \in DOMAIN p[q.id] => q.id <= o.id
<1> DEFINE I == {q.id : q \in Touching(p, S, l)}
<1>1. I \in SUBSET (0 .. b) /\ I # {}
  BY DEF Touching, Numbers
<1>2. Latest(I) \in I /\ \A n \in I : n <= Latest(I)
  BY <1>1, LatestIs
<1>3. PICK o \in Touching(p, S, l) : o.id = Latest(I)
  BY <1>2
<1>4. ASSUME NEW q \in S, l \in DOMAIN p[q.id] PROVE q.id <= o.id
  <2>1. q.id \in I
    BY <1>4 DEF Touching
  <2> QED BY <1>2, <1>3, <2>1
<1> QED BY <1>3, <1>4 DEF Touching

(* Only the changes of the orders in question matter. *)
LEMMA AppliedSame ==
  ASSUME NEW p, NEW r, NEW d, NEW S, \A o \in S : p[o.id] = r[o.id], NEW b \in Nat,
         Numbers(S, b)
  PROVE  Applied(p, d, S) = Applied(r, d, S)
<1> SUFFICES ASSUME NEW l \in Layers PROVE Applied(p, d, S)[l] = Applied(r, d, S)[l]
  BY DEF Applied
<1>1. CASE \A o \in S : l \notin DOMAIN p[o.id]
  BY <1>1, Untouched
<1>2. CASE \E o \in S : l \in DOMAIN p[o.id]
  <2>1. PICK o \in S : /\ l \in DOMAIN p[o.id]
                       /\ \A q \in S : l \in DOMAIN p[q.id] => q.id <= o.id
    BY <1>2, SomeLast
  <2>2. Applied(p, d, S)[l] = p[o.id][l] /\ Applied(r, d, S)[l] = r[o.id][l]
    BY <2>1, TouchedLast
  <2> QED BY <2>2
<1> QED BY <1>1, <1>2

(* Another order on top of them. *)
LEMMA AppliedAnother ==
  ASSUME NEW p, NEW d, NEW S, NEW n, NEW b \in Nat, Numbers(S \cup {n}, b),
         \A o \in S : o.id < n.id, NEW l \in Layers
  PROVE  Applied(p, d, S \cup {n})[l] =
           IF l \in DOMAIN p[n.id] THEN p[n.id][l] ELSE Applied(p, d, S)[l]
<1> DEFINE T == S \cup {n}
<1>1. n \in T /\ Numbers(S, b) /\ \A o \in T : o.id <= n.id
  BY DEF Numbers
<1>2. CASE l \in DOMAIN p[n.id]
  <2>1. Applied(p, d, T)[l] = p[n.id][l]
    BY <1>1, <1>2, TouchedLast
  <2> QED BY <1>2, <2>1
<1>3. CASE l \notin DOMAIN p[n.id] /\ \A o \in S : l \notin DOMAIN p[o.id]
  <2>1. Applied(p, d, T)[l] = d[l] /\ Applied(p, d, S)[l] = d[l]
    BY <1>3, Untouched
  <2> QED BY <1>3, <2>1
<1>4. CASE l \notin DOMAIN p[n.id] /\ \E o \in S : l \in DOMAIN p[o.id]
  <2>1. PICK o \in S : /\ l \in DOMAIN p[o.id]
                       /\ \A q \in S : l \in DOMAIN p[q.id] => q.id <= o.id
    BY <1>1, <1>4, SomeLast
  <2>2. o \in T /\ \A q \in T : l \in DOMAIN p[q.id] => q.id <= o.id
    BY <1>4, <2>1
  <2>3. Applied(p, d, T)[l] = p[o.id][l] /\ Applied(p, d, S)[l] = p[o.id][l]
    BY <1>1, <2>1, <2>2, TouchedLast
  <2> QED BY <1>4, <2>3
<1> QED BY <1>2, <1>3, <1>4

(* Some of them first, the rest, all queued later, after that. *)
LEMMA AppliedInTwo ==
  ASSUME NEW p, NEW d, NEW S, NEW R, NEW b \in Nat, Numbers(S \cup R, b),
         \A o \in S, q \in R : o.id < q.id
  PROVE  Applied(p, Applied(p, d, S), R) = Applied(p, d, S \cup R)
<1> DEFINE T == S \cup R
           e == Applied(p, d, S)
<1>1. Numbers(S, b) /\ Numbers(R, b) /\ Numbers(T, b)
  BY DEF Numbers
<1> SUFFICES ASSUME NEW l \in Layers PROVE Applied(p, e, R)[l] = Applied(p, d, T)[l]
  BY DEF Applied
<1>2. CASE \E o \in R : l \in DOMAIN p[o.id]
  <2>1. PICK o \in R : /\ l \in DOMAIN p[o.id]
                       /\ \A q \in R : l \in DOMAIN p[q.id] => q.id <= o.id
    BY <1>1, <1>2, SomeLast
  <2>2. o \in T /\ \A q \in T : l \in DOMAIN p[q.id] => q.id <= o.id
    BY <1>1, <2>1 DEF Numbers
  <2>3. Applied(p, e, R)[l] = p[o.id][l]
    BY <1>1, <2>1, TouchedLast
  <2>4. Applied(p, d, T)[l] = p[o.id][l]
    BY <1>1, <2>1, <2>2, TouchedLast
  <2> QED BY <2>3, <2>4
<1>3. CASE (\A o \in R : l \notin DOMAIN p[o.id]) /\ \E o \in S : l \in DOMAIN p[o.id]
  <2>1. PICK o \in S : /\ l \in DOMAIN p[o.id]
                       /\ \A q \in S : l \in DOMAIN p[q.id] => q.id <= o.id
    BY <1>1, <1>3, SomeLast
  <2>2. o \in T /\ \A q \in T : l \in DOMAIN p[q.id] => q.id <= o.id
    BY <1>3, <2>1
  <2>3. Applied(p, d, T)[l] = p[o.id][l] /\ e[l] = p[o.id][l]
    BY <1>1, <2>1, <2>2, TouchedLast
  <2>4. Applied(p, e, R)[l] = e[l]
    BY <1>3, Untouched
  <2> QED BY <2>3, <2>4
<1>4. CASE \A o \in T : l \notin DOMAIN p[o.id]
  <2>1. Applied(p, e, R)[l] = e[l] /\ e[l] = d[l] /\ Applied(p, d, T)[l] = d[l]
    BY <1>4, Untouched
  <2> QED BY <2>1
<1> QED BY <1>2, <1>3, <1>4

LEMMA AppliedTyped ==
  ASSUME NEW p, NEW d, NEW S, NEW b \in Nat, Numbers(S, b), NEW V, d \in [Layers -> V],
         DOMAIN p = 1 .. b, \A i \in DOMAIN p : \A l \in DOMAIN p[i] : p[i][l] \in V
  PROVE  Applied(p, d, S) \in [Layers -> V]
<1> SUFFICES ASSUME NEW l \in Layers PROVE Applied(p, d, S)[l] \in V
  BY DEF Applied
<1>1. CASE \A o \in S : l \notin DOMAIN p[o.id]
  BY <1>1, Untouched
<1>2. CASE \E o \in S : l \in DOMAIN p[o.id]
  <2>1. PICK o \in S : /\ l \in DOMAIN p[o.id]
                       /\ \A q \in S : l \in DOMAIN p[q.id] => q.id <= o.id
    BY <1>2, SomeLast
  <2>2. Applied(p, d, S)[l] = p[o.id][l]
    BY <2>1, TouchedLast
  <2>3. o.id \in DOMAIN p
    BY DEF Numbers
  <2> QED BY <2>1, <2>2, <2>3
<1> QED BY <1>1, <1>2

----------------------------------------------------------------------------
(* The log.  What it has for an instant is what it was given last before.  *)
At(log, u) == StateAt(log, getState(log, u))

LEMMA BeforeIs ==
  ASSUME NEW log, DOMAIN log \subseteq Instants, NEW t \in Int
  PROVE  \/ getStateBefore(log, t) = 0 /\ \A u \in DOMAIN log : ~(u < t)
         \/ /\ getStateBefore(log, t) \in DOMAIN log
            /\ getStateBefore(log, t) < t
            /\ \A u \in DOMAIN log : u < t => u <= getStateBefore(log, t)
<1> DEFINE before == {u \in DOMAIN log : u < t}
<1>1. MaxTime \in Nat /\ before \in SUBSET (0 .. MaxTime)
  BY DoOnTimeAssumption DEF Instants
<1>2. CASE before = {}
  BY <1>2 DEF getStateBefore
<1>3. CASE before # {}
  <2>1. Latest(before) \in before /\ \A u \in before : u <= Latest(before)
    BY <1>1, <1>3, LatestIs
  <2>2. getStateBefore(log, t) = Latest(before)
    BY <1>3 DEF getStateBefore
  <2> QED BY <2>1, <2>2
<1> QED BY <1>2, <1>3

(* Found by what it has: the last entry that is not later. *)
LEMMA AtIs ==
  ASSUME NEW log, DOMAIN log \subseteq Instants, NEW u \in Int, NEW c \in DOMAIN log,
         c <= u, \A v \in DOMAIN log : v <= u => v <= c
  PROVE  getState(log, u) = c /\ At(log, u) = log[c]
<1>1. \A v \in DOMAIN log : v \in Int /\ v # 0
  BY DEF Instants
<1>2. c < u + 1
  BY <1>1
<1>3. getState(log, u) \in DOMAIN log /\ getState(log, u) < u + 1
      /\ \A v \in DOMAIN log : v < u + 1 => v <= getState(log, u)
  <2>1. u + 1 \in Int
    OBVIOUS
  <2> QED BY <1>2, <2>1, BeforeIs DEF getState
<1>4. getState(log, u) <= u /\ getState(log, u) \in Int
  BY <1>1, <1>3
<1>5. getState(log, u) <= c /\ c <= getState(log, u)
  BY <1>2, <1>3, <1>4
<1>6. getState(log, u) = c
  BY <1>1, <1>4, <1>5
<1> QED BY <1>1, <1>6 DEF At, StateAt

LEMMA AtNothing ==
  ASSUME NEW log, DOMAIN log \subseteq Instants, NEW u \in Int,
         \A v \in DOMAIN log : ~(v <= u)
  PROVE  getState(log, u) = 0 /\ At(log, u) = Empty
<1>1. \A v \in DOMAIN log : v \in Int
  BY DEF Instants
<1>2. \A v \in DOMAIN log : ~(v < u + 1)
  BY <1>1
<1>3. getState(log, u) = 0
  <2>1. u + 1 \in Int
    OBVIOUS
  <2> QED BY <1>2, <2>1, BeforeIs DEF getState
<1> QED BY <1>3 DEF At, StateAt

LEMMA AtHas ==
  ASSUME NEW log, DOMAIN log \subseteq Instants, NEW u \in Int, NEW v \in DOMAIN log, v <= u
  PROVE  \E c \in DOMAIN log : /\ c <= u /\ v <= c
                               /\ \A w \in DOMAIN log : w <= u => w <= c
<1>1. \A w \in DOMAIN log : w \in Int /\ w # 0
  BY DEF Instants
<1>2. v < u + 1 /\ u + 1 \in Int
  BY <1>1
<1> DEFINE c == getStateBefore(log, u + 1)
<1>3. c \in DOMAIN log /\ c < u + 1 /\ \A w \in DOMAIN log : w < u + 1 => w <= c
  BY <1>2, BeforeIs
<1> HIDE DEF c
<1>4. c \in Int /\ c <= u /\ v <= c
  BY <1>1, <1>2, <1>3
<1>5. ASSUME NEW w \in DOMAIN log, w <= u PROVE w <= c
  <2>1. w < u + 1
    BY <1>1, <1>5
  <2> QED BY <1>3, <2>1
<1> QED BY <1>3, <1>4, <1>5

(* Two logs have the same for an instant if they have the same entries up  *)
(* to it, or one of them has forgotten some before an entry it kept.       *)
LEMMA AtSame ==
  ASSUME NEW log, NEW kept, DOMAIN log \subseteq Instants, DOMAIN kept \subseteq DOMAIN log,
         NEW t \in Int, NEW u \in Int,
         \A v \in DOMAIN kept : kept[v] = log[v],
         \/ t = u /\ \A v \in DOMAIN log : v <= u => v \in DOMAIN kept
         \/ \E cut \in DOMAIN log : /\ cut <= u /\ t = u
                                    /\ \A v \in DOMAIN log : v >= cut /\ v <= u => v \in DOMAIN kept
         \/ t <= u /\ \A v \in DOMAIN log : v <= t <=> v \in DOMAIN kept
  PROVE  At(kept, u) = At(log, t)
<1>1. DOMAIN kept \subseteq Instants /\ \A v \in DOMAIN log : v \in Int
  BY DEF Instants
<1>2. CASE \E v \in DOMAIN log : v <= t
  <2>1. PICK v \in DOMAIN log : v <= t
    BY <1>2
  <2>2. PICK c \in DOMAIN log : c <= t /\ \A w \in DOMAIN log : w <= t => w <= c
    BY <2>1, AtHas
  <2>3. c <= u /\ c \in DOMAIN kept /\ \A w \in DOMAIN kept : w <= u => w <= c
    <3>1. CASE t = u /\ \A w \in DOMAIN log : w <= u => w \in DOMAIN kept
      BY <2>2, <3>1
    <3>2. CASE \E cut \in DOMAIN log : /\ cut <= u /\ t = u
                                       /\ \A w \in DOMAIN log : w >= cut /\ w <= u => w \in DOMAIN kept
      <4>1. PICK cut \in DOMAIN log : /\ cut <= u /\ t = u
                                      /\ \A w \in DOMAIN log : w >= cut /\ w <= u => w \in DOMAIN kept
        BY <3>2
      <4>2. cut <= c /\ c >= cut
        BY <1>1, <2>2, <4>1
      <4> QED BY <2>2, <4>1, <4>2
    <3>3. CASE t <= u /\ \A w \in DOMAIN log : w <= t <=> w \in DOMAIN kept
      <4>1. c <= u
        BY <1>1, <2>2, <3>3
      <4> QED BY <2>2, <3>3, <4>1
    <3> QED BY <3>1, <3>2, <3>3
  <2>4. At(kept, u) = kept[c] /\ At(log, t) = log[c]
    BY <1>1, <2>2, <2>3, AtIs
  <2> QED BY <2>3, <2>4
<1>3. CASE \A v \in DOMAIN log : ~(v <= t)
  <2>1. \A v \in DOMAIN kept : ~(v <= u)
    BY <1>3
  <2> QED BY <1>1, <1>3, <2>1, AtNothing
<1> QED BY <1>2, <1>3

(* setState puts the state where the later ones were, and forgets at most  *)
(* what lies before an entry of the past.                                  *)
LEMMA setStateIs ==
  ASSUME DOMAIN states \subseteq Instants, NEW t \in Instants, NEW s, now \in Nat,
         setStateCount \in 0 .. CleanEvery - 1, DeviceAssumption, setState(s, t)
  PROVE  /\ setStateCount' \in 0 .. CleanEvery - 1
         /\ \E cut \in Nat :
              /\ cut = 0 \/ (cut < now /\ (cut = t \/ (cut \in DOMAIN states /\ cut < t)))
              /\ DOMAIN states' = {u \in DOMAIN states : u < t /\ u >= cut} \cup {t}
              /\ states'[t] = s
              /\ \A u \in DOMAIN states' : u # t => states'[u] = states[u]
<1> DEFINE kept == cleanUpStates(states, 0, t)
           log == [u \in DOMAIN kept \cup {t} |-> IF u = t THEN s ELSE kept[u]]
           last == getStateBefore(log, now)
<1>1. t \in Int /\ t # 0 /\ \A u \in DOMAIN states : u \in Int /\ u >= 1
  BY DEF Instants
<1>2. kept = [u \in {v \in DOMAIN states : v < t} |-> states[u]]
  BY <1>1 DEF cleanUpStates, Restricted
<1>3. /\ DOMAIN log = {v \in DOMAIN states : v < t} \cup {t}
      /\ log[t] = s
      /\ \A u \in DOMAIN log : u # t => log[u] = states[u]
  BY <1>2
<1>4. DOMAIN log \subseteq Instants
  BY <1>3
<1>5. \/ last = 0
      \/ last \in DOMAIN log /\ last < now
  BY <1>4, BeforeIs
<1>6. CASE setStateCount + 1 < CleanEvery \/ last = 0
  <2>1. states' = log /\ setStateCount' \in 0 .. CleanEvery - 1
    BY <1>6 DEF setState, DeviceAssumption
  <2> HIDE DEF log
  <2>2. DOMAIN states' = {u \in DOMAIN states : u < t /\ u >= 0} \cup {t}
    BY <1>1, <1>3, <2>1
  <2>3. 0 \in Nat
    OBVIOUS
  <2> QED BY <1>3, <2>1, <2>2, <2>3
<1>7. CASE ~(setStateCount + 1 < CleanEvery) /\ last # 0
  <2>1. states' = cleanUpStates(log, last - 1, 0) /\ setStateCount' = 0
    BY <1>7 DEF setState
  <2> HIDE DEF log, last
  <2>2. last \in DOMAIN log /\ last < now /\ last \in Nat /\ last >= 1 /\ last <= t
    BY <1>1, <1>3, <1>5, <1>7 DEF Instants
  <2>3. \A u \in DOMAIN log : u \in Int /\ u >= 1
    BY <1>1, <1>3 DEF Instants
  <2>4. {u \in DOMAIN log : /\ last - 1 # 0 => u > last - 1
                            /\ 0 # 0 => u < 0} = {u \in DOMAIN log : u >= last}
    BY <2>2, <2>3
  <2>5. states' = [u \in {v \in DOMAIN log : v >= last} |-> log[u]]
    BY <2>1, <2>4 DEF cleanUpStates, Restricted
  <2>6. DOMAIN states' = {u \in DOMAIN states : u < t /\ u >= last} \cup {t}
    BY <1>1, <1>3, <2>2, <2>5
  <2>7. last = t \/ (last \in DOMAIN states /\ last < t)
    BY <1>1, <1>3, <2>2
  <2>8. setStateCount' \in 0 .. CleanEvery - 1
    BY <2>1 DEF DeviceAssumption
  <2> QED BY <1>3, <2>2, <2>5, <2>6, <2>7, <2>8
<1> QED BY <1>6, <1>7

----------------------------------------------------------------------------
(* The invariant: the queue has its own, orders have numbers in the order  *)
(* they were queued, and that is the order of their times but for those    *)
(* that are due anyway.                                                    *)
Shared == /\ IInv
          /\ DeviceTypeOK
          /\ checkedAt <= now

Numbered ==
  /\ ready = {}
  /\ \A o \in queued : o.time >= 1 /\ o.id < nextId
  /\ \A o \in inFlight : o.id < nextId
  /\ \A o \in queued, p \in inFlight : o.id # p.id
  /\ \A o, p \in queued : o.id = p.id => o = p
  /\ \A o, p \in queued : o.id < p.id => o.time <= p.time \/ o.time <= now
  /\ disposed => queued = {}

(* Every order leads to a logged state, or to one that a later logged      *)
(* state of the past has made unimportant; what the conductor is about to  *)
(* hand over comes after all that is logged.                               *)
Logs ==
  /\ \A o \in queued : \E u \in DOMAIN states : u = o.time \/ (o.time < u /\ u < now)
  /\ \A e \in expected, u \in DOMAIN states : u < e

(* From the last check on, the orders up to any time lead from what the    *)
(* device shows to what the log has for that time.  That holds for the     *)
(* instant before this one too, for a state that replaces the one of this  *)
(* very instant is compared with what came before.                         *)
By(u) == {o \in queued : o.time <= u}
Follows ==
  \A u \in Int : u >= now - 1 /\ u >= checkedAt =>
    Applied(payload, device, By(u)) = At(states, u)

DInv == Shared /\ Numbered /\ (~disposed => Logs /\ (~SameInstant => Follows))

LEMMA Types ==
  ASSUME Shared, Numbered
  PROVE  /\ now \in Nat /\ checkedAt \in Nat /\ nextId \in Nat /\ nextId - 1 \in Nat
         /\ MaxTime \in Nat /\ MaxOrders \in Nat
         /\ \A o \in queued : o.time \in Nat /\ o.id \in 1 .. nextId - 1 /\ o.id \in Nat
         /\ \A o \in inFlight : o.id \in 1 .. nextId - 1
         /\ DOMAIN states \subseteq Instants
         /\ \A u \in DOMAIN states : u \in Nat /\ u >= 1
         /\ \A e \in expected : e \in Nat
<1>1. /\ now \in 0 .. MaxTime /\ checkedAt \in 0 .. MaxTime
      /\ nextId \in 1 .. MaxOrders + 1
      /\ MaxTime \in Nat /\ MaxOrders \in Nat
  BY DoOnTimeAssumption DEF Shared, DeviceTypeOK, TypeOK, Time
<1>2. \A o \in queued : o.time \in 0 .. MaxTime /\ o.id \in 1 .. MaxOrders /\ o.id < nextId
  BY DEF Shared, DeviceTypeOK, TypeOK, Order, Ids, Time, Numbered
<1>3. \A o \in inFlight : o.id \in 1 .. MaxOrders /\ o.id < nextId
  BY DEF Shared, DeviceTypeOK, TypeOK, ReadyOrder, Ids, Numbered
<1>4. DOMAIN states \subseteq 1 .. MaxTime /\ expected \subseteq 1 .. MaxTime
  BY DEF Shared, DeviceTypeOK, Instants
<1> QED BY ONLY <1>1, <1>2, <1>3, <1>4 DEF Instants

LEMMA DeviceInitKeeps == DeviceAssumption /\ DeviceInit => DInv
<1> SUFFICES ASSUME DeviceAssumption, DeviceInit PROVE DInv
  OBVIOUS
<1>1. IInv
  BY InitIInv DEF DeviceInit
<1>2. DOMAIN states = {} /\ DOMAIN payload = {}
  BY DEF DeviceInit
<1>3. /\ now = 1 /\ queued = {} /\ ready = {} /\ inFlight = {} /\ nextId = 1 /\ disposed = FALSE
      /\ expected = {} /\ checkedAt = 0 /\ device = Empty /\ setStateCount = 0
  BY DEF DeviceInit, Init
<1>4. DeviceTypeOK
  <2>1. TypeOK
    BY <1>1 DEF IInv
  <2>2. 0 \in 0 .. CleanEvery - 1 /\ checkedAt \in Time
    BY <1>3, DoOnTimeAssumption DEF DeviceAssumption, Time
  <2>3. 1 .. nextId - 1 = {}
    BY <1>3
  <2>4. device \in DeviceState
    BY <1>3 DEF Empty, DeviceState
  <2> QED BY <1>2, <1>3, <2>1, <2>2, <2>3, <2>4 DEF DeviceTypeOK
<1>5. Numbered /\ Logs
  BY <1>2, <1>3 DEF Numbered, Logs
<1>6. Follows
  <2>1. SUFFICES ASSUME NEW u \in Int PROVE Applied(payload, device, By(u)) = At(states, u)
    BY DEF Follows
  <2>2. By(u) = {}
    BY <1>3 DEF By
  <2>3. Applied(payload, device, {}) = Empty
    BY <1>3 DEF Applied, Touching, Empty
  <2>4. At(states, u) = Empty
    BY <1>2, AtNothing
  <2> QED BY <2>2, <2>3, <2>4
<1> QED BY <1>1, <1>3, <1>4, <1>5, <1>6 DEF DInv, Shared

----------------------------------------------------------------------------
(* prepareForHandleState: the queue and the log lose the same instants.    *)
LEMMA prepareKeeps ==
  ASSUME DInv, NEW t \in Instants, prepareForHandleState(t)
  PROVE  DInv'
<1>1. /\ ~disposed
      /\ t \in Nat /\ t >= 1 /\ t >= now /\ (~SameInstant => t > checkedAt)
      /\ queued' = {o \in queued : o.time < t}
      /\ states' = cleanUpStates(states, 0, t)
      /\ expected' = {t}
      /\ UNCHANGED <<now, ready, sending, inFlight, timeout, overwritten, nextId, disposed>>
      /\ UNCHANGED <<setStateCount, payload, checkedAt, device>>
  BY DEF prepareForHandleState, clearQueueNowAndAfter, Instants
<1>2. Shared /\ Numbered /\ Logs /\ (~SameInstant => Follows)
  BY <1>1 DEF DInv
<1>3. /\ now \in Nat /\ checkedAt \in Nat /\ DOMAIN states \subseteq Instants
      /\ \A o \in queued : o.time \in Nat
      /\ \A u \in DOMAIN states : u \in Nat
  BY <1>2, Types
<1>4. states' = [u \in {v \in DOMAIN states : v < t} |-> states[u]]
  BY <1>1 DEF cleanUpStates, Restricted
<1>5. IInv'
  <2>1. t \in Time /\ clearQueueNowAndAfter(t)
    BY DEF prepareForHandleState, Instants, Time
  <2> QED BY <1>2, <2>1, clearKeeps DEF Shared
<1>6. DeviceTypeOK'
  <2>1. TypeOK'
    BY <1>5 DEF IInv
  <2> QED BY <1>1, <1>2, <1>4, <2>1 DEF Shared, DeviceTypeOK, Time
<1>7. Numbered'
  BY <1>1, <1>2 DEF Numbered
<1>8. Logs'
  <2>1. ASSUME NEW o \in queued'
        PROVE  \E u \in DOMAIN states' : u = o.time \/ (o.time < u /\ u < now)
    <3>1. o \in queued /\ o.time < t
      BY <1>1
    <3>2. PICK u \in DOMAIN states : u = o.time \/ (o.time < u /\ u < now)
      BY <1>2, <3>1 DEF Logs
    <3>3. u < t
      BY <1>1, <1>3, <3>1, <3>2
    <3> QED BY <1>4, <3>2, <3>3
  <2>2. \A e \in expected', u \in DOMAIN states' : u < e
    BY <1>1, <1>4
  <2> QED BY <1>1, <2>1, <2>2 DEF Logs
<1>9. ~SameInstant => Follows'
  <2>1. SUFFICES ASSUME ~SameInstant, NEW u \in Int, u >= now - 1, u >= checkedAt
                 PROVE  Applied(payload, device, {o \in queued' : o.time <= u}) = At(states', u)
    BY <1>1 DEF Follows, By, At, StateAt
  <2>2. CASE u < t
    <3>1. {o \in queued' : o.time <= u} = By(u)
      BY <1>1, <1>3, <2>2 DEF By
    <3>2. At(states', u) = At(states, u)
      <4>1. \A v \in DOMAIN states : v <= u => v \in DOMAIN states'
        BY <1>1, <1>3, <1>4, <2>2
      <4>2. DOMAIN states' \subseteq DOMAIN states /\ \A v \in DOMAIN states' : states'[v] = states[v]
        BY <1>4
      <4> QED BY <1>3, <4>1, <4>2, AtSame
    <3> QED BY <1>2, <2>1, <3>1, <3>2 DEF Follows
  <2>3. CASE u >= t
    <3>1. {o \in queued' : o.time <= u} = By(t - 1)
      BY <1>1, <1>3, <2>3 DEF By
    <3>2. At(states', u) = At(states, t - 1)
      <4>1. \A v \in DOMAIN states : v <= t - 1 <=> v \in DOMAIN states'
        BY <1>1, <1>3, <1>4
      <4>2. DOMAIN states' \subseteq DOMAIN states /\ \A v \in DOMAIN states' : states'[v] = states[v]
        BY <1>4
      <4>3. t - 1 \in Int /\ t - 1 <= u
        BY <1>1, <2>3
      <4> QED BY <1>3, <4>1, <4>2, <4>3, AtSame
    <3>3. t - 1 \in Int /\ t - 1 >= now - 1 /\ t - 1 >= checkedAt
      BY <1>1, <1>3, <2>1
    <3> QED BY <1>2, <2>1, <3>1, <3>2, <3>3 DEF Follows
  <2> QED BY <1>1, <2>1, <2>2, <2>3
<1> QED BY <1>1, <1>2, <1>5, <1>6, <1>7, <1>8, <1>9 DEF DInv, Shared

----------------------------------------------------------------------------
(* handleState: the changes lead from what the orders that are kept lead   *)
(* to, to the new state.                                                   *)
Kept(t) == {o \in queued : o.time < Later(now, t)}
Old(t) == StateAt(states, getStateBefore(states, Later(now, t)))
Changes(s, t) == diffStates(Old(t), s)

LEMMA EnqueueNothing ==
  ASSUME NEW kept, Enqueue(kept, {}), nextId \in Nat
  PROVE  queued' = kept /\ UNCHANGED <<nextId, timeout, overwritten>>
<1>1. Cardinality({}) = 0
  BY FS_EmptySet
<1> QED BY <1>1 DEF Enqueue

(* What is queued: nothing if nothing changes, or an order with a number   *)
(* of its own that has the changes.                                        *)
LEMMA HandleQueues ==
  ASSUME Shared, Numbered, NEW t \in Instants, NEW s \in DeviceState, Handle(s, t)
  PROVE  /\ IInv'
         /\ \/ /\ DOMAIN Changes(s, t) = {}
               /\ queued' = Kept(t)
               /\ UNCHANGED <<nextId, payload>>
            \/ /\ DOMAIN Changes(s, t) # {}
               /\ nextId' = nextId + 1
               /\ \E q \in Queues :
                    queued' = Kept(t) \cup {[id |-> nextId, queue |-> q, time |-> t]}
               /\ payload' = [i \in 1 .. nextId |->
                                IF i = nextId THEN Changes(s, t) ELSE payload[i]]
<1>1. /\ nextId <= MaxOrders
      /\ IF DOMAIN Changes(s, t) = {}
         THEN Enqueue(Kept(t), {}) /\ UNCHANGED payload
         ELSE /\ \E q \in Queues :
                   Enqueue(Kept(t), {[id |-> nextId, queue |-> q, time |-> t]})
              /\ payload' = [i \in 1 .. nextId |->
                               IF i = nextId THEN Changes(s, t) ELSE payload[i]]
      /\ UNCHANGED <<now, ready, sending, inFlight, disposed, checkedAt, device>>
  BY DEF Handle, Changes, Kept, Old
<1>2. nextId \in Nat /\ t \in Time /\ Kept(t) \in SUBSET queued
  BY Types, DoOnTimeAssumption DEF Kept, Instants, Time
<1>3. CASE DOMAIN Changes(s, t) = {}
  <2>1. Enqueue(Kept(t), {}) /\ UNCHANGED payload
    BY <1>1, <1>3
  <2>2. queued' = Kept(t) /\ UNCHANGED <<nextId, timeout, overwritten>>
    BY <1>2, <2>1, EnqueueNothing
  <2>3. IInv'
    <3>1. TypeOK'
      BY <1>1, <1>2, <2>2 DEF Shared, IInv, TypeOK
    <3>2. Covered'
      BY <1>1, <1>2, <2>2 DEF Shared, IInv, Covered, Pending
    <3>3. OneAtATime' /\ BurstNeverBusy' /\ NoLostWakeup'
      BY <1>1 DEF Shared, IInv, OneAtATime, BurstNeverBusy, NoLostWakeup
    <3> QED BY <3>1, <3>2, <3>3 DEF IInv
  <2> QED BY <1>3, <2>1, <2>2, <2>3
<1>4. CASE DOMAIN Changes(s, t) # {}
  <2>1. /\ \E q \in Queues : Enqueue(Kept(t), {[id |-> nextId, queue |-> q, time |-> t]})
        /\ payload' = [i \in 1 .. nextId |->
                         IF i = nextId THEN Changes(s, t) ELSE payload[i]]
    BY <1>1, <1>4
  <2>2. PICK q \in Queues : Enqueue(Kept(t), {[id |-> nextId, queue |-> q, time |-> t]})
    BY <2>1
  <2>3. /\ IInv'
        /\ queued' = Kept(t) \cup {[id |-> nextId, queue |-> q, time |-> t]}
        /\ nextId' = nextId + 1
    BY <1>1, <1>2, <2>2, EnqueueKeeps DEF Shared
  <2> QED BY <1>4, <2>1, <2>3
<1> QED BY <1>3, <1>4

LEMMA StateTyped ==
  ASSUME Shared, NEW u, u = 0 \/ u \in DOMAIN states
  PROVE  StateAt(states, u) \in DeviceState
<1>1. Empty \in DeviceState
  BY DEF Empty, DeviceState
<1>2. 0 \notin DOMAIN states
  BY DEF Shared, DeviceTypeOK, Instants
<1> QED BY <1>1, <1>2 DEF StateAt, Shared, DeviceTypeOK

LEMMA ChangesTyped ==
  ASSUME Shared, Numbered, NEW t \in Instants, NEW s \in DeviceState
  PROVE  /\ Old(t) \in DeviceState
         /\ DOMAIN Changes(s, t) = {l \in Layers : Old(t)[l] # s[l]}
         /\ \A l \in DOMAIN Changes(s, t) :
              Changes(s, t)[l] = s[l] /\ s[l] \in Objects \cup {NoObject}
<1>1. Later(now, t) \in Int /\ DOMAIN states \subseteq Instants
  BY Types DEF Later, Instants
<1>2. Old(t) \in DeviceState
  <2>1. getStateBefore(states, Later(now, t)) = 0
        \/ getStateBefore(states, Later(now, t)) \in DOMAIN states
    BY <1>1, BeforeIs
  <2> QED BY <2>1, StateTyped DEF Old
<1>3. Changes(s, t) = [l \in {m \in Layers : Old(t)[m] # s[m]} |-> s[l]]
  BY DEF Changes, diffStates, Restricted
<1> QED BY <1>2, <1>3 DEF DeviceState

(* On top of orders that lead to the old state, those that are queued lead *)
(* to the new one.                                                         *)
LEMMA ChangesLead ==
  ASSUME Shared, Numbered, NEW t \in Instants, NEW s \in DeviceState, Handle(s, t),
         Applied(payload, device, Kept(t)) = Old(t)
  PROVE  /\ Applied(payload', device, queued') = s
         /\ \A S \in SUBSET Kept(t) : Applied(payload', device, S) = Applied(payload, device, S)
<1>1. /\ nextId \in Nat /\ nextId - 1 \in Nat
      /\ \A o \in queued : o.id \in 1 .. nextId - 1
  BY Types
<1>2. Kept(t) \subseteq queued
  BY DEF Kept
<1>3. /\ Old(t) \in DeviceState
      /\ DOMAIN Changes(s, t) = {l \in Layers : Old(t)[l] # s[l]}
      /\ \A l \in DOMAIN Changes(s, t) : Changes(s, t)[l] = s[l]
  BY ChangesTyped
<1>4. s \in [Layers -> Objects \cup {NoObject}] /\ Old(t) \in [Layers -> Objects \cup {NoObject}]
  BY <1>3 DEF DeviceState
<1>5. CASE DOMAIN Changes(s, t) = {}
  <2>1. queued' = Kept(t) /\ payload' = payload
    BY <1>5, HandleQueues
  <2>2. Old(t) = s
    <3>1. \A l \in Layers : Old(t)[l] = s[l]
      BY <1>3, <1>5
    <3> QED BY <1>4, <3>1
  <2> QED BY <2>1, <2>2
<1>6. CASE DOMAIN Changes(s, t) # {}
  <2>1. PICK q \in Queues :
          /\ queued' = Kept(t) \cup {[id |-> nextId, queue |-> q, time |-> t]}
          /\ payload' = [i \in 1 .. nextId |->
                           IF i = nextId THEN Changes(s, t) ELSE payload[i]]
    BY <1>6, HandleQueues
  <2> DEFINE new == [id |-> nextId, queue |-> q, time |-> t]
  <2>2. new.id = nextId /\ queued' = Kept(t) \cup {new}
    BY <2>1
  <2>3. /\ \A i \in 1 .. nextId - 1 : payload'[i] = payload[i]
        /\ payload'[nextId] = Changes(s, t)
    <3>1. nextId \in 1 .. nextId /\ \A i \in 1 .. nextId - 1 : i \in 1 .. nextId /\ i # nextId
      BY <1>1
    <3> QED BY <2>1, <3>1
  <2> HIDE DEF new
  <2>4. ASSUME NEW S \in SUBSET Kept(t)
        PROVE  Applied(payload', device, S) = Applied(payload, device, S)
    <3>1. Numbers(S, nextId - 1) /\ \A o \in S : payload'[o.id] = payload[o.id]
      BY <1>1, <1>2, <2>3 DEF Numbers
    <3> QED BY ONLY <1>1, <3>1, AppliedSame
  <2>5. Applied(payload', device, Kept(t)) = Old(t)
    BY <2>4
  <2>6. Numbers(Kept(t) \cup {new}, nextId) /\ \A o \in Kept(t) : o.id < new.id
    BY <1>1, <1>2, <2>2 DEF Numbers
  <2>7. ASSUME NEW l \in Layers
        PROVE  Applied(payload', device, Kept(t) \cup {new})[l] = s[l]
    <3>1. Applied(payload', device, Kept(t) \cup {new})[l] =
            IF l \in DOMAIN payload'[new.id] THEN payload'[new.id][l]
            ELSE Applied(payload', device, Kept(t))[l]
      BY ONLY <1>1, <2>6, <2>7, AppliedAnother
    <3> QED BY <1>3, <2>2, <2>3, <2>5, <3>1
  <2>8. Applied(payload', device, queued') = s
    <3>1. Applied(payload', device, queued') = [l \in Layers |-> Applied(payload', device, queued')[l]]
      BY DEF Applied
    <3> QED BY <1>4, <2>2, <2>7, <3>1
  <2> QED BY <2>4, <2>8
<1> QED BY <1>5, <1>6

(* So handleState keeps the invariant if the log is right about the state  *)
(* before, and has no entry between that and the time of the new one.      *)
LEMMA HandleKeeps ==
  ASSUME DInv, DeviceAssumption, NEW t \in Instants, NEW s \in DeviceState, Handle(s, t),
         ~SameInstant => Applied(payload, device, Kept(t)) = Old(t),
         \A u \in DOMAIN states : u < Later(now, t) => u <= t,
         expected' \subseteq Instants, \A e \in expected' : e > t
  PROVE  DInv'
<1>1. /\ ~disposed
      /\ setState(s, t)
      /\ UNCHANGED <<now, ready, sending, inFlight, disposed, checkedAt, device>>
  BY DEF Handle
<1>2. Shared /\ Numbered /\ Logs /\ (~SameInstant => Follows)
  BY <1>1 DEF DInv
<1>3. /\ now \in Nat /\ checkedAt \in Nat /\ nextId \in Nat /\ nextId - 1 \in Nat
      /\ \A o \in queued : o.time \in Nat /\ o.id \in 1 .. nextId - 1 /\ o.id \in Nat
      /\ \A o \in inFlight : o.id \in 1 .. nextId - 1
      /\ DOMAIN states \subseteq Instants
      /\ \A u \in DOMAIN states : u \in Nat /\ u >= 1
      /\ t \in Nat /\ t >= 1
  BY <1>2, Types DEF Instants
<1>4. /\ Later(now, t) >= now /\ Later(now, t) >= t
      /\ Later(now, t) = now \/ Later(now, t) = t
  BY <1>3 DEF Later
<1>5. /\ IInv'
      /\ Kept(t) \subseteq queued'
      /\ \A o \in queued' : o \in Kept(t) \/ (o.id = nextId /\ o.time = t /\ nextId' = nextId + 1)
      /\ \A o, p \in queued' : o \in Kept(t) \/ p \in Kept(t) \/ o = p
      /\ nextId' = nextId \/ nextId' = nextId + 1
  <2>1. IInv'
    BY <1>2, HandleQueues
  <2>2. CASE queued' = Kept(t) /\ nextId' = nextId
    BY <2>1, <2>2
  <2>3. CASE /\ nextId' = nextId + 1
             /\ \E q \in Queues : queued' = Kept(t) \cup {[id |-> nextId, queue |-> q, time |-> t]}
    BY <2>1, <2>3
  <2> QED BY <1>2, <2>2, <2>3, HandleQueues
<1>6. \A o \in Kept(t) : o \in queued /\ o.time < Later(now, t)
  BY DEF Kept
<1>7. /\ setStateCount' \in 0 .. CleanEvery - 1
      /\ \E cut \in Nat :
           /\ cut = 0 \/ (cut < now /\ (cut = t \/ (cut \in DOMAIN states /\ cut < t)))
           /\ DOMAIN states' = {u \in DOMAIN states : u < t /\ u >= cut} \cup {t}
           /\ states'[t] = s
           /\ \A u \in DOMAIN states' : u # t => states'[u] = states[u]
  <2>1. setStateCount \in 0 .. CleanEvery - 1
    BY <1>2 DEF Shared, DeviceTypeOK
  <2> QED BY <1>1, <1>3, <2>1, setStateIs
<1>8. PICK cut \in Nat :
        /\ cut = 0 \/ (cut < now /\ (cut = t \/ (cut \in DOMAIN states /\ cut < t)))
        /\ DOMAIN states' = {u \in DOMAIN states : u < t /\ u >= cut} \cup {t}
        /\ states'[t] = s
        /\ \A u \in DOMAIN states' : u # t => states'[u] = states[u]
  BY <1>7
<1>9. DOMAIN states' \subseteq Instants
  BY <1>3, <1>8
<1>10. DeviceTypeOK'
  <2>1. TypeOK'
    BY <1>5 DEF IInv
  <2>2. \A u \in DOMAIN states' : states'[u] \in DeviceState
    BY <1>2, <1>8 DEF Shared, DeviceTypeOK
  <2>3. /\ DOMAIN payload' = 1 .. nextId' - 1
        /\ \A i \in DOMAIN payload' :
             /\ DOMAIN payload'[i] \subseteq Layers
             /\ \A l \in DOMAIN payload'[i] : payload'[i][l] \in Objects \cup {NoObject}
    <3>1. /\ DOMAIN payload = 1 .. nextId - 1
          /\ \A i \in DOMAIN payload :
               /\ DOMAIN payload[i] \subseteq Layers
               /\ \A l \in DOMAIN payload[i] : payload[i][l] \in Objects \cup {NoObject}
      BY <1>2 DEF Shared, DeviceTypeOK
    <3>2. /\ DOMAIN Changes(s, t) \subseteq Layers
          /\ \A l \in DOMAIN Changes(s, t) : Changes(s, t)[l] \in Objects \cup {NoObject}
      BY <1>2, ChangesTyped
    <3>3. CASE payload' = payload /\ nextId' = nextId
      BY <3>1, <3>3
    <3>4. CASE /\ nextId' = nextId + 1
               /\ payload' = [i \in 1 .. nextId |->
                                IF i = nextId THEN Changes(s, t) ELSE payload[i]]
      <4>1. nextId' - 1 = nextId /\ \A i \in 1 .. nextId : i # nextId => i \in 1 .. nextId - 1
        BY <1>3, <3>4
      <4>2. ASSUME NEW i \in 1 .. nextId
            PROVE  /\ DOMAIN payload'[i] \subseteq Layers
                   /\ \A l \in DOMAIN payload'[i] : payload'[i][l] \in Objects \cup {NoObject}
        <5>1. CASE i = nextId
          BY <3>2, <3>4, <5>1
        <5>2. CASE i # nextId
          BY <3>1, <3>4, <4>1, <5>2
        <5> QED BY <5>1, <5>2
      <4> QED BY <3>4, <4>1, <4>2
    <3> QED BY <1>2, <3>3, <3>4, HandleQueues
  <2> QED BY <1>1, <1>2, <1>7, <1>9, <2>1, <2>2, <2>3 DEF Shared, DeviceTypeOK
<1>11. Numbered'
  <2>1. ready' = {} /\ ~disposed'
    BY <1>1, <1>2 DEF Numbered
  <2>2. \A o \in queued' : o.time >= 1 /\ o.id < nextId'
    BY <1>2, <1>3, <1>5, <1>6 DEF Numbered
  <2>3. /\ \A o \in inFlight' : o.id < nextId'
        /\ \A o \in queued', p \in inFlight' : o.id # p.id
    BY <1>1, <1>2, <1>3, <1>5, <1>6 DEF Numbered
  <2>4. \A o, p \in queued' : o.id = p.id => o = p
    BY <1>2, <1>3, <1>5, <1>6 DEF Numbered
  <2>5. ASSUME NEW o \in queued', NEW p \in queued', o.id < p.id
        PROVE  o.time <= p.time \/ o.time <= now
    <3>1. CASE p \in Kept(t)
      <4>1. o \in Kept(t)
        BY <1>3, <1>5, <1>6, <2>5, <3>1
      <4> QED BY <1>2, <1>6, <2>5, <3>1, <4>1 DEF Numbered
    <3>2. CASE p.time = t /\ o \in Kept(t)
      BY <1>3, <1>4, <1>6, <3>2
    <3>3. CASE o.id = nextId /\ p.id = nextId
      BY <1>3, <2>5, <3>3
    <3> QED BY <1>5, <3>1, <3>2, <3>3
  <2> QED BY <1>1, <2>1, <2>2, <2>3, <2>4, <2>5 DEF Numbered
<1>12. Logs'
  <2>1. ASSUME NEW o \in queued'
        PROVE  \E u \in DOMAIN states' : u = o.time \/ (o.time < u /\ u < now)
    <3>1. CASE o \in Kept(t)
      <4>1. PICK u \in DOMAIN states : u = o.time \/ (o.time < u /\ u < now)
        BY <1>2, <1>6, <3>1 DEF Logs
      <4>2. u < Later(now, t) /\ u <= t
        BY <1>3, <1>4, <1>6, <3>1, <4>1
      <4>3. CASE u = t \/ u >= cut
        BY <1>3, <1>8, <4>1, <4>2, <4>3
      <4>4. CASE u < cut
        <5>1. cut < now /\ cut \in DOMAIN states' /\ o.time < cut
          BY <1>3, <1>6, <1>8, <3>1, <4>1, <4>4
        <5> QED BY <5>1
      <4> QED BY <1>3, <4>1, <4>3, <4>4
    <3>2. CASE o.time = t
      BY <1>8, <3>2
    <3> QED BY <1>5, <3>1, <3>2
  <2>2. ASSUME NEW e \in expected', NEW u \in DOMAIN states' PROVE u < e
    <3>1. u <= t /\ u \in Nat /\ e \in Int /\ e > t
      BY <1>3, <1>8 DEF Instants
    <3> QED BY <1>3, <3>1
  <2> QED BY <1>1, <2>1, <2>2 DEF Logs
<1>13. ~SameInstant => Follows'
  <2>1. SUFFICES ASSUME ~SameInstant, NEW u \in Int, u >= now - 1, u >= checkedAt
                 PROVE  Applied(payload', device, {o \in queued' : o.time <= u}) = At(states', u)
    BY <1>1 DEF Follows, By, At, StateAt
  <2>2. /\ Applied(payload', device, queued') = s
        /\ \A S \in SUBSET Kept(t) : Applied(payload', device, S) = Applied(payload, device, S)
    BY <1>2, <2>1, ChangesLead
  <2>3. CASE u < t
    <3>1. {o \in queued' : o.time <= u} = By(u) /\ By(u) \in SUBSET Kept(t)
      <4>1. \A o \in queued : o.time <= u => o \in Kept(t)
        BY <1>3, <1>4, <2>3 DEF Kept
      <4>2. \A o \in queued' : o.time <= u => o \in Kept(t)
        BY <1>3, <1>5, <2>3
      <4> QED BY <1>5, <1>6, <4>1, <4>2 DEF By
    <3>2. Applied(payload, device, By(u)) = At(states, u)
      BY <1>2, <2>1 DEF Follows
    <3>3. At(states', u) = At(states, u)
      <4> DEFINE kept == [v \in {w \in DOMAIN states : w < t /\ w >= cut} |-> states[v]]
      <4>1. At(kept, u) = At(states, u)
        <5>1. /\ DOMAIN kept \subseteq DOMAIN states
              /\ \A v \in DOMAIN kept : kept[v] = states[v]
          OBVIOUS
        <5>2. CASE cut = 0
          <6>1. \A v \in DOMAIN states : v <= u => v \in DOMAIN kept
            BY <1>3, <2>3, <5>2
          <6> HIDE DEF kept
          <6> QED BY <1>3, <5>1, <6>1, AtSame
        <5>3. CASE cut # 0
          <6>1. cut \in DOMAIN states /\ cut <= u
            BY <1>3, <1>8, <2>1, <2>3, <5>3
          <6>2. \A v \in DOMAIN states : v <= u /\ v >= cut => v \in DOMAIN kept
            BY <1>3, <2>3
          <6> HIDE DEF kept
          <6> QED BY <1>3, <5>1, <6>1, <6>2, AtSame
        <5> QED BY <5>2, <5>3
      <4>2. At(kept, u) = At(states', u)
        <5>1. /\ DOMAIN kept \subseteq DOMAIN states'
              /\ \A v \in DOMAIN kept : kept[v] = states'[v]
          BY <1>3, <1>8
        <5>2. \A v \in DOMAIN states' : v <= u => v \in DOMAIN kept
          BY <1>3, <1>8, <2>3
        <5> HIDE DEF kept
        <5> QED BY <1>9, <5>1, <5>2, AtSame
      <4> QED BY <4>1, <4>2
    <3> QED BY <2>2, <3>1, <3>2, <3>3
  <2>4. CASE u >= t
    <3>1. {o \in queued' : o.time <= u} = queued'
      BY <1>3, <1>4, <1>5, <1>6, <2>1, <2>4
    <3>2. At(states', u) = s
      <4>1. t \in DOMAIN states' /\ \A v \in DOMAIN states' : v <= t
        BY <1>3, <1>8
      <4> QED BY <1>3, <1>8, <1>9, <2>4, <4>1, AtIs
    <3> QED BY <2>2, <3>1, <3>2
  <2> QED BY <1>3, <2>1, <2>3, <2>4
<1> QED BY <1>1, <1>2, <1>5, <1>10, <1>11, <1>12, <1>13 DEF DInv, Shared

----------------------------------------------------------------------------
(* What the conductor hands over, and a changed datastore.                 *)
LEMMA handleStateKeeps ==
  ASSUME DInv, DeviceAssumption, NEW s \in DeviceState, handleState(s)
  PROVE  DInv'
<1> DEFINE t == Earliest(expected)
<1>1. ~disposed /\ expected # {} /\ Handle(s, t) /\ expected' = expected \ {t}
  BY DEF handleState, Handle
<1>2. Shared /\ Numbered /\ Logs /\ (~SameInstant => Follows)
  BY <1>1 DEF DInv
<1>3. /\ now \in Nat /\ checkedAt \in Nat /\ checkedAt <= now
      /\ \A o \in queued : o.time \in Nat
      /\ DOMAIN states \subseteq Instants
      /\ \A u \in DOMAIN states : u \in Nat /\ u >= 1
      /\ \A e \in expected : e \in Nat
  BY <1>2, Types DEF Shared
<1>4. expected \subseteq Instants
  BY <1>2 DEF Shared, DeviceTypeOK
<1>5. t \in expected /\ \A e \in expected : t <= e
  <2>1. expected \in SUBSET Nat
    BY <1>3
  <2> QED BY <1>1, <2>1, LeastNatural
<1> HIDE DEF t
<1>6. t \in Nat /\ t >= 1 /\ t \in Instants
  BY <1>3, <1>4, <1>5 DEF Instants
<1>7. \A u \in DOMAIN states : u < t
  BY <1>2, <1>5 DEF Logs
<1>8. \A o \in queued : o.time < t
  <2>1. SUFFICES ASSUME NEW o \in queued PROVE o.time < t
    OBVIOUS
  <2>2. PICK u \in DOMAIN states : u = o.time \/ (o.time < u /\ u < now)
    BY <1>2 DEF Logs
  <2> QED BY <1>3, <1>6, <1>7, <2>2
<1>9. ASSUME ~SameInstant PROVE Applied(payload, device, Kept(t)) = Old(t)
  <2>1. CASE t > now
    <3>1. Later(now, t) = t
      BY <1>3, <1>6, <2>1 DEF Later
    <3>2. Kept(t) = By(t - 1)
      BY <1>3, <1>6, <1>8, <3>1 DEF Kept, By
    <3>3. Old(t) = At(states, t - 1)
      <4>1. (t - 1) + 1 = t
        BY <1>6
      <4> QED BY <3>1, <4>1 DEF Old, At, getState
    <3>4. t - 1 \in Int /\ t - 1 >= now - 1 /\ t - 1 >= checkedAt
      BY <1>3, <1>6, <2>1
    <3> QED BY <1>2, <1>9, <3>2, <3>3, <3>4 DEF Follows
  <2>2. CASE t <= now
    <3>1. Later(now, t) = now
      BY <1>3, <1>6, <2>2 DEF Later
    <3>2. Kept(t) = By(now)
      BY <1>3, <1>6, <1>8, <2>2, <3>1 DEF Kept, By
    <3>3. Old(t) = At(states, now)
      <4>1. {u \in DOMAIN states : u < now} = {u \in DOMAIN states : u < now + 1}
        BY <1>3, <1>6, <1>7, <2>2
      <4> QED BY <3>1, <4>1 DEF Old, At, getState, getStateBefore
    <3>4. now \in Int /\ now >= now - 1 /\ now >= checkedAt
      BY <1>3
    <3> QED BY <1>2, <1>9, <3>2, <3>3, <3>4 DEF Follows
  <2> QED BY <1>3, <1>6, <2>1, <2>2
<1>10. \A u \in DOMAIN states : u < Later(now, t) => u <= t
  BY <1>3, <1>6, <1>7
<1>11. expected' \subseteq Instants /\ \A e \in expected' : e > t
  BY <1>1, <1>3, <1>4, <1>5, <1>6
<1> QED BY <1>1, <1>6, <1>9, <1>10, <1>11, HandleKeeps

LEMMA handedAgainKeeps ==
  ASSUME DInv, DeviceAssumption, NEW s \in DeviceState, handedAgain(s)
  PROVE  DInv'
<1> DEFINE t == getState(states, now)
<1>1. /\ ~disposed /\ t # 0 /\ (~SameInstant => now > checkedAt) /\ Handle(s, t)
      /\ expected' = {u \in DOMAIN states : u > now}
  BY DEF handedAgain, Handle
<1>2. Shared /\ Numbered /\ Logs /\ (~SameInstant => Follows)
  BY <1>1 DEF DInv
<1>3. /\ now \in Nat /\ checkedAt \in Nat
      /\ \A o \in queued : o.time \in Nat
      /\ DOMAIN states \subseteq Instants
      /\ \A u \in DOMAIN states : u \in Nat /\ u >= 1
  BY <1>2, Types
<1>4. t \in DOMAIN states /\ t < now + 1 /\ \A u \in DOMAIN states : u < now + 1 => u <= t
  <2>1. now + 1 \in Int
    BY <1>3
  <2> QED BY <1>1, <1>3, <2>1, BeforeIs DEF getState
<1> HIDE DEF t
<1>5. t \in Nat /\ t >= 1 /\ t <= now /\ t \in Instants
  BY <1>3, <1>4
<1>6. Later(now, t) = now
  BY <1>3, <1>5 DEF Later
<1>7. ASSUME ~SameInstant PROVE Applied(payload, device, Kept(t)) = Old(t)
  <2>1. Kept(t) = By(now - 1)
    BY <1>3, <1>6 DEF Kept, By
  <2>2. Old(t) = At(states, now - 1)
    <3>1. (now - 1) + 1 = now
      BY <1>3
    <3> QED BY <1>6, <3>1 DEF Old, At, getState
  <2>3. now - 1 \in Int /\ now - 1 >= now - 1 /\ now - 1 >= checkedAt
    BY <1>1, <1>3, <1>7
  <2> QED BY <1>2, <1>7, <2>1, <2>2, <2>3 DEF Follows
<1>8. \A u \in DOMAIN states : u < Later(now, t) => u <= t
  BY <1>3, <1>4, <1>6
<1>9. expected' \subseteq Instants /\ \A e \in expected' : e > t
  BY <1>1, <1>3, <1>5
<1> QED BY <1>1, <1>5, <1>7, <1>8, <1>9, HandleKeeps

LEMMA terminateKeeps ==
  ASSUME DInv, terminate
  PROVE  DInv'
<1>1. /\ disposed' = TRUE
      /\ queued' = {o \in queued : o.time <= 0}
      /\ UNCHANGED <<now, ready, inFlight, nextId, deviceVars>>
      /\ dispose
  BY DEF terminate, dispose
<1>2. Shared /\ Numbered
  BY DEF DInv
<1>3. IInv'
  BY <1>1, <1>2, clearKeeps DEF Shared
<1>4. queued' = {}
  <2>1. \A o \in queued : o.time \in Nat /\ o.time >= 1
    BY <1>2, Types DEF Numbered
  <2>2. \A o \in queued : ~(o.time <= 0)
    BY <2>1
  <2> QED BY <1>1, <2>2
<1>5. Shared'
  BY <1>1, <1>2, <1>3 DEF Shared, DeviceTypeOK, IInv, deviceVars, logVars
<1>6. Numbered'
  BY <1>1, <1>2, <1>4 DEF Numbered
<1> QED BY <1>1, <1>5, <1>6 DEF DInv

(* A check sends what is due, and the device shows what the log has.       *)
LEMMA CheckShows ==
  ASSUME DInv, DeviceAssumption, DeviceCheck
  PROVE  /\ DInv'
         /\ ~SameInstant => MovesWithTheLog
<1>1. /\ checkQueue
      /\ overwritten' \in SUBSET overwritten
      /\ Received
      /\ checkedAt' = now
      /\ UNCHANGED <<logVars, expected>>
  BY DEF DeviceCheck, CheckLast, CheckOverwritten
<1>2. Shared /\ Numbered /\ (~disposed => Logs /\ (~SameInstant => Follows)) /\ ~InOrder
  BY DEF DInv, DeviceAssumption
<1>3. /\ now \in Nat /\ checkedAt \in Nat /\ nextId \in Nat /\ nextId - 1 \in Nat
      /\ \A o \in queued : o.time \in Nat /\ o.id \in 1 .. nextId - 1 /\ o.id \in Nat
      /\ \A o \in inFlight : o.id \in 1 .. nextId - 1
  BY <1>2, Types
<1>4. IInv'
  BY <1>1, <1>2, checkKeeps DEF Shared
<1>5. /\ queued' = queued \ Due
      /\ ready' = {}
      /\ inFlight' = inFlight \cup {Prepare(o) : o \in Due}
      /\ UNCHANGED <<now, nextId, disposed>>
  <2> DEFINE waiting == ready \cup {Prepare(o) : o \in Due}
             free == Free(Queues, waiting, sending)
  <2>1. /\ queued' = queued \ Due /\ UNCHANGED <<now, nextId, disposed>>
        /\ SendNext(Queues, waiting, sending, inFlight)
    BY <1>1 DEF checkQueue
  <2>2. waiting = {Prepare(o) : o \in Due}
    BY <1>2 DEF Numbered
  <2>3. \A o \in waiting : o.queue \in free
    <3>1. \A o \in waiting : o.queue \in Queues
      BY <1>2, <2>2 DEF Shared, DeviceTypeOK, TypeOK, Order, Due, Prepare
    <3>2. sending = {}
      BY <1>2 DEF Shared, IInv, BurstNeverBusy
    <3> QED BY <3>1, <3>2 DEF Free, OfQueue
  <2> HIDE DEF waiting, free
  <2>4. ready' = waiting \ {o \in waiting : o.queue \in free}
        /\ inFlight' = inFlight \cup {o \in waiting : o.queue \in free}
    BY <1>2, <2>1 DEF SendNext, free
  <2>5. {o \in waiting : o.queue \in free} = waiting
    BY <2>3
  <2> QED BY <2>1, <2>2, <2>4, <2>5
<1>6. Due = By(now) /\ Due \subseteq queued
  BY DEF Due, By
<1>7. device' = Applied(payload, device, Due)
  <2> DEFINE sent == inFlight' \ inFlight
             touching(l) == {o \in sent : l \in DOMAIN payload[o.id]}
  <2>1. sent = {Prepare(o) : o \in Due}
    <3>1. \A o \in Due : Prepare(o).id = o.id
      BY DEF Prepare
    <3>2. \A o \in Due : Prepare(o) \notin inFlight
      BY <1>2, <1>6, <3>1 DEF Numbered
    <3> QED BY <1>5, <3>2
  <2>2. ASSUME NEW l \in Layers
        PROVE  {o.id : o \in touching(l)} = {o.id : o \in Touching(payload, Due, l)}
    <3>1. \A o \in Due : Prepare(o).id = o.id
      BY DEF Prepare
    <3> HIDE DEF sent
    <3>2. ASSUME NEW i \in {o.id : o \in touching(l)}
          PROVE  i \in {o.id : o \in Touching(payload, Due, l)}
      <4>1. PICK o \in Due : i = o.id /\ l \in DOMAIN payload[o.id]
        BY <2>1, <3>1
      <4> QED BY <4>1 DEF Touching
    <3>3. ASSUME NEW i \in {o.id : o \in Touching(payload, Due, l)}
          PROVE  i \in {o.id : o \in touching(l)}
      <4>1. PICK o \in Due : i = o.id /\ l \in DOMAIN payload[o.id]
        BY DEF Touching
      <4>2. Prepare(o) \in touching(l) /\ Prepare(o).id = i
        BY <2>1, <3>1, <4>1
      <4> QED BY <4>2
    <3> QED BY <3>2, <3>3
  <2>3. device' = [l \in Layers |-> IF touching(l) = {} THEN device[l]
                                    ELSE payload[Latest({o.id : o \in touching(l)})][l]]
    BY <1>1 DEF Received
  <2> HIDE DEF sent
  <2>4. ASSUME NEW l \in Layers PROVE touching(l) = {} <=> Touching(payload, Due, l) = {}
    BY <2>2
  <2> HIDE DEF touching
  <2> QED BY <2>2, <2>3, <2>4 DEF Applied
<1>8. CASE disposed
  <2>1. queued = {} /\ Due = {} /\ queued' = {} /\ inFlight' = inFlight
    BY <1>2, <1>5, <1>6, <1>8 DEF Numbered
  <2>2. device' = device
    <3>1. device = [l \in Layers |-> device[l]]
      BY <1>2 DEF Shared, DeviceTypeOK, DeviceState
    <3>2. Applied(payload, device, {}) = [l \in Layers |-> device[l]]
      BY DEF Applied, Touching
    <3> QED BY <1>7, <2>1, <3>1, <3>2
  <2>3. Shared'
    <3>1. TypeOK' /\ checkedAt' \in Time /\ checkedAt' <= now'
      BY <1>1, <1>2, <1>3, <1>4, <1>5 DEF IInv, Shared, TypeOK
    <3> QED BY <1>1, <1>2, <1>4, <1>5, <2>2, <3>1 DEF Shared, DeviceTypeOK, logVars
  <2>4. Numbered'
    BY <1>2, <1>5, <2>1 DEF Numbered
  <2> QED BY <1>5, <1>8, <2>2, <2>3, <2>4 DEF DInv, MovesWithTheLog
<1>9. CASE ~disposed
  <2>1. ASSUME ~SameInstant PROVE Applied(payload, device, Due) = At(states, now)
    <3>1. now \in Int /\ now >= now - 1 /\ now >= checkedAt
      BY <1>2, <1>3 DEF Shared
    <3> QED BY <1>2, <1>6, <1>9, <2>1, <3>1 DEF Follows
  <2>2. ~SameInstant => MovesWithTheLog
    BY <1>1, <1>7, <2>1 DEF MovesWithTheLog, Logged, At, logVars
  <2>3. device' \in DeviceState
    <3>1. /\ DOMAIN payload = 1 .. nextId - 1 /\ device \in [Layers -> Objects \cup {NoObject}]
          /\ \A i \in DOMAIN payload :
               \A l \in DOMAIN payload[i] : payload[i][l] \in Objects \cup {NoObject}
      BY <1>2 DEF Shared, DeviceTypeOK, DeviceState
    <3>2. Numbers(Due, nextId - 1)
      BY <1>3, <1>6 DEF Numbers
    <3>3. Applied(payload, device, Due) \in [Layers -> Objects \cup {NoObject}]
      BY ONLY <1>3, <3>1, <3>2, AppliedTyped
    <3> QED BY <1>7, <3>3 DEF DeviceState
  <2>4. Shared'
    <3>1. TypeOK' /\ checkedAt' \in Time /\ checkedAt' <= now'
      BY <1>1, <1>2, <1>3, <1>4, <1>5 DEF IInv, Shared, TypeOK
    <3> QED BY <1>1, <1>2, <1>4, <1>5, <2>3, <3>1 DEF Shared, DeviceTypeOK, logVars
  <2>5. Numbered'
    <3>1. \A p \in inFlight' : p \in inFlight \/ \E o \in Due : p.id = o.id
      BY <1>5 DEF Prepare
    <3>2. \A o \in queued' : o \in queued /\ o \notin Due
      BY <1>5
    <3>3. /\ \A o \in queued' : o.time >= 1 /\ o.id < nextId
          /\ \A p \in inFlight' : p.id < nextId
          /\ \A o \in queued', p \in inFlight' : o.id # p.id
      BY <1>2, <1>6, <3>1, <3>2 DEF Numbered
    <3> QED BY <1>2, <1>5, <1>9, <3>2, <3>3 DEF Numbered
  <2>6. Logs'
    BY <1>1, <1>2, <1>5, <1>9 DEF Logs, logVars
  <2>7. ~SameInstant => Follows'
    <3>1. SUFFICES ASSUME ~SameInstant, NEW u \in Int, u >= now
                   PROVE  Applied(payload, device', {o \in queued' : o.time <= u}) = At(states, u)
      BY <1>1, <1>3, <1>5 DEF Follows, By, At, StateAt, logVars
    <3> DEFINE rest == {o \in queued' : o.time <= u}
    <3>2. Due \cup rest = By(u)
      BY <1>3, <1>5, <3>1 DEF Due, By
    <3>3. Numbers(Due \cup rest, nextId - 1)
      BY <1>3, <3>2 DEF By, Numbers
    <3>4. ASSUME NEW o \in Due, NEW q \in rest PROVE o.id < q.id
      <4>1. o \in queued /\ q \in queued /\ o.time <= now /\ ~(q.time <= now)
        BY <1>5 DEF Due
      <4>2. ~(q.id < o.id)
        <5>1. SUFFICES ASSUME q.id < o.id PROVE FALSE
          OBVIOUS
        <5>2. q.time <= o.time \/ q.time <= now
          BY <1>2, <4>1, <5>1 DEF Numbered
        <5> QED BY <1>3, <4>1, <5>2
      <4>3. q.id # o.id
        BY <1>2, <4>1 DEF Numbered
      <4>4. q.id \in Nat /\ o.id \in Nat
        BY <1>3, <4>1
      <4> QED BY <4>2, <4>3, <4>4
    <3> HIDE DEF rest
    <3>5. Applied(payload, Applied(payload, device, Due), rest) = Applied(payload, device, Due \cup rest)
      BY ONLY <1>3, <3>3, <3>4, AppliedInTwo
    <3>6. Applied(payload, device, By(u)) = At(states, u)
      <4>1. u >= now - 1 /\ u >= checkedAt
        BY <1>2, <1>3, <3>1 DEF Shared
      <4> QED BY <1>2, <1>9, <3>1, <4>1 DEF Follows
    <3> QED BY <1>7, <3>2, <3>5, <3>6 DEF rest
  <2> QED BY <1>5, <1>9, <2>2, <2>4, <2>5, <2>6, <2>7 DEF DInv
<1> QED BY <1>8, <1>9

LEMMA OtherKeeps ==
  ASSUME DInv, DeviceAssumption,
         \/ (\E o \in inFlight : Settle(o)) /\ UNCHANGED deviceVars
         \/ DeviceTick
         \/ UNCHANGED allVars
  PROVE  DInv'
<1>1. /\ UNCHANGED <<deviceVars, queued, ready, nextId, disposed>>
      /\ inFlight' \subseteq inFlight
  BY DEF DeviceAssumption, Settle, DeviceTick, Tick, allVars, vars
<1>2. now' = now \/ now' = now + 1
  BY DEF DeviceTick, Tick, Settle, allVars, vars
<1>3. Shared /\ Numbered /\ (~disposed => Logs /\ (~SameInstant => Follows))
  BY DEF DInv
<1>4. IInv'
  <2>1. CASE \E o \in inFlight : Settle(o)
    BY <1>3, <2>1, SettleKeeps DEF Shared
  <2>2. CASE Tick \/ UNCHANGED vars
    BY <1>3, <2>2, TickKeeps DEF Shared
  <2> QED BY <2>1, <2>2 DEF DeviceTick, allVars
<1>5. /\ now \in Nat /\ now' \in Nat /\ now <= now' /\ checkedAt \in Nat
      /\ \A o \in queued : o.time \in Nat
      /\ \A u \in DOMAIN states : u \in Nat
  BY <1>2, <1>3, Types
<1>6. Shared'
  <2>1. TypeOK' /\ checkedAt' <= now'
    BY <1>1, <1>3, <1>4, <1>5 DEF IInv, Shared, deviceVars
  <2> QED BY <1>1, <1>3, <1>4, <2>1 DEF Shared, DeviceTypeOK, deviceVars, logVars, Time
<1>7. Numbered'
  BY <1>1, <1>3, <1>5 DEF Numbered
<1>8. CASE ~disposed
  <2>1. Logs'
    <3>1. ASSUME NEW o \in queued
          PROVE  \E u \in DOMAIN states : u = o.time \/ (o.time < u /\ u < now')
      <4>1. PICK u \in DOMAIN states : u = o.time \/ (o.time < u /\ u < now)
        BY <1>3, <1>8 DEF Logs
      <4>2. u = o.time \/ (o.time < u /\ u < now')
        BY <1>5, <4>1
      <4> QED BY <4>2
    <3> QED BY <1>1, <1>3, <1>8, <3>1 DEF Logs, deviceVars, logVars
  <2>2. ~SameInstant => Follows'
    <3>1. SUFFICES ASSUME ~SameInstant, NEW u \in Int, u >= now' - 1, u >= checkedAt
                   PROVE  Applied(payload, device, By(u)) = At(states, u)
      BY <1>1 DEF Follows, By, At, StateAt, deviceVars, logVars
    <3>2. u >= now - 1
      <4>1. \A x, y \in Nat : x <= y => \A z \in Int : z >= y - 1 => z >= x - 1
        OBVIOUS
      <4> QED BY <1>5, <3>1, <4>1
    <3> QED BY <1>3, <1>8, <3>1, <3>2 DEF Follows
  <2> QED BY <1>6, <1>7, <2>1, <2>2 DEF DInv
<1>9. CASE disposed
  BY <1>1, <1>6, <1>7, <1>9 DEF DInv
<1> QED BY <1>8, <1>9

(* Nothing is queued for a time after the last logged one.                 *)
LEMMA clearFutureKeeps ==
  ASSUME DInv, DeviceAssumption, clearFuture
  PROVE  DInv'
<1>1. /\ ~disposed /\ DOMAIN states # {}
      /\ queued' = {o \in queued : o.time <= Latest(DOMAIN states)}
      /\ UNCHANGED <<now, ready, sending, inFlight, timeout, overwritten, nextId, disposed>>
      /\ UNCHANGED deviceVars
  BY DEF clearFuture, clearQueueAfter
<1>2. Shared /\ Numbered /\ Logs /\ (~SameInstant => Follows)
  BY <1>1 DEF DInv
<1>3. /\ now \in Nat /\ MaxTime \in Nat /\ DOMAIN states \in SUBSET (0 .. MaxTime)
      /\ \A o \in queued : o.time \in Nat
      /\ \A u \in DOMAIN states : u \in Nat
  BY <1>2, Types DEF Instants
<1>4. Latest(DOMAIN states) \in Nat /\ \A u \in DOMAIN states : u <= Latest(DOMAIN states)
  BY <1>1, <1>3, LatestIs
<1>5. ASSUME NEW o \in queued PROVE o.time <= Latest(DOMAIN states)
  <2>1. PICK u \in DOMAIN states : u = o.time \/ (o.time < u /\ u < now)
    BY <1>2 DEF Logs
  <2> QED BY <1>3, <1>4, <2>1
<1>6. queued' = queued
  BY <1>1, <1>5
<1>7. UNCHANGED allVars
  BY <1>1, <1>6 DEF allVars, vars
<1> QED BY <1>7, OtherKeeps

LEMMA DeviceNextKeeps ==
  ASSUME DInv, DeviceAssumption, [DeviceNext]_allVars
  PROVE  DInv'
<1>1. CASE \E t \in Instants : prepareForHandleState(t)
  BY <1>1, prepareKeeps
<1>2. CASE \E s \in DeviceState : handleState(s)
  BY <1>2, handleStateKeeps
<1>3. CASE \E s \in DeviceState : handedAgain(s)
  BY <1>3, handedAgainKeeps
<1>4. CASE clearFuture
  BY <1>4, clearFutureKeeps
<1>5. CASE terminate
  BY <1>5, terminateKeeps
<1>6. CASE DeviceCheck
  BY <1>6, CheckShows
<1>7. CASE \/ (\E o \in inFlight : Settle(o)) /\ UNCHANGED deviceVars
           \/ DeviceTick
           \/ UNCHANGED allVars
  BY <1>7, OtherKeeps
<1> QED BY <1>1, <1>2, <1>3, <1>4, <1>5, <1>6, <1>7 DEF DeviceNext

----------------------------------------------------------------------------
(* The log, the orders and what they change keep their types.              *)
THEOREM DeviceTypeCorrect ==
  ASSUME DeviceAssumption
  PROVE  DeviceSpec => []DeviceTypeOK
<1>1. DeviceInit => DInv
  BY DeviceInitKeeps
<1>2. DInv /\ [DeviceNext]_allVars => DInv'
  BY DeviceNextKeeps
<1>3. DInv => DeviceTypeOK
  BY DEF DInv, Shared
<1> QED BY <1>1, <1>2, <1>3, PTL DEF DeviceSpec

(* Once what is due is sent, the device shows what the log has for this    *)
(* moment, unless the instant that was just checked is written anew.       *)
THEOREM LogIsShown ==
  ASSUME DeviceAssumption, ~SameInstant
  PROVE  DeviceSpec => []ShowsTheLog
<1>1. DeviceInit => DInv
  BY DeviceInitKeeps
<1>2. DInv /\ [DeviceNext]_allVars => DInv'
  BY DeviceNextKeeps
<1>3. ASSUME DInv, ~disposed, Due = {} PROVE device = Logged
  <2>1. Shared /\ Numbered /\ Follows
    BY <1>3 DEF DInv
  <2>2. now \in Int /\ now >= now - 1 /\ now >= checkedAt
    BY <2>1, Types DEF Shared
  <2>3. Applied(payload, device, By(now)) = At(states, now)
    BY <2>1, <2>2 DEF Follows
  <2>4. By(now) = {}
    BY <1>3 DEF By, Due
  <2>5. Applied(payload, device, {}) = [l \in Layers |-> device[l]]
    BY DEF Applied, Touching
  <2>6. device = [l \in Layers |-> device[l]]
    BY <2>1 DEF Shared, DeviceTypeOK, DeviceState
  <2> QED BY <2>3, <2>4, <2>5, <2>6 DEF Logged, At
<1>4. DInv => ShowsTheLog
  BY <1>3 DEF ShowsTheLog
<1> QED BY <1>1, <1>2, <1>4, PTL DEF DeviceSpec

(* It changes only in a check, and at once to what the log has.            *)
THEOREM LogIsFollowed ==
  ASSUME DeviceAssumption, ~SameInstant
  PROVE  DeviceSpec => FollowsTheLog
<1>1. DeviceInit => DInv
  BY DeviceInitKeeps
<1>2. DInv /\ [DeviceNext]_allVars => DInv'
  BY DeviceNextKeeps
<1>3. ASSUME DInv, [DeviceNext]_allVars PROVE [MovesWithTheLog]_allVars
  <2>1. CASE DeviceCheck
    BY <1>3, <2>1, CheckShows
  <2>2. CASE ~DeviceCheck
    <3>1. device' = device
      BY <1>3, <2>2 DEF DeviceNext, prepareForHandleState, handleState, handedAgain, Handle,
        clearFuture, terminate, DeviceTick, deviceVars, allVars
    <3> QED BY <3>1 DEF MovesWithTheLog
  <2> QED BY <2>1, <2>2
<1>4. DInv /\ [DeviceNext]_allVars => [MovesWithTheLog]_allVars
  BY <1>3
<1> QED BY <1>1, <1>2, <1>4, PTL DEF DeviceSpec, FollowsTheLog
=============================================================================
