------------------------- MODULE StateHandlerProofs -------------------------
(***************************************************************************)
(* What service/stateHandler.ts guarantees for every value of the          *)
(* constants of StateHandler: what is on its queue is prepared and never   *)
(* stuck, and, with what is added in the second half about when an         *)
(* execution may begin, it keeps what DeviceSchedule promises and is early *)
(* in one way only, which is not open to a handler in the main process     *)
(* unless a device's states are handed over twice in one go.               *)
(***************************************************************************)
EXTENDS StateHandler, TLAPS, WellFoundedInduction

(* Every nonempty set of natural numbers has a least element. *)
LEMMA LeastNatural ==
  ASSUME NEW T \in SUBSET Nat, T # {}
  PROVE  \E x \in T : \A y \in T : x <= y
<1>1. \E x \in T : \A y \in T : ~ (<<y, x>> \in OpToRel(<, Nat))
  BY NatLessThanWellFounded, WFMin
<1>2. PICK x \in T : \A y \in T : ~ (<<y, x>> \in OpToRel(<, Nat))
  BY <1>1
<1>3. ASSUME NEW y \in T PROVE x <= y
  <2>1. ~ (y < x)
    BY <1>2, <1>3 DEF OpToRel
  <2> QED BY <2>1
<1> QED BY <1>2, <1>3

(* The head of a nonempty queue is one of its states, and none is earlier; *)
(* in a queue without equal times it is the only such state.               *)
LEMMA HeadIsLeast ==
  ASSUME NEW q \in SUBSET Entry, q # {}
  PROVE  /\ HeadOf(q) \in q
         /\ \A f \in q : HeadOf(q).time <= f.time
<1> DEFINE T == {e.time : e \in q}
<1>1. T \in SUBSET Nat /\ T # {}
  BY BoundsAssumption DEF Entry, Time
<1>2. PICK x \in T : \A y \in T : x <= y
  BY <1>1, LeastNatural
<1>3. PICK e \in q : e.time = x
  BY <1>2
<1>4. \A f \in q : e.time <= f.time
  BY <1>2, <1>3
<1> QED BY <1>4 DEF HeadOf

LEMMA HeadIsUnique ==
  ASSUME NEW q \in SUBSET Entry, NEW h \in q,
         \A f \in q : h.time <= f.time, Distinct(q)
  PROVE  HeadOf(q) = h
<1>1. HeadOf(q) \in q /\ HeadOf(q).time <= h.time
  BY HeadIsLeast
<1>2. HeadOf(q).time \in Int /\ h.time \in Int
  BY <1>1, BoundsAssumption DEF Entry, Time
<1>3. HeadOf(q).time = h.time
  BY <1>1, <1>2
<1> QED BY <1>1, <1>3 DEF Distinct

(* Preparing the head changes its commands and nothing else. *)
LEMMA PreparedHead ==
  ASSUME NEW q \in SUBSET Entry, q # {}, Distinct(q),
         NEW b \in Devices \cup {Failed}
  PROVE  /\ Prepared(q, b) \in SUBSET Entry
         /\ Distinct(Prepared(q, b))
         /\ HeadOf(Prepared(q, b)).commands = b
         /\ \A e \in Prepared(q, b) : \E f \in q : f.id = e.id
<1> DEFINE h == HeadOf(q)
           g == [h EXCEPT !.commands = b]
<1>1. h \in q /\ \A f \in q : h.time <= f.time
  BY HeadIsLeast
<1>2. g \in Entry /\ g.id = h.id /\ g.time = h.time /\ g.commands = b
  BY <1>1 DEF Entry
<1> HIDE DEF h
<1>3. Prepared(q, b) = (q \ {h}) \cup {g}
  BY DEF Prepared, h
<1> HIDE DEF g
<1>4. Prepared(q, b) \in SUBSET Entry
  BY <1>2, <1>3
<1>5. Distinct(Prepared(q, b))
  BY <1>1, <1>2, <1>3 DEF Distinct
<1>6. \A f \in Prepared(q, b) : g.time <= f.time
  BY <1>1, <1>2, <1>3, BoundsAssumption DEF Entry, Time
<1>7. HeadOf(Prepared(q, b)) = g
  BY <1>3, <1>4, <1>5, <1>6, HeadIsUnique
<1> QED BY <1>1, <1>2, <1>3, <1>4, <1>5, <1>7

(* What calculateNextStateChange leaves behind: the queue's states with a  *)
(* prepared head, and at most one more question.                           *)
CalculatedTo(q, cs, p, q2, p2) ==
  IF cs = Undefined \/ q = {}
  THEN q2 = q /\ p2 = p
  ELSE /\ \E b \in Bases(cs) : q2 = Prepared(q, b)
       /\ p2 = Ask(p, "calculate", HeadOf(q).time)

LEMMA Calculated ==
  ASSUME NEW q \in SUBSET Entry, Distinct(q), NEW cs \in Devices \cup {Undefined},
         NEW p \in Seq(Question), NEW q2, NEW p2, CalculatedTo(q, cs, p, q2, p2)
  PROVE  /\ q2 \in SUBSET Entry
         /\ Distinct(q2)
         /\ \A e \in q2 : \E f \in q : f.id = e.id
         /\ cs # Undefined /\ q2 # {} => HeadOf(q2).commands \in Bases(cs)
         /\ p2 \in Seq(Question)
         /\ \/ p2 = p
            \/ /\ cs # Undefined
               /\ \E r \in Question : r.kind = "calculate" /\ p2 = Append(p, r)
<1>1. CASE cs = Undefined \/ q = {}
  BY <1>1 DEF CalculatedTo
<1>2. CASE cs # Undefined /\ q # {}
  <2>1. PICK b \in Bases(cs) : q2 = Prepared(q, b)
    BY <1>2 DEF CalculatedTo
  <2>2. b \in Devices \cup {Failed}
    BY <1>2 DEF Bases
  <2>3. /\ q2 \in SUBSET Entry
        /\ Distinct(q2)
        /\ HeadOf(q2).commands = b
        /\ \A e \in q2 : \E f \in q : f.id = e.id
    BY <1>2, <2>1, <2>2, PreparedHead
  <2>4. HeadOf(q).time \in Time
    BY <1>2, HeadIsLeast DEF Entry
  <2> DEFINE r == [kind |-> "calculate", due |-> HeadOf(q).time, answer |-> Unanswered]
  <2>5. r \in Question /\ r.kind = "calculate"
    BY <2>4 DEF Question
  <2>6. p2 = Append(p, r)
    BY <1>2 DEF CalculatedTo, Ask
  <2> HIDE DEF r
  <2>7. p2 \in Seq(Question)
    BY <2>5, <2>6
  <2> QED BY <1>2, <2>1, <2>3, <2>5, <2>6, <2>7
<1> QED BY <1>1, <1>2

----------------------------------------------------------------------------
(* The questions in flight tell how far the handler has come: the one of   *)
(* the constructor is the oldest, a diff is awaited only once that one was *)
(* answered, and none is awaited by an execution.                          *)
InitFirst ==
  \A i \in 1 .. Len(pending) : pending[i].kind = "init" =>
    i = 1 /\ currentState = Undefined /\ timers = {} /\ ~executing
NoShift == \A i \in 1 .. Len(pending) : pending[i].kind # "shift"
CalculateNeedsState ==
  currentState = Undefined => \A i \in 1 .. Len(pending) : pending[i].kind # "calculate"
WaitingForInit ==
  ~ClockMayFail /\ currentState = Undefined =>
    pending # <<>> /\ Head(pending).kind = "init"
ExecutingBlocked == executing => currentState = Undefined
Unprepared ==
  currentState = Undefined => \A e \in queue : e.commands = NotCalculated
KnownIds == \A e \in queue : e.id < nextId

IInv ==
  /\ TypeOK
  /\ UniqueTimes
  /\ KnownIds
  /\ HeadPrepared
  /\ InitFirst
  /\ NoShift
  /\ CalculateNeedsState
  /\ WaitingForInit
  /\ ExecutingBlocked
  /\ Unprepared

LEMMA InitIInv == Init => IInv
<1> SUFFICES ASSUME Init PROVE IInv
  OBVIOUS
<1> DEFINE r == [kind |-> "init", due |-> 0, answer |-> Unanswered]
<1>1. r \in Question /\ r.kind = "init"
  BY BoundsAssumption DEF Question, Time
<1>2. pending = <<r>>
  BY DEF Init, Ask
<1> HIDE DEF r
<1>3. TypeOK
  <2>1. now \in Time /\ nextId \in 1 .. MaxStates + 1
    BY BoundsAssumption DEF Init, Time
  <2>2. pending \in Seq(Question)
    BY <1>1, <1>2
  <2>3. currentState \in Devices \cup {Undefined} /\ queue \in SUBSET Entry /\ timers \in SUBSET Timer
    BY DEF Init
  <2>4. executing \in BOOLEAN /\ clockOn \in BOOLEAN
    BY DEF Init
  <2> QED BY <2>1, <2>2, <2>3, <2>4 DEF TypeOK
<1>4. UniqueTimes /\ KnownIds /\ HeadPrepared /\ ExecutingBlocked /\ Unprepared
  BY DEF Init, UniqueTimes, Distinct, KnownIds, HeadPrepared, ExecutingBlocked, Unprepared
<1>5. InitFirst /\ NoShift /\ CalculateNeedsState /\ WaitingForInit
  BY <1>1, <1>2 DEF Init, InitFirst, NoShift, CalculateNeedsState, WaitingForInit
<1> QED BY <1>3, <1>4, <1>5 DEF IInv

----------------------------------------------------------------------------
(* The questions p, of which no diff is awaited without a current state,   *)
(* and none is left of the constructor or of an execution.                 *)
Settled(p, cs) ==
  /\ p \in Seq(Question)
  /\ \A i \in 1 .. Len(p) : p[i].kind # "shift" /\ p[i].kind # "init"
  /\ cs = Undefined => \A i \in 1 .. Len(p) : p[i].kind # "calculate"

LEMMA SettledAppend ==
  ASSUME NEW p, NEW cs, NEW r \in Question, Settled(p, cs),
         cs # Undefined, r.kind = "calculate"
  PROVE  Settled(Append(p, r), cs)
<1>1. p \in Seq(Question)
  BY DEF Settled
<1>2. /\ Append(p, r) \in Seq(Question)
      /\ Len(Append(p, r)) = Len(p) + 1
      /\ \A i \in 1 .. Len(p) : Append(p, r)[i] = p[i]
      /\ Append(p, r)[Len(p) + 1] = r
      /\ Len(p) \in Nat
  BY <1>1
<1>3. ASSUME NEW i \in 1 .. Len(Append(p, r))
      PROVE  Append(p, r)[i].kind # "shift" /\ Append(p, r)[i].kind # "init"
  <2>1. CASE i = Len(p) + 1
    BY <1>2, <2>1
  <2>2. CASE i \in 1 .. Len(p)
    BY <1>2, <2>2 DEF Settled
  <2> QED BY <1>2, <1>3, <2>1, <2>2
<1> QED BY <1>2, <1>3 DEF Settled

LEMMA SettledTail ==
  ASSUME NEW p \in Seq(Question), p # <<>>, NEW cs,
         \A i \in 1 .. Len(p) : p[i].kind # "shift" /\ (p[i].kind = "init" => i = 1),
         cs = Undefined => \A i \in 1 .. Len(p) : p[i].kind # "calculate"
  PROVE  Settled(Tail(p), cs)
<1>1. /\ Tail(p) \in Seq(Question)
      /\ Len(Tail(p)) = Len(p) - 1
      /\ \A i \in 1 .. Len(p) - 1 : Tail(p)[i] = p[i + 1]
      /\ Len(p) \in Nat
  OBVIOUS
<1>2. \A i \in 1 .. Len(Tail(p)) : i + 1 \in 1 .. Len(p) /\ i + 1 # 1
  BY <1>1
<1> QED BY <1>1, <1>2 DEF Settled

(* executeNextStateChange, begun with the questions p: either nothing is   *)
(* executed, or the head of the queue is, with the commands of its diff    *)
(* from the state before, and the next head is prepared.                   *)
LEMMA ExecuteKeeps ==
  ASSUME IInv, NEW p, Settled(p, currentState), ExecuteNext(p)
  PROVE  /\ queue' \in SUBSET Entry
         /\ Distinct(queue')
         /\ \A e \in queue' : \E f \in queue : f.id = e.id
         /\ currentState' \in Devices \cup {Undefined}
         /\ executing' \in BOOLEAN
         /\ currentState' # Undefined /\ queue' # {} =>
              HeadOf(queue').commands \in Bases(currentState')
         /\ Settled(pending', currentState')
         /\ executing' => currentState' = Undefined
         /\ currentState' = Undefined =>
              currentState = Undefined /\ queue' \in SUBSET queue
         /\ currentState' # currentState =>
              /\ queue # {}
              /\ currentState' = HeadOf(queue).id
              /\ HeadOf(queue).commands \in Bases(currentState)
<1> USE DEF IInv, TypeOK, UniqueTimes
<1>1. CASE queue = {} \/ executing
  <2>1. UNCHANGED <<queue, currentState, executing>> /\ pending' = p
    BY <1>1 DEF ExecuteNext
  <2> QED BY <2>1 DEF HeadPrepared, ExecutingBlocked
<1>2. CASE ~(queue = {} \/ executing)
  <2> DEFINE h == HeadOf(queue)
  <2>1. h \in queue /\ h \in Entry
    BY <1>2, HeadIsLeast
  <2>2. Undefined \notin Devices /\ NotCalculated \notin Devices \cup {Failed}
    BY BoundsAssumption DEF Undefined, NotCalculated, Failed, Devices, Initial, Ids
  <2>3. currentState # Undefined => h.commands \in Bases(currentState) /\ h.commands # NotCalculated
    BY <1>2, <2>2 DEF HeadPrepared, Bases
  <2>4. ShiftHead(p)
    BY <1>2, <2>3 DEF ExecuteNext
  <2>5. CASE h.commands = NotCalculated
    <3>1. /\ executing' = TRUE
          /\ queue' = queue \ {h}
          /\ pending' = p
          /\ currentState' = currentState
      BY <1>2, <2>4, <2>5 DEF ShiftHead, Executed
    <3>2. currentState = Undefined
      BY <2>3, <2>5
    <3> QED BY <3>1, <3>2 DEF Distinct
  <2>6. CASE h.commands # NotCalculated
    <3>1. currentState # Undefined
      BY <2>1, <2>6 DEF Unprepared
    <3>2. /\ currentState' = h.id
          /\ executing' = FALSE
          /\ CalculatedTo(queue \ {h}, h.id, p, queue', pending')
      BY <1>2, <2>4, <2>6 DEF ShiftHead, Executed, Calculate, CalculatedTo
    <3>3. h.id \in Devices /\ h.id # Undefined
      BY <2>1, <2>2 DEF Entry, Devices
    <3>4. queue \ {h} \in SUBSET Entry /\ Distinct(queue \ {h}) /\ p \in Seq(Question)
      BY DEF Distinct, Settled
    <3> HIDE DEF h
    <3>5. /\ queue' \in SUBSET Entry
          /\ Distinct(queue')
          /\ \A e \in queue' : \E f \in queue \ {h} : f.id = e.id
          /\ queue' # {} => HeadOf(queue').commands \in Bases(h.id)
          /\ \/ pending' = p
             \/ \E r \in Question : r.kind = "calculate" /\ pending' = Append(p, r)
      BY <3>2, <3>3, <3>4, Calculated
    <3>6. Settled(p, h.id)
      BY <3>1, <3>3 DEF Settled
    <3>7. Settled(pending', h.id)
      BY <3>3, <3>5, <3>6, SettledAppend
    <3> QED BY <1>2, <2>3, <3>1, <3>2, <3>3, <3>5, <3>7 DEF h
  <2> QED BY <2>5, <2>6
<1> QED BY <1>1, <1>2

----------------------------------------------------------------------------
Questions == InitFirst /\ NoShift /\ CalculateNeedsState /\ WaitingForInit

(* A question of the clock, or of a diff, does not disturb the older ones. *)
LEMMA AppendKeepsQuestions ==
  ASSUME IInv, NEW r \in Question,
         r.kind = "clock" \/ (r.kind = "calculate" /\ currentState # Undefined),
         pending' = Append(pending, r),
         UNCHANGED <<currentState, timers, executing>>
  PROVE  pending' \in Seq(Question) /\ Questions'
<1> USE DEF IInv
<1>1. /\ pending' \in Seq(Question)
      /\ Len(pending) \in Nat
      /\ Len(pending') = Len(pending) + 1
      /\ \A i \in 1 .. Len(pending) : pending'[i] = pending[i]
      /\ pending'[Len(pending) + 1] = r
      /\ pending # <<>> => Head(pending') = Head(pending)
      /\ pending' # <<>>
  BY DEF TypeOK
<1>2. ASSUME NEW i \in 1 .. Len(pending')
      PROVE  \/ i \in 1 .. Len(pending) /\ pending'[i] = pending[i]
             \/ pending'[i] = r
  <2>1. i = Len(pending) + 1 \/ i \in 1 .. Len(pending)
    BY <1>1, <1>2
  <2> QED BY <1>1, <2>1
<1>3. InitFirst' /\ NoShift' /\ CalculateNeedsState'
  BY <1>2 DEF InitFirst, NoShift, CalculateNeedsState
<1>4. WaitingForInit'
  BY <1>1 DEF WaitingForInit
<1> QED BY <1>1, <1>3, <1>4 DEF Questions

(* A settled list of questions is one the invariant allows, if the         *)
(* constructor's question is behind the handler.                           *)
LEMMA SettledQuestions ==
  ASSUME Settled(pending', currentState'), currentState' = Undefined => ClockMayFail
  PROVE  pending' \in Seq(Question) /\ Questions'
BY DEF Settled, Questions, InitFirst, NoShift, CalculateNeedsState, WaitingForInit

(* Once the constructor's question is gone, only a failing clock can have  *)
(* left the handler without a current state.                               *)
LEMMA StateKnown ==
  ASSUME IInv, \A i \in 1 .. Len(pending) : pending[i].kind # "init",
         currentState = Undefined
  PROVE  ClockMayFail
<1> USE DEF IInv
<1>1. CASE pending = <<>>
  BY <1>1, FlagsAssumption DEF WaitingForInit
<1>2. CASE pending # <<>>
  <2>1. Head(pending) = pending[1] /\ 1 \in 1 .. Len(pending)
    BY <1>2 DEF TypeOK
  <2> QED BY <2>1, FlagsAssumption DEF WaitingForInit
<1> QED BY <1>1, <1>2

LEMMA handleStateKeeps ==
  ASSUME IInv, NEW t \in Time, handleState(t)
  PROVE  IInv'
<1> USE DEF IInv
<1> DEFINE new == [id |-> nextId, time |-> t, commands |-> NotCalculated]
           q == {e \in queue : e.time < t} \cup {new}
<1>1. /\ nextId \in Ids /\ nextId' = nextId + 1
      /\ UNCHANGED <<now, currentState, executing, timers, clockOn>>
  BY BoundsAssumption DEF handleState, Kept, TypeOK, Ids
<1>2. new \in Entry
  BY <1>1 DEF Entry
<1>3. q \in SUBSET Entry /\ q # {}
  BY <1>2 DEF TypeOK
<1>4. Distinct(q)
  <2>1. \A e \in queue : e.id # nextId /\ e.time \in Int /\ e.id \in Int
    BY <1>1, BoundsAssumption DEF KnownIds, TypeOK, Entry, Time, Ids
  <2> QED BY <2>1, BoundsAssumption DEF UniqueTimes, Distinct, Time
<1>5. \A e \in q : e.id < nextId'
  BY <1>1, <1>3, BoundsAssumption DEF KnownIds, TypeOK, Entry, Ids
<1>6. currentState = Undefined => \A e \in q : e.commands = NotCalculated
  BY DEF Unprepared
<1>7. now' \in Time /\ timers' \in SUBSET Timer /\ clockOn' \in BOOLEAN
      /\ executing' \in BOOLEAN /\ currentState' \in Devices \cup {Undefined}
      /\ nextId' \in 1 .. MaxStates + 1 /\ ExecutingBlocked'
  BY <1>1, BoundsAssumption DEF TypeOK, Ids, ExecutingBlocked
<1>8. CASE queue # {} /\ HeadOf(q) = HeadOf(queue)
  <2>1. queue' = q /\ pending' = pending
    BY <1>8 DEF handleState, Kept
  <2> HIDE DEF q
  <2>2. TypeOK' /\ Questions'
    BY <1>1, <1>3, <1>7, <2>1
    DEF TypeOK, Questions, InitFirst, NoShift, CalculateNeedsState, WaitingForInit
  <2>3. HeadPrepared'
    BY <1>1, <1>8, <2>1 DEF HeadPrepared
  <2> QED BY <1>1, <1>4, <1>5, <1>6, <1>7, <2>1, <2>2, <2>3
          DEF UniqueTimes, KnownIds, Unprepared, Questions
<1>9. CASE ~(queue # {} /\ HeadOf(q) = HeadOf(queue))
  <2>1. CalculatedTo(q, currentState, pending, queue', pending')
    BY <1>9 DEF handleState, Kept, Calculate, CalculatedTo
  <2> HIDE DEF q
  <2>2. /\ queue' \in SUBSET Entry
        /\ Distinct(queue')
        /\ \A e \in queue' : \E f \in q : f.id = e.id
        /\ currentState # Undefined /\ queue' # {} =>
             HeadOf(queue').commands \in Bases(currentState)
        /\ \/ pending' = pending
           \/ /\ currentState # Undefined
              /\ \E r \in Question : r.kind = "calculate" /\ pending' = Append(pending, r)
    <3>1. pending \in Seq(Question) /\ currentState \in Devices \cup {Undefined}
      BY DEF TypeOK
    <3> DEFINE cs == currentState
               p == pending
               q2 == queue'
               p2 == pending'
    <3>2. q \in SUBSET Entry /\ Distinct(q) /\ cs \in Devices \cup {Undefined}
          /\ p \in Seq(Question) /\ CalculatedTo(q, cs, p, q2, p2)
      BY <1>3, <1>4, <2>1, <3>1
    <3> HIDE DEF cs, p, q2, p2
    <3>3. /\ q2 \in SUBSET Entry
          /\ Distinct(q2)
          /\ \A e \in q2 : \E f \in q : f.id = e.id
          /\ cs # Undefined /\ q2 # {} => HeadOf(q2).commands \in Bases(cs)
          /\ \/ p2 = p
             \/ /\ cs # Undefined
                /\ \E r \in Question : r.kind = "calculate" /\ p2 = Append(p, r)
      BY ONLY <3>2, Calculated
    <3> QED BY <3>3 DEF cs, p, q2, p2
  <2>3. pending' \in Seq(Question) /\ Questions'
    <3>1. CASE pending' = pending
      BY <1>1, <3>1
      DEF TypeOK, Questions, InitFirst, NoShift, CalculateNeedsState, WaitingForInit
    <3>2. CASE pending' # pending
      BY <1>1, <2>2, <3>2, AppendKeepsQuestions
    <3> QED BY <3>1, <3>2
  <2>4. Unprepared'
    BY <1>1, <1>6, <2>1 DEF Unprepared, CalculatedTo
  <2>5. TypeOK'
    BY <1>7, <2>2, <2>3 DEF TypeOK
  <2>6. KnownIds' /\ HeadPrepared' /\ UniqueTimes'
    BY <1>1, <1>5, <2>2 DEF KnownIds, HeadPrepared, UniqueTimes
  <2> QED BY <1>7, <2>3, <2>4, <2>5, <2>6 DEF Questions
<1> QED BY <1>8, <1>9

(* Withdrawing the tail of the queue, or all of it, leaves a prepared head *)
(* prepared: what is left of the queue, if anything, begins with it.       *)
LEMMA WithdrawKeeps ==
  ASSUME IInv, queue' \in SUBSET queue,
         queue # {} /\ queue' # {} => HeadOf(queue) \in queue',
         clockOn' \in BOOLEAN,
         UNCHANGED <<now, currentState, executing, pending, timers, nextId>>
  PROVE  IInv'
<1> USE DEF IInv
<1>1. TypeOK' /\ UniqueTimes' /\ KnownIds' /\ Unprepared'
  BY DEF TypeOK, UniqueTimes, Distinct, KnownIds, Unprepared
<1>2. InitFirst' /\ NoShift' /\ CalculateNeedsState' /\ WaitingForInit' /\ ExecutingBlocked'
  BY DEF InitFirst, NoShift, CalculateNeedsState, WaitingForInit, ExecutingBlocked
<1>3. HeadPrepared'
  <2>1. CASE queue' # {}
    <3> DEFINE h == HeadOf(queue)
               q2 == queue'
    <3>1. q2 \in SUBSET Entry /\ Distinct(q2)
      BY <1>1 DEF TypeOK, UniqueTimes
    <3>2. h \in q2 /\ \A f \in q2 : h.time <= f.time
      BY <2>1, HeadIsLeast DEF TypeOK
    <3> HIDE DEF h, q2
    <3>3. HeadOf(q2) = h
      BY ONLY <3>1, <3>2, HeadIsUnique
    <3> QED BY <2>1, <3>3 DEF h, q2, HeadPrepared
  <2> QED BY <2>1 DEF HeadPrepared
<1> QED BY <1>1, <1>2, <1>3

LEMMA clearKeeps ==
  ASSUME IInv,
         \/ \E t \in Time : clearFutureAfterTimestamp(t)
         \/ clearFutureStates
         \/ terminate
  PROVE  IInv'
<1> USE DEF IInv
<1>1. CASE \E t \in Time : clearFutureAfterTimestamp(t)
  <2>1. PICK t \in Time : clearFutureAfterTimestamp(t)
    BY <1>1
  <2>2. queue # {} /\ queue' # {} => HeadOf(queue) \in queue'
    <3>1. ASSUME queue # {}, queue' # {} PROVE HeadOf(queue) \in queue'
      <4>1. PICK e \in queue : e.time <= t
        BY <2>1, <3>1 DEF clearFutureAfterTimestamp, KeptUpTo
      <4>2. HeadOf(queue) \in queue /\ HeadOf(queue).time <= e.time
        BY <3>1, HeadIsLeast DEF TypeOK
      <4>3. HeadOf(queue).time \in Int /\ e.time \in Int /\ t \in Int
        BY <4>2, BoundsAssumption DEF TypeOK, Entry, Time
      <4> QED BY <2>1, <4>1, <4>2, <4>3 DEF clearFutureAfterTimestamp, KeptUpTo
    <3> QED BY <3>1
  <2>3. clockOn' \in BOOLEAN /\ queue' \in SUBSET queue
    BY <2>1 DEF clearFutureAfterTimestamp, KeptUpTo, TypeOK
  <2> QED BY <2>1, <2>2, <2>3, WithdrawKeeps DEF clearFutureAfterTimestamp
<1>2. CASE clearFutureStates
  <2>1. clockOn' \in BOOLEAN
    BY <1>2 DEF clearFutureStates, TypeOK
  <2> QED BY <1>2, <2>1, WithdrawKeeps DEF clearFutureStates
<1>3. CASE terminate
  <2>1. clockOn' \in BOOLEAN
    BY <1>3 DEF terminate
  <2> QED BY <1>3, <2>1, WithdrawKeeps DEF terminate
<1> QED BY <1>1, <1>2, <1>3

LEMMA ClockTickKeeps ==
  ASSUME IInv, ClockTick
  PROVE  IInv'
<1>1. \E r \in Question : r.kind = "clock" /\ pending' = Append(pending, r)
  BY BoundsAssumption DEF Question, Time, ClockTick, Ask
<1>2. UNCHANGED <<now, queue, currentState, executing, timers, clockOn, nextId>>
  BY DEF ClockTick
<1>3. pending' \in Seq(Question) /\ Questions'
  <2>1. UNCHANGED <<currentState, timers, executing>>
    BY <1>2
  <2> QED BY <1>1, <2>1, AppendKeepsQuestions
<1>4. TypeOK' /\ UniqueTimes' /\ KnownIds' /\ Unprepared' /\ HeadPrepared' /\ ExecutingBlocked'
  BY <1>2, <1>3
  DEF TypeOK, UniqueTimes, KnownIds, Unprepared, HeadPrepared, ExecutingBlocked, IInv
<1> QED BY <1>3, <1>4 DEF Questions, IInv

LEMMA AnswerTimeKeeps ==
  ASSUME IInv, AnswerTime
  PROVE  IInv'
<1> USE DEF IInv
<1>1. PICK i \in 1 .. Len(pending) : pending' = [pending EXCEPT ![i].answer = now]
  BY DEF AnswerTime
<1>2. UNCHANGED <<now, queue, currentState, executing, timers, clockOn, nextId>>
  BY DEF AnswerTime
<1>3. pending \in Seq(Question) /\ now \in Time
  BY DEF TypeOK
<1>4. /\ pending' \in Seq(Question)
      /\ Len(pending') = Len(pending)
      /\ \A j \in 1 .. Len(pending) : pending'[j].kind = pending[j].kind
      /\ pending # <<>> => pending' # <<>> /\ Head(pending').kind = Head(pending).kind
  <2>1. pending[i] \in Question
    BY <1>3
  <2>2. [pending[i] EXCEPT !.answer = now] \in Question
    BY <1>3, <2>1 DEF Question
  <2>3. pending' = [pending EXCEPT ![i] = [pending[i] EXCEPT !.answer = now]]
    BY <1>1
  <2>4. pending' \in Seq(Question) /\ Len(pending') = Len(pending)
    BY <1>3, <2>2, <2>3
  <2>5. \A j \in 1 .. Len(pending) : pending'[j].kind = pending[j].kind
    BY <1>3, <2>1, <2>3 DEF Question
  <2>6. pending # <<>> => pending' # <<>> /\ Head(pending').kind = Head(pending).kind
    BY <1>3, <2>4, <2>5
  <2> QED BY <2>4, <2>5, <2>6
<1>5. InitFirst' /\ NoShift' /\ CalculateNeedsState' /\ WaitingForInit'
  BY <1>2, <1>4 DEF InitFirst, NoShift, CalculateNeedsState, WaitingForInit
<1>6. TypeOK' /\ UniqueTimes' /\ KnownIds' /\ Unprepared' /\ HeadPrepared' /\ ExecutingBlocked'
  BY <1>2, <1>4
  DEF TypeOK, UniqueTimes, KnownIds, Unprepared, HeadPrepared, ExecutingBlocked
<1> QED BY <1>5, <1>6

----------------------------------------------------------------------------
(* The steps that may execute: what ExecuteKeeps says of them is enough.   *)
LEMMA ExecutionKeeps ==
  ASSUME IInv, NEW p, Settled(p, currentState), ExecuteNext(p),
         currentState = Undefined => ClockMayFail,
         now' \in Time, timers' \in SUBSET Timer, clockOn' \in BOOLEAN,
         nextId' = nextId
  PROVE  IInv'
<1>1. /\ queue' \in SUBSET Entry
      /\ Distinct(queue')
      /\ \A e \in queue' : \E f \in queue : f.id = e.id
      /\ currentState' \in Devices \cup {Undefined}
      /\ executing' \in BOOLEAN
      /\ currentState' # Undefined /\ queue' # {} =>
           HeadOf(queue').commands \in Bases(currentState')
      /\ Settled(pending', currentState')
      /\ executing' => currentState' = Undefined
      /\ currentState' = Undefined =>
           currentState = Undefined /\ queue' \in SUBSET queue
  BY ExecuteKeeps
<1> USE DEF IInv
<1>2. pending' \in Seq(Question) /\ Questions'
  BY <1>1, SettledQuestions
<1>3. TypeOK'
  BY <1>1, <1>2 DEF TypeOK
<1>4. UniqueTimes' /\ KnownIds' /\ HeadPrepared' /\ ExecutingBlocked' /\ Unprepared'
  BY <1>1
  DEF UniqueTimes, KnownIds, HeadPrepared, ExecutingBlocked, Unprepared
<1> QED BY <1>2, <1>3, <1>4 DEF Questions

LEMMA FireTimerKeeps ==
  ASSUME IInv, NEW m \in timers, FireTimer(m)
  PROVE  IInv'
<1>1. /\ UNCHANGED <<now, clockOn, nextId>>
      /\ timers' \in SUBSET timers
      /\ timers # {}
  BY DEF FireTimer
<1>2. \A i \in 1 .. Len(pending) : pending[i].kind # "init"
  BY <1>1 DEF IInv, InitFirst
<1>3. CASE ~executing /\ queue # {} /\ HeadOf(queue).id = m.id
  <2>1. ExecuteNext(pending)
    BY <1>3 DEF FireTimer
  <2>2. Settled(pending, currentState)
    BY <1>2 DEF IInv, TypeOK, Settled, NoShift, CalculateNeedsState
  <2>3. currentState = Undefined => ClockMayFail
    BY <1>2, StateKnown
  <2>4. now' \in Time /\ timers' \in SUBSET Timer /\ clockOn' \in BOOLEAN /\ nextId' = nextId
    BY <1>1 DEF IInv, TypeOK
  <2> QED BY <2>1, <2>2, <2>3, <2>4, ExecutionKeeps
<1>4. CASE ~(~executing /\ queue # {} /\ HeadOf(queue).id = m.id)
  <2>1. UNCHANGED <<queue, currentState, executing, pending>>
    BY <1>4 DEF FireTimer
  <2>2. TypeOK' /\ UniqueTimes' /\ KnownIds' /\ Unprepared' /\ HeadPrepared' /\ ExecutingBlocked'
    BY <1>1, <2>1
    DEF IInv, TypeOK, UniqueTimes, KnownIds, Unprepared, HeadPrepared, ExecutingBlocked
  <2>3. InitFirst' /\ NoShift' /\ CalculateNeedsState' /\ WaitingForInit'
    BY <1>2, <2>1
    DEF IInv, InitFirst, NoShift, CalculateNeedsState, WaitingForInit
  <2> QED BY <2>2, <2>3 DEF IInv
<1> QED BY <1>3, <1>4

\* What is left of the questions when the oldest leaves is settled.
LEMMA RestIsSettled ==
  ASSUME IInv, pending # <<>>
  PROVE  /\ Settled(Tail(pending), currentState)
         /\ Head(pending) = pending[1] /\ 1 \in 1 .. Len(pending)
<1>1. pending \in Seq(Question)
  BY DEF IInv, TypeOK
<1>2. \A i \in 1 .. Len(pending) :
        pending[i].kind # "shift" /\ (pending[i].kind = "init" => i = 1)
  BY DEF IInv, NoShift, InitFirst
<1>3. currentState = Undefined => \A i \in 1 .. Len(pending) : pending[i].kind # "calculate"
  BY DEF IInv, CalculateNeedsState
<1> QED BY <1>1, <1>2, <1>3, SettledTail

LEMMA DeliverInitKeeps ==
  ASSUME IInv, DeliverInit
  PROVE  IInv'
<1> DEFINE q == queue
           p == Tail(pending)
           q2 == queue'
           p2 == pending'
<1>1. /\ currentState' = Initial
      /\ CalculatedTo(q, Initial, p, q2, p2)
      /\ UNCHANGED <<now, executing, timers, clockOn, nextId>>
  BY DEF DeliverInit, Calculate, CalculatedTo
<1>2. pending # <<>> /\ Head(pending).kind = "init"
  BY DEF DeliverInit, Delivered
<1>3. Settled(p, currentState) /\ Head(pending) = pending[1] /\ 1 \in 1 .. Len(pending)
  BY <1>2, RestIsSettled
<1>4. ~executing
  BY <1>2, <1>3 DEF IInv, InitFirst
<1>5. Initial \in Devices /\ Initial # Undefined
  BY DEF Devices, Initial, Undefined
<1>6. q \in SUBSET Entry /\ Distinct(q) /\ p \in Seq(Question) /\ Settled(p, Initial)
  BY <1>3, <1>5 DEF IInv, TypeOK, UniqueTimes, Settled
<1> HIDE DEF q, p, q2, p2
<1>7. /\ q2 \in SUBSET Entry
      /\ Distinct(q2)
      /\ \A e \in q2 : \E f \in q : f.id = e.id
      /\ q2 # {} => HeadOf(q2).commands \in Bases(Initial)
      /\ \/ p2 = p
         \/ \E r \in Question : r.kind = "calculate" /\ p2 = Append(p, r)
  BY <1>1, <1>5, <1>6, Calculated
<1>8. Settled(p2, Initial)
  BY <1>5, <1>6, <1>7, SettledAppend
<1>9. pending' \in Seq(Question) /\ Questions'
  BY <1>1, <1>5, <1>8, SettledQuestions DEF p2
<1>10. TypeOK'
  BY <1>1, <1>5, <1>7, <1>9 DEF IInv, TypeOK, q2
<1>11. UniqueTimes' /\ KnownIds' /\ HeadPrepared' /\ ExecutingBlocked' /\ Unprepared'
  BY <1>1, <1>4, <1>5, <1>7
  DEF IInv, UniqueTimes, KnownIds, HeadPrepared, ExecutingBlocked, Unprepared, q, q2
<1> QED BY <1>9, <1>10, <1>11 DEF IInv, Questions

LEMMA DeliverClockKeeps ==
  ASSUME IInv, DeliverClock
  PROVE  IInv'
<1>1. /\ pending' = Tail(pending)
      /\ UNCHANGED <<now, queue, currentState, executing, clockOn, nextId>>
      /\ pending # <<>> /\ Head(pending).kind = "clock"
      /\ Head(pending).answer # Unanswered
  BY DEF DeliverClock, Delivered
<1>2. Settled(Tail(pending), currentState) /\ Head(pending) = pending[1] /\ 1 \in 1 .. Len(pending)
  BY <1>1, RestIsSettled
<1>3. \A i \in 1 .. Len(pending) : pending[i].kind # "init"
  BY <1>1, <1>2 DEF IInv, InitFirst
<1>4. currentState = Undefined => ClockMayFail
  BY <1>3, StateKnown
<1>5. pending' \in Seq(Question) /\ Questions'
  <2>1. Settled(pending', currentState') /\ (currentState' = Undefined => ClockMayFail)
    BY <1>1, <1>2, <1>4
  <2> QED BY <2>1, SettledQuestions
<1>6. timers' \in SUBSET Timer
  <2>1. Head(pending).answer \in Time /\ now \in Time
    <3>1. pending \in Seq(Question) /\ now \in Time
      BY DEF IInv, TypeOK
    <3>2. Head(pending) \in Question
      BY <1>2, <3>1
    <3> QED BY <1>1, <3>1, <3>2 DEF Question
  <2>2. queue \in SUBSET Entry /\ timers \in SUBSET Timer
    BY DEF IInv, TypeOK
  <2>3. ASSUME NEW m \in timers' PROVE m \in Timer
    <3>1. CASE m \in timers
      BY <2>2, <3>1
    <3>2. CASE m \notin timers
      <4>1. PICK e \in queue :
              m = [id |-> e.id,
                   at |-> now + (IF e.time > Head(pending).answer
                                 THEN e.time - Head(pending).answer ELSE 0)]
        BY <3>2, <2>3 DEF DeliverClock, Wait
      <4>2. e.id \in Ids /\ e.time \in Time
        BY <2>2 DEF Entry
      <4> QED BY <2>1, <4>1, <4>2, BoundsAssumption DEF Timer, Time
    <3> QED BY <3>1, <3>2
  <2> QED BY <2>3
<1>7. TypeOK'
  BY <1>1, <1>5, <1>6 DEF IInv, TypeOK
<1>8. UniqueTimes' /\ KnownIds' /\ HeadPrepared' /\ ExecutingBlocked' /\ Unprepared'
  BY <1>1
  DEF IInv, UniqueTimes, KnownIds, HeadPrepared, ExecutingBlocked, Unprepared
<1> QED BY <1>5, <1>7, <1>8 DEF IInv, Questions

LEMMA DeliverCalculatedKeeps ==
  ASSUME IInv, DeliverCalculated
  PROVE  IInv'
<1>1. /\ UNCHANGED <<now, timers, clockOn, nextId>>
      /\ pending # <<>>
      /\ Head(pending).kind \in {"calculate", "shift"}
  BY DEF DeliverCalculated, Delivered
<1>2. Settled(Tail(pending), currentState) /\ Head(pending) = pending[1] /\ 1 \in 1 .. Len(pending)
  BY <1>1, RestIsSettled
<1>3. \A i \in 1 .. Len(pending) : pending[i].kind # "init"
  BY <1>1, <1>2 DEF IInv, InitFirst
<1>4. currentState = Undefined => ClockMayFail
  BY <1>3, StateKnown
<1>5. Head(pending).kind = "calculate"
  BY <1>1, <1>2 DEF IInv, NoShift
<1>6. CASE Head(pending).due <= Head(pending).answer /\ currentState # Undefined
  <2>1. ExecuteNext(Tail(pending))
    BY <1>5, <1>6 DEF DeliverCalculated
  <2>2. now' \in Time /\ timers' \in SUBSET Timer /\ clockOn' \in BOOLEAN /\ nextId' = nextId
    BY <1>1 DEF IInv, TypeOK
  <2> QED BY <1>2, <1>4, <2>1, <2>2, ExecutionKeeps
<1>7. CASE ~(Head(pending).due <= Head(pending).answer /\ currentState # Undefined)
  <2>1. pending' = Tail(pending) /\ UNCHANGED <<queue, currentState, executing>>
    BY <1>5, <1>7 DEF DeliverCalculated
  <2>2. pending' \in Seq(Question) /\ Questions'
    <3>1. Settled(pending', currentState') /\ (currentState' = Undefined => ClockMayFail)
      BY <1>2, <1>4, <2>1
    <3> QED BY <3>1, SettledQuestions
  <2>3. TypeOK' /\ UniqueTimes' /\ KnownIds' /\ HeadPrepared' /\ ExecutingBlocked' /\ Unprepared'
    BY <1>1, <2>1, <2>2
    DEF IInv, TypeOK, UniqueTimes, KnownIds, HeadPrepared, ExecutingBlocked, Unprepared
  <2> QED BY <2>2, <2>3 DEF IInv, Questions
<1> QED BY <1>6, <1>7

LEMMA RejectTimeKeeps ==
  ASSUME IInv, RejectTime
  PROVE  IInv'
<1>1. /\ pending # <<>> /\ pending' = Tail(pending) /\ ClockMayFail
      /\ UNCHANGED <<now, queue, currentState, executing, timers, clockOn, nextId>>
  BY DEF RejectTime
<1>2. pending' \in Seq(Question) /\ Questions'
  <2>1. Settled(pending', currentState')
    BY <1>1, RestIsSettled
  <2> QED BY <1>1, <2>1, SettledQuestions
<1>3. TypeOK' /\ UniqueTimes' /\ KnownIds' /\ HeadPrepared' /\ ExecutingBlocked' /\ Unprepared'
  BY <1>1, <1>2
  DEF IInv, TypeOK, UniqueTimes, KnownIds, HeadPrepared, ExecutingBlocked, Unprepared
<1> QED BY <1>2, <1>3 DEF IInv, Questions

LEMMA TickKeeps ==
  ASSUME IInv, Tick \/ UNCHANGED vars
  PROVE  IInv'
<1>1. UNCHANGED <<queue, currentState, executing, pending, timers, clockOn, nextId>>
      /\ now' \in Time
  BY BoundsAssumption DEF Tick, vars, IInv, TypeOK, Time
<1> QED BY <1>1
  DEF IInv, TypeOK, UniqueTimes, KnownIds, HeadPrepared, InitFirst, NoShift,
      CalculateNeedsState, WaitingForInit, ExecutingBlocked, Unprepared

LEMMA NextKeeps == IInv /\ [Next]_vars => IInv'
<1> SUFFICES ASSUME IInv, [Next]_vars PROVE IInv'
  OBVIOUS
<1>1. CASE \E t \in Time : handleState(t)
  BY <1>1, handleStateKeeps
<1>2. CASE \E t \in Time : clearFutureAfterTimestamp(t)
  BY <1>2, clearKeeps
<1>3. CASE clearFutureStates
  BY <1>3, clearKeeps
<1>4. CASE terminate
  BY <1>4, clearKeeps
<1>5. CASE ClockTick
  BY <1>5, ClockTickKeeps
<1>6. CASE \E m \in timers : FireTimer(m)
  BY <1>6, FireTimerKeeps
<1>7. CASE AnswerTime
  BY <1>7, AnswerTimeKeeps
<1>8. CASE DeliverInit
  BY <1>8, DeliverInitKeeps
<1>9. CASE DeliverClock
  BY <1>9, DeliverClockKeeps
<1>10. CASE DeliverCalculated
  BY <1>10, DeliverCalculatedKeeps
<1>11. CASE RejectTime
  BY <1>11, RejectTimeKeeps
<1>12. CASE Tick \/ UNCHANGED vars
  BY <1>12, TickKeeps
<1> QED
  BY <1>1, <1>2, <1>3, <1>4, <1>5, <1>6, <1>7, <1>8, <1>9, <1>10, <1>11, <1>12 DEF Next

----------------------------------------------------------------------------
(* The handler's state keeps its type. *)
THEOREM TypeCorrect == Spec => []TypeOK
<1>1. IInv => TypeOK
  BY DEF IInv
<1> QED BY <1>1, InitIInv, NextKeeps, PTL DEF Spec

(* However handleState, clearFuture, the clock and the answers interleave, *)
(* the next state change always has commands, and they are the difference  *)
(* from the state the device was last commanded to.                        *)
THEOREM HeadAlwaysPrepared == Spec => []HeadPrepared
<1>1. IInv => HeadPrepared
  BY DEF IInv
<1> QED BY <1>1, InitIInv, NextKeeps, PTL DEF Spec

(* While no query of the time is rejected, the early return of lines       *)
(* 164-167, which would block the handler for good, is never taken.        *)
THEOREM HandlerNeverStuck == ASSUME ~ClockMayFail PROVE Spec => []NeverStuck
<1>1. IInv => NeverStuck
  <2> SUFFICES ASSUME IInv PROVE ~executing
    BY DEF NeverStuck
  <2>1. SUFFICES ASSUME executing PROVE FALSE
    OBVIOUS
  <2>2. currentState = Undefined
    BY <2>1 DEF IInv, ExecutingBlocked
  <2>3. pending # <<>> /\ Head(pending).kind = "init"
    BY <2>2, FlagsAssumption DEF IInv, WaitingForInit
  <2>4. Head(pending) = pending[1] /\ 1 \in 1 .. Len(pending)
    BY <2>3, RestIsSettled
  <2> QED BY <2>1, <2>3, <2>4 DEF IInv, InitFirst
<1> QED BY <1>1, InitIInv, NextKeeps, PTL DEF Spec

(* A step that gives the device a new state executes the head of the       *)
(* queue, or is the end of the construction.                               *)
LEMMA NewStateIsHead ==
  ASSUME IInv, [Next]_vars, currentState' # currentState
  PROVE  \/ currentState' = Initial
         \/ /\ queue # {}
            /\ currentState' = HeadOf(queue).id
            /\ HeadOf(queue).commands \in Bases(currentState)
<1>1. \/ \E m \in timers : FireTimer(m)
      \/ DeliverInit
      \/ DeliverCalculated
  BY DEF Next, vars, handleState, clearFutureAfterTimestamp, clearFutureStates,
         terminate, ClockTick, AnswerTime, DeliverClock, RejectTime, Tick
<1>2. CASE \E m \in timers : FireTimer(m)
  <2>1. timers # {} /\ ExecuteNext(pending)
    BY <1>2 DEF FireTimer
  <2>2. Settled(pending, currentState)
    BY <2>1 DEF IInv, TypeOK, InitFirst, Settled, NoShift, CalculateNeedsState
  <2> QED BY <2>1, <2>2, ExecuteKeeps
<1>3. CASE DeliverInit
  BY <1>3 DEF DeliverInit
<1>4. CASE DeliverCalculated
  <2>1. pending # <<>>
    BY <1>4 DEF DeliverCalculated, Delivered
  <2>2. Settled(Tail(pending), currentState) /\ Head(pending) = pending[1] /\ 1 \in 1 .. Len(pending)
    BY <2>1, RestIsSettled
  <2>3. Head(pending).kind # "shift"
    BY <2>2 DEF IInv, NoShift
  <2>4. ExecuteNext(Tail(pending))
    BY <1>4, <2>3 DEF DeliverCalculated
  <2> QED BY <2>2, <2>4, ExecuteKeeps
<1> QED BY <1>1, <1>2, <1>3, <1>4

(* The commands a device receives for a state were computed from the state *)
(* it received before: no interleaving makes them start from a state the   *)
(* device has left.                                                        *)
THEOREM DiffsAreFromActual == Spec => DiffFromActual
<1> DEFINE Step == \A e \in queue : currentState' = e.id /\ currentState # e.id =>
                     \E b \in Bases(currentState) : e.commands = b
<1>1. IInv /\ [Next]_vars => Step
  <2> SUFFICES ASSUME IInv, [Next]_vars, NEW e \in queue,
                      currentState' = e.id, currentState # e.id
               PROVE  e.commands \in Bases(currentState)
    OBVIOUS
  <2>1. e.id \in Ids /\ e.id # Initial
    BY DEF IInv, TypeOK, Entry, Ids, Initial
  <2>2. /\ queue # {}
        /\ e.id = HeadOf(queue).id
        /\ HeadOf(queue).commands \in Bases(currentState)
    BY <2>1, NewStateIsHead
  <2>3. HeadOf(queue) \in queue
    BY <2>2, HeadIsLeast DEF IInv, TypeOK
  <2>4. HeadOf(queue) = e
    BY <2>2, <2>3 DEF IInv, UniqueTimes, Distinct
  <2> QED BY <2>2, <2>4
<1>2. IInv /\ [Next]_vars => [Step]_vars
  BY <1>1
<1> QED BY <1>2, InitIInv, NextKeeps, PTL DEF Spec, DiffFromActual

----------------------------------------------------------------------------
(* Executions are begun by a timer or by the end of a diff.  What makes    *)
(* both punctual: a timer is no earlier than the state it is for, and in   *)
(* the main process, unless states come twice in one go, at most one       *)
(* question is open, which compares the time of what is still the head of  *)
(* the queue with a time that has come.                                    *)
TimersWait ==
  \A m \in timers :
    /\ m.id < nextId
    /\ \A e \in queue : e.id = m.id => e.time <= m.at
AnswersPast == \A i \in 1 .. Len(pending) : pending[i].answer <= now
OneQuestion ==
  Orderly =>
    /\ Len(pending) <= 1
    /\ \A i \in 1 .. Len(pending) : pending[i].kind = "calculate" =>
         queue # {} /\ pending[i].due = HeadOf(queue).time

Punctuality == TimersWait /\ AnswersPast /\ OneQuestion

(* The queue without its prepared commands, as DeviceSchedule sees it. *)
Plan(q) == {[id |-> e.id, time |-> e.time] : e \in q}

LEMMA PreparedPlan ==
  ASSUME NEW q \in SUBSET Entry, q # {}, Distinct(q),
         NEW b \in Devices \cup {Failed}
  PROVE  /\ Plan(Prepared(q, b)) = Plan(q)
         /\ HeadOf(Prepared(q, b)).time = HeadOf(q).time
<1> DEFINE h == HeadOf(q)
           g == [h EXCEPT !.commands = b]
<1>1. h \in q /\ \A f \in q : h.time <= f.time
  BY HeadIsLeast
<1>2. g \in Entry /\ g.id = h.id /\ g.time = h.time
  BY <1>1 DEF Entry
<1> HIDE DEF h
<1>3. Prepared(q, b) = (q \ {h}) \cup {g}
  BY DEF Prepared, h
<1> HIDE DEF g
<1>4. Plan(Prepared(q, b)) = Plan(q)
  BY <1>1, <1>2, <1>3 DEF Plan
<1>5. Prepared(q, b) \in SUBSET Entry /\ Distinct(Prepared(q, b))
  BY PreparedHead
<1>6. \A f \in Prepared(q, b) : g.time <= f.time
  BY <1>1, <1>2, <1>3, BoundsAssumption DEF Entry, Time
<1>7. HeadOf(Prepared(q, b)) = g
  BY <1>3, <1>5, <1>6, HeadIsUnique
<1> QED BY <1>2, <1>4, <1>7 DEF h

(* At most one question is added to p, about the queue that is left. *)
AskedOf(p, q2, p2) ==
  \/ p2 = p
  \/ /\ q2 # {}
     /\ \E r \in Question :
          /\ r.kind = "calculate" /\ r.due = HeadOf(q2).time /\ r.answer = Unanswered
          /\ p2 = Append(p, r)

LEMMA CalculatedPlan ==
  ASSUME NEW q \in SUBSET Entry, Distinct(q), NEW cs \in Devices \cup {Undefined},
         NEW p \in Seq(Question), NEW q2, NEW p2, CalculatedTo(q, cs, p, q2, p2)
  PROVE  Plan(q2) = Plan(q) /\ AskedOf(p, q2, p2)
<1>1. CASE cs = Undefined \/ q = {}
  BY <1>1 DEF CalculatedTo, AskedOf
<1>2. CASE cs # Undefined /\ q # {}
  <2>1. PICK b \in Bases(cs) : q2 = Prepared(q, b)
    BY <1>2 DEF CalculatedTo
  <2>2. b \in Devices \cup {Failed}
    BY <1>2 DEF Bases
  <2>3. Plan(q2) = Plan(q) /\ HeadOf(q2).time = HeadOf(q).time
    BY <1>2, <2>1, <2>2, PreparedPlan
  <2>4. HeadOf(q).time \in Time
    BY <1>2, HeadIsLeast DEF Entry
  <2>5. q2 # {}
    BY <2>1 DEF Prepared
  <2> DEFINE r == [kind |-> "calculate", due |-> HeadOf(q).time, answer |-> Unanswered]
  <2>6. r \in Question /\ r.kind = "calculate" /\ r.due = HeadOf(q).time /\ r.answer = Unanswered
    BY <2>4 DEF Question
  <2>7. p2 = Append(p, r)
    BY <1>2 DEF CalculatedTo, Ask
  <2> HIDE DEF r
  <2> QED BY <2>3, <2>5, <2>6, <2>7 DEF AskedOf
<1> QED BY <1>1, <1>2

(* Leaving out one state of a queue leaves it out of the plan. *)
LEMMA PlanWithout ==
  ASSUME NEW q \in SUBSET Entry, Distinct(q), NEW h \in q
  PROVE  Plan(q \ {h}) = Plan(q) \ {[id |-> h.id, time |-> h.time]}
BY DEF Plan, Distinct, Entry

(* executeNextStateChange, begun with the questions p, does nothing, takes *)
(* the head of the queue off the plan and commands the device to it, or,   *)
(* without a current state, loses the head.                                *)
LEMMA Executes ==
  ASSUME IInv, NEW p, Settled(p, currentState), ExecuteNext(p)
  PROVE  \/ UNCHANGED <<queue, currentState>> /\ pending' = p
         \/ /\ currentState = Undefined /\ currentState' = currentState
            /\ queue' \subseteq queue /\ pending' = p
         \/ /\ queue # {} /\ currentState # Undefined
            /\ currentState' = HeadOf(queue).id
            /\ Plan(queue') =
                 Plan(queue) \ {[id |-> HeadOf(queue).id, time |-> HeadOf(queue).time]}
            /\ AskedOf(p, queue', pending')
<1> USE DEF IInv, TypeOK, UniqueTimes
<1>1. CASE queue = {} \/ executing
  BY <1>1 DEF ExecuteNext
<1>2. CASE ~(queue = {} \/ executing)
  <2> DEFINE h == HeadOf(queue)
  <2>1. h \in queue /\ h \in Entry
    BY <1>2, HeadIsLeast
  <2>2. Undefined \notin Devices /\ NotCalculated \notin Devices \cup {Failed}
    BY BoundsAssumption DEF Undefined, NotCalculated, Failed, Devices, Initial, Ids
  <2>3. currentState # Undefined => h.commands # NotCalculated
    BY <1>2, <2>2 DEF HeadPrepared, Bases
  <2>4. ShiftHead(p)
    BY <1>2, <2>3 DEF ExecuteNext
  <2>5. CASE h.commands = NotCalculated
    BY <1>2, <2>3, <2>4, <2>5 DEF ShiftHead
  <2>6. CASE h.commands # NotCalculated
    <3>1. currentState # Undefined
      BY <2>1, <2>6 DEF Unprepared
    <3> DEFINE q2 == queue'
               p2 == pending'
    <3>2. /\ currentState' = h.id
          /\ CalculatedTo(queue \ {h}, h.id, p, q2, p2)
      BY <1>2, <2>4, <2>6 DEF ShiftHead, Executed, Calculate, CalculatedTo
    <3>3. h.id \in Devices \cup {Undefined}
      BY <2>1 DEF Entry, Devices
    <3>4. queue \ {h} \in SUBSET Entry /\ Distinct(queue \ {h}) /\ p \in Seq(Question)
      BY DEF Distinct, Settled
    <3>5. Plan(queue \ {h}) = Plan(queue) \ {[id |-> h.id, time |-> h.time]}
      BY <2>1, PlanWithout
    <3> HIDE DEF h, q2, p2
    <3>6. Plan(q2) = Plan(queue \ {h}) /\ AskedOf(p, q2, p2)
      BY ONLY <3>2, <3>3, <3>4, CalculatedPlan
    <3> QED BY <1>2, <3>1, <3>2, <3>5, <3>6 DEF h, q2, p2
  <2> QED BY <2>5, <2>6
<1> QED BY <1>1, <1>2

----------------------------------------------------------------------------
LEMMA AskedKeeps ==
  ASSUME NEW p \in Seq(Question), Orderly => p = <<>>, now \in Nat, now' = now,
         \A i \in 1 .. Len(p) : p[i].answer <= now,
         AskedOf(p, queue', pending')
  PROVE  AnswersPast' /\ OneQuestion'
<1>1. CASE pending' = p
  BY <1>1 DEF AnswersPast, OneQuestion
<1>2. CASE pending' # p
  <2>1. PICK r \in Question :
          /\ queue' # {}
          /\ r.kind = "calculate" /\ r.due = HeadOf(queue').time /\ r.answer = Unanswered
          /\ pending' = Append(p, r)
    BY <1>2 DEF AskedOf
  <2>2. /\ Len(pending') = Len(p) + 1 /\ Len(p) \in Nat
        /\ pending'[Len(p) + 1] = r
        /\ \A i \in 1 .. Len(p) : pending'[i] = p[i]
    BY <2>1
  <2>3. r.answer <= now'
    BY <2>1 DEF Unanswered
  <2>4. \A i \in 1 .. Len(pending') : i \in 1 .. Len(p) \/ i = Len(p) + 1
    BY <2>2
  <2>5. AnswersPast'
    BY <2>2, <2>3, <2>4 DEF AnswersPast
  <2>6. Orderly => Len(p) = 0
    OBVIOUS
  <2>7. OneQuestion'
    BY <2>1, <2>2, <2>4, <2>6 DEF OneQuestion
  <2> QED BY <2>5, <2>7
<1> QED BY <1>1, <1>2

LEMMA PlanKeepsTimers ==
  ASSUME TimersWait, Plan(queue') \subseteq Plan(queue),
         timers' \subseteq timers, nextId' = nextId
  PROVE  TimersWait'
<1> SUFFICES ASSUME NEW m \in timers', NEW e \in queue', e.id = m.id
             PROVE  e.time <= m.at
  BY DEF TimersWait
<1>1. [id |-> e.id, time |-> e.time] \in Plan(queue)
  BY DEF Plan
<1>2. PICK f \in queue : [id |-> f.id, time |-> f.time] = [id |-> e.id, time |-> e.time]
  BY <1>1 DEF Plan
<1>3. f.id = e.id /\ f.time = e.time
  BY <1>2
<1> QED BY <1>3 DEF TimersWait

(* A call that changes nothing about the question that is open. *)
HeadStays ==
  /\ pending' = pending /\ queue # {} /\ queue' # {}
  /\ HeadOf(queue').time = HeadOf(queue).time

LEMMA HeadStaysKeeps ==
  ASSUME Punctuality, HeadStays, now' = now
  PROVE  AnswersPast' /\ OneQuestion'
BY DEF Punctuality, HeadStays, AnswersPast, OneQuestion

(* handleState replaces the plan from t on. *)
LEMMA HandsOver ==
  ASSUME IInv, NEW t \in Time, handleState(t)
  PROVE  /\ Plan(queue') = {e \in Plan(queue) : e.time < t} \cup {[id |-> nextId, time |-> t]}
         /\ AskedOf(pending, queue', pending')
         /\ nextId' = nextId + 1
         /\ Orderly => pending = <<>> \/ HeadStays
         /\ UNCHANGED <<now, currentState, timers, clockOn>>
<1> USE DEF IInv
<1> DEFINE new == [id |-> nextId, time |-> t, commands |-> NotCalculated]
           q == {e \in queue : e.time < t} \cup {new}
           cs == currentState
           p == pending
           q2 == queue'
           p2 == pending'
<1>1. /\ nextId \in Ids /\ nextId' = nextId + 1
      /\ Orderly => pending = <<>> \/ (queue # {} /\ HeadOf(queue) \in Kept(t))
      /\ UNCHANGED <<now, currentState, timers, clockOn>>
  BY BoundsAssumption
  DEF handleState, TypeOK, Ids, Follows, Repeats, Orderly, Reachable
<1>2. new \in Entry /\ new.id = nextId /\ new.time = t
  BY <1>1 DEF Entry
<1>3. q \in SUBSET Entry
  BY <1>2 DEF TypeOK
<1>4. Distinct(q)
  <2>1. \A e \in queue : e.id # nextId /\ e.time \in Int /\ e.id \in Int
    BY <1>1, BoundsAssumption DEF KnownIds, TypeOK, Entry, Time, Ids
  <2> QED BY <2>1, BoundsAssumption DEF UniqueTimes, Distinct, Time
<1>5. Plan(q) = {e \in Plan(queue) : e.time < t} \cup {[id |-> nextId, time |-> t]}
  BY <1>2 DEF Plan
<1>6. p \in Seq(Question) /\ cs \in Devices \cup {Undefined}
  BY DEF TypeOK
<1>7. \/ q2 = q /\ p2 = p
      \/ CalculatedTo(q, cs, p, q2, p2)
  BY DEF handleState, Kept, Calculate, CalculatedTo
<1>9. ASSUME queue # {}, HeadOf(queue) \in Kept(t) PROVE HeadStays
  <2> DEFINE h == HeadOf(queue)
  <2>1. h \in q /\ h.time < t /\ h.time \in Int /\ t \in Int
    BY <1>9, BoundsAssumption DEF Kept, TypeOK, Entry, Time
  <2>2. \A f \in queue : h.time <= f.time
    BY <1>9, HeadIsLeast DEF TypeOK
  <2> HIDE DEF h
  <2>3. \A f \in q : h.time <= f.time
    BY <1>2, <2>1, <2>2
  <2>4. HeadOf(q) = h
    <3> HIDE DEF q
    <3> QED BY ONLY <1>3, <1>4, <2>1, <2>3, HeadIsUnique
  <2>5. queue' = q /\ pending' = pending
    BY <1>9, <2>4 DEF h, handleState, Kept
  <2> QED BY <1>9, <2>1, <2>4, <2>5 DEF h, HeadStays
<1> HIDE DEF q, cs, p, q2, p2
<1>8. Plan(q2) = Plan(q) /\ AskedOf(p, q2, p2)
  <2>1. CASE q2 = q /\ p2 = p
    BY <2>1 DEF AskedOf
  <2>2. CASE CalculatedTo(q, cs, p, q2, p2)
    BY ONLY <1>3, <1>4, <1>6, <2>2, CalculatedPlan
  <2> QED BY <1>7, <2>1, <2>2
<1> QED BY <1>1, <1>5, <1>8, <1>9 DEF p, q2, p2

(* What a delivered question leaves. *)
LEMMA RestIsPunctual ==
  ASSUME IInv, Punctuality, pending # <<>>
  PROVE  /\ Tail(pending) \in Seq(Question)
         /\ Orderly => Tail(pending) = <<>>
         /\ \A i \in 1 .. Len(Tail(pending)) : Tail(pending)[i].answer <= now
<1>1. /\ pending \in Seq(Question)
      /\ Orderly => Len(pending) <= 1
      /\ \A i \in 1 .. Len(pending) : pending[i].answer <= now
  BY DEF IInv, TypeOK, Punctuality, OneQuestion, AnswersPast
<1>2. /\ Tail(pending) \in Seq(Question)
      /\ Len(Tail(pending)) = Len(pending) - 1 /\ Len(pending) \in Nat
      /\ \A i \in 1 .. Len(pending) - 1 : Tail(pending)[i] = pending[i + 1]
  BY <1>1
<1>3. \A i \in 1 .. Len(Tail(pending)) : i + 1 \in 1 .. Len(pending)
  BY <1>2
<1>4. Len(pending) # 0
  BY <1>1
<1>5. Orderly => Len(Tail(pending)) = 0
  BY <1>1, <1>2, <1>4
<1>6. \A s \in Seq(Question) : Len(s) = 0 => s = <<>>
  OBVIOUS
<1>7. Orderly => Tail(pending) = <<>>
  BY <1>2, <1>5, <1>6
<1> QED BY <1>1, <1>2, <1>3, <1>7

LEMMA InitPunctual == Init => Punctuality
<1> SUFFICES ASSUME Init PROVE Punctuality
  OBVIOUS
<1> DEFINE r == [kind |-> "init", due |-> 0, answer |-> Unanswered]
<1>1. r.kind = "init" /\ r.answer <= 0
  BY DEF Unanswered
<1>2. pending = <<r>>
  BY DEF Init, Ask
<1> HIDE DEF r
<1>3. Len(pending) = 1 /\ \A i \in 1 .. Len(pending) : pending[i] = r
  BY <1>2
<1>4. AnswersPast /\ OneQuestion
  BY <1>1, <1>3 DEF Init, AnswersPast, OneQuestion
<1>5. TimersWait
  BY DEF Init, TimersWait
<1> QED BY <1>4, <1>5 DEF Punctuality

LEMMA handleStatePunctual ==
  ASSUME IInv, Punctuality, NEW t \in Time, handleState(t)
  PROVE  Punctuality'
<1>1. /\ Plan(queue') = {e \in Plan(queue) : e.time < t} \cup {[id |-> nextId, time |-> t]}
      /\ AskedOf(pending, queue', pending')
      /\ nextId' = nextId + 1
      /\ Orderly => pending = <<>> \/ HeadStays
      /\ UNCHANGED <<now, currentState, timers, clockOn>>
  BY HandsOver
<1>2. /\ pending \in Seq(Question) /\ now \in Nat
      /\ \A i \in 1 .. Len(pending) : pending[i].answer <= now
      /\ nextId \in Nat /\ \A m \in timers : m.id \in Nat
  BY BoundsAssumption DEF IInv, TypeOK, Time, Timer, Ids, Punctuality, AnswersPast
<1>3. AnswersPast' /\ OneQuestion'
  <2>1. CASE HeadStays
    BY <1>1, <2>1, HeadStaysKeeps
  <2>2. CASE ~HeadStays
    BY <1>1, <1>2, <2>2, AskedKeeps
  <2> QED BY <2>1, <2>2
<1>4. ASSUME NEW m \in timers, NEW e \in queue', e.id = m.id
      PROVE  e.time <= m.at
  <2>1. m.id # nextId /\ m.id < nextId
    BY <1>2 DEF Punctuality, TimersWait
  <2>2. [id |-> e.id, time |-> e.time] \in Plan(queue')
    BY <1>4 DEF Plan
  <2>3. [id |-> e.id, time |-> e.time] \in Plan(queue)
    BY <1>1, <1>4, <2>1, <2>2
  <2>4. PICK f \in queue : [id |-> f.id, time |-> f.time] = [id |-> e.id, time |-> e.time]
    BY <2>3 DEF Plan
  <2>5. f.id = m.id /\ f.time = e.time
    BY <1>4, <2>4
  <2> QED BY <2>5 DEF Punctuality, TimersWait
<1>5. \A m \in timers : m.id < nextId + 1
  BY <1>2 DEF Punctuality, TimersWait
<1>6. TimersWait'
  BY <1>1, <1>4, <1>5 DEF TimersWait
<1> QED BY <1>3, <1>6 DEF Punctuality

LEMMA clearPunctual ==
  ASSUME IInv, Punctuality, Follows(queue'), queue' \subseteq queue,
         UNCHANGED <<now, currentState, pending, timers, nextId>>
  PROVE  Punctuality'
<1>1. CASE Orderly => pending = <<>>
  <2>1. Orderly => Len(pending) = 0
    BY <1>1
  <2> QED BY <2>1 DEF Punctuality, TimersWait, AnswersPast, OneQuestion
<1>2. CASE queue # {} /\ HeadOf(queue) \in queue'
  <2> DEFINE h == HeadOf(queue)
             q2 == queue'
  <2>1. q2 \in SUBSET Entry /\ Distinct(q2)
    BY DEF IInv, TypeOK, UniqueTimes, Distinct
  <2>2. h \in q2 /\ \A f \in q2 : h.time <= f.time
    BY <1>2, HeadIsLeast DEF IInv, TypeOK
  <2> HIDE DEF h, q2
  <2>3. HeadOf(q2) = h
    BY ONLY <2>1, <2>2, HeadIsUnique
  <2>4. HeadStays
    BY <1>2, <2>3 DEF h, q2, HeadStays
  <2>5. TimersWait'
    BY DEF Punctuality, TimersWait
  <2> QED BY <2>4, <2>5, HeadStaysKeeps DEF Punctuality
<1> QED BY <1>1, <1>2 DEF Follows, Reachable, Orderly

LEMMA ClockTickPunctual ==
  ASSUME IInv, Punctuality, ClockTick
  PROVE  Punctuality'
<1> DEFINE r == [kind |-> "clock", due |-> 0, answer |-> Unanswered]
<1>1. /\ r.kind = "clock" /\ r.answer <= now
  BY BoundsAssumption DEF IInv, TypeOK, Time, Unanswered
<1>2. /\ pending' = Append(pending, r)
      /\ UNCHANGED <<now, queue, currentState, executing, timers, clockOn, nextId>>
      /\ Orderly => pending = <<>>
  BY DEF ClockTick, Ask, Reachable, Orderly
<1> HIDE DEF r
<1>3. /\ Len(pending') = Len(pending) + 1 /\ Len(pending) \in Nat
      /\ pending'[Len(pending) + 1] = r
      /\ \A i \in 1 .. Len(pending) : pending'[i] = pending[i]
  BY <1>2 DEF IInv, TypeOK
<1>4. \A i \in 1 .. Len(pending') : i \in 1 .. Len(pending) \/ i = Len(pending) + 1
  BY <1>3
<1>5. AnswersPast'
  BY <1>1, <1>2, <1>3, <1>4 DEF Punctuality, AnswersPast
<1>6. Orderly => Len(pending) = 0
  BY <1>2
<1>7. OneQuestion'
  BY <1>1, <1>3, <1>4, <1>6 DEF OneQuestion
<1>8. TimersWait'
  BY <1>2 DEF Punctuality, TimersWait
<1> QED BY <1>5, <1>7, <1>8 DEF Punctuality

LEMMA ExecutionPunctual ==
  ASSUME IInv, Punctuality, NEW p, Settled(p, currentState), ExecuteNext(p),
         Orderly => p = <<>>, \A i \in 1 .. Len(p) : p[i].answer <= now,
         now' = now, timers' \subseteq timers, nextId' = nextId
  PROVE  Punctuality'
<1>1. p \in Seq(Question) /\ now \in Nat
  BY BoundsAssumption DEF Settled, IInv, TypeOK, Time
<1>2. \/ UNCHANGED <<queue, currentState>> /\ pending' = p
      \/ /\ currentState = Undefined /\ currentState' = currentState
         /\ queue' \subseteq queue /\ pending' = p
      \/ /\ queue # {} /\ currentState # Undefined
         /\ currentState' = HeadOf(queue).id
         /\ Plan(queue') =
              Plan(queue) \ {[id |-> HeadOf(queue).id, time |-> HeadOf(queue).time]}
         /\ AskedOf(p, queue', pending')
  BY Executes
<1>3. AskedOf(p, queue', pending') /\ Plan(queue') \subseteq Plan(queue)
  BY <1>2 DEF AskedOf, Plan
<1>4. AnswersPast' /\ OneQuestion'
  BY <1>1, <1>3, AskedKeeps
<1>5. TimersWait'
  BY <1>3, PlanKeepsTimers DEF Punctuality
<1> QED BY <1>4, <1>5 DEF Punctuality

LEMMA FireTimerPunctual ==
  ASSUME IInv, Punctuality, NEW m \in timers, FireTimer(m)
  PROVE  Punctuality'
<1>1. /\ UNCHANGED <<now, clockOn, nextId>>
      /\ timers' \subseteq timers /\ timers # {}
      /\ Orderly => pending = <<>>
  BY DEF FireTimer, Reachable, Orderly
<1>2. CASE ~executing /\ queue # {} /\ HeadOf(queue).id = m.id
  <2>1. ExecuteNext(pending)
    BY <1>2 DEF FireTimer
  <2>2. Settled(pending, currentState)
    BY <1>1 DEF IInv, TypeOK, InitFirst, Settled, NoShift, CalculateNeedsState
  <2>3. \A i \in 1 .. Len(pending) : pending[i].answer <= now
    BY DEF Punctuality, AnswersPast
  <2> QED BY <1>1, <2>1, <2>2, <2>3, ExecutionPunctual
<1>3. CASE ~(~executing /\ queue # {} /\ HeadOf(queue).id = m.id)
  <2>1. UNCHANGED <<queue, pending>>
    BY <1>3 DEF FireTimer
  <2> QED BY <1>1, <2>1 DEF Punctuality, TimersWait, AnswersPast, OneQuestion
<1> QED BY <1>2, <1>3

LEMMA AnswerTimePunctual ==
  ASSUME IInv, Punctuality, AnswerTime
  PROVE  Punctuality'
<1>1. PICK i \in 1 .. Len(pending) :
        /\ pending' = [pending EXCEPT ![i].answer = now]
        /\ UNCHANGED <<now, queue, currentState, executing, timers, clockOn, nextId>>
  BY DEF AnswerTime
<1>2. now \in Nat /\ pending \in Seq(Question)
  BY BoundsAssumption DEF IInv, TypeOK, Time
<1>3. Len(pending') = Len(pending)
  BY <1>1, <1>2
<1>4. \A j \in 1 .. Len(pending) : pending[j] \in Question
  BY <1>2
<1>5. ASSUME NEW j \in 1 .. Len(pending)
      PROVE  /\ pending'[j].answer = now \/ pending'[j].answer = pending[j].answer
             /\ pending'[j].kind = pending[j].kind /\ pending'[j].due = pending[j].due
  <2>1. CASE j = i
    <3>1. pending'[j] = [pending[j] EXCEPT !.answer = now]
      BY <1>1, <1>2, <2>1
    <3> QED BY <1>4, <3>1 DEF Question
  <2>2. CASE j # i
    <3>1. pending'[j] = pending[j]
      BY <1>1, <1>2, <2>2
    <3> QED BY <3>1
  <2> QED BY <2>1, <2>2
<1>6. AnswersPast' /\ OneQuestion'
  BY <1>1, <1>2, <1>3, <1>5 DEF Punctuality, AnswersPast, OneQuestion
<1> QED BY <1>1, <1>6 DEF Punctuality, TimersWait

LEMMA DeliverInitPunctual ==
  ASSUME IInv, Punctuality, DeliverInit
  PROVE  Punctuality' /\ Plan(queue') = Plan(queue)
<1> DEFINE q == queue
           p == Tail(pending)
           q2 == queue'
           p2 == pending'
<1>1. /\ CalculatedTo(q, Initial, p, q2, p2)
      /\ UNCHANGED <<now, timers, nextId>>
      /\ pending # <<>>
  BY DEF DeliverInit, Delivered, Calculate, CalculatedTo
<1>2. /\ p \in Seq(Question)
      /\ Orderly => p = <<>>
      /\ \A i \in 1 .. Len(p) : p[i].answer <= now
  BY <1>1, RestIsPunctual
<1>3. q \in SUBSET Entry /\ Distinct(q) /\ Initial \in Devices \cup {Undefined} /\ now \in Nat
  BY BoundsAssumption DEF IInv, TypeOK, UniqueTimes, Devices, Time
<1> HIDE DEF q, p, q2, p2
<1>4. Plan(q2) = Plan(q) /\ AskedOf(p, q2, p2)
  BY <1>1, <1>2, <1>3, CalculatedPlan
<1>5. AnswersPast' /\ OneQuestion'
  <2>1. AskedOf(p, queue', pending') /\ now' = now /\ now \in Nat
    BY <1>1, <1>3, <1>4 DEF q2, p2
  <2> QED BY <1>2, <2>1, AskedKeeps
<1>6. TimersWait'
  BY <1>1, <1>4, PlanKeepsTimers DEF q, q2, Punctuality
<1> QED BY <1>4, <1>5, <1>6 DEF q, q2, Punctuality

LEMMA TailPunctual ==
  ASSUME IInv, Punctuality, pending # <<>>, pending' = Tail(pending),
         UNCHANGED <<now, queue>>
  PROVE  AnswersPast' /\ OneQuestion'
<1>1. now \in Nat
  BY BoundsAssumption DEF IInv, TypeOK, Time
<1> QED BY <1>1, RestIsPunctual, AskedKeeps DEF AskedOf

LEMMA DeliverClockPunctual ==
  ASSUME IInv, Punctuality, DeliverClock
  PROVE  Punctuality'
<1> DEFINE t == Head(pending).answer
<1>1. /\ pending # <<>> /\ pending' = Tail(pending) /\ t # Unanswered
      /\ UNCHANGED <<now, queue, currentState, executing, clockOn, nextId>>
  BY DEF DeliverClock, Delivered
<1>2. AnswersPast' /\ OneQuestion'
  BY <1>1, TailPunctual
<1>3. t \in Nat /\ t <= now /\ now \in Nat
  <2>1. Head(pending) = pending[1] /\ 1 \in 1 .. Len(pending)
    BY <1>1, RestIsSettled
  <2>2. Head(pending) \in Question
    BY <2>1 DEF IInv, TypeOK
  <2> QED BY <1>1, <2>1, <2>2, BoundsAssumption
          DEF IInv, TypeOK, Question, Time, Punctuality, AnswersPast
<1>4. ASSUME NEW m \in timers'
      PROVE  m.id < nextId /\ \A e \in queue : e.id = m.id => e.time <= m.at
  <2>1. CASE m \in timers
    BY <2>1 DEF Punctuality, TimersWait
  <2>2. CASE m \notin timers
    <3>1. PICK e \in queue :
            m = [id |-> e.id, at |-> now + (IF e.time > t THEN e.time - t ELSE 0)]
      BY <1>4, <2>2 DEF DeliverClock, Wait
    <3>2. e.time \in Nat
      BY BoundsAssumption DEF IInv, TypeOK, Entry, Time
    <3> HIDE DEF t
    <3>3. m.id = e.id /\ e.time <= m.at
      BY <1>3, <3>1, <3>2
    <3>4. e.id < nextId /\ \A f \in queue : f.id = e.id => f = e
      BY DEF IInv, KnownIds, UniqueTimes, Distinct
    <3> QED BY <3>3, <3>4
  <2> QED BY <2>1, <2>2
<1>5. TimersWait'
  BY <1>1, <1>4 DEF TimersWait
<1> QED BY <1>2, <1>5 DEF Punctuality

LEMMA DeliverCalculatedPunctual ==
  ASSUME IInv, Punctuality, DeliverCalculated
  PROVE  Punctuality'
<1>1. /\ UNCHANGED <<now, timers, clockOn, nextId>>
      /\ pending # <<>>
  BY DEF DeliverCalculated, Delivered
<1>2. Settled(Tail(pending), currentState) /\ Head(pending).kind # "shift"
  BY <1>1, RestIsSettled DEF IInv, NoShift
<1>3. CASE ExecuteNext(Tail(pending))
  BY <1>1, <1>2, <1>3, RestIsPunctual, ExecutionPunctual
<1>4. CASE pending' = Tail(pending) /\ UNCHANGED <<queue, currentState, executing>>
  BY <1>1, <1>4, TailPunctual DEF Punctuality, TimersWait
<1> QED BY <1>2, <1>3, <1>4 DEF DeliverCalculated

LEMMA NextPunctual == IInv /\ Punctuality /\ [Next]_vars => Punctuality'
<1> SUFFICES ASSUME IInv, Punctuality, [Next]_vars PROVE Punctuality'
  OBVIOUS
<1>1. CASE \E t \in Time : handleState(t)
  BY <1>1, handleStatePunctual
<1>2. CASE \E t \in Time : clearFutureAfterTimestamp(t)
  <2>1. PICK t \in Time : clearFutureAfterTimestamp(t)
    BY <1>2
  <2>2. Follows(queue') /\ queue' \subseteq queue
    BY <2>1 DEF clearFutureAfterTimestamp, KeptUpTo
  <2> QED BY <2>1, <2>2, clearPunctual DEF clearFutureAfterTimestamp
<1>3. CASE clearFutureStates \/ terminate
  BY <1>3, clearPunctual DEF clearFutureStates, terminate, Follows
<1>4. CASE ClockTick
  BY <1>4, ClockTickPunctual
<1>5. CASE \E m \in timers : FireTimer(m)
  BY <1>5, FireTimerPunctual
<1>6. CASE AnswerTime
  BY <1>6, AnswerTimePunctual
<1>7. CASE DeliverInit
  BY <1>7, DeliverInitPunctual
<1>8. CASE DeliverClock
  BY <1>8, DeliverClockPunctual
<1>9. CASE DeliverCalculated
  BY <1>9, DeliverCalculatedPunctual
<1>10. CASE RejectTime
  BY <1>10, TailPunctual DEF RejectTime, Punctuality, TimersWait
<1>11. CASE Tick
  <2>1. now \in Nat /\ now' = now + 1 /\ UNCHANGED <<queue, pending, timers, nextId>>
    BY <1>11, BoundsAssumption DEF Tick, IInv, TypeOK, Time
  <2>2. \A i \in 1 .. Len(pending) : pending[i] \in Question
    BY DEF IInv, TypeOK
  <2>3. \A i \in 1 .. Len(pending) : pending[i].answer \in Int
    BY <2>2, BoundsAssumption DEF Question, Time, Unanswered
  <2>4. Orderly => Len(pending) = 0
    BY <1>11 DEF Tick, Reachable, Orderly
  <2> QED BY <2>1, <2>3, <2>4 DEF Punctuality, TimersWait, AnswersPast, OneQuestion
<1>12. CASE UNCHANGED vars
  BY <1>12 DEF vars, Punctuality, TimersWait, AnswersPast, OneQuestion
<1> QED
  BY <1>1, <1>2, <1>3, <1>4, <1>5, <1>6, <1>7, <1>8, <1>9, <1>10, <1>11, <1>12 DEF Next

----------------------------------------------------------------------------
(* No two queued states are for one time, so the set is the sorted array   *)
(* of the code.                                                            *)
THEOREM TimesAreUnique == Spec => []UniqueTimes
<1>1. IInv => UniqueTimes
  BY DEF IInv
<1> QED BY <1>1, InitIInv, NextKeeps, PTL DEF Spec

(* A timer that finds its state at the head of the queue is not early. *)
LEMMA TimerIsDue ==
  ASSUME IInv, Punctuality, NEW m \in timers, FireTimer(m),
         queue # {}, HeadOf(queue).id = m.id
  PROVE  HeadOf(queue).time <= now
<1>1. m.at <= now /\ m.at \in Nat /\ now \in Nat
  BY BoundsAssumption DEF FireTimer, IInv, TypeOK, Timer, Time
<1>2. HeadOf(queue) \in queue /\ HeadOf(queue).time \in Nat
  BY HeadIsLeast, BoundsAssumption DEF IInv, TypeOK, Time, Entry
<1>3. HeadOf(queue).time <= m.at
  BY <1>2 DEF Punctuality, TimersWait
<1> QED BY <1>1, <1>2, <1>3

(* Nor is an execution that follows a diff, if one question is open at a   *)
(* time.                                                                   *)
LEMMA AnswerIsDue ==
  ASSUME IInv, Punctuality, Orderly, pending # <<>>, Head(pending).kind = "calculate",
         Head(pending).due <= Head(pending).answer, Head(pending).answer # Unanswered
  PROVE  queue # {} /\ HeadOf(queue).time <= now
<1>1. Head(pending) = pending[1] /\ 1 \in 1 .. Len(pending)
  BY RestIsSettled
<1>2. /\ queue # {} /\ Head(pending).due = HeadOf(queue).time
      /\ Head(pending).answer <= now
  BY <1>1 DEF Punctuality, OneQuestion, AnswersPast
<1>3. HeadOf(queue).time \in Nat /\ now \in Nat
  BY <1>2, HeadIsLeast, BoundsAssumption DEF IInv, TypeOK, Time, Entry
<1>4. Head(pending).answer \in Nat
  <2>1. Head(pending) \in Question
    BY <1>1 DEF IInv, TypeOK
  <2> QED BY <2>1, BoundsAssumption DEF Question, Time
<1> QED BY <1>2, <1>3, <1>4

(* So then the time of a state that is executed has come. *)
LEMMA ExecutionIsDue ==
  ASSUME IInv, Punctuality, Orderly, [Next]_vars, currentState' # currentState
  PROVE  \/ currentState' = Initial
         \/ queue # {} /\ HeadOf(queue).time <= now
<1>1. \/ \E m \in timers : FireTimer(m)
      \/ DeliverInit
      \/ DeliverCalculated
  BY DEF Next, vars, handleState, clearFutureAfterTimestamp, clearFutureStates,
         terminate, ClockTick, AnswerTime, DeliverClock, RejectTime, Tick
<1>2. CASE \E m \in timers : FireTimer(m)
  <2>1. PICK m \in timers : FireTimer(m)
    BY <1>2
  <2>2. queue # {} /\ HeadOf(queue).id = m.id
    BY <2>1 DEF FireTimer
  <2> QED BY <2>1, <2>2, TimerIsDue
<1>3. CASE DeliverInit
  BY <1>3 DEF DeliverInit
<1>4. CASE DeliverCalculated
  <2>1. /\ pending # <<>> /\ Head(pending).kind \in {"calculate", "shift"}
        /\ Head(pending).answer # Unanswered
    BY <1>4 DEF DeliverCalculated, Delivered
  <2>2. Head(pending).kind = "calculate"
    BY <2>1, RestIsSettled DEF IInv, NoShift
  <2>3. Head(pending).due <= Head(pending).answer
    BY <1>4, <2>2 DEF DeliverCalculated
  <2> QED BY <2>1, <2>2, <2>3, AnswerIsDue
<1> QED BY <1>1, <1>2, <1>3, <1>4

(* An answer that begins an execution before its time was asked for an     *)
(* earlier state.                                                          *)
LEMMA EarlyAnswerIsStale ==
  ASSUME IInv, Punctuality, pending # <<>>, Head(pending).answer # Unanswered,
         Head(pending).due <= Head(pending).answer,
         NEW e \in queue, ~(e.time <= now)
  PROVE  Head(pending).due < e.time
<1>1. Head(pending) = pending[1] /\ 1 \in 1 .. Len(pending)
  BY RestIsSettled
<1>2. Head(pending).answer <= now
  BY <1>1 DEF Punctuality, AnswersPast
<1>3. Head(pending).due \in Nat /\ Head(pending).answer \in Nat
  <2>1. Head(pending) \in Question
    BY <1>1 DEF IInv, TypeOK
  <2> QED BY <2>1, BoundsAssumption DEF Question, Time
<1>4. e.time \in Nat /\ now \in Nat
  BY BoundsAssumption DEF IInv, TypeOK, Time, Entry
<1> QED BY <1>2, <1>3, <1>4

(* No timer executes a state before its time, and an answer does only if   *)
(* it was asked for a state that is the head no more                       *)
(* (calculateNextStateChange, line 146): whatever the constants, so across *)
(* processes, with rejected queries and with states handed over twice.     *)
THEOREM EarlyIsStale == Spec => OnlyStaleAnswersAreEarly
<1> DEFINE Step == \A e \in queue :
                     currentState' = e.id /\ currentState # e.id =>
                       \/ e.time <= now
                       \/ /\ timers' = timers /\ pending # <<>>
                          /\ Head(pending).kind = "calculate"
                          /\ Head(pending).due < e.time
<1>1. IInv /\ Punctuality /\ [Next]_vars => [Step]_vars
  <2> SUFFICES ASSUME IInv, Punctuality, [Next]_vars, NEW e \in queue,
                      currentState' = e.id, currentState # e.id, ~(e.time <= now)
               PROVE  /\ timers' = timers /\ pending # <<>>
                      /\ Head(pending).kind = "calculate"
                      /\ Head(pending).due < e.time
    OBVIOUS
  <2>1. e.id # Initial
    BY DEF IInv, TypeOK, Entry, Ids, Initial
  <2>2. queue # {} /\ e.id = HeadOf(queue).id
    BY <2>1, NewStateIsHead
  <2>3. HeadOf(queue) = e
    <3>1. HeadOf(queue) \in queue
      BY <2>2, HeadIsLeast DEF IInv, TypeOK
    <3> QED BY <2>2, <3>1 DEF IInv, UniqueTimes, Distinct
  <2>4. \/ \E m \in timers : FireTimer(m)
        \/ DeliverInit
        \/ DeliverCalculated
    BY DEF Next, vars, handleState, clearFutureAfterTimestamp, clearFutureStates,
           terminate, ClockTick, AnswerTime, DeliverClock, RejectTime, Tick
  <2>5. ASSUME NEW m \in timers, FireTimer(m) PROVE FALSE
    <3>1. queue # {} /\ HeadOf(queue).id = m.id
      BY <2>5 DEF FireTimer
    <3> QED BY <2>3, <2>5, <3>1, TimerIsDue
  <2>6. CASE DeliverInit
    BY <2>1, <2>6 DEF DeliverInit
  <2>7. CASE DeliverCalculated
    <3>1. /\ pending # <<>> /\ Head(pending).kind \in {"calculate", "shift"}
          /\ Head(pending).answer # Unanswered /\ timers' = timers
      BY <2>7 DEF DeliverCalculated, Delivered
    <3>2. Head(pending).kind = "calculate"
      BY <3>1, RestIsSettled DEF IInv, NoShift
    <3>3. Head(pending).due <= Head(pending).answer
      BY <2>7, <3>2 DEF DeliverCalculated
    <3> QED BY <3>1, <3>2, <3>3, EarlyAnswerIsStale
  <2> QED BY <2>4, <2>5, <2>6, <2>7
<1> QED
  BY <1>1, InitIInv, NextKeeps, InitPunctual, NextPunctual, PTL
  DEF Spec, OnlyStaleAnswersAreEarly

(* So in the main process, as long as setDatastore does not hand a         *)
(* device's states over twice in one go, no state is executed before its   *)
(* time: the answer that begins an execution was asked for the state that  *)
(* is executed.                                                            *)
THEOREM NeverEarlyInTurn == ASSUME Orderly PROVE Spec => NeverEarly
<1> DEFINE Step == \A e \in queue :
                     currentState' = e.id /\ currentState # e.id => e.time <= now
<1>1. IInv /\ Punctuality /\ [Next]_vars => [Step]_vars
  <2> SUFFICES ASSUME IInv, Punctuality, [Next]_vars, NEW e \in queue,
                      currentState' = e.id, currentState # e.id
               PROVE  e.time <= now
    OBVIOUS
  <2>1. e.id # Initial
    BY DEF IInv, TypeOK, Entry, Ids, Initial
  <2>2. queue # {} /\ e.id = HeadOf(queue).id
    BY <2>1, NewStateIsHead
  <2>3. HeadOf(queue) \in queue
    BY <2>2, HeadIsLeast DEF IInv, TypeOK
  <2>4. HeadOf(queue) = e
    BY <2>2, <2>3 DEF IInv, UniqueTimes, Distinct
  <2> QED BY <2>1, <2>4, ExecutionIsDue
<1> QED BY <1>1, InitIInv, NextKeeps, InitPunctual, NextPunctual, PTL DEF Spec, NeverEarly

----------------------------------------------------------------------------
(* An execution shows the first state of the schedule, and no other step   *)
(* changes what is shown.                                                  *)
LEMMA ExecutionShows ==
  ASSUME IInv, Orderly => queue # {} /\ HeadOf(queue).time <= now,
         NEW p, Settled(p, currentState), ExecuteNext(p), currentState # Undefined,
         UNCHANGED <<now, clockOn, nextId>>
  PROVE  [Schedule!Next]_(Schedule!vars)
<1>1. CASE UNCHANGED <<queue, currentState>>
  BY <1>1 DEF Schedule!vars
<1>2. CASE ~UNCHANGED <<queue, currentState>>
  <2> DEFINE h == HeadOf(queue)
  <2>1. /\ queue # {} /\ currentState' = h.id
        /\ Plan(queue') = Plan(queue) \ {[id |-> h.id, time |-> h.time]}
    BY <1>2, Executes
  <2>2. h \in queue /\ \A f \in queue : h.time <= f.time
    BY <2>1, HeadIsLeast DEF IInv, TypeOK
  <2>3. PICK e \in Plan(queue) : e = [id |-> h.id, time |-> h.time]
    BY <2>2 DEF Plan
  <2>4. \A f \in Plan(queue) : e.time <= f.time
    BY <2>2, <2>3 DEF Plan
  <2>5. e.id = h.id /\ (Orderly => e.time <= now)
    BY <2>3
  <2>6. Schedule!Show(e)
    BY <2>1, <2>3, <2>4, <2>5 DEF Schedule!Show, Schedule!Earliest, Plan
  <2> QED BY <2>6 DEF Schedule!Next, Plan
<1> QED BY <1>1, <1>2

(* Every step of the handler is one of the schedule, or a stutter. *)
LEMMA StepKeepsTheSchedule ==
  ASSUME ~ClockMayFail, IInv, Punctuality, [Next]_vars
  PROVE  [Schedule!Next]_(Schedule!vars)
<1>1. CASE \E t \in Time : handleState(t)
  <2>1. PICK t \in Time : handleState(t)
    BY <1>1
  <2>2. Schedule!HandOver(t)
    BY <2>1, HandsOver DEF Schedule!HandOver, Plan
  <2> QED BY <2>2 DEF Schedule!Next
<1>2. CASE \E t \in Time : clearFutureAfterTimestamp(t)
  <2>1. PICK t \in Time : clearFutureAfterTimestamp(t)
    BY <1>2
  <2>2. Plan(queue') = {e \in Plan(queue) : e.time <= t}
    BY <2>1 DEF clearFutureAfterTimestamp, KeptUpTo, Plan
  <2>3. Schedule!Withdraw(t)
    BY <2>1, <2>2 DEF clearFutureAfterTimestamp, Schedule!Withdraw, Plan
  <2> QED BY <2>3 DEF Schedule!Next
<1>3. CASE clearFutureStates
  BY <1>3 DEF clearFutureStates, Schedule!WithdrawAll, Schedule!Next
<1>4. CASE terminate
  BY <1>4 DEF terminate, Schedule!Stop, Schedule!Next
<1>5. CASE \E m \in timers : FireTimer(m)
  <2>1. PICK m \in timers : FireTimer(m)
    BY <1>5
  <2>2. \A i \in 1 .. Len(pending) : pending[i].kind # "init"
    BY DEF IInv, InitFirst
  <2>3. currentState # Undefined /\ Settled(pending, currentState)
    BY <2>2, StateKnown DEF IInv, TypeOK, Settled, NoShift, CalculateNeedsState
  <2>4. UNCHANGED <<now, clockOn, nextId>>
    BY <2>1 DEF FireTimer
  <2>5. CASE ~executing /\ queue # {} /\ HeadOf(queue).id = m.id
    <3>1. ExecuteNext(pending)
      BY <2>1, <2>5 DEF FireTimer
    <3> QED BY <2>1, <2>3, <2>4, <2>5, <3>1, TimerIsDue, ExecutionShows
  <2>6. CASE ~(~executing /\ queue # {} /\ HeadOf(queue).id = m.id)
    BY <2>1, <2>4, <2>6 DEF FireTimer, Schedule!vars
  <2> QED BY <2>5, <2>6
<1>6. CASE DeliverInit
  <2>1. pending # <<>> /\ Head(pending).kind = "init"
    BY <1>6 DEF DeliverInit, Delivered
  <2>2. currentState = Undefined
    BY <2>1, RestIsSettled DEF IInv, InitFirst
  <2>3. Plan(queue') = Plan(queue)
    BY <1>6, DeliverInitPunctual
  <2>4. Schedule!Start
    BY <1>6, <2>2, <2>3 DEF DeliverInit, Schedule!Start, Plan
  <2> QED BY <2>4 DEF Schedule!Next
<1>7. CASE DeliverCalculated
  <2>1. /\ UNCHANGED <<now, timers, clockOn, nextId>>
        /\ pending # <<>> /\ Head(pending).kind \in {"calculate", "shift"}
        /\ Head(pending).answer # Unanswered
    BY <1>7 DEF DeliverCalculated, Delivered
  <2>2. Settled(Tail(pending), currentState) /\ Head(pending).kind = "calculate"
    BY <2>1, RestIsSettled DEF IInv, NoShift
  <2>3. CASE Head(pending).due <= Head(pending).answer /\ currentState # Undefined
    <3>1. ExecuteNext(Tail(pending))
      BY <1>7, <2>2, <2>3 DEF DeliverCalculated
    <3> QED BY <2>1, <2>2, <2>3, <3>1, AnswerIsDue, ExecutionShows
  <2>4. CASE ~(Head(pending).due <= Head(pending).answer /\ currentState # Undefined)
    BY <1>7, <2>1, <2>2, <2>4 DEF DeliverCalculated, Schedule!vars
  <2> QED BY <2>3, <2>4
<1>8. CASE Tick
  BY <1>8 DEF Tick, Schedule!TimePasses, Schedule!Next
<1>9. CASE ClockTick \/ AnswerTime \/ DeliverClock \/ RejectTime \/ UNCHANGED vars
  BY <1>9 DEF ClockTick, AnswerTime, DeliverClock, RejectTime, vars, Schedule!vars
<1> QED
  BY <1>1, <1>2, <1>3, <1>4, <1>5, <1>6, <1>7, <1>8, <1>9 DEF Next

(* While no query of the time is rejected, the handler implements the      *)
(* schedule: the states handed over are shown once, in the order of their  *)
(* times and, while questions come one at a time, none before its time,    *)
(* and only handleState, clearFuture and terminate take one away.          *)
THEOREM HandlerKeepsTheSchedule == ASSUME ~ClockMayFail PROVE Spec => KeepsTheSchedule
<1>1. Init => Schedule!Init
  BY DEF Init, Schedule!Init
<1>2. IInv /\ Punctuality /\ [Next]_vars => [Schedule!Next]_(Schedule!vars)
  BY StepKeepsTheSchedule
<1> QED
  BY <1>1, <1>2, InitIInv, NextKeeps, InitPunctual, NextPunctual, PTL
  DEF Spec, KeepsTheSchedule, Schedule!Spec
=============================================================================
