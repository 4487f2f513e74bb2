---------------------------- MODULE StateHandler ----------------------------
(***************************************************************************)
(* service/stateHandler.ts: the queue of future device states, the diff    *)
(* that prepares the next one, and the clock that executes it on time.     *)
(*                                                                         *)
(* Everything runs on one event loop; an action below is the code between  *)
(* two points where that loop can do something else.  Those points are the *)
(* timers and the awaits of context.getCurrentTime(), a call that crosses  *)
(* to another process when the device runs multithreaded: it is asked, it  *)
(* is answered with the time at that moment, and the answer is delivered   *)
(* later, in the order of the questions.                                   *)
(*                                                                         *)
(* A state is known by the number of the handleState call that brought it; *)
(* the device state converted from it carries the same number.  stateQueue *)
(* is a set here: the filter of handleState keeps only earlier times than  *)
(* the one it appends, so the array's order is the order of the times and  *)
(* no two are equal (UniqueTimes).                                         *)
(***************************************************************************)
EXTENDS Integers, Sequences, FiniteSets

CONSTANTS
  MaxTime,        \* bound: the time stops here
  MaxStates,      \* bound: calls of handleState
  MaxPending,     \* bound: the clock asks no further question beyond this
  ClockInterval,  \* CLOCK_INTERVAL
  Prompt,         \* the answer to getCurrentTime precedes timers and later calls
  MayRepeat,      \* setDatastore may hand the states of a device over twice at once
  ClockMayFail,   \* getCurrentTime may reject
  DiffMayFail     \* diffDeviceStates may throw

ASSUME BoundsAssumption ==
  /\ MaxTime \in Nat /\ MaxStates \in Nat /\ MaxPending \in Nat
  /\ ClockInterval \in Nat
ASSUME FlagsAssumption ==
  /\ Prompt \in BOOLEAN /\ MayRepeat \in BOOLEAN
  /\ ClockMayFail \in BOOLEAN /\ DiffMayFail \in BOOLEAN

VARIABLES
  now,           \* the time of the main process
  queue,         \* stateQueue
  currentState,  \* the state the device was last commanded to
  executing,     \* _executingStateChange
  pending,       \* questions to getCurrentTime, oldest first
  timers,        \* the timeouts set by the clock
  clockOn,       \* the clock interval is running
  nextId         \* number of the next handleState call

vars == <<now, queue, currentState, executing, pending, timers, clockOn, nextId>>

----------------------------------------------------------------------------
Time == 0 .. MaxTime
Ids == 1 .. MaxStates
Initial == 0               \* the unknown state a device starts in
Undefined == -1            \* no currentState
NotCalculated == -1        \* a queued state without commands
Failed == -2               \* its diff threw: an empty list of commands
Unanswered == -1

Devices == {Initial} \cup Ids
Entry == [id : Ids, time : Time, commands : Devices \cup {NotCalculated, Failed}]
Question == [kind : {"init", "clock", "calculate", "shift"},
             due : Time, answer : Time \cup {Unanswered}]
Timer == [id : Ids, at : Nat]

TypeOK ==
  /\ now \in Time
  /\ queue \in SUBSET Entry
  /\ currentState \in Devices \cup {Undefined}
  /\ executing \in BOOLEAN
  /\ pending \in Seq(Question)
  /\ timers \in SUBSET Timer
  /\ clockOn \in BOOLEAN
  /\ nextId \in 1 .. MaxStates + 1

HeadOf(q) == CHOOSE e \in q : \A f \in q : e.time <= f.time
Ask(p, kind, due) == Append(p, [kind |-> kind, due |-> due, answer |-> Unanswered])

\* A timer, or a call that comes by itself, may reach the handler now.
Reachable == Prompt => pending = <<>>

(* The conductor hands over all states of a device in one go, without      *)
(* waiting for the questions the first of them raises: a call that follows *)
(* in the same go finds them open.  The states come in the order of their  *)
(* times, so that it leaves the head alone; where a device is among the    *)
(* affected ones twice, the first state comes again after the others.      *)
Follows(kept) == Reachable \/ (queue # {} /\ HeadOf(queue) \in kept)
Repeats(t) == MayRepeat /\ Cardinality(queue) > 1 /\ t = HeadOf(queue).time

\* The main process has at most one question open.
Orderly == Prompt /\ ~MayRepeat

----------------------------------------------------------------------------
(* calculateNextStateChange up to its await.  The commands of a state are  *)
(* known by the device state they were computed from; q, cs and p are the  *)
(* queue, currentState and pending questions it finds.                     *)
Bases(cs) == {cs} \cup (IF DiffMayFail THEN {Failed} ELSE {})
Prepared(q, b) == (q \ {HeadOf(q)}) \cup {[HeadOf(q) EXCEPT !.commands = b]}

Calculate(q, cs, p, kind) ==
  IF cs = Undefined \/ q = {}
  THEN queue' = q /\ pending' = p
  ELSE /\ \E b \in Bases(cs) : queue' = Prepared(q, b)
       /\ pending' = Ask(p, kind, HeadOf(q).time)

\* The head h is executed: it is the current state, and the flag goes down.
ExecutedDiffingFirst(h, p) ==
  /\ currentState' = h.id
  /\ executing' = FALSE
  /\ Calculate(queue \ {h}, currentState, p, "calculate")

ExecutedWithoutReset(h, p) ==
  /\ currentState' = h.id
  /\ executing' = TRUE
  /\ Calculate(queue \ {h}, h.id, p, "calculate")

Executed(h, p) ==
  /\ currentState' = h.id
  /\ executing' = FALSE
  /\ Calculate(queue \ {h}, h.id, p, "calculate")

(* The second half of executeNextStateChange: the head leaves the queue,   *)
(* its commands go out (all at once or one by one, the handler awaits none *)
(* of them) and the change after it is prepared.                           *)
ShiftHead(p) ==
  IF queue = {} \/ HeadOf(queue).commands = NotCalculated
  THEN \* returns with _executingStateChange still set
       /\ executing' = TRUE
       /\ queue' = queue \ (IF queue = {} THEN {} ELSE {HeadOf(queue)})
       /\ pending' = p
       /\ UNCHANGED currentState
  ELSE Executed(HeadOf(queue), p)

ExecuteNext(p) ==
  IF queue = {} \/ executing
  THEN pending' = p /\ UNCHANGED <<queue, currentState, executing>>
  ELSE IF HeadOf(queue).commands = NotCalculated /\ currentState # Undefined
       THEN /\ executing' = TRUE
            /\ Calculate(queue, currentState, p, "shift")
            /\ UNCHANGED currentState
       ELSE ShiftHead(p)

----------------------------------------------------------------------------
\* The constructor: setCurrentState asks for the time, the clock is started.
Init ==
  /\ now = 0
  /\ queue = {}
  /\ currentState = Undefined
  /\ executing = FALSE
  /\ pending = Ask(<<>>, "init", 0)
  /\ timers = {}
  /\ clockOn = TRUE
  /\ nextId = 1

\* The states that a new one for t does not replace.
KeptUpTo(t) == {e \in queue : e.time <= t}
Kept(t) == {e \in queue : e.time < t}

handleState(t) ==
  /\ Follows(Kept(t)) \/ Repeats(t)
  /\ nextId <= MaxStates
  /\ nextId' = nextId + 1
  /\ LET new == [id |-> nextId, time |-> t, commands |-> NotCalculated]
         q == Kept(t) \cup {new}
     IN IF queue # {} /\ HeadOf(q) = HeadOf(queue)
        THEN queue' = q /\ UNCHANGED pending
        ELSE Calculate(q, currentState, pending, "calculate")
  /\ UNCHANGED <<now, currentState, executing, timers, clockOn>>

clearFutureAfterTimestamp(t) ==
  /\ Follows(KeptUpTo(t))
  /\ queue' = KeptUpTo(t)
  /\ UNCHANGED <<now, currentState, executing, pending, timers, clockOn, nextId>>

clearFutureStates ==
  /\ Reachable
  /\ queue' = {}
  /\ UNCHANGED <<now, currentState, executing, pending, timers, clockOn, nextId>>

terminate ==
  /\ Reachable
  /\ clockOn
  /\ clockOn' = FALSE
  /\ queue' = {}
  /\ UNCHANGED <<now, currentState, executing, pending, timers, nextId>>

\* The interval fires.  Its phase and jitter are left open.
ClockTick ==
  /\ Reachable
  /\ clockOn
  /\ Len(pending) < MaxPending
  /\ pending' = Ask(pending, "clock", 0)
  /\ UNCHANGED <<now, queue, currentState, executing, timers, clockOn, nextId>>

FireTimer(m) ==
  /\ Reachable
  /\ m.at <= now
  /\ timers' = timers \ {m}
  /\ IF ~executing /\ queue # {} /\ HeadOf(queue).id = m.id
     THEN ExecuteNext(pending)
     ELSE UNCHANGED <<queue, currentState, executing, pending>>
  /\ UNCHANGED <<now, clockOn, nextId>>

----------------------------------------------------------------------------
\* The main process answers the oldest question it has not answered.
AnswerTime ==
  \E i \in 1 .. Len(pending) :
    /\ pending[i].answer = Unanswered
    /\ \A j \in 1 .. i - 1 : pending[j].answer # Unanswered
    /\ pending' = [pending EXCEPT ![i].answer = now]
    /\ UNCHANGED <<now, queue, currentState, executing, timers, clockOn, nextId>>

Delivered(kinds) ==
  /\ pending # <<>>
  /\ Head(pending).answer # Unanswered
  /\ Head(pending).kind \in kinds

\* setCurrentState(undefined) goes on.
DeliverInit ==
  /\ Delivered({"init"})
  /\ currentState' = Initial
  /\ Calculate(queue, Initial, Tail(pending), "calculate")
  /\ UNCHANGED <<now, executing, timers, clockOn, nextId>>

\* How long the clock, told it is t, waits for the state e.
WaitUnclamped(e, t) == e.time - t - 1
WaitReversed(e, t) == t - e.time
Wait(e, t) == IF e.time > t THEN e.time - t ELSE 0

\* The clock goes on: a timeout for every state due before its next tick.
DeliverClock ==
  /\ Delivered({"clock"})
  /\ LET t == Head(pending).answer
     IN timers' = timers \cup {[id |-> e.id, at |-> now + Wait(e, t)] :
                                 e \in {f \in queue : Wait(f, t) <= ClockInterval}}
  /\ pending' = Tail(pending)
  /\ UNCHANGED <<now, queue, currentState, executing, clockOn, nextId>>

(* calculateNextStateChange goes on, and after it executeNextStateChange   *)
(* where that called it.  `due' is the time of the state that was the head *)
(* when the question was asked.                                            *)
DeliverCalculated ==
  /\ Delivered({"calculate", "shift"})
  /\ LET r == Head(pending) IN
     IF r.kind = "shift"
     THEN ShiftHead(Tail(pending))
     ELSE IF r.due <= r.answer /\ currentState # Undefined
          THEN ExecuteNext(Tail(pending))
          ELSE pending' = Tail(pending)
               /\ UNCHANGED <<queue, currentState, executing>>
  /\ UNCHANGED <<now, timers, clockOn, nextId>>

\* The question is rejected: every caller logs it and goes no further.
RejectTime ==
  /\ ClockMayFail
  /\ pending # <<>>
  /\ Head(pending).answer = Unanswered
  /\ pending' = Tail(pending)
  /\ UNCHANGED <<now, queue, currentState, executing, timers, clockOn, nextId>>

Tick ==
  /\ Reachable
  /\ now < MaxTime
  /\ now' = now + 1
  /\ UNCHANGED <<queue, currentState, executing, pending, timers, clockOn, nextId>>

Next ==
  \/ \E t \in Time : handleState(t)
  \/ \E t \in Time : clearFutureAfterTimestamp(t)
  \/ clearFutureStates
  \/ terminate
  \/ ClockTick
  \/ \E m \in timers : FireTimer(m)
  \/ AnswerTime
  \/ DeliverInit
  \/ DeliverClock
  \/ DeliverCalculated
  \/ RejectTime
  \/ Tick

Spec == Init /\ [][Next]_vars

(* The event loop runs every callback that stays ready, the interval keeps *)
(* firing, and the main process answers.  Timers run in the order of their *)
(* expiry and the interval's next expiry is always later than now, so a    *)
(* due timeout is not passed over for ever: strong fairness for it.        *)
(* Nothing is assumed of the calls from outside.                           *)
Fairness ==
  /\ WF_vars(ClockTick)
  /\ \A i \in Ids : SF_vars(\E m \in timers : m.id = i /\ FireTimer(m))
  /\ WF_vars(AnswerTime)
  /\ WF_vars(DeliverInit)
  /\ WF_vars(DeliverClock)
  /\ WF_vars(DeliverCalculated)
  /\ WF_vars(Tick)

FairSpec == Spec /\ Fairness

----------------------------------------------------------------------------
(* No two queued states are for the same time: the set is the code's       *)
(* sorted array.                                                           *)
Distinct(q) == \A e, f \in q : e.time = f.time \/ e.id = f.id => e = f
UniqueTimes == Distinct(queue)

(* The next change always stands ready, with commands computed from the    *)
(* state the device is in: whatever handleState, clearFuture and the clock *)
(* did since, no stale diff is left on the head of the queue and the       *)
(* branch that computes it at the last moment (lines 158-160) is not       *)
(* needed.                                                                 *)
HeadPrepared ==
  currentState # Undefined /\ queue # {} =>
    HeadOf(queue).commands \in Bases(currentState)

(* Line 165 asks whether the early return that leaves                      *)
(* _executingStateChange set is possible.  Not while the clock answers:    *)
(* the flag is up only while a diff is awaited, so the handler never       *)
(* blocks for good.                                                        *)
NeverStuck == executing => \E i \in 1 .. Len(pending) : pending[i].kind = "shift"

(* The commands sent for a state are the difference from the state that    *)
(* was sent before it, never from one the device has left or not reached.  *)
DiffFromActual ==
  [][\A e \in queue : currentState' = e.id /\ currentState # e.id =>
        \E b \in Bases(currentState) : e.commands = b]_vars

(* No state is executed before its time.                                   *)
NeverEarly ==
  [][\A e \in queue : currentState' = e.id /\ currentState # e.id => e.time <= now]_vars

(* One way only leads to an early execution: the answer that begins it was *)
(* asked for a state that is the head no more (line 146).  Timers never do *)
(* it, nor does the answer to the one question that is open.               *)
OnlyStaleAnswersAreEarly ==
  [][\A e \in queue : currentState' = e.id /\ currentState # e.id =>
        \/ e.time <= now
        \/ /\ timers' = timers /\ pending # <<>>
           /\ Head(pending).kind = "calculate"
           /\ Head(pending).due < e.time]_vars

(* A state whose time has come is executed or withdrawn: it does not stay  *)
(* in the queue of a running handler.                                      *)
DueIsExecuted ==
  \A i \in Ids :
    (clockOn /\ \E e \in queue : e.id = i /\ e.time <= now) ~>
      (~clockOn \/ \A e \in queue : e.id # i)

----------------------------------------------------------------------------
(* The handler is one way to keep what DeviceSchedule promises.  Its       *)
(* prepared commands, questions and timers are what the promise does not   *)
(* speak of; with several questions open it may be early (NeverEarly).     *)
Schedule == INSTANCE DeviceSchedule WITH
  Times <- Time, Unknown <- Undefined, Blank <- Initial, Punctual <- Orderly,
  schedule <- {[id |-> e.id, time |-> e.time] : e \in queue}, next <- nextId,
  shown <- currentState, running <- clockOn

(* While the clock answers, every step of the handler is a step of the     *)
(* schedule or changes nothing of it: no state is shown twice or out of    *)
(* order (nor early, where it is Orderly), and none is dropped that was    *)
(* not replaced or withdrawn, although executions are begun by timers,     *)
(* calls and late answers alike.                                           *)
KeepsTheSchedule == Schedule!Spec
=============================================================================
