----------------------- MODULE TimelineCallbacksProofs -----------------------
(***************************************************************************)
(* The callbacks of the timeline to Core keep their types and are never    *)
(* left waiting, for any number of objects and any length of the wait.     *)
(***************************************************************************)
EXTENDS TimelineCallbacks, TLAPS

(* The order of insertion, as keys come and go.                            *)
LEMMA InsertedIs ==
  ASSUME NEW S, NEW map \in Orders(S)
  PROVE  Inserted(map) = S
<1>1. map \subseteq S \X S /\ \A i \in S : <<i, i>> \in map
  BY DEF Orders
<1>2. \A p \in map : p[1] \in S
  BY <1>1
<1>3. \A i \in S : i \in Inserted(map)
  <2>1. ASSUME NEW i \in S PROVE \E p \in map : i = p[1]
    <3>1. <<i, i>> \in map /\ <<i, i>>[1] = i
      BY <1>1
    <3> QED BY <3>1
  <2> QED BY <2>1 DEF Inserted
<1> QED BY <1>2, <1>3 DEF Inserted

LEMMA InsertedLater ==
  ASSUME NEW S, NEW map \in Orders(S), NEW T, T \cap S = {}, NEW order \in Orders(T)
  PROVE  InsertedAfter(map, T, order) \in Orders(S \cup T)
<1> DEFINE r == InsertedAfter(map, T, order)
           U == S \cup T
<1>1. r = map \cup (S \X T) \cup order
  BY InsertedIs DEF InsertedAfter
<1>2. map \subseteq S \X S /\ order \subseteq T \X T
  BY DEF Orders
<1>3. r \in SUBSET (U \X U)
  BY <1>1, <1>2
<1>4. /\ \A i, j \in S : <<i, j>> \in r <=> <<i, j>> \in map
      /\ \A i, j \in T : <<i, j>> \in r <=> <<i, j>> \in order
      /\ \A i \in S, j \in T : <<i, j>> \in r /\ <<j, i>> \notin r
  BY <1>1, <1>2
<1> HIDE DEF r
<1>5. ASSUME NEW i \in U, NEW j \in U
      PROVE  /\ <<i, j>> \in r \/ <<j, i>> \in r
             /\ <<i, j>> \in r /\ <<j, i>> \in r => i = j
  BY <1>4 DEF Orders
<1>6. ASSUME NEW i \in U, NEW j \in U, NEW k \in U, <<i, j>> \in r, <<j, k>> \in r
      PROVE  <<i, k>> \in r
  <2>1. CASE i \in S /\ k \in T
    BY <1>4, <2>1
  <2>2. CASE i \in S /\ k \in S
    <3>1. j \in S
      BY <1>4, <1>6, <2>2
    <3> QED BY <1>4, <1>6, <2>2, <3>1 DEF Orders
  <2>3. CASE i \in T
    <3>1. j \in T /\ k \in T
      BY <1>4, <1>6, <2>3
    <3> QED BY <1>4, <1>6, <2>3, <3>1 DEF Orders
  <2> QED BY <2>1, <2>2, <2>3
<1> QED BY <1>3, <1>5, <1>6 DEF Orders, r

LEMMA InsertedFirstLeave ==
  ASSUME NEW S, NEW map \in Orders(S), NEW F \in SUBSET S,
         \A i, j \in S : <<i, j>> \in map /\ j \in F => i \in F
  PROVE  {p \in map : p[1] \notin F} \in Orders(S \ F)
<1> DEFINE r == {p \in map : p[1] \notin F}
           U == S \ F
<1>1. map \subseteq S \X S
  BY DEF Orders
<1>2. r \in SUBSET (U \X U)
  <2>1. ASSUME NEW p \in r PROVE p \in U \X U
    <3>1. PICK i \in S, j \in S : p = <<i, j>>
      BY <1>1
    <3> QED BY <2>1, <3>1
  <2> QED BY <2>1
<1>3. \A i, j \in U : <<i, j>> \in r <=> <<i, j>> \in map
  <2>1. ASSUME NEW i \in U, NEW j \in U PROVE <<i, j>> \in r <=> <<i, j>> \in map
    <3>1. <<i, j>>[1] = i
      OBVIOUS
    <3> QED BY <3>1
  <2> QED BY <2>1
<1> HIDE DEF r
<1> QED BY <1>2, <1>3 DEF Orders, r

----------------------------------------------------------------------------
(* Types.                                                                  *)
LEMMA InitTyped == CallbacksAssumption /\ CallbacksInit => CallbacksTypeOK
<1> SUFFICES ASSUME CallbacksAssumption, CallbacksInit PROVE CallbacksTypeOK
  OBVIOUS
<1>1. /\ clock \in Moment /\ handledAt \in Moment \cup {0}
      /\ timer \in 0 .. LastTime + CALLBACK_WAIT_TIME
  BY DEF CallbacksAssumption, CallbacksInit, Moment, NoTimer
<1>2. sentCallbacks \in Active
  <2>1. sentCallbacks \in [{} -> Callback]
    BY DEF CallbacksInit
  <2> QED BY <2>1 DEF Active
<1>3. known \in Orders({}) /\ Inserted(known) = {}
  BY DEF CallbacksInit, Orders, Inserted
<1>4. Fresh \in CallbackInstance
  BY DEF Fresh, CallbackInstance
<1>5. callbackInstances \in [Instances -> CallbackInstance]
      /\ \A i \in Instances : callbackInstances[i] = Fresh
  BY <1>4 DEF CallbacksInit
<1>6. told \in [Instances -> [last : {"nothing", "start", "stop"}, twice : BOOLEAN]]
  BY DEF CallbacksInit
<1> QED BY <1>1, <1>2, <1>3, <1>5, <1>6 DEF CallbacksTypeOK

(* What a start or a stop makes of an instance.                            *)
LEMMA StartsTyped ==
  ASSUME NEW o \in CallbackInstance, NEW t \in Moment
  PROVE  Starts(o, t) \in CallbackInstance /\ Stops(o, t) \in CallbackInstance
BY DEF Starts, Stops, CallbackInstance, Nothing

LEMMA HandleTyped ==
  ASSUME CallbacksAssumption, CallbacksTypeOK, NEW t \in Moment, NEW active \in Active,
         \A i \in DOMAIN active : active[i].time \in Moment,
         _diffStateForCallbacks(active, t), handledAt' = t, UNCHANGED <<clock, told>>
  PROVE  CallbacksTypeOK'
<1> DEFINE sent == [i \in {j \in DOMAIN sentCallbacks : sentCallbacks[j].time < t} |->
                      sentCallbacks[i]]
           started == {i \in DOMAIN active \cap HasStart : ~Same(sent, active, i)}
           stopped == {i \in DOMAIN sent \cap HasStop : ~Same(sent, active, i)}
           firstIn == started \ Inserted(known)
           thenIn == (stopped \ started) \ Inserted(known)
           afterStarts(i) == IF i \in started
                             THEN Starts(callbackInstances[i], active[i].time)
                             ELSE callbackInstances[i]
<1>1. /\ callbackInstances' =
           [i \in Instances |-> IF i \in stopped THEN Stops(afterStarts(i), t)
                                ELSE afterStarts(i)]
      /\ \E first \in Orders(firstIn), second \in Orders(thenIn) :
           known' = InsertedAfter(InsertedAfter(known, firstIn, first), thenIn, second)
      /\ timer' = timer \/ timer' = clock + CALLBACK_WAIT_TIME
      /\ sentCallbacks' = active
  BY DEF _diffStateForCallbacks, TriggerLater
<1>2. started \subseteq DOMAIN active /\ stopped \subseteq DOMAIN sentCallbacks
      /\ started \subseteq HasStart /\ stopped \subseteq HasStop
  OBVIOUS
<1>3. started \subseteq Instances /\ stopped \subseteq Instances
  BY <1>2 DEF CallbacksAssumption
<1> HIDE DEF started, stopped
<1>4. known' \in Orders(Inserted(known) \cup started \cup stopped)
  <2>1. PICK first \in Orders(firstIn), second \in Orders(thenIn) :
          known' = InsertedAfter(InsertedAfter(known, firstIn, first), thenIn, second)
    BY <1>1
  <2> DEFINE S == Inserted(known)
  <2>2. known \in Orders(S)
    BY DEF CallbacksTypeOK
  <2> HIDE DEF S
  <2>3. firstIn = started \ S /\ thenIn = (stopped \ started) \ S
    BY DEF S
  <2>4. firstIn \cap S = {} /\ thenIn \cap (S \cup firstIn) = {}
    BY <2>3
  <2> DEFINE map == InsertedAfter(known, firstIn, first)
  <2>5. map \in Orders(S \cup firstIn)
    BY <2>2, <2>4, InsertedLater
  <2> HIDE DEF map, firstIn, thenIn
  <2>6. InsertedAfter(map, thenIn, second) \in Orders((S \cup firstIn) \cup thenIn)
    BY <2>4, <2>5, InsertedLater
  <2>7. (S \cup firstIn) \cup thenIn = S \cup started \cup stopped
    BY <2>3
  <2> QED BY <2>1, <2>6, <2>7 DEF map, S
<1>5. Inserted(known') = Inserted(known) \cup started \cup stopped
  BY <1>4, InsertedIs
<1>6. \A i \in Instances : i \notin started \cup stopped =>
                            callbackInstances'[i] = callbackInstances[i]
  BY <1>1
<1>7. ASSUME NEW i \in Instances PROVE callbackInstances'[i] \in CallbackInstance
  <2>1. callbackInstances[i] \in CallbackInstance
    BY DEF CallbacksTypeOK
  <2>2. afterStarts(i) \in CallbackInstance
    BY <1>2, <2>1, StartsTyped
  <2> HIDE DEF afterStarts
  <2> QED BY <1>1, <2>2, StartsTyped
<1>8. callbackInstances' \in [Instances -> CallbackInstance]
  BY <1>1, <1>7
<1>9. \A i \in Instances \ Inserted(known') : callbackInstances'[i] = Fresh
  BY <1>5, <1>6 DEF CallbacksTypeOK
<1>10. timer' \in 0 .. LastTime + CALLBACK_WAIT_TIME
  <2>1. /\ clock \in 1 .. LastTime /\ CALLBACK_WAIT_TIME \in Nat /\ LastTime \in Nat
        /\ timer \in 0 .. LastTime + CALLBACK_WAIT_TIME
    BY DEF CallbacksTypeOK, CallbacksAssumption, Moment
  <2> QED BY ONLY <1>1, <2>1
<1> QED BY <1>1, <1>3, <1>4, <1>5, <1>8, <1>9, <1>10 DEF CallbacksTypeOK

\* The parts of a sending.
Left(t) == IF Ripe(t) THEN Nothing ELSE t
After(i) == [callbackInstances[i] EXCEPT !.start = Left(@), !.stop = Left(@)]
Waits(i) == After(i).start # Nothing \/ After(i).stop # Nothing
Forgotten == {i \in Inserted(known) :
                \A j \in Inserted(known) : <<j, i>> \in known => ~Waits(j)}
StopTold(i) == IF Ripe(callbackInstances[i].stop) THEN Told(told[i], "stop") ELSE told[i]

LEMMA SendIs ==
  ASSUME CallbacksTypeOK, _sendStartStopCallbacks
  PROVE  /\ timer # NoTimer /\ timer <= clock
         /\ told' = [i \in Instances |->
                       IF Ripe(callbackInstances[i].start)
                       THEN Told(StopTold(i), "start") ELSE StopTold(i)]
         /\ callbackInstances' = [i \in Instances |-> IF i \in Forgotten THEN Fresh ELSE After(i)]
         /\ known' = {p \in known : p[1] \notin Forgotten}
         /\ timer' = Rearmed({i \in Inserted(known) : Waits(i)})
         /\ UNCHANGED <<clock, handledAt, sentCallbacks>>
<1> DEFINE after == [i \in Instances |->
                       [callbackInstances[i] EXCEPT !.start = Left(@), !.stop = Left(@)]]
           waits(i) == after[i].start # Nothing \/ after[i].stop # Nothing
           forgotten == {i \in Inserted(known) :
                           \A j \in Inserted(known) : <<j, i>> \in known => ~waits(j)}
<1>1. /\ timer # NoTimer /\ timer <= clock
      /\ told' = [i \in Instances |->
                    IF Ripe(callbackInstances[i].start)
                    THEN Told(StopTold(i), "start") ELSE StopTold(i)]
      /\ callbackInstances' = [i \in Instances |-> IF i \in forgotten THEN Fresh ELSE after[i]]
      /\ known' = {p \in known : p[1] \notin forgotten}
      /\ timer' = Rearmed({i \in Inserted(known) : waits(i)})
      /\ UNCHANGED <<clock, handledAt, sentCallbacks>>
  BY DEF _sendStartStopCallbacks, Left, StopTold
<1>2. \A i \in Instances : after[i] = After(i)
  BY DEF After
<1> HIDE DEF after
<1>3. \A i \in Inserted(known) : waits(i) <=> Waits(i)
  BY <1>2 DEF Waits, CallbacksTypeOK
<1> HIDE DEF waits
<1>4. forgotten = Forgotten
  BY <1>3 DEF Forgotten
<1> HIDE DEF forgotten
<1>5. callbackInstances' = [i \in Instances |-> IF i \in Forgotten THEN Fresh ELSE After(i)]
  BY <1>1, <1>2, <1>4
<1>6. timer' = Rearmed({i \in Inserted(known) : Waits(i)})
  <2>1. {i \in Inserted(known) : waits(i)} = {i \in Inserted(known) : Waits(i)}
    BY <1>3
  <2> QED BY <1>1, <2>1
<1> QED BY <1>1, <1>4, <1>5, <1>6

LEMMA AfterIs ==
  ASSUME CallbacksTypeOK, NEW i \in Instances
  PROVE  /\ After(i) \in CallbackInstance
         /\ After(i).playing = callbackInstances[i].playing
         /\ After(i).start = Left(callbackInstances[i].start)
         /\ After(i).stop = Left(callbackInstances[i].stop)
<1>1. callbackInstances[i] \in CallbackInstance
  BY DEF CallbacksTypeOK
<1> QED BY <1>1 DEF After, Left, CallbackInstance

LEMMA SendTyped ==
  ASSUME CallbacksAssumption, CallbacksTypeOK, _sendStartStopCallbacks
  PROVE  CallbacksTypeOK'
<1>1. Inserted(known) \subseteq Instances /\ known \in Orders(Inserted(known))
      /\ callbackInstances \in [Instances -> CallbackInstance]
  BY DEF CallbacksTypeOK
<1>2. \A i, j \in Inserted(known) : <<i, j>> \in known /\ j \in Forgotten => i \in Forgotten
  BY <1>1 DEF Forgotten, Orders
<1>3. known' \in Orders(Inserted(known) \ Forgotten)
  <2>1. Forgotten \in SUBSET Inserted(known)
    BY DEF Forgotten
  <2>2. known' = {p \in known : p[1] \notin Forgotten}
    BY SendIs
  <2> QED BY <1>1, <1>2, <2>1, <2>2, InsertedFirstLeave
<1>4. Inserted(known') = Inserted(known) \ Forgotten
  BY <1>3, InsertedIs
<1>5. Fresh \in CallbackInstance
  BY DEF Fresh, CallbackInstance
<1>6. callbackInstances' \in [Instances -> CallbackInstance]
  BY <1>5, SendIs, AfterIs
<1>7. ASSUME NEW i \in Instances \ Inserted(known') PROVE callbackInstances'[i] = Fresh
  <2>1. CASE i \in Forgotten
    BY <2>1, SendIs
  <2>2. CASE i \notin Forgotten
    <3>1. callbackInstances[i] = Fresh
      BY <1>4, <2>2 DEF CallbacksTypeOK
    <3>2. After(i) = Fresh
      <4>1. Left(Nothing) = Nothing
        BY DEF Left
      <4>2. /\ callbackInstances[i].playing = "undefined"
            /\ callbackInstances[i].start = Nothing
            /\ callbackInstances[i].stop = Nothing
        BY <3>1 DEF Fresh
      <4> QED BY <1>5, <4>1, <4>2, AfterIs DEF CallbackInstance, Fresh
    <3> QED BY <2>2, <3>2, SendIs
  <2> QED BY <2>1, <2>2
<1>8. told' \in [Instances -> [last : {"nothing", "start", "stop"}, twice : BOOLEAN]]
  <2> DEFINE K == [last : {"nothing", "start", "stop"}, twice : BOOLEAN]
  <2>1. \A c \in K : Told(c, "start") \in K /\ Told(c, "stop") \in K
    BY DEF Told
  <2>2. \A i \in Instances : told[i] \in K
    BY DEF CallbacksTypeOK
  <2> HIDE DEF K
  <2>3. \A i \in Instances : StopTold(i) \in K
    BY <2>1, <2>2 DEF StopTold
  <2>4. \A i \in Instances : (IF Ripe(callbackInstances[i].start)
                              THEN Told(StopTold(i), "start") ELSE StopTold(i)) \in K
    BY <2>1, <2>3
  <2>5. told' \in [Instances -> K]
    BY <2>4, SendIs
  <2> QED BY <2>5 DEF K
<1>9. timer' \in 0 .. LastTime + CALLBACK_WAIT_TIME
  <2>1. timer' = 0 \/ timer' = clock + CALLBACK_WAIT_TIME
    BY SendIs DEF Rearmed, NoTimer
  <2>2. clock \in 1 .. LastTime /\ CALLBACK_WAIT_TIME \in Nat /\ LastTime \in Nat
    BY DEF CallbacksTypeOK, CallbacksAssumption, Moment
  <2> QED BY ONLY <2>1, <2>2
<1> QED BY <1>1, <1>3, <1>4, <1>6, <1>7, <1>8, <1>9, SendIs DEF CallbacksTypeOK

LEMMA NextTyped ==
  ASSUME CallbacksAssumption, CallbacksTypeOK, [CallbacksNext]_callbacksVars
  PROVE  CallbacksTypeOK'
<1>1. CASE HandleState
  <2>1. PICK t \in Moment, active \in Active :
          _diffStateForCallbacks(active, t) /\ handledAt' = t /\ UNCHANGED <<clock, told>>
    BY <1>1 DEF HandleState
  <2>2. \A i \in DOMAIN active : active[i].time \in Moment
    BY DEF Active, Callback
  <2> QED BY <2>1, <2>2, HandleTyped
<1>2. CASE _sendStartStopCallbacks
  BY <1>2, SendTyped
<1>3. CASE TimePasses
  <2>1. clock' \in Moment
    BY <1>3 DEF TimePasses, CallbacksTypeOK, Moment, CallbacksAssumption
  <2> QED BY <1>3, <2>1 DEF TimePasses, CallbacksTypeOK
<1>4. CASE UNCHANGED callbacksVars
  BY <1>4 DEF callbacksVars, CallbacksTypeOK
<1> QED BY <1>1, <1>2, <1>3, <1>4 DEF CallbacksNext

----------------------------------------------------------------------------
(* Every variable keeps its type, whatever the timer and Core do.          *)
THEOREM TypeCorrect ==
  ASSUME CallbacksAssumption
  PROVE  CallbacksSpec => []CallbacksTypeOK
<1>1. CallbacksInit => CallbacksTypeOK
  BY InitTyped
<1>2. CallbacksTypeOK /\ [CallbacksNext]_callbacksVars => CallbacksTypeOK'
  BY NextTyped
<1> QED BY <1>1, <1>2, PTL DEF CallbacksSpec

----------------------------------------------------------------------------
(* What waits is looked at again.  Whatever changes an instance sets the   *)
(* timer if it is not set, and the sending sets it for what still waits.   *)
WInv == CallbacksTypeOK /\ WaitingIsTimed

LEMMA HandleTimes ==
  ASSUME CallbacksAssumption, WInv, NEW t \in Moment, NEW active \in Active,
         _diffStateForCallbacks(active, t), clock' = clock
  PROVE  WaitingIsTimed'
<1> DEFINE sent == [i \in {j \in DOMAIN sentCallbacks : sentCallbacks[j].time < t} |->
                      sentCallbacks[i]]
           started == {i \in DOMAIN active \cap HasStart : ~Same(sent, active, i)}
           stopped == {i \in DOMAIN sent \cap HasStop : ~Same(sent, active, i)}
           afterStarts(i) == IF i \in started
                             THEN Starts(callbackInstances[i], active[i].time)
                             ELSE callbackInstances[i]
<1>1. /\ callbackInstances' =
           [i \in Instances |-> IF i \in stopped THEN Stops(afterStarts(i), t)
                                ELSE afterStarts(i)]
      /\ IF started \cup stopped = {} THEN UNCHANGED timer ELSE TriggerLater(clock)
  BY DEF _diffStateForCallbacks
<1>2. /\ clock \in 1 .. LastTime /\ CALLBACK_WAIT_TIME \in Nat \ {0} /\ LastTime \in Nat
      /\ timer \in 0 .. LastTime + CALLBACK_WAIT_TIME
  BY DEF WInv, CallbacksTypeOK, CallbacksAssumption, Moment
<1> HIDE DEF started, stopped
<1>3. CASE started \cup stopped = {}
  <2>1. timer' = timer /\ \A i \in Instances : callbackInstances'[i] = callbackInstances[i]
    BY <1>1, <1>3
  <2> QED BY <2>1 DEF WInv, WaitingIsTimed
<1>4. CASE started \cup stopped # {}
  <2>1. timer' = IF timer = 0 THEN clock + CALLBACK_WAIT_TIME ELSE timer
    BY <1>1, <1>4 DEF TriggerLater, NoTimer
  <2>2. timer <= clock + CALLBACK_WAIT_TIME
    BY DEF WInv, WaitingIsTimed
  <2>3. timer' # 0 /\ timer' <= clock + CALLBACK_WAIT_TIME
    BY ONLY <1>2, <2>1, <2>2
  <2> QED BY <2>3 DEF WaitingIsTimed, NoTimer
<1> QED BY <1>3, <1>4

LEMMA SendTimes ==
  ASSUME CallbacksAssumption, WInv, _sendStartStopCallbacks
  PROVE  WaitingIsTimed'
<1>1. CallbacksTypeOK /\ clock \in 1 .. LastTime /\ CALLBACK_WAIT_TIME \in Nat \ {0} /\ LastTime \in Nat
  BY DEF WInv, CallbacksTypeOK, CallbacksAssumption, Moment
<1>2. /\ callbackInstances' = [i \in Instances |-> IF i \in Forgotten THEN Fresh ELSE After(i)]
      /\ timer' = Rearmed({i \in Inserted(known) : Waits(i)})
      /\ clock' = clock
  BY <1>1, SendIs
<1>3. timer' = 0 \/ timer' = clock + CALLBACK_WAIT_TIME
  BY <1>2 DEF Rearmed, NoTimer
<1>4. timer' <= clock' + CALLBACK_WAIT_TIME /\ clock + CALLBACK_WAIT_TIME # 0
  BY ONLY <1>1, <1>2, <1>3
<1>5. ASSUME NEW i \in Instances,
             callbackInstances'[i].start # Nothing \/ callbackInstances'[i].stop # Nothing
      PROVE  timer' # NoTimer
  <2>1. i \notin Forgotten /\ Waits(i)
    BY <1>2, <1>5 DEF Fresh, Waits
  <2>2. i \in Inserted(known)
    <3>1. SUFFICES ASSUME i \notin Inserted(known) PROVE FALSE
      OBVIOUS
    <3>2. callbackInstances[i].start = Nothing /\ callbackInstances[i].stop = Nothing
      BY <1>1, <3>1 DEF CallbacksTypeOK, Fresh
    <3>3. After(i).start = Nothing /\ After(i).stop = Nothing
      BY <1>1, <3>2, AfterIs DEF Left
    <3> QED BY <2>1, <3>3 DEF Waits
  <2>3. {j \in Inserted(known) : Waits(j)} # {}
    BY <2>1, <2>2
  <2> QED BY <1>2, <1>4, <2>3 DEF Rearmed, NoTimer
<1> QED BY <1>4, <1>5 DEF WaitingIsTimed

(* What waits to be told to Core is looked at again within the wait, for   *)
(* any objects, however late the timer and the states, also when objects   *)
(* change their data, began in the past or are handled twice at a time:    *)
(* nothing is left without a timer (conductor.ts:1435-1497).               *)
THEOREM NothingIsLeftWaiting ==
  ASSUME CallbacksAssumption
  PROVE  CallbacksSpec => []WaitingIsTimed
<1>1. CallbacksInit => WInv
  <2>1. CallbacksInit => WaitingIsTimed
    <3> SUFFICES ASSUME CallbacksInit PROVE WaitingIsTimed
      OBVIOUS
    <3>1. timer = 0 /\ clock = 1 /\ CALLBACK_WAIT_TIME \in Nat
      BY DEF CallbacksInit, CallbacksAssumption, NoTimer
    <3>2. timer <= clock + CALLBACK_WAIT_TIME
      BY ONLY <3>1
    <3>3. \A i \in Instances :
            callbackInstances[i].start = Nothing /\ callbackInstances[i].stop = Nothing
      BY DEF CallbacksInit, Fresh
    <3> QED BY <3>2, <3>3 DEF WaitingIsTimed
  <2> QED BY <2>1, InitTyped DEF WInv
<1>2. WInv /\ [CallbacksNext]_callbacksVars => WInv'
  <2> SUFFICES ASSUME WInv, [CallbacksNext]_callbacksVars PROVE WaitingIsTimed'
    BY NextTyped DEF WInv
  <2>1. CASE HandleState
    BY <2>1, HandleTimes DEF HandleState
  <2>2. CASE _sendStartStopCallbacks
    BY <2>2, SendTimes
  <2>3. CASE TimePasses
    <3>1. /\ clock' = clock + 1 /\ timer' = timer /\ callbackInstances' = callbackInstances
          /\ clock \in Int /\ timer \in Int /\ CALLBACK_WAIT_TIME \in Int
          /\ timer <= clock + CALLBACK_WAIT_TIME
      BY <2>3 DEF TimePasses, WInv, WaitingIsTimed, CallbacksTypeOK, CallbacksAssumption, Moment
    <3>2. timer' <= clock' + CALLBACK_WAIT_TIME
      BY ONLY <3>1
    <3> QED BY <3>1, <3>2 DEF WInv, WaitingIsTimed
  <2>4. CASE UNCHANGED callbacksVars
    BY <2>4 DEF callbacksVars, WInv, WaitingIsTimed
  <2> QED BY <2>1, <2>2, <2>3, <2>4 DEF CallbacksNext
<1>3. WInv => WaitingIsTimed
  BY DEF WInv
<1> QED BY <1>1, <1>2, <1>3, PTL DEF CallbacksSpec
=============================================================================
