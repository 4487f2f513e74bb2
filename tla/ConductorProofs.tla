-------------------------- MODULE ConductorProofs ---------------------------
(***************************************************************************)
(* What the resolve loop of conductor.ts guarantees for every choice of    *)
(* its times, for timelines of any length and any number of calls.         *)
(***************************************************************************)
EXTENDS Conductor, WellFoundedInduction, TLAPS

LEMMA LeastIs ==
  ASSUME NEW S \in SUBSET Nat, S # {}
  PROVE  Least(S) \in S /\ \A n \in S : Least(S) <= n
<1> DEFINE R == OpToRel(<, Nat)
<1>1. \A n, m \in Nat : <<m, n>> \in R <=> m < n
  BY DEF OpToRel
<1>2. IsWellFoundedOn(R, Nat)
  BY NatLessThanWellFounded
<1> HIDE DEF R
<1>3. PICK n \in S : \A m \in S : <<m, n>> \notin R
  BY <1>2, WFMin
<1>4. ASSUME NEW m \in S PROVE n <= m
  <2>1. n \in Nat /\ m \in Nat /\ ~(m < n)
    BY <1>1, <1>3
  <2> QED BY <2>1
<1> QED BY <1>4 DEF Least

(* A set of numbers that has a bound has a last one. *)
LEMMA LatestIs ==
  ASSUME NEW b \in Nat, NEW S \in SUBSET (0 .. b), S # {}
  PROVE  Latest(S) \in S /\ \A n \in S : n <= Latest(S)
<1> DEFINE T == {b - n : n \in S}
<1>1. T \subseteq Nat
  <2>1. ASSUME NEW n \in S PROVE b - n \in Nat
    <3>1. n \in 0 .. b
      OBVIOUS
    <3> QED BY <3>1
  <2> QED BY <2>1
<1>2. T # {}
  OBVIOUS
<1>3. Least(T) \in T /\ \A m \in T : Least(T) <= m
  BY <1>1, <1>2, LeastIs
<1>4. PICK n \in S : Least(T) = b - n
  BY <1>3
<1>5. ASSUME NEW m \in S PROVE m <= n
  <2>1. b - m \in T /\ m \in 0 .. b /\ n \in 0 .. b
    OBVIOUS
  <2>2. b - n <= b - m
    BY <1>3, <1>4, <2>1
  <2> QED BY <2>1, <2>2
<1>6. \E n1 \in S : \A m \in S : m <= n1
  BY <1>5
<1> QED BY <1>6 DEF Latest

\* The state of a timeline is named by a change that has come, or by none.
LEMMA StateIsNamed ==
  ASSUME NEW tl \in Timeline, NEW t \in Nat
  PROVE  /\ getState(tl, t) \in StateName
         /\ getState(tl, t).change <= t
<1> DEFINE S == {c \in tl.changes : c <= t} \cup {0}
<1>1. S \in SUBSET (0 .. MaxTime) /\ S # {} /\ \A c \in S : c <= t
  <2>1. ASSUME NEW c \in tl.changes PROVE c \in 0 .. MaxTime
    <3>1. c \in 2 .. MaxTime /\ MaxTime \in Nat
      BY ConductorAssumption DEF Timeline
    <3> QED BY <3>1
  <2>2. MaxTime \in Nat
    BY ConductorAssumption
  <2> QED BY <2>1, <2>2
<1>2. Latest(S) \in S
  BY <1>1, LatestIs, ConductorAssumption
<1>3. Latest(S) \in 0 .. MaxTime /\ Latest(S) <= t
  BY <1>1, <1>2
<1> HIDE DEF S
<1>4. getState(tl, t) = [version |-> tl.version, change |-> Latest(S)]
  BY DEF getState, S
<1> QED BY <1>3, <1>4 DEF StateName, Timeline

----------------------------------------------------------------------------
(* The inductive invariant, first what every run of the loop keeps: the    *)
(* queue has a resolve right behind every reset, an action that resolves   *)
(* knows for when, and what has been resolved is for the timeline set last *)
(* unless a reset is on its way.                                           *)
Resolving == phase \in {"resolving", "resolved", "handed over"}
Queued(q, action) == \E i \in DOMAIN q : q[i] = action
ResetQueued == Queued(actionQueue, "reset")

Followed(q) ==
  \A i \in 1 .. Len(q) : q[i] = "reset" => i < Len(q) /\ q[i + 1] = "resolve"

\* Once initialized the loop runs, waits for its timer or has something to run.
LoopIsAlive ==
  isInitialized => phase # "idle" \/ actionQueue # <<>> \/ trigger # NoTimer

Jobs ==
  /\ Resolving => job.started \in Time /\ job.time \in Instant
  /\ Resolving \/ resolveDone => isInitialized

Fresh ==
  /\ resolvedStates.resolveTime # 0 /\ resolvedStates.timeline # timeline => ResetQueued
  /\ phase = "resolving" /\ job.timeline # timeline => ResetQueued
  /\ phase \in {"resolved", "handed over"} => resolvedStates.resolveTime # 0

LInv == TypeOK /\ Followed(actionQueue) /\ LoopIsAlive /\ Jobs /\ Fresh

(* Then what is planned, as long as no reset is on its way: up to the next *)
(* resolve, or the one under way, the devices show what the timeline has   *)
(* at that very time.                                                      *)
Settled(t) == (\E u \in DOMAIN plan : u <= t) /\ Shown(t) = getState(timeline, t)
SettledUntil(h) == \A t \in now .. h - 1 : Settled(t)

Punctual ==
  /\ phase = "idle" => busy = 0
  /\ busy <= MaxBusy
  /\ Resolving => now = job.started + busy /\ job.time >= job.started

Handed ==
  /\ job.time \in DOMAIN plan /\ plan[job.time] = getState(timeline, job.time)
  /\ \A u \in DOMAIN plan : u <= job.time

Planned ==
  ~ResetQueued =>
    /\ ~Resolving /\ nextResolveTime # 0 => SettledUntil(nextResolveTime)
    /\ Resolving => SettledUntil(job.time)
    /\ phase = "handed over" => Handed

PInv == LInv /\ Punctual /\ Planned /\ InTime

----------------------------------------------------------------------------
Action == {"reset", "resolve", "make ready"}

(* What the queue keeps when an action is added or taken.                  *)
LEMMA AppendIs ==
  ASSUME NEW S, NEW q \in Seq(S), NEW a \in S
  PROVE  /\ Append(q, a) \in Seq(S) /\ Append(q, a) # <<>>
         /\ Len(q) \in Nat /\ Len(Append(q, a)) = Len(q) + 1
         /\ DOMAIN q = 1 .. Len(q) /\ DOMAIN Append(q, a) = 1 .. Len(q) + 1
         /\ \A i \in 1 .. Len(q) : Append(q, a)[i] = q[i]
         /\ Append(q, a)[Len(q) + 1] = a
OBVIOUS

LEMMA Appended ==
  ASSUME NEW q \in Seq(Action), Followed(q), NEW a, a \in Action, a # "reset"
  PROVE  /\ Append(q, a) \in Seq(Action) /\ Append(q, a) # <<>>
         /\ Followed(Append(q, a))
         /\ Queued(Append(q, a), "reset") <=> Queued(q, "reset")
<1> DEFINE r == Append(q, a)
<1>1. /\ r \in Seq(Action) /\ r # <<>> /\ Len(q) \in Nat /\ Len(r) = Len(q) + 1
      /\ DOMAIN q = 1 .. Len(q) /\ DOMAIN r = 1 .. Len(q) + 1
      /\ \A i \in 1 .. Len(q) : r[i] = q[i]
      /\ r[Len(q) + 1] = a
  BY AppendIs
<1> HIDE DEF r
<1>2. Followed(r)
  <2>1. ASSUME NEW i \in 1 .. Len(r), r[i] = "reset"
        PROVE  i < Len(r) /\ r[i + 1] = "resolve"
    <3>1. i \in 1 .. Len(q) /\ q[i] = "reset"
      BY <1>1, <2>1
    <3>2. i + 1 \in 1 .. Len(q) /\ q[i + 1] = "resolve"
      BY <1>1, <3>1 DEF Followed
    <3> QED BY <1>1, <3>2
  <2> QED BY <2>1 DEF Followed
<1>3. Queued(r, "reset") <=> Queued(q, "reset")
  <2>1. \A i \in DOMAIN q : i \in DOMAIN r /\ r[i] = q[i]
    BY <1>1
  <2>2. \A i \in DOMAIN r : r[i] = "reset" => i \in DOMAIN q
    BY <1>1
  <2> QED BY <2>1, <2>2 DEF Queued
<1> QED BY <1>1, <1>2, <1>3 DEF r

LEMMA WithReset ==
  ASSUME NEW q \in Seq(Action), Followed(q)
  PROVE  LET r == Append(Append(q, "reset"), "resolve")
         IN r \in Seq(Action) /\ r # <<>> /\ Followed(r) /\ Queued(r, "reset")
<1> DEFINE p == Append(q, "reset")  r == Append(p, "resolve")
<1>1. "reset" \in Action /\ "resolve" \in Action
  BY DEF Action
<1>2. /\ p \in Seq(Action) /\ Len(q) \in Nat /\ Len(p) = Len(q) + 1
      /\ \A i \in 1 .. Len(q) : p[i] = q[i]
      /\ p[Len(q) + 1] = "reset"
  BY <1>1, AppendIs
<1> HIDE DEF p
<1>3. /\ r \in Seq(Action) /\ r # <<>> /\ Len(r) = Len(q) + 2
      /\ DOMAIN r = 1 .. Len(q) + 2
      /\ \A i \in 1 .. Len(q) + 1 : r[i] = p[i]
      /\ r[Len(q) + 2] = "resolve"
  <2>1. /\ r \in Seq(Action) /\ r # <<>> /\ Len(r) = Len(p) + 1
        /\ DOMAIN r = 1 .. Len(p) + 1
        /\ \A i \in 1 .. Len(p) : r[i] = p[i]
        /\ r[Len(p) + 1] = "resolve"
    BY <1>1, <1>2, AppendIs
  <2> HIDE DEF r
  <2> QED BY <1>2, <2>1
<1> HIDE DEF r
<1>4. Followed(r)
  <2>1. ASSUME NEW i \in 1 .. Len(r), r[i] = "reset"
        PROVE  i < Len(r) /\ r[i + 1] = "resolve"
    <3>1. CASE i \in 1 .. Len(q)
      <4>1. i + 1 \in 1 .. Len(q) /\ q[i + 1] = "resolve"
        BY <1>2, <1>3, <2>1, <3>1 DEF Followed
      <4> QED BY <1>2, <1>3, <4>1
    <3>2. CASE i = Len(q) + 1
      BY <1>2, <1>3, <3>2
    <3> QED BY <1>2, <1>3, <2>1, <3>1, <3>2
  <2> QED BY <2>1 DEF Followed
<1>5. Queued(r, "reset")
  <2>1. Len(q) + 1 \in DOMAIN r /\ r[Len(q) + 1] = "reset"
    BY <1>2, <1>3
  <2> QED BY <2>1 DEF Queued
<1> QED BY <1>3, <1>4, <1>5 DEF p, r

LEMMA Taken ==
  ASSUME LInv, NEW a \in Action, Take(a)
  PROVE  /\ phase = "idle"
         /\ actionQueue' \in Seq(Action)
         /\ Followed(actionQueue')
         /\ a # "reset" /\ ResetQueued => ResetQueued'
         /\ ResetQueued' => ResetQueued
         /\ a = "reset" => /\ ResetQueued /\ actionQueue' # <<>>
                        /\ Head(actionQueue') = "resolve"
<1> DEFINE q == actionQueue  r == actionQueue'
<1>1. /\ phase = "idle" /\ q \in Seq(Action) /\ q # <<>> /\ Head(q) = a /\ r = Tail(q)
      /\ Followed(q)
  BY DEF LInv, TypeOK, Take, Action
<1>2. /\ r \in Seq(Action) /\ Len(q) \in Nat \ {0} /\ Len(r) = Len(q) - 1
      /\ \A i \in 1 .. Len(r) : r[i] = q[i + 1]
      /\ q[1] = a
  BY <1>1
<1>3. Followed(r)
  BY <1>1, <1>2 DEF Followed
<1>4. ASSUME Queued(q, "reset"), a # "reset" PROVE Queued(r, "reset")
  <2>1. PICK i \in 1 .. Len(q) : q[i] = "reset" /\ i # 1
    BY <1>1, <1>2, <1>4 DEF Queued
  <2>2. i - 1 \in 1 .. Len(r) /\ r[i - 1] = "reset"
    BY <1>2, <2>1
  <2> QED BY <1>2, <2>2 DEF Queued
<1>5. ASSUME Queued(r, "reset") PROVE Queued(q, "reset")
  <2>1. PICK i \in 1 .. Len(r) : r[i] = "reset"
    BY <1>2, <1>5 DEF Queued
  <2>2. i + 1 \in 1 .. Len(q) /\ q[i + 1] = "reset"
    BY <1>2, <2>1
  <2> QED BY <1>1, <2>2 DEF Queued
<1>6. ASSUME a = "reset" PROVE Queued(q, "reset") /\ r # <<>> /\ Head(r) = "resolve"
  <2>1. 1 \in 1 .. Len(q) /\ 1 < Len(q) /\ q[2] = "resolve"
    BY <1>1, <1>2, <1>6 DEF Followed
  <2>2. Queued(q, "reset") /\ r # <<>> /\ r[1] = "resolve"
    BY <1>1, <1>2, <1>6, <2>1 DEF Queued
  <2> QED BY <1>2, <2>2
<1> QED BY <1>1, <1>2, <1>3, <1>4, <1>5, <1>6 DEF ResetQueued

LEMMA InitLInv == Init => LInv
<1> SUFFICES ASSUME Init PROVE LInv
  OBVIOUS
<1>1. TypeOK
  <2>1. <<>> \in Seq({"reset", "resolve", "make ready"}) /\ DOMAIN <<>> = {}
    OBVIOUS
  <2>2. NoTimeline \in Timeline
    BY ConductorAssumption DEF NoTimeline, Timeline
  <2>3. 1 \in Time /\ NoStates \in [timeline : Timeline, resolveTime : Instant \cup {0}]
        /\ NoJob \in [timeline : Timeline, time : Instant \cup {0}, started : Time \cup {0}]
    BY <2>2, ConductorAssumption DEF Time, NoStates, NoJob
  <2>4. 0 \in 0 .. MaxVersions /\ 0 \in 0 .. MaxMakeReady
    BY ConductorAssumption
  <2>5. /\ timeline \in Timeline
        /\ job \in [timeline : Timeline, time : Instant \cup {0}, started : Time \cup {0}]
        /\ resolvedStates \in [timeline : Timeline, resolveTime : Instant \cup {0}]
    BY <2>2, <2>3 DEF Init
  <2>6. DOMAIN plan = {} /\ now \in Time /\ phase \in Phases
    BY <2>1, <2>3 DEF Init, Phases
  <2>7. interval \in 1 .. MaxTime + IntervalTime
    BY ConductorAssumption DEF Init
  <2> QED BY <2>1, <2>4, <2>5, <2>6, <2>7 DEF Init, TypeOK, NoTimer
<1>2. Followed(actionQueue) /\ ~ResetQueued
  BY DEF Init, Followed, ResetQueued, Queued
<1>3. LoopIsAlive /\ Jobs /\ Fresh
  BY <1>2 DEF Init, LoopIsAlive, Jobs, Fresh, Resolving, NoStates
<1> QED BY <1>1, <1>2, <1>3 DEF LInv

----------------------------------------------------------------------------
(* Every step keeps what the loop keeps.                                   *)
LEMMA Triggered ==
  ASSUME NEW q \in Seq(Action), Followed(q), TriggerNow(q)
  PROVE  /\ trigger' = NoTimer
         /\ actionQueue' \in Seq(Action) /\ actionQueue' # <<>>
         /\ Followed(actionQueue')
         /\ ResetQueued' <=> Queued(q, "reset")
<1>1. "resolve" \in Action /\ "resolve" # "reset"
  BY DEF Action
<1>2. trigger' = NoTimer /\ actionQueue' = Append(q, "resolve")
  BY DEF TriggerNow
<1> QED BY <1>1, <1>2, Appended DEF ResetQueued

LEMMA ResetTriggered ==
  ASSUME LInv, resetResolver
  PROVE  /\ trigger' = NoTimer
         /\ actionQueue' \in Seq(Action) /\ actionQueue' # <<>>
         /\ Followed(actionQueue')
         /\ ResetQueued'
<1>1. actionQueue \in Seq(Action) /\ Followed(actionQueue)
  BY DEF LInv, TypeOK, Action
<1>2. trigger' = NoTimer /\ actionQueue' = Append(Append(actionQueue, "reset"), "resolve")
  BY DEF resetResolver, TriggerNow
<1> QED BY <1>1, <1>2, WithReset DEF ResetQueued

\* Timers are set for later.
LEMMA TimerSet ==
  ASSUME TypeOK, NEW wait \in 1 .. LOOKAHEADTIME, TriggerIn(wait)
  PROVE  trigger' \in Instant /\ trigger' # NoTimer
<1>1. now \in 1 .. MaxTime /\ trigger' = now + wait
  BY DEF TypeOK, TriggerIn, Time
<1>2. MaxTime \in Nat /\ Estimate \in Nat /\ LOOKAHEADTIME \in Nat
  BY ConductorAssumption
<1> QED BY ONLY <1>1, <1>2, wait \in 1 .. LOOKAHEADTIME DEF Instant, NoTimer

LEMMA initLoop ==
  ASSUME LInv, init
  PROVE  LInv'
<1>1. /\ trigger' = NoTimer /\ actionQueue' \in Seq(Action) /\ actionQueue' # <<>>
      /\ Followed(actionQueue') /\ ResetQueued'
  BY ResetTriggered DEF init
<1>2. /\ isInitialized' = TRUE
      /\ UNCHANGED <<now, timeline, nextResolveTime, resolvedStates, jobVars, plan, handed,
                     madeReady, interval, resolveDone>>
  BY DEF init
<1>3. TypeOK'
  BY <1>1, <1>2 DEF LInv, TypeOK, jobVars, Action
<1>4. LoopIsAlive' /\ Jobs' /\ Fresh'
  BY <1>1, <1>2 DEF LInv, LoopIsAlive, Jobs, Fresh, Resolving, jobVars
<1> QED BY <1>1, <1>3, <1>4 DEF LInv

LEMMA setTimelineLoop ==
  ASSUME LInv, NEW changes \in SUBSET Changes, setTimelineAndMappings(changes)
  PROVE  LInv'
<1>1. /\ trigger' = NoTimer /\ actionQueue' \in Seq(Action) /\ actionQueue' # <<>>
      /\ Followed(actionQueue') /\ ResetQueued'
  BY ResetTriggered DEF setTimelineAndMappings
<1>2. /\ timeline' = [version |-> timeline.version + 1, changes |-> changes]
      /\ timeline.version < MaxVersions
      /\ UNCHANGED <<now, isInitialized, nextResolveTime, resolvedStates, jobVars, plan, handed,
                     madeReady, interval, resolveDone>>
  BY DEF setTimelineAndMappings
<1>3. timeline' \in Timeline
  <2>1. timeline.version \in 0 .. MaxVersions /\ MaxVersions \in Nat
    BY ConductorAssumption DEF LInv, TypeOK, Timeline
  <2>2. timeline.version + 1 \in 0 .. MaxVersions
    BY ONLY <1>2, <2>1
  <2> QED BY <1>2, <2>2 DEF Timeline
<1>4. TypeOK'
  BY <1>1, <1>2, <1>3 DEF LInv, TypeOK, jobVars, Action
<1>5. LoopIsAlive' /\ Jobs' /\ Fresh'
  BY <1>1, <1>2 DEF LInv, LoopIsAlive, Jobs, Fresh, Resolving, jobVars
<1> QED BY <1>1, <1>4, <1>5 DEF LInv

LEMMA devicesMakeReadyLoop ==
  ASSUME LInv, devicesMakeReady
  PROVE  LInv' /\ (ResetQueued' <=> ResetQueued) /\ actionQueue' # <<>>
<1>1. /\ madeReady < MaxMakeReady /\ madeReady' = madeReady + 1
      /\ actionQueue' = Append(actionQueue, "make ready")
      /\ UNCHANGED <<now, timeline, isInitialized, nextResolveTime, resolvedStates, trigger,
                     jobVars, plan, handed, interval, resolveDone>>
  BY DEF devicesMakeReady
<1>2. /\ "make ready" \in Action /\ "make ready" # "reset"
      /\ actionQueue \in Seq(Action) /\ Followed(actionQueue)
  BY DEF Action, LInv, TypeOK
<1>3. /\ actionQueue' \in Seq(Action) /\ actionQueue' # <<>> /\ Followed(actionQueue')
      /\ ResetQueued' <=> ResetQueued
  BY <1>1, <1>2, Appended DEF ResetQueued
<1>4. madeReady' \in 0 .. MaxMakeReady
  <2>1. madeReady \in 0 .. MaxMakeReady /\ MaxMakeReady \in Nat
    BY ConductorAssumption DEF LInv, TypeOK
  <2>2. madeReady < MaxMakeReady /\ madeReady' = madeReady + 1
    BY <1>1
  <2> QED BY ONLY <2>1, <2>2
<1>5. TypeOK'
  BY <1>1, <1>3, <1>4 DEF LInv, TypeOK, jobVars, Action
<1>6. LoopIsAlive' /\ Jobs' /\ Fresh'
  BY <1>1, <1>3 DEF LInv, LoopIsAlive, Jobs, Fresh, Resolving, jobVars
<1> QED BY <1>3, <1>5, <1>6 DEF LInv

LEMMA FireTriggerLoop ==
  ASSUME LInv, FireTrigger
  PROVE  LInv' /\ (ResetQueued' <=> ResetQueued) /\ actionQueue' # <<>>
<1>1. actionQueue \in Seq(Action) /\ Followed(actionQueue) /\ TriggerNow(actionQueue)
  BY DEF LInv, TypeOK, Action, FireTrigger
<1>2. /\ trigger' = NoTimer
      /\ actionQueue' \in Seq(Action) /\ actionQueue' # <<>> /\ Followed(actionQueue')
      /\ ResetQueued' <=> ResetQueued
  BY <1>1, Triggered DEF ResetQueued
<1>3. UNCHANGED <<now, timeline, isInitialized, nextResolveTime, resolvedStates, jobVars, plan,
                  handed, madeReady, interval, resolveDone>>
  BY DEF FireTrigger
<1>4. TypeOK'
  BY <1>2, <1>3 DEF LInv, TypeOK, jobVars, Action
<1>5. LoopIsAlive' /\ Jobs' /\ Fresh'
  BY <1>2, <1>3 DEF LInv, LoopIsAlive, Jobs, Fresh, Resolving, jobVars
<1> QED BY <1>2, <1>4, <1>5 DEF LInv

LEMMA FireIntervalLoop ==
  ASSUME LInv, FireInterval
  PROVE  LInv' /\ (ResetQueued' <=> ResetQueued) /\ actionQueue' # <<>>
<1>1. /\ interval <= now /\ interval' = now + IntervalTime
      /\ actionQueue' = Append(actionQueue, "resolve")
      /\ UNCHANGED <<now, timeline, isInitialized, nextResolveTime, resolvedStates, trigger,
                     jobVars, plan, handed, madeReady, resolveDone>>
  BY DEF FireInterval
<1>2. /\ "resolve" \in Action /\ "resolve" # "reset"
      /\ actionQueue \in Seq(Action) /\ Followed(actionQueue)
  BY DEF Action, LInv, TypeOK
<1>3. /\ actionQueue' \in Seq(Action) /\ actionQueue' # <<>> /\ Followed(actionQueue')
      /\ ResetQueued' <=> ResetQueued
  BY <1>1, <1>2, Appended DEF ResetQueued
<1>4. interval' \in 1 .. MaxTime + IntervalTime
  <2>1. now \in 1 .. MaxTime /\ MaxTime \in Nat /\ IntervalTime \in Nat
    BY ConductorAssumption DEF LInv, TypeOK, Time
  <2> QED BY <1>1, <2>1
<1>5. TypeOK'
  BY <1>1, <1>3, <1>4 DEF LInv, TypeOK, jobVars, Action
<1>6. LoopIsAlive' /\ Jobs' /\ Fresh'
  BY <1>1, <1>3 DEF LInv, LoopIsAlive, Jobs, Fresh, Resolving, jobVars
<1> QED BY <1>3, <1>5, <1>6 DEF LInv

LEMMA EndMakeReadyLoop ==
  ASSUME LInv, EndMakeReady
  PROVE  LInv' /\ (ResetQueued' <=> ResetQueued) /\ actionQueue' # <<>>
<1>1. actionQueue \in Seq(Action) /\ Followed(actionQueue) /\ TriggerNow(actionQueue)
  BY DEF LInv, TypeOK, Action, EndMakeReady
<1>2. /\ trigger' = NoTimer
      /\ actionQueue' \in Seq(Action) /\ actionQueue' # <<>> /\ Followed(actionQueue')
      /\ ResetQueued' <=> ResetQueued
  BY <1>1, Triggered DEF ResetQueued
<1>3. /\ phase' = "idle" /\ busy' = 0 /\ job' = NoJob
      /\ UNCHANGED <<now, timeline, isInitialized, nextResolveTime, resolvedStates, plan, handed,
                     madeReady, interval, resolveDone>>
  BY DEF EndMakeReady, Done
<1>4. job' \in [timeline : Timeline, time : Instant \cup {0}, started : Time \cup {0}]
  BY <1>3, ConductorAssumption DEF NoJob, NoTimeline, Timeline
<1>5. TypeOK'
  BY <1>2, <1>3, <1>4 DEF LInv, TypeOK, Action, Phases, NoTimer
<1>6. LoopIsAlive' /\ Jobs' /\ Fresh'
  BY <1>2, <1>3 DEF LInv, LoopIsAlive, Jobs, Fresh, Resolving
<1> QED BY <1>2, <1>5, <1>6 DEF LInv

(* The actions of the queue.                                               *)
LEMMA ResetLoop ==
  ASSUME LInv, Reset
  PROVE  LInv'
<1>1. /\ phase = "idle" /\ actionQueue' \in Seq(Action) /\ Followed(actionQueue')
      /\ actionQueue' # <<>>
  BY Taken DEF Reset, Action
<1>2. /\ nextResolveTime' = 0 /\ resolvedStates' = NoStates
      /\ UNCHANGED <<now, timeline, isInitialized, trigger, jobVars, plan, handed, madeReady,
                     interval, resolveDone>>
  BY DEF Reset
<1>3. resolvedStates' \in [timeline : Timeline, resolveTime : Instant \cup {0}]
  BY <1>2, ConductorAssumption DEF NoStates, NoTimeline, Timeline
<1>4. TypeOK'
  BY <1>1, <1>2, <1>3 DEF LInv, TypeOK, Action, jobVars
<1>5. LoopIsAlive' /\ Jobs' /\ Fresh'
  BY <1>1, <1>2 DEF LInv, LoopIsAlive, Jobs, Fresh, Resolving, NoStates, jobVars
<1> QED BY <1>1, <1>4, <1>5 DEF LInv

LEMMA StartMakeReadyLoop ==
  ASSUME LInv, StartMakeReady
  PROVE  LInv' /\ (ResetQueued' <=> ResetQueued)
<1>1. /\ phase = "idle" /\ actionQueue' \in Seq(Action) /\ Followed(actionQueue')
      /\ ResetQueued' <=> ResetQueued
  BY Taken DEF StartMakeReady, Action
<1>2. /\ phase' = "making ready"
      /\ UNCHANGED <<now, timeline, isInitialized, nextResolveTime, resolvedStates, trigger, busy,
                     job, plan, handed, madeReady, interval, resolveDone>>
  BY DEF StartMakeReady
<1>3. TypeOK'
  BY <1>1, <1>2 DEF LInv, TypeOK, Action, Phases
<1>4. LoopIsAlive' /\ Jobs' /\ Fresh'
  BY <1>1, <1>2 DEF LInv, LoopIsAlive, Jobs, Fresh, Resolving
<1> QED BY <1>1, <1>3, <1>4 DEF LInv

LEMMA NotInitializedLoop ==
  ASSUME LInv, NotInitialized
  PROVE  LInv' /\ (ResetQueued' <=> ResetQueued)
<1>1. /\ phase = "idle" /\ actionQueue' \in Seq(Action) /\ Followed(actionQueue')
      /\ ResetQueued' <=> ResetQueued
  BY Taken DEF NotInitialized, Action
<1>2. /\ nextResolveTime' = 0 /\ ~isInitialized
      /\ UNCHANGED <<now, timeline, isInitialized, resolvedStates, trigger, jobVars, plan, handed,
                     madeReady, interval, resolveDone>>
  BY DEF NotInitialized
<1>3. TypeOK'
  BY <1>1, <1>2 DEF LInv, TypeOK, Action, jobVars
<1>4. LoopIsAlive' /\ Jobs' /\ Fresh'
  BY <1>1, <1>2 DEF LInv, LoopIsAlive, Jobs, Fresh, Resolving, jobVars
<1> QED BY <1>1, <1>3, <1>4 DEF LInv

LEMMA LookaheadIsAWait == LOOKAHEADTIME \in 1 .. LOOKAHEADTIME
BY ConductorAssumption

LEMMA PostponeLoop ==
  ASSUME LInv, Postpone
  PROVE  LInv' /\ (ResetQueued' <=> ResetQueued)
<1>1. /\ phase = "idle" /\ actionQueue' \in Seq(Action) /\ Followed(actionQueue')
      /\ ResetQueued' <=> ResetQueued
  BY Taken DEF Postpone, Action
<1>2. trigger' \in Instant /\ trigger' # NoTimer
  BY TimerSet, LookaheadIsAWait DEF Postpone, LInv
<1>3. /\ nextResolveTime' = 0
      /\ UNCHANGED <<now, timeline, isInitialized, resolvedStates, jobVars, plan, handed,
                     madeReady, interval, resolveDone>>
  BY DEF Postpone
<1>4. TypeOK'
  BY <1>1, <1>2, <1>3 DEF LInv, TypeOK, Action, jobVars
<1>5. LoopIsAlive' /\ Jobs' /\ Fresh'
  BY <1>1, <1>2, <1>3 DEF LInv, LoopIsAlive, Jobs, Fresh, Resolving, jobVars
<1> QED BY <1>1, <1>4, <1>5 DEF LInv

\* What is resolved is a time that is near.
LEMMA ResolveTimeIs ==
  ASSUME TypeOK, ~TooFarAhead
  PROVE  /\ resolveTime \in Instant
         /\ now + Estimate <= resolveTime
         /\ ~Late => resolveTime = nextResolveTime /\ nextResolveTime # 0
         /\ Late => resolveTime = now + Estimate
<1>1. /\ now \in 1 .. MaxTime /\ nextResolveTime \in Instant \cup {0}
      /\ MaxTime \in Nat /\ Estimate \in Nat /\ LOOKAHEADTIME \in Nat
  BY ConductorAssumption DEF TypeOK, Time
<1>2. nextResolveTime \in Int
  BY <1>1 DEF Instant
<1> QED BY ONLY <1>1, <1>2 DEF Instant, Late, resolveTime

LEMMA InstantsAreNumbers ==
  /\ \A t \in Instant : t \in Int /\ t \in Nat /\ t >= 1
  /\ \A t \in Time : t \in Instant
BY ConductorAssumption DEF Instant, Time

LEMMA BeforeIs ==
  ASSUME TypeOK, NEW t
  PROVE  /\ DOMAIN Before(plan, t) = {u \in DOMAIN plan : u < t}
         /\ \A u \in DOMAIN Before(plan, t) : Before(plan, t)[u] = plan[u]
BY DEF Before

LEMMA StartResolveLoop ==
  ASSUME LInv, StartResolve
  PROVE  /\ LInv' /\ (ResetQueued' <=> ResetQueued)
         /\ ~ResetQueued => (phase' = "resolved" => resolvedStates.timeline = timeline)
<1>1. /\ phase = "idle" /\ actionQueue' \in Seq(Action) /\ Followed(actionQueue')
      /\ ResetQueued' <=> ResetQueued
  BY Taken DEF StartResolve, Action
<1>2. /\ plan' = Before(plan, resolveTime)
      /\ phase' = IF PreResolved THEN "resolved" ELSE "resolving"
      /\ isInitialized
      /\ job' = [timeline |-> timeline, time |-> resolveTime, started |-> now]
      /\ UNCHANGED <<now, timeline, isInitialized, nextResolveTime, resolvedStates, trigger, busy,
                     handed, madeReady, interval, resolveDone>>
      /\ resolveTime \in Instant
  BY ResolveTimeIs DEF StartResolve, LInv
<1>3. job' \in [timeline : Timeline, time : Instant \cup {0}, started : Time \cup {0}]
  BY <1>2 DEF LInv, TypeOK
<1>4. DOMAIN plan' \subseteq Instant /\ \A t \in DOMAIN plan' : plan'[t] \in StateName
  BY <1>2, BeforeIs DEF LInv, TypeOK
<1>5. phase' \in {"resolved", "resolving"} /\ (phase' = "resolved" => resolvedStates.resolveTime # 0)
  BY <1>2 DEF PreResolved
<1>6. TypeOK'
  BY <1>1, <1>2, <1>3, <1>4, <1>5 DEF LInv, TypeOK, Action, Phases
<1>7. LoopIsAlive' /\ Jobs'
  BY <1>1, <1>2, <1>5 DEF LInv, TypeOK, LoopIsAlive, Jobs
<1>8. Fresh'
  BY <1>1, <1>2, <1>5 DEF LInv, Fresh
<1>9. ~ResetQueued => (phase' = "resolved" => resolvedStates.timeline = timeline)
  BY <1>5 DEF LInv, Fresh
<1> QED BY <1>1, <1>6, <1>7, <1>8, <1>9 DEF LInv

LEMMA ResolvedLoop ==
  ASSUME LInv, Resolved
  PROVE  LInv'
<1>1. /\ phase = "resolving" /\ phase' = "resolved"
      /\ resolvedStates' = [timeline |-> job.timeline, resolveTime |-> job.time]
      /\ UNCHANGED <<now, timeline, isInitialized, nextResolveTime, trigger, actionQueue, busy, job,
                     plan, handed, madeReady, interval, resolveDone>>
  BY DEF Resolved
<1>2. job.time \in Instant /\ job.time # 0
  BY <1>1 DEF LInv, Jobs, Resolving, Instant
<1>3. resolvedStates' \in [timeline : Timeline, resolveTime : Instant \cup {0}]
  BY <1>1, <1>2 DEF LInv, TypeOK
<1>4. TypeOK'
  BY <1>1, <1>3 DEF LInv, TypeOK, Phases
<1>5. LoopIsAlive' /\ Jobs' /\ Followed(actionQueue')
  BY <1>1 DEF LInv, LoopIsAlive, Jobs, Resolving
<1>6. Fresh'
  BY <1>1, <1>2 DEF LInv, Fresh, ResetQueued
<1> QED BY <1>4, <1>5, <1>6 DEF LInv

LEMMA ResolverFailsLoop ==
  ASSUME LInv, ResolverFails
  PROVE  LInv'
<1>1. /\ phase' = "idle" /\ busy' = 0 /\ job' = NoJob /\ nextResolveTime' = 0
      /\ resolveDone' = FALSE
      /\ UNCHANGED <<now, timeline, isInitialized, resolvedStates, actionQueue, plan, handed,
                     madeReady, interval>>
  BY DEF ResolverFails, Done
<1>2. trigger' \in Instant /\ trigger' # NoTimer
  BY TimerSet, LookaheadIsAWait DEF ResolverFails, LInv
<1>3. job' \in [timeline : Timeline, time : Instant \cup {0}, started : Time \cup {0}]
  BY <1>1, ConductorAssumption DEF NoJob, NoTimeline, Timeline
<1>4. TypeOK'
  BY <1>1, <1>2, <1>3 DEF LInv, TypeOK, Phases
<1>5. LoopIsAlive' /\ Jobs' /\ Followed(actionQueue') /\ Fresh'
  BY <1>1, <1>2 DEF LInv, LoopIsAlive, Jobs, Resolving, Fresh, ResetQueued
<1> QED BY <1>4, <1>5 DEF LInv

(* What HandOver makes of the plan: nothing before the job's time changes. *)
LEMMA HandOverPlan ==
  ASSUME LInv, HandOver
  PROVE  /\ job.time \in Instant
         /\ DOMAIN plan' = {u \in DOMAIN plan : u < job.time} \cup {job.time}
         /\ plan'[job.time] = getState(resolvedStates.timeline, job.time)
         /\ \A u \in DOMAIN plan : u < job.time => plan'[u] = plan[u]
<1>1. job.time \in Instant
  BY DEF LInv, Jobs, Resolving, HandOver
<1>2. plan' = [u \in {v \in DOMAIN plan : v < job.time} \cup {job.time} |->
                 IF u = job.time THEN getState(resolvedStates.timeline, job.time) ELSE plan[u]]
  BY BeforeIs DEF HandOver, tlState, LInv
<1>3. \A u \in DOMAIN plan : u \in Int
  BY InstantsAreNumbers DEF LInv, TypeOK
<1>4. job.time \in Int
  BY <1>1, InstantsAreNumbers
<1> QED BY <1>1, <1>2, <1>3, <1>4

LEMMA HandOverLoop ==
  ASSUME LInv, HandOver
  PROVE  LInv'
<1>1. /\ phase = "resolved" /\ phase' = "handed over"
      /\ handed' = resolvedStates.timeline.version
      /\ UNCHANGED <<now, timeline, isInitialized, nextResolveTime, resolvedStates, trigger,
                     actionQueue, busy, job, madeReady, interval, resolveDone>>
  BY DEF HandOver
<1>2. /\ job.time \in Instant
      /\ DOMAIN plan' = {u \in DOMAIN plan : u < job.time} \cup {job.time}
      /\ plan'[job.time] = getState(resolvedStates.timeline, job.time)
      /\ \A u \in DOMAIN plan : u < job.time => plan'[u] = plan[u]
  BY HandOverPlan
<1>3. getState(resolvedStates.timeline, job.time) \in StateName
  BY <1>2, StateIsNamed, InstantsAreNumbers DEF LInv, TypeOK
<1>4. DOMAIN plan' \subseteq Instant /\ \A t \in DOMAIN plan' : plan'[t] \in StateName
  BY <1>2, <1>3 DEF LInv, TypeOK
<1>5. handed' \in 0 .. MaxVersions
  BY <1>1 DEF LInv, TypeOK, Timeline
<1>6. TypeOK'
  BY <1>1, <1>4, <1>5 DEF LInv, TypeOK, Phases
<1>7. LoopIsAlive' /\ Jobs' /\ Followed(actionQueue') /\ Fresh'
  BY <1>1 DEF LInv, LoopIsAlive, Jobs, Resolving, Fresh, ResetQueued
<1> QED BY <1>6, <1>7 DEF LInv

\* The events of a resolve are changes of its timeline after its time.
Events == {c \in NextEvents : c > job.started}

LEMMA EventsAre ==
  ASSUME TypeOK
  PROVE  /\ Events \subseteq resolvedStates.timeline.changes
         /\ Events \subseteq 2 .. MaxTime
         /\ \A c \in Events : c > job.time /\ c > job.started
         /\ Events # {} => Least(Events) \in Events /\ \A c \in Events : Least(Events) <= c
<1>1. resolvedStates.timeline.changes \subseteq 2 .. MaxTime
  BY ConductorAssumption DEF TypeOK, Timeline
<1>2. Events \subseteq resolvedStates.timeline.changes
  BY DEF Events, NextEvents
<1>3. Events \subseteq 2 .. MaxTime
  BY <1>1, <1>2
<1>4. \A c \in Events : c > job.time /\ c > job.started
  BY DEF Events, NextEvents
<1>5. Events \in SUBSET Nat
  <2>1. \A c \in 2 .. MaxTime : c \in Nat
    BY ConductorAssumption
  <2> QED BY <1>3, <2>1
<1> QED BY <1>2, <1>3, <1>4, <1>5, LeastIs

LEMMA WaitIs ==
  ASSUME NEW e \in Int, now \in Int
  PROVE  /\ WaitFor(e) \in 1 .. LOOKAHEADTIME
         /\ WaitFor(e) <= MINTRIGGERTIME \/ WaitFor(e) <= e - now
BY ConductorAssumption DEF WaitFor, AtLeast, AtMost

(* What EndResolve does, in the two cases. *)
LEMMA EndResolveDoes ==
  ASSUME LInv, EndResolve
  PROVE  /\ phase = "handed over" /\ phase' = "idle" /\ busy' = 0 /\ job' = NoJob
         /\ UNCHANGED <<now, timeline, isInitialized, resolvedStates, interval, actionQueue, handed,
                       madeReady>>
         /\ resolveDone' = TRUE
         /\ job.time \in Instant /\ job.started \in Time
         /\ trigger' \in Instant /\ trigger' # NoTimer
         /\ \/ /\ Events = {}
               /\ nextResolveTime' = job.time
               /\ plan' = Before(plan, job.time + 1)
            \/ /\ Events # {}
               /\ nextResolveTime' = AtMost(job.time + LOOKAHEADTIME, Least(Events))
               /\ trigger' = now + WaitFor(Least(Events))
               /\ plan' = plan
<1>1. /\ phase = "handed over" /\ phase' = "idle" /\ busy' = 0 /\ job' = NoJob
      /\ UNCHANGED <<now, timeline, isInitialized, resolvedStates, interval, actionQueue, handed,
                       madeReady>>
         /\ resolveDone' = TRUE
  BY DEF EndResolve, Done
<1>2. job.time \in Instant /\ job.started \in Time
  BY <1>1 DEF LInv, Jobs, Resolving
<1>3. CASE Events = {}
  <2>1. /\ nextResolveTime' = job.time /\ plan' = Before(plan, job.time + 1)
        /\ TriggerIn(LOOKAHEADTIME)
    BY <1>3 DEF EndResolve, Events
  <2>2. trigger' \in Instant /\ trigger' # NoTimer
    BY <2>1, TimerSet, LookaheadIsAWait DEF LInv
  <2> QED BY <1>1, <1>2, <1>3, <2>1, <2>2
<1>4. CASE Events # {}
  <2>1. /\ nextResolveTime' = AtMost(job.time + LOOKAHEADTIME, Least(Events))
        /\ TriggerIn(WaitFor(Least(Events)))
        /\ plan' = plan
    BY <1>4 DEF EndResolve, Events
  <2>2. Least(Events) \in 2 .. MaxTime /\ now \in Time
    BY <1>4, EventsAre DEF LInv, TypeOK
  <2>3. Least(Events) \in Int /\ now \in Int
    BY <2>2 DEF Time
  <2>4. WaitFor(Least(Events)) \in 1 .. LOOKAHEADTIME
    BY <2>3, WaitIs
  <2>5. trigger' \in Instant /\ trigger' # NoTimer
    BY <2>1, <2>4, TimerSet DEF LInv
  <2> QED BY <1>1, <1>2, <1>4, <2>1, <2>5 DEF TriggerIn
<1> QED BY <1>3, <1>4

LEMMA EndResolveLoop ==
  ASSUME LInv, EndResolve
  PROVE  LInv'
<1>1. /\ phase = "handed over" /\ phase' = "idle" /\ busy' = 0 /\ job' = NoJob
      /\ UNCHANGED <<now, timeline, isInitialized, resolvedStates, interval, actionQueue, handed,
                       madeReady>>
         /\ resolveDone' = TRUE
      /\ job.time \in Instant
      /\ trigger' \in Instant /\ trigger' # NoTimer
  BY EndResolveDoes
<1>2. job' \in [timeline : Timeline, time : Instant \cup {0}, started : Time \cup {0}]
  <2>1. job' = NoJob
    BY <1>1
  <2> QED BY <2>1, ConductorAssumption DEF NoJob, NoTimeline, Timeline
<1>3. nextResolveTime' \in Instant
  <2>1. CASE Events = {}
    BY <1>1, <2>1, EndResolveDoes
  <2>2. CASE Events # {}
    <3>1. Least(Events) \in 2 .. MaxTime
      BY <2>2, EventsAre DEF LInv
    <3>2. nextResolveTime' = AtMost(job.time + LOOKAHEADTIME, Least(Events))
      BY <2>2, EndResolveDoes
    <3>3. job.time \in Nat /\ job.time >= 1
      BY <1>1, InstantsAreNumbers
    <3>4. LOOKAHEADTIME \in Nat /\ MaxTime \in Nat /\ Estimate \in Nat
      BY ConductorAssumption
    <3> QED BY ONLY <3>1, <3>2, <3>3, <3>4 DEF AtMost, Instant
  <2> QED BY <2>1, <2>2
<1>4. DOMAIN plan' \subseteq Instant /\ \A t \in DOMAIN plan' : plan'[t] \in StateName
  <2>1. plan' = plan \/ plan' = Before(plan, job.time + 1)
    BY EndResolveDoes
  <2>2. /\ DOMAIN plan' \subseteq DOMAIN plan
        /\ \A t \in DOMAIN plan' : plan'[t] = plan[t]
    BY <2>1 DEF Before
  <2>3. DOMAIN plan \subseteq Instant /\ \A t \in DOMAIN plan : plan[t] \in StateName
    BY DEF LInv, TypeOK
  <2> QED BY <2>2, <2>3
<1>5. TypeOK'
  BY <1>1, <1>2, <1>3, <1>4 DEF LInv, TypeOK, Phases
<1>6. LoopIsAlive' /\ Jobs' /\ Followed(actionQueue') /\ Fresh'
  BY <1>1 DEF LInv, LoopIsAlive, Jobs, Resolving, Fresh, ResetQueued
<1> QED BY <1>5, <1>6 DEF LInv

LEMMA TickLoop ==
  ASSUME LInv, Tick
  PROVE  LInv'
<1>1. /\ now < MaxTime /\ now' = now + 1
      /\ busy' = busy \/ busy' = busy + 1
      /\ UNCHANGED <<timeline, isInitialized, nextResolveTime, resolvedStates, trigger, actionQueue,
                     phase, job, plan, handed, madeReady, interval, resolveDone>>
  BY DEF Tick
<1>2. now' \in Time /\ busy' \in Nat
  <2>1. now \in 1 .. MaxTime /\ busy \in Nat /\ MaxTime \in Nat
    BY ConductorAssumption DEF LInv, TypeOK, Time
  <2> QED BY <1>1, <2>1 DEF Time
<1>3. TypeOK'
  BY <1>1, <1>2 DEF LInv, TypeOK
<1>4. LoopIsAlive' /\ Jobs' /\ Followed(actionQueue') /\ Fresh'
  BY <1>1 DEF LInv, LoopIsAlive, Jobs, Resolving, Fresh, ResetQueued
<1> QED BY <1>3, <1>4 DEF LInv

LEMMA NextLInv == LInv /\ [Next]_vars => LInv'
<1> SUFFICES ASSUME LInv, [Next]_vars PROVE LInv'
  OBVIOUS
<1>1. CASE UNCHANGED vars
  BY <1>1 DEF vars, LInv, TypeOK, LoopIsAlive, Jobs, Fresh, Resolving, ResetQueued
<1>2. CASE init
  BY <1>2, initLoop
<1>3. ASSUME NEW c \in SUBSET Changes, setTimelineAndMappings(c) PROVE LInv'
  BY <1>3, setTimelineLoop
<1>4. CASE devicesMakeReady
  BY <1>4, devicesMakeReadyLoop
<1>5. CASE FireTrigger
  BY <1>5, FireTriggerLoop
<1>6. CASE RunQueue
  BY <1>6, ResetLoop, StartMakeReadyLoop, EndMakeReadyLoop, NotInitializedLoop, PostponeLoop,
     StartResolveLoop, ResolvedLoop, HandOverLoop, EndResolveLoop DEF RunQueue
<1>7. CASE ResolverFails
  BY <1>7, ResolverFailsLoop
<1>8. CASE Tick
  BY <1>8, TickLoop
<1>9. CASE FireInterval
  BY <1>9, FireIntervalLoop
<1> QED BY <1>1, <1>2, <1>3, <1>4, <1>5, <1>6, <1>7, <1>8, <1>9 DEF Next

LEMMA LoopKeeps == Spec => []LInv
BY InitLInv, NextLInv, PTL DEF Spec

(* Every variable of the resolve loop keeps its type, also the times that  *)
(* it computes and the plan that it hands over (conductor.ts,              *)
(* _resolveTimelineInner).                                                 *)
THEOREM TypeCorrect == Spec => []TypeOK
<1>1. LInv => TypeOK
  BY DEF LInv
<1> QED BY <1>1, LoopKeeps, PTL

(* What keeps a timeline from being forgotten: unless the version set last *)
(* has been handed over, its reset or the resolve that follows is queued,  *)
(* or that resolve is under way.                                           *)
Owed ==
  /\ phase = "handed over" => handed = resolvedStates.timeline.version
  /\ resolveDone /\ handed # timeline.version =>
       \/ ResetQueued
       \/ phase \in {"resolving", "resolved"}
       \/ /\ phase = "idle" /\ nextResolveTime = 0
          /\ actionQueue # <<>> /\ Head(actionQueue) = "resolve"

LEMMA AppendedHead ==
  ASSUME LInv, Owed, NEW a \in Action, actionQueue' = Append(actionQueue, a),
         ResetQueued' <=> ResetQueued,
         UNCHANGED <<timeline, resolvedStates, nextResolveTime, jobVars, handed, resolveDone>>
  PROVE  Owed'
<1>1. ASSUME actionQueue # <<>> PROVE actionQueue' # <<>> /\ Head(actionQueue') = Head(actionQueue)
  <2>1. actionQueue \in Seq(Action)
    BY DEF LInv, TypeOK, Action
  <2>2. Len(actionQueue) \in Nat /\ Len(actionQueue) # 0
    BY <1>1, <2>1
  <2>3. actionQueue' # <<>> /\ actionQueue'[1] = actionQueue[1]
    BY <2>1, <2>2, AppendIs
  <2> QED BY <1>1, <2>3
<1> QED BY <1>1 DEF Owed, jobVars

LEMMA NextOwed == LInv /\ Owed /\ [Next]_vars => Owed'
<1> SUFFICES ASSUME LInv, Owed, [Next]_vars PROVE Owed'
  OBVIOUS
<1>1. CASE UNCHANGED vars
  BY <1>1 DEF vars, Owed, ResetQueued
\* With the reset queued only the first part is left to show.
<1>2. ASSUME resetResolver, UNCHANGED <<resolvedStates, jobVars, handed>> PROVE Owed'
  BY <1>2, ResetTriggered DEF Owed, jobVars
<1>3. CASE init \/ (\E c \in SUBSET Changes : setTimelineAndMappings(c))
  BY <1>2, <1>3 DEF init, setTimelineAndMappings
<1>4. CASE devicesMakeReady \/ FireTrigger \/ FireInterval
  <2>1. ResetQueued' <=> ResetQueued
    BY <1>4, devicesMakeReadyLoop, FireTriggerLoop, FireIntervalLoop
  <2>2. /\ \E a \in Action : actionQueue' = Append(actionQueue, a)
        /\ UNCHANGED <<timeline, resolvedStates, nextResolveTime, jobVars, handed, resolveDone>>
    BY <1>4 DEF devicesMakeReady, FireTrigger, FireInterval, TriggerNow, jobVars, Action
  <2> QED BY <2>1, <2>2, AppendedHead
<1>5. CASE Reset
  <2>1. phase = "idle" /\ actionQueue' # <<>> /\ Head(actionQueue') = "resolve"
    BY <1>5, Taken DEF Reset, Action
  <2> QED BY <1>5, <2>1 DEF Reset, Owed, jobVars
<1>6. CASE StartMakeReady
  BY <1>6, StartMakeReadyLoop DEF StartMakeReady, Take, Owed
<1>7. CASE EndMakeReady
  BY <1>7, EndMakeReadyLoop DEF EndMakeReady, Done, Owed
<1>8. CASE NotInitialized
  <2>1. ~resolveDone /\ ~Resolving
    BY <1>8 DEF LInv, Jobs, NotInitialized
  <2> QED BY <1>8, <2>1 DEF NotInitialized, Owed, Resolving, jobVars
<1>9. CASE Postpone
  <2>1. nextResolveTime # 0 /\ phase = "idle" /\ (ResetQueued' <=> ResetQueued)
    BY <1>9, PostponeLoop DEF Postpone, TooFarAhead, Late, Take
  <2> QED BY <1>9, <2>1 DEF Postpone, Owed, jobVars
<1>10. CASE StartResolve
  <2>1. phase' \in {"resolving", "resolved"}
    BY <1>10 DEF StartResolve
  <2> QED BY <2>1 DEF Owed
<1>11. CASE Resolved
  BY <1>11 DEF Resolved, Owed
<1>12. CASE ResolverFails
  BY <1>12 DEF ResolverFails, Done, Owed
<1>13. CASE HandOver
  BY <1>13 DEF HandOver, LInv, Fresh, Owed, ResetQueued
<1>14. CASE EndResolve
  <2>1. ResetQueued' <=> ResetQueued
    BY <1>14, EndResolveDoes DEF ResetQueued
  <2> QED BY <1>14, <2>1, EndResolveDoes DEF LInv, Fresh, Owed
<1>15. CASE Tick
  BY <1>15 DEF Tick, Owed, ResetQueued
<1> QED BY <1>1, <1>3, <1>4, <1>5, <1>6, <1>7, <1>8, <1>9, <1>10, <1>11, <1>12, <1>13, <1>14, <1>15
        DEF Next, RunQueue

(* When the loop waits, the timeline set last has been handed over, or its *)
(* resolve failed and the timer is set: whatever is called, fires or fails *)
(* meanwhile, for all choices of the times (conductor.ts, _resetResolver   *)
(* and _resolveTimelineInner).                                             *)
THEOREM NoTimelineIsForgotten == Spec => []LatestIsHandedOver
<1>1. Init => Owed
  BY DEF Init, Owed
<1>2. LInv /\ Owed => LatestIsHandedOver
  <2> SUFFICES ASSUME LInv, Owed, isInitialized, Waiting
               PROVE  IF resolveDone THEN handed = timeline.version ELSE trigger # NoTimer
    BY DEF LatestIsHandedOver
  <2>1. trigger # NoTimer
    BY DEF LInv, LoopIsAlive, Waiting
  <2>2. ~ResetQueued
    BY DEF Waiting, ResetQueued, Queued
  <2>3. resolveDone => handed = timeline.version
    BY <2>2 DEF Owed, Waiting
  <2> QED BY <2>1, <2>3
<1> QED BY <1>1, <1>2, NextOwed, LoopKeeps, PTL DEF Spec

(* Whatever is set while the resolver works on an older timeline, no state *)
(* of the older one is handed over without a reset following in the queue. *)
THEOREM StatesAreFresh == Spec => []NoStaleStates
<1>1. LInv => NoStaleStates
  BY DEF LInv, Fresh, NoStaleStates, ResetQueued, Queued
<1> QED BY <1>1, LoopKeeps, PTL

----------------------------------------------------------------------------
(* What the devices have been handed.                                      *)
LEMMA SameState ==
  ASSUME NEW tl, NEW a \in Int, NEW b \in Int, a <= b,
         \A c \in tl.changes : c \in Int /\ ~(a < c /\ c <= b)
  PROVE  getState(tl, a) = getState(tl, b)
<1>1. {c \in tl.changes : c <= a} = {c \in tl.changes : c <= b}
  OBVIOUS
<1> QED BY <1>1 DEF getState

\* The latest instant of the plan by t.
LEMMA LatestOfPlan ==
  ASSUME TypeOK, NEW t \in Int, NEW v \in DOMAIN plan, v <= t
  PROVE  LET w == Latest({u \in DOMAIN plan : u <= t})
         IN w \in DOMAIN plan /\ w <= t /\ v <= w /\ \A u \in DOMAIN plan : u <= t => u <= w
<1> DEFINE S == {u \in DOMAIN plan : u <= t}  b == MaxTime + Estimate + LOOKAHEADTIME
<1>1. b \in Nat
  BY ConductorAssumption
<1>2. S \in SUBSET (0 .. b) /\ v \in S
  <2>1. ASSUME NEW u \in S PROVE u \in 0 .. b
    <3>1. u \in 1 .. b
      BY DEF TypeOK, Instant
    <3> QED BY <3>1
  <2> QED BY <2>1
<1> HIDE DEF b
<1>3. Latest(S) \in S /\ \A n \in S : n <= Latest(S)
  BY <1>1, <1>2, LatestIs
<1> QED BY <1>2, <1>3

(* A plan that is the same before h shows the same before h.               *)
LEMMA SettledBefore ==
  ASSUME TypeOK, TypeOK', NEW h \in Int, timeline' = timeline,
         \A u \in Int : u < h => (u \in DOMAIN plan' <=> u \in DOMAIN plan),
         \A u \in DOMAIN plan : u < h => plan'[u] = plan[u],
         NEW t \in Int, t < h, Settled(t)
  PROVE  Settled(t)'
<1> DEFINE S == {u \in DOMAIN plan : u <= t}  Z == {u \in DOMAIN plan' : u <= t}
<1>1. (\A u \in DOMAIN plan : u \in Int) /\ (\A u \in DOMAIN plan' : u \in Int)
  BY InstantsAreNumbers DEF TypeOK
<1>2. Z = S
  BY <1>1
<1>3. PICK v \in DOMAIN plan : v <= t
  BY DEF Settled
<1>4. Latest(S) \in DOMAIN plan /\ Latest(S) <= t
  BY <1>3, LatestOfPlan
<1>5. Latest(S) < h
  BY <1>1, <1>4
<1>6. Shown(t)' = plan'[Latest(Z)] /\ Shown(t) = plan[Latest(S)]
  BY DEF Shown
<1>7. Shown(t)' = Shown(t)
  BY <1>2, <1>4, <1>5, <1>6
<1>8. v \in DOMAIN plan'
  BY <1>1, <1>3
<1> QED BY <1>3, <1>7, <1>8 DEF Settled

\* After its last instant a plan shows what it has there.
LEMMA ShownAtLast ==
  ASSUME TypeOK, NEW v \in DOMAIN plan, \A u \in DOMAIN plan : u <= v, NEW t \in Int, v <= t
  PROVE  Shown(t) = plan[v]
<1>1. \A u \in DOMAIN plan : u \in Int
  BY InstantsAreNumbers DEF TypeOK
<1> DEFINE w == Latest({u \in DOMAIN plan : u <= t})
<1>2. w \in DOMAIN plan /\ v <= w
  BY LatestOfPlan
<1>3. w = v
  BY <1>1, <1>2
<1> QED BY <1>3 DEF Shown

----------------------------------------------------------------------------
(* Steps that leave the plan, the time and the timeline alone.             *)
LEMMA PlanKept ==
  ASSUME PInv, UNCHANGED <<now, timeline, plan>>,
         ResetQueued' <=> ResetQueued, ~Resolving, ~Resolving',
         nextResolveTime' \in {0, nextResolveTime}
  PROVE  Planned'
<1>1. \A t : Settled(t)' <=> Settled(t)
  BY DEF Settled, Shown
<1>2. phase # "handed over" /\ phase' # "handed over"
  BY DEF Resolving
<1>3. ASSUME ~ResetQueued', nextResolveTime' # 0 PROVE SettledUntil(nextResolveTime)'
  <2>1. nextResolveTime' = nextResolveTime /\ SettledUntil(nextResolveTime)
    BY <1>3 DEF PInv, Planned
  <2> QED BY <1>1, <2>1 DEF SettledUntil
<1> QED BY <1>2, <1>3 DEF Planned

LEMMA JobKept ==
  ASSUME PInv, UNCHANGED <<now, timeline, plan, nextResolveTime, jobVars>>,
         ResetQueued => ResetQueued', actionQueue' # <<>>
  PROVE  Punctual' /\ Planned' /\ InTime'
<1>1. \A t : Settled(t)' <=> Settled(t)
  BY DEF Settled, Shown
<1>2. Punctual'
  BY DEF PInv, Punctual, Resolving, jobVars
<1>3. Planned'
  BY <1>1 DEF PInv, Planned, Resolving, SettledUntil, Handed, jobVars
<1>4. InTime'
  BY DEF InTime, Waiting
<1> QED BY <1>2, <1>3, <1>4

\* What init and setTimelineAndMappings change awaits the reset.
LEMMA ResetTriggeredPlan ==
  ASSUME PInv, resetResolver, UNCHANGED <<now, jobVars>>
  PROVE  Punctual' /\ Planned' /\ InTime'
<1>1. actionQueue' # <<>> /\ ResetQueued'
  BY ResetTriggered DEF PInv
<1>2. Punctual'
  BY DEF PInv, Punctual, Resolving, jobVars
<1> QED BY <1>1, <1>2 DEF Planned, InTime, Waiting

LEMMA devicesMakeReadyPlan ==
  ASSUME PInv, devicesMakeReady \/ FireTrigger \/ FireInterval
  PROVE  Punctual' /\ Planned' /\ InTime'
<1>1. (ResetQueued' <=> ResetQueued) /\ actionQueue' # <<>>
  BY devicesMakeReadyLoop, FireTriggerLoop, FireIntervalLoop DEF PInv
<1>2. UNCHANGED <<now, timeline, plan, nextResolveTime, jobVars>>
  BY DEF devicesMakeReady, FireTrigger, FireInterval
<1> QED BY <1>1, <1>2, JobKept

LEMMA MakeReadyPlan ==
  ASSUME PInv, StartMakeReady \/ EndMakeReady
  PROVE  Punctual' /\ Planned' /\ InTime'
<1>1. /\ ResetQueued' <=> ResetQueued
      /\ phase' # "idle" \/ actionQueue' # <<>>
  BY StartMakeReadyLoop, EndMakeReadyLoop DEF PInv, StartMakeReady
<1>2. /\ UNCHANGED <<now, timeline, plan, nextResolveTime>>
      /\ phase \in {"idle", "making ready"} /\ phase' \in {"idle", "making ready"}
      /\ busy' = 0 \/ (busy' = busy /\ phase = "idle")
  BY DEF StartMakeReady, EndMakeReady, Done, Take
<1>3. Planned'
  BY <1>1, <1>2, PlanKept DEF Resolving
<1>4. Punctual'
  <2>1. 0 <= MaxBusy /\ busy <= MaxBusy /\ (phase = "idle" => busy = 0)
    BY ConductorAssumption DEF PInv, Punctual
  <2>2. ~Resolving' /\ busy' <= MaxBusy /\ (phase' = "idle" => busy' = 0)
    BY <1>2, <2>1 DEF Resolving
  <2> QED BY <2>2 DEF Punctual
<1> QED BY <1>1, <1>3, <1>4 DEF InTime, Waiting

\* After these nothing is planned, until the next resolve.
LEMMA NothingPlanned ==
  ASSUME PInv, Reset \/ NotInitialized \/ Postpone \/ ResolverFails
  PROVE  Punctual' /\ Planned' /\ (~Postpone => InTime')
<1>1. nextResolveTime' = 0 /\ phase' = "idle" /\ busy' = 0
  BY DEF Reset, NotInitialized, Postpone, ResolverFails, Done, Take, jobVars, PInv, Punctual
<1>2. Punctual'
  BY <1>1, ConductorAssumption DEF Punctual, Resolving
<1>3. CASE Reset
  <2>1. actionQueue' # <<>>
    BY <1>3, Taken DEF Reset, Action, PInv
  <2> QED BY <1>1, <1>2, <2>1 DEF Planned, InTime, Waiting, Resolving
<1>4. CASE NotInitialized \/ ResolverFails
  <2>1. ~resolveDone'
    BY <1>4 DEF NotInitialized, ResolverFails, PInv, LInv, Jobs
  <2> QED BY <1>1, <1>2, <2>1 DEF Planned, InTime, Resolving
<1>5. CASE Postpone
  BY <1>1, <1>2, <1>5 DEF Planned, Resolving
<1> QED BY <1>3, <1>4, <1>5

LEMMA UpTo ==
  ASSUME NEW a \in Int, NEW b \in Int
  PROVE  \A t \in a .. b - 1 : t \in Int /\ a <= t /\ t < b
OBVIOUS

(* What is true at an instant of the plan is in time.                      *)
LEMMA SettledInTime ==
  ASSUME NEW t \in Int, 1 <= t, Settled(t)
  PROVE  /\ \E u \in DOMAIN plan : u <= t
         /\ \E u \in AtLeast(1, t - Lag) .. t : Shown(t) = getState(timeline, u)
<1>1. t \in AtLeast(1, t - Lag) .. t
  BY ConductorAssumption DEF AtLeast, Lag
<1> QED BY <1>1 DEF Settled

\* The wait of a postponed resolve ends before the time that it was for.
LEMMA PostponeInTime ==
  ASSUME PInv, Postpone
  PROVE  InTime'
<1>1. /\ phase = "idle" /\ nextResolveTime # 0 /\ nextResolveTime > now + LOOKAHEADTIME
      /\ trigger' = now + LOOKAHEADTIME
      /\ UNCHANGED <<now, timeline, interval, plan>>
  BY DEF Postpone, Take, TooFarAhead, Late, TriggerIn
<1>2. ResetQueued' <=> ResetQueued
  BY PostponeLoop DEF PInv
<1>3. /\ now \in Int /\ 1 <= now /\ nextResolveTime \in Int /\ LOOKAHEADTIME \in Int
      /\ interval \in Int
  <2>1. now \in Time /\ nextResolveTime \in Instant /\ interval \in 1 .. MaxTime + IntervalTime
    BY <1>1 DEF PInv, LInv, TypeOK
  <2> QED BY <2>1, InstantsAreNumbers, ConductorAssumption
<1>4. Wakes' \in Int /\ Wakes' <= now + LOOKAHEADTIME
  BY <1>1, <1>3, ConductorAssumption DEF Wakes, AtMost, NoTimer
<1> SUFFICES ASSUME Waiting' PROVE InTime'
  BY DEF InTime
<1>5. ~ResetQueued
  BY <1>2 DEF Waiting, ResetQueued, Queued
<1>6. ASSUME NEW t \in now .. Wakes' - 1
      PROVE  /\ \E u \in DOMAIN plan : u <= t
             /\ \E u \in AtLeast(1, t - Lag) .. t : Shown(t) = getState(timeline, u)
  <2>1. t \in Int /\ 1 <= t /\ t \in now .. nextResolveTime - 1
    <3>1. nextResolveTime > now + LOOKAHEADTIME
      BY <1>1
    <3>2. t \in Int /\ now <= t /\ t < Wakes'
      BY <1>3, <1>4, UpTo
    <3>3. t < nextResolveTime
      BY <1>3, <1>4, <3>1, <3>2
    <3> QED BY <1>3, <3>2, <3>3
  <2>2. Settled(t)
    BY <1>1, <1>5, <2>1 DEF PInv, Planned, SettledUntil, Resolving
  <2> QED BY <2>1, <2>2, SettledInTime
<1>7. \A t : Shown(t)' = Shown(t)
  BY <1>1 DEF Shown
<1> QED BY <1>1, <1>6, <1>7 DEF InTime

LEMMA StartResolvePlan ==
  ASSUME PInv, StartResolve, Estimate = 0
  PROVE  Punctual' /\ Planned' /\ InTime'
<1>1. /\ phase = "idle" /\ phase' \in {"resolved", "resolving"}
      /\ plan' = Before(plan, resolveTime)
      /\ job'.time = resolveTime /\ job'.started = now
      /\ UNCHANGED <<now, timeline, nextResolveTime, busy>>
      /\ ~TooFarAhead
  BY DEF StartResolve, Take
<1>2. LInv' /\ (ResetQueued' <=> ResetQueued)
  BY StartResolveLoop DEF PInv
<1>3. /\ resolveTime \in Int /\ now \in Int
      /\ now <= resolveTime
      /\ ~Late => resolveTime = nextResolveTime /\ nextResolveTime # 0
      /\ Late => resolveTime = now
  <2>1. resolveTime \in Int /\ now \in Int
    BY <1>1, ResolveTimeIs, InstantsAreNumbers DEF PInv, LInv, TypeOK
  <2> QED BY <1>1, <2>1, ResolveTimeIs DEF PInv, LInv
<1>4. Punctual'
  <2>1. busy = 0 /\ busy <= MaxBusy
    BY <1>1 DEF PInv, Punctual
  <2>2. now' = job'.started + busy' /\ job'.time >= job'.started /\ busy' <= MaxBusy
    BY <1>1, <1>3, <2>1
  <2> QED BY <1>1, <2>2 DEF Punctual
<1>5. ASSUME ~ResetQueued, NEW t \in now .. resolveTime - 1 PROVE Settled(t)'
  <2>1. t \in Int /\ t < resolveTime /\ now <= t
    BY <1>3
  <2>2. Settled(t)
    BY <1>1, <1>3, <1>5, <2>1 DEF PInv, Planned, SettledUntil, Resolving
  <2>3. /\ \A u \in Int : u < resolveTime => (u \in DOMAIN plan' <=> u \in DOMAIN plan)
        /\ \A u \in DOMAIN plan : u < resolveTime => plan'[u] = plan[u]
    BY <1>1 DEF Before
  <2> QED BY <1>1, <1>2, <1>3, <2>1, <2>2, <2>3, SettledBefore DEF PInv, LInv
<1>6. Planned'
  BY <1>1, <1>2, <1>5 DEF Planned, SettledUntil, Resolving
<1>7. InTime'
  BY <1>1 DEF InTime, Waiting
<1> QED BY <1>4, <1>6, <1>7

LEMMA ResolvedPlan ==
  ASSUME PInv, Resolved
  PROVE  Punctual' /\ Planned' /\ InTime'
<1>1. /\ phase = "resolving" /\ phase' = "resolved"
      /\ UNCHANGED <<now, timeline, nextResolveTime, actionQueue, busy, job, plan>>
  BY DEF Resolved
<1>2. \A t : Settled(t)' <=> Settled(t)
  BY <1>1 DEF Settled, Shown
<1>3. Planned'
  BY <1>1, <1>2 DEF PInv, Planned, Resolving, SettledUntil, ResetQueued
<1>4. Punctual' /\ InTime'
  BY <1>1 DEF PInv, Punctual, Resolving, InTime, Waiting
<1> QED BY <1>3, <1>4

LEMMA HandOverPlanned ==
  ASSUME PInv, HandOver
  PROVE  Punctual' /\ Planned' /\ InTime'
<1>1. /\ phase = "resolved" /\ phase' = "handed over"
      /\ UNCHANGED <<now, timeline, nextResolveTime, resolvedStates, actionQueue, busy, job>>
  BY DEF HandOver
<1>2. /\ job.time \in Instant
      /\ DOMAIN plan' = {u \in DOMAIN plan : u < job.time} \cup {job.time}
      /\ plan'[job.time] = getState(resolvedStates.timeline, job.time)
      /\ \A u \in DOMAIN plan : u < job.time => plan'[u] = plan[u]
  BY HandOverPlan DEF PInv
<1>3. LInv' /\ (ResetQueued' <=> ResetQueued)
  BY <1>1, HandOverLoop DEF PInv, ResetQueued
<1>4. job.time \in Int /\ now \in Int
  BY <1>2, InstantsAreNumbers DEF PInv, LInv, TypeOK
<1>5. ASSUME ~ResetQueued, NEW t \in now .. job.time - 1 PROVE Settled(t)'
  <2>1. t \in Int /\ t < job.time /\ now <= t
    BY <1>4
  <2>2. Settled(t)
    BY <1>1, <1>5, <2>1 DEF PInv, Planned, SettledUntil, Resolving
  <2>3. \A u \in Int : u < job.time => (u \in DOMAIN plan' <=> u \in DOMAIN plan)
    BY <1>2, <1>4
  <2> QED BY <1>1, <1>2, <1>3, <1>4, <2>1, <2>2, <2>3, SettledBefore DEF PInv, LInv
<1>6. ASSUME ~ResetQueued PROVE Handed'
  <2>1. resolvedStates.timeline = timeline
    BY <1>1, <1>6 DEF PInv, LInv, Fresh
  <2>2. \A u \in DOMAIN plan' : u <= job.time
    <3>1. \A u \in DOMAIN plan' : u \in Int
      BY <1>3, InstantsAreNumbers DEF LInv, TypeOK
    <3> QED BY <1>2, <1>4, <3>1
  <2>3. getState(timeline, job.time)' = getState(timeline, job.time)
    BY <1>1
  <2> QED BY <1>1, <1>2, <2>1, <2>2, <2>3 DEF Handed
<1>7. Planned'
  BY <1>1, <1>3, <1>5, <1>6 DEF Planned, SettledUntil, Resolving
<1>8. Punctual' /\ InTime'
  BY <1>1 DEF PInv, Punctual, Resolving, InTime, Waiting
<1> QED BY <1>7, <1>8

(* The end of a resolve.  The next events are behind the job's time, and   *)
(* until the first of them the state does not change.                      *)
LEMMA UntilTheEvent ==
  ASSUME PInv, ~Repeating, phase = "handed over", ~ResetQueued,
         NEW t \in Int, job.time <= t, \A c \in Events : t < c
  PROVE  Settled(t) /\ Shown(t) = getState(timeline, job.time)
<1>1. job.time \in Int /\ job.started \in Int /\ job.started <= job.time
  BY InstantsAreNumbers DEF PInv, LInv, Jobs, Punctual, Resolving
<1>2. resolvedStates.timeline = timeline
  BY DEF PInv, LInv, Fresh
<1>3. Handed
  BY DEF PInv, Planned
<1>4. \A c \in timeline.changes : c \in Int /\ ~(job.time < c /\ c <= t)
  <2>1. ASSUME NEW c \in timeline.changes PROVE c \in Int
    <3>1. c \in 2 .. MaxTime /\ MaxTime \in Nat
      BY ConductorAssumption DEF PInv, LInv, TypeOK, Timeline
    <3> QED BY ONLY <3>1
  <2>2. ASSUME NEW c \in timeline.changes, job.time < c PROVE c \in Events
    <3>1. c \in resolvedStates.timeline.changes /\ c > job.time /\ c > job.started
      <4>1. c \in Int
        BY <2>1
      <4>2. job.time < c
        BY <2>2
      <4>3. c > job.time /\ c > job.started
        BY ONLY <1>1, <4>1, <4>2
      <4> QED BY <1>2, <4>3
    <3> QED BY ONLY <3>1, ~Repeating DEF Events, NextEvents
  <2>3. ASSUME NEW c \in timeline.changes, job.time < c PROVE ~(c <= t)
    <3>1. t < c /\ c \in Int /\ t \in Int
      BY <2>1, <2>2, <2>3
    <3> QED BY ONLY <3>1
  <2> QED BY <2>1, <2>3
<1>5. getState(timeline, job.time) = getState(timeline, t)
  BY <1>1, <1>4, SameState
<1>6. Shown(t) = plan[job.time]
  BY <1>1, <1>3, ShownAtLast DEF Handed, PInv, LInv
<1> QED BY <1>3, <1>5, <1>6 DEF Settled, Handed

LEMMA EndResolvePlan ==
  ASSUME PInv, EndResolve, ~Repeating
  PROVE  Punctual' /\ Planned' /\ InTime'
<1>1. /\ phase = "handed over" /\ phase' = "idle" /\ busy' = 0
      /\ UNCHANGED <<now, timeline, actionQueue>>
      /\ job.time \in Instant /\ job.started \in Time
      /\ \/ /\ Events = {}
            /\ nextResolveTime' = job.time
            /\ plan' = Before(plan, job.time + 1)
         \/ /\ Events # {}
            /\ nextResolveTime' = AtMost(job.time + LOOKAHEADTIME, Least(Events))
            /\ trigger' = now + WaitFor(Least(Events))
            /\ plan' = plan
  BY EndResolveDoes DEF PInv
<1>2. /\ job.time \in Int /\ job.started \in Int /\ now \in Int /\ busy \in Int
      /\ 1 <= now /\ 1 <= job.started
      /\ job.started <= job.time /\ now = job.started + busy /\ busy <= MaxBusy
  <2>1. now \in Time /\ busy \in Nat /\ job.time \in Instant /\ job.started \in Time
    BY <1>1 DEF PInv, LInv, TypeOK
  <2>2. job.time >= job.started /\ now = job.started + busy /\ busy <= MaxBusy
    BY <1>1 DEF PInv, Punctual, Resolving
  <2>3. /\ job.time \in Int /\ job.started \in Int /\ now \in Int /\ busy \in Int
        /\ now >= 1 /\ job.started >= 1
    BY <2>1, InstantsAreNumbers
  <2> QED BY ONLY <2>2, <2>3
<1>3. Punctual'
  <2>1. ~Resolving' /\ busy' = 0
    BY <1>1 DEF Resolving
  <2>2. 0 <= MaxBusy
    BY ConductorAssumption
  <2> QED BY <2>1, <2>2 DEF Punctual
<1>4. ResetQueued' <=> ResetQueued
  BY <1>1 DEF ResetQueued
<1>5. LInv'
  BY EndResolveLoop DEF PInv
<1> SUFFICES ASSUME ~ResetQueued PROVE Planned' /\ InTime'
  <2>1. ASSUME ResetQueued PROVE Planned' /\ InTime'
    <3>1. actionQueue # <<>>
      BY <2>1 DEF ResetQueued, Queued
    <3> QED BY <1>1, <1>4, <2>1, <3>1 DEF Planned, InTime, Waiting
  <2> QED BY <1>3, <2>1
<1>6. Handed
  BY <1>1 DEF PInv, Planned
\* The end of a resolve does not change what is shown.
<1>7. ASSUME NEW t \in Int, Settled(t) PROVE Settled(t)' /\ Shown(t)' = Shown(t)
  <2>1. CASE plan' = plan
    BY <1>1, <1>7, <2>1 DEF Settled, Shown
  <2>2. CASE plan' = Before(plan, job.time + 1)
    <3>1. plan' = [u \in DOMAIN plan |-> plan[u]]
      <4>1. \A u \in DOMAIN plan : u \in Int /\ u <= job.time
        BY <1>6, InstantsAreNumbers DEF PInv, LInv, TypeOK, Handed
      <4>2. {v \in DOMAIN plan : v < job.time + 1} = DOMAIN plan
        BY <1>2, <4>1
      <4> QED BY <2>2, <4>2 DEF Before
    <3>2. DOMAIN plan' = DOMAIN plan /\ \A u \in DOMAIN plan : plan'[u] = plan[u]
      BY <3>1
    <3>3. PICK v \in DOMAIN plan : v <= t
      BY <1>7 DEF Settled
    <3>4. Latest({u \in DOMAIN plan : u <= t}) \in DOMAIN plan
      BY <3>3, LatestOfPlan DEF PInv, LInv
    <3>5. Shown(t)' = Shown(t)
      BY <3>2, <3>4 DEF Shown
    <3> QED BY <1>1, <1>7, <3>2, <3>5 DEF Settled
  <2> QED BY <1>1, <2>1, <2>2
<1>8. ASSUME NEW t \in Int, now <= t, \A c \in Events : t < c
      PROVE  Settled(t)
  <2>1. CASE t < job.time
    <3>1. t \in now .. job.time - 1
      BY <1>2, <1>8, <2>1
    <3> QED BY <1>1, <3>1 DEF PInv, Planned, SettledUntil, Resolving
  <2>2. CASE job.time <= t
    BY <1>1, <1>8, <2>2, UntilTheEvent
  <2> QED BY <1>2, <2>1, <2>2
<1>9. ASSUME NEW t \in Int, now <= t, Settled(t)'
      PROVE  /\ \E u \in DOMAIN plan' : u <= t
             /\ \E u \in AtLeast(1, t - Lag) .. t : Shown(t)' = getState(timeline, u)
  <2>1. t \in AtLeast(1, t - Lag) .. t
    BY <1>2, <1>9, ConductorAssumption DEF AtLeast, Lag
  <2>2. Shown(t)' = getState(timeline, t)
    BY <1>1, <1>9 DEF Settled
  <2> QED BY <1>9, <2>1, <2>2 DEF Settled
\* The interval may come first.
<1>10. Wakes' \in Int /\ Wakes' <= trigger' /\ trigger' \in Int
  <2>1. trigger' \in Instant /\ trigger' # NoTimer /\ interval' \in 1 .. MaxTime + IntervalTime
    BY <1>5, EndResolveDoes DEF PInv, LInv, TypeOK
  <2>2. trigger' \in Int /\ interval' \in Int
    BY <2>1, InstantsAreNumbers, ConductorAssumption
  <2> QED BY <2>1, <2>2 DEF Wakes, AtMost
<1>11. CASE Events = {}
  <2>1. \A t \in Int : now <= t => Settled(t)'
    BY <1>7, <1>8, <1>11
  <2>2. Planned'
    <3>1. nextResolveTime' = job.time /\ now' = now /\ phase' = "idle"
      BY <1>1, <1>11
    <3>2. \A t \in now .. job.time - 1 : t \in Int /\ now <= t
      BY ONLY <1>2
    <3>3. SettledUntil(nextResolveTime)'
      BY <2>1, <3>1, <3>2 DEF SettledUntil
    <3> QED BY <3>1, <3>3 DEF Planned, Resolving
  <2>3. InTime'
    <3>1. \A t \in now .. Wakes' - 1 : t \in Int /\ now <= t
      BY <1>2, <1>10, UpTo
    <3>2. \A t \in now .. Wakes' - 1 :
            /\ \E u \in DOMAIN plan' : u <= t
            /\ \E u \in AtLeast(1, t - Lag) .. t : Shown(t)' = getState(timeline, u)
      BY <1>9, <2>1, <3>1
    <3> QED BY <1>1, <3>2 DEF InTime
  <2> QED BY <2>2, <2>3
<1>12. CASE Events # {}
  <2> DEFINE e == Least(Events)
  <2>1. e \in Int /\ job.time < e /\ job.started < e /\ \A c \in Events : c \in Int /\ e <= c
    <3>1. Events \subseteq 2 .. MaxTime /\ e \in Events /\ e > job.time /\ e > job.started
          /\ \A c \in Events : e <= c
      BY <1>12, EventsAre DEF PInv, LInv
    <3>2. \A c \in 2 .. MaxTime : c \in Int
      OBVIOUS
    <3> QED BY <1>2, <3>1, <3>2
  <2>2. /\ nextResolveTime' = AtMost(job.time + LOOKAHEADTIME, e)
        /\ trigger' = now + WaitFor(e)
    BY <1>1, <1>12
  <2>3. /\ WaitFor(e) \in Int
        /\ WaitFor(e) <= MINTRIGGERTIME \/ WaitFor(e) <= e - now
    BY <1>2, <2>1, WaitIs
  <2> HIDE DEF e
  <2>4. ASSUME NEW t \in Int, now <= t, t < e PROVE Settled(t)'
    <3>1. \A c \in Events : t < c
      BY <2>1, <2>4
    <3> QED BY <1>7, <1>8, <2>4, <3>1
  <2>5. Planned'
    <3>1. nextResolveTime' \in Int /\ nextResolveTime' <= e
      BY <1>2, <2>1, <2>2, ConductorAssumption DEF AtMost
    <3>2. ASSUME NEW t \in Int, now <= t, t < nextResolveTime' PROVE Settled(t)'
      <4>1. t < e
        BY <2>1, <3>1, <3>2
      <4> QED BY <2>4, <3>2, <4>1
    <3>3. \A t \in now .. nextResolveTime' - 1 : t \in Int /\ now <= t /\ t < nextResolveTime'
      BY <1>2, <3>1, UpTo
    <3>4. SettledUntil(nextResolveTime)'
      BY <1>1, <3>2, <3>3 DEF SettledUntil
    <3> QED BY <1>1, <3>4 DEF Planned, Resolving
  \* Later than the event the timer comes by no more than the lag.
  <2>6. ASSUME NEW t \in Int, now <= t, e <= t, t < now + WaitFor(e)
        PROVE  /\ \E u \in DOMAIN plan' : u <= t
               /\ \E u \in AtLeast(1, t - Lag) .. t : Shown(t)' = getState(timeline, u)
    <3> DEFINE u == e - 1
    <3>1. u \in AtLeast(1, t - Lag) .. t /\ job.time <= u /\ u \in Int /\ \A c \in Events : u < c
      BY <1>2, <2>1, <2>3, <2>6, ConductorAssumption DEF AtLeast, Lag
    <3> HIDE DEF u
    <3>2. Settled(u) /\ Shown(u) = getState(timeline, job.time)
      BY <1>1, <3>1, UntilTheEvent
    <3>3. Shown(t) = plan[job.time] /\ job.time \in DOMAIN plan /\ job.time <= t
      BY <1>2, <1>6, <2>1, <2>6, ShownAtLast DEF Handed, PInv, LInv
    <3>4. Shown(t) = getState(timeline, u)
      BY <1>6, <3>2, <3>3 DEF Handed, Settled
    <3>5. plan' = plan
      BY <1>1, <1>12
    <3> QED BY <3>1, <3>3, <3>4, <3>5 DEF Shown
  <2>7. InTime'
    <3>1. ASSUME NEW t \in now .. Wakes' - 1
          PROVE  /\ \E u \in DOMAIN plan' : u <= t
                 /\ \E u \in AtLeast(1, t - Lag) .. t : Shown(t)' = getState(timeline, u)
      <4>1. t \in Int /\ now <= t /\ t < now + WaitFor(e)
        <5>1. t \in Int /\ now <= t /\ t < Wakes'
          BY <1>2, <1>10, UpTo
        <5>2. Wakes' <= now + WaitFor(e)
          BY <1>10, <2>2
        <5> QED BY ONLY <5>1, <5>2, <1>2, <1>10, <2>3
      <4>2. CASE t < e
        BY <1>9, <2>4, <4>1, <4>2
      <4>3. CASE e <= t
        BY <2>6, <4>1, <4>3
      <4> QED BY <2>1, <4>1, <4>2, <4>3
    <3> QED BY <1>1, <3>1 DEF InTime
  <2> QED BY <2>5, <2>7
<1> QED BY <1>11, <1>12

\* Time passes.
LEMMA TickPlan ==
  ASSUME PInv, Tick, Prompt
  PROVE  Punctual' /\ Planned' /\ InTime'
<1>1. /\ now' = now + 1
      /\ UNCHANGED <<timeline, nextResolveTime, resolvedStates, trigger, interval, actionQueue, phase,
                     job, plan, resolveDone>>
      /\ phase = "idle" => busy' = busy
      /\ phase # "idle" => busy < MaxBusy /\ busy' = busy + 1
  BY DEF Tick
<1>2. /\ now \in Int /\ busy \in Int /\ MaxBusy \in Int /\ trigger \in Int /\ nextResolveTime \in Int
      /\ interval \in Int
      /\ job.time \in Int /\ job.started \in Int
  <2>1. /\ now \in Time /\ busy \in Nat /\ trigger \in Instant \cup {0}
        /\ nextResolveTime \in Instant \cup {0}
        /\ job.time \in Instant \cup {0} /\ job.started \in Time \cup {0}
        /\ interval \in 1 .. MaxTime + IntervalTime
    BY DEF PInv, LInv, TypeOK, NoTimer
  <2> QED BY <2>1, InstantsAreNumbers, ConductorAssumption
<1>3. Punctual'
  <2>1. busy' <= MaxBusy
    BY <1>1, <1>2 DEF PInv, Punctual
  <2>2. Resolving => now' = job.started + busy' /\ job.time >= job.started
    <3>1. ASSUME Resolving
          PROVE  now = job.started + busy /\ job.time >= job.started /\ phase # "idle"
      BY <3>1 DEF PInv, Punctual, Resolving
    <3>2. ASSUME Resolving PROVE now' = job.started + busy'
      <4>1. now' = now + 1 /\ busy' = busy + 1 /\ now = job.started + busy
        BY <1>1, <3>1, <3>2
      <4> QED BY <1>2, <4>1
    <3> QED BY <3>1, <3>2
  <2>3. Resolving' <=> Resolving
    BY <1>1 DEF Resolving
  <2> QED BY <1>1, <2>1, <2>2, <2>3 DEF PInv, Punctual
<1>4. \A t : Settled(t)' <=> Settled(t)
  BY <1>1 DEF Settled, Shown
<1>5. \A h \in Int : SettledUntil(h) => SettledUntil(h)'
  <2>1. ASSUME NEW h \in Int, NEW t \in now' .. h - 1 PROVE t \in now .. h - 1
    BY <1>1, <1>2
  <2> QED BY <1>4, <2>1 DEF SettledUntil
<1>6. Planned'
  BY <1>1, <1>2, <1>5 DEF PInv, Planned, Resolving, ResetQueued, Handed
<1>7. InTime'
  <2>1. ASSUME NEW t \in now' .. Wakes - 1 PROVE t \in now .. Wakes - 1
    <3>1. Wakes \in Int
      BY <1>2 DEF Wakes, AtMost
    <3> QED BY <1>1, <1>2, <3>1
  <2>3. Wakes' = Wakes
    BY <1>1 DEF Wakes
  <2>2. \A t : Shown(t)' = Shown(t)
    BY <1>1 DEF Shown
  <2> QED BY <1>1, <2>1, <2>2, <2>3 DEF PInv, InTime, Waiting
<1> QED BY <1>3, <1>6, <1>7

LEMMA NextPInv == Prompt /\ ~Repeating /\ Estimate = 0 /\ PInv /\ [Next]_vars => PInv'
<1> SUFFICES ASSUME Prompt, ~Repeating, Estimate = 0, PInv, [Next]_vars PROVE PInv'
  OBVIOUS
<1>1. LInv'
  BY NextLInv DEF PInv
<1> SUFFICES Punctual' /\ Planned' /\ InTime'
  BY <1>1 DEF PInv
<1>2. CASE UNCHANGED vars
  BY <1>2 DEF vars, PInv, Punctual, Planned, InTime, Waiting, Wakes, Resolving,
     ResetQueued, SettledUntil, Settled, Handed, Shown
<1>3. CASE init
  BY <1>3, ResetTriggeredPlan DEF init
<1>4. ASSUME NEW c \in SUBSET Changes, setTimelineAndMappings(c)
      PROVE  Punctual' /\ Planned' /\ InTime'
  BY <1>4, ResetTriggeredPlan DEF setTimelineAndMappings
<1>5. CASE devicesMakeReady \/ FireTrigger \/ FireInterval
  BY <1>5, devicesMakeReadyPlan
<1>6. CASE RunQueue
  BY <1>6, NothingPlanned, PostponeInTime, MakeReadyPlan, StartResolvePlan,
     ResolvedPlan, HandOverPlanned, EndResolvePlan DEF RunQueue
<1>7. CASE ResolverFails
  <2>1. phase # "idle"
    BY <1>7 DEF ResolverFails
  <2> QED BY <1>7, <2>1, NothingPlanned DEF Postpone, Take
<1>8. CASE Tick
  BY <1>8, TickPlan
<1> QED BY <1>2, <1>3, <1>4, <1>5, <1>6, <1>7, <1>8 DEF Next

(* If timers and actions are prompt, changes are known however far ahead   *)
(* (no repeating objects) and states are resolved for the present or later *)
(* (no estimate is added), then at each wait the devices have been handed  *)
(* what they need until it ends, but for the lag of an action and of the   *)
(* shortest wait: for all choices of the other times, also with a resolver *)
(* that fails (conductor.ts, _resolveTimelineInner).                       *)
THEOREM NothingIsLate ==
  ASSUME Prompt, ~Repeating, Estimate = 0
  PROVE  Spec => []InTime
<1>1. Init => PInv
  <2> SUFFICES ASSUME Init PROVE PInv
    OBVIOUS
  <2>1. nextResolveTime = 0 /\ phase = "idle" /\ busy = 0 /\ ~resolveDone
    BY DEF Init
  <2>2. Punctual /\ Planned /\ InTime
    BY <2>1, ConductorAssumption DEF Punctual, Planned, InTime, Resolving
  <2> QED BY <2>2, InitLInv DEF PInv
<1>2. PInv /\ [Next]_vars => PInv'
  BY NextPInv
<1>3. PInv => InTime
  BY DEF PInv
<1> QED BY <1>1, <1>2, <1>3, PTL DEF Spec
=============================================================================
