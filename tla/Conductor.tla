----------------------------- MODULE Conductor ------------------------------
(***************************************************************************)
(* conductor.ts, the resolve loop: a timeline is resolved again and again, *)
(* somewhat ahead of the time, and the state found is handed over to the   *)
(* devices.  The action queue runs one action at a time; setTimeline, the  *)
(* timer of the next resolve and the interval that the constructor starts  *)
(* add to it at any moment, also while a resolve waits for its resolver or *)
(* for the devices.                                                        *)
(*                                                                         *)
(* A timeline is the set of instants at which its state changes, and a     *)
(* version; its state at a time is named by the version and the last       *)
(* change.  `plan' is what the devices have been handed, by time.          *)
(***************************************************************************)
EXTENDS Integers, Sequences

CONSTANTS
  LOOKAHEADTIME, PREPARETIME, MINTRIGGERTIME, RESOLVE_LIMIT_TIME,
  IntervalTime,     \* the period of _interval
  Estimate,         \* estimateResolveTime(), 0 unless proActiveResolve
  Repeating,        \* changes are those of a repeating object
  ResolverMayFail,  \* the resolver may reject a call
  Prompt,           \* timers and queued actions run at once
  MaxBusy,          \* if Prompt, how long an action may take
  MaxTime,          \* bound: the time stops here
  Changes,          \* bound: the instants at which a timeline may change
  MaxVersions,      \* bound: calls of setTimelineAndMappings
  MaxMakeReady      \* bound: calls of devicesMakeReady

ASSUME ConductorAssumption ==
  /\ MINTRIGGERTIME \in Nat \ {0} /\ MINTRIGGERTIME <= PREPARETIME
  /\ PREPARETIME \in Nat /\ PREPARETIME <= LOOKAHEADTIME
  /\ LOOKAHEADTIME \in Nat /\ LOOKAHEADTIME <= RESOLVE_LIMIT_TIME
  /\ RESOLVE_LIMIT_TIME \in Nat /\ IntervalTime \in Nat \ {0}
  /\ Estimate \in Nat /\ MaxBusy \in Nat
  /\ Repeating \in BOOLEAN /\ ResolverMayFail \in BOOLEAN /\ Prompt \in BOOLEAN
  /\ MaxTime \in Nat \ {0} /\ Changes \subseteq 2 .. MaxTime
  /\ MaxVersions \in Nat
  /\ MaxMakeReady \in Nat

VARIABLES
  now,              \* getCurrentTime()
  timeline,         \* timeline
  isInitialized,    \* _isInitialized
  nextResolveTime,  \* _nextResolveTime
  resolvedStates,   \* _resolvedStates
  trigger,          \* expiry of _resolveTimelineTrigger, or NoTimer
  interval,         \* next expiry of _interval
  actionQueue,      \* _actionQueue: what waits in it
  phase,            \* of the action that runs, or "idle"
  busy,             \* how long it has been running
  job,              \* what a running resolve resolves
  plan,             \* what the devices were handed, by time
  madeReady,        \* calls of devicesMakeReady
  handed,           \* history: the last version handed over
  resolveDone       \* history: the last resolve was completed, it did not fail

vars == <<now, timeline, isInitialized, nextResolveTime, resolvedStates,
          trigger, interval, actionQueue, phase, busy, job, plan, madeReady,
          handed, resolveDone>>
jobVars == <<phase, busy, job>>

Time == 1 .. MaxTime
NoTimer == 0
NoTimeline == [version |-> 0, changes |-> {}]
NoStates == [timeline |-> NoTimeline, resolveTime |-> 0]
NoJob == [timeline |-> NoTimeline, time |-> 0, started |-> 0]
Phases == {"idle", "making ready", "resolving", "resolved", "handed over"}

Timeline == [version : 0 .. MaxVersions, changes : SUBSET Changes]
StateName == [version : 0 .. MaxVersions, change : 0 .. MaxTime]

Least(S) == CHOOSE n \in S : \A m \in S : n <= m
Latest(S) == CHOOSE n \in S : \A m \in S : m <= n
AtLeast(a, b) == IF a >= b THEN a ELSE b
AtMost(a, b) == IF a <= b THEN a ELSE b

\* Resolver.getState: the last change that has come, if any.
getState(tl, t) ==
  [version |-> tl.version, change |-> Latest({c \in tl.changes : c <= t} \cup {0})]

\* The time, as an instant that the bounded clock may never reach.
Instant == 1 .. MaxTime + Estimate + LOOKAHEADTIME

TypeOK ==
  /\ now \in Time
  /\ timeline \in Timeline
  /\ isInitialized \in BOOLEAN
  /\ nextResolveTime \in Instant \cup {0}
  /\ resolvedStates \in [timeline : Timeline, resolveTime : Instant \cup {0}]
  /\ trigger \in Instant \cup {NoTimer}
  /\ interval \in 1 .. MaxTime + IntervalTime
  /\ actionQueue \in Seq({"reset", "resolve", "make ready"})
  /\ phase \in Phases
  /\ busy \in Nat
  /\ job \in [timeline : Timeline, time : Instant \cup {0}, started : Time \cup {0}]
  /\ DOMAIN plan \subseteq Instant
  /\ \A t \in DOMAIN plan : plan[t] \in StateName
  /\ madeReady \in 0 .. MaxMakeReady
  /\ handed \in 0 .. MaxVersions
  /\ resolveDone \in BOOLEAN

Init ==
  /\ now = 1
  /\ timeline = NoTimeline
  /\ isInitialized = FALSE
  /\ nextResolveTime = 0
  /\ resolvedStates = NoStates
  /\ trigger = NoTimer
  /\ interval = 1 + IntervalTime
  /\ actionQueue = <<>>
  /\ phase = "idle" /\ busy = 0 /\ job = NoJob
  /\ plan = <<>>
  /\ madeReady = 0
  /\ handed = 0 /\ resolveDone = FALSE

----------------------------------------------------------------------------
(* _triggerResolveTimeline: resolve after a time, or right away, in any    *)
(* case instead of the resolve that the timer was set for.                 *)
TriggerIn(wait) == trigger' = now + wait
TriggerNothing(queue) == trigger' = NoTimer /\ actionQueue' = queue
TriggerNow(queue) ==
  /\ trigger' = NoTimer
  /\ actionQueue' = Append(queue, "resolve")

resetResolver == TriggerNow(Append(actionQueue, "reset"))

\* init() completes.
init ==
  /\ ~isInitialized
  /\ isInitialized' = TRUE
  /\ resetResolver
  /\ UNCHANGED <<now, timeline, nextResolveTime, resolvedStates, interval, jobVars, plan,
                 madeReady, handed, resolveDone>>

setTimelineAndMappings(changes) ==
  /\ timeline.version < MaxVersions
  /\ timeline' = [version |-> timeline.version + 1, changes |-> changes]
  /\ resetResolver
  /\ UNCHANGED <<now, isInitialized, nextResolveTime, resolvedStates, interval, jobVars,
                 plan, madeReady, handed, resolveDone>>

devicesMakeReady ==
  /\ madeReady < MaxMakeReady
  /\ madeReady' = madeReady + 1
  /\ actionQueue' = Append(actionQueue, "make ready")
  /\ UNCHANGED <<now, timeline, isInitialized, nextResolveTime, resolvedStates, trigger,
                 interval, jobVars, plan, handed, resolveDone>>

FireTrigger ==
  /\ trigger # NoTimer /\ trigger <= now
  /\ TriggerNow(actionQueue)
  /\ UNCHANGED <<now, timeline, isInitialized, nextResolveTime, resolvedStates, interval,
                 jobVars, plan, madeReady, handed, resolveDone>>

\* The interval of the constructor: another resolve, whatever the timer is set for.
FireInterval ==
  /\ interval <= now
  /\ interval' = now + IntervalTime
  /\ actionQueue' = Append(actionQueue, "resolve")
  /\ UNCHANGED <<now, timeline, isInitialized, nextResolveTime, resolvedStates, trigger,
                 jobVars, plan, madeReady, handed, resolveDone>>

----------------------------------------------------------------------------
(* The action queue takes its next action when none runs.                  *)
Take(action) ==
  /\ phase = "idle"
  /\ actionQueue # <<>>
  /\ Head(actionQueue) = action
  /\ actionQueue' = Tail(actionQueue)

Done == phase' = "idle" /\ busy' = 0 /\ job' = NoJob

ResetTimeOnly ==
  /\ Take("reset")
  /\ nextResolveTime' = 0
  /\ UNCHANGED <<now, timeline, isInitialized, resolvedStates, trigger, interval,
                 jobVars, plan, madeReady, handed, resolveDone>>

Reset ==
  /\ Take("reset")
  /\ nextResolveTime' = 0
  /\ resolvedStates' = NoStates
  /\ UNCHANGED <<now, timeline, isInitialized, trigger, interval, jobVars, plan,
                 madeReady, handed, resolveDone>>

StartMakeReady ==
  /\ Take("make ready")
  /\ phase' = "making ready"
  /\ UNCHANGED <<now, timeline, isInitialized, nextResolveTime, resolvedStates, trigger,
                 interval, busy, job, plan, madeReady, handed, resolveDone>>

\* Every device is ready, or has timed out.
EndMakeReady ==
  /\ phase = "making ready"
  /\ Done
  /\ TriggerNow(actionQueue)
  /\ UNCHANGED <<now, timeline, isInitialized, nextResolveTime, resolvedStates, interval,
                 plan, madeReady, handed, resolveDone>>

(* _resolveTimelineInner, up to its first wait.                            *)
Late == nextResolveTime = 0 \/ nextResolveTime < now + Estimate
TooFarAhead == ~Late /\ nextResolveTime > now + LOOKAHEADTIME
plannedTime == nextResolveTime
resolveTime == IF Late THEN now + Estimate ELSE nextResolveTime

NotInitialized ==
  /\ Take("resolve")
  /\ ~isInitialized
  /\ nextResolveTime' = 0
  /\ UNCHANGED <<now, timeline, isInitialized, resolvedStates, trigger, interval,
                 jobVars, plan, madeReady, handed, resolveDone>>

Postpone ==
  /\ Take("resolve")
  /\ isInitialized /\ TooFarAhead
  /\ TriggerIn(LOOKAHEADTIME)
  /\ nextResolveTime' = 0
  /\ UNCHANGED <<now, timeline, isInitialized, resolvedStates, interval, jobVars, plan,
                 madeReady, handed, resolveDone>>

PreResolved ==
  /\ resolvedStates.resolveTime # 0
  /\ resolveTime >= resolvedStates.resolveTime
  /\ resolveTime < resolvedStates.resolveTime + RESOLVE_LIMIT_TIME

Before(p, t) == [u \in {v \in DOMAIN p : v < t} |-> p[u]]

\* The devices are told what is to come, and the resolver is asked if need be.
StartResolve ==
  /\ Take("resolve")
  /\ isInitialized /\ ~TooFarAhead
  /\ plan' = Before(plan, resolveTime)
  /\ phase' = IF PreResolved THEN "resolved" ELSE "resolving"
  /\ job' = [timeline |-> timeline, time |-> resolveTime, started |-> now]
  /\ UNCHANGED <<now, timeline, isInitialized, nextResolveTime, resolvedStates, trigger,
                 interval, busy, madeReady, handed, resolveDone>>

Resolved ==
  /\ phase = "resolving"
  /\ resolvedStates' = [timeline |-> job.timeline, resolveTime |-> job.time]
  /\ phase' = "resolved"
  /\ UNCHANGED <<now, timeline, isInitialized, nextResolveTime, trigger, interval,
                 actionQueue, busy, job, plan, madeReady, handed, resolveDone>>

ResolverFails ==
  /\ ResolverMayFail
  /\ phase = "resolving"
  /\ TriggerIn(LOOKAHEADTIME)
  /\ nextResolveTime' = 0
  /\ Done
  /\ resolveDone' = FALSE
  /\ UNCHANGED <<now, timeline, isInitialized, resolvedStates, interval, actionQueue,
                 plan, madeReady, handed>>

\* The state found, for the time of the resolve.
tlStateAtStart == getState(resolvedStates.timeline, job.started)
tlState == getState(resolvedStates.timeline, job.time)

\* It is pushed to the devices ...
HandOver ==
  /\ phase = "resolved"
  /\ plan' = [u \in DOMAIN Before(plan, job.time) \cup {job.time} |->
                IF u = job.time THEN tlState ELSE plan[u]]
  /\ handed' = resolvedStates.timeline.version
  /\ phase' = "handed over"
  /\ UNCHANGED <<now, timeline, isInitialized, nextResolveTime, resolvedStates, trigger,
                 interval, actionQueue, busy, job, madeReady, resolveDone>>

\* tlState.nextEvents: repeating objects are resolved up to a limit only.
NextEvents ==
  {c \in resolvedStates.timeline.changes :
     /\ c > job.time
     /\ Repeating => c < resolvedStates.resolveTime + RESOLVE_LIMIT_TIME}

\* How long to wait before the resolve for an event.
WaitFor(event) ==
  AtLeast(MINTRIGGERTIME,
    AtMost(AtMost(LOOKAHEADTIME, RESOLVE_LIMIT_TIME), event - now - PREPARETIME))

\* ... which have taken it; the next resolve is planned.
EndResolve ==
  LET events == {c \in NextEvents : c > job.started}
  IN /\ phase = "handed over"
     /\ IF events = {}
        THEN /\ nextResolveTime' = job.time
             /\ plan' = Before(plan, job.time + 1)
             /\ TriggerIn(LOOKAHEADTIME)
        ELSE /\ nextResolveTime' = AtMost(job.time + LOOKAHEADTIME, Least(events))
             /\ TriggerIn(WaitFor(Least(events)))
             /\ UNCHANGED plan
     /\ Done
     /\ resolveDone' = TRUE
     /\ UNCHANGED <<now, timeline, isInitialized, resolvedStates, interval, actionQueue,
                    madeReady, handed>>

----------------------------------------------------------------------------
Due == interval <= now \/ (trigger # NoTimer /\ trigger <= now)

Tick ==
  /\ now < MaxTime
  /\ Prompt => ~Due /\ (IF phase = "idle" THEN actionQueue = <<>> ELSE busy < MaxBusy)
  /\ now' = now + 1
  /\ busy' = IF Prompt /\ phase # "idle" THEN busy + 1 ELSE busy
  /\ UNCHANGED <<timeline, isInitialized, nextResolveTime, resolvedStates, trigger,
                 interval, actionQueue, phase, job, plan, madeReady, handed, resolveDone>>

RunQueue ==
  \/ Reset \/ StartMakeReady \/ EndMakeReady
  \/ NotInitialized \/ Postpone \/ StartResolve
  \/ Resolved \/ HandOver \/ EndResolve

Next ==
  \/ init
  \/ \E c \in SUBSET Changes : setTimelineAndMappings(c)
  \/ devicesMakeReady
  \/ FireTrigger
  \/ FireInterval
  \/ RunQueue
  \/ ResolverFails
  \/ Tick

Spec == Init /\ [][Next]_vars

(* init completes, the queue runs its actions, timers fire, time passes.   *)
FairSpec ==
  /\ Spec /\ WF_vars(init) /\ WF_vars(RunQueue)
  /\ WF_vars(FireTrigger) /\ WF_vars(FireInterval) /\ WF_vars(Tick)

----------------------------------------------------------------------------
Waiting == phase = "idle" /\ actionQueue = <<>>

(* A timeline that was set is not forgotten between the resets, resolves,  *)
(* triggers and intervals that are queued meanwhile: when the loop waits   *)
(* again, its state has been handed over, and it was that of the timeline  *)
(* set last; or the resolve failed, and the timer is set to try again.     *)
LatestIsHandedOver ==
  isInitialized /\ Waiting =>
    IF resolveDone THEN handed = timeline.version ELSE trigger # NoTimer

(* A state is never taken from another timeline than the one set last,     *)
(* unless the reset that follows is still in the queue: also when the      *)
(* timeline is replaced while the resolver works on the old one.           *)
NoStaleStates ==
  (phase \in {"resolved", "handed over"} /\ resolvedStates.timeline # timeline)
  => \E i \in DOMAIN actionQueue : actionQueue[i] = "reset"

Shown(t) == plan[Latest({u \in DOMAIN plan : u <= t})]
Lag == MINTRIGGERTIME + MaxBusy

\* When the loop goes on, at the latest.
Wakes == IF trigger = NoTimer THEN interval ELSE AtMost(trigger, interval)

(* While the conductor waits for its timer or the interval, the devices    *)
(* have been handed all that they need until then: at every instant they   *)
(* show the state that the timeline has for it, or had at most Lag before. *)
(* No wait is longer than what has been resolved (line 1102), also if a    *)
(* resolve was postponed.  Not after one that failed.                      *)
InTime ==
  Waiting /\ resolveDone =>
    \A t \in now .. Wakes - 1 :
      /\ \E u \in DOMAIN plan : u <= t
      /\ \E u \in AtLeast(1, t - Lag) .. t : Shown(t) = getState(timeline, u)

(* A timeline that was set reaches the devices, or a later one does; at    *)
(* least a failed resolve is awaiting its retry.                           *)
Retrying == ~resolveDone /\ phase = "idle" /\ Wakes > now
TimelineIsHandedOver ==
  \A v \in 1 .. MaxVersions : timeline.version = v ~> (handed >= v \/ Retrying)
=============================================================================
