--------------------------------- MODULE Osc ---------------------------------
(***************************************************************************)
(* integrations/osc/index.ts: messages for the paths of a receiver, at     *)
(* once or as an animation from one value to another.  The commands of a   *)
(* state are sent in one go by the state handler.  A path that is no more  *)
(* in the state keeps its value.  The receiver is external; ages are in    *)
(* steps of the animation.                                                 *)
(***************************************************************************)
EXTENDS Naturals, FiniteSets

CONSTANTS
  LayerOrder,
  Objects,           \* what the layers may have: [id, path, value, from, priority]
  Nothing,           \* no object, no animation, no `from', no value yet
  Between,           \* a value on the way
  Duration,          \* of an animation
  Steps,             \* how much later an animation is when it runs again
  MaxStates,         \* bound
  MayCut             \* a value is to be sent at once while the path is animated

VARIABLES
  log,               \* the state
  transitions,       \* by path: the animation, or Nothing
  receiver,          \* external: the values
  last,              \* the last object that a state has had for a path
  states
vars == <<log, transitions, receiver, last, states>>

Paths == {o.path : o \in Objects}
Values == {o.value : o \in Objects} \cup {o.from : o \in Objects}
Timelines == [DOMAIN LayerOrder -> Objects \cup {Nothing}]

OscAssumption ==
  /\ Nothing \notin Objects \cup {Between} /\ Between \notin Values
  /\ Duration \in Nat \ {0} /\ IsFiniteSet(Steps) /\ Steps \subseteq Nat \ {0} /\ Steps # {}
  /\ MaxStates \in Nat /\ MayCut \in BOOLEAN

TypeOK ==
  /\ log \in [Paths -> Objects \cup {Nothing}]
  /\ transitions \in [Paths -> [of : Objects, age : 0 .. Duration] \cup {Nothing}]
  /\ receiver \in [Paths -> Values \cup {Nothing, Between}] /\ last \in [Paths -> Objects \cup {Nothing}]

Init ==
  /\ log = [p \in Paths |-> Nothing] /\ transitions = [p \in Paths |-> Nothing]
  /\ receiver = [p \in Paths |-> Nothing] /\ last = [p \in Paths |-> Nothing] /\ states = 0

----------------------------------------------------------------------------
\* Of the objects for a path the one of the highest priority, and of these the last.
convertTimelineStateToDeviceState(timeline) ==
  LET For(p) == {n \in DOMAIN timeline : timeline[n] # Nothing /\ timeline[n].path = p}
      Yields(n, m) == \/ timeline[n].priority < timeline[m].priority
                      \/ timeline[n].priority = timeline[m].priority /\ n <= m
      chosen(p) == CHOOSE m \in For(p) : \A n \in For(p) : Yields(n, m)
  IN [p \in Paths |-> IF For(p) = {} THEN Nothing ELSE timeline[chosen(p)]]

\* The paths of which something is sent.
diffStates(old, new) == {p \in Paths : new[p] \notin {Nothing, old[p]}}

IsAnimated(object) == object.from # Nothing

\* As it would be if an animation that runs was not replaced.
StartsUnlessRunning(p, object) == IF transitions[p] # Nothing THEN transitions[p] ELSE [of |-> object, age |-> 0]

\* An animation takes the place of the one that there is.
Starts(p, object) == [of |-> object, age |-> 0]

\* sendCommand for all paths that have changed.
HandleState(timeline) ==
  /\ states < MaxStates /\ states' = states + 1
  /\ LET new == convertTimelineStateToDeviceState(timeline)
         changed == diffStates(log, new)
         animated == {p \in changed : IsAnimated(new[p])}
     IN /\ log # new /\ log' = new
        /\ MayCut \/ \A p \in changed \ animated : transitions[p] = Nothing
        /\ transitions' = [p \in Paths |-> IF p \in animated THEN Starts(p, new[p]) ELSE transitions[p]]
        /\ receiver' = [p \in Paths |-> IF p \notin changed THEN receiver[p]
                                        ELSE IF p \in animated THEN new[p].from ELSE new[p].value]
        /\ last' = [p \in Paths |-> IF p \in changed THEN new[p] ELSE last[p]]

Value(transition) == IF transition.age = Duration THEN transition.of.value ELSE Between

\* The interval: what is older than its duration is dropped first, the rest sends a value each.
runAnimation(step) ==
  LET Old(p) == transitions[p].age + step > Duration
      running == {p \in Paths : transitions[p] # Nothing}
      aged == [p \in Paths |-> IF p \notin running \/ Old(p) THEN Nothing
                               ELSE [transitions[p] EXCEPT !.age = @ + step]]
  IN /\ running # {}
     /\ transitions' = aged
     /\ receiver' = [p \in Paths |-> IF aged[p] = Nothing THEN receiver[p] ELSE Value(aged[p])]
     /\ UNCHANGED <<log, last, states>>

Next ==
  \/ \E t \in Timelines : HandleState(t)
  \/ \E step \in Steps : runAnimation(step)

----------------------------------------------------------------------------
\* A path is on the way of the last object that a state had for it, and of no other, whatever
\* animations of it were under way; without an animation it has the object's value at once.
OnTheWay(p, object) ==
  IF IsAnimated(object)
  THEN receiver[p] \in {object.from, Between, object.value} /\ transitions[p] \in {Nothing} \cup [of : {object}, age : 0 .. Duration]
  ELSE receiver[p] = object.value
PathsAreOnTheirWay == \A p \in Paths : last[p] # Nothing => OnTheWay(p, last[p])
=============================================================================
