------------------------------- MODULE VizMSE -------------------------------
(***************************************************************************)
(* integrations/vizMSE/index.ts: the commands from one state of graphics   *)
(* to the next, and their execution in order on each layer.  An element is *)
(* taken in a slot of the picture and replaces what is there; `screen',    *)
(* `cued' and `concept' are external.  A state is handed over when its     *)
(* time has come, so its commands are due; DoOnTime (SendMode.IN_ORDER)    *)
(* runs those of a layer one after the other and the layers side by side.  *)
(* Orders that are not delayed are much faster than any delay.  What an    *)
(* element needs from the MSE before it can be taken is in VizManager.     *)
(***************************************************************************)
EXTENDS Naturals, Sequences, FiniteSets, SequencesExt, Functions

CONSTANTS
  Elements, SlotOf, Internal,   \* templates, each with a slot; the others are pilot elements
  Concepts, Nothing,
  Timelines,                    \* what the timeline may have on the layers
  MaxDelay,                     \* bound: of the transitions
  MaxStates, MaxReady,          \* bounds: states handed over, calls of makeReady or VizReset
  MaxErrors,                    \* bound: commands answered with `inexistent'
  MayMove,                      \* a slot changes layers while the old one is busy with it, or
                                \* without waiting for a delayed takeout
  MayOverlap,                   \* makeReady or a clear-all while commands are under way
  MaySkipSteps                  \* an element is not taken at its first step, or jumps

Slots == {SlotOf[e] : e \in Elements}

\* What a layer has; lookahead and the type of an object do not change while it is there.
Element == [type : {"element"}, content : Elements, lookahead : BOOLEAN, cue : BOOLEAN,
            continueStep : Nat, outDelay : 0 .. MaxDelay, delayTake : BOOLEAN]
ContinueOf == [type : {"continue"}, id : Nat, reference : STRING, direction : {1, 2}]
Other == [type : {"concept"}, concept : Concepts] \cup [type : {"shows"}, id : Nat]

Empty == [layer |-> <<>>, isClearAll |-> FALSE]

\* An object that clears everything on any layer clears the rest of the state.
convertState(timeline) ==
  LET isClearAll == \E l \in DOMAIN timeline : timeline[l].type = "clear"
  IN [layer |-> IF isClearAll THEN <<>> ELSE timeline, isClearAll |-> isClearAll]
States == {convertState(t) : t \in Timelines}

IsElement(s, l) == l \in DOMAIN s.layer /\ s.layer[l].type = "element"

VizAssumption ==
  /\ SlotOf \in [Elements -> Range(SlotOf)] /\ Internal \subseteq Elements
  /\ Nothing \notin Elements \cup Concepts
  /\ \A s \in States :
       /\ \A l \in DOMAIN s.layer : s.layer[l] \in Element \cup ContinueOf \cup Other
       /\ \A l, k \in DOMAIN s.layer :
            IsElement(s, l) /\ IsElement(s, k) /\ l # k
              => SlotOf[s.layer[l].content] # SlotOf[s.layer[k].content]
  \* An element is not taken out when another replaces it on its layer: they share a slot.
  /\ \A s, t \in States : \A l \in DOMAIN s.layer \cap DOMAIN t.layer :
       /\ s.layer[l].type = t.layer[l].type
       /\ IsElement(s, l) => SlotOf[s.layer[l].content] = SlotOf[t.layer[l].content]
  /\ {MaxDelay, MaxStates, MaxReady, MaxErrors} \subseteq Nat
  /\ {MayMove, MayOverlap, MaySkipSteps} \subseteq BOOLEAN

VARIABLES
  logged,     \* getStateBefore(now)
  queue,      \* the commands, in the order they were queued
  screen,     \* for every slot the element on air
  steps,      \* how far an element on air was continued
  cued,
  concept,
  happened

vars == <<logged, queue, screen, steps, cued, concept, happened>>

Command ==
  [do : {"prepare", "cue", "take", "out", "continue", "continuereverse"}, layer : STRING,
   element : Elements, delay : 0 .. MaxDelay + 1]
    \cup [do : {"shows", "clear_all", "clear_engines"}, layer : STRING, delay : {0}]
    \cup [do : {"set_concept"}, layer : STRING, concept : Concepts, delay : {0}]

TypeOK ==
  /\ logged \in States \cup {Empty}
  /\ queue \in Seq(Command)
  /\ screen \in [Slots -> Elements \cup {Nothing}]
  /\ steps \in [Elements -> Nat] /\ cued \subseteq Elements
  /\ concept \in Concepts \cup {Nothing}
  /\ happened \in [states : 0 .. MaxStates, ready : 0 .. MaxReady, errors : 0 .. MaxErrors]

Init ==
  /\ logged = Empty /\ queue = <<>>
  /\ screen = [s \in Slots |-> Nothing] /\ steps = [e \in Elements |-> 0] /\ cued = {}
  /\ concept = Nothing
  /\ happened = [states |-> 0, ready |-> 0, errors |-> 0]

----------------------------------------------------------------------------
(* _diffStates.  The commands of several layers come in any one order.     *)

Default == "_"          \* the queue of commands without a layer
Do(what, l, e, delay) == [do |-> what, layer |-> l, element |-> e, delay |-> delay]

\* What makes two layers the same.
Essence(layer) ==
  IF layer.type = "element" THEN <<layer.content, layer.lookahead, layer.cue, layer.delayTake>>
  ELSE <<layer>>
New(old, new, l) == l \notin DOMAIN old.layer \/ Essence(old.layer[l]) # Essence(new.layer[l])

\* How long a take waits for the takeouts of its state.
Outs(old, new) == {l \in DOMAIN old.layer : IsElement(old, l) /\ l \notin DOMAIN new.layer}
Waits(old, new, e) ==
  LET delays == {old.layer[l].outDelay : l \in Outs(old, new)} \ {0}
      highest == CHOOSE d \in delays : \A c \in delays : c <= d
  IN IF delays = {} \/ ~(e.content \in Internal \/ e.delayTake) THEN 0 ELSE highest + 1

Played(old, new, l) ==
  LET e == new.layer[l] IN
  IF New(old, new, l)
  THEN <<Do("prepare", l, e.content, 0),
         IF e.cue THEN Do("cue", l, e.content, 0)
         ELSE Do("take", l, e.content, Waits(old, new, e))>>
  ELSE IF e.continueStep > old.layer[l].continueStep THEN <<Do("continue", l, e.content, 0)>>
  ELSE IF e.continueStep < old.layer[l].continueStep THEN <<Do("continuereverse", l, e.content, 0)>>
  ELSE <<>>

Achieved(old, new, l) ==
  LET n == new.layer[l] IN
  CASE n.type = "element" -> Played(old, new, l)
    [] ~New(old, new, l) -> <<>>
    [] n.type = "continue" /\ ~IsElement(new, n.reference) -> <<>>
    [] n.type = "continue" /\ IsElement(new, n.reference) ->
         <<Do(IF n.direction = 1 THEN "continue" ELSE "continuereverse", l,
              new.layer[n.reference].content, 0)>>
    [] n.type = "concept" -> <<[do |-> "set_concept", layer |-> Default, concept |-> n.concept, delay |-> 0]>>
    [] n.type = "shows" -> <<[do |-> "shows", layer |-> Default, delay |-> 0]>>

Lookahead(s, l) == IsElement(s, l) /\ s.layer[l].lookahead
\* High priority before low.
InOrder(s, layers) ==
  SetToSeq({l \in layers : ~Lookahead(s, l)}) \o SetToSeq({l \in layers : Lookahead(s, l)})

TakeOuts(old, new) ==
  LET order == InOrder(old, Outs(old, new))
  IN [n \in DOMAIN order |->
        Do("out", order[n], old.layer[order[n]].content, old.layer[order[n]].outDelay)]

\* Everything is cleared by a template and by commands to the engines, and nothing is taken out.
Cleared == [n \in 1 .. 2 |-> [do |-> IF n = 1 THEN "clear_all" ELSE "clear_engines",
                              layer |-> Default, delay |-> 0]]

TakesBeforeOuts(old, new) ==
  LET order == InOrder(new, DOMAIN new.layer)
  IN FlattenSeq([n \in DOMAIN order |-> Achieved(old, new, order[n])]) \o TakeOuts(old, new)

\* Takeouts come first.
diffStates(old, new) ==
  LET order == InOrder(new, DOMAIN new.layer)
  IN IF new.isClearAll /\ ~old.isClearAll THEN Cleared
     ELSE TakeOuts(old, new) \o FlattenSeq([n \in DOMAIN order |-> Achieved(old, new, order[n])])

----------------------------------------------------------------------------
Count(what) == happened' = [happened EXCEPT ![what] = @ + 1]

\* A slot that goes from one layer to another: what the one layer still has to do with it must
\* not come after the take on the other.
MovesSafely(new) ==
  \A k \in DOMAIN new.layer : IsElement(new, k) /\ New(logged, new, k) =>
    LET slot == SlotOf[new.layer[k].content] IN
    /\ \A n \in DOMAIN queue :
         "element" \in DOMAIN queue[n] /\ SlotOf[queue[n].element] = slot => queue[n].layer = k
    /\ \A l \in Outs(logged, new) :
         SlotOf[logged.layer[l].content] = slot /\ logged.layer[l].outDelay > 0
           => Waits(logged, new, new.layer[k]) > 0

\* One command continues an element by one step, however far its continueStep has gone.
OneStep(new) ==
  \A l \in DOMAIN new.layer : IsElement(new, l) =>
    LET from == IF New(logged, new, l) THEN 0 ELSE logged.layer[l].continueStep
    IN new.layer[l].continueStep \in {from, from + 1} \cup (IF from = 0 THEN {} ELSE {from - 1})
       /\ (New(logged, new, l) => new.layer[l].continueStep = 0)

HandleState(new) ==
  /\ happened.states < MaxStates
  /\ MaySkipSteps \/ OneStep(new)
  /\ MayOverlap \/ (new.isClearAll => queue = <<>>)
  /\ MayMove \/ MovesSafely(new)
  /\ queue' = queue \o diffStates(logged, new)
  /\ logged' = new
  /\ Count("states")
  /\ UNCHANGED <<screen, steps, cued, concept>>

\* The next command of its layer runs; one that is delayed waits first.
Runs(n) == \A m \in 1 .. n - 1 : queue[m].layer # queue[n].layer
Ready(n) == Runs(n) /\ queue[n].delay = 0

\* External: what the MSE makes of a command.
Obeys(c) ==
  LET slot == SlotOf[c.element] IN
  CASE c.do \in {"prepare", "shows"} -> UNCHANGED <<screen, steps, cued, concept>>
    [] c.do = "cue" ->
         /\ cued' = cued \cup {c.element}
         /\ screen' = [screen EXCEPT ![slot] = IF @ = c.element THEN Nothing ELSE @]
         /\ UNCHANGED <<steps, concept>>
    [] c.do = "take" ->
         /\ cued' = cued \ {c.element} /\ screen' = [screen EXCEPT ![slot] = c.element]
         /\ steps' = [steps EXCEPT ![c.element] = 0]
         /\ UNCHANGED concept
    [] c.do = "out" ->
         /\ cued' = cued \ {c.element}
         /\ screen' = [screen EXCEPT ![slot] = IF @ = c.element THEN Nothing ELSE @]
         /\ UNCHANGED <<steps, concept>>
    [] c.do = "continue" ->
         steps' = [steps EXCEPT ![c.element] = @ + 1] /\ UNCHANGED <<screen, cued, concept>>
    [] c.do = "continuereverse" ->
         steps' = [steps EXCEPT ![c.element] = IF @ = 0 THEN 0 ELSE @ - 1] /\ UNCHANGED <<screen, cued, concept>>
    [] c.do \in {"clear_all", "clear_engines"} ->
         /\ screen' = [s \in Slots |-> Nothing] /\ cued' = {}
         /\ UNCHANGED <<steps, concept>>
    [] c.do = "set_concept" -> concept' = c.concept /\ UNCHANGED <<screen, steps, cued>>

\* The commands that may run are sent in the order they were queued.  _handleRetry returns the
\* promise without waiting for it, so it sees no error: the command is not tried again.
Execute(inexistent) ==
  /\ \E n \in DOMAIN queue :
       /\ Ready(n) /\ \A m \in 1 .. n - 1 : ~Ready(m)
       /\ queue' = RemoveAt(queue, n)
       /\ IF inexistent
          THEN /\ happened.errors < MaxErrors /\ Count("errors")
               /\ UNCHANGED <<screen, steps, cued, concept>>
          ELSE Obeys(queue[n]) /\ UNCHANGED happened
  /\ UNCHANGED logged

\* waitWithLayer: time passes for everything that waits.
Tick ==
  /\ queue # <<>> /\ \A n \in DOMAIN queue : ~Ready(n)
  /\ queue' = [n \in DOMAIN queue |-> IF Runs(n) THEN [queue[n] EXCEPT !.delay = @ - 1] ELSE queue[n]]
  /\ UNCHANGED <<logged, screen, steps, cued, concept, happened>>

\* makeReady for another playlist, or VizReset: the engines are cleared and the log is emptied.
MakeReady ==
  /\ happened.ready < MaxReady
  /\ MayOverlap \/ queue = <<>>
  /\ screen' = [s \in Slots |-> Nothing] /\ cued' = {}
  /\ logged' = Empty
  /\ Count("ready")
  /\ UNCHANGED <<queue, steps, concept>>

Next ==
  \/ \E s \in States : HandleState(s)
  \/ \E inexistent \in BOOLEAN : Execute(inexistent)
  \/ Tick
  \/ MakeReady

----------------------------------------------------------------------------
Shown(slot) ==
  {logged.layer[l].content : l \in {k \in DOMAIN logged.layer :
     IsElement(logged, k) /\ ~logged.layer[k].cue /\ SlotOf[logged.layer[k].content] = slot}}

ConceptsOf(s) == {s.layer[l].concept : l \in {k \in DOMAIN s.layer : s.layer[k].type = "concept"}}

\* Elements that an object of its own continues.
Continued ==
  LET Continues(s) == {l \in DOMAIN s.layer : s.layer[l].type = "continue" /\ IsElement(s, s.layer[l].reference)}
  IN UNION {{s.layer[s.layer[l].reference].content : l \in Continues(s)} : s \in States}

\* Once its commands are through, the picture shows the elements of the state, and only those,
\* each at its step, and the concept is that of the state.
ShowsTheElements ==
  queue = <<>> =>
    /\ \A slot \in Slots : screen[slot] = IF Shown(slot) = {} THEN Nothing ELSE CHOOSE e \in Shown(slot) : TRUE
    /\ \A l \in DOMAIN logged.layer :
         IsElement(logged, l) /\ ~logged.layer[l].cue /\ logged.layer[l].content \notin Continued
           => steps[logged.layer[l].content] = logged.layer[l].continueStep
    /\ ConceptsOf(logged) # {} => concept \in ConceptsOf(logged)
=============================================================================
