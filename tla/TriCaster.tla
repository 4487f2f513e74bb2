----------------------------- MODULE TriCaster -----------------------------
(***************************************************************************)
(* integrations/tricaster: a mix effect with its two rows, a keyer, an     *)
(* output, the connection, and the state that is read from the switcher    *)
(* after each connection.  The switcher is external.  Layers a and b of an *)
(* effect are the rows themselves: they have the same names.               *)
(***************************************************************************)
EXTENDS Naturals, SequencesExt, TLC

CONSTANTS
  LayerOrder,        \* the layers, by name
  ObjectsOf,         \* by layer: the objects that it may have
  Inputs, Black, Undefined,
  MaxStates, MaxCloses,    \* bounds
  MayReturn,         \* an effect ends with the program input that the state had before
  MayRace,           \* a state is handled while the switcher is asked for its own
  MayCloseAsking     \* the connection closes while the switcher is asked

VARIABLES
  log,          \* the last state in the log of DeviceWithState, by field
  queue,        \* commands that are due
  switcher,     \* external: rows, key, output, effect, speed
  socket,       \* "none": a timer connects; "opening", "open"
  asking,       \* requests for the state: the answers, as far as there are any
  connected, initialized,
  fresh,        \* a state was handled since the switcher was last asked
  happened
vars == <<log, queue, switcher, socket, asking, connected, initialized, fresh, happened>>

Effects == {"cut", "fade"}
Layered == {"a", "b"}
Fields == {"program", "preview", "effect", "duration", "onAir", "output", "effectMode"} \cup Layered
ValuesOf(f) == CASE f \in {"program", "preview", "output", "a", "b"} -> Inputs
                 [] f = "effect" -> Effects
                 [] f = "duration" -> 1..2
                 [] OTHER -> BOOLEAN
Entry == [value : UNION {ValuesOf(f) : f \in Fields} \cup {Undefined}, priority : 0..1]
Layers == Range(LayerOrder)
Timelines == {t \in [Layers -> UNION {ObjectsOf[l] : l \in Layers} \cup {Undefined}] :
                \A l \in Layers : t[l] \in ObjectsOf[l] \cup {Undefined}}
Switcher == [a : Inputs, b : Inputs, onAir : BOOLEAN, output : Inputs, effect : Effects, speed : 1..2]
Targets == {"a", "b", "onAir", "output", "effect", "speed", "take", "auto", "autoKey"}

TriCasterAssumption ==
  /\ Black \in Inputs
  /\ {MaxStates, MaxCloses} \subseteq Nat /\ {MayReturn, MayRace, MayCloseAsking} \subseteq BOOLEAN

TypeOK ==
  /\ DOMAIN log = Fields
  /\ \A n \in DOMAIN queue : queue[n].to \in Targets
  /\ switcher \in Switcher
  /\ socket \in {"none", "opening", "open"} /\ asking \in Seq(Switcher \cup {Undefined})
  /\ {connected, initialized, fresh} \subseteq BOOLEAN

Count(what) == happened' = [happened EXCEPT ![what] = @ + 1]
Is(value, priority) == [value |-> value, priority |-> priority]

----------------------------------------------------------------------------
(* States.                                                                 *)

\* getDefaultState, for the mix effect and the output.
Default == [f \in Fields |->
  Is(CASE f \in {"program", "a", "b", "output"} -> Black
       [] f = "preview" -> Undefined
       [] f = "effect" -> "cut"
       [] f = "duration" -> 1
       [] OTHER -> FALSE, 0)]

\* Each object replaces what it names, layer by layer; one that names a layer makes an effect of it.
Applied(state, object) ==
  LET isInEffectMode == DOMAIN object.sets \cap Layered # {} IN
  [f \in Fields |-> IF f \in DOMAIN object.sets THEN Is(object.sets[f], object.priority)
                    ELSE IF f = "effectMode" /\ isInEffectMode THEN Is(TRUE, 0) ELSE state[f]]
getTriCasterStateFromTimelineState(timeline) ==
  FoldLeft(LAMBDA state, l : IF timeline[l] = Undefined THEN state ELSE Applied(state, timeline[l]), Default, LayerOrder)

\* What the switcher told of itself; nothing about transitions and effects.
getTriCasterStateFromShortcutState(s) == [f \in Fields |->
  Is(CASE f \in {"program", "a"} -> s.a
       [] f \in {"preview", "b"} -> s.b
       [] f \in {"onAir", "output"} -> s[f]
       [] f = "effectMode" -> FALSE
       [] OTHER -> Undefined, 0)]

----------------------------------------------------------------------------
(* Commands.  Each generator is asked only when its entry has a value, and *)
(* another than in the old state.                                          *)

To(to, value, entry) == [to |-> to, value |-> value, priority |-> entry.priority]
Same(old, new, f) == new[f].value \in {Undefined, old[f].value}
Plain(old, new, f) == IF Same(old, new, f) THEN <<>> ELSE <<To(f, new[f].value, new[f])>>

\* effectCommandGenerator: not for a cut, and with the speed.
EffectCommands(old, new) ==
  IF Same(old, new, "effect") \/ new["effect"].value = "cut" THEN <<>>
  ELSE <<To("effect", new["effect"].value, new["effect"]), To("speed", new["duration"].value, new["effect"])>>

\* durationCommandGenerator: unless the effect changes, too.
DurationCommands(old, new) ==
  IF Same(old, new, "duration") \/ new["effect"].value # old["effect"].value THEN <<>>
  ELSE <<To("speed", new["duration"].value, new["duration"])>>

\* The keyer: without a cut it is only told to change.
KeyerCommands(old, new) ==
  IF Same(old, new, "onAir") THEN <<>>
  ELSE <<To(IF new["effect"].value = "cut" THEN "onAir" ELSE "autoKey", new["onAir"].value, new["onAir"])>>

PreviewCommands(old, new) ==
  IF Same(old, new, "preview") \/ new["effect"].value # "cut" THEN <<>>
  ELSE <<To("b", new["preview"].value, new["preview"])>>

ProgramCommands(old, new) ==
  LET p == new["program"] IN
  CASE Same(old, new, "program") -> <<>>
    [] new["effect"].value # "cut" -> <<To("b", p.value, p), To("auto", p.value, p)>>
    [] new["effect"].value = "cut" /\ new["preview"].value = Undefined /\ ~Same(old, new, "program") ->
         <<To("b", p.value, p), To("take", p.value, p)>>
    [] OTHER -> <<To("a", p.value, p)>>

\* In an effect the layers are set, all of them when it begins.
InEffect(state) == state["effectMode"].value
LayerCommands(old, new) ==
  LET known == IF InEffect(old) THEN old ELSE [f \in Fields |-> Is(Undefined, 0)]
  IN Plain(known, new, "a") \o Plain(known, new, "b")

MixEffectCommands(old, new) ==
  EffectCommands(old, new) \o DurationCommands(old, new) \o KeyerCommands(old, new)
  \o IF InEffect(new) THEN LayerCommands(old, new) ELSE PreviewCommands(old, new) \o ProgramCommands(old, new)

\* By temporal priority; equals stay in order.
getCommandsToAchieveState(new, old) ==
  LET all == MixEffectCommands(old, new) \o Plain(old, new, "output")
      Now(c) == c.priority = 0
      Later(c) == c.priority = 1
  IN SelectSeq(all, Now) \o SelectSeq(all, Later)

----------------------------------------------------------------------------
Init ==
  /\ log = Default /\ queue = <<>> /\ asking = <<>>
  /\ switcher \in [a : Inputs, b : {Black}, onAir : BOOLEAN, output : {Black}, effect : {"cut"}, speed : {2}]
  /\ socket = "opening" /\ connected = FALSE /\ initialized = FALSE /\ fresh = FALSE
  /\ happened = [states |-> 0, closes |-> 0]

\* Before the first connection states are ignored; after it they are handled without one, too.
HandleState(timeline) ==
  /\ initialized /\ happened.states < MaxStates
  /\ MayRace \/ asking = <<>>
  /\ LET new == getTriCasterStateFromTimelineState(timeline) IN
     /\ MayReturn \/ ~(InEffect(log) /\ ~InEffect(new) /\ log["program"].value = new["program"].value)
     /\ queue' = queue \o getCommandsToAchieveState(new, log)
     /\ log' = new
  /\ fresh' = TRUE
  /\ Count("states")
  /\ UNCHANGED <<switcher, socket, asking, connected, initialized>>

\* External: what the switcher does with a command.
Obeys(s, c) ==
  CASE c.to \in {"take", "auto"} -> [s EXCEPT !.a = s.b, !.b = s.a]
    [] c.to = "autoKey" -> [s EXCEPT !.onAir = ~@]
    [] OTHER -> [s EXCEPT ![c.to] = c.value]

\* A command for a socket that is not open is an error, and is lost.
SendCommand ==
  /\ queue # <<>>
  /\ switcher' = IF socket = "open" THEN Obeys(switcher, Head(queue)) ELSE switcher
  /\ queue' = Tail(queue)
  /\ UNCHANGED <<log, socket, asking, connected, initialized, fresh, happened>>

----------------------------------------------------------------------------
(* The connection.                                                         *)

\* The timer of handleClose.
Connect ==
  /\ socket = "none" /\ socket' = "opening"
  /\ UNCHANGED <<log, queue, switcher, asking, connected, initialized, fresh, happened>>

\* handleOpen: asks for the information and for the state.
HandleOpen ==
  /\ socket = "opening" /\ socket' = "open"
  /\ asking' = Append(asking, Undefined)
  /\ UNCHANGED <<log, queue, switcher, connected, initialized, fresh, happened>>

\* External: the switcher answers with the state that it is in.
Answers(n) ==
  /\ asking[n] = Undefined
  /\ MayRace \/ queue = <<>>
  /\ asking' = [asking EXCEPT ![n] = switcher]
  /\ UNCHANGED <<log, queue, switcher, socket, connected, initialized, fresh, happened>>

\* A request fails: an error is all that comes of it, and the socket stays open.
AskingFails(n) ==
  /\ asking[n] = Undefined
  /\ asking' = RemoveAt(asking, n)
  /\ UNCHANGED <<log, queue, switcher, socket, connected, initialized, fresh, happened>>

\* As it would be if the state of the switcher was only taken at first.
TakesOnce(n) ==
  /\ asking[n] # Undefined
  /\ log' = IF initialized THEN log ELSE getTriCasterStateFromShortcutState(asking[n])
  /\ asking' = RemoveAt(asking, n)
  /\ connected' = TRUE /\ initialized' = TRUE /\ fresh' = FALSE
  /\ UNCHANGED <<queue, switcher, socket, happened>>

\* `connected', and _setInitialState.  The resolver is not reset.
Informed(n) ==
  /\ asking[n] # Undefined
  /\ log' = getTriCasterStateFromShortcutState(asking[n])
  /\ asking' = RemoveAt(asking, n)
  /\ connected' = TRUE /\ initialized' = TRUE /\ fresh' = FALSE
  /\ UNCHANGED <<queue, switcher, socket, happened>>

\* handleClose, also after an error.  Somebody may have used the switcher in the meantime.
HandleClose(input) ==
  /\ socket # "none" /\ happened.closes < MaxCloses
  /\ MayCloseAsking \/ asking = <<>>
  /\ socket' = "none" /\ connected' = FALSE
  /\ switcher' = [switcher EXCEPT !.a = input, !.onAir = ~@]
  /\ Count("closes")
  /\ UNCHANGED <<log, queue, asking, initialized, fresh>>

Next ==
  \/ \E t \in Timelines : HandleState(t)
  \/ SendCommand
  \/ Connect \/ HandleOpen
  \/ \E n \in DOMAIN asking : Answers(n) \/ AskingFails(n) \/ Informed(n)
  \/ \E i \in Inputs : HandleClose(i)

----------------------------------------------------------------------------
Rows == IF InEffect(log) THEN switcher.a = log["a"].value /\ switcher.b = log["b"].value
        ELSE switcher.a = log["program"].value

\* While there is a connection, and once the commands of a state are through, the switcher is in
\* that state: its program or the layers of its effect, its keyer, its output and its transition.
\* And what is taken for a connection is one.
SwitchesFollow ==
  /\ connected => socket = "open"
  /\ connected /\ fresh /\ queue = <<>> =>
       /\ Rows
       /\ switcher.onAir = log["onAir"].value /\ switcher.output = log["output"].value
       /\ log["effect"].value # "cut" => switcher.effect = "fade" /\ switcher.speed = log["duration"].value
=============================================================================
