------------------------------ MODULE Quantel ------------------------------
(***************************************************************************)
(* integrations/quantel: the commands a new state makes for each port      *)
(* (index.ts) and how QuantelManager carries them out (connection.ts).     *)
(* The commands of a port are executed one after the other; a clip that is *)
(* not found is loaded again by a timer, beside them.  An action is what   *)
(* happens between two awaits, with the answer of the gateway.             *)
(*                                                                         *)
(* Every clip has CLIP_LENGTH frames and is played from its beginning.     *)
(* `gateway' is external.  Waits take time and change nothing (nobody can  *)
(* abort one: clearAllWaitWithPort only looks when there is none).  Calls  *)
(* fail where it matters: releasePort, and the search for a clip.          *)
(***************************************************************************)
EXTENDS Integers, Sequences, SequencesExt, Functions

CONSTANTS
  Ports, Channels, Clips,
  Mode,                \* of each port: "quality" or "speed"
  FoundLater,          \* clips that the server may lack at first
  CLIP_LENGTH, JUMP_ERROR_MARGIN,
  MaxStates,           \* bound: states handed over
  AheadOfMissing,      \* clips are preloaded also while another is missing
  ReleaseErrors,       \* how the gateway may answer releasePort: "error", or "404" where it
                       \* has lost the port
  MayRemap,            \* a port that is in use may get another channel
  MayRace              \* a retry runs beside the commands of its port, and
                       \* a clip may be found between its load and its play

ASSUME QuantelAssumption ==
  /\ Mode \in [Ports -> {"quality", "speed"}]
  /\ FoundLater \subseteq Clips
  /\ CLIP_LENGTH \in Nat \ {0} /\ JUMP_ERROR_MARGIN \in Nat
  /\ MaxStates \in Nat
  /\ AheadOfMissing \in BOOLEAN /\ ReleaseErrors \subseteq {"error", "404"}
  /\ MayRemap \in BOOLEAN /\ MayRace \in BOOLEAN

VARIABLES
  state,           \* the state handed over last: what the mapped ports show
  handed,          \* how many there were
  queue,           \* commands that a port still has to execute
  threads,         \* what the queue and the retry of a port are doing
  tracked,         \* _quantelState.port
  releasing,       \* waitingForReleaseChannel: the port whose release is awaited, or None
                   \* where the promise was rejected
  retryTimeout,    \* _retryLoadFragmentsTimeout: what will be loaded
  failedAction,    \* _failedAction
  missing,         \* clips that the server does not have
  gateway          \* the ports of the gateway

quantelVars ==
  <<state, handed, queue, threads, tracked, releasing, retryTimeout, failedAction, missing, gateway>>

None == "none"
Nil == -2          \* an offset that is null
Partial(S, T) == UNION {[D -> T] : D \in SUBSET S}
Without(f, x) == Restrict(f, DOMAIN f \ {x})
With(f, x, y) == [z \in DOMAIN f \cup {x} |-> IF z = x THEN y ELSE f[z]]

PortState == [channel : Channels, clip : Clips \cup {None}, playing : BOOLEAN,
              lookahead : Clips \cup {None}]
Command == [type : {"setup", "release", "load", "play", "pause", "clear"},
            channel : Channels \cup {None}, clip : Clips \cup {None}, prepare : BOOLEAN]
NoCommand == [type |-> "clear", channel |-> None, clip |-> None, prepare |-> FALSE]
Idle == [step |-> "idle", command |-> NoCommand, waitsFor |-> None]
Steps == {"idle", "wait", "create", "released", "load", "limit", "prepare", "find", "soft", "stop",
          "trigger", "hard", "play", "schedule"}
Offset == {Nil} \cup (-1 .. CLIP_LENGTH * MaxStates * 2)

QuantelTypeOK ==
  /\ state \in Partial(Ports, PortState)
  /\ handed \in 0 .. MaxStates
  /\ queue \in [Ports -> Seq(Command)]
  /\ threads \in [Ports \X {"queue", "retry"} ->
                   [step : Steps, command : Command, waitsFor : Ports \cup {None}]]
  /\ \A p \in DOMAIN tracked :
       /\ tracked[p].channel \in Channels
       /\ tracked[p].loaded \in Partial(Clips, Offset \ {Nil, -1})
       /\ {tracked[p].offset, tracked[p].jumpOffset, tracked[p].scheduledStop} \subseteq Offset
       /\ tracked[p].playing \in BOOLEAN
  /\ releasing \in Partial(Channels, Ports \cup {None})
  /\ retryTimeout \in Partial(Ports, Command) /\ failedAction \in Partial(Ports, Command)
  /\ missing \subseteq FoundLater
  /\ \A p \in DOMAIN gateway :
       /\ gateway[p].channel \in Channels /\ gateway[p].clips \in Seq(Clips)
       /\ gateway[p].at \in Offset \ {Nil, -1} /\ {gateway[p].prepared, gateway[p].stop} \subseteq Offset
       /\ gateway[p].playing \in BOOLEAN

QuantelInit ==
  /\ state = <<>>
  /\ handed = 0
  /\ queue = [p \in Ports |-> <<>>]
  /\ threads = [t \in Ports \X {"queue", "retry"} |-> Idle]
  /\ tracked = <<>>
  /\ releasing = <<>>
  /\ retryTimeout = <<>> /\ failedAction = <<>>
  /\ missing \in SUBSET FoundLater
  /\ gateway = <<>>

FreshPort(channel) ==
  [channel |-> channel, loaded |-> <<>>, offset |-> -1, playing |-> FALSE,
   jumpOffset |-> Nil, scheduledStop |-> Nil]
EmptyPort(channel) ==
  [channel |-> channel, clips |-> <<>>, at |-> 0, playing |-> FALSE, prepared |-> Nil, stop |-> Nil]

----------------------------------------------------------------------------
(* _diffStates for one port.  A preload goes to the queue with the other   *)
(* preparations, which is behind the play when there is no time to prepare.*)
(* `again': another object shows the same clip.                            *)
If(condition, command) == IF condition THEN <<command>> ELSE <<>>

_diffStates(p, new, again) ==
  LET n == new[p]
      added == p \notin DOMAIN state
      changed == \/ added \/ (again /\ n.clip # None)
                 \/ <<n.clip, n.playing>> # <<state[p].clip, state[p].playing>>
      moved == added \/ n.channel # state[p].channel
      ahead == (added \/ n.lookahead # state[p].lookahead) /\ n.lookahead \notin {None, n.clip}
      load(clip, prepare) == [type |-> "load", channel |-> None, clip |-> clip, prepare |-> prepare]
      setup == If(moved, [NoCommand EXCEPT !.type = "setup", !.channel = n.channel])
      preload == If(ahead, load(n.lookahead, FALSE))
      show == If(changed, [NoCommand EXCEPT
                !.type = IF n.clip = None THEN "clear" ELSE IF n.playing THEN "play" ELSE "pause",
                !.clip = n.clip])
      before == setup \o If(changed /\ n.clip # None, load(n.clip, TRUE))
  IN IF p \notin DOMAIN new
     THEN {If(~added, [NoCommand EXCEPT !.type = "release"])}
     ELSE {before \o preload \o show, before \o show \o preload}

LegalState(p, n) ==
  /\ n.playing => n.clip # None
  \* alone, what is looked ahead for is the clip of the port, paused
  /\ n.clip = None => n.lookahead = None
  /\ p \in DOMAIN state => MayRemap \/ n.channel = state[p].channel
  /\ n.lookahead # None => AheadOfMissing \/ (missing = {} /\ retryTimeout = <<>>)

handleState ==
  \E new \in Partial(Ports, PortState), again \in BOOLEAN :
    /\ handed < MaxStates
    /\ \A p \in DOMAIN new : LegalState(p, new[p])
    /\ \E commands \in [Ports -> UNION {_diffStates(p, new, again) : p \in Ports}] :
         /\ \A p \in Ports : commands[p] \in _diffStates(p, new, again)
         /\ queue' = [p \in Ports |-> queue[p] \o commands[p]]
    /\ state' = new
    /\ handed' = handed + 1
    /\ UNCHANGED <<threads, tracked, releasing, retryTimeout, failedAction, missing, gateway>>

----------------------------------------------------------------------------
Own(p) == <<p, "queue">>
Doing(step, command) == [step |-> step, command |-> command, waitsFor |-> None]
Runs(t, step, command) == threads' = [threads EXCEPT ![t] = Doing(step, command)]
Goes(t, step) == threads' = [threads EXCEPT ![t].step = step]
Ends(t) == threads' = [threads EXCEPT ![t] = Idle]
At(t, step) == threads[t].step = step
Clip(t) == threads[t].command.clip

\* The first command of a port, when nothing keeps it from being executed.
IsNext(p, types) ==
  /\ threads[Own(p)] = Idle
  /\ queue[p] # <<>> /\ Head(queue[p]).type \in types
  /\ MayRace \/ threads[<<p, "retry">>] = Idle
Take(p) == queue' = [queue EXCEPT ![p] = Tail(@)]

\* The command of the port awaits the release of q.
Awaits(p, q) ==
  threads' = [threads EXCEPT ![Own(p)] =
                [step |-> "wait", command |-> Head(queue[p]), waitsFor |-> q]]
Awaiting(q) == {p \in Ports : At(Own(p), "wait") /\ threads[Own(p)].waitsFor = q}

\* releasePort, to the question to the gateway or the wait for another release of the channel.
releasePort(p) ==
  /\ IsNext(p, {"release"})
  /\ Take(p)
  /\ IF p \notin DOMAIN tracked
     THEN UNCHANGED <<releasing, threads>>
     ELSE LET ch == tracked[p].channel IN
          IF ch \notin DOMAIN releasing
          THEN releasing' = With(releasing, ch, p) /\ Runs(Own(p), "released", Head(queue[p]))
          ELSE /\ UNCHANGED releasing
               /\ IF releasing[ch] = None THEN UNCHANGED threads ELSE Awaits(p, releasing[ch])
  /\ UNCHANGED <<state, handed, tracked, retryTimeout, failedAction, missing, gateway>>

LeftLocked(channel) == releasing
Unlocked(channel) == Without(releasing, channel)

(* The gateway has answered.  All that awaited this release go on at once, *)
(* and look no second time: of several releases the last one is noted.     *)
Released(p) ==
  LET ch == tracked[p].channel
      woken == Awaiting(p)
      releases == {q \in woken : threads[Own(q)].command.type = "release"}
      next(q) == Doing(IF q \in releases THEN "released" ELSE "create", threads[Own(q)].command)
  IN /\ At(Own(p), "released")
     /\ threads' = [t \in DOMAIN threads |->
                      IF t = Own(p) THEN Idle
                      ELSE IF t[2] = "queue" /\ t[1] \in woken THEN next(t[1]) ELSE threads[t]]
     /\ gateway' = Restrict(gateway, DOMAIN gateway \ ({p} \cup (woken \ releases)))
     /\ tracked' = Without(tracked, p)
     /\ IF releases = {} THEN releasing' = Unlocked(ch)
        ELSE \E q \in releases : releasing' = With(Unlocked(ch), ch, q)
     /\ UNCHANGED <<state, handed, queue, retryTimeout, failedAction, missing>>

(* The gateway answers with an error.  p.catch() catches nothing: the      *)
(* promise is rejected, for those that await it too, and stays.  That is   *)
(* so also after a 404, with which the port counts as released.            *)
Left(f, p, answer) == IF answer = "404" THEN Without(f, p) ELSE f

ReleaseFails(p) ==
  LET ch == tracked[p].channel
      rejected(t) == t = Own(p) \/ (t[2] = "queue" /\ t[1] \in Awaiting(p))
  IN \E answer \in ReleaseErrors :
       /\ At(Own(p), "released")
       /\ threads' = [t \in DOMAIN threads |-> IF rejected(t) THEN Idle ELSE threads[t]]
       /\ releasing' = IF ch \in DOMAIN releasing /\ releasing[ch] = p
                      THEN With(releasing, ch, None) ELSE releasing
       /\ tracked' = Left(tracked, p, answer) /\ gateway' = Left(gateway, p, answer)
       /\ UNCHANGED <<state, handed, queue, retryTimeout, failedAction, missing>>

(* setupPort, to the wait for a release of the channel or past it; what    *)
(* the gateway has of the port goes first.  Releases begin before setups.  *)
setupPort(p) ==
  /\ IsNext(p, {"setup"})
  /\ \A q \in Ports : ~IsNext(q, {"release"})
  /\ Take(p)
  /\ LET command == Head(queue[p]) ch == command.channel IN
     IF p \in DOMAIN tracked /\ tracked[p].channel = ch
     THEN UNCHANGED <<threads, gateway>>
     ELSE IF ch \notin DOMAIN releasing
     THEN Runs(Own(p), "create", command) /\ gateway' = Without(gateway, p)
     ELSE /\ UNCHANGED gateway
          /\ IF releasing[ch] = None THEN UNCHANGED threads ELSE Awaits(p, releasing[ch])
  /\ UNCHANGED <<state, handed, tracked, releasing, retryTimeout, failedAction, missing>>

Created(p) ==
  /\ At(Own(p), "create")
  /\ LET ch == threads[Own(p)].command.channel
     IN gateway' = With(gateway, p, EmptyPort(ch)) /\ tracked' = With(tracked, p, FreshPort(ch))
  /\ Ends(Own(p))
  /\ UNCHANGED <<state, handed, queue, releasing, retryTimeout, failedAction, missing>>

clearClip(p) ==
  /\ IsNext(p, {"clear"})
  /\ Take(p)
  /\ IF p \in DOMAIN tracked
     THEN /\ gateway' = With(gateway, p, EmptyPort(gateway[p].channel))
          /\ tracked' = With(tracked, p, FreshPort(tracked[p].channel))
     ELSE UNCHANGED <<gateway, tracked>>
  /\ UNCHANGED <<state, handed, threads, releasing, retryTimeout, failedAction, missing>>

----------------------------------------------------------------------------
\* tryLoadClipFragments, from the queue ...
tryLoadClipFragments(p) ==
  /\ IsNext(p, {"load"})
  /\ Take(p)
  /\ Runs(Own(p), "load", Head(queue[p]))
  /\ retryTimeout' = Without(retryTimeout, p)
  /\ UNCHANGED <<state, handed, tracked, releasing, failedAction, missing, gateway>>

\* ... and again, ten seconds after the clip was not found.
RetryLoad(p) ==
  /\ p \in DOMAIN retryTimeout
  /\ threads[<<p, "retry">>] = Idle
  /\ MayRace \/ threads[Own(p)] = Idle
  /\ Runs(<<p, "retry">>, "load", retryTimeout[p])
  /\ retryTimeout' = Without(retryTimeout, p)
  /\ UNCHANGED <<state, handed, queue, tracked, releasing, failedAction, missing, gateway>>

(* Its fragments are loaded: a retry goes on with the action that failed.  *)
Loaded(t) ==
  IF t[2] = "retry" /\ t[1] \in DOMAIN failedAction
  THEN Runs(t, "find", failedAction[t[1]]) /\ failedAction' = Without(failedAction, t[1])
  ELSE Ends(t) /\ UNCHANGED failedAction

Position(p, clip) ==
  IF clip \in DOMAIN tracked[p].loaded THEN tracked[p].loaded[clip]
  ELSE Len(gateway[p].clips) * CLIP_LENGTH

loadClipFragments(t) ==
  LET p == t[1] clip == Clip(t) IN
  /\ At(t, "load")
  /\ IF p \notin DOMAIN tracked
     THEN Ends(t) /\ UNCHANGED <<tracked, gateway, retryTimeout, failedAction>>
     ELSE IF clip \in missing
     THEN /\ retryTimeout' = With(retryTimeout, p, threads[t].command)
          /\ Ends(t)
          /\ UNCHANGED <<tracked, gateway, failedAction>>
     ELSE LET pos == Position(p, clip) IN
          /\ IF clip \in DOMAIN tracked[p].loaded
             THEN UNCHANGED <<gateway, tracked>>
             ELSE /\ gateway' = [gateway EXCEPT ![p].clips = Append(@, clip)]
                  /\ tracked' = [tracked EXCEPT ![p].loaded = With(@, clip, pos)]
          /\ \/ Loaded(t)     \* no jump to prepare, or no time
             \/ /\ threads[t].command.prepare
                /\ Goes(t, IF pos > 0 /\ tracked[p].scheduledStop = Nil THEN "limit" ELSE "prepare")
                /\ UNCHANGED failedAction
          /\ UNCHANGED retryTimeout
  /\ UNCHANGED <<state, handed, queue, releasing, missing>>

\* What plays is stopped before the clip that was added.
Limit(t) ==
  LET p == t[1] stop == tracked[p].loaded[Clip(t)] - 1 IN
  /\ At(t, "limit")
  /\ gateway' = [gateway EXCEPT ![p].stop = stop]
  /\ tracked' = [tracked EXCEPT ![p].scheduledStop = stop]
  /\ Goes(t, "prepare")
  /\ UNCHANGED <<state, handed, queue, releasing, retryTimeout, failedAction, missing>>

PrepareJump(p, offset) ==
  /\ gateway' = [gateway EXCEPT ![p].prepared = offset]
  /\ tracked' = [tracked EXCEPT ![p].jumpOffset = offset]

Prepare(t) ==
  /\ At(t, "prepare")
  /\ PrepareJump(t[1], tracked[t[1]].loaded[Clip(t)])
  /\ Loaded(t)
  /\ UNCHANGED <<state, handed, queue, releasing, retryTimeout, missing>>

----------------------------------------------------------------------------
\* playClip and pauseClip: tryPrepareClipJump.
tryPrepareClipJump(p) ==
  /\ IsNext(p, {"play", "pause"})
  /\ Take(p)
  /\ Runs(Own(p), "find", Head(queue[p]))
  /\ failedAction' = Without(failedAction, p)
  /\ UNCHANGED <<state, handed, tracked, releasing, retryTimeout, missing, gateway>>

IsThere(tp, type, pos) ==
  /\ tp.playing = FALSE
  /\ \/ pos = tp.offset
     \/ type = "play" /\ pos > tp.offset /\ pos - tp.offset < JUMP_ERROR_MARGIN

StillPreparedAlways(tp, pos) == TRUE
StillPreparedFor(tp, pos) == tp.jumpOffset # Nil
StillPrepared(tp, pos) ==
  /\ tp.jumpOffset # Nil
  /\ tp.jumpOffset - pos <= JUMP_ERROR_MARGIN /\ pos - tp.jumpOffset <= JUMP_ERROR_MARGIN

\* Where the playhead is in place, a play goes on and a pause is over.
InPlace(t, playing) ==
  CASE threads[t].command.type = "play" -> Goes(t, "play")
    [] playing -> Goes(t, "hard")
    [] OTHER -> Ends(t)

prepareClipJump(t) ==
  LET p == t[1] clip == Clip(t) type == threads[t].command.type IN
  /\ At(t, "find")
  /\ IF p \notin DOMAIN tracked \/ clip \in missing \/ clip \notin DOMAIN tracked[p].loaded
     THEN /\ failedAction' = IF clip \in missing /\ t[2] = "queue" /\ p \in DOMAIN tracked \cap DOMAIN retryTimeout
                             THEN With(failedAction, p, threads[t].command) ELSE failedAction
          /\ Ends(t)
          /\ UNCHANGED tracked
     ELSE LET tp == tracked[p] pos == tp.loaded[clip] IN
          /\ tracked' = [tracked EXCEPT ![p].jumpOffset =
                           IF IsThere(tp, type, pos) \/ StillPrepared(tp, pos) THEN @ ELSE Nil]
          /\ CASE IsThere(tp, type, pos) -> InPlace(t, tp.playing)
               [] StillPrepared(tp, pos) -> Goes(t, IF type = "pause" THEN "stop" ELSE "trigger")
               [] OTHER -> Goes(t, IF Mode[p] = "quality" THEN "soft" ELSE "hard")
          /\ UNCHANGED failedAction
  /\ UNCHANGED <<state, handed, queue, releasing, retryTimeout, missing, gateway>>

SoftJump(t) ==
  /\ At(t, "soft")
  /\ PrepareJump(t[1], tracked[t[1]].loaded[Clip(t)])
  /\ Goes(t, IF threads[t].command.type = "pause" THEN "stop" ELSE "trigger")
  /\ UNCHANGED <<state, handed, queue, releasing, retryTimeout, failedAction, missing>>

StopNow(t) ==
  /\ At(t, "stop")
  /\ gateway' = [gateway EXCEPT ![t[1]].playing = FALSE, ![t[1]].stop = Nil]
  /\ tracked' = [tracked EXCEPT ![t[1]].playing = FALSE, ![t[1]].scheduledStop = Nil]
  /\ Goes(t, "trigger")
  /\ UNCHANGED <<state, handed, queue, releasing, retryTimeout, failedAction, missing>>

TriggerJump(t) ==
  LET p == t[1] IN
  /\ At(t, "trigger")
  /\ gateway' = [gateway EXCEPT ![p].at = gateway[p].prepared, ![p].prepared = Nil]
  /\ tracked' = [tracked EXCEPT ![p].offset = tracked[p].jumpOffset, ![p].jumpOffset = Nil]
  /\ InPlace(t, tracked[p].playing)
  /\ UNCHANGED <<state, handed, queue, releasing, retryTimeout, failedAction, missing>>

HardJump(t) ==
  LET p == t[1] pos == tracked[p].loaded[Clip(t)] IN
  /\ At(t, "hard")
  /\ gateway' = [gateway EXCEPT ![p].at = pos, ![p].playing = FALSE]
  /\ tracked' = [tracked EXCEPT ![p].offset = pos, ![p].playing = FALSE]
  /\ InPlace(t, FALSE)
  /\ UNCHANGED <<state, handed, queue, releasing, retryTimeout, failedAction, missing>>

Play(t) ==
  /\ At(t, "play")
  /\ gateway' = [gateway EXCEPT ![t[1]].playing = TRUE]
  /\ tracked' = [tracked EXCEPT ![t[1]].playing = TRUE, ![t[1]].scheduledStop = Nil,
                                ![t[1]].jumpOffset = Nil]
  /\ Goes(t, "schedule")
  /\ UNCHANGED <<state, handed, queue, releasing, retryTimeout, failedAction, missing>>

\* The port is to stop at the last frame of the clip.
ScheduleStop(t) ==
  LET p == t[1] stop == tracked[p].loaded[Clip(t)] + CLIP_LENGTH - 1 IN
  /\ At(t, "schedule")
  /\ gateway' = [gateway EXCEPT ![p].stop = stop]
  /\ tracked' = [tracked EXCEPT ![p].scheduledStop = stop]
  /\ Ends(t)
  /\ UNCHANGED <<state, handed, queue, releasing, retryTimeout, failedAction, missing>>

----------------------------------------------------------------------------
(* The gateway plays to the stop (a clip is longer than what a command     *)
(* takes), and a clip arrives on the server.                               *)
ReachStop(p) ==
  /\ p \in DOMAIN gateway
  /\ threads[Own(p)] = Idle /\ threads[<<p, "retry">>] = Idle
  /\ gateway[p].playing /\ gateway[p].stop >= gateway[p].at
  /\ gateway' = [gateway EXCEPT ![p].at = gateway[p].stop, ![p].playing = FALSE]
  /\ UNCHANGED <<state, handed, queue, threads, tracked, releasing, retryTimeout,
                 failedAction, missing>>

ClipArrives(clip) ==
  /\ clip \in missing
  /\ MayRace \/ \A p \in Ports : queue[p] = <<>> /\ threads[Own(p)] = Idle
  /\ missing' = missing \ {clip}
  /\ UNCHANGED <<state, handed, queue, threads, tracked, releasing, retryTimeout,
                 failedAction, gateway>>

QuantelNext ==
  \/ handleState
  \/ \E p \in Ports :
       \/ releasePort(p) \/ Released(p) \/ ReleaseFails(p)
       \/ setupPort(p) \/ Created(p) \/ clearClip(p)
       \/ tryLoadClipFragments(p) \/ RetryLoad(p) \/ tryPrepareClipJump(p)
       \/ ReachStop(p)
  \/ \E t \in DOMAIN threads :
       \/ loadClipFragments(t) \/ Limit(t) \/ Prepare(t)
       \/ prepareClipJump(t) \/ SoftJump(t) \/ StopNow(t) \/ TriggerJump(t) \/ HardJump(t)
       \/ Play(t) \/ ScheduleStop(t)
  \/ \E clip \in FoundLater : ClipArrives(clip)

QuantelSpec == QuantelInit /\ [][QuantelNext]_quantelVars

----------------------------------------------------------------------------
Settled(p) ==
  /\ queue[p] = <<>> /\ p \notin DOMAIN retryTimeout
  /\ threads[Own(p)] = Idle /\ threads[<<p, "retry">>] = Idle

(* What a port shows once its commands are through: the clip of the state, *)
(* from its beginning, or stopped on its last frame; and it never runs on  *)
(* into the next clip of the port.                                         *)
Shows(port, clip, playing) ==
  LET n == port.at \div CLIP_LENGTH + 1 frame == port.at % CLIP_LENGTH IN
  /\ n \in DOMAIN port.clips /\ port.clips[n] = clip
  /\ IF playing THEN frame = CLIP_LENGTH - 1 \/ (port.playing /\ frame = 0)
     ELSE ~port.playing /\ frame = 0

ShowsTheClip ==
  \A p \in DOMAIN state :
    Settled(p) /\ state[p].clip # None =>
      /\ p \in DOMAIN gateway /\ gateway[p].channel = state[p].channel
      /\ Shows(gateway[p], state[p].clip, state[p].playing)

(* While there is a promise that others would wait for, a release of the   *)
(* channel is under way, and so is the release that anybody waits for:     *)
(* "a promise for others to wait on, that will never reject"               *)
(* (connection.ts:112).                                                    *)
NobodyWaitsInVain ==
  /\ \A c \in DOMAIN releasing :
       \E p \in Ports : At(Own(p), "released") /\ tracked[p].channel = c
  /\ \A p, q \in Ports : p \in Awaiting(q) => At(Own(q), "released")
=============================================================================
