------------------------------ MODULE HttpSend ------------------------------
(***************************************************************************)
(* integrations/httpSend with the sequential execution of the state        *)
(* handler: one request after the other for a state, nobody waits for the  *)
(* last, and a request that fails is sent again later if it is still       *)
(* relevant.  Content is what is posted for a layer; `server' is external: *)
(* what it last received for each layer.                                   *)
(***************************************************************************)
EXTENDS Integers, Sequences, FiniteSets, SequencesExt, Functions

CONSTANTS
  Layers, Contents,
  MaxStates,       \* bound: states executed
  MaxFailures,     \* bound: requests that fail
  MayOverlap,      \* a state is executed before the last one's commands are through
  MayReorder       \* the server receives requests in another order than sent

HttpSendAssumption ==
  /\ MaxStates \in Nat /\ MaxFailures \in Nat
  /\ MayOverlap \in BOOLEAN /\ MayReorder \in BOOLEAN

VARIABLES
  currentState,    \* the layers of the state executed last
  runs,            \* for every state executed, the commands not yet sent
  requests,        \* requests under way, in the order they were sent
  retries,         \* commands whose timeout of resendTime is pending
  trackedState,    \* trackedState: layer -> content
  terminated,      \* _terminated
  server,
  failures         \* how many requests have failed

vars == <<currentState, runs, requests, retries, trackedState, terminated, server, failures>>

State == UNION {[L -> Contents] : L \in SUBSET Layers}
Command == [name : {"added", "changed", "removed", "retry"}, layer : Layers, content : Contents]
\* `run' is the state whose execution waits for the answer, or 0 for a retry.
Request == [command : Command, run : 0 .. MaxStates, received : BOOLEAN]

TypeOK ==
  /\ currentState \in State
  /\ runs \in Seq(Seq(Command)) /\ Len(runs) <= MaxStates
  /\ requests \in Seq(Request)
  /\ retries \in Seq(Command)
  /\ trackedState \in State
  /\ terminated \in BOOLEAN
  /\ server \in State
  /\ failures \in 0 .. MaxFailures

Init ==
  /\ currentState = <<>>
  /\ runs = <<>>
  /\ requests = <<>>
  /\ retries = <<>>
  /\ trackedState = <<>>
  /\ terminated = FALSE
  /\ server = <<>>
  /\ failures = 0

----------------------------------------------------------------------------
(* The commands from one state to the next; the order is the layers' or    *)
(* their temporalPriority's, here any order that they can give.            *)
Commands(old, new) ==
  {[name |-> IF l \in DOMAIN old THEN "changed" ELSE "added", layer |-> l, content |-> new[l]] :
     l \in {m \in DOMAIN new : m \in DOMAIN old => old[m] # new[m]}}
  \cup {[name |-> "removed", layer |-> l, content |-> old[l]] : l \in DOMAIN old \ DOMAIN new}

diffStates(old, new) == SetToSeqs(Commands(old, new))

Through(n) == runs[n] = <<>> /\ \A r \in ToSet(requests) : r.run # n

\* executeNextStateChange: the commands are executed one by one from here on.
executeNextStateChange ==
  /\ Len(runs) < MaxStates /\ ~terminated
  /\ MayOverlap \/ \A n \in DOMAIN runs : Through(n)
  /\ \E new \in State \ {currentState} :
       /\ \E commands \in diffStates(currentState, new) : runs' = Append(runs, commands)
       /\ currentState' = new
  /\ UNCHANGED <<requests, retries, trackedState, terminated, server, failures>>

----------------------------------------------------------------------------
Without(f, l) == Restrict(f, DOMAIN f \ {l})
With(f, l, c) == [m \in DOMAIN f \cup {l} |-> IF m = l THEN c ELSE f[m]]

Tracked(command) ==
  CASE command.name \in {"added", "changed"} -> With(trackedState, command.layer, command.content)
    [] command.name = "removed" -> Without(trackedState, command.layer)
    [] OTHER -> trackedState

\* A command whose content is no longer what the layer has is not sent.
IsRelevantAlways(command, tracked) == TRUE
IsRelevant(command, tracked) ==
  command.layer \in DOMAIN tracked /\ tracked[command.layer] = command.content

sendCommand(command, run) ==
  /\ trackedState' = Tracked(command)
  /\ requests' = IF IsRelevant(command, Tracked(command)) /\ ~terminated
                 THEN Append(requests, [command |-> command, run |-> run, received |-> FALSE])
                 ELSE requests

\* execAll goes on when the answer to the command before has come.
SendNext(n) ==
  /\ runs[n] # <<>>
  /\ \A r \in ToSet(requests) : r.run # n
  /\ sendCommand(Head(runs[n]), n)
  /\ runs' = [runs EXCEPT ![n] = Tail(@)]
  /\ UNCHANGED <<currentState, retries, terminated, server, failures>>

Retry(k) ==
  /\ sendCommand(retries[k], 0)
  /\ retries' = RemoveAt(retries, k)
  /\ UNCHANGED <<currentState, runs, terminated, server, failures>>

----------------------------------------------------------------------------
InTurn(k) ==
  MayReorder \/ \A j \in 1 .. k - 1 : requests[j].received
                                     \/ requests[j].command.layer # requests[k].command.layer

Receive(k) ==
  /\ ~requests[k].received
  /\ InTurn(k)
  /\ requests' = [requests EXCEPT ![k].received = TRUE]
  /\ server' = With(server, requests[k].command.layer, requests[k].command.content)
  /\ UNCHANGED <<currentState, runs, retries, trackedState, terminated, failures>>

Answer(k) ==
  /\ requests[k].received
  /\ requests' = RemoveAt(requests, k)
  /\ UNCHANGED <<currentState, runs, retries, trackedState, terminated, server, failures>>

(* An error of the connection, before or after the server received it: the *)
(* command is sent again after resendTime.                                 *)
RetriedNever(command) == retries
Retried(command) == Append(retries, [command EXCEPT !.name = "retry"])

Fail(k) ==
  /\ failures < MaxFailures
  /\ requests' = RemoveAt(requests, k)
  /\ retries' = Retried(requests[k].command)
  /\ failures' = failures + 1
  /\ UNCHANGED <<currentState, runs, trackedState, terminated, server>>

\* The handler goes first; what it has begun goes on.
terminate ==
  /\ ~terminated
  /\ terminated' = TRUE
  /\ trackedState' = <<>>
  /\ UNCHANGED <<currentState, runs, requests, retries, server, failures>>

Next ==
  \/ executeNextStateChange
  \/ \E n \in DOMAIN runs : SendNext(n)
  \/ \E k \in DOMAIN retries : Retry(k)
  \/ \E k \in DOMAIN requests : Receive(k) \/ Answer(k) \/ Fail(k)
  \/ terminate

Spec == Init /\ [][Next]_vars

(* What makes progress: promises, timeouts, and a server that answers all  *)
(* requests but finitely many.                                             *)
Progress ==
  \/ \E n \in DOMAIN runs : SendNext(n)
  \/ \E k \in DOMAIN retries : Retry(k)
  \/ \E k \in DOMAIN requests : Receive(k) \/ Answer(k)
FairSpec == Spec /\ WF_vars(Progress)

----------------------------------------------------------------------------
(* However requests fail and are sent again: a retry brings back nothing   *)
(* older ("command is no longer relevant to state", index.ts:182), and in  *)
(* the end the server has for every layer of the state what the state has, *)
(* unless the device was terminated.                                       *)
Posted == terminated \/ \A l \in DOMAIN currentState : l \in DOMAIN server /\ server[l] = currentState[l]
ServerFollows == <>[]Posted
=============================================================================
