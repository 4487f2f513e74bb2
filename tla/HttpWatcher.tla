----------------------------- MODULE HttpWatcher -----------------------------
(***************************************************************************)
(* integrations/httpWatcher/index.ts: a service, which is external, is     *)
(* asked again and again, whether or not it has answered the last time;    *)
(* the status is what the last answer to arrive says.  Termination, which  *)
(* stops the interval only, is left out.                                   *)
(***************************************************************************)
EXTENDS Naturals

CONSTANTS
  MaxRequests,       \* bound: requests under way
  MaxChanges         \* bound: of the service

VARIABLES
  service,           \* external: what it answers
  soon,              \* the timer of the first check
  asked,             \* requests that the service has not received
  answers,           \* by what they say: answers under way
  status,
  changes
vars == <<service, soon, asked, answers, status, changes>>

Answer == {"right", "wrong code", "no keyword", "empty", "error"}

HttpWatcherAssumption == {MaxRequests, MaxChanges} \subseteq Nat \ {0}

TypeOK ==
  /\ service \in Answer /\ soon \in BOOLEAN
  /\ asked \in 0 .. MaxRequests /\ answers \in [Answer -> 0 .. MaxRequests]
  /\ status \in {"UNKNOWN", "GOOD", "BAD"} /\ changes \in 0 .. MaxChanges

\* startInterval
Init ==
  /\ service \in Answer
  /\ soon = TRUE
  /\ asked = 0 /\ answers = [a \in Answer |-> 0] /\ status = "UNKNOWN" /\ changes = 0

----------------------------------------------------------------------------
\* External: there is room for another request, the oldest are answered within some intervals.
Room ==
  asked + answers["right"] + answers["wrong code"] + answers["no keyword"] + answers["empty"] + answers["error"]
    < MaxRequests

\* onInterval: by the timer of the first check, 300 ms after init, ...
FirstCheck ==
  /\ soon /\ Room /\ soon' = FALSE /\ asked' = asked + 1
  /\ UNCHANGED <<service, answers, status, changes>>

\* ... and by the interval.
Check ==
  /\ Room /\ asked' = asked + 1
  /\ UNCHANGED <<service, soon, answers, status, changes>>

\* As it would be if the keyword was not looked for.
VerdictByCode(answer) == IF answer \in {"right", "empty", "no keyword"} THEN "GOOD" ELSE "BAD"

\* handleResponse, and the catch of an error: in an empty body no keyword is looked for.
Verdict(answer) == IF answer \in {"right", "empty"} THEN "GOOD" ELSE "BAD"

\* An answer, of whichever request, sets the status.
Answered(answer) ==
  /\ answers[answer] > 0
  /\ answers' = [answers EXCEPT ![answer] = @ - 1]
  /\ status' = Verdict(answer)
  /\ UNCHANGED <<service, soon, asked, changes>>

\* External: the service answers as it is when it is asked.
Receives ==
  /\ asked > 0 /\ asked' = asked - 1
  /\ answers' = [answers EXCEPT ![service] = @ + 1]
  /\ UNCHANGED <<service, soon, status, changes>>

Changes(answer) ==
  /\ changes < MaxChanges /\ answer # service
  /\ service' = answer /\ changes' = changes + 1
  /\ UNCHANGED <<soon, asked, answers, status>>

Next ==
  \/ FirstCheck \/ Check \/ Receives
  \/ \E a \in Answer : Answered(a) \/ Changes(a)

Checks == FirstCheck \/ Check

----------------------------------------------------------------------------
\* The status tells whether the service is as it should be, or answers at least with the right code
\* and nothing else.
Tells == (status = "GOOD") <=> (service \in {"right", "empty"})
=============================================================================
