-------------------------- MODULE SisyfosConnection --------------------------
(***************************************************************************)
(* integrations/sisyfos/connection.ts: whether Sisyfos, which is external, *)
(* and its mixer are there is found out by pings, over UDP.  Of the number *)
(* of a ping all that counts is whether it is the present _pingCounter.    *)
(***************************************************************************)
EXTENDS Naturals

CONSTANTS
  MaxPackets,        \* bound: pings and pongs under way
  MaxChanges, MaxLosses, MaxLate,   \* bounds: of Sisyfos, packets lost, answers later than the timeout
  MayBeZero          \* the counter starts with 0: no answer to it is ever taken

VARIABLES
  sisyfos,           \* external: "up", "offline" (the mixer is not there) or "down"
  pings, pongs,      \* under way, by kind
  timer,             \* _connectivityTimeout, and the kind of its number
  isZero,            \* _pingCounter is 0
  connected, mixerOnline,
  happened
vars == <<sisyfos, pings, pongs, timer, isZero, connected, mixerOnline, happened>>

Kinds == {"present", "past"}     \* of numbers
Pongs == Kinds \cup {"offline"}

SisyfosConnectionAssumption ==
  /\ {MaxPackets, MaxChanges, MaxLosses, MaxLate} \subseteq Nat /\ MayBeZero \in BOOLEAN

Counts(kinds) == [kinds -> 0 .. MaxPackets]
TypeOK ==
  /\ sisyfos \in {"up", "offline", "down"}
  /\ pings \in Counts(Kinds) /\ pongs \in Counts(Pongs)
  /\ timer \in Kinds \cup {"none"}
  /\ {isZero, connected, mixerOnline} \subseteq BOOLEAN

Count(what) == happened' = [happened EXCEPT ![what] = @ + 1]
UnderWay == pings["present"] + pings["past"] + pongs["present"] + pongs["past"] + pongs["offline"]

Init ==
  /\ sisyfos \in {"up", "offline", "down"}
  /\ pings = [k \in Kinds |-> 0] /\ pongs = [k \in Pongs |-> 0] /\ timer = "none"
  /\ isZero \in {FALSE, MayBeZero} /\ connected = FALSE /\ mixerOnline = TRUE
  /\ happened = [changes |-> 0, losses |-> 0, late |-> 0]

----------------------------------------------------------------------------
\* The interval is longer than the timeout of the last ping.
pingSisyfos ==
  /\ timer = "none" /\ UnderWay < MaxPackets
  /\ pings' = [pings EXCEPT !["present"] = @ + 1]
  /\ timer' = "present"
  /\ UNCHANGED <<sisyfos, pongs, isZero, connected, mixerOnline, happened>>

\* As it would be with the comparison turned round.
UnansweredReversed == timer = "past"

Unanswered == timer = "present"

\* An answer that is under way comes in time, but for some.
Timeout ==
  /\ timer # "none" /\ timer' = "none"
  /\ connected' = (connected /\ ~Unanswered)
  /\ IF pongs["offline"] > 0 \/ pongs["present"] > 0 \/ (pings["present"] > 0 /\ sisyfos # "down")
     THEN happened.late < MaxLate /\ Count("late")
     ELSE UNCHANGED happened
  /\ UNCHANGED <<sisyfos, pings, pongs, isZero, mixerOnline>>

\* _pingCounter++: all that is under way is of the past.
Past(counts) == [counts EXCEPT !["past"] = @ + counts["present"], !["present"] = 0]

\* receiver, for a number that is no 0, or `offline': a number of the past is not an answer.
Receives(kind) ==
  /\ pongs[kind] > 0
  /\ LET left == [pongs EXCEPT ![kind] = @ - 1] IN
     IF kind = "past" \/ (kind = "present" /\ isZero)
     THEN pongs' = left /\ UNCHANGED <<pings, timer, isZero, connected, mixerOnline>>
     ELSE /\ pongs' = Past(left) /\ pings' = Past(pings) /\ isZero' = FALSE
          /\ timer' = "none" /\ connected' = TRUE /\ mixerOnline' = (kind # "offline")
  /\ UNCHANGED <<sisyfos, happened>>

----------------------------------------------------------------------------
(* Sisyfos and the network.                                                *)

\* It answers with the number, or that the mixer is offline.
Answers(kind) ==
  /\ pings[kind] > 0 /\ pings' = [pings EXCEPT ![kind] = @ - 1]
  /\ pongs' = CASE sisyfos = "up" -> [pongs EXCEPT ![kind] = @ + 1]
                [] sisyfos = "offline" -> [pongs EXCEPT !["offline"] = @ + 1]
                [] sisyfos = "down" -> pongs
  /\ UNCHANGED <<sisyfos, timer, isZero, connected, mixerOnline, happened>>

Loses(kind) ==
  /\ happened.losses < MaxLosses /\ Count("losses")
  /\ \/ kind \in Kinds /\ pings[kind] > 0 /\ pings' = [pings EXCEPT ![kind] = @ - 1] /\ UNCHANGED pongs
     \/ pongs[kind] > 0 /\ pongs' = [pongs EXCEPT ![kind] = @ - 1] /\ UNCHANGED pings
  /\ UNCHANGED <<sisyfos, timer, isZero, connected, mixerOnline>>

Changes(to) ==
  /\ happened.changes < MaxChanges /\ to # sisyfos /\ sisyfos' = to
  /\ Count("changes")
  /\ UNCHANGED <<pings, pongs, timer, isZero, connected, mixerOnline>>

Next ==
  \/ pingSisyfos \/ Timeout
  \/ \E k \in Kinds : Answers(k)
  \/ \E k \in Pongs : Receives(k) \/ Loses(k)
  \/ \E to \in {"up", "offline", "down"} : Changes(to)

\* The timers fire, and what is under way arrives.
Timers == pingSisyfos \/ Timeout
Arrives(kind) == Receives(kind) \/ (kind \in Kinds /\ Answers(kind))

----------------------------------------------------------------------------
\* The status tells what is there.
Tells == IF sisyfos = "down" THEN ~connected ELSE connected /\ mixerOnline = (sisyfos = "up")
=============================================================================
