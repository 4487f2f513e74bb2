---------------------------- MODULE QuantelProofs ----------------------------
(***************************************************************************)
(* Who waits for the release of a channel, waits for one that is under     *)
(* way: for any ports and channels, any states of the timeline, and also   *)
(* when retries race the commands of their port.                           *)
(***************************************************************************)
EXTENDS Quantel, TLAPS

Releasing == {p \in Ports : At(Own(p), "released")}
Waiting == {p \in Ports : At(Own(p), "wait")}
Freeing == Releasing \cup {p \in Waiting : threads[Own(p)].command.type = "release"}

(* What the proof needs of the types.  The gateway and the positions in a  *)
(* port play no part.                                                      *)
ThreadsAreThere ==
  /\ DOMAIN threads = Ports \X {"queue", "retry"}
  /\ \A t \in DOMAIN threads : "step" \in DOMAIN threads[t]
PortsHaveChannels == \A p \in DOMAIN tracked : "channel" \in DOMAIN tracked[p]

(* Who releases a port or waits to do so knows it; who is noted for a      *)
(* channel releases it; and who waits, waits for a port that releases the  *)
(* channel.  Several ports may release a channel at once: then the first   *)
(* that ends takes the note of another with it.                            *)
PortsAreKnown == \A p \in Ports : p \in Freeing => p \in DOMAIN tracked
NotedRelease ==
  \A c \in DOMAIN releasing :
    releasing[c] \in Ports /\ releasing[c] \in Releasing /\ tracked[releasing[c]].channel = c
AwaitedRelease ==
  \A p \in Ports : p \in Waiting =>
    LET q == threads[Own(p)].waitsFor IN
    /\ q \in Ports /\ q \in Releasing
    /\ p \in Freeing => tracked[p].channel = tracked[q].channel

ReleaseInv ==
  /\ ThreadsAreThere /\ PortsHaveChannels
  /\ PortsAreKnown /\ NotedRelease /\ AwaitedRelease

LEMMA InvIsEnough == ReleaseInv => NobodyWaitsInVain
<1> SUFFICES ASSUME ReleaseInv PROVE NobodyWaitsInVain
  OBVIOUS
<1>1. \A c \in DOMAIN releasing :
        \E p \in Ports : At(Own(p), "released") /\ tracked[p].channel = c
  BY DEF ReleaseInv, NotedRelease, Releasing
<1>2. \A p, q \in Ports : p \in Awaiting(q) => At(Own(q), "released")
  BY DEF ReleaseInv, AwaitedRelease, Awaiting, Waiting, Releasing
<1> QED BY <1>1, <1>2 DEF NobodyWaitsInVain

(* A function loses one of its arguments. *)
LEMMA WithoutIs ==
  ASSUME NEW f, NEW x
  PROVE  /\ DOMAIN Without(f, x) = DOMAIN f \ {x}
         /\ \A z \in DOMAIN f : z # x => Without(f, x)[z] = f[z]
  BY DEF Without, Restrict

(* A step that begins and ends no release and no wait: one thread goes on  *)
(* elsewhere, and ports that release keep their channel.                   *)
Elsewhere ==
  /\ ThreadsAreThere'
  /\ \A p \in Ports :
       /\ p \in Releasing' <=> p \in Releasing
       /\ p \in Waiting' <=> p \in Waiting
       /\ p \in Waiting => threads'[Own(p)] = threads[Own(p)]
ChannelsStay ==
  /\ PortsHaveChannels'
  /\ \A p \in Ports : p \in Freeing =>
       p \in DOMAIN tracked' /\ tracked'[p].channel = tracked[p].channel

LEMMA ElsewhereKeeps ==
  ASSUME ReleaseInv, Elsewhere, ChannelsStay, releasing' = releasing
  PROVE  ReleaseInv'
<1>1. ThreadsAreThere' /\ PortsHaveChannels'
  BY DEF Elsewhere, ChannelsStay
<1>2. ASSUME NEW p \in Ports
      PROVE  /\ p \in Releasing' <=> p \in Releasing
             /\ p \in Waiting' <=> p \in Waiting
             /\ p \in Waiting => threads'[Own(p)] = threads[Own(p)]
             /\ p \in Freeing' <=> p \in Freeing
  <2>1. /\ p \in Releasing' <=> p \in Releasing
        /\ p \in Waiting' <=> p \in Waiting
        /\ p \in Waiting => threads'[Own(p)] = threads[Own(p)]
    BY DEF Elsewhere
  <2> QED BY <2>1 DEF Freeing
<1>3. PortsAreKnown'
  BY <1>2 DEF PortsAreKnown, ChannelsStay
<1>4. NotedRelease'
  <2> SUFFICES ASSUME NEW c \in DOMAIN releasing
               PROVE  LET q == releasing[c] IN
                      q \in Ports /\ q \in Releasing' /\ tracked'[q].channel = c
    BY DEF NotedRelease, Releasing
  <2>1. releasing[c] \in Ports /\ releasing[c] \in Releasing /\ tracked[releasing[c]].channel = c
    BY DEF ReleaseInv, NotedRelease
  <2> QED BY <1>2, <2>1 DEF ChannelsStay, Freeing
<1>5. AwaitedRelease'
  <2> SUFFICES ASSUME NEW p \in Ports, p \in Waiting'
               PROVE  LET q == threads'[Own(p)].waitsFor IN
                      /\ q \in Ports /\ q \in Releasing'
                      /\ p \in Freeing' => tracked'[p].channel = tracked'[q].channel
    BY DEF AwaitedRelease, Releasing
  <2> DEFINE q == threads[Own(p)].waitsFor
  <2>1. p \in Waiting /\ threads'[Own(p)].waitsFor = q
    BY <1>2
  <2>2. q \in Ports /\ q \in Releasing /\ (p \in Freeing => tracked[p].channel = tracked[q].channel)
    BY <2>1 DEF ReleaseInv, AwaitedRelease
  <2>3. q \in Releasing' /\ tracked'[q].channel = tracked[q].channel
    BY <1>2, <2>2 DEF ChannelsStay, Freeing
  <2> QED BY <1>2, <2>1, <2>2, <2>3 DEF ChannelsStay
<1> QED BY <1>1, <1>3, <1>4, <1>5 DEF ReleaseInv

(* A thread that neither releases nor waits goes to another step than that. *)
Free(t) == ~ At(t, "released") /\ ~ At(t, "wait")
Apart(s) == s # "released" /\ s # "wait"

LEMMA GoesElsewhere ==
  ASSUME ThreadsAreThere, NEW t \in DOMAIN threads, Free(t), NEW th,
         "step" \in DOMAIN th, Apart(th.step), threads' = [threads EXCEPT ![t] = th]
  PROVE  Elsewhere
<1>1. ThreadsAreThere'
  BY DEF ThreadsAreThere
<1>2. ASSUME NEW p \in Ports
      PROVE  /\ p \in Releasing' <=> p \in Releasing
             /\ p \in Waiting' <=> p \in Waiting
             /\ p \in Waiting => threads'[Own(p)] = threads[Own(p)]
  <2>1. Own(p) \in DOMAIN threads
    BY DEF ThreadsAreThere, Own
  <2>2. CASE Own(p) = t
    BY <2>1, <2>2 DEF Releasing, Waiting, At, Free, Apart
  <2>3. CASE Own(p) # t
    BY <2>1, <2>3 DEF Releasing, Waiting, At
  <2> QED BY <2>2, <2>3
<1> QED BY <1>1, <1>2 DEF Elsewhere

LEMMA StepsElsewhere ==
  ASSUME ThreadsAreThere, NEW t \in DOMAIN threads, Free(t)
  PROVE  /\ Ends(t) => Elsewhere
         /\ \A s, c : Apart(s) /\ Runs(t, s, c) => Elsewhere
         /\ \A s : Apart(s) /\ Goes(t, s) => Elsewhere
         /\ \A b : InPlace(t, b) => Elsewhere
         /\ Loaded(t) => Elsewhere
<1>1. Ends(t) => Elsewhere
  <2>1. "step" \in DOMAIN Idle /\ Apart(Idle.step)
    BY DEF Idle, Apart
  <2> QED BY <2>1, GoesElsewhere DEF Ends
<1>2. ASSUME NEW s, NEW c, Apart(s), Runs(t, s, c) PROVE Elsewhere
  <2> DEFINE th == Doing(s, c)
  <2>1. "step" \in DOMAIN th /\ Apart(th.step) /\ threads' = [threads EXCEPT ![t] = th]
    BY <1>2 DEF Runs, Doing
  <2> HIDE DEF th
  <2> QED BY <2>1, GoesElsewhere
<1>3. ASSUME NEW s, Apart(s), Goes(t, s) PROVE Elsewhere
  <2> DEFINE th == [threads[t] EXCEPT !.step = s]
  <2>1. "step" \in DOMAIN th /\ Apart(th.step)
    BY <1>3 DEF ThreadsAreThere
  <2>2. threads' = [threads EXCEPT ![t] = th]
    BY <1>3 DEF Goes
  <2> HIDE DEF th
  <2> QED BY <2>1, <2>2, GoesElsewhere
<1>4. ASSUME NEW b, InPlace(t, b) PROVE Elsewhere
  BY <1>1, <1>3, <1>4 DEF InPlace, Apart
<1>5. ASSUME Loaded(t) PROVE Elsewhere
  BY <1>1, <1>2, <1>5 DEF Loaded, Apart
<1> QED BY <1>1, <1>2, <1>3, <1>4, <1>5

(* Where nothing but other fields of a port is changed, channels stay.     *)
LEMMA FieldsChange ==
  ASSUME PortsHaveChannels, PortsAreKnown, DOMAIN tracked' = DOMAIN tracked,
         \A q \in DOMAIN tracked : /\ DOMAIN tracked'[q] = DOMAIN tracked[q]
                                  /\ tracked'[q].channel = tracked[q].channel
  PROVE  ChannelsStay
  BY DEF ChannelsStay, PortsHaveChannels, PortsAreKnown

LEMMA NothingChanges ==
  ASSUME PortsHaveChannels, PortsAreKnown, tracked' = tracked
  PROVE  ChannelsStay
  BY DEF ChannelsStay, PortsHaveChannels, PortsAreKnown

(* Another port than those that release is set up or cleared. *)
LEMMA OtherPort ==
  ASSUME PortsHaveChannels, PortsAreKnown, NEW p \in Ports, p \notin Freeing, NEW ch,
         tracked' = With(tracked, p, FreshPort(ch))
  PROVE  ChannelsStay
<1>1. /\ DOMAIN tracked' = DOMAIN tracked \cup {p} /\ tracked'[p] = FreshPort(ch)
      /\ \A z \in DOMAIN tracked : z # p => tracked'[z] = tracked[z]
  <2> DEFINE new == FreshPort(ch)
  <2> HIDE DEF new
  <2>1. tracked' = With(tracked, p, new)
    BY DEF new
  <2>2. /\ DOMAIN tracked' = DOMAIN tracked \cup {p} /\ tracked'[p] = new
        /\ \A z \in DOMAIN tracked : z # p => tracked'[z] = tracked[z]
    BY <2>1 DEF With
  <2> QED BY <2>2 DEF new
<1>2. "channel" \in DOMAIN FreshPort(ch)
  BY DEF FreshPort
<1>3. PortsHaveChannels'
  BY <1>1, <1>2 DEF PortsHaveChannels
<1>4. ASSUME NEW q \in Ports, q \in Freeing
      PROVE  q \in DOMAIN tracked' /\ tracked'[q].channel = tracked[q].channel
  <2>1. q # p /\ q \in DOMAIN tracked
    BY <1>4 DEF PortsAreKnown
  <2> QED BY <1>1, <2>1
<1> QED BY <1>3, <1>4 DEF ChannelsStay

----------------------------------------------------------------------------
(* The steps.                                                              *)

LEMMA InitReleases == QuantelInit => ReleaseInv
<1> SUFFICES ASSUME QuantelInit PROVE ReleaseInv
  OBVIOUS
<1>1. threads = [t \in Ports \X {"queue", "retry"} |-> Idle] /\ Idle.step = "idle"
      /\ "step" \in DOMAIN Idle
  BY DEF QuantelInit, Idle
<1>2. ThreadsAreThere
  BY <1>1 DEF ThreadsAreThere
<1>3. \A p \in Ports : p \notin Releasing /\ p \notin Waiting
  <2>1. \A p \in Ports : Own(p) \in Ports \X {"queue", "retry"}
    BY DEF Own
  <2> QED BY <1>1, <2>1 DEF Releasing, Waiting, At
<1>4. DOMAIN tracked = {} /\ DOMAIN releasing = {}
  BY DEF QuantelInit
<1> QED BY <1>2, <1>3, <1>4 DEF ReleaseInv, PortsHaveChannels, PortsAreKnown, Freeing,
          NotedRelease, AwaitedRelease

LEMMA NextIsFree ==
  ASSUME NEW p, NEW types, IsNext(p, types)
  PROVE  Free(Own(p)) /\ p \notin Releasing /\ p \notin Waiting /\ p \notin Freeing
<1>1. Idle.step = "idle"
  BY DEF Idle
<1> QED BY <1>1 DEF IsNext, Releasing, Waiting, Freeing, Free, At

LEMMA OwnIsThere ==
  ASSUME ThreadsAreThere, NEW p \in Ports
  PROVE  /\ Own(p) \in DOMAIN threads /\ <<p, "retry">> \in DOMAIN threads
         /\ \A q \in Ports : q # p => Own(q) # Own(p)
  BY DEF ThreadsAreThere, Own

(* A command waits for the release of a channel that is noted.             *)
LEMMA AwaitsKeeps ==
  ASSUME ReleaseInv, NEW p \in Ports, Free(Own(p)), NEW c \in DOMAIN releasing,
         Awaits(p, releasing[c]), tracked' = tracked, releasing' = releasing,
         Head(queue[p]).type = "release" => p \in DOMAIN tracked /\ tracked[p].channel = c
  PROVE  ReleaseInv'
<1> DEFINE th == [step |-> "wait", command |-> Head(queue[p]), waitsFor |-> releasing[c]]
<1>1. ThreadsAreThere /\ Own(p) \in DOMAIN threads
  BY OwnIsThere DEF ReleaseInv
<1>2. threads' = [threads EXCEPT ![Own(p)] = th]
  BY DEF Awaits
<1>3. /\ "step" \in DOMAIN th /\ th.step = "wait" /\ th.waitsFor = releasing[c]
      /\ th.command = Head(queue[p])
  OBVIOUS
<1> HIDE DEF th
<1>4. ThreadsAreThere' /\ threads'[Own(p)] = th
  BY <1>1, <1>2, <1>3 DEF ThreadsAreThere
<1>5. \A q \in Ports : q # p => threads'[Own(q)] = threads[Own(q)]
  BY <1>1, <1>2, OwnIsThere
<1>6. /\ \A q \in Ports : (q \in Releasing' <=> q \in Releasing)
      /\ \A q \in Ports : q \in Waiting' <=> q = p \/ q \in Waiting
  BY <1>3, <1>4, <1>5 DEF Releasing, Waiting, At, Free
<1>7. /\ releasing[c] \in Ports /\ releasing[c] \in Releasing
      /\ tracked[releasing[c]].channel = c
  BY DEF ReleaseInv, NotedRelease
<1>8. /\ \A q \in Ports : q # p => (q \in Freeing' <=> q \in Freeing)
      /\ p \in Freeing' => p \in DOMAIN tracked /\ tracked[p].channel = c
  BY <1>3, <1>4, <1>5, <1>6 DEF Freeing, Releasing, Free
<1>9. PortsHaveChannels' /\ PortsAreKnown'
  BY <1>8 DEF ReleaseInv, PortsHaveChannels, PortsAreKnown
<1>10. NotedRelease'
  BY <1>6 DEF ReleaseInv, NotedRelease
<1>11. AwaitedRelease'
  <2> SUFFICES ASSUME NEW q \in Ports, q \in Waiting'
               PROVE  LET w == threads'[Own(q)].waitsFor IN
                      /\ w \in Ports /\ w \in Releasing'
                      /\ q \in Freeing' => tracked[q].channel = tracked[w].channel
    BY DEF AwaitedRelease, Releasing
  <2>1. CASE q = p
    BY <1>3, <1>4, <1>6, <1>7, <1>8, <2>1
  <2>2. CASE q # p
    BY <1>5, <1>6, <1>8, <2>2 DEF ReleaseInv, AwaitedRelease
  <2> QED BY <2>1, <2>2
<1> QED BY <1>4, <1>9, <1>10, <1>11 DEF ReleaseInv

LEMMA releasePortKeeps ==
  ASSUME ReleaseInv, NEW p \in Ports, releasePort(p)
  PROVE  ReleaseInv'
<1>1. ThreadsAreThere /\ PortsHaveChannels /\ PortsAreKnown /\ tracked' = tracked
  BY DEF ReleaseInv, releasePort
<1>2. Own(p) \in DOMAIN threads /\ Free(Own(p)) /\ p \notin Releasing /\ p \notin Waiting
  BY <1>1, OwnIsThere, NextIsFree DEF releasePort
<1>3. CASE UNCHANGED <<releasing, threads>>
  <2>1. Elsewhere
    BY <1>1, <1>3 DEF Elsewhere, ThreadsAreThere, Releasing, Waiting, At
  <2> QED BY <1>1, <1>3, <2>1, NothingChanges, ElsewhereKeeps
<1>4. CASE /\ p \in DOMAIN tracked /\ tracked[p].channel \in DOMAIN releasing
           /\ releasing' = releasing /\ Awaits(p, releasing[tracked[p].channel])
  BY <1>1, <1>2, <1>4, AwaitsKeeps
<1>5. CASE /\ p \in DOMAIN tracked /\ tracked[p].channel \notin DOMAIN releasing
           /\ releasing' = With(releasing, tracked[p].channel, p)
           /\ Runs(Own(p), "released", Head(queue[p]))
  <2> DEFINE ch == tracked[p].channel
             th == Doing("released", Head(queue[p]))
  <2>1. threads' = [threads EXCEPT ![Own(p)] = th] /\ "step" \in DOMAIN th /\ th.step = "released"
    BY <1>5 DEF Runs, Doing
  <2> HIDE DEF th
  <2>2. ThreadsAreThere' /\ PortsHaveChannels'
    BY <1>1, <2>1 DEF ThreadsAreThere, PortsHaveChannels
  <2>3. threads'[Own(p)] = th /\ \A q \in Ports : q # p => threads'[Own(q)] = threads[Own(q)]
    BY <1>1, <1>2, <2>1, OwnIsThere
  <2>4. /\ \A q \in Ports : q \in Releasing' <=> q = p \/ q \in Releasing
        /\ \A q \in Ports : (q \in Waiting' <=> q \in Waiting)
    BY <1>2, <2>1, <2>3 DEF Releasing, Waiting, At
  <2>5. \A q \in Ports : q # p => (q \in Freeing' <=> q \in Freeing)
    BY <2>3, <2>4 DEF Freeing
  <2>6. /\ DOMAIN releasing' = DOMAIN releasing \cup {ch} /\ releasing'[ch] = p
        /\ \A c \in DOMAIN releasing : releasing'[c] = releasing[c]
    BY <1>5 DEF With
  <2>7. PortsAreKnown'
    BY <1>1, <1>5, <2>5 DEF PortsAreKnown
  <2>8. NotedRelease'
    BY <1>1, <2>4, <2>6 DEF ReleaseInv, NotedRelease
  <2>9. AwaitedRelease'
    BY <1>1, <1>2, <2>3, <2>4, <2>5 DEF ReleaseInv, AwaitedRelease
  <2> QED BY <2>2, <2>7, <2>8, <2>9 DEF ReleaseInv
<1> QED BY <1>3, <1>4, <1>5 DEF releasePort

(* A release ends: those that awaited it release in their turn, or set up. *)
LEMMA ReleasedKeeps ==
  ASSUME ReleaseInv, NEW p \in Ports, Released(p)
  PROVE  ReleaseInv'
<1> DEFINE ch == tracked[p].channel
           woken == Awaiting(p)
           releases == {q \in woken : threads[Own(q)].command.type = "release"}
           next(q) == Doing(IF q \in releases THEN "released" ELSE "create",
                            threads[Own(q)].command)
<1>1. ThreadsAreThere /\ PortsHaveChannels /\ PortsAreKnown /\ NotedRelease /\ AwaitedRelease
  BY DEF ReleaseInv
<1>2. /\ p \in Releasing /\ tracked' = Without(tracked, p)
      /\ threads' = [t \in DOMAIN threads |->
                       IF t = Own(p) THEN Idle
                       ELSE IF t[2] = "queue" /\ t[1] \in woken THEN next(t[1]) ELSE threads[t]]
  BY DEF Released, Releasing
<1>3. \/ releasing' = Without(releasing, ch)
      \/ \E q \in releases : releasing' = With(Without(releasing, ch), ch, q)
  BY DEF Released, Unlocked
<1>4. /\ "step" \in DOMAIN Idle /\ Idle.step = "idle"
      /\ \A q \in releases : "step" \in DOMAIN next(q) /\ next(q).step = "released"
      /\ \A q \in woken \ releases : "step" \in DOMAIN next(q) /\ next(q).step = "create"
  BY DEF Idle, Doing
<1>5. /\ \A q \in woken : q \in Ports /\ q \in Waiting /\ threads[Own(q)].waitsFor = p
      /\ \A q \in Ports \ woken : q \in Waiting => threads[Own(q)].waitsFor # p
      /\ \A q \in releases :
           q \in woken /\ q \in Freeing /\ q \in DOMAIN tracked /\ tracked[q].channel = ch
      /\ p \notin woken
  <2>1. /\ \A q \in woken : q \in Ports /\ q \in Waiting /\ threads[Own(q)].waitsFor = p
        /\ \A q \in Ports \ woken : q \in Waiting => threads[Own(q)].waitsFor # p
    BY DEF Awaiting, Waiting
  <2>2. \A q \in releases : q \in woken /\ q \in Freeing
    BY <2>1 DEF Freeing
  <2>3. \A q \in releases : q \in DOMAIN tracked /\ tracked[q].channel = ch
    BY <1>1, <2>1, <2>2 DEF PortsAreKnown, AwaitedRelease
  <2>4. p \notin woken
    BY <1>2, <2>1 DEF Waiting, Releasing, At
  <2> QED BY <2>1, <2>2, <2>3, <2>4
<1>6. /\ threads'[Own(p)] = Idle
      /\ \A q \in woken : threads'[Own(q)] = next(q)
      /\ \A q \in Ports \ (woken \cup {p}) : threads'[Own(q)] = threads[Own(q)]
  <2>1. \A q \in Ports : Own(q) \in DOMAIN threads /\ (q # p => Own(q) # Own(p))
    BY <1>1, OwnIsThere
  <2>2. \A q \in Ports : Own(q)[1] = q /\ Own(q)[2] = "queue"
    BY DEF Own
  <2> HIDE DEF woken, next
  <2> QED BY <1>2, <1>5, <2>1, <2>2
<1>7. ThreadsAreThere'
  <2>1. DOMAIN threads' = DOMAIN threads
    BY <1>2
  <2>2. ASSUME NEW t \in DOMAIN threads PROVE "step" \in DOMAIN threads'[t]
    <3>1. \/ threads'[t] = Idle \/ threads'[t] = threads[t]
          \/ t[1] \in woken /\ threads'[t] = next(t[1])
      BY <1>2
    <3> HIDE DEF woken, releases, next
    <3> QED BY <1>1, <1>4, <3>1 DEF ThreadsAreThere
  <2> QED BY <1>1, <2>1, <2>2 DEF ThreadsAreThere
<1> HIDE DEF woken, releases, next
<1>8. \A q \in Ports : q \in Releasing' <=> q \in releases \/ (q # p /\ q \in Releasing)
  BY <1>4, <1>5, <1>6 DEF Releasing, Waiting, At
<1>9. \A q \in Ports :
        /\ q \in Waiting' <=> q \notin woken /\ q \in Waiting
        /\ q \in Waiting' => threads'[Own(q)] = threads[Own(q)]
  <2> SUFFICES ASSUME NEW q \in Ports
               PROVE  /\ q \in Waiting' <=> q \notin woken /\ q \in Waiting
                      /\ q \in Waiting' => threads'[Own(q)] = threads[Own(q)]
    OBVIOUS
  <2>1. CASE q = p
    BY <1>2, <1>4, <1>6, <2>1 DEF Releasing, Waiting, At
  <2>2. CASE q \in woken
    BY <1>4, <1>6, <2>2 DEF Waiting, At
  <2>3. CASE q # p /\ q \notin woken
    BY <1>6, <2>3 DEF Waiting, At
  <2> QED BY <2>1, <2>2, <2>3
<1>10. \A q \in Ports : q \in Freeing' => q \in Freeing /\ q # p
  BY <1>2, <1>5, <1>8, <1>9 DEF Freeing, Releasing, Waiting, At
<1>11. /\ DOMAIN tracked' = DOMAIN tracked \ {p}
       /\ \A q \in DOMAIN tracked : q # p => tracked'[q] = tracked[q]
  BY <1>2, WithoutIs
<1>12. PortsHaveChannels' /\ PortsAreKnown'
  BY <1>1, <1>10, <1>11 DEF PortsHaveChannels, PortsAreKnown
<1>13. \A q \in Ports : q \in Freeing /\ q # p => tracked'[q] = tracked[q]
  BY <1>1, <1>11 DEF PortsAreKnown
<1>14. NotedRelease'
  <2> DEFINE without == Without(releasing, ch)
  <2>1. /\ DOMAIN without = DOMAIN releasing \ {ch}
        /\ \A c \in DOMAIN without : without[c] = releasing[c]
    BY WithoutIs
  <2>2. ASSUME NEW c \in DOMAIN without
        PROVE  /\ without[c] \in Ports /\ without[c] \in Releasing'
               /\ tracked'[without[c]].channel = c
    <3> DEFINE q == without[c]
    <3>1. q \in Ports /\ q \in Releasing /\ tracked[q].channel = c /\ c # ch
      BY <1>1, <2>1, <2>2 DEF NotedRelease
    <3>2. q # p /\ q \in Freeing
      BY <3>1 DEF Freeing
    <3> HIDE DEF q
    <3>3. q \in Releasing' /\ tracked'[q].channel = c
      BY <1>8, <1>13, <3>1, <3>2
    <3> QED BY <3>1, <3>3 DEF q
  <2> HIDE DEF without
  <2>3. CASE releasing' = without
    BY <2>2, <2>3 DEF NotedRelease, Releasing
  <2>4. ASSUME NEW q \in releases, releasing' = With(without, ch, q) PROVE NotedRelease'
    <3>1. /\ DOMAIN releasing' = DOMAIN without \cup {ch} /\ releasing'[ch] = q
          /\ \A c \in DOMAIN without : releasing'[c] = without[c]
      <4>1. ch \notin DOMAIN without
        BY <2>1
      <4> QED BY <2>4, <4>1 DEF With
    <3>2. q \in Ports /\ q \in Releasing' /\ tracked'[q].channel = ch
      BY <1>5, <1>8, <1>13
    <3> QED BY <2>2, <3>1, <3>2 DEF NotedRelease, Releasing
  <2> QED BY <1>3, <2>3, <2>4 DEF without
<1>15. AwaitedRelease'
  <2> SUFFICES ASSUME NEW r \in Ports, r \in Waiting'
               PROVE  LET q == threads'[Own(r)].waitsFor IN
                      /\ q \in Ports /\ q \in Releasing'
                      /\ r \in Freeing' => tracked'[r].channel = tracked'[q].channel
    BY DEF AwaitedRelease, Releasing
  <2> DEFINE q == threads[Own(r)].waitsFor
  <2>1. r \notin woken /\ r \in Waiting /\ threads'[Own(r)].waitsFor = q /\ q # p
    BY <1>5, <1>9
  <2>2. q \in Ports /\ q \in Releasing /\ (r \in Freeing => tracked[r].channel = tracked[q].channel)
    BY <1>1, <2>1 DEF AwaitedRelease
  <2> HIDE DEF q
  <2>3. q \in Releasing' /\ tracked'[q] = tracked[q]
    BY <1>8, <1>13, <2>1, <2>2 DEF Freeing
  <2> QED BY <1>10, <1>13, <2>1, <2>2, <2>3
<1> QED BY <1>7, <1>12, <1>14, <1>15 DEF ReleaseInv

(* Steps of the queue of a port that are no release. *)
LEMMA PortKeeps ==
  ASSUME ReleaseInv, NEW p \in Ports,
         \/ setupPort(p) \/ Created(p) \/ clearClip(p)
         \/ tryLoadClipFragments(p) \/ RetryLoad(p) \/ tryPrepareClipJump(p)
  PROVE  ReleaseInv'
<1>1. ThreadsAreThere /\ PortsHaveChannels /\ PortsAreKnown
  BY DEF ReleaseInv
<1>2. Own(p) \in DOMAIN threads /\ <<p, "retry">> \in DOMAIN threads
  BY <1>1, OwnIsThere
<1>3. threads' = threads => Elsewhere
  BY <1>1 DEF Elsewhere, ThreadsAreThere, Releasing, Waiting, At
<1>4. CASE setupPort(p)
  <2>1. Free(Own(p)) /\ tracked' = tracked /\ releasing' = releasing
    BY <1>4, NextIsFree DEF setupPort
  <2>2. Head(queue[p]).type = "setup"
    BY <1>4 DEF setupPort, IsNext
  <2>3. CASE threads' = threads \/ Runs(Own(p), "create", Head(queue[p]))
    <3>1. Elsewhere
      BY <1>1, <1>2, <1>3, <2>1, <2>3, StepsElsewhere DEF Apart
    <3> QED BY <1>1, <2>1, <3>1, NothingChanges, ElsewhereKeeps
  <2>4. CASE \E c \in DOMAIN releasing : Awaits(p, releasing[c])
    BY <2>1, <2>2, <2>4, AwaitsKeeps
  <2> QED BY <1>4, <2>3, <2>4 DEF setupPort
<1>5. CASE Created(p)
  <2>1. Free(Own(p)) /\ p \notin Freeing
    BY <1>5 DEF Created, At, Releasing, Waiting, Freeing, Free
  <2>2. Elsewhere
    BY <1>1, <1>2, <1>5, <2>1, StepsElsewhere DEF Created
  <2>3. \E ch : tracked' = With(tracked, p, FreshPort(ch))
    BY <1>5 DEF Created
  <2>4. releasing' = releasing
    BY <1>5 DEF Created
  <2> QED BY <1>1, <2>1, <2>2, <2>3, <2>4, OtherPort, ElsewhereKeeps
<1>6. CASE clearClip(p)
  <2>1. p \notin Freeing
    BY <1>6, NextIsFree DEF clearClip
  <2>2. threads' = threads /\ releasing' = releasing
    BY <1>6 DEF clearClip
  <2>3. tracked' = tracked \/ \E ch : tracked' = With(tracked, p, FreshPort(ch))
    BY <1>6 DEF clearClip
  <2>4. ChannelsStay
    BY <1>1, <2>1, <2>3, OtherPort, NothingChanges
  <2> QED BY <1>3, <2>2, <2>4, ElsewhereKeeps
<1>7. CASE tryLoadClipFragments(p) \/ tryPrepareClipJump(p)
  <2>1. Free(Own(p))
    BY <1>7, NextIsFree DEF tryLoadClipFragments, tryPrepareClipJump
  <2>2. \E s, c : Apart(s) /\ Runs(Own(p), s, c)
    <3>1. Runs(Own(p), "load", Head(queue[p])) \/ Runs(Own(p), "find", Head(queue[p]))
      BY <1>7 DEF tryLoadClipFragments, tryPrepareClipJump
    <3>2. Apart("load") /\ Apart("find")
      BY DEF Apart
    <3> QED BY <3>1, <3>2
  <2>3. tracked' = tracked /\ releasing' = releasing
    BY <1>7 DEF tryLoadClipFragments, tryPrepareClipJump
  <2>4. Elsewhere
    BY <1>1, <1>2, <2>1, <2>2, StepsElsewhere
  <2> QED BY <1>1, <2>3, <2>4, NothingChanges, ElsewhereKeeps
<1>8. CASE RetryLoad(p)
  <2> DEFINE t == <<p, "retry">>
  <2>1. Free(t) /\ Runs(t, "load", retryTimeout[p]) /\ Apart("load")
    BY <1>8 DEF RetryLoad, At, Idle, Free, Apart
  <2>2. tracked' = tracked /\ releasing' = releasing
    BY <1>8 DEF RetryLoad
  <2> HIDE DEF t
  <2>3. Elsewhere
    BY <1>1, <1>2, <2>1, StepsElsewhere DEF t
  <2> QED BY <1>1, <2>2, <2>3, NothingChanges, ElsewhereKeeps
<1> QED BY <1>4, <1>5, <1>6, <1>7, <1>8

(* Steps of a thread that is under way with something else. *)
LEMMA ThreadKeeps ==
  ASSUME ReleaseInv, NEW t \in DOMAIN threads,
         \/ loadClipFragments(t) \/ Limit(t) \/ Prepare(t)
         \/ prepareClipJump(t) \/ SoftJump(t) \/ StopNow(t) \/ TriggerJump(t) \/ HardJump(t)
         \/ Play(t) \/ ScheduleStop(t)
  PROVE  ReleaseInv'
<1>1. ThreadsAreThere /\ PortsHaveChannels /\ PortsAreKnown
  BY DEF ReleaseInv
<1>2. releasing' = releasing
  BY DEF loadClipFragments, Limit, Prepare, prepareClipJump, SoftJump, StopNow, TriggerJump,
    HardJump, Play, ScheduleStop
<1>3. Free(t)
  BY DEF Free, At, loadClipFragments, Limit, Prepare, prepareClipJump, SoftJump, StopNow, TriggerJump,
    HardJump, Play, ScheduleStop
<1>4. Elsewhere
  <2>1. /\ Ends(t) => Elsewhere
        /\ \A s : Apart(s) /\ Goes(t, s) => Elsewhere
        /\ \A b : InPlace(t, b) => Elsewhere
        /\ Loaded(t) => Elsewhere
    BY <1>1, <1>3, StepsElsewhere
  <2>2. CASE loadClipFragments(t)
    <3>1. Ends(t) \/ Loaded(t) \/ Goes(t, "limit") \/ Goes(t, "prepare")
      BY <2>2 DEF loadClipFragments
    <3> QED BY <2>1, <3>1 DEF Apart
  <2>3. CASE prepareClipJump(t)
    <3>1. \/ Ends(t) \/ Goes(t, "stop") \/ Goes(t, "trigger") \/ Goes(t, "soft") \/ Goes(t, "hard")
          \/ \E b : InPlace(t, b)
      BY <2>3 DEF prepareClipJump
    <3> QED BY <2>1, <3>1 DEF Apart
  <2>4. CASE Limit(t) \/ Prepare(t) \/ StopNow(t) \/ TriggerJump(t) \/ HardJump(t) \/ Play(t)
              \/ ScheduleStop(t)
    <3>1. \/ Ends(t) \/ Loaded(t) \/ Goes(t, "prepare") \/ Goes(t, "trigger") \/ Goes(t, "schedule")
          \/ \E b : InPlace(t, b)
      BY <2>4 DEF Limit, Prepare, StopNow, TriggerJump, HardJump, Play, ScheduleStop
    <3> QED BY <2>1, <3>1 DEF Apart
  <2>5. CASE SoftJump(t)
    <3>1. Goes(t, "stop") \/ Goes(t, "trigger")
      BY <2>5 DEF SoftJump
    <3> QED BY <2>1, <3>1 DEF Apart
  <2> QED BY <2>2, <2>3, <2>4, <2>5
<1>5. ChannelsStay
  <2> DEFINE Same == /\ DOMAIN tracked' = DOMAIN tracked
                     /\ \A q \in DOMAIN tracked :
                          /\ DOMAIN tracked'[q] = DOMAIN tracked[q]
                          /\ tracked'[q].channel = tracked[q].channel
  <2> USE DEF PortsHaveChannels
  <2>0. SUFFICES Same
    BY <1>1, FieldsChange
  <2>1. CASE loadClipFragments(t)
    <3>1. \/ tracked' = tracked
          \/ \E x : tracked' = [tracked EXCEPT ![t[1]].loaded = x]
      BY <2>1 DEF loadClipFragments
    <3> QED BY <1>1, <3>1
  <2>2. CASE prepareClipJump(t)
    <3>1. \/ tracked' = tracked
          \/ \E x : tracked' = [tracked EXCEPT ![t[1]].jumpOffset = x]
      <4>1. CASE t[1] \notin DOMAIN tracked \/ Clip(t) \in missing \/ Clip(t) \notin DOMAIN tracked[t[1]].loaded
        BY <2>2, <4>1 DEF prepareClipJump
      <4>2. CASE ~ (t[1] \notin DOMAIN tracked \/ Clip(t) \in missing \/ Clip(t) \notin DOMAIN tracked[t[1]].loaded)
        BY <2>2, <4>2 DEF prepareClipJump
      <4> QED BY <4>1, <4>2
    <3> QED BY <1>1, <3>1
  <2>3. CASE Limit(t) \/ ScheduleStop(t)
    BY <1>1, <2>3 DEF Limit, ScheduleStop
  <2>4. CASE Prepare(t) \/ SoftJump(t)
    BY <1>1, <2>4 DEF Prepare, SoftJump, PrepareJump
  <2>5. CASE StopNow(t) \/ TriggerJump(t)
    BY <1>1, <2>5 DEF StopNow, TriggerJump
  <2>6. CASE HardJump(t)
    <3>1. \E x : tracked' = [tracked EXCEPT ![t[1]].offset = x, ![t[1]].playing = FALSE]
      BY <2>6 DEF HardJump
    <3> QED BY <1>1, <3>1
  <2>7. CASE Play(t)
    <3>1. tracked' = [tracked EXCEPT ![t[1]].playing = TRUE, ![t[1]].scheduledStop = Nil,
                                     ![t[1]].jumpOffset = Nil]
      BY <2>7 DEF Play
    <3>2. DOMAIN tracked' = DOMAIN tracked
      BY <3>1
    <3>3. ASSUME NEW q \in DOMAIN tracked
          PROVE  DOMAIN tracked'[q] = DOMAIN tracked[q] /\ tracked'[q].channel = tracked[q].channel
      <4>1. CASE q = t[1]
        BY <1>1, <3>1, <4>1
      <4>2. CASE q # t[1]
        BY <3>1, <4>2
      <4> QED BY <4>1, <4>2
    <3> QED BY <3>2, <3>3
  <2> QED BY <2>1, <2>2, <2>3, <2>4, <2>5, <2>6, <2>7
<1> QED BY <1>2, <1>4, <1>5, ElsewhereKeeps

LEMMA NextKeepsReleases ==
  ASSUME ReleaseErrors = {}, ReleaseInv, [QuantelNext]_quantelVars
  PROVE  ReleaseInv'
<1>1. ThreadsAreThere /\ PortsHaveChannels /\ PortsAreKnown
  BY DEF ReleaseInv
<1>2. ASSUME threads' = threads, tracked' = tracked, releasing' = releasing PROVE ReleaseInv'
  <2>1. Elsewhere
    BY <1>1, <1>2 DEF Elsewhere, ThreadsAreThere, Releasing, Waiting, At
  <2> QED BY <1>1, <1>2, <2>1, NothingChanges, ElsewhereKeeps
<1>3. CASE handleState
  BY <1>2, <1>3 DEF handleState
<1>4. ASSUME NEW p \in Ports, releasePort(p) PROVE ReleaseInv'
  BY <1>4, releasePortKeeps
<1>5. ASSUME NEW p \in Ports, Released(p) PROVE ReleaseInv'
  BY <1>5, ReleasedKeeps
<1>6. ASSUME NEW p \in Ports,
             \/ setupPort(p) \/ Created(p) \/ clearClip(p)
             \/ tryLoadClipFragments(p) \/ RetryLoad(p) \/ tryPrepareClipJump(p)
      PROVE  ReleaseInv'
  BY <1>6, PortKeeps
<1>7. ASSUME NEW p \in Ports, ReachStop(p) PROVE ReleaseInv'
  BY <1>2, <1>7 DEF ReachStop
<1>8. ASSUME NEW t \in DOMAIN threads,
             \/ loadClipFragments(t) \/ Limit(t) \/ Prepare(t)
             \/ prepareClipJump(t) \/ SoftJump(t) \/ StopNow(t) \/ TriggerJump(t) \/ HardJump(t)
             \/ Play(t) \/ ScheduleStop(t)
      PROVE  ReleaseInv'
  BY <1>8, ThreadKeeps
<1>9. ASSUME NEW clip \in FoundLater, ClipArrives(clip) PROVE ReleaseInv'
  BY <1>2, <1>9 DEF ClipArrives
<1>10. CASE UNCHANGED quantelVars
  BY <1>2, <1>10 DEF quantelVars
<1>11. ASSUME NEW p \in Ports, ReleaseFails(p) PROVE FALSE
  BY <1>11 DEF ReleaseFails
<1> QED BY <1>3, <1>4, <1>5, <1>6, <1>7, <1>8, <1>9, <1>10, <1>11 DEF QuantelNext

(* While no release is answered with an error, whoever waits for the       *)
(* release of a channel waits for one that is under way, also when a port  *)
(* is remapped or a retry runs beside its commands (connection.ts, line    *)
(* 112: "a promise for others to wait on, that will never reject").        *)
THEOREM WaitersAreReleased ==
  ASSUME ReleaseErrors = {}
  PROVE  QuantelSpec => []NobodyWaitsInVain
<1>1. QuantelInit => ReleaseInv
  BY InitReleases
<1>2. ReleaseInv /\ [QuantelNext]_quantelVars => ReleaseInv'
  BY NextKeepsReleases
<1>3. ReleaseInv => NobodyWaitsInVain
  BY InvIsEnough
<1> QED BY <1>1, <1>2, <1>3, PTL DEF QuantelSpec

=============================================================================
