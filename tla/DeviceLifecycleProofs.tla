----------------------- MODULE DeviceLifecycleProofs -----------------------
(***************************************************************************)
(* What createDevice, addDevice, initDevice and removeDevice of            *)
(* conductor.ts guarantee for any number of overlapping calls for one      *)
(* device id.                                                              *)
(***************************************************************************)
EXTENDS DeviceLifecycle, TLAPS

Places == Creating \cup Initializing \cup Removing \cup {"not called", "over"}

(* A call that goes on changes its place and nothing else. *)
LEMMA Moved ==
  ASSUME LifecycleTypeOK, NEW c \in Calls, NEW w \in Places, Goes(c, w)
  PROVE  /\ calls' \in [Calls -> Call]
         /\ calls'[c].at = w
         /\ \A d \in Calls : d # c => calls'[d] = calls[d]
         /\ \A d \in Calls : /\ calls'[d].op = calls[d].op
                             /\ calls'[d].device = calls[d].device
<1>1. calls \in [Calls -> Call]
  BY DEF LifecycleTypeOK
<1>2. calls' = [calls EXCEPT ![c] = [calls[c] EXCEPT !.at = w]]
  BY DEF Goes
<1>3. calls[c] \in Call /\ [calls[c] EXCEPT !.at = w] \in Call
  BY <1>1 DEF Call, Places
<1>4. calls' \in [Calls -> Call] /\ calls'[c] = [calls[c] EXCEPT !.at = w]
  BY <1>1, <1>2, <1>3
<1>5. calls'[c].at = w /\ calls'[c].op = calls[c].op /\ calls'[c].device = calls[c].device
  BY <1>3, <1>4 DEF Call
<1>6. \A d \in Calls : d # c => calls'[d] = calls[d]
  BY <1>1, <1>2
<1> QED BY <1>4, <1>5, <1>6

(* So does a call that begins. *)
LEMMA Begun ==
  ASSUME LifecycleTypeOK, NEW c \in Calls, NEW op \in {"create", "add", "init", "remove"},
         NEW w \in Places, NEW n \in Creations \cup {None}, Begin(c, op, w, n)
  PROVE  /\ calls[c].at = "not called"
         /\ calls' \in [Calls -> Call]
         /\ calls'[c].op = op /\ calls'[c].at = w /\ calls'[c].device = n
         /\ \A d \in Calls : d # c => calls'[d] = calls[d]
<1> DEFINE new == [op |-> op, at |-> w, device |-> n, aborted |-> FALSE]
<1>1. calls \in [Calls -> Call]
  BY DEF LifecycleTypeOK
<1>2. new \in Call /\ new.op = op /\ new.at = w /\ new.device = n
  BY DEF Call, Places
<1>3. calls[c].at = "not called" /\ calls' = [calls EXCEPT ![c] = new]
  BY DEF Begin, At
<1> HIDE DEF new
<1> QED BY <1>1, <1>2, <1>3

----------------------------------------------------------------------------
USE DEF Creating, Initializing, Removing

(* Which calls may be where: only a creation is at the stages of one, only *)
(* removals and additions remove.                                          *)
Role(c) ==
  /\ calls[c].op \in {"create", "add"} => c \in Creations
  /\ calls[c].at \in Creating => c \in Creations /\ calls[c].op \in {"create", "add"}
  /\ calls[c].at \in Removing => calls[c].op \in {"remove", "add"}
  /\ calls[c].op = "remove" => c \in Uses /\ calls[c].device \in Creations
  /\ calls[c].at = "terminating" => calls[c].op = "remove"
  /\ calls[c].at \in {"registered", "undoing"} => calls[c].op = "add"
  /\ calls[c].at \in Initializing =>
       calls[c].device \in Creations /\ calls[c].op \in {"init", "add"}
  /\ calls[c].at = "not called" => calls[c].op = None

Roles == \A c \in Calls : Role(c)
Typed == LifecycleTypeOK /\ Roles

OthersStay(c) == \A d \in Calls : d # c => calls'[d] = calls[d]

LEMMA TypedKept ==
  ASSUME Typed, NEW c \in Calls,
         calls' \in [Calls -> Call], OthersStay(c), Role(c)',
         devices' \in Creations \cup {None},
         containers' \in [Creations -> {None, "alive", "terminated"}],
         initialized' \in SUBSET Creations
  PROVE  Typed'
<1>1. LifecycleTypeOK'
  BY DEF LifecycleTypeOK
<1>2. ASSUME NEW d \in Calls PROVE Role(d)'
  <2>1. CASE d = c
    BY <2>1
  <2>2. CASE d # c
    <3>1. calls'[d] = calls[d] /\ Role(d)
      BY <2>2 DEF OthersStay, Typed, Roles
    <3> QED BY <3>1 DEF Role
  <2> QED BY <2>1, <2>2
<1> QED BY <1>1, <1>2 DEF Typed, Roles

(* A call that goes where one of its kind may be. *)
LEMMA GoesOn ==
  ASSUME Typed, NEW c \in Calls, NEW w \in Places, Goes(c, w), calls[c].at # "not called",
         devices' \in Creations \cup {None},
         containers' \in [Creations -> {None, "alive", "terminated"}],
         initialized' \in SUBSET Creations,
         w \in Creating => calls[c].op \in {"create", "add"},
         w \in Removing => calls[c].op \in {"remove", "add"},
         w = "terminating" => calls[c].op = "remove",
         w \in {"registered", "undoing"} => calls[c].op = "add",
         w \in Initializing => calls[c].at \in Initializing,
         w # "not called"
  PROVE  /\ Typed'
         /\ OthersStay(c)
         /\ calls'[c].at = w
         /\ calls'[c].op = calls[c].op /\ calls'[c].device = calls[c].device
<1>1. /\ calls' \in [Calls -> Call]
      /\ calls'[c].at = w
      /\ OthersStay(c)
      /\ calls'[c].op = calls[c].op /\ calls'[c].device = calls[c].device
  BY Moved DEF Typed, OthersStay
<1>2. Role(c)
  BY DEF Typed, Roles
<1>3. Role(c)'
  BY <1>1, <1>2 DEF Role
<1>4. Typed'
  BY <1>1, <1>3, TypedKept
<1> QED BY <1>1, <1>4

LEMMA Begins ==
  ASSUME Typed, NEW c \in Calls, NEW op \in {"create", "add", "init", "remove"},
         NEW w \in Places \ {"not called"}, NEW n \in Creations \cup {None}, Begin(c, op, w, n),
         UNCHANGED <<devices, containers, initialized>>,
         op \in {"create", "add"} => c \in Creations /\ w = "creating",
         op = "init" => w = "initializing" /\ n \in Creations,
         op = "remove" => w = "terminating" /\ c \in Uses /\ n \in Creations
  PROVE  /\ Typed'
         /\ OthersStay(c)
         /\ calls[c].at = "not called" /\ calls[c].op = None
         /\ calls'[c].at = w /\ calls'[c].op = op /\ calls'[c].device = n
<1>1. /\ calls[c].at = "not called"
      /\ calls' \in [Calls -> Call]
      /\ calls'[c].op = op /\ calls'[c].at = w /\ calls'[c].device = n
      /\ OthersStay(c)
  BY Begun DEF Typed, OthersStay
<1>2. Role(c)'
  BY <1>1 DEF Role
<1>3. Typed'
  BY <1>1, <1>2, TypedKept DEF Typed, LifecycleTypeOK
<1>4. calls[c].op = None
  BY <1>1 DEF Typed, Roles, Role
<1> QED BY <1>1, <1>3, <1>4

----------------------------------------------------------------------------
(* What each operation does, and that it keeps the types and the roles.    *)
Rest == UNCHANGED <<devices, containers, initialized>>

\* c, and nobody else, has gone on to w.
WentTo(c, w) ==
  /\ Typed' /\ OthersStay(c)
  /\ calls'[c].at = w
  /\ calls'[c].op = calls[c].op /\ calls'[c].device = calls[c].device

\* c, and nobody else, has begun.
HasBegun(c, op, w, n) ==
  /\ Typed' /\ OthersStay(c)
  /\ calls[c].at = "not called" /\ calls[c].op = None
  /\ calls'[c].at = w /\ calls'[c].op = op /\ calls'[c].device = n

LEMMA createDeviceDoes ==
  ASSUME Typed, NEW c \in Creations, createDevice(c)
  PROVE  /\ devices = None /\ Rest
         /\ \E op \in {"create", "add"} : HasBegun(c, op, "creating", None)
<1>1. c \in Calls /\ Rest /\ devices = None
  BY DEF createDevice, Calls, Rest
<1>2. ASSUME NEW op \in {"create", "add"}, Begin(c, op, "creating", devices)
      PROVE  HasBegun(c, op, "creating", devices)
  <2>1. devices \in Creations \cup {None} /\ "creating" \in Places \ {"not called"}
    BY DEF Typed, LifecycleTypeOK, Places
  <2>2. CASE op = "create"
    BY <1>1, <1>2, <2>1, <2>2, Begins DEF HasBegun, Rest
  <2>3. CASE op = "add"
    BY <1>1, <1>2, <2>1, <2>3, Begins DEF HasBegun, Rest
  <2> QED BY <1>2, <2>2, <2>3
<1>3. \E op \in {"create", "add"} : Begin(c, op, "creating", devices)
  BY <1>1 DEF createDevice
<1> QED BY <1>1, <1>2, <1>3

LEMMA initDeviceDoes ==
  ASSUME Typed, NEW c \in Uses, initDevice(c)
  PROVE  devices \in Creations /\ Rest /\ HasBegun(c, "init", "initializing", devices)
<1>1. c \in Calls /\ Rest /\ devices \in Creations /\ Begin(c, "init", "initializing", devices)
  BY DEF initDevice, MayInit, Calls, Rest, Typed, LifecycleTypeOK
<1> QED BY <1>1, Begins DEF Places, HasBegun, Rest

LEMMA removeDeviceDoes ==
  ASSUME Typed, NEW c \in Uses, removeDevice(c)
  PROVE  /\ devices \in Creations /\ Rest
         /\ HasBegun(c, "remove", "terminating", devices)
         /\ MayOverlap \/ \A d \in Calls : ~Undecided(d)
<1>1. /\ c \in Calls /\ Rest /\ devices \in Creations
      /\ Begin(c, "remove", "terminating", devices)
      /\ MayOverlap \/ \A d \in Calls : ~Undecided(d)
  BY DEF removeDevice, Calls, Rest, Typed, LifecycleTypeOK
<1> QED BY <1>1, Begins DEF Places, HasBegun, Rest

LEMMA CreatedDoes ==
  ASSUME Typed, NEW c \in Creations, Created(c)
  PROVE  /\ calls[c].at = "creating"
         /\ \E w \in {"created", "discarding"} : WentTo(c, w)
         /\ containers' = [containers EXCEPT ![c] = "alive"]
         /\ UNCHANGED <<devices, initialized>>
<1>1. /\ c \in Calls /\ calls[c].at = "creating"
      /\ containers' = [containers EXCEPT ![c] = "alive"]
      /\ UNCHANGED <<devices, initialized>>
  BY DEF Created, At, Calls
<1>2. PICK w \in {"created", "discarding"} : Goes(c, w)
  BY DEF Created, AfterCreation
<1>3. containers' \in [Creations -> {None, "alive", "terminated"}] /\ Role(c)
  BY <1>1 DEF Typed, LifecycleTypeOK, Roles
<1>4. WentTo(c, w)
  BY <1>1, <1>2, <1>3, GoesOn DEF Places, WentTo, Role, Typed, LifecycleTypeOK
<1> QED BY <1>1, <1>4

LEMMA RegisterDoes ==
  ASSUME Typed, NEW c \in Creations, Register(c)
  PROVE  /\ calls[c].at = "created"
         /\ UNCHANGED <<containers, initialized>>
         /\ \/ WentTo(c, "discarding") /\ UNCHANGED devices
            \/ /\ devices = None /\ devices' = c
               /\ WentTo(c, IF calls[c].op = "add" THEN "registered" ELSE "over")
<1>1. /\ c \in Calls /\ calls[c].at = "created" /\ Role(c)
      /\ UNCHANGED <<containers, initialized>>
  BY DEF Register, At, Calls, Typed, Roles
<1>2. CASE IsUnwanted(c)
  <2>1. Goes(c, "discarding") /\ UNCHANGED devices
    BY <1>2 DEF Register
  <2>2. WentTo(c, "discarding")
    BY <1>1, <2>1, GoesOn DEF Places, WentTo, Role, Typed, LifecycleTypeOK
  <2> QED BY <1>1, <2>1, <2>2
<1>3. CASE ~IsUnwanted(c)
  <2>1. /\ devices' = c /\ devices = None
        /\ Goes(c, IF calls[c].op = "add" THEN "registered" ELSE "over")
    BY <1>3 DEF Register, IsUnwanted
  <2>2. WentTo(c, IF calls[c].op = "add" THEN "registered" ELSE "over")
    BY <1>1, <2>1, GoesOn DEF Places, WentTo, Role, Typed, LifecycleTypeOK
  <2> QED BY <1>1, <2>1, <2>2
<1> QED BY <1>2, <1>3

LEMMA DiscardDoes ==
  ASSUME Typed, NEW c \in Creations, Discard(c)
  PROVE  /\ calls[c].at = "discarding" /\ WentTo(c, "over")
         /\ containers' = [containers EXCEPT ![c] = "terminated"]
         /\ UNCHANGED <<devices, initialized>>
<1>1. /\ c \in Calls /\ calls[c].at = "discarding" /\ Goes(c, "over")
      /\ containers' = [containers EXCEPT ![c] = "terminated"]
      /\ UNCHANGED <<devices, initialized>>
  BY DEF Discard, At, Calls, Terminated
<1>2. containers' \in [Creations -> {None, "alive", "terminated"}]
  BY <1>1 DEF Typed, LifecycleTypeOK
<1> QED BY <1>1, <1>2, GoesOn DEF Places, WentTo, Typed, LifecycleTypeOK

LEMMA InitAddedDoes ==
  ASSUME Typed, NEW c \in Creations, InitAdded(c)
  PROVE  /\ calls[c].at = "registered" /\ calls[c].op = "add" /\ Rest
         /\ \/ WentTo(c, "undoing")
            \/ /\ Typed' /\ OthersStay(c)
               /\ calls'[c].at = "initializing" /\ calls'[c].op = "add"
<1>1. /\ c \in Calls /\ calls[c].at = "registered" /\ Role(c) /\ Rest
      /\ calls[c].op = "add" /\ calls[c] \in Call
  BY DEF InitAdded, At, Calls, Typed, LifecycleTypeOK, Roles, Role, Rest
<1>2. CASE Goes(c, "undoing")
  BY <1>1, <1>2, GoesOn DEF Places, WentTo, Rest, Typed, LifecycleTypeOK
<1>3. CASE ~Goes(c, "undoing")
  <2> DEFINE new == [calls[c] EXCEPT !.at = "initializing", !.device = devices]
  <2>1. devices \in Creations
    BY <1>3 DEF InitAdded, Typed, LifecycleTypeOK
  <2>2. calls' = [calls EXCEPT ![c] = new]
    BY <1>1, <1>3, Zenon DEF InitAdded, Typed, LifecycleTypeOK
  <2>3. new \in Call /\ new.at = "initializing" /\ new.op = "add" /\ new.device = devices
    BY <1>1, <2>1 DEF Call
  <2> HIDE DEF new
  <2>4. /\ calls' \in [Calls -> Call] /\ OthersStay(c) /\ calls'[c] = new
    BY <1>1, <2>2, <2>3 DEF Typed, LifecycleTypeOK, OthersStay
  <2>5. Role(c)'
    BY <1>1, <2>1, <2>3, <2>4 DEF Role
  <2>6. Typed'
    BY <1>1, <2>4, <2>5, TypedKept DEF Typed, LifecycleTypeOK, Rest
  <2> QED BY <1>1, <2>3, <2>4, <2>6
<1> QED BY <1>2, <1>3

LEMMA InitializedDoes ==
  ASSUME Typed, NEW c \in Calls, Initialized(c)
  PROVE  /\ calls[c].at = "initializing"
         /\ \E w \in {"over", "reloading"} : WentTo(c, w)
         /\ UNCHANGED <<devices, containers>>
<1>1. /\ calls[c].at = "initializing" /\ Role(c)
      /\ initialized' = initialized \cup {calls[c].device}
      /\ UNCHANGED <<devices, containers>>
  BY DEF Initialized, At, Typed, Roles
<1>2. PICK w \in {"over", "reloading"} : Goes(c, w)
  BY DEF Initialized
<1>3. initialized' \in SUBSET Creations
  BY <1>1 DEF Typed, LifecycleTypeOK, Role
<1>4. WentTo(c, w)
  BY <1>1, <1>2, <1>3, GoesOn DEF Places, WentTo, Typed, LifecycleTypeOK
<1> QED BY <1>1, <1>4

\* InitFails, Reloaded, CreationFails and DeviceTerminated only go on.
LEMMA InitFailsDoes ==
  ASSUME Typed, NEW c \in Calls, InitFails(c)
  PROVE  /\ calls[c].at \in Initializing /\ Rest
         /\ WentTo(c, IF calls[c].op = "add" THEN "undoing" ELSE "over")
<1>1. /\ calls[c].at \in Initializing /\ Rest /\ Role(c)
      /\ Goes(c, IF calls[c].op = "add" THEN "undoing" ELSE "over")
  BY DEF InitFails, At, Typed, Roles, Rest
<1> QED BY <1>1, GoesOn DEF Places, WentTo, Typed, LifecycleTypeOK, Rest

LEMMA ReloadedDoes ==
  ASSUME Typed, NEW c \in Calls, Reloaded(c)
  PROVE  calls[c].at = "reloading" /\ Rest /\ WentTo(c, "over")
<1>1. calls[c].at = "reloading" /\ Rest /\ Goes(c, "over")
  BY DEF Reloaded, At, Rest
<1> QED BY <1>1, GoesOn DEF Places, WentTo, Typed, LifecycleTypeOK, Rest

LEMMA CreationFailsDoes ==
  ASSUME Typed, NEW c \in Creations, CreationFails(c)
  PROVE  calls[c].at = "creating" /\ Rest /\ WentTo(c, "over")
<1>1. c \in Calls /\ calls[c].at = "creating" /\ Rest /\ Goes(c, "over")
  BY DEF CreationFails, At, Rest, Calls
<1> QED BY <1>1, GoesOn DEF Places, WentTo, Typed, LifecycleTypeOK, Rest

LEMMA DeviceTerminatedDoes ==
  ASSUME Typed, NEW c \in Uses, DeviceTerminated(c)
  PROVE  calls[c].at = "terminating" /\ Rest /\ WentTo(c, "destroying")
<1>1. c \in Calls /\ calls[c].at = "terminating" /\ Rest /\ Goes(c, "destroying") /\ Role(c)
  BY DEF DeviceTerminated, At, Rest, Calls, Typed, Roles
<1> QED BY <1>1, GoesOn DEF Places, WentTo, Typed, LifecycleTypeOK, Rest, Role

LEMMA abortDoes ==
  ASSUME Typed, NEW c \in Calls, abort(c)
  PROVE  /\ Rest /\ WentTo(c, calls[c].at)
<1>1. /\ calls[c] \in Call /\ Rest /\ Role(c)
      /\ calls' = [calls EXCEPT ![c] = [calls[c] EXCEPT !.aborted = TRUE]]
  BY DEF abort, Typed, LifecycleTypeOK, Roles, Rest
<1> DEFINE new == [calls[c] EXCEPT !.aborted = TRUE]
<1>2. /\ new \in Call /\ new.at = calls[c].at /\ new.op = calls[c].op
      /\ new.device = calls[c].device
  BY <1>1 DEF Call
<1>3. calls' = [calls EXCEPT ![c] = new]
  BY <1>1
<1> HIDE DEF new
<1>4. calls' \in [Calls -> Call] /\ OthersStay(c) /\ calls'[c] = new
  BY <1>2, <1>3 DEF Typed, LifecycleTypeOK, OthersStay
<1>5. Role(c)'
  BY <1>1, <1>2, <1>4 DEF Role
<1>6. Typed'
  BY <1>1, <1>4, <1>5, TypedKept DEF Typed, LifecycleTypeOK, Rest
<1> QED BY <1>1, <1>2, <1>4, <1>6 DEF WentTo

LEMMA DestroyedDoes ==
  ASSUME Typed, NEW c \in Calls, Destroyed(c)
  PROVE  /\ calls[c].at \in {"destroying", "undoing"} /\ WentTo(c, "deleting")
         /\ Own(c) \in Creations
         /\ containers' = [containers EXCEPT ![Own(c)] = "terminated"]
         /\ UNCHANGED <<devices, initialized>>
<1>1. /\ calls[c].at \in {"destroying", "undoing"} /\ Goes(c, "deleting") /\ Role(c)
      /\ containers' = [containers EXCEPT ![Own(c)] = "terminated"]
      /\ UNCHANGED <<devices, initialized>>
  BY DEF Destroyed, At, Terminated, Typed, Roles
<1>2. Own(c) \in Creations
  BY <1>1 DEF Own, Role
<1>3. containers' \in [Creations -> {None, "alive", "terminated"}]
  BY <1>1 DEF Typed, LifecycleTypeOK
<1>4. WentTo(c, "deleting")
  BY <1>1, <1>3, GoesOn DEF Places, WentTo, Typed, LifecycleTypeOK, Role
<1> QED BY <1>1, <1>2, <1>4

LEMMA DeleteDoes ==
  ASSUME Typed, NEW c \in Calls, Delete(c)
  PROVE  /\ calls[c].at = "deleting" /\ WentTo(c, "over") /\ devices' = None
         /\ UNCHANGED <<containers, initialized>>
<1>1. /\ calls[c].at = "deleting" /\ Goes(c, "over") /\ devices' = None
      /\ UNCHANGED <<containers, initialized>>
  BY DEF Delete, At
<1> QED BY <1>1, GoesOn DEF Places, WentTo, Typed, LifecycleTypeOK

----------------------------------------------------------------------------
LEMMA InitTyped == LifecycleInit => Typed
<1> SUFFICES ASSUME LifecycleInit PROVE Typed
  OBVIOUS
<1>1. \A c \in Calls :
        /\ calls[c].op = None /\ calls[c].at = "not called"
        /\ calls[c] \in Call
  BY DEF LifecycleInit, Call
<1>2. LifecycleTypeOK
  BY <1>1 DEF LifecycleInit, LifecycleTypeOK
<1>3. Roles
  BY <1>1 DEF Roles, Role, None
<1> QED BY <1>2, <1>3 DEF Typed

LEMMA NextTyped == Typed /\ [LifecycleNext]_lifecycleVars => Typed'
<1> SUFFICES ASSUME Typed, [LifecycleNext]_lifecycleVars PROVE Typed'
  OBVIOUS
<1>1. ASSUME NEW c \in Creations,
             createDevice(c) \/ Created(c) \/ CreationFails(c) \/ Register(c) \/ Discard(c)
             \/ InitAdded(c)
      PROVE  Typed'
  BY <1>1, createDeviceDoes, CreatedDoes, CreationFailsDoes, RegisterDoes, DiscardDoes,
     InitAddedDoes DEF HasBegun, WentTo
<1>2. ASSUME NEW c \in Uses, initDevice(c) \/ removeDevice(c) \/ DeviceTerminated(c)
      PROVE  Typed'
  BY <1>2, initDeviceDoes, removeDeviceDoes, DeviceTerminatedDoes DEF HasBegun, WentTo
<1>3. ASSUME NEW c \in Calls,
             Initialized(c) \/ InitFails(c) \/ Reloaded(c) \/ abort(c) \/ Destroyed(c) \/ Delete(c)
      PROVE  Typed'
  BY <1>3, InitializedDoes, InitFailsDoes, ReloadedDoes, abortDoes, DestroyedDoes, DeleteDoes
     DEF WentTo
<1>4. CASE UNCHANGED lifecycleVars
  BY <1>4 DEF lifecycleVars, Typed, LifecycleTypeOK, Roles, Role
<1> QED BY <1>1, <1>2, <1>3, <1>4 DEF LifecycleNext

(* However calls of createDevice, addDevice, initDevice and removeDevice   *)
(* overlap, the registry, the containers and the calls have the types that *)
(* conductor.ts gives them.                                                *)
THEOREM TypeCorrect == LifecycleSpec => []LifecycleTypeOK
<1>1. Typed => LifecycleTypeOK
  BY DEF Typed
<1> QED BY <1>1, InitTyped, NextTyped, PTL DEF LifecycleSpec

(* What is registered keeps its place until it is removed, also when       *)
(* devices are removed during other removals and additions: the double     *)
(* check of createDevice (conductor.ts:670) is enough.                     *)
THEOREM PlaceIsKept == LifecycleSpec => NeverReplaced
<1>1. ASSUME Typed, [LifecycleNext]_lifecycleVars PROVE KeepsItsPlace
  <2>1. ASSUME NEW c \in Creations,
               createDevice(c) \/ Created(c) \/ CreationFails(c) \/ Register(c) \/ Discard(c)
               \/ InitAdded(c)
        PROVE  devices' \in {devices, None} \/ devices = None
    BY <1>1, <2>1, createDeviceDoes, CreatedDoes, CreationFailsDoes, RegisterDoes, DiscardDoes,
       InitAddedDoes DEF Rest
  <2>2. ASSUME NEW c \in Uses, initDevice(c) \/ removeDevice(c) \/ DeviceTerminated(c)
        PROVE  devices' = devices
    BY <1>1, <2>2, initDeviceDoes, removeDeviceDoes, DeviceTerminatedDoes DEF Rest
  <2>3. ASSUME NEW c \in Calls,
               Initialized(c) \/ InitFails(c) \/ Reloaded(c) \/ abort(c) \/ Destroyed(c)
               \/ Delete(c)
        PROVE  devices' \in {devices, None}
    BY <1>1, <2>3, InitializedDoes, InitFailsDoes, ReloadedDoes, abortDoes, DestroyedDoes,
       DeleteDoes DEF Rest
  <2>4. CASE UNCHANGED lifecycleVars
    BY <2>4 DEF lifecycleVars, KeepsItsPlace
  <2> QED BY <1>1, <2>1, <2>2, <2>3, <2>4 DEF LifecycleNext, KeepsItsPlace
<1> QED BY <1>1, InitTyped, NextTyped, PTL DEF LifecycleSpec, NeverReplaced


----------------------------------------------------------------------------
(* The inductive invariant.  Who holds the id is the call that is going to *)
(* remove a device, or to undo its addition; while devices are not removed *)
(* during another removal or an addition, there is at most one such call   *)
(* and what it holds is what is registered.                                *)
Holds(c) ==
  \/ calls[c].at \in Removing
  \/ calls[c].op = "add" /\ calls[c].at \in {"registered"} \cup Initializing

HoldersOwn == \A c \in Calls : Holds(c) => devices # None /\ devices = Own(c)
OneHolder == \A c, d \in Calls : Holds(c) /\ Holds(d) => c = d

\* A container that is not registered yet is in the hands of its creation.
Unregistered ==
  \A c \in Creations :
    /\ calls[c].at \in {"not called", "creating"} => containers[c] = None /\ devices # c
    /\ calls[c].at \in {"created", "discarding"} => containers[c] = "alive" /\ devices # c

Living ==
  \A n \in Creations :
    containers[n] = "alive" => n = devices \/ calls[n].at \in {"created", "discarding"}

Registered ==
  devices # None =>
    \/ containers[devices] = "alive" /\ \A c \in Calls : calls[c].at # "deleting"
    \/ containers[devices] = "terminated" /\ \E c \in Calls : calls[c].at = "deleting"

IInv ==
  /\ Typed
  /\ HoldersOwn /\ OneHolder
  /\ Unregistered /\ Living /\ Registered


LEMMA InitIInv == LifecycleAssumption /\ LifecycleInit => IInv
<1> SUFFICES ASSUME LifecycleAssumption, LifecycleInit PROVE IInv
  OBVIOUS
<1>1. \A c \in Calls : calls[c].op = None /\ calls[c].at = "not called"
  BY DEF LifecycleInit
<1>2. HoldersOwn /\ OneHolder
  BY <1>1 DEF HoldersOwn, OneHolder, Holds, None
<1>3. Unregistered /\ Living /\ Registered
  BY <1>1 DEF LifecycleInit, Unregistered, Living, Registered, Calls, None, LifecycleAssumption
<1> QED BY <1>2, <1>3, InitTyped DEF IInv

(* A call that gains no hold on the id and changes no registration leaves  *)
(* those that hold it as they are.                                         *)
LEMMA HoldersStay ==
  ASSUME IInv, NEW c \in Calls, OthersStay(c), UNCHANGED devices,
         Holds(c)' => Holds(c) /\ Own(c)' = Own(c)
  PROVE  HoldersOwn' /\ OneHolder'
<1>1. \A d \in Calls : Holds(d)' => Holds(d) /\ Own(d)' = Own(d)
  BY DEF OthersStay, Holds, Own
<1> QED BY <1>1 DEF IInv, HoldersOwn, OneHolder

(* A call that is at no stage of a creation, before or after, and does     *)
(* nothing to the registry and the containers, leaves them in order.       *)
LEMMA ContainersStay ==
  ASSUME IInv, NEW c \in Calls, OthersStay(c), UNCHANGED <<devices, containers>>,
         calls'[c].at \notin {"not called", "creating", "created", "discarding", "deleting"},
         calls[c].at \notin {"created", "discarding", "deleting"}
  PROVE  Unregistered' /\ Living' /\ Registered'
<1>1. Unregistered'
  BY DEF IInv, Unregistered, OthersStay, Calls
<1>2. Living'
  BY DEF IInv, Living, OthersStay, Calls
<1>3. (\E d \in Calls : calls[d].at = "deleting") <=> (\E d \in Calls : calls'[d].at = "deleting")
  BY DEF OthersStay
<1>4. Registered'
  BY <1>3 DEF IInv, Registered
<1> QED BY <1>1, <1>2, <1>4

LEMMA createDeviceKeeps ==
  ASSUME IInv, NEW c \in Creations, createDevice(c)
  PROVE  IInv'
<1>1. /\ c \in Calls /\ devices = None /\ devices' = devices /\ containers' = containers
      /\ Typed' /\ OthersStay(c) /\ calls[c].at = "not called" /\ calls'[c].at = "creating"
  BY createDeviceDoes DEF IInv, Rest, HasBegun, Calls
<1>2. HoldersOwn' /\ OneHolder'
  BY <1>1, HoldersStay DEF Holds
<1>3. Unregistered'
  BY <1>1 DEF IInv, Unregistered, OthersStay, Calls
<1>4. Living'
  BY <1>1 DEF IInv, Living, OthersStay, Calls
<1>5. Registered'
  BY <1>1 DEF Registered
<1> QED BY <1>1, <1>2, <1>3, <1>4, <1>5 DEF IInv

LEMMA CreatedKeeps ==
  ASSUME IInv, NEW c \in Creations, Created(c)
  PROVE  IInv'
<1>1. /\ c \in Calls /\ calls[c].at = "creating" /\ devices' = devices
      /\ containers' = [containers EXCEPT ![c] = "alive"]
      /\ Typed' /\ OthersStay(c) /\ calls'[c].at \in {"created", "discarding"}
  BY CreatedDoes DEF IInv, WentTo, Calls
<1>2. devices # c /\ containers' \in [Creations -> {None, "alive", "terminated"}]
  BY <1>1 DEF IInv, Unregistered, Typed, LifecycleTypeOK
<1>3. containers'[c] = "alive" /\ \A n \in Creations : n # c => containers'[n] = containers[n]
  BY <1>1 DEF IInv, Typed, LifecycleTypeOK
<1>4. HoldersOwn' /\ OneHolder'
  BY <1>1, HoldersStay DEF Holds
<1>5. Unregistered'
  BY <1>1, <1>2, <1>3 DEF IInv, Unregistered, OthersStay, Calls
<1>6. Living'
  BY <1>1, <1>2, <1>3 DEF IInv, Living, OthersStay, Calls
<1>7. (\E d \in Calls : calls[d].at = "deleting") <=> (\E d \in Calls : calls'[d].at = "deleting")
  BY <1>1 DEF OthersStay
<1>8. devices # None => containers'[devices] = containers[devices]
  BY <1>2, <1>3 DEF IInv, Typed, LifecycleTypeOK
<1>9. Registered'
  BY <1>1, <1>7, <1>8 DEF IInv, Registered
<1> QED BY <1>1, <1>4, <1>5, <1>6, <1>9 DEF IInv

LEMMA CreationFailsKeeps ==
  ASSUME IInv, NEW c \in Creations, CreationFails(c)
  PROVE  IInv'
<1>1. /\ c \in Calls /\ calls[c].at = "creating" /\ devices' = devices /\ containers' = containers
      /\ Typed' /\ OthersStay(c) /\ calls'[c].at = "over"
  BY CreationFailsDoes DEF IInv, Rest, WentTo, Calls
<1>2. HoldersOwn' /\ OneHolder'
  BY <1>1, HoldersStay DEF Holds
<1>3. Unregistered' /\ Living' /\ Registered'
  BY <1>1, ContainersStay
<1> QED BY <1>1, <1>2, <1>3 DEF IInv

LEMMA RegisterKeeps ==
  ASSUME LifecycleAssumption, IInv, NEW c \in Creations, Register(c)
  PROVE  IInv'
<1>1. /\ c \in Calls /\ calls[c].at = "created" /\ containers' = containers
      /\ Typed' /\ OthersStay(c)
      /\ calls'[c].op = calls[c].op
  BY RegisterDoes DEF IInv, WentTo, Calls
<1>2. devices # c /\ containers[c] = "alive"
  BY <1>1 DEF IInv, Unregistered
<1>3. CASE devices' = devices /\ calls'[c].at = "discarding"
  <2>1. HoldersOwn' /\ OneHolder'
    BY <1>1, <1>3, HoldersStay DEF Holds
  <2>2. Unregistered' /\ Living'
    BY <1>1, <1>3 DEF IInv, Unregistered, Living, OthersStay, Calls
  <2>3. (\E d \in Calls : calls[d].at = "deleting")
           <=> (\E d \in Calls : calls'[d].at = "deleting")
    BY <1>1, <1>3 DEF OthersStay
  <2>4. Registered'
    BY <1>1, <1>3, <2>3 DEF IInv, Registered
  <2> QED BY <1>1, <2>1, <2>2, <2>4 DEF IInv
<1>4. CASE /\ devices = None /\ devices' = c
           /\ calls'[c].at = IF calls[c].op = "add" THEN "registered" ELSE "over"
  <2>1. \A d \in Calls : ~Holds(d)
    BY <1>4 DEF IInv, HoldersOwn
  <2>2. \A d \in Calls : Holds(d)' => d = c
    BY <1>1, <2>1 DEF Holds, OthersStay
  <2>3. Holds(c)' => Own(c)' = c
    BY <1>1, <1>4 DEF Holds, Own
  <2>4. c # None
    BY <1>1, <1>4, <1>2
  <2>5. HoldersOwn' /\ OneHolder'
    BY <1>4, <2>2, <2>3, <2>4 DEF HoldersOwn, OneHolder
  <2>6. calls'[c].at \in {"registered", "over"}
    BY <1>4
  <2>7. Unregistered'
    BY <1>1, <1>4, <2>6 DEF IInv, Unregistered, OthersStay, Calls
  <2>8. Living'
    BY <1>1, <1>4, <2>6 DEF LifecycleAssumption, None, IInv, Living, OthersStay, Calls
  <2>9. \A d \in Calls : calls'[d].at # "deleting"
    BY <1>1, <1>4, <2>1 DEF Holds, OthersStay
  <2>10. Registered'
    BY <1>1, <1>2, <1>4, <2>9 DEF Registered
  <2> QED BY <1>1, <2>5, <2>10, <2>7, <2>8 DEF IInv
<1>5. \/ devices' = devices /\ calls'[c].at = "discarding"
      \/ /\ devices = None /\ devices' = c
         /\ calls'[c].at = IF calls[c].op = "add" THEN "registered" ELSE "over"
  BY RegisterDoes DEF IInv, WentTo
<1> QED BY <1>3, <1>4, <1>5

LEMMA DiscardKeeps ==
  ASSUME IInv, NEW c \in Creations, Discard(c)
  PROVE  IInv'
<1>1. /\ c \in Calls /\ calls[c].at = "discarding" /\ devices' = devices
      /\ containers' = [containers EXCEPT ![c] = "terminated"]
      /\ Typed' /\ OthersStay(c) /\ calls'[c].at = "over"
  BY DiscardDoes DEF IInv, WentTo, Calls
<1>2. devices # c
  BY <1>1 DEF IInv, Unregistered
<1>3. containers'[c] = "terminated" /\ \A n \in Creations : n # c => containers'[n] = containers[n]
  BY <1>1 DEF IInv, Typed, LifecycleTypeOK
<1>4. HoldersOwn' /\ OneHolder'
  BY <1>1, HoldersStay DEF Holds
<1>5. Unregistered'
  BY <1>1, <1>2, <1>3 DEF IInv, Unregistered, OthersStay, Calls
<1>6. Living'
  BY <1>1, <1>2, <1>3 DEF IInv, Living, OthersStay, Calls
<1>7. (\E d \in Calls : calls[d].at = "deleting") <=> (\E d \in Calls : calls'[d].at = "deleting")
  BY <1>1 DEF OthersStay
<1>8. devices # None => containers'[devices] = containers[devices]
  BY <1>2, <1>3 DEF IInv, Typed, LifecycleTypeOK
<1>9. Registered'
  BY <1>1, <1>7, <1>8 DEF IInv, Registered
<1> QED BY <1>1, <1>4, <1>5, <1>6, <1>9 DEF IInv

LEMMA InitAddedKeeps ==
  ASSUME IInv, NEW c \in Creations, InitAdded(c)
  PROVE  IInv'
<1>1. /\ c \in Calls /\ calls[c].at = "registered" /\ calls[c].op = "add"
      /\ devices' = devices /\ containers' = containers
      /\ Typed' /\ OthersStay(c)
      /\ calls'[c].at \in {"undoing", "initializing"} /\ calls'[c].op = "add"
  BY InitAddedDoes DEF IInv, WentTo, Rest, Calls
<1>2. HoldersOwn' /\ OneHolder'
  BY <1>1, HoldersStay DEF Holds, Own
<1>3. Unregistered' /\ Living' /\ Registered'
  BY <1>1, ContainersStay
<1> QED BY <1>1, <1>2, <1>3 DEF IInv

(* initDevice holds nothing, whatever becomes of it. *)
LEMMA initDeviceKeeps ==
  ASSUME IInv, NEW c \in Uses, initDevice(c)
  PROVE  IInv'
<1>1. /\ c \in Calls /\ devices' = devices /\ containers' = containers
      /\ Typed' /\ OthersStay(c)
      /\ calls[c].at = "not called" /\ calls'[c].at = "initializing" /\ calls'[c].op = "init"
  BY initDeviceDoes DEF IInv, HasBegun, Rest, Calls
<1>2. HoldersOwn' /\ OneHolder'
  BY <1>1, HoldersStay DEF Holds, Own
<1>3. Unregistered' /\ Living' /\ Registered'
  BY <1>1, ContainersStay
<1> QED BY <1>1, <1>2, <1>3 DEF IInv

\* Steps of an initialisation that is under way.
LEMMA InitializationKeeps ==
  ASSUME IInv, NEW c \in Calls, Initialized(c) \/ InitFails(c) \/ Reloaded(c)
  PROVE  IInv'
<1>1. /\ devices' = devices /\ containers' = containers
      /\ Typed' /\ OthersStay(c)
      /\ calls[c].at \in Initializing /\ calls'[c].at \in {"reloading", "over", "undoing"}
      /\ calls'[c].at = "undoing" => calls[c].op = "add"
      /\ calls'[c].op = calls[c].op /\ calls'[c].device = calls[c].device
  BY InitializedDoes, InitFailsDoes, ReloadedDoes DEF IInv, WentTo, Rest
<1>2. HoldersOwn' /\ OneHolder'
  BY <1>1, HoldersStay DEF Holds, Own
<1>3. Unregistered' /\ Living' /\ Registered'
  BY <1>1, ContainersStay
<1> QED BY <1>1, <1>2, <1>3 DEF IInv

LEMMA abortKeeps ==
  ASSUME IInv, NEW c \in Calls, abort(c)
  PROVE  IInv'
<1>1. /\ devices' = devices /\ containers' = containers
      /\ Typed' /\ OthersStay(c) /\ calls'[c].at = calls[c].at
      /\ calls'[c].op = calls[c].op /\ calls'[c].device = calls[c].device
  BY abortDoes DEF IInv, WentTo, Rest
<1>2. HoldersOwn' /\ OneHolder'
  BY <1>1, HoldersStay DEF Holds, Own
<1>3. Unregistered' /\ Living'
  BY <1>1 DEF IInv, Unregistered, Living, OthersStay, Calls
<1>4. \A d \in Calls : calls'[d].at = calls[d].at
  BY <1>1 DEF OthersStay
<1>5. Registered'
  BY <1>1, <1>4 DEF IInv, Registered
<1> QED BY <1>1, <1>2, <1>3, <1>5 DEF IInv

(* Nobody holds the id when a removal begins: those who do are undecided.  *)
LEMMA removeDeviceKeeps ==
  ASSUME LifecycleAssumption, IInv, ~MayOverlap, NEW c \in Uses, removeDevice(c)
  PROVE  IInv'
<1>1. /\ c \in Calls /\ devices # None /\ devices' = devices /\ containers' = containers
      /\ Typed' /\ OthersStay(c)
      /\ calls[c].at = "not called"
      /\ calls'[c].at = "terminating" /\ calls'[c].op = "remove" /\ calls'[c].device = devices
      /\ \A d \in Calls : ~Undecided(d)
  BY removeDeviceDoes DEF LifecycleAssumption, None, IInv, HasBegun, Rest, Calls, Typed, LifecycleTypeOK
<1>2. \A d \in Calls : ~Holds(d)
  BY <1>1 DEF Holds, Undecided
<1>3. \A d \in Calls : Holds(d)' => d = c
  BY <1>1, <1>2 DEF Holds, OthersStay
<1>4. Own(c)' = devices'
  BY <1>1 DEF Own
<1>5. HoldersOwn' /\ OneHolder'
  BY <1>1, <1>3, <1>4 DEF HoldersOwn, OneHolder
<1>6. Unregistered' /\ Living' /\ Registered'
  BY <1>1, ContainersStay
<1> QED BY <1>1, <1>5, <1>6 DEF IInv

LEMMA DeviceTerminatedKeeps ==
  ASSUME IInv, NEW c \in Uses, DeviceTerminated(c)
  PROVE  IInv'
<1>1. /\ c \in Calls /\ devices' = devices /\ containers' = containers
      /\ Typed' /\ OthersStay(c)
      /\ calls[c].at = "terminating" /\ calls'[c].at = "destroying"
      /\ calls'[c].op = calls[c].op /\ calls'[c].device = calls[c].device
  BY DeviceTerminatedDoes DEF IInv, WentTo, Rest, Calls
<1>2. HoldersOwn' /\ OneHolder'
  BY <1>1, HoldersStay DEF Holds, Own
<1>3. Unregistered' /\ Living' /\ Registered'
  BY <1>1, ContainersStay
<1> QED BY <1>1, <1>2, <1>3 DEF IInv

(* What a call terminates is what it holds, which is what is registered. *)
LEMMA DestroyedKeeps ==
  ASSUME IInv, NEW c \in Calls, Destroyed(c)
  PROVE  IInv'
<1>1. /\ calls[c].at \in {"destroying", "undoing"} /\ calls'[c].at = "deleting"
      /\ Own(c) \in Creations /\ devices' = devices
      /\ containers' = [containers EXCEPT ![Own(c)] = "terminated"]
      /\ Typed' /\ OthersStay(c)
      /\ calls'[c].op = calls[c].op /\ calls'[c].device = calls[c].device
  BY DestroyedDoes DEF IInv, WentTo
<1>2. devices # None /\ devices = Own(c)
  BY <1>1 DEF IInv, HoldersOwn, Holds
<1>3. /\ containers'[devices] = "terminated"
      /\ \A n \in Creations : n # devices => containers'[n] = containers[n]
  BY <1>1, <1>2 DEF IInv, Typed, LifecycleTypeOK
<1>4. HoldersOwn' /\ OneHolder'
  BY <1>1, HoldersStay DEF Holds, Own
<1>5. Unregistered'
  BY <1>1, <1>3 DEF IInv, Unregistered, OthersStay, Calls
<1>6. Living'
  BY <1>1, <1>3 DEF IInv, Living, OthersStay, Calls
<1>7. Registered'
  BY <1>1, <1>3 DEF Registered
<1> QED BY <1>1, <1>4, <1>5, <1>6, <1>7 DEF IInv

LEMMA DeleteKeeps ==
  ASSUME LifecycleAssumption, IInv, NEW c \in Calls, Delete(c)
  PROVE  IInv'
<1>1. /\ calls[c].at = "deleting" /\ calls'[c].at = "over"
      /\ devices' = None /\ containers' = containers
      /\ Typed' /\ OthersStay(c)
  BY DeleteDoes DEF IInv, WentTo
<1>2. devices # None /\ containers[devices] # "alive"
  BY <1>1 DEF IInv, HoldersOwn, Holds, Registered
<1>3. \A d \in Calls : ~Holds(d)'
  BY <1>1 DEF IInv, OneHolder, Holds, OthersStay
<1>4. HoldersOwn' /\ OneHolder'
  BY <1>3 DEF HoldersOwn, OneHolder
<1>5. Unregistered'
  BY <1>1 DEF LifecycleAssumption, None, IInv, Unregistered, OthersStay, Calls
<1>6. Living'
  BY <1>1, <1>2 DEF IInv, Living, OthersStay, Calls
<1>7. Registered'
  BY <1>1 DEF Registered
<1> QED BY <1>1, <1>4, <1>5, <1>6, <1>7 DEF IInv

LEMMA NextIInv == LifecycleAssumption /\ ~MayOverlap /\ IInv /\ [LifecycleNext]_lifecycleVars => IInv'
<1> SUFFICES ASSUME LifecycleAssumption, ~MayOverlap, IInv, [LifecycleNext]_lifecycleVars PROVE IInv'
  OBVIOUS
<1>1. ASSUME NEW c \in Creations,
             createDevice(c) \/ Created(c) \/ CreationFails(c) \/ Register(c) \/ Discard(c)
             \/ InitAdded(c)
      PROVE  IInv'
  BY <1>1, createDeviceKeeps, CreatedKeeps, CreationFailsKeeps, RegisterKeeps, DiscardKeeps,
     InitAddedKeeps
<1>2. ASSUME NEW c \in Uses, initDevice(c) \/ removeDevice(c) \/ DeviceTerminated(c)
      PROVE  IInv'
  BY <1>2, initDeviceKeeps, removeDeviceKeeps, DeviceTerminatedKeeps
<1>3. ASSUME NEW c \in Calls,
             Initialized(c) \/ InitFails(c) \/ Reloaded(c) \/ abort(c) \/ Destroyed(c) \/ Delete(c)
      PROVE  IInv'
  BY <1>3, InitializationKeeps, abortKeeps, DestroyedKeeps, DeleteKeeps
<1>4. CASE UNCHANGED lifecycleVars
  BY <1>4 DEF lifecycleVars, IInv, Typed, LifecycleTypeOK, Roles, Role, HoldersOwn, OneHolder, Holds, Own,
     Unregistered, Living, Registered
<1> QED BY <1>1, <1>2, <1>3, <1>4 DEF LifecycleNext

(* Unless a device is removed while it is being removed or added, no       *)
(* container is lost and none is registered that has been terminated,      *)
(* however creations, additions, initialisations and aborts overlap.       *)
THEOREM NothingIsLost ==
  ASSUME LifecycleAssumption, ~MayOverlap
  PROVE  LifecycleSpec => []NoOrphan
<1>1. LifecycleInit => IInv
  BY InitIInv
<1>2. IInv /\ [LifecycleNext]_lifecycleVars => IInv'
  BY NextIInv
<1>3. ASSUME IInv PROVE NoOrphan
  <2>1. ASSUME NEW n \in Creations, containers[n] = "alive"
        PROVE  n = devices \/ \E c \in Calls : Own(c) = n /\ calls[c].at \in Creating \cup Removing
    <3>1. n \in Calls /\ (n = devices \/ calls[n].at \in {"created", "discarding"})
      BY <1>3, <2>1 DEF IInv, Living, Calls
    <3>2. CASE calls[n].at \in {"created", "discarding"}
      <4>1. Own(n) = n
        BY <1>3, <3>1, <3>2 DEF IInv, Typed, Roles, Role, Own
      <4> QED BY <3>1, <3>2, <4>1
    <3> QED BY <3>1, <3>2
  <2>2. ASSUME NEW n \in Creations, n = devices, n # None, containers[n] # "alive"
        PROVE  \E c \in Calls : Own(c) = n /\ At(c, "deleting")
    <3>1. PICK c \in Calls : calls[c].at = "deleting"
      BY <1>3, <2>2 DEF IInv, Registered
    <3>2. Own(c) = n
      BY <1>3, <2>2, <3>1 DEF IInv, HoldersOwn, Holds
    <3> QED BY <3>1, <3>2 DEF At
  <2>3. None \notin Creations
    BY DEF LifecycleAssumption, None
  <2> QED BY <2>1, <2>2, <2>3 DEF NoOrphan
<1> QED BY <1>1, <1>2, <1>3, PTL DEF LifecycleSpec
=============================================================================
