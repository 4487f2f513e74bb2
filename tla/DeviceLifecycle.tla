--------------------------- MODULE DeviceLifecycle ---------------------------
(***************************************************************************)
(* conductor.ts: createDevice, initDevice, addDevice and removeDevice for  *)
(* one device id, and the containers they make (RemoteDeviceInstance and   *)
(* DeviceContainer).  Calls overlap as they please; an action is what one  *)
(* of them does between two awaits.  A call that was aborted has rejected, *)
(* but what it had begun goes on.  A call that is refused at once changes  *)
(* nothing and is no action.                                               *)
(***************************************************************************)
EXTENDS Naturals

CONSTANTS
  Creations,      \* bound: calls of createDevice and addDevice
  Uses,           \* bound: calls of initDevice and removeDevice
  MayOverlap,     \* a device is removed while it is removed or added
  MayInitAgain    \* a device is initialised while it is being initialised

LifecycleAssumption ==
  /\ Creations \cap Uses = {} /\ "none" \notin Creations
  /\ MayOverlap \in BOOLEAN /\ MayInitAgain \in BOOLEAN

VARIABLES
  devices,        \* devices.get(deviceId): the call that made it, or None
  containers,     \* by the call that made it: what has become of a container
  initialized,    \* containers with _initialized
  calls           \* the calls, and where they are

lifecycleVars == <<devices, containers, initialized, calls>>

Calls == Creations \cup Uses
None == "none"
Creating == {"creating", "created", "discarding", "registered"}
Initializing == {"initializing", "reloading"}
Removing == {"terminating", "destroying", "undoing", "deleting"}
Call == [op : {None, "create", "add", "init", "remove"},
         at : Creating \cup Initializing \cup Removing \cup {"not called", "over"},
         device : Creations \cup {None},   \* what it initializes or removes
         aborted : BOOLEAN]

LifecycleTypeOK ==
  /\ devices \in Creations \cup {None}
  /\ containers \in [Creations -> {None, "alive", "terminated"}]
  /\ initialized \in SUBSET Creations
  /\ calls \in [Calls -> Call]

LifecycleInit ==
  /\ devices = None
  /\ containers = [c \in Creations |-> None]
  /\ initialized = {}
  /\ calls = [c \in Calls |->
                [op |-> None, at |-> "not called", device |-> None, aborted |-> FALSE]]

At(c, where) == calls[c].at = where
Goes(c, where) == calls' = [calls EXCEPT ![c].at = where]
Begin(c, op, where, device) ==
  /\ At(c, "not called")
  /\ calls' = [calls EXCEPT ![c] = [op |-> op, at |-> where, device |-> device, aborted |-> FALSE]]
Terminated(n) == containers' = [containers EXCEPT ![n] = "terminated"]

----------------------------------------------------------------------------
\* createDevice, by itself or by addDevice: a container is being created.
createDevice(c) ==
  /\ devices = None
  /\ \E op \in {"create", "add"} : Begin(c, op, "creating", None)
  /\ UNCHANGED <<devices, containers, initialized>>

\* It has been.  A creation that was aborted meanwhile cleans up.
AfterCreationUnchecked(c) == IF calls[c].aborted THEN "over" ELSE "created"
AfterCreation(c) == IF calls[c].aborted THEN "discarding" ELSE "created"

Created(c) ==
  /\ At(c, "creating")
  /\ containers' = [containers EXCEPT ![c] = "alive"]
  /\ Goes(c, AfterCreation(c))
  /\ UNCHANGED <<devices, initialized>>

CreationFails(c) ==
  /\ At(c, "creating")
  /\ Goes(c, "over")
  /\ UNCHANGED <<devices, containers, initialized>>

\* The double check, then the container is registered.
IsUnwantedIfAborted(c) == calls[c].aborted
IsUnwanted(c) == devices # None \/ calls[c].aborted

Register(c) ==
  /\ At(c, "created")
  /\ IF IsUnwanted(c)
     THEN Goes(c, "discarding") /\ UNCHANGED devices
     ELSE /\ devices' = c
          /\ Goes(c, IF calls[c].op = "add" THEN "registered" ELSE "over")
  /\ UNCHANGED <<containers, initialized>>

Discard(c) ==
  /\ At(c, "discarding")
  /\ Terminated(c)
  /\ Goes(c, "over")
  /\ UNCHANGED <<devices, initialized>>

----------------------------------------------------------------------------
\* The container that a call will terminate if it comes to that.
Own(c) == IF calls[c].op = "remove" THEN calls[c].device ELSE c

(* initDevice.  The container is asked whether it is initialized, which it *)
(* is only when its device's init has answered.                            *)
BeingInitialized(n) == \E d \in Calls : At(d, "initializing") /\ calls[d].device = n
MayInit(n) ==
  /\ n # None
  /\ n \notin initialized
  /\ MayInitAgain \/ (~BeingInitialized(n) /\ ~At(n, "registered"))

initDevice(c) ==
  /\ MayInit(devices)
  /\ Begin(c, "init", "initializing", devices)
  /\ UNCHANGED <<devices, containers, initialized>>

(* addDevice goes on with whatever has the id by then: its device may have *)
(* been removed or initialized.                                            *)
InitAdded(c) ==
  /\ At(c, "registered")
  /\ IF devices # None /\ devices \notin initialized
     THEN calls' = [calls EXCEPT ![c].at = "initializing", ![c].device = devices]
     ELSE Goes(c, "undoing")
  /\ UNCHANGED <<devices, containers, initialized>>

Initialized(c) ==
  /\ At(c, "initializing")
  /\ initialized' = initialized \cup {calls[c].device}
  /\ Goes(c, IF calls[c].aborted THEN "over" ELSE "reloading")
  /\ UNCHANGED <<devices, containers>>

InitFails(c) ==
  /\ At(c, "initializing") \/ At(c, "reloading")
  /\ Goes(c, IF calls[c].op = "add" THEN "undoing" ELSE "over")
  /\ UNCHANGED <<devices, containers, initialized>>

Reloaded(c) ==
  /\ At(c, "reloading")
  /\ Goes(c, "over")
  /\ UNCHANGED <<devices, containers, initialized>>

\* The caller's signal: of createDevice and initDevice, not of the others.
abort(c) ==
  /\ calls[c].op \in {"create", "init"}
  /\ calls[c].at \in {"creating", "created"} \cup Initializing
  /\ ~calls[c].aborted
  /\ calls' = [calls EXCEPT ![c].aborted = TRUE]
  /\ UNCHANGED <<devices, containers, initialized>>

----------------------------------------------------------------------------
Undecided(c) ==
  \/ calls[c].at \in Removing
  \/ calls[c].op = "add" /\ calls[c].at \in Creating \cup Initializing

removeDevice(c) ==
  /\ devices # None
  /\ MayOverlap \/ \A d \in Calls : ~Undecided(d)
  /\ Begin(c, "remove", "terminating", devices)
  /\ UNCHANGED <<devices, containers, initialized>>

\* The device has terminated, or failed to, or took too long.
DeviceTerminated(c) ==
  /\ At(c, "terminating")
  /\ Goes(c, "destroying")
  /\ UNCHANGED <<devices, containers, initialized>>

\* The container is terminated, by removeDevice or by an addDevice that failed ...
Destroyed(c) ==
  /\ At(c, "destroying") \/ At(c, "undoing")
  /\ Terminated(Own(c))
  /\ Goes(c, "deleting")
  /\ UNCHANGED <<devices, initialized>>

\* ... and whatever has the id is no longer registered.
Delete(c) ==
  /\ At(c, "deleting")
  /\ devices' = None
  /\ Goes(c, "over")
  /\ UNCHANGED <<containers, initialized>>

LifecycleNext ==
  \/ \E c \in Creations :
       \/ createDevice(c) \/ Created(c) \/ CreationFails(c) \/ Register(c) \/ Discard(c)
       \/ InitAdded(c)
  \/ \E c \in Uses : initDevice(c) \/ removeDevice(c) \/ DeviceTerminated(c)
  \/ \E c \in Calls :
       \/ Initialized(c) \/ InitFails(c) \/ Reloaded(c)
       \/ abort(c)
       \/ Destroyed(c) \/ Delete(c)

LifecycleSpec == LifecycleInit /\ [][LifecycleNext]_lifecycleVars

----------------------------------------------------------------------------
(* No container is lost: one that runs is registered, or a call that is    *)
(* under way will register it or terminate it, also when its creation was  *)
(* aborted.  One that is registered runs, unless it is just being removed. *)
NoOrphan ==
  \A n \in Creations :
    /\ containers[n] = "alive" =>
         n = devices \/ \E c \in Calls :
                            Own(c) = n /\ calls[c].at \in Creating \cup Removing
    /\ n = devices /\ containers[n] # "alive" =>
         \E c \in Calls : Own(c) = n /\ At(c, "deleting")

(* No device takes the place of another with the same id, however many     *)
(* creations of it overlap: it must be removed first.                      *)
KeepsItsPlace == devices # None => devices' \in {devices, None}
NeverReplaced == [][KeepsItsPlace]_lifecycleVars

(* The device's own init never runs twice at once, nor again once it has   *)
(* succeeded: initDevice refuses a device that "is already initialized"    *)
(* (conductor.ts:729).                                                     *)
InitializedOnce ==
  \A c \in Calls :
    At(c, "initializing") =>
      /\ calls[c].device \notin initialized
      /\ \A d \in Calls : At(d, "initializing") /\ calls[d].device = calls[c].device => d = c
=============================================================================
