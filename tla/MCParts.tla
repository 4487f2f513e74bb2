------------------------------- MODULE MCParts -------------------------------
(***************************************************************************)
(* Model checking of what surrounds the resolve loop in the conductor, and *)
(* of a device with a log, each part alone: which of them runs is chosen   *)
(* in the initial state, and the others stay in theirs, where all that is  *)
(* said of them holds.                                                     *)
(***************************************************************************)
EXTENDS TimelineCallbacks, DeviceLifecycle, ConductorDatastore, AbstractDevice

VARIABLES part

ASSUME CallbacksAssumption /\ LifecycleAssumption
ASSUME DoOnTimeAssumption /\ DeviceAssumption

\* The states of a filter, and what is left of a plan by states handed over, as they come about:
\* one after the other.
Some == {s \in RememberedState : s.start = 1 /\ \A k \in DOMAIN s.references : s.references[k]}
Planned == [t \in Instant |-> [k \in {} |-> t]]
FilteredOneByOne ==
  \A ss \in BoundedSeq(Some, 3) : \A t \in Instant :
    Filtered(ss, {i \in DOMAIN ss : ss[i].time > t})
      = SelectSeq(ss, LAMBDA s : s.time > t)
HandedOneByOne ==
  \A ss \in BoundedSeq(Some, 3), value \in Values :
    LET store == [k \in StoreKeys |-> [value |-> value, modified |-> 2]]
        hand(p, s) == Handed(store, p, <<s>>)
    IN Handed(store, Planned, ss) = FoldLeft(hand, Planned, ss)
ASSUME FilteredOneByOne /\ HandedOneByOne

partsVars == <<part, callbacksVars, lifecycleVars, datastoreVars, allVars>>

PartsInit ==
  /\ part \in {"callbacks", "lifecycle", "datastore", "device"}
  /\ CallbacksInit /\ LifecycleInit /\ DatastoreInit /\ DeviceInit

Calling(A_) ==
  part = "callbacks" /\ A_ /\ UNCHANGED <<part, lifecycleVars, datastoreVars, allVars>>
Living(A_) ==
  part = "device" /\ A_ /\ UNCHANGED <<part, callbacksVars, lifecycleVars, datastoreVars>>

PartsNext ==
  \/ Calling(CallbacksNext)
  \/ part = "lifecycle" /\ LifecycleNext
     /\ UNCHANGED <<part, callbacksVars, datastoreVars, allVars>>
  \/ part = "datastore" /\ DatastoreNext
     /\ UNCHANGED <<part, callbacksVars, lifecycleVars, allVars>>
  \/ Living(DeviceNext)

\* Every part keeps the fairness of its module: timers fire, and the time passes.
PartsSpec ==
  /\ PartsInit /\ [][PartsNext]_partsVars
  /\ WF_partsVars(Calling(_sendStartStopCallbacks)) /\ WF_partsVars(Calling(TimePasses))
  /\ WF_partsVars(Living(DeviceCheck)) /\ WF_partsVars(Living(DeviceTick))

----------------------------------------------------------------------------
\* The type invariants of the parts.
PartsTypeOK == CallbacksTypeOK /\ LifecycleTypeOK /\ DatastoreTypeOK /\ DeviceTypeOK
=============================================================================
