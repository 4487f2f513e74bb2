------------------------- MODULE ConductorDatastore -------------------------
(***************************************************************************)
(* conductor.ts, _setDeviceState and setDatastore, for one device: which   *)
(* of the states handed over are remembered, and how those that still      *)
(* matter are handed over again when the values they refer to change.      *)
(*                                                                         *)
(* Both run inside the action queue of the conductor and call the device   *)
(* without waiting, so each is one step, and the device gets its calls in  *)
(* the order they are made.  `plan' is what the device makes of them:      *)
(* DeviceWithState and the state handler alike replace what they have for  *)
(* the time of a new state and after it.                                   *)
(***************************************************************************)
EXTENDS Naturals, Sequences, SequencesExt, FiniteSets

CONSTANTS
  StoreKeys, Values,
  NoValue,      \* not in the datastore: the object keeps its own content
  LastInstant,  \* bound: the time stops here
  MaxAhead,     \* bound: states remembered for after now
  Straddle,     \* the millisecond may change between two reads of the clock
  Touch         \* a value may be stored again, unchanged, as modified

ASSUME DatastoreAssumption ==
  /\ NoValue \notin Values
  /\ LastInstant \in Nat \ {0} /\ MaxAhead \in Nat
  /\ Straddle \in BOOLEAN /\ Touch \in BOOLEAN

VARIABLES
  instant,        \* getCurrentTime()
  datastore,      \* _datastore: a value and when it was modified
  deviceStates,   \* _deviceStates[deviceId]
  plan            \* the device: by time, what each reference was filled with

datastoreVars == <<instant, datastore, deviceStates, plan>>

Instant == 1 .. LastInstant
Entry == [value : Values \cup {NoValue}, modified : 0 .. LastInstant]
\* The references of a state, each with its `overwrite' flag, and the start
\* of the object that makes them.
References == UNION {[K -> BOOLEAN] : K \in SUBSET StoreKeys}
RememberedState == [time : Instant, start : Instant, references : References]
Filling == UNION {[K -> Values \cup {NoValue}] : K \in SUBSET StoreKeys}

\* The indices of the states remembered for after a time.
Ahead(at) == {i \in DOMAIN deviceStates : deviceStates[i].time > at}

DatastoreTypeOK ==
  /\ instant \in Instant
  /\ datastore \in [StoreKeys -> Entry]
  /\ deviceStates \in Seq(RememberedState)
  /\ Cardinality(Ahead(instant)) <= MaxAhead
  /\ DOMAIN plan \subseteq Instant
  /\ \A t \in DOMAIN plan : plan[t] \in Filling

DatastoreInit ==
  /\ instant = 1
  /\ datastore = [k \in StoreKeys |-> [value |-> NoValue, modified |-> 0]]
  /\ deviceStates = <<>>
  /\ plan = <<>>

----------------------------------------------------------------------------
fillWithEntries(s, store) == [k \in DOMAIN s.references |-> store[k]]
fillStateFromDatastore(s, store) ==
  [k \in DOMAIN s.references |->
     IF s.references[k] /\ s.start > store[k].modified
     THEN NoValue
     ELSE store[k].value]

(* The device is handed states one after the other, and each takes the     *)
(* place of all that is planned for its time and after it.                 *)
Handed(store, p, states) ==
  LET kept == {t \in DOMAIN p : \A i \in DOMAIN states : t < states[i].time}
      stay == {i \in DOMAIN states :
                 \A j \in DOMAIN states : j > i => states[j].time > states[i].time}
  IN [t \in kept \cup {states[i].time : i \in stay} |->
        IF t \in kept THEN p[t]
        ELSE fillStateFromDatastore(states[CHOOSE i \in stay : states[i].time = t], store)]

\* Those states of an array that are at the indices in S, in their order.
Filtered(states, S) ==
  LET index(k) == CHOOSE i \in S : Cardinality({j \in S : j < i}) = k - 1
  IN [k \in 1 .. Cardinality(S) |-> states[index(k)]]

\* [].concat(found) for a find: at most one state, the last that has come.
Come(states, at) == {i \in DOMAIN states : states[i].time <= at}
FirstCome(states, at) ==
  Filtered(states, {i \in Come(states, at) : \A j \in Come(states, at) : i <= j})
LastCome(states, at) ==
  Filtered(states, {i \in Come(states, at) : \A j \in Come(states, at) : j <= i})

ClockReads == IF Straddle THEN {instant, instant + 1} \cap Instant ELSE {instant}

(* The array is reversed in place for the find, and in place again for the *)
(* filter; the copy that filter returns is reversed once more.             *)
_setDeviceState(s) ==
  \E later \in ClockReads :
    LET between == Filtered(deviceStates, {i \in Ahead(later) : deviceStates[i].time < s.time})
    IN /\ Len(between) + 1 <= MaxAhead
       /\ deviceStates' = LastCome(deviceStates, instant) \o Reverse(between) \o <<s>>
       /\ plan' = Handed(datastore, plan, <<s>>)
       /\ instant' = later
       /\ UNCHANGED datastore

ChangedInNew(store) ==
  {k \in StoreKeys : store[k].value \notin {datastore[k].value, NoValue}}
Changed(store) == {k \in StoreKeys : store[k].value # datastore[k].value}

(* Every value that changed, at the states of the device that depend on it. *)
(* Handing the states over once for every such key leaves the same plan.   *)
setDatastore(store) ==
  \E later \in ClockReads :
    LET affected == \E i \in DOMAIN deviceStates :
                      Changed(store) \cap DOMAIN deviceStates[i].references # {}
        toBeFilled == LastCome(deviceStates, instant) \o Filtered(deviceStates, Ahead(later))
    IN /\ datastore' = store
       /\ plan' = IF affected THEN Handed(store, plan, toBeFilled) ELSE plan
       /\ instant' = later
       /\ UNCHANGED deviceStates

\* Some keys are written or removed, the others are left as they are.
Stores ==
  {store \in [StoreKeys -> Entry] : \A k \in StoreKeys :
     \/ store[k] = datastore[k]
     \/ /\ store[k].modified = instant
        /\ Touch \/ store[k].value # datastore[k].value}

InstantPasses ==
  /\ instant < LastInstant
  /\ instant' = instant + 1
  /\ UNCHANGED <<datastore, deviceStates, plan>>

DatastoreNext ==
  \/ \E s \in RememberedState : s.start <= s.time /\ _setDeviceState(s)
  \/ \E store \in Stores : setDatastore(store)
  \/ InstantPasses

DatastoreSpec == DatastoreInit /\ [][DatastoreNext]_datastoreVars

----------------------------------------------------------------------------
(* What the device will still show: its current state, and those to come.  *)
Live ==
  {t \in DOMAIN plan : \A u \in DOMAIN plan : u <= instant => u <= t}

\* What setDatastore would hand over again.
Again == LastCome(deviceStates, instant) \o Filtered(deviceStates, Ahead(instant))

(* The states remembered are those between the current state and the new   *)
(* one (line 1216): what setDatastore would hand over again is exactly     *)
(* what the device will still show, in the order of time, so that nothing  *)
(* comes back that was replaced and nothing planned is dropped.            *)
PlanIsRemembered ==
  /\ \A i, j \in DOMAIN Again : i < j => Again[i].time < Again[j].time
  /\ {Again[i].time : i \in DOMAIN Again} = Live

(* Whatever the device will still show is filled with the values that the  *)
(* datastore has at the moment, however resolves and changes of the store  *)
(* follow each other.  An `overwrite' reference takes the value only when  *)
(* it was modified after the object started (types, index.ts:102).         *)
ValuesAreFresh ==
  \A i \in DOMAIN Again :
    plan[Again[i].time] = fillStateFromDatastore(Again[i], datastore)
=============================================================================
