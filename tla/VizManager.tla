----------------------------- MODULE VizManager -----------------------------
(***************************************************************************)
(* integrations/vizMSE/vizMSEManager.ts: the elements that the timeline    *)
(* will use are created in the MSE ahead of time, loaded and watched.  The *)
(* cache holds what the device knows of them; Core hears of the pilot      *)
(* elements (media objects).  Three chains of callbacks run the same       *)
(* update, a thread each.  An answer of the MSE is used when it comes, and *)
(* answers at once; what is remembered from before a question may be old.  *)
(* preloadAllElements is on and all items belong to the playlist.          *)
(***************************************************************************)
EXTENDS Naturals, Sequences, FiniteSets, Functions

CONSTANTS
  Elements, Internal,     \* templates of the one show; the others are pilot elements
  Keep,                   \* items of the baseline
  AutoLoad,               \* autoLoadInternalElements
  PurgeUnknown,           \* purgeUnknownElements
  MaxChanges, MaxActivations, MaxTakes,  \* bounds
  MaxTroubles,            \* bound: engine restarts, lost connections and reloads together
  MayOverlap,             \* an update starts while another one is under way
  MayTakeUnexpected,      \* an element that is not expected, or is being deleted, is taken
  MayReactivate,          \* a rundown is activated while a take waits, or is purged again of
                          \* what is still in the cache
  MayCleanUp              \* a show is cleaned up, or purged when it is initialized

Pilots == Elements \ Internal
Monitor == "monitor"  Loader == "loader"  Expecting == "expecting"
Threads == {Monitor, Loader, Expecting}

VizManagerAssumption ==
  /\ IsFiniteSet(Elements) /\ Internal \subseteq Elements /\ Keep \subseteq Pilots
  /\ {AutoLoad, PurgeUnknown, MayOverlap, MayTakeUnexpected,
      MayReactivate, MayCleanUp} \subseteq BOOLEAN
  /\ {MaxChanges, MaxActivations, MaxTakes, MaxTroubles} \subseteq Nat

VARIABLES
  mse,        \* external: what the MSE has of each element
  cache,      \* _elementCache
  media,      \* the pilot elements that Core believes loaded
  expected,   \* _expectedPlayoutItems
  active,     \* _hasActiveRundown
  thread,     \* the three updates
  doomed,     \* elements that a timer will delete
  deleting,   \* elements that the MSE is being asked to delete
  takes,      \* elements whose take waits for their preparation
  failed,     \* a take found its element missing
  flags,      \* _mseConnected, _updateAfterReconnect and _initializedShows
  happened
managerVars == <<mse, cache, media, expected, active, thread, doomed, deleting, takes, failed, flags, happened>>

Partial(S, T) == UNION {[D -> T] : D \in SUBSET S}
Cached == [isLoaded : BOOLEAN, isLoading : BOOLEAN, wasLoaded : BOOLEAN, isExpected : BOOLEAN,
           requested : BOOLEAN, toDelete : BOOLEAN]
\* `seen' holds the cached objects of an update: SameObject while it is the one in the cache.
SameObject == <<>>
Held == {SameObject} \cup {<<c>> : c \in Cached}
Update == [at : {"idle", "preparing", "updating", "updated", "loading"}, items : SUBSET Elements,
           forced : BOOLEAN, again : BOOLEAN, activates : BOOLEAN, seen : Partial(Elements, Held)]

ManagerTypeOK ==
  /\ mse \in [Elements -> {"absent", "unloaded", "loading", "loaded"}]
  /\ cache \in Partial(Elements, Cached)
  /\ media \subseteq Pilots /\ expected \subseteq Elements /\ active \in BOOLEAN
  /\ thread \in [Threads -> Update]
  /\ doomed \subseteq Elements /\ deleting \subseteq Elements /\ takes \subseteq Elements
  /\ failed \in BOOLEAN
  /\ flags \in [connected : BOOLEAN, updateAfterReconnect : BOOLEAN, showInitialized : BOOLEAN]
  /\ happened \in [changes : Nat, activations : Nat, takes : Nat, troubles : Nat]

None == [e \in {} |-> SameObject]
Idle == [at |-> "idle", items |-> {}, forced |-> FALSE, again |-> FALSE,
         activates |-> FALSE, seen |-> None]

ManagerInit ==
  /\ mse = [e \in Elements |-> "absent"] /\ cache = None /\ media = {}
  /\ expected = {} /\ active = FALSE
  /\ thread = [t \in Threads |-> Idle]
  /\ doomed = {} /\ deleting = {} /\ takes = {} /\ failed = FALSE
  /\ flags = [connected |-> TRUE, updateAfterReconnect |-> FALSE, showInitialized |-> FALSE]
  /\ happened = [changes |-> 0, activations |-> 0, takes |-> 0, troubles |-> 0]

Count(what) == happened' = [happened EXCEPT ![what] = @ + 1]
Resting == \A t \in Threads : thread[t].at = "idle"
MayStart == MayOverlap \/ Resting

----------------------------------------------------------------------------
(* The cache.                                                              *)

Fresh(status) == [isLoaded |-> status = "loaded", isLoading |-> status = "loading", wasLoaded |-> FALSE,
                  isExpected |-> FALSE, requested |-> FALSE, toDelete |-> FALSE]

\* Objects that leave the cache are kept as they are by the updates that hold them.
Parted(th, leaving) ==
  [t \in Threads |-> [th[t] EXCEPT !.seen =
     [e \in DOMAIN @ |-> IF e \in leaving \cap DOMAIN cache /\ @[e] = SameObject THEN <<cache[e]>> ELSE @[e]]]]

CacheElement(c, e, status) == [x \in DOMAIN c \cup {e} |-> IF x = e THEN Fresh(status) ELSE c[x]]

\* createElement, or getElement if the MSE has it: the status that comes back.
Created(e) == IF mse[e] = "absent" THEN "unloaded" ELSE mse[e]

Kept(elements) ==
  [e \in DOMAIN cache |-> IF e \in elements THEN [cache[e] EXCEPT !.toDelete = FALSE] ELSE cache[e]]

----------------------------------------------------------------------------
(* updateElementsLoadedStatus, of any thread.                              *)

Start(t, forced, again) ==
  [thread EXCEPT ![t] = [at |-> "preparing", items |-> expected, forced |-> forced, again |-> again,
                         activates |-> t = Loader /\ (again \/ thread[t].activates), seen |-> None]]
\* _prepareAndGetExpectedPlayoutItems begins at once: what is cached will not be deleted.

\* _prepareNewElement
Prepare(t) ==
  /\ thread[t].at = "preparing"
  /\ \E e \in thread[t].items \ DOMAIN cache :
       /\ mse' = [mse EXCEPT ![e] = Created(e)]
       /\ cache' = CacheElement(cache, e, Created(e))
  /\ UNCHANGED <<media, expected, active, thread, doomed, deleting, takes, failed, flags, happened>>

\* All are prepared: the cached objects are collected, and a forced update resets them.  If new
\* items come without an active rundown, this is all.
Collect(t) ==
  /\ thread[t].at = "preparing" /\ thread[t].items \subseteq DOMAIN cache
  /\ LET reset == IF thread[t].forced THEN thread[t].items ELSE {} IN
     cache' = [e \in DOMAIN cache |->
       IF e \in reset THEN [cache[e] EXCEPT !.isLoaded = FALSE, !.isLoading = FALSE,
                                            !.requested = FALSE, !.wasLoaded = FALSE]
       ELSE cache[e]]
  /\ thread' = IF t = Expecting /\ ~active THEN [thread EXCEPT ![t] = Idle]
               ELSE [thread EXCEPT ![t].at = "updating",
                                   ![t].seen = [e \in thread[t].items |-> SameObject]]
  /\ UNCHANGED <<mse, media, expected, active, doomed, deleting, takes, failed, flags, happened>>

\* The MSE tells the status of one element: a copy of the remembered object with the new status
\* replaces the one in the cache.
Refresh(t) ==
  /\ thread[t].at = "updating"
  /\ \E e \in DOMAIN thread[t].seen :
       LET held == thread[t].seen[e]
           old == IF held # SameObject THEN held[1] ELSE Kept({e})[e]
           is == Created(e)
           changed == e \in Pilots /\ (flags.updateAfterReconnect \/ old.isLoaded # (is = "loaded"))
           new == [old EXCEPT !.isExpected = TRUE, !.isLoaded = (is = "loaded"), !.isLoading = (is = "loading"),
                              !.wasLoaded = IF ~changed \/ old.isLoaded = (is = "loaded") THEN @ ELSE old.isLoaded]
           initializes == e \in Pilots /\ new.wasLoaded /\ is = "unloaded"
           others == Parted(thread, {e})
       IN \* an element that is no longer there is an error, unless it is not cached either
          IF mse[e] = "absent" /\ e \in DOMAIN cache
          THEN /\ thread' = [thread EXCEPT ![t].seen = Restrict(@, DOMAIN @ \ {e})]
               /\ cache' = Kept({e}) /\ UNCHANGED <<mse, media>>
          ELSE /\ mse' = [mse EXCEPT ![e] = IF initializes THEN "loading" ELSE is]
               /\ cache' = [x \in DOMAIN cache \cup {e} |-> IF x = e THEN new ELSE cache[x]]
               /\ media' = IF ~changed THEN media
                           ELSE IF is = "loaded" THEN media \cup {e} ELSE media \ {e}
               /\ thread' = [others EXCEPT ![t].seen = Restrict(@, DOMAIN @ \ {e})]
  /\ UNCHANGED <<expected, active, doomed, deleting, takes, failed, flags, happened>>

Refreshed(t) ==
  /\ thread[t].at = "updating" /\ thread[t].seen = None
  /\ flags' = [flags EXCEPT !.updateAfterReconnect = FALSE]
  /\ thread' = [thread EXCEPT ![t].at = "updated"]
  /\ UNCHANGED <<mse, cache, media, expected, active, doomed, deleting, takes, failed, happened>>

----------------------------------------------------------------------------
(* _monitorLoadedElements, again and again.                                *)

MonitorTick ==
  /\ active /\ thread[Monitor].at = "idle" /\ MayStart
  /\ thread' = Start(Monitor, FALSE, FALSE) /\ cache' = Kept(expected)
  /\ UNCHANGED <<mse, media, expected, active, doomed, deleting, takes, failed, flags, happened>>

MonitorDone ==
  /\ thread[Monitor].at = "updated"
  /\ thread' = [thread EXCEPT ![Monitor] = Idle]
  /\ UNCHANGED <<mse, cache, media, expected, active, doomed, deleting, takes, failed, flags, happened>>

----------------------------------------------------------------------------
(* setExpectedPlayoutItems.                                                *)

SetExpectedPlayoutItems(items) ==
  /\ happened.changes < MaxChanges /\ items # expected
  /\ thread[Expecting].at = "idle" /\ MayStart
  /\ expected' = items
  /\ cache' = Kept(items)
  /\ thread' = [Start(Expecting, FALSE, FALSE) EXCEPT ![Expecting].items = items]
  /\ Count("changes")
  /\ UNCHANGED <<mse, media, active, doomed, deleting, takes, failed, flags>>

\* rundown.initializeShow loads the templates of the show that exist.
ShowInitialized(m) == [e \in Elements |-> IF e \in Internal /\ m[e] = "unloaded" THEN "loading" ELSE m[e]]

\* New templates are loaded with their show; a timer will delete what is not expected any more.
ExpectingDone ==
  /\ thread[Expecting].at = "updated"
  /\ LET wanted == {e \in DOMAIN cache \cap Internal :
                      (AutoLoad \/ flags.showInitialized) /\ ~cache[e].isLoaded /\ ~cache[e].requested}
         unwanted == {e \in DOMAIN cache : e \notin thread[Expecting].items /\ ~cache[e].toDelete}
     IN /\ cache' = [e \in DOMAIN cache |-> [cache[e] EXCEPT !.requested = @ \/ e \in wanted,
                                                              !.toDelete = @ \/ e \in unwanted]]
        /\ mse' = IF wanted = {} THEN mse ELSE ShowInitialized(mse)
        /\ doomed' = doomed \cup unwanted
  /\ thread' = [thread EXCEPT ![Expecting] = Idle]
  /\ UNCHANGED <<media, expected, active, deleting, takes, failed, flags, happened>>

\* The timer, 20 s: what is needed again meanwhile stays.  No take is as slow.
DeleteTimeout ==
  /\ doomed # {} /\ takes = {}
  /\ deleting' = deleting \cup {e \in doomed \cap DOMAIN cache : cache[e].toDelete}
  /\ doomed' = {}
  /\ UNCHANGED <<mse, cache, media, expected, active, thread, takes, failed, flags, happened>>

Deleted(e) ==
  /\ e \in deleting
  /\ deleting' = deleting \ {e}
  /\ mse' = [mse EXCEPT ![e] = "absent"]
  /\ thread' = Parted(thread, {e})
  /\ cache' = Restrict(cache, DOMAIN cache \ {e})
  /\ UNCHANGED <<media, expected, active, doomed, takes, failed, flags, happened>>

----------------------------------------------------------------------------
(* activate, deactivate and _triggerLoadAllElements.                       *)

\* Another playlist purges the pilot elements and empties the cache.
Activate(another) ==
  /\ happened.activations < MaxActivations /\ MayStart
  /\ ~active => another
  /\ \/ MayReactivate
     \/ takes = {} /\ (another \/ ~PurgeUnknown \/ Pilots \cap DOMAIN cache \subseteq expected)
  /\ thread[Loader].at = "idle"
  /\ IF another
     THEN /\ mse' = [e \in Elements |-> IF e \in Pilots \ (Keep \cap expected) THEN "absent" ELSE mse[e]]
          /\ thread' = [Parted(thread, Elements) EXCEPT ![Loader] = Start(Loader, TRUE, TRUE)[Loader]]
          /\ cache' = None /\ media' = {}
     ELSE /\ thread' = [Start(Loader, TRUE, FALSE) EXCEPT ![Loader].activates = TRUE]
          /\ cache' = Kept(expected)
          /\ UNCHANGED <<mse, media>>
  /\ Count("activations")
  /\ UNCHANGED <<expected, active, doomed, deleting, takes, failed, flags>>

\* Loading that is under way is not begun again.
LoadAllElements ==
  /\ happened.troubles < MaxTroubles /\ active /\ MayStart
  /\ thread[Loader].at = "idle"
  /\ thread' = Start(Loader, TRUE, FALSE) /\ cache' = Kept(expected)
  /\ Count("troubles")
  /\ UNCHANGED <<mse, media, expected, active, doomed, deleting, takes, failed, flags>>

\* loadAllElementsThatNeedsLoading, by what the cache says; then twice, or done.
Load ==
  /\ thread[Loader].at = "updated"
  /\ mse' = [e \in Elements |->
       IF e \in Internal /\ Internal \cap DOMAIN cache # {} THEN ShowInitialized(mse)[e]
       ELSE IF e \in Pilots \cap DOMAIN cache /\ mse[e] = "unloaded" /\ cache[e].isExpected
               /\ ~cache[e].isLoaded /\ ~cache[e].isLoading THEN "loading"
       ELSE mse[e]]
  /\ cache' = [e \in DOMAIN cache |-> IF e \in Internal THEN [cache[e] EXCEPT !.requested = TRUE] ELSE cache[e]]
  /\ thread' = IF thread[Loader].again THEN [thread EXCEPT ![Loader] = Start(Loader, FALSE, FALSE)[Loader]]
               ELSE [thread EXCEPT ![Loader].at = "loading"]
  /\ UNCHANGED <<media, expected, active, doomed, deleting, takes, failed, flags, happened>>

\* What the MSE has and nobody expects is deleted there after an activation; the cache is not asked.
Loaded ==
  /\ thread[Loader].at = "loading" /\ takes = {}
  /\ active' = (active \/ thread[Loader].activates)
  /\ mse' = IF PurgeUnknown /\ thread[Loader].activates THEN [e \in Elements |-> IF e \in Pilots \ expected THEN "absent" ELSE mse[e]] ELSE mse
  /\ thread' = [thread EXCEPT ![Loader] = Idle]
  /\ UNCHANGED <<cache, media, expected, doomed, deleting, takes, failed, flags, happened>>

Deactivate ==
  /\ active /\ Resting
  /\ active' = FALSE /\ media' = {}
  /\ mse' = [e \in Elements |-> IF mse[e] = "absent" THEN "absent" ELSE "unloaded"]
  /\ UNCHANGED <<cache, expected, thread, doomed, deleting, takes, failed, flags, happened>>

----------------------------------------------------------------------------
(* Commands of the timeline.                                               *)

\* As it would be if the element had to be cached.
TakesWhatIsCached(e) ==
  /\ happened.takes < MaxTakes /\ active /\ e \notin takes
  /\ MayTakeUnexpected \/ e \in expected \ deleting
  /\ takes' = takes \cup {e} /\ cache' = Kept({e})
  /\ Count("takes")
  /\ UNCHANGED <<mse, media, expected, active, thread, doomed, deleting, failed, flags>>

\* takeElement and the others: the element is created first, if it is not cached.
Take(e) ==
  /\ happened.takes < MaxTakes /\ active /\ e \notin takes
  /\ MayTakeUnexpected \/ e \in expected \ deleting
  /\ takes' = takes \cup {e}
  /\ IF e \in DOMAIN cache THEN cache' = Kept({e}) /\ mse' = mse
     ELSE cache' = CacheElement(cache, e, Created(e)) /\ mse' = [mse EXCEPT ![e] = Created(e)]
  /\ Count("takes")
  /\ UNCHANGED <<media, expected, active, thread, doomed, deleting, failed, flags>>

\* _checkElementExists, and the command.
Taken(e) ==
  /\ e \in takes
  /\ takes' = takes \ {e}
  /\ failed' = (failed \/ e \notin DOMAIN cache \/ mse[e] = "absent")
  /\ UNCHANGED <<mse, cache, media, expected, active, thread, doomed, deleting, flags, happened>>

\* initializeShows and cleanupShows purge templates in the MSE, and leave them in the cache.
InitializeShows ==
  /\ active /\ ~flags.showInitialized
  /\ MayCleanUp \/ ~PurgeUnknown \/ DOMAIN cache \subseteq expected \cup Pilots
  /\ mse' = ShowInitialized([e \in Elements |->
       IF PurgeUnknown /\ e \in Internal \ expected THEN "absent" ELSE mse[e]])
  /\ flags' = [flags EXCEPT !.showInitialized = TRUE]
  /\ UNCHANGED <<cache, media, expected, active, thread, doomed, deleting, takes, failed, happened>>

CleanupShows ==
  /\ MayCleanUp \/ DOMAIN cache \subseteq Pilots
  /\ \E e \in Internal : mse[e] # "absent"
  /\ mse' = [e \in Elements |-> IF e \in Internal THEN "absent" ELSE mse[e]]
  /\ UNCHANGED <<cache, media, expected, active, thread, doomed, deleting, takes, failed, flags, happened>>

----------------------------------------------------------------------------
(* The MSE.                                                                *)

EngineLoads(e) ==
  /\ mse[e] = "loading"
  /\ mse' = [mse EXCEPT ![e] = "loaded"]
  /\ UNCHANGED <<cache, media, expected, active, thread, doomed, deleting, takes, failed, flags, happened>>

EngineRestarts ==
  /\ happened.troubles < MaxTroubles
  /\ mse' = [e \in Elements |-> IF mse[e] = "absent" THEN "absent" ELSE "unloaded"]
  /\ Count("troubles")
  /\ UNCHANGED <<cache, media, expected, active, thread, doomed, deleting, takes, failed, flags>>

\* mseConnectionChanged
ConnectionChanges ==
  /\ flags.connected => happened.troubles < MaxTroubles
  /\ flags' = [flags EXCEPT !.connected = ~@, !.updateAfterReconnect = @ \/ ~flags.connected]
  /\ IF flags.connected THEN Count("troubles") ELSE UNCHANGED happened
  /\ UNCHANGED <<mse, cache, media, expected, active, thread, doomed, deleting, takes, failed>>

Updating(t) == Prepare(t) \/ Collect(t) \/ Refresh(t) \/ Refreshed(t)
ManagerNext ==
  \/ \E t \in Threads : Updating(t)
  \/ MonitorTick \/ MonitorDone
  \/ \E items \in SUBSET Elements : SetExpectedPlayoutItems(items)
  \/ ExpectingDone \/ DeleteTimeout
  \/ \E e \in Elements : Deleted(e) \/ Take(e) \/ Taken(e) \/ EngineLoads(e)
  \/ \E another \in BOOLEAN : Activate(another)
  \/ LoadAllElements \/ Load \/ Loaded \/ Deactivate
  \/ InitializeShows \/ CleanupShows
  \/ EngineRestarts \/ ConnectionChanges

\* Callbacks run, timers fire, and the MSE answers and loads.
Continues(t) ==
  \/ Updating(t)
  \/ t = Monitor /\ MonitorDone
  \/ t = Expecting /\ ExpectingDone
  \/ t = Loader /\ (Load \/ Loaded)
Answers == \E e \in Elements : Deleted(e) \/ EngineLoads(e)
Takes == \E e \in Elements : Taken(e)
Fairness ==
  /\ \A t \in Threads : WF_managerVars(Continues(t))
  /\ WF_managerVars(Answers) /\ WF_managerVars(Takes) /\ WF_managerVars(MonitorTick) /\ WF_managerVars(DeleteTimeout)

ManagerSpec == ManagerInit /\ [][ManagerNext]_managerVars

----------------------------------------------------------------------------
\* While a rundown is active, in the end every item that is expected exists, and Core knows which
\* pilot elements are loaded; what fell out of the engine is loaded again.
KnowsTheElements ==
  active =>
    /\ \A e \in expected : mse[e] # "absent" /\ e \in DOMAIN cache
    /\ \A e \in expected \cap Pilots : (e \in media) = (mse[e] = "loaded") /\ ~cache[e].wasLoaded

\* A take never misses its element.
NoTakeFails == ~failed
=============================================================================
