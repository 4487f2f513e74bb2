-------------------------- MODULE VizManagerProofs --------------------------
(***************************************************************************)
(* What integrations/vizMSE/vizMSEManager.ts guarantees for any number of  *)
(* elements, changes, activations, takes and troubles: the cache and the   *)
(* objects that the updates hold across awaits keep their types.           *)
(***************************************************************************)
EXTENDS VizManager, TLAPS

(* An update holds the object that is in the cache, or one that has left   *)
(* it.                                                                     *)
SeenIsCached ==
  \A t \in Threads : \A e \in DOMAIN thread[t].seen :
    thread[t].seen[e] = SameObject => e \in DOMAIN cache
TypeInv == ManagerTypeOK /\ SeenIsCached

----------------------------------------------------------------------------
(* Partial functions, the cache, and the updates.                          *)

LEMMA PartialIs ==
  ASSUME NEW S, NEW T, NEW f
  PROVE  f \in Partial(S, T) <=> f \in [DOMAIN f -> T] /\ DOMAIN f \subseteq S
BY DEF Partial

LEMMA NothingIsPartial ==
  /\ DOMAIN None = {}
  /\ \A S, T : None \in Partial(S, T)
<1>1. DOMAIN None = {}
  BY DEF None
<1>2. ASSUME NEW S, NEW T PROVE None \in Partial(S, T)
  <2>1. None \in [DOMAIN None -> T]
    BY <1>1 DEF None
  <2> QED BY <1>1, <2>1, PartialIs
<1> QED BY <1>1, <1>2

LEMMA IdleIsUpdate == Idle \in Update /\ Idle.at = "idle"
<1>1. None \in Partial(Elements, Held)
  BY NothingIsPartial
<1> QED BY <1>1 DEF Idle, Update

LEMMA HeldObjects ==
  /\ SameObject \in Held
  /\ \A c \in Cached : <<c>> \in Held /\ <<c>> # SameObject
  /\ \A h \in Held : h # SameObject => h[1] \in Cached
BY DEF Held, SameObject

LEMMA FreshIsCached == \A status : Fresh(status) \in Cached
BY DEF Fresh, Cached

LEMMA CreatedIs ==
  ASSUME ManagerTypeOK, NEW e \in Elements
  PROVE  Created(e) \in {"unloaded", "loading", "loaded"}
BY DEF ManagerTypeOK, Created

LEMMA KeptType ==
  ASSUME ManagerTypeOK, NEW S
  PROVE  Kept(S) \in Partial(Elements, Cached) /\ DOMAIN Kept(S) = DOMAIN cache
<1>1. cache \in [DOMAIN cache -> Cached] /\ DOMAIN cache \subseteq Elements
  BY PartialIs DEF ManagerTypeOK
<1>2. ASSUME NEW c \in Cached PROVE [c EXCEPT !.toDelete = FALSE] \in Cached
  BY DEF Cached
<1>3. Kept(S) \in [DOMAIN cache -> Cached]
  BY <1>1, <1>2 DEF Kept
<1>4. DOMAIN Kept(S) = DOMAIN cache
  BY DEF Kept
<1> QED BY <1>1, <1>3, <1>4, PartialIs

LEMMA CacheElementType ==
  ASSUME ManagerTypeOK, NEW e \in Elements, NEW status
  PROVE  /\ CacheElement(cache, e, status) \in Partial(Elements, Cached)
         /\ DOMAIN CacheElement(cache, e, status) = DOMAIN cache \cup {e}
<1>1. cache \in [DOMAIN cache -> Cached] /\ DOMAIN cache \subseteq Elements
  BY PartialIs DEF ManagerTypeOK
<1>2. CacheElement(cache, e, status) \in [DOMAIN cache \cup {e} -> Cached]
  BY <1>1, FreshIsCached DEF CacheElement
<1>3. DOMAIN CacheElement(cache, e, status) = DOMAIN cache \cup {e}
  BY DEF CacheElement
<1> QED BY <1>1, <1>2, <1>3, PartialIs

(* The objects that leave the cache are kept: nothing else of an update    *)
(* changes, and what it still holds as the object in the cache stays there. *)
LEMMA PartedType ==
  ASSUME ManagerTypeOK, NEW L
  PROVE  /\ Parted(thread, L) \in [Threads -> Update]
         /\ \A t \in Threads :
              /\ Parted(thread, L)[t].at = thread[t].at
              /\ Parted(thread, L)[t].items = thread[t].items
              /\ Parted(thread, L)[t].activates = thread[t].activates
              /\ DOMAIN Parted(thread, L)[t].seen = DOMAIN thread[t].seen
              /\ \A e \in DOMAIN thread[t].seen :
                   Parted(thread, L)[t].seen[e] = SameObject =>
                     thread[t].seen[e] = SameObject /\ e \notin L \cap DOMAIN cache
<1> DEFINE Seen(t) == [e \in DOMAIN thread[t].seen |->
                         IF e \in L \cap DOMAIN cache /\ thread[t].seen[e] = SameObject
                         THEN <<cache[e]>> ELSE thread[t].seen[e]]
<1>1. thread \in [Threads -> Update] /\ cache \in [DOMAIN cache -> Cached]
  BY PartialIs DEF ManagerTypeOK
<1>2. ASSUME NEW t \in Threads
      PROVE  /\ Seen(t) \in Partial(Elements, Held)
             /\ \A e \in DOMAIN thread[t].seen :
                  Seen(t)[e] = SameObject =>
                    thread[t].seen[e] = SameObject /\ e \notin L \cap DOMAIN cache
  <2>1. thread[t].seen \in [DOMAIN thread[t].seen -> Held] /\ DOMAIN thread[t].seen \subseteq Elements
    <3>1. thread[t].seen \in Partial(Elements, Held)
      BY <1>1 DEF Update
    <3> QED BY <3>1, PartialIs
  <2>2. Seen(t) \in [DOMAIN thread[t].seen -> Held] /\ DOMAIN Seen(t) = DOMAIN thread[t].seen
    BY <1>1, <2>1, HeldObjects
  <2>3. Seen(t) \in Partial(Elements, Held)
    BY <2>1, <2>2, PartialIs
  <2>4. ASSUME NEW e \in DOMAIN thread[t].seen, Seen(t)[e] = SameObject
        PROVE  thread[t].seen[e] = SameObject /\ e \notin L \cap DOMAIN cache
    BY <1>1, <2>4, HeldObjects
  <2> QED BY <2>3, <2>4
<1>3. Parted(thread, L) = [t \in Threads |-> [thread[t] EXCEPT !.seen = Seen(t)]]
  BY DEF Parted
<1>4. \A t \in Threads : DOMAIN Seen(t) = DOMAIN thread[t].seen
  OBVIOUS
<1> HIDE DEF Seen
<1> QED BY <1>1, <1>2, <1>3, <1>4 DEF Update

LEMMA StartType ==
  ASSUME ManagerTypeOK, NEW t \in Threads, NEW forced \in BOOLEAN, NEW again \in BOOLEAN
  PROVE  /\ Start(t, forced, again) \in [Threads -> Update]
         /\ \A u \in Threads \ {t} : Start(t, forced, again)[u] = thread[u]
         /\ Start(t, forced, again)[t].at = "preparing"
         /\ Start(t, forced, again)[t].items = expected
         /\ Start(t, forced, again)[t].seen = None
         /\ Start(t, forced, again)[t].activates = (t = Loader /\ (again \/ thread[t].activates))
<1>1. None \in Partial(Elements, Held)
  BY NothingIsPartial
<1>2. thread \in [Threads -> Update] /\ expected \subseteq Elements
  BY DEF ManagerTypeOK
<1>3. thread[t].activates \in BOOLEAN
  BY <1>2 DEF Update
<1>4. [at |-> "preparing", items |-> expected, forced |-> forced, again |-> again,
       activates |-> t = Loader /\ (again \/ thread[t].activates), seen |-> None] \in Update
  BY <1>1, <1>2, <1>3 DEF Update
<1> QED BY <1>2, <1>4 DEF Start

LEMMA UpdateFields ==
  ASSUME ManagerTypeOK, NEW t \in Threads
  PROVE  /\ thread[t] \in Update
         /\ thread[t].items \subseteq Elements
         /\ thread[t].seen \in [DOMAIN thread[t].seen -> Held]
         /\ DOMAIN thread[t].seen \subseteq Elements
<1>1. thread[t] \in Update
  BY DEF ManagerTypeOK
<1>2. thread[t].items \subseteq Elements /\ thread[t].seen \in Partial(Elements, Held)
  BY <1>1 DEF Update
<1> QED BY <1>1, <1>2, PartialIs

----------------------------------------------------------------------------
(* Every variable keeps its type.                                          *)

LEMMA InitTyped == ManagerInit => TypeInv
<1> SUFFICES ASSUME ManagerInit PROVE TypeInv
  OBVIOUS
<1>1. ManagerTypeOK
  <2>1. cache \in Partial(Elements, Cached)
    BY NothingIsPartial DEF ManagerInit
  <2> QED BY <2>1, IdleIsUpdate DEF ManagerInit, ManagerTypeOK
<1>2. SeenIsCached
  BY NothingIsPartial DEF ManagerInit, SeenIsCached, Idle
<1> QED BY <1>1, <1>2 DEF TypeInv

(* A step that leaves the updates and what is cached alone. *)
LEMMA SameSeen ==
  ASSUME SeenIsCached, thread' = thread, DOMAIN cache \subseteq DOMAIN cache'
  PROVE  SeenIsCached'
BY DEF SeenIsCached

(* A step that starts or moves on one update, which holds nothing more. *)
LEMMA OneMoves ==
  ASSUME SeenIsCached, NEW t \in Threads, DOMAIN cache \subseteq DOMAIN cache',
         \A u \in Threads \ {t} : thread'[u] = thread[u],
         \/ thread'[t].seen = None
         \/ thread'[t].seen = thread[t].seen
  PROVE  SeenIsCached'
BY NothingIsPartial DEF SeenIsCached

LEMMA PrepareTyped ==
  ASSUME TypeInv, NEW t \in Threads, Prepare(t)
  PROVE  TypeInv'
<1>1. ManagerTypeOK /\ SeenIsCached
  BY DEF TypeInv
<1>2. PICK e \in thread[t].items \ DOMAIN cache :
        /\ mse' = [mse EXCEPT ![e] = Created(e)]
        /\ cache' = CacheElement(cache, e, Created(e))
  BY DEF Prepare
<1>3. e \in Elements
  BY <1>1, UpdateFields
<1>4. cache' \in Partial(Elements, Cached) /\ DOMAIN cache \subseteq DOMAIN cache'
  BY <1>1, <1>2, <1>3, CacheElementType
<1>5. mse' \in [Elements -> {"absent", "unloaded", "loading", "loaded"}]
  BY <1>1, <1>2, <1>3, CreatedIs DEF ManagerTypeOK
<1>6. ManagerTypeOK'
  BY <1>1, <1>4, <1>5 DEF ManagerTypeOK, Prepare
<1> QED BY <1>1, <1>4, <1>6, SameSeen DEF TypeInv, Prepare

LEMMA CollectTyped ==
  ASSUME TypeInv, NEW t \in Threads, Collect(t)
  PROVE  TypeInv' /\ DOMAIN cache' = DOMAIN cache
<1> DEFINE all == [e \in thread[t].items |-> SameObject]
<1>1. ManagerTypeOK /\ SeenIsCached /\ thread[t].items \subseteq DOMAIN cache
  BY DEF TypeInv, Collect
<1>2. cache \in [DOMAIN cache -> Cached] /\ DOMAIN cache \subseteq Elements
  BY <1>1, PartialIs DEF ManagerTypeOK
<1>3. cache' \in [DOMAIN cache -> Cached]
  <2>1. ASSUME NEW c \in Cached
        PROVE  [c EXCEPT !.isLoaded = FALSE, !.isLoading = FALSE,
                         !.requested = FALSE, !.wasLoaded = FALSE] \in Cached
    BY DEF Cached
  <2> QED BY <1>2, <2>1 DEF Collect
<1>4. DOMAIN cache' = DOMAIN cache /\ cache' \in Partial(Elements, Cached)
  BY <1>2, <1>3, PartialIs
<1>5. all \in Partial(Elements, Held) /\ DOMAIN all = thread[t].items
  BY <1>1, <1>2, HeldObjects, PartialIs
<1> HIDE DEF all
<1>6. \/ thread' = [thread EXCEPT ![t] = Idle]
      \/ thread' = [thread EXCEPT ![t].at = "updating", ![t].seen = all]
  BY DEF Collect, all
<1>7. thread' \in [Threads -> Update]
  <2>1. CASE thread' = [thread EXCEPT ![t] = Idle]
    BY <1>1, <2>1, IdleIsUpdate DEF ManagerTypeOK
  <2>2. CASE thread' = [thread EXCEPT ![t].at = "updating", ![t].seen = all]
    <3>1. [thread[t] EXCEPT !.at = "updating", !.seen = all] \in Update
      BY <1>1, <1>5, UpdateFields DEF Update
    <3>2. thread' = [thread EXCEPT ![t] = [thread[t] EXCEPT !.at = "updating", !.seen = all]]
      BY <1>1, <2>2 DEF ManagerTypeOK
    <3> QED BY <1>1, <3>1, <3>2 DEF ManagerTypeOK
  <2> QED BY <1>6, <2>1, <2>2
<1>8. ManagerTypeOK'
  BY <1>1, <1>4, <1>7 DEF ManagerTypeOK, Collect
<1>9. SeenIsCached'
  <2>1. CASE thread' = [thread EXCEPT ![t] = Idle]
    BY <1>1, <1>4, <2>1, OneMoves DEF ManagerTypeOK, Idle
  <2>2. CASE thread' = [thread EXCEPT ![t].at = "updating", ![t].seen = all]
    BY <1>1, <1>4, <1>5, <2>2 DEF ManagerTypeOK, Update, SeenIsCached
  <2> QED BY <1>6, <2>1, <2>2
<1> QED BY <1>4, <1>8, <1>9 DEF TypeInv

(* Of what an update holds one object has been dealt with. *)
Narrow(th, t, e) == [th EXCEPT ![t].seen = Restrict(@, DOMAIN @ \ {e})]

LEMMA NarrowType ==
  ASSUME NEW th \in [Threads -> Update], NEW t \in Threads, NEW e
  PROVE  /\ Narrow(th, t, e) \in [Threads -> Update]
         /\ \A u \in Threads :
              /\ Narrow(th, t, e)[u].at = th[u].at
              /\ Narrow(th, t, e)[u].items = th[u].items
              /\ Narrow(th, t, e)[u].activates = th[u].activates
              /\ DOMAIN Narrow(th, t, e)[u].seen \subseteq DOMAIN th[u].seen
              /\ \A x \in DOMAIN Narrow(th, t, e)[u].seen :
                   Narrow(th, t, e)[u].seen[x] = th[u].seen[x]
<1> DEFINE rest == Restrict(th[t].seen, DOMAIN th[t].seen \ {e})
<1>1. th[t].seen \in [DOMAIN th[t].seen -> Held] /\ DOMAIN th[t].seen \subseteq Elements
  <2>1. th[t].seen \in Partial(Elements, Held)
    BY DEF Update
  <2> QED BY <2>1, PartialIs
<1>2. /\ rest \in [DOMAIN th[t].seen \ {e} -> Held]
      /\ DOMAIN rest \subseteq DOMAIN th[t].seen
      /\ \A x \in DOMAIN rest : rest[x] = th[t].seen[x]
  BY <1>1 DEF Restrict
<1>3. rest \in Partial(Elements, Held)
  BY <1>1, <1>2, PartialIs
<1>4. Narrow(th, t, e) = [th EXCEPT ![t] = [th[t] EXCEPT !.seen = rest]]
  BY DEF Narrow
<1> HIDE DEF rest
<1>5. /\ [th[t] EXCEPT !.seen = rest] \in Update
      /\ [th[t] EXCEPT !.seen = rest].at = th[t].at
      /\ [th[t] EXCEPT !.seen = rest].items = th[t].items
      /\ [th[t] EXCEPT !.seen = rest].activates = th[t].activates
      /\ [th[t] EXCEPT !.seen = rest].seen = rest
  BY <1>3 DEF Update
<1> QED BY <1>2, <1>4, <1>5

(* The answer about one element: what is there is in the cache then.       *)
Answered(t, e) ==
  /\ \A u \in Threads :
       /\ thread'[u].at = thread[u].at
       /\ thread'[u].items = thread[u].items
       /\ thread'[u].activates = thread[u].activates
       /\ DOMAIN thread'[u].seen \subseteq DOMAIN thread[u].seen
  /\ \/ mse' = mse /\ DOMAIN cache' = DOMAIN cache
     \/ /\ \E is \in {"unloaded", "loading", "loaded"} : mse' = [mse EXCEPT ![e] = is]
        /\ DOMAIN cache' = DOMAIN cache \cup {e}

LEMMA RefreshTyped ==
  ASSUME TypeInv, NEW t \in Threads, Refresh(t)
  PROVE  TypeInv' /\ \E e \in DOMAIN thread[t].seen : Answered(t, e)
<1>1. ManagerTypeOK /\ SeenIsCached /\ thread \in [Threads -> Update]
  BY DEF TypeInv, ManagerTypeOK
<1>2. PICK e \in DOMAIN thread[t].seen :
       LET held == thread[t].seen[e]
           old == IF held # SameObject THEN held[1] ELSE Kept({e})[e]
           is == Created(e)
           changed == e \in Pilots /\ (flags.updateAfterReconnect \/ old.isLoaded # (is = "loaded"))
           new == [old EXCEPT !.isExpected = TRUE, !.isLoaded = (is = "loaded"), !.isLoading = (is = "loading"),
                              !.wasLoaded = IF ~changed \/ old.isLoaded = (is = "loaded") THEN @ ELSE old.isLoaded]
           initializes == e \in Pilots /\ new.wasLoaded /\ is = "unloaded"
           others == Parted(thread, {e})
       IN IF mse[e] = "absent" /\ e \in DOMAIN cache
          THEN /\ thread' = Narrow(thread, t, e)
               /\ cache' = Kept({e}) /\ UNCHANGED <<mse, media>>
          ELSE /\ mse' = [mse EXCEPT ![e] = IF initializes THEN "loading" ELSE is]
               /\ cache' = [x \in DOMAIN cache \cup {e} |-> IF x = e THEN new ELSE cache[x]]
               /\ media' = IF ~changed THEN media
                           ELSE IF is = "loaded" THEN media \cup {e} ELSE media \ {e}
               /\ thread' = Narrow(others, t, e)
  BY DEF Refresh, Narrow
<1>3. e \in Elements /\ thread[t].seen[e] \in Held
  BY <1>1, UpdateFields
<1>4. UNCHANGED <<expected, active, doomed, deleting, takes, failed, flags, happened>>
  BY DEF Refresh
<1>5. CASE mse[e] = "absent" /\ e \in DOMAIN cache
  <2>1. thread' = Narrow(thread, t, e) /\ cache' = Kept({e}) /\ UNCHANGED <<mse, media>>
    BY <1>2, <1>5
  <2>2. cache' \in Partial(Elements, Cached) /\ DOMAIN cache' = DOMAIN cache
    BY <1>1, <2>1, KeptType
  <2>3. /\ thread' \in [Threads -> Update]
        /\ \A u \in Threads :
             /\ thread'[u].at = thread[u].at
             /\ thread'[u].items = thread[u].items
             /\ thread'[u].activates = thread[u].activates
             /\ DOMAIN thread'[u].seen \subseteq DOMAIN thread[u].seen
             /\ \A x \in DOMAIN thread'[u].seen : thread'[u].seen[x] = thread[u].seen[x]
    BY <1>1, <2>1, NarrowType
  <2>4. ManagerTypeOK'
    BY <1>1, <1>4, <2>1, <2>2, <2>3 DEF ManagerTypeOK
  <2>5. SeenIsCached'
    BY <1>1, <2>2, <2>3 DEF SeenIsCached
  <2> QED BY <2>1, <2>2, <2>3, <2>4, <2>5 DEF TypeInv, Answered
<1>6. CASE ~ (mse[e] = "absent" /\ e \in DOMAIN cache)
  <2> DEFINE held == thread[t].seen[e]
             old == IF held # SameObject THEN held[1] ELSE Kept({e})[e]
             is == Created(e)
             changed == e \in Pilots /\ (flags.updateAfterReconnect \/ old.isLoaded # (is = "loaded"))
             was == IF ~changed \/ old.isLoaded = (is = "loaded") THEN old.wasLoaded ELSE old.isLoaded
             new == [old EXCEPT !.isExpected = TRUE, !.isLoaded = (is = "loaded"), !.isLoading = (is = "loading"),
                                !.wasLoaded = IF ~changed \/ old.isLoaded = (is = "loaded") THEN @ ELSE old.isLoaded]
             initializes == e \in Pilots /\ new.wasLoaded /\ is = "unloaded"
             others == Parted(thread, {e})
  <2>1. /\ mse' = [mse EXCEPT ![e] = IF initializes THEN "loading" ELSE is]
        /\ cache' = [x \in DOMAIN cache \cup {e} |-> IF x = e THEN new ELSE cache[x]]
        /\ media' = IF ~changed THEN media
                    ELSE IF is = "loaded" THEN media \cup {e} ELSE media \ {e}
        /\ thread' = Narrow(others, t, e)
        /\ changed => e \in Pilots
    BY <1>2, <1>6
  <2>2. old \in Cached
    <3>1. CASE thread[t].seen[e] # SameObject
      BY <1>3, <2>1, <3>1, HeldObjects
    <3>2. CASE thread[t].seen[e] = SameObject
      <4>1. e \in DOMAIN cache
        BY <1>1, <3>2 DEF SeenIsCached
      <4>2. Kept({e}) \in [DOMAIN cache -> Cached]
        BY <1>1, KeptType, PartialIs
      <4> QED BY <2>1, <3>2, <4>1, <4>2
    <3> QED BY <3>1, <3>2
  <2>3. new \in Cached
    <3>1. was \in BOOLEAN
      BY <2>2 DEF Cached
    <3>2. \A o \in Cached : \A p, q, r \in BOOLEAN :
            [o EXCEPT !.isExpected = TRUE, !.isLoaded = p, !.isLoading = q, !.wasLoaded = r] \in Cached
      BY DEF Cached
    <3>3. new = [old EXCEPT !.isExpected = TRUE, !.isLoaded = (is = "loaded"),
                            !.isLoading = (is = "loading"), !.wasLoaded = was]
      OBVIOUS
    <3> HIDE DEF was, new, old
    <3> QED BY <2>2, <3>1, <3>2, <3>3
  <2>4. is \in {"unloaded", "loading", "loaded"}
    BY <1>1, <1>3, CreatedIs
  <2>5. cache' \in Partial(Elements, Cached) /\ DOMAIN cache' = DOMAIN cache \cup {e}
    <3>1. cache \in [DOMAIN cache -> Cached] /\ DOMAIN cache \subseteq Elements
      BY <1>1, PartialIs DEF ManagerTypeOK
    <3>2. cache' \in [DOMAIN cache \cup {e} -> Cached]
      BY <2>1, <2>3, <3>1
    <3>3. DOMAIN cache' = DOMAIN cache \cup {e}
      BY <3>2
    <3> QED BY <1>3, <3>1, <3>2, <3>3, PartialIs
  <2>6. /\ thread' \in [Threads -> Update]
        /\ \A u \in Threads :
             /\ thread'[u].at = others[u].at
             /\ thread'[u].items = others[u].items
             /\ thread'[u].activates = others[u].activates
             /\ DOMAIN thread'[u].seen \subseteq DOMAIN others[u].seen
             /\ \A x \in DOMAIN thread'[u].seen : thread'[u].seen[x] = others[u].seen[x]
    <3>1. others \in [Threads -> Update]
      BY <1>1, PartedType
    <3> HIDE DEF others
    <3> QED BY <2>1, <3>1, NarrowType
  <2>7. \A u \in Threads :
          /\ thread'[u].at = thread[u].at
          /\ thread'[u].items = thread[u].items
          /\ thread'[u].activates = thread[u].activates
          /\ DOMAIN thread'[u].seen \subseteq DOMAIN thread[u].seen
          /\ \A x \in DOMAIN thread'[u].seen :
               thread'[u].seen[x] = SameObject => thread[u].seen[x] = SameObject
    BY <1>1, <2>6, PartedType
  <2> HIDE DEF is, others, new, old, changed, initializes, was
  <2>8. ManagerTypeOK'
    BY <1>1, <1>3, <1>4, <2>1, <2>4, <2>5, <2>6 DEF ManagerTypeOK
  <2>9. SeenIsCached'
    BY <1>1, <2>5, <2>7 DEF SeenIsCached
  <2>10. \E i \in {"unloaded", "loading", "loaded"} : mse' = [mse EXCEPT ![e] = i]
    BY <2>1, <2>4
  <2> QED BY <2>5, <2>7, <2>8, <2>9, <2>10 DEF TypeInv, Answered
<1> QED BY <1>5, <1>6

(* An update that moves on, or is over. *)
LEMMA MoveType ==
  ASSUME ManagerTypeOK, NEW t \in Threads, NEW a \in {"idle", "preparing", "updating", "updated", "loading"}
  PROVE  /\ [thread EXCEPT ![t].at = a] \in [Threads -> Update]
         /\ [thread EXCEPT ![t] = Idle] \in [Threads -> Update]
<1>1. [thread[t] EXCEPT !.at = a] \in Update
  BY UpdateFields DEF Update
<1>2. [thread EXCEPT ![t].at = a] = [thread EXCEPT ![t] = [thread[t] EXCEPT !.at = a]]
  OBVIOUS
<1> QED BY <1>1, <1>2, IdleIsUpdate DEF ManagerTypeOK

LEMMA MovesTyped ==
  ASSUME TypeInv, NEW t \in Threads, DOMAIN cache \subseteq DOMAIN cache',
         \/ \E a \in {"idle", "preparing", "updating", "updated", "loading"} :
              thread' = [thread EXCEPT ![t].at = a]
         \/ thread' = [thread EXCEPT ![t] = Idle]
         \/ \E f, g \in BOOLEAN : thread' = Start(t, f, g)
  PROVE  thread' \in [Threads -> Update] /\ SeenIsCached'
<1>1. ManagerTypeOK /\ SeenIsCached /\ thread \in [Threads -> Update]
  BY DEF TypeInv, ManagerTypeOK
<1>2. CASE \E a \in {"idle", "preparing", "updating", "updated", "loading"} :
              thread' = [thread EXCEPT ![t].at = a]
  <2>1. PICK a \in {"idle", "preparing", "updating", "updated", "loading"} :
          thread' = [thread EXCEPT ![t].at = a]
    BY <1>2
  <2>2. thread' \in [Threads -> Update]
    BY <1>1, <2>1, MoveType
  <2>3. thread'[t].seen = thread[t].seen
    BY <1>1, <2>1, UpdateFields DEF Update
  <2> QED BY <1>1, <2>1, <2>2, <2>3, OneMoves
<1>3. CASE thread' = [thread EXCEPT ![t] = Idle]
  <2>1. thread' \in [Threads -> Update]
    BY <1>1, <1>3, IdleIsUpdate
  <2>2. thread'[t].seen = None
    BY <1>1, <1>3 DEF Idle
  <2> QED BY <1>1, <1>3, <2>1, <2>2, OneMoves
<1>4. CASE \E f, g \in BOOLEAN : thread' = Start(t, f, g)
  <2>1. PICK f \in BOOLEAN, g \in BOOLEAN : thread' = Start(t, f, g)
    BY <1>4
  <2>2. /\ thread' \in [Threads -> Update]
        /\ \A u \in Threads \ {t} : thread'[u] = thread[u]
        /\ thread'[t].seen = None
    BY <1>1, <2>1, StartType
  <2> QED BY <1>1, <2>2, OneMoves
<1> QED BY <1>2, <1>3, <1>4

LEMMA ExpectingTyped ==
  ASSUME TypeInv, NEW items \in SUBSET Elements, SetExpectedPlayoutItems(items)
  PROVE  /\ TypeInv'
         /\ DOMAIN cache' = DOMAIN cache
         /\ \A u \in Threads \ {Expecting} : thread'[u] = thread[u]
         /\ thread'[Expecting].items = items
         /\ thread'[Expecting].seen = None
         /\ ~ thread'[Expecting].activates
         /\ thread'[Expecting].at = "preparing"
<1>1. ManagerTypeOK /\ SeenIsCached /\ Expecting \in Threads
  BY DEF TypeInv, Threads
<1> DEFINE begun == Start(Expecting, FALSE, FALSE)
<1>2. /\ begun \in [Threads -> Update]
      /\ \A u \in Threads \ {Expecting} : begun[u] = thread[u]
      /\ begun[Expecting].seen = None
      /\ begun[Expecting].at = "preparing"
      /\ begun[Expecting].activates = (Expecting = Loader /\ (FALSE \/ thread[Expecting].activates))
  BY <1>1, StartType
<1>3. Expecting # Loader
  BY DEF Expecting, Loader
<1>4. thread' = [begun EXCEPT ![Expecting] = [begun[Expecting] EXCEPT !.items = items]]
  BY DEF SetExpectedPlayoutItems
<1> HIDE DEF begun
<1>5. /\ [begun[Expecting] EXCEPT !.items = items] \in Update
      /\ [begun[Expecting] EXCEPT !.items = items].items = items
      /\ [begun[Expecting] EXCEPT !.items = items].seen = None
      /\ [begun[Expecting] EXCEPT !.items = items].at = "preparing"
      /\ ~ [begun[Expecting] EXCEPT !.items = items].activates
  BY <1>1, <1>2, <1>3 DEF Update
<1>6. /\ thread' \in [Threads -> Update]
      /\ \A u \in Threads \ {Expecting} : thread'[u] = thread[u]
      /\ thread'[Expecting] = [begun[Expecting] EXCEPT !.items = items]
  BY <1>1, <1>2, <1>4, <1>5
<1>7. cache' \in Partial(Elements, Cached) /\ DOMAIN cache' = DOMAIN cache
  BY <1>1, KeptType DEF SetExpectedPlayoutItems
<1>8. happened' \in [changes : Nat, activations : Nat, takes : Nat, troubles : Nat]
  BY <1>1 DEF ManagerTypeOK, SetExpectedPlayoutItems, Count
<1>9. ManagerTypeOK'
  BY <1>1, <1>6, <1>7, <1>8 DEF ManagerTypeOK, SetExpectedPlayoutItems
<1>10. SeenIsCached'
  BY <1>1, <1>5, <1>6, <1>7, OneMoves
<1> QED BY <1>5, <1>6, <1>7, <1>9, <1>10 DEF TypeInv

(* Steps of the two updates that are started over and over. *)
LEMMA MonitorTyped ==
  ASSUME TypeInv, MonitorTick \/ MonitorDone
  PROVE  TypeInv' /\ DOMAIN cache' = DOMAIN cache
<1>1. ManagerTypeOK /\ SeenIsCached /\ Monitor \in Threads
  BY DEF TypeInv, Threads
<1>2. cache' \in Partial(Elements, Cached) /\ DOMAIN cache' = DOMAIN cache
  <2>1. CASE MonitorTick
    BY <1>1, <2>1, KeptType DEF MonitorTick
  <2>2. CASE MonitorDone
    BY <1>1, <2>2 DEF MonitorDone, ManagerTypeOK
  <2> QED BY <2>1, <2>2
<1>3. thread' \in [Threads -> Update] /\ SeenIsCached'
  BY <1>1, <1>2, MovesTyped DEF MonitorTick, MonitorDone
<1> QED BY <1>1, <1>2, <1>3 DEF TypeInv, ManagerTypeOK, MonitorTick, MonitorDone

LEMMA RefreshedTyped ==
  ASSUME TypeInv, NEW t \in Threads, Refreshed(t)
  PROVE  TypeInv'
<1>1. ManagerTypeOK /\ SeenIsCached
  BY DEF TypeInv
<1>2. thread' \in [Threads -> Update] /\ SeenIsCached'
  BY <1>1, MovesTyped DEF Refreshed
<1>3. flags' \in [connected : BOOLEAN, updateAfterReconnect : BOOLEAN, showInitialized : BOOLEAN]
  BY <1>1 DEF Refreshed, ManagerTypeOK
<1> QED BY <1>1, <1>2, <1>3 DEF TypeInv, ManagerTypeOK, Refreshed

LEMMA ShowInitializedType ==
  ASSUME NEW m \in [Elements -> {"absent", "unloaded", "loading", "loaded"}]
  PROVE  /\ ShowInitialized(m) \in [Elements -> {"absent", "unloaded", "loading", "loaded"}]
         /\ \A e \in Elements : (ShowInitialized(m)[e] = "absent") <=> (m[e] = "absent")
BY DEF ShowInitialized

LEMMA ExpectingDoneTyped ==
  ASSUME TypeInv, ExpectingDone
  PROVE  /\ TypeInv'
         /\ DOMAIN cache' = DOMAIN cache
         /\ \A e \in Elements : (mse'[e] = "absent") <=> (mse[e] = "absent")
<1>1. ManagerTypeOK /\ SeenIsCached /\ Expecting \in Threads
  BY DEF TypeInv, Threads
<1>2. cache \in [DOMAIN cache -> Cached] /\ DOMAIN cache \subseteq Elements
  BY <1>1, PartialIs DEF ManagerTypeOK
<1> DEFINE wanted == {e \in DOMAIN cache \cap Internal :
                        (AutoLoad \/ flags.showInitialized) /\ ~cache[e].isLoaded /\ ~cache[e].requested}
           unwanted == {e \in DOMAIN cache : e \notin thread[Expecting].items /\ ~cache[e].toDelete}
<1>3. /\ cache' = [e \in DOMAIN cache |-> [cache[e] EXCEPT !.requested = @ \/ e \in wanted,
                                                            !.toDelete = @ \/ e \in unwanted]]
      /\ mse' = IF wanted = {} THEN mse ELSE ShowInitialized(mse)
      /\ doomed' = doomed \cup unwanted
  BY DEF ExpectingDone
<1>4. unwanted \subseteq Elements
  BY <1>2
<1> HIDE DEF wanted, unwanted
<1>5. DOMAIN cache' = DOMAIN cache /\ cache' \in Partial(Elements, Cached)
  <2>1. ASSUME NEW e \in DOMAIN cache
        PROVE  [cache[e] EXCEPT !.requested = @ \/ e \in wanted,
                                !.toDelete = @ \/ e \in unwanted] \in Cached
    BY <1>2 DEF Cached
  <2>2. cache' \in [DOMAIN cache -> Cached] /\ DOMAIN cache' = DOMAIN cache
    BY <1>3, <2>1
  <2> QED BY <1>2, <2>2, PartialIs
<1>6. /\ mse' \in [Elements -> {"absent", "unloaded", "loading", "loaded"}]
      /\ \A e \in Elements : (mse'[e] = "absent") <=> (mse[e] = "absent")
  BY <1>1, <1>3, ShowInitializedType DEF ManagerTypeOK
<1>7. thread' \in [Threads -> Update] /\ SeenIsCached'
  BY <1>1, <1>5, MovesTyped DEF ExpectingDone
<1>8. ManagerTypeOK'
  BY <1>1, <1>3, <1>4, <1>5, <1>6, <1>7 DEF ManagerTypeOK, ExpectingDone
<1> QED BY <1>5, <1>6, <1>7, <1>8 DEF TypeInv

LEMMA DeletedTyped ==
  ASSUME TypeInv, NEW e \in Elements, Deleted(e)
  PROVE  TypeInv' /\ DOMAIN cache' = DOMAIN cache \ {e}
<1>1. ManagerTypeOK /\ SeenIsCached
  BY DEF TypeInv
<1>2. cache' = Restrict(cache, DOMAIN cache \ {e}) /\ thread' = Parted(thread, {e})
  BY DEF Deleted
<1>3. DOMAIN cache' = DOMAIN cache \ {e} /\ cache' \in Partial(Elements, Cached)
  <2>1. cache \in [DOMAIN cache -> Cached] /\ DOMAIN cache \subseteq Elements
    BY <1>1, PartialIs DEF ManagerTypeOK
  <2>2. cache' \in [DOMAIN cache \ {e} -> Cached] /\ DOMAIN cache' = DOMAIN cache \ {e}
    BY <1>2, <2>1 DEF Restrict
  <2> QED BY <2>1, <2>2, PartialIs
<1>4. /\ thread' \in [Threads -> Update]
      /\ \A t \in Threads :
           /\ DOMAIN thread'[t].seen = DOMAIN thread[t].seen
           /\ \A x \in DOMAIN thread[t].seen :
                thread'[t].seen[x] = SameObject =>
                  thread[t].seen[x] = SameObject /\ x \notin {e} \cap DOMAIN cache
  BY <1>1, <1>2, PartedType
<1>5. ManagerTypeOK'
  BY <1>1, <1>3, <1>4 DEF ManagerTypeOK, Deleted
<1>6. SeenIsCached'
  BY <1>1, <1>3, <1>4 DEF SeenIsCached
<1> QED BY <1>3, <1>5, <1>6 DEF TypeInv

(* What an activation does to the cache and to the update that it starts.  *)
LEMMA ActivateTyped ==
  ASSUME TypeInv, NEW another \in BOOLEAN, Activate(another)
  PROVE  /\ TypeInv'
         /\ DOMAIN cache' = IF another THEN {} ELSE DOMAIN cache
         /\ ~ another => mse' = mse
         /\ \A u \in Threads \ {Loader} : thread'[u].items = thread[u].items
                                          /\ thread'[u].at = thread[u].at
                                          /\ DOMAIN thread'[u].seen = DOMAIN thread[u].seen
         /\ thread'[Loader].items = expected
         /\ thread'[Loader].seen = None
         /\ thread'[Loader].at = "preparing"
<1>1. ManagerTypeOK /\ SeenIsCached /\ Loader \in Threads
  BY DEF TypeInv, Threads
<1>2. happened' \in [changes : Nat, activations : Nat, takes : Nat, troubles : Nat]
  BY <1>1 DEF ManagerTypeOK, Activate, Count
<1>3. CASE another
  <2> DEFINE others == Parted(thread, Elements)
             begun == Start(Loader, TRUE, TRUE)[Loader]
  <2>1. /\ thread' = [others EXCEPT ![Loader] = begun]
        /\ mse' = [e \in Elements |-> IF e \in Pilots \ (Keep \cap expected) THEN "absent" ELSE mse[e]]
        /\ cache' = None /\ media' = {}
    BY <1>3 DEF Activate
  <2>2. begun \in Update /\ begun.items = expected /\ begun.seen = None /\ begun.at = "preparing"
    BY <1>1, StartType
  <2>3. /\ others \in [Threads -> Update]
        /\ \A t \in Threads :
             /\ others[t].at = thread[t].at
             /\ others[t].items = thread[t].items
             /\ DOMAIN others[t].seen = DOMAIN thread[t].seen
             /\ \A x \in DOMAIN thread[t].seen :
                  others[t].seen[x] = SameObject =>
                    thread[t].seen[x] = SameObject /\ x \notin Elements \cap DOMAIN cache
    BY <1>1, PartedType
  <2> HIDE DEF others, begun
  <2>4. /\ thread' \in [Threads -> Update]
        /\ \A u \in Threads \ {Loader} : thread'[u] = others[u]
        /\ thread'[Loader] = begun
    BY <1>1, <2>1, <2>2, <2>3
  <2>5. cache' \in Partial(Elements, Cached) /\ DOMAIN cache' = {}
    BY <2>1, NothingIsPartial
  <2>6. mse' \in [Elements -> {"absent", "unloaded", "loading", "loaded"}]
    BY <1>1, <2>1 DEF ManagerTypeOK
  <2>7. ManagerTypeOK'
    BY <1>1, <1>2, <2>1, <2>4, <2>5, <2>6 DEF ManagerTypeOK, Activate
  <2>8. SeenIsCached'
    <3>1. DOMAIN cache \subseteq Elements
      BY <1>1, PartialIs DEF ManagerTypeOK
    <3>2. ASSUME NEW t \in Threads, NEW x \in DOMAIN thread'[t].seen PROVE thread'[t].seen[x] # SameObject
      <4>1. CASE t = Loader
        BY <2>2, <2>4, <4>1, NothingIsPartial
      <4>2. CASE t # Loader
        BY <1>1, <2>3, <2>4, <3>1, <4>2 DEF SeenIsCached
      <4> QED BY <4>1, <4>2
    <3> QED BY <3>2 DEF SeenIsCached
  <2> QED BY <1>1, <1>3, <2>2, <2>3, <2>4, <2>5, <2>7, <2>8 DEF TypeInv
<1>4. CASE ~ another
  <2> DEFINE begun == Start(Loader, TRUE, FALSE)
  <2>1. /\ thread' = [begun EXCEPT ![Loader] = [begun[Loader] EXCEPT !.activates = TRUE]]
        /\ cache' = Kept(expected) /\ mse' = mse /\ media' = media
    BY <1>4 DEF Activate
  <2>2. /\ begun \in [Threads -> Update]
        /\ \A u \in Threads \ {Loader} : begun[u] = thread[u]
        /\ begun[Loader].at = "preparing"
        /\ begun[Loader].items = expected
        /\ begun[Loader].seen = None
    BY <1>1, StartType
  <2> HIDE DEF begun
  <2>3. /\ [begun[Loader] EXCEPT !.activates = TRUE] \in Update
        /\ [begun[Loader] EXCEPT !.activates = TRUE].at = "preparing"
        /\ [begun[Loader] EXCEPT !.activates = TRUE].items = expected
        /\ [begun[Loader] EXCEPT !.activates = TRUE].seen = None
    BY <1>1, <2>2 DEF Update
  <2>4. /\ thread' \in [Threads -> Update]
        /\ \A u \in Threads \ {Loader} : thread'[u] = thread[u]
        /\ thread'[Loader] = [begun[Loader] EXCEPT !.activates = TRUE]
    BY <1>1, <2>1, <2>2, <2>3
  <2>5. cache' \in Partial(Elements, Cached) /\ DOMAIN cache' = DOMAIN cache
    BY <1>1, <2>1, KeptType
  <2>6. ManagerTypeOK'
    BY <1>1, <1>2, <2>1, <2>4, <2>5 DEF ManagerTypeOK, Activate
  <2>7. SeenIsCached'
    BY <1>1, <2>3, <2>4, <2>5, OneMoves
  <2> QED BY <1>4, <2>1, <2>3, <2>4, <2>5, <2>6, <2>7 DEF TypeInv
<1> QED BY <1>3, <1>4

LEMMA LoadAllTyped ==
  ASSUME TypeInv, LoadAllElements
  PROVE  TypeInv' /\ DOMAIN cache' = DOMAIN cache
<1>1. ManagerTypeOK /\ SeenIsCached /\ Loader \in Threads
  BY DEF TypeInv, Threads
<1>2. cache' \in Partial(Elements, Cached) /\ DOMAIN cache' = DOMAIN cache
  BY <1>1, KeptType DEF LoadAllElements
<1>3. thread' \in [Threads -> Update] /\ SeenIsCached'
  BY <1>1, <1>2, MovesTyped DEF LoadAllElements
<1>4. happened' \in [changes : Nat, activations : Nat, takes : Nat, troubles : Nat]
  BY <1>1 DEF ManagerTypeOK, LoadAllElements, Count
<1> QED BY <1>1, <1>2, <1>3, <1>4 DEF TypeInv, ManagerTypeOK, LoadAllElements

LEMMA LoadTyped ==
  ASSUME TypeInv, Load
  PROVE  /\ TypeInv'
         /\ DOMAIN cache' = DOMAIN cache
         /\ \A e \in Elements : (mse'[e] = "absent") <=> (mse[e] = "absent")
         /\ \A u \in Threads \ {Loader} : thread'[u] = thread[u]
         /\ \/ thread'[Loader].items = expected /\ thread'[Loader].seen = None
            \/ /\ thread'[Loader].items = thread[Loader].items
               /\ thread'[Loader].seen = thread[Loader].seen
         /\ thread'[Loader].at # "idle"
         /\ thread'[Loader].activates = thread[Loader].activates
<1>1. ManagerTypeOK /\ SeenIsCached /\ Loader \in Threads /\ thread \in [Threads -> Update]
  BY DEF TypeInv, Threads, ManagerTypeOK
<1>2. cache \in [DOMAIN cache -> Cached] /\ DOMAIN cache \subseteq Elements
  BY <1>1, PartialIs DEF ManagerTypeOK
<1>3. cache' \in Partial(Elements, Cached) /\ DOMAIN cache' = DOMAIN cache
  <2>1. ASSUME NEW c \in Cached PROVE [c EXCEPT !.requested = TRUE] \in Cached
    BY DEF Cached
  <2>2. cache' \in [DOMAIN cache -> Cached] /\ DOMAIN cache' = DOMAIN cache
    BY <1>2, <2>1 DEF Load
  <2> QED BY <1>2, <2>2, PartialIs
<1>4. /\ mse' \in [Elements -> {"absent", "unloaded", "loading", "loaded"}]
      /\ \A e \in Elements : (mse'[e] = "absent") <=> (mse[e] = "absent")
  BY <1>1, ShowInitializedType DEF ManagerTypeOK, Load
<1> DEFINE begun == Start(Loader, FALSE, FALSE)
<1>5. /\ begun \in [Threads -> Update]
      /\ begun[Loader].items = expected /\ begun[Loader].seen = None
      /\ begun[Loader].at = "preparing"
      /\ begun[Loader].activates = (Loader = Loader /\ (FALSE \/ thread[Loader].activates))
      /\ \A u \in Threads \ {Loader} : begun[u] = thread[u]
  BY <1>1, StartType
<1>6. \/ thread' = [thread EXCEPT ![Loader] = begun[Loader]]
      \/ thread' = [thread EXCEPT ![Loader].at = "loading"]
  BY DEF Load
<1>7. [thread EXCEPT ![Loader] = begun[Loader]] = begun
  BY <1>1, <1>5
<1> HIDE DEF begun
<1>8. thread' \in [Threads -> Update] /\ SeenIsCached'
  <2>1. CASE thread' = [thread EXCEPT ![Loader].at = "loading"]
    BY <1>1, <1>3, <2>1, MovesTyped
  <2>2. CASE thread' = begun
    BY <1>1, <1>3, <1>5, <2>2, OneMoves
  <2> QED BY <1>6, <1>7, <2>1, <2>2
<1>9. /\ \A u \in Threads \ {Loader} : thread'[u] = thread[u]
      /\ \/ thread'[Loader].items = expected /\ thread'[Loader].seen = None
         \/ /\ thread'[Loader].items = thread[Loader].items
            /\ thread'[Loader].seen = thread[Loader].seen
      /\ thread'[Loader].at # "idle"
      /\ thread'[Loader].activates = thread[Loader].activates
  <2>0. thread[Loader].activates \in BOOLEAN
    BY <1>1 DEF Update
  <2>1. CASE thread' = [thread EXCEPT ![Loader].at = "loading"]
    <3>1. thread[Loader] \in Update
      BY <1>1
    <3> QED BY <1>1, <2>1, <3>1 DEF Update
  <2>2. CASE thread' = begun
    BY <1>5, <2>0, <2>2
  <2> QED BY <1>6, <1>7, <2>1, <2>2
<1>10. ManagerTypeOK'
  BY <1>1, <1>3, <1>4, <1>8 DEF ManagerTypeOK, Load
<1> QED BY <1>3, <1>4, <1>8, <1>9, <1>10 DEF TypeInv

LEMMA LoadedTyped ==
  ASSUME TypeInv, Loaded
  PROVE  TypeInv'
<1>1. ManagerTypeOK /\ SeenIsCached /\ Loader \in Threads
  BY DEF TypeInv, Threads
<1>2. thread' \in [Threads -> Update] /\ SeenIsCached'
  BY <1>1, MovesTyped DEF Loaded
<1>3. active' \in BOOLEAN
  <2>1. thread[Loader].activates \in BOOLEAN
    BY <1>1, UpdateFields DEF Update
  <2> QED BY <1>1, <2>1 DEF Loaded, ManagerTypeOK
<1>4. mse' \in [Elements -> {"absent", "unloaded", "loading", "loaded"}]
  BY <1>1 DEF ManagerTypeOK, Loaded
<1> QED BY <1>1, <1>2, <1>3, <1>4 DEF TypeInv, ManagerTypeOK, Loaded

LEMMA TakeTyped ==
  ASSUME TypeInv, NEW e \in Elements, Take(e)
  PROVE  /\ TypeInv'
         /\ DOMAIN cache' = DOMAIN cache \cup {e}
         /\ \/ mse' = mse
            \/ \E is \in {"unloaded", "loading", "loaded"} : mse' = [mse EXCEPT ![e] = is]
         /\ e \notin DOMAIN cache => mse'[e] # "absent"
<1>1. ManagerTypeOK /\ SeenIsCached
  BY DEF TypeInv
<1>2. Created(e) \in {"unloaded", "loading", "loaded"}
  BY <1>1, CreatedIs
<1>3. /\ cache' \in Partial(Elements, Cached)
      /\ DOMAIN cache' = DOMAIN cache \cup {e}
  BY <1>1, KeptType, CacheElementType DEF Take
<1>4. /\ \/ mse' = mse
         \/ mse' = [mse EXCEPT ![e] = Created(e)]
      /\ e \notin DOMAIN cache => mse' = [mse EXCEPT ![e] = Created(e)]
  BY DEF Take
<1>5. mse' \in [Elements -> {"absent", "unloaded", "loading", "loaded"}]
  BY <1>1, <1>2, <1>4 DEF ManagerTypeOK
<1>6. happened' \in [changes : Nat, activations : Nat, takes : Nat, troubles : Nat]
  BY <1>1 DEF ManagerTypeOK, Take, Count
<1>7. ManagerTypeOK'
  BY <1>1, <1>3, <1>5, <1>6 DEF ManagerTypeOK, Take
<1>8. SeenIsCached'
  BY <1>1, <1>3, SameSeen DEF Take
<1>9. e \notin DOMAIN cache => mse'[e] # "absent"
  BY <1>1, <1>2, <1>4 DEF ManagerTypeOK
<1> QED BY <1>2, <1>3, <1>4, <1>7, <1>8, <1>9 DEF TypeInv

(* What is left to do changes neither the updates nor the cache. *)
LEMMA OthersTyped ==
  ASSUME TypeInv,
         \/ DeleteTimeout \/ Deactivate \/ InitializeShows \/ CleanupShows
         \/ EngineRestarts \/ ConnectionChanges
         \/ \E e \in Elements : Taken(e) \/ EngineLoads(e)
         \/ UNCHANGED managerVars
  PROVE  TypeInv' /\ cache' = cache /\ thread' = thread /\ expected' = expected
<1>1. ManagerTypeOK /\ SeenIsCached
  BY DEF TypeInv
<1>2. cache' = cache /\ thread' = thread /\ expected' = expected
  BY DEF DeleteTimeout, Deactivate, InitializeShows, CleanupShows, EngineRestarts,
    ConnectionChanges, Taken, EngineLoads, managerVars
<1>3. SeenIsCached'
  BY <1>1, <1>2 DEF SeenIsCached
<1>4. ManagerTypeOK'
  <2>1. CASE DeleteTimeout
    BY <1>1, <2>1 DEF DeleteTimeout, ManagerTypeOK
  <2>2. CASE Deactivate
    BY <1>1, <2>2 DEF Deactivate, ManagerTypeOK
  <2>3. CASE InitializeShows
    <3> DEFINE purged == [e \in Elements |->
                            IF PurgeUnknown /\ e \in Internal \ expected THEN "absent" ELSE mse[e]]
    <3>1. purged \in [Elements -> {"absent", "unloaded", "loading", "loaded"}]
      BY <1>1 DEF ManagerTypeOK
    <3>2. mse' = ShowInitialized(purged)
      BY <2>3 DEF InitializeShows
    <3> HIDE DEF purged
    <3>3. mse' \in [Elements -> {"absent", "unloaded", "loading", "loaded"}]
      BY <3>1, <3>2, ShowInitializedType
    <3> QED BY <1>1, <2>3, <3>3 DEF InitializeShows, ManagerTypeOK
  <2>4. CASE CleanupShows
    BY <1>1, <2>4 DEF CleanupShows, ManagerTypeOK
  <2>5. CASE EngineRestarts
    BY <1>1, <2>5 DEF EngineRestarts, ManagerTypeOK, Count
  <2>6. CASE ConnectionChanges
    <3>1. flags' \in [connected : BOOLEAN, updateAfterReconnect : BOOLEAN, showInitialized : BOOLEAN]
      BY <1>1, <2>6 DEF ConnectionChanges, ManagerTypeOK
    <3>2. happened' = happened \/ happened' = [happened EXCEPT !["troubles"] = @ + 1]
      BY <2>6 DEF ConnectionChanges, Count
    <3>3. happened' \in [changes : Nat, activations : Nat, takes : Nat, troubles : Nat]
      BY <1>1, <3>2 DEF ManagerTypeOK
    <3> QED BY <1>1, <2>6, <3>1, <3>3 DEF ConnectionChanges, ManagerTypeOK
  <2>7. CASE \E e \in Elements : Taken(e)
    BY <1>1, <2>7 DEF Taken, ManagerTypeOK
  <2>8. CASE \E e \in Elements : EngineLoads(e)
    BY <1>1, <2>8 DEF EngineLoads, ManagerTypeOK
  <2>9. CASE UNCHANGED managerVars
    BY <1>1, <2>9 DEF managerVars, ManagerTypeOK
  <2> QED BY <2>1, <2>2, <2>3, <2>4, <2>5, <2>6, <2>7, <2>8, <2>9
<1> QED BY <1>2, <1>3, <1>4 DEF TypeInv

LEMMA NextTyped ==
  ASSUME TypeInv, [ManagerNext]_managerVars
  PROVE  TypeInv'
<1>1. CASE \E t \in Threads : Updating(t)
  BY <1>1, PrepareTyped, CollectTyped, RefreshTyped, RefreshedTyped DEF Updating
<1>2. CASE MonitorTick \/ MonitorDone
  BY <1>2, MonitorTyped
<1>3. CASE \E items \in SUBSET Elements : SetExpectedPlayoutItems(items)
  BY <1>3, ExpectingTyped
<1>4. CASE ExpectingDone
  BY <1>4, ExpectingDoneTyped
<1>5. CASE \E e \in Elements : Deleted(e) \/ Take(e)
  BY <1>5, DeletedTyped, TakeTyped
<1>6. CASE \E another \in BOOLEAN : Activate(another)
  BY <1>6, ActivateTyped
<1>7. CASE LoadAllElements \/ Load \/ Loaded
  BY <1>7, LoadAllTyped, LoadTyped, LoadedTyped
<1>8. CASE \/ DeleteTimeout \/ Deactivate \/ InitializeShows \/ CleanupShows
           \/ EngineRestarts \/ ConnectionChanges
           \/ \E e \in Elements : Taken(e) \/ EngineLoads(e)
           \/ UNCHANGED managerVars
  BY <1>8, OthersTyped
<1> QED BY <1>1, <1>2, <1>3, <1>4, <1>5, <1>6, <1>7, <1>8 DEF ManagerNext

(* The cache, what updates hold of it and what the MSE has keep their      *)
(* types, also when updates overlap and elements are taken, deleted and    *)
(* purged around them (vizMSEManager.ts:756-895: objects of the cache are  *)
(* held across awaits, and put back as copies).                            *)
THEOREM ManagerTypeCorrect == ManagerSpec => []ManagerTypeOK
<1>1. TypeInv => ManagerTypeOK
  BY DEF TypeInv
<1> QED BY <1>1, InitTyped, NextTyped, PTL DEF ManagerSpec
=============================================================================
