---------------------- MODULE ConductorDatastoreProofs ----------------------
(***************************************************************************)
(* What the conductor remembers of the states of a device, for every       *)
(* datastore and any number of instants.  The lemmas on Filtered come      *)
(* first: it lists its indices in their order, each of them once.          *)
(***************************************************************************)
EXTENDS ConductorDatastore, FiniteSetTheorems, SequenceTheorems, TLAPS

(* Every nonempty set of natural numbers has a least element. *)
LEMMA LeastNatural ==
  ASSUME NEW T \in SUBSET Nat, T # {}
  PROVE  \E x \in T : \A y \in T : x <= y
<1>1. PICK x \in T : \A y \in T : ~ (<<y, x>> \in OpToRel(<, Nat))
  BY NatLessThanWellFounded, WFMin
<1>2. ASSUME NEW y \in T PROVE x <= y
  <2>1. ~ (y < x)
    BY <1>1, <1>2 DEF OpToRel
  <2> QED BY <2>1
<1> QED BY <1>2

Below(S, i) == {j \in S : j < i}

(* The greater of two indices has more of them below it. *)
LEMMA BelowGrows ==
  ASSUME NEW S \in SUBSET Nat, IsFiniteSet(S), NEW i \in S, NEW j \in S, i < j
  PROVE  /\ Cardinality(Below(S, i)) \in Nat
         /\ Cardinality(Below(S, i)) < Cardinality(Below(S, j))
         /\ Cardinality(Below(S, j)) < Cardinality(S)
<1> i \in Nat /\ j \in Nat /\ \A x \in S : x \in Nat
  OBVIOUS
<1>1. /\ Below(S, i) \in SUBSET Below(S, j) /\ i \in Below(S, j) /\ i \notin Below(S, i)
      /\ Below(S, j) \in SUBSET S /\ j \notin Below(S, j)
  <2>1. \A x \in S : x < i => x < j
    OBVIOUS
  <2>2. ~ (i < i) /\ ~ (j < j)
    OBVIOUS
  <2> QED BY <2>1, <2>2 DEF Below
<1>2. IsFiniteSet(Below(S, j))
  BY <1>1, FS_Subset
<1>3. /\ Cardinality(Below(S, i)) <= Cardinality(Below(S, j))
      /\ Cardinality(Below(S, i)) # Cardinality(Below(S, j))
      /\ IsFiniteSet(Below(S, i))
  BY <1>1, <1>2, FS_Subset
<1>4. /\ Cardinality(Below(S, j)) <= Cardinality(S)
      /\ Cardinality(Below(S, j)) # Cardinality(S)
  BY <1>1, FS_Subset
<1>5. /\ Cardinality(Below(S, i)) \in Nat /\ Cardinality(Below(S, j)) \in Nat
      /\ Cardinality(S) \in Nat
  BY <1>2, <1>3, FS_CardinalityType
<1> QED BY <1>3, <1>4, <1>5

(* There is an index for every place: were there none for the n-th place,  *)
(* take the least such n; without the least index of all, the place before *)
(* it would have none either.                                              *)
LEMMA EveryPlace ==
  ASSUME NEW S \in SUBSET Nat, IsFiniteSet(S), NEW n \in 1 .. Cardinality(S)
  PROVE  \E i \in S : Cardinality(Below(S, i)) = n - 1
<1> DEFINE Lacks(T, k) == /\ IsFiniteSet(T) /\ k \in 1 .. Cardinality(T)
                          /\ \A i \in T : Cardinality(Below(T, i)) # k - 1
           Bad == {k \in Nat : \E T \in SUBSET Nat : Lacks(T, k)}
<1>1. SUFFICES Bad = {}
  <2>1. n \in Nat /\ n \in 1 .. Cardinality(S)
    BY FS_CardinalityType
  <2> QED BY <2>1
<1>2. SUFFICES ASSUME Bad # {} PROVE FALSE
  OBVIOUS
<1>3. PICK k \in Bad : \A y \in Bad : k <= y
  <2> Bad \in SUBSET Nat OBVIOUS
  <2> HIDE DEF Bad
  <2> QED BY <1>2, LeastNatural
<1>4. PICK T \in SUBSET Nat : Lacks(T, k)
  BY <1>3
<1>5. Cardinality(T) \in Nat /\ k \in Nat /\ 1 <= k /\ k <= Cardinality(T) /\ IsFiniteSet(T)
  BY <1>4, FS_CardinalityType
<1>6. T # {}
  BY <1>5, FS_EmptySet
<1>7. PICK m \in T : \A y \in T : m <= y
  BY <1>6, LeastNatural
<1>8. CASE k = 1
  <2>1. Below(T, m) = {}
    <3>1. \A y \in T : y \in Nat /\ m \in Nat /\ ~ (y < m)
      BY <1>7
    <3> QED BY <3>1 DEF Below
  <2> QED BY <1>4, <1>8, <2>1, FS_EmptySet
<1>9. CASE k # 1
  <2> DEFINE U == T \ {m}
  <2>1. IsFiniteSet(U) /\ Cardinality(U) = Cardinality(T) - 1
    BY <1>4, FS_RemoveElement
  <2>2. k - 1 \in Nat /\ k - 1 \in 1 .. Cardinality(U) /\ ~ (k <= k - 1)
    BY <1>5, <1>9, <2>1
  <2>3. ~ Lacks(U, k - 1)
    BY <1>3, <2>2
  <2>4. PICK i \in U : Cardinality(Below(U, i)) = k - 1 - 1
    BY <2>1, <2>2, <2>3
  <2>5. /\ Below(T, i) = Below(U, i) \cup {m} /\ m \notin Below(U, i)
        /\ Below(U, i) \in SUBSET U
    BY <1>7, <2>4 DEF Below
  <2>6. IsFiniteSet(Below(U, i))
    BY <2>1, <2>5, FS_Subset
  <2>7. Cardinality(Below(T, i)) = Cardinality(Below(U, i)) + 1
    BY <2>5, <2>6, FS_AddElement
  <2>8. Cardinality(Below(T, i)) = k - 1
    BY <2>4, <2>7, <1>5
  <2> QED BY <1>4, <2>8
<1> QED BY <1>8, <1>9

Index(S, k) == CHOOSE i \in S : Cardinality({j \in S : j < i}) = k - 1

(* The k-th of the indices, all of them, in their order. *)
LEMMA IndexInOrder ==
  ASSUME NEW S \in SUBSET Nat, IsFiniteSet(S)
  PROVE  /\ \A k \in 1 .. Cardinality(S) : Index(S, k) \in S
         /\ \A k, l \in 1 .. Cardinality(S) : k < l => Index(S, k) < Index(S, l)
         /\ \A i \in S : \E k \in 1 .. Cardinality(S) : Index(S, k) = i
<1> Cardinality(S) \in Nat
  BY FS_CardinalityType
<1>1. ASSUME NEW k \in 1 .. Cardinality(S)
      PROVE  Index(S, k) \in S /\ Cardinality(Below(S, Index(S, k))) = k - 1
  BY EveryPlace DEF Index, Below
<1>2. ASSUME NEW k \in 1 .. Cardinality(S), NEW l \in 1 .. Cardinality(S), k < l
      PROVE  Index(S, k) < Index(S, l)
  <2> DEFINE i == Index(S, k)
             j == Index(S, l)
  <2>1. /\ i \in S /\ j \in S
        /\ Cardinality(Below(S, i)) = k - 1 /\ Cardinality(Below(S, j)) = l - 1
    BY <1>1
  <2> HIDE DEF i, j
  <2> i \in Nat /\ j \in Nat
    BY <2>1
  <2>2. i # j
    BY <2>1, <1>2
  <2>3. ~ (j < i)
    BY <2>1, <1>2, BelowGrows
  <2> QED BY <2>1, <2>2, <2>3 DEF i, j
<1>3. ASSUME NEW i \in S
      PROVE  \E k \in 1 .. Cardinality(S) : Index(S, k) = i
  <2> DEFINE n == Cardinality(Below(S, i))
  <2>1. Below(S, i) \in SUBSET S /\ i \notin Below(S, i)
    BY DEF Below
  <2>2. IsFiniteSet(Below(S, i)) /\ n <= Cardinality(S) /\ n # Cardinality(S)
    BY <2>1, FS_Subset
  <2>3. n \in Nat
    BY <2>2, FS_CardinalityType
  <2> DEFINE k == n + 1
             x == Index(S, k)
  <2>4. k \in 1 .. Cardinality(S) /\ k - 1 = n
    BY <2>2, <2>3
  <2> HIDE DEF k
  <2>5. x \in S /\ Cardinality(Below(S, x)) = n
    BY <1>1, <2>4
  <2> HIDE DEF x
  <2> i \in Nat /\ x \in Nat
    BY <2>5
  <2>6. ~ (x < i) /\ ~ (i < x)
    <3>1. Cardinality(Below(S, i)) = n /\ ~ (n < n)
      BY <2>3
    <3>2. x < i => Cardinality(Below(S, x)) < Cardinality(Below(S, i))
      BY <2>5, BelowGrows
    <3>3. i < x => Cardinality(Below(S, i)) < Cardinality(Below(S, x))
      BY <2>5, BelowGrows
    <3> HIDE DEF n
    <3> QED BY <2>5, <3>1, <3>2, <3>3
  <2>7. x = i
    BY <2>6
  <2> QED BY <2>4, <2>7 DEF x
<1> QED BY <1>1, <1>2, <1>3

(* A filter makes a sequence of the states at its indices. *)
LEMMA FilteredStates ==
  ASSUME NEW T, NEW states \in Seq(T), NEW S \in SUBSET DOMAIN states
  PROVE  /\ S \in SUBSET Nat /\ IsFiniteSet(S) /\ Cardinality(S) \in Nat
         /\ Filtered(states, S) \in Seq(T)
         /\ Len(Filtered(states, S)) = Cardinality(S)
         /\ \A k \in 1 .. Cardinality(S) : Filtered(states, S)[k] = states[Index(S, k)]
<1>1. DOMAIN states = 1 .. Len(states) /\ Len(states) \in Nat
  OBVIOUS
<1>2. IsFiniteSet(1 .. Len(states)) /\ S \in SUBSET (1 .. Len(states))
  BY <1>1, FS_Interval
<1>3. S \in SUBSET Nat /\ IsFiniteSet(S)
  BY <1>1, <1>2, FS_Subset
<1>4. Cardinality(S) \in Nat
  BY <1>3, FS_CardinalityType
<1>5. Filtered(states, S) = [k \in 1 .. Cardinality(S) |-> states[Index(S, k)]]
  BY DEF Filtered, Index
<1>6. \A k \in 1 .. Cardinality(S) : states[Index(S, k)] \in T
  BY <1>2, <1>3, IndexInOrder
<1>7. Filtered(states, S) \in [1 .. Cardinality(S) -> T]
  BY <1>5, <1>6
<1> QED BY <1>3, <1>4, <1>5, <1>7

----------------------------------------------------------------------------
(* Handing over.                                                           *)

Kept(p, states) == {t \in DOMAIN p : \A i \in DOMAIN states : t < states[i].time}
Stay(states) ==
  {i \in DOMAIN states : \A j \in DOMAIN states : j > i => states[j].time > states[i].time}

FilledPlan(h, store, p, states) ==
  /\ DOMAIN h = Kept(p, states) \cup {states[i].time : i \in Stay(states)}
  /\ \A t \in Kept(p, states) : h[t] = p[t]
  /\ \A t \in DOMAIN h \ Kept(p, states) :
       \E i \in Stay(states) :
         states[i].time = t /\ h[t] = fillStateFromDatastore(states[i], store)

(* A plan is filled at the times that are kept, as before, and at those of *)
(* the states that stay.                                                   *)
LEMMA HandedPlan ==
  ASSUME NEW store, NEW p, NEW states
  PROVE  FilledPlan(Handed(store, p, states), store, p, states)
<1> DEFINE at(t) == CHOOSE i \in Stay(states) : states[i].time = t
           D == Kept(p, states) \cup {states[i].time : i \in Stay(states)}
<1>1. Handed(store, p, states)
        = [t \in D |-> IF t \in Kept(p, states) THEN p[t]
                       ELSE fillStateFromDatastore(states[at(t)], store)]
  BY DEF Handed, Kept, Stay
<1>2. ASSUME NEW t \in D \ Kept(p, states)
      PROVE  at(t) \in Stay(states) /\ states[at(t)].time = t
  <2>1. \E i \in Stay(states) : states[i].time = t
    BY <1>2
  <2> QED BY <2>1
<1> HIDE DEF at, D
<1>3. DOMAIN Handed(store, p, states) = D
  BY <1>1
<1> QED BY <1>1, <1>2, <1>3 DEF D, FilledPlan

(* The filling of a state is one of the fillings there are. *)
LEMMA FillingType ==
  ASSUME NEW s \in RememberedState, NEW store \in [StoreKeys -> Entry]
  PROVE  fillStateFromDatastore(s, store) \in Filling
<1>1. PICK K \in SUBSET StoreKeys : s.references \in [K -> BOOLEAN]
  BY DEF RememberedState, References
<1>2. \A k \in K : store[k].value \in Values \cup {NoValue}
  BY DEF Entry
<1>3. fillStateFromDatastore(s, store) \in [K -> Values \cup {NoValue}]
  BY <1>1, <1>2 DEF fillStateFromDatastore
<1> QED BY <1>3 DEF Filling

PlanType(p) == DOMAIN p \subseteq Instant /\ \A t \in DOMAIN p : p[t] \in Filling

LEMMA HandedType ==
  ASSUME NEW store \in [StoreKeys -> Entry], NEW p, PlanType(p),
         NEW states \in Seq(RememberedState)
  PROVE  PlanType(Handed(store, p, states))
<1> DEFINE h == Handed(store, p, states)
<1>. FilledPlan(h, store, p, states)
  BY HandedPlan
<1> HIDE DEF h
<1>1. \A i \in Stay(states) : states[i] \in RememberedState /\ states[i].time \in Instant
  <2>1. \A i \in Stay(states) : i \in DOMAIN states
    BY DEF Stay
  <2>2. \A i \in Stay(states) : states[i] \in RememberedState
    BY <2>1, ElementOfSeq
  <2> QED BY <2>2 DEF RememberedState
<1>2. DOMAIN h \subseteq Instant
  BY <1>1 DEF PlanType, Kept, FilledPlan
<1>3. ASSUME NEW t \in DOMAIN h PROVE h[t] \in Filling
  <2>1. CASE t \in Kept(p, states)
    BY <2>1 DEF PlanType, Kept, FilledPlan
  <2>2. CASE t \notin Kept(p, states)
    <3>1. PICK i \in Stay(states) : h[t] = fillStateFromDatastore(states[i], store)
      BY <2>2 DEF FilledPlan
    <3> QED BY <1>1, <3>1, FillingType
  <2> QED BY <2>1, <2>2
<1> QED BY <1>2, <1>3 DEF PlanType, h

InOrder(states) == \A i, j \in DOMAIN states : i < j => states[i].time < states[j].time

FilledAll(h, store, p, states) ==
  /\ DOMAIN h = Kept(p, states) \cup {states[i].time : i \in DOMAIN states}
  /\ \A t \in Kept(p, states) : h[t] = p[t]
  /\ \A i \in DOMAIN states : h[states[i].time] = fillStateFromDatastore(states[i], store)

(* Of states handed over in the order of their times every one stays. *)
LEMMA HandedInOrder ==
  ASSUME NEW store, NEW p, PlanType(p), NEW states \in Seq(RememberedState), InOrder(states)
  PROVE  FilledAll(Handed(store, p, states), store, p, states)
<1> DEFINE h == Handed(store, p, states)
<1>. FilledPlan(h, store, p, states)
  BY HandedPlan
<1> HIDE DEF h
<1>1. Stay(states) = DOMAIN states
  BY DEF Stay, InOrder
<1>2. \A i \in DOMAIN states : states[i].time \in Nat /\ i \in Nat
  <2>1. \A i \in DOMAIN states : i \in Nat /\ states[i] \in RememberedState
    BY ElementOfSeq
  <2> QED BY <2>1 DEF RememberedState, Instant
<1>3. \A i, j \in DOMAIN states : states[i].time = states[j].time => i = j
  BY <1>2 DEF InOrder
<1>4. ASSUME NEW i \in DOMAIN states
      PROVE  h[states[i].time] = fillStateFromDatastore(states[i], store)
  <2>1. states[i].time \notin Kept(p, states)
    BY <1>2 DEF Kept
  <2>2. states[i].time \in DOMAIN h
    BY <1>1 DEF FilledPlan
  <2>3. PICK j \in DOMAIN states :
          /\ states[j].time = states[i].time
          /\ h[states[i].time] = fillStateFromDatastore(states[j], store)
    BY <1>1, <2>1, <2>2 DEF FilledPlan
  <2> QED BY <1>3, <2>3
<1> QED BY <1>1, <1>4 DEF FilledPlan, FilledAll, h

----------------------------------------------------------------------------
(* What is remembered: the state that has come last, and those ahead.      *)

Lasts(states, at) == {i \in Come(states, at) : \A j \in Come(states, at) : j <= i}
Current == Lasts(deviceStates, instant)
Remembered == Current \cup Ahead(instant)

(* At most one state is the last that has come. *)
LEMMA LastIsOne ==
  ASSUME NEW states \in Seq(RememberedState), NEW at \in Int
  PROVE  /\ LastCome(states, at) = Filtered(states, Lasts(states, at))
         /\ Lasts(states, at) \in SUBSET DOMAIN states
         /\ \/ Lasts(states, at) = {} /\ LastCome(states, at) = <<>>
            \/ \E c \in DOMAIN states :
                 /\ Lasts(states, at) = {c} /\ states[c].time <= at
                 /\ LastCome(states, at) = <<states[c]>>
<1> DEFINE S == Lasts(states, at)
<1>1. LastCome(states, at) = Filtered(states, S) /\ S \in SUBSET DOMAIN states
  BY DEF LastCome, Lasts, Come
<1>2. \A i, j \in S : i = j
  <2>1. \A i \in DOMAIN states : i \in Int
    OBVIOUS
  <2>2. \A i, j \in S : i \in Int /\ j \in Int /\ i <= j /\ j <= i
    BY <2>1 DEF Lasts, Come
  <2> HIDE DEF S
  <2> QED BY <2>2
<1>3. CASE S = {}
  <2>1. Cardinality(S) = 0
    BY <1>3, FS_EmptySet
  <2>2. Filtered(states, S) \in Seq(RememberedState) /\ Len(Filtered(states, S)) = 0
    BY <1>1, <2>1, FilteredStates
  <2>3. Filtered(states, S) = <<>>
    BY <2>2, EmptySeq
  <2> QED BY <1>1, <1>3, <2>3
<1>4. CASE S # {}
  <2>1. PICK c \in S : S = {c}
    BY <1>2, <1>4
  <2>2. Cardinality(S) = 1
    BY <2>1, FS_Singleton
  <2>3. 1 \in 1 .. Cardinality(S)
    BY <2>2
  <2>4. /\ Filtered(states, S) \in Seq(RememberedState) /\ Len(Filtered(states, S)) = 1
        /\ Filtered(states, S)[1] = states[Index(S, 1)] /\ Index(S, 1) \in S
    <3>1. /\ S \in SUBSET Nat /\ IsFiniteSet(S)
          /\ Filtered(states, S) \in Seq(RememberedState)
          /\ Len(Filtered(states, S)) = Cardinality(S)
          /\ \A k \in 1 .. Cardinality(S) : Filtered(states, S)[k] = states[Index(S, k)]
      BY <1>1, FilteredStates
    <3>2. Index(S, 1) \in S
      BY <2>3, <3>1, IndexInOrder
    <3> HIDE DEF S
    <3> QED BY <2>2, <2>3, <3>1, <3>2
  <2>5. Filtered(states, S)[1] = states[c]
    BY <2>1, <2>4
  <2>6. c \in DOMAIN states /\ states[c].time <= at /\ states[c] \in RememberedState
    <3>1. c \in DOMAIN states /\ states[c].time <= at
      BY <2>1 DEF Lasts, Come
    <3> QED BY <3>1, ElementOfSeq
  <2>7. Filtered(states, S) = <<states[c]>>
    <3> HIDE DEF S
    <3> QED BY <2>4, <2>5, <2>6
  <2> QED BY <1>1, <2>1, <2>6, <2>7
<1> QED BY <1>3, <1>4

----------------------------------------------------------------------------
(* The types.                                                              *)

LEMMA DatastoreInitType == DatastoreInit => DatastoreTypeOK
<1> SUFFICES ASSUME DatastoreInit PROVE DatastoreTypeOK
  OBVIOUS
<1>1. 1 \in Instant
  BY DatastoreAssumption DEF Instant
<1>2. datastore \in [StoreKeys -> Entry]
  BY DatastoreAssumption DEF DatastoreInit, Entry
<1>3. Ahead(instant) = {} /\ deviceStates \in Seq(RememberedState)
  BY DEF DatastoreInit, Ahead
<1>4. Cardinality(Ahead(instant)) <= MaxAhead
  BY <1>3, FS_EmptySet, DatastoreAssumption
<1>5. DOMAIN plan = {}
  BY DEF DatastoreInit
<1> QED BY <1>1, <1>2, <1>3, <1>4, <1>5 DEF DatastoreInit, DatastoreTypeOK

Between(later, s) == {i \in Ahead(later) : deviceStates[i].time < s.time}

(* The array that _setDeviceState makes: the current state, if there is    *)
(* one, those between from the last to the first, and the new one.         *)
SetTo(states, later, s, n, m) ==
  /\ n = Cardinality(Current) /\ n \in Nat
  /\ m = Cardinality(Between(later, s)) /\ m \in Nat /\ IsFiniteSet(Between(later, s))
  /\ Between(later, s) \in SUBSET DOMAIN deviceStates
  /\ states \in Seq(RememberedState) /\ Len(states) = n + m + 1
  /\ \/ n = 0 /\ Current = {}
     \/ \E c \in DOMAIN deviceStates :
          /\ n = 1 /\ Current = {c} /\ deviceStates[c].time <= instant
          /\ states[1] = deviceStates[c]
  /\ \A k \in 1 .. m : states[n + k] = deviceStates[Index(Between(later, s), m - k + 1)]
  /\ states[n + m + 1] = s

LEMMA SetStates ==
  ASSUME DatastoreTypeOK, NEW s \in RememberedState, NEW later \in Instant,
         deviceStates' = LastCome(deviceStates, instant)
           \o Reverse(Filtered(deviceStates, Between(later, s))) \o <<s>>
  PROVE  SetTo(deviceStates', later, s, Cardinality(Current), Cardinality(Between(later, s)))
<1> DEFINE B == Between(later, s)
           n == Cardinality(Current)
           m == Cardinality(B)
           last == LastCome(deviceStates, instant)
           between == Filtered(deviceStates, B)
<1>1. /\ deviceStates \in Seq(RememberedState) /\ instant \in Int
      /\ B \in SUBSET DOMAIN deviceStates
  BY DEF DatastoreTypeOK, Instant, Between, Ahead
<1>2. /\ IsFiniteSet(B) /\ m \in Nat /\ between \in Seq(RememberedState) /\ Len(between) = m
      /\ \A k \in 1 .. m : between[k] = deviceStates[Index(B, k)]
  BY <1>1, FilteredStates
<1>3. /\ Current \in SUBSET DOMAIN deviceStates /\ last = Filtered(deviceStates, Current)
      /\ \/ Current = {} /\ last = <<>>
         \/ \E c \in DOMAIN deviceStates :
              /\ Current = {c} /\ deviceStates[c].time <= instant
              /\ last = <<deviceStates[c]>>
  BY <1>1, LastIsOne DEF Current
<1>4. n \in Nat /\ last \in Seq(RememberedState) /\ Len(last) = n
  <2>1. /\ Cardinality(Current) \in Nat
        /\ Filtered(deviceStates, Current) \in Seq(RememberedState)
        /\ Len(Filtered(deviceStates, Current)) = Cardinality(Current)
    BY <1>1, <1>3, FilteredStates
  <2> QED BY <1>3, <2>1
<1>5. \/ n = 0 /\ Current = {}
      \/ \E c \in DOMAIN deviceStates :
           /\ n = 1 /\ Current = {c} /\ deviceStates[c].time <= instant
           /\ last[1] = deviceStates[c]
  <2>1. CASE Current = {}
    BY <2>1, FS_EmptySet
  <2>2. CASE \E c \in DOMAIN deviceStates :
               /\ Current = {c} /\ deviceStates[c].time <= instant
               /\ last = <<deviceStates[c]>>
    <3>1. PICK c \in DOMAIN deviceStates :
            /\ Current = {c} /\ deviceStates[c].time <= instant
            /\ last = <<deviceStates[c]>>
      BY <2>2
    <3>2. n = 1
      BY <3>1, FS_Singleton
    <3>3. last[1] = deviceStates[c]
      <4> HIDE DEF last
      <4> QED BY <3>1
    <3> QED BY <3>1, <3>2, <3>3
  <2> QED BY <1>3, <2>1, <2>2
<1> DEFINE reversed == Reverse(between)
<1> HIDE DEF B, n, m, last, between
<1>6. /\ reversed \in Seq(RememberedState) /\ Len(reversed) = m
      /\ \A k \in 1 .. m : reversed[k] = between[m - k + 1]
  <2>1. \A k \in 1 .. m : m - k + 1 \in 1 .. Len(between)
    BY <1>2
  <2>2. \A k \in 1 .. m : between[m - k + 1] \in RememberedState
    BY <1>2, <2>1, ElementOfSeq
  <2>3. reversed = [k \in 1 .. m |-> between[m - k + 1]]
    BY <1>2 DEF Reverse
  <2>4. reversed \in [1 .. m -> RememberedState]
    BY <2>2, <2>3
  <2> QED BY <1>2, <2>3, <2>4
<1> HIDE DEF reversed
<1>7. /\ last \o reversed \in Seq(RememberedState) /\ Len(last \o reversed) = n + m
      /\ \A i \in 1 .. n + m :
           (last \o reversed)[i] = IF i <= n THEN last[i] ELSE reversed[i - n]
  BY <1>4, <1>6, ConcatProperties
<1>8. /\ <<s>> \in Seq(RememberedState) /\ Len(<<s>>) = 1 /\ <<s>>[1] = s
  OBVIOUS
<1>9. deviceStates' = (last \o reversed) \o <<s>>
  BY DEF last, reversed, between, B
<1> DEFINE front == last \o reversed
           back == <<s>>
<1> HIDE DEF front, back
<1>10. /\ deviceStates' \in Seq(RememberedState) /\ Len(deviceStates') = n + m + 1
       /\ \A i \in 1 .. n + m + 1 :
            deviceStates'[i] = IF i <= n + m THEN front[i] ELSE back[i - (n + m)]
  <2>1. /\ front \in Seq(RememberedState) /\ Len(front) = n + m
        /\ back \in Seq(RememberedState) /\ Len(back) = 1
    BY <1>7, <1>8 DEF front, back
  <2>2. /\ front \o back \in Seq(RememberedState)
        /\ Len(front \o back) = Len(front) + Len(back)
        /\ \A i \in 1 .. Len(front) + Len(back) :
             (front \o back)[i] = IF i <= Len(front) THEN front[i] ELSE back[i - Len(front)]
    BY <2>1, ConcatProperties
  <2>3. deviceStates' = front \o back
    BY <1>9 DEF front, back
  <2> QED BY <2>1, <2>2, <2>3
<1>11. \A k \in 1 .. m : deviceStates'[n + k] = deviceStates[Index(B, m - k + 1)]
  <2> SUFFICES ASSUME NEW k \in 1 .. m
               PROVE  deviceStates'[n + k] = deviceStates[Index(B, m - k + 1)]
    OBVIOUS
  <2> DEFINE i == n + k
  <2>1. /\ i \in 1 .. n + m /\ i \in 1 .. n + m + 1 /\ i <= n + m /\ ~ (i <= n)
        /\ i - n = k /\ m - k + 1 \in 1 .. m
    BY <1>2, <1>4
  <2> HIDE DEF i
  <2>2. deviceStates'[i] = front[i]
    BY <1>10, <2>1
  <2>3. front[i] = reversed[i - n]
    BY <1>7, <2>1 DEF front
  <2>4. reversed[k] = between[m - k + 1] /\ between[m - k + 1] = deviceStates[Index(B, m - k + 1)]
    BY <1>2, <1>6, <2>1
  <2>5. deviceStates'[i] = deviceStates[Index(B, m - k + 1)]
    BY <2>1, <2>2, <2>3, <2>4
  <2> QED BY <2>5 DEF i
<1>12. deviceStates'[n + m + 1] = s
  <2> DEFINE i == n + m + 1
  <2>1. i \in 1 .. n + m + 1 /\ ~ (i <= n + m) /\ i - (n + m) = 1
    BY <1>2, <1>4
  <2> HIDE DEF i
  <2>2. deviceStates'[i] = back[i - (n + m)]
    BY <1>10, <2>1
  <2>3. back[1] = s
    BY DEF back
  <2>4. deviceStates'[i] = s
    BY <2>1, <2>2, <2>3
  <2> QED BY <2>4 DEF i
<1>13. n = 1 => deviceStates'[1] = last[1]
  <2> HAVE n = 1
  <2>1. 1 \in 1 .. n + m /\ 1 \in 1 .. n + m + 1 /\ 1 <= n + m /\ 1 <= n
    BY <1>2, <1>4
  <2> QED BY <1>7, <1>10, <2>1 DEF front
<1> QED BY <1>1, <1>2, <1>4, <1>5, <1>10, <1>11, <1>12, <1>13 DEF n, m, B, SetTo

(* What a step of _setDeviceState does. *)
LEMMA SetStep ==
  ASSUME DatastoreTypeOK, NEW s \in RememberedState, _setDeviceState(s)
  PROVE  \E later \in ClockReads, n \in Nat, m \in Nat :
           /\ later \in Instant /\ instant <= later /\ m + 1 <= MaxAhead
           /\ SetTo(deviceStates', later, s, n, m)
           /\ plan' = Handed(datastore, plan, <<s>>)
           /\ instant' = later /\ datastore' = datastore
<1>1. PICK later \in ClockReads :
        /\ Len(Filtered(deviceStates, Between(later, s))) + 1 <= MaxAhead
        /\ deviceStates' = LastCome(deviceStates, instant)
             \o Reverse(Filtered(deviceStates, Between(later, s))) \o <<s>>
        /\ plan' = Handed(datastore, plan, <<s>>)
        /\ instant' = later /\ datastore' = datastore
  BY DEF _setDeviceState, Between
<1>2. later \in Instant /\ instant <= later
  BY DEF ClockReads, DatastoreTypeOK, Instant
<1> DEFINE n == Cardinality(Current)
           m == Cardinality(Between(later, s))
<1>3. SetTo(deviceStates', later, s, n, m)
  BY <1>1, <1>2, SetStates
<1>4. deviceStates \in Seq(RememberedState) /\ Between(later, s) \in SUBSET DOMAIN deviceStates
  BY DEF DatastoreTypeOK, Between, Ahead
<1>5. Len(Filtered(deviceStates, Between(later, s))) = m
  BY <1>4, FilteredStates
<1>6. n \in Nat /\ m \in Nat
  BY <1>3 DEF SetTo
<1> HIDE DEF n, m
<1> QED BY <1>1, <1>2, <1>3, <1>5, <1>6

(* Of the states in the new array only those after the current one may be  *)
(* ahead.                                                                  *)
LEMMA SetAhead ==
  ASSUME DatastoreTypeOK, NEW s, NEW later \in Instant, instant <= later,
         NEW n \in Nat, NEW m \in Nat, SetTo(deviceStates', later, s, n, m), instant' = later
  PROVE  Ahead(instant)' \in SUBSET (n + 1 .. n + m + 1)
<1>1. DOMAIN deviceStates' = 1 .. n + m + 1
  BY DEF SetTo
<1>2. n = 0 \/ n = 1
  BY DEF SetTo
<1>3. n = 1 => ~ (deviceStates'[1].time > later)
  <2> HAVE n = 1
  <2>1. PICK c \in DOMAIN deviceStates :
          deviceStates[c].time <= instant /\ deviceStates'[1] = deviceStates[c]
    BY DEF SetTo
  <2>2. deviceStates[c] \in RememberedState
    BY ElementOfSeq DEF DatastoreTypeOK
  <2>3. deviceStates[c].time \in Nat /\ instant \in Nat /\ later \in Nat
    BY <2>2 DEF RememberedState, Instant, DatastoreTypeOK
  <2> QED BY <2>1, <2>3
<1>4. \A i \in Ahead(instant)' : i \in 1 .. n + m + 1 /\ deviceStates'[i].time > later
  BY <1>1 DEF Ahead
<1>5. \A i \in Ahead(instant)' : i \in n + 1 .. n + m + 1
  BY <1>2, <1>3, <1>4
<1> QED BY <1>5

LEMMA SetDeviceStateType ==
  ASSUME DatastoreTypeOK, NEW s \in RememberedState, _setDeviceState(s)
  PROVE  DatastoreTypeOK'
<1>1. PICK later \in ClockReads, n \in Nat, m \in Nat :
        /\ later \in Instant /\ instant <= later /\ m + 1 <= MaxAhead
        /\ SetTo(deviceStates', later, s, n, m)
        /\ plan' = Handed(datastore, plan, <<s>>)
        /\ instant' = later /\ datastore' = datastore
  BY SetStep
<1>2. Ahead(instant)' \in SUBSET (n + 1 .. n + m + 1)
  BY <1>1, SetAhead
<1>3. IsFiniteSet(n + 1 .. n + m + 1) /\ Cardinality(n + 1 .. n + m + 1) = m + 1
  <2>1. n + 1 \in Int /\ n + m + 1 \in Int /\ ~ (n + 1 > n + m + 1)
        /\ n + m + 1 - (n + 1) + 1 = m + 1
    OBVIOUS
  <2> QED BY <2>1, FS_Interval
<1>4. /\ IsFiniteSet(Ahead(instant)')
      /\ Cardinality(Ahead(instant)') <= Cardinality(n + 1 .. n + m + 1)
  BY <1>2, <1>3, FS_Subset
<1>5. Cardinality(Ahead(instant)') \in Nat
  BY <1>4, FS_CardinalityType
<1>6. Cardinality(Ahead(instant)') <= MaxAhead
  BY <1>1, <1>3, <1>4, <1>5, DatastoreAssumption
<1>7. PlanType(plan')
  <2>1. PlanType(plan) /\ datastore \in [StoreKeys -> Entry]
    BY DEF PlanType, DatastoreTypeOK
  <2>2. <<s>> \in Seq(RememberedState)
    OBVIOUS
  <2> QED BY <1>1, <2>1, <2>2, HandedType
<1>8. deviceStates' \in Seq(RememberedState)
  BY <1>1 DEF SetTo
<1> QED BY <1>1, <1>6, <1>7, <1>8 DEF DatastoreTypeOK, PlanType

(* As time passes fewer states are ahead. *)
LEMMA FewerAhead ==
  ASSUME DatastoreTypeOK, NEW later \in Instant, instant <= later
  PROVE  /\ Ahead(later) \in SUBSET Ahead(instant)
         /\ Cardinality(Ahead(later)) <= MaxAhead
<1>1. deviceStates \in Seq(RememberedState) /\ instant \in Nat /\ later \in Nat
  BY DEF DatastoreTypeOK, Instant
<1>2. \A i \in DOMAIN deviceStates : deviceStates[i].time \in Nat
  <2>1. \A i \in DOMAIN deviceStates : deviceStates[i] \in RememberedState
    BY <1>1, ElementOfSeq
  <2> QED BY <2>1 DEF RememberedState, Instant
<1>3. Ahead(later) \in SUBSET Ahead(instant)
  BY <1>1, <1>2 DEF Ahead
<1>4. Ahead(instant) \in SUBSET DOMAIN deviceStates
  BY DEF Ahead
<1>5. IsFiniteSet(Ahead(instant)) /\ Cardinality(Ahead(instant)) \in Nat
  BY <1>1, <1>4, FilteredStates
<1>6. /\ IsFiniteSet(Ahead(later))
      /\ Cardinality(Ahead(later)) <= Cardinality(Ahead(instant))
  BY <1>3, <1>5, FS_Subset
<1>7. Cardinality(Ahead(later)) \in Nat
  BY <1>6, FS_CardinalityType
<1> QED BY <1>3, <1>5, <1>6, <1>7, DatastoreAssumption DEF DatastoreTypeOK

(* What a step of setDatastore does. *)
ToBeFilled(later) == LastCome(deviceStates, instant) \o Filtered(deviceStates, Ahead(later))
Affected(store) ==
  \E i \in DOMAIN deviceStates : Changed(store) \cap DOMAIN deviceStates[i].references # {}

LEMMA StoreStep ==
  ASSUME DatastoreTypeOK, NEW store, setDatastore(store)
  PROVE  \E later \in ClockReads :
           /\ later \in Instant /\ instant <= later
           /\ datastore' = store
           /\ plan' = IF Affected(store) THEN Handed(store, plan, ToBeFilled(later)) ELSE plan
           /\ instant' = later /\ deviceStates' = deviceStates
           /\ ToBeFilled(later) \in Seq(RememberedState)
<1>1. PICK later \in ClockReads :
           /\ datastore' = store
           /\ plan' = IF Affected(store) THEN Handed(store, plan, ToBeFilled(later)) ELSE plan
           /\ instant' = later /\ deviceStates' = deviceStates
  BY DEF setDatastore, ToBeFilled, Affected
<1>2. later \in Instant /\ instant <= later
  BY DEF ClockReads, DatastoreTypeOK, Instant
<1>3. /\ deviceStates \in Seq(RememberedState) /\ instant \in Int
      /\ Ahead(later) \in SUBSET DOMAIN deviceStates
  BY DEF DatastoreTypeOK, Instant, Ahead
<1>4. Filtered(deviceStates, Ahead(later)) \in Seq(RememberedState)
  BY <1>3, FilteredStates
<1>5. LastCome(deviceStates, instant) \in Seq(RememberedState)
  <2>1. /\ LastCome(deviceStates, instant) = Filtered(deviceStates, Lasts(deviceStates, instant))
        /\ Lasts(deviceStates, instant) \in SUBSET DOMAIN deviceStates
    BY <1>3, LastIsOne
  <2> QED BY <1>3, <2>1, FilteredStates
<1>6. ToBeFilled(later) \in Seq(RememberedState)
  BY <1>4, <1>5, ConcatProperties DEF ToBeFilled
<1> QED BY <1>1, <1>2, <1>6

LEMMA SetDatastoreType ==
  ASSUME DatastoreTypeOK, NEW store \in [StoreKeys -> Entry], setDatastore(store)
  PROVE  DatastoreTypeOK'
<1>1. PICK later \in ClockReads :
           /\ later \in Instant /\ instant <= later
           /\ datastore' = store
           /\ plan' = IF Affected(store) THEN Handed(store, plan, ToBeFilled(later)) ELSE plan
           /\ instant' = later /\ deviceStates' = deviceStates
           /\ ToBeFilled(later) \in Seq(RememberedState)
  BY StoreStep
<1>2. Cardinality(Ahead(instant)') <= MaxAhead
  <2>1. Ahead(instant)' = Ahead(later)
    BY <1>1 DEF Ahead
  <2> QED BY <1>1, <2>1, FewerAhead
<1>3. PlanType(plan')
  <2>1. PlanType(plan)
    BY DEF PlanType, DatastoreTypeOK
  <2>2. PlanType(Handed(store, plan, ToBeFilled(later)))
    BY <1>1, <2>1, HandedType
  <2> QED BY <1>1, <2>1, <2>2
<1> QED BY <1>1, <1>2, <1>3 DEF DatastoreTypeOK, PlanType

LEMMA InstantPassesType ==
  ASSUME DatastoreTypeOK, InstantPasses
  PROVE  DatastoreTypeOK'
<1>1. /\ instant + 1 \in Instant /\ instant <= instant + 1 /\ instant' = instant + 1
      /\ datastore' = datastore /\ deviceStates' = deviceStates /\ plan' = plan
  BY DatastoreAssumption DEF InstantPasses, DatastoreTypeOK, Instant
<1>2. Cardinality(Ahead(instant + 1)) <= MaxAhead
  BY <1>1, FewerAhead
<1>3. Ahead(instant)' = Ahead(instant + 1)
  BY <1>1 DEF Ahead
<1> QED BY <1>1, <1>2, <1>3 DEF DatastoreTypeOK

LEMMA DatastoreNextType == DatastoreTypeOK /\ [DatastoreNext]_datastoreVars => DatastoreTypeOK'
<1> SUFFICES ASSUME DatastoreTypeOK, [DatastoreNext]_datastoreVars PROVE DatastoreTypeOK'
  OBVIOUS
<1>1. ASSUME NEW s \in RememberedState, _setDeviceState(s) PROVE DatastoreTypeOK'
  BY <1>1, SetDeviceStateType
<1>2. ASSUME NEW store \in Stores, setDatastore(store) PROVE DatastoreTypeOK'
  BY <1>2, SetDatastoreType DEF Stores
<1>3. CASE InstantPasses
  BY <1>3, InstantPassesType
<1>4. CASE UNCHANGED datastoreVars
  <2>1. Ahead(instant)' = Ahead(instant)
    BY <1>4 DEF Ahead, datastoreVars
  <2> QED BY <1>4, <2>1 DEF DatastoreTypeOK, datastoreVars
<1> QED BY <1>1, <1>2, <1>3, <1>4 DEF DatastoreNext

(* The types, and that no more states are remembered for after now than    *)
(* the bound says, for every datastore, also when the clock moves between  *)
(* two reads (conductor.ts, _setDeviceState and setDatastore).             *)
THEOREM DatastoreTypeCorrect == DatastoreSpec => []DatastoreTypeOK
<1>1. DatastoreInit => DatastoreTypeOK
  BY DatastoreInitType
<1>2. DatastoreTypeOK /\ [DatastoreNext]_datastoreVars => DatastoreTypeOK'
  BY DatastoreNextType
<1> QED BY <1>1, <1>2, PTL DEF DatastoreSpec

----------------------------------------------------------------------------
(* What is remembered is what the device will still show.  The parts of    *)
(* the invariant, of which the property is a consequence.                  *)

AheadInOrder ==
  \A i \in Ahead(instant), j \in DOMAIN deviceStates :
    i < j => deviceStates[i].time < deviceStates[j].time
RememberedIsPlanned == \A i \in Remembered : deviceStates[i].time \in DOMAIN plan
AheadIsRemembered ==
  \A t \in DOMAIN plan : t > instant => \E i \in Ahead(instant) : deviceStates[i].time = t
CurrentIsRemembered ==
  \A t \in DOMAIN plan : t <= instant => \E i \in Current : t <= deviceStates[i].time
FilledFresh ==
  \A i \in Remembered :
    plan[deviceStates[i].time] = fillStateFromDatastore(deviceStates[i], datastore)

DatastoreInv ==
  /\ DatastoreTypeOK
  /\ AheadInOrder /\ RememberedIsPlanned /\ AheadIsRemembered /\ CurrentIsRemembered

(* The indices of a concatenation. *)
LEMMA Joined ==
  ASSUME NEW T, NEW f \in Seq(T), NEW g \in Seq(T)
  PROVE  /\ f \o g \in Seq(T)
         /\ \A i \in DOMAIN (f \o g) :
              \/ i \in DOMAIN f /\ (f \o g)[i] = f[i]
              \/ \E k \in DOMAIN g : i = Len(f) + k /\ (f \o g)[i] = g[k]
         /\ \A i \in DOMAIN f : i \in DOMAIN (f \o g) /\ (f \o g)[i] = f[i]
         /\ \A k \in DOMAIN g : Len(f) + k \in DOMAIN (f \o g) /\ (f \o g)[Len(f) + k] = g[k]
<1> DEFINE h == f \o g
<1>1. /\ h \in Seq(T) /\ Len(h) = Len(f) + Len(g)
      /\ \A i \in 1 .. Len(f) + Len(g) : h[i] = IF i <= Len(f) THEN f[i] ELSE g[i - Len(f)]
  BY ConcatProperties
<1>2. /\ DOMAIN h = 1 .. Len(f) + Len(g) /\ DOMAIN f = 1 .. Len(f) /\ DOMAIN g = 1 .. Len(g)
      /\ Len(f) \in Nat /\ Len(g) \in Nat
  BY <1>1
<1> HIDE DEF h
<1>3. ASSUME NEW i \in DOMAIN h
      PROVE  \/ i \in DOMAIN f /\ h[i] = f[i]
             \/ \E k \in DOMAIN g : i = Len(f) + k /\ h[i] = g[k]
  <2>1. CASE i <= Len(f)
    BY <1>1, <1>2, <2>1
  <2>2. CASE ~ (i <= Len(f))
    <3> DEFINE k == i - Len(f)
    <3>1. k \in DOMAIN g /\ i = Len(f) + k
      BY <1>2, <2>2
    <3>2. h[i] = g[k]
      BY <1>1, <1>2, <2>2
    <3> HIDE DEF k
    <3> QED BY <3>1, <3>2
  <2> QED BY <2>1, <2>2
<1>4. ASSUME NEW i \in DOMAIN f PROVE i \in DOMAIN h /\ h[i] = f[i]
  BY <1>1, <1>2
<1>5. ASSUME NEW k \in DOMAIN g PROVE Len(f) + k \in DOMAIN h /\ h[Len(f) + k] = g[k]
  <2> DEFINE i == Len(f) + k
  <2>1. i \in DOMAIN h /\ ~ (i <= Len(f)) /\ i - Len(f) = k
    BY <1>2
  <2> HIDE DEF i
  <2>2. h[i] = g[i - Len(f)]
    BY <1>1, <1>2, <2>1
  <2>3. h[i] = g[k]
    BY <2>1, <2>2
  <2> QED BY <2>1, <2>3 DEF i
<1> QED BY <1>1, <1>3, <1>4, <1>5 DEF h

(* The times of what is remembered. *)
LEMMA RememberedTimes ==
  ASSUME DatastoreTypeOK
  PROVE  /\ Remembered \in SUBSET DOMAIN deviceStates
         /\ instant \in Nat
         /\ \A i \in DOMAIN deviceStates :
              i \in Nat /\ deviceStates[i] \in RememberedState /\ deviceStates[i].time \in Nat
         /\ \A i \in Current : deviceStates[i].time <= instant
         /\ \A i, j \in Current : i = j
         /\ \A i \in Ahead(instant) : deviceStates[i].time > instant
         /\ \A i \in Remembered : i \notin Ahead(instant) => i \in Current
<1>1. \A i \in DOMAIN deviceStates : i \in Nat /\ deviceStates[i] \in RememberedState
  BY ElementOfSeq DEF DatastoreTypeOK
<1>2. \A i \in DOMAIN deviceStates : deviceStates[i].time \in Nat
  BY <1>1 DEF RememberedState, Instant
<1>3. \A i, j \in Current : i \in Nat /\ j \in Nat /\ i <= j /\ j <= i
  BY <1>1 DEF Current, Lasts, Come
<1>4. \A i, j \in Current : i = j
  BY <1>3
<1>5. /\ Current \in SUBSET DOMAIN deviceStates /\ Ahead(instant) \in SUBSET DOMAIN deviceStates
      /\ \A i \in Current : deviceStates[i].time <= instant
      /\ \A i \in Ahead(instant) : deviceStates[i].time > instant
  BY DEF Current, Lasts, Come, Ahead
<1>6. instant \in Nat
  BY DEF DatastoreTypeOK, Instant
<1> QED BY <1>1, <1>2, <1>4, <1>5, <1>6 DEF Remembered

(* What setDatastore would hand over again is what is remembered, in the   *)
(* order of time.                                                          *)
LEMMA AgainLists ==
  ASSUME DatastoreTypeOK, AheadInOrder
  PROVE  /\ Again \in Seq(RememberedState)
         /\ InOrder(Again)
         /\ \A i \in DOMAIN Again : \E r \in Remembered : Again[i] = deviceStates[r]
         /\ \A r \in Remembered : \E i \in DOMAIN Again : Again[i] = deviceStates[r]
<1> DEFINE A == Ahead(instant)
           a == Cardinality(A)
           last == LastCome(deviceStates, instant)
           rest == Filtered(deviceStates, A)
<1>1. /\ deviceStates \in Seq(RememberedState) /\ instant \in Int
      /\ A \in SUBSET DOMAIN deviceStates
  BY DEF DatastoreTypeOK, Instant, Ahead
<1>2. /\ A \in SUBSET Nat /\ IsFiniteSet(A) /\ a \in Nat
      /\ rest \in Seq(RememberedState) /\ Len(rest) = a
      /\ \A k \in 1 .. a : rest[k] = deviceStates[Index(A, k)]
  BY <1>1, FilteredStates
<1>3. /\ last = Filtered(deviceStates, Current) /\ Current \in SUBSET DOMAIN deviceStates
      /\ \/ Current = {} /\ last = <<>>
         \/ \E c \in DOMAIN deviceStates :
              /\ Current = {c} /\ deviceStates[c].time <= instant
              /\ last = <<deviceStates[c]>>
  BY <1>1, LastIsOne DEF Current
<1>4. last \in Seq(RememberedState)
  BY <1>1, <1>3, FilteredStates
<1>5. /\ \A k \in 1 .. a : Index(A, k) \in A
      /\ \A k, l \in 1 .. a : k < l => Index(A, k) < Index(A, l)
      /\ \A i \in A : \E k \in 1 .. a : Index(A, k) = i
  BY <1>2, IndexInOrder
<1>6. DOMAIN rest = 1 .. a
  BY <1>2
<1>7. Again = last \o rest
  BY DEF Again
<1> HIDE DEF last, rest, a
<1>8. /\ Again \in Seq(RememberedState)
      /\ \A i \in DOMAIN Again :
           \/ i \in DOMAIN last /\ Again[i] = last[i]
           \/ \E k \in DOMAIN rest : i = Len(last) + k /\ Again[i] = rest[k]
      /\ \A i \in DOMAIN last : i \in DOMAIN Again /\ Again[i] = last[i]
      /\ \A k \in DOMAIN rest : Len(last) + k \in DOMAIN Again /\ Again[Len(last) + k] = rest[k]
  BY <1>2, <1>4, <1>7, Joined
<1>9. /\ DOMAIN last = {} \/ DOMAIN last = {1}
      /\ \A i \in DOMAIN last : \E c \in Current : last[i] = deviceStates[c]
      /\ \A c \in Current : \E i \in DOMAIN last : last[i] = deviceStates[c]
      /\ Len(last) \in Nat
      /\ \A i \in DOMAIN last : i <= Len(last)
  <2>1. Len(last) \in Nat /\ \A i \in DOMAIN last : i <= Len(last)
    BY <1>4
  <2>2. CASE Current = {} /\ last = <<>>
    BY <2>1, <2>2
  <2>3. CASE \E c \in DOMAIN deviceStates : Current = {c} /\ last = <<deviceStates[c]>>
    <3>1. PICK c \in DOMAIN deviceStates : Current = {c} /\ last = <<deviceStates[c]>>
      BY <2>3
    <3>2. DOMAIN last = {1} /\ last[1] = deviceStates[c]
      BY <3>1
    <3> QED BY <2>1, <3>1, <3>2
  <2> QED BY <1>3, <2>2, <2>3
<1>10. ASSUME NEW i \in DOMAIN Again, NEW j \in DOMAIN Again, i < j
       PROVE  Again[i].time < Again[j].time
  <2>1. i \in Nat /\ j \in Nat
    BY <1>8
  <2>2. j \notin DOMAIN last
    <3>1. i \in DOMAIN last => i = 1
      BY <1>9
    <3>2. j \in DOMAIN last => j = 1 /\ Len(last) >= 1
      BY <1>9
    <3>3. \A k \in DOMAIN rest : k \in Nat /\ k >= 1
      BY <1>2, <1>6
    <3> QED BY <1>8, <1>9, <1>10, <2>1, <3>1, <3>2, <3>3
  <2>3. PICK l \in DOMAIN rest : j = Len(last) + l /\ Again[j] = rest[l]
    BY <1>8, <2>2
  <2>4. l \in 1 .. a /\ Again[j] = deviceStates[Index(A, l)] /\ Index(A, l) \in A
    BY <1>2, <1>5, <1>6, <2>3
  <2>5. CASE i \in DOMAIN last
    <3>1. PICK c \in Current : Again[i] = deviceStates[c]
      BY <1>8, <1>9, <2>5
    <3>2. /\ deviceStates[c].time <= instant /\ deviceStates[Index(A, l)].time > instant
          /\ deviceStates[c].time \in Nat /\ deviceStates[Index(A, l)].time \in Nat
          /\ instant \in Nat
      BY <1>1, <1>3, <2>4, RememberedTimes
    <3>3. deviceStates[c].time < deviceStates[Index(A, l)].time
      BY <3>2
    <3> QED BY <2>4, <3>1, <3>3
  <2>6. CASE i \notin DOMAIN last
    <3>1. PICK k \in DOMAIN rest : i = Len(last) + k /\ Again[i] = rest[k]
      BY <1>8, <2>6
    <3>2. k \in 1 .. a /\ Again[i] = deviceStates[Index(A, k)] /\ Index(A, k) \in A
      BY <1>2, <1>5, <1>6, <3>1
    <3>3. k < l
      BY <1>2, <1>9, <1>10, <2>3, <2>4, <3>1, <3>2
    <3>4. Index(A, k) < Index(A, l)
      BY <1>5, <2>4, <3>2, <3>3
    <3>5. deviceStates[Index(A, k)].time < deviceStates[Index(A, l)].time
      BY <1>1, <2>4, <3>2, <3>4 DEF AheadInOrder
    <3> QED BY <2>4, <3>2, <3>5
  <2> QED BY <2>5, <2>6
<1>11. ASSUME NEW i \in DOMAIN Again PROVE \E r \in Remembered : Again[i] = deviceStates[r]
  <2>1. CASE i \in DOMAIN last
    BY <1>8, <1>9, <2>1 DEF Remembered
  <2>2. CASE i \notin DOMAIN last
    <3>1. PICK k \in DOMAIN rest : Again[i] = rest[k]
      BY <1>8, <2>2
    <3>2. Again[i] = deviceStates[Index(A, k)] /\ Index(A, k) \in A
      BY <1>2, <1>5, <1>6, <3>1
    <3> QED BY <3>2 DEF Remembered
  <2> QED BY <2>1, <2>2
<1>12. ASSUME NEW r \in Remembered PROVE \E i \in DOMAIN Again : Again[i] = deviceStates[r]
  <2>1. CASE r \in Current
    BY <1>8, <1>9, <2>1
  <2>2. CASE r \in A
    <3>1. PICK k \in 1 .. a : Index(A, k) = r
      BY <1>5, <2>2
    <3>2. k \in DOMAIN rest /\ rest[k] = deviceStates[r]
      BY <1>2, <1>6, <3>1
    <3> QED BY <1>8, <3>2
  <2> QED BY <2>1, <2>2 DEF Remembered
<1> QED BY <1>8, <1>10, <1>11, <1>12 DEF InOrder

(* The invariant says what PlanIsRemembered says, and FilledFresh what     *)
(* ValuesAreFresh says.                                                    *)
LEMMA InvSaysRemembered == DatastoreInv => PlanIsRemembered
<1> SUFFICES ASSUME DatastoreInv PROVE PlanIsRemembered
  OBVIOUS
<1> USE DEF DatastoreInv
<1>1. {Again[i].time : i \in DOMAIN Again} = {deviceStates[r].time : r \in Remembered}
  BY AgainLists
<1>2. ASSUME NEW r \in Remembered
      PROVE  deviceStates[r].time \in Live
  <2>1. deviceStates[r].time \in DOMAIN plan
    BY DEF RememberedIsPlanned
  <2>2. ASSUME NEW u \in DOMAIN plan, u <= instant
        PROVE  u <= deviceStates[r].time
    <3>1. PICK c \in Current : u <= deviceStates[c].time
      BY <2>2 DEF CurrentIsRemembered
    <3>2. u \in Nat
      BY DEF DatastoreTypeOK, Instant
    <3>3. /\ deviceStates[r].time \in Nat /\ instant \in Nat
          /\ r \in Current \/ deviceStates[r].time > instant
          /\ r \in Current => r = c
      BY RememberedTimes DEF Remembered
    <3> QED BY <2>2, <3>1, <3>2, <3>3
  <2> QED BY <2>1, <2>2 DEF Live
<1>3. ASSUME NEW t \in Live
      PROVE  \E r \in Remembered : deviceStates[r].time = t
  <2>1. t \in DOMAIN plan /\ t \in Nat /\ instant \in Nat
    BY DEF Live, DatastoreTypeOK, Instant
  <2>2. CASE t > instant
    BY <2>1, <2>2 DEF AheadIsRemembered, Remembered
  <2>3. CASE t <= instant
    <3>1. PICK c \in Current : t <= deviceStates[c].time
      BY <2>1, <2>3 DEF CurrentIsRemembered
    <3>2. c \in Remembered /\ deviceStates[c].time \in Nat /\ deviceStates[c].time <= instant
      BY RememberedTimes DEF Remembered
    <3>3. deviceStates[c].time <= t
      BY <3>2 DEF Live, RememberedIsPlanned
    <3> QED BY <2>1, <3>1, <3>2, <3>3
  <2> QED BY <2>1, <2>2, <2>3
<1>4. {deviceStates[r].time : r \in Remembered} = Live
  BY <1>2, <1>3
<1> QED BY <1>1, <1>4, AgainLists DEF PlanIsRemembered, InOrder

LEMMA FreshSaysFresh == DatastoreInv /\ FilledFresh => ValuesAreFresh
<1> SUFFICES ASSUME DatastoreInv, FilledFresh PROVE ValuesAreFresh
  OBVIOUS
<1>1. ASSUME NEW i \in DOMAIN Again
      PROVE  plan[Again[i].time] = fillStateFromDatastore(Again[i], datastore)
  <2>1. PICK r \in Remembered : Again[i] = deviceStates[r]
    BY AgainLists DEF DatastoreInv
  <2> QED BY <2>1 DEF FilledFresh
<1> QED BY <1>1 DEF ValuesAreFresh

LEMMA DatastoreInitInv == DatastoreInit => DatastoreInv /\ FilledFresh
<1> SUFFICES ASSUME DatastoreInit PROVE DatastoreInv /\ FilledFresh
  OBVIOUS
<1>1. DatastoreTypeOK
  BY DatastoreInitType
<1>2. DOMAIN plan = {} /\ DOMAIN deviceStates = {}
  BY DEF DatastoreInit
<1>3. Ahead(instant) = {} /\ Current = {}
  BY <1>2 DEF Ahead, Current, Lasts, Come
<1> QED BY <1>1, <1>2, <1>3 DEF DatastoreInv, FilledFresh, Remembered, AheadInOrder,
          RememberedIsPlanned, AheadIsRemembered, CurrentIsRemembered

(* An instant passes: the first of those ahead may become the current one. *)
LEMMA InstantPassesKeeps ==
  ASSUME DatastoreInv, InstantPasses
  PROVE  DatastoreInv' /\ (FilledFresh => FilledFresh')
<1>1. /\ DatastoreTypeOK /\ DatastoreTypeOK' /\ instant' = instant + 1 /\ instant \in Nat
      /\ datastore' = datastore /\ deviceStates' = deviceStates /\ plan' = plan
  BY InstantPassesType DEF DatastoreInv, InstantPasses, DatastoreTypeOK, Instant
<1> DEFINE A == Ahead(instant)
           time(i) == deviceStates[i].time
<1>2. \A i \in DOMAIN deviceStates : time(i) \in Nat /\ i \in Nat
  BY <1>1, RememberedTimes
<1>3. /\ A = {i \in DOMAIN deviceStates : time(i) > instant}
      /\ A' = {i \in DOMAIN deviceStates : time(i) > instant + 1}
  BY <1>1 DEF Ahead
<1>4. /\ Current = {i \in DOMAIN deviceStates :
                     time(i) <= instant /\ \A j \in DOMAIN deviceStates : time(j) <= instant => j <= i}
      /\ Current' = {i \in DOMAIN deviceStates : time(i) <= instant + 1
                       /\ \A j \in DOMAIN deviceStates : time(j) <= instant + 1 => j <= i}
  BY <1>1 DEF Current, Lasts, Come
<1>5. \A t \in DOMAIN plan : t \in Nat
  BY <1>1 DEF DatastoreTypeOK, Instant
<1>6. A' \in SUBSET A /\ A \in SUBSET DOMAIN deviceStates
  BY <1>1, <1>2, <1>3
<1>7. ASSUME NEW i \in Remembered' PROVE i \in Remembered
  <2>1. CASE i \in A'
    BY <1>6, <2>1 DEF Remembered
  <2>2. CASE i \in Current'
    <3> USE <1>1, <1>2, <1>3, <1>4
    <3>1. CASE time(i) <= instant
      <4>1. \A j \in DOMAIN deviceStates : time(j) <= instant => time(j) <= instant + 1
        OBVIOUS
      <4> QED BY <2>2, <3>1, <4>1 DEF Remembered
    <3>2. CASE ~ (time(i) <= instant)
      BY <2>2, <3>2 DEF Remembered
    <3> QED BY <3>1, <3>2
  <2> QED BY <2>1, <2>2 DEF Remembered
<1>8. AheadInOrder'
  BY <1>1, <1>6 DEF AheadInOrder, DatastoreInv
<1>9. RememberedIsPlanned'
  BY <1>1, <1>7 DEF RememberedIsPlanned, DatastoreInv
<1>10. AheadIsRemembered'
  <2> SUFFICES ASSUME NEW t \in DOMAIN plan, t > instant + 1
               PROVE  \E i \in A' : time(i) = t
    BY <1>1 DEF AheadIsRemembered
  <2>1. t > instant
    BY <1>1, <1>5
  <2>2. PICK i \in A : time(i) = t
    BY <2>1 DEF AheadIsRemembered, DatastoreInv
  <2> QED BY <1>3, <2>2
<1>11. ASSUME NEW i \in A, time(i) = instant + 1 PROVE i \in Current'
  <2>1. ASSUME NEW j \in DOMAIN deviceStates, time(j) <= instant + 1 PROVE j <= i
    <3>1. i < j => time(i) < time(j)
      BY <1>6 DEF AheadInOrder, DatastoreInv
    <3> QED BY <1>1, <1>2, <1>6, <1>11, <2>1, <3>1
  <2>2. i \in DOMAIN deviceStates /\ time(i) <= instant + 1
    BY <1>1, <1>6, <1>11
  <2> QED BY <1>4, <2>1, <2>2
<1>12. CurrentIsRemembered'
  <2> SUFFICES ASSUME NEW t \in DOMAIN plan, t <= instant + 1
               PROVE  \E i \in Current' : t <= time(i)
    BY <1>1 DEF CurrentIsRemembered
  <2>1. CASE \E i \in A : time(i) = instant + 1
    BY <1>11, <2>1
  <2>2. CASE ~ \E i \in A : time(i) = instant + 1
    <3>1. t <= instant
      <4>1. t # instant + 1
        <5> SUFFICES ASSUME t = instant + 1 PROVE FALSE
          OBVIOUS
        <5>1. t > instant
          BY <1>1
        <5> QED BY <2>2, <5>1 DEF AheadIsRemembered, DatastoreInv
      <4> QED BY <1>1, <1>5, <4>1
    <3>2. PICK c \in Current : t <= time(c)
      BY <3>1 DEF CurrentIsRemembered, DatastoreInv
    <3>3. \A j \in DOMAIN deviceStates : time(j) <= instant + 1 => time(j) <= instant
      BY <1>1, <1>2, <1>3, <2>2
    <3>4. time(c) <= instant + 1
      BY <1>1, <1>2, <1>4
    <3>5. c \in Current'
      BY <1>4, <3>3, <3>4
    <3> QED BY <3>2, <3>5
  <2> QED BY <2>1, <2>2
<1>13. FilledFresh => FilledFresh'
  BY <1>1, <1>7 DEF FilledFresh
<1> QED BY <1>1, <1>8, <1>9, <1>10, <1>12, <1>13 DEF DatastoreInv

(* The values change: all that is remembered is handed over again.         *)
LEMMA SetDatastoreKeeps ==
  ASSUME DatastoreInv, ~ Straddle, NEW store \in Stores, setDatastore(store)
  PROVE  DatastoreInv' /\ (~ Touch /\ FilledFresh => FilledFresh')
<1>1. DatastoreTypeOK /\ AheadInOrder /\ store \in [StoreKeys -> Entry]
  BY DEF DatastoreInv, Stores
<1>2. DatastoreTypeOK'
  BY <1>1, SetDatastoreType
<1>3. /\ datastore' = store /\ instant' = instant /\ deviceStates' = deviceStates
      /\ plan' = IF Affected(store) THEN Handed(store, plan, Again) ELSE plan
  <2>1. ClockReads = {instant}
    BY DEF ClockReads
  <2>2. ToBeFilled(instant) = Again
    BY DEF ToBeFilled, Again
  <2> QED BY <1>1, <2>1, <2>2, StoreStep
<1>4. /\ Ahead(instant)' = Ahead(instant) /\ Current' = Current /\ Remembered' = Remembered
      /\ AheadInOrder'
  BY <1>1, <1>3 DEF Ahead, Current, Lasts, Come, Remembered, AheadInOrder
<1>5. CASE ~ Affected(store)
  <2>1. RememberedIsPlanned' /\ AheadIsRemembered' /\ CurrentIsRemembered'
    BY <1>3, <1>4, <1>5 DEF DatastoreInv, RememberedIsPlanned, AheadIsRemembered,
      CurrentIsRemembered
  <2>2. ASSUME ~ Touch, FilledFresh, NEW i \in Remembered
        PROVE  plan[deviceStates[i].time] = fillStateFromDatastore(deviceStates[i], store)
    <3> DEFINE refs == deviceStates[i].references
    <3>1. i \in DOMAIN deviceStates /\ deviceStates[i] \in RememberedState
      BY <1>1, RememberedTimes
    <3>2. PICK K \in SUBSET StoreKeys : refs \in [K -> BOOLEAN]
      BY <3>1 DEF RememberedState, References
    <3>3. \A k \in DOMAIN refs : k \in StoreKeys /\ store[k].value = datastore[k].value
      BY <1>5, <3>1, <3>2 DEF Affected, Changed
    <3>4. \A k \in DOMAIN refs : store[k] = datastore[k]
      BY <2>2, <3>3 DEF Stores
    <3>5. fillStateFromDatastore(deviceStates[i], store)
            = fillStateFromDatastore(deviceStates[i], datastore)
      BY <3>4 DEF fillStateFromDatastore
    <3> QED BY <2>2, <3>5 DEF FilledFresh
  <2>3. ~ Touch /\ FilledFresh => FilledFresh'
    BY <1>3, <1>4, <1>5, <2>2 DEF FilledFresh
  <2> QED BY <1>2, <1>4, <2>1, <2>3 DEF DatastoreInv
<1>6. CASE Affected(store)
  <2>1. PlanType(plan) /\ plan' = Handed(store, plan, Again)
    BY <1>1, <1>3, <1>6 DEF PlanType, DatastoreTypeOK
  <2>2. /\ Again \in Seq(RememberedState)
        /\ InOrder(Again)
        /\ \A i \in DOMAIN Again : \E r \in Remembered : Again[i] = deviceStates[r]
        /\ \A r \in Remembered : \E i \in DOMAIN Again : Again[i] = deviceStates[r]
    BY <1>1, AgainLists
  <2>3. /\ DOMAIN plan' = Kept(plan, Again) \cup {Again[i].time : i \in DOMAIN Again}
        /\ \A t \in Kept(plan, Again) : plan'[t] = plan[t]
        /\ \A i \in DOMAIN Again : plan'[Again[i].time] = fillStateFromDatastore(Again[i], store)
    <3>1. FilledAll(Handed(store, plan, Again), store, plan, Again)
      BY <2>1, <2>2, HandedInOrder
    <3> QED BY <2>1, <3>1 DEF FilledAll
  <2>4. ASSUME NEW r \in Remembered
        PROVE  /\ deviceStates[r].time \in DOMAIN plan'
               /\ plan'[deviceStates[r].time] = fillStateFromDatastore(deviceStates[r], store)
    BY <2>2, <2>3
  <2>5. ASSUME NEW t \in DOMAIN plan', \A r \in Remembered : t # deviceStates[r].time
        PROVE  t \in DOMAIN plan /\ \A r \in Remembered : t < deviceStates[r].time
    BY <2>2, <2>3, <2>5 DEF Kept
  <2>6. AheadIsRemembered'
    <3> SUFFICES ASSUME NEW t \in DOMAIN plan', t > instant
                 PROVE  \E i \in Ahead(instant) : deviceStates[i].time = t
      BY <1>3, <1>4 DEF AheadIsRemembered
    <3>1. CASE \E r \in Remembered : t = deviceStates[r].time
      BY <1>1, <3>1, RememberedTimes DEF Ahead
    <3>2. CASE \A r \in Remembered : t # deviceStates[r].time
      BY <2>5, <3>2 DEF AheadIsRemembered, DatastoreInv
    <3> QED BY <3>1, <3>2
  <2>7. CurrentIsRemembered'
    <3> SUFFICES ASSUME NEW t \in DOMAIN plan', t <= instant
                 PROVE  \E i \in Current : t <= deviceStates[i].time
      BY <1>3, <1>4 DEF CurrentIsRemembered
    <3>1. CASE \E r \in Remembered : t = deviceStates[r].time
      <4>1. PICK r \in Remembered : t = deviceStates[r].time
        BY <3>1
      <4>2. /\ deviceStates[r].time \in Nat /\ instant \in Nat
            /\ r \in Ahead(instant) => deviceStates[r].time > instant
            /\ r \notin Ahead(instant) => r \in Current
        BY <1>1, RememberedTimes
      <4>3. r \in Current /\ t <= deviceStates[r].time
        BY <4>1, <4>2
      <4> QED BY <4>3
    <3>2. CASE \A r \in Remembered : t # deviceStates[r].time
      BY <2>5, <3>2 DEF CurrentIsRemembered, DatastoreInv
    <3> QED BY <3>1, <3>2
  <2>8. RememberedIsPlanned' /\ FilledFresh'
    BY <1>3, <1>4, <2>4 DEF RememberedIsPlanned, FilledFresh
  <2> QED BY <1>2, <1>4, <2>6, <2>7, <2>8 DEF DatastoreInv
<1> QED BY <1>5, <1>6

(* Of the new array the last is the new state.  Where it has come it is    *)
(* the current one; where it has not, the current state stays.             *)
NewRemembered(s, n, m, top) ==
  /\ DOMAIN deviceStates' = 1 .. top /\ top \in Nat
  /\ top \in Remembered' /\ deviceStates'[top] = s
  /\ s.time > instant => top \in Ahead(instant)'
  /\ s.time <= instant => Current' = {top}
  /\ n = 1 /\ s.time > instant => 1 \in Current'
  /\ \A k \in 1 .. m : n + k \in Ahead(instant)'
  /\ \A i \in Remembered' :
       \/ i = top
       \/ i = 1 /\ n = 1 /\ s.time > instant
       \/ \E k \in 1 .. m : i = n + k

LEMMA SetRemembered ==
  ASSUME DatastoreTypeOK, NEW s \in RememberedState, instant' = instant,
         NEW n \in Nat, NEW m \in Nat, SetTo(deviceStates', instant, s, n, m)
  PROVE  NewRemembered(s, n, m, n + m + 1)
<1> DEFINE ds == deviceStates'
<1> DEFINE top == n + m + 1
<1> DEFINE B == Between(instant, s)
<1>1. /\ DOMAIN ds = 1 .. top /\ top \in Nat /\ top \in 1 .. top /\ ds[top] = s
      /\ n \in {0, 1}
  BY DEF SetTo
<1>2. instant \in Nat /\ s.time \in Nat /\ instant \in Instant
  BY DEF DatastoreTypeOK, RememberedState, Instant
<1>3. ASSUME NEW k \in 1 .. m
      PROVE  /\ n + k \in 1 .. top /\ n + k < top /\ n + k \in Nat
             /\ ds[n + k].time > instant /\ ds[n + k].time < s.time
  <2>1. n + k \in 1 .. top /\ n + k < top /\ n + k \in Nat
    OBVIOUS
  <2> DEFINE x == m - k + 1
  <2>2. x \in 1 .. m
    OBVIOUS
  <2> HIDE DEF x
  <2>3. B \in SUBSET Nat /\ IsFiniteSet(B) /\ m = Cardinality(B)
    <3>1. deviceStates \in Seq(RememberedState)
      BY DEF DatastoreTypeOK
    <3>2. \A i \in DOMAIN deviceStates : i \in Nat
      BY <3>1
    <3> QED BY <3>2 DEF SetTo
  <2>4. Index(B, x) \in B
    BY <2>2, <2>3, IndexInOrder
  <2>5. deviceStates[Index(B, x)].time > instant /\ deviceStates[Index(B, x)].time < s.time
    BY <2>4 DEF Between, Ahead
  <2>6. ds[n + k] = deviceStates[Index(B, x)]
    BY DEF SetTo, x
  <2> QED BY <2>1, <2>5, <2>6
<1>4. n = 1 => ds[1].time <= instant /\ 1 \in 1 .. top /\ 1 < top
  BY DEF SetTo
<1>5. ASSUME NEW i \in 1 .. top, i # top, ~ (i = 1 /\ n = 1)
      PROVE  \E k \in 1 .. m : i = n + k
  <2> DEFINE k == i - n
  <2>1. k \in 1 .. m /\ i = n + k
    BY <1>1, <1>5
  <2> HIDE DEF k
  <2> QED BY <2>1
<1>6. /\ Ahead(instant)' = {i \in 1 .. top : ds[i].time > instant}
      /\ Current' = {i \in 1 .. top : ds[i].time <= instant
                      /\ \A j \in 1 .. top : ds[j].time <= instant => j <= i}
      /\ Remembered' = Current' \cup Ahead(instant)'
  BY <1>1 DEF Ahead, Current, Lasts, Come, Remembered
<1> HIDE DEF ds, top, B
<1>7. s.time > instant => top \in Ahead(instant)'
  BY <1>1, <1>6
<1>8. s.time <= instant => Current' = {top}
  <2> HAVE s.time <= instant
  <2>1. top \in Current'
    BY <1>1, <1>6
  <2>2. \A i \in Current' : top <= i /\ i \in 1 .. top
    BY <1>1, <1>6
  <2>3. \A i \in Current' : i = top
    BY <1>1, <2>2
  <2> QED BY <2>1, <2>3
<1>9. n = 1 /\ s.time > instant => 1 \in Current'
  <2> SUFFICES ASSUME n = 1, s.time > instant PROVE 1 \in Current'
    OBVIOUS
  <2>1. ASSUME NEW j \in 1 .. top, ds[j].time <= instant PROVE j <= 1
    <3>1. j # top
      BY <1>1, <1>2, <2>1
    <3>2. ~ \E k \in 1 .. m : j = n + k
      <4> SUFFICES ASSUME NEW k \in 1 .. m, j = n + k PROVE FALSE
        OBVIOUS
      <4>1. ds[j].time > instant /\ ds[j].time < s.time
        BY <1>3
      <4>2. ds[j].time \in Nat
        <5>1. ds[j] \in RememberedState
          BY <1>1, ElementOfSeq DEF SetTo, ds
        <5> QED BY <5>1 DEF RememberedState, Instant
      <4> QED BY <1>2, <2>1, <4>1, <4>2
    <3> QED BY <1>5, <3>1, <3>2
  <2> QED BY <1>4, <1>6, <2>1
<1>10. \A k \in 1 .. m : n + k \in Ahead(instant)'
  BY <1>3, <1>6
<1>11. ASSUME NEW i \in Remembered', i # top, ~ \E k \in 1 .. m : i = n + k
       PROVE  i = 1 /\ n = 1 /\ s.time > instant
  <2>1. i \in 1 .. top
    BY <1>6
  <2>2. i = 1 /\ n = 1
    BY <1>5, <1>11, <2>1
  <2>3. i \notin Ahead(instant)'
    <3>1. ds[1].time <= instant /\ ds[1].time \in Nat
      <4>1. ds[1] \in RememberedState
        BY <1>1, <1>4, <2>2, ElementOfSeq DEF SetTo, ds
      <4> QED BY <1>4, <2>2, <4>1 DEF RememberedState, Instant
    <3> QED BY <1>2, <1>6, <2>2, <3>1
  <2>4. i \in Current'
    BY <1>6, <2>3
  <2>5. ~ (s.time <= instant)
    BY <1>8, <1>11, <2>4
  <2> QED BY <1>2, <2>2, <2>5
<1>12. top \in Remembered'
  BY <1>2, <1>6, <1>7, <1>8
<1> QED BY <1>1, <1>7, <1>8, <1>9, <1>10, <1>11, <1>12 DEF ds, top, NewRemembered

(* A new state: what was remembered for before it stays planned as it is,  *)
(* and what was planned from its time on is no longer remembered.  With at *)
(* most one state between, the order in which they are kept is no matter.  *)
LEMMA SetDeviceStateKeeps ==
  ASSUME DatastoreInv, ~ Straddle, MaxAhead <= 2, NEW s \in RememberedState, _setDeviceState(s)
  PROVE  DatastoreInv' /\ (FilledFresh => FilledFresh')
<1>1. DatastoreTypeOK /\ DatastoreTypeOK'
  BY SetDeviceStateType DEF DatastoreInv
<1>2. PICK n \in Nat, m \in Nat :
        /\ m + 1 <= MaxAhead /\ SetTo(deviceStates', instant, s, n, m)
        /\ plan' = Handed(datastore, plan, <<s>>)
        /\ instant' = instant /\ datastore' = datastore
  <2>1. ClockReads = {instant}
    BY DEF ClockReads
  <2> QED BY <1>1, <2>1, SetStep
<1> DEFINE ds == deviceStates'
           top == n + m + 1
           B == Between(instant, s)
<1>. NewRemembered(s, n, m, n + m + 1)
  BY <1>1, <1>2, SetRemembered
<1>3. /\ DOMAIN ds = 1 .. top
      /\ top \in Remembered' /\ ds[top] = s
      /\ s.time > instant => top \in Ahead(instant)'
      /\ s.time <= instant => Current' = {top}
      /\ n = 1 /\ s.time > instant => 1 \in Current'
      /\ \A k \in 1 .. m : n + k \in Ahead(instant)'
      /\ \A i \in Remembered' :
           \/ i = top
           \/ i = 1 /\ n = 1 /\ s.time > instant
           \/ \E k \in 1 .. m : i = n + k
  BY DEF NewRemembered
<1>4. Ahead(instant)' \in SUBSET (n + 1 .. top)
  <2>1. instant \in Instant /\ instant <= instant
    BY <1>1 DEF DatastoreTypeOK, Instant
  <2> QED BY <1>1, <1>2, <2>1, SetAhead
<1>5. /\ n \in {0, 1} /\ m \in {0, 1} /\ top \in Nat
      /\ instant \in Nat /\ s.time \in Nat
      /\ \A t \in DOMAIN plan : t \in Nat
  <2>1. n \in {0, 1}
    BY <1>2 DEF SetTo
  <2>2. m \in {0, 1} /\ top \in Nat
    BY <1>2, DatastoreAssumption
  <2>3. s.time \in Nat
    BY DEF RememberedState, Instant
  <2> QED BY <1>1, <2>1, <2>2, <2>3 DEF DatastoreTypeOK, Instant
\* The plan.
<1>6. /\ DOMAIN plan' = {t \in DOMAIN plan : t < s.time} \cup {s.time}
      /\ \A t \in DOMAIN plan : t < s.time => plan'[t] = plan[t]
      /\ plan'[s.time] = fillStateFromDatastore(s, datastore)
  <2> DEFINE one == <<s>>
  <2>1. one \in Seq(RememberedState) /\ DOMAIN one = {1} /\ one[1] = s
    OBVIOUS
  <2>2. PlanType(plan) /\ InOrder(one)
    BY <1>1, <2>1 DEF PlanType, DatastoreTypeOK, InOrder
  <2> HIDE DEF one
  <2>3. FilledAll(Handed(datastore, plan, one), datastore, plan, one)
    BY <2>1, <2>2, HandedInOrder
  <2>4. plan' = Handed(datastore, plan, one)
    BY <1>2 DEF one
  <2>5. Kept(plan, one) = {t \in DOMAIN plan : t < s.time}
    BY <2>1 DEF Kept
  <2> QED BY <2>1, <2>3, <2>4, <2>5 DEF FilledAll
\* The states between.
<1>7. /\ m = Cardinality(B) /\ IsFiniteSet(B) /\ B \in SUBSET Nat
      /\ \A k \in 1 .. m : m - k + 1 \in 1 .. m
      /\ \A k \in 1 .. m : ds[n + k] = deviceStates[Index(B, m - k + 1)]
  <2>1. \A i \in DOMAIN deviceStates : i \in Nat
    BY <1>1, RememberedTimes
  <2> QED BY <1>2, <2>1 DEF SetTo
<1>8. \A k \in 1 .. m : \E b \in B : ds[n + k] = deviceStates[b]
  BY <1>7, IndexInOrder
<1>9. \A b \in B : \E k \in 1 .. m : ds[n + k] = deviceStates[b]
  <2> SUFFICES ASSUME NEW b \in B PROVE \E k \in 1 .. m : ds[n + k] = deviceStates[b]
    OBVIOUS
  <2>1. PICK x \in 1 .. m : Index(B, x) = b
    BY <1>7, IndexInOrder
  <2> DEFINE k == m - x + 1
  <2>2. k \in 1 .. m /\ m - k + 1 = x
    OBVIOUS
  <2> HIDE DEF k
  <2>3. ds[n + k] = deviceStates[b]
    BY <1>7, <2>1, <2>2
  <2> QED BY <2>2, <2>3
<1>10. B \in SUBSET Ahead(instant) /\ B \in SUBSET Remembered
       /\ \A b \in B : deviceStates[b].time < s.time
  BY DEF Between, Remembered
\* The current state, when the new one is yet to come.
<1>11. n = 1 => \E c \in Current : ds[1] = deviceStates[c] /\ deviceStates[c].time <= instant
  BY <1>2 DEF SetTo
<1>12. \A c \in Current : n = 1 /\ ds[1] = deviceStates[c]
  BY <1>2 DEF SetTo
\* A state still remembered was remembered before, for an earlier time.
<1>13. ASSUME NEW i \in Remembered', i # top
       PROVE  \E r \in Remembered : ds[i] = deviceStates[r] /\ deviceStates[r].time < s.time
  <2>1. CASE i = 1 /\ n = 1 /\ s.time > instant
    <3>1. PICK c \in Current : ds[1] = deviceStates[c] /\ deviceStates[c].time <= instant
      BY <1>11, <2>1
    <3>2. deviceStates[c].time \in Nat /\ c \in Remembered
      BY <1>1, RememberedTimes DEF Remembered
    <3> QED BY <1>5, <2>1, <3>1, <3>2
  <2>2. CASE \E k \in 1 .. m : i = n + k
    BY <1>8, <1>10, <2>2
  <2> QED BY <1>3, <1>13, <2>1, <2>2
<1> HIDE DEF ds, top, B
<1>14. AheadInOrder'
  <2> SUFFICES ASSUME NEW i \in Ahead(instant)', NEW j \in DOMAIN ds, i < j
               PROVE  ds[i].time < ds[j].time
    BY DEF AheadInOrder, ds
  <2>1. i = n + 1 /\ m = 1 /\ j = top /\ i # top
    BY <1>3, <1>4, <1>5 DEF top
  <2>2. i \in Remembered'
    BY DEF Remembered
  <2> QED BY <1>3, <1>13, <2>1, <2>2
<1>15. RememberedIsPlanned'
  <2> SUFFICES ASSUME NEW i \in Remembered' PROVE ds[i].time \in DOMAIN plan'
    BY DEF RememberedIsPlanned, ds
  <2>1. CASE i = top
    BY <1>3, <1>6, <2>1
  <2>2. CASE i # top
    BY <1>6, <1>13, <2>2 DEF RememberedIsPlanned, DatastoreInv
  <2> QED BY <2>1, <2>2
<1>16. AheadIsRemembered'
  <2> SUFFICES ASSUME NEW t \in DOMAIN plan', t > instant
               PROVE  \E i \in Ahead(instant)' : ds[i].time = t
    BY <1>2 DEF AheadIsRemembered, ds
  <2>1. CASE t = s.time
    BY <1>3, <2>1
  <2>2. CASE t # s.time
    <3>1. t \in DOMAIN plan /\ t < s.time
      BY <1>6, <2>2
    <3>2. PICK b \in Ahead(instant) : deviceStates[b].time = t
      BY <3>1 DEF AheadIsRemembered, DatastoreInv
    <3> b \in B
      <4>1. deviceStates[b].time < s.time
        BY <3>1, <3>2
      <4> QED BY <4>1 DEF B, Between
    <3>3. PICK k \in 1 .. m : ds[n + k] = deviceStates[b]
      BY <1>9
    <3> DEFINE i == n + k
    <3>4. i \in Ahead(instant)' /\ ds[i].time = t
      BY <1>3, <3>2, <3>3
    <3> HIDE DEF i
    <3> QED BY <3>4
  <2> QED BY <2>1, <2>2
<1>17. CurrentIsRemembered'
  <2> SUFFICES ASSUME NEW t \in DOMAIN plan', t <= instant
               PROVE  \E i \in Current' : t <= ds[i].time
    BY <1>2 DEF CurrentIsRemembered, ds
  <2>1. CASE s.time <= instant
    BY <1>3, <1>5, <1>6, <2>1
  <2>2. CASE s.time > instant
    <3>1. t \in DOMAIN plan
      BY <1>5, <1>6, <2>2
    <3>2. PICK c \in Current : t <= deviceStates[c].time
      BY <3>1 DEF CurrentIsRemembered, DatastoreInv
    <3> QED BY <1>3, <1>12, <2>2, <3>2
  <2> QED BY <1>5, <2>1, <2>2
<1>18. ASSUME FilledFresh PROVE FilledFresh'
  <2> SUFFICES ASSUME NEW i \in Remembered'
               PROVE  plan'[ds[i].time] = fillStateFromDatastore(ds[i], datastore)
    BY <1>2 DEF FilledFresh, ds
  <2>1. CASE i = top
    BY <1>3, <1>6, <2>1
  <2>2. CASE i # top
    <3>1. PICK r \in Remembered : ds[i] = deviceStates[r] /\ deviceStates[r].time < s.time
      BY <1>13, <2>2
    <3>2. deviceStates[r].time \in DOMAIN plan
      BY DEF RememberedIsPlanned, DatastoreInv
    <3> QED BY <1>6, <1>18, <3>1, <3>2 DEF FilledFresh
  <2> QED BY <2>1, <2>2
<1> QED BY <1>1, <1>14, <1>15, <1>16, <1>17, <1>18 DEF DatastoreInv

LEMMA DatastoreNextKeeps ==
  ASSUME ~ Straddle, MaxAhead <= 2, DatastoreInv, [DatastoreNext]_datastoreVars
  PROVE  DatastoreInv' /\ (~ Touch /\ FilledFresh => FilledFresh')
<1>1. ASSUME NEW s \in RememberedState, _setDeviceState(s)
      PROVE  DatastoreInv' /\ (FilledFresh => FilledFresh')
  BY <1>1, SetDeviceStateKeeps
<1>2. ASSUME NEW store \in Stores, setDatastore(store)
      PROVE  DatastoreInv' /\ (~ Touch /\ FilledFresh => FilledFresh')
  BY <1>2, SetDatastoreKeeps
<1>3. CASE InstantPasses
  BY <1>3, InstantPassesKeeps
<1>4. CASE UNCHANGED datastoreVars
  <2>1. DatastoreTypeOK'
    BY DatastoreNextType DEF DatastoreInv
  <2>2. /\ instant' = instant /\ datastore' = datastore
        /\ deviceStates' = deviceStates /\ plan' = plan
    BY <1>4 DEF datastoreVars
  <2>3. /\ Ahead(instant)' = Ahead(instant) /\ Current' = Current /\ Remembered' = Remembered
    BY <2>2 DEF Ahead, Current, Lasts, Come, Remembered
  <2> QED BY <2>1, <2>2, <2>3 DEF DatastoreInv, AheadInOrder, RememberedIsPlanned,
            AheadIsRemembered, CurrentIsRemembered, FilledFresh
<1> QED BY <1>1, <1>2, <1>3, <1>4 DEF DatastoreNext

(* Where the clock does not move between its two reads, and with at most   *)
(* two states ahead, what setDatastore would hand over again is exactly    *)
(* what the device will still show, in the order of time (conductor.ts,    *)
(* _setDeviceState, line 1216).  Both hypotheses are needed: a run shows   *)
(* the order lost with three ahead.                                        *)
THEOREM RememberedIsLive ==
  ASSUME ~ Straddle, MaxAhead <= 2
  PROVE  DatastoreSpec => []PlanIsRemembered
<1>1. DatastoreInit => DatastoreInv
  BY DatastoreInitInv
<1>2. DatastoreInv /\ [DatastoreNext]_datastoreVars => DatastoreInv'
  BY DatastoreNextKeeps
<1>3. DatastoreInv => PlanIsRemembered
  BY InvSaysRemembered
<1> QED BY <1>1, <1>2, <1>3, PTL DEF DatastoreSpec

(* Then, where a value is stored as modified only when it has changed, all *)
(* that the device will still show is filled with the values that the      *)
(* datastore has now (conductor.ts, setDatastore and                       *)
(* fillStateFromDatastore).                                                *)
THEOREM ValuesStayFresh ==
  ASSUME ~ Straddle, MaxAhead <= 2, ~ Touch
  PROVE  DatastoreSpec => []ValuesAreFresh
<1>1. DatastoreInit => DatastoreInv /\ FilledFresh
  BY DatastoreInitInv
<1>2. DatastoreInv /\ FilledFresh /\ [DatastoreNext]_datastoreVars
        => DatastoreInv' /\ FilledFresh'
  BY DatastoreNextKeeps
<1>3. DatastoreInv /\ FilledFresh => ValuesAreFresh
  BY FreshSaysFresh
<1> QED BY <1>1, <1>2, <1>3, PTL DEF DatastoreSpec

=============================================================================
