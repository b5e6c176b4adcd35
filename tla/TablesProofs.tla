---------------------------- MODULE TablesProofs ----------------------------
(***************************************************************************)
(* Theorems about the rate limiter of a reader (RateLimit), the cache of    *)
(* control words (CwCache) and the three tables together (MCTables), for    *)
(* any number of services, hashes and nodes, any limits and any times.      *)
(*                                                                          *)
(* The rate limiter's invariant has a part that holds whatever threads do   *)
(* to each other's slots (no service has two, and none is remembered longer *)
(* than it was asked for), and one that needs ~raced: who was asked for     *)
(* within the window has a slot.                                            *)
(*                                                                          *)
(* The cache keeps the words of a hash in order with a recursive merge      *)
(* sort.  What a recursive function computes follows by induction along a   *)
(* rank, a number that gets smaller with each call: that a function with    *)
(* the recursion's equation exists is proved here too.                      *)
(***************************************************************************)
EXTENDS FailbanProofs, MCTables, FunctionTheorems, SequenceTheorems, WellFoundedInduction

\* No service has two slots.
Unique(tab) == \A h, k \in Slots : tab[h].srv = tab[k].srv /\ tab[h].srv # NoService => h = k

\* No slot above the limit is taken.
Within(tab) == \A h \in Taken(tab) : h <= Limit

\* No slot is younger than the time since its service was asked for.
Backed == \A h \in Taken(rlecmh) : asked[rlecmh[h].srv] <= rlecmh[h].age

\* The state of the cooldown is up to date.
Settled == cooldown => /\ cooldownstate = 1 => coolAge <= Cooling
                       /\ cooldownstate = 2 => coolAge <= Delay

\* The service s, about to be registered in slot n of tab: it has no other slot, and if it
\* has that one, it would not move.
Place(tab, s, n) ==
    /\ \A h \in Slots : tab[h].srv = s => h = n
    /\ tab[n].srv = s => \A f \in Slots : f < n => tab[f].srv # NoService

\* The worker between its check and its registration.
Finding ==
    ~WorkerIdle =>
        /\ Settled
        /\ Limited(cooldownstate) => found.slot <= Limit
        /\ \A h \in Taken(rlecmh) : rlecmh[h].age < Window
        /\ Place(rlecmh, found.srv, found.slot)
        /\ ~raced => rlecmh[found.slot].srv \in {NoService, found.srv}

\* Whom the limit of the cooldown took its slot away.
Lost(s) == cooldown /\ IF cooldownstate = 1 THEN asked[s] >= coolAge ELSE asked[s] > Cooling

\* The others that were asked for within the window have one.
Holding ==
    ~raced => \A s \in Services : asked[s] < Window =>
        \/ \E h \in Slots : rlecmh[h].srv = s /\ rlecmh[h].age <= asked[s]
        \/ Lost(s)

RateIInv ==
    /\ RateTypeOK
    /\ Unique(rlecmh)
    /\ Limited(cooldownstate) => Within(rlecmh)
    /\ Backed
    /\ Finding
    /\ Holding

(***************************************************************************)
(* Slots.                                                                   *)
(***************************************************************************)

Tables == [Slots -> [srv : Services \cup {NoService}, age : SlotAges]]

LEMMA RateConstants ==
    /\ Slots \subseteq Nat /\ NoSlot \notin Slots /\ NoService \notin Services /\ NoSlot \in Nat
    /\ Limit \in Slots /\ MaxSlots \in Nat /\ \A h \in Slots : h <= MaxSlots
    /\ Window \in Nat /\ Window > 0 /\ Delay \in Nat /\ Cooling \in Nat
    /\ Free \in [srv : Services \cup {NoService}, age : SlotAges] /\ Free.srv = NoService /\ Free.age = 0
    /\ SlotAges \subseteq Nat /\ 0 \in SlotAges /\ \A a \in SlotAges : a <= Window + 1
BY LimitAssumption, RateTimesAssumption, NoServiceAssumption DEF Slots, NoSlot, Free, SlotAges

\* A set of natural numbers that is not empty has a least element.
LEMMA LeastNumber ==
    ASSUME NEW T \in SUBSET Nat, T # {}
    PROVE  \E n \in T : \A k \in T : n <= k
<1>1. PICK n \in T : \A k \in T : <<k, n>> \notin OpToRel(<, Nat)
  BY NatLessThanWellFounded, WFMin
<1>2. \A k \in T : ~(k < n)
  BY <1>1, Zenon DEF OpToRel
<1>3. QED
  BY <1>2

\* Least is the smallest.
LEMMA Smallest ==
    ASSUME NEW S \in SUBSET Slots, S # {}
    PROVE  Least(S) \in S /\ \A m \in S : Least(S) <= m
<1>1. S \in SUBSET Nat
  BY RateConstants DEF Slots
<1>2. \E n \in S : \A m \in S : n <= m
  BY <1>1, LeastNumber
<1>3. QED
  BY <1>2 DEF Least

LEMMA TakenSlots ==
    ASSUME NEW tab \in Tables
    PROVE  /\ \A h : h \in Taken(tab) <=> h \in Slots /\ tab[h].srv # NoService
           /\ \A h : h \in FreeSlots(tab) <=> h \in Slots /\ tab[h].srv = NoService
           /\ \A h \in Slots : /\ tab[h].srv \in Services \cup {NoService} /\ tab[h].age \in SlotAges
                               /\ tab[h].age \in Nat
BY RateConstants DEF Taken, FreeSlots, Tables

\* The release of slots that are overtime.
LEMMA Released ==
    ASSUME NEW tab \in Tables
    PROVE  /\ InWindow(tab) \in Tables
           /\ \A h \in Slots : InWindow(tab)[h] = IF tab[h].age >= Window THEN Free ELSE tab[h]
BY RateConstants DEF InWindow, Tables

\* A service that has a slot moves to a lower free one if there is one; nothing else
\* changes, provided that the limit does not take it the slot away.
LEMMA HeldFound ==
    ASSUME NEW tab \in Tables, NEW st, NEW h \in Slots, tab[h].srv # NoService,
           Limited(st) => Within(tab)
    PROVE  \E to \in Slots :
              /\ to <= h /\ (to = h \/ tab[to].srv = NoService)
              /\ \A f \in Slots : f < to => tab[f].srv # NoService
              /\ FindHeld(tab, st, h).slot = to
              /\ FindHeld(tab, st, h).tab \in Tables
              /\ \A k \in Slots : FindHeld(tab, st, h).tab[k] =
                    IF k = to THEN tab[h] ELSE IF k = h THEN Free ELSE tab[k]
<1> DEFINE lower == {f \in FreeSlots(tab) : f < h}
           to == IF lower = {} THEN h ELSE Least(lower)
           moved == [[tab EXCEPT ![h] = Free] EXCEPT ![to] = tab[h]]
<1>1. lower \subseteq Slots /\ \A f \in Slots : f \in lower <=> tab[f].srv = NoService /\ f < h
  BY TakenSlots
<1>2. /\ to \in Slots /\ to <= h /\ (to = h \/ tab[to].srv = NoService)
      /\ \A f \in Slots : f < to => tab[f].srv # NoService
  <2>1. CASE lower = {}
    BY <1>1, <2>1, RateConstants
  <2>2. CASE lower # {}
    <3>1. Least(lower) \in lower /\ \A m \in lower : Least(lower) <= m
      BY <1>1, <2>2, Smallest
    <3> HIDE DEF lower
    <3>2. to = Least(lower)
      BY <2>2
    <3>3. to \in Slots /\ to < h /\ tab[to].srv = NoService
      BY <1>1, <3>1, <3>2
    <3>4. \A f \in Slots : f < to => ~(tab[f].srv = NoService)
      <4>1. SUFFICES ASSUME NEW f \in Slots, f < to, tab[f].srv = NoService PROVE FALSE
        OBVIOUS
      <4>2. f \in Nat /\ to \in Nat /\ h \in Nat
        BY <3>3, RateConstants
      <4>3. f \in lower
        BY <1>1, <3>3, <4>1, <4>2
      <4>4. QED
        BY <3>1, <3>2, <4>1, <4>2, <4>3
    <3> HIDE DEF to
    <3>5. to <= h
      BY <3>3, RateConstants
    <3>6. QED
      BY <3>3, <3>4, <3>5
  <2>3. QED
    BY <2>1, <2>2
<1>3. to <= MaxEcms(tab, st)
  <2>1. h \in Taken(tab)
    BY TakenSlots
  <2>2. Limited(st) => h <= Limit
    BY <2>1 DEF Within
  <2>3. MaxEcms(tab, st) = IF Limited(st) THEN Limit ELSE MaxSlots
    BY <2>1 DEF MaxEcms
  <2>4. to \in Nat /\ h \in Nat /\ Limit \in Nat /\ MaxSlots \in Nat /\ to <= MaxSlots
    BY <1>2, RateConstants
  <2> HIDE DEF to
  <2>5. QED
    BY <1>2, <2>2, <2>3, <2>4
<1>4. FindHeld(tab, st, h) = [tab |-> moved, slot |-> to]
  BY <1>3 DEF FindHeld
<1> HIDE DEF to
<1>5. moved \in Tables /\ \A k \in Slots : moved[k] = IF k = to THEN tab[h] ELSE IF k = h THEN Free ELSE tab[k]
  BY <1>2, RateConstants DEF Tables
<1> HIDE DEF moved
<1>6. FindHeld(tab, st, h).slot = to /\ FindHeld(tab, st, h).tab = moved
  BY <1>4
<1>7. QED
  BY <1>2, <1>5, <1>6

\* A new service gets a free slot, below the limit if there is one, or none.
LEMMA NewFound ==
    ASSUME NEW tab \in Tables, NEW st
    PROVE  \/ FindNew(tab, st) = NoSlot
           \/ /\ FindNew(tab, st) \in Slots /\ tab[FindNew(tab, st)].srv = NoService
              /\ Limited(st) => FindNew(tab, st) <= Limit
<1> DEFINE fits == {f \in FreeSlots(tab) : Limited(st) => f <= MaxEcms(tab, st)}
<1>1. SUFFICES ASSUME FindNew(tab, st) # NoSlot
               PROVE  /\ FindNew(tab, st) \in Slots /\ tab[FindNew(tab, st)].srv = NoService
                      /\ Limited(st) => FindNew(tab, st) <= Limit
  OBVIOUS
<1>2. FindNew(tab, st) = Least(fits) /\ fits # {}
  BY <1>1 DEF FindNew
<1>3. fits \in SUBSET Slots /\ \A f \in fits : tab[f].srv = NoService /\ (Limited(st) => f <= MaxEcms(tab, st))
  BY TakenSlots
<1>4. Least(fits) \in fits /\ \A m \in fits : Least(fits) <= m
  BY <1>2, <1>3, Smallest
<1>5. Limited(st) => Least(fits) <= Limit
  <2>1. CASE Taken(tab) # {}
    BY <1>3, <1>4, <2>1 DEF MaxEcms
  <2>2. CASE Taken(tab) = {}
    <3>1. Limit \in FreeSlots(tab)
      BY <2>2, TakenSlots, RateConstants
    <3>2. Limit <= MaxEcms(tab, st)
      BY <2>2, RateConstants DEF MaxEcms
    <3>3. Limit \in fits
      BY <3>1, <3>2
    <3>4. QED
      BY <1>4, <3>3
  <2>3. QED
    BY <2>1, <2>2
<1> HIDE DEF fits
<1>6. QED
  BY <1>2, <1>3, <1>4, <1>5

\* What a check does to the slots, whoever makes it: those in time stay taken as they
\* are, and the slot found is the service's own or a free one.
LEMMA SpaceFound ==
    ASSUME NEW tab \in Tables, NEW st, NEW s \in Services, Unique(tab), Limited(st) => Within(tab),
           NEW r, r = FindSpace(tab, st, s)
    PROVE  /\ r.tab \in Tables /\ r.slot \in Slots \cup {NoSlot}
           /\ \A h \in Slots : r.tab[h].srv # NoService =>
                 \E k \in Slots : r.tab[h] = tab[k] /\ tab[k].age < Window
           /\ \A k \in Slots : tab[k].srv # NoService /\ tab[k].age < Window =>
                 \E h \in Slots : r.tab[h] = tab[k]
           /\ Unique(r.tab) /\ (Limited(st) => Within(r.tab))
           /\ (\E k \in Slots : tab[k].srv = s /\ tab[k].age < Window) => r.slot # NoSlot
           /\ r.slot # NoSlot => /\ Place(r.tab, s, r.slot)
                                 /\ r.tab[r.slot].srv \in {NoService, s}
                                 /\ Limited(st) => r.slot <= Limit
<1> DEFINE tab1 == InWindow(tab)
           held == {h \in Slots : tab1[h].srv = s}
<1>1. /\ tab1 \in Tables
      /\ \A h \in Slots : tab1[h] = IF tab[h].age >= Window THEN Free ELSE tab[h]
      /\ \A h \in Slots : /\ tab1[h].srv \in Services \cup {NoService} /\ tab[h].age \in Nat /\ h \in Nat
                          /\ tab1[h].srv # NoService => tab1[h] = tab[h] /\ tab[h].age < Window
  BY Released, TakenSlots, RateConstants
<1>2. s # NoService /\ Free.srv = NoService /\ Limit \in Nat /\ Window \in Nat
  BY RateConstants
<1> HIDE DEF tab1
<1>3. Unique(tab1)
  BY <1>1 DEF Unique
<1>4. Limited(st) => Within(tab1)
  BY <1>1, TakenSlots DEF Within
<1>5. r = IF held # {} THEN FindHeld(tab1, st, Least(held)) ELSE [tab |-> tab1, slot |-> FindNew(tab1, st)]
  BY DEF FindSpace, tab1
<1>6. CASE held = {}
  <2>1. r.tab = tab1 /\ r.slot = FindNew(tab1, st)
    BY <1>5, <1>6
  <2>2. \/ r.slot = NoSlot
        \/ r.slot \in Slots /\ tab1[r.slot].srv = NoService /\ (Limited(st) => r.slot <= Limit)
    BY <1>1, <2>1, NewFound
  <2>3. \A h \in Slots : tab1[h].srv # s
    BY <1>6
  <2>4. \A k \in Slots : tab[k].age < Window => tab1[k] = tab[k] /\ tab[k].srv # s
    BY <1>1, <1>2, <2>3
  <2>5. /\ r.tab \in Tables /\ r.slot \in Slots \cup {NoSlot}
        /\ Unique(r.tab) /\ (Limited(st) => Within(r.tab))
    BY <1>1, <1>3, <1>4, <2>1, <2>2
  <2>6. r.slot # NoSlot => /\ Place(r.tab, s, r.slot)
                           /\ r.tab[r.slot].srv \in {NoService, s}
                           /\ Limited(st) => r.slot <= Limit
    BY <2>1, <2>2, <2>3 DEF Place
  <2>7. QED
    BY <1>1, <2>1, <2>4, <2>5, <2>6
<1>7. CASE held # {}
  <2> DEFINE h0 == Least(held)
  <2>1. h0 \in Slots /\ tab1[h0].srv = s
    <3>1. held \in SUBSET Slots
      OBVIOUS
    <3>2. h0 \in held
      BY <1>7, <3>1, Smallest
    <3>3. QED
      BY <3>2
  <2>2. r = FindHeld(tab1, st, h0)
    BY <1>5, <1>7
  <2> HIDE DEF h0, held
  <2>3. PICK to \in Slots :
              /\ to <= h0 /\ (to = h0 \/ tab1[to].srv = NoService)
              /\ \A f \in Slots : f < to => tab1[f].srv # NoService
              /\ r.slot = to /\ r.tab \in Tables
              /\ \A k \in Slots : r.tab[k] = IF k = to THEN tab1[h0] ELSE IF k = h0 THEN Free ELSE tab1[k]
    BY <1>1, <1>2, <1>4, <2>1, <2>2, HeldFound
  <2>4. \A h \in Slots : r.tab[h].srv # NoService => \E k \in Slots : /\ r.tab[h] = tab1[k] /\ tab1[k].srv # NoService
                                                                      /\ h = k \/ (h = to /\ k = h0)
    BY <1>2, <2>1, <2>3
  <2>5. \A k \in Slots : tab1[k].srv # NoService => \E h \in Slots : r.tab[h] = tab1[k] /\ h <= k
    <3>1. SUFFICES ASSUME NEW k \in Slots, tab1[k].srv # NoService PROVE \E h \in Slots : r.tab[h] = tab1[k] /\ h <= k
      OBVIOUS
    <3>2. CASE k = h0
      BY <2>1, <2>3, <3>2
    <3>3. CASE k # h0
      <4>1. k # to /\ k <= k
        BY <1>1, <2>3, <3>1, <3>3
      <4>2. QED
        BY <2>3, <3>3, <4>1
    <3>4. QED
      BY <3>2, <3>3
  <2>6. Unique(r.tab)
    <3>1. SUFFICES ASSUME NEW h \in Slots, NEW k \in Slots, r.tab[h].srv = r.tab[k].srv, r.tab[h].srv # NoService
                   PROVE  h = k
      BY DEF Unique
    <3>2. PICK h1 \in Slots : r.tab[h] = tab1[h1] /\ tab1[h1].srv # NoService /\ (h = h1 \/ (h = to /\ h1 = h0))
      BY <2>4, <3>1
    <3>3. PICK k1 \in Slots : r.tab[k] = tab1[k1] /\ tab1[k1].srv # NoService /\ (k = k1 \/ (k = to /\ k1 = h0))
      BY <2>4, <3>1
    <3>4. h1 = k1
      BY <1>3, <3>1, <3>2, <3>3 DEF Unique
    <3>5. CASE h1 = h0
      <4>1. \A n \in Slots : n = h0 /\ n # to => r.tab[n].srv = NoService
        BY <1>2, <2>3
      <4>2. h = to /\ k = to
        BY <3>1, <3>2, <3>3, <3>4, <3>5, <4>1
      <4>3. QED
        BY <4>2
    <3>6. QED
      BY <3>2, <3>3, <3>4, <3>5
  <2>7. Limited(st) => Within(r.tab)
    <3>1. SUFFICES ASSUME Limited(st), NEW h \in Slots, r.tab[h].srv # NoService PROVE h <= Limit
      BY <2>3, TakenSlots DEF Within
    <3>2. PICK k \in Slots : tab1[k].srv # NoService /\ (h = k \/ (h = to /\ k = h0))
      BY <2>4, <3>1
    <3>3. k <= Limit /\ h <= k
      BY <1>1, <1>4, <2>3, <3>1, <3>2, TakenSlots DEF Within
    <3>4. QED
      BY <1>1, <1>2, <3>3
  <2>8. r.tab[to].srv = s
    BY <2>1, <2>3
  <2>9. Place(r.tab, s, to)
    <3>1. \A h \in Slots : r.tab[h].srv = s => h = to
      BY <1>2, <2>6, <2>8 DEF Unique
    <3>2. ASSUME NEW f \in Slots, f < to PROVE r.tab[f].srv # NoService
      <4>1. f # to /\ f # h0 /\ tab1[f].srv # NoService
        BY <1>1, <2>1, <2>3, <3>2
      <4>2. QED
        BY <2>3, <4>1
    <3>3. QED
      BY <3>1, <3>2 DEF Place
  <2>10. Limited(st) => to <= Limit
    BY <1>2, <2>3, <2>7, <2>8, TakenSlots DEF Within
  <2>11. /\ \A h \in Slots : r.tab[h].srv # NoService =>
               \E k \in Slots : r.tab[h] = tab[k] /\ tab[k].age < Window
         /\ \A k \in Slots : tab[k].srv # NoService /\ tab[k].age < Window =>
               \E h \in Slots : r.tab[h] = tab[k]
    <3>1. ASSUME NEW k \in Slots, tab[k].srv # NoService, tab[k].age < Window PROVE tab1[k] = tab[k]
      BY <1>1, <1>2, <3>1
    <3>2. QED
      BY <1>1, <2>4, <2>5, <3>1
  <2>12. QED
    BY <2>3, <2>6, <2>7, <2>8, <2>9, <2>10, <2>11, RateConstants
<1>8. QED
  BY <1>6, <1>7

\* A client's check between the worker's two steps: the slot that the worker has found may
\* be taken by another service, but its own service has no other.
LEMMA PlaceKept ==
    ASSUME NEW tab \in Tables, NEW st, NEW s \in Services, Unique(tab), Limited(st) => Within(tab),
           \A h \in Taken(tab) : tab[h].age < Window,
           NEW w \in Services, NEW n \in Slots, Place(tab, w, n),
           NEW r, r = FindSpace(tab, st, s)
    PROVE  Place(r.tab, w, n)
<1> DEFINE tab1 == InWindow(tab)
           held == {h \in Slots : tab1[h].srv = s}
<1>1. /\ tab1 \in Tables
      /\ \A h \in Slots : /\ tab1[h].srv = tab[h].srv /\ h \in Nat
                          /\ tab1[h].srv # NoService => tab1[h] = tab[h]
  <2>1. /\ tab1 \in Tables
        /\ \A h \in Slots : tab1[h] = IF tab[h].age >= Window THEN Free ELSE tab[h]
    BY Released
  <2>2. ASSUME NEW h \in Slots
        PROVE  /\ tab1[h].srv = tab[h].srv /\ h \in Nat
               /\ tab1[h].srv # NoService => tab1[h] = tab[h]
    <3>1. tab[h].srv # NoService => tab[h].age < Window /\ tab[h].age \in Nat /\ Window \in Nat
      BY TakenSlots, RateConstants
    <3>2. QED
      BY <2>1, <3>1, RateConstants
  <2>3. QED
    BY <2>1, <2>2
<1>2. s # NoService /\ w # NoService /\ Free.srv = NoService
  BY RateConstants
<1> HIDE DEF tab1
<1>3. Place(tab1, w, n)
  BY <1>1 DEF Place
<1>4. Limited(st) => Within(tab1)
  BY <1>1, TakenSlots DEF Within
<1>5. r = IF held # {} THEN FindHeld(tab1, st, Least(held)) ELSE [tab |-> tab1, slot |-> FindNew(tab1, st)]
  BY DEF FindSpace, tab1
<1>6. CASE held = {}
  BY <1>3, <1>5, <1>6
<1>7. CASE held # {}
  <2> DEFINE h0 == Least(held)
  <2>1. h0 \in Slots /\ tab1[h0].srv = s
    <3>1. held \in SUBSET Slots
      OBVIOUS
    <3>2. h0 \in held
      BY <1>7, <3>1, Smallest
    <3>3. QED
      BY <3>2
  <2>2. r = FindHeld(tab1, st, h0)
    BY <1>5, <1>7
  <2> HIDE DEF h0, held
  <2>3. PICK to \in Slots :
              /\ to <= h0 /\ (to = h0 \/ tab1[to].srv = NoService)
              /\ \A f \in Slots : f < to => tab1[f].srv # NoService
              /\ r.slot = to /\ r.tab \in Tables
              /\ \A k \in Slots : r.tab[k] = IF k = to THEN tab1[h0] ELSE IF k = h0 THEN Free ELSE tab1[k]
    BY <1>1, <1>2, <1>4, <2>1, <2>2, HeldFound
  <2>4. CASE tab1[n].srv = w
    <3>1. \A f \in Slots : f < n => tab1[f].srv # NoService
      BY <1>3, <2>4 DEF Place
    <3>2. to = h0 \/ (n < to /\ n # h0)
      <4>1. SUFFICES ASSUME to # h0 PROVE n < to /\ n # h0
        OBVIOUS
      <4>2. tab1[to].srv = NoService /\ to < h0 /\ n # to
        BY <1>1, <1>2, <2>1, <2>3, <2>4, <4>1
      <4>3. ~(to < n)
        BY <3>1, <4>2
      <4>4. QED
        BY <1>1, <4>2, <4>3
    <3>3. \A f \in Slots : f <= n => r.tab[f] = tab1[f]
      BY <1>1, <2>1, <2>3, <3>2
    <3>4. \A h \in Slots : r.tab[h].srv = w => h = n
      <4>1. SUFFICES ASSUME NEW h \in Slots, r.tab[h].srv = w PROVE h = n
        OBVIOUS
      <4>2. \A k \in Slots : tab1[k].srv = w => k = n
        BY <1>3 DEF Place
      <4>3. CASE h = to
        <5>1. tab1[h0].srv = w
          BY <2>3, <4>1, <4>3
        <5>2. h0 = n
          BY <2>1, <4>2, <5>1
        <5>3. to = h0
          BY <3>2, <5>2
        <5>4. QED
          BY <4>3, <5>2, <5>3
      <4>4. CASE h # to
        BY <1>2, <2>3, <4>1, <4>2, <4>4
      <4>5. QED
        BY <4>3, <4>4
    <3>5. \A f \in Slots : f < n => r.tab[f].srv # NoService
      BY <1>1, <3>1, <3>3
    <3>6. QED
      BY <3>4, <3>5 DEF Place
  <2>5. CASE tab1[n].srv # w
    <3>1. \A k \in Slots : tab1[k].srv # w
      BY <1>3, <2>5 DEF Place
    <3>2. \A k \in Slots : r.tab[k].srv # w
      BY <1>2, <2>1, <2>3, <3>1
    <3>3. QED
      BY <3>2 DEF Place
  <2>6. QED
    BY <2>4, <2>5
<1>8. QED
  BY <1>6, <1>7

(***************************************************************************)
(* The rate limiter.                                                        *)
(***************************************************************************)

LEMMA RateTyped ==
    ASSUME RateTypeOK
    PROVE  /\ rlecmh \in Tables /\ asked \in [Services -> SlotAges] /\ cooldown \in BOOLEAN
           /\ cooldownstate \in 0..2 /\ coolAge \in CoolAges /\ raced \in BOOLEAN
           /\ found \in [srv : Services, slot : Slots] \cup {NothingFound}
           /\ coolAge \in Nat /\ coolAge <= Delay + Cooling + 1
           /\ \A s \in Services : asked[s] \in Nat /\ asked[s] <= Window + 1
           /\ \A h \in Slots : rlecmh[h].age \in Nat /\ rlecmh[h].age <= Window + 1
<1>1. /\ rlecmh \in Tables /\ asked \in [Services -> SlotAges] /\ cooldown \in BOOLEAN
      /\ cooldownstate \in 0..2 /\ coolAge \in CoolAges /\ raced \in BOOLEAN
      /\ found \in [srv : Services, slot : Slots] \cup {NothingFound}
  BY DEF RateTypeOK, Tables
<1>2. coolAge \in Nat /\ coolAge <= Delay + Cooling + 1
  BY <1>1, RateConstants DEF CoolAges
<1>3. \A s \in Services : asked[s] \in SlotAges
  BY <1>1
<1>4. \A h \in Slots : rlecmh[h].age \in SlotAges
  BY <1>1, TakenSlots
<1>5. QED
  BY <1>1, <1>2, <1>3, <1>4, RateConstants

\* What ecm_ratelimit_check has done when it comes to search for a slot.
Searched == IF Starts THEN Sorted ELSE rlecmh

LEMMA Prepared ==
    ASSUME RateIInv
    PROVE  /\ Searched \in Tables /\ Unique(Searched) /\ (Limited(CoolState) => Within(Searched))
           /\ \A h \in Slots : Searched[h].srv # NoService => Searched[h] = rlecmh[h]
           /\ \A h \in Slots : ~Starts => Searched[h] = rlecmh[h]
           /\ CoolState \in 0..2 /\ Restarted(CoolState, coolAge) \in CoolAges
           /\ cooldown => /\ CoolState = 1 => Restarted(CoolState, coolAge) <= Cooling
                          /\ CoolState = 2 => Restarted(CoolState, coolAge) <= Delay
           /\ ~WorkerIdle => CoolState = cooldownstate /\ Restarted(CoolState, coolAge) = coolAge
                             /\ ~Starts
<1>1. /\ rlecmh \in Tables /\ cooldown \in BOOLEAN /\ cooldownstate \in 0..2 /\ coolAge \in CoolAges
      /\ Unique(rlecmh) /\ (Limited(cooldownstate) => Within(rlecmh))
  BY DEF RateIInv, RateTypeOK, Tables
<1>2. /\ Delay \in Nat /\ Cooling \in Nat /\ coolAge \in Nat /\ 0 \in CoolAges
  BY <1>1, RateConstants DEF CoolAges
<1>3. /\ ~cooldown => CoolState = cooldownstate
      /\ cooldown /\ cooldownstate = 0 => CoolState = 0
      /\ cooldown /\ cooldownstate = 1 => CoolState = IF coolAge > Cooling THEN 0 ELSE 1
      /\ cooldown /\ cooldownstate = 2 => IF coolAge > Delay THEN CoolState \in {0, 1} ELSE CoolState = 2
  BY DEF CoolState
<1>4. Starts => cooldown /\ cooldownstate = 2 /\ CoolState = 1
  BY <1>3 DEF Starts
<1>5. CoolState \in 0..2 /\ Restarted(CoolState, coolAge) \in CoolAges
  BY <1>1, <1>2, <1>3 DEF Restarted
<1>6. cooldown => /\ CoolState = 1 => Restarted(CoolState, coolAge) <= Cooling
                  /\ CoolState = 2 => Restarted(CoolState, coolAge) <= Delay
  BY <1>1, <1>2, <1>3, <1>4 DEF Restarted
<1>7. ~WorkerIdle => CoolState = cooldownstate /\ Restarted(CoolState, coolAge) = coolAge /\ ~Starts
  <2>1. ~WorkerIdle => Settled
    BY DEF RateIInv, Finding
  <2>2. Settled => CoolState = cooldownstate
    BY <1>1, <1>2, <1>3 DEF Settled
  <2>3. CoolState = cooldownstate => ~Starts /\ Restarted(CoolState, coolAge) = coolAge
    BY DEF Starts, Restarted
  <2>4. QED
    BY <2>1, <2>2, <2>3
<1>8. /\ Sorted \in Tables
      /\ \A h \in Slots : Sorted[h] = IF h <= Limit THEN rlecmh[h] ELSE Free
  BY <1>1, RateConstants DEF Sorted, Tables
<1>9. /\ Searched \in Tables
      /\ \A h \in Slots : Searched[h].srv # NoService => Searched[h] = rlecmh[h]
      /\ \A h \in Slots : ~Starts => Searched[h] = rlecmh[h]
  BY <1>1, <1>8, RateConstants DEF Searched
<1>10. Unique(Searched)
  BY <1>1, <1>9 DEF Unique
<1>11. Limited(CoolState) => Within(Searched)
  <2>1. CASE Starts
    <3>1. \A h \in Taken(Sorted) : h <= Limit
      BY <1>8, TakenSlots, RateConstants
    <3>2. QED
      BY <2>1, <3>1 DEF Searched, Within
  <2>2. CASE ~Starts
    <3>1. Limited(CoolState) => Limited(cooldownstate)
      BY <1>1, <1>3, <2>2 DEF Limited, Starts
    <3>2. QED
      BY <1>1, <2>2, <3>1 DEF Searched
  <2>3. QED
    BY <2>1, <2>2
<1>12. QED
  BY <1>5, <1>6, <1>7, <1>9, <1>10, <1>11

\* A check as a whole: what it leaves in the slots and which slot it finds.
LEMMA Checked ==
    ASSUME RateIInv, NEW s \in Services
    PROVE  /\ Check(s).tab \in Tables /\ Check(s).slot \in Slots \cup {NoSlot}
           /\ \A h \in Slots : Check(s).tab[h].srv # NoService =>
                 \E k \in Slots : Check(s).tab[h] = rlecmh[k] /\ rlecmh[k].age < Window
           /\ \A k \in Slots : Searched[k].srv # NoService /\ rlecmh[k].age < Window =>
                 \E h \in Slots : Check(s).tab[h] = rlecmh[k]
           /\ Unique(Check(s).tab) /\ (Limited(CoolState) => Within(Check(s).tab))
           /\ (\E k \in Slots : Searched[k].srv = s /\ rlecmh[k].age < Window) => Check(s).slot # NoSlot
           /\ Check(s).slot # NoSlot => /\ Place(Check(s).tab, s, Check(s).slot)
                                        /\ Check(s).tab[Check(s).slot].srv \in {NoService, s}
                                        /\ Limited(CoolState) => Check(s).slot <= Limit
<1>1. Check(s) = FindSpace(Searched, CoolState, s)
  BY DEF Check, Searched
<1>2. /\ Searched \in Tables /\ Unique(Searched) /\ (Limited(CoolState) => Within(Searched))
      /\ \A h \in Slots : Searched[h].srv # NoService => Searched[h] = rlecmh[h]
  BY Prepared
<1>3. s # NoService
  BY RateConstants
<1> DEFINE r == Check(s)
<1>4. /\ r.tab \in Tables /\ r.slot \in Slots \cup {NoSlot}
      /\ \A h \in Slots : r.tab[h].srv # NoService =>
            \E k \in Slots : r.tab[h] = Searched[k] /\ Searched[k].age < Window
      /\ \A k \in Slots : Searched[k].srv # NoService /\ Searched[k].age < Window =>
            \E h \in Slots : r.tab[h] = Searched[k]
      /\ Unique(r.tab) /\ (Limited(CoolState) => Within(r.tab))
      /\ (\E k \in Slots : Searched[k].srv = s /\ Searched[k].age < Window) => r.slot # NoSlot
      /\ r.slot # NoSlot => /\ Place(r.tab, s, r.slot)
                            /\ r.tab[r.slot].srv \in {NoService, s}
                            /\ Limited(CoolState) => r.slot <= Limit
  BY <1>1, <1>2, SpaceFound
<1> HIDE DEF r
<1>5. \A h \in Slots : r.tab[h].srv # NoService => \E k \in Slots : r.tab[h] = rlecmh[k] /\ rlecmh[k].age < Window
  <2>1. SUFFICES ASSUME NEW h \in Slots, r.tab[h].srv # NoService
                 PROVE  \E k \in Slots : r.tab[h] = rlecmh[k] /\ rlecmh[k].age < Window
    OBVIOUS
  <2>2. PICK k \in Slots : r.tab[h] = Searched[k] /\ Searched[k].age < Window
    BY <1>4, <2>1
  <2>3. Searched[k] = rlecmh[k]
    BY <1>2, <2>1, <2>2
  <2>4. QED
    BY <2>2, <2>3
<1>6. /\ \A k \in Slots : Searched[k].srv # NoService /\ rlecmh[k].age < Window =>
            \E h \in Slots : r.tab[h] = rlecmh[k]
      /\ (\E k \in Slots : Searched[k].srv = s /\ rlecmh[k].age < Window) => r.slot # NoSlot
  BY <1>2, <1>3, <1>4
<1>7. QED
  BY <1>4, <1>5, <1>6 DEF r

\* Who lost its slot to the limit stays among those, as the limit goes off and on.
LEMMA LostStays ==
    ASSUME RateIInv, NEW s \in Services,
           cooldownstate' = CoolState, coolAge' = Restarted(CoolState, coolAge), UNCHANGED <<cooldown, asked>>
    PROVE  (Lost(s) \/ (Starts /\ cooldown) => Lost(s)') /\ (Starts => cooldown)
<1>1. /\ cooldown \in BOOLEAN /\ cooldownstate \in 0..2 /\ coolAge \in Nat /\ asked[s] \in Nat /\ Cooling \in Nat
  BY RateTyped, RateConstants DEF RateIInv
<1>2. /\ ~cooldown => CoolState = cooldownstate
      /\ cooldown /\ cooldownstate = 0 => CoolState = 0
      /\ cooldown /\ cooldownstate = 1 => CoolState = IF coolAge > Cooling THEN 0 ELSE 1
  BY DEF CoolState
<1>3. Starts => cooldown /\ CoolState = 1
  BY <1>2 DEF Starts
<1>4. CASE Starts
  <2>1. cooldownstate' = 1 /\ coolAge' = 0
    BY <1>3, <1>4 DEF Restarted
  <2>2. QED
    BY <1>1, <1>3, <2>1 DEF Lost
<1>5. CASE ~Starts /\ Lost(s)
  <2>1. cooldown
    BY <1>5 DEF Lost
  <2>2. CASE cooldownstate = 1
    <3>1. asked[s] >= coolAge
      BY <1>5, <2>2 DEF Lost
    <3>2. CASE CoolState = 1
      <4>1. coolAge' = coolAge /\ cooldownstate' = 1
        BY <1>5, <2>2, <3>2 DEF Restarted
      <4>2. QED
        BY <2>1, <3>1, <4>1 DEF Lost
    <3>3. CASE CoolState # 1
      <4>1. coolAge > Cooling
        BY <1>2, <2>1, <2>2, <3>3
      <4>2. asked[s] > Cooling /\ cooldownstate' # 1
        BY <1>1, <3>1, <3>3, <4>1
      <4>3. QED
        BY <2>1, <4>2 DEF Lost
    <3>4. QED
      BY <3>2, <3>3
  <2>3. CASE cooldownstate # 1
    <3>1. asked[s] > Cooling
      BY <1>5, <2>3 DEF Lost
    <3>2. CoolState # 1
      <4>1. cooldownstate = 2 /\ CoolState = 1 => Starts
        BY DEF Starts
      <4>2. QED
        BY <1>1, <1>2, <1>5, <2>1, <2>3, <4>1
    <3>3. QED
      BY <2>1, <3>1, <3>2 DEF Lost
  <2>4. QED
    BY <2>2, <2>3
<1>6. QED
  BY <1>3, <1>4, <1>5

\* What every check keeps, whoever makes it.
LEMMA StepCheck ==
    ASSUME RateIInv, NEW s \in Services,
           rlecmh' = Check(s).tab, cooldownstate' = CoolState, coolAge' = Restarted(CoolState, coolAge),
           UNCHANGED <<cooldown, asked>>, raced => raced'
    PROVE  /\ Unique(rlecmh)' /\ (Limited(cooldownstate) => Within(rlecmh))' /\ Backed' /\ Holding'
           /\ Settled'
<1>t. rlecmh \in Tables /\ asked \in [Services -> SlotAges] /\ cooldown \in BOOLEAN
  BY DEF RateIInv, RateTypeOK, Tables
<1> DEFINE tab == Check(s).tab
<1>1. /\ tab \in Tables
      /\ \A h \in Slots : tab[h].srv # NoService => \E k \in Slots : tab[h] = rlecmh[k] /\ rlecmh[k].age < Window
      /\ \A k \in Slots : Searched[k].srv # NoService /\ rlecmh[k].age < Window => \E h \in Slots : tab[h] = rlecmh[k]
      /\ Unique(tab) /\ (Limited(CoolState) => Within(tab))
  BY Checked
<1> HIDE DEF tab
<1>2. rlecmh' = tab
  BY DEF tab
<1>3. Unique(rlecmh)'
  BY <1>1, <1>2 DEF Unique
<1>4. (Limited(cooldownstate) => Within(rlecmh))'
  <2>1. Limited(cooldownstate)' => Limited(CoolState)
    BY DEF Limited
  <2>2. Within(tab) => Within(rlecmh)'
    BY <1>2 DEF Within, Taken, FreeSlots
  <2>3. QED
    BY <1>1, <2>1, <2>2
<1>5. Backed'
  <2>1. SUFFICES ASSUME NEW h \in Slots, tab[h].srv # NoService PROVE asked[tab[h].srv] <= tab[h].age
    BY <1>2 DEF Backed, Taken, FreeSlots
  <2>2. PICK k \in Slots : tab[h] = rlecmh[k]
    BY <1>1, <2>1
  <2>3. k \in Taken(rlecmh)
    BY <1>t, <2>1, <2>2, TakenSlots
  <2>4. QED
    BY <2>2, <2>3 DEF RateIInv, Backed
<1>6. Holding'
  <2>1. SUFFICES ASSUME ~raced, NEW w \in Services, asked[w] < Window
                 PROVE  (\E h \in Slots : tab[h].srv = w /\ tab[h].age <= asked[w]) \/ Lost(w)'
    BY <1>2 DEF Holding
  <2>2. CASE Lost(w)
    BY <2>2, LostStays
  <2>3. CASE ~Lost(w)
    <3>1. PICK k \in Slots : rlecmh[k].srv = w /\ rlecmh[k].age <= asked[w]
      BY <2>1, <2>3 DEF RateIInv, Holding
    <3>2. rlecmh[k].age < Window
      <4>1. rlecmh[k].age \in Nat /\ asked[w] \in Nat /\ Window \in Nat
        BY RateTyped, RateConstants DEF RateIInv
      <4>2. QED
        BY <2>1, <3>1, <4>1
    <3>3. CASE Searched[k].srv # NoService
      BY <1>1, <3>1, <3>2, <3>3
    <3>4. CASE Searched[k].srv = NoService
      <4>1. w # NoService
        BY RateConstants
      <4>2. Starts
        BY <3>1, <3>4, <4>1, Prepared
      <4>3. QED
        BY <4>2, LostStays
    <3>5. QED
      BY <3>3, <3>4
  <2>4. QED
    BY <2>2, <2>3
<1>7. Settled'
  BY Prepared DEF Settled
<1>8. QED
  BY <1>3, <1>4, <1>5, <1>6, <1>7

LEMMA RateInitIInv == RateInit => RateIInv
<1> SUFFICES ASSUME RateInit PROVE RateIInv
  OBVIOUS
<1>1. \A h \in Slots : rlecmh[h] = Free
  BY DEF RateInit
<1>2. \A s \in Services : asked[s] = Window + 1 /\ ~(Window + 1 < Window) /\ Window + 1 \in SlotAges
  BY RateConstants DEF RateInit, SlotAges
<1>3. rlecmh \in Tables /\ 0 \in CoolAges
  BY <1>1, RateConstants DEF RateInit, Tables, CoolAges
<1>4. RateTypeOK
  <2>1. asked \in [Services -> SlotAges]
    BY <1>2 DEF RateInit
  <2>2. rlecmh \in [Slots -> [srv : Services \cup {NoService}, age : SlotAges]]
    BY <1>3 DEF Tables
  <2>3. cooldown \in BOOLEAN /\ cooldownstate \in 0..2 /\ coolAge \in CoolAges
    BY <1>3 DEF RateInit
  <2>4. found = NothingFound /\ raced \in BOOLEAN
    BY DEF RateInit
  <2>5. QED
    BY <2>1, <2>2, <2>3, <2>4 DEF RateTypeOK
<1>5. Unique(rlecmh) /\ Within(rlecmh) /\ Backed
  BY <1>1, <1>3, TakenSlots, RateConstants DEF Unique, Within, Backed
<1>6. Finding /\ Holding
  BY <1>2 DEF RateInit, Finding, WorkerIdle, Holding
<1>7. QED
  BY <1>4, <1>5, <1>6 DEF RateIInv

LEMMA RateStepIInv == RateIInv /\ [RateNext]_rateVars => RateIInv'
<1> SUFFICES ASSUME RateIInv, [RateNext]_rateVars PROVE RateIInv'
  OBVIOUS
<1>t. /\ rlecmh \in Tables /\ asked \in [Services -> SlotAges] /\ cooldown \in BOOLEAN
      /\ cooldownstate \in 0..2 /\ coolAge \in CoolAges /\ raced \in BOOLEAN
      /\ found \in [srv : Services, slot : Slots] \cup {NothingFound}
      /\ ~WorkerIdle => found.srv \in Services /\ found.slot \in Slots
  BY DEF RateIInv, RateTypeOK, Tables, WorkerIdle
<1>1. ASSUME NEW s \in Services, Refuse(s) PROVE RateIInv'
  <2>1. /\ rlecmh' = Check(s).tab /\ cooldownstate' = CoolState /\ coolAge' = Restarted(CoolState, coolAge)
        /\ UNCHANGED <<cooldown, found, asked, raced>> /\ WorkerIdle
    BY <1>1 DEF Refuse
  <2>2. /\ Unique(rlecmh)' /\ (Limited(cooldownstate) => Within(rlecmh))' /\ Backed' /\ Holding'
    BY <2>1, StepCheck
  <2>3. Check(s).tab \in Tables /\ CoolState \in 0..2 /\ Restarted(CoolState, coolAge) \in CoolAges
    BY Checked, Prepared
  <2>4. RateTypeOK'
    BY <1>t, <2>1, <2>3 DEF RateTypeOK, Tables
  <2>5. Finding'
    BY <2>1 DEF Finding, WorkerIdle
  <2>6. QED
    BY <2>2, <2>4, <2>5 DEF RateIInv
<1>2. ASSUME NEW s \in Services, Admit(s) PROVE RateIInv'
  <2> DEFINE tab == Check(s).tab
             n == Check(s).slot
  <2>1. /\ rlecmh' = tab /\ cooldownstate' = CoolState /\ coolAge' = Restarted(CoolState, coolAge)
        /\ UNCHANGED <<cooldown, asked, raced>> /\ n # NoSlot /\ found' = [srv |-> s, slot |-> n]
    BY <1>2 DEF Admit
  <2>2. /\ Unique(rlecmh)' /\ (Limited(cooldownstate) => Within(rlecmh))' /\ Backed' /\ Holding' /\ Settled'
    BY <2>1, StepCheck
  <2>3. /\ tab \in Tables /\ CoolState \in 0..2 /\ Restarted(CoolState, coolAge) \in CoolAges
        /\ \A h \in Slots : tab[h].srv # NoService => \E k \in Slots : tab[h] = rlecmh[k] /\ rlecmh[k].age < Window
        /\ n \in Slots /\ Place(tab, s, n) /\ tab[n].srv \in {NoService, s}
        /\ Limited(CoolState) => n <= Limit
    BY <2>1, Checked, Prepared
  <2> HIDE DEF tab, n
  <2>4. RateTypeOK'
    BY <1>t, <2>1, <2>3 DEF RateTypeOK, Tables
  <2>5. Finding'
    <3>1. found'.srv = s /\ found'.slot = n
      BY <2>1
    <3>2. Limited(cooldownstate)' => n <= Limit
      BY <2>1, <2>3 DEF Limited
    <3>3. \A h \in Taken(tab) : tab[h].age < Window
      BY <2>3, TakenSlots
    <3>4. Taken(rlecmh)' = Taken(tab) /\ (Place(tab, s, n) => Place(rlecmh, found.srv, found.slot)')
      BY <2>1, <3>1 DEF Taken, FreeSlots, Place
    <3>5. QED
      BY <2>1, <2>2, <2>3, <3>1, <3>2, <3>3, <3>4 DEF Finding
  <2>6. QED
    BY <2>2, <2>4, <2>5 DEF RateIInv
<1>3. ASSUME NEW s \in Services, ClientCheck(s) PROVE RateIInv'
  <2> DEFINE tab == Check(s).tab
  <2>1. /\ rlecmh' = tab /\ cooldownstate' = CoolState /\ coolAge' = Restarted(CoolState, coolAge)
        /\ UNCHANGED <<cooldown, found, asked>> /\ raced' = (raced \/ (~WorkerIdle /\ rlecmh' # rlecmh))
    BY <1>3 DEF ClientCheck
  <2>2. /\ Unique(rlecmh)' /\ (Limited(cooldownstate) => Within(rlecmh))' /\ Backed' /\ Holding' /\ Settled'
    BY <2>1, StepCheck
  <2>3. /\ tab \in Tables /\ CoolState \in 0..2 /\ Restarted(CoolState, coolAge) \in CoolAges
        /\ \A h \in Slots : tab[h].srv # NoService => \E k \in Slots : tab[h] = rlecmh[k] /\ rlecmh[k].age < Window
    BY Checked, Prepared
  <2>4. ~WorkerIdle => Place(tab, found.srv, found.slot)
    <3>1. SUFFICES ASSUME ~WorkerIdle PROVE Place(tab, found.srv, found.slot)
      OBVIOUS
    <3>2. ~Starts /\ CoolState = cooldownstate
      BY <3>1, Prepared
    <3>3. Check(s) = FindSpace(rlecmh, CoolState, s)
      BY <3>2 DEF Check
    <3>4. /\ Unique(rlecmh) /\ (Limited(CoolState) => Within(rlecmh))
          /\ \A h \in Taken(rlecmh) : rlecmh[h].age < Window
          /\ Place(rlecmh, found.srv, found.slot)
      BY <3>1, <3>2 DEF RateIInv, Finding
    <3>5. QED
      BY <1>t, <3>1, <3>3, <3>4, PlaceKept
  <2> HIDE DEF tab
  <2>5. RateTypeOK'
    BY <1>t, <2>1, <2>3 DEF RateTypeOK, Tables
  <2>6. Finding'
    <3>1. SUFFICES ASSUME ~WorkerIdle PROVE Finding'
      BY <2>1 DEF Finding, WorkerIdle
    <3>2. CoolState = cooldownstate /\ (Limited(cooldownstate) => found.slot <= Limit)
      BY <3>1, Prepared DEF RateIInv, Finding
    <3>3. Limited(cooldownstate)' => found.slot <= Limit
      BY <2>1, <3>2 DEF Limited
    <3>4. \A h \in Taken(tab) : tab[h].age < Window
      BY <2>3, TakenSlots
    <3>5. Taken(rlecmh)' = Taken(tab) /\ (Place(tab, found.srv, found.slot) => Place(rlecmh, found.srv, found.slot)')
      BY <2>1 DEF Taken, FreeSlots, Place
    <3>6. ~raced' => rlecmh'[found.slot].srv \in {NoService, found.srv}
      BY <2>1, <3>1 DEF RateIInv, Finding
    <3>7. QED
      BY <2>1, <2>2, <2>4, <3>1, <3>3, <3>4, <3>5, <3>6 DEF Finding
  <2>7. QED
    BY <2>2, <2>5, <2>6 DEF RateIInv
<1>4. CASE Register
  <2> DEFINE w == found.srv
             n == found.slot
  <2>1. /\ ~WorkerIdle /\ found' = NothingFound /\ UNCHANGED <<cooldown, raced>>
        /\ rlecmh' = [rlecmh EXCEPT ![n] = [srv |-> w, age |-> 0]]
        /\ asked' = [asked EXCEPT ![w] = 0]
        /\ \/ cooldownstate' = cooldownstate /\ coolAge' = coolAge
           \/ cooldown /\ cooldownstate = 0 /\ cooldownstate' = 2 /\ coolAge' = 0
    BY <1>4 DEF Register
  <2>2. /\ Limited(cooldownstate) => n <= Limit
        /\ Place(rlecmh, w, n) /\ (~raced => rlecmh[n].srv \in {NoService, w})
        /\ w \in Services /\ n \in Slots /\ w # NoService
    BY <1>t, <2>1, RateConstants DEF RateIInv, Finding
  <2> HIDE DEF w, n
  <2>3. /\ \A h \in Slots : rlecmh'[h] = IF h = n THEN [srv |-> w, age |-> 0] ELSE rlecmh[h]
        /\ \A s \in Services : asked'[s] = IF s = w THEN 0 ELSE asked[s]
        /\ rlecmh' \in Tables /\ asked' \in [Services -> SlotAges] /\ 0 \in CoolAges
    BY <1>t, <2>1, <2>2, RateConstants DEF Tables, CoolAges
  <2>4. \A h \in Slots : h # n => rlecmh[h].srv # w
    BY <2>2 DEF Place
  <2>5. RateTypeOK'
    BY <1>t, <2>1, <2>3 DEF RateTypeOK, Tables
  <2>6. Unique(rlecmh)'
    BY <2>3, <2>4 DEF RateIInv, Unique
  <2>7. (Limited(cooldownstate) => Within(rlecmh))'
    <3>1. Limited(cooldownstate)' => Limited(cooldownstate)
      BY <1>t, <2>1 DEF Limited
    <3>2. Limited(cooldownstate) => \A h \in Slots : rlecmh'[h].srv # NoService => h <= Limit
      BY <1>t, <2>2, <2>3, TakenSlots DEF RateIInv, Within
    <3>3. QED
      BY <2>3, <3>1, <3>2, TakenSlots DEF Within
  <2>8. Backed'
    <3>1. SUFFICES ASSUME NEW h \in Slots, rlecmh'[h].srv # NoService
                   PROVE  asked'[rlecmh'[h].srv] <= rlecmh'[h].age
      BY <2>3, TakenSlots DEF Backed
    <3>2. CASE h = n
      BY <2>2, <2>3, <3>2
    <3>3. CASE h # n
      <4>1. rlecmh'[h] = rlecmh[h] /\ rlecmh[h].srv # w /\ h \in Taken(rlecmh) /\ rlecmh[h].srv \in Services
        BY <1>t, <2>3, <2>4, <3>1, <3>3, TakenSlots
      <4>2. QED
        BY <2>3, <4>1 DEF RateIInv, Backed
    <3>4. QED
      BY <3>2, <3>3
  <2>9. Finding'
    BY <2>1 DEF Finding, WorkerIdle
  <2>10. Holding'
    <3>1. SUFFICES ASSUME ~raced, NEW s \in Services, asked'[s] < Window
                   PROVE  (\E h \in Slots : rlecmh'[h].srv = s /\ rlecmh'[h].age <= asked'[s]) \/ Lost(s)'
      BY <2>1 DEF Holding
    <3>2. CASE s = w
      BY <2>2, <2>3, <3>2
    <3>3. CASE s # w
      <4>1. asked'[s] = asked[s]
        BY <2>3, <3>3
      <4>2. CASE Lost(s)
        BY <1>t, <2>1, <4>1, <4>2 DEF Lost
      <4>3. CASE ~Lost(s)
        <5>1. PICK h \in Slots : rlecmh[h].srv = s /\ rlecmh[h].age <= asked[s]
          BY <3>1, <4>1, <4>3 DEF RateIInv, Holding
        <5>2. h # n
          BY <2>2, <3>1, <3>3, <5>1, RateConstants
        <5>3. QED
          BY <2>3, <4>1, <5>1, <5>2
      <4>4. QED
        BY <4>2, <4>3
    <3>4. QED
      BY <3>2, <3>3
  <2>11. QED
    BY <2>5, <2>6, <2>7, <2>8, <2>9, <2>10 DEF RateIInv
<1>5. CASE RateTick
  <2>1. /\ WorkerIdle /\ UNCHANGED <<cooldown, cooldownstate, found, raced>>
        /\ coolAge' = IF cooldownstate = 0 \/ coolAge = Delay + Cooling + 1 THEN coolAge ELSE coolAge + 1
        /\ rlecmh' = [h \in Slots |-> IF rlecmh[h] = Free \/ rlecmh[h].age > Window THEN rlecmh[h]
                                      ELSE [rlecmh[h] EXCEPT !.age = @ + 1]]
        /\ asked' = [s \in Services |-> IF asked[s] > Window THEN asked[s] ELSE asked[s] + 1]
    BY <1>5 DEF RateTick
  <2>2. /\ \A h \in Slots : /\ rlecmh[h] \in [srv : Services \cup {NoService}, age : SlotAges]
                            /\ rlecmh[h].age \in Nat /\ rlecmh[h].age <= Window + 1
        /\ \A s \in Services : asked[s] \in Nat /\ asked[s] <= Window + 1
        /\ Window \in Nat /\ Delay \in Nat /\ Cooling \in Nat /\ coolAge \in Nat /\ coolAge <= Delay + Cooling + 1
    <3>1. \A h \in Slots : rlecmh[h] \in [srv : Services \cup {NoService}, age : SlotAges]
      BY <1>t DEF Tables
    <3>2. QED
      BY <3>1, RateTyped, RateConstants DEF RateIInv
  <2>3. /\ coolAge' \in CoolAges /\ coolAge' <= coolAge + 1
    BY <2>1, <2>2, SMTT(30) DEF CoolAges
  <2>4. \A s \in Services : /\ asked'[s] \in SlotAges
                            /\ asked'[s] = IF asked[s] > Window THEN asked[s] ELSE asked[s] + 1
    BY <2>1, <2>2 DEF SlotAges
  <2>5. ASSUME NEW h \in Slots
        PROVE  /\ rlecmh'[h] \in [srv : Services \cup {NoService}, age : SlotAges]
               /\ rlecmh'[h].srv = rlecmh[h].srv
               /\ rlecmh[h].srv # NoService =>
                     rlecmh'[h].age = IF rlecmh[h].age > Window THEN rlecmh[h].age ELSE rlecmh[h].age + 1
               /\ rlecmh'[h].age <= rlecmh[h].age + 1
    <3>1. rlecmh'[h] = IF rlecmh[h] = Free \/ rlecmh[h].age > Window THEN rlecmh[h]
                       ELSE [rlecmh[h] EXCEPT !.age = @ + 1]
      BY <2>1
    <3>2. CASE rlecmh[h] = Free \/ rlecmh[h].age > Window
      BY <2>2, <3>1, <3>2, RateConstants
    <3>3. CASE ~(rlecmh[h] = Free \/ rlecmh[h].age > Window)
      <4>1. rlecmh[h].age + 1 \in SlotAges
        BY <2>2, <3>3 DEF SlotAges
      <4>2. /\ [rlecmh[h] EXCEPT !.age = @ + 1] \in [srv : Services \cup {NoService}, age : SlotAges]
            /\ [rlecmh[h] EXCEPT !.age = @ + 1].srv = rlecmh[h].srv
            /\ [rlecmh[h] EXCEPT !.age = @ + 1].age = rlecmh[h].age + 1
        BY <2>2, <4>1
      <4>3. QED
        BY <2>2, <3>1, <3>3, <4>2
    <3>4. QED
      BY <3>2, <3>3
  <2>6. rlecmh' \in Tables /\ asked' \in [Services -> SlotAges]
    <3>1. rlecmh' = [h \in Slots |-> rlecmh'[h]] /\ asked' = [s \in Services |-> asked'[s]]
      BY <2>1
    <3>2. QED
      BY <2>4, <2>5, <3>1 DEF Tables
  <2>7. RateTypeOK'
    BY <1>t, <2>1, <2>3, <2>6 DEF RateTypeOK, Tables
  <2>8. Unique(rlecmh)' /\ (Limited(cooldownstate) => Within(rlecmh))'
    <3>1. Unique(rlecmh)'
      BY <2>5 DEF RateIInv, Unique
    <3>2. Limited(cooldownstate)' => Limited(cooldownstate)
      BY <2>1 DEF Limited
    <3>3. Limited(cooldownstate) => \A h \in Slots : rlecmh'[h].srv # NoService => h <= Limit
      BY <1>t, <2>5, TakenSlots DEF RateIInv, Within
    <3>4. QED
      BY <2>6, <3>1, <3>2, <3>3, TakenSlots DEF Within
  <2>9. Backed'
    <3>1. SUFFICES ASSUME NEW h \in Slots, rlecmh'[h].srv # NoService
                   PROVE  asked'[rlecmh'[h].srv] <= rlecmh'[h].age
      BY <2>6, TakenSlots DEF Backed
    <3>2. rlecmh[h].srv \in Services /\ h \in Taken(rlecmh)
      BY <1>t, <2>5, <3>1, TakenSlots
    <3>3. asked[rlecmh[h].srv] <= rlecmh[h].age
      BY <3>2 DEF RateIInv, Backed
    <3>4. QED
      BY <2>2, <2>4, <2>5, <3>1, <3>2, <3>3
  <2>10. Finding'
    BY <2>1 DEF Finding, WorkerIdle
  <2>11. Holding'
    <3>1. SUFFICES ASSUME ~raced, NEW s \in Services, asked'[s] < Window
                   PROVE  (\E h \in Slots : rlecmh'[h].srv = s /\ rlecmh'[h].age <= asked'[s]) \/ Lost(s)'
      BY <2>1 DEF Holding
    <3>2. asked[s] < Window /\ asked'[s] = asked[s] + 1
      BY <2>2, <2>4, <3>1
    <3>3. CASE Lost(s)
      BY <2>1, <2>2, <2>3, <3>2, <3>3 DEF Lost
    <3>4. CASE ~Lost(s)
      <4>1. PICK h \in Slots : rlecmh[h].srv = s /\ rlecmh[h].age <= asked[s]
        BY <3>1, <3>2, <3>4 DEF RateIInv, Holding
      <4>2. rlecmh'[h].srv = s /\ rlecmh'[h].age <= asked'[s]
        <5>1. rlecmh'[h].age \in Nat
          BY <2>5, RateConstants
        <5>2. QED
          BY <2>2, <2>5, <3>2, <4>1, <5>1
      <4>3. QED
        BY <4>2
    <3>5. QED
      BY <3>3, <3>4
  <2>12. QED
    BY <2>7, <2>8, <2>9, <2>10, <2>11 DEF RateIInv
<1>6. CASE UNCHANGED rateVars
  BY <1>6 DEF rateVars, RateIInv, RateTypeOK, Unique, Limited, Within, Taken, FreeSlots, Backed, Finding, WorkerIdle,
     Settled, Place, Holding, Lost
<1>7. QED
  BY <1>1, <1>2, <1>3, <1>4, <1>5, <1>6 DEF RateNext

\* RateIInv is an inductive invariant.
LEMMA RateInvariant == RateSpec => []RateIInv
BY RateInitIInv, RateStepIInv, PTL DEF RateSpec

(***************************************************************************)
(* Theorems about the rate limiter.                                         *)
(***************************************************************************)

\* The variables of the rate limiter have their types.
THEOREM RateTypeCorrect == RateSpec => []RateTypeOK
<1>1. RateIInv => RateTypeOK
  BY DEF RateIInv
<1>2. QED
  BY <1>1, RateInvariant, PTL

\* The slots up to the limit.
LEMMA LimitSlots ==
    /\ IsFiniteSet(1..Limit) /\ Cardinality(1..Limit) = Limit
    /\ \A h : h \in 1..Limit <=> h \in Slots /\ h <= Limit
<1>1. 1 \in Int /\ Limit \in Int /\ Limit >= 1 /\ Limit <= MaxSlots /\ MaxSlots \in Nat
  BY LimitAssumption
<1>2. IsFiniteSet(1..Limit) /\ Cardinality(1..Limit) = Limit
  BY <1>1, FS_Interval
<1>3. \A h : h \in 1..Limit <=> h \in 1..MaxSlots /\ h <= Limit
  BY <1>1
<1>4. QED
  BY <1>2, <1>3 DEF Slots

\* Without cooldown each service asked for within the window has a slot up to the limit.
LEMMA HoldersFit ==
    ASSUME RateIInv, ~raced, ~cooldown
    PROVE  Cardinality({s \in Services : asked[s] < Window}) <= Limit
<1> DEFINE S == {s \in Services : asked[s] < Window}
           slotOf == [s \in S |-> CHOOSE h \in 1..Limit : rlecmh[h].srv = s]
<1>1. rlecmh \in Tables /\ Within(rlecmh) /\ Holding
  BY RateTyped DEF RateIInv, Limited
<1>2. \A s \in S : \E h \in 1..Limit : rlecmh[h].srv = s
  <2>1. SUFFICES ASSUME NEW s \in S PROVE \E h \in 1..Limit : rlecmh[h].srv = s
    OBVIOUS
  <2>2. PICK h \in Slots : rlecmh[h].srv = s
    BY <1>1, <2>1 DEF Holding, Lost
  <2>3. h \in Taken(rlecmh)
    BY <1>1, <2>2, TakenSlots, RateConstants
  <2>4. QED
    BY <1>1, <2>2, <2>3, LimitSlots DEF Within
<1>3. \A s \in S : slotOf[s] \in 1..Limit /\ rlecmh[slotOf[s]].srv = s
  BY <1>2
<1>4. slotOf \in [S -> 1..Limit]
  BY <1>3
<1> HIDE DEF S, slotOf
<1>5. slotOf \in Injection(S, 1..Limit)
  BY <1>3, <1>4 DEF Injection, IsInjective
<1>6. Cardinality(S) <= Limit
  BY <1>5, LimitSlots, FS_Injection
<1>7. QED
  BY <1>6 DEF S

\* The limit holds, whatever slots were cleared, moved and taken by other threads, unless
\* one was moved between the worker's check and its registration.
THEOREM LimitKept == RateSpec => []AtMostLimit
<1>1. RateIInv => AtMostLimit
  <2>1. SUFFICES ASSUME RateIInv PROVE AtMostLimit
    OBVIOUS
  <2>2. ASSUME cooldownstate = 1 PROVE Cardinality(Taken(InWindow(rlecmh))) <= Limit
    <3>1. rlecmh \in Tables /\ Within(rlecmh)
      BY <2>1, <2>2, RateTyped DEF RateIInv, Limited
    <3>2. /\ InWindow(rlecmh) \in Tables
          /\ \A h \in Slots : InWindow(rlecmh)[h] = Free \/ InWindow(rlecmh)[h] = rlecmh[h]
      BY <3>1, Released
    <3>3. \A h \in Taken(InWindow(rlecmh)) : h \in Taken(rlecmh)
      BY <3>1, <3>2, TakenSlots, RateConstants
    <3>4. Taken(InWindow(rlecmh)) \in SUBSET (1..Limit)
      BY <3>1, <3>2, <3>3, TakenSlots, LimitSlots DEF Within
    <3>5. IsFiniteSet(1..Limit) /\ Cardinality(1..Limit) = Limit
      BY LimitSlots
    <3>6. Cardinality(Taken(InWindow(rlecmh))) <= Cardinality(1..Limit)
      BY <3>4, <3>5, FS_Subset
    <3>7. QED
      BY <3>5, <3>6
  <2>3. ASSUME ~raced, ~cooldown PROVE Cardinality({s \in Services : asked[s] < Window}) <= Limit
    BY <2>1, <2>3, HoldersFit
  <2>4. ~raced => /\ ~cooldown => Cardinality({s \in Services : asked[s] < Window}) <= Limit
                  /\ cooldownstate = 1 => Cardinality(Taken(InWindow(rlecmh))) <= Limit
    BY <2>2, <2>3
  <2>5. QED
    BY <2>4 DEF AtMostLimit
<1>2. QED
  BY <1>1, RateInvariant, PTL

\* Whoever is asked for within the window is not refused, but for those that the limit of
\* the cooldown took the slot away.
THEOREM HoldersServed == RateSpec => []KeepsItsSlot
<1>1. RateIInv => KeepsItsSlot
  <2>1. SUFFICES ASSUME RateIInv, NEW s \in Services,
                        ~raced, WorkerIdle, asked[s] < Window, Check(s).slot = NoSlot, ~Starts
                 PROVE  Lost(s)
    BY DEF KeepsItsSlot, Lost
  <2>2. SUFFICES ASSUME NEW h \in Slots, rlecmh[h].srv = s, rlecmh[h].age <= asked[s] PROVE FALSE
    BY <2>1 DEF RateIInv, Holding
  <2>3. rlecmh[h].age \in Nat /\ asked[s] \in Nat /\ Window \in Nat
    BY <2>1, RateTyped, RateConstants DEF RateIInv
  <2>4. rlecmh[h].age < Window
    BY <2>1, <2>2, <2>3
  <2>5. Searched[h].srv = s
    BY <2>1, <2>2, Prepared
  <2>6. QED
    BY <2>1, <2>4, <2>5, Checked
<1>2. QED
  BY <1>1, RateInvariant, PTL

\* The services of the active slots are as many as these, and were asked for.
LEMMA ActiveAsked ==
    ASSUME RateIInv
    PROVE  /\ Cardinality(Active) \in Nat
           /\ Cardinality({s \in Services : asked[s] <= Window}) \in Nat
           /\ Cardinality(Active) <= Cardinality({s \in Services : asked[s] <= Window})
<1> DEFINE S == {s \in Services : asked[s] <= Window}
           service == [h \in Active |-> rlecmh[h].srv]
<1>1. rlecmh \in Tables /\ Unique(rlecmh) /\ Backed
  BY RateTyped DEF RateIInv
<1>2. \A h \in Active : /\ h \in Slots /\ h \in Taken(rlecmh) /\ rlecmh[h].srv \in Services
                        /\ rlecmh[h].age <= Window /\ asked[rlecmh[h].srv] <= rlecmh[h].age
  BY <1>1, TakenSlots DEF Active, Backed
<1>3. \A h \in Active : rlecmh[h].srv \in S
  <2>1. SUFFICES ASSUME NEW h \in Active PROVE asked[rlecmh[h].srv] <= Window
    BY <1>2
  <2>2. asked[rlecmh[h].srv] \in Nat /\ rlecmh[h].age \in Nat /\ Window \in Nat
    BY <1>2, RateTyped, RateConstants DEF RateIInv
  <2>3. QED
    BY <1>2, <2>2
<1>4. service \in [Active -> S]
  BY <1>3
<1>5. \A h, k \in Active : service[h] = service[k] => h = k
  BY <1>1, <1>2, RateConstants DEF Unique
<1>6. IsFiniteSet(S) /\ Cardinality(S) \in Nat
  <2>1. S \in SUBSET Services
    OBVIOUS
  <2> HIDE DEF S
  <2>2. IsFiniteSet(Services)
    BY ServicesAssumption
  <2>3. IsFiniteSet(S)
    BY <2>1, <2>2, FS_Subset
  <2>4. QED
    BY <2>3, FS_CardinalityType
<1> HIDE DEF S, service
<1>7. service \in Injection(Active, S)
  BY <1>4, <1>5 DEF Injection, IsInjective
<1>8. IsFiniteSet(Active) /\ Cardinality(Active) <= Cardinality(S)
  BY <1>6, <1>7, FS_Injection
<1>9. Cardinality(Active) \in Nat
  BY <1>8, FS_CardinalityType
<1>10. QED
  BY <1>6, <1>8, <1>9 DEF S

\* A check that turns the limit on has counted enough active slots.
LEMMA LimitStarts ==
    ASSUME RateIInv, CoolState = 1, cooldownstate # 1
    PROVE  Cardinality({s \in Services : asked[s] <= Window}) >= Limit
<1>1. ~(Cardinality(Active) < Limit)
  <2>1. cooldown /\ cooldownstate = 2 /\ coolAge > Delay
    BY DEF CoolState
  <2> DEFINE few == Cardinality(Active) < Limit
  <2>2. few => CoolState = 0
    BY <2>1 DEF CoolState
  <2>3. QED
    BY <2>2
<1>2. Limit \in Nat
  BY RateConstants
<1>3. QED
  BY <1>1, <1>2, ActiveAsked

\* The limit of the cooldown sets in under load only.
THEOREM LoadedWhenCool == RateSpec => CoolsUnderLoad
<1> DEFINE Loaded == Cardinality({s \in Services : asked[s] <= Window}) >= Limit
           Starting == cooldownstate' = 1 /\ cooldownstate # 1 => Loaded
<1>1. ASSUME RateIInv, [RateNext]_rateVars PROVE [Starting]_rateVars
  <2>1. SUFFICES ASSUME cooldownstate' = 1, cooldownstate # 1 PROVE Loaded
    OBVIOUS
  <2>2. ASSUME NEW s \in Services, Refuse(s) \/ Admit(s) \/ ClientCheck(s) PROVE Loaded
    <3>1. cooldownstate' = CoolState
      BY <2>2 DEF Refuse, Admit, ClientCheck
    <3>2. QED
      BY <1>1, <2>1, <3>1, LimitStarts
  <2>3. ASSUME Register PROVE FALSE
    BY <2>1, <2>3 DEF Register
  <2>4. ASSUME RateTick \/ UNCHANGED rateVars PROVE FALSE
    BY <2>1, <2>4 DEF RateTick, rateVars
  <2>5. QED
    BY <1>1, <2>2, <2>3, <2>4 DEF RateNext
<1>2. QED
  BY <1>1, RateInvariant, PTL DEF RateSpec, CoolsUnderLoad

(***************************************************************************)
(* Induction and recursion along a rank.                                    *)
(***************************************************************************)

\* What passes from the elements of lower rank to the next holds of all.
LEMMA AllByRank ==
    ASSUME NEW D, NEW rank \in [D -> Nat], NEW S,
           \A c \in D : (\A d \in D : rank[d] < rank[c] => d \in S) => c \in S
    PROVE  D \subseteq S
<1> SUFFICES ASSUME D \ S # {} PROVE FALSE
  OBVIOUS
<1> DEFINE T == {rank[c] : c \in D \ S}
<1>1. T \in SUBSET Nat /\ T # {}
  OBVIOUS
<1>2. PICK n \in T : \A k \in T : n <= k
  <2> HIDE DEF T
  <2>1. QED
    BY <1>1, LeastNumber
<1>3. PICK c \in D \ S : n = rank[c]
  OBVIOUS
<1>4. ASSUME NEW d \in D, rank[d] < rank[c], d \notin S PROVE FALSE
  <2>1. rank[d] \in T
    BY <1>4
  <2>2. rank[c] <= rank[d]
    BY <1>2, <1>3, <2>1
  <2>3. QED
    BY <1>4, <2>2
<1>5. QED
  BY <1>3, <1>4

\* F is what step says of the arguments of rank n at most.
Solves(F, n, D, rank, step) == \A c \in D : rank[c] <= n => F[c] = step[c][F]

\* The value of step depends on arguments of lower rank only.
Descends(D, T, rank, step) ==
    \A c \in D : \A F, G \in [D -> T] :
        (\A d \in D : rank[d] < rank[c] => F[d] = G[d]) => step[c][F] = step[c][G]

LEMMA SolutionsAgree ==
    ASSUME NEW D, NEW T, NEW rank \in [D -> Nat], NEW step, Descends(D, T, rank, step),
           NEW n \in Nat, NEW m \in Nat, NEW F \in [D -> T], NEW G \in [D -> T],
           Solves(F, n, D, rank, step), Solves(G, m, D, rank, step)
    PROVE  \A c \in D : rank[c] <= n /\ rank[c] <= m => F[c] = G[c]
<1> DEFINE S == {c \in D : rank[c] <= n /\ rank[c] <= m => F[c] = G[c]}
<1>1. ASSUME NEW c \in D, \A d \in D : rank[d] < rank[c] => d \in S PROVE c \in S
  <2>1. SUFFICES ASSUME rank[c] <= n, rank[c] <= m PROVE F[c] = G[c]
    OBVIOUS
  <2>2. \A d \in D : rank[d] < rank[c] => F[d] = G[d]
    BY <1>1, <2>1
  <2>3. step[c][F] = step[c][G]
    BY <2>2 DEF Descends
  <2>4. F[c] = step[c][F] /\ G[c] = step[c][G]
    BY <2>1 DEF Solves
  <2>5. QED
    BY <2>3, <2>4
<1> HIDE DEF S
<1>2. D \subseteq S
  BY <1>1, AllByRank
<1>3. QED
  BY <1>2 DEF S

LEMMA SolutionsExist ==
    ASSUME NEW D, NEW T, T # {}, NEW rank \in [D -> Nat], NEW step \in [D -> [[D -> T] -> T]],
           Descends(D, T, rank, step), NEW n \in Nat
    PROVE  \E F \in [D -> T] : Solves(F, n, D, rank, step)
<1> DEFINE Bad == {k \in Nat : ~\E F \in [D -> T] : Solves(F, k, D, rank, step)}
<1>1. SUFFICES ASSUME Bad # {} PROVE FALSE
  OBVIOUS
<1>2. PICK k \in Bad : \A j \in Bad : k <= j
  <2>1. Bad \in SUBSET Nat
    OBVIOUS
  <2> HIDE DEF Bad
  <2>2. QED
    BY <1>1, <2>1, LeastNumber
<1>3. \E F \in [D -> T] : \A c \in D : rank[c] < k => F[c] = step[c][F]
  <2>1. CASE k = 0
    <3>1. PICK x \in T : TRUE
      OBVIOUS
    <3>2. [c \in D |-> x] \in [D -> T]
      OBVIOUS
    <3>3. \A c \in D : ~(rank[c] < k)
      BY <2>1
    <3>4. QED
      BY <3>2, <3>3
  <2>2. CASE k # 0
    <3>1. k - 1 \in Nat /\ k - 1 \notin Bad
      BY <1>2, <2>2
    <3>2. PICK F \in [D -> T] : Solves(F, k - 1, D, rank, step)
      BY <3>1
    <3>3. \A c \in D : rank[c] < k => rank[c] <= k - 1
      OBVIOUS
    <3>4. QED
      BY <3>2, <3>3 DEF Solves
  <2>3. QED
    BY <2>1, <2>2
<1>4. PICK F \in [D -> T] : \A c \in D : rank[c] < k => F[c] = step[c][F]
  BY <1>3
<1> DEFINE G == [c \in D |-> step[c][F]]
<1>5. G \in [D -> T]
  OBVIOUS
<1>6. ASSUME NEW c \in D, rank[c] <= k PROVE G[c] = step[c][G]
  <2>1. \A d \in D : rank[d] < rank[c] => F[d] = G[d]
    BY <1>4, <1>6
  <2>2. step[c][F] = step[c][G]
    <3> HIDE DEF G
    <3>1. QED
      BY <1>5, <2>1 DEF Descends
  <2>3. QED
    BY <2>2
<1>7. Solves(G, k, D, rank, step)
  BY <1>6 DEF Solves
<1>8. QED
  BY <1>2, <1>5, <1>7

\* A recursive definition on D of a function to T, by step.
Recursive(D, T, rank, step) ==
    T # {} /\ rank \in [D -> Nat] /\ step \in [D -> [[D -> T] -> T]] /\ Descends(D, T, rank, step)

\* Some function has the value that step says of every argument.
LEMMA RecursionByRank ==
    ASSUME NEW D, NEW T, NEW rank, NEW step, Recursive(D, T, rank, step)
    PROVE  \E H \in [D -> T] : \A c \in D : H[c] = step[c][H]
<1>a. T # {} /\ rank \in [D -> Nat] /\ step \in [D -> [[D -> T] -> T]] /\ Descends(D, T, rank, step)
  BY DEF Recursive
<1> DEFINE Part(n) == CHOOSE F \in [D -> T] : Solves(F, n, D, rank, step)
<1>1. \A n \in Nat : Part(n) \in [D -> T] /\ Solves(Part(n), n, D, rank, step)
  BY <1>a, SolutionsExist
<1> DEFINE H == [c \in D |-> Part(rank[c])[c]]
<1> HIDE DEF Part
<1>2. H \in [D -> T]
  BY <1>a, <1>1
<1>3. ASSUME NEW c \in D PROVE H[c] = step[c][H]
  <2>1. rank[c] \in Nat /\ Part(rank[c]) \in [D -> T] /\ Solves(Part(rank[c]), rank[c], D, rank, step)
    BY <1>a, <1>1
  <2>2. ASSUME NEW d \in D, rank[d] < rank[c] PROVE Part(rank[c])[d] = H[d]
    <3>1. rank[d] \in Nat /\ Part(rank[d]) \in [D -> T] /\ Solves(Part(rank[d]), rank[d], D, rank, step)
      BY <1>a, <1>1
    <3>2. rank[d] <= rank[d] /\ rank[d] <= rank[c]
      BY <2>1, <2>2, <3>1
    <3>3. Part(rank[c])[d] = Part(rank[d])[d]
      BY <2>1, <3>1, <3>2, <1>a, SolutionsAgree
    <3>4. QED
      BY <3>3
  <2>3. step[c][Part(rank[c])] = step[c][H]
    <3> HIDE DEF H
    <3>1. QED
      BY <1>a, <1>2, <2>1, <2>2 DEF Descends
  <2>4. Part(rank[c])[c] = step[c][Part(rank[c])]
    BY <2>1 DEF Solves
  <2>5. QED
    BY <2>3, <2>4
<1>4. QED
  BY <1>2, <1>3

(***************************************************************************)
(* The sort.                                                                *)
(***************************************************************************)

Chains == Seq(CwEntry) \X Seq(CwEntry)

LEMMA FirstBefore ==
    ASSUME NEW S, NEW e \in S, NEW s \in Seq(S)
    PROVE  /\ <<e>> \o s \in Seq(S) /\ Range(<<e>> \o s) = {e} \cup Range(s)
           /\ Len(<<e>> \o s) = Len(s) + 1 /\ (<<e>> \o s)[1] = e
           /\ \A n \in 2..(Len(s) + 1) : (<<e>> \o s)[n] = s[n - 1]
<1>1. <<e>> \in Seq(S) /\ Range(<<e>>) = {e}
  BY DEF Range
<1>2. ASSUME NEW w \in Seq(S)
      PROVE  Range(w \o s) = Range(w) \cup Range(s)
  BY RangeConcatenation
<1>3. Len(s) \in Nat /\ Len(<<e>>) = 1 /\ <<e>>[1] = e
  BY LenProperties
<1>4. Range(<<e>> \o s) = {e} \cup Range(s)
  BY <1>1, <1>2
<1>5. QED
  BY <1>1, <1>3, <1>4, ConcatProperties

LEMMA FirstAndRest ==
    ASSUME NEW S, NEW s \in Seq(S), s # <<>>
    PROVE  /\ Head(s) \in S /\ Tail(s) \in Seq(S) /\ Head(s) = s[1]
           /\ Len(s) \in Nat \ {0} /\ Len(Tail(s)) = Len(s) - 1
           /\ \A n \in 1..(Len(s) - 1) : Tail(s)[n] = s[n + 1]
           /\ Range(s) = {Head(s)} \cup Range(Tail(s))
<1>1. /\ Head(s) \in S /\ Tail(s) \in Seq(S)
      /\ Len(s) \in Nat \ {0} /\ Len(Tail(s)) = Len(s) - 1
      /\ \A n \in 1..(Len(s) - 1) : Tail(s)[n] = s[n + 1]
  BY HeadTailProperties, EmptySeq, LenProperties
<1>2. Head(s) = s[1]
  OBVIOUS
<1>3. Range(s) = {s[n] : n \in 1..Len(s)} /\ Range(Tail(s)) = {Tail(s)[n] : n \in 1..Len(Tail(s))}
  BY <1>1, RangeEquality
<1>4. ASSUME NEW x \in Range(s) PROVE x \in {Head(s)} \cup Range(Tail(s))
  <2>1. PICK n \in 1..Len(s) : x = s[n]
    BY <1>3
  <2>2. CASE n = 1
    BY <1>2, <2>1, <2>2
  <2>3. CASE n # 1
    <3>1. n - 1 \in 1..(Len(s) - 1) /\ n - 1 \in 1..Len(Tail(s))
      BY <1>1, <2>3
    <3>2. Tail(s)[n - 1] = s[n]
      BY <1>1, <3>1
    <3>3. QED
      BY <1>3, <2>1, <3>1, <3>2
  <2>4. QED
    BY <2>2, <2>3
<1>5. ASSUME NEW x \in {Head(s)} \cup Range(Tail(s)) PROVE x \in Range(s)
  <2>1. CASE x = Head(s)
    <3>1. 1 \in 1..Len(s)
      BY <1>1
    <3>2. QED
      BY <1>2, <1>3, <2>1, <3>1
  <2>2. CASE x \in Range(Tail(s))
    <3>1. PICK n \in 1..Len(Tail(s)) : x = Tail(s)[n]
      BY <1>3, <2>2
    <3>2. n \in 1..(Len(s) - 1) /\ n + 1 \in 1..Len(s)
      BY <1>1
    <3>3. QED
      BY <1>1, <1>3, <3>1, <3>2
  <2>3. QED
    BY <2>1, <2>2
<1>6. QED
  BY <1>1, <1>2, <1>4, <1>5

\* One step of tommy_chain_merge, the rest of it done by F.
MergeStep(F, c) ==
    LET s == c[1]
        t == c[2]
    IN  IF s = <<>> \/ t = <<>> THEN s \o t
        ELSE IF Above(Head(s), Head(t)) THEN <<Head(t)>> \o F[<<s, Tail(t)>>]
        ELSE <<Head(s)>> \o F[<<Tail(s), t>>]

Size(c) == Len(c[1]) + Len(c[2])

\* What is left after it is shorter.
LEMMA MergeShorter ==
    ASSUME NEW s \in Seq(CwEntry), NEW t \in Seq(CwEntry), s # <<>>, t # <<>>
    PROVE  /\ Head(s) \in CwEntry /\ Head(t) \in CwEntry
           /\ <<s, Tail(t)>> \in Chains /\ <<Tail(s), t>> \in Chains
           /\ Size(<<s, Tail(t)>>) < Size(<<s, t>>) /\ Size(<<Tail(s), t>>) < Size(<<s, t>>)
<1>1. Len(s) \in Nat /\ Len(t) \in Nat
  BY LenProperties
<1>2. /\ Head(s) \in CwEntry /\ Head(t) \in CwEntry
      /\ Tail(s) \in Seq(CwEntry) /\ Tail(t) \in Seq(CwEntry)
      /\ Len(Tail(s)) = Len(s) - 1 /\ Len(Tail(t)) = Len(t) - 1
  BY FirstAndRest
<1>3. <<s, Tail(t)>> \in Chains /\ <<Tail(s), t>> \in Chains
  BY <1>2 DEF Chains
<1>4. /\ Size(<<s, Tail(t)>>) = Len(s) + Len(Tail(t)) /\ Size(<<Tail(s), t>>) = Len(Tail(s)) + Len(t)
      /\ Size(<<s, t>>) = Len(s) + Len(t)
  BY DEF Size
<1>5. QED
  BY <1>1, <1>2, <1>3, <1>4

LEMMA ChainPairs ==
    ASSUME NEW c \in Chains
    PROVE  /\ Size(c) \in Nat
           /\ \E s, t \in Seq(CwEntry) : c = <<s, t>> /\ c[1] = s /\ c[2] = t
<1>1. PICK s \in Seq(CwEntry), t \in Seq(CwEntry) : c = <<s, t>> /\ c[1] = s /\ c[2] = t
  BY DEF Chains
<1>2. Len(s) \in Nat /\ Len(t) \in Nat
  BY LenProperties
<1>3. QED
  BY <1>1, <1>2 DEF Size

\* The rest of a merge is a merge of shorter chains.
LEMMA MergeDescends ==
    ASSUME NEW c \in Chains, NEW F, NEW G,
           \A d \in Chains : Size(d) < Size(c) => F[d] = G[d]
    PROVE  MergeStep(F, c) = MergeStep(G, c)
<1>1. PICK s \in Seq(CwEntry), t \in Seq(CwEntry) : c = <<s, t>> /\ c[1] = s /\ c[2] = t
  BY ChainPairs
<1>2. CASE s = <<>> \/ t = <<>>
  BY <1>1, <1>2 DEF MergeStep
<1>3. CASE s # <<>> /\ t # <<>>
  <2>1. F[<<s, Tail(t)>>] = G[<<s, Tail(t)>>] /\ F[<<Tail(s), t>>] = G[<<Tail(s), t>>]
    BY <1>1, <1>3, MergeShorter
  <2>2. QED
    BY <1>1, <2>1 DEF MergeStep
<1>4. QED
  BY <1>2, <1>3

LEMMA MergeStepType ==
    ASSUME NEW c \in Chains, NEW F \in [Chains -> Seq(CwEntry)]
    PROVE  MergeStep(F, c) \in Seq(CwEntry)
<1>1. PICK s \in Seq(CwEntry), t \in Seq(CwEntry) : c = <<s, t>> /\ c[1] = s /\ c[2] = t
  BY ChainPairs
<1>2. CASE s = <<>> \/ t = <<>>
  <2>1. MergeStep(F, c) = s \o t
    BY <1>1, <1>2 DEF MergeStep
  <2>2. QED
    BY <2>1, ConcatProperties
<1>3. CASE s # <<>> /\ t # <<>>
  <2>1. F[<<s, Tail(t)>>] \in Seq(CwEntry) /\ F[<<Tail(s), t>>] \in Seq(CwEntry)
    BY <1>1, <1>3, MergeShorter
  <2>2. Head(s) \in CwEntry /\ Head(t) \in CwEntry
    BY <1>3, MergeShorter
  <2>3. <<Head(t)>> \o F[<<s, Tail(t)>>] \in Seq(CwEntry) /\ <<Head(s)>> \o F[<<Tail(s), t>>] \in Seq(CwEntry)
    BY <2>1, <2>2, FirstBefore
  <2>4. QED
    BY <1>1, <1>3, <2>3 DEF MergeStep
<1>4. QED
  BY <1>2, <1>3

\* The recursion of tommy_chain_merge ends.
LEMMA MergeDefined ==
    Merge \in [Chains -> Seq(CwEntry)] /\ \A c \in Chains : Merge[c] = MergeStep(Merge, c)
<1> DEFINE T == Seq(CwEntry)
           rank == [c \in Chains |-> Size(c)]
           step == [c \in Chains |-> [F \in [Chains -> T] |-> MergeStep(F, c)]]
<1>1. rank \in [Chains -> Nat] /\ \A c \in Chains : rank[c] = Size(c)
  BY ChainPairs
<1>2. step \in [Chains -> [[Chains -> T] -> T]]
  BY MergeStepType
<1>3. \A c \in Chains : \A F \in [Chains -> T] : step[c][F] = MergeStep(F, c)
  OBVIOUS
<1>4. T # {}
  BY EmptySeq
<1> HIDE DEF T, rank, step
<1>5. Descends(Chains, T, rank, step)
  BY <1>1, <1>3, MergeDescends DEF Descends
<1>r. Recursive(Chains, T, rank, step)
  BY <1>1, <1>2, <1>4, <1>5 DEF Recursive
<1>6. PICK H \in [Chains -> T] : \A c \in Chains : H[c] = step[c][H]
  BY <1>r, RecursionByRank
<1>7. \A c \in Chains : H[c] = MergeStep(H, c)
  BY <1>3, <1>6
<1>8. H = [c \in Chains |-> MergeStep(H, c)]
  BY <1>6, <1>7
<1>9. Merge = CHOOSE F : F = [c \in Chains |-> MergeStep(F, c)]
  BY DEF Merge, MergeStep, Chains
<1>10. Merge = [c \in Chains |-> MergeStep(Merge, c)]
  BY <1>8, <1>9
<1>11. \A c \in Chains : Merge[c] = MergeStep(Merge, c)
  BY <1>10, Zenon
<1> DEFINE S == {c \in Chains : Merge[c] = H[c]}
<1>12. \A c \in Chains : (\A d \in Chains : rank[d] < rank[c] => d \in S) => c \in S
  BY <1>1, <1>7, <1>11, MergeDescends
<1>13. Chains \subseteq S
  <2> HIDE DEF S
  <2>1. QED
    BY <1>1, <1>12, AllByRank
<1>14. Merge \in [Chains -> T]
  BY <1>6, <1>10, <1>13
<1>15. QED
  BY <1>11, <1>14 DEF T

\* The words that were received more often come first.
ByCount(s) == \A i, j \in 1..Len(s) : i < j => s[j].count <= s[i].count

LEMMA CountType == \A e \in CwEntry : e.count \in Nat
BY DEF CwEntry

LEMMA SortedFront ==
    ASSUME NEW e \in CwEntry, NEW s \in Seq(CwEntry), ByCount(s), \A x \in Range(s) : x.count <= e.count
    PROVE  ByCount(<<e>> \o s)
<1> DEFINE r == <<e>> \o s
<1>1. /\ r \in Seq(CwEntry) /\ Len(r) = Len(s) + 1 /\ r[1] = e /\ Len(s) \in Nat
      /\ \A n \in 2..(Len(s) + 1) : r[n] = s[n - 1]
  BY FirstBefore, LenProperties
<1> HIDE DEF r
<1>2. SUFFICES ASSUME NEW i \in 1..Len(r), NEW j \in 1..Len(r), i < j PROVE r[j].count <= r[i].count
  BY DEF ByCount, r
<1>3. j \in 2..(Len(s) + 1) /\ j - 1 \in 1..Len(s) /\ r[j] = s[j - 1]
  BY <1>1, <1>2
<1>4. CASE i = 1
  <2>1. s[j - 1] \in Range(s)
    BY <1>3, RangeEquality
  <2>2. QED
    BY <1>1, <1>3, <1>4, <2>1
<1>5. CASE i # 1
  <2>1. i - 1 \in 1..Len(s) /\ r[i] = s[i - 1] /\ i - 1 < j - 1
    BY <1>1, <1>2, <1>3, <1>5
  <2>2. QED
    BY <1>3, <2>1 DEF ByCount
<1>6. QED
  BY <1>4, <1>5

LEMMA SortedRest ==
    ASSUME NEW s \in Seq(CwEntry), s # <<>>, ByCount(s)
    PROVE  ByCount(Tail(s)) /\ \A x \in Range(s) : x.count <= Head(s).count
<1>1. /\ Len(s) \in Nat \ {0} /\ Len(Tail(s)) = Len(s) - 1 /\ Head(s) = s[1] /\ Head(s) \in CwEntry
      /\ \A n \in 1..(Len(s) - 1) : Tail(s)[n] = s[n + 1]
  BY FirstAndRest
<1>2. ByCount(Tail(s))
  <2>1. SUFFICES ASSUME NEW i \in 1..(Len(s) - 1), NEW j \in 1..(Len(s) - 1), i < j
                 PROVE  Tail(s)[j].count <= Tail(s)[i].count
    BY <1>1 DEF ByCount
  <2>2. i + 1 \in 1..Len(s) /\ j + 1 \in 1..Len(s) /\ i + 1 < j + 1
    BY <1>1, <2>1
  <2>3. s[j + 1].count <= s[i + 1].count
    BY <2>2 DEF ByCount
  <2>4. QED
    BY <1>1, <2>3
<1>3. ASSUME NEW x \in Range(s) PROVE x.count <= Head(s).count
  <2>1. PICK n \in 1..Len(s) : x = s[n]
    BY RangeEquality
  <2>2. CASE n = 1
    BY <1>1, <2>1, <2>2, CountType
  <2>3. CASE n # 1
    <3>1. 1 \in 1..Len(s) /\ 1 < n
      BY <1>1, <2>3
    <3>2. s[n].count <= s[1].count
      BY <3>1 DEF ByCount
    <3>3. QED
      BY <1>1, <2>1, <3>2
  <2>4. QED
    BY <2>2, <2>3
<1>4. QED
  BY <1>2, <1>3

LEMMA SortedBoth ==
    ASSUME NEW s \in Seq(CwEntry), NEW t \in Seq(CwEntry), ByCount(s), ByCount(t),
           s # <<>>, t # <<>>, t[1].count <= s[Len(s)].count
    PROVE  ByCount(s \o t)
<1> DEFINE r == s \o t
<1>1. /\ Len(r) = Len(s) + Len(t) /\ Len(s) \in Nat \ {0} /\ Len(t) \in Nat \ {0}
      /\ \A n \in 1..(Len(s) + Len(t)) : r[n] = IF n <= Len(s) THEN s[n] ELSE t[n - Len(s)]
  BY ConcatProperties, EmptySeq
<1>2. /\ \A n \in 1..Len(s) : s[n].count \in Nat
      /\ \A n \in 1..Len(t) : t[n].count \in Nat
  BY ElementOfSeq, CountType
<1> HIDE DEF r
<1>3. SUFFICES ASSUME NEW i \in 1..Len(r), NEW j \in 1..Len(r), i < j PROVE r[j].count <= r[i].count
  BY DEF ByCount, r
<1>4. CASE j <= Len(s)
  <2>1. i \in 1..Len(s) /\ j \in 1..Len(s) /\ r[i] = s[i] /\ r[j] = s[j]
    BY <1>1, <1>3, <1>4
  <2>2. QED
    BY <1>3, <2>1 DEF ByCount
<1>5. CASE i > Len(s)
  <2>1. /\ i - Len(s) \in 1..Len(t) /\ j - Len(s) \in 1..Len(t) /\ i - Len(s) < j - Len(s)
        /\ r[i] = t[i - Len(s)] /\ r[j] = t[j - Len(s)]
    BY <1>1, <1>3, <1>5
  <2>2. QED
    BY <2>1 DEF ByCount
<1>6. CASE i <= Len(s) /\ j > Len(s)
  <2>1. /\ i \in 1..Len(s) /\ j - Len(s) \in 1..Len(t) /\ 1 \in 1..Len(t) /\ Len(s) \in 1..Len(s)
        /\ r[i] = s[i] /\ r[j] = t[j - Len(s)]
    BY <1>1, <1>6
  <2>2. s[Len(s)].count <= s[i].count
    <3>1. CASE i = Len(s)
      BY <1>2, <2>1, <3>1
    <3>2. CASE i # Len(s)
      <4>1. i < Len(s)
        BY <1>1, <2>1, <3>2
      <4>2. QED
        BY <2>1, <4>1 DEF ByCount
    <3>3. QED
      BY <3>1, <3>2
  <2> DEFINE k == j - Len(s)
  <2>3. s[Len(s)].count \in Nat /\ s[i].count \in Nat /\ t[k].count \in Nat /\ t[1].count \in Nat
    BY <1>2, <2>1
  <2>4. t[k].count <= t[1].count
    <3> HIDE DEF k
    <3>1. CASE k = 1
      BY <2>3, <3>1
    <3>2. CASE k # 1
      <4>1. 1 < k /\ k \in 1..Len(t) /\ 1 \in 1..Len(t)
        BY <2>1, <3>2 DEF k
      <4>2. QED
        BY <4>1 DEF ByCount
    <3>3. QED
      BY <3>1, <3>2
  <2>5. \A a, b, c, d \in Nat : a <= b /\ b <= c /\ c <= d => a <= d
    OBVIOUS
  <2>6. t[k].count <= s[i].count
    <3> HIDE DEF k
    <3>1. QED
      BY <2>2, <2>3, <2>4, <2>5
  <2>7. QED
    BY <2>1, <2>6
<1>7. QED
  BY <1>1, <1>4, <1>5, <1>6

\* What a merge of two chains is to be: their words, sorted if they were.
Joined(s, t, r) ==
    /\ r \in Seq(CwEntry) /\ Len(r) = Len(s) + Len(t) /\ Range(r) = Range(s) \cup Range(t)
    /\ signed /\ ByCount(s) /\ ByCount(t) => ByCount(r)

LEMMA EmptyJoined ==
    ASSUME NEW s \in Seq(CwEntry), NEW t \in Seq(CwEntry), s = <<>> \/ t = <<>>
    PROVE  Joined(s, t, s \o t)
<1>1. /\ s \o t \in Seq(CwEntry) /\ Len(s \o t) = Len(s) + Len(t)
      /\ Range(s \o t) = Range(s) \cup Range(t)
  BY ConcatProperties, RangeConcatenation
<1>2. s \o t = s \/ s \o t = t
  BY ConcatEmptySeq
<1>3. QED
  BY <1>1, <1>2 DEF Joined

\* The head of s goes first.
LEMMA FirstJoined ==
    ASSUME NEW s \in Seq(CwEntry), NEW t \in Seq(CwEntry), s # <<>>, t # <<>>, NEW m,
           Joined(Tail(s), t, m), signed => Head(t).count <= Head(s).count
    PROVE  Joined(s, t, <<Head(s)>> \o m) /\ Joined(t, s, <<Head(s)>> \o m)
<1>1. /\ Head(s) \in CwEntry /\ Tail(s) \in Seq(CwEntry) /\ Len(s) \in Nat \ {0} /\ Len(t) \in Nat \ {0}
      /\ Len(Tail(s)) = Len(s) - 1 /\ Range(s) = {Head(s)} \cup Range(Tail(s))
      /\ Head(t) \in CwEntry
  BY FirstAndRest
<1>2. m \in Seq(CwEntry) /\ Len(m) = Len(Tail(s)) + Len(t) /\ Range(m) = Range(Tail(s)) \cup Range(t)
  BY DEF Joined
<1>3. /\ <<Head(s)>> \o m \in Seq(CwEntry) /\ Range(<<Head(s)>> \o m) = {Head(s)} \cup Range(m)
      /\ Len(<<Head(s)>> \o m) = Len(m) + 1
  BY <1>1, <1>2, FirstBefore
<1>4. Len(<<Head(s)>> \o m) = Len(s) + Len(t) /\ Len(<<Head(s)>> \o m) = Len(t) + Len(s)
  BY <1>1, <1>2, <1>3
<1>5. /\ Range(<<Head(s)>> \o m) = Range(s) \cup Range(t)
      /\ Range(<<Head(s)>> \o m) = Range(t) \cup Range(s)
  BY <1>1, <1>2, <1>3
<1>6. ASSUME signed, ByCount(s), ByCount(t) PROVE ByCount(<<Head(s)>> \o m)
  <2>1. ByCount(m)
    BY <1>6, SortedRest DEF Joined
  <2>2. ASSUME NEW x \in Range(m) PROVE x.count <= Head(s).count
    <3>1. CASE x \in Range(Tail(s))
      BY <1>1, <1>6, <3>1, SortedRest
    <3>2. CASE x \in Range(t)
      <4>1. x.count <= Head(t).count
        BY <1>6, <3>2, SortedRest
      <4>2. x \in CwEntry
        BY <3>2, RangeOfSeq
      <4>3. x.count \in Nat /\ Head(t).count \in Nat /\ Head(s).count \in Nat /\ Head(t).count <= Head(s).count
        BY <1>1, <1>6, <4>2, CountType
      <4>4. QED
        BY <4>1, <4>3
    <3>3. QED
      BY <1>2, <2>2, <3>1, <3>2
  <2>3. QED
    BY <1>1, <1>2, <2>1, <2>2, SortedFront
<1>7. QED
  BY <1>3, <1>4, <1>5, <1>6 DEF Joined

LEMMA AboveBelow ==
    ASSUME NEW a \in CwEntry, NEW b \in CwEntry, signed
    PROVE  /\ Above(a, b) => a.count <= b.count
           /\ ~Above(a, b) => b.count <= a.count
           /\ Below(b, a) => a.count <= b.count
BY CountType DEF Above, Below

\* tommy_chain_merge
LEMMA MergeJoins ==
    ASSUME NEW s \in Seq(CwEntry), NEW t \in Seq(CwEntry)
    PROVE  Joined(s, t, Merge[<<s, t>>])
<1> DEFINE S == {c \in Chains : Joined(c[1], c[2], Merge[c])}
           rank == [c \in Chains |-> Size(c)]
<1>1. rank \in [Chains -> Nat] /\ \A c \in Chains : rank[c] = Size(c)
  BY ChainPairs
<1> HIDE DEF rank
<1>2. ASSUME NEW c \in Chains, \A d \in Chains : rank[d] < rank[c] => d \in S PROVE c \in S
  <2>1. PICK u \in Seq(CwEntry), v \in Seq(CwEntry) : c = <<u, v>> /\ c[1] = u /\ c[2] = v
    BY ChainPairs
  <2>2. Merge[c] = MergeStep(Merge, c)
    BY MergeDefined
  <2>3. CASE u = <<>> \/ v = <<>>
    <3>1. Merge[c] = u \o v
      BY <2>1, <2>2, <2>3 DEF MergeStep
    <3>2. QED
      BY <2>1, <2>3, <3>1, EmptyJoined
  <2>4. CASE u # <<>> /\ v # <<>>
    <3>1. /\ <<u, Tail(v)>> \in Chains /\ <<Tail(u), v>> \in Chains
          /\ Size(<<u, Tail(v)>>) < Size(c) /\ Size(<<Tail(u), v>>) < Size(c)
          /\ Head(u) \in CwEntry /\ Head(v) \in CwEntry
      BY <2>1, <2>4, MergeShorter
    <3>2. <<u, Tail(v)>> \in S /\ <<Tail(u), v>> \in S
      BY <1>1, <1>2, <3>1
    <3>3. Joined(u, Tail(v), Merge[<<u, Tail(v)>>]) /\ Joined(Tail(u), v, Merge[<<Tail(u), v>>])
      BY <3>2
    <3>4. CASE Above(Head(u), Head(v))
      <4>1. Merge[c] = <<Head(v)>> \o Merge[<<u, Tail(v)>>]
        BY <2>1, <2>2, <2>4, <3>4 DEF MergeStep
      <4>2. Joined(Tail(v), u, Merge[<<u, Tail(v)>>])
        <5>1. Len(u) \in Nat /\ Len(Tail(v)) \in Nat
          BY <2>4, FirstAndRest, LenProperties
        <5>2. QED
          BY <3>3, <5>1 DEF Joined
      <4>3. signed => Head(u).count <= Head(v).count
        BY <3>1, <3>4, AboveBelow
      <4>4. Joined(u, v, Merge[c])
        BY <2>4, <4>1, <4>2, <4>3, FirstJoined
      <4>5. QED
        BY <2>1, <4>4
    <3>5. CASE ~Above(Head(u), Head(v))
      <4>1. Merge[c] = <<Head(u)>> \o Merge[<<Tail(u), v>>]
        BY <2>1, <2>2, <2>4, <3>5 DEF MergeStep
      <4>2. signed => Head(v).count <= Head(u).count
        BY <3>1, <3>5, AboveBelow
      <4>3. Joined(u, v, Merge[c])
        BY <2>4, <3>3, <4>1, <4>2, FirstJoined
      <4>4. QED
        BY <2>1, <4>3
    <3>6. QED
      BY <3>4, <3>5
  <2>5. QED
    BY <2>3, <2>4
<1>3. Chains \subseteq S
  <2> HIDE DEF S
  <2>1. QED
    BY <1>1, <1>2, AllByRank
<1>4. <<s, t>> \in Chains
  BY DEF Chains
<1>5. QED
  BY <1>3, <1>4

\* tommy_chain_merge_degenerated
LEMMA MergeChainsJoins ==
    ASSUME NEW s \in Seq(CwEntry), NEW t \in Seq(CwEntry), s # <<>>, t # <<>>
    PROVE  Joined(s, t, MergeChains(s, t))
<1>1. /\ Len(s) \in Nat \ {0} /\ Len(t) \in Nat \ {0}
      /\ s[Len(s)] \in CwEntry /\ t[1] \in CwEntry /\ t[Len(t)] \in CwEntry /\ s[1] \in CwEntry
  <2>1. Len(s) \in Nat \ {0} /\ Len(t) \in Nat \ {0}
    BY EmptySeq
  <2>2. Len(s) \in 1..Len(s) /\ 1 \in 1..Len(s) /\ Len(t) \in 1..Len(t) /\ 1 \in 1..Len(t)
    BY <2>1
  <2>3. QED
    BY <2>1, <2>2, ElementOfSeq
<1>2. CASE ~Above(s[Len(s)], t[1])
  <2>1. MergeChains(s, t) = s \o t
    BY <1>2 DEF MergeChains
  <2>2. s \o t \in Seq(CwEntry) /\ Len(s \o t) = Len(s) + Len(t) /\ Range(s \o t) = Range(s) \cup Range(t)
    BY ConcatProperties, RangeConcatenation
  <2>3. signed /\ ByCount(s) /\ ByCount(t) => ByCount(s \o t)
    BY <1>1, <1>2, AboveBelow, SortedBoth
  <2>4. QED
    BY <2>1, <2>2, <2>3 DEF Joined
<1>3. CASE Above(s[Len(s)], t[1]) /\ Below(t[Len(t)], s[1])
  <2>1. MergeChains(s, t) = t \o s
    BY <1>3 DEF MergeChains
  <2>2. t \o s \in Seq(CwEntry) /\ Len(t \o s) = Len(t) + Len(s) /\ Range(t \o s) = Range(t) \cup Range(s)
    BY ConcatProperties, RangeConcatenation
  <2>3. signed /\ ByCount(s) /\ ByCount(t) => ByCount(t \o s)
    BY <1>1, <1>3, AboveBelow, SortedBoth
  <2>4. Len(t \o s) = Len(s) + Len(t) /\ Range(t \o s) = Range(s) \cup Range(t)
    BY <1>1, <2>2
  <2>5. QED
    BY <2>1, <2>2, <2>3, <2>4 DEF Joined
<1>4. CASE Above(s[Len(s)], t[1]) /\ ~Below(t[Len(t)], s[1])
  <2>1. MergeChains(s, t) = Merge[<<s, t>>]
    BY <1>4 DEF MergeChains
  <2>2. QED
    BY <2>1, MergeJoins
<1>5. QED
  BY <1>2, <1>3, <1>4

LEMMA MergeChainsType ==
    ASSUME NEW s \in Seq(CwEntry), NEW t \in Seq(CwEntry)
    PROVE  MergeChains(s, t) \in Seq(CwEntry)
<1>1. s \o t \in Seq(CwEntry) /\ t \o s \in Seq(CwEntry)
  BY ConcatProperties
<1>2. Merge[<<s, t>>] \in Seq(CwEntry)
  BY MergeJoins DEF Joined
<1>3. QED
  BY <1>1, <1>2 DEF MergeChains

\* The two parts of a list that are sorted on their own.
Front(s) == SubSeq(s, 1, LargestBucket(Len(s)))
Rest(s) == SubSeq(s, LargestBucket(Len(s)) + 1, Len(s))

LEMMA SplitByBucket ==
    ASSUME NEW s \in Seq(CwEntry), Len(s) > 1
    PROVE  /\ Front(s) \in Seq(CwEntry) /\ Rest(s) \in Seq(CwEntry) /\ Front(s) # <<>> /\ Rest(s) # <<>>
           /\ Len(Front(s)) < Len(s) /\ Len(Rest(s)) < Len(s)
           /\ Len(s) = Len(Front(s)) + Len(Rest(s)) /\ Range(s) = Range(Front(s)) \cup Range(Rest(s))
<1> DEFINE n == Len(s)
           p == LargestBucket(n)
<1>1. n \in Nat /\ n > 1 /\ \A i \in 1..n : s[i] \in CwEntry
  BY LenProperties, ElementOfSeq
<1>2. p \in 1..(n - 1)
  <2>1. \E q \in {1, 2, 4, 8} : q < n /\ (n <= 2 * q \/ q = 8)
    BY <1>1
  <2>2. p \in {1, 2, 4, 8} /\ p < n
    BY <2>1 DEF LargestBucket
  <2> HIDE DEF n, p
  <2>3. QED
    BY <1>1, <2>2
<1>3. Front(s) = SubSeq(s, 1, p) /\ Rest(s) = SubSeq(s, p + 1, n)
  BY DEF Front, Rest
<1> HIDE DEF p
<1>4. p \in Int /\ p + 1 \in Int /\ n \in Int /\ 1 \in Int
  BY <1>1, <1>2
<1>5. Front(s) \in Seq(CwEntry) /\ Len(Front(s)) = p
  <2>1. \A i \in 1..p : s[i] \in CwEntry
    BY <1>1, <1>2
  <2>2. SubSeq(s, 1, p) \in Seq(CwEntry) /\ Len(SubSeq(s, 1, p)) = IF 1 <= p THEN p - 1 + 1 ELSE 0
    BY <1>4, <2>1, SubSeqProperties
  <2>3. QED
    BY <1>2, <1>3, <2>2
<1>6. Rest(s) \in Seq(CwEntry) /\ Len(Rest(s)) = n - p
  <2>1. \A i \in (p + 1)..n : s[i] \in CwEntry
    BY <1>1, <1>2
  <2>2. SubSeq(s, p + 1, n) \in Seq(CwEntry) /\ Len(SubSeq(s, p + 1, n)) = IF p + 1 <= n THEN n - (p + 1) + 1 ELSE 0
    BY <1>4, <2>1, SubSeqProperties
  <2>3. QED
    BY <1>1, <1>2, <1>3, <2>2
<1>7. s = Front(s) \o Rest(s)
  <2>1. 1 \in 1..(n + 1) /\ p \in (1 - 1)..n /\ n \in p..n
    BY <1>1, <1>2
  <2>2. SubSeq(s, 1, p) \o SubSeq(s, p + 1, n) = SubSeq(s, 1, n)
    BY <2>1, ConcatAdjacentSubSeq
  <2>3. SubSeq(s, 1, n) = s
    BY SubSeqFull
  <2>4. QED
    BY <1>3, <2>2, <2>3
<1>8. Range(Front(s) \o Rest(s)) = Range(Front(s)) \cup Range(Rest(s))
  BY <1>5, <1>6, RangeConcatenation
<1>9. Len(Front(s)) > 0 /\ Len(Rest(s)) > 0 /\ Len(Front(s)) < n /\ Len(Rest(s)) < n
      /\ n = Len(Front(s)) + Len(Rest(s))
  BY <1>1, <1>2, <1>5, <1>6
<1>10. Front(s) # <<>> /\ Rest(s) # <<>>
  BY <1>9, EmptySeq
<1>11. QED
  BY <1>5, <1>6, <1>7, <1>8, <1>9, <1>10

\* One step of sort_list, its parts sorted by F.
SortStep(F, s) == IF Len(s) <= 1 THEN s ELSE MergeChains(F[Front(s)], F[Rest(s)])

LEMMA SortDescends ==
    ASSUME NEW s \in Seq(CwEntry), NEW F, NEW G, \A d \in Seq(CwEntry) : Len(d) < Len(s) => F[d] = G[d]
    PROVE  SortStep(F, s) = SortStep(G, s)
<1>1. CASE Len(s) <= 1
  BY <1>1 DEF SortStep
<1>2. CASE ~(Len(s) <= 1)
  <2>1. Len(s) > 1
    BY <1>2, LenProperties
  <2>2. F[Front(s)] = G[Front(s)] /\ F[Rest(s)] = G[Rest(s)]
    BY <2>1, SplitByBucket
  <2>3. QED
    BY <2>2 DEF SortStep
<1>3. QED
  BY <1>1, <1>2

\* The recursion of sort_list ends.
LEMMA SortDefined == \A s \in Seq(CwEntry) : SortList[s] = SortStep(SortList, s)
<1> DEFINE T == Seq(CwEntry)
           rank == [s \in T |-> Len(s)]
           step == [s \in T |-> [F \in [T -> T] |-> SortStep(F, s)]]
<1>1. rank \in [T -> Nat] /\ \A s \in T : rank[s] = Len(s)
  BY LenProperties
<1>2. ASSUME NEW s \in T, NEW F \in [T -> T] PROVE SortStep(F, s) \in T
  <2>1. CASE Len(s) <= 1
    BY <2>1 DEF SortStep
  <2>2. CASE ~(Len(s) <= 1)
    <3>1. Len(s) > 1
      BY <2>2, LenProperties
    <3>2. F[Front(s)] \in T /\ F[Rest(s)] \in T
      BY <3>1, SplitByBucket
    <3>3. QED
      BY <2>2, <3>2, MergeChainsType DEF SortStep
  <2>3. QED
    BY <2>1, <2>2
<1>3. step \in [T -> [[T -> T] -> T]]
  BY <1>2
<1>4. \A s \in T : \A F \in [T -> T] : step[s][F] = SortStep(F, s)
  OBVIOUS
<1>5. T # {}
  BY EmptySeq
<1>6. ASSUME NEW s \in T, NEW F, NEW G, \A d \in T : Len(d) < Len(s) => F[d] = G[d]
      PROVE  SortStep(F, s) = SortStep(G, s)
  BY <1>6, SortDescends
<1>7. SortList = CHOOSE F : F = [s \in T |-> SortStep(F, s)]
  BY DEF SortList, SortStep, Front, Rest
<1> HIDE DEF T, rank, step
<1>8. Descends(T, T, rank, step)
  <2>1. SUFFICES ASSUME NEW s \in T, NEW F \in [T -> T], NEW G \in [T -> T],
                        \A d \in T : rank[d] < rank[s] => F[d] = G[d]
                 PROVE  step[s][F] = step[s][G]
    BY DEF Descends
  <2>2. \A d \in T : Len(d) < Len(s) => F[d] = G[d]
    BY <1>1, <2>1
  <2>3. SortStep(F, s) = SortStep(G, s)
    BY <1>6, <2>2
  <2>4. QED
    BY <1>4, <2>3
<1>9. Recursive(T, T, rank, step)
  BY <1>1, <1>3, <1>5, <1>8 DEF Recursive
<1>10. PICK H \in [T -> T] : \A s \in T : H[s] = step[s][H]
  BY <1>9, RecursionByRank
<1>11. H = [s \in T |-> SortStep(H, s)]
  BY <1>4, <1>10
<1>12. SortList = [s \in T |-> SortStep(SortList, s)]
  BY <1>7, <1>11
<1>13. \A s \in T : SortList[s] = SortStep(SortList, s)
  BY <1>12, Zenon
<1>14. QED
  BY <1>13 DEF T

\* What sort_list leaves is the words it was given, in the order of their counts.
LEMMA SortSorts ==
    ASSUME NEW s \in Seq(CwEntry)
    PROVE  /\ SortList[s] \in Seq(CwEntry) /\ Len(SortList[s]) = Len(s) /\ Range(SortList[s]) = Range(s)
           /\ signed => ByCount(SortList[s])
<1> DEFINE Fine(u) == /\ SortList[u] \in Seq(CwEntry) /\ Len(SortList[u]) = Len(u)
                      /\ Range(SortList[u]) = Range(u) /\ (signed => ByCount(SortList[u]))
           D == Seq(CwEntry)
           S == {u \in D : Fine(u)}
           rank == [u \in D |-> Len(u)]
<1>1. rank \in [D -> Nat] /\ \A u \in D : rank[u] = Len(u)
  BY LenProperties
<1> HIDE DEF rank
<1>2. ASSUME NEW u \in D, \A d \in D : rank[d] < rank[u] => d \in S PROVE u \in S
  <2>1. SortList[u] = SortStep(SortList, u)
    BY SortDefined
  <2>2. CASE Len(u) <= 1
    <3>1. SortList[u] = u
      BY <2>1, <2>2 DEF SortStep
    <3>2. Len(u) \in Nat
      BY LenProperties
    <3>3. ByCount(u)
      BY <2>2, <3>2 DEF ByCount
    <3>4. QED
      BY <3>1, <3>3
  <2>3. CASE ~(Len(u) <= 1)
    <3>1. Len(u) > 1
      BY <2>3, LenProperties
    <3>2. /\ Front(u) \in D /\ Rest(u) \in D /\ Front(u) # <<>> /\ Rest(u) # <<>>
          /\ Len(Front(u)) < Len(u) /\ Len(Rest(u)) < Len(u)
          /\ Len(u) = Len(Front(u)) + Len(Rest(u)) /\ Range(u) = Range(Front(u)) \cup Range(Rest(u))
      BY <3>1, SplitByBucket
    <3>3. Front(u) \in S /\ Rest(u) \in S
      BY <1>1, <1>2, <3>2
    <3>4. Fine(Front(u)) /\ Fine(Rest(u))
      BY <3>3
    <3> DEFINE a == SortList[Front(u)]
               b == SortList[Rest(u)]
    <3>5. a \in D /\ b \in D /\ a # <<>> /\ b # <<>>
      BY <3>2, <3>4, EmptySeq
    <3>6. SortList[u] = MergeChains(a, b)
      BY <2>1, <2>3 DEF SortStep
    <3>7. Joined(a, b, MergeChains(a, b))
      <4> HIDE DEF a, b
      <4>1. QED
        BY <3>5, MergeChainsJoins
    <3>8. Fine(u)
      BY <3>2, <3>4, <3>6, <3>7 DEF Joined
    <3>9. QED
      BY <3>8
  <2>4. QED
    BY <2>2, <2>3
<1>3. D \subseteq S
  <2> HIDE DEF S, D
  <2>1. QED
    BY <1>1, <1>2, AllByRank
<1>4. QED
  BY <1>3

(***************************************************************************)
(* The cache of control words.                                              *)
(***************************************************************************)

\* Every word was received, and they are in the order of the sort.
Sound(cws) == (\A x \in Range(cws) : x.count >= 1) /\ (signed => ByCount(cws))

\* No hash twice, none used last before it was added, and all in the order in which they
\* were added.
GoodCache(l) ==
    /\ l \in Seq(EcmHash)
    /\ \A n, m \in 1..Len(l) : l[n].hash = l[m].hash => n = m
    /\ \A n \in 1..Len(l) : l[n].upd <= l[n].first
    /\ \A n, m \in 1..Len(l) : n < m => l[m].first <= l[n].first
    /\ \A n \in 1..Len(l) : Sound(l[n].cws)

CacheIInv == signed \in BOOLEAN /\ GoodCache(llCache)

LEMMA CacheAges == /\ MaxCacheTime \in Nat /\ 0 \in Ages
                   /\ \A a : a \in Ages <=> a \in Nat /\ a <= MaxCacheTime + 1
                   /\ \A a \in Ages : Older(a) \in Ages
                   /\ \A a, b \in Ages : a <= b => Older(a) <= Older(b)
BY CacheTimesAssumption DEF Ages, Older

LEMMA HashFields ==
    /\ \A e \in EcmHash : /\ e.hash \in Hashes /\ e.first \in Ages /\ e.upd \in Ages /\ e.cws \in Seq(CwEntry)
                          /\ e = [hash |-> e.hash, first |-> e.first, upd |-> e.upd, cws |-> e.cws]
    /\ \A h \in Hashes, f \in Ages, u \in Ages, c \in Seq(CwEntry) :
           [hash |-> h, first |-> f, upd |-> u, cws |-> c] \in EcmHash
BY DEF EcmHash

\* A list of as many elements is one.
LEMMA ListOf ==
    ASSUME NEW S, NEW len \in Nat, NEW f \in [1..len -> S]
    PROVE  f \in Seq(S) /\ Len(f) = len
<1>1. f \in Seq(S)
  BY SeqDef
<1>2. DOMAIN f = 1..len /\ DOMAIN f = 1..Len(f) /\ Len(f) \in Nat
  BY <1>1, LenProperties
<1>3. QED
  BY <1>1, <1>2

LEMMA EntryAfter ==
    ASSUME NEW S, NEW s \in Seq(S), NEW e \in S
    PROVE  Range(Append(s, e)) = Range(s) \cup {e}
<1>1. <<e>> \in Seq(S) /\ Range(<<e>>) = {e}
  BY DEF Range
<1>2. Append(s, e) = s \o <<e>>
  BY AppendIsConcat
<1>3. Range(s \o <<e>>) = Range(s) \cup Range(<<e>>)
  BY <1>1, RangeConcatenation, ZenonT(40)
<1>4. QED
  BY <1>1, <1>2, <1>3

\* A word is counted, and the list sorted.
LEMMA CountedSound ==
    ASSUME NEW cws \in Seq(CwEntry), Sound(cws), NEW w \in Words, NEW odd \in BOOLEAN
    PROVE  Counted(cws, w, odd) \in Seq(CwEntry) /\ Sound(Counted(cws, w, odd))
<1>1. DOMAIN cws = 1..Len(cws) /\ Len(cws) \in Nat
  BY LenProperties
<1>2. CASE \E k \in DOMAIN cws : cws[k].cw = w
  <2> DEFINE k == CHOOSE k \in DOMAIN cws : cws[k].cw = w
             new == [cws EXCEPT ![k].count = @ + 1]
             e == [cws[k] EXCEPT !.count = @ + 1]
  <2>1. k \in 1..Len(cws)
    BY <1>1, <1>2
  <2>2. Counted(cws, w, odd) = SortList[new]
    BY <1>2 DEF Counted
  <2> HIDE DEF k
  <2>3. cws[k] \in CwEntry /\ cws[k] \in Range(cws)
    BY <2>1, ElementOfSeq, RangeEquality
  <2>4. e \in CwEntry /\ e.count >= 1
    <3> DEFINE x == cws[k]
    <3>1. x \in CwEntry /\ x.count \in Nat
      BY <2>3, CountType
    <3> HIDE DEF x
    <3>2. x = [cw |-> x.cw, odd |-> x.odd, count |-> x.count] /\ x.cw \in Words /\ x.odd \in BOOLEAN
      BY <3>1 DEF CwEntry
    <3>3. [x EXCEPT !.count = @ + 1] = [cw |-> x.cw, odd |-> x.odd, count |-> x.count + 1]
      BY <3>2
    <3>4. [x EXCEPT !.count = @ + 1] \in CwEntry /\ [x EXCEPT !.count = @ + 1].count >= 1
      BY <3>1, <3>2, <3>3 DEF CwEntry
    <3>5. QED
      BY <3>4 DEF x
  <2>5. new = [cws EXCEPT ![k] = e]
    BY <2>1
  <2> HIDE DEF e, new
  <2>6. new \in Seq(CwEntry) /\ Len(new) = Len(cws)
        /\ \A j \in 1..Len(cws) : new[j] = IF j = k THEN e ELSE cws[j]
    BY <2>1, <2>4, <2>5, ExceptSeq
  <2>7. \A x \in Range(new) : x.count >= 1
    <3>1. SUFFICES ASSUME NEW j \in 1..Len(new) PROVE new[j].count >= 1
      BY <2>6, RangeEquality
    <3>2. CASE j = k
      BY <2>4, <2>6, <3>2
    <3>3. CASE j # k
      <4>1. new[j] = cws[j] /\ cws[j] \in Range(cws)
        BY <2>6, <3>3, RangeEquality
      <4>2. QED
        BY <4>1 DEF Sound
    <3>4. QED
      BY <3>2, <3>3
  <2>8. QED
    BY <2>2, <2>6, <2>7, SortSorts DEF Sound
<1>3. CASE ~\E k \in DOMAIN cws : cws[k].cw = w
  <2> DEFINE e == [cw |-> w, odd |-> odd, count |-> 1]
  <2>1. CASE Len(cws) >= MaxWords
    BY <1>3, <2>1 DEF Counted
  <2>2. CASE ~(Len(cws) >= MaxWords)
    <3>1. Counted(cws, w, odd) = Append(cws, e)
      BY <1>3, <2>2 DEF Counted
    <3>2. e \in CwEntry /\ e.count = 1
      BY DEF CwEntry
    <3> HIDE DEF e
    <3>3. /\ Append(cws, e) \in Seq(CwEntry) /\ Append(cws, e) = cws \o <<e>>
          /\ <<e>> \in Seq(CwEntry) /\ Len(<<e>>) = 1 /\ <<e>>[1] = e /\ <<e>> # <<>>
      BY <3>2, AppendProperties, AppendIsConcat
    <3>4. Range(Append(cws, e)) = Range(cws) \cup {e}
      BY <3>2, EntryAfter
    <3>5. \A x \in Range(Append(cws, e)) : x.count >= 1
      BY <3>2, <3>4 DEF Sound
    <3>6. ASSUME signed PROVE ByCount(Append(cws, e))
      <4>1. ByCount(<<e>>)
        BY <3>3 DEF ByCount
      <4>2. CASE cws = <<>>
        <5>1. Append(cws, e) = <<e>>
          BY <3>3, <4>2, ConcatEmptySeq
        <5>2. QED
          BY <4>1, <5>1
      <4>3. CASE cws # <<>>
        <5>1. Len(cws) \in 1..Len(cws)
          BY <4>3, EmptySeq
        <5>2. cws[Len(cws)] \in Range(cws) /\ cws[Len(cws)] \in CwEntry
          BY <5>1, RangeEquality, ElementOfSeq
        <5>3. cws[Len(cws)].count >= 1 /\ cws[Len(cws)].count \in Nat
          BY <5>2, CountType DEF Sound
        <5>4. ByCount(cws) /\ <<e>>[1].count <= cws[Len(cws)].count
          BY <3>2, <3>3, <3>6, <5>3 DEF Sound
        <5>5. QED
          BY <3>3, <4>1, <4>3, <5>4, SortedBoth
      <4>4. QED
        BY <4>2, <4>3
    <3>7. QED
      BY <3>1, <3>3, <3>5, <3>6 DEF Sound
  <2>3. QED
    BY <2>1, <2>2
<1>4. QED
  BY <1>2, <1>3

\* A new hash comes last.
LEMMA WithHashGood ==
    ASSUME GoodCache(llCache), NEW h \in Hashes
    PROVE  GoodCache(WithHash(h)) /\ \E n \in 1..Len(WithHash(h)) : WithHash(h)[n].hash = h
<1> DEFINE l == llCache
           e == [hash |-> h, first |-> 0, upd |-> 0, cws |-> <<>>]
<1>1. l \in Seq(EcmHash) /\ Len(l) \in Nat /\ DOMAIN l = 1..Len(l) /\ \A n \in 1..Len(l) : l[n] \in EcmHash
  BY LenProperties, ElementOfSeq DEF GoodCache
<1>2. CASE \E n \in DOMAIN l : l[n].hash = h
  BY <1>1, <1>2 DEF WithHash
<1>3. CASE ~\E n \in DOMAIN l : l[n].hash = h
  <2> DEFINE k == Append(l, e)
  <2>1. WithHash(h) = k
    BY <1>3 DEF WithHash
  <2>2. /\ e \in EcmHash /\ e.hash = h /\ e.first = 0 /\ e.upd = 0 /\ Sound(e.cws)
    <3>1. <<>> \in Seq(CwEntry) /\ Len(<<>>) = 0 /\ Range(<<>>) = {}
      BY EmptySeq DEF Range
    <3>2. Sound(<<>>)
      BY <3>1 DEF Sound, ByCount
    <3>3. QED
      BY <3>1, <3>2, CacheAges, HashFields
  <2> HIDE DEF l, e
  <2>3. /\ k \in Seq(EcmHash) /\ Len(k) = Len(l) + 1 /\ k[Len(l) + 1] = e
        /\ \A n \in 1..Len(l) : k[n] = l[n]
    BY <1>1, <2>2, AppendProperties
  <2> HIDE DEF k
  <2>4. \A n \in 1..Len(k) : n \in 1..Len(l) \/ n = Len(l) + 1
    BY <1>1, <2>3
  <2>5. GoodCache(l)
    BY DEF l
  <2>6. \A n, m \in 1..Len(k) : k[n].hash = k[m].hash => n = m
    BY <1>1, <1>3, <2>2, <2>3, <2>4, <2>5 DEF GoodCache
  <2>7. \A n \in 1..Len(k) : k[n].upd <= k[n].first /\ Sound(k[n].cws)
    BY <2>2, <2>3, <2>4, <2>5 DEF GoodCache
  <2>8. ASSUME NEW n \in 1..Len(k), NEW m \in 1..Len(k), n < m PROVE k[m].first <= k[n].first
    <3>1. n \in 1..Len(l)
      BY <1>1, <2>3, <2>8
    <3>2. CASE m \in 1..Len(l)
      BY <2>3, <2>5, <2>8, <3>1, <3>2 DEF GoodCache
    <3>3. CASE m = Len(l) + 1
      <4>1. l[n].first \in Nat
        BY <1>1, <3>1, HashFields, CacheAges
      <4>2. QED
        BY <2>2, <2>3, <3>1, <3>3, <4>1
    <3>4. QED
      BY <2>4, <3>2, <3>3
  <2>9. Len(l) + 1 \in 1..Len(k)
    BY <1>1, <2>3
  <2>10. GoodCache(k) /\ \E n \in 1..Len(k) : k[n].hash = h
    BY <2>2, <2>3, <2>6, <2>7, <2>8, <2>9 DEF GoodCache
  <2>11. QED
    BY <2>1, <2>10
<1>4. QED
  BY <1>2, <1>3

\* The word is counted under its hash, wherever that is.
LEMMA StepAddCache ==
    ASSUME CacheIInv, NEW h \in Hashes, NEW w \in Words, NEW odd \in BOOLEAN, AddCache(h, w, odd)
    PROVE  GoodCache(llCache')
<1> DEFINE listed == WithHash(h)
           n == CHOOSE n \in DOMAIN listed : listed[n].hash = h
           k == [listed EXCEPT ![n].upd = 0, ![n].cws = Counted(@, w, odd)]
<1>1. llCache' = k
  BY DEF AddCache
<1>2. GoodCache(listed) /\ \E i \in 1..Len(listed) : listed[i].hash = h
  BY WithHashGood DEF CacheIInv
<1> HIDE DEF listed
<1>3. listed \in Seq(EcmHash) /\ Len(listed) \in Nat /\ DOMAIN listed = 1..Len(listed)
      /\ listed \in [1..Len(listed) -> EcmHash]
  BY <1>2, LenProperties DEF GoodCache
<1>4. n \in 1..Len(listed)
  BY <1>2, <1>3
<1> HIDE DEF n
<1> DEFINE e == listed[n]
           new == [hash |-> e.hash, first |-> e.first, upd |-> 0, cws |-> Counted(e.cws, w, odd)]
<1>5. e \in EcmHash /\ Sound(e.cws) /\ e.upd <= e.first
  BY <1>2, <1>3, <1>4 DEF GoodCache
<1>6. Counted(e.cws, w, odd) \in Seq(CwEntry) /\ Sound(Counted(e.cws, w, odd))
  <2> HIDE DEF e
  <2>1. QED
    BY <1>5, HashFields, CountedSound
<1>7. k = [listed EXCEPT ![n] = new]
  <2>1. k = [listed EXCEPT ![n] = [[e EXCEPT !.upd = 0] EXCEPT !.cws = Counted(@, w, odd)]]
    BY <1>3, <1>4
  <2> HIDE DEF e
  <2>2. e = [hash |-> e.hash, first |-> e.first, upd |-> e.upd, cws |-> e.cws]
    BY <1>5, HashFields
  <2>3. [e EXCEPT !.upd = 0] = [hash |-> e.hash, first |-> e.first, upd |-> 0, cws |-> e.cws]
    BY <2>2
  <2>4. [e EXCEPT !.upd = 0].cws = e.cws
    BY <2>3
  <2> DEFINE cws == Counted(e.cws, w, odd)
  <2>5. [[e EXCEPT !.upd = 0] EXCEPT !.cws = Counted(@, w, odd)] = new
    <3>1. [[e EXCEPT !.upd = 0] EXCEPT !.cws = Counted(@, w, odd)]
            = [[hash |-> e.hash, first |-> e.first, upd |-> 0, cws |-> e.cws] EXCEPT !.cws = cws]
      BY <2>3, <2>4
    <3>2. new = [hash |-> e.hash, first |-> e.first, upd |-> 0, cws |-> cws]
      OBVIOUS
    <3> HIDE DEF cws, new
    <3>3. QED
      BY <3>1, <3>2
  <2>6. QED
    BY <2>1, <2>5
<1>8. /\ new \in EcmHash /\ new.hash = e.hash /\ new.first = e.first /\ new.upd = 0
      /\ Sound(new.cws) /\ new.upd <= new.first
  <2> HIDE DEF e
  <2>1. e.hash \in Hashes /\ e.first \in Ages /\ e.first \in Nat /\ 0 \in Ages
    BY <1>5, HashFields, CacheAges
  <2>2. QED
    BY <1>6, <2>1, HashFields
<1> HIDE DEF new, k
<1>9. k \in Seq(EcmHash) /\ Len(k) = Len(listed)
      /\ \A i \in 1..Len(listed) : k[i] = IF i = n THEN new ELSE listed[i]
  BY <1>3, <1>4, <1>7, <1>8, ExceptSeq
<1>10. \A i \in 1..Len(k) : /\ k[i].hash = listed[i].hash /\ k[i].first = listed[i].first
                            /\ k[i].upd <= k[i].first /\ Sound(k[i].cws)
  BY <1>2, <1>8, <1>9 DEF GoodCache
<1>11. GoodCache(k)
  BY <1>2, <1>9, <1>10 DEF GoodCache
<1>12. QED
  BY <1>1, <1>11

LEMMA CacheStepIInv == CacheIInv /\ [CacheNext]_cwCacheVars => CacheIInv'
<1> SUFFICES ASSUME CacheIInv, [CacheNext]_cwCacheVars PROVE CacheIInv'
  OBVIOUS
<1> DEFINE l == llCache
           k == llCache'
<1>1. /\ GoodCache(l) /\ l \in Seq(EcmHash) /\ Len(l) \in Nat /\ DOMAIN l = 1..Len(l)
      /\ \A n \in 1..Len(l) : l[n] \in EcmHash
  BY LenProperties, ElementOfSeq DEF CacheIInv, GoodCache
<1>2. signed' = signed
  BY DEF CacheNext, AddCache, CleanupCache, CacheTick, cwCacheVars
<1>3. SUFFICES GoodCache(k)
  BY <1>2 DEF CacheIInv, GoodCache, Sound
<1>4. ASSUME NEW h \in Hashes, NEW w \in Words, NEW odd \in BOOLEAN, AddCache(h, w, odd) PROVE GoodCache(k)
  BY <1>4, StepAddCache
<1>5. ASSUME CleanupCache PROVE GoodCache(k)
  <2> DEFINE S == {n \in DOMAIN llCache : ~Expired(n)}
             len == Cardinality(S)
  <2>1. PICK kept \in Ascending(S) : k = [i \in DOMAIN kept |-> l[kept[i]]]
    BY <1>5 DEF CleanupCache
  <2>2. S \in SUBSET (1..Len(l)) /\ IsFiniteSet(1..Len(l))
    <3>1. 1 \in Int /\ Len(l) \in Int
      BY <1>1
    <3>2. QED
      BY <1>1, <3>1, FS_Interval
  <2> HIDE DEF S, l, k
  <2>3. len \in Nat
    BY <2>2, FS_Subset, FS_CardinalityType
  <2>4. /\ DOMAIN kept = 1..len /\ \A i \in 1..len : kept[i] \in 1..Len(l)
        /\ \A i, j \in 1..len : i < j => kept[i] < kept[j]
    BY <2>2 DEF Ascending
  <2> HIDE DEF len
  <2>5. k \in [1..len -> EcmHash] /\ \A i \in 1..len : k[i] = l[kept[i]]
    BY <1>1, <2>1, <2>4
  <2>6. k \in Seq(EcmHash) /\ Len(k) = len
    BY <2>3, <2>5, ListOf
  <2>7. \A i, j \in 1..len : kept[i] = kept[j] => i = j
    <3>1. SUFFICES ASSUME NEW i \in 1..len, NEW j \in 1..len, kept[i] = kept[j], i # j PROVE FALSE
      OBVIOUS
    <3>2. i < j \/ j < i
      BY <3>1
    <3>3. kept[i] < kept[j] \/ kept[j] < kept[i]
      BY <2>4, <3>2
    <3>4. kept[i] \in Nat /\ kept[j] \in Nat
      BY <2>4
    <3>5. QED
      BY <3>1, <3>3, <3>4
  <2>8. /\ \A i, j \in 1..len : k[i].hash = k[j].hash => i = j
        /\ \A i \in 1..len : k[i].upd <= k[i].first /\ Sound(k[i].cws)
        /\ \A i, j \in 1..len : i < j => k[j].first <= k[i].first
    BY <1>1, <2>4, <2>5, <2>7 DEF GoodCache
  <2>9. QED
    BY <2>6, <2>8 DEF GoodCache
<1>6. ASSUME CacheTick PROVE GoodCache(k)
  <2>1. k = [n \in 1..Len(l) |-> [l[n] EXCEPT !.first = Older(@), !.upd = Older(@)]]
    BY <1>1, <1>6 DEF CacheTick
  <2> HIDE DEF l, k
  <2>2. ASSUME NEW n \in 1..Len(l)
        PROVE  /\ k[n] \in EcmHash /\ k[n].hash = l[n].hash /\ k[n].first = Older(l[n].first)
               /\ k[n].upd = Older(l[n].upd) /\ k[n].cws = l[n].cws
    <3> DEFINE e == l[n]
    <3>1. /\ e \in EcmHash /\ e = [hash |-> e.hash, first |-> e.first, upd |-> e.upd, cws |-> e.cws]
          /\ e.hash \in Hashes /\ e.first \in Ages /\ e.upd \in Ages /\ e.cws \in Seq(CwEntry)
      BY <1>1, HashFields
    <3>2. k[n] = [e EXCEPT !.first = Older(@), !.upd = Older(@)]
      BY <2>1
    <3> HIDE DEF e
    <3>3. k[n] = [hash |-> e.hash, first |-> Older(e.first), upd |-> Older(e.upd), cws |-> e.cws]
      BY <3>1, <3>2
    <3>4. k[n] \in EcmHash
      BY <3>1, <3>3, CacheAges, HashFields
    <3>5. /\ k[n].hash = e.hash /\ k[n].first = Older(e.first) /\ k[n].upd = Older(e.upd) /\ k[n].cws = e.cws
      BY <3>3
    <3>6. QED
      BY <3>4, <3>5 DEF e
  <2>3. k \in Seq(EcmHash) /\ Len(k) = Len(l)
    <3>1. k \in [1..Len(l) -> EcmHash]
      BY <2>1, <2>2
    <3>2. QED
      BY <1>1, <3>1, ListOf
  <2>4. \A n, m \in 1..Len(l) : n < m => k[m].first <= k[n].first
    <3>1. SUFFICES ASSUME NEW n \in 1..Len(l), NEW m \in 1..Len(l), n < m PROVE k[m].first <= k[n].first
      OBVIOUS
    <3>2. l[m].first <= l[n].first /\ l[m].first \in Ages /\ l[n].first \in Ages
      BY <1>1, <3>1, HashFields DEF GoodCache
    <3>3. QED
      BY <2>2, <3>2, CacheAges
  <2>5. \A n \in 1..Len(l) : k[n].upd <= k[n].first /\ Sound(k[n].cws)
    <3>1. SUFFICES ASSUME NEW n \in 1..Len(l) PROVE k[n].upd <= k[n].first /\ Sound(k[n].cws)
      OBVIOUS
    <3>2. l[n].upd <= l[n].first /\ l[n].upd \in Ages /\ l[n].first \in Ages /\ Sound(l[n].cws)
      BY <1>1, HashFields DEF GoodCache
    <3>3. QED
      BY <2>2, <3>2, CacheAges
  <2>6. \A n, m \in 1..Len(l) : k[n].hash = k[m].hash => n = m
    BY <1>1, <2>2 DEF GoodCache
  <2>7. QED
    BY <2>3, <2>4, <2>5, <2>6 DEF GoodCache
<1>7. ASSUME UNCHANGED cwCacheVars PROVE GoodCache(k)
  BY <1>1, <1>7 DEF cwCacheVars
<1>8. QED
  BY <1>4, <1>5, <1>6, <1>7 DEF CacheNext

LEMMA CacheInvariant == CacheSpec => []CacheIInv
<1>1. CacheInit => CacheIInv
  <2>1. SUFFICES ASSUME llCache = <<>>, signed \in BOOLEAN PROVE CacheIInv
    BY DEF CacheInit
  <2>2. llCache \in Seq(EcmHash) /\ Len(llCache) = 0
    BY <2>1, EmptySeq
  <2>3. QED
    BY <2>1, <2>2 DEF CacheIInv, GoodCache
<1>2. QED
  BY <1>1, CacheStepIInv, PTL DEF CacheSpec

\* The cache is well typed: the list that the sort leaves is one of control words.
THEOREM CacheTypeCorrect == CacheSpec => []CacheTypeOK
<1>1. CacheIInv => CacheTypeOK
  <2>1. SUFFICES ASSUME CacheIInv PROVE CacheTypeOK
    OBVIOUS
  <2>2. llCache \in Seq(EcmHash) /\ DOMAIN llCache = 1..Len(llCache)
    BY <2>1, LenProperties DEF CacheIInv, GoodCache
  <2>3. QED
    BY <2>1, <2>2 DEF CacheIInv, GoodCache, CacheTypeOK
<1>2. QED
  BY <1>1, CacheInvariant, PTL

\* get_first_cw finds the word of a parity that was received most often, since the merge
\* sort keeps the list in that order.
THEOREM MostReceivedFirst == CacheSpec => []MostlyReceived
<1>1. CacheIInv => MostlyReceived
  <2>1. SUFFICES ASSUME CacheIInv, signed, NEW n \in DOMAIN llCache, NEW odd \in BOOLEAN,
                        NEW k \in DOMAIN llCache[n].cws, llCache[n].cws[k].odd = odd
                 PROVE  llCache[n].cws[k].count <= FirstCw(llCache[n].cws, odd).count
    BY DEF MostlyReceived
  <2> DEFINE cws == llCache[n].cws
             Is(i) == cws[i].odd = odd
             f == CHOOSE i \in DOMAIN cws : cws[i].odd = odd /\ \A j \in 1..(i - 1) : cws[j].odd # odd
  <2>2. cws \in Seq(CwEntry) /\ Sound(cws)
    <3>1. llCache \in Seq(EcmHash) /\ n \in 1..Len(llCache) /\ llCache[n] \in EcmHash
      BY <2>1, LenProperties, ElementOfSeq DEF CacheIInv, GoodCache
    <3>2. QED
      BY <2>1, <3>1, HashFields DEF CacheIInv, GoodCache
  <2>3. FirstCw(cws, odd) = cws[f]
    BY <2>1 DEF FirstCw
  <2> HIDE DEF cws
  <2>4. DOMAIN cws = 1..Len(cws) /\ Len(cws) \in Nat /\ k \in 1..Len(cws)
    BY <2>1, <2>2, LenProperties DEF cws
  <2>5. \E i \in DOMAIN cws : cws[i].odd = odd /\ \A j \in 1..(i - 1) : cws[j].odd # odd
    <3> DEFINE T == {i \in 1..Len(cws) : cws[i].odd = odd}
    <3>1. T \in SUBSET Nat /\ T # {}
      BY <2>1, <2>4 DEF cws
    <3>2. PICK i \in T : \A j \in T : i <= j
      <4> HIDE DEF T
      <4>1. QED
        BY <3>1, LeastNumber
    <3>3. ASSUME NEW j \in 1..(i - 1) PROVE cws[j].odd # odd
      <4>1. j \in 1..Len(cws) /\ ~(i <= j)
        BY <2>4
      <4>2. QED
        BY <3>2, <4>1
    <3>4. QED
      BY <2>4, <3>2, <3>3
  <2>6. f \in 1..Len(cws) /\ \A j \in 1..(f - 1) : cws[j].odd # odd
    BY <2>4, <2>5
  <2> HIDE DEF f
  <2>7. f <= k
    BY <2>1, <2>4, <2>6 DEF cws
  <2>8. cws[k].count <= cws[f].count
    <3>1. CASE f = k
      <4>1. cws[k].count \in Nat
        BY <2>2, <2>4, ElementOfSeq, CountType
      <4>2. QED
        BY <3>1, <4>1
    <3>2. CASE f < k
      BY <2>1, <2>2, <2>4, <2>6, <3>2 DEF Sound, ByCount
    <3>3. QED
      BY <2>4, <2>6, <2>7, <3>1, <3>2
  <2>9. QED
    BY <2>3, <2>8 DEF cws
<1>2. QED
  BY <1>1, CacheInvariant, PTL

\* The clean-up removes what was not used for its time, all of it and nothing else: what
\* keeps the loop going to a hash are the ones before it, that were added earlier.
THEOREM SweptExactly == CacheSpec => []SweepExact
<1>1. CacheIInv => SweepExact
  <2>1. SUFFICES ASSUME CacheIInv, NEW n \in DOMAIN llCache, llCache[n].upd > MaxCacheTime, NEW m \in 1..n
                 PROVE  llCache[m].first > MaxCacheTime
    BY DEF SweepExact, Expired, Reached
  <2> DEFINE l == llCache
  <2>2. /\ Len(l) \in Nat /\ n \in 1..Len(l) /\ m \in 1..Len(l) /\ m <= n
        /\ l[n] \in EcmHash /\ l[m] \in EcmHash /\ GoodCache(l)
    <3>1. l \in Seq(EcmHash) /\ DOMAIN l = 1..Len(l) /\ Len(l) \in Nat
      BY <2>1, LenProperties DEF CacheIInv, GoodCache
    <3>2. n \in 1..Len(l) /\ m \in 1..Len(l) /\ m <= n
      BY <2>1, <3>1
    <3>3. QED
      BY <2>1, <3>1, <3>2, ElementOfSeq DEF CacheIInv
  <2> HIDE DEF l
  <2>3. l[n].upd \in Nat /\ l[n].first \in Nat /\ l[m].first \in Nat /\ MaxCacheTime \in Nat
    BY <2>2, HashFields, CacheAges
  <2>4. l[n].upd <= l[n].first
    BY <2>2 DEF GoodCache
  <2>5. l[n].first <= l[m].first
    <3>1. CASE m = n
      BY <2>3, <3>1
    <3>2. CASE m < n
      BY <2>2, <3>2 DEF GoodCache
    <3>3. QED
      BY <2>2, <3>1, <3>2
  <2>6. l[n].upd > MaxCacheTime
    BY <2>1 DEF l
  <2>7. l[m].first > MaxCacheTime
    BY <2>3, <2>4, <2>5, <2>6
  <2>8. QED
    BY <2>7 DEF l
<1>2. QED
  BY <1>1, CacheInvariant, PTL

(***************************************************************************)
(* The three tables together.                                               *)

\* The failed logins, the cache and the slots of a reader are well typed, whichever of
\* them the threads of the program work on.
THEOREM TablesTyped == Spec => []TypeOK
<1>1. Init => BanInit /\ CacheInit /\ RateInit
  BY DEF Init
<1>2. [Next]_<<banVars, cwCacheVars, rateVars, table>> => [BanNextState]_banVars
  BY DEF Next, BanStill
<1>3. [Next]_<<banVars, cwCacheVars, rateVars, table>> => [CacheNext]_cwCacheVars
  BY DEF Next, CacheStill
<1>4. [Next]_<<banVars, cwCacheVars, rateVars, table>> => [RateNext]_rateVars
  BY DEF Next, RateStill
<1>5. Spec => BanSpec /\ CacheSpec /\ RateSpec
  BY <1>1, <1>2, <1>3, <1>4, PTL DEF Spec, BanSpec, CacheSpec, RateSpec
<1> QED
  BY <1>5, BanTypeCorrect, CacheTypeCorrect, RateTypeCorrect, PTL DEF TypeOK
=============================================================================
