----------------------------- MODULE RateLimit -----------------------------
(***************************************************************************)
(* The rate limiter of a reader: ecm_ratelimit_check and its helpers in     *)
(* src/trunk/oscam-reader.c.  A service that the reader is asked for holds  *)
(* a slot until nobody has asked for it for some time; with a limit on the  *)
(* slots, at once or, with cooldown, after the limit was exceeded too long. *)
(*                                                                          *)
(* The reader's worker checks with reader_mode 1 and registers the service  *)
(* in the slot it has found; clients' threads check with reader_mode 0 for  *)
(* matching readers, and clear and move slots too.  Nothing is locked, so   *)
(* that such a check may come between the worker's two steps.  Time stands  *)
(* still between these, and each check and each registration is one step    *)
(* here, though another thread can see one half done.                       *)
(*                                                                          *)
(* One limit for all services (no file of limits), ecmunique off, no user   *)
(* of the DVB API, whose priority is dvbapi_override_prio.                  *)
(***************************************************************************)
EXTENDS Naturals, FiniteSets

CONSTANTS
    Services,
    NoService,  \* srvid of a free slot
    MaxSlots,   \* MAXECMRATELIMIT
    Limit,      \* reader->ratelimitecm
    Window,     \* reader->ratelimittime + reader->srvidholdtime
    Delay,      \* reader->cooldown[0], if that is used
    Cooling     \* reader->cooldown[1]

ASSUME NoServiceAssumption == NoService \notin Services
ASSUME ServicesAssumption == IsFiniteSet(Services)
ASSUME LimitAssumption == MaxSlots \in Nat /\ Limit \in 1..MaxSlots
ASSUME RateTimesAssumption == Window \in Nat \ {0} /\ Delay \in Nat \ {0} /\ Cooling \in Nat \ {0}

VARIABLES
    rlecmh,         \* the slots; srv of a free one is NoService
    cooldown,       \* whether cooldown[0] is set
    cooldownstate,  \* 0 setup, 2 delay, 1 limit
    coolAge,        \* time since cooldowntime
    found,          \* the service and the slot the reader's worker is about to register
    asked,          \* history: time since the reader was last asked for a service
    raced           \* history: a client's check moved a slot under the worker's

rateVars == <<rlecmh, cooldown, cooldownstate, coolAge, found, asked, raced>>

Slots == 1..MaxSlots
NoSlot == 0
SlotAges == 0..(Window + 1)
CoolAges == 0..(Delay + Cooling + 1)
Free == [srv |-> NoService, age |-> 0]
NothingFound == [srv |-> NoService, slot |-> NoSlot]
Least(S) == CHOOSE n \in S : \A m \in S : n <= m

RateInit ==
    /\ rlecmh = [h \in Slots |-> Free]
    /\ cooldown \in BOOLEAN
    /\ cooldownstate = 0 /\ coolAge = 0
    /\ found = NothingFound
    /\ asked = [s \in Services |-> Window + 1]
    /\ raced = FALSE

-----------------------------------------------------------------------------
(* ecm_ratelimit_findspace, in the cooldown state st.                       *)

FreeSlots(tab) == {h \in Slots : tab[h].srv = NoService}
Taken(tab) == Slots \ FreeSlots(tab)

\* Mutant: the slots are released one unit of time early.
InWindowLess(tab) == [h \in Slots |-> IF tab[h].age + 1 >= Window THEN Free ELSE tab[h]]

\* "release slots with srvid that are overtime"
InWindow(tab) == [h \in Slots |-> IF tab[h].age >= Window THEN Free ELSE tab[h]]

Limited(st) == ~cooldown \/ st = 1

MaxEcms(tab, st) == IF Limited(st) /\ Taken(tab) # {} THEN Limit ELSE MaxSlots

\* "check if srvid is already in a slot", which moves to a lower free one.
\* Mutant: the last slot is over the limit.
FindHeldBelow(tab, st, h) ==
    LET lower == {f \in FreeSlots(tab) : f < h}
        to == IF lower = {} THEN h ELSE Least(lower)
        moved == [[tab EXCEPT ![h] = Free] EXCEPT ![to] = tab[h]]
    IN  IF to < MaxEcms(tab, st) THEN [tab |-> moved, slot |-> to]
        ELSE [tab |-> [moved EXCEPT ![to] = Free], slot |-> NoSlot]

FindHeld(tab, st, h) ==
    LET lower == {f \in FreeSlots(tab) : f < h}
        to == IF lower = {} THEN h ELSE Least(lower)
        moved == [[tab EXCEPT ![h] = Free] EXCEPT ![to] = tab[h]]
    IN  IF to <= MaxEcms(tab, st) THEN [tab |-> moved, slot |-> to]
        ELSE [tab |-> [moved EXCEPT ![to] = Free], slot |-> NoSlot]

\* "srvid not found in slots!"
FindNew(tab, st) ==
    LET fits == {f \in FreeSlots(tab) : Limited(st) => f <= MaxEcms(tab, st)}
    IN  IF fits = {} \/ (Limited(st) /\ Cardinality(Taken(tab)) + 1 > Limit) THEN NoSlot
        ELSE Least(fits)

FindSpace(tab0, st, s) ==
    LET tab == InWindow(tab0)
        held == {h \in Slots : tab[h].srv = s}
    IN  IF held # {} THEN FindHeld(tab, st, Least(held)) ELSE [tab |-> tab, slot |-> FindNew(tab, st)]

-----------------------------------------------------------------------------
(* ecm_ratelimit_check up to that.                                          *)

\* "how many active slots are registered at end of cooldown delay period"
Active == {h \in Taken(rlecmh) : rlecmh[h].age <= Window}

\* Mutant: the delay ends in the limit whatever is active.
CoolStateAlways ==
    CASE ~cooldown -> cooldownstate
      [] cooldown /\ cooldownstate = 1 /\ coolAge > Cooling -> 0
      [] cooldown /\ cooldownstate = 2 /\ coolAge > Delay -> 1
      [] OTHER -> cooldownstate

CoolState ==
    CASE ~cooldown -> cooldownstate
      [] cooldown /\ cooldownstate = 1 /\ coolAge > Cooling -> 0
      [] cooldown /\ cooldownstate = 2 /\ coolAge > Delay ->
            IF Cardinality(Active) < Limit THEN 0 ELSE 1
      [] OTHER -> cooldownstate

\* sort_ecmrl, when the limit sets in: it compares a slot with itself and moves nothing;
\* what is above the limit is released, however young.
Sorted == [h \in Slots |-> IF h <= Limit THEN rlecmh[h] ELSE Free]

Starts == cooldownstate = 2 /\ CoolState = 1
Check(s) == FindSpace(IF Starts THEN Sorted ELSE rlecmh, CoolState, s)
Restarted(st, age) == IF Starts THEN 0 ELSE IF st # cooldownstate THEN 0 ELSE age

-----------------------------------------------------------------------------
WorkerIdle == found = NothingFound

\* The worker, with reader_mode 1.  The answer E2_RATELIMIT is module CascReader's.
Refuse(s) ==
    /\ WorkerIdle /\ Check(s).slot = NoSlot
    /\ rlecmh' = Check(s).tab
    /\ cooldownstate' = CoolState /\ coolAge' = Restarted(CoolState, coolAge)
    /\ UNCHANGED <<cooldown, found, asked, raced>>

Admit(s) ==
    /\ WorkerIdle /\ Check(s).slot # NoSlot
    /\ rlecmh' = Check(s).tab
    /\ cooldownstate' = CoolState /\ coolAge' = Restarted(CoolState, coolAge)
    /\ found' = [srv |-> s, slot |-> Check(s).slot]
    /\ UNCHANGED <<cooldown, asked, raced>>

\* "Register new slot", and "cooldown detected overrun".
Register ==
    /\ ~WorkerIdle
    /\ rlecmh' = [rlecmh EXCEPT ![found.slot] = [srv |-> found.srv, age |-> 0]]
    /\ asked' = [asked EXCEPT ![found.srv] = 0]
    /\ LET overrun == cooldown /\ cooldownstate = 0 /\ found.slot > Limit
       IN  /\ cooldownstate' = IF overrun THEN 2 ELSE cooldownstate
           /\ coolAge' = IF overrun THEN 0 ELSE coolAge
    /\ found' = NothingFound
    /\ UNCHANGED <<cooldown, raced>>

\* A client's thread, with reader_mode 0.
ClientCheck(s) ==
    /\ rlecmh' = Check(s).tab
    /\ cooldownstate' = CoolState /\ coolAge' = Restarted(CoolState, coolAge)
    /\ raced' = (raced \/ (~WorkerIdle /\ rlecmh' # rlecmh))
    /\ UNCHANGED <<cooldown, found, asked>>

RateTick ==
    /\ WorkerIdle
    /\ rlecmh' = [h \in Slots |-> IF rlecmh[h] = Free \/ rlecmh[h].age > Window THEN rlecmh[h]
                                  ELSE [rlecmh[h] EXCEPT !.age = @ + 1]]
    /\ asked' = [s \in Services |-> IF asked[s] > Window THEN asked[s] ELSE asked[s] + 1]
    /\ coolAge' = IF cooldownstate = 0 \/ coolAge = Delay + Cooling + 1 THEN coolAge ELSE coolAge + 1
    /\ UNCHANGED <<cooldown, cooldownstate, found, raced>>

RateNext ==
    \/ \E s \in Services : Refuse(s) \/ Admit(s) \/ ClientCheck(s)
    \/ Register \/ RateTick

RateSpec == RateInit /\ [][RateNext]_rateVars

-----------------------------------------------------------------------------
RateTypeOK ==
    /\ rlecmh \in [Slots -> [srv : Services \cup {NoService}, age : SlotAges]]
    /\ cooldown \in BOOLEAN /\ cooldownstate \in 0..2 /\ coolAge \in CoolAges
    /\ found \in [srv : Services, slot : Slots] \cup {NothingFound}
    /\ asked \in [Services -> SlotAges] /\ raced \in BOOLEAN

\* Without cooldown the reader is never asked for more services within the window than
\* its limit, and while the limit of the cooldown is on no more hold a slot - although
\* slots are cleared, moved and taken by several threads, as long as none of these
\* moves one between the worker's check and its registration.
AtMostLimit ==
    ~raced =>
        /\ ~cooldown => Cardinality({s \in Services : asked[s] < Window}) <= Limit
        /\ cooldownstate = 1 => Cardinality(Taken(InWindow(rlecmh))) <= Limit

\* A service that the reader was asked for within the window would not be refused, except
\* one that had its slot taken away when the limit of the cooldown set in, and was not
\* asked for since: while the limit is on, or when it has been on all its time.
KeepsItsSlot ==
    \A s \in Services : ~raced /\ WorkerIdle /\ asked[s] < Window /\ Check(s).slot = NoSlot =>
        Starts \/ (cooldown /\ IF cooldownstate = 1 THEN asked[s] >= coolAge ELSE asked[s] > Cooling)

\* The limit of the cooldown sets in only if at that time the reader is asked for as many
\* services as the limit allows, or more, whatever slots were moved and overwritten.
CoolsUnderLoad ==
    [][cooldownstate' = 1 /\ cooldownstate # 1 =>
          Cardinality({s \in Services : asked[s] <= Window}) >= Limit]_rateVars
=============================================================================
