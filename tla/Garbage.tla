------------------------------- MODULE Garbage -------------------------------
(***************************************************************************)
(* One bucket of the garbage collector, src/trunk/oscam-garbage.c: data     *)
(* that other threads may still use is put into a list by add_garbage and   *)
(* freed by garbage_collector once it is old enough.  The list has a lock   *)
(* (module CsLock; no wait for it times out), which the collector releases  *)
(* at the third element and again after its loop.                           *)
(*                                                                          *)
(* An element is added once, by a call that carries its name.  Time passes  *)
(* in seconds, as time(NULL) tells it: age[e] is the time since e got its   *)
(* stamp, counted up to the point where it is old (Old bounds it).  The      *)
(* collector's j is compared with 2 only, so it counts no further than 4.   *)
(* garbage_debug = 0, malloc does not fail, and the collector is running:   *)
(* start_garbage_collector has returned and nobody stops it.                *)
(***************************************************************************)
EXTENDS Naturals, FiniteSets

CONSTANTS
    Elements,       \* what is added to this bucket
    Collector,      \* the thread of garbage_collector
    Nil,            \* a null pointer
    Timeout         \* timeout_time

ASSUME ElementsAssumption == IsFiniteSet(Elements)
ASSUME NamesAssumption == Collector \notin Elements /\ Nil \notin Elements
ASSUME TimeoutAssumption == Timeout \in Nat

VARIABLES
    mayRead, orderly, writelock, readlock, mode,    \* garbage_lock of the bucket
    first,          \* garbage_first of the bucket
    next,           \* garbage->next
    age,            \* seconds since garbage->time
    call,           \* where each call of add_garbage is
    at,             \* where the collector is
    g, prev, j,     \* its local variables
    expired,        \* the elements whose time lies before its deltime
    freed,          \* how often each element was freed
    stolen,         \* history: it released a lock that somebody else held
    late            \* history: an element went in front of a younger one

Lock == INSTANCE CsLock WITH
    Threads <- Elements \cup {Collector}, ReaderSets <- {{}}, Timings <- {TRUE}

lockVars == <<mayRead, orderly, writelock, readlock, mode>>
scanVars == <<g, prev, j, expired>>
vars == <<lockVars, first, next, age, call, at, scanVars, freed, stolen, late>>

Old == Timeout + 1
CallPc == {"new", "stamped", "locking", "linking", "linked", "done"}
CollectorPc == {"sleep", "locking", "scan", "unlock", "free"}

\* The elements that a walk along the pointers nx comes to, from e on.
Reach(nx, e) ==
    {x \in Elements : \A S \in SUBSET Elements :
        (e \in S \cup {Nil} /\ \A m \in S : nx[m] \in S \cup {Nil}) => x \in S}

Chain(e) == Reach(next, e)

Init ==
    /\ Lock!Init
    /\ first = Nil
    /\ next = [e \in Elements |-> Nil]
    /\ age = [e \in Elements |-> 0]
    /\ call = [e \in Elements |-> "new"]
    /\ at = "sleep"
    /\ g = Nil /\ prev = Nil /\ j = 0 /\ expired = {}
    /\ freed = [e \in Elements |-> 0]
    /\ stolen = FALSE /\ late = FALSE

Step(e, from, to) == call[e] = from /\ call' = [call EXCEPT ![e] = to]

-----------------------------------------------------------------------------
(* add_garbage.                                                             *)

\* garbage->time = time(NULL), before the lock is taken.
Stamp(e) ==
    /\ Step(e, "new", "stamped")
    /\ age' = [age EXCEPT ![e] = 0]
    /\ UNCHANGED <<lockVars, first, next, at, scanVars, freed, stolen, late>>

AddLock(e) ==
    /\ Step(e, "stamped", "locking")
    /\ Lock!LockWrite(e)
    /\ UNCHANGED <<first, next, age, at, scanVars, freed, stolen, late>>

\* Mutant: the old head is read without waiting for the lock.
LinkNextUnlocked(e) ==
    /\ Step(e, "locking", "linking")
    /\ next' = [next EXCEPT ![e] = first]
    /\ UNCHANGED <<lockVars, first, age, at, scanVars, freed, stolen, late>>

LinkNext(e) ==
    /\ mode[e] = "holdW"
    /\ Step(e, "locking", "linking")
    /\ next' = [next EXCEPT ![e] = first]
    /\ UNCHANGED <<lockVars, first, age, at, scanVars, freed, stolen, late>>

LinkFirst(e) ==
    /\ mode[e] = "holdW"
    /\ Step(e, "linking", "linked")
    /\ first' = e
    /\ late' = (late \/ (first # Nil /\ age[first] < age[e]))
    /\ UNCHANGED <<lockVars, next, age, at, scanVars, freed, stolen>>

AddUnlock(e) ==
    /\ Step(e, "linked", "done")
    /\ Lock!UnlockWrite(e)
    /\ UNCHANGED <<first, next, age, at, scanVars, freed, stolen, late>>

-----------------------------------------------------------------------------
(* garbage_collector.                                                       *)

\* Mutant: an element is old one second too soon.
BeginEarly ==
    /\ at = "sleep" /\ at' = "locking"
    /\ expired' = {e \in Elements : call[e] # "new" /\ age[e] >= Timeout}
    /\ Lock!LockWrite(Collector)
    /\ UNCHANGED <<first, next, age, call, g, prev, j, freed, stolen, late>>

\* deltime = time(NULL) - timeout_time, then the lock of the bucket.
Begin ==
    /\ at = "sleep" /\ at' = "locking"
    /\ expired' = {e \in Elements : call[e] # "new" /\ age[e] = Old}
    /\ Lock!LockWrite(Collector)
    /\ UNCHANGED <<first, next, age, call, g, prev, j, freed, stolen, late>>

Enter ==
    /\ at = "locking" /\ at' = "scan"
    /\ mode[Collector] = "holdW"
    /\ g' = first /\ prev' = Nil /\ j' = 0
    /\ UNCHANGED <<lockVars, first, next, age, call, expired, freed, stolen, late>>

\* cs_writeunlock for the second time: the lock may be somebody else's by now.
UnlockAgain ==
    /\ writelock' = Lock!MinusOne(writelock)
    /\ IF writelock' > 0 THEN Lock!SignalWriter(mode)
       ELSE mode' = IF readlock > 0 THEN Lock!WakeReaders(mode) ELSE mode
    /\ UNCHANGED <<mayRead, orderly, readlock>>
    /\ stolen' = (stolen \/ \E e \in Elements : mode[e] = "holdW")

\* "if(j == 2)": the lock is released under way.
ReleaseEarly ==
    /\ at = "scan" /\ g # Nil /\ j = 2
    /\ j' = 3
    /\ Lock!UnlockWrite(Collector)
    /\ UNCHANGED <<first, next, age, call, at, g, prev, expired, freed, stolen, late>>

Pass ==
    /\ at = "scan" /\ g # Nil /\ j # 2
    /\ g \notin expired
    /\ prev' = g /\ g' = next[g]
    /\ j' = IF j < 4 THEN j + 1 ELSE j
    /\ UNCHANGED <<lockVars, first, next, age, call, at, expired, freed, stolen, late>>

\* Mutant: the list keeps its first element when it is cut off there.
CutKeepsFirst ==
    /\ at = "scan" /\ g # Nil /\ j # 2
    /\ g \in expired
    /\ next' = IF prev = Nil THEN next ELSE [next EXCEPT ![prev] = Nil]
    /\ first' = first
    /\ at' = "unlock"
    /\ UNCHANGED <<lockVars, age, call, scanVars, freed, stolen, late>>

\* The first old element and all behind it are taken out.
Cut ==
    /\ at = "scan" /\ g # Nil /\ j # 2
    /\ g \in expired
    /\ IF prev = Nil THEN first' = Nil /\ next' = next
       ELSE first' = first /\ next' = [next EXCEPT ![prev] = Nil]
    /\ at' = "unlock"
    /\ UNCHANGED <<lockVars, age, call, scanVars, freed, stolen, late>>

ScanEnd ==
    /\ at = "scan" /\ g = Nil
    /\ at' = "unlock"
    /\ UNCHANGED <<lockVars, first, next, age, call, scanVars, freed, stolen, late>>

Unlock ==
    /\ at = "unlock" /\ at' = "free"
    /\ IF mode[Collector] = "holdW" THEN Lock!UnlockWrite(Collector) /\ stolen' = stolen
       ELSE UnlockAgain
    /\ UNCHANGED <<first, next, age, call, scanVars, freed, late>>

\* "list has been taken out before so we don't need a lock here anymore!"
Free ==
    /\ at = "free" /\ g # Nil
    /\ freed' = [freed EXCEPT ![g] = IF @ < 2 THEN @ + 1 ELSE @]
    /\ g' = next[g]
    /\ UNCHANGED <<lockVars, first, next, age, call, at, prev, j, expired, stolen, late>>

Sleep ==
    /\ at = "free" /\ g = Nil
    /\ at' = "sleep"
    /\ prev' = Nil /\ j' = 0 /\ expired' = {}
    /\ UNCHANGED <<lockVars, first, next, age, call, g, freed, stolen, late>>

\* A second passes.
Tick ==
    /\ age' = [e \in Elements |->
                IF call[e] # "new" /\ age[e] < Old THEN age[e] + 1 ELSE age[e]]
    /\ UNCHANGED <<lockVars, first, next, call, at, scanVars, freed, stolen, late>>

-----------------------------------------------------------------------------
AddStep(e) ==
    Stamp(e) \/ AddLock(e) \/ LinkNext(e) \/ LinkFirst(e) \/ AddUnlock(e)
CollectorStep ==
    Begin \/ Enter \/ ReleaseEarly \/ Pass \/ Cut \/ ScanEnd \/ Unlock \/ Free \/ Sleep

Next == (\E e \in Elements : AddStep(e)) \/ CollectorStep \/ Tick

Spec == Init /\ [][Next]_vars

-----------------------------------------------------------------------------
(* Properties.                                                              *)

TypeOK ==
    /\ writelock \in Nat /\ readlock = 0
    /\ mode \in [Elements \cup {Collector} -> Lock!Mode]
    /\ first \in Elements \cup {Nil}
    /\ next \in [Elements -> Elements \cup {Nil}]
    /\ age \in [Elements -> 0..Old]
    /\ call \in [Elements -> CallPc] /\ at \in CollectorPc
    /\ g \in Elements \cup {Nil} /\ prev \in Elements \cup {Nil}
    /\ j \in 0..4 /\ expired \in SUBSET Elements
    /\ freed \in [Elements -> 0..2]
    /\ stolen \in BOOLEAN /\ late \in BOOLEAN

\* What the collector has cut off and not freed yet.
InHand == IF at \in {"unlock", "free"} THEN Chain(g) ELSE {}

\* Every element add_garbage linked is in the list, in the collector's hand or freed:
\* none leaks - as long as the collector's second unlock hit no other thread's lock.
NothingLost ==
    ~stolen => \A e \in Elements : call[e] \in {"linked", "done"} =>
        e \in Chain(first) \/ e \in InHand \/ freed[e] > 0

\* No element is freed twice, or while it can still be reached from the list, also
\* not by the part of the scan that runs without the lock.
FreedOnce ==
    ~stolen => /\ \A e \in Elements : freed[e] <= 1
               /\ \A e \in Chain(first) \cup InHand : freed[e] = 0

\* Who still uses an element has more than timeout_time to finish: all elements
\* behind the first old one are old too, provided they were linked in the order of
\* their stamps.
NotEarly ==
    ~stolen /\ ~late => \A e \in Elements : e \in InHand \/ freed[e] > 0 => age[e] > Timeout

\* "list has been taken out before so we don't need a lock here anymore!": what is
\* freed is not in the list any more, whoever is working on it.
TakenOut == \A e \in Chain(first) : freed[e] = 0
==============================================================================
