---------------------------- MODULE GarbageProofs ----------------------------
(***************************************************************************)
(* Theorems about Garbage for any finite set of elements.                   *)
(*                                                                         *)
(* The invariant has three parts: how the lock is held at each place of     *)
(* add_garbage and of the collector, what the pointers of the list look     *)
(* like, and how old the elements are along them.  The last two need the    *)
(* lock to exclude, which it does until the collector releases it for       *)
(* somebody else (stolen).                                                  *)
(***************************************************************************)
EXTENDS Garbage, FiniteSetTheorems, TLAPS

Threads == Elements \cup {Collector}
Users == {t \in Threads : mode[t] # "idle"}

(***************************************************************************)
(* The lock.                                                                *)
(***************************************************************************)

\* Which places have the lock or wait for it.
LockPlaces ==
    /\ \A e \in Elements :
          /\ call[e] = "locking" => mode[e] \in {"waitW", "holdW"}
          /\ call[e] \in {"linking", "linked"} => mode[e] = "holdW"
          /\ call[e] \in {"new", "stamped", "done"} => mode[e] = "idle"
    /\ at = "locking" => mode[Collector] \in {"waitW", "holdW"}
    /\ at \in {"scan", "unlock"} => mode[Collector] = IF j <= 2 THEN "holdW" ELSE "idle"
    /\ at \in {"sleep", "free"} => mode[Collector] = "idle"

OneHolder == \A t, u \in Threads : mode[t] = "holdW" /\ mode[u] = "holdW" => t = u

Counted == writelock = Cardinality(Users)

NoneForgotten ==
    \A t \in Threads : mode[t] = "waitW" => \E u \in Threads : mode[u] = "holdW"

LockInv == LockPlaces /\ (~stolen => OneHolder /\ Counted /\ NoneForgotten)

(***************************************************************************)
(* The list.                                                                *)
(***************************************************************************)

Linked == {e \in Elements : call[e] \in {"linked", "done"}}

\* Pointers lead to elements that were linked.
Pointers ==
    /\ first \in Linked \cup {Nil} /\ g \in Linked \cup {Nil} /\ prev \in Linked \cup {Nil}
    /\ \A e \in Elements : next[e] \in Linked \cup {Nil}

\* Lists do not run together, and nothing leads to the head of one but the
\* element that is about to go in front of it.
Injective == \A e, f \in Elements : next[e] = next[f] /\ next[e] # Nil => e = f

Heads ==
    \A e \in Elements : /\ first # Nil /\ next[e] = first => call[e] = "linking"
                        /\ call[e] = "linking" => next[e] = first

\* The collector is inside the list while it scans it.
Scanning ==
    at = "scan" =>
        /\ g \in Chain(first) \cup {Nil} /\ prev \in Chain(first) \cup {Nil}
        /\ prev # Nil => next[prev] = g
        /\ prev = Nil <=> j = 0
        /\ j = 0 => g = first

\* What it has taken out has no way in, so that no element comes round again.
HandOpen == at \in {"unlock", "free"} => \A e \in Chain(g) : next[e] # g

Apart == Chain(first) \cap InHand = {}
Live == \A e \in Chain(first) \cup InHand : freed[e] = 0
Once == \A e \in Elements : freed[e] <= 1
Unfreed == \A e \in Elements : freed[e] > 0 => e \in Linked
Kept == \A e \in Linked : e \in Chain(first) \/ e \in InHand \/ freed[e] > 0

ListInv ==
    /\ Injective /\ Heads /\ Scanning /\ HandOpen
    /\ Apart /\ Live /\ Once /\ Unfreed /\ Kept

(***************************************************************************)
(* The ages.                                                                *)
(***************************************************************************)

Expired == \A e \in expired : call[e] # "new" /\ age[e] = Old

\* Nothing young comes behind something old.
InOrder == \A e \in Linked : next[e] # Nil => age[e] <= age[next[e]]

OldOut == \A e \in Elements : e \in InHand \/ freed[e] > 0 => age[e] = Old

IInv ==
    /\ TypeOK
    /\ LockInv
    /\ Pointers
    /\ ~stolen => ListInv
    /\ Expired
    /\ ~stolen /\ ~late => InOrder /\ OldOut

(***************************************************************************)
(* Walks along pointers.                                                    *)
(***************************************************************************)

Pointing == [Elements -> Elements \cup {Nil}]

\* A walk stays in every set that it starts in and that the pointers do not leave.
LEMMA WalkWithin ==
    ASSUME NEW nx \in Pointing, NEW e \in Elements \cup {Nil}, NEW S \in SUBSET Elements,
           e \in S \cup {Nil}, \A m \in S : nx[m] \in S \cup {Nil}
    PROVE  Reach(nx, e) \subseteq S
BY DEF Reach

\* From nowhere the walk comes to nothing.
LEMMA WalkFromNil ==
    ASSUME NEW nx \in Pointing
    PROVE  Reach(nx, Nil) = {}
<1>1. {} \in SUBSET Elements /\ Nil \in {} \cup {Nil}
  OBVIOUS
<1>2. Reach(nx, Nil) \subseteq {}
  BY <1>1, WalkWithin, ZenonT(60)
<1>3. QED
  BY <1>2

\* A walk comes to where it starts, and goes on from every place it comes to.
LEMMA WalkGoesOn ==
    ASSUME NEW nx \in Pointing, NEW e \in Elements \cup {Nil}
    PROVE  /\ Reach(nx, e) \subseteq Elements
           /\ e # Nil => e \in Reach(nx, e)
           /\ \A m \in Reach(nx, e) : nx[m] \in Reach(nx, e) \cup {Nil}
<1>1. Reach(nx, e) \subseteq Elements /\ (e # Nil => e \in Reach(nx, e))
  BY DEF Reach
<1>2. ASSUME NEW m \in Reach(nx, e), nx[m] # Nil PROVE nx[m] \in Reach(nx, e)
  <2>1. nx[m] \in Elements /\ m \in Elements
    BY <1>1, <1>2 DEF Pointing
  <2>2. ASSUME NEW S \in SUBSET Elements,
               e \in S \cup {Nil}, \A k \in S : nx[k] \in S \cup {Nil}
        PROVE  nx[m] \in S
    <3>1. m \in S
      BY <2>2, <1>2 DEF Reach
    <3>2. QED
      BY <2>2, <3>1, <1>2
  <2>3. QED
    BY <2>1, <2>2 DEF Reach
<1>3. QED
  BY <1>1, <1>2

\* It comes to its start and to what the walk from the next place comes to.
LEMMA WalkUnfolds ==
    ASSUME NEW nx \in Pointing, NEW e \in Elements
    PROVE  Reach(nx, e) = {e} \cup Reach(nx, nx[e])
<1> DEFINE C == Reach(nx, e)
           D == Reach(nx, nx[e])
<1>1. nx[e] \in Elements \cup {Nil}
  BY DEF Pointing
<1>2. /\ C \subseteq Elements /\ e \in C /\ \A m \in C : nx[m] \in C \cup {Nil}
      /\ D \subseteq Elements /\ (nx[e] # Nil => nx[e] \in D)
      /\ \A m \in D : nx[m] \in D \cup {Nil}
  BY <1>1, WalkGoesOn, NamesAssumption
<1> HIDE DEF C, D
<1>3. D \subseteq C
  <2>1. nx[e] \in C \cup {Nil}
    BY <1>2
  <2>2. QED
    BY <1>1, <1>2, <2>1, WalkWithin DEF D
<1>4. C \subseteq {e} \cup D
  <2>1. {e} \cup D \in SUBSET Elements /\ e \in ({e} \cup D) \cup {Nil}
    BY <1>2
  <2>2. \A m \in {e} \cup D : nx[m] \in ({e} \cup D) \cup {Nil}
    BY <1>1, <1>2
  <2>3. QED
    BY <2>1, <2>2, WalkWithin DEF C
<1>5. QED
  BY <1>2, <1>3, <1>4 DEF C, D

\* Every place but the start is come to from a place before it.
LEMMA WalkComesFrom ==
    ASSUME NEW nx \in Pointing, NEW e \in Elements \cup {Nil}, NEW y \in Reach(nx, e), y # e
    PROVE  \E x \in Reach(nx, e) : nx[x] = y
<1> DEFINE C == Reach(nx, e)
<1>1. C \subseteq Elements /\ (e # Nil => e \in C) /\ \A m \in C : nx[m] \in C \cup {Nil}
  BY WalkGoesOn
<1>2. SUFFICES ASSUME \A x \in C : nx[x] # y PROVE FALSE
  OBVIOUS
<1>3. C \ {y} \in SUBSET Elements /\ e \in (C \ {y}) \cup {Nil}
  BY <1>1
<1>4. \A m \in C \ {y} : nx[m] \in (C \ {y}) \cup {Nil}
  BY <1>1, <1>2
<1>5. C \subseteq C \ {y}
  BY <1>3, <1>4, WalkWithin
<1>6. QED
  BY <1>5

\* A pointer that the walk does not come to may change.
LEMMA WalkElsewhere ==
    ASSUME NEW nx \in Pointing, NEW e \in Elements \cup {Nil}, NEW m \in Elements,
           NEW v \in Elements \cup {Nil}, m \notin Reach(nx, e)
    PROVE  Reach([nx EXCEPT ![m] = v], e) = Reach(nx, e)
<1> DEFINE ny == [nx EXCEPT ![m] = v]
           C == Reach(nx, e)
           D == Reach(ny, e)
<1>1. ny \in Pointing /\ \A x \in Elements : x # m => ny[x] = nx[x]
  BY DEF Pointing
<1> HIDE DEF ny
<1>2. /\ C \subseteq Elements /\ (e # Nil => e \in C) /\ \A x \in C : nx[x] \in C \cup {Nil}
      /\ D \subseteq Elements /\ (e # Nil => e \in D) /\ \A x \in D : ny[x] \in D \cup {Nil}
  BY <1>1, WalkGoesOn
<1>3. D \subseteq C
  <2>1. e \in C \cup {Nil} /\ \A x \in C : ny[x] \in C \cup {Nil}
    BY <1>1, <1>2
  <2>2. QED
    BY <1>1, <1>2, <2>1, WalkWithin
<1>4. C \subseteq D
  <2>1. e \in D \cup {Nil} /\ \A x \in D : nx[x] \in D \cup {Nil}
    BY <1>1, <1>2, <1>3
  <2>2. QED
    BY <1>2, <2>1, WalkWithin
<1>5. QED
  BY <1>3, <1>4 DEF ny

\* A walk without a way back to its start comes to no place twice ...
LEMMA WalkOnce ==
    ASSUME NEW nx \in Pointing, NEW e \in Elements, NEW m \in Reach(nx, e),
           \A x, y \in Elements : nx[x] = nx[y] /\ nx[x] # Nil => x = y,
           \A x \in Reach(nx, e) : nx[x] # e
    PROVE  m \notin Reach(nx, nx[m]) /\ e \notin Reach(nx, nx[m])
<1> DEFINE C == Reach(nx, e)
           h == nx[m]
           R == Reach(nx, h)
<1>1. /\ C \subseteq Elements /\ e \in C /\ \A x \in C : nx[x] \in C \cup {Nil}
  BY WalkGoesOn, NamesAssumption
<1>2. h \in C \cup {Nil} /\ h \in Elements \cup {Nil}
  BY <1>1
<1>3. R \subseteq Elements /\ (h # Nil => h \in R) /\ \A x \in R : nx[x] \in R \cup {Nil}
  BY <1>2, WalkGoesOn
<1>4. R \subseteq C
  BY <1>1, <1>2, WalkWithin
<1>5. \A y \in R : y # h => \E x \in R : nx[x] = y
  BY <1>2, WalkComesFrom
<1> HIDE DEF C, R
<1>6. e \notin R
  <2>1. e # h
    BY DEF C
  <2>2. QED
    BY <1>4, <1>5, <2>1 DEF C
<1>7. ASSUME m \in R PROVE FALSE
  <2>1. \A y \in R : \E x \in R : nx[x] = y
    BY <1>5, <1>7
  <2>2. C \ R \in SUBSET Elements /\ e \in (C \ R) \cup {Nil}
    BY <1>1, <1>6
  <2>3. ASSUME NEW x \in C \ R PROVE nx[x] \in (C \ R) \cup {Nil}
    <3>1. CASE nx[x] \in R
      <4>1. PICK y \in R : nx[y] = nx[x]
        BY <2>1, <3>1
      <4>2. y = x
        BY <4>1, <3>1, <1>1, <1>3, NamesAssumption
      <4>3. QED
        BY <4>1, <4>2
    <3>2. QED
      BY <3>1, <1>1
  <2>4. C \subseteq C \ R
    BY <2>2, <2>3, WalkWithin DEF C
  <2>5. QED
    BY <2>4, <1>4, <1>7
<1>8. QED
  BY <1>6, <1>7 DEF R

\* ... and is cut in two parts that have nothing in common.
LEMMA WalkCut ==
    ASSUME NEW nx \in Pointing, NEW e \in Elements, NEW m \in Reach(nx, e),
           \A x, y \in Elements : nx[x] = nx[y] /\ nx[x] # Nil => x = y,
           \A x \in Reach(nx, e) : nx[x] # e
    PROVE  LET ny == [nx EXCEPT ![m] = Nil]
           IN  /\ Reach(ny, nx[m]) = Reach(nx, nx[m])
               /\ Reach(ny, e) = Reach(nx, e) \ Reach(nx, nx[m])
<1> DEFINE ny == [nx EXCEPT ![m] = Nil]
           C == Reach(nx, e)
           h == nx[m]
           R == Reach(nx, h)
           D == Reach(ny, e)
<1>1. /\ C \subseteq Elements /\ e \in C /\ \A x \in C : nx[x] \in C \cup {Nil}
  BY WalkGoesOn, NamesAssumption
<1>2. h \in C \cup {Nil} /\ h \in Elements \cup {Nil} /\ m \in Elements
  BY <1>1
<1>3. m \notin R /\ e \notin R
  BY WalkOnce
<1>4. Reach(ny, h) = R
  BY <1>2, <1>3, WalkElsewhere
<1>5. R \subseteq Elements /\ (h # Nil => h \in R) /\ \A x \in R : nx[x] \in R \cup {Nil}
  BY <1>2, WalkGoesOn
<1>6. \A y \in R : y # h => \E x \in R : nx[x] = y
  BY <1>2, WalkComesFrom
<1>7. ny \in Pointing /\ ny[m] = Nil /\ \A x \in Elements : x # m => ny[x] = nx[x]
  BY <1>2 DEF Pointing
<1> HIDE DEF ny, R, C
<1>8. D \subseteq Elements /\ e \in D /\ \A x \in D : ny[x] \in D \cup {Nil}
  BY <1>7, WalkGoesOn, NamesAssumption
<1> HIDE DEF D
<1>9. C \subseteq D \cup R
  <2>1. D \cup R \in SUBSET Elements /\ e \in (D \cup R) \cup {Nil}
    BY <1>5, <1>8
  <2>2. \A x \in D \cup R : nx[x] \in (D \cup R) \cup {Nil}
    BY <1>5, <1>7, <1>8
  <2>3. QED
    BY <2>1, <2>2, WalkWithin DEF C
<1>10. D \subseteq C \ R
  <2>1. C \ R \in SUBSET Elements /\ e \in (C \ R) \cup {Nil}
    BY <1>1, <1>3
  <2>2. ASSUME NEW x \in C \ R, x # m PROVE nx[x] \in (C \ R) \cup {Nil}
    <3>1. CASE nx[x] \in R
      <4>1. nx[x] # h
        BY <1>1, <1>2, <1>5, <2>2, <3>1, NamesAssumption
      <4>2. PICK y \in R : nx[y] = nx[x]
        BY <1>6, <3>1, <4>1
      <4>3. y = x
        BY <4>2, <3>1, <1>1, <1>5, NamesAssumption
      <4>4. QED
        BY <4>2, <4>3
    <3>2. QED
      BY <3>1, <1>1
  <2>3. \A x \in C \ R : ny[x] \in (C \ R) \cup {Nil}
    BY <2>2, <1>1, <1>7
  <2>4. QED
    BY <2>1, <2>3, <1>7, WalkWithin DEF D
<1>11. D = C \ R
  BY <1>9, <1>10
<1>12. QED
  BY <1>4, <1>11 DEF ny, R, C, D

(***************************************************************************)
(* The lock, which nobody read-locks here.                                  *)
(***************************************************************************)

\* cs_writelock: the thread waits or has the lock.
LEMMA LockTaken ==
    ASSUME TypeOK, NEW t \in Threads, Lock!LockWrite(t)
    PROVE  /\ mode[t] = "idle" /\ writelock' = writelock + 1 /\ readlock' = 0
           /\ mode' = [mode EXCEPT ![t] = IF writelock = 0 THEN "holdW" ELSE "waitW"]
<1>1. writelock \in Nat /\ readlock = 0
  BY DEF TypeOK
<1>2. mode[t] = "idle" /\ writelock' = writelock + 1 /\ readlock' = 0
  BY <1>1 DEF Lock!LockWrite
<1>3. CASE writelock = 0
  <2>1. ~(writelock' > 1 \/ readlock > 0)
    BY <1>1, <1>2, <1>3
  <2>2. mode' = [mode EXCEPT ![t] = "holdW"]
    BY <2>1 DEF Lock!LockWrite
  <2>3. QED
    BY <1>2, <1>3, <2>2
<1>4. CASE writelock # 0
  <2>1. writelock' > 1 \/ readlock > 0
    BY <1>1, <1>2, <1>4
  <2>2. mode' = [mode EXCEPT ![t] = "waitW"]
    BY <2>1 DEF Lock!LockWrite
  <2>3. QED
    BY <1>2, <1>4, <2>2
<1>5. QED
  BY <1>3, <1>4

\* cs_writeunlock: the lock is handed to one of those that wait for it, if the counter
\* tells of any, and nobody else's place changes.
LEMMA LockReleased ==
    ASSUME TypeOK, NEW t \in Threads, Lock!UnlockWrite(t)
    PROVE  /\ mode[t] = "holdW" /\ readlock' = 0
           /\ writelock' = Lock!MinusOne(writelock) /\ writelock' \in Nat
           /\ \/ \E u \in Threads \ {t} :
                    mode[u] = "waitW" /\ mode' = [[mode EXCEPT ![t] = "idle"] EXCEPT ![u] = "holdW"]
              \/ /\ writelock' > 0 => \A u \in Threads \ {t} : mode[u] # "waitW"
                 /\ mode' = [mode EXCEPT ![t] = "idle"]
<1> DEFINE m == [mode EXCEPT ![t] = "idle"]
           W == {u \in Threads : m[u] = "waitW"}
<1>1. /\ mode[t] = "holdW" /\ readlock' = 0 /\ readlock = 0
      /\ writelock' = Lock!MinusOne(writelock) /\ writelock' \in Nat
      /\ mode \in [Threads -> Lock!Mode]
  BY DEF TypeOK, Threads, Lock!UnlockWrite, Lock!MinusOne
<1>2. IF writelock' > 0 THEN Lock!SignalWriter(m) ELSE mode' = m
  BY <1>1 DEF Lock!UnlockWrite
<1>3. \A u \in W : u \in Threads \ {t} /\ mode[u] = "waitW"
  BY <1>1
<1>4. CASE writelock' > 0
  <2>1. CASE W = {}
    BY <1>1, <1>2, <1>4, <2>1 DEF Lock!SignalWriter, Threads
  <2>2. CASE W # {}
    <3>1. \E u \in W : mode' = [m EXCEPT ![u] = "holdW"]
      BY <1>2, <1>4, <2>2 DEF Lock!SignalWriter, Threads
    <3>2. QED
      BY <1>1, <1>3, <3>1
  <2>3. QED
    BY <2>1, <2>2
<1>5. CASE ~(writelock' > 0)
  BY <1>1, <1>2, <1>5
<1>6. QED
  BY <1>4, <1>5

\* The second release of the collector: another thread may get the lock.
LEMMA LockReleasedAgain ==
    ASSUME TypeOK, UnlockAgain
    PROVE  /\ readlock' = 0
           /\ writelock' = Lock!MinusOne(writelock) /\ writelock' \in Nat
           /\ \/ \E u \in Threads : mode[u] = "waitW" /\ mode' = [mode EXCEPT ![u] = "holdW"]
              \/ mode' = mode
<1>1. /\ readlock' = 0 /\ readlock = 0
      /\ writelock' = Lock!MinusOne(writelock) /\ writelock' \in Nat
  BY DEF TypeOK, UnlockAgain, Lock!MinusOne
<1>2. Lock!SignalWriter(mode) \/ mode' = mode
  BY <1>1 DEF UnlockAgain
<1>3. QED
  BY <1>1, <1>2 DEF Lock!SignalWriter, Threads

\* A step does one of five things to the lock.
LEMMA LockSteps ==
    ASSUME Next
    PROVE  \/ \E e \in Elements : AddLock(e) \/ AddUnlock(e)
           \/ Begin \/ ReleaseEarly
           \/ Unlock
           \/ /\ UNCHANGED <<writelock, readlock, mode, stolen>>
              /\ (\E e \in Elements : Stamp(e) \/ LinkNext(e) \/ LinkFirst(e))
                   \/ Enter \/ Pass \/ Cut \/ ScanEnd \/ Free \/ Sleep \/ Tick
BY DEF Next, AddStep, CollectorStep, Stamp, LinkNext, LinkFirst, Enter, Pass, Cut, ScanEnd,
   Free, Sleep, Tick, lockVars

\* The type of the variables.
LEMMA InitTypeOK == Init => TypeOK
<1> SUFFICES ASSUME Init PROVE TypeOK
  OBVIOUS
<1>1. writelock \in Nat /\ readlock = 0 /\ mode \in [Elements \cup {Collector} -> Lock!Mode]
  BY DEF Init, Lock!Init, Lock!Mode
<1>2. age \in [Elements -> 0..Old] /\ freed \in [Elements -> 0..2] /\ j \in 0..4
  BY TimeoutAssumption DEF Init, Old
<1>3. QED
  BY <1>1, <1>2 DEF Init, TypeOK, CallPc, CollectorPc

LEMMA StepTypeOK == TypeOK /\ [Next]_vars => TypeOK'
<1> SUFFICES ASSUME TypeOK, [Next]_vars PROVE TypeOK'
  OBVIOUS
<1> DEFINE LockType == /\ writelock \in Nat /\ readlock = 0
                       /\ mode \in [Threads -> Lock!Mode]
           Rest == /\ first \in Elements \cup {Nil}
                   /\ next \in [Elements -> Elements \cup {Nil}]
                   /\ age \in [Elements -> 0..Old]
                   /\ call \in [Elements -> CallPc] /\ at \in CollectorPc
                   /\ g \in Elements \cup {Nil} /\ prev \in Elements \cup {Nil}
                   /\ j \in 0..4 /\ expired \in SUBSET Elements
                   /\ freed \in [Elements -> 0..2]
                   /\ stolen \in BOOLEAN /\ late \in BOOLEAN
<1>o. Old \in Nat /\ Timeout \in Nat
  BY TimeoutAssumption DEF Old
<1>t. LockType /\ Rest
  BY DEF TypeOK, Threads
<1>1. CASE UNCHANGED vars
  BY <1>1, <1>t DEF vars, lockVars, scanVars, TypeOK, Threads
<1>2. CASE Next
  <2>1. LockType'
    <3>1. ASSUME NEW t \in Threads, Lock!LockWrite(t) PROVE LockType'
      BY <3>1, <1>t, LockTaken DEF Lock!Mode
    <3>2. ASSUME NEW t \in Threads, Lock!UnlockWrite(t) PROVE LockType'
      BY <3>2, <1>t, LockReleased DEF Lock!Mode
    <3>3. ASSUME UnlockAgain PROVE LockType'
      BY <3>3, <1>t, LockReleasedAgain DEF Lock!Mode
    <3>4. Collector \in Threads /\ Elements \subseteq Threads
      BY DEF Threads
    <3>5. CASE \E e \in Elements : AddLock(e) \/ AddUnlock(e)
      BY <3>5, <3>1, <3>2, <3>4 DEF AddLock, AddUnlock
    <3>6. CASE Begin \/ ReleaseEarly
      BY <3>6, <3>1, <3>2, <3>4 DEF Begin, ReleaseEarly
    <3>7. CASE Unlock
      BY <3>7, <3>2, <3>3, <3>4 DEF Unlock
    <3>8. CASE UNCHANGED <<writelock, readlock, mode, stolen>>
      BY <3>8, <1>t
    <3>9. QED
      BY <1>2, <3>5, <3>6, <3>7, <3>8, LockSteps
  <2>2. Rest'
    <3>1. ASSUME NEW e \in Elements, Stamp(e) \/ AddLock(e) \/ AddUnlock(e) PROVE Rest'
      BY <3>1, <1>t, <1>o DEF Stamp, AddLock, AddUnlock, Step, CallPc, scanVars
    <3>2. ASSUME NEW e \in Elements, LinkNext(e) \/ LinkFirst(e) PROVE Rest'
      <4>1. CASE LinkNext(e)
        BY <4>1, <1>t, <1>o DEF LinkNext, Step, CallPc, scanVars
      <4>2. CASE LinkFirst(e)
        <5>1. late' \in BOOLEAN
          BY <4>2, <1>t DEF LinkFirst
        <5>2. first' = e /\ UNCHANGED <<next, age, at, g, prev, j, expired, freed, stolen>>
          BY <4>2 DEF LinkFirst, scanVars
        <5>3. call' \in [Elements -> CallPc]
          BY <4>2, <1>t DEF LinkFirst, Step, CallPc
        <5>4. QED
          BY <5>1, <5>2, <5>3, <1>t
      <4>3. QED
        BY <3>2, <4>1, <4>2
    <3>3. CASE Begin \/ Enter \/ ReleaseEarly \/ Pass
      BY <3>3, <1>t, <1>o DEF Begin, Enter, ReleaseEarly, Pass, CollectorPc
    <3>4. CASE Cut \/ ScanEnd
      BY <3>4, <1>t, <1>o DEF Cut, ScanEnd, CollectorPc, scanVars
    <3>5. CASE Unlock
      <4>1. stolen' \in BOOLEAN
        BY <3>5, <1>t DEF Unlock, UnlockAgain
      <4>2. QED
        BY <3>5, <4>1, <1>t, <1>o DEF Unlock, CollectorPc, scanVars
    <3>8. CASE Free \/ Sleep
      BY <3>8, <1>t, <1>o DEF Free, Sleep, CollectorPc, scanVars
    <3>6. CASE Tick
      BY <3>6, <1>t, <1>o DEF Tick, scanVars
    <3>7. QED
      BY <1>2, <3>1, <3>2, <3>3, <3>4, <3>5, <3>6, <3>8 DEF Next, AddStep, CollectorStep
  <2>3. QED
    BY <2>1, <2>2 DEF TypeOK, Threads
<1>3. QED
  BY <1>1, <1>2

\* Nobody read-locks the lock of a bucket.
LEMMA WritersOnly ==
    ASSUME TypeOK, LockPlaces
    PROVE  \A t \in Threads : mode[t] \in {"idle", "waitW", "holdW"}
BY DEF TypeOK, LockPlaces, Threads, CallPc, CollectorPc

\* The size of the set of users tells whether there are any, and changes by one when
\* a thread joins or leaves.
LEMMA UserCount ==
    ASSUME NEW S \in SUBSET Threads
    PROVE  /\ Cardinality(S) \in Nat
           /\ Cardinality(S) = 0 <=> S = {}
           /\ \A t \in S : Cardinality(S \ {t}) = Cardinality(S) - 1
           /\ \A t \in Threads \ S : Cardinality(S \cup {t}) = Cardinality(S) + 1
<1>1. IsFiniteSet(Threads)
  BY ElementsAssumption, FS_AddElement DEF Threads
<1>2. IsFiniteSet(S)
  BY <1>1, FS_Subset
<1>3. Cardinality(S) \in Nat /\ (Cardinality(S) = 0 <=> S = {})
  BY <1>2, FS_CardinalityType, FS_EmptySet
<1>4. \A t \in S : Cardinality(S \ {t}) = Cardinality(S) - 1
  BY <1>2, FS_RemoveElement
<1>5. \A t \in Threads \ S : Cardinality(S \cup {t}) = Cardinality(S) + 1
  BY <1>2, FS_AddElement
<1>6. QED
  BY <1>3, <1>4, <1>5

\* Each place has the lock, waits for it or does not use it, after every step: a
\* thread that is handed the lock was waiting for it.
LEMMA StepLockPlaces == TypeOK /\ LockPlaces /\ Next => LockPlaces'
<1> SUFFICES ASSUME TypeOK, LockPlaces, Next PROVE LockPlaces'
  OBVIOUS
<1>t. /\ mode \in [Threads -> Lock!Mode] /\ call \in [Elements -> CallPc]
      /\ Collector \in Threads /\ Collector \notin Elements /\ Elements \subseteq Threads
      /\ j \in 0..4 /\ at \in CollectorPc
  BY NamesAssumption DEF TypeOK, Threads
<1>1. ASSUME NEW e \in Elements, AddLock(e) PROVE LockPlaces'
  <2>1. mode'[e] \in {"waitW", "holdW"} /\ \A t \in Threads : t # e => mode'[t] = mode[t]
    BY <1>1, <1>t, LockTaken DEF AddLock
  <2>2. QED
    BY <1>1, <1>t, <2>1 DEF AddLock, Step, LockPlaces, scanVars, CallPc
<1>2. ASSUME NEW e \in Elements, AddUnlock(e) PROVE LockPlaces'
  <2>1. /\ mode'[e] = "idle"
        /\ \A t \in Threads : t # e => mode'[t] = mode[t] \/ (mode[t] = "waitW" /\ mode'[t] = "holdW")
    BY <1>2, <1>t, LockReleased DEF AddUnlock
  <2>2. QED
    BY <1>2, <1>t, <2>1 DEF AddUnlock, Step, LockPlaces, scanVars, CallPc
<1>3. ASSUME Begin PROVE LockPlaces'
  <2>1. mode'[Collector] \in {"waitW", "holdW"} /\ \A t \in Elements : mode'[t] = mode[t]
    BY <1>3, <1>t, LockTaken DEF Begin
  <2>2. QED
    BY <1>3, <1>t, <2>1 DEF Begin, LockPlaces, CallPc
<1>4. ASSUME ReleaseEarly \/ (Unlock /\ mode[Collector] = "holdW") PROVE LockPlaces'
  <2>1. /\ mode'[Collector] = "idle"
        /\ \A t \in Elements : mode'[t] = mode[t] \/ (mode[t] = "waitW" /\ mode'[t] = "holdW")
    BY <1>4, <1>t, LockReleased DEF ReleaseEarly, Unlock
  <2>2. QED
    BY <1>4, <1>t, <2>1 DEF ReleaseEarly, Unlock, LockPlaces, CallPc
<1>5. ASSUME Unlock, mode[Collector] # "holdW" PROVE LockPlaces'
  <2>1. mode[Collector] = "idle"
    BY <1>5, <1>t DEF Unlock, LockPlaces
  <2>2. /\ mode'[Collector] = "idle"
        /\ \A t \in Elements : mode'[t] = mode[t] \/ (mode[t] = "waitW" /\ mode'[t] = "holdW")
    BY <1>5, <1>t, <2>1, LockReleasedAgain DEF Unlock
  <2>3. QED
    BY <1>5, <1>t, <2>2 DEF Unlock, LockPlaces, CallPc
<1>6. ASSUME UNCHANGED mode, NEW e \in Elements, Stamp(e) \/ LinkNext(e) \/ LinkFirst(e)
      PROVE  LockPlaces'
  BY <1>6, <1>t DEF Stamp, LinkNext, LinkFirst, Step, LockPlaces, scanVars
<1>7. ASSUME UNCHANGED mode, Enter \/ Pass \/ Cut \/ ScanEnd \/ Free \/ Sleep \/ Tick
      PROVE  LockPlaces'
  BY <1>7, <1>t DEF Enter, Pass, Cut, ScanEnd, Free, Sleep, Tick, LockPlaces, scanVars
<1>8. QED
  BY <1>1, <1>2, <1>3, <1>4, <1>5, <1>6, <1>7, LockSteps

\* The lock excludes until it is released for somebody else.
LEMMA StepExclusive ==
    TypeOK /\ LockInv /\ Next => (~stolen' => (OneHolder /\ Counted /\ NoneForgotten)')
<1> DEFINE Good == OneHolder /\ Counted /\ NoneForgotten
<1> SUFFICES ASSUME TypeOK, LockInv, Next, ~stolen' PROVE Good'
  OBVIOUS
<1>t. /\ mode \in [Threads -> Lock!Mode] /\ writelock \in Nat /\ readlock = 0
      /\ Collector \in Threads /\ Elements \subseteq Threads
      /\ Users \in SUBSET Threads
  BY DEF TypeOK, Threads, Users
<1>p. TypeOK' /\ LockPlaces'
  BY StepTypeOK, StepLockPlaces DEF LockInv
<1>m. \A t \in Threads : /\ mode[t] \in {"idle", "waitW", "holdW"}
                         /\ mode'[t] \in {"idle", "waitW", "holdW"}
  <2>1. \A t \in Threads : mode[t] \in {"idle", "waitW", "holdW"}
    BY WritersOnly DEF LockInv
  <2>2. \A t \in Threads : mode'[t] \in {"idle", "waitW", "holdW"}
    BY <1>p DEF TypeOK, LockPlaces, Threads, CallPc, CollectorPc
  <2>3. QED
    BY <2>1, <2>2
<1>s. ~stolen
  BY LockSteps DEF AddLock, AddUnlock, Begin, ReleaseEarly, Unlock, UnlockAgain, TypeOK
<1>g. Good
  BY <1>s DEF LockInv
<1>c. /\ writelock = Cardinality(Users)
      /\ Cardinality(Users) = 0 <=> Users = {}
      /\ \A t \in Users : Cardinality(Users \ {t}) = Cardinality(Users) - 1
      /\ \A t \in Threads \ Users : Cardinality(Users \cup {t}) = Cardinality(Users) + 1
  BY <1>g, <1>t, UserCount DEF Counted
<1>1. ASSUME NEW t \in Threads, Lock!LockWrite(t) PROVE Good'
  <2>1. /\ mode[t] = "idle" /\ writelock' = writelock + 1
        /\ mode' = [mode EXCEPT ![t] = IF writelock = 0 THEN "holdW" ELSE "waitW"]
    BY <1>1, LockTaken
  <2>2. Users' = Users \cup {t} /\ t \in Threads \ Users
    BY <1>t, <2>1 DEF Users
  <2>3. Counted'
    BY <1>c, <2>1, <2>2 DEF Counted
  <2>4. CASE writelock = 0
    <3>1. \A u \in Threads : mode[u] = "idle"
      BY <1>c, <2>4 DEF Users
    <3>2. QED
      BY <1>t, <2>1, <2>3, <2>4, <3>1 DEF OneHolder, NoneForgotten
  <2>5. CASE writelock # 0
    <3>1. PICK u \in Threads : mode[u] # "idle"
      BY <1>c, <2>5 DEF Users
    <3>2. PICK h \in Threads : mode[h] = "holdW"
      BY <1>g, <1>m, <3>1 DEF NoneForgotten
    <3>3. mode'[t] = "waitW" /\ \A v \in Threads : v # t => mode'[v] = mode[v]
      BY <1>t, <2>1, <2>5
    <3>4. OneHolder'
      BY <1>g, <3>3 DEF OneHolder
    <3>5. NoneForgotten'
      BY <2>1, <3>2, <3>3 DEF NoneForgotten
    <3>6. QED
      BY <2>3, <3>4, <3>5
  <2>6. QED
    BY <2>4, <2>5
<1>2. ASSUME NEW t \in Threads, Lock!UnlockWrite(t) PROVE Good'
  <2>1. /\ mode[t] = "holdW" /\ writelock' = Lock!MinusOne(writelock)
        /\ \/ \E u \in Threads \ {t} :
                 mode[u] = "waitW" /\ mode' = [[mode EXCEPT ![t] = "idle"] EXCEPT ![u] = "holdW"]
           \/ /\ writelock' > 0 => \A u \in Threads \ {t} : mode[u] # "waitW"
              /\ mode' = [mode EXCEPT ![t] = "idle"]
    BY <1>2, LockReleased
  <2>2. t \in Users /\ writelock # 0
    BY <1>c, <2>1 DEF Users
  <2>3. writelock' = Cardinality(Users \ {t})
    BY <1>c, <1>t, <2>1, <2>2 DEF Lock!MinusOne
  <2>4. Users' = Users \ {t}
    BY <1>t, <2>1 DEF Users
  <2>5. Counted'
    BY <2>3, <2>4 DEF Counted
  <2>6. \A u \in Threads \ {t} : mode[u] # "holdW"
    BY <1>g, <2>1 DEF OneHolder
  <2>7. CASE \E u \in Threads \ {t} :
               mode[u] = "waitW" /\ mode' = [[mode EXCEPT ![t] = "idle"] EXCEPT ![u] = "holdW"]
    <3>1. PICK u \in Threads \ {t} :
               mode[u] = "waitW" /\ mode' = [[mode EXCEPT ![t] = "idle"] EXCEPT ![u] = "holdW"]
      BY <2>7
    <3>2. mode'[u] = "holdW" /\ \A v \in Threads \ {u} : mode'[v] # "holdW"
      BY <1>t, <2>6, <3>1
    <3>3. QED
      BY <2>5, <3>2 DEF OneHolder, NoneForgotten
  <2>8. CASE /\ writelock' > 0 => \A u \in Threads \ {t} : mode[u] # "waitW"
             /\ mode' = [mode EXCEPT ![t] = "idle"]
    <3>1. \A v \in Threads : mode'[v] # "holdW"
      BY <1>t, <2>6, <2>8
    <3>2. \A v \in Threads : mode'[v] # "waitW"
      <4>1. CASE writelock' > 0
        BY <1>t, <2>8, <4>1
      <4>2. CASE ~(writelock' > 0)
        <5>1. writelock' = 0
          BY <1>p, <4>2 DEF TypeOK
        <5>2. Users' = {}
          BY <1>t, <2>3, <2>4, <5>1, UserCount
        <5>3. QED
          BY <5>2 DEF Users
      <4>3. QED
        BY <4>1, <4>2
    <3>3. QED
      BY <2>5, <3>1, <3>2 DEF OneHolder, NoneForgotten
  <2>9. QED
    BY <2>1, <2>7, <2>8
<1>3. ASSUME Unlock, mode[Collector] # "holdW" PROVE Good'
  <2>1. UnlockAgain /\ \A e \in Elements : mode[e] # "holdW"
    BY <1>3 DEF Unlock, UnlockAgain, TypeOK
  <2>2. \A t \in Threads : mode[t] # "holdW"
    BY <1>3, <2>1 DEF Threads
  <2>3. \A t \in Threads : mode[t] = "idle"
    BY <1>g, <1>m, <2>2 DEF NoneForgotten
  <2>4. writelock = 0
    BY <1>c, <2>3 DEF Users
  <2>5. writelock' = 0 /\ mode' = mode
    BY <2>1, <2>3, <2>4, LockReleasedAgain DEF Lock!MinusOne
  <2>6. QED
    BY <1>g, <2>4, <2>5 DEF OneHolder, Counted, NoneForgotten, Users
<1>4. CASE UNCHANGED <<writelock, readlock, mode, stolen>>
  BY <1>g, <1>4 DEF OneHolder, Counted, NoneForgotten, Users
<1>5. QED
  BY <1>1, <1>2, <1>3, <1>4, <1>t, LockSteps DEF AddLock, AddUnlock, Begin, ReleaseEarly, Unlock

(***************************************************************************)
(* The list.                                                                *)
(***************************************************************************)

\* Pointers keep leading to elements that were linked: what was linked stays linked.
LEMMA StepPointers == TypeOK /\ Pointers /\ [Next]_vars => Pointers'
<1> SUFFICES ASSUME TypeOK, Pointers, [Next]_vars PROVE Pointers'
  OBVIOUS
<1>t. /\ call \in [Elements -> CallPc] /\ next \in [Elements -> Elements \cup {Nil}]
      /\ g \in Elements \cup {Nil}
  BY DEF TypeOK
<1>1. ASSUME NEW e \in Elements, Stamp(e) \/ AddLock(e) \/ AddUnlock(e) PROVE Pointers'
  BY <1>1, <1>t DEF Stamp, AddLock, AddUnlock, Step, Pointers, Linked, scanVars
<1>2. ASSUME NEW e \in Elements, LinkNext(e) \/ LinkFirst(e) PROVE Pointers'
  BY <1>2, <1>t DEF LinkNext, LinkFirst, Step, Pointers, Linked, scanVars
<1>3. CASE Begin \/ Enter \/ ReleaseEarly \/ Pass \/ ScanEnd
  BY <1>3, <1>t DEF Begin, Enter, ReleaseEarly, Pass, ScanEnd, Pointers, Linked, scanVars
<1>4. CASE Cut
  BY <1>4, <1>t DEF Cut, Pointers, Linked, scanVars
<1>5. CASE Unlock \/ Free \/ Sleep \/ Tick
  BY <1>5, <1>t DEF Unlock, Free, Sleep, Tick, Pointers, Linked, scanVars
<1>6. CASE UNCHANGED vars
  BY <1>6 DEF vars, scanVars, Pointers, Linked
<1>7. QED
  BY <1>1, <1>2, <1>3, <1>4, <1>5, <1>6 DEF Next, AddStep, CollectorStep

\* Walks come to linked elements only.
LEMMA ChainLinked ==
    ASSUME TypeOK, Pointers, NEW e \in Linked \cup {Nil}
    PROVE  Chain(e) \subseteq Linked
<1>1. next \in Pointing /\ Linked \in SUBSET Elements /\ e \in Elements \cup {Nil}
  BY DEF TypeOK, Pointing, Linked
<1>2. \A m \in Linked : next[m] \in Linked \cup {Nil}
  BY <1>1 DEF Pointers
<1>3. QED
  BY <1>1, <1>2, WalkWithin DEF Chain

\* Before a step, as long as the lock excludes.
Before == TypeOK /\ LockInv /\ Pointers /\ ListInv /\ ~stolen

\* What the steps of the list start from.
LEMMA Standing ==
    ASSUME Before
    PROVE  /\ next \in Pointing /\ first \in Elements \cup {Nil} /\ g \in Elements \cup {Nil}
           /\ prev \in Elements \cup {Nil} /\ Nil \notin Elements
           /\ Chain(first) \subseteq Linked /\ Chain(g) \subseteq Linked /\ Linked \subseteq Elements
           /\ InHand \subseteq Chain(g)
           /\ first # Nil => first \in Chain(first)
           /\ g # Nil => g \in Chain(g)
           /\ \A e, f \in Elements : mode[e] = "holdW" /\ mode[f] = "holdW" => e = f
           /\ \A e \in Elements : mode[e] = "holdW" => mode[Collector] # "holdW"
           /\ \A e \in Elements : call[e] \in {"linking", "linked"} => mode[e] = "holdW"
           /\ at = "scan" /\ j <= 2 => mode[Collector] = "holdW"
<1>1. /\ next \in Pointing /\ first \in Elements \cup {Nil} /\ g \in Elements \cup {Nil}
      /\ prev \in Elements \cup {Nil} /\ Nil \notin Elements
  BY NamesAssumption DEF Before, TypeOK, Pointing
<1>2. first \in Linked \cup {Nil} /\ g \in Linked \cup {Nil}
  BY DEF Before, Pointers
<1>3. Chain(first) \subseteq Linked /\ Chain(g) \subseteq Linked /\ Linked \subseteq Elements
  BY <1>2, ChainLinked DEF Before, Linked
<1>4. InHand \subseteq Chain(g)
  BY DEF InHand
<1>5. (first # Nil => first \in Chain(first)) /\ (g # Nil => g \in Chain(g))
  BY <1>1, WalkGoesOn DEF Chain
<1>6. \A e, f \in Elements : mode[e] = "holdW" /\ mode[f] = "holdW" => e = f
  BY DEF Before, LockInv, OneHolder, Threads
<1>7. \A e \in Elements : mode[e] = "holdW" => mode[Collector] # "holdW"
  BY NamesAssumption DEF Before, LockInv, OneHolder, Threads
<1>8. /\ \A e \in Elements : call[e] \in {"linking", "linked"} => mode[e] = "holdW"
      /\ at = "scan" /\ j <= 2 => mode[Collector] = "holdW"
  BY DEF Before, LockInv, LockPlaces
<1>9. QED
  BY <1>1, <1>3, <1>4, <1>5, <1>6, <1>7, <1>8

\* A step that leaves the pointers and the elements that were linked as they are, and
\* what the collector holds.
LEMMA ListUntouched ==
    ASSUME Before, UNCHANGED <<first, next, freed>>,
           Linked' = Linked, \A e \in Elements : call'[e] = "linking" <=> call[e] = "linking",
           InHand' = InHand, Scanning', HandOpen'
    PROVE  ListInv'
<1>1. Chain(first)' = Chain(first)
  BY DEF Chain
<1>2. QED
  BY <1>1 DEF Before, ListInv, Injective, Heads, Apart, Live, Once, Unfreed, Kept, Chain

\* The steps of add_garbage outside its lock, the release of the lock, and time.
LEMMA AddAroundList ==
    ASSUME Before, NEW e \in Elements, Stamp(e) \/ AddLock(e) \/ AddUnlock(e)
    PROVE  ListInv'
<1>1. UNCHANGED <<first, next, freed, at, g, prev, j>>
  BY DEF Stamp, AddLock, AddUnlock, scanVars
<1>2. /\ Linked' = Linked
      /\ \A f \in Elements : call'[f] = "linking" <=> call[f] = "linking"
  BY DEF Stamp, AddLock, AddUnlock, Step, Linked, Before, TypeOK
<1>3. Chain(first)' = Chain(first) /\ Chain(g)' = Chain(g)
  BY <1>1 DEF Chain
<1>4. InHand' = InHand /\ Scanning' /\ HandOpen'
  BY <1>1, <1>3 DEF InHand, Scanning, HandOpen, Before, ListInv
<1>5. QED
  BY <1>1, <1>2, <1>4, ListUntouched

\* The steps of the collector that do not move on, and time.
LEMMA WaitingList ==
    ASSUME Before, Begin \/ Enter \/ ReleaseEarly \/ Unlock \/ ScanEnd \/ Sleep \/ Tick
    PROVE  ListInv'
<1>1. UNCHANGED <<first, next, freed, call>>
  BY DEF Begin, Enter, ReleaseEarly, Unlock, ScanEnd, Sleep, Tick
<1>2. Linked' = Linked
  BY <1>1 DEF Linked
<1>3. Chain(first)' = Chain(first) /\ (g' = g => Chain(g)' = Chain(g))
  BY <1>1 DEF Chain
<1>4. Chain(Nil) = {}
  BY Standing, WalkFromNil DEF Chain
<1>5. CASE Enter
  <2>1. InHand' = InHand /\ HandOpen'
    BY <1>5 DEF Enter, InHand, HandOpen
  <2>2. Scanning'
    BY <1>3, <1>5, Standing DEF Enter, Scanning
  <2>3. QED
    BY <1>1, <1>2, <2>1, <2>2, ListUntouched
<1>6. CASE Begin \/ Sleep \/ Tick \/ ReleaseEarly
  <2>1. InHand' = InHand
    BY <1>3, <1>4, <1>6 DEF Begin, Sleep, Tick, ReleaseEarly, InHand, scanVars
  <2>2. HandOpen'
    BY <1>1, <1>3, <1>6 DEF Begin, Sleep, Tick, ReleaseEarly, HandOpen, scanVars, Before, ListInv
  <2>3. Scanning'
    BY <1>1, <1>3, <1>6 DEF Begin, Sleep, Tick, ReleaseEarly, Scanning, scanVars, Before, ListInv
  <2>4. QED
    BY <1>1, <1>2, <2>1, <2>2, <2>3, ListUntouched
<1>7. CASE Unlock \/ ScanEnd
  <2>1. InHand' = InHand
    BY <1>3, <1>4, <1>7 DEF Unlock, ScanEnd, InHand, scanVars
  <2>2. HandOpen'
    BY <1>1, <1>3, <1>4, <1>7 DEF Unlock, ScanEnd, HandOpen, scanVars, Before, ListInv
  <2>3. Scanning'
    BY <1>7 DEF Unlock, ScanEnd, Scanning
  <2>4. QED
    BY <1>1, <1>2, <2>1, <2>2, <2>3, ListUntouched
<1>8. QED
  BY <1>5, <1>6, <1>7

\* One element on: g stays in the list, also where the collector has no lock any more.
LEMMA PassList ==
    ASSUME Before, Pass
    PROVE  ListInv'
<1>1. /\ UNCHANGED <<first, next, freed, call, at>> /\ at = "scan" /\ g # Nil
      /\ prev' = g /\ g' = next[g] /\ j \in 0..4 /\ j' = IF j < 4 THEN j + 1 ELSE j
  BY DEF Pass, Before, TypeOK
<1>2. Linked' = Linked /\ Chain(first)' = Chain(first)
  BY <1>1 DEF Linked, Chain
<1>3. InHand' = InHand /\ HandOpen'
  BY <1>1 DEF InHand, HandOpen
<1>4. g \in Chain(first)
  BY <1>1 DEF Before, ListInv, Scanning
<1>5. next[g] \in Chain(first) \cup {Nil}
  BY <1>4, Standing, WalkGoesOn DEF Chain
<1>6. j' # 0
  BY <1>1
<1>7. Scanning'
  BY <1>1, <1>2, <1>4, <1>5, <1>6 DEF Scanning
<1>8. QED
  BY <1>1, <1>2, <1>3, <1>7, ListUntouched

\* A new element points to the head: no walk comes to it yet.
LEMMA LinkNextList ==
    ASSUME Before, NEW e \in Elements, LinkNext(e)
    PROVE  ListInv'
<1>1. /\ mode[e] = "holdW" /\ call[e] = "locking" /\ call' = [call EXCEPT ![e] = "linking"]
      /\ next' = [next EXCEPT ![e] = first] /\ call \in [Elements -> CallPc]
      /\ UNCHANGED <<first, freed, at, g, prev, j>>
  BY DEF LinkNext, Step, scanVars, Before, TypeOK
<1>2. Linked' = Linked /\ e \notin Linked
  BY <1>1 DEF Linked
<1>3. Reach(next', first) = Reach(next, first) /\ Reach(next', g) = Reach(next, g)
  <2>1. e \notin Reach(next, first) /\ e \notin Reach(next, g)
    BY <1>2, Standing DEF Chain
  <2>2. /\ next \in Pointing /\ first \in Elements \cup {Nil} /\ g \in Elements \cup {Nil}
    BY Standing
  <2>3. QED
    BY <1>1, <2>1, <2>2, WalkElsewhere, ZenonT(40)
<1>4. Chain(first)' = Chain(first) /\ Chain(g)' = Chain(g)
  BY <1>1, <1>3 DEF Chain
<1>5. InHand' = InHand
  BY <1>1, <1>4 DEF InHand
<1>6. \A f \in Elements : call[f] = "linking" => f = e
  BY <1>1, Standing
<1>7. \A f \in Elements \ {e} : next'[f] = next[f] /\ (first # Nil => next[f] # first)
  BY <1>1, <1>6, Standing DEF Pointing, Before, ListInv, Heads
<1>8. next'[e] = first
  BY <1>1, Standing DEF Pointing
<1>9. Injective'
  BY <1>7, <1>8 DEF Before, ListInv, Injective
<1>10. Heads'
  BY <1>1, <1>6, <1>7, <1>8 DEF Heads
<1>11. Scanning'
  <2>1. prev # e
    BY <1>2, NamesAssumption DEF Before, Pointers
  <2>2. prev # Nil => next'[prev] = next[prev]
    BY <1>7, <2>1, Standing
  <2>3. QED
    BY <1>1, <1>4, <2>2 DEF Scanning, Before, ListInv
<1>12. HandOpen'
  <2>1. \A f \in Chain(g) : next'[f] = next[f]
    BY <1>2, <1>7, Standing
  <2>2. QED
    BY <1>1, <1>4, <2>1 DEF HandOpen, Before, ListInv
<1>13. Apart' /\ Live' /\ Once' /\ Unfreed' /\ Kept'
  BY <1>1, <1>2, <1>4, <1>5 DEF Apart, Live, Once, Unfreed, Kept, Before, ListInv
<1>14. QED
  BY <1>9, <1>10, <1>11, <1>12, <1>13 DEF ListInv

\* The new element is the head.
LEMMA LinkFirstList ==
    ASSUME Before, NEW e \in Elements, LinkFirst(e)
    PROVE  ListInv'
<1>1. /\ mode[e] = "holdW" /\ call[e] = "linking" /\ call' = [call EXCEPT ![e] = "linked"]
      /\ first' = e /\ call \in [Elements -> CallPc]
      /\ UNCHANGED <<next, freed, at, g, prev, j>>
  BY DEF LinkFirst, Step, scanVars, Before, TypeOK
<1>2. Linked' = Linked \cup {e} /\ e \notin Linked /\ Chain(g)' = Chain(g)
  BY <1>1 DEF Linked, Chain
<1>3. Chain(first)' = {e} \cup Chain(first)
  <2>1. next[e] = first
    BY <1>1 DEF Before, ListInv, Heads
  <2>2. QED
    BY <1>1, <2>1, Standing, WalkUnfolds DEF Chain
<1>4. InHand' = InHand
  BY <1>1, <1>2 DEF InHand
<1>5. Injective' /\ HandOpen'
  BY <1>1, <1>2 DEF Before, ListInv, Injective, HandOpen
<1>6. Heads'
  <2>1. \A f \in Elements : call'[f] # "linking"
    BY <1>1, Standing
  <2>2. \A f \in Elements : next[f] # e
    BY <1>2, NamesAssumption DEF Before, Pointers
  <2>3. QED
    BY <1>1, <2>1, <2>2 DEF Heads
<1>7. Scanning'
  <2>1. at = "scan" => ~(j <= 2)
    BY <1>1, Standing
  <2>2. at = "scan" => j # 0
    BY <2>1 DEF Before, TypeOK
  <2>3. QED
    BY <1>1, <1>3, <2>2 DEF Scanning, Before, ListInv
<1>8. freed[e] = 0 /\ e \notin InHand
  <2>1. e \notin InHand
    BY <1>2, Standing
  <2>2. freed[e] = 0
    BY <1>2 DEF Before, TypeOK, ListInv, Unfreed
  <2>3. QED
    BY <2>1, <2>2
<1>9. Apart' /\ Live' /\ Once' /\ Kept' /\ Unfreed'
  BY <1>1, <1>2, <1>3, <1>4, <1>8 DEF Apart, Live, Once, Kept, Unfreed, Before, ListInv
<1>10. QED
  BY <1>5, <1>6, <1>7, <1>9 DEF ListInv

\* Everything from g on is taken out of the list and in the collector's hand.
LEMMA CutChain ==
    ASSUME Before, Cut
    PROVE  /\ Chain(g)' = Chain(g) /\ Chain(first)' = Chain(first) \ Chain(g)
           /\ Chain(g) \subseteq Chain(first)
           /\ \A e \in Chain(g) : next'[e] # g
<1>1. /\ at = "scan" /\ at' = "unlock" /\ g # Nil /\ UNCHANGED <<freed, call, g, prev, j>>
      /\ prev = Nil => first' = Nil /\ next' = next
      /\ prev # Nil => first' = first /\ next' = [next EXCEPT ![prev] = Nil]
  BY DEF Cut, scanVars
<1>2. next' \in Pointing /\ \A e \in Elements : next'[e] # Nil => next'[e] = next[e]
  BY <1>1, Standing DEF Pointing
<1>3. /\ g \in Chain(first) /\ prev \in Chain(first) \cup {Nil} /\ Injective
      /\ prev # Nil => next[prev] = g
      /\ prev = Nil => j = 0 /\ g = first
  BY <1>1 DEF Before, ListInv, Scanning
<1>4. first # Nil
  BY <1>3, Standing, WalkFromNil DEF Chain
<1>5. \A e \in Chain(first) : next[e] # first
  <2>1. \A e \in Chain(first) : call[e] # "linking" /\ e \in Elements
    BY Standing DEF Linked
  <2>2. QED
    BY <1>4, <2>1 DEF Before, ListInv, Heads
<1>6. QED
  <2>1. CASE prev = Nil
    <3>1. Chain(g)' = Chain(g) /\ Chain(first)' = {} /\ g = first
      BY <1>1, <1>3, <2>1, Standing, WalkFromNil DEF Chain
    <3>2. \A e \in Chain(g) : next'[e] # g
      BY <1>1, <1>5, <2>1, <3>1
    <3>3. QED
      BY <3>1, <3>2
  <2>2. CASE prev # Nil
    <3>1. /\ next \in Pointing /\ first \in Elements /\ prev \in Reach(next, first)
          /\ \A x, y \in Elements : next[x] = next[y] /\ next[x] # Nil => x = y
          /\ \A x \in Reach(next, first) : next[x] # first
          /\ next[prev] = g /\ prev \in Elements
      BY <1>3, <1>4, <1>5, <2>2, Standing DEF Chain, Injective
    <3>2. /\ Reach(next', g) = Reach(next, g)
          /\ Reach(next', first) = Reach(next, first) \ Reach(next, g)
      BY <1>1, <2>2, <3>1, WalkCut
    <3>3. prev \notin Reach(next, g)
      BY <3>1, WalkOnce
    <3>4. Reach(next, g) \subseteq Reach(next, first)
      <4>1. /\ Reach(next, first) \in SUBSET Elements
            /\ \A m \in Reach(next, first) : next[m] \in Reach(next, first) \cup {Nil}
        BY <3>1, WalkGoesOn
      <4>2. QED
        BY <4>1, <1>3, <3>1, Standing, WalkWithin DEF Chain
    <3>5. ASSUME NEW e \in Chain(g), next'[e] = g PROVE FALSE
      <4>1. e \in Elements /\ next[e] = g
        BY <3>5, <1>1, <1>2, Standing
      <4>2. e = prev
        BY <4>1, <3>1, <1>1
      <4>3. QED
        BY <4>2, <3>3, <3>5 DEF Chain
    <3>6. QED
      BY <1>1, <2>2, <3>2, <3>4, <3>5 DEF Chain
  <2>3. QED
    BY <2>1, <2>2

\* The collector has cut off a list of its own.
LEMMA CutList ==
    ASSUME Before, Cut
    PROVE  ListInv'
<1>1. /\ at = "scan" /\ at' = "unlock" /\ g # Nil /\ UNCHANGED <<freed, call, g, prev, j>>
      /\ prev = Nil => first' = Nil /\ next' = next
      /\ prev # Nil => first' = first /\ next' = [next EXCEPT ![prev] = Nil]
  BY DEF Cut, scanVars
<1>2. Linked' = Linked /\ InHand = {} /\ InHand' = Chain(g)' /\ Scanning'
  BY <1>1 DEF Linked, InHand, Scanning
<1>3. next' \in Pointing /\ \A e \in Elements : next'[e] # Nil => next'[e] = next[e]
  BY <1>1, Standing DEF Pointing
<1>4. /\ g \in Chain(first) /\ prev \in Chain(first) \cup {Nil} /\ Injective
      /\ prev # Nil => next[prev] = g
      /\ prev = Nil => j = 0 /\ g = first
  BY <1>1 DEF Before, ListInv, Scanning
<1>5. /\ Chain(g)' = Chain(g) /\ Chain(first)' = Chain(first) \ Chain(g)
      /\ Chain(g) \subseteq Chain(first)
      /\ \A e \in Chain(g) : next'[e] # g
  BY CutChain
<1>6. Injective'
  BY <1>3, <1>4 DEF Injective
<1>7. Heads'
  <2>1. CASE prev = Nil
    <3>1. mode[Collector] = "holdW"
      BY <1>1, <1>4, <2>1, Standing
    <3>2. \A e \in Elements : call[e] # "linking"
      BY <3>1, Standing
    <3>3. QED
      BY <1>1, <2>1, <3>2 DEF Heads
  <2>2. CASE prev # Nil
    <3>1. call[prev] # "linking"
      BY <1>4, <2>2, Standing DEF Linked
    <3>2. \A e \in Elements \ {prev} : next'[e] = next[e]
      BY <1>1, <2>2, Standing DEF Pointing
    <3>3. QED
      BY <1>1, <1>3, <2>2, <3>1, <3>2 DEF Heads, Before, ListInv
  <2>3. QED
    BY <2>1, <2>2
<1>8. HandOpen' /\ Apart'
  BY <1>1, <1>2, <1>5 DEF HandOpen, Apart
<1>9. Live' /\ Once' /\ Kept' /\ Unfreed'
  BY <1>1, <1>2, <1>5 DEF Live, Once, Kept, Unfreed, Before, ListInv
<1>10. QED
  BY <1>2, <1>6, <1>7, <1>8, <1>9 DEF ListInv

\* The first element in the hand is freed, and only it.
LEMMA FreeList ==
    ASSUME Before, Free
    PROVE  ListInv'
<1>1. /\ at = "free" /\ g # Nil /\ g' = next[g]
      /\ freed' = [freed EXCEPT ![g] = IF @ < 2 THEN @ + 1 ELSE @]
      /\ UNCHANGED <<first, next, call, at, prev, j>>
  BY DEF Free
<1>2. Linked' = Linked /\ Chain(first)' = Chain(first) /\ InHand = Chain(g)
  BY <1>1 DEF Linked, Chain, InHand
<1>3. g \in Elements /\ Injective /\ \A e \in Chain(g) : next[e] # g
  BY <1>1, Standing DEF Before, ListInv, HandOpen
<1>4. Chain(g) = {g} \cup Chain(g)' /\ g \notin Chain(g)' /\ g \in Chain(g)
  <2>1. Chain(g)' = Reach(next, next[g])
    BY <1>1 DEF Chain
  <2>2. Reach(next, g) = {g} \cup Reach(next, next[g])
    BY <1>3, Standing, WalkUnfolds
  <2>3. g \notin Reach(next, next[g])
    <3>1. /\ \A x, y \in Elements : next[x] = next[y] /\ next[x] # Nil => x = y
          /\ \A x \in Reach(next, g) : next[x] # g
          /\ g \in Reach(next, g)
      BY <1>3, <2>2 DEF Chain, Injective
    <3>2. QED
      BY <1>3, <3>1, Standing, WalkOnce
  <2>4. QED
    BY <2>1, <2>2, <2>3 DEF Chain
<1>5. InHand' = InHand \ {g}
  BY <1>1, <1>2, <1>4 DEF InHand
<1>6. /\ freed \in [Elements -> 0..2] /\ freed[g] = 0 /\ g \notin Chain(first) /\ g \in Linked
  BY <1>2, <1>4, Standing DEF Before, TypeOK, ListInv, Live, Apart
<1>7. freed'[g] = 1 /\ \A e \in Elements : e # g => freed'[e] = freed[e]
  BY <1>1, <1>3, <1>6
<1>8. HandOpen'
  <2>1. ASSUME NEW e \in Chain(g)', next[e] = next[g] PROVE FALSE
    <3>1. e \in Elements /\ next[e] # Nil
      <4>1. e \in Elements
        BY <1>4, <2>1, Standing
      <4>2. CASE next[g] = Nil
        BY <4>2, <1>1, <2>1, Standing, WalkFromNil DEF Chain
      <4>3. QED
        BY <4>1, <4>2, <2>1
    <3>2. e = g
      BY <1>3, <2>1, <3>1 DEF Injective
    <3>3. QED
      BY <1>4, <2>1, <3>2
  <2>2. QED
    BY <1>1, <2>1 DEF HandOpen
<1>9. Injective' /\ Heads' /\ Scanning' /\ Apart'
  BY <1>1, <1>2, <1>5 DEF Injective, Heads, Scanning, Apart, Before, ListInv
<1>10. Live' /\ Once' /\ Kept' /\ Unfreed'
  BY <1>1, <1>2, <1>3, <1>5, <1>6, <1>7, Standing DEF Live, Once, Kept, Unfreed, Before, ListInv, Linked
<1>11. QED
  BY <1>8, <1>9, <1>10 DEF ListInv

LEMMA StepList == Before /\ Next => ListInv'
<1> SUFFICES ASSUME Before, Next PROVE ListInv'
  OBVIOUS
<1>1. ASSUME NEW e \in Elements, AddStep(e) PROVE ListInv'
  BY <1>1, AddAroundList, LinkNextList, LinkFirstList DEF AddStep
<1>2. CASE CollectorStep \/ Tick
  BY <1>2, WaitingList, PassList, CutList, FreeList DEF CollectorStep
<1>3. QED
  BY <1>1, <1>2 DEF Next

(***************************************************************************)
(* The ages.                                                                *)
(***************************************************************************)

\* What was old when the collector looked at the time stays old.
LEMMA StepExpired == TypeOK /\ Expired /\ [Next]_vars => Expired'
<1> SUFFICES ASSUME TypeOK, Expired, [Next]_vars PROVE Expired'
  OBVIOUS
<1>t. /\ call \in [Elements -> CallPc] /\ age \in [Elements -> 0..Old] /\ expired \subseteq Elements
      /\ Old \in Nat
  BY TimeoutAssumption DEF TypeOK, Old
<1>1. ASSUME NEW e \in Elements, AddStep(e) PROVE Expired'
  <2>1. expired' = expired /\ \A f \in Elements : call[f] # "new" => call'[f] # "new"
    BY <1>1, <1>t DEF AddStep, Stamp, AddLock, LinkNext, LinkFirst, AddUnlock, Step, scanVars
  <2>2. \A f \in Elements : call[f] # "new" => age'[f] = age[f]
    BY <1>1, <1>t DEF AddStep, Stamp, AddLock, LinkNext, LinkFirst, AddUnlock, Step
  <2>3. QED
    BY <1>t, <2>1, <2>2 DEF Expired
<1>2. CASE Begin
  BY <1>2 DEF Begin, Expired
<1>3. CASE Enter \/ ReleaseEarly \/ Pass \/ Cut \/ ScanEnd \/ Unlock \/ Free \/ Sleep
  BY <1>3 DEF Enter, ReleaseEarly, Pass, Cut, ScanEnd, Unlock, Free, Sleep, scanVars, Expired
<1>4. CASE Tick
  BY <1>4, <1>t DEF Tick, scanVars, Expired
<1>5. CASE UNCHANGED vars
  BY <1>5 DEF vars, scanVars, Expired
<1>6. QED
  BY <1>1, <1>2, <1>3, <1>4, <1>5 DEF Next, CollectorStep

\* Behind an element that is old everything is.
LEMMA OldBehind ==
    ASSUME TypeOK, Pointers, InOrder, NEW e \in Linked, age[e] = Old
    PROVE  \A f \in Chain(e) : age[f] = Old
<1> DEFINE S == {f \in Linked : age[f] = Old}
<1>1. next \in Pointing /\ S \in SUBSET Elements /\ e \in Elements \cup {Nil} /\ e \in S \cup {Nil}
  BY DEF TypeOK, Pointing, Linked
<1>2. \A f \in S : next[f] \in S \cup {Nil}
  <2>1. SUFFICES ASSUME NEW f \in S, next[f] # Nil PROVE age[next[f]] = Old
    BY DEF Pointers, Linked
  <2>2. f \in Linked /\ next[f] \in Elements /\ age[f] = Old
    BY <1>1, <2>1 DEF Pointing
  <2>3. age[next[f]] \in 0..Old /\ Old \in Nat
    BY <2>2, TimeoutAssumption DEF TypeOK, Old
  <2>4. Old <= age[next[f]]
    BY <2>1, <2>2 DEF InOrder
  <2>5. QED
    BY <2>3, <2>4
<1>3. Reach(next, e) \subseteq S
  BY <1>1, <1>2, WalkWithin
<1>4. QED
  BY <1>3 DEF Chain

\* Elements are linked in the order of their ages, as long as none comes late.
LEMMA StepInOrder == Before /\ InOrder /\ Next => (~late' => InOrder')
<1> SUFFICES ASSUME Before, InOrder, Next, ~late' PROVE InOrder'
  OBVIOUS
<1>t. /\ call \in [Elements -> CallPc] /\ age \in [Elements -> 0..Old] /\ Old \in Nat
      /\ next \in Pointing /\ Nil \notin Elements /\ Linked \subseteq Elements
      /\ \A e \in Elements : next[e] \in Linked \cup {Nil}
  BY TimeoutAssumption, Standing DEF Before, TypeOK, Old, Pointers
<1>1. ASSUME NEW e \in Elements, Stamp(e) PROVE InOrder'
  <2>1. next' = next /\ Linked' = Linked /\ e \notin Linked /\ age' = [age EXCEPT ![e] = 0]
    BY <1>1, <1>t DEF Stamp, Step, Linked
  <2>2. QED
    BY <1>t, <2>1 DEF InOrder
<1>2. ASSUME NEW e \in Elements, AddLock(e) \/ AddUnlock(e) PROVE InOrder'
  <2>1. next' = next /\ Linked' = Linked /\ age' = age
    BY <1>2, <1>t DEF AddLock, AddUnlock, Step, Linked
  <2>2. QED
    BY <2>1 DEF InOrder
<1>3. ASSUME NEW e \in Elements, LinkNext(e) PROVE InOrder'
  <2>1. /\ Linked' = Linked /\ age' = age /\ e \notin Linked
        /\ \A f \in Elements \ {e} : next'[f] = next[f]
    BY <1>3, <1>t DEF LinkNext, Step, Linked, Pointing
  <2>2. QED
    BY <1>t, <2>1 DEF InOrder
<1>4. ASSUME NEW e \in Elements, LinkFirst(e) PROVE InOrder'
  <2>1. Linked' = Linked \cup {e} /\ age' = age /\ next' = next /\ next[e] = first
    BY <1>4, <1>t DEF LinkFirst, Step, Linked, Before, ListInv, Heads
  <2>2. first # Nil => ~(age[first] < age[e])
    BY <1>4 DEF LinkFirst, Before, TypeOK
  <2>3. first # Nil => age[e] <= age[first]
    BY <1>t, <2>1, <2>2
  <2>4. QED
    BY <2>1, <2>3 DEF InOrder
<1>5. CASE Tick
  <2>1. /\ Linked' = Linked /\ next' = next
        /\ \A f \in Linked : age'[f] = IF age[f] < Old THEN age[f] + 1 ELSE age[f]
    BY <1>5, <1>t DEF Tick, Linked
  <2>2. SUFFICES ASSUME NEW f \in Linked, next[f] # Nil PROVE age'[f] <= age'[next[f]]
    BY <2>1 DEF InOrder
  <2>3. next[f] \in Linked /\ age[f] <= age[next[f]]
    BY <1>t, <2>2 DEF InOrder
  <2>4. QED
    BY <1>t, <2>1, <2>3
<1>6. CASE Cut
  <2>1. Linked' = Linked /\ age' = age /\ \A f \in Elements : next'[f] # Nil => next'[f] = next[f]
    BY <1>6, <1>t DEF Cut, Linked, Pointing
  <2>2. QED
    BY <1>t, <2>1 DEF InOrder
<1>7. CASE Begin \/ Enter \/ ReleaseEarly \/ Pass \/ ScanEnd \/ Unlock \/ Free \/ Sleep
  BY <1>7 DEF Begin, Enter, ReleaseEarly, Pass, ScanEnd, Unlock, Free, Sleep, InOrder, Linked
<1>8. QED
  BY <1>1, <1>2, <1>3, <1>4, <1>5, <1>6, <1>7 DEF Next, AddStep, CollectorStep

\* What the collector has in its hand changes only when it cuts and when it frees.
LEMMA HandKept ==
    ASSUME Before, Next, ~Cut, ~Free
    PROVE  InHand' = InHand
<1>1. ASSUME NEW e \in Elements, AddStep(e) PROVE InHand' = InHand
  <2>1. UNCHANGED <<at, g>>
    BY <1>1 DEF AddStep, Stamp, AddLock, LinkNext, LinkFirst, AddUnlock, scanVars
  <2>2. CASE LinkNext(e)
    <3>1. next' = [next EXCEPT ![e] = first] /\ e \notin Linked
      BY <2>2 DEF LinkNext, Step, Linked
    <3>2. e \notin Reach(next, g) /\ next \in Pointing /\ g \in Elements \cup {Nil}
          /\ first \in Elements \cup {Nil}
      BY <3>1, Standing DEF Chain
    <3>3. Reach(next', g) = Reach(next, g)
      BY <3>1, <3>2, WalkElsewhere
    <3>4. QED
      BY <2>1, <3>3 DEF InHand, Chain
  <2>3. CASE next' = next
    BY <2>1, <2>3 DEF InHand, Chain
  <2>4. QED
    BY <1>1, <2>2, <2>3 DEF AddStep, Stamp, AddLock, LinkFirst, AddUnlock
<1>2. CASE Begin \/ Enter \/ ReleaseEarly \/ Pass
  BY <1>2 DEF Begin, Enter, ReleaseEarly, Pass, InHand
<1>3. CASE ScanEnd \/ Sleep
  <2>1. Chain(Nil) = {}
    BY Standing, WalkFromNil DEF Chain
  <2>2. at \in {"scan", "free"} /\ g = Nil /\ g' = g /\ next' = next /\ at' \in {"unlock", "sleep"}
    BY <1>3 DEF ScanEnd, Sleep, scanVars
  <2>3. QED
    BY <2>1, <2>2 DEF InHand, Chain
<1>4. CASE Unlock \/ Tick
  BY <1>4 DEF Unlock, Tick, InHand, Chain, scanVars
<1>5. QED
  BY <1>1, <1>2, <1>3, <1>4 DEF Next, CollectorStep

\* What is taken out and what is freed is old.
LEMMA StepOldOut ==
    Before /\ Expired /\ InOrder /\ OldOut /\ Next => OldOut'
<1> SUFFICES ASSUME Before, Expired, InOrder, OldOut, Next PROVE OldOut'
  OBVIOUS
<1>t. /\ call \in [Elements -> CallPc] /\ age \in [Elements -> 0..Old] /\ Old \in Nat
      /\ freed \in [Elements -> 0..2]
  BY TimeoutAssumption DEF Before, TypeOK, Old
<1>a. ASSUME NEW e \in Elements, e \in InHand \/ freed[e] > 0 PROVE age[e] = Old /\ age'[e] = Old
  <2>1. age[e] = Old
    BY <1>a DEF OldOut
  <2>2. e \in Linked
    BY <1>a, Standing DEF Before, ListInv, Unfreed
  <2>3. call[e] # "new"
    BY <2>2 DEF Linked
  <2>4. age'[e] = Old
    <3>1. CASE \E f \in Elements : Stamp(f)
      BY <1>t, <2>1, <2>3, <3>1 DEF Stamp, Step
    <3>2. CASE Tick
      BY <1>t, <2>1, <3>2 DEF Tick
    <3>3. CASE age' = age
      BY <2>1, <3>3
    <3>4. QED
      BY <3>1, <3>2, <3>3 DEF Next, AddStep, CollectorStep, AddLock, LinkNext, LinkFirst, AddUnlock,
         Begin, Enter, ReleaseEarly, Pass, Cut, ScanEnd, Unlock, Free, Sleep
  <2>5. QED
    BY <2>1, <2>4
<1>1. CASE Cut
  <2>1. freed' = freed /\ age' = age /\ g \in expired /\ g \in Linked /\ at' = "unlock"
    BY <1>1, NamesAssumption DEF Cut, scanVars, Before, Pointers, TypeOK
  <2>2. \A e \in Chain(g) : age[e] = Old
    BY <2>1, OldBehind DEF Before, Expired
  <2>3. Chain(g)' = Chain(g)
    BY <1>1, CutChain
  <2>4. InHand' = Chain(g)
    BY <2>1, <2>3 DEF InHand
  <2>5. QED
    BY <1>a, <2>1, <2>2, <2>4 DEF OldOut
<1>2. CASE Free
  <2>1. g \in InHand
    BY <1>2, Standing DEF Free, InHand
  <2>2. \A e \in Elements : freed'[e] > 0 => e = g \/ freed[e] > 0
    BY <1>2, <1>t DEF Free
  <2>3. InHand' \subseteq InHand
    <3>1. next' = next /\ g' = next[g] /\ at = "free" /\ at' = "free" /\ g \in Elements
      BY <1>2, Standing DEF Free
    <3>2. Reach(next, next[g]) \subseteq Reach(next, g)
      BY <3>1, Standing, WalkUnfolds
    <3>3. QED
      BY <3>1, <3>2 DEF InHand, Chain
  <2>4. QED
    BY <1>a, <2>1, <2>2, <2>3 DEF OldOut
<1>3. CASE ~Cut /\ ~Free
  <2>1. freed' = freed
    BY <1>3 DEF Next, AddStep, CollectorStep, Stamp, AddLock, LinkNext, LinkFirst, AddUnlock,
         Begin, Enter, ReleaseEarly, Pass, ScanEnd, Unlock, Sleep, Tick
  <2>2. InHand' = InHand
    BY <1>3, HandKept
  <2>3. QED
    BY <1>a, <2>1, <2>2 DEF OldOut
<1>4. QED
  BY <1>1, <1>2, <1>3

(***************************************************************************)
(* The invariant.                                                           *)
(***************************************************************************)

\* An empty bucket, nobody at work.
LEMMA InitIInv == Init => IInv
<1> SUFFICES ASSUME Init PROVE IInv
  OBVIOUS
<1>1. TypeOK
  BY InitTypeOK
<1>2. /\ mode = [t \in Threads |-> "idle"] /\ writelock = 0 /\ at = "sleep"
      /\ call = [e \in Elements |-> "new"] /\ first = Nil /\ g = Nil /\ prev = Nil
      /\ next = [e \in Elements |-> Nil] /\ freed = [e \in Elements |-> 0] /\ expired = {}
  BY DEF Init, Lock!Init, Threads
<1>3. LockInv
  <2>1. Users = {} /\ Cardinality({}) = 0
    BY <1>2, FS_EmptySet DEF Users
  <2>2. LockPlaces
    BY <1>2 DEF LockPlaces, Threads
  <2>3. QED
    BY <1>2, <2>1, <2>2 DEF LockInv, OneHolder, Counted, NoneForgotten
<1>4. Pointers /\ Linked = {}
  BY <1>2 DEF Pointers, Linked
<1>5. ListInv
  <2>1. next \in Pointing
    BY <1>2 DEF Pointing
  <2>2. Chain(first) = {} /\ InHand = {}
    BY <1>2, <2>1, WalkFromNil DEF Chain, InHand
  <2>3. Injective /\ Heads /\ Scanning /\ HandOpen
    BY <1>2 DEF Injective, Heads, Scanning, HandOpen
  <2>4. Apart /\ Live /\ Once /\ Unfreed /\ Kept
    BY <1>2, <1>4, <2>2 DEF Apart, Live, Once, Unfreed, Kept
  <2>5. QED
    BY <2>3, <2>4 DEF ListInv
<1>6. Expired /\ InOrder /\ OldOut
  BY <1>2, <1>4 DEF Expired, InOrder, OldOut, InHand
<1>7. QED
  BY <1>1, <1>3, <1>4, <1>5, <1>6 DEF IInv

\* stolen and late are set for good.
LEMMA HistoryStays == TypeOK /\ [Next]_vars => (stolen => stolen') /\ (late => late')
BY DEF TypeOK, Next, AddStep, CollectorStep, Stamp, AddLock, LinkNext, LinkFirst, AddUnlock,
   Begin, Enter, ReleaseEarly, Pass, Cut, ScanEnd, Unlock, UnlockAgain, Free, Sleep, Tick, vars

LEMMA StepIInv == IInv /\ [Next]_vars => IInv'
<1> SUFFICES ASSUME IInv, [Next]_vars PROVE IInv'
  OBVIOUS
<1>1. TypeOK' /\ Pointers' /\ Expired'
  BY StepTypeOK, StepPointers, StepExpired DEF IInv
<1>2. CASE UNCHANGED vars
  <2>1. LockInv'
    BY <1>2 DEF IInv, vars, lockVars, scanVars, LockInv, LockPlaces, OneHolder, Counted, Users,
       NoneForgotten
  <2>2. ~stolen' => ListInv'
    BY <1>2 DEF IInv, vars, scanVars, ListInv, Injective, Heads, Scanning, HandOpen, Apart, Live,
       Once, Unfreed, Kept, Chain, InHand, Linked
  <2>3. ~stolen' /\ ~late' => InOrder' /\ OldOut'
    BY <1>2 DEF IInv, vars, scanVars, InOrder, OldOut, Linked, InHand, Chain
  <2>4. QED
    BY <1>1, <2>1, <2>2, <2>3 DEF IInv
<1>3. CASE Next
  <2>1. LockInv'
    BY <1>3, StepLockPlaces, StepExclusive DEF IInv, LockInv
  <2>2. ASSUME ~stolen' PROVE ListInv' /\ (~late' => InOrder' /\ OldOut')
    <3>1. Before
      BY <2>2, HistoryStays DEF IInv, Before
    <3>2. ~late' => InOrder /\ OldOut
      BY <2>2, HistoryStays DEF IInv
    <3>3. QED
      BY <1>3, <3>1, <3>2, StepList, StepInOrder, StepOldOut DEF IInv
  <2>3. QED
    BY <1>1, <2>1, <2>2 DEF IInv
<1>4. QED
  BY <1>2, <1>3

LEMMA Invariant == Spec => []IInv
<1>1. QED
  BY InitIInv, StepIInv, PTL DEF Spec

(***************************************************************************)
(* What the collector guarantees.                                           *)
(***************************************************************************)

\* The variables of the bucket and the collector have their types; the counters of the
\* lock stay numbers although it is released once too often.
THEOREM TypeCorrect == Spec => []TypeOK
<1>1. IInv => TypeOK
  BY DEF IInv
<1>2. QED
  BY <1>1, Invariant, PTL

\* What add_garbage has linked stays in the list, or in the collector's hand, until it
\* is freed, however many threads add to the bucket meanwhile.
THEOREM NothingIsLost == Spec => []NothingLost
<1>1. IInv => NothingLost
  BY DEF IInv, ListInv, Kept, Linked, NothingLost
<1>2. QED
  BY <1>1, Invariant, PTL

\* No element is freed twice or while it can be reached, although the collector goes on
\* and cuts the list without the lock.
THEOREM FreedAtMostOnce == Spec => []FreedOnce
<1>1. IInv => FreedOnce
  BY DEF IInv, ListInv, Once, Live, FreedOnce
<1>2. QED
  BY <1>1, Invariant, PTL

\* Everything that is cut off with the first old element is old, if the elements were
\* linked in the order of their stamps.
THEOREM NeverEarly == Spec => []NotEarly
<1>1. IInv => NotEarly
  <2> SUFFICES ASSUME IInv, ~stolen, ~late, NEW e \in Elements, e \in InHand \/ freed[e] > 0
               PROVE  age[e] > Timeout
    BY DEF NotEarly
  <2>1. age[e] = Timeout + 1
    BY DEF IInv, OldOut, Old
  <2>2. QED
    BY <2>1, TimeoutAssumption
<1>2. QED
  BY <1>1, Invariant, PTL
=============================================================================
