---------------------------- MODULE CsLockProofs ----------------------------
(***************************************************************************)
(* Theorems about CsLock for any finite set of threads.                     *)
(***************************************************************************)
EXTENDS CsLock, FiniteSetTheorems, TLAPS

WriteUsers == In({"waitW", "holdW"})
ReadUsers == In({"waitR", "holdR"})

\* With forced locks and spurious wake-ups the counters may lose threads, never
\* invent one.
CountsBounded ==
    /\ writelock <= Cardinality(WriteUsers)
    /\ readlock <= Cardinality(ReadUsers)

ReadersMayRead == ReadUsers \subseteq mayRead

ReadersAwaitWriters == orderly /\ In({"waitR"}) # {} => WriteUsers # {}

IInv ==
    /\ TypeOK
    /\ CountsBounded
    /\ CountsExact
    /\ NoLostWakeup
    /\ ReadersMayRead
    /\ ReadersAwaitWriters
    /\ ExclusiveWithOneReader

(***************************************************************************)
(* Counting the threads of a set.                                           *)
(***************************************************************************)

\* The size of a set of threads is a number, zero only for the empty set.
LEMMA ThreadCount ==
    ASSUME NEW S \in SUBSET Threads
    PROVE  /\ Cardinality(S) \in Nat
           /\ Cardinality(S) = 0 <=> S = {}
<1>1. IsFiniteSet(S)
  BY FS_Subset, ThreadsAssumption
<1>2. QED
  BY <1>1, FS_CardinalityType, FS_EmptySet

\* A thread that starts to use the lock.
LEMMA ThreadJoins ==
    ASSUME NEW S \in SUBSET Threads, NEW t \in Threads, t \notin S
    PROVE  Cardinality(S \cup {t}) = Cardinality(S) + 1
<1>1. IsFiniteSet(S)
  BY FS_Subset, ThreadsAssumption
<1>2. QED
  BY <1>1, FS_AddElement

\* A thread that gives the lock back.
LEMMA ThreadLeaves ==
    ASSUME NEW S \in SUBSET Threads, NEW t \in S
    PROVE  /\ Cardinality(S) > 0
           /\ Cardinality(S \ {t}) = Cardinality(S) - 1
<1>1. IsFiniteSet(S)
  BY FS_Subset, ThreadsAssumption
<1>2. Cardinality(S) \in Nat /\ Cardinality(S) # 0
  BY ThreadCount
<1>3. Cardinality(S \ {t}) = Cardinality(S) - 1
  BY <1>1, FS_RemoveElement
<1>4. QED
  BY <1>2, <1>3

(***************************************************************************)
(* The invariant.                                                           *)
(***************************************************************************)

\* Nobody uses a new lock.
LEMMA InitIInv == Init => IInv
<1> SUFFICES ASSUME Init PROVE IInv
  OBVIOUS
<1>1. \A modes \in SUBSET {"waitW", "holdW", "waitR", "holdR"} : In(modes) = {}
  BY DEF Init, In
<1>2. In({"waitW", "holdW"}) = {} /\ In({"waitR", "holdR"}) = {}
  BY <1>1
<1>3. In({"waitR"}) = {} /\ In({"waitW", "waitR"}) = {} /\ Holders = {}
  BY <1>1 DEF Holders
<1>4. Cardinality({}) = 0
  BY FS_EmptySet
<1>5. TypeOK
  BY ThreadsAssumption, TimingsAssumption DEF Init, TypeOK, Mode
<1>6. CountsBounded /\ CountsExact
  BY <1>2, <1>4 DEF Init, CountsBounded, CountsExact, WriteUsers, ReadUsers
<1>7. NoLostWakeup /\ ReadersMayRead /\ ReadersAwaitWriters /\ ExclusiveWithOneReader
  BY <1>2, <1>3 DEF NoLostWakeup, ReadersMayRead, ReadersAwaitWriters, ExclusiveWithOneReader,
     Exclusive, ReadUsers
<1>8. QED
  BY <1>5, <1>6, <1>7 DEF IInv

\* Each action preserves the type of the variables.
LEMMA StepTypeOK == TypeOK /\ [Next]_vars => TypeOK'
<1> SUFFICES ASSUME TypeOK, [Next]_vars PROVE TypeOK'
  OBVIOUS
<1> USE DEF TypeOK, Mode
<1>1. ASSUME NEW n \in Nat PROVE MinusOne(n) \in Nat
  BY DEF MinusOne
<1>2. ASSUME NEW m \in [Threads -> Mode], SignalWriter(m) PROVE mode' \in [Threads -> Mode]
  BY <1>2 DEF SignalWriter
<1>3. ASSUME NEW m \in [Threads -> Mode] PROVE WakeReaders(m) \in [Threads -> Mode]
  BY DEF WakeReaders
<1>4. ASSUME NEW t \in Threads, LockWrite(t) \/ LockRead(t) \/ TryWrite(t) \/ TryRead(t) PROVE TypeOK'
  BY <1>4 DEF LockWrite, LockRead, TryWrite, TryRead
<1>5. ASSUME NEW t \in Threads, ForceWrite(t) \/ ForceRead(t) \/ Spurious(t) PROVE TypeOK'
  BY <1>5 DEF ForceWrite, ForceRead, Spurious
<1>6. ASSUME NEW t \in Threads, UnlockWrite(t) PROVE TypeOK'
  <2> DEFINE m == [mode EXCEPT ![t] = "idle"]
  <2>1. m \in [Threads -> Mode]
    OBVIOUS
  <2>2. SignalWriter(m) \/ mode' = WakeReaders(m) \/ mode' = m
    BY <1>6 DEF UnlockWrite
  <2>3. mode' \in [Threads -> Mode]
    BY <2>1, <2>2, <1>2, <1>3
  <2>4. QED
    BY <2>3, <1>6, <1>1 DEF UnlockWrite
<1>7. ASSUME NEW t \in Threads, UnlockRead(t) PROVE TypeOK'
  <2> DEFINE m == [mode EXCEPT ![t] = "idle"]
  <2>1. m \in [Threads -> Mode]
    OBVIOUS
  <2>2. SignalWriter(m) \/ mode' = m
    BY <1>7 DEF UnlockRead
  <2>3. mode' \in [Threads -> Mode]
    BY <2>1, <2>2, <1>2
  <2>4. QED
    BY <2>3, <1>7, <1>1 DEF UnlockRead
<1>8. CASE UNCHANGED vars
  BY <1>8 DEF vars
<1>9. QED
  BY <1>4, <1>5, <1>6, <1>7, <1>8 DEF Next

\* What the modes say, with the sets of threads opened up.
LEMMA Opened ==
    ASSUME TypeOK
    PROVE  /\ WriteUsers \in SUBSET Threads /\ ReadUsers \in SUBSET Threads
           /\ WriteUsers = {} <=> Cardinality(WriteUsers) = 0
           /\ ReadUsers = {} <=> Cardinality(ReadUsers) = 0
           /\ Cardinality(WriteUsers) \in Nat /\ Cardinality(ReadUsers) \in Nat
<1>1. WriteUsers \in SUBSET Threads /\ ReadUsers \in SUBSET Threads
  BY DEF WriteUsers, ReadUsers, In
<1>2. QED
  BY <1>1, ThreadCount

\* The counters after each step: a thread that joins is counted, one that
\* leaves is not, and waking a thread changes neither set.
LEMMA StepCounts ==
    IInv /\ [Next]_vars => CountsBounded' /\ CountsExact'
<1> SUFFICES ASSUME IInv, [Next]_vars PROVE CountsBounded' /\ CountsExact'
  OBVIOUS
<1> DEFINE W == WriteUsers
           R == ReadUsers
<1>t. TypeOK /\ TypeOK'
  BY StepTypeOK DEF IInv
<1>c. /\ Cardinality(W) \in Nat /\ Cardinality(R) \in Nat
      /\ W \in SUBSET Threads /\ R \in SUBSET Threads
  BY <1>t, Opened
<1>b. /\ writelock \in Nat /\ readlock \in Nat
      /\ writelock <= Cardinality(W) /\ readlock <= Cardinality(R)
      /\ orderly => writelock = Cardinality(W) /\ readlock = Cardinality(R)
  BY <1>t DEF IInv, TypeOK, CountsBounded, CountsExact, WriteUsers, ReadUsers
<1> SUFFICES /\ writelock' <= Cardinality(W') /\ readlock' <= Cardinality(R')
             /\ orderly' => writelock' = Cardinality(W') /\ readlock' = Cardinality(R')
  BY DEF CountsBounded, CountsExact, WriteUsers, ReadUsers
<1>1. ASSUME NEW t \in Threads, LockWrite(t) \/ TryWrite(t)
      PROVE  W' = W \cup {t} /\ R' = R /\ t \notin W /\ writelock' = writelock + 1
             /\ readlock' = readlock /\ orderly' = orderly
  BY <1>1, <1>t DEF LockWrite, TryWrite, WriteUsers, ReadUsers, In, TypeOK, Mode
<1>2. ASSUME NEW t \in Threads, LockRead(t) \/ TryRead(t)
      PROVE  R' = R \cup {t} /\ W' = W /\ t \notin R /\ readlock' = readlock + 1
             /\ writelock' = writelock /\ orderly' = orderly
  BY <1>2, <1>t DEF LockRead, TryRead, WriteUsers, ReadUsers, In, TypeOK, Mode
<1>3. ASSUME NEW t \in Threads, ForceWrite(t)
      PROVE  W' = W /\ R' = R /\ t \in W /\ ~orderly' /\ writelock' = 1 /\ readlock' = 0
  BY <1>3, <1>t DEF ForceWrite, WriteUsers, ReadUsers, In, TypeOK, Mode
<1>4. ASSUME NEW t \in Threads, ForceRead(t)
      PROVE  W' = W /\ R' = R /\ t \in R /\ ~orderly' /\ writelock' = 0 /\ readlock' = 1
  BY <1>4, <1>t DEF ForceRead, WriteUsers, ReadUsers, In, TypeOK, Mode
<1>5. ASSUME NEW t \in Threads, Spurious(t)
      PROVE  W' = W /\ R' = R /\ UNCHANGED <<orderly, writelock, readlock>>
  BY <1>5, <1>t DEF Spurious, WriteUsers, ReadUsers, In, TypeOK, Mode
<1>6. ASSUME NEW t \in Threads, UnlockWrite(t)
      PROVE  W' = W \ {t} /\ R' = R /\ t \in W /\ writelock' = MinusOne(writelock)
             /\ readlock' = readlock /\ orderly' = orderly
  BY <1>6, <1>t DEF UnlockWrite, SignalWriter, WakeReaders, WriteUsers, ReadUsers, In, TypeOK, Mode
<1>7. ASSUME NEW t \in Threads, UnlockRead(t)
      PROVE  R' = R \ {t} /\ W' = W /\ t \in R /\ readlock' = MinusOne(readlock)
             /\ writelock' = writelock /\ orderly' = orderly
  BY <1>7, <1>t DEF UnlockRead, SignalWriter, WriteUsers, ReadUsers, In, TypeOK, Mode
<1>8. CASE UNCHANGED vars
  BY <1>8, <1>b DEF vars, WriteUsers, ReadUsers, In
<1>9. ASSUME NEW t \in Threads, LockWrite(t) \/ TryWrite(t) \/ LockRead(t) \/ TryRead(t)
      PROVE  /\ writelock' <= Cardinality(W') /\ readlock' <= Cardinality(R')
             /\ orderly' => writelock' = Cardinality(W') /\ readlock' = Cardinality(R')
  BY <1>9, <1>1, <1>2, <1>b, <1>c, ThreadJoins
<1>10. ASSUME NEW t \in Threads, ForceWrite(t) \/ ForceRead(t) \/ Spurious(t)
       PROVE  /\ writelock' <= Cardinality(W') /\ readlock' <= Cardinality(R')
              /\ orderly' => writelock' = Cardinality(W') /\ readlock' = Cardinality(R')
  <2>1. CASE ForceWrite(t)
    <3>1. t \in W /\ W' = W /\ R' = R
      BY <2>1, <1>3
    <3>2. Cardinality(W) > 0
      BY <3>1, <1>c, ThreadLeaves
    <3>3. Cardinality(W) >= 1
      BY <3>2, <1>c
    <3>4. QED
      BY <2>1, <1>3, <1>c, <3>3
  <2>2. CASE ForceRead(t)
    <3>1. t \in R /\ W' = W /\ R' = R
      BY <2>2, <1>4
    <3>2. Cardinality(R) > 0
      BY <3>1, <1>c, ThreadLeaves
    <3>3. Cardinality(R) >= 1
      BY <3>2, <1>c
    <3>4. QED
      BY <2>2, <1>4, <1>c, <3>3
  <2>3. CASE Spurious(t)
    BY <2>3, <1>5, <1>b
  <2>4. QED
    BY <1>10, <2>1, <2>2, <2>3
<1>11. ASSUME NEW t \in Threads, UnlockWrite(t) \/ UnlockRead(t)
       PROVE  /\ writelock' <= Cardinality(W') /\ readlock' <= Cardinality(R')
              /\ orderly' => writelock' = Cardinality(W') /\ readlock' = Cardinality(R')
  BY <1>11, <1>6, <1>7, <1>b, <1>c, ThreadLeaves DEF MinusOne
<1>12. QED
  BY <1>8, <1>9, <1>10, <1>11 DEF Next

\* What an exact count tells a thread that reads it: zero means nobody is there.
LEMMA ZeroMeansNobody ==
    ASSUME TypeOK, CountsExact, orderly
    PROVE  /\ writelock = 0 <=> \A t \in Threads : mode[t] \notin {"waitW", "holdW"}
           /\ readlock = 0 <=> \A t \in Threads : mode[t] \notin {"waitR", "holdR"}
           /\ writelock \in Nat /\ readlock \in Nat
<1>1. writelock = Cardinality(WriteUsers) /\ readlock = Cardinality(ReadUsers)
  BY DEF CountsExact, WriteUsers, ReadUsers
<1>2. (writelock = 0 <=> WriteUsers = {}) /\ (readlock = 0 <=> ReadUsers = {})
  BY <1>1, Opened
<1>3. QED
  BY <1>2 DEF WriteUsers, ReadUsers, In, TypeOK

\* Who waits, who holds and who may read, after each step.
LEMMA StepModes ==
    IInv /\ [Next]_vars =>
        NoLostWakeup' /\ ReadersMayRead' /\ ReadersAwaitWriters' /\ ExclusiveWithOneReader'
<1> SUFFICES ASSUME IInv, [Next]_vars
    PROVE  NoLostWakeup' /\ ReadersMayRead' /\ ReadersAwaitWriters' /\ ExclusiveWithOneReader'
  OBVIOUS
<1> DEFINE Waits(t) == mode[t] \in {"waitW", "waitR"}
           Holds(t) == mode[t] \in {"holdW", "holdR"}
           Writes(t) == mode[t] \in {"waitW", "holdW"}
           Reads(t) == mode[t] \in {"waitR", "holdR"}
           Lost == /\ (\E t \in Threads : Waits(t)) => \E t \in Threads : Holds(t)
           May == \A t \in Threads : Reads(t) => t \in mayRead
           Await == (\E t \in Threads : mode[t] = "waitR") => \E t \in Threads : Writes(t)
           Excl == OneReader =>
                     \A t, u \in Threads :
                        Holds(t) /\ Holds(u) /\ t # u => mode[t] = "holdR" /\ mode[u] = "holdR"
<1>t. TypeOK /\ TypeOK' /\ CountsExact /\ CountsExact'
  BY StepTypeOK, StepCounts DEF IInv
<1>m. /\ mode \in [Threads -> Mode] /\ mode' \in [Threads -> Mode]
  BY <1>t DEF TypeOK
<1>i. May /\ (orderly => Lost /\ Await /\ Excl)
  BY DEF IInv, NoLostWakeup, ReadersMayRead, ReadersAwaitWriters, ExclusiveWithOneReader,
     Exclusive, Holders, ReadUsers, WriteUsers, In
<1>s. SUFFICES May' /\ (orderly' => Lost' /\ Await' /\ Excl')
  BY DEF NoLostWakeup, ReadersMayRead, ReadersAwaitWriters, ExclusiveWithOneReader,
     Exclusive, Holders, ReadUsers, WriteUsers, In
<1>z. orderly => /\ writelock = 0 <=> \A t \in Threads : ~Writes(t)
                 /\ readlock = 0 <=> \A t \in Threads : ~Reads(t)
                 /\ writelock \in Nat /\ readlock \in Nat
  BY <1>t, ZeroMeansNobody
<1>z2. orderly' => /\ writelock' = 0 <=> \A t \in Threads : ~Writes(t)'
                   /\ readlock' = 0 <=> \A t \in Threads : ~Reads(t)'
  <2>1. orderly' => writelock' = Cardinality(WriteUsers') /\ readlock' = Cardinality(ReadUsers')
    BY <1>t DEF CountsExact, WriteUsers, ReadUsers
  <2>2. WriteUsers' \in SUBSET Threads /\ ReadUsers' \in SUBSET Threads
    BY DEF WriteUsers, ReadUsers, In
  <2>3. orderly' => (writelock' = 0 <=> WriteUsers' = {}) /\ (readlock' = 0 <=> ReadUsers' = {})
    BY <2>1, <2>2, ThreadCount
  <2>4. QED
    BY <2>3 DEF WriteUsers, ReadUsers, In
<1>1. ASSUME NEW t \in Threads, LockWrite(t) \/ TryWrite(t)
      PROVE  May' /\ (orderly' => Lost' /\ Await' /\ Excl')
  BY <1>1, <1>m, <1>i, <1>z DEF LockWrite, TryWrite, Mode, OneReader
<1>2. ASSUME NEW t \in Threads, LockRead(t) \/ TryRead(t)
      PROVE  May' /\ (orderly' => Lost' /\ Await' /\ Excl')
  BY <1>2, <1>m, <1>i, <1>z DEF LockRead, TryRead, Mode, OneReader
<1>3. ASSUME NEW t \in Threads, ForceWrite(t) \/ ForceRead(t) \/ Spurious(t)
      PROVE  May' /\ (orderly' => Lost' /\ Await' /\ Excl')
  BY <1>3, <1>m, <1>i DEF ForceWrite, ForceRead, Spurious, Mode
<1>4. ASSUME NEW t \in Threads, UnlockWrite(t)
      PROVE  May' /\ (orderly' => Lost' /\ Await' /\ Excl')
  BY <1>4, <1>m, <1>i, <1>z, <1>z2 DEF UnlockWrite, SignalWriter, WakeReaders, MinusOne, Mode, OneReader
<1>5. ASSUME NEW t \in Threads, UnlockRead(t)
      PROVE  May' /\ (orderly' => Lost' /\ Await' /\ Excl')
  BY <1>5, <1>m, <1>i, <1>z, <1>z2 DEF UnlockRead, SignalWriter, MinusOne, Mode, OneReader
<1>6. CASE UNCHANGED vars
  BY <1>6, <1>i DEF vars, OneReader
<1>7. QED
  BY <1>1, <1>2, <1>3, <1>4, <1>5, <1>6 DEF Next

\* IInv holds throughout.
LEMMA Invariant == Spec => []IInv
<1>1. Init => IInv
  BY InitIInv
<1>2. IInv /\ [Next]_vars => IInv'
  BY StepTypeOK, StepCounts, StepModes DEF IInv
<1>3. QED
  BY <1>1, <1>2, PTL DEF Spec

(***************************************************************************)
(* What the lock guarantees.                                                *)
(***************************************************************************)

\* The counters of CS_MUTEX_LOCK stay natural numbers whatever is forced.
THEOREM TypeCorrect == Spec => []TypeOK
<1>1. IInv => TypeOK
  BY DEF IInv
<1>2. QED
  BY <1>1, Invariant, PTL

\* Each counter is the number of threads that hold the lock in its way or wait for it.
THEOREM CountersAreExact == Spec => []CountsExact
<1>1. IInv => CountsExact
  BY DEF IInv
<1>2. QED
  BY <1>1, Invariant, PTL

\* A lock that only one thread read-locks excludes as a read/write lock should,
\* however many threads write-lock it, as long as no wait times out.
THEOREM MutualExclusion == Spec => []ExclusiveWithOneReader
<1>1. IInv => ExclusiveWithOneReader
  BY DEF IInv
<1>2. QED
  BY <1>1, Invariant, PTL

\* cs_rwunlock_int leaves no thread asleep on a lock that nobody holds.
THEOREM NobodyForgotten == Spec => []NoLostWakeup
<1>1. IInv => NoLostWakeup
  BY DEF IInv
<1>2. QED
  BY <1>1, Invariant, PTL

\* Whatever was forced or woken spuriously, an unused lock is a free lock.
THEOREM FreeAtRest == Spec => []FreeWhenIdle
<1>1. IInv => FreeWhenIdle
  <2> SUFFICES ASSUME IInv, In({"idle"}) = Threads PROVE writelock = 0 /\ readlock = 0
    BY DEF FreeWhenIdle
  <2>1. WriteUsers = {} /\ ReadUsers = {}
    BY DEF In, WriteUsers, ReadUsers
  <2>2. Cardinality(WriteUsers) = 0 /\ Cardinality(ReadUsers) = 0
    BY <2>1, FS_EmptySet
  <2>3. QED
    BY <2>2 DEF IInv, TypeOK, CountsBounded
<1>2. QED
  BY <1>1, Invariant, PTL

\* "waiting writelocks always have priority": no reader passes a waiting writer.
THEOREM WritersHavePriority == Spec => WritersFirst
<1> DEFINE Keeps == orderly /\ In({"waitW"}) # {} =>
                      \A t \in Threads : mode[t] # "holdR" => mode'[t] # "holdR"
<1>1. IInv /\ [Next]_vars => [Keeps]_vars
  <2> SUFFICES ASSUME IInv, Next, orderly, NEW w \in Threads, mode[w] = "waitW",
                      NEW r \in Threads, mode[r] # "holdR"
               PROVE  mode'[r] # "holdR"
    BY DEF In
  <2>1. writelock # 0 /\ writelock \in Nat /\ mode \in [Threads -> Mode]
    BY ZeroMeansNobody DEF IInv, TypeOK
  <2>2. PICK t \in Threads :
          \/ LockWrite(t) \/ LockRead(t) \/ TryWrite(t) \/ TryRead(t)
          \/ ForceWrite(t) \/ ForceRead(t) \/ Spurious(t)
          \/ UnlockWrite(t) \/ UnlockRead(t)
    BY DEF Next
  <2>3. CASE LockWrite(t) \/ LockRead(t) \/ TryWrite(t) \/ TryRead(t)
    <3>1. writelock > 0
      BY <2>1
    <3>2. mode'[t] # "holdR" /\ \E m \in Mode : mode' = [mode EXCEPT ![t] = m]
      BY <2>1, <2>3, <3>1 DEF LockWrite, LockRead, TryWrite, TryRead, Mode
    <3>3. QED
      BY <2>1, <3>2
  <2>4. CASE ForceWrite(t) \/ ForceRead(t) \/ Spurious(t)
    BY <2>4 DEF ForceWrite, ForceRead, Spurious
  <2>5. CASE UnlockWrite(t)
    <3>1. {t, w} \in SUBSET WriteUsers /\ t # w
      BY <2>5 DEF UnlockWrite, WriteUsers, In
    <3>2. writelock = Cardinality(WriteUsers) /\ WriteUsers \in SUBSET Threads
      BY DEF IInv, CountsExact, WriteUsers, In
    <3>3. Cardinality(WriteUsers \ {t}) = writelock - 1 /\ WriteUsers \ {t} # {}
      BY <3>1, <3>2, ThreadLeaves
    <3>4. writelock' > 0
      BY <2>1, <2>5, <3>2, <3>3, ThreadCount DEF UnlockWrite, MinusOne
    <3>5. QED
      BY <2>1, <2>5, <3>4 DEF UnlockWrite, SignalWriter, Mode
  <2>6. CASE UnlockRead(t)
    BY <2>1, <2>6 DEF UnlockRead, SignalWriter, Mode
  <2>7. QED
    BY <2>2, <2>3, <2>4, <2>5, <2>6
<1>2. QED
  BY <1>1, Invariant, PTL DEF Spec, WritersFirst
=============================================================================
