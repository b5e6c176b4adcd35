-------------------------------- MODULE CsLock --------------------------------
(***************************************************************************)
(* The read/write lock every other component uses: CS_MUTEX_LOCK of         *)
(* src/trunk/oscam-lock.c.  Its two counters count the threads that hold    *)
(* the lock and those that wait for it alike; a thread waits once, without  *)
(* looking at the counters again when it is woken.  Each function runs      *)
(* under l->lock and is one action; a woken thread owns the lock from the   *)
(* moment it is signalled, since nothing can take it back.                  *)
(*                                                                          *)
(* lock and try are the variants that log and the _nolog ones.  The lock    *)
(* exists throughout: cs_lock_create made it, cs_lock_destroy is not part   *)
(* of this module.                                                          *)
(***************************************************************************)
EXTENDS Naturals, FiniteSets

CONSTANTS
    Threads,        \* the threads that use the lock
    ReaderSets,     \* the choices of the threads that ever read-lock it
    Timings         \* whether waits may time out or wake up spuriously

ASSUME ThreadsAssumption == IsFiniteSet(Threads) /\ ReaderSets \subseteq SUBSET Threads
ASSUME TimingsAssumption == Timings \subseteq BOOLEAN

VARIABLES
    mayRead,        \* the threads that read-lock; all of them may write-lock
    orderly,        \* no pthread_cond_timedwait ends but by a signal
    writelock,      \* l->writelock
    readlock,       \* l->readlock
    mode            \* what each thread does with the lock

vars == <<mayRead, orderly, writelock, readlock, mode>>

Mode == {"idle", "waitW", "waitR", "holdW", "holdR"}

In(modes) == {t \in Threads : mode[t] \in modes}
Holders == In({"holdW", "holdR"})

Init ==
    /\ mayRead \in ReaderSets
    /\ orderly \in Timings
    /\ writelock = 0 /\ readlock = 0
    /\ mode = [t \in Threads |-> "idle"]

-----------------------------------------------------------------------------
\* Mutant: a writer looks only at the other writers.
LockWriteOverReaders(t) ==
    /\ mode[t] = "idle"
    /\ writelock' = writelock + 1
    /\ mode' = [mode EXCEPT ![t] = IF writelock' > 1 THEN "waitW" ELSE "holdW"]
    /\ UNCHANGED <<mayRead, orderly, readlock>>

\* cs_rwlock_int(WRITELOCK): "if read- or writelock is busy, wait for unlock".
LockWrite(t) ==
    /\ mode[t] = "idle"
    /\ writelock' = writelock + 1
    /\ mode' = [mode EXCEPT ![t] =
         IF writelock' > 1 \/ readlock > 0 THEN "waitW" ELSE "holdW"]
    /\ UNCHANGED <<mayRead, orderly, readlock>>

\* Mutant: a reader joins the readers already inside, past the waiting writers.
LockReadJoins(t) ==
    /\ t \in mayRead
    /\ mode[t] = "idle"
    /\ readlock' = readlock + 1
    /\ mode' = [mode EXCEPT ![t] =
         IF writelock > 0 /\ In({"holdR"}) = {} THEN "waitR" ELSE "holdR"]
    /\ UNCHANGED <<mayRead, orderly, writelock>>

\* cs_rwlock_int(READLOCK): "if writelock is busy, wait for unlock".
LockRead(t) ==
    /\ t \in mayRead
    /\ mode[t] = "idle"
    /\ readlock' = readlock + 1
    /\ mode' = [mode EXCEPT ![t] = IF writelock > 0 THEN "waitR" ELSE "holdR"]
    /\ UNCHANGED <<mayRead, orderly, writelock>>

\* Mutant: a failing try-lock leaves its count behind.
TryWriteCounts(t) ==
    /\ mode[t] = "idle"
    /\ writelock < Cardinality(Threads)
    /\ writelock' = writelock + 1
    /\ mode' = [mode EXCEPT ![t] =
         IF writelock > 0 \/ readlock > 0 THEN "idle" ELSE "holdW"]
    /\ UNCHANGED <<mayRead, orderly, readlock>>

\* cs_try_rwlock_int; when it fails nothing changes.
TryWrite(t) ==
    /\ mode[t] = "idle"
    /\ writelock = 0 /\ readlock = 0
    /\ writelock' = writelock + 1
    /\ mode' = [mode EXCEPT ![t] = "holdW"]
    /\ UNCHANGED <<mayRead, orderly, readlock>>

TryRead(t) ==
    /\ t \in mayRead
    /\ mode[t] = "idle"
    /\ writelock = 0
    /\ readlock' = readlock + 1
    /\ mode' = [mode EXCEPT ![t] = "holdR"]
    /\ UNCHANGED <<mayRead, orderly, writelock>>

\* Mutant: enforcing the lock adds to the counters instead of resetting them.
ForceWriteAdds(t) ==
    /\ ~orderly
    /\ mode[t] = "waitW"
    /\ writelock < Cardinality(Threads)
    /\ writelock' = writelock + 1 /\ readlock' = 0
    /\ mode' = [mode EXCEPT ![t] = "holdW"]
    /\ UNCHANGED <<mayRead, orderly>>

\* "locking thread to be stuck or finished, so enforce lock": the wait timed out.
ForceWrite(t) ==
    /\ ~orderly
    /\ mode[t] = "waitW"
    /\ writelock' = 1 /\ readlock' = 0
    /\ mode' = [mode EXCEPT ![t] = "holdW"]
    /\ UNCHANGED <<mayRead, orderly>>

ForceRead(t) ==
    /\ ~orderly
    /\ mode[t] = "waitR"
    /\ writelock' = 0 /\ readlock' = 1
    /\ mode' = [mode EXCEPT ![t] = "holdR"]
    /\ UNCHANGED <<mayRead, orderly>>

\* pthread_cond_timedwait may return 0 without a signal, and no loop catches it.
Spurious(t) ==
    /\ ~orderly
    /\ mode[t] \in {"waitW", "waitR"}
    /\ mode' = [mode EXCEPT ![t] = IF @ = "waitW" THEN "holdW" ELSE "holdR"]
    /\ UNCHANGED <<mayRead, orderly, writelock, readlock>>

\* Mutant: the counters are decremented unconditionally.
MinusOneAlways(n) == n - 1

\* if(l->writelock > 0) { l->writelock--; }, and for readlock.
MinusOne(n) == IF n > 0 THEN n - 1 ELSE 0

\* pthread_cond_signal wakes any one of the waiting writers, if there is one.
SignalWriter(m) ==
    LET waiting == {u \in Threads : m[u] = "waitW"}
    IN  IF waiting = {} THEN mode' = m
        ELSE \E u \in waiting : mode' = [m EXCEPT ![u] = "holdW"]

\* pthread_cond_broadcast wakes every waiting reader.
WakeReaders(m) == [u \in Threads |-> IF m[u] = "waitR" THEN "holdR" ELSE m[u]]

\* Mutant: the waiting readers are not woken.
UnlockWriteNoBroadcast(t) ==
    /\ mode[t] = "holdW"
    /\ writelock' = MinusOne(writelock)
    /\ LET m == [mode EXCEPT ![t] = "idle"]
       IN  IF writelock' > 0 THEN SignalWriter(m) ELSE mode' = m
    /\ UNCHANGED <<mayRead, orderly, readlock>>

\* cs_rwunlock_int: "waiting writelocks always have priority", otherwise a
\* writer's unlock lets all waiting readers in.
UnlockWrite(t) ==
    /\ mode[t] = "holdW"
    /\ writelock' = MinusOne(writelock)
    /\ LET m == [mode EXCEPT ![t] = "idle"]
       IN  IF writelock' > 0 THEN SignalWriter(m)
           ELSE mode' = IF readlock > 0 THEN WakeReaders(m) ELSE m
    /\ UNCHANGED <<mayRead, orderly, readlock>>

UnlockRead(t) ==
    /\ mode[t] = "holdR"
    /\ readlock' = MinusOne(readlock)
    /\ LET m == [mode EXCEPT ![t] = "idle"]
       IN  IF writelock > 0 THEN SignalWriter(m) ELSE mode' = m
    /\ UNCHANGED <<mayRead, orderly, writelock>>

Next ==
    \E t \in Threads :
        \/ LockWrite(t) \/ LockRead(t)
        \/ TryWrite(t) \/ TryRead(t)
        \/ ForceWrite(t) \/ ForceRead(t) \/ Spurious(t)
        \/ UnlockWrite(t) \/ UnlockRead(t)

Spec == Init /\ [][Next]_vars

-----------------------------------------------------------------------------
TypeOK ==
    /\ mayRead \in SUBSET Threads
    /\ orderly \in BOOLEAN
    /\ writelock \in Nat /\ readlock \in Nat
    /\ mode \in [Threads -> Mode]

\* Readers share the lock with readers only, a writer has it alone.
Exclusive ==
    \A t, u \in Holders : t # u => mode[t] = "holdR" /\ mode[u] = "holdR"

OneReader == \A t, u \in mayRead : t = u

\* With at most one thread that read-locks, the lock excludes: the locks that the
\* code only ever write-locks (garbage_lock, nonce_lock, system_lock, http_lock,
\* gethostbyname_lock, fakeuser_lock, emmstat_lock, lockcmd) do so.
ExclusiveWithOneReader == orderly /\ OneReader => Exclusive

\* "if read- or writelock is busy, wait for unlock": what the comments of
\* cs_rwlock_int say of every use.
ExclusiveAlways == orderly => Exclusive

\* The counters are the numbers of threads that hold or await the lock.
CountsExact ==
    orderly => /\ writelock = Cardinality(In({"waitW", "holdW"}))
               /\ readlock = Cardinality(In({"waitR", "holdR"}))

\* cs_rwunlock_int never leaves the lock free while a thread sleeps on it: only
\* somebody still holding it keeps a thread waiting.
NoLostWakeup == orderly /\ In({"waitW", "waitR"}) # {} => Holders # {}

\* Forced locks, spurious wake-ups and the clamping of the counters leave no
\* trace: when nobody uses the lock any more it is free.
FreeWhenIdle == In({"idle"}) = Threads => writelock = 0 /\ readlock = 0

\* "waiting writelocks always have priority": no reader gets in past a writer.
WritersFirst ==
    [][orderly /\ In({"waitW"}) # {} =>
         \A t \in Threads : mode[t] # "holdR" => mode'[t] # "holdR"]_vars
===============================================================================
