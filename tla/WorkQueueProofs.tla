-------------------------- MODULE WorkQueueProofs --------------------------
(***************************************************************************)
(* Theorems about WorkQueue for any finite set of calls: every invariant of *)
(* the jobs run.  The list is the end of the sequence of accepted jobs, at  *)
(* most one thread has a job in hand, the last one taken from it, and all   *)
(* that is needed to keep it so: who serves the client, and when nobody     *)
(* does.                                                                    *)
(***************************************************************************)
EXTENDS WorkQueue, FiniteSetTheorems, TLAPS

(***************************************************************************)
(* The parts of the invariant.                                              *)
(***************************************************************************)

\* Places a thread reaches only before cl->kill is set, or by being there then.
Busy == {"fetch", "idle", "poll", "dispatch", "run", "handled"}

\* A thread on its way to free_client.
Dying == {"killed", "release", "free", "cleanup"}

\* cl->kill precedes the end of the client, a call the start of its thread.
FlagsInv ==
    /\ freeStarted => kill
    /\ \A c \in Calls : caller[c] # "returned" => pc[c] = "none"
    /\ \A w \in Calls : pc[w] \in Dying => kill

\* A job is in one place, and is not carried out before it gets there.
JobsInv ==
    /\ \A c \in Calls : caller[c] # "returned" =>
          /\ ran[c] = 0 /\ c \notin Listed
          /\ \A w \in Calls : data[w] # c
    /\ \A i \in DOMAIN joblist :
          /\ ran[joblist[i]] = 0
          /\ \A w \in Calls : data[w] # joblist[i]
          /\ \A k \in DOMAIN joblist : joblist[i] = joblist[k] => i = k
    /\ \A w, v \in Calls : data[w] \in Calls /\ data[w] = data[v] => w = v
    /\ \A w \in Calls : data[w] \in Calls /\ pc[w] # "handled" => ran[data[w]] = 0
    /\ \A w \in Calls : pc[w] \in {"fetch", "idle", "poll"} => data[w] = None

\* One thread serves the client, and thread_active says whether there is one.
ServeInv ==
    ~overwrote =>
        /\ \A w, v \in Calls : pc[w] \in Busy /\ pc[v] \in Busy => w = v
        /\ ~kill => /\ \A w, v \in Calls : pc[w] \in Serving /\ pc[v] \in Serving => w = v
                    /\ active = 0 => \A w \in Calls : pc[w] \notin Serving
                    /\ ~failed /\ active # 0 => \E w \in Calls : pc[w] \in Serving

\* No job waits while nobody is active, and only threads that serve hold one.
RestInv ==
    ~overwrote /\ ~kill =>
        /\ active = 0 => joblist = <<>>
        /\ \A w \in Calls : pc[w] \notin Serving \ {"ending"} => data[w] = None

IInv == TypeOK /\ FlagsInv /\ JobsInv /\ ServeInv /\ RestInv

(***************************************************************************)
(* Types and flags.                                                         *)
(***************************************************************************)

\* A new client has no thread and no job.
LEMMA InitIInv == Init => IInv
<1> SUFFICES ASSUME Init PROVE IInv
  OBVIOUS
<1>1. TypeOK
  <2>1. killers \in SUBSET Calls
    BY CallsAssumption DEF Init
  <2>2. kill \in BOOLEAN /\ freeStarted \in BOOLEAN /\ failed \in BOOLEAN /\ overwrote \in BOOLEAN
    BY Zenon DEF Init
  <2>3. /\ caller \in [Calls -> {"new", "checked", "returned", "refused"}] /\ pc \in [Calls -> Pc]
        /\ data \in [Calls -> Calls \cup {None, Event}]
        /\ ran \in [Calls -> 0..2] /\ freed \in [Calls -> 0..2]
    BY DEF Init, Pc
  <2>4. QED
    BY <2>1, <2>2, <2>3 DEF Init, TypeOK
<1>2. FlagsInv /\ ServeInv
  BY DEF Init, FlagsInv, ServeInv, Dying, Busy, Serving
<1>3. JobsInv
  BY NamesAssumption DEF Init, JobsInv, Listed
<1>4. RestInv
  BY DEF Init, RestInv
<1>5. QED
  BY <1>1, <1>2, <1>3, <1>4 DEF IInv

\* free_job_data counts to two.
LEMMA FreedCount ==
    ASSUME freed \in [Calls -> 0..2], NEW S, FreeJobs(S)
    PROVE  freed' \in [Calls -> 0..2]
BY DEF FreeJobs

\* The steps of a call of add_job and of kill_thread.
LEMMA CallTypeOK ==
    ASSUME TypeOK, NEW c \in Calls, AddChecked(c) \/ CallSection(c) \/ KillThread(c)
    PROVE  TypeOK'
<1>1. CASE AddRefused(c) \/ AddChecked(c)
  BY <1>1 DEF AddRefused, AddChecked, Return, flags, history, TypeOK
<1>2. CASE AddQueued(c)
  BY <1>2 DEF AddQueued, Return, flags, history, TypeOK
<1>3. CASE AddStart(c)
  BY <1>3 DEF AddStart, Goto, Hold, Return, history, TypeOK, Pc
<1>4. CASE AddStartFails(c)
  BY <1>4 DEF AddStartFails, FreeJobs, Return, TypeOK
<1>5. CASE KillThread(c)
  BY <1>5 DEF KillThread, history, TypeOK
<1>6. QED
  BY <1>1, <1>2, <1>3, <1>4, <1>5 DEF CallSection

\* The steps of a work thread.
LEMMA ThreadTypeOK ==
    ASSUME TypeOK, NEW w \in Calls, ThreadStep(w) \/ PollEvent(w)
    PROVE  TypeOK'
<1>1. CASE ThreadStart(w) \/ OuterLoop(w) \/ FetchNothing(w) \/ PollBegin(w) \/ PollTimeout(w)
  BY <1>1, SMTT(30) DEF ThreadStart, OuterLoop, FetchNothing, PollBegin, PollTimeout, Goto, flags,
     history, TypeOK, Pc
<1>2. CASE InnerLoop(w)
  BY <1>2 DEF InnerLoop, Goto, flags, history, TypeOK, Pc
<1>3. CASE Fetch(w)
  BY <1>3 DEF Fetch, Goto, Hold, flags, history, TypeOK, Pc
<1>4. CASE PollEvent(w)
  <2>1. kill' \in BOOLEAN
    BY <1>4, Zenon DEF PollEvent, TypeOK
  <2>2. QED
    BY <1>4, <2>1 DEF PollEvent, Goto, Hold, history, TypeOK, Pc
<1>5. CASE Drop(w) \/ Done(w) \/ KillRelease(w)
  <2>1. freed' \in [Calls -> 0..2]
    BY <1>5, FreedCount DEF Drop, Done, KillRelease, TypeOK
  <2>2. \E place \in Pc : pc' = [pc EXCEPT ![w] = place]
    BY <1>5 DEF Drop, Done, KillRelease, Goto, Pc
  <2>3. QED
    BY <1>5, <2>1, <2>2 DEF Drop, Done, KillRelease, Hold, flags, history, TypeOK
<1>6. CASE Track(w)
  BY <1>6 DEF Track, Goto, flags, history, TypeOK, Pc
<1>7. CASE Handle(w)
  <2>1. kill' \in BOOLEAN
    BY <1>7, Zenon DEF Handle, TypeOK
  <2>2. ran' \in [Calls -> 0..2]
    BY <1>7 DEF Handle, TypeOK
  <2>3. QED
    BY <1>7, <2>1, <2>2 DEF Handle, Goto, history, TypeOK, Pc
<1>8. CASE EndCheck(w) \/ ClearAgain(w) \/ KillClear(w)
  <2>1. overwrote' \in BOOLEAN
    BY <1>8, Zenon DEF EndCheck, ClearAgain, KillClear, history, TypeOK
  <2>2. active' \in 0..2 /\ \E place \in Pc : pc' = [pc EXCEPT ![w] = place]
    BY <1>8 DEF EndCheck, ClearAgain, KillClear, Goto, TypeOK, Pc
  <2>3. QED
    BY <1>8, <2>1, <2>2 DEF EndCheck, ClearAgain, KillClear, history, TypeOK
<1>9. CASE FreeClient(w) \/ FreeJobList(w)
  <2>1. freed' \in [Calls -> 0..2]
    BY <1>9, FreedCount DEF FreeClient, FreeJobList, TypeOK
  <2>2. \E place \in Pc : pc' = [pc EXCEPT ![w] = place]
    BY <1>9 DEF FreeClient, FreeJobList, Goto, Pc
  <2>3. kill' \in BOOLEAN /\ freeStarted' \in BOOLEAN
    BY <1>9, Zenon DEF FreeClient, FreeJobList, flags, TypeOK
  <2>4. /\ joblist' = joblist \/ joblist' = <<>>
        /\ tracked' \in {tracked, None} /\ active' = active
        /\ UNCHANGED <<killers, caller, accepted, data, ran, history>>
    BY <1>9, Zenon DEF FreeClient, FreeJobList, flags
  <2>5. pc' \in [Calls -> Pc] /\ joblist' \in Seq(Calls) /\ tracked' \in Calls \cup {None}
    <3>1. pc' \in [Calls -> Pc]
      BY <2>2 DEF TypeOK
    <3>2. joblist' \in Seq(Calls)
      <4>1. <<>> \in Seq(Calls) /\ joblist \in Seq(Calls)
        BY DEF TypeOK
      <4>2. QED
        BY <2>4, <4>1, Zenon
    <3>3. tracked' \in Calls \cup {None}
      BY <2>4 DEF TypeOK
    <3>4. QED
      BY <3>1, <3>2, <3>3
  <2>6. QED
    BY <2>1, <2>3, <2>4, <2>5, Zenon DEF history, TypeOK
<1>10. QED
  BY <1>1, <1>2, <1>3, <1>4, <1>5, <1>6, <1>7, <1>8, <1>9 DEF ThreadStep

\* Every step keeps the types.
LEMMA StepTypeOK == TypeOK /\ [Next]_vars => TypeOK'
<1>1. CASE UNCHANGED vars
  BY <1>1 DEF vars, TypeOK
<1>2. QED
  BY <1>1, CallTypeOK, ThreadTypeOK DEF Next

\* cl->kill is never taken back, and free_client sets it.
LEMMA StepFlags == TypeOK /\ FlagsInv /\ [Next]_vars => FlagsInv'
<1> SUFFICES ASSUME TypeOK, FlagsInv, [Next]_vars PROVE FlagsInv'
  OBVIOUS
<1> USE DEF TypeOK, FlagsInv, Dying
<1>1. ASSUME NEW c \in Calls, AddChecked(c) \/ CallSection(c) \/ KillThread(c) PROVE FlagsInv'
  BY <1>1 DEF AddChecked, CallSection, AddRefused, AddQueued, AddStart, AddStartFails, KillThread,
     Goto, Return, flags
<1>2. ASSUME NEW w \in Calls, ThreadStart(w) \/ OuterLoop(w) \/ InnerLoop(w) \/ Fetch(w)
                              \/ FetchNothing(w) \/ PollBegin(w) \/ PollTimeout(w)
      PROVE  FlagsInv'
  BY <1>2 DEF ThreadStart, OuterLoop, InnerLoop, Fetch, FetchNothing, PollBegin, PollTimeout,
     Goto, flags
<1>3. ASSUME NEW w \in Calls, Drop(w) \/ Track(w) \/ Done(w) \/ EndCheck(w) \/ ClearAgain(w)
      PROVE  FlagsInv'
  BY <1>3 DEF Drop, Track, Done, EndCheck, ClearAgain, Goto, flags
<1>e. ASSUME NEW w \in Calls, PollEvent(w) \/ Handle(w) PROVE FlagsInv'
  <2>1. kill => kill'
    BY <1>e, Zenon DEF PollEvent, Handle
  <2>2. /\ freeStarted' = freeStarted /\ caller' = caller /\ pc[w] # "none"
        /\ \E place \in {"dispatch", "handled"} : pc' = [pc EXCEPT ![w] = place]
    BY <1>e DEF PollEvent, Handle, Goto
  <2>3. QED
    BY <2>1, <2>2
<1>4. ASSUME NEW w \in Calls, KillClear(w) \/ KillRelease(w) \/ FreeClient(w) \/ FreeJobList(w)
      PROVE  FlagsInv'
  BY <1>4 DEF KillClear, KillRelease, FreeClient, FreeJobList, Goto, flags
<1>5. CASE UNCHANGED vars
  BY <1>5 DEF vars
<1>6. QED
  BY <1>1, <1>2, <1>3, <1>e, <1>4, <1>5 DEF Next, ThreadStep

(***************************************************************************)
(* Jobs.                                                                    *)
(***************************************************************************)

\* A step that leaves the calls, the list and the jobs in hand alone.
LEMMA JobsStay ==
    ASSUME TypeOK, JobsInv, UNCHANGED <<caller, joblist, data>>,
           NEW w \in Calls, NEW place, pc' = [pc EXCEPT ![w] = place],
           ran' = ran \/ (pc[w] = "run" /\ place = "handled"
                          /\ ran' = [j \in Calls |-> IF j = data[w] /\ ran[j] < 2 THEN ran[j] + 1 ELSE ran[j]]),
           pc[w] = "handled" => place = "handled",
           place \in {"fetch", "idle", "poll"} => data[w] = None
    PROVE  JobsInv'
  BY DEF TypeOK, JobsInv, Listed

\* A job at the end of the list, or in the hands of a new thread.
LEMMA JobAccepted ==
    ASSUME TypeOK, JobsInv, NEW c \in Calls, AddQueued(c) \/ AddStart(c) \/ AddStartFails(c)
    PROVE  JobsInv'
<1>1. CASE AddQueued(c)
  <2>1. DOMAIN joblist' = 1..(Len(joblist) + 1) /\ DOMAIN joblist = 1..Len(joblist) /\ Len(joblist) \in Nat
    BY <1>1 DEF AddQueued, TypeOK
  <2>2. \A i \in DOMAIN joblist' : joblist'[i] = IF i \in DOMAIN joblist THEN joblist[i] ELSE c
    BY <1>1 DEF AddQueued, TypeOK
  <2>3. c \notin Listed /\ ran[c] = 0 /\ caller[c] # "returned" /\ \A w \in Calls : data[w] # c
    BY <1>1 DEF AddQueued, JobsInv
  <2>4. ran' = ran /\ data' = data /\ pc' = pc /\ caller' = [caller EXCEPT ![c] = "returned"]
    BY <1>1 DEF AddQueued, Return
  <2>5. \A d \in Listed' : d \in Listed \/ d = c
    BY <2>2 DEF Listed
  <2>6. QED
    BY <2>1, <2>2, <2>3, <2>4, <2>5 DEF JobsInv, Listed, TypeOK
<1>2. CASE AddStart(c)
  BY <1>2, NamesAssumption DEF AddStart, Return, Goto, Hold, JobsInv, Listed, TypeOK
<1>3. CASE AddStartFails(c)
  BY <1>3 DEF AddStartFails, Return, JobsInv, Listed, TypeOK
<1>4. QED
  BY <1>1, <1>2, <1>3

\* The head of the list goes into the hands of the thread.
LEMMA JobFetched ==
    ASSUME TypeOK, JobsInv, NEW w \in Calls, Fetch(w)
    PROVE  JobsInv'
<1>1. DOMAIN joblist' = 1..(Len(joblist) - 1) /\ DOMAIN joblist = 1..Len(joblist) /\ Len(joblist) \in Nat \ {0}
  BY DEF Fetch, TypeOK
<1>2. \A i \in DOMAIN joblist' : i + 1 \in DOMAIN joblist /\ i + 1 # 1 /\ joblist'[i] = joblist[i + 1]
  BY <1>1 DEF Fetch, TypeOK
<1>3. Head(joblist) = joblist[1] /\ 1 \in DOMAIN joblist /\ joblist[1] \in Calls
  BY <1>1 DEF TypeOK
<1>4. /\ ran' = ran /\ caller' = caller
      /\ data' = [data EXCEPT ![w] = joblist[1]] /\ pc' = [pc EXCEPT ![w] = "dispatch"]
  BY <1>3 DEF Fetch, Hold, Goto
<1>5. Listed' \subseteq Listed /\ joblist[1] \in Listed
  BY <1>2, <1>3 DEF Listed
<1>6. QED
  BY <1>1, <1>2, <1>3, <1>4, <1>5, SMTT(30) DEF JobsInv, TypeOK, Listed

\* A thread lets go of its job, or free_joblist of the list.
LEMMA JobLeft ==
    ASSUME TypeOK, JobsInv, NEW w \in Calls,
           Drop(w) \/ Done(w) \/ KillRelease(w) \/ FreeJobList(w) \/ PollEvent(w)
    PROVE  JobsInv'
<1>1. CASE Drop(w) \/ Done(w) \/ KillRelease(w)
  <2>1. /\ joblist' = joblist /\ caller' = caller /\ ran' = ran
        /\ data' = [data EXCEPT ![w] = None]
        /\ \E place \in {"inner", "ending", "free"} : pc' = [pc EXCEPT ![w] = place]
    BY <1>1 DEF Drop, Done, KillRelease, Hold, Goto
  <2>2. QED
    BY <2>1, NamesAssumption DEF JobsInv, Listed, TypeOK
<1>2. CASE FreeJobList(w)
  BY <1>2 DEF FreeJobList, Goto, JobsInv, Listed, TypeOK
<1>3. CASE PollEvent(w)
  BY <1>3, NamesAssumption DEF PollEvent, Hold, Goto, JobsInv, Listed, TypeOK
<1>4. QED
  BY <1>1, <1>2, <1>3

\* A job is in one place throughout.
LEMMA StepJobs == TypeOK /\ JobsInv /\ [Next]_vars => JobsInv'
<1> SUFFICES ASSUME TypeOK, JobsInv, [Next]_vars PROVE JobsInv'
  OBVIOUS
<1>1. ASSUME NEW c \in Calls, AddChecked(c) \/ AddRefused(c) \/ KillThread(c) PROVE JobsInv'
  BY <1>1 DEF AddChecked, AddRefused, KillThread, Return, JobsInv, Listed, TypeOK
<1>2. ASSUME NEW w \in Calls, ThreadStart(w) \/ OuterLoop(w) \/ InnerLoop(w) \/ FetchNothing(w)
                              \/ PollBegin(w) \/ PollTimeout(w)
      PROVE  JobsInv'
  <2>1. CASE ThreadStart(w) \/ OuterLoop(w)
    BY <1>2, <2>1, JobsStay DEF ThreadStart, OuterLoop, Goto
  <2>2. CASE InnerLoop(w)
    BY <1>2, <2>2, JobsStay DEF InnerLoop, Goto, TypeOK
  <2>3. CASE FetchNothing(w) \/ PollBegin(w) \/ PollTimeout(w)
    <3>1. data[w] = None
      BY <2>3 DEF FetchNothing, PollBegin, PollTimeout, JobsInv
    <3>2. QED
      BY <1>2, <2>3, <3>1, JobsStay DEF FetchNothing, PollBegin, PollTimeout, Goto
  <2>4. QED
    BY <1>2, <2>1, <2>2, <2>3
<1>3. ASSUME NEW w \in Calls, Track(w) \/ Handle(w) \/ EndCheck(w) \/ ClearAgain(w) \/ KillClear(w) \/ FreeClient(w)
      PROVE  JobsInv'
  <2>1. CASE Track(w)
    BY <2>1, JobsStay DEF Track, Goto
  <2>2. CASE Handle(w)
    BY <2>2, JobsStay DEF Handle, Goto
  <2>3. CASE EndCheck(w) \/ ClearAgain(w) \/ KillClear(w)
    BY <2>3, JobsStay DEF EndCheck, ClearAgain, KillClear, Goto
  <2>4. CASE FreeClient(w)
    BY <2>4, JobsStay DEF FreeClient, Goto
  <2>5. QED
    BY <1>3, <2>1, <2>2, <2>3, <2>4
<1>4. CASE UNCHANGED vars
  BY <1>4 DEF vars, JobsInv, Listed
<1>5. QED
  BY <1>1, <1>2, <1>3, <1>4, JobAccepted, JobFetched, JobLeft DEF Next, CallSection, ThreadStep

(***************************************************************************)
(* Threads.                                                                 *)
(***************************************************************************)

\* The thread that serves the client goes on serving it.
LEMMA ServeGoesOn ==
    ASSUME TypeOK, ServeInv, NEW w \in Calls, pc[w] \in Serving, NEW place \in Serving,
           pc' = [pc EXCEPT ![w] = place], place \in Busy => pc[w] \in Busy \/ ~kill,
           overwrote' = overwrote, failed' = failed, kill => kill', active' = 0 => active = 0
    PROVE  ServeInv'
BY DEF ServeInv, TypeOK, Serving, Busy

\* It stops serving it.
LEMMA ServeEnds ==
    ASSUME TypeOK, ServeInv, NEW w \in Calls, pc[w] \in Serving, NEW place \in Pc \ Serving,
           pc' = [pc EXCEPT ![w] = place],
           overwrote' = overwrote, failed' = failed, kill' = kill, kill \/ active' = 0
    PROVE  ServeInv'
BY DEF ServeInv, TypeOK, Serving, Busy, Pc

\* A thread that does not serve the client moves on.
LEMMA ServedElsewhere ==
    ASSUME TypeOK, ServeInv, NEW w \in Calls, pc[w] \notin Serving, NEW place \in Pc \ Serving,
           pc' = [pc EXCEPT ![w] = place],
           failed' = failed, kill => kill', overwrote => overwrote',
           kill' \/ overwrote' \/ active' = active
    PROVE  ServeInv'
BY DEF ServeInv, TypeOK, Serving, Busy, Pc

\* A call of add_job or kill_thread.
LEMMA ServedForCalls ==
    ASSUME TypeOK, ServeInv, NEW c \in Calls, AddChecked(c) \/ CallSection(c) \/ KillThread(c)
    PROVE  ServeInv'
<1>1. CASE AddRefused(c) \/ AddChecked(c) \/ AddQueued(c)
  BY <1>1 DEF AddRefused, AddChecked, AddQueued, ServeInv, flags, history
<1>2. CASE KillThread(c)
  BY <1>2 DEF KillThread, ServeInv, history
<1>3. CASE AddStart(c)
  BY <1>3 DEF AddStart, NobodyActive, Goto, ServeInv, history, TypeOK, Serving, Busy
<1>4. CASE AddStartFails(c)
  BY <1>4 DEF AddStartFails, NobodyActive, ServeInv
<1>5. QED
  BY <1>1, <1>2, <1>3, <1>4 DEF CallSection

\* At most one thread is busy with the client, and thread_active is right about it.
LEMMA StepServe == TypeOK /\ FlagsInv /\ ServeInv /\ [Next]_vars => ServeInv'
<1> SUFFICES ASSUME TypeOK, FlagsInv, ServeInv, [Next]_vars PROVE ServeInv'
  OBVIOUS
<1>1. ASSUME NEW w \in Calls, ThreadStart(w) \/ FetchNothing(w) \/ PollBegin(w) \/ PollTimeout(w)
                              \/ Fetch(w) \/ Track(w) \/ Drop(w) \/ Done(w)
      PROVE  ServeInv'
  <2>1. /\ pc[w] \in Serving /\ kill' = kill /\ overwrote' = overwrote /\ failed' = failed
        /\ active' = 0 => active = 0
        /\ pc[w] = "starting" \/ pc[w] \in Busy
    BY <1>1 DEF ThreadStart, FetchNothing, PollBegin, PollTimeout, Fetch, Track, Drop, Done,
       Serving, Busy, flags, history
  <2>2. \E place \in Serving : /\ pc' = [pc EXCEPT ![w] = place]
                               /\ pc[w] = "starting" => place = "outer"
    BY <1>1 DEF ThreadStart, FetchNothing, PollBegin, PollTimeout, Fetch, Track, Drop, Done,
       Serving, Goto
  <2>3. QED
    BY <2>1, <2>2, ServeGoesOn DEF Busy
<1>2. ASSUME NEW w \in Calls, PollEvent(w) \/ Handle(w) PROVE ServeInv'
  <2>1. kill => kill'
    BY <1>2, Zenon DEF PollEvent, Handle
  <2>2. /\ pc[w] \in {"poll", "run"} /\ overwrote' = overwrote /\ failed' = failed
        /\ active' \in {1, active}
        /\ \E place \in {"dispatch", "handled"} : pc' = [pc EXCEPT ![w] = place]
    BY <1>2, Zenon DEF PollEvent, Handle, Goto, history
  <2>3. pc[w] \in Serving /\ pc[w] \in Busy /\ (active' = 0 => active = 0)
    BY <2>2 DEF Serving, Busy
  <2>4. \E place \in Serving : pc' = [pc EXCEPT ![w] = place]
    BY <2>2 DEF Serving
  <2>5. QED
    BY <2>1, <2>2, <2>3, <2>4, ServeGoesOn
<1>3. ASSUME NEW w \in Calls, OuterLoop(w) PROVE ServeInv'
  <2>1. CASE active # 0
    <3>1. /\ pc[w] = "outer" /\ pc' = [pc EXCEPT ![w] = "inner"]
          /\ UNCHANGED <<active, kill, overwrote, failed>>
      BY <1>3, <2>1 DEF OuterLoop, Goto, flags, history
    <3>2. pc[w] \in Serving /\ "inner" \in Serving /\ "inner" \notin Busy
      BY <3>1 DEF Serving, Busy
    <3>3. QED
      BY <3>1, <3>2, ServeGoesOn
  <2>2. CASE active = 0
    <3>1. /\ pc[w] = "outer" /\ pc' = [pc EXCEPT ![w] = "clear"]
          /\ UNCHANGED <<active, kill, overwrote, failed>>
      BY <1>3, <2>2 DEF OuterLoop, Goto, flags, history
    <3>2. pc[w] \in Serving /\ "clear" \in Pc \ Serving
      BY <3>1 DEF Serving, Pc
    <3>3. QED
      BY <2>2, <3>1, <3>2, ServeEnds
  <2>3. QED
    BY <2>1, <2>2
<1>4. ASSUME NEW w \in Calls, InnerLoop(w) PROVE ServeInv'
  <2>1. CASE active # 0 /\ kill
    BY <1>4, <2>1, ServeEnds DEF InnerLoop, Goto, flags, history, Serving, Pc
  <2>2. CASE active # 0 /\ ~kill
    BY <1>4, <2>2, ServeGoesOn DEF InnerLoop, Goto, flags, history, Serving
  <2>3. CASE active = 0
    BY <1>4, <2>3, ServeGoesOn DEF InnerLoop, Goto, flags, history, Serving, Busy
  <2>4. QED
    BY <2>1, <2>2, <2>3
<1>5. ASSUME NEW w \in Calls, EndCheck(w) PROVE ServeInv'
  <2>1. CASE joblist # <<>>
    BY <1>5, <2>1, ServeGoesOn DEF EndCheck, Goto, history, Serving, Busy
  <2>2. CASE joblist = <<>>
    BY <1>5, <2>2, ServeEnds DEF EndCheck, Goto, history, Serving, Pc
  <2>3. QED
    BY <2>1, <2>2
<1>6. ASSUME NEW w \in Calls, ClearAgain(w) PROVE ServeInv'
  <2>1. overwrote' \/ active' = active
    BY <1>6 DEF ClearAgain
  <2>2. overwrote => overwrote'
    BY <1>6 DEF ClearAgain
  <2>3. QED
    BY <1>6, <2>1, <2>2, ServedElsewhere DEF ClearAgain, Goto, Serving, Pc
<1>7. ASSUME NEW w \in Calls, KillClear(w) \/ KillRelease(w) \/ FreeClient(w) \/ FreeJobList(w)
      PROVE  ServeInv'
  <2>1. kill /\ kill' /\ pc[w] \notin Serving
    BY <1>7 DEF KillClear, KillRelease, FreeClient, FreeJobList, flags, FlagsInv, Dying, Serving
  <2>2. /\ overwrote' = overwrote /\ failed' = failed
        /\ \E place \in Pc \ Serving : pc' = [pc EXCEPT ![w] = place]
    BY <1>7 DEF KillClear, KillRelease, FreeClient, FreeJobList, history, Goto, Serving, Pc
  <2>3. QED
    BY <2>1, <2>2, ServedElsewhere
<1>8. CASE UNCHANGED vars
  BY <1>8 DEF vars, ServeInv
<1>9. QED
  BY <1>1, <1>2, <1>3, <1>4, <1>5, <1>6, <1>7, <1>8, ServedForCalls DEF Next, ThreadStep

(***************************************************************************)
(* Who holds a job.                                                         *)
(***************************************************************************)

\* cl->kill and the history are never taken back.
LEMMA FlagsStay == [Next]_vars => (kill => kill') /\ (overwrote => overwrote')
<1> SUFFICES ASSUME [Next]_vars PROVE (kill => kill') /\ (overwrote => overwrote')
  OBVIOUS
<1>1. ASSUME NEW c \in Calls, AddChecked(c) \/ CallSection(c) \/ KillThread(c)
      PROVE  (kill => kill') /\ (overwrote => overwrote')
  BY <1>1 DEF AddChecked, CallSection, AddRefused, AddQueued, AddStart, AddStartFails, KillThread,
     flags, history
<1>2. ASSUME NEW w \in Calls, ThreadStart(w) \/ OuterLoop(w) \/ InnerLoop(w) \/ Fetch(w) \/ FetchNothing(w)
                              \/ PollBegin(w) \/ PollTimeout(w) \/ Drop(w) \/ Track(w) \/ Done(w)
      PROVE  (kill => kill') /\ (overwrote => overwrote')
  BY <1>2 DEF ThreadStart, OuterLoop, InnerLoop, Fetch, FetchNothing, PollBegin, PollTimeout,
     Drop, Track, Done, flags, history
<1>3. ASSUME NEW w \in Calls, PollEvent(w) \/ Handle(w)
      PROVE  (kill => kill') /\ (overwrote => overwrote')
  <2>1. kill => kill'
    BY <1>3, Zenon DEF PollEvent, Handle
  <2>2. overwrote' = overwrote
    BY <1>3 DEF PollEvent, Handle, history
  <2>3. QED
    BY <2>1, <2>2
<1>e. ASSUME NEW w \in Calls, EndCheck(w) \/ ClearAgain(w) \/ KillClear(w) \/ KillRelease(w)
                              \/ FreeClient(w) \/ FreeJobList(w)
      PROVE  (kill => kill') /\ (overwrote => overwrote')
  <2>1. CASE EndCheck(w) \/ KillClear(w) \/ KillRelease(w) \/ FreeJobList(w)
    BY <2>1 DEF EndCheck, KillClear, KillRelease, FreeJobList, flags, history
  <2>2. CASE ClearAgain(w)
    BY <2>2 DEF ClearAgain
  <2>3. CASE FreeClient(w)
    BY <2>3 DEF FreeClient, history
  <2>4. QED
    BY <1>e, <2>1, <2>2, <2>3
<1>4. CASE UNCHANGED vars
  BY <1>4, Zenon DEF vars
<1>5. QED
  BY <1>1, <1>2, <1>3, <1>e, <1>4 DEF Next, ThreadStep

\* A thread that finds thread_active clear does not serve a living client.
LEMMA ServerIsActive ==
    ASSUME ServeInv, ~overwrote, ~kill, NEW w \in Calls, pc[w] \in Serving
    PROVE  active # 0
BY DEF ServeInv

\* A job is in the list only while somebody is active, and only in the hands of a
\* thread that serves the client.
LEMMA StepRest == TypeOK /\ FlagsInv /\ JobsInv /\ ServeInv /\ RestInv /\ [Next]_vars => RestInv'
<1> SUFFICES ASSUME TypeOK, FlagsInv, JobsInv, ServeInv, RestInv, [Next]_vars,
                    ~overwrote', ~kill'
             PROVE  /\ active' = 0 => joblist' = <<>>
                    /\ \A w \in Calls : pc'[w] \notin Serving \ {"ending"} => data'[w] = None
  BY DEF RestInv
<1> DEFINE Rest == /\ active = 0 => joblist = <<>>
                   /\ \A w \in Calls : pc[w] \notin Serving \ {"ending"} => data[w] = None
<1>k. ~overwrote /\ ~kill
  BY FlagsStay
<1>r. Rest
  BY <1>k DEF RestInv
<1>d. \A w \in Calls : pc[w] \notin Dying
  BY <1>k DEF FlagsInv
<1>t. /\ pc \in [Calls -> Pc] /\ data \in [Calls -> Calls \cup {None, Event}]
      /\ joblist \in Seq(Calls)
  BY DEF TypeOK
<1>1. ASSUME NEW c \in Calls, AddRefused(c) \/ AddChecked(c) \/ AddQueued(c) \/ AddStartFails(c)
      PROVE  Rest'
  BY <1>1, <1>r, <1>t DEF AddRefused, AddChecked, AddQueued, AddStartFails, flags
<1>2. ASSUME NEW c \in Calls, AddStart(c) PROVE Rest'
  BY <1>2, <1>r, <1>t DEF AddStart, Goto, Hold, Serving
<1>3. ASSUME NEW w \in Calls, ThreadStart(w) \/ PollBegin(w) \/ PollTimeout(w) PROVE Rest'
  BY <1>3, <1>r, <1>t DEF ThreadStart, PollBegin, PollTimeout, Goto, Serving
<1>4. ASSUME NEW w \in Calls, OuterLoop(w) \/ InnerLoop(w) PROVE Rest'
  <2>1. active # 0
    BY <1>4, <1>k, ServerIsActive DEF OuterLoop, InnerLoop, Serving
  <2>2. /\ UNCHANGED <<active, joblist, data>>
        /\ \E place \in Serving \ {"ending"} : pc' = [pc EXCEPT ![w] = place]
    BY <1>4, <1>k, <2>1 DEF OuterLoop, InnerLoop, Goto, flags, Serving
  <2>3. pc[w] \in Serving \ {"ending"}
    BY <1>4 DEF OuterLoop, InnerLoop, Serving
  <2>4. QED
    BY <1>r, <1>t, <2>2, <2>3
<1>5. ASSUME NEW w \in Calls, Fetch(w) PROVE Rest'
  BY <1>5, <1>r, <1>t DEF Fetch, Goto, Hold, flags, Serving
<1>6. ASSUME NEW w \in Calls, FetchNothing(w) PROVE Rest'
  <2>1. data[w] = None
    BY <1>6 DEF FetchNothing, JobsInv
  <2>2. QED
    BY <1>6, <1>r, <1>t, <2>1 DEF FetchNothing, Goto, flags, Serving
<1>7. ASSUME NEW w \in Calls, PollEvent(w) \/ Handle(w) \/ Track(w) PROVE Rest'
  <2>1. active' \in {1, active} /\ joblist' = joblist
    BY <1>7, Zenon DEF PollEvent, Handle, Track, flags
  <2>2. \E place \in {"dispatch", "handled", "run"} : pc' = [pc EXCEPT ![w] = place]
    BY <1>7, Zenon DEF PollEvent, Handle, Track, Goto
  <2>3. \A v \in Calls : v # w => data'[v] = data[v]
    BY <1>7, <1>t DEF PollEvent, Handle, Track, Hold
  <2>4. QED
    BY <1>r, <1>t, <2>1, <2>2, <2>3 DEF Serving
<1>8. ASSUME NEW w \in Calls, Drop(w) \/ Done(w) PROVE Rest'
  <2>1. /\ UNCHANGED <<active, joblist>> /\ data' = [data EXCEPT ![w] = None]
        /\ \E place \in {"inner", "ending"} : pc' = [pc EXCEPT ![w] = place]
    BY <1>8 DEF Drop, Done, Hold, Goto, flags
  <2>2. QED
    BY <1>r, <1>t, <2>1 DEF Serving
<1>9. ASSUME NEW w \in Calls, EndCheck(w) \/ ClearAgain(w) PROVE Rest'
  <2>1. CASE EndCheck(w)
    BY <2>1, <1>r, <1>t DEF EndCheck, Goto, Serving
  <2>2. CASE ClearAgain(w)
    <3>1. active' = active
      BY <2>2 DEF ClearAgain
    <3>2. QED
      BY <2>2, <3>1, <1>r, <1>t DEF ClearAgain, Goto, Serving
  <2>3. QED
    BY <1>9, <2>1, <2>2
<1>10. ASSUME NEW w \in Calls, KillClear(w) \/ KillRelease(w) \/ FreeClient(w) \/ FreeJobList(w)
       PROVE  FALSE
  BY <1>10, <1>d DEF KillClear, KillRelease, FreeClient, FreeJobList, Dying
<1>11. ASSUME NEW c \in Calls, KillThread(c) PROVE FALSE
  BY <1>11 DEF KillThread
<1>12. CASE UNCHANGED vars
  BY <1>12, <1>r DEF vars
<1>13. QED
  BY <1>1, <1>2, <1>3, <1>4, <1>5, <1>6, <1>7, <1>8, <1>9, <1>10, <1>11, <1>12
     DEF Next, CallSection, ThreadStep

(***************************************************************************)
(* The order of jobs.                                                       *)
(***************************************************************************)

\* How many of the accepted jobs have left the list, or never were in it.
Taken == Len(accepted) - Len(joblist)

\* The list is the end of what was accepted, a job in hand the last one before it,
\* and all that came earlier is settled.
Ordered ==
    /\ Len(joblist) <= Len(accepted)
    /\ \A i \in 1..Len(joblist) : joblist[i] = accepted[Taken + i]
    /\ \A i \in 1..Taken : i < Taken => Settled(accepted[i])
    /\ Taken > 0 => Settled(accepted[Taken]) \/ \E w \in Calls : data[w] = accepted[Taken]
    /\ \A w \in Calls : data[w] \in Calls => Taken > 0 /\ data[w] = accepted[Taken]

OrderInv == ~overwrote /\ ~kill => Ordered

\* free_job_data settles the job and unsettles none.
LEMMA SettledStays ==
    ASSUME TypeOK, [Next]_vars, NEW j \in Calls, Settled(j)
    PROVE  Settled(j)'
<1>1. \A S : FreeJobs(S) => freed'[j] >= freed[j]
  BY DEF FreeJobs, TypeOK
<1>2. freed'[j] >= freed[j] /\ ran'[j] >= ran[j]
  <2>1. ASSUME NEW c \in Calls, AddChecked(c) \/ CallSection(c) \/ KillThread(c)
        PROVE  freed'[j] >= freed[j] /\ ran'[j] >= ran[j]
    BY <1>1, <2>1 DEF AddChecked, CallSection, AddRefused, AddQueued, AddStart, AddStartFails,
       KillThread, TypeOK
  <2>2. ASSUME NEW w \in Calls, ThreadStart(w) \/ OuterLoop(w) \/ InnerLoop(w) \/ Fetch(w)
                                \/ FetchNothing(w) \/ PollBegin(w) \/ PollTimeout(w) \/ PollEvent(w)
                                \/ Track(w) \/ EndCheck(w) \/ ClearAgain(w) \/ KillClear(w) \/ FreeClient(w)
        PROVE  freed'[j] >= freed[j] /\ ran'[j] >= ran[j]
    <3>1. UNCHANGED <<freed, ran>>
      BY <2>2 DEF ThreadStart, OuterLoop, InnerLoop, Fetch, FetchNothing, PollBegin, PollTimeout,
         PollEvent, Track, EndCheck, ClearAgain, KillClear, FreeClient
    <3>2. QED
      BY <3>1, SMTT(30) DEF TypeOK
  <2>3. ASSUME NEW w \in Calls, Drop(w) \/ Done(w) \/ KillRelease(w) \/ FreeJobList(w)
        PROVE  freed'[j] >= freed[j] /\ ran'[j] >= ran[j]
    <3>1. ran' = ran /\ \E S : FreeJobs(S)
      BY <2>3 DEF Drop, Done, KillRelease, FreeJobList
    <3>2. QED
      BY <1>1, <3>1 DEF TypeOK
  <2>4. ASSUME NEW w \in Calls, Handle(w)
        PROVE  freed'[j] >= freed[j] /\ ran'[j] >= ran[j]
    BY <2>4 DEF Handle, TypeOK
  <2>5. CASE UNCHANGED vars
    BY <2>5 DEF vars, TypeOK
  <2>6. QED
    BY <2>1, <2>2, <2>3, <2>4, <2>5 DEF Next, ThreadStep
<1>3. TypeOK'
  BY StepTypeOK
<1>4. {freed[j], freed'[j], ran[j], ran'[j]} \subseteq 0..2
  BY <1>3 DEF TypeOK
<1>5. QED
  BY <1>2, <1>4 DEF Settled

\* A step that adds and takes no job; a thread may let go of one that is settled.
LEMMA OrderKept ==
    ASSUME TypeOK, Ordered, [Next]_vars, UNCHANGED <<accepted, joblist>>,
           \A w \in Calls : \/ data'[w] = data[w]
                            \/ data'[w] \notin Calls /\ \A j \in Calls : data[w] = j => Settled(j)'
    PROVE  Ordered'
<1>1. Taken' = Taken /\ Taken \in Int /\ Len(joblist) \in Nat /\ Len(accepted) \in Nat
  BY DEF Taken, TypeOK
<1>2. \A i \in 1..Taken : accepted[i] \in Calls
  BY DEF Taken, TypeOK
<1>s. \A j \in Calls : Settled(j) => Settled(j)'
  BY SettledStays
<1>3. \A i \in 1..Taken : Settled(accepted[i]) => Settled(accepted[i])'
  BY <1>2, <1>s DEF Settled
<1>4. Taken > 0 => Settled(accepted[Taken])' \/ \E w \in Calls : data'[w] = accepted[Taken]
  <2> SUFFICES ASSUME Taken > 0, NEW w \in Calls, data[w] = accepted[Taken], data'[w] # data[w]
               PROVE  Settled(accepted[Taken])'
    BY <1>1, <1>3 DEF Ordered
  <2>1. PICK j \in Calls : j = accepted[Taken]
    BY <1>1, <1>2
  <2>2. Settled(j)'
    BY <2>1
  <2>3. QED
    BY <1>1, <2>1, <2>2 DEF Settled
<1>5. QED
  BY <1>1, <1>2, <1>3, <1>4 DEF Ordered

\* A job at the end of the list.
LEMMA OrderQueued ==
    ASSUME TypeOK, Ordered, [Next]_vars, NEW c \in Calls, AddQueued(c)
    PROVE  Ordered'
<1>1. /\ joblist' = Append(joblist, c) /\ accepted' = Append(accepted, c)
      /\ data' = data /\ freed' = freed /\ ran' = ran
  BY DEF AddQueued
<1>2. /\ Len(joblist) \in Nat /\ Len(accepted) \in Nat
      /\ Len(joblist') = Len(joblist) + 1 /\ Len(accepted') = Len(accepted) + 1
  BY <1>1 DEF TypeOK
<1>3. Taken' = Taken /\ Taken \in Nat
  BY <1>2 DEF Taken, Ordered
<1>4. \A i \in 1..Len(accepted) : accepted'[i] = accepted[i]
  BY <1>1, <1>2 DEF TypeOK
<1>5. \A i \in 1..Len(joblist') : joblist'[i] = accepted'[Taken + i]
  <2>1. ASSUME NEW i \in 1..Len(joblist) PROVE joblist'[i] = accepted'[Taken + i]
    <3>1. Taken + i \in 1..Len(accepted)
      BY <1>2, <1>3 DEF Taken
    <3>2. joblist'[i] = joblist[i]
      BY <1>1, <1>2 DEF TypeOK
    <3>3. QED
      BY <1>4, <3>1, <3>2 DEF Ordered
  <2>2. Taken + Len(joblist') = Len(accepted')
    BY <1>2 DEF Taken
  <2>3. joblist'[Len(joblist')] = c /\ accepted'[Len(accepted')] = c
    BY <1>1, <1>2 DEF TypeOK
  <2>4. QED
    BY <1>2, <2>1, <2>2, <2>3
<1>6. \A i \in 1..Taken : Settled(accepted[i]) => Settled(accepted[i])'
  BY <1>1, <1>2, <1>4 DEF Settled, Taken
<1>7. Taken > 0 => Taken \in 1..Len(accepted)
  BY <1>2, <1>3 DEF Taken
<1>8. Len(joblist') <= Len(accepted')
  BY <1>2 DEF Ordered
<1>9. \A i \in 1..Taken' : i < Taken' => Settled(accepted[i])'
  BY <1>3, <1>6 DEF Ordered
<1>10. Taken' > 0 => accepted'[Taken'] = accepted[Taken]
  BY <1>3, <1>4, <1>7
<1>11. Taken' > 0 => Settled(accepted[Taken])' \/ \E w \in Calls : data'[w] = accepted'[Taken']
  <2>1. Taken > 0 => Taken \in 1..Taken
    BY <1>3
  <2>2. Taken > 0 => (Settled(accepted[Taken]) => Settled(accepted[Taken])')
    BY <1>1, <1>3, <1>10 DEF Settled
  <2>3. QED
    BY <1>1, <1>3, <1>10, <2>1, <2>2 DEF Ordered
<1>12. \A w \in Calls : data'[w] \in Calls => Taken' > 0 /\ data'[w] = accepted'[Taken']
  BY <1>1, <1>3, <1>10 DEF Ordered
<1>13. QED
  BY <1>3, <1>5, <1>8, <1>9, <1>11, <1>12 DEF Ordered

\* A job that is handed to a new thread: the list is empty and no thread has a job.
LEMMA OrderStarted ==
    ASSUME TypeOK, Ordered, RestInv, ServeInv, ~overwrote, ~kill, [Next]_vars,
           NEW c \in Calls, AddStart(c)
    PROVE  Ordered'
<1>1. /\ joblist' = joblist /\ accepted' = Append(accepted, c)
      /\ data' = [data EXCEPT ![c] = c] /\ freed' = freed /\ ran' = ran
  BY DEF AddStart, Hold
<1>2. active = 0
  BY DEF AddStart, NobodyActive
<1>3. joblist = <<>> /\ \A w \in Calls : data[w] = None
  BY <1>2 DEF RestInv, ServeInv
<1>4. Len(accepted) \in Nat /\ Len(accepted') = Len(accepted) + 1 /\ Len(joblist) = 0 /\ Len(joblist') = 0
  BY <1>1, <1>3 DEF TypeOK
<1>5. Taken' = Taken + 1 /\ Taken = Len(accepted)
  BY <1>4 DEF Taken
<1>6. /\ accepted'[Taken'] = c /\ \A i \in 1..Taken : accepted'[i] = accepted[i] /\ accepted[i] \in Calls
  BY <1>1, <1>4, <1>5 DEF TypeOK
<1>7. \A w \in Calls : data'[w] = IF w = c THEN c ELSE None
  BY <1>1, <1>3 DEF TypeOK
<1>8. \A i \in 1..Taken : Settled(accepted[i])
  BY <1>3, <1>4, <1>5, <1>6, NamesAssumption DEF Ordered
<1>9. \A i \in 1..Taken : Settled(accepted[i])'
  BY <1>1, <1>6, <1>8 DEF Settled
<1>10. QED
  BY <1>1, <1>4, <1>5, <1>6, <1>7, <1>9, NamesAssumption DEF Ordered

\* The first job of the list is the next one in hand.
LEMMA OrderFetched ==
    ASSUME TypeOK, JobsInv, RestInv, ServeInv, Ordered, ~overwrote, ~kill, [Next]_vars,
           NEW w \in Calls, Fetch(w)
    PROVE  Ordered'
<1>1. /\ joblist' = Tail(joblist) /\ accepted' = accepted /\ joblist # <<>>
      /\ data' = [data EXCEPT ![w] = Head(joblist)] /\ freed' = freed /\ ran' = ran /\ pc[w] = "fetch"
  BY DEF Fetch, Hold
<1>2. /\ Len(accepted) \in Nat /\ Len(joblist) \in Nat \ {0} /\ Len(joblist') = Len(joblist) - 1
      /\ Head(joblist) = joblist[1]
      /\ \A i \in 1..Len(joblist') : joblist'[i] = joblist[i + 1]
  BY <1>1 DEF TypeOK
<1>3. Taken' = Taken + 1 /\ Taken \in Nat
  BY <1>1, <1>2 DEF Taken, Ordered
<1>4. \A v \in Calls : data[v] = None
  <2>1. data[w] = None
    BY <1>1 DEF JobsInv
  <2>2. \A v \in Calls : v # w => pc[v] \notin Serving
    BY <1>1 DEF ServeInv, Serving
  <2>3. QED
    BY <2>1, <2>2 DEF RestInv
<1>5. \A v \in Calls : data'[v] = IF v = w THEN accepted'[Taken'] ELSE None
  BY <1>1, <1>2, <1>3, <1>4 DEF Ordered, TypeOK
<1>6. \A i \in 1..Taken : Settled(accepted[i])'
  <2>1. \A i \in 1..Taken : accepted[i] \in Calls
    BY <1>2, <1>3 DEF Taken, TypeOK
  <2>2. \A i \in 1..Taken : Settled(accepted[i])
    BY <1>3, <1>4, <2>1, NamesAssumption DEF Ordered
  <2>3. QED
    BY <1>1, <2>2 DEF Settled
<1>7. \A i \in 1..Len(joblist') : joblist'[i] = accepted'[Taken' + i]
  BY <1>1, <1>2, <1>3 DEF Ordered
<1>8. Len(joblist') <= Len(accepted')
  BY <1>1, <1>2 DEF Ordered
<1>9. QED
  BY <1>2, <1>3, <1>5, <1>6, <1>7, <1>8, NamesAssumption DEF Ordered

\* The order is kept as long as the client lives and no ended thread interferes.
LEMMA StepOrder ==
    TypeOK /\ FlagsInv /\ JobsInv /\ ServeInv /\ RestInv /\ OrderInv /\ [Next]_vars => OrderInv'
<1> SUFFICES ASSUME TypeOK, FlagsInv, JobsInv, ServeInv, RestInv, OrderInv, [Next]_vars,
                    ~overwrote', ~kill'
             PROVE  Ordered'
  BY DEF OrderInv
<1>k. ~overwrote /\ ~kill /\ Ordered
  BY FlagsStay DEF OrderInv
<1>1. ASSUME NEW c \in Calls, AddRefused(c) \/ AddChecked(c) \/ AddStartFails(c) \/ KillThread(c)
      PROVE  Ordered'
  BY <1>1, <1>k, OrderKept DEF AddRefused, AddChecked, AddStartFails, KillThread
<1>2. ASSUME NEW w \in Calls, ThreadStart(w) \/ OuterLoop(w) \/ InnerLoop(w) \/ FetchNothing(w)
                              \/ PollBegin(w) \/ PollTimeout(w) \/ Track(w) \/ Handle(w) \/ EndCheck(w)
                              \/ ClearAgain(w)
      PROVE  Ordered'
  <2>1. UNCHANGED <<accepted, joblist, data>>
    BY <1>2 DEF ThreadStart, OuterLoop, InnerLoop, FetchNothing, PollBegin, PollTimeout, Track,
       Handle, EndCheck, ClearAgain
  <2>2. QED
    BY <1>k, <2>1, OrderKept
<1>3. ASSUME NEW w \in Calls, PollEvent(w) PROVE Ordered'
  <2>1. data[w] = None /\ UNCHANGED <<accepted, joblist>> /\ data' = [data EXCEPT ![w] = Event]
    BY <1>3 DEF PollEvent, Hold, JobsInv
  <2>2. \A v \in Calls : data'[v] = IF v = w THEN Event ELSE data[v]
    BY <2>1 DEF TypeOK
  <2>3. QED
    BY <1>k, <2>1, <2>2, OrderKept, NamesAssumption
<1>4. ASSUME NEW w \in Calls, Drop(w) \/ Done(w) PROVE Ordered'
  <2>1. /\ UNCHANGED <<accepted, joblist>> /\ data' = [data EXCEPT ![w] = None] /\ FreeJobs({data[w]})
    BY <1>4 DEF Drop, Done, Hold
  <2>2. \A v \in Calls : data'[v] = IF v = w THEN None ELSE data[v]
    BY <2>1 DEF TypeOK
  <2>3. \A j \in Calls : data[w] = j => Settled(j)'
    BY <2>1 DEF FreeJobs, Settled, TypeOK
  <2>4. QED
    BY <1>k, <2>1, <2>2, <2>3, OrderKept, NamesAssumption
<1>5. ASSUME NEW w \in Calls, KillClear(w) \/ KillRelease(w) \/ FreeClient(w) \/ FreeJobList(w)
      PROVE  FALSE
  BY <1>5, <1>k DEF KillClear, KillRelease, FreeClient, FreeJobList, FlagsInv, Dying
<1>6. CASE UNCHANGED vars
  BY <1>6, <1>k, OrderKept DEF vars
<1>7. QED
  BY <1>1, <1>2, <1>3, <1>4, <1>5, <1>6, <1>k, OrderQueued, OrderStarted, OrderFetched
     DEF Next, CallSection, ThreadStep

(***************************************************************************)
(* What add_job and work_thread guarantee.                                  *)
(***************************************************************************)

\* Only a thread that carries out its job counts it.
LEMMA StepRuns == TypeOK /\ JobsInv /\ RunOnce /\ [Next]_vars => RunOnce'
<1> SUFFICES ASSUME TypeOK, JobsInv, RunOnce, [Next]_vars PROVE RunOnce'
  OBVIOUS
<1>1. ASSUME NEW c \in Calls, AddChecked(c) \/ CallSection(c) \/ KillThread(c) PROVE ran' = ran
  BY <1>1 DEF AddChecked, CallSection, AddRefused, AddQueued, AddStart, AddStartFails, KillThread
<1>2. ASSUME NEW w \in Calls, ThreadStart(w) \/ OuterLoop(w) \/ InnerLoop(w) \/ Fetch(w) \/ FetchNothing(w)
                              \/ PollBegin(w) \/ PollTimeout(w) \/ PollEvent(w) \/ Drop(w) \/ Track(w)
      PROVE  ran' = ran
  BY <1>2 DEF ThreadStart, OuterLoop, InnerLoop, Fetch, FetchNothing, PollBegin, PollTimeout,
     PollEvent, Drop, Track
<1>3. ASSUME NEW w \in Calls, Done(w) \/ EndCheck(w) \/ ClearAgain(w) \/ KillClear(w) \/ KillRelease(w)
                              \/ FreeClient(w) \/ FreeJobList(w)
      PROVE  ran' = ran
  BY <1>3 DEF Done, EndCheck, ClearAgain, KillClear, KillRelease, FreeClient, FreeJobList
<1>4. ASSUME NEW w \in Calls, Handle(w) PROVE RunOnce'
  <2>1. data[w] \in Calls => ran[data[w]] = 0
    BY <1>4 DEF Handle, JobsInv
  <2>2. ran' = [j \in Calls |-> IF j = data[w] /\ ran[j] < 2 THEN ran[j] + 1 ELSE ran[j]]
    BY <1>4 DEF Handle
  <2>3. QED
    BY <2>1, <2>2 DEF RunOnce
<1>5. CASE UNCHANGED vars
  BY <1>5 DEF vars, RunOnce
<1>6. ran' = ran => RunOnce'
  BY DEF RunOnce
<1>7. QED
  BY <1>1, <1>2, <1>3, <1>4, <1>5, <1>6 DEF Next, ThreadStep

\* Nothing is added to the list of a killed client, and who empties it leaves last.
LEMMA StepClosed == TypeOK /\ FlagsInv /\ QueueClosed /\ [Next]_vars => QueueClosed'
<1> SUFFICES ASSUME TypeOK, FlagsInv, QueueClosed, [Next]_vars,
                    freeStarted', \A v \in Calls : pc'[v] # "cleanup"
             PROVE  joblist' = <<>>
  BY DEF QueueClosed, Threads
<1> DEFINE Closed == freeStarted /\ (\A v \in Calls : pc[v] # "cleanup") => joblist = <<>>
<1>c. Closed
  BY DEF QueueClosed, Threads
<1>t. pc \in [Calls -> Pc]
  BY DEF TypeOK
<1>1. ASSUME NEW c \in Calls, AddRefused(c) \/ AddChecked(c) \/ AddStartFails(c) \/ KillThread(c)
      PROVE  joblist' = <<>>
  BY <1>1, <1>c DEF AddRefused, AddChecked, AddStartFails, KillThread, flags
<1>2. ASSUME NEW c \in Calls, AddQueued(c) PROVE joblist' = <<>>
  BY <1>2 DEF AddQueued, flags, FlagsInv
<1>3. ASSUME NEW c \in Calls, AddStart(c) PROVE joblist' = <<>>
  <2>1. /\ freeStarted /\ joblist' = joblist /\ pc' = [pc EXCEPT ![c] = "starting"]
        /\ pc[c] = "none"
    BY <1>3 DEF AddStart, Goto, FlagsInv
  <2>2. QED
    BY <2>1, <1>c, <1>t
<1>4. ASSUME NEW w \in Calls, NEW place, pc[w] # "cleanup", pc' = [pc EXCEPT ![w] = place], freeStarted
      PROVE  joblist = <<>>
  BY <1>4, <1>c, <1>t
<1>5. ASSUME NEW w \in Calls, ThreadStart(w) \/ OuterLoop(w) \/ InnerLoop(w) \/ FetchNothing(w)
                              \/ PollBegin(w) \/ PollTimeout(w) \/ PollEvent(w) \/ Drop(w) \/ Track(w)
      PROVE  joblist' = <<>>
  <2>1. /\ pc[w] # "cleanup" /\ freeStarted' = freeStarted /\ joblist' = joblist
        /\ \E place : pc' = [pc EXCEPT ![w] = place]
    BY <1>5 DEF ThreadStart, OuterLoop, InnerLoop, FetchNothing, PollBegin, PollTimeout,
       PollEvent, Drop, Track, Goto, flags
  <2>2. QED
    BY <1>4, <2>1
<1>6. ASSUME NEW w \in Calls, Handle(w) \/ Done(w) \/ EndCheck(w) \/ ClearAgain(w) \/ KillClear(w)
                              \/ KillRelease(w)
      PROVE  joblist' = <<>>
  <2>1. /\ pc[w] # "cleanup" /\ freeStarted' = freeStarted /\ joblist' = joblist
        /\ \E place : pc' = [pc EXCEPT ![w] = place]
    BY <1>6 DEF Handle, Done, EndCheck, ClearAgain, KillClear, KillRelease, Goto, flags
  <2>2. QED
    BY <1>4, <2>1
<1>7. ASSUME NEW w \in Calls, Fetch(w) PROVE joblist' = <<>>
  BY <1>7, <1>4 DEF Fetch, Goto, flags
<1>8. ASSUME NEW w \in Calls, FreeClient(w) PROVE joblist' = <<>>
  <2>1. pc[w] = "free" /\ joblist' = joblist
        /\ pc' = [pc EXCEPT ![w] = IF freeStarted THEN "gone" ELSE "cleanup"]
    BY <1>8 DEF FreeClient, Goto
  <2>2. freeStarted
    BY <2>1, <1>t
  <2>3. QED
    BY <1>4, <2>1, <2>2
<1>9. ASSUME NEW w \in Calls, FreeJobList(w) PROVE joblist' = <<>>
  BY <1>9 DEF FreeJobList
<1>10. CASE UNCHANGED vars
  BY <1>10, <1>c DEF vars
<1>11. QED
  BY <1>1, <1>2, <1>3, <1>5, <1>6, <1>7, <1>8, <1>9, <1>10 DEF Next, CallSection, ThreadStep

\* The invariant holds throughout.
LEMMA Invariant == Spec => [](IInv /\ OrderInv)
<1>1. Init => OrderInv
  <2> SUFFICES ASSUME Init PROVE Ordered
    BY DEF OrderInv
  <2>1. Len(joblist) = 0 /\ Len(accepted) = 0 /\ Taken = 0
    BY DEF Init, Taken
  <2>2. QED
    BY <2>1, NamesAssumption DEF Init, Ordered
<1>2. IInv /\ OrderInv /\ [Next]_vars => (IInv /\ OrderInv)'
  BY StepTypeOK, StepFlags, StepJobs, StepServe, StepRest, StepOrder DEF IInv
<1>3. QED
  BY <1>1, <1>2, InitIInv, PTL DEF Spec

\* The fields of the queue and of its threads keep their types.
THEOREM TypeCorrect == Spec => []TypeOK
<1>1. IInv => TypeOK
  BY DEF IInv
<1>2. QED
  BY <1>1, Invariant, PTL

\* The action of a job is carried out at most once, killed clients and second
\* work threads included.
THEOREM JobRunsOnce == Spec => []RunOnce
<1>1. Init => RunOnce
  BY DEF Init, RunOnce
<1>2. IInv /\ RunOnce /\ [Next]_vars => RunOnce'
  BY StepRuns DEF IInv
<1>3. QED
  BY <1>1, <1>2, Invariant, PTL DEF Spec

\* After free_joblist nobody adds to the list of the freed client.
THEOREM FreedQueueStaysEmpty == Spec => []QueueClosed
<1>1. Init => QueueClosed
  BY DEF Init, QueueClosed
<1>2. IInv /\ QueueClosed /\ [Next]_vars => QueueClosed'
  BY StepClosed DEF IInv
<1>3. QED
  BY <1>1, <1>2, Invariant, PTL DEF Spec

\* Two threads of one client are never in its handlers at once, unless a thread
\* that had ended cleared thread_active.
THEOREM OneThreadHandles == Spec => []OneHandler
<1>1. IInv => OneHandler
  <2> SUFFICES ASSUME IInv, ~overwrote PROVE Cardinality(Threads(Handling)) <= 1
    BY DEF OneHandler
  <2>1. \A w, v \in Threads(Handling) : w = v
    BY DEF IInv, ServeInv, Threads, Handling, Busy
  <2>2. CASE Threads(Handling) = {}
    BY <2>2, FS_EmptySet
  <2>3. CASE Threads(Handling) # {}
    <3>1. PICK w \in Threads(Handling) : Threads(Handling) = {w}
      BY <2>1, <2>3
    <3>2. Cardinality({w}) = 1
      BY FS_Singleton
    <3>3. QED
      BY <3>1, <3>2
  <2>4. QED
    BY <2>2, <2>3
<1>2. QED
  BY <1>1, Invariant, PTL

\* A job in the list of a living client has a thread that will find it.
THEOREM JobsAreServed == Spec => []NobodyForgotten
<1>1. IInv => NobodyForgotten
  <2> SUFFICES ASSUME IInv, ~overwrote, ~failed, ~kill
               PROVE  /\ joblist # <<>> => Threads(Serving) # {}
                      /\ \A w \in Threads({"clear", "gone"}) : data[w] = None
    BY DEF NobodyForgotten
  <2>1. joblist # <<>> => \E w \in Calls : pc[w] \in Serving
    BY DEF IInv, RestInv, ServeInv
  <2>2. \A w \in Calls : pc[w] \in {"clear", "gone"} => data[w] = None
    BY DEF IInv, RestInv, Serving
  <2>3. QED
    BY <2>1, <2>2 DEF Threads
<1>2. QED
  BY <1>1, Invariant, PTL

\* Jobs are carried out in the order of their acceptance.
THEOREM JobsRunInOrder == Spec => []InOrder
<1>1. IInv /\ OrderInv => InOrder
  <2> SUFFICES ASSUME IInv, Ordered, NEW w \in Calls, NEW i \in DOMAIN accepted, NEW k \in DOMAIN accepted,
                      i < k, accepted[k] = data[w]
               PROVE  Settled(accepted[i])
    BY DEF InOrder, OrderInv, Threads
  <2>1. /\ Len(accepted) \in Nat /\ Len(joblist) \in Nat /\ DOMAIN accepted = 1..Len(accepted)
        /\ DOMAIN joblist = 1..Len(joblist) /\ accepted[k] \in Calls
    BY DEF IInv, TypeOK
  <2>2. k <= Taken
    <3> SUFFICES ASSUME k > Taken PROVE FALSE
      BY <2>1 DEF Taken
    <3>1. k - Taken \in 1..Len(joblist) /\ Taken + (k - Taken) = k
      BY <2>1 DEF Taken, Ordered
    <3>2. joblist[k - Taken] = accepted[k]
      BY <3>1 DEF Ordered
    <3>3. QED
      BY <2>1, <3>1, <3>2 DEF IInv, JobsInv
  <2>3. i \in 1..Taken /\ i < Taken
    BY <2>1, <2>2 DEF Taken
  <2>4. QED
    BY <2>3 DEF Ordered
<1>2. QED
  BY <1>1, Invariant, PTL
=============================================================================
