------------------------------- MODULE WorkQueue -------------------------------
(***************************************************************************)
(* The job queue of one client or reader: add_job and work_thread of        *)
(* src/trunk/oscam-work.c, with kill_thread and the part of free_client     *)
(* that concerns the queue.  Any number of threads call add_job at once.    *)
(* cl->thread_active says whether a work thread serves the client (2: it    *)
(* sleeps in poll); a call that finds it 0 starts a work thread and hands   *)
(* it the job, any other appends to cl->joblist.  thread_active is written  *)
(* under cl->thread_lock except at the two ends of a thread's life, and     *)
(* cl->kill never is.                                                       *)
(*                                                                          *)
(* A call, its job and the thread it may start carry the same name.  The    *)
(* signal that cuts a poll short is not modelled (poll ends by itself after *)
(* three seconds), nor is a failing malloc; cl->pfd comes and goes, so a    *)
(* thread without work may poll or end.                                     *)
(***************************************************************************)
EXTENDS Naturals, Sequences, FiniteSets

CONSTANTS
    Calls,          \* the calls of add_job for this client
    KillerSets      \* the choices of the calls that kill_thread makes

ASSUME CallsAssumption == IsFiniteSet(Calls) /\ KillerSets \subseteq SUBSET Calls

None == "none"      \* no job
Event == "event"    \* tmp_data: data arrived on cl->pfd
ASSUME NamesAssumption == None \notin Calls /\ Event \notin Calls

VARIABLES
    killers,        \* calls after which kill_thread has yet to set cl->kill
    caller,         \* where each call of add_job is
    accepted,       \* the accepted jobs, in the order of cl->thread_lock
    joblist,        \* cl->joblist
    active,         \* cl->thread_active
    kill,           \* cl->kill
    freeStarted,    \* cl->kill_started
    tracked,        \* cl->work_job_data
    pc,             \* where each work thread is
    data,           \* the job in each thread's hands
    ran,            \* how often a job's action was carried out
    freed,          \* how often free_job_data was called on it
    failed,         \* history: start_thread failed
    overwrote       \* history: a thread that had ended cleared thread_active

flags == <<active, kill, freeStarted>>
history == <<failed, overwrote>>
vars == <<killers, caller, accepted, joblist, active, kill, freeStarted,
          tracked, pc, data, ran, freed, failed, overwrote>>

Pc == {"none", "starting", "outer", "inner", "fetch", "idle", "poll", "dispatch",
       "run", "handled", "ending", "clear", "killed", "release", "free", "cleanup",
       "gone"}

\* The places from which a thread still comes to the end check of the queue.
Serving == {"starting", "outer", "inner", "fetch", "idle", "poll", "dispatch",
            "run", "handled", "ending"}
Handling == {"dispatch", "run", "handled"}

Threads(places) == {w \in Calls : pc[w] \in places}

\* free_job_data; tmp_data is not freed.
FreeJobs(jobs) ==
    freed' = [j \in Calls |-> IF j \in jobs /\ freed[j] < 2 THEN freed[j] + 1 ELSE freed[j]]

Goto(w, place) == pc' = [pc EXCEPT ![w] = place]
Hold(w, job) == data' = [data EXCEPT ![w] = job]
Return(c, how) == caller' = [caller EXCEPT ![c] = how]
Listed == {joblist[i] : i \in DOMAIN joblist}

Init ==
    /\ killers \in KillerSets
    /\ caller = [c \in Calls |-> "new"]
    /\ accepted = <<>> /\ joblist = <<>>
    /\ active = 0
    /\ kill = FALSE /\ freeStarted = FALSE
    /\ tracked = None
    /\ pc = [w \in Calls |-> "none"]
    /\ data = [w \in Calls |-> None]
    /\ ran = [j \in Calls |-> 0]
    /\ freed = [j \in Calls |-> 0]
    /\ failed = FALSE /\ overwrote = FALSE

-----------------------------------------------------------------------------
(* add_job, called by any thread, and kill_thread.                          *)

\* "Ignore jobs for killed clients".
AddRefused(c) ==
    /\ caller[c] = "new"
    /\ kill
    /\ Return(c, "refused")
    /\ UNCHANGED <<killers, accepted, joblist, flags, tracked, pc, data, ran, freed, history>>

\* The flag is read before the lock is taken.
AddChecked(c) ==
    /\ caller[c] = "new"
    /\ ~kill
    /\ Return(c, "checked")
    /\ UNCHANGED <<killers, accepted, joblist, flags, tracked, pc, data, ran, freed, history>>

\* Mutant: the job goes to the front of the list.
AddQueuedInFront(c) ==
    /\ caller[c] = "checked"
    /\ ~kill /\ active # 0
    /\ joblist' = <<c>> \o joblist
    /\ accepted' = Append(accepted, c)
    /\ Return(c, "returned")
    /\ UNCHANGED <<killers, flags, tracked, pc, data, ran, freed, history>>

\* Mutant: cl->kill is not looked at again under the lock.
AddQueuedKilled(c) ==
    /\ caller[c] = "checked"
    /\ active # 0
    /\ joblist' = Append(joblist, c)
    /\ accepted' = Append(accepted, c)
    /\ Return(c, "returned")
    /\ UNCHANGED <<killers, flags, tracked, pc, data, ran, freed, history>>

\* cl->kill is looked at again.
AddQueued(c) ==
    /\ caller[c] = "checked"
    /\ ~kill /\ active # 0
    /\ joblist' = Append(joblist, c)
    /\ accepted' = Append(accepted, c)
    /\ Return(c, "returned")
    /\ UNCHANGED <<killers, flags, tracked, pc, data, ran, freed, history>>

\* Mutant: a thread that polls does not count as active.
NobodyActivePolling == kill \/ active # 1

NobodyActive == kill \/ active = 0

\* A killed client gets a thread too, whatever thread it has.
AddStart(c) ==
    /\ caller[c] = "checked"
    /\ NobodyActive
    /\ accepted' = Append(accepted, c)
    /\ Return(c, "returned")
    /\ Goto(c, "starting") /\ Hold(c, c)
    /\ active' = 1
    /\ UNCHANGED <<killers, joblist, kill, freeStarted, tracked, ran, freed, history>>

\* "ERROR: can't create thread": thread_active is set all the same.
AddStartFails(c) ==
    /\ caller[c] = "checked"
    /\ NobodyActive
    /\ Return(c, "returned")
    /\ FreeJobs({c})
    /\ active' = 1
    /\ failed' = TRUE
    /\ UNCHANGED <<killers, accepted, joblist, kill, freeStarted, tracked, pc, data, ran,
                   overwrote>>

\* kill_thread: "add kill job, ... then set kill flag!"
KillThread(c) ==
    /\ c \in killers
    /\ caller[c] \in {"returned", "refused"}
    /\ kill' = TRUE
    /\ killers' = killers \ {c}
    /\ UNCHANGED <<caller, accepted, joblist, active, freeStarted, tracked, pc, data, ran,
                   freed, history>>

-----------------------------------------------------------------------------
(* work_thread.                                                             *)

ThreadStart(w) ==
    /\ pc[w] = "starting"
    /\ active' = 1
    /\ Goto(w, "outer")
    /\ UNCHANGED <<killers, caller, accepted, joblist, kill, freeStarted, tracked, data, ran,
                   freed, history>>

OuterLoop(w) ==
    /\ pc[w] = "outer"
    /\ Goto(w, IF active # 0 THEN "inner" ELSE "clear")
    /\ UNCHANGED <<killers, caller, accepted, joblist, flags, tracked, data, ran, freed, history>>

InnerLoop(w) ==
    /\ pc[w] = "inner"
    /\ Goto(w, CASE active = 0 -> "ending"
                 [] active # 0 /\ kill -> "killed"
                 [] active # 0 /\ ~kill -> IF data[w] = None THEN "fetch" ELSE "dispatch")
    /\ UNCHANGED <<killers, caller, accepted, joblist, flags, tracked, data, ran, freed, history>>

\* Mutant: the job is read from the list and stays there.
FetchKeeps(w) ==
    /\ pc[w] = "fetch"
    /\ joblist # <<>>
    /\ Hold(w, Head(joblist))
    /\ Goto(w, "dispatch")
    /\ UNCHANGED <<killers, caller, accepted, joblist, flags, tracked, ran, freed, history>>

Fetch(w) ==
    /\ pc[w] = "fetch"
    /\ joblist # <<>>
    /\ Hold(w, Head(joblist)) /\ joblist' = Tail(joblist)
    /\ Goto(w, "dispatch")
    /\ UNCHANGED <<killers, caller, accepted, flags, tracked, ran, freed, history>>

\* The list is empty: poll, or leave the loop if there is nothing to poll.
FetchNothing(w) ==
    /\ pc[w] = "fetch"
    /\ joblist = <<>>
    /\ \E place \in {"idle", "ending"} : Goto(w, place)
    /\ UNCHANGED <<killers, caller, accepted, joblist, flags, tracked, data, ran, freed, history>>

\* The lock was released in between.
PollBegin(w) ==
    /\ pc[w] = "idle"
    /\ active' = 2
    /\ Goto(w, "poll")
    /\ UNCHANGED <<killers, caller, accepted, joblist, kill, freeStarted, tracked, data, ran,
                   freed, history>>

PollEvent(w) ==
    /\ pc[w] = "poll"
    /\ active' = 1
    /\ kill' \in {kill, TRUE}       \* POLLHUP, POLLNVAL or POLLERR
    /\ Hold(w, Event)
    /\ Goto(w, "dispatch")
    /\ UNCHANGED <<killers, caller, accepted, joblist, freeStarted, tracked, ran, freed, history>>

\* Mutant: a poll without a timeout ends only by an event.
PollTimeoutNever(w) == FALSE /\ PollEvent(w)

PollTimeout(w) ==
    /\ pc[w] = "poll"
    /\ active' = 1
    /\ Goto(w, "inner")
    /\ UNCHANGED <<killers, caller, accepted, joblist, kill, freeStarted, tracked, data, ran,
                   freed, history>>

\* "dropping client data": the job is too old (next turn of the loop), or it is a
\* reader's job of a client without a reader (the loop ends).
Drop(w) ==
    /\ pc[w] = "dispatch" /\ data[w] \in Calls
    /\ FreeJobs({data[w]}) /\ tracked' = None /\ Hold(w, None)
    /\ \E place \in {"inner", "ending"} : Goto(w, place)
    /\ UNCHANGED <<killers, caller, accepted, joblist, flags, ran, history>>

\* Mutant: tmp_data of the thread's stack is tracked too.
TrackAny(w) ==
    /\ pc[w] = "dispatch"
    /\ tracked' = data[w]
    /\ Goto(w, "run")
    /\ UNCHANGED <<killers, caller, accepted, joblist, flags, data, ran, freed, history>>

\* "Track the current job_data".
Track(w) ==
    /\ pc[w] = "dispatch"
    /\ tracked' = IF data[w] = Event THEN tracked ELSE data[w]
    /\ Goto(w, "run")
    /\ UNCHANGED <<killers, caller, accepted, joblist, flags, data, ran, freed, history>>

\* switch(data->action): ACTION_CLIENT_KILL sets cl->kill, and a client that is
\* idle, a connection that broke or a reader that restarts may.
Handle(w) ==
    /\ pc[w] = "run"
    /\ kill' \in IF data[w] \in killers THEN {TRUE} ELSE {kill, TRUE}
    /\ ran' = [j \in Calls |-> IF j = data[w] /\ ran[j] < 2 THEN ran[j] + 1 ELSE ran[j]]
    /\ Goto(w, "handled")
    /\ UNCHANGED <<killers, caller, accepted, joblist, active, freeStarted, tracked, data,
                   freed, history>>

Done(w) ==
    /\ pc[w] = "handled"
    /\ tracked' = None /\ FreeJobs({data[w]}) /\ Hold(w, None)
    /\ Goto(w, "inner")
    /\ UNCHANGED <<killers, caller, accepted, joblist, flags, ran, history>>

\* Mutant: the thread ends without a look at the list.
EndCheckBlind(w) ==
    /\ pc[w] = "ending"
    /\ active' = 0
    /\ Goto(w, "clear")
    /\ UNCHANGED <<killers, caller, accepted, joblist, kill, freeStarted, tracked, data, ran,
                   freed, history>>

\* "Check for some race condition where while we ended, another thread added a job".
EndCheck(w) ==
    /\ pc[w] = "ending"
    /\ IF joblist # <<>>
       THEN Goto(w, "outer") /\ active' = active
       ELSE Goto(w, "clear") /\ active' = 0
    /\ UNCHANGED <<killers, caller, accepted, joblist, kill, freeStarted, tracked, data, ran,
                   freed, history>>

\* The last assignment of the thread, without the lock.
ClearAgain(w) ==
    /\ pc[w] = "clear"
    /\ active' = 0
    /\ overwrote' = (overwrote \/ active # 0)
    /\ Goto(w, "gone")
    /\ UNCHANGED <<killers, caller, accepted, joblist, kill, freeStarted, tracked, data, ran,
                   freed, failed>>

\* "ending thread (kill)".
KillClear(w) ==
    /\ pc[w] = "killed"
    /\ active' = 0
    /\ Goto(w, "release")
    /\ UNCHANGED <<killers, caller, accepted, joblist, kill, freeStarted, tracked, data, ran,
                   freed, history>>

KillRelease(w) ==
    /\ pc[w] = "release"
    /\ tracked' = None /\ FreeJobs({data[w]}) /\ Hold(w, None)
    /\ Goto(w, "free")
    /\ UNCHANGED <<killers, caller, accepted, joblist, flags, ran, history>>

\* free_client lets the first thread in and turns the others away.
FreeClient(w) ==
    /\ pc[w] = "free"
    /\ Goto(w, IF freeStarted THEN "gone" ELSE "cleanup")
    /\ freeStarted' = TRUE /\ kill' = TRUE
    /\ UNCHANGED <<killers, caller, accepted, joblist, active, tracked, data, ran, freed, history>>

\* free_joblist, with the "job_data that was not freed by work_thread".
FreeJobList(w) ==
    /\ pc[w] = "cleanup"
    /\ FreeJobs(Listed \cup {tracked}) /\ joblist' = <<>> /\ tracked' = None
    /\ Goto(w, "gone")
    /\ UNCHANGED <<killers, caller, accepted, flags, data, ran, history>>

CallSection(c) == AddRefused(c) \/ AddQueued(c) \/ AddStart(c) \/ AddStartFails(c)

ThreadStep(w) ==
    \/ ThreadStart(w) \/ OuterLoop(w) \/ InnerLoop(w)
    \/ Fetch(w) \/ FetchNothing(w)
    \/ PollBegin(w) \/ PollTimeout(w)
    \/ Drop(w) \/ Track(w) \/ Handle(w) \/ Done(w)
    \/ EndCheck(w) \/ ClearAgain(w)
    \/ KillClear(w) \/ KillRelease(w) \/ FreeClient(w) \/ FreeJobList(w)

Next ==
    \E c \in Calls :
        \/ AddChecked(c) \/ CallSection(c) \/ KillThread(c)
        \/ ThreadStep(c) \/ PollEvent(c)

Spec == Init /\ [][Next]_vars

\* A call past its first look at cl->kill goes on; a work thread runs, its handlers
\* return and its poll ends after 3 s.  Nobody has to send an event.
Fairness ==
    \A c \in Calls : WF_vars(CallSection(c)) /\ WF_vars(ThreadStep(c))

FairSpec == Spec /\ Fairness

-----------------------------------------------------------------------------
(* Properties.                                                              *)

TypeOK ==
    /\ killers \in SUBSET Calls
    /\ caller \in [Calls -> {"new", "checked", "returned", "refused"}]
    /\ accepted \in Seq(Calls) /\ joblist \in Seq(Calls)
    /\ active \in 0..2
    /\ kill \in BOOLEAN /\ freeStarted \in BOOLEAN
    /\ tracked \in Calls \cup {None}
    /\ pc \in [Calls -> Pc]
    /\ data \in [Calls -> Calls \cup {None, Event}]
    /\ ran \in [Calls -> 0..2] /\ freed \in [Calls -> 0..2]
    /\ failed \in BOOLEAN /\ overwrote \in BOOLEAN

Settled(j) == ran[j] > 0 \/ freed[j] > 0

\* Two threads never carry out actions of one client at the same time, even while
\* it is being killed - as long as no thread that had ended cleared thread_active
\* behind the back of its successor (the second, unlocked clear of work_thread).
OneHandler == ~overwrote => Cardinality(Threads(Handling)) <= 1

\* No job is lost: with the same exception and while the client lives, a job in
\* the list has a thread that will come to it, and a thread that has ended holds
\* no job.  (After a failed start_thread, thread_active claims a thread that is
\* not there, and this fails too.)
NobodyForgotten ==
    ~overwrote /\ ~failed /\ ~kill =>
        /\ joblist # <<>> => Threads(Serving) # {}
        /\ \A w \in Threads({"clear", "gone"}) : data[w] = None

\* The action of a job is carried out at most once, by whatever thread.
RunOnce == \A j \in Calls : ran[j] <= 1

\* Jobs are carried out in the order in which add_job accepted them, whether they
\* were queued or handed to a new thread.
InOrder ==
    ~overwrote /\ ~kill =>
        \A w \in Threads({"run"}), i, k \in DOMAIN accepted :
            i < k /\ accepted[k] = data[w] => Settled(accepted[i])

\* Once free_joblist has emptied the list of a killed client, no call of add_job
\* that was under way puts a job there, which nobody would take or free.
QueueClosed == freeStarted /\ Threads({"cleanup"}) = {} => joblist = <<>>

\* Every accepted job of a client that lives is carried out or dropped in the end,
\* a job that came when the thread was about to poll included.
EveryJobSettled ==
    \A c \in Calls : caller[c] = "returned" ~> (Settled(c) \/ kill \/ overwrote \/ failed)

\* What work_thread's end check is there for: no job is left behind by a thread
\* that ends while another thread adds one.
NoJobLeftBehind ==
    ~failed /\ ~kill /\ joblist # <<>> => Threads(Serving) # {}

\* free_joblist frees only job data "that was not freed by work_thread": no job is
\* freed while, or before, a thread still works on it.
FreedOnce == \A w \in Calls : data[w] \in Calls => freed[data[w]] = 0
=============================================================================
