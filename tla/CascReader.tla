----------------------------- MODULE CascReader -----------------------------
(***************************************************************************)
(* Requests of several clients at one proxy reader: reader_get_ecm,         *)
(* casc_process_ecm and casc_check_dcw of src/trunk/oscam-reader.c, with    *)
(* write_ecm_answer, distribute_ea, ecm_timeout, free_ecm and the clean-up  *)
(* of cw_process of src/trunk/oscam-ecm.c.  A request for an ECM that the   *)
(* reader already works on is not sent again: it is put into the pending    *)
(* list of the answer of the other request and gets a copy of that answer.  *)
(* What the answer then does to the client is module EcmRequest.            *)
(*                                                                          *)
(* A request is freed by its age and not by who still uses it, so time is   *)
(* part of the state: age[e] is time(NULL) - er->tps.time, bin[e] the       *)
(* seconds since add_garbage(er), both counted up to the last value that    *)
(* matters.  Time stands still while a thread is inside a function: the     *)
(* margins of the code are seconds, its functions take milliseconds.  The   *)
(* collector frees as early as module Garbage lets it.                      *)
(*                                                                          *)
(* Default build; the reader passes chk_bcaid; E_INVALID travels like       *)
(* E_NOTFOUND.  The ECM of a request stands for its control word too.       *)
(***************************************************************************)
EXTENDS Naturals, Sequences, FiniteSets

CONSTANTS
    NumRequests,    \* bound: requests that are made
    Ecms,           \* ECMs, equal if caid and ecmd5 are
    NoCw,           \* no control word
    Assignments,    \* which ECM each request is for
    MaxPending,     \* cfg.max_pending, size of the reader's ecmtask table
    ClientTimeout,  \* cfg.ctimeout, in milliseconds
    Lag             \* seconds get_cw takes from the time stamp to the insertion

\* Numbered in the order of insertion; 0 is no request, and the reader as a thread.
Requests == 1..NumRequests
None == 0
Reader == 0
Threads == 0..NumRequests       \* a request's number stands for its client's worker

ASSUME RequestsAssumption == NumRequests \in Nat \ {0}
ASSUME AssignmentsAssumption == Assignments \subseteq [Requests -> Ecms]
ASSUME TableAssumption == MaxPending \in Nat \ {0}
ASSUME TimesAssumption == ClientTimeout \in Nat \ {0} /\ Lag \in 0..1
ASSUME NoCwAssumption == NoCw \notin Ecms

\* "LIMITED" is E_NOTFOUND together with E2_RATELIMIT.
Answer == [rc : {"FOUND"}, cw : Ecms] \cup [rc : {"NOTFOUND", "LIMITED", "TIMEOUT"}, cw : {NoCw}]
Found(ecm) == [rc |-> "FOUND", cw |-> ecm]
\* Mutant: the control word of the ECM before is copied into such an answer.
NotFoundStale == [rc |-> "NOTFOUND", cw |-> CHOOSE cw \in Ecms : TRUE]
NotFound == [rc |-> "NOTFOUND", cw |-> NoCw]
Limited == [rc |-> "LIMITED", cw |-> NoCw]
TimedOut == [rc |-> "TIMEOUT", cw |-> NoCw]
Unhandled == [rc |-> "UNHANDLED", cw |-> NoCw]

\* A call of write_ecm_answer that a thread has still to make.
Write(e, a) == [er |-> e, ans |-> a]
Call == [er : Requests, ans : Answer]

\* A row of ecmtask: the copy of a request; rc >= E_NOCARD; idx is that of an ECM
\* which the proxy may still reply to.
Row == [er : Requests \cup {None}, busy : BOOLEAN, open : BOOLEAN]
NoRow == [er |-> None, busy |-> FALSE, open |-> FALSE]

VARIABLES
    ecm,        \* er->caid and er->ecmd5
    life,       \* where the memory of a request is
    age, bin,   \* its clocks
    cache,      \* ecmcwcache, newest insertion first
    sent,       \* REQUEST_SENT in the status of its answer from this reader
    ea,         \* that answer: rc and cw; REQUEST_ANSWERED is set with them
    isPending,  \* ea->is_pending
    pending,    \* ea->pending, along pending_next
    queue,      \* ACTION_READER_ECM_REQUEST jobs of the reader
    rows,       \* ecmtask
    joining, host,  \* reader_get_ecm: er, and the request whose ea it has found
    todo,       \* the calls of write_ecm_answer each thread has still to make
    cut         \* cw_process: ecm and prv of the clean-up

cacheVars == <<life, cache, cut>>
eaVars == <<sent, ea, isPending, pending>>
rdrVars == <<queue, rows, joining, host>>
clocks == <<age, bin>>
vars == <<ecm, cacheVars, clocks, eaVars, rdrVars, todo>>

\* The limits of the code, in seconds.
Timeout == (ClientTimeout + 500) \div 1000
CutAge == Timeout + 3
GarbageTime == (2 * ClientTimeout) \div 1000 + 6
OldAge == CutAge + 1            \* age counts no further
GoneTime == GarbageTime + 1     \* nor bin
\* A job is dropped if gone > ctimeout + 1000; s seconds by the clock are more than
\* (s - 1) * 1000 and less than (s + 1) * 1000 milliseconds.
MayStart(s) == s * 1000 < ClientTimeout + 2000
MayDrop(s) == s * 1000 > ClientTimeout

ReaderIdle == joining = None /\ todo[Reader] = <<>>
AllIdle == joining = None /\ cut.er = None /\ \A t \in Threads : todo[t] = <<>>

\* Mutant: answers are never too late.
NeverTooLate(e) == FALSE

\* er->tps.time < time(NULL) - ((ctimeout + 500) / 1000 + 1)
TooLate(e) == age[e] > Timeout + 1

Init ==
    /\ ecm \in Assignments
    /\ life = [e \in Requests |-> "new"]
    /\ age = [e \in Requests |-> 0] /\ bin = [e \in Requests |-> 0]
    /\ cache = <<>>
    /\ sent = [e \in Requests |-> FALSE]
    /\ ea = [e \in Requests |-> Unhandled]
    /\ isPending = [e \in Requests |-> FALSE]
    /\ pending = [e \in Requests |-> <<>>]
    /\ queue = <<>>
    /\ rows = [n \in 1..MaxPending |-> NoRow]
    /\ joining = None /\ host = None
    /\ todo = [t \in Threads |-> <<>>]
    /\ cut = [er |-> None, prv |-> None]

-----------------------------------------------------------------------------
(* write_ecm_answer and distribute_ea.                                      *)

\* What the requests in the pending list are told of answer a.
Passed(a) == IF a.rc \in {"FOUND", "LIMITED"} THEN a ELSE NotFound

\* distribute_ea, whose calls come before what is left of the caller.
CallsFor(e, a) == [n \in DOMAIN pending[e] |-> Write(pending[e][n], Passed(a))]

\* Dropped: too old, or freed, or the reader has answered.
Unwritable(e) == TooLate(e) \/ life[e] # "cached" \/ ea[e] # Unhandled

\* Thread t answers e with a and has the calls in rest to make afterwards.  The answer is
\* set with ecmanswer_lock held; nobody joins it any more, so that what
\* distribute_ea finds without the lock is what is pending now.
WriteAnswer(t, e, a, rest) ==
    IF Unwritable(e) THEN ea' = ea /\ todo' = [todo EXCEPT ![t] = rest]
    ELSE /\ ea' = [ea EXCEPT ![e] = a]
         /\ todo' = [todo EXCEPT ![t] = CallsFor(e, a) \o rest]

NextCall(t) ==
    /\ todo[t] # <<>>
    /\ WriteAnswer(t, Head(todo[t]).er, Head(todo[t]).ans, Tail(todo[t]))
    /\ UNCHANGED <<ecm, cacheVars, clocks, sent, isPending, pending, rdrVars>>

-----------------------------------------------------------------------------
(* The clients.  A client may be served by another reader, or go, at any    *)
(* time: what it does here is always something it may do.                   *)

\* get_cw: "insert it in ecmcwcache!", up to Lag seconds after get_ecmtask has
\* stamped the request.
Insert(e) ==
    /\ life[e] = "new"
    /\ \A f \in Requests : f < e => life[f] # "new"
    /\ life' = [life EXCEPT ![e] = "cached"]
    /\ \E late \in 0..Lag : age' = [age EXCEPT ![e] = late]
    /\ cache' = <<e>> \o cache
    /\ UNCHANGED <<ecm, cut, bin, eaVars, rdrVars, todo>>

\* request_cw_from_readers reaches this reader, at once or in a later stage.
AskReader(e) ==
    /\ life[e] = "cached" /\ ~sent[e] /\ todo[e] = <<>>
    /\ sent' = [sent EXCEPT ![e] = TRUE]
    /\ queue' = Append(queue, e)
    /\ UNCHANGED <<ecm, cacheVars, clocks, ea, isPending, pending, rows, joining, host, todo>>

\* ecm_timeout, by a job of cw_process; free_ecm has set matching_rdr to NULL.
TimeoutJob(e) ==
    /\ life[e] = "cached" /\ todo[e] = <<>>
    /\ (age[e] + 1) * 1000 > ClientTimeout
    /\ sent[e] /\ ~Unwritable(e)
    /\ WriteAnswer(e, e, TimedOut, <<>>)
    /\ UNCHANGED <<ecm, cacheVars, clocks, sent, isPending, pending, rdrVars>>

-----------------------------------------------------------------------------
(* The reader's worker.                                                     *)

\* A job in the queue has waited since e was in ecmcwcache, or less.
TakeJob(e) ==
    /\ ReaderIdle
    /\ queue # <<>> /\ Head(queue) = e
    /\ queue' = Tail(queue)

DropJob(e) ==
    /\ TakeJob(e) /\ MayDrop(age[e])
    /\ UNCHANGED <<ecm, cacheVars, clocks, eaVars, rows, joining, host, todo>>

\* get_ecm_answer finds nothing: free_ecm was faster.
JobTooLate(e) ==
    /\ TakeJob(e) /\ MayStart(bin[e])
    /\ life[e] # "cached"
    /\ UNCHANGED <<ecm, cacheVars, clocks, eaVars, rows, joining, host, todo>>

\* "CHECK if ecm already sent to reader": the entries of ecmcwcache looked at.
Recent(n) == \A m \in 1..n : age[cache[m]] < Timeout + 1

\* Mutant: an answer may be joined that waits itself.
JoinableAny(e, h) ==
    /\ h # e /\ ecm[h] = ecm[e]
    /\ sent[h] /\ ea[h].rc \notin {"TIMEOUT", "LIMITED"}

\* Mutant: what the reader was asked for is not compared.
JoinableOther(e, h) ==
    /\ h # e
    /\ ~isPending[h] /\ sent[h] /\ ea[h].rc \notin {"TIMEOUT", "LIMITED"}

Joinable(e, h) ==
    /\ h # e /\ ecm[h] = ecm[e]
    /\ ~isPending[h] /\ sent[h] /\ ea[h].rc \notin {"TIMEOUT", "LIMITED"}

Hosts(e) == {n \in DOMAIN cache : Recent(n) /\ Joinable(e, cache[n])}

StartJob(e) == TakeJob(e) /\ life[e] = "cached"

\* Under ecmcache_lock; then ea_er->is_pending = true.
Join(e) ==
    /\ StartJob(e)
    /\ \E n \in Hosts(e) :
          /\ \A m \in Hosts(e) : n <= m
          /\ host' = cache[n]
    /\ joining' = e
    /\ isPending' = [isPending EXCEPT ![e] = TRUE]
    /\ UNCHANGED <<ecm, cacheVars, clocks, sent, ea, pending, rows, todo>>

\* The rest, with ecmanswer_lock of the host.  "ea->rc < E_99": it is answered, and
\* so is er.
JoinAnswered ==
    /\ joining # None /\ ea[host] # Unhandled
    /\ WriteAnswer(Reader, joining, Passed(ea[host]), <<>>)
    /\ joining' = None /\ host' = None
    /\ UNCHANGED <<ecm, cacheVars, clocks, sent, isPending, pending, queue, rows>>

\* Mutant: ea->rc was tested before the lock was taken.
JoinWaitsAnyway ==
    /\ joining # None
    /\ pending' = [pending EXCEPT ![host] = <<joining>> \o @]
    /\ joining' = None /\ host' = None
    /\ UNCHANGED <<ecm, cacheVars, clocks, sent, ea, isPending, queue, rows, todo>>

\* It is not: er waits for it in its list.
JoinWaits ==
    /\ joining # None /\ ea[host] = Unhandled
    /\ pending' = [pending EXCEPT ![host] = <<joining>> \o @]
    /\ joining' = None /\ host' = None
    /\ UNCHANGED <<ecm, cacheVars, clocks, sent, ea, isPending, queue, rows, todo>>

\* ecm_ratelimit_check has no space and answers itself.
AskLimited(e) ==
    /\ StartJob(e) /\ Hosts(e) = {}
    /\ WriteAnswer(Reader, e, Limited, <<>>)
    /\ UNCHANGED <<ecm, cacheVars, clocks, sent, isPending, pending, rows, joining, host>>

\* "drop timeouts": rc = E_FOUND, the rest of the row stays.
DropTimeouts(tab) ==
    [n \in DOMAIN tab |->
        IF tab[n].busy /\ TooLate(tab[n].er)
        THEN (IF tab[n].open THEN [tab[n] EXCEPT !.busy = FALSE] ELSE NoRow)
        ELSE tab[n]]

FreeRows(tab) == {n \in DOMAIN tab : ~tab[n].busy}

\* sflag = 0: the same ECM is in the table already.
Underway(tab, e) == \E n \in DOMAIN tab : tab[n].busy /\ ecm[tab[n].er] = ecm[e]

\* casc_process_ecm, "reader ecm pending table overflow": nobody is told.
TableFull(e) ==
    /\ StartJob(e) /\ Hosts(e) = {}
    /\ rows' = DropTimeouts(rows)
    /\ FreeRows(rows') = {}
    /\ UNCHANGED <<ecm, cacheVars, clocks, eaVars, joining, host, todo>>

\* Its copy of the request goes into the first free row.
Enter(tab, row) ==
    \E n \in FreeRows(tab) :
        /\ \A m \in FreeRows(tab) : n <= m
        /\ rows' = [tab EXCEPT ![n] = row]

SendEcm(e) ==
    /\ StartJob(e) /\ Hosts(e) = {}
    /\ LET tab == DropTimeouts(rows)
       IN  Enter(tab, [er |-> e, busy |-> TRUE, open |-> ~Underway(tab, e)])
    /\ UNCHANGED <<ecm, cacheVars, clocks, eaVars, joining, host, todo>>

\* c_send_ecm fails with the connection intact: casc_check_dcw simulates "not found".
SendFails(e) ==
    /\ StartJob(e) /\ Hosts(e) = {}
    /\ LET tab == DropTimeouts(rows) IN ~Underway(tab, e) /\ Enter(tab, NoRow)
    /\ WriteAnswer(Reader, e, NotFound, <<>>)
    /\ UNCHANGED <<ecm, cacheVars, clocks, sent, isPending, pending, joining, host>>

Emptied == [n \in DOMAIN rows |-> NoRow]

\* It fails and has closed the connection: network_tcp_connection_close has emptied
\* the table, so that casc_check_dcw finds no row to answer.
SendCloses(e) ==
    /\ StartJob(e) /\ Hosts(e) = {}
    /\ LET tab == DropTimeouts(rows) IN ~Underway(tab, e) /\ FreeRows(tab) # {}
    /\ rows' = Emptied
    /\ UNCHANGED <<ecm, cacheVars, clocks, eaVars, joining, host, todo>>

\* The connection is closed for another reason.
Disconnect ==
    /\ ReaderIdle /\ rows # Emptied
    /\ rows' = Emptied
    /\ UNCHANGED <<ecm, cacheVars, clocks, eaVars, queue, joining, host, todo>>

\* The numbers in S from the first to the last, as a sequence.
Ascending(S) == {f \in [1..Cardinality(S) -> S] : \A i, k \in DOMAIN f : i < k => f[i] < f[k]}

\* The proxy replies, maybe late: idx finds the row, also when its request has been
\* dropped from it meanwhile (a reply to no row is nothing).  casc_check_dcw then
\* answers all rows with this ECM; write_ecm_answer looks at the time stamp of the row,
\* which is a copy, before it goes on to the request.
Reply(n, a) ==
    /\ ReaderIdle /\ rows[n].open
    /\ LET same == {m \in DOMAIN rows : rows[m].busy /\ ecm[rows[m].er] = ecm[rows[n].er]}
       IN  /\ \E hit \in Ascending({m \in same : ~TooLate(rows[m].er)}) :
                todo' = [todo EXCEPT ![Reader] = [i \in DOMAIN hit |-> Write(rows[hit[i]].er, a)]]
           /\ rows' = DropTimeouts([m \in DOMAIN rows |->
                          IF m = n \/ m \in same THEN NoRow ELSE rows[m]])
    /\ UNCHANGED <<ecm, cacheVars, clocks, eaVars, queue, joining, host>>

-----------------------------------------------------------------------------
(* cw_process and the collector.                                            *)

\* Mutant: requests leave ecmcwcache as soon as they can be answered no more.
CutScanEarly ==
    /\ cut.er = None
    /\ \E n \in DOMAIN cache :
          /\ age[cache[n]] > Timeout + 1 /\ \A m \in 1..(n - 1) : age[cache[m]] <= Timeout + 1
          /\ cut' = [er |-> cache[n], prv |-> IF n = 1 THEN None ELSE cache[n - 1]]
    /\ UNCHANGED <<ecm, life, cache, clocks, eaVars, rdrVars, todo>>

\* Under the read lock: the first request that is old enough.
CutScan ==
    /\ cut.er = None
    /\ \E n \in DOMAIN cache :
          /\ age[cache[n]] > CutAge /\ \A m \in 1..(n - 1) : age[cache[m]] <= CutAge
          /\ cut' = [er |-> cache[n], prv |-> IF n = 1 THEN None ELSE cache[n - 1]]
    /\ UNCHANGED <<ecm, life, cache, clocks, eaVars, rdrVars, todo>>

Index(e) == CHOOSE n \in DOMAIN cache : cache[n] = e

\* free_ecm: matching_rdr = NULL, answers and request go to the collector.
FreeEcm(old) ==
    /\ life' = [e \in Requests |-> IF e \in old THEN "garbage" ELSE life[e]]
    /\ sent' = [e \in Requests |-> e \notin old /\ sent[e]]
    /\ ea' = [e \in Requests |-> IF e \in old THEN Unhandled ELSE ea[e]]
    /\ isPending' = [e \in Requests |-> e \notin old /\ isPending[e]]
    /\ pending' = [e \in Requests |-> IF e \in old THEN <<>> ELSE pending[e]]

\* Under the write lock, taken later: prv->next = NULL or ecmcwcache = NULL; then
\* free_ecm for all that was cut off.
CutTail ==
    /\ cut.er # None
    /\ LET first == Index(cut.er)
           last == IF cut.prv = None THEN 0 ELSE Index(cut.prv)
           old == {cache[n] : n \in first..Len(cache)}
       IN  /\ cache' = SubSeq(cache, 1, last)
           /\ FreeEcm(old)
    /\ cut' = [er |-> None, prv |-> None]
    /\ UNCHANGED <<ecm, clocks, rdrVars, todo>>

\* Who may still get at a request that was freed: a job for it, or the answer that
\* it waits for.
InUse(e) ==
    \/ \E n \in DOMAIN queue : queue[n] = e /\ MayStart(bin[e])
    \/ \E h \in Requests : ea[h] = Unhandled /\ ~TooLate(h) /\ \E n \in DOMAIN pending[h] : pending[h][n] = e
    \/ \E n \in DOMAIN rows : rows[n].er = e /\ rows[n].busy /\ ~TooLate(e)
    \/ \E t \in Threads : \E n \in DOMAIN todo[t] : todo[t][n].er = e

\* A second passes; the collector frees what was in its list long enough - and what
\* is not in use any more, when it does that does not matter.
Tick ==
    /\ AllIdle
    /\ age' = [e \in Requests |-> IF life[e] = "new" \/ age[e] = OldAge THEN age[e] ELSE age[e] + 1]
    /\ bin' = [e \in Requests |-> IF life[e] = "garbage" THEN bin[e] + 1 ELSE bin[e]]
    /\ life' = [e \in Requests |->
                   IF life[e] = "garbage" /\ (bin'[e] = GoneTime \/ ~InUse(e)) THEN "freed" ELSE life[e]]
    /\ UNCHANGED <<ecm, cache, cut, eaVars, rdrVars, todo>>

-----------------------------------------------------------------------------
ClientStep(e) == Insert(e) \/ AskReader(e) \/ TimeoutJob(e)
JobStep(e) ==
    \/ DropJob(e) \/ JobTooLate(e) \/ Join(e) \/ AskLimited(e) \/ TableFull(e)
    \/ SendEcm(e) \/ SendFails(e) \/ SendCloses(e)
ReplyStep(n) == rows[n].open /\ \E a \in {Found(ecm[rows[n].er]), NotFound} : Reply(n, a)

Next ==
    \/ \E e \in Requests : ClientStep(e) \/ JobStep(e)
    \/ \E n \in 1..MaxPending : ReplyStep(n)
    \/ JoinAnswered \/ JoinWaits \/ Disconnect
    \/ \E t \in Threads : NextCall(t)
    \/ CutScan \/ CutTail \/ Tick

Spec == Init /\ [][Next]_vars

-----------------------------------------------------------------------------
(* Properties.                                                              *)

TypeOK ==
    /\ ecm \in Assignments
    /\ life \in [Requests -> {"new", "cached", "garbage", "freed"}]
    /\ age \in [Requests -> 0..OldAge] /\ bin \in [Requests -> 0..GoneTime]
    /\ sent \in [Requests -> BOOLEAN]
    /\ cache \in Seq(Requests)
    /\ ea \in [Requests -> Answer \cup {Unhandled}]
    /\ isPending \in [Requests -> BOOLEAN] /\ pending \in [Requests -> Seq(Requests)]
    /\ queue \in Seq(Requests)
    /\ rows \in [1..MaxPending -> Row]
    /\ joining \in Requests \cup {None} /\ host \in Requests \cup {None}
    /\ todo \in [Threads -> Seq(Call)]
    /\ cut \in [er : Requests \cup {None}, prv : Requests \cup {None}]

Waits(e, h) == \E n \in DOMAIN pending[h] : pending[h][n] = e
Called(e) == \E t \in Threads : \E n \in DOMAIN todo[t] : todo[t][n].er = e

\* "drop too late answers, to avoid seg fault", "to be sure no more access er!": what a
\* job, a pending list or the reader's table may still lead to is not freed yet,
\* however late replies and jobs are.
NotFreedInUse == \A e \in Requests : life[e] = "freed" => ~InUse(e)

\* Who waits for the answer to another request is told when it comes, by whichever
\* thread: nobody gets into a list that has been distributed already.
NobodyForgotten ==
    \A e, h \in Requests : Waits(e, h) /\ ea[h] # Unhandled =>
        Called(e) \/ Unwritable(e)

\* Requests never wait for each other in a circle, with none of them sent to the
\* proxy - although an older one may wait for a newer one, and that for another.
NoWaitingInCircles ==
    \A S \in (SUBSET Requests) \ {{}} : \E e \in S : \A h \in S : ~Waits(e, h)

\* A client gets the control word of its own ECM: through the reader's table, a
\* pending list, or an answer that was there before, whatever was reused meanwhile.
WordOfOwnEcm == \A e \in Requests : ea[e].rc = "FOUND" => ea[e].cw = ecm[e]

\* "ecm stays in cache at least ctimeout+2seconds!", also when requests are not inserted
\* in the order of their stamps - unless the clean-up found the first one old and
\* others were inserted in front of it before it got the write lock.
StaysInCache ==
    [][\A n \in DOMAIN cache :
          (cut.prv # None /\ ~\E m \in DOMAIN cache' : cache'[m] = cache[n])
              => age[cache[n]] >= Timeout + 2]_vars
=============================================================================
