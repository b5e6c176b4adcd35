----------------------------- MODULE EcmRequest -----------------------------
(***************************************************************************)
(* One ECM request of a client, from the moment get_cw puts it in           *)
(* ecmcwcache until it is answered (src/trunk/oscam-ecm.c, default build:   *)
(* config.h leaves CS_CACHEEX undefined, so stage 1 is always skipped).     *)
(*                                                                          *)
(* Threads: the worker of the client runs get_cw and the jobs of the        *)
(* client, one at a time; every matching reader has a worker of its own     *)
(* that answers through write_ecm_answer; cw_process posts timer jobs.      *)
(* The fields of ECM_REQUEST and of its s_ecm_answer list are shared.  The  *)
(* status words and stage are read and written without a lock, so their     *)
(* read-modify-writes are split where two threads may collide.              *)
(***************************************************************************)
EXTENDS Naturals, Sequences

CONSTANTS
    NumReaders,    \* length of er->matching_rdr
    CWs,           \* control words, told apart only by equality
    NoCw,          \* the cw field before a reader wrote it
    NoReader,      \* er->origin_reader == NULL
    Setups,        \* the requests get_cw may build, and what surrounds them
    MaxTimerJobs   \* bound: jobs of one timer that may queue up unserved

Readers == 1..NumReaders

\* Thread identities: the client's worker is 0, reader i's worker is i.
Worker == 0
Threads == 0..NumReaders

Flag == {"ACTIVE", "FALLBACK", "LOCAL", "SENT", "ANSWERED"}

\* rc codes by their use: FOUND is any rc < E_NOTFOUND, UNHANDLED any >= E_99.
Rc == {"FOUND", "NOTFOUND", "INVALID", "STOPPED", "TIMEOUT", "UNHANDLED"}

\* "BADECM" is E_NOTFOUND together with E2_WRONG_CHKSUM.
Verdict == [rc : {"FOUND"}, cw : CWs]
             \cup [rc : {"NOTFOUND", "INVALID", "STOPPED", "TIMEOUT", "BADECM"}, cw : {NoCw}]
TimedOut == [rc |-> "TIMEOUT", cw |-> NoCw]

\* The status list and the options get_cw starts from; what the readers of this
\* request may answer; whether they are all reachable and fast enough to answer
\* before any timer is due.
Setup == [status : [Readers -> SUBSET {"ACTIVE", "FALLBACK", "LOCAL"}],
          prefer : BOOLEAN, double : BOOLEAN,
          verdicts : SUBSET Verdict, reliable : BOOLEAN]

ASSUME NumReadersAssumption == NumReaders \in Nat \ {0}
ASSUME SetupAssumption == Setups \subseteq Setup
ASSUME BoundAssumption == MaxTimerJobs \in Nat \ {0}
ASSUME SentinelAssumption == NoCw \notin CWs /\ NoReader \notin Readers

\* ACTION_ECM_ANSWER_READER names the answer; the timer jobs name only the request.
AnswerJob(i) == [kind |-> "answer", ea |-> i]
TimerJob(kind) == [kind |-> kind, ea |-> 1]
Job == [kind : {"answer", "fallback", "timeout"}, ea : Readers]

\* Where a thread is in write_ecm_answer, with what it has loaded.
ThreadState == [pc : {"out", "clear", "record", "post"}, ea : Readers,
                verdict : [rc : Rc, cw : CWs \cup {NoCw}], idx : Readers, seen : SUBSET Flag]

\* What the module of the client may be handed.
Told == [rc : {"FOUND", "NOTFOUND", "TIMEOUT"}, cw : CWs \cup {NoCw}]

VARIABLES
    prefer,        \* er->preferlocalcards # 0
    double,        \* cfg.double_check applies to this ECM
    verdicts,      \* the environment: what readers answer
    reliable,      \* the environment: readers reachable and in time
    stage,         \* er->stage
    rc,            \* er->rc
    checked,       \* er->checked, the matching CWs seen by double_check
    origin,        \* er->origin_reader, who sent the first of them
    cwChecked,     \* er->cw_checked
    timeoutCheck,  \* er->readers_timeout_check
    status,        \* ea->status of every matching reader
    eaRc,          \* ea->rc
    eaCw,          \* ea->cw
    jobs,          \* the client's joblist
    queue,         \* ACTION_READER_ECM_REQUEST jobs waiting at each reader
    requests,      \* history: how often each reader was sent the request
    connected,     \* history: whether it was reachable when it was
    fbTimer,       \* history: the fallback timeout was acted on
    thr,           \* write_ecm_answer, per thread: pc, ea, verdict, idx, seen
    pc,            \* where the worker is
    k,             \* its loop index in matching_rdr
    ret,           \* where request_cw_from_readers returns to
    reg,           \* er->stage as loaded by er->stage++
    seen,          \* ea->status as last loaded by the worker
    anySent,       \* local sent of request_cw_from_readers
    left,          \* local counters and flags of chk_dcw, those not zero
    sent           \* history: the answers handed to the client's module

config  == <<prefer, double, verdicts, reliable>>
erVars  == <<stage, rc, checked, origin, cwChecked, timeoutCheck>>
eaVars  == <<status, eaRc, eaCw>>
rdrVars == <<queue, requests, connected>>
locals  == <<k, ret, reg, seen, anySent, left>>
vars == <<config, erVars, eaVars, rdrVars, jobs, fbTimer, thr, pc, locals, sent>>

Answered == rc # "UNHANDLED"      \* er->rc < E_99

\* The worker returns from the job: its locals are gone.
JobDone ==
    /\ pc' = "idle"
    /\ k' = 1 /\ ret' = "idle" /\ reg' = 0 /\ seen' = {} /\ anySent' = FALSE /\ left' = {}

ThreadOut == [pc |-> "out", ea |-> 1, verdict |-> TimedOut, idx |-> 1, seen |-> {}]

(***************************************************************************)
(* get_cw has filtered the readers and inserted the request; it now calls   *)
(* request_cw_from_readers(er, 0).                                          *)
(***************************************************************************)
Init ==
    /\ \E s \in Setups :
          /\ status = s.status
          /\ prefer = s.prefer
          /\ double = s.double
          /\ verdicts = s.verdicts
          /\ reliable = s.reliable
          \* otherwise get_cw has answered NOTFOUND: no reader counted
          /\ \E i \in Readers : "ACTIVE" \in s.status[i]
          \* otherwise get_cw has reset preferlocalcards: no local reader counted
          /\ s.prefer => \E i \in Readers : {"ACTIVE", "LOCAL"} \subseteq s.status[i]
    /\ stage = 0 /\ rc = "UNHANDLED" /\ timeoutCheck = FALSE
    /\ checked = 0 /\ origin = NoReader /\ cwChecked = NoCw
    /\ eaRc = [i \in Readers |-> "UNHANDLED"]
    /\ eaCw = [i \in Readers |-> NoCw]
    /\ jobs = <<>>
    /\ queue = [i \in Readers |-> 0]
    /\ requests = [i \in Readers |-> 0]
    /\ connected = [i \in Readers |-> FALSE]
    /\ fbTimer = FALSE
    /\ thr = [t \in Threads |-> ThreadOut]
    /\ pc = "enter" /\ ret = "idle"
    /\ k = 1 /\ reg = 0 /\ seen = {} /\ anySent = FALSE /\ left = {}
    /\ sent = <<>>

-----------------------------------------------------------------------------
(***************************************************************************)
(* request_cw_from_readers, run by the worker.                              *)
(***************************************************************************)

\* er->stage++ and the two ifs after it.
NextStage(s) ==
    LET afterCacheex == IF s + 1 = 1 THEN 2 ELSE s + 1
    IN  IF afterCacheex = 2 /\ ~prefer THEN 3 ELSE afterCacheex

\* Mutant: a reader is not skipped for having been asked before.
EligibleAgain(st, bits) ==
    /\ "ACTIVE" \in bits
    /\ IF st \in {2, 3} THEN "FALLBACK" \notin bits ELSE "FALLBACK" \in bits
    /\ st = 2 => "LOCAL" \in bits

\* The switch over er->stage: may the reader with these status bits be asked now?
Eligible(st, bits) ==
    /\ "ACTIVE" \in bits
    /\ "SENT" \notin bits
    /\ IF st \in {2, 3} THEN "FALLBACK" \notin bits ELSE "FALLBACK" \in bits
    /\ st = 2 => "LOCAL" \in bits

RequestEnter ==
    /\ pc = "enter"
    /\ pc' = IF stage >= 4 THEN "return" ELSE "load"
    /\ anySent' = FALSE
    /\ UNCHANGED <<config, erVars, eaVars, rdrVars, jobs, fbTimer, thr, k, ret, reg, seen, left, sent>>

StageLoad ==
    /\ pc = "load"
    /\ reg' = stage
    /\ pc' = "store"
    /\ UNCHANGED <<config, erVars, eaVars, rdrVars, jobs, fbTimer, thr, k, ret, seen, anySent, left, sent>>

StageStore ==
    /\ pc = "store"
    /\ stage' = NextStage(reg)
    /\ k' = 1 /\ reg' = 0
    /\ pc' = "ask"
    /\ UNCHANGED <<config, rc, checked, origin, cwChecked, timeoutCheck, eaVars, rdrVars, jobs,
                   fbTimer, thr, ret, seen, anySent, left, sent>>

AskSkip ==
    /\ pc = "ask" /\ k \in Readers
    /\ ~Eligible(stage, status[k])
    /\ k' = k + 1
    /\ UNCHANGED <<config, erVars, eaVars, rdrVars, jobs, fbTimer, thr, pc, ret, reg, seen, anySent, left, sent>>

AskPick ==
    /\ pc = "ask" /\ k \in Readers
    /\ Eligible(stage, status[k])
    /\ seen' = status[k]
    /\ pc' = "send"
    /\ UNCHANGED <<config, erVars, eaVars, rdrVars, jobs, fbTimer, thr, k, ret, reg, anySent, left, sent>>

\* ea->status |= REQUEST_SENT may store over a bit another thread has cleared
\* since the test; whether the reader is reachable decides only about anySent.
AskSend ==
    /\ pc = "send"
    /\ \E old \in {seen, status[k]} : status' = [status EXCEPT ![k] = old \cup {"SENT"}]
    /\ queue' = [queue EXCEPT ![k] = @ + 1]
    /\ requests' = [requests EXCEPT ![k] = @ + 1]
    /\ \E up \in (IF reliable THEN {TRUE} ELSE BOOLEAN) :
          /\ connected' = [connected EXCEPT ![k] = up]
          /\ anySent' = (anySent \/ up)
    /\ k' = k + 1 /\ seen' = {}
    /\ pc' = "ask"
    /\ UNCHANGED <<config, erVars, eaRc, eaCw, jobs, fbTimer, thr, ret, reg, left, sent>>

\* Mutant: the loop ends only when a reachable reader was asked.
AskDoneNever ==
    /\ pc = "ask" /\ k > NumReaders
    /\ pc' = IF anySent THEN "return" ELSE "load"
    /\ UNCHANGED <<config, erVars, eaVars, rdrVars, jobs, fbTimer, thr, k, ret, reg, seen, anySent, left, sent>>

\* "set sent=1 only if reader is active/connected. If not, switch to next stage!"
AskDone ==
    /\ pc = "ask" /\ k > NumReaders
    /\ pc' = IF anySent \/ stage >= 4 THEN "return" ELSE "load"
    /\ UNCHANGED <<config, erVars, eaVars, rdrVars, jobs, fbTimer, thr, k, ret, reg, seen, anySent, left, sent>>

\* Back in the caller: chk_dcw goes on to its verdict, fallback_timeout loops
\* until stage 4, get_cw is done.
RequestReturn ==
    /\ pc = "return"
    /\ CASE ret = "chk_dcw" -> pc' = "decide" /\ UNCHANGED locals
         [] ret = "fallback" /\ stage < 4 -> pc' = "enter" /\ UNCHANGED locals
         [] OTHER -> JobDone
    /\ UNCHANGED <<config, erVars, eaVars, rdrVars, jobs, fbTimer, thr, sent>>

-----------------------------------------------------------------------------
(***************************************************************************)
(* The jobs of the client, taken one at a time by its worker.               *)
(***************************************************************************)

\* Mutant: double_check counts any second reader, whatever control word it sent.
SendDcwAnyWord(answer, cw, from) ==
    IF double /\ answer = "FOUND"
    THEN LET confirms == checked = 0 \/ from # origin
         IN  /\ checked' = IF confirms THEN checked + 1 ELSE checked
             /\ origin' = IF checked = 0 THEN from ELSE origin
             /\ cwChecked' = IF checked = 0 THEN cw ELSE cwChecked
             /\ rc' = IF checked' < 2 THEN "UNHANDLED" ELSE answer
             /\ sent' = IF checked' < 2 THEN sent ELSE Append(sent, [rc |-> answer, cw |-> cw])
    ELSE /\ rc' = answer
         /\ sent' = Append(sent, [rc |-> answer, cw |-> cw])
         /\ UNCHANGED <<checked, origin, cwChecked>>

\* Mutant: double_check does not hold back the first control word.
SendDcwUnchecked(answer, cw, from) ==
    /\ rc' = answer
    /\ sent' = Append(sent, [rc |-> answer, cw |-> cw])
    /\ UNCHANGED <<checked, origin, cwChecked>>

\* send_dcw: under double_check a control word is held back, and the request is
\* unanswered again, until a second reader has sent the same one.
SendDcw(answer, cw, from) ==
    IF double /\ answer = "FOUND"
    THEN LET confirms == checked = 0 \/ (from # origin /\ cw = cwChecked)
         IN  /\ checked' = IF confirms THEN checked + 1 ELSE checked
             /\ origin' = IF checked = 0 THEN from ELSE origin
             /\ cwChecked' = IF checked = 0 THEN cw ELSE cwChecked
             /\ rc' = IF checked' < 2 THEN "UNHANDLED" ELSE answer
             /\ sent' = IF checked' < 2 THEN sent ELSE Append(sent, [rc |-> answer, cw |-> cw])
    ELSE /\ rc' = answer
         /\ sent' = Append(sent, [rc |-> answer, cw |-> cw])
         /\ UNCHANGED <<checked, origin, cwChecked>>

TakeJob(kind) ==
    /\ pc = "idle"
    /\ jobs # <<>>
    /\ Head(jobs).kind = kind
    /\ jobs' = Tail(jobs)

\* chk_dcw for an answer that needs no look at the other readers.
ChkDcwIgnore ==
    /\ TakeJob("answer")
    /\ Answered \/ eaRc[Head(jobs).ea] \in {"TIMEOUT", "STOPPED", "UNHANDLED"}
    /\ UNCHANGED <<config, erVars, eaVars, rdrVars, fbTimer, thr, pc, locals, sent>>

\* Mutant: "ecm request already answered!" is not checked.
ChkDcwFoundAgain ==
    /\ TakeJob("answer")
    /\ LET i == Head(jobs).ea
       IN  /\ eaRc[i] = "FOUND"
           /\ SendDcw("FOUND", eaCw[i], i)
    /\ UNCHANGED <<config, stage, timeoutCheck, eaVars, rdrVars, fbTimer, thr, pc, locals>>

ChkDcwFound ==
    /\ TakeJob("answer")
    /\ ~Answered
    /\ LET i == Head(jobs).ea
       IN  /\ eaRc[i] = "FOUND"
           /\ SendDcw("FOUND", eaCw[i], i)
    /\ UNCHANGED <<config, stage, timeoutCheck, eaVars, rdrVars, fbTimer, thr, pc, locals>>

ChkDcwNotFound ==
    /\ TakeJob("answer")
    /\ ~Answered
    /\ eaRc[Head(jobs).ea] \in {"NOTFOUND", "INVALID"}
    /\ pc' = "scan" /\ k' = 1 /\ left' = {}
    /\ UNCHANGED <<config, erVars, eaVars, rdrVars, fbTimer, thr, ret, reg, seen, anySent, sent>>

\* Nobody is inside write_ecm_answer with ecmanswer_lock of this answer.
EaFree(i) == \A t \in Threads : thr[t].pc \in {"clear", "record"} => thr[t].ea # i

Counter == {"local_left", "reader_not_flb_left", "reader_left", "has_not_fallback", "has_local"}

\* Mutant: "|| ea_list->rc < E_NOTFOUND" is missing, so a reader whose control
\* word is still on its way to the worker counts as done.
CountsForAnsweredOnly(bits, r) ==
    LET waiting(need) == need \subseteq bits /\ "ANSWERED" \notin bits
        notFallback == "FALLBACK" \notin bits
    IN  {c \in Counter :
           \/ c = "local_left" /\ notFallback /\ waiting({"ACTIVE", "SENT", "LOCAL"})
           \/ c = "reader_not_flb_left" /\ notFallback /\ waiting({"ACTIVE", "SENT"})
           \/ c = "reader_left" /\ waiting({"ACTIVE"})
           \/ c = "has_not_fallback" /\ notFallback /\ "ACTIVE" \in bits
           \/ c = "has_local" /\ notFallback /\ {"ACTIVE", "LOCAL"} \subseteq bits}

\* What one s_ecm_answer adds to the counters of chk_dcw.
CountsFor(bits, r) ==
    LET waiting(need) == need \subseteq bits /\ "ANSWERED" \notin bits
        notFallback == "FALLBACK" \notin bits
    IN  {c \in Counter :
           \/ r = "FOUND" /\ c \in {"local_left", "reader_not_flb_left", "reader_left"}
           \/ c = "local_left" /\ notFallback /\ waiting({"ACTIVE", "SENT", "LOCAL"})
           \/ c = "reader_not_flb_left" /\ notFallback /\ waiting({"ACTIVE", "SENT"})
           \/ c = "reader_left" /\ waiting({"ACTIVE"})
           \/ c = "has_not_fallback" /\ notFallback /\ "ACTIVE" \in bits
           \/ c = "has_local" /\ notFallback /\ {"ACTIVE", "LOCAL"} \subseteq bits}

Scan ==
    /\ pc = "scan" /\ k \in Readers
    /\ EaFree(k)
    /\ left' = left \cup CountsFor(status[k], eaRc[k])
    /\ k' = k + 1
    /\ UNCHANGED <<config, erVars, eaVars, rdrVars, jobs, fbTimer, thr, pc, ret, reg, seen, anySent, sent>>

\* Mutant: the first "not found" of stage 3 moves on to the fallback readers.
NextStageDueEarly ==
    \/ stage = 2 /\ "has_local" \in left /\ "local_left" \notin left
    \/ stage = 3 /\ "has_not_fallback" \in left

\* Mutant: only stage 3 is left when its readers have answered.
NextStageDueLate ==
    stage = 3 /\ "has_not_fallback" \in left /\ "reader_not_flb_left" \notin left

\* The switch over er->stage after the loop.
NextStageDue ==
    \/ stage = 2 /\ "has_local" \in left /\ "local_left" \notin left
    \/ stage = 3 /\ "has_not_fallback" \in left /\ "reader_not_flb_left" \notin left

ScanDone ==
    /\ pc = "scan" /\ k > NumReaders
    /\ pc' = IF NextStageDue THEN "enter" ELSE "decide"
    /\ ret' = "chk_dcw"
    /\ UNCHANGED <<config, erVars, eaVars, rdrVars, jobs, fbTimer, thr, k, reg, seen, anySent, left, sent>>

DecideWait ==
    /\ pc = "decide"
    /\ "reader_left" \in left
    /\ JobDone
    /\ UNCHANGED <<config, erVars, eaVars, rdrVars, jobs, fbTimer, thr, sent>>

DecideNotFound ==
    /\ pc = "decide"
    /\ "reader_left" \notin left
    /\ SendDcw("NOTFOUND", NoCw, NoReader)
    /\ JobDone
    /\ UNCHANGED <<config, stage, timeoutCheck, eaVars, rdrVars, jobs, fbTimer, thr>>

FallbackTimeout ==
    /\ TakeJob("fallback")
    /\ IF ~Answered /\ stage < 4
       THEN pc' = "enter" /\ ret' = "fallback" /\ fbTimer' = TRUE
       ELSE UNCHANGED <<pc, ret, fbTimer>>
    /\ UNCHANGED <<config, erVars, eaVars, rdrVars, thr, k, reg, seen, anySent, left, sent>>

EcmTimeout ==
    /\ TakeJob("timeout")
    /\ timeoutCheck' = TRUE
    /\ IF ~timeoutCheck /\ ~Answered
       THEN pc' = "timeout" /\ k' = 1
       ELSE UNCHANGED <<pc, k>>
    /\ UNCHANGED <<config, stage, rc, checked, origin, cwChecked, eaVars, rdrVars, fbTimer, thr,
                   ret, reg, seen, anySent, left, sent>>

-----------------------------------------------------------------------------
(***************************************************************************)
(* write_ecm_answer(reader i, rc v), run by thread t under ecmanswer_lock   *)
(* from Begin to Record.                                                    *)
(***************************************************************************)

\* Mutant: REQUEST_ANSWERED is not tested under the lock.
WriteBeginAgain(t, i, v) ==
    /\ thr[t].pc = "out"
    /\ EaFree(i)
    /\ LET bad == v.rc = "BADECM"
       IN  /\ stage' = IF bad THEN 5 ELSE stage
           /\ thr' = [thr EXCEPT ![t] =
                [pc |-> IF bad THEN "clear" ELSE "record",
                 ea |-> i,
                 verdict |-> IF bad THEN [rc |-> "INVALID", cw |-> NoCw] ELSE v,
                 idx |-> 1,
                 seen |-> IF bad THEN status[1] ELSE status[i]]]

\* The first reader to report a bad checksum ends the escalation (stage 5) and
\* starts withdrawing the others; an answer that is already there stays.
WriteBegin(t, i, v) ==
    /\ thr[t].pc = "out"
    /\ EaFree(i)
    /\ IF "ANSWERED" \in status[i]
       THEN UNCHANGED <<thr, stage>>
       ELSE LET bad == v.rc = "BADECM"
            IN  /\ stage' = IF bad THEN 5 ELSE stage
                /\ thr' = [thr EXCEPT ![t] =
                     [pc |-> IF bad THEN "clear" ELSE "record",
                      ea |-> i,
                      verdict |-> IF bad THEN [rc |-> "INVALID", cw |-> NoCw] ELSE v,
                      idx |-> 1,
                      seen |-> IF bad THEN status[1] ELSE status[i]]]

\* ea_list->status &= ~(READER_ACTIVE | READER_FALLBACK), one reader a step, not
\* under that reader's lock: seen is the word loaded before, written back now.
WriteClear(t) ==
    /\ thr[t].pc = "clear"
    /\ LET n == thr[t].idx IN
       /\ status' = [status EXCEPT ![n] = thr[t].seen \ {"ACTIVE", "FALLBACK"}]
       /\ thr' = [thr EXCEPT ![t] =
            IF n < NumReaders
            THEN [@ EXCEPT !.idx = n + 1, !.seen = status'[n + 1]]
            ELSE [@ EXCEPT !.pc = "record", !.idx = 1, !.seen = status'[thr[t].ea]]]
    /\ UNCHANGED <<config, erVars, eaRc, eaCw, rdrVars, jobs, fbTimer, pc, locals, sent>>

WriteRecord(t) ==
    /\ thr[t].pc = "record"
    /\ LET i == thr[t].ea
           v == thr[t].verdict
       IN  /\ status' = [status EXCEPT ![i] = thr[t].seen \cup {"ANSWERED"}]
           /\ eaRc' = [eaRc EXCEPT ![i] = v.rc]
           /\ eaCw' = IF v.cw = NoCw THEN eaCw ELSE [eaCw EXCEPT ![i] = v.cw]
    /\ thr' = [thr EXCEPT ![t] = [ThreadOut EXCEPT !.pc = "post", !.ea = thr[t].ea]]
    /\ UNCHANGED <<config, erVars, rdrVars, jobs, fbTimer, pc, locals, sent>>

\* After the unlock: add_job(er->client, ACTION_ECM_ANSWER_READER, ea).
WritePost(t) ==
    /\ thr[t].pc = "post"
    /\ jobs' = Append(jobs, AnswerJob(thr[t].ea))
    /\ thr' = [thr EXCEPT ![t] = ThreadOut]
    /\ UNCHANGED <<config, erVars, eaVars, rdrVars, fbTimer, pc, locals, sent>>

\* A reader takes the request from its queue and answers it...
ReaderAnswer(i) ==
    /\ queue[i] > 0
    /\ \E v \in verdicts : WriteBegin(i, i, v)
    /\ queue' = [queue EXCEPT ![i] = @ - 1]
    /\ UNCHANGED <<config, rc, checked, origin, cwChecked, timeoutCheck, eaVars, requests, connected,
                   jobs, fbTimer, pc, locals, sent>>

\* ... or never does: the rate limiter refuses it, the peer stays silent, or the
\* answer comes after the time write_ecm_answer still accepts.
ReaderSilent(i) ==
    /\ ~reliable
    /\ queue[i] > 0
    /\ thr[i].pc = "out"
    /\ queue' = [queue EXCEPT ![i] = @ - 1]
    /\ UNCHANGED <<config, erVars, eaVars, requests, connected, jobs, fbTimer, thr, pc, locals, sent>>

(***************************************************************************)
(* The loop of ecm_timeout over the readers still silent.                   *)
(***************************************************************************)
TimeoutSkip ==
    /\ pc = "timeout" /\ k \in Readers
    /\ thr[Worker].pc = "out"
    /\ status[k] \cap {"SENT", "ANSWERED"} # {"SENT"}
    /\ k' = k + 1
    /\ UNCHANGED <<config, erVars, eaVars, rdrVars, jobs, fbTimer, thr, pc, ret, reg, seen, anySent, left, sent>>

TimeoutPick ==
    /\ pc = "timeout" /\ k \in Readers
    /\ thr[Worker].pc = "out"
    /\ status[k] \cap {"SENT", "ANSWERED"} = {"SENT"}
    /\ pc' = "timeoutWrite"
    /\ UNCHANGED <<config, erVars, eaVars, rdrVars, jobs, fbTimer, thr, locals, sent>>

TimeoutWrite ==
    /\ pc = "timeoutWrite"
    /\ WriteBegin(Worker, k, TimedOut)
    /\ k' = k + 1
    /\ pc' = "timeout"
    /\ UNCHANGED <<config, rc, checked, origin, cwChecked, timeoutCheck, eaVars, rdrVars, jobs,
                   fbTimer, ret, reg, seen, anySent, left, sent>>

\* write_ecm_answer refuses the call when the worker itself is too late.
TimeoutLate ==
    /\ pc = "timeoutWrite"
    /\ k' = k + 1
    /\ pc' = "timeout"
    /\ UNCHANGED <<config, erVars, eaVars, rdrVars, jobs, fbTimer, thr, ret, reg, seen, anySent, left, sent>>

TimeoutDone ==
    /\ pc = "timeout" /\ k > NumReaders
    /\ thr[Worker].pc = "out"
    /\ SendDcw("TIMEOUT", NoCw, NoReader)
    /\ JobDone
    /\ UNCHANGED <<config, stage, timeoutCheck, eaVars, rdrVars, jobs, fbTimer, thr>>

-----------------------------------------------------------------------------
(***************************************************************************)
(* cw_process: at every pass over ecmcwcache it posts again what is due.    *)
(***************************************************************************)
Queued(kind) == Len(SelectSeq(jobs, LAMBDA j : j.kind = kind))

Post(kind) ==
    /\ ~reliable
    /\ ~timeoutCheck
    /\ Queued(kind) < MaxTimerJobs
    /\ jobs' = Append(jobs, TimerJob(kind))
    /\ UNCHANGED <<config, erVars, eaVars, rdrVars, fbTimer, thr, pc, locals, sent>>

PostFallback == ~Answered /\ stage < 4 /\ Post("fallback")
PostTimeout == Post("timeout")

RequestStep == RequestEnter \/ StageLoad \/ StageStore \/ AskSkip \/ AskPick \/ AskSend
                 \/ AskDone \/ RequestReturn
ChkDcwStep == ChkDcwIgnore \/ ChkDcwFound \/ ChkDcwNotFound \/ Scan \/ ScanDone
                \/ DecideWait \/ DecideNotFound
TimeoutStep == FallbackTimeout \/ EcmTimeout \/ TimeoutSkip \/ TimeoutPick \/ TimeoutWrite
                 \/ TimeoutLate \/ TimeoutDone
WorkerStep == RequestStep \/ ChkDcwStep \/ TimeoutStep
WriteStep(t) == WriteClear(t) \/ WriteRecord(t) \/ WritePost(t)
TimerStep == PostFallback \/ PostTimeout

Next ==
    \/ WorkerStep
    \/ \E t \in Threads : WriteStep(t)
    \/ \E i \in Readers : ReaderAnswer(i) \/ ReaderSilent(i)
    \/ TimerStep

Spec == Init /\ [][Next]_vars

(***************************************************************************)
(* Threads that can run do run, and cw_process passes over the request      *)
(* again and again.  Only a reliable environment makes readers answer, and  *)
(* nothing makes the fallback timer precede the client timer.               *)
(***************************************************************************)
FairSpec ==
    /\ Spec
    /\ WF_vars(WorkerStep)
    /\ \A t \in Threads : WF_vars(WriteStep(t))
    /\ \A i \in Readers : WF_vars(reliable /\ ReaderAnswer(i))
    /\ WF_vars(PostTimeout)

-----------------------------------------------------------------------------
ConfigOK ==
    /\ prefer \in BOOLEAN /\ double \in BOOLEAN
    /\ verdicts \subseteq Verdict /\ reliable \in BOOLEAN

RequestOK ==
    /\ stage \in 0..6
    /\ rc \in {"FOUND", "NOTFOUND", "TIMEOUT", "UNHANDLED"}
    /\ checked \in 0..2
    /\ origin \in Readers \cup {NoReader}
    /\ cwChecked \in CWs \cup {NoCw}
    /\ timeoutCheck \in BOOLEAN

AnswersOK ==
    /\ status \in [Readers -> SUBSET Flag]
    /\ eaRc \in [Readers -> Rc]
    /\ eaCw \in [Readers -> CWs \cup {NoCw}]

QueuesOK ==
    /\ queue \in [Readers -> Nat]
    /\ requests \in [Readers -> Nat]
    /\ connected \in [Readers -> BOOLEAN]

ThreadsOK == thr \in [Threads -> ThreadState]

WorkerOK ==
    /\ pc \in {"enter", "load", "store", "ask", "send", "return", "idle", "scan", "decide",
               "timeout", "timeoutWrite"}
    /\ k \in 1..(NumReaders + 1)
    /\ ret \in {"idle", "chk_dcw", "fallback"}
    /\ reg \in 0..5
    /\ seen \in SUBSET Flag
    /\ anySent \in BOOLEAN
    /\ left \in SUBSET Counter

TypeOK ==
    /\ ConfigOK /\ RequestOK /\ AnswersOK /\ QueuesOK /\ ThreadsOK /\ WorkerOK
    /\ jobs \in Seq(Job)
    /\ fbTimer \in BOOLEAN
    /\ sent \in Seq(Told)

\* The client is told exactly one thing about its ECM, and er->rc says what:
\* a late reader, a fallback or a timer never causes a second send_dcw.
AnsweredOnce ==
    /\ sent = <<>> <=> ~Answered
    /\ Answered => sent = <<[rc |-> rc, cw |-> sent[1].cw]>>

\* A control word sent to the client was supplied by a reader of this request;
\* with double_check, by two of them, and all words before it were held back.
FoundIsGenuine ==
    \A n \in DOMAIN sent : sent[n].rc = "FOUND" =>
        \E i \in Readers :
            /\ eaCw[i] = sent[n].cw /\ sent[n].cw # NoCw
            /\ double => \E j \in Readers \ {i} : eaCw[j] = sent[n].cw

\* "send NOT_FOUND" of chk_dcw: when the client is told so, every reader still
\* active has answered, and none of these has a control word the client could get.
NotFoundIsFinal ==
    rc = "NOTFOUND" =>
        \A i \in Readers : "ACTIVE" \in status[i] => "ANSWERED" \in status[i] /\ eaRc[i] # "FOUND"

\* Whatever the races on the status words do, no reader is sent the same
\* request twice by request_cw_from_readers.
AskedOnce == \A i \in Readers : requests[i] <= 1

\* No reader of this request may report a bad checksum (see BadEcmNotSpread).
NoBadEcm == \A v \in verdicts : v.rc # "BADECM"

\* The stages as the comment of request_cw_from_readers orders them.
Level(i) ==
    IF "FALLBACK" \in status[i] THEN 4
    ELSE IF prefer /\ "LOCAL" \in status[i] THEN 2 ELSE 3

\* A reader of a later stage is asked only when all active readers of earlier
\* stages were asked, and, unless the fallback timer ran out, those of them that
\* were reachable have all answered without a control word.
EscalationInOrder ==
    [][\A i, j \in Readers :
          (NoBadEcm /\ requests'[i] > requests[i] /\ "ACTIVE" \in status[j] /\ Level(j) < Level(i))
             => /\ requests[j] > 0
                /\ connected[j] /\ ~fbTimer => "ANSWERED" \in status[j] /\ eaRc[j] # "FOUND"]_vars

\* write_ecm_answer: what a reader has answered is never replaced, in particular
\* not by the TIMEOUT of ecm_timeout that races it.
AnswerKept ==
    [][\A i \in Readers : NoBadEcm /\ eaRc[i] # "UNHANDLED" => eaRc'[i] = eaRc[i]]_vars

\* "set all other matching_readers => inactive to skip them and dont spread the
\* bad ecm": once a reader has reported a bad checksum nobody else is asked.
BadEcmNotSpread ==
    [][(\E j \in Readers : eaRc[j] = "INVALID") => requests' = requests]_vars

\* The client gets its answer: through cw_process and ecm_timeout whatever the
\* readers do, and when they all answer, from the escalation alone, without timers.
EventuallyAnswered == <>(sent # <<>>)

\* The request implements what OSCam promises about an ECM: one answer, a control
\* word only if enough readers supplied it, "not found" only if every reader that
\* is active then has answered, none of them with a control word.
Promise == INSTANCE EcmAnswer WITH
    need    <- IF double THEN 2 ELSE 1,
    offers  <- eaCw,
    replied <- {i \in Readers : eaRc[i] # "UNHANDLED"},
    active  <- {i \in Readers : "ACTIVE" \in status[i]},
    answers <- sent

AnswersAsPromised == Promise!AbsSpec
=============================================================================
