-------------------------- MODULE EcmRequestProofs --------------------------
(***************************************************************************)
(* Theorems about EcmRequest for any number of matching readers, any        *)
(* control words, any request get_cw may build and any verdicts.            *)
(***************************************************************************)
EXTENDS EcmRequest, SequenceTheorems, TLAPS

\* What the worker's place in the code says about its locals.
PcFacts ==
    /\ pc \in {"load", "store"} => stage <= 5
    /\ pc \in {"send", "timeoutWrite"} => k \in Readers
    /\ ~Answered => checked <= 1

TypeInv == TypeOK /\ PcFacts

(***************************************************************************)
(* Type correctness.                                                        *)
(***************************************************************************)

\* Variables that a step leaves alone keep their types.
LEMMA Kept ==
    /\ ConfigOK /\ UNCHANGED config => ConfigOK'
    /\ RequestOK /\ UNCHANGED erVars => RequestOK'
    /\ AnswersOK /\ UNCHANGED eaVars => AnswersOK'
    /\ QueuesOK /\ UNCHANGED rdrVars => QueuesOK'
    /\ ThreadsOK /\ UNCHANGED thr => ThreadsOK'
    /\ WorkerOK /\ UNCHANGED <<pc, locals>> => WorkerOK'
    /\ jobs \in Seq(Job) /\ UNCHANGED jobs => jobs' \in Seq(Job)
    /\ fbTimer \in BOOLEAN /\ UNCHANGED fbTimer => fbTimer' \in BOOLEAN
    /\ sent \in Seq(Told) /\ UNCHANGED sent => sent' \in Seq(Told)
<1>1. ConfigOK /\ UNCHANGED config => ConfigOK'
  BY DEF ConfigOK, config
<1>2. RequestOK /\ UNCHANGED erVars => RequestOK'
  BY DEF RequestOK, erVars
<1>3. AnswersOK /\ UNCHANGED eaVars => AnswersOK'
  BY DEF AnswersOK, eaVars
<1>4. QueuesOK /\ UNCHANGED rdrVars => QueuesOK'
  BY DEF QueuesOK, rdrVars
<1>5. ThreadsOK /\ UNCHANGED thr => ThreadsOK'
  BY DEF ThreadsOK
<1>6. WorkerOK /\ UNCHANGED <<pc, locals>> => WorkerOK'
  BY DEF WorkerOK, locals
<1>7. QED
  BY <1>1, <1>2, <1>3, <1>4, <1>5, <1>6

\* write_ecm_answer at rest.
LEMMA ThreadOutType == ThreadOut \in ThreadState
BY NumReadersAssumption DEF ThreadOut, ThreadState, TimedOut, Readers, Rc

\* The worker at rest.
LEMMA JobDoneType == JobDone => WorkerOK' /\ pc' = "idle"
<1> SUFFICES ASSUME JobDone PROVE WorkerOK'
  BY DEF JobDone
<1>1. anySent' \in BOOLEAN
  BY DEF JobDone
<1>2. k' \in 1..(NumReaders + 1) /\ reg' \in 0..5
  BY NumReadersAssumption DEF JobDone
<1>3. QED
  BY <1>1, <1>2 DEF JobDone, WorkerOK

\* Taking a job keeps the joblist a sequence of jobs.
LEMMA TakeJobType ==
    ASSUME jobs \in Seq(Job), NEW kind, TakeJob(kind)
    PROVE  jobs' \in Seq(Job) /\ Head(jobs).ea \in Readers
<1>1. jobs # <<>> /\ jobs' = Tail(jobs)
  BY DEF TakeJob
<1>2. Head(jobs) \in Job /\ jobs' \in Seq(Job)
  BY <1>1, HeadTailProperties
<1>3. QED
  BY <1>2 DEF Job

\* send_dcw keeps the types of what it writes.
LEMMA SendDcwType ==
    ASSUME TypeInv, ~Answered,
           NEW answer \in {"FOUND", "NOTFOUND", "TIMEOUT"}, NEW cw \in CWs \cup {NoCw},
           NEW from \in Readers \cup {NoReader}, SendDcw(answer, cw, from),
           UNCHANGED <<stage, timeoutCheck>>
    PROVE  RequestOK' /\ sent' \in Seq(Told) /\ (~Answered' => checked' <= 1)
<1> DEFINE told == [rc |-> answer, cw |-> cw]
<1>1. told \in Told
  BY DEF Told
<1>2. sent \in Seq(Told) /\ Append(sent, told) \in Seq(Told)
  BY <1>1, AppendProperties DEF TypeInv, TypeOK
<1>3. RequestOK /\ checked \in 0..1
  BY DEF TypeInv, TypeOK, PcFacts, RequestOK
<1>4. CASE double /\ answer = "FOUND"
  <2>1. checked' \in {checked, checked + 1} /\ checked' \in 0..2
    BY <1>3, <1>4 DEF SendDcw
  <2>2. origin' \in {origin, from} /\ cwChecked' \in {cwChecked, cw}
    BY <1>4 DEF SendDcw
  <2>3. rc' = (IF checked' < 2 THEN "UNHANDLED" ELSE answer)
        /\ sent' = (IF checked' < 2 THEN sent ELSE Append(sent, told))
    BY <1>4 DEF SendDcw
  <2>4. sent' \in Seq(Told) /\ (~Answered' => checked' <= 1)
    BY <1>2, <2>1, <2>3 DEF Answered
  <2>5. QED
    BY <1>3, <2>1, <2>2, <2>3, <2>4 DEF RequestOK
<1>5. CASE ~(double /\ answer = "FOUND")
  <2>1. rc' = answer /\ sent' = Append(sent, told) /\ UNCHANGED <<checked, origin, cwChecked>>
    BY <1>5 DEF SendDcw
  <2>2. QED
    BY <1>2, <1>3, <2>1 DEF RequestOK, Answered
<1>6. QED
  BY <1>4, <1>5

\* write_ecm_answer up to the record keeps the types of the answers.
LEMMA WriteBeginType ==
    ASSUME TypeInv, NEW t \in Threads, NEW i \in Readers, NEW v \in Verdict, WriteBegin(t, i, v)
    PROVE  stage' \in {stage, 5} /\ ThreadsOK'
<1>1. status[i] \in SUBSET Flag /\ status[1] \in SUBSET Flag /\ 1 \in Readers
  BY NumReadersAssumption DEF TypeInv, TypeOK, AnswersOK, Readers
<1>2. [rc |-> "INVALID", cw |-> NoCw] \in [rc : Rc, cw : CWs \cup {NoCw}]
  BY DEF Rc
<1>3. v.rc # "BADECM" => v \in [rc : Rc, cw : CWs \cup {NoCw}]
  BY DEF Verdict, Rc
<1>4. CASE "ANSWERED" \in status[i]
  BY <1>4, Kept DEF WriteBegin, TypeInv, TypeOK
<1>5. CASE "ANSWERED" \notin status[i]
  <2>1. PICK s \in ThreadState : thr' = [thr EXCEPT ![t] = s]
    BY <1>1, <1>2, <1>3, <1>5 DEF WriteBegin, ThreadState
  <2>2. QED
    BY <1>5, <2>1 DEF WriteBegin, TypeInv, TypeOK, ThreadsOK
<1>6. QED
  BY <1>4, <1>5

\* The request starts with well-typed variables.
LEMMA InitTypeInv == Init => TypeInv
<1> SUFFICES ASSUME Init PROVE TypeInv
  OBVIOUS
<1>1. PICK s \in Setups : status = s.status /\ prefer = s.prefer /\ double = s.double
                          /\ verdicts = s.verdicts /\ reliable = s.reliable
  BY DEF Init
<1>2. s \in Setup
  BY SetupAssumption
<1>3. ConfigOK
  BY <1>1, <1>2 DEF ConfigOK, Setup
<1>4. AnswersOK
  BY <1>1, <1>2 DEF Init, AnswersOK, Setup, Flag, Rc
<1>s. /\ stage = 0 /\ rc = "UNHANDLED" /\ timeoutCheck = FALSE
      /\ checked = 0 /\ origin = NoReader /\ cwChecked = NoCw
      /\ jobs = <<>> /\ fbTimer = FALSE /\ sent = <<>>
      /\ queue = [i \in Readers |-> 0] /\ requests = [i \in Readers |-> 0]
      /\ connected = [i \in Readers |-> FALSE]
  BY DEF Init
<1>w. /\ pc = "enter" /\ ret = "idle" /\ k = 1 /\ reg = 0 /\ seen = {} /\ anySent = FALSE /\ left = {}
  BY DEF Init
<1>5. RequestOK /\ QueuesOK
  <2>1. timeoutCheck \in BOOLEAN /\ connected \in [Readers -> BOOLEAN]
    BY <1>s
  <2>2. stage \in 0..6 /\ checked \in 0..2
    BY <1>s
  <2>3. QED
    BY <1>s, <2>1, <2>2 DEF RequestOK, QueuesOK
<1>6. ThreadsOK
  BY ThreadOutType DEF Init, ThreadsOK
<1>7. WorkerOK
  <2>1. anySent \in BOOLEAN
    BY <1>w
  <2>2. k \in 1..(NumReaders + 1) /\ reg \in 0..5
    BY <1>w, NumReadersAssumption
  <2>3. QED
    BY <1>w, <2>1, <2>2 DEF WorkerOK
<1>8. PcFacts /\ jobs \in Seq(Job) /\ fbTimer \in BOOLEAN /\ sent \in Seq(Told)
  <2>1. fbTimer \in BOOLEAN
    BY <1>s
  <2>2. jobs \in Seq(Job) /\ sent \in Seq(Told)
    BY <1>s
  <2>3. PcFacts
    BY <1>s, <1>w DEF PcFacts
  <2>4. QED
    BY <2>1, <2>2, <2>3
<1>9. QED
  BY <1>3, <1>4, <1>5, <1>6, <1>7, <1>8 DEF TypeInv, TypeOK

\* The steps of request_cw_from_readers keep the types.
LEMMA RequestStepTypeInv == ASSUME TypeInv, RequestStep PROVE TypeInv'
<1>t. TypeOK /\ PcFacts /\ RequestOK /\ AnswersOK /\ QueuesOK /\ WorkerOK
  BY DEF TypeInv, TypeOK
<1>u. /\ ConfigOK' /\ ThreadsOK' /\ jobs' \in Seq(Job) /\ fbTimer' \in BOOLEAN /\ sent' \in Seq(Told)
  BY Kept DEF TypeInv, TypeOK, RequestStep, RequestEnter, StageLoad, StageStore, AskSkip, AskPick,
              AskSend, AskDone, RequestReturn
<1> SUFFICES RequestOK' /\ AnswersOK' /\ QueuesOK' /\ WorkerOK' /\ PcFacts'
  BY <1>u DEF TypeInv, TypeOK
<1>1. CASE RequestEnter
  <2>1. RequestOK' /\ AnswersOK' /\ QueuesOK'
    BY <1>t, <1>1, Kept DEF RequestEnter
  <2>2. WorkerOK'
    BY <1>t, <1>1, NumReadersAssumption DEF RequestEnter, RequestOK, WorkerOK, PcFacts, Readers
  <2>3. PcFacts'
    BY <1>t, <1>1 DEF RequestEnter, RequestOK, PcFacts, Answered, erVars
  <2>4. QED
    BY <2>1, <2>2, <2>3
<1>2. CASE StageLoad
  <2>1. RequestOK' /\ AnswersOK' /\ QueuesOK'
    BY <1>t, <1>2, Kept DEF StageLoad
  <2>2. WorkerOK'
    BY <1>t, <1>2, NumReadersAssumption DEF StageLoad, RequestOK, WorkerOK, PcFacts, Readers
  <2>3. PcFacts'
    BY <1>t, <1>2 DEF StageLoad, RequestOK, PcFacts, Answered, erVars
  <2>4. QED
    BY <2>1, <2>2, <2>3
<1>3. CASE AskSkip
  <2>1. RequestOK' /\ AnswersOK' /\ QueuesOK'
    BY <1>t, <1>3, Kept DEF AskSkip
  <2>2. WorkerOK'
    BY <1>t, <1>3, NumReadersAssumption DEF AskSkip, RequestOK, WorkerOK, PcFacts, Readers
  <2>3. PcFacts'
    BY <1>t, <1>3 DEF AskSkip, RequestOK, PcFacts, Answered, erVars
  <2>4. QED
    BY <2>1, <2>2, <2>3
<1>4. CASE AskPick
  <2>1. RequestOK' /\ AnswersOK' /\ QueuesOK'
    BY <1>t, <1>4, Kept DEF AskPick
  <2>2. WorkerOK'
    BY <1>t, <1>4, NumReadersAssumption DEF AskPick, RequestOK, WorkerOK, PcFacts, Readers, AnswersOK
  <2>3. PcFacts'
    BY <1>t, <1>4 DEF AskPick, RequestOK, PcFacts, Answered, erVars
  <2>4. QED
    BY <2>1, <2>2, <2>3
<1>5. CASE AskDone
  <2>1. RequestOK' /\ AnswersOK' /\ QueuesOK'
    BY <1>t, <1>5, Kept DEF AskDone
  <2>2. WorkerOK'
    BY <1>t, <1>5, NumReadersAssumption DEF AskDone, RequestOK, WorkerOK, PcFacts, Readers
  <2>3. PcFacts'
    BY <1>t, <1>5 DEF AskDone, RequestOK, PcFacts, Answered, erVars
  <2>4. QED
    BY <2>1, <2>2, <2>3
<1>6. CASE StageStore
  <2>1. AnswersOK' /\ QueuesOK'
    BY <1>t, <1>6, Kept DEF StageStore
  <2>2. NextStage(reg) \in 0..6
    BY <1>t DEF WorkerOK, NextStage
  <2>3. RequestOK'
    BY <1>t, <1>6, <2>2 DEF StageStore, RequestOK
  <2>4. WorkerOK' /\ PcFacts'
    BY <1>t, <1>6, NumReadersAssumption DEF StageStore, WorkerOK, PcFacts, Answered
  <2>5. QED
    BY <2>1, <2>3, <2>4
<1>7. CASE AskSend
  <2>1. RequestOK' /\ k \in Readers
    BY <1>t, <1>7, Kept DEF AskSend, PcFacts
  <2>2. AnswersOK'
    <3>1. PICK old \in {seen, status[k]} : status' = [status EXCEPT ![k] = old \cup {"SENT"}]
      BY <1>7 DEF AskSend
    <3>2. old \cup {"SENT"} \in SUBSET Flag
      BY <1>t, <2>1, <3>1 DEF AnswersOK, WorkerOK, Flag
    <3>3. UNCHANGED <<eaRc, eaCw>>
      BY <1>7 DEF AskSend
    <3>4. QED
      BY <1>t, <3>1, <3>2, <3>3 DEF AnswersOK
  <2>3. QueuesOK'
    <3>1. PICK up \in BOOLEAN : connected' = [connected EXCEPT ![k] = up]
      BY <1>7 DEF AskSend
    <3>2. connected' \in [Readers -> BOOLEAN]
      BY <1>t, <3>1 DEF QueuesOK
    <3>3. queue' = [queue EXCEPT ![k] = @ + 1] /\ requests' = [requests EXCEPT ![k] = @ + 1]
      BY <1>7 DEF AskSend
    <3>4. queue' \in [Readers -> Nat] /\ requests' \in [Readers -> Nat]
      BY <1>t, <2>1, <3>3 DEF QueuesOK
    <3>5. QED
      BY <3>2, <3>4 DEF QueuesOK
  <2>4. WorkerOK' /\ PcFacts'
    BY <1>t, <1>7, <2>1, NumReadersAssumption DEF AskSend, WorkerOK, PcFacts, Answered, Readers, erVars
  <2>5. QED
    BY <2>1, <2>2, <2>3, <2>4
<1>8. CASE RequestReturn
  <2>1. RequestOK' /\ AnswersOK' /\ QueuesOK'
    BY <1>t, <1>8, Kept DEF RequestReturn
  <2>2. \/ pc' \in {"decide", "enter"} /\ UNCHANGED locals
        \/ JobDone
    BY <1>8 DEF RequestReturn
  <2>3. WorkerOK'
    BY <1>t, <2>2, JobDoneType DEF WorkerOK, locals
  <2>4. PcFacts'
    BY <1>t, <1>8, <2>2 DEF RequestReturn, JobDone, PcFacts, Answered, erVars
  <2>5. QED
    BY <2>1, <2>3, <2>4
<1>9. QED
  BY <1>1, <1>2, <1>3, <1>4, <1>5, <1>6, <1>7, <1>8 DEF RequestStep

\* The jobs that do not answer the client, and the scan of chk_dcw, keep the types.
LEMMA QuietJobTypeInv ==
    ASSUME TypeInv,
           ChkDcwIgnore \/ ChkDcwNotFound \/ Scan \/ ScanDone \/ DecideWait \/ FallbackTimeout \/ EcmTimeout
    PROVE  TypeInv'
<1>t. TypeOK /\ PcFacts /\ RequestOK /\ AnswersOK /\ QueuesOK /\ WorkerOK
  BY DEF TypeInv, TypeOK
<1>u. /\ UNCHANGED <<config, stage, rc, checked, origin, cwChecked, eaVars, rdrVars, thr, sent>>
  BY DEF ChkDcwIgnore, ChkDcwNotFound, Scan, ScanDone, DecideWait, FallbackTimeout, EcmTimeout, erVars
<1>v. ConfigOK' /\ AnswersOK' /\ QueuesOK' /\ ThreadsOK' /\ sent' \in Seq(Told)
  BY <1>u, Kept DEF TypeInv, TypeOK
<1>j. jobs' \in Seq(Job)
  BY TakeJobType
     DEF TypeInv, TypeOK, ChkDcwIgnore, ChkDcwNotFound, Scan, ScanDone, DecideWait, FallbackTimeout, EcmTimeout
<1>f. fbTimer' \in BOOLEAN
  BY DEF TypeInv, TypeOK, ChkDcwIgnore, ChkDcwNotFound, Scan, ScanDone, DecideWait, FallbackTimeout, EcmTimeout
<1>r. RequestOK'
  <2>1. timeoutCheck' \in {timeoutCheck, TRUE}
    BY DEF ChkDcwIgnore, ChkDcwNotFound, Scan, ScanDone, DecideWait, FallbackTimeout, EcmTimeout, erVars
  <2>2. QED
    BY <1>t, <1>u, <2>1 DEF RequestOK
<1>w. WorkerOK'
  <2>1. CASE ChkDcwIgnore \/ ChkDcwNotFound \/ FallbackTimeout \/ EcmTimeout
    BY <1>t, <2>1, NumReadersAssumption
       DEF ChkDcwIgnore, ChkDcwNotFound, FallbackTimeout, EcmTimeout, TakeJob, WorkerOK, locals
  <2>2. CASE Scan
    BY <1>t, <2>2, NumReadersAssumption DEF Scan, CountsFor, WorkerOK, Readers
  <2>3. CASE ScanDone
    BY <1>t, <2>3 DEF ScanDone, WorkerOK
  <2>4. CASE DecideWait
    BY <2>4, JobDoneType DEF DecideWait
  <2>5. QED
    BY <2>1, <2>2, <2>3, <2>4
<1>p. PcFacts'
  <2>1. pc' \notin {"load", "store", "send", "timeoutWrite"}
    BY <1>t DEF ChkDcwIgnore, ChkDcwNotFound, Scan, ScanDone, DecideWait, FallbackTimeout, EcmTimeout,
            TakeJob, JobDone, locals
  <2>2. QED
    BY <1>t, <1>u, <2>1 DEF PcFacts, Answered
<1>9. QED
  BY <1>v, <1>j, <1>f, <1>r, <1>w, <1>p DEF TypeInv, TypeOK

\* The jobs that answer the client keep the types.
LEMMA AnswerJobTypeInv ==
    ASSUME TypeInv, ~Answered, ChkDcwFound \/ DecideNotFound \/ TimeoutDone
    PROVE  TypeInv'
<1>t. TypeOK /\ PcFacts /\ RequestOK /\ AnswersOK /\ QueuesOK /\ WorkerOK
  BY DEF TypeInv, TypeOK
<1>u. ConfigOK' /\ AnswersOK' /\ QueuesOK' /\ ThreadsOK' /\ fbTimer' \in BOOLEAN
  BY Kept DEF TypeInv, TypeOK, ChkDcwFound, DecideNotFound, TimeoutDone
<1>1. jobs' \in Seq(Job) /\ WorkerOK' /\ pc' = "idle"
  <2>1. CASE ChkDcwFound
    BY <1>t, <2>1, TakeJobType, Kept DEF ChkDcwFound, TakeJob, TypeOK
  <2>2. CASE DecideNotFound \/ TimeoutDone
    BY <1>t, <2>2, JobDoneType DEF DecideNotFound, TimeoutDone, TypeOK
  <2>3. QED
    BY <2>1, <2>2
<1>2. RequestOK' /\ sent' \in Seq(Told) /\ (~Answered' => checked' <= 1)
  <2>1. CASE ChkDcwFound
    <3>1. Head(jobs).ea \in Readers
      BY <1>t, <2>1, TakeJobType DEF ChkDcwFound, TypeOK
    <3>2. eaCw[Head(jobs).ea] \in CWs \cup {NoCw}
      BY <1>t, <3>1 DEF AnswersOK
    <3>3. SendDcw("FOUND", eaCw[Head(jobs).ea], Head(jobs).ea) /\ UNCHANGED <<stage, timeoutCheck>>
      BY <2>1 DEF ChkDcwFound
    <3>4. QED
      BY <3>1, <3>2, <3>3, SendDcwType
  <2>2. CASE DecideNotFound \/ TimeoutDone
    <3>1. PICK answer \in {"NOTFOUND", "TIMEOUT"} : SendDcw(answer, NoCw, NoReader)
      BY <2>2 DEF DecideNotFound, TimeoutDone
    <3>2. UNCHANGED <<stage, timeoutCheck>>
      BY <2>2 DEF DecideNotFound, TimeoutDone
    <3>3. QED
      BY <3>1, <3>2, SendDcwType
  <2>3. QED
    BY <2>1, <2>2
<1>3. QED
  BY <1>u, <1>1, <1>2 DEF TypeInv, TypeOK, PcFacts

\* The loop of ecm_timeout keeps the types.
LEMMA TimeoutLoopTypeInv ==
    ASSUME TypeInv, TimeoutSkip \/ TimeoutPick \/ TimeoutWrite \/ TimeoutLate
    PROVE  TypeInv'
<1>t. TypeOK /\ PcFacts /\ RequestOK /\ WorkerOK
  BY DEF TypeInv, TypeOK
<1>u. ConfigOK' /\ AnswersOK' /\ QueuesOK' /\ jobs' \in Seq(Job) /\ fbTimer' \in BOOLEAN /\ sent' \in Seq(Told)
  BY Kept DEF TypeInv, TypeOK, TimeoutSkip, TimeoutPick, TimeoutWrite, TimeoutLate
<1>k. k \in Readers
  BY <1>t DEF TimeoutSkip, TimeoutPick, TimeoutWrite, TimeoutLate, PcFacts
<1>w. WorkerOK'
  BY <1>t, <1>k, NumReadersAssumption
     DEF TimeoutSkip, TimeoutPick, TimeoutWrite, TimeoutLate, WorkerOK, Readers, locals
<1>e. stage' \in {stage, 5} /\ ThreadsOK'
  <2>1. CASE TimeoutWrite
    <3>1. TimedOut \in Verdict /\ Worker \in Threads
      BY NumReadersAssumption DEF TimedOut, Verdict, Worker, Threads
    <3>2. QED
      BY <2>1, <1>k, <3>1, WriteBeginType DEF TimeoutWrite
  <2>2. CASE TimeoutSkip \/ TimeoutPick \/ TimeoutLate
    BY <2>2, Kept DEF TimeoutSkip, TimeoutPick, TimeoutLate, TypeInv, TypeOK, erVars
  <2>3. QED
    BY <2>1, <2>2
<1>r. RequestOK' /\ UNCHANGED <<rc, checked>>
  BY <1>t, <1>e DEF TimeoutSkip, TimeoutPick, TimeoutWrite, TimeoutLate, RequestOK, erVars
<1>p. PcFacts'
  BY <1>t, <1>k, <1>r DEF TimeoutSkip, TimeoutPick, TimeoutWrite, TimeoutLate, PcFacts, Answered, locals
<1>9. QED
  BY <1>u, <1>w, <1>e, <1>r, <1>p DEF TypeInv, TypeOK

\* write_ecm_answer keeps the types, whichever thread runs it.
LEMMA WriteStepTypeInv ==
    ASSUME TypeInv, NEW t \in Threads, WriteStep(t)
    PROVE  TypeInv'
<1>t. TypeOK /\ PcFacts /\ AnswersOK /\ ThreadsOK /\ thr[t] \in ThreadState
  BY DEF TypeInv, TypeOK, ThreadsOK
<1>u. /\ ConfigOK' /\ RequestOK' /\ QueuesOK' /\ WorkerOK' /\ PcFacts'
      /\ fbTimer' \in BOOLEAN /\ sent' \in Seq(Told)
  BY Kept DEF TypeInv, TypeOK, PcFacts, Answered, WriteStep, WriteClear, WriteRecord, WritePost, erVars, locals
<1>1. CASE WriteClear(t)
  <2>1. status' \in [Readers -> SUBSET Flag]
    BY <1>t, <1>1 DEF WriteClear, AnswersOK, ThreadState
  <2> DEFINE n == thr[t].idx
             s == IF n < NumReaders
                  THEN [thr[t] EXCEPT !.idx = n + 1, !.seen = status'[n + 1]]
                  ELSE [thr[t] EXCEPT !.pc = "record", !.idx = 1, !.seen = status'[thr[t].ea]]
  <2>2. thr' = [thr EXCEPT ![t] = s]
    BY <1>t, <1>1 DEF WriteClear, ThreadsOK
  <2>3. s \in ThreadState
    <3>1. n \in Readers /\ thr[t].ea \in Readers /\ 1 \in Readers
      BY <1>t, NumReadersAssumption DEF ThreadState, Readers
    <3>2. CASE n < NumReaders
      <4>1. n + 1 \in Readers
        BY <3>1, <3>2, NumReadersAssumption DEF Readers
      <4>2. status'[n + 1] \in SUBSET Flag
        BY <2>1, <4>1
      <4>3. QED
        BY <1>t, <3>2, <4>1, <4>2 DEF ThreadState
    <3>3. CASE ~(n < NumReaders)
      <4>1. status'[thr[t].ea] \in SUBSET Flag
        BY <2>1, <3>1
      <4>2. QED
        BY <1>t, <3>1, <3>3, <4>1 DEF ThreadState
    <3>4. QED
      BY <3>2, <3>3
  <2>4. AnswersOK' /\ ThreadsOK' /\ jobs' \in Seq(Job)
    BY <1>t, <1>1, <2>1, <2>2, <2>3 DEF WriteClear, AnswersOK, ThreadsOK, TypeOK
  <2>5. QED
    BY <1>u, <2>4 DEF TypeInv, TypeOK
<1>2. CASE WriteRecord(t)
  <2>1. /\ thr[t].ea \in Readers /\ thr[t].seen \cup {"ANSWERED"} \in SUBSET Flag
        /\ thr[t].verdict.rc \in Rc /\ thr[t].verdict.cw \in CWs \cup {NoCw}
    BY <1>t DEF ThreadState, Flag
  <2>2. AnswersOK'
    BY <1>t, <1>2, <2>1 DEF WriteRecord, AnswersOK
  <2>3. [ThreadOut EXCEPT !.pc = "post", !.ea = thr[t].ea] \in ThreadState
    BY <2>1, ThreadOutType DEF ThreadState
  <2>4. ThreadsOK' /\ jobs' \in Seq(Job)
    BY <1>t, <1>2, <2>3 DEF WriteRecord, ThreadsOK, TypeOK
  <2>5. QED
    BY <1>u, <2>2, <2>4 DEF TypeInv, TypeOK
<1>3. CASE WritePost(t)
  <2>1. AnswerJob(thr[t].ea) \in Job
    BY <1>t DEF AnswerJob, Job, ThreadState
  <2>2. jobs' \in Seq(Job) /\ AnswersOK'
    BY <1>t, <1>3, <2>1, AppendProperties, Kept DEF WritePost, TypeOK
  <2>3. ThreadsOK'
    BY <1>t, <1>3, ThreadOutType DEF WritePost, ThreadsOK
  <2>4. QED
    BY <1>u, <2>2, <2>3 DEF TypeInv, TypeOK
<1>4. QED
  BY <1>1, <1>2, <1>3 DEF WriteStep

\* A reader that takes a request from its queue keeps the types.
LEMMA ReaderStepTypeInv ==
    ASSUME TypeInv, NEW i \in Readers, ReaderAnswer(i) \/ ReaderSilent(i)
    PROVE  TypeInv'
<1>t. TypeOK /\ PcFacts /\ RequestOK /\ QueuesOK
  BY DEF TypeInv, TypeOK
<1>u. /\ ConfigOK' /\ AnswersOK' /\ WorkerOK' /\ jobs' \in Seq(Job) /\ fbTimer' \in BOOLEAN /\ sent' \in Seq(Told)
      /\ UNCHANGED <<rc, checked, origin, cwChecked, timeoutCheck, requests, connected, pc, k>>
  BY Kept DEF TypeInv, TypeOK, ReaderAnswer, ReaderSilent, erVars, locals
<1>q. QueuesOK'
  <2>1. queue[i] > 0 /\ queue' = [queue EXCEPT ![i] = @ - 1]
    BY DEF ReaderAnswer, ReaderSilent
  <2>2. queue' \in [Readers -> Nat]
    BY <1>t, <2>1 DEF QueuesOK
  <2>3. QED
    BY <1>t, <1>u, <2>2 DEF QueuesOK
<1>1. stage' \in {stage, 5} /\ ThreadsOK'
  <2>1. CASE ReaderAnswer(i)
    <3>1. PICK v \in verdicts : WriteBegin(i, i, v)
      BY <2>1 DEF ReaderAnswer
    <3>2. v \in Verdict /\ i \in Threads
      BY <3>1 DEF TypeInv, TypeOK, ConfigOK, Readers, Threads
    <3>3. QED
      BY <3>1, <3>2, WriteBeginType
  <2>2. CASE ReaderSilent(i)
    BY <2>2, Kept DEF ReaderSilent, TypeInv, TypeOK, erVars
  <2>3. QED
    BY <2>1, <2>2
<1>2. RequestOK' /\ PcFacts'
  BY <1>t, <1>u, <1>1 DEF RequestOK, PcFacts, Answered
<1>3. QED
  BY <1>u, <1>q, <1>1, <1>2 DEF TypeInv, TypeOK

\* So does a timer job.
LEMMA TimerStepTypeInv == ASSUME TypeInv, TimerStep PROVE TypeInv'
<1>1. PICK kind \in {"fallback", "timeout"} :
        jobs' = Append(jobs, TimerJob(kind)) /\ UNCHANGED <<config, erVars, eaVars, rdrVars, fbTimer, thr, pc, locals, sent>>
  BY DEF TimerStep, PostFallback, PostTimeout, Post
<1>2. TimerJob(kind) \in Job
  BY NumReadersAssumption DEF TimerJob, Job, Readers
<1>3. jobs' \in Seq(Job)
  BY <1>1, <1>2, AppendProperties DEF TypeInv, TypeOK
<1>4. PcFacts'
  BY <1>1 DEF TypeInv, PcFacts, Answered, erVars, locals
<1>5. QED
  BY <1>1, <1>3, <1>4, Kept DEF TypeInv, TypeOK

(***************************************************************************)
(* One answer: the worker is busy only while the request is unanswered, so  *)
(* every send_dcw it calls is the first.                                    *)
(***************************************************************************)
BusyMeansUnanswered == pc # "idle" => ~Answered

OnceInv == TypeInv /\ BusyMeansUnanswered /\ AnsweredOnce

\* All steps but the three that call send_dcw leave the client untold.
QuietWorkerStep ==
    \/ RequestStep
    \/ ChkDcwIgnore \/ ChkDcwNotFound \/ Scan \/ ScanDone \/ DecideWait \/ FallbackTimeout \/ EcmTimeout
    \/ TimeoutSkip \/ TimeoutPick \/ TimeoutWrite \/ TimeoutLate

\* The steps, sorted by what they do to the answer.
LEMMA StepCases ==
    ASSUME Next
    PROVE  \/ QuietWorkerStep
           \/ ChkDcwFound \/ DecideNotFound \/ TimeoutDone
           \/ \E t \in Threads : WriteStep(t)
           \/ \E i \in Readers : ReaderAnswer(i) \/ ReaderSilent(i)
           \/ TimerStep
BY DEF Next, WorkerStep, ChkDcwStep, TimeoutStep, QuietWorkerStep

\* Quiet steps tell the client nothing.
LEMMA QuietStepsTellNothing ==
    ASSUME QuietWorkerStep \/ (\E t \in Threads : WriteStep(t))
             \/ (\E i \in Readers : ReaderAnswer(i) \/ ReaderSilent(i)) \/ TimerStep
    PROVE  UNCHANGED <<rc, checked, origin, cwChecked, sent>>
<1>1. CASE QuietWorkerStep
  BY <1>1 DEF QuietWorkerStep, RequestStep, RequestEnter, StageLoad, StageStore, AskSkip, AskPick, AskSend,
     AskDone, RequestReturn, ChkDcwIgnore, ChkDcwNotFound, Scan, ScanDone, DecideWait, FallbackTimeout,
     EcmTimeout, TimeoutSkip, TimeoutPick, TimeoutWrite, TimeoutLate, erVars
<1>2. CASE \E t \in Threads : WriteStep(t)
  BY <1>2 DEF WriteStep, WriteClear, WriteRecord, WritePost, erVars
<1>3. CASE \E i \in Readers : ReaderAnswer(i) \/ ReaderSilent(i)
  BY <1>3 DEF ReaderAnswer, ReaderSilent, erVars
<1>4. CASE TimerStep
  BY <1>4 DEF TimerStep, PostFallback, PostTimeout, Post, erVars
<1>5. QED
  BY <1>1, <1>2, <1>3, <1>4

\* The worker starts on a job only for an unanswered request.
LEMMA BusyStep ==
    ASSUME BusyMeansUnanswered,
           QuietWorkerStep \/ (\E t \in Threads : WriteStep(t))
             \/ (\E i \in Readers : ReaderAnswer(i) \/ ReaderSilent(i)) \/ TimerStep
    PROVE  BusyMeansUnanswered'
<1>r. rc' = rc
  BY QuietStepsTellNothing
<1>1. CASE RequestStep \/ Scan \/ ScanDone \/ DecideWait \/ TimeoutSkip \/ TimeoutPick \/ TimeoutWrite \/ TimeoutLate
  <2>1. pc # "idle"
    BY <1>1 DEF RequestStep, RequestEnter, StageLoad, StageStore, AskSkip, AskPick, AskSend,
       AskDone, RequestReturn, Scan, ScanDone, DecideWait, TimeoutSkip, TimeoutPick, TimeoutWrite, TimeoutLate
  <2>2. QED
    BY <1>r, <2>1 DEF BusyMeansUnanswered, Answered
<1>2. CASE ChkDcwIgnore \/ ChkDcwNotFound \/ FallbackTimeout \/ EcmTimeout
  BY <1>2, <1>r DEF ChkDcwIgnore, ChkDcwNotFound, FallbackTimeout, EcmTimeout, BusyMeansUnanswered, Answered
<1>3. CASE (\E t \in Threads : WriteStep(t)) \/ (\E i \in Readers : ReaderAnswer(i) \/ ReaderSilent(i)) \/ TimerStep
  <2>1. pc' = pc
    BY <1>3 DEF WriteStep, WriteClear, WriteRecord, WritePost, ReaderAnswer, ReaderSilent,
       TimerStep, PostFallback, PostTimeout, Post
  <2>2. QED
    BY <1>r, <2>1 DEF BusyMeansUnanswered, Answered
<1>4. QED
  BY <1>1, <1>2, <1>3 DEF QuietWorkerStep

\* send_dcw for an unanswered request leaves it unanswered or answered once.
LEMMA SendDcwOnce ==
    ASSUME AnsweredOnce, ~Answered, NEW answer \in {"FOUND", "NOTFOUND", "TIMEOUT"}, NEW cw, NEW from,
           SendDcw(answer, cw, from)
    PROVE  AnsweredOnce'
<1> DEFINE told == [rc |-> answer, cw |-> cw]
<1>1. sent = <<>>
  BY DEF AnsweredOnce
<1>2. \/ rc' = "UNHANDLED" /\ sent' = <<>>
      \/ rc' = answer /\ sent' = Append(sent, told)
  BY <1>1 DEF SendDcw
<1>3. Append(sent, told) = <<told>> /\ <<told>> # <<>> /\ <<told>>[1] = told
  BY <1>1
<1>4. told.rc = answer /\ told.cw = cw
  OBVIOUS
<1>5. CASE rc' = "UNHANDLED" /\ sent' = <<>>
  BY <1>5 DEF AnsweredOnce, Answered
<1>6. CASE rc' = answer /\ sent' = <<told>>
  BY <1>3, <1>4, <1>6 DEF AnsweredOnce, Answered
<1>7. QED
  BY <1>2, <1>3, <1>5, <1>6

\* OnceInv is inductive.
LEMMA OnceInvariant == Spec => []OnceInv
<1>1. Init => OnceInv
  <2> SUFFICES ASSUME Init PROVE OnceInv
    OBVIOUS
  <2>1. rc = "UNHANDLED" /\ sent = <<>>
    BY DEF Init
  <2>2. QED
    BY <2>1, InitTypeInv DEF OnceInv, BusyMeansUnanswered, AnsweredOnce, Answered
<1>2. OnceInv /\ [Next]_vars => OnceInv'
  <2> SUFFICES ASSUME OnceInv, [Next]_vars PROVE OnceInv'
    OBVIOUS
  <2>i. TypeInv /\ BusyMeansUnanswered /\ AnsweredOnce
    BY DEF OnceInv
  <2>1. CASE QuietWorkerStep \/ (\E t \in Threads : WriteStep(t))
             \/ (\E i \in Readers : ReaderAnswer(i) \/ ReaderSilent(i)) \/ TimerStep
    <3>1. TypeInv'
      BY <2>i, <2>1, RequestStepTypeInv, QuietJobTypeInv, TimeoutLoopTypeInv, WriteStepTypeInv,
         ReaderStepTypeInv, TimerStepTypeInv DEF QuietWorkerStep
    <3>2. BusyMeansUnanswered'
      BY <2>i, <2>1, BusyStep
    <3>3. AnsweredOnce'
      BY <2>i, <2>1, QuietStepsTellNothing DEF AnsweredOnce, Answered
    <3>4. QED
      BY <3>1, <3>2, <3>3 DEF OnceInv
  <2>2. CASE ChkDcwFound \/ DecideNotFound \/ TimeoutDone
    <3>1. ~Answered
      BY <2>i, <2>2 DEF BusyMeansUnanswered, ChkDcwFound, DecideNotFound, TimeoutDone
    <3>2. TypeInv'
      BY <2>i, <2>2, <3>1, AnswerJobTypeInv
    <3>3. pc' = "idle"
      BY <2>2 DEF ChkDcwFound, DecideNotFound, TimeoutDone, TakeJob, JobDone
    <3>4. PICK answer \in {"FOUND", "NOTFOUND", "TIMEOUT"} : \E cw, from : SendDcw(answer, cw, from)
      BY <2>2 DEF ChkDcwFound, DecideNotFound, TimeoutDone
    <3>5. AnsweredOnce'
      BY <2>i, <3>1, <3>4, SendDcwOnce
    <3>6. QED
      BY <3>2, <3>3, <3>5 DEF OnceInv, BusyMeansUnanswered
  <2>3. CASE UNCHANGED vars
    <3>1. TypeInv'
      BY <2>i, <2>3, Kept DEF TypeInv, TypeOK, PcFacts, Answered, vars, config, erVars, eaVars, rdrVars, locals
    <3>2. QED
      BY <2>i, <2>3, <3>1 DEF OnceInv, BusyMeansUnanswered, AnsweredOnce, Answered, vars, erVars
  <2>4. QED
    BY <2>1, <2>2, <2>3, StepCases
<1>3. QED
  BY <1>1, <1>2, PTL DEF Spec

\* The fields of a request, of its answers and of the threads that work on it
\* keep their types, whatever races on status and stage.
THEOREM TypeCorrect == Spec => []TypeOK
<1>1. OnceInv => TypeOK
  BY DEF OnceInv, TypeInv
<1>2. QED
  BY <1>1, OnceInvariant, PTL

\* The client is answered once, and er->rc is what it was told.
THEOREM ClientAnsweredOnce == Spec => []AnsweredOnce
<1>1. OnceInv => AnsweredOnce
  BY DEF OnceInv
<1>2. QED
  BY <1>1, OnceInvariant, PTL
=============================================================================
