--------------------------- MODULE EcmReaderProofs ---------------------------
(***************************************************************************)
(* Theorems about what EcmRequest asks of its readers and takes from them:  *)
(* the lock-free updates of ea->status never make the worker ask twice, an  *)
(* answer is recorded once, a control word sent on is one received, so the  *)
(* request keeps what EcmAnswer promises; "not found" is told only when no  *)
(* reader can change it, and the readers are asked stage by stage.          *)
(***************************************************************************)
EXTENDS EcmRequestProofs

Writing(t) == thr[t].pc \in {"clear", "record"}
Asked(i) == requests[i] # 0

\* The status word of a reader that was asked and is still active shows it,
\* in memory and in every copy that may yet be written back.
StatusShowsAsked ==
    /\ \A i \in Readers : requests[i] <= 1 /\ queue[i] <= requests[i]
    /\ \A i \in Readers : Asked(i) /\ "ACTIVE" \in status[i] => "SENT" \in status[i]
    /\ \A i \in Readers : "SENT" \in status[i] => Asked(i)

CopiesShowAsked ==
    /\ pc = "send" => ~Asked(k)
    /\ pc = "timeoutWrite" => Asked(k)
    /\ \A t \in Threads : Writing(t) => Asked(thr[t].ea)
    /\ \A t \in Threads : thr[t].pc = "clear" /\ "SENT" \in thr[t].seen => Asked(thr[t].idx)
    /\ \A t \in Threads : thr[t].pc = "record" /\ "ACTIVE" \in thr[t].seen => "SENT" \in thr[t].seen

AskInv == StatusShowsAsked /\ CopiesShowAsked

\* What the types say of the state the readers share.
LEMMA SharedTypes ==
    TypeInv => /\ status \in [Readers -> SUBSET Flag]
               /\ eaRc \in [Readers -> Rc] /\ eaCw \in [Readers -> CWs \cup {NoCw}]
               /\ queue \in [Readers -> Nat] /\ requests \in [Readers -> Nat]
               /\ thr \in [Threads -> ThreadState]
               /\ \A t \in Threads : thr[t].ea \in Readers /\ thr[t].idx \in Readers
               /\ 1 \in Readers /\ Readers \subseteq Threads /\ Worker \in Threads
               /\ pc \in {"send", "timeoutWrite"} => k \in Readers
<1> SUFFICES ASSUME TypeInv
             PROVE  /\ status \in [Readers -> SUBSET Flag]
                    /\ eaRc \in [Readers -> Rc] /\ eaCw \in [Readers -> CWs \cup {NoCw}]
                    /\ queue \in [Readers -> Nat] /\ requests \in [Readers -> Nat]
                    /\ thr \in [Threads -> ThreadState]
                    /\ \A t \in Threads : thr[t].ea \in Readers /\ thr[t].idx \in Readers
                    /\ 1 \in Readers /\ Readers \subseteq Threads /\ Worker \in Threads
                    /\ pc \in {"send", "timeoutWrite"} => k \in Readers
  OBVIOUS
<1>1. /\ status \in [Readers -> SUBSET Flag]
      /\ eaRc \in [Readers -> Rc] /\ eaCw \in [Readers -> CWs \cup {NoCw}]
      /\ queue \in [Readers -> Nat] /\ requests \in [Readers -> Nat]
      /\ thr \in [Threads -> ThreadState]
      /\ pc \in {"send", "timeoutWrite"} => k \in Readers
  BY DEF TypeInv, TypeOK, AnswersOK, QueuesOK, ThreadsOK, PcFacts
<1>2. \A t \in Threads : thr[t].ea \in Readers /\ thr[t].idx \in Readers
  BY <1>1 DEF ThreadState
<1>3. 1 \in Readers /\ Readers \subseteq Threads /\ Worker \in Threads
  BY NumReadersAssumption DEF Readers, Threads, Worker
<1>4. QED
  BY <1>1, <1>2, <1>3

\* write_ecm_answer up to the record: nothing, or a claim on one answer.
LEMMA WriteBeginClaims ==
    ASSUME NEW t, NEW i, NEW v, WriteBegin(t, i, v), thr \in [Threads -> ThreadState]
    PROVE  \/ UNCHANGED thr
           \/ /\ "ANSWERED" \notin status[i] /\ EaFree(i) /\ thr[t].pc = "out"
              /\ \E s : /\ thr' = [thr EXCEPT ![t] = s]
                        /\ s.ea = i /\ s.idx = 1
                        /\ \/ /\ v.rc = "BADECM" /\ s.pc = "clear" /\ s.seen = status[1]
                              /\ s.verdict = [rc |-> "INVALID", cw |-> NoCw]
                           \/ v.rc # "BADECM" /\ s.pc = "record" /\ s.seen = status[i] /\ s.verdict = v
<1>1. CASE "ANSWERED" \in status[i]
  BY <1>1 DEF WriteBegin
<1>2. CASE "ANSWERED" \notin status[i]
  <2> DEFINE bad == v.rc = "BADECM"
             s == [pc |-> IF bad THEN "clear" ELSE "record", ea |-> i,
                   verdict |-> IF bad THEN [rc |-> "INVALID", cw |-> NoCw] ELSE v,
                   idx |-> 1, seen |-> IF bad THEN status[1] ELSE status[i]]
  <2>1. thr' = [thr EXCEPT ![t] = s] /\ EaFree(i) /\ thr[t].pc = "out"
    BY <1>2 DEF WriteBegin
  <2>2. s.ea = i /\ s.idx = 1
    OBVIOUS
  <2>3. bad => s.pc = "clear" /\ s.seen = status[1] /\ s.verdict = [rc |-> "INVALID", cw |-> NoCw]
    OBVIOUS
  <2>4. ~bad => s.pc = "record" /\ s.seen = status[i] /\ s.verdict = v
    OBVIOUS
  <2> HIDE DEF s
  <2>5. QED
    BY <1>2, <2>1, <2>2, <2>3, <2>4
<1>3. QED
  BY <1>1, <1>2

\* Steps that touch neither the readers' state nor the worker's claim on one.
Aside ==
    /\ UNCHANGED <<status, eaRc, eaCw, queue, requests, thr>>
    /\ pc' \in {"send", "timeoutWrite"} => UNCHANGED <<pc, k, seen>>

\* The steps, sorted by what they do to the readers' state.
LEMMA ReaderCases ==
    ASSUME [Next]_vars
    PROVE  \/ Aside
           \/ AskPick \/ AskSend \/ TimeoutPick \/ TimeoutWrite
           \/ \E i \in Readers : ReaderAnswer(i) \/ ReaderSilent(i)
           \/ \E t \in Threads : WriteClear(t) \/ WriteRecord(t) \/ WritePost(t)
<1>1. CASE RequestStep /\ ~AskPick /\ ~AskSend
  BY <1>1 DEF RequestStep, RequestEnter, StageLoad, StageStore, AskSkip, AskDone, RequestReturn, JobDone,
              Aside, eaVars, rdrVars, locals
<1>2. CASE ChkDcwStep
  BY <1>2 DEF ChkDcwStep, ChkDcwIgnore, ChkDcwFound, ChkDcwNotFound, Scan, ScanDone, DecideWait, DecideNotFound,
              JobDone, TakeJob, Aside, eaVars, rdrVars, locals
<1>3. CASE TimeoutStep /\ ~TimeoutPick /\ ~TimeoutWrite
  BY <1>3 DEF TimeoutStep, FallbackTimeout, EcmTimeout, TimeoutSkip, TimeoutLate, TimeoutDone,
              JobDone, TakeJob, Aside, eaVars, rdrVars, locals
<1>4. CASE TimerStep
  BY <1>4 DEF TimerStep, PostFallback, PostTimeout, Post, Aside, eaVars, rdrVars, locals
<1>5. CASE UNCHANGED vars
  BY <1>5 DEF vars, Aside, eaVars, rdrVars, locals
<1>6. QED
  BY <1>1, <1>2, <1>3, <1>4, <1>5 DEF Next, WorkerStep, RequestStep, TimeoutStep, WriteStep

\* The setup is chosen once.
LEMMA SetupKept == [Next]_vars => UNCHANGED config
BY DEF Next, WorkerStep, RequestStep, RequestEnter, StageLoad, StageStore, AskSkip, AskPick, AskSend, AskDone,
   RequestReturn, ChkDcwStep, ChkDcwIgnore, ChkDcwFound, ChkDcwNotFound, Scan, ScanDone, DecideWait,
   DecideNotFound, TimeoutStep, FallbackTimeout, EcmTimeout, TimeoutSkip, TimeoutPick, TimeoutWrite,
   TimeoutLate, TimeoutDone, WriteStep, WriteClear, WriteRecord, WritePost, ReaderAnswer, ReaderSilent,
   TimerStep, PostFallback, PostTimeout, Post, vars

\* Nobody was asked when the request starts.
LEMMA InitAskInv == Init => AskInv
<1> SUFFICES ASSUME Init PROVE AskInv
  OBVIOUS
<1>1. PICK s \in Setups : status = s.status
  BY DEF Init
<1>2. \A i \in Readers : "SENT" \notin status[i]
  BY <1>1, SetupAssumption DEF Setup
<1>3. /\ queue = [i \in Readers |-> 0] /\ requests = [i \in Readers |-> 0]
      /\ thr = [t \in Threads |-> ThreadOut] /\ pc = "enter"
  BY DEF Init
<1>4. ThreadOut.pc = "out"
  BY DEF ThreadOut
<1>5. QED
  BY <1>2, <1>3, <1>4 DEF AskInv, StatusShowsAsked, CopiesShowAsked, Asked, Writing

\* A claim on the answer of a reader that was asked.
LEMMA ClaimAskInv ==
    ASSUME TypeInv, AskInv, NEW t \in Threads, NEW i \in Readers, NEW v, Asked(i), WriteBegin(t, i, v),
           UNCHANGED <<status, requests>>, \A j \in Readers : queue'[j] <= queue[j] /\ queue'[j] \in Nat,
           pc' \notin {"send", "timeoutWrite"} \/ UNCHANGED <<pc, k>>
    PROVE  AskInv'
<1>t. /\ status \in [Readers -> SUBSET Flag] /\ thr \in [Threads -> ThreadState] /\ 1 \in Readers
      /\ queue \in [Readers -> Nat] /\ requests \in [Readers -> Nat]
      /\ \A u \in Threads : thr[u].ea \in Readers /\ thr[u].idx \in Readers
      /\ pc \in {"send", "timeoutWrite"} => k \in Readers
  BY SharedTypes
<1>1. StatusShowsAsked'
  BY <1>t DEF AskInv, StatusShowsAsked, Asked
<1>2. CASE UNCHANGED thr
  BY <1>t, <1>1, <1>2 DEF AskInv, CopiesShowAsked, Asked, Writing
<1>3. ASSUME NEW s, thr' = [thr EXCEPT ![t] = s], s.ea = i, s.idx = 1,
             (s.pc = "clear" /\ s.seen = status[1]) \/ (s.pc = "record" /\ s.seen = status[i])
      PROVE  AskInv'
  BY <1>t, <1>1, <1>3 DEF AskInv, StatusShowsAsked, CopiesShowAsked, Asked, Writing
<1>4. CASE ~UNCHANGED thr
  <2>1. PICK s : /\ thr' = [thr EXCEPT ![t] = s]
                 /\ s.ea = i /\ s.idx = 1
                 /\ \/ /\ v.rc = "BADECM" /\ s.pc = "clear" /\ s.seen = status[1]
                       /\ s.verdict = [rc |-> "INVALID", cw |-> NoCw]
                    \/ v.rc # "BADECM" /\ s.pc = "record" /\ s.seen = status[i] /\ s.verdict = v
    BY <1>t, <1>4, WriteBeginClaims
  <2>2. (s.pc = "clear" /\ s.seen = status[1]) \/ (s.pc = "record" /\ s.seen = status[i])
    BY <2>1
  <2>3. thr' = [thr EXCEPT ![t] = s] /\ s.ea = i /\ s.idx = 1
    BY <2>1
  <2>4. QED
    BY <2>2, <2>3, <1>3
<1>5. QED
  BY <1>2, <1>4

\* AskInv is inductive, given the types.
LEMMA StepAskInv == TypeInv /\ AskInv /\ [Next]_vars => AskInv'
<1> SUFFICES ASSUME TypeInv, AskInv, [Next]_vars PROVE AskInv'
  OBVIOUS
<1>t. /\ status \in [Readers -> SUBSET Flag] /\ thr \in [Threads -> ThreadState]
      /\ queue \in [Readers -> Nat] /\ requests \in [Readers -> Nat]
      /\ \A t \in Threads : thr[t].ea \in Readers /\ thr[t].idx \in Readers
      /\ 1 \in Readers /\ Readers \subseteq Threads /\ Worker \in Threads
      /\ pc \in {"send", "timeoutWrite"} => k \in Readers
  BY SharedTypes
<1>1. CASE Aside
  BY <1>1, <1>t DEF Aside, AskInv, StatusShowsAsked, CopiesShowAsked, Asked, Writing
<1>2. CASE AskPick
  <2>1. k \in Readers /\ "ACTIVE" \in status[k] /\ "SENT" \notin status[k] /\ pc' = "send" /\ k' = k
        /\ UNCHANGED <<status, queue, requests, thr>>
    BY <1>2 DEF AskPick, Eligible, eaVars, rdrVars
  <2>2. QED
    BY <2>1, <1>t DEF AskInv, StatusShowsAsked, CopiesShowAsked, Asked, Writing
<1>3. CASE AskSend
  <2>1. pc = "send" /\ k \in Readers /\ ~Asked(k) /\ pc' = "ask" /\ UNCHANGED thr
    BY <1>3, <1>t DEF AskSend, AskInv, CopiesShowAsked
  <2>2. PICK old : status' = [status EXCEPT ![k] = old \cup {"SENT"}]
    BY <1>3 DEF AskSend
  <2>3. queue' = [queue EXCEPT ![k] = @ + 1] /\ requests' = [requests EXCEPT ![k] = @ + 1]
    BY <1>3 DEF AskSend
  <2>4. requests[k] = 0 /\ queue[k] = 0 /\ requests'[k] = 1 /\ queue'[k] = 1
    BY <2>1, <2>3, <1>t DEF Asked, AskInv, StatusShowsAsked
  <2>5. StatusShowsAsked'
    BY <2>1, <2>2, <2>3, <2>4, <1>t DEF AskInv, StatusShowsAsked, Asked
  <2>6. \A i \in Readers : Asked(i) => Asked(i)'
    BY <2>1, <2>3, <2>4, <1>t DEF Asked
  <2>7. CopiesShowAsked'
    BY <2>1, <2>6, <1>t DEF AskInv, CopiesShowAsked, Writing
  <2>8. QED
    BY <2>5, <2>7 DEF AskInv
<1>4. CASE TimeoutPick
  <2>1. k \in Readers /\ "SENT" \in status[k] /\ pc' = "timeoutWrite" /\ k' = k
        /\ UNCHANGED <<status, queue, requests, thr>>
    BY <1>4 DEF TimeoutPick, eaVars, rdrVars, locals
  <2>2. QED
    BY <2>1, <1>t DEF AskInv, StatusShowsAsked, CopiesShowAsked, Asked, Writing
<1>5. CASE TimeoutWrite
  <2>1. /\ pc = "timeoutWrite" /\ WriteBegin(Worker, k, TimedOut)
        /\ pc' = "timeout" /\ UNCHANGED <<status, queue, requests>>
    BY <1>5 DEF TimeoutWrite, eaVars, rdrVars
  <2>2. Asked(k) /\ \A j \in Readers : queue'[j] <= queue[j] /\ queue'[j] \in Nat
    BY <2>1, <1>t DEF AskInv, CopiesShowAsked
  <2>3. QED
    BY <2>1, <2>2, <1>t, ClaimAskInv
<1>6. ASSUME NEW i \in Readers, ReaderAnswer(i) PROVE AskInv'
  <2>1. PICK v \in verdicts : WriteBegin(i, i, v)
    BY <1>6 DEF ReaderAnswer
  <2>2. queue[i] > 0 /\ queue' = [queue EXCEPT ![i] = @ - 1] /\ UNCHANGED <<status, requests, pc, k>>
    BY <1>6 DEF ReaderAnswer, eaVars, locals
  <2>3. Asked(i) /\ \A j \in Readers : queue'[j] <= queue[j] /\ queue'[j] \in Nat
    BY <2>2, <1>t DEF AskInv, StatusShowsAsked, Asked
  <2>4. QED
    BY <2>1, <2>2, <2>3, <1>t, ClaimAskInv
<1>7. ASSUME NEW i \in Readers, ReaderSilent(i) PROVE AskInv'
  <2>1. queue[i] > 0 /\ queue' = [queue EXCEPT ![i] = @ - 1] /\ UNCHANGED <<status, requests, pc, k, thr>>
    BY <1>7 DEF ReaderSilent, eaVars, locals
  <2>2. QED
    BY <2>1, <1>t DEF AskInv, StatusShowsAsked, CopiesShowAsked, Asked, Writing
<1>8. ASSUME NEW t \in Threads, WriteClear(t) PROVE AskInv'
  <2> DEFINE n == thr[t].idx
             s == IF n < NumReaders
                  THEN [thr[t] EXCEPT !.idx = n + 1, !.seen = status'[n + 1]]
                  ELSE [thr[t] EXCEPT !.pc = "record", !.idx = 1, !.seen = status'[thr[t].ea]]
  <2>1. /\ thr[t].pc = "clear" /\ status' = [status EXCEPT ![n] = thr[t].seen \ {"ACTIVE", "FALLBACK"}]
        /\ thr' = [thr EXCEPT ![t] = s] /\ UNCHANGED <<queue, requests, pc, k>>
    BY <1>8, <1>t DEF WriteClear, rdrVars, locals
  <2>2. n \in Readers /\ thr[t].ea \in Readers /\ Asked(thr[t].ea) /\ thr[t] \in ThreadState
    BY <2>1, <1>t DEF AskInv, CopiesShowAsked, Writing
  <2>3. StatusShowsAsked'
    BY <2>1, <2>2, <1>t DEF AskInv, StatusShowsAsked, CopiesShowAsked, Asked
  <2>4. \/ /\ s.pc = "clear" /\ s.ea = thr[t].ea /\ s.idx \in Readers /\ s.seen = status'[s.idx]
        \/ s.pc = "record" /\ s.ea = thr[t].ea /\ s.seen = status'[s.ea]
    BY <2>1, <2>2, NumReadersAssumption DEF ThreadState, Readers
  <2> HIDE DEF s
  <2>5. CopiesShowAsked'
    BY <2>1, <2>2, <2>3, <2>4, <1>t DEF AskInv, StatusShowsAsked, CopiesShowAsked, Asked, Writing
  <2>6. QED
    BY <2>3, <2>5 DEF AskInv
<1>9. ASSUME NEW t \in Threads, WriteRecord(t) PROVE AskInv'
  <2> DEFINE s == [ThreadOut EXCEPT !.pc = "post", !.ea = thr[t].ea]
  <2>1. /\ thr[t].pc = "record" /\ status' = [status EXCEPT ![thr[t].ea] = thr[t].seen \cup {"ANSWERED"}]
        /\ thr' = [thr EXCEPT ![t] = s] /\ UNCHANGED <<queue, requests, pc, k>>
    BY <1>9 DEF WriteRecord, rdrVars, locals
  <2>2. s.pc = "post"
    BY DEF ThreadOut
  <2> HIDE DEF s
  <2>3. QED
    BY <2>1, <2>2, <1>t DEF AskInv, StatusShowsAsked, CopiesShowAsked, Asked, Writing
<1>10. ASSUME NEW t \in Threads, WritePost(t) PROVE AskInv'
  <2>1. thr' = [thr EXCEPT ![t] = ThreadOut] /\ UNCHANGED <<status, queue, requests, pc, k>>
    BY <1>10 DEF WritePost, eaVars, rdrVars, locals
  <2>2. ThreadOut.pc = "out"
    BY DEF ThreadOut
  <2>3. QED
    BY <2>1, <2>2, <1>t DEF AskInv, StatusShowsAsked, CopiesShowAsked, Asked, Writing
<1>11. QED
  BY <1>1, <1>2, <1>3, <1>4, <1>5, <1>6, <1>7, <1>8, <1>9, <1>10, ReaderCases

\* AskInv holds throughout.
LEMMA AskInvariant == Spec => []AskInv
<1>1. OnceInv => TypeInv
  BY DEF OnceInv
<1>2. QED
  BY <1>1, InitAskInv, StepAskInv, OnceInvariant, PTL DEF Spec

\* No reader is sent the request twice, although request_cw_from_readers tests
\* and sets ea->status without the lock write_ecm_answer holds.
THEOREM ReaderAskedOnce == Spec => []AskedOnce
<1>1. AskInv => AskedOnce
  BY DEF AskInv, StatusShowsAsked, AskedOnce
<1>2. QED
  BY <1>1, AskInvariant, PTL

(***************************************************************************)
(* One record: an answer is written by the one thread that claimed it.      *)
(***************************************************************************)
RecordInv ==
    /\ \A t, u \in Threads : t # u /\ Writing(t) /\ Writing(u) => thr[t].ea # thr[u].ea
    /\ NoBadEcm =>
          /\ \A t \in Threads : thr[t].pc # "clear"
          /\ \A t \in Threads : thr[t].pc = "record" => eaRc[thr[t].ea] = "UNHANDLED"
          /\ \A i \in Readers : eaRc[i] # "UNHANDLED" => "ANSWERED" \in status[i] /\ Asked(i)

\* A claim on an answer that nobody else has claimed.
LEMMA ClaimRecordInv ==
    ASSUME TypeInv, RecordInv, NEW t \in Threads, NEW i \in Readers, NEW v, WriteBegin(t, i, v),
           NoBadEcm => v.rc # "BADECM",
           UNCHANGED <<verdicts, status, eaRc, requests>>
    PROVE  RecordInv'
<1>t. /\ status \in [Readers -> SUBSET Flag] /\ thr \in [Threads -> ThreadState]
      /\ eaRc \in [Readers -> Rc]
      /\ \A u \in Threads : thr[u].ea \in Readers
  BY SharedTypes
<1>n. NoBadEcm' <=> NoBadEcm
  BY DEF NoBadEcm
<1>1. CASE UNCHANGED thr
  BY <1>t, <1>n, <1>1 DEF RecordInv, Writing, Asked
<1>2. ASSUME NEW s, thr' = [thr EXCEPT ![t] = s], s.ea = i, s.pc \in {"clear", "record"},
             NoBadEcm => s.pc = "record", "ANSWERED" \notin status[i], EaFree(i)
      PROVE  RecordInv'
  <2>1. \A u \in Threads : Writing(u) => thr[u].ea # i
    BY <1>2 DEF EaFree, Writing
  <2>2. \A u \in Threads : thr'[u] = IF u = t THEN s ELSE thr[u]
    BY <1>t, <1>2
  <2>3. \A u, w \in Threads : u # w /\ Writing(u)' /\ Writing(w)' => thr'[u].ea # thr'[w].ea
    BY <1>2, <2>1, <2>2 DEF RecordInv, Writing
  <2>4. NoBadEcm => eaRc[i] = "UNHANDLED"
    BY <1>2 DEF RecordInv
  <2>5. QED
    BY <1>n, <1>2, <2>2, <2>3, <2>4 DEF RecordInv, Asked
<1>3. CASE ~UNCHANGED thr
  <2>1. PICK s : /\ thr' = [thr EXCEPT ![t] = s]
                 /\ s.ea = i /\ s.idx = 1
                 /\ \/ /\ v.rc = "BADECM" /\ s.pc = "clear" /\ s.seen = status[1]
                       /\ s.verdict = [rc |-> "INVALID", cw |-> NoCw]
                    \/ v.rc # "BADECM" /\ s.pc = "record" /\ s.seen = status[i] /\ s.verdict = v
    BY <1>t, <1>3, WriteBeginClaims
  <2>2. s.pc \in {"clear", "record"} /\ (NoBadEcm => s.pc = "record")
    BY <2>1
  <2>3. "ANSWERED" \notin status[i] /\ EaFree(i)
    BY <1>t, <1>3, WriteBeginClaims
  <2>4. thr' = [thr EXCEPT ![t] = s] /\ s.ea = i
    BY <2>1
  <2>5. QED
    BY <2>2, <2>3, <2>4, <1>2
<1>4. QED
  BY <1>1, <1>3

\* RecordInv is inductive, given the types and AskInv.
LEMMA StepRecordInv == TypeInv /\ AskInv /\ RecordInv /\ [Next]_vars => RecordInv'
<1> SUFFICES ASSUME TypeInv, AskInv, RecordInv, [Next]_vars PROVE RecordInv'
  OBVIOUS
<1>t. /\ status \in [Readers -> SUBSET Flag] /\ thr \in [Threads -> ThreadState]
      /\ eaRc \in [Readers -> Rc] /\ requests \in [Readers -> Nat]
      /\ \A t \in Threads : thr[t].ea \in Readers /\ thr[t].idx \in Readers
      /\ Readers \subseteq Threads /\ Worker \in Threads
      /\ pc \in {"send", "timeoutWrite"} => k \in Readers
  BY SharedTypes
<1>v. UNCHANGED verdicts
  BY SetupKept DEF config
<1>n. NoBadEcm' <=> NoBadEcm
  BY <1>v DEF NoBadEcm
<1>1. CASE Aside \/ AskPick \/ TimeoutPick \/ (\E i \in Readers : ReaderSilent(i)) \/ (\E t \in Threads : WritePost(t))
  <2>1. UNCHANGED <<status, eaRc, requests>>
    BY <1>1 DEF Aside, AskPick, TimeoutPick, ReaderSilent, WritePost, eaVars, rdrVars
  <2>2. \A t \in Threads : UNCHANGED (thr[t]) \/ thr'[t].pc = "out"
    BY <1>1, <1>t DEF Aside, AskPick, TimeoutPick, ReaderSilent, WritePost, ThreadOut
  <2>3. QED
    BY <1>n, <1>t, <2>1, <2>2 DEF RecordInv, Writing, Asked
<1>2. CASE AskSend
  <2>1. k \in Readers /\ ~Asked(k) /\ UNCHANGED <<thr, eaRc>>
    BY <1>2, <1>t DEF AskSend, AskInv, CopiesShowAsked
  <2>2. PICK old : status' = [status EXCEPT ![k] = old \cup {"SENT"}]
    BY <1>2 DEF AskSend
  <2>3. requests' = [requests EXCEPT ![k] = @ + 1]
    BY <1>2 DEF AskSend
  <2>4. NoBadEcm => eaRc[k] = "UNHANDLED"
    BY <2>1 DEF RecordInv
  <2>5. QED
    BY <1>n, <1>t, <2>1, <2>2, <2>3, <2>4 DEF RecordInv, Writing, Asked
<1>3. CASE TimeoutWrite
  <2>1. /\ k \in Readers /\ WriteBegin(Worker, k, TimedOut) /\ UNCHANGED <<status, eaRc, requests>>
    BY <1>3, <1>t DEF TimeoutWrite, eaVars, rdrVars
  <2>2. TimedOut.rc # "BADECM"
    BY DEF TimedOut
  <2>3. QED
    BY <1>t, <1>v, <2>1, <2>2, ClaimRecordInv
<1>4. ASSUME NEW i \in Readers, ReaderAnswer(i) PROVE RecordInv'
  <2>1. PICK v \in verdicts : WriteBegin(i, i, v)
    BY <1>4 DEF ReaderAnswer
  <2>2. UNCHANGED <<status, eaRc, requests>> /\ (NoBadEcm => v.rc # "BADECM")
    BY <1>4 DEF ReaderAnswer, eaVars, NoBadEcm
  <2>3. QED
    BY <1>t, <1>v, <2>1, <2>2, ClaimRecordInv
<1>5. ASSUME NEW t \in Threads, WriteClear(t) PROVE RecordInv'
  <2>1. thr[t].pc = "clear" /\ ~NoBadEcm
    BY <1>5 DEF WriteClear, RecordInv
  <2>2. \A u \in Threads : u # t => thr'[u] = thr[u]
    BY <1>5, <1>t DEF WriteClear
  <2>3. thr[t] \in ThreadState /\ thr'[t].ea = thr[t].ea
    BY <1>5, <1>t DEF WriteClear, ThreadState
  <2>4. QED
    BY <1>n, <1>t, <2>1, <2>2, <2>3 DEF RecordInv, Writing
<1>6. ASSUME NEW t \in Threads, WriteRecord(t) PROVE RecordInv'
  <2> DEFINE s == [ThreadOut EXCEPT !.pc = "post", !.ea = thr[t].ea]
             i == thr[t].ea
  <2>1. /\ thr[t].pc = "record" /\ status' = [status EXCEPT ![i] = thr[t].seen \cup {"ANSWERED"}]
        /\ eaRc' = [eaRc EXCEPT ![i] = thr[t].verdict.rc]
        /\ thr' = [thr EXCEPT ![t] = s] /\ UNCHANGED requests
    BY <1>6 DEF WriteRecord, rdrVars
  <2>2. s.pc = "post"
    BY DEF ThreadOut
  <2>3. Asked(i) /\ i \in Readers
    BY <2>1, <1>t DEF AskInv, CopiesShowAsked, Writing
  <2>4. \A u \in Threads : u # t /\ Writing(u) => thr[u].ea # i
    BY <2>1 DEF RecordInv, Writing
  <2> HIDE DEF s
  <2>5. \A u \in Threads : Writing(u)' => u # t /\ Writing(u) /\ thr'[u] = thr[u]
    BY <2>1, <2>2, <1>t DEF Writing
  <2>6. \A u \in Threads : thr'[u].pc = "record" => eaRc'[thr'[u].ea] = eaRc[thr[u].ea] /\ thr[u].pc = "record"
    BY <2>1, <2>4, <2>5, <1>t DEF Writing
  <2>7. NoBadEcm => \A j \in Readers : eaRc'[j] # "UNHANDLED" => "ANSWERED" \in status'[j] /\ Asked(j)'
    BY <2>1, <2>3, <1>t DEF RecordInv, Asked
  <2>8. \A u \in Threads : NoBadEcm => thr'[u].pc # "clear"
    BY <2>1, <2>2, <1>t DEF RecordInv
  <2>9. \A u, w \in Threads : u # w /\ Writing(u)' /\ Writing(w)' => thr'[u].ea # thr'[w].ea
    BY <2>5 DEF RecordInv
  <2>10. QED
    BY <1>n, <2>6, <2>7, <2>8, <2>9 DEF RecordInv
<1>7. QED
  BY <1>1, <1>2, <1>3, <1>4, <1>5, <1>6, ReaderCases

\* RecordInv holds throughout.
LEMMA RecordInvariant == Spec => []RecordInv
<1>1. Init => RecordInv
  <2> SUFFICES ASSUME Init PROVE RecordInv
    OBVIOUS
  <2>1. thr = [t \in Threads |-> ThreadOut] /\ eaRc = [i \in Readers |-> "UNHANDLED"]
    BY DEF Init
  <2>2. ThreadOut.pc = "out"
    BY DEF ThreadOut
  <2>3. \A t \in Threads : thr[t] = ThreadOut
    BY <2>1
  <2>4. QED
    BY <2>1, <2>2, <2>3 DEF RecordInv, Writing
<1>2. OnceInv => TypeInv
  BY DEF OnceInv
<1>3. QED
  BY <1>1, <1>2, StepRecordInv, OnceInvariant, AskInvariant, PTL DEF Spec

\* What a reader has answered is never replaced, not by the TIMEOUT of
\* ecm_timeout either, as long as no reader reports a bad checksum.
THEOREM RecordedAnswerKept == Spec => AnswerKept
<1> DEFINE Keeps == \A i \in Readers : NoBadEcm /\ eaRc[i] # "UNHANDLED" => eaRc'[i] = eaRc[i]
<1>1. TypeInv /\ RecordInv /\ [Next]_vars => [Keeps]_vars
  <2> SUFFICES ASSUME TypeInv, RecordInv, Next, NoBadEcm,
                      NEW i \in Readers, eaRc[i] # "UNHANDLED"
               PROVE  eaRc'[i] = eaRc[i]
    OBVIOUS
  <2>t. eaRc \in [Readers -> Rc]
    BY SharedTypes
  <2>1. CASE \E t \in Threads : WriteRecord(t)
    <3>1. PICK t \in Threads : WriteRecord(t)
      BY <2>1
    <3>2. thr[t].pc = "record" /\ eaRc' = [eaRc EXCEPT ![thr[t].ea] = thr[t].verdict.rc]
      BY <3>1 DEF WriteRecord
    <3>3. thr[t].ea # i
      BY <3>2 DEF RecordInv
    <3>4. QED
      BY <2>t, <3>2, <3>3
  <2>2. CASE ~\E t \in Threads : WriteRecord(t)
    <3>1. UNCHANGED eaRc
      BY <2>2, ReaderCases DEF Aside, AskPick, AskSend, TimeoutPick, TimeoutWrite, ReaderAnswer, ReaderSilent,
         WriteClear, WritePost, eaVars
    <3>2. QED
      BY <3>1
  <2>3. QED
    BY <2>1, <2>2
<1>2. OnceInv => TypeInv
  BY DEF OnceInv
<1>3. QED
  BY <1>1, <1>2, OnceInvariant, RecordInvariant, PTL DEF Spec, AnswerKept

(***************************************************************************)
(* One control word: a reader supplies at most one, and what double_check   *)
(* compares and the client is sent are words that readers supplied.         *)
(***************************************************************************)
SupplyInv ==
    /\ \A i \in Readers : queue[i] > 0 => ~Writing(i) /\ eaCw[i] = NoCw
    /\ \A i \in Readers : Writing(i) => thr[i].ea = i /\ eaCw[i] = NoCw
    /\ \A i \in Readers : ~Asked(i) => eaCw[i] = NoCw
    /\ Writing(Worker) => thr[Worker].verdict.cw = NoCw
    /\ \A t \in Threads : Writing(t) /\ thr[t].verdict.rc = "FOUND" => thr[t].verdict.cw \in CWs
    /\ \A i \in Readers : eaRc[i] = "FOUND" => eaCw[i] \in CWs

CheckInv ==
    /\ checked # 0 => /\ origin \in Readers
                      /\ eaCw[origin] = cwChecked /\ cwChecked \in CWs
    /\ FoundIsGenuine

\* The worker's thread is not a reader's.
LEMMA WorkerOrReader == \A t \in Threads : (t = Worker /\ t \notin Readers) \/ (t # Worker /\ t \in Readers)
BY NumReadersAssumption DEF Threads, Readers, Worker

\* A word that was supplied stays.
LEMMA WordKept ==
    ASSUME TypeInv, AskInv, SupplyInv, [Next]_vars, NEW i \in Readers, eaCw[i] # NoCw
    PROVE  eaCw'[i] = eaCw[i]
<1>t. eaCw \in [Readers -> CWs \cup {NoCw}]
  BY SharedTypes
<1>1. CASE \E t \in Threads : WriteRecord(t)
  <2>1. PICK t \in Threads : WriteRecord(t)
    BY <1>1
  <2>2. thr[t].pc = "record"
        /\ eaCw' = IF thr[t].verdict.cw = NoCw THEN eaCw ELSE [eaCw EXCEPT ![thr[t].ea] = thr[t].verdict.cw]
    BY <2>1 DEF WriteRecord
  <2>3. t \in Readers => thr[t].ea # i
    BY <2>2 DEF SupplyInv, Writing
  <2>4. t = Worker => thr[t].verdict.cw = NoCw
    BY <2>2 DEF SupplyInv, Writing
  <2>5. QED
    BY <1>t, <2>2, <2>3, <2>4, WorkerOrReader
<1>2. CASE ~\E t \in Threads : WriteRecord(t)
  BY <1>2, ReaderCases DEF Aside, AskPick, AskSend, TimeoutPick, TimeoutWrite, ReaderAnswer, ReaderSilent,
     WriteClear, WritePost, eaVars
<1>3. QED
  BY <1>1, <1>2

\* A claim by a thread that may make it: a reader its own answer, the worker none
\* with a control word.
LEMMA ClaimSupplyInv ==
    ASSUME TypeInv, SupplyInv, NEW t \in Threads, NEW i \in Readers, NEW v \in Verdict, WriteBegin(t, i, v),
           t # Worker => t = i /\ queue'[i] = 0 /\ eaCw[i] = NoCw,
           t = Worker => v.cw = NoCw,
           \A j \in Readers : queue'[j] > 0 => queue[j] > 0,
           UNCHANGED <<eaRc, eaCw, requests>>
    PROVE  SupplyInv'
<1>t. thr \in [Threads -> ThreadState] /\ Readers \subseteq Threads /\ Worker \in Threads
  BY SharedTypes
<1>1. CASE UNCHANGED thr
  BY <1>1, <1>t DEF SupplyInv, Writing, Asked
<1>2. ASSUME NEW s, thr' = [thr EXCEPT ![t] = s], s.ea = i,
             s.verdict = v \/ s.verdict = [rc |-> "INVALID", cw |-> NoCw]
      PROVE  SupplyInv'
  <2>1. \A u \in Threads : thr'[u] = IF u = t THEN s ELSE thr[u]
    BY <1>2, <1>t
  <2>2. s.verdict.rc = "FOUND" => s.verdict.cw \in CWs
    BY <1>2 DEF Verdict
  <2>3. t = Worker => s.verdict.cw = NoCw
    BY <1>2
  <2>4. QED
    BY <1>t, <1>2, <2>1, <2>2, <2>3, WorkerOrReader DEF SupplyInv, Writing, Asked
<1>3. CASE ~UNCHANGED thr
  <2>1. PICK s : /\ thr' = [thr EXCEPT ![t] = s]
                 /\ s.ea = i /\ s.idx = 1
                 /\ \/ /\ v.rc = "BADECM" /\ s.pc = "clear" /\ s.seen = status[1]
                       /\ s.verdict = [rc |-> "INVALID", cw |-> NoCw]
                    \/ v.rc # "BADECM" /\ s.pc = "record" /\ s.seen = status[i] /\ s.verdict = v
    BY <1>t, <1>3, WriteBeginClaims
  <2>2. s.verdict = v \/ s.verdict = [rc |-> "INVALID", cw |-> NoCw]
    BY <2>1
  <2>3. thr' = [thr EXCEPT ![t] = s] /\ s.ea = i
    BY <2>1
  <2>4. QED
    BY <2>2, <2>3, <1>2
<1>4. QED
  BY <1>1, <1>3

\* SupplyInv is inductive, given the types and AskInv.
LEMMA StepSupplyInv == TypeInv /\ AskInv /\ SupplyInv /\ [Next]_vars => SupplyInv'
<1> SUFFICES ASSUME TypeInv, AskInv, SupplyInv, [Next]_vars PROVE SupplyInv'
  OBVIOUS
<1>t. /\ thr \in [Threads -> ThreadState]
      /\ eaRc \in [Readers -> Rc] /\ eaCw \in [Readers -> CWs \cup {NoCw}]
      /\ queue \in [Readers -> Nat] /\ requests \in [Readers -> Nat]
      /\ \A t \in Threads : thr[t].ea \in Readers /\ thr[t].idx \in Readers
      /\ Readers \subseteq Threads /\ Worker \in Threads
      /\ pc \in {"send", "timeoutWrite"} => k \in Readers
  BY SharedTypes
<1>1. CASE Aside \/ AskPick \/ TimeoutPick
  BY <1>1, <1>t DEF Aside, AskPick, TimeoutPick, eaVars, rdrVars, SupplyInv, Writing, Asked
<1>2. CASE AskSend
  <2>1. k \in Readers /\ ~Asked(k) /\ UNCHANGED <<thr, eaRc, eaCw>>
    BY <1>2, <1>t DEF AskSend, AskInv, CopiesShowAsked
  <2>2. queue' = [queue EXCEPT ![k] = @ + 1] /\ requests' = [requests EXCEPT ![k] = @ + 1]
    BY <1>2 DEF AskSend
  <2>3. ~Writing(k) /\ eaCw[k] = NoCw
    BY <1>t, <2>1 DEF AskInv, CopiesShowAsked, SupplyInv
  <2>4. \A i \in Readers : i # k => queue'[i] = queue[i] /\ requests'[i] = requests[i]
    BY <1>t, <2>2
  <2>5. QED
    BY <1>t, <2>1, <2>3, <2>4 DEF SupplyInv, Writing, Asked
<1>3. CASE TimeoutWrite
  <2>1. /\ k \in Readers /\ WriteBegin(Worker, k, TimedOut)
        /\ UNCHANGED <<queue, eaRc, eaCw, requests>>
    BY <1>3, <1>t DEF TimeoutWrite, eaVars, rdrVars
  <2>2. TimedOut \in Verdict /\ TimedOut.cw = NoCw
    BY DEF TimedOut, Verdict
  <2>3. QED
    BY <1>t, <2>1, <2>2, ClaimSupplyInv
<1>4. ASSUME NEW i \in Readers, ReaderAnswer(i) PROVE SupplyInv'
  <2>1. PICK v \in verdicts : WriteBegin(i, i, v)
    BY <1>4 DEF ReaderAnswer
  <2>2. queue[i] > 0 /\ queue' = [queue EXCEPT ![i] = @ - 1] /\ UNCHANGED <<eaRc, eaCw, requests>>
    BY <1>4 DEF ReaderAnswer, eaVars
  <2>3. v \in Verdict
    BY DEF TypeInv, TypeOK, ConfigOK
  <2>4. queue[i] = 1
    <3>1. queue[i] <= requests[i] /\ requests[i] <= 1 /\ queue[i] \in Nat /\ requests[i] \in Nat
      BY <1>t DEF AskInv, StatusShowsAsked
    <3>2. QED
      BY <2>2, <3>1
  <2>5. queue'[i] = 0 /\ eaCw[i] = NoCw /\ \A j \in Readers : queue'[j] > 0 => queue[j] > 0
    BY <1>t, <2>2, <2>4 DEF SupplyInv
  <2>6. i # Worker
    BY <1>t, WorkerOrReader
  <2>7. QED
    BY <1>t, <2>1, <2>2, <2>3, <2>5, <2>6, ClaimSupplyInv
<1>5. ASSUME NEW i \in Readers, ReaderSilent(i) PROVE SupplyInv'
  <2>1. queue[i] > 0 /\ queue' = [queue EXCEPT ![i] = @ - 1] /\ UNCHANGED <<eaRc, eaCw, requests, thr>>
    BY <1>5 DEF ReaderSilent, eaVars
  <2>2. \A j \in Readers : queue'[j] > 0 => queue[j] > 0
    BY <1>t, <2>1
  <2>3. QED
    BY <1>t, <2>1, <2>2 DEF SupplyInv, Writing, Asked
<1>6. ASSUME NEW t \in Threads, WriteClear(t) PROVE SupplyInv'
  <2>1. thr[t].pc = "clear" /\ UNCHANGED <<queue, eaRc, eaCw, requests>>
    BY <1>6 DEF WriteClear, rdrVars
  <2>2. thr[t] \in ThreadState /\ thr'[t].ea = thr[t].ea /\ thr'[t].verdict = thr[t].verdict
    BY <1>6, <1>t DEF WriteClear, ThreadState
  <2>3. \A u \in Threads : u # t => thr'[u] = thr[u]
    BY <1>6, <1>t DEF WriteClear
  <2>4. Writing(t)
    BY <2>1 DEF Writing
  <2>5. \A u \in Threads : /\ Writing(u)' => Writing(u)
                           /\ thr'[u].ea = thr[u].ea /\ thr'[u].verdict = thr[u].verdict
    BY <2>2, <2>3, <2>4 DEF Writing
  <2>6. QED
    BY <1>t, <2>1, <2>5 DEF SupplyInv, Asked
<1>7. ASSUME NEW t \in Threads, WriteRecord(t) PROVE SupplyInv'
  <2> DEFINE s == [ThreadOut EXCEPT !.pc = "post", !.ea = thr[t].ea]
             i == thr[t].ea
             v == thr[t].verdict
  <2>1. /\ thr[t].pc = "record"
        /\ eaRc' = [eaRc EXCEPT ![i] = v.rc]
        /\ eaCw' = IF v.cw = NoCw THEN eaCw ELSE [eaCw EXCEPT ![i] = v.cw]
        /\ thr' = [thr EXCEPT ![t] = s] /\ UNCHANGED <<queue, requests>>
    BY <1>7 DEF WriteRecord, rdrVars
  <2>2. s.pc = "post"
    BY DEF ThreadOut
  <2>3. Asked(i) /\ i \in Readers /\ Writing(t)
    BY <2>1, <1>t DEF AskInv, CopiesShowAsked, Writing
  <2>4. (t \in Readers => i = t /\ queue[t] = 0) /\ (t = Worker => v.cw = NoCw)
    BY <2>3, <1>t DEF SupplyInv
  <2>5. v.rc = "FOUND" => v.cw \in CWs /\ v.cw # NoCw
    BY <2>3, SentinelAssumption DEF SupplyInv
  <2> HIDE DEF s
  <2>6. \A u \in Threads : Writing(u)' => u # t /\ Writing(u) /\ thr'[u] = thr[u]
    BY <2>1, <2>2, <1>t DEF Writing
  <2>7. \A j \in Readers : eaCw'[j] = eaCw[j] \/ (t = j /\ i = j)
    BY <2>1, <2>4, <1>t, WorkerOrReader
  <2>8. \A j \in Readers : eaRc'[j] = "FOUND" => eaCw'[j] \in CWs
    <3>1. ASSUME NEW j \in Readers, j # i PROVE eaRc'[j] = eaRc[j] /\ eaCw'[j] = eaCw[j]
      BY <2>1, <1>t, <3>1
    <3>2. eaRc'[i] = "FOUND" => eaCw'[i] \in CWs
      BY <2>1, <2>3, <2>5, <1>t
    <3>3. QED
      BY <3>1, <3>2 DEF SupplyInv
  <2>9. QED
    BY <1>t, <2>1, <2>3, <2>4, <2>6, <2>7, <2>8 DEF SupplyInv, Asked
<1>8. ASSUME NEW t \in Threads, WritePost(t) PROVE SupplyInv'
  <2>1. thr' = [thr EXCEPT ![t] = ThreadOut] /\ UNCHANGED <<queue, eaRc, eaCw, requests>>
    BY <1>8 DEF WritePost, eaVars, rdrVars
  <2>2. ThreadOut.pc = "out"
    BY DEF ThreadOut
  <2>3. \A u \in Threads : Writing(u)' => Writing(u) /\ thr'[u] = thr[u]
    BY <1>t, <2>1, <2>2 DEF Writing
  <2>4. QED
    BY <1>t, <2>1, <2>3 DEF SupplyInv, Asked
<1>9. QED
  BY <1>1, <1>2, <1>3, <1>4, <1>5, <1>6, <1>7, <1>8, ReaderCases

\* SupplyInv holds throughout.
LEMMA SupplyInvariant == Spec => []SupplyInv
<1>1. Init => SupplyInv
  <2> SUFFICES ASSUME Init PROVE SupplyInv
    OBVIOUS
  <2>1. /\ thr = [t \in Threads |-> ThreadOut] /\ queue = [i \in Readers |-> 0]
        /\ eaRc = [i \in Readers |-> "UNHANDLED"] /\ eaCw = [i \in Readers |-> NoCw]
    BY DEF Init
  <2>2. \A t \in Threads : thr[t].pc = "out"
    BY <2>1 DEF ThreadOut
  <2>3. Readers \subseteq Threads /\ Worker \in Threads
    BY NumReadersAssumption DEF Readers, Threads, Worker
  <2>4. QED
    BY <2>1, <2>2, <2>3 DEF SupplyInv, Writing
<1>2. OnceInv => TypeInv
  BY DEF OnceInv
<1>3. QED
  BY <1>1, <1>2, StepSupplyInv, OnceInvariant, AskInvariant, PTL DEF Spec

\* send_dcw with the word of a reader that supplied it: held back, confirmed by
\* another reader, or sent because one is enough.
LEMMA SendDcwGenuine ==
    ASSUME TypeInv, CheckInv, AnsweredOnce, ~Answered,
           NEW i \in Readers, eaCw[i] \in CWs, SendDcw("FOUND", eaCw[i], i), UNCHANGED <<double, eaCw>>
    PROVE  CheckInv'
<1> DEFINE told == [rc |-> "FOUND", cw |-> eaCw[i]]
<1>1. sent = <<>> /\ checked \in {0, 1}
  BY DEF AnsweredOnce, TypeInv, TypeOK, RequestOK, PcFacts
<1>2. Append(sent, told) = <<told>> /\ told.cw = eaCw[i] /\ told.cw # NoCw
  BY <1>1, SentinelAssumption
<1>3. sent' = <<told>> /\ (double => \E j \in Readers \ {i} : eaCw[j] = eaCw[i]) => FoundIsGenuine'
  BY <1>2 DEF FoundIsGenuine
<1>4. sent' = <<>> => FoundIsGenuine'
  BY DEF FoundIsGenuine
<1>5. CASE ~double
  BY <1>1, <1>2, <1>3, <1>5 DEF SendDcw, CheckInv
<1>6. CASE double /\ checked = 0
  BY <1>1, <1>4, <1>6 DEF SendDcw, CheckInv
<1>7. CASE double /\ checked = 1
  <2>1. CASE i # origin /\ eaCw[i] = cwChecked
    <3>1. sent' = <<told>> /\ UNCHANGED <<origin, cwChecked>>
      BY <1>2, <1>7, <2>1 DEF SendDcw
    <3>2. origin \in Readers \ {i} /\ eaCw[origin] = eaCw[i]
      BY <1>7, <2>1 DEF CheckInv
    <3>3. QED
      BY <1>3, <1>7, <3>1, <3>2 DEF CheckInv
  <2>2. CASE ~(i # origin /\ eaCw[i] = cwChecked)
    <3>1. sent' = <<>> /\ UNCHANGED <<checked, origin, cwChecked>>
      BY <1>1, <1>7, <2>2 DEF SendDcw
    <3>2. QED
      BY <1>4, <3>1 DEF CheckInv
  <2>3. QED
    BY <2>1, <2>2
<1>8. QED
  BY <1>1, <1>5, <1>6, <1>7

\* CheckInv is inductive, given what is known of the readers.
LEMMA StepCheckInv == OnceInv /\ AskInv /\ SupplyInv /\ CheckInv /\ [Next]_vars => CheckInv'
<1> SUFFICES ASSUME OnceInv, AskInv, SupplyInv, CheckInv, [Next]_vars PROVE CheckInv'
  OBVIOUS
<1>t. TypeInv /\ AnsweredOnce /\ BusyMeansUnanswered /\ eaCw \in [Readers -> CWs \cup {NoCw}]
  BY SharedTypes DEF OnceInv
<1>c. UNCHANGED double
  BY SetupKept DEF config
<1>1. CASE UNCHANGED <<rc, checked, origin, cwChecked, sent>>
  <2>1. \A i \in Readers : eaCw[i] # NoCw => eaCw'[i] = eaCw[i]
    BY <1>t, WordKept
  <2>2. checked' # 0 => origin' \in Readers /\ eaCw'[origin'] = cwChecked' /\ cwChecked' \in CWs
    BY <1>1, <2>1, SentinelAssumption DEF CheckInv
  <2>3. FoundIsGenuine'
    BY <1>1, <1>c, <2>1 DEF CheckInv, FoundIsGenuine
  <2>4. QED
    BY <2>2, <2>3 DEF CheckInv
<1>2. CASE ChkDcwFound
  <2>1. Head(jobs).ea \in Readers
    BY <1>t, <1>2, TakeJobType DEF ChkDcwFound, TypeInv, TypeOK
  <2>2. /\ ~Answered /\ eaRc[Head(jobs).ea] = "FOUND"
        /\ SendDcw("FOUND", eaCw[Head(jobs).ea], Head(jobs).ea) /\ UNCHANGED eaCw
    BY <1>2 DEF ChkDcwFound, eaVars
  <2>3. eaCw[Head(jobs).ea] \in CWs
    BY <2>1, <2>2 DEF SupplyInv
  <2>4. QED
    BY <1>t, <1>c, <2>1, <2>2, <2>3, SendDcwGenuine
<1>3. CASE DecideNotFound \/ TimeoutDone
  <2>1. PICK answer \in {"NOTFOUND", "TIMEOUT"} : SendDcw(answer, NoCw, NoReader)
    BY <1>3 DEF DecideNotFound, TimeoutDone
  <2>2. ~Answered /\ UNCHANGED eaCw
    BY <1>t, <1>3 DEF DecideNotFound, TimeoutDone, BusyMeansUnanswered, eaVars
  <2>3. sent = <<>>
    BY <1>t, <2>2 DEF AnsweredOnce
  <2>4. sent' = <<[rc |-> answer, cw |-> NoCw]>> /\ UNCHANGED <<checked, origin, cwChecked>>
    BY <2>1, <2>3 DEF SendDcw
  <2>5. FoundIsGenuine'
    BY <2>4 DEF FoundIsGenuine
  <2>6. QED
    BY <2>2, <2>4, <2>5 DEF CheckInv
<1>4. CASE UNCHANGED vars
  BY <1>1, <1>4 DEF vars, erVars
<1>5. QED
  BY <1>1, <1>2, <1>3, <1>4, StepCases, QuietStepsTellNothing

\* CheckInv holds throughout.
LEMMA CheckInvariant == Spec => []CheckInv
<1>1. Init => CheckInv
  <2>1. ASSUME Init PROVE checked = 0 /\ sent = <<>>
    BY <2>1 DEF Init
  <2>2. QED
    BY <2>1 DEF CheckInv, FoundIsGenuine
<1>2. QED
  BY <1>1, StepCheckInv, OnceInvariant, AskInvariant, SupplyInvariant, PTL DEF Spec

\* A control word the client is sent was supplied by a reader of the request, with
\* double_check by two of them.
THEOREM SentWordIsGenuine == Spec => []FoundIsGenuine
<1>1. CheckInv => FoundIsGenuine
  BY DEF CheckInv
<1>2. QED
  BY <1>1, CheckInvariant, PTL

(***************************************************************************)
(* "Not found" is final: what chk_dcw has counted stays true until it has   *)
(* told the client, although it counts without holding all the locks.       *)
(***************************************************************************)

\* Only a reader that was asked has REQUEST_ANSWERED, in memory or in a copy.
AnsweredWasAsked ==
    /\ \A i \in Readers : "ANSWERED" \in status[i] => Asked(i)
    /\ \A t \in Threads : thr[t].pc = "clear" /\ "ANSWERED" \in thr[t].seen => Asked(thr[t].idx)

\* Reader i is withdrawn for good, or has answered without a control word.
Withdrawn(i) ==
    /\ "ACTIVE" \notin status[i]
    /\ \A t \in Threads : thr[t].pc = "record" /\ thr[t].ea = i => "ACTIVE" \notin thr[t].seen

Denied(i) == "ANSWERED" \in status[i] /\ Asked(i) /\ eaRc[i] # "FOUND" /\ EaFree(i)

\* Reader i has answered with a control word.
Held(i) == "ANSWERED" \in status[i] /\ Asked(i) /\ eaRc[i] = "FOUND" /\ EaFree(i)

Settled(i) == Withdrawn(i) \/ Denied(i)

\* chk_dcw has counted reader i in this job.
Scanned(i) == IF pc = "scan" THEN i < k ELSE pc = "decide" \/ ret = "chk_dcw"

FinalInv ==
    /\ AnsweredWasAsked
    /\ pc = "send" /\ ret = "chk_dcw" => "reader_left" \in left
    /\ "reader_left" \notin left => \A i \in Readers : Scanned(i) => Settled(i)
    /\ rc = "NOTFOUND" => \A i \in Readers : Settled(i)

\* A claim on an answer disturbs none of these.
LEMMA ClaimKeepsSettled ==
    ASSUME TypeInv, NEW t \in Threads, NEW j \in Readers, NEW v, WriteBegin(t, j, v),
           UNCHANGED <<status, eaRc, requests>>, NEW i \in Readers
    PROVE  (Withdrawn(i) => Withdrawn(i)') /\ (Denied(i) => Denied(i)') /\ (Held(i) => Held(i)')
<1>t. thr \in [Threads -> ThreadState]
  BY SharedTypes
<1>1. CASE UNCHANGED thr
  BY <1>1 DEF Withdrawn, Denied, Held, Asked, EaFree
<1>2. CASE ~UNCHANGED thr
  <2>1. "ANSWERED" \notin status[j]
    BY <1>t, <1>2, WriteBeginClaims
  <2>2. PICK s : /\ thr' = [thr EXCEPT ![t] = s]
                 /\ s.ea = j /\ s.idx = 1
                 /\ \/ /\ v.rc = "BADECM" /\ s.pc = "clear" /\ s.seen = status[1]
                       /\ s.verdict = [rc |-> "INVALID", cw |-> NoCw]
                    \/ v.rc # "BADECM" /\ s.pc = "record" /\ s.seen = status[j] /\ s.verdict = v
    BY <1>t, <1>2, WriteBeginClaims
  <2>3. \A u \in Threads : thr'[u] = IF u = t THEN s ELSE thr[u]
    BY <1>t, <2>2
  <2>4. s.pc = "record" => s.seen = status[j]
    BY <2>2
  <2>5. Withdrawn(i) => Withdrawn(i)'
    BY <2>2, <2>3, <2>4 DEF Withdrawn
  <2>6. Denied(i) => Denied(i)'
    BY <2>1, <2>2, <2>3 DEF Denied, Asked, EaFree
  <2>7. Held(i) => Held(i)'
    BY <2>1, <2>2, <2>3 DEF Held, Asked, EaFree
  <2>8. QED
    BY <2>5, <2>6, <2>7
<1>3. QED
  BY <1>1, <1>2

\* Steps that leave alone what Settled speaks of.
LEMMA OtherStepsKeepSettled ==
    ASSUME TypeInv, NEW i \in Readers,
           Aside \/ AskPick \/ TimeoutPick \/ TimeoutWrite
             \/ (\E j \in Readers : ReaderAnswer(j) \/ ReaderSilent(j)) \/ (\E t \in Threads : WritePost(t))
    PROVE  (Withdrawn(i) => Withdrawn(i)') /\ (Denied(i) => Denied(i)') /\ (Held(i) => Held(i)')
<1>t. /\ thr \in [Threads -> ThreadState] /\ Readers \subseteq Threads /\ Worker \in Threads
      /\ pc = "timeoutWrite" => k \in Readers
  BY SharedTypes
<1>1. CASE Aside \/ AskPick \/ TimeoutPick \/ \E j \in Readers : ReaderSilent(j)
  BY <1>1 DEF Aside, AskPick, TimeoutPick, ReaderSilent, eaVars, rdrVars, Withdrawn, Denied, Held, Asked, EaFree
<1>2. CASE TimeoutWrite
  <2>1. k \in Readers /\ WriteBegin(Worker, k, TimedOut) /\ UNCHANGED <<status, eaRc, requests>>
    BY <1>t, <1>2 DEF TimeoutWrite, eaVars, rdrVars
  <2>2. QED
    BY <1>t, <2>1, ClaimKeepsSettled
<1>3. ASSUME NEW j \in Readers, ReaderAnswer(j)
      PROVE  (Withdrawn(i) => Withdrawn(i)') /\ (Denied(i) => Denied(i)') /\ (Held(i) => Held(i)')
  <2>1. PICK v \in verdicts : WriteBegin(j, j, v)
    BY <1>3 DEF ReaderAnswer
  <2>2. UNCHANGED <<status, eaRc, requests>>
    BY <1>3 DEF ReaderAnswer, eaVars
  <2>3. QED
    BY <1>t, <2>1, <2>2, ClaimKeepsSettled
<1>4. ASSUME NEW t \in Threads, WritePost(t)
      PROVE  (Withdrawn(i) => Withdrawn(i)') /\ (Denied(i) => Denied(i)') /\ (Held(i) => Held(i)')
  <2>1. UNCHANGED <<status, eaRc, requests>> /\ \A u \in Threads : UNCHANGED (thr[u]) \/ thr'[u].pc = "out"
    BY <1>t, <1>4 DEF WritePost, eaVars, rdrVars, ThreadOut
  <2>2. QED
    BY <2>1 DEF Withdrawn, Denied, Held, Asked, EaFree
<1>5. QED
  BY <1>1, <1>2, <1>3, <1>4

\* Nobody brings a withdrawn reader back; only the worker, while it asks that
\* reader, writes a status word that could.
LEMMA WithdrawnKept ==
    ASSUME TypeInv, [Next]_vars, NEW i \in Readers, Withdrawn(i), AskSend => k # i
    PROVE  Withdrawn(i)'
<1>t. /\ thr \in [Threads -> ThreadState] /\ status \in [Readers -> SUBSET Flag]
      /\ \A t \in Threads : thr[t].ea \in Readers /\ thr[t].idx \in Readers
  BY SharedTypes
<1>1. CASE AskSend
  BY <1>1, <1>t DEF AskSend, Withdrawn
<1>2. ASSUME NEW t \in Threads, WriteClear(t) PROVE Withdrawn(i)'
  <2> DEFINE n == thr[t].idx
             s == IF n < NumReaders
                  THEN [thr[t] EXCEPT !.idx = n + 1, !.seen = status'[n + 1]]
                  ELSE [thr[t] EXCEPT !.pc = "record", !.idx = 1, !.seen = status'[thr[t].ea]]
  <2>1. /\ thr[t].pc = "clear" /\ status' = [status EXCEPT ![n] = thr[t].seen \ {"ACTIVE", "FALLBACK"}]
        /\ thr' = [thr EXCEPT ![t] = s]
    BY <1>2, <1>t DEF WriteClear
  <2>2. "ACTIVE" \notin status'[i]
    BY <1>t, <2>1 DEF Withdrawn
  <2>3. thr[t] \in ThreadState
    BY <1>t
  <2>4. s.pc = "record" => s.ea = thr[t].ea /\ s.seen = status'[s.ea]
    BY <2>1, <2>3 DEF ThreadState
  <2> HIDE DEF s
  <2>5. QED
    BY <1>t, <2>1, <2>2, <2>4 DEF Withdrawn
<1>3. ASSUME NEW t \in Threads, WriteRecord(t) PROVE Withdrawn(i)'
  <2> DEFINE s == [ThreadOut EXCEPT !.pc = "post", !.ea = thr[t].ea]
  <2>1. /\ thr[t].pc = "record" /\ status' = [status EXCEPT ![thr[t].ea] = thr[t].seen \cup {"ANSWERED"}]
        /\ thr' = [thr EXCEPT ![t] = s]
    BY <1>3 DEF WriteRecord
  <2>2. s.pc = "post"
    BY DEF ThreadOut
  <2> HIDE DEF s
  <2>3. QED
    BY <1>t, <2>1, <2>2 DEF Withdrawn
<1>4. QED
  BY <1>1, <1>2, <1>3, ReaderCases, OtherStepsKeepSettled

\* An answer that was recorded stays, unless a report of a bad checksum
\* overwrites the status word.
LEMMA DeniedKept ==
    ASSUME TypeInv, AskInv, [Next]_vars, NEW i \in Readers, ~\E t \in Threads : WriteClear(t)
    PROVE  (Denied(i) => Denied(i)') /\ (Held(i) => Held(i)')
<1>t. /\ thr \in [Threads -> ThreadState] /\ status \in [Readers -> SUBSET Flag]
      /\ eaRc \in [Readers -> Rc] /\ requests \in [Readers -> Nat]
      /\ \A t \in Threads : thr[t].ea \in Readers /\ thr[t].idx \in Readers
      /\ pc = "send" => k \in Readers
  BY SharedTypes
<1> DEFINE Goal == (Denied(i) => Denied(i)') /\ (Held(i) => Held(i)')
<1>a. CASE ~Denied(i) /\ ~Held(i)
  BY <1>a
<1>b. Denied(i) \/ Held(i) => "ANSWERED" \in status[i] /\ Asked(i) /\ EaFree(i)
  BY DEF Denied, Held
<1>1. CASE AskSend /\ (Denied(i) \/ Held(i))
  <2>1. k \in Readers /\ ~Asked(k) /\ UNCHANGED <<thr, eaRc>>
    BY <1>1, <1>t DEF AskSend, AskInv, CopiesShowAsked
  <2>2. k # i
    BY <1>1, <1>b, <2>1
  <2>3. status'[i] = status[i] /\ requests'[i] = requests[i]
    BY <1>1, <1>t, <2>2 DEF AskSend
  <2>4. QED
    BY <2>1, <2>3 DEF Denied, Held, Asked, EaFree
<1>2. ASSUME NEW t \in Threads, WriteRecord(t), Denied(i) \/ Held(i) PROVE Goal
  <2> DEFINE s == [ThreadOut EXCEPT !.pc = "post", !.ea = thr[t].ea]
  <2>1. /\ thr[t].pc = "record" /\ status' = [status EXCEPT ![thr[t].ea] = thr[t].seen \cup {"ANSWERED"}]
        /\ eaRc' = [eaRc EXCEPT ![thr[t].ea] = thr[t].verdict.rc]
        /\ thr' = [thr EXCEPT ![t] = s] /\ UNCHANGED requests
    BY <1>2 DEF WriteRecord, rdrVars
  <2>2. s.pc = "post"
    BY DEF ThreadOut
  <2> HIDE DEF s
  <2>3. thr[t].ea # i
    BY <1>2, <1>b, <2>1 DEF EaFree
  <2>4. QED
    BY <1>t, <2>1, <2>2, <2>3 DEF Denied, Held, Asked, EaFree
<1>3. QED
  BY <1>a, <1>1, <1>2, ReaderCases, OtherStepsKeepSettled

\* A report of a bad checksum may overwrite the status word, which withdraws the reader.
LEMMA ClearedIsWithdrawn ==
    ASSUME TypeInv, NEW t \in Threads, WriteClear(t), NEW i \in Readers, EaFree(i)
    PROVE  Withdrawn(i)' \/ (status'[i] = status[i] /\ EaFree(i)' /\ UNCHANGED <<eaRc, requests>>)
<1>t. /\ thr \in [Threads -> ThreadState] /\ status \in [Readers -> SUBSET Flag]
      /\ \A u \in Threads : thr[u].ea \in Readers /\ thr[u].idx \in Readers
  BY SharedTypes
<1>1. thr[t].pc = "clear" /\ UNCHANGED <<eaRc, requests>>
  BY DEF WriteClear, rdrVars
<1>2. /\ \A u \in Threads : u # t => thr'[u] = thr[u]
      /\ thr[t] \in ThreadState /\ thr'[t].ea = thr[t].ea
  BY <1>t DEF WriteClear, ThreadState
<1>3. status' = [status EXCEPT ![thr[t].idx] = thr[t].seen \ {"ACTIVE", "FALLBACK"}]
  BY DEF WriteClear
<1>4. EaFree(i)'
  BY <1>1, <1>2 DEF EaFree
<1>5. CASE thr[t].idx = i
  <2>1. "ACTIVE" \notin status'[i]
    BY <1>t, <1>3, <1>5
  <2>2. QED
    BY <1>4, <2>1 DEF EaFree, Withdrawn
<1>6. CASE thr[t].idx # i
  <2>1. status'[i] = status[i]
    BY <1>t, <1>3, <1>6
  <2>2. QED
    BY <1>1, <1>4, <2>1
<1>7. QED
  BY <1>5, <1>6

\* A settled reader stays settled.
LEMMA SettledKept ==
    ASSUME TypeInv, AskInv, [Next]_vars, NEW i \in Readers, Settled(i), AskSend => k # i
    PROVE  Settled(i)'
<1>1. ASSUME NEW t \in Threads, WriteClear(t), Denied(i) PROVE Settled(i)'
  BY <1>1, ClearedIsWithdrawn DEF Denied, Settled, Asked
<1>2. QED
  BY <1>1, WithdrawnKept, DeniedKept DEF Settled

\* A control word stays with the record that gave it, or the reader is withdrawn.
LEMMA HeldKept ==
    ASSUME TypeInv, AskInv, [Next]_vars, NEW i \in Readers, Held(i) \/ Withdrawn(i), AskSend => k # i
    PROVE  (Held(i) \/ Withdrawn(i))'
<1>1. ASSUME NEW t \in Threads, WriteClear(t), Held(i) PROVE (Held(i) \/ Withdrawn(i))'
  BY <1>1, ClearedIsWithdrawn DEF Held, Asked
<1>2. QED
  BY <1>1, WithdrawnKept, DeniedKept

\* AnsweredWasAsked is inductive, given the types and AskInv.
LEMMA StepAnsweredWasAsked == TypeInv /\ AskInv /\ AnsweredWasAsked /\ [Next]_vars => AnsweredWasAsked'
<1> SUFFICES ASSUME TypeInv, AskInv, AnsweredWasAsked, [Next]_vars PROVE AnsweredWasAsked'
  OBVIOUS
<1>t. /\ status \in [Readers -> SUBSET Flag] /\ thr \in [Threads -> ThreadState]
      /\ requests \in [Readers -> Nat]
      /\ \A t \in Threads : thr[t].ea \in Readers /\ thr[t].idx \in Readers
      /\ 1 \in Readers /\ Readers \subseteq Threads /\ Worker \in Threads
      /\ pc \in {"send", "timeoutWrite"} => k \in Readers
  BY SharedTypes
<1>0. ASSUME NEW t \in Threads, NEW i \in Readers, NEW v, WriteBegin(t, i, v), UNCHANGED <<status, requests>>
      PROVE  AnsweredWasAsked'
  <2>1. CASE UNCHANGED thr
    BY <1>0, <2>1 DEF AnsweredWasAsked, Asked
  <2>2. CASE ~UNCHANGED thr
    <3>1. PICK s : /\ thr' = [thr EXCEPT ![t] = s]
                   /\ s.ea = i /\ s.idx = 1
                   /\ \/ /\ v.rc = "BADECM" /\ s.pc = "clear" /\ s.seen = status[1]
                         /\ s.verdict = [rc |-> "INVALID", cw |-> NoCw]
                      \/ v.rc # "BADECM" /\ s.pc = "record" /\ s.seen = status[i] /\ s.verdict = v
      BY <1>0, <1>t, <2>2, WriteBeginClaims
    <3>2. s.pc = "clear" => s.seen = status[s.idx] /\ s.idx \in Readers
      BY <1>t, <3>1
    <3>3. QED
      BY <1>0, <1>t, <3>1, <3>2 DEF AnsweredWasAsked, Asked
  <2>3. QED
    BY <2>1, <2>2
<1>1. CASE Aside \/ AskPick \/ TimeoutPick \/ (\E i \in Readers : ReaderSilent(i)) \/ (\E t \in Threads : WritePost(t))
  <2>1. UNCHANGED <<status, requests>>
    BY <1>1 DEF Aside, AskPick, TimeoutPick, ReaderSilent, WritePost, eaVars, rdrVars
  <2>2. \A t \in Threads : UNCHANGED (thr[t]) \/ thr'[t].pc = "out"
    BY <1>1, <1>t DEF Aside, AskPick, TimeoutPick, ReaderSilent, WritePost, ThreadOut
  <2>3. QED
    BY <2>1, <2>2 DEF AnsweredWasAsked, Asked
<1>2. CASE AskSend
  <2>1. k \in Readers /\ requests' = [requests EXCEPT ![k] = @ + 1] /\ UNCHANGED thr
    BY <1>2, <1>t DEF AskSend
  <2>2. PICK old : status' = [status EXCEPT ![k] = old \cup {"SENT"}]
    BY <1>2 DEF AskSend
  <2>3. requests'[k] = requests[k] + 1 /\ requests[k] \in Nat
    BY <1>t, <2>1
  <2>4. \A i \in Readers : i # k => status'[i] = status[i] /\ requests'[i] = requests[i]
    BY <1>t, <2>1, <2>2
  <2>5. requests'[k] # 0 /\ \A i \in Readers : requests[i] # 0 => requests'[i] # 0
    BY <2>3, <2>4
  <2>6. QED
    BY <1>t, <2>1, <2>4, <2>5 DEF AnsweredWasAsked, Asked
<1>3. CASE TimeoutWrite \/ \E i \in Readers : ReaderAnswer(i)
  BY <1>0, <1>3, <1>t DEF TimeoutWrite, ReaderAnswer, eaVars, rdrVars
<1>4. ASSUME NEW t \in Threads, WriteClear(t) PROVE AnsweredWasAsked'
  <2> DEFINE n == thr[t].idx
             s == IF n < NumReaders
                  THEN [thr[t] EXCEPT !.idx = n + 1, !.seen = status'[n + 1]]
                  ELSE [thr[t] EXCEPT !.pc = "record", !.idx = 1, !.seen = status'[thr[t].ea]]
  <2>1. /\ thr[t].pc = "clear" /\ status' = [status EXCEPT ![n] = thr[t].seen \ {"ACTIVE", "FALLBACK"}]
        /\ thr' = [thr EXCEPT ![t] = s] /\ UNCHANGED requests
    BY <1>4, <1>t DEF WriteClear, rdrVars
  <2>2. thr[t] \in ThreadState /\ n \in Readers
    BY <1>t
  <2>3. \A i \in Readers : "ANSWERED" \in status'[i] => Asked(i)
    BY <1>t, <2>1 DEF AnsweredWasAsked
  <2>4. s.pc = "clear" => s.idx \in Readers /\ s.seen = status'[s.idx]
    BY <2>1, <2>2, NumReadersAssumption DEF ThreadState, Readers
  <2> HIDE DEF s
  <2>5. QED
    BY <1>t, <2>1, <2>3, <2>4 DEF AnsweredWasAsked, Asked
<1>5. ASSUME NEW t \in Threads, WriteRecord(t) PROVE AnsweredWasAsked'
  <2> DEFINE s == [ThreadOut EXCEPT !.pc = "post", !.ea = thr[t].ea]
  <2>1. /\ thr[t].pc = "record" /\ status' = [status EXCEPT ![thr[t].ea] = thr[t].seen \cup {"ANSWERED"}]
        /\ thr' = [thr EXCEPT ![t] = s] /\ UNCHANGED requests
    BY <1>5 DEF WriteRecord, rdrVars
  <2>2. s.pc = "post"
    BY DEF ThreadOut
  <2>3. Asked(thr[t].ea)
    BY <2>1 DEF AskInv, CopiesShowAsked, Writing
  <2> HIDE DEF s
  <2>4. QED
    BY <1>t, <2>1, <2>2, <2>3 DEF AnsweredWasAsked, Asked
<1>6. QED
  BY <1>1, <1>2, <1>3, <1>4, <1>5, ReaderCases

\* A reader is counted by Scan, and then for as long as the job lasts.
LEMMA ScannedSteps ==
    ASSUME TypeInv, [Next]_vars, NEW i \in Readers, Scanned(i)', "reader_left" \notin left'
    PROVE  (Scanned(i) /\ "reader_left" \notin left) \/ (Scan /\ i = k)
<1>t. k \in Nat /\ NumReaders \in Nat /\ i \in 1..NumReaders /\ i \in Nat
  BY NumReadersAssumption DEF TypeInv, TypeOK, WorkerOK, Readers
<1>1. CASE UNCHANGED <<pc, k, ret, left>>
  BY <1>1 DEF Scanned
<1>2. CASE JobDone
  BY <1>2 DEF JobDone, Scanned
<1>3. CASE RequestEnter \/ StageLoad \/ StageStore \/ AskSkip \/ AskPick \/ AskSend \/ AskDone
  BY <1>3 DEF RequestEnter, StageLoad, StageStore, AskSkip, AskPick, AskSend, AskDone, Scanned
<1>4. CASE RequestReturn /\ ~JobDone
  BY <1>4 DEF RequestReturn, Scanned, locals
<1>5. CASE Scan
  <2>1. pc = "scan" /\ pc' = "scan" /\ k' = k + 1 /\ left \subseteq left'
    BY <1>5 DEF Scan
  <2>2. i < k + 1
    BY <2>1 DEF Scanned
  <2>3. QED
    BY <1>5, <1>t, <2>1, <2>2 DEF Scanned
<1>6. CASE ScanDone
  BY <1>6, <1>t DEF ScanDone, Scanned
<1>7. CASE ChkDcwNotFound
  BY <1>7, <1>t DEF ChkDcwNotFound, Scanned
<1>8. CASE FallbackTimeout
  BY <1>8 DEF FallbackTimeout, TakeJob, Scanned
<1>9. CASE EcmTimeout \/ TimeoutSkip \/ TimeoutPick \/ TimeoutWrite \/ TimeoutLate
  BY <1>9 DEF EcmTimeout, TakeJob, TimeoutSkip, TimeoutPick, TimeoutWrite, TimeoutLate, Scanned, locals
<1>10. CASE ChkDcwIgnore \/ ChkDcwFound \/ TimerStep \/ (\E t \in Threads : WriteStep(t))
              \/ (\E j \in Readers : ReaderAnswer(j) \/ ReaderSilent(j)) \/ UNCHANGED vars
  BY <1>1, <1>10 DEF ChkDcwIgnore, ChkDcwFound, TimerStep, PostFallback, PostTimeout, Post, WriteStep, WriteClear,
     WriteRecord, WritePost, ReaderAnswer, ReaderSilent, vars, locals
<1>11. CASE DecideWait \/ DecideNotFound \/ TimeoutDone
  BY <1>2, <1>11 DEF DecideWait, DecideNotFound, TimeoutDone
<1>12. QED
  BY <1>2, <1>3, <1>4, <1>5, <1>6, <1>7, <1>8, <1>9, <1>10, <1>11
     DEF Next, WorkerStep, RequestStep, ChkDcwStep, TimeoutStep

\* What Scan does not count in reader_left is settled.
LEMMA ScanFindsSettled ==
    ASSUME TypeInv, AnsweredWasAsked, Scan, "reader_left" \notin left'
    PROVE  Settled(k)
<1>1. k \in Readers /\ EaFree(k) /\ "reader_left" \notin CountsFor(status[k], eaRc[k])
  BY DEF Scan
<1>2. eaRc[k] # "FOUND" /\ ("ACTIVE" \in status[k] => "ANSWERED" \in status[k])
  BY <1>1 DEF CountsFor, Counter
<1>3. QED
  BY <1>1, <1>2 DEF Settled, Withdrawn, Denied, AnsweredWasAsked, EaFree

\* The worker asks further readers from chk_dcw only while some are left.
LEMMA StepAskedLeft ==
    ASSUME TypeInv, AskInv, FinalInv, [Next]_vars, pc' = "send", ret' = "chk_dcw"
    PROVE  "reader_left" \in left'
<1>1. CASE AskPick
  <2>1. k \in Readers /\ "ACTIVE" \in status[k] /\ "SENT" \notin status[k] /\ UNCHANGED <<ret, left>> /\ pc = "ask"
    BY <1>1 DEF AskPick, Eligible
  <2>2. ~Asked(k)
    BY <2>1 DEF AskInv, StatusShowsAsked
  <2>3. ~Settled(k)
    BY <2>1, <2>2 DEF Settled, Withdrawn, Denied
  <2>4. Scanned(k)
    BY <2>1 DEF Scanned
  <2>5. QED
    BY <2>1, <2>3, <2>4 DEF FinalInv
<1>2. CASE ~AskPick
  <2>1. CASE UNCHANGED <<pc, ret, left>>
    BY <2>1 DEF FinalInv
  <2>2. CASE UNCHANGED vars \/ TimerStep \/ (\E t \in Threads : WriteStep(t))
              \/ (\E j \in Readers : ReaderAnswer(j) \/ ReaderSilent(j))
    BY <2>1, <2>2 DEF TimerStep, PostFallback, PostTimeout, Post, WriteStep, WriteClear,
       WriteRecord, WritePost, ReaderAnswer, ReaderSilent, vars, locals
  <2>3. CASE RequestStep
    BY <2>3, <1>2 DEF RequestStep, RequestEnter, StageLoad, StageStore, AskSkip, AskSend, AskDone, RequestReturn, JobDone
  <2>4. CASE ChkDcwStep
    BY <2>4, <2>1 DEF ChkDcwStep, ChkDcwIgnore, ChkDcwFound, ChkDcwNotFound, Scan, ScanDone, DecideWait,
       DecideNotFound, JobDone, locals
  <2>5. CASE TimeoutStep
    BY <2>5 DEF TimeoutStep, FallbackTimeout, EcmTimeout, TakeJob, TimeoutSkip, TimeoutPick, TimeoutWrite,
       TimeoutLate, TimeoutDone, JobDone
  <2>6. QED
    BY <2>2, <2>3, <2>4, <2>5 DEF Next, WorkerStep
<1>3. QED
  BY <1>1, <1>2

\* FinalInv is inductive, given what is known of the answer and the readers.
LEMMA StepFinalInv == OnceInv /\ AskInv /\ FinalInv /\ [Next]_vars => FinalInv'
<1> SUFFICES ASSUME OnceInv, AskInv, FinalInv, [Next]_vars PROVE FinalInv'
  OBVIOUS
<1>t. TypeInv /\ BusyMeansUnanswered /\ AnsweredWasAsked
  BY DEF OnceInv, FinalInv
<1>1. AnsweredWasAsked'
  BY <1>t, StepAnsweredWasAsked
<1>2. pc' = "send" /\ ret' = "chk_dcw" => "reader_left" \in left'
  BY <1>t, StepAskedLeft
<1>3. ASSUME NEW i \in Readers, Scanned(i), "reader_left" \notin left PROVE Settled(i)'
  <2>1. ~AskSend
    BY <1>3 DEF AskSend, Scanned, FinalInv
  <2>2. Settled(i)
    BY <1>3 DEF FinalInv
  <2>3. QED
    BY <1>t, <2>1, <2>2, SettledKept
<1>4. ASSUME Scan, "reader_left" \notin left', NEW i \in Readers, i = k PROVE Settled(i)'
  <2>1. ~AskSend
    BY <1>4 DEF Scan, AskSend
  <2>2. Settled(i)
    BY <1>t, <1>4, ScanFindsSettled
  <2>3. QED
    BY <1>t, <2>1, <2>2, SettledKept
<1>5. ASSUME "reader_left" \notin left', NEW i \in Readers, Scanned(i)' PROVE Settled(i)'
  BY <1>t, <1>3, <1>4, <1>5, ScannedSteps
<1>6. ASSUME rc' = "NOTFOUND", NEW i \in Readers PROVE Settled(i)'
  <2>1. CASE rc = "NOTFOUND"
    <3>1. ~AskSend
      BY <1>t, <2>1 DEF AskSend, BusyMeansUnanswered, Answered
    <3>2. QED
      BY <1>t, <2>1, <3>1, SettledKept DEF FinalInv
  <2>2. CASE DecideNotFound
    BY <1>3, <2>2 DEF DecideNotFound, Scanned
  <2>3. CASE rc # "NOTFOUND" /\ ~DecideNotFound
    <3>1. rc' = rc \/ ChkDcwFound \/ TimeoutDone
      BY <2>3, StepCases, QuietStepsTellNothing DEF vars, erVars
    <3>2. ChkDcwFound \/ TimeoutDone => rc' # "NOTFOUND"
      BY DEF ChkDcwFound, TimeoutDone, SendDcw
    <3>3. QED
      BY <1>6, <2>3, <3>1, <3>2
  <2>4. QED
    BY <2>1, <2>2, <2>3
<1>7. QED
  BY <1>1, <1>2, <1>5, <1>6 DEF FinalInv

\* FinalInv holds throughout.
LEMMA FinalInvariant == Spec => []FinalInv
<1>1. Init => FinalInv
  <2> SUFFICES ASSUME Init PROVE FinalInv
    OBVIOUS
  <2>1. PICK s \in Setups : status = s.status
    BY DEF Init
  <2>2. \A i \in Readers : "ANSWERED" \notin status[i]
    BY <2>1, SetupAssumption DEF Setup
  <2>3. thr = [t \in Threads |-> ThreadOut] /\ ThreadOut.pc = "out"
    BY DEF Init, ThreadOut
  <2>4. \A t \in Threads : thr[t].pc = "out"
    BY <2>3
  <2>5. pc = "enter" /\ ret = "idle" /\ rc = "UNHANDLED"
    BY DEF Init
  <2>6. QED
    BY <2>2, <2>4, <2>5 DEF FinalInv, AnsweredWasAsked, Scanned
<1>2. QED
  BY <1>1, StepFinalInv, OnceInvariant, AskInvariant, PTL DEF Spec

\* When the client is told "not found", no active reader is still to answer and
\* none has answered with a control word, although answers keep coming in while
\* chk_dcw counts.
THEOREM NotFoundOnlyAtTheEnd == Spec => []NotFoundIsFinal
<1>1. FinalInv => NotFoundIsFinal
  BY DEF FinalInv, NotFoundIsFinal, Settled, Withdrawn, Denied
<1>2. QED
  BY <1>1, FinalInvariant, PTL

(***************************************************************************)
(* The promise: every step of the request is one that EcmAnswer allows.     *)
(***************************************************************************)
RepliedInv ==
    /\ \A t \in Threads : Writing(t) => thr[t].verdict \in Verdict
    /\ \A i \in Readers : "ANSWERED" \in status[i] => eaRc[i] # "UNHANDLED"
    /\ pc = "send" /\ "ANSWERED" \in seen => eaRc[k] # "UNHANDLED"
    /\ \A t \in Threads : thr[t].pc = "clear" /\ "ANSWERED" \in thr[t].seen => eaRc[thr[t].idx] # "UNHANDLED"

\* A control word that was supplied can be overruled by a later record only for a
\* reader that a bad checksum has withdrawn.
OfferInv == \A i \in Readers : eaCw[i] # NoCw => Held(i) \/ Withdrawn(i)

\* A claim on an answer: the thread gets a verdict, and a copy of a status word.
LEMMA ClaimRepliedInv ==
    ASSUME TypeInv, RepliedInv, NEW t \in Threads, NEW i \in Readers, NEW v \in Verdict, WriteBegin(t, i, v),
           UNCHANGED <<status, eaRc>>, pc' # "send"  \/ UNCHANGED <<pc, k, seen>>
    PROVE  RepliedInv'
<1>t. thr \in [Threads -> ThreadState] /\ 1 \in Readers
  BY SharedTypes
<1>1. CASE UNCHANGED thr
  BY <1>1 DEF RepliedInv, Writing
<1>2. CASE ~UNCHANGED thr
  <2>1. PICK s : /\ thr' = [thr EXCEPT ![t] = s]
                 /\ s.ea = i /\ s.idx = 1
                 /\ \/ /\ v.rc = "BADECM" /\ s.pc = "clear" /\ s.seen = status[1]
                       /\ s.verdict = [rc |-> "INVALID", cw |-> NoCw]
                    \/ v.rc # "BADECM" /\ s.pc = "record" /\ s.seen = status[i] /\ s.verdict = v
    BY <1>t, <1>2, WriteBeginClaims
  <2>2. \A u \in Threads : thr'[u] = IF u = t THEN s ELSE thr[u]
    BY <1>t, <2>1
  <2>3. s.verdict \in Verdict
    BY <2>1 DEF Verdict
  <2>4. s.pc = "clear" => s.seen = status[s.idx] /\ s.idx \in Readers
    BY <1>t, <2>1
  <2>5. QED
    BY <2>2, <2>3, <2>4 DEF RepliedInv, Writing
<1>3. QED
  BY <1>1, <1>2

\* RepliedInv is inductive, given the types and AskInv.
LEMMA StepRepliedInv == TypeInv /\ AskInv /\ RepliedInv /\ [Next]_vars => RepliedInv'
<1> SUFFICES ASSUME TypeInv, AskInv, RepliedInv, [Next]_vars PROVE RepliedInv'
  OBVIOUS
<1>t. /\ status \in [Readers -> SUBSET Flag] /\ thr \in [Threads -> ThreadState]
      /\ eaRc \in [Readers -> Rc]
      /\ \A t \in Threads : thr[t].ea \in Readers /\ thr[t].idx \in Readers
      /\ Readers \subseteq Threads /\ Worker \in Threads
      /\ pc \in {"send", "timeoutWrite"} => k \in Readers
  BY SharedTypes
<1>1. CASE Aside \/ AskPick \/ TimeoutPick \/ (\E i \in Readers : ReaderSilent(i)) \/ (\E t \in Threads : WritePost(t))
  <2>1. UNCHANGED <<status, eaRc>>
    BY <1>1 DEF Aside, AskPick, TimeoutPick, ReaderSilent, WritePost, eaVars
  <2>2. \A t \in Threads : UNCHANGED (thr[t]) \/ thr'[t].pc = "out"
    BY <1>1, <1>t DEF Aside, AskPick, TimeoutPick, ReaderSilent, WritePost, ThreadOut
  <2>3. pc' = "send" => UNCHANGED <<pc, k, seen>> \/ (k' \in Readers /\ seen' = status[k'])
    BY <1>1 DEF Aside, AskPick, TimeoutPick, ReaderSilent, WritePost, locals
  <2>4. QED
    BY <2>1, <2>2, <2>3 DEF RepliedInv, Writing
<1>2. CASE AskSend
  <2>1. k \in Readers /\ UNCHANGED <<thr, eaRc>> /\ pc' # "send"
    BY <1>2, <1>t DEF AskSend
  <2>2. PICK old \in {seen, status[k]} : status' = [status EXCEPT ![k] = old \cup {"SENT"}]
    BY <1>2 DEF AskSend
  <2>3. "ANSWERED" \in old => eaRc[k] # "UNHANDLED"
    BY <1>2, <2>1 DEF AskSend, RepliedInv
  <2>4. \A i \in Readers : "ANSWERED" \in status'[i] => eaRc[i] # "UNHANDLED"
    BY <1>t, <2>1, <2>2, <2>3 DEF RepliedInv
  <2>5. QED
    BY <2>1, <2>4 DEF RepliedInv, Writing
<1>3. CASE TimeoutWrite
  <2>1. k \in Readers /\ WriteBegin(Worker, k, TimedOut) /\ UNCHANGED <<status, eaRc>> /\ pc' # "send"
    BY <1>3, <1>t DEF TimeoutWrite, eaVars
  <2>2. TimedOut \in Verdict
    BY DEF TimedOut, Verdict
  <2>3. QED
    BY <1>t, <2>1, <2>2, ClaimRepliedInv
<1>4. ASSUME NEW i \in Readers, ReaderAnswer(i) PROVE RepliedInv'
  <2>1. PICK v \in verdicts : WriteBegin(i, i, v)
    BY <1>4 DEF ReaderAnswer
  <2>2. UNCHANGED <<status, eaRc, pc, k, seen>> /\ v \in Verdict
    BY <1>4 DEF ReaderAnswer, eaVars, locals, TypeInv, TypeOK, ConfigOK
  <2>3. QED
    BY <1>t, <2>1, <2>2, ClaimRepliedInv
<1>5. ASSUME NEW t \in Threads, WriteClear(t) PROVE RepliedInv'
  <2> DEFINE n == thr[t].idx
             s == IF n < NumReaders
                  THEN [thr[t] EXCEPT !.idx = n + 1, !.seen = status'[n + 1]]
                  ELSE [thr[t] EXCEPT !.pc = "record", !.idx = 1, !.seen = status'[thr[t].ea]]
  <2>1. /\ thr[t].pc = "clear" /\ status' = [status EXCEPT ![n] = thr[t].seen \ {"ACTIVE", "FALLBACK"}]
        /\ thr' = [thr EXCEPT ![t] = s] /\ UNCHANGED <<eaRc, pc, k, seen>>
    BY <1>5, <1>t DEF WriteClear, locals
  <2>2. thr[t] \in ThreadState /\ n \in Readers
    BY <1>t
  <2>3. \A i \in Readers : "ANSWERED" \in status'[i] => eaRc[i] # "UNHANDLED"
    BY <1>t, <2>1 DEF RepliedInv
  <2>4. s.pc = "clear" => s.idx \in Readers /\ s.seen = status'[s.idx]
    BY <2>1, <2>2, NumReadersAssumption DEF ThreadState, Readers
  <2>5. s.verdict = thr[t].verdict /\ Writing(t)
    BY <2>1, <2>2 DEF ThreadState, Writing
  <2> HIDE DEF s
  <2>6. \A u \in Threads : thr'[u] = IF u = t THEN s ELSE thr[u]
    BY <1>t, <2>1
  <2>7. QED
    BY <2>1, <2>3, <2>4, <2>5, <2>6 DEF RepliedInv, Writing
<1>6. ASSUME NEW t \in Threads, WriteRecord(t) PROVE RepliedInv'
  <2> DEFINE s == [ThreadOut EXCEPT !.pc = "post", !.ea = thr[t].ea]
             i == thr[t].ea
  <2>1. /\ thr[t].pc = "record" /\ status' = [status EXCEPT ![i] = thr[t].seen \cup {"ANSWERED"}]
        /\ eaRc' = [eaRc EXCEPT ![i] = thr[t].verdict.rc]
        /\ thr' = [thr EXCEPT ![t] = s] /\ UNCHANGED <<pc, k, seen>>
    BY <1>6 DEF WriteRecord, locals
  <2>2. s.pc = "post"
    BY DEF ThreadOut
  <2>3. thr[t].verdict.rc # "UNHANDLED"
    BY <2>1 DEF RepliedInv, Writing, Verdict
  <2> HIDE DEF s
  <2>4. \A u \in Threads : Writing(u)' => u # t /\ thr'[u] = thr[u]
    BY <1>t, <2>1, <2>2 DEF Writing
  <2>5. \A j \in Readers : eaRc[j] # "UNHANDLED" => eaRc'[j] # "UNHANDLED"
    BY <1>t, <2>1, <2>3
  <2>6. \A j \in Readers : "ANSWERED" \in status'[j] => eaRc'[j] # "UNHANDLED"
    BY <1>t, <2>1, <2>3 DEF RepliedInv
  <2>7. QED
    BY <1>t, <2>1, <2>4, <2>5, <2>6 DEF RepliedInv, Writing
<1>7. QED
  BY <1>1, <1>2, <1>3, <1>4, <1>5, <1>6, ReaderCases

\* A control word comes with the record that gives it, and stays with it.
LEMMA StepOfferInv ==
    TypeInv /\ AskInv /\ RecordInv /\ SupplyInv /\ RepliedInv /\ OfferInv /\ [Next]_vars => OfferInv'
<1> SUFFICES ASSUME TypeInv, AskInv, RecordInv, SupplyInv, RepliedInv, OfferInv, [Next]_vars,
                    NEW i \in Readers, eaCw'[i] # NoCw
             PROVE  (Held(i) \/ Withdrawn(i))'
  BY DEF OfferInv
<1>t. /\ thr \in [Threads -> ThreadState] /\ status \in [Readers -> SUBSET Flag]
      /\ eaRc \in [Readers -> Rc] /\ eaCw \in [Readers -> CWs \cup {NoCw}]
      /\ \A t \in Threads : thr[t].ea \in Readers
      /\ pc = "send" => k \in Readers
  BY SharedTypes
<1>1. CASE eaCw[i] # NoCw
  <2>1. Asked(i) /\ (Held(i) \/ Withdrawn(i))
    BY <1>1 DEF SupplyInv, OfferInv
  <2>2. AskSend => k # i
    BY <2>1 DEF AskSend, AskInv, CopiesShowAsked
  <2>3. QED
    BY <2>1, <2>2, HeldKept
<1>2. CASE eaCw[i] = NoCw
  <2>1. ~UNCHANGED eaCw
    BY <1>2
  <2>2. PICK t \in Threads : WriteRecord(t)
    BY <2>1, ReaderCases DEF Aside, AskPick, AskSend, TimeoutPick, TimeoutWrite, ReaderAnswer, ReaderSilent,
       WriteClear, WritePost, eaVars
  <2> DEFINE s == [ThreadOut EXCEPT !.pc = "post", !.ea = thr[t].ea]
             v == thr[t].verdict
  <2>3. /\ thr[t].pc = "record" /\ status' = [status EXCEPT ![thr[t].ea] = thr[t].seen \cup {"ANSWERED"}]
        /\ eaRc' = [eaRc EXCEPT ![thr[t].ea] = v.rc]
        /\ eaCw' = IF v.cw = NoCw THEN eaCw ELSE [eaCw EXCEPT ![thr[t].ea] = v.cw]
        /\ thr' = [thr EXCEPT ![t] = s] /\ UNCHANGED requests
    BY <2>2 DEF WriteRecord, rdrVars
  <2>4. s.pc = "post"
    BY DEF ThreadOut
  <2> HIDE DEF s
  <2>5. thr[t].ea = i /\ v.cw # NoCw
    BY <1>t, <1>2, <2>3
  <2>6. v.rc = "FOUND"
    BY <2>3, <2>5 DEF RepliedInv, Writing, Verdict
  <2>7. "ANSWERED" \in status'[i] /\ eaRc'[i] = "FOUND"
    BY <1>t, <2>3, <2>5, <2>6
  <2>8. Asked(i)'
    BY <2>3, <2>5 DEF AskInv, CopiesShowAsked, Writing, Asked
  <2>9. EaFree(i)'
    <3>1. \A u \in Threads : u # t /\ Writing(u) => thr[u].ea # i
      BY <2>3, <2>5 DEF RecordInv, Writing
    <3>2. QED
      BY <1>t, <2>3, <2>4, <3>1 DEF EaFree, Writing
  <2>10. QED
    BY <2>7, <2>8, <2>9 DEF Held
<1>3. QED
  BY <1>1, <1>2

\* RepliedInv and OfferInv hold throughout.
LEMMA OfferInvariant == Spec => [](RepliedInv /\ OfferInv)
<1>1. Init => RepliedInv /\ OfferInv
  <2> SUFFICES ASSUME Init PROVE RepliedInv /\ OfferInv
    OBVIOUS
  <2>1. PICK s \in Setups : status = s.status
    BY DEF Init
  <2>2. \A i \in Readers : "ANSWERED" \notin status[i]
    BY <2>1, SetupAssumption DEF Setup
  <2>3. thr = [t \in Threads |-> ThreadOut] /\ ThreadOut.pc = "out" /\ pc = "enter"
        /\ eaCw = [i \in Readers |-> NoCw]
    BY DEF Init, ThreadOut
  <2>4. QED
    BY <2>2, <2>3 DEF RepliedInv, OfferInv, Writing
<1>2. OnceInv => TypeInv
  BY DEF OnceInv
<1>3. QED
  BY <1>1, <1>2, StepRepliedInv, StepOfferInv, OnceInvariant, AskInvariant, RecordInvariant, SupplyInvariant, PTL
     DEF Spec

\* The readers EcmAnswer speaks of.
Active(i) == "ACTIVE" \in status[i]
ActiveReaders == {i \in Readers : Active(i)}
RepliedReaders == {i \in Readers : eaRc[i] # "UNHANDLED"}

\* write_ecm_answer records that the reader has answered, with a control word or without.
LEMMA RecordReplies ==
    ASSUME TypeInv, AskInv, SupplyInv, RepliedInv, NEW t \in Threads, WriteRecord(t), UNCHANGED double
    PROVE  [Promise!AbsNext]_(Promise!absVars)
<1>t. /\ thr \in [Threads -> ThreadState]
      /\ status \in [Readers -> SUBSET Flag] /\ eaRc \in [Readers -> Rc]
  BY SharedTypes
<1>i. PICK i \in Readers, c \in CWs \cup {NoCw} : i = thr[t].ea /\ c = thr[t].verdict.cw
  BY <1>t DEF ThreadState
<1>1. /\ thr[t].pc = "record" /\ eaCw' = (IF c = NoCw THEN eaCw ELSE [eaCw EXCEPT ![i] = c]) /\ UNCHANGED sent
      /\ status' = [status EXCEPT ![i] = thr[t].seen \cup {"ANSWERED"}]
      /\ eaRc' = [eaRc EXCEPT ![i] = thr[t].verdict.rc]
  BY <1>i DEF WriteRecord
<1>2. eaCw[i] = NoCw \/ c = NoCw
  BY <1>i, <1>1, WorkerOrReader DEF SupplyInv, Writing
<1>3. thr[t].verdict.rc # "UNHANDLED"
  BY <1>1 DEF RepliedInv, Writing, Verdict
<1>4. RepliedReaders' = RepliedReaders \cup {i}
  BY <1>t, <1>1, <1>3 DEF RepliedReaders
<1>5. ActiveReaders' \ {i} = ActiveReaders \ {i} /\ ActiveReaders' \subseteq Readers
  BY <1>t, <1>1 DEF ActiveReaders, Active
<1>6. Promise!Reply(i, c)
  BY <1>1, <1>2, <1>4, <1>5 DEF Promise!Reply, Promise!Regroup, RepliedReaders, ActiveReaders, Active
<1>7. QED
  BY <1>6 DEF Promise!AbsNext

\* A reader is asked, or withdrawn for a bad checksum.
LEMMA RegroupPromised ==
    ASSUME TypeInv, AskSend \/ \E t \in Threads : WriteClear(t), UNCHANGED double
    PROVE  [Promise!AbsNext]_(Promise!absVars)
<1>t. /\ status \in [Readers -> SUBSET Flag] /\ \A t \in Threads : thr[t].idx \in Readers
      /\ pc = "send" => k \in Readers
  BY SharedTypes
<1>1. PICK i \in Readers : \E bits : status' = [status EXCEPT ![i] = bits]
  BY <1>t DEF AskSend, WriteClear
<1>2. UNCHANGED <<eaRc, eaCw, sent>>
  BY DEF AskSend, WriteClear
<1>3. ActiveReaders' \ {i} = ActiveReaders \ {i} /\ ActiveReaders' \subseteq Readers
  BY <1>t, <1>1 DEF ActiveReaders, Active
<1>4. Promise!Withdraw(i)
  BY <1>2, <1>3 DEF Promise!Withdraw, Promise!Regroup, ActiveReaders, Active
<1>5. QED
  BY <1>4 DEF Promise!AbsNext

\* send_dcw for an unanswered request holds the word back or keeps the promise.
LEMMA SendDcwPromised ==
    ASSUME AnsweredOnce, ~Answered, CheckInv, TypeInv, UNCHANGED <<double, eaCw, eaRc, status>>,
           NEW answer \in {"FOUND", "NOTFOUND", "TIMEOUT"}, NEW from, NEW cw, SendDcw(answer, cw, from),
           answer = "FOUND" => from \in Readers /\ cw = eaCw[from] /\ cw \in CWs,
           answer # "FOUND" => cw = NoCw,
           answer = "NOTFOUND" => Promise!NothingToCome
    PROVE  [Promise!AbsNext]_(Promise!absVars)
<1>1. sent = <<>> /\ checked \in {0, 1}
  BY DEF AnsweredOnce, TypeInv, TypeOK, RequestOK, PcFacts
<1>2. Append(sent, [rc |-> answer, cw |-> cw]) = <<[rc |-> answer, cw |-> cw]>>
  BY <1>1
<1>a. ASSUME NEW a, sent' = <<a>> PROVE Promise!Tell(a)
  BY <1>1, <1>a DEF Promise!Tell
<1>3. CASE answer = "NOTFOUND"
  <2>1. Promise!Tell([rc |-> "NOTFOUND", cw |-> NoCw])
    BY <1>2, <1>3, <1>a DEF SendDcw
  <2>2. QED
    BY <1>3, <2>1 DEF Promise!TellNotFound, Promise!AnyAnswer, Promise!AbsNext
<1>4. CASE answer = "TIMEOUT"
  <2>1. Promise!Tell([rc |-> "TIMEOUT", cw |-> NoCw])
    BY <1>2, <1>4, <1>a DEF SendDcw
  <2>2. QED
    BY <2>1 DEF Promise!TellTimeout, Promise!AnyAnswer, Promise!AbsNext
<1>5. CASE answer = "FOUND" /\ sent' = sent
  BY <1>5 DEF Promise!absVars
<1>6. CASE answer = "FOUND" /\ sent' # sent
  <2>1. sent' = <<[rc |-> "FOUND", cw |-> cw]>>
    BY <1>1, <1>2, <1>6 DEF SendDcw
  <2>2. double => checked = 1 /\ from # origin /\ cw = cwChecked
    BY <1>1, <1>6 DEF SendDcw
  <2>3. double => origin \in Readers /\ eaCw[origin] = cw
    BY <2>2 DEF CheckInv
  <2>4. Promise!Supplied(cw)
    BY <1>6, <2>2, <2>3 DEF Promise!Supplied
  <2>5. Promise!TellFound(cw)
    BY <1>a, <2>1, <2>4 DEF Promise!TellFound
  <2>6. QED
    BY <1>6, <2>5 DEF Promise!AnyAnswer, Promise!AbsNext
<1>7. QED
  BY <1>3, <1>4, <1>5, <1>6

\* When chk_dcw has counted no reader as left, nothing is to come.
LEMMA DecidedOnNothing ==
    ASSUME TypeInv, FinalInv, RepliedInv, OfferInv, pc = "decide", "reader_left" \notin left
    PROVE  Promise!NothingToCome
<1> SUFFICES ASSUME NEW i \in Readers, Active(i) PROVE eaRc[i] # "UNHANDLED" /\ eaCw[i] = NoCw
  BY DEF Promise!NothingToCome, Active
<1>1. Denied(i)
  BY DEF FinalInv, Scanned, Settled, Withdrawn, Active
<1>2. eaRc[i] # "UNHANDLED"
  BY <1>1 DEF Denied, RepliedInv
<1>3. ~Held(i) /\ ~Withdrawn(i)
  BY <1>1 DEF Denied, Held, Withdrawn, Active
<1>4. QED
  BY <1>2, <1>3 DEF OfferInv

\* Every step of the request is one of the promise, or none.
LEMMA StepPromised ==
    OnceInv /\ AskInv /\ SupplyInv /\ CheckInv /\ FinalInv /\ RepliedInv /\ OfferInv /\ [Next]_vars
      => [Promise!AbsNext]_(Promise!absVars)
<1> SUFFICES ASSUME OnceInv, AskInv, SupplyInv, CheckInv, FinalInv, RepliedInv, OfferInv, [Next]_vars
             PROVE  [Promise!AbsNext]_(Promise!absVars)
  OBVIOUS
<1>t. TypeInv /\ AnsweredOnce /\ BusyMeansUnanswered
  BY DEF OnceInv
<1>c. UNCHANGED double
  BY SetupKept DEF config
<1>1. CASE \E t \in Threads : WriteRecord(t)
  BY <1>t, <1>c, <1>1, RecordReplies
<1>2. CASE ChkDcwFound
  <2> DEFINE i == Head(jobs).ea
  <2>1. i \in Readers
    BY <1>t, <1>2, TakeJobType DEF ChkDcwFound, TypeInv, TypeOK
  <2>2. ~Answered /\ eaRc[i] = "FOUND" /\ SendDcw("FOUND", eaCw[i], i) /\ UNCHANGED <<eaCw, eaRc, status>>
    BY <1>2 DEF ChkDcwFound, eaVars
  <2>3. eaCw[i] \in CWs
    BY <2>1, <2>2 DEF SupplyInv
  <2> HIDE DEF i
  <2>4. QED
    BY <1>t, <1>c, <2>1, <2>2, <2>3, SendDcwPromised
<1>3. CASE DecideNotFound
  <2>1. SendDcw("NOTFOUND", NoCw, NoReader) /\ UNCHANGED <<eaCw, eaRc, status>>
        /\ pc = "decide" /\ "reader_left" \notin left
    BY <1>3 DEF DecideNotFound, eaVars
  <2>2. ~Answered
    BY <1>t, <2>1 DEF BusyMeansUnanswered
  <2>3. Promise!NothingToCome
    BY <1>t, <2>1, DecidedOnNothing
  <2>4. QED
    BY <1>t, <1>c, <2>1, <2>2, <2>3, SendDcwPromised
<1>4. CASE TimeoutDone
  <2>1. SendDcw("TIMEOUT", NoCw, NoReader) /\ UNCHANGED <<eaCw, eaRc, status>> /\ pc = "timeout"
    BY <1>4 DEF TimeoutDone, eaVars
  <2>2. ~Answered
    BY <1>t, <2>1 DEF BusyMeansUnanswered
  <2>3. QED
    BY <1>t, <1>c, <2>1, <2>2, SendDcwPromised
<1>5. CASE AskSend \/ \E t \in Threads : WriteClear(t)
  BY <1>t, <1>c, <1>5, RegroupPromised
<1>6. CASE UNCHANGED <<eaCw, eaRc, status, sent>>
  BY <1>c, <1>6 DEF Promise!absVars
<1>7. ASSUME ~ChkDcwFound, ~DecideNotFound, ~TimeoutDone, ~AskSend,
             ~\E t \in Threads : WriteRecord(t) \/ WriteClear(t)
      PROVE  UNCHANGED <<eaCw, eaRc, status, sent>>
  <2>1. UNCHANGED sent
    BY <1>7, StepCases, QuietStepsTellNothing DEF vars
  <2>2. UNCHANGED <<eaCw, eaRc, status>>
    BY <1>7, ReaderCases DEF Aside, AskPick, TimeoutPick, TimeoutWrite, ReaderAnswer, ReaderSilent,
       WritePost, eaVars
  <2>3. QED
    BY <2>1, <2>2
<1>8. QED
  BY <1>1, <1>2, <1>3, <1>4, <1>5, <1>6, <1>7

\* The request implements the promise: one answer; a control word only when
\* enough readers have supplied it; "not found" only when every reader still
\* active has answered and none of these has supplied a word.
THEOREM PromiseKept == Spec => Promise!AbsSafety
<1>1. Init => Promise!AbsInit
  <2> SUFFICES ASSUME Init PROVE Promise!AbsInit
    OBVIOUS
  <2>1. eaCw = [i \in Readers |-> NoCw] /\ eaRc = [i \in Readers |-> "UNHANDLED"] /\ sent = <<>>
    BY DEF Init
  <2>2. {i \in Readers : eaRc[i] # "UNHANDLED"} = {}
    BY <2>1
  <2>3. QED
    BY <2>1, <2>2 DEF Promise!AbsInit
<1>2. QED
  BY <1>1, StepPromised, OnceInvariant, AskInvariant, SupplyInvariant, CheckInvariant, FinalInvariant,
     OfferInvariant, PTL
     DEF Spec, Promise!AbsSafety

(***************************************************************************)
(* Escalation: the worker asks the readers stage by stage, and leaves a     *)
(* stage only when nothing more can come of it.                             *)
(***************************************************************************)
Kind == {"ACTIVE", "FALLBACK", "LOCAL"}

\* Copies of a status word have the bits that get_cw set.
CopiesFaithful ==
    /\ pc = "send" => seen \cap Kind = status[k] \cap Kind
    /\ \A t \in Threads : thr[t].pc = "record" => thr[t].seen \cap Kind = status[thr[t].ea] \cap Kind

StageFacts ==
    /\ stage \in {0, 2, 3, 4} /\ (stage = 2 => prefer)
    /\ pc \in {"load", "store"} => stage < 4
    /\ pc = "store" => reg = stage
    /\ pc \in {"ask", "send"} => stage # 0
    /\ pc = "send" => \A i \in Readers : i = k => Active(i) /\ Level(i) = stage
    /\ ret = "fallback" => fbTimer

\* The loop of request_cw_from_readers is past reader i.
Passed(i) == Level(i) < stage \/ (Level(i) = stage /\ (pc \in {"ask", "send"} => i < k))

AskedInTurn ==
    \A i \in Readers : Active(i) =>
        /\ Passed(i) => Asked(i)
        /\ Asked(i) => Level(i) <= stage

\* Nobody needs to wait for reader i.
Heard(i) == connected[i] /\ ~fbTimer => Denied(i)

HeardInTurn ==
    \A i \in Readers : Active(i) =>
        /\ Level(i) < stage => Heard(i)
        /\ pc \in {"enter", "load", "store"} /\ Level(i) <= stage => Heard(i)
        /\ pc \in {"ask", "send"} /\ ~anySent /\ Level(i) = stage => ~connected[i]

\* What the counters of chk_dcw say of the readers it has passed.
CountedRight ==
    pc = "scan" => \A i \in Readers : i < k /\ Active(i) /\ Asked(i) =>
        /\ stage = 2 /\ "local_left" \notin left /\ Level(i) = 2 => Denied(i)
        /\ stage = 3 /\ "reader_not_flb_left" \notin left /\ Level(i) <= 3 => Denied(i)

\* A claim under NoBadEcm is a record about to be written.
LEMMA ClaimFaithful ==
    ASSUME TypeInv, CopiesFaithful, NEW t \in Threads, NEW i \in Readers, NEW v, v.rc # "BADECM",
           WriteBegin(t, i, v), UNCHANGED status, pc' # "send" \/ UNCHANGED <<pc, seen, k>>
    PROVE  CopiesFaithful' /\ stage' = stage
<1>t. thr \in [Threads -> ThreadState]
  BY SharedTypes
<1>1. stage' = stage
  BY DEF WriteBegin
<1>2. CASE UNCHANGED thr
  BY <1>1, <1>2 DEF CopiesFaithful
<1>3. CASE ~UNCHANGED thr
  <2>1. PICK s : /\ thr' = [thr EXCEPT ![t] = s]
                 /\ s.ea = i /\ s.idx = 1
                 /\ \/ /\ v.rc = "BADECM" /\ s.pc = "clear" /\ s.seen = status[1]
                       /\ s.verdict = [rc |-> "INVALID", cw |-> NoCw]
                    \/ v.rc # "BADECM" /\ s.pc = "record" /\ s.seen = status[i] /\ s.verdict = v
    BY <1>t, <1>3, WriteBeginClaims
  <2>2. s.seen = status[s.ea]
    BY <2>1
  <2>3. QED
    BY <1>1, <1>t, <2>1, <2>2 DEF CopiesFaithful
<1>4. QED
  BY <1>2, <1>3

\* Without a bad checksum the bits that say which reader it is never change, and
\* the stage only by StageStore.
LEMMA StepFaithful ==
    ASSUME TypeInv, AskInv, RecordInv, NoBadEcm, CopiesFaithful, [Next]_vars
    PROVE  /\ CopiesFaithful'
           /\ \A i \in Readers : status'[i] \cap Kind = status[i] \cap Kind
           /\ ~\E t \in Threads : WriteClear(t)
           /\ stage' = stage \/ StageStore
<1>t. /\ status \in [Readers -> SUBSET Flag] /\ thr \in [Threads -> ThreadState]
      /\ \A t \in Threads : thr[t].ea \in Readers /\ thr[t].idx \in Readers
      /\ Readers \subseteq Threads /\ Worker \in Threads
      /\ pc \in {"send", "timeoutWrite"} => k \in Readers
  BY SharedTypes
<1> DEFINE Goal == /\ CopiesFaithful'
                   /\ \A i \in Readers : status'[i] \cap Kind = status[i] \cap Kind
<1>c. ~\E t \in Threads : WriteClear(t)
  BY DEF WriteClear, RecordInv
<1>s. stage' = stage \/ StageStore \/ (\E i \in Readers : ReaderAnswer(i)) \/ TimeoutWrite
  BY DEF Next, WorkerStep, RequestStep, RequestEnter, StageLoad, AskSkip, AskPick, AskSend, AskDone,
     RequestReturn, ChkDcwStep, ChkDcwIgnore, ChkDcwFound, ChkDcwNotFound, Scan, ScanDone, DecideWait,
     DecideNotFound, TimeoutStep, FallbackTimeout, EcmTimeout, TimeoutSkip, TimeoutPick,
     TimeoutLate, TimeoutDone, WriteStep, WriteClear, WriteRecord, WritePost, ReaderSilent,
     TimerStep, PostFallback, PostTimeout, Post, vars, erVars
<1>1. ASSUME TimeoutWrite PROVE Goal /\ stage' = stage
  <2>1. k \in Readers /\ WriteBegin(Worker, k, TimedOut) /\ UNCHANGED status /\ pc' = "timeout"
    BY <1>t, <1>1 DEF TimeoutWrite, eaVars
  <2>2. TimedOut.rc # "BADECM"
    BY DEF TimedOut
  <2>3. CopiesFaithful' /\ stage' = stage
    BY <1>t, <2>1, <2>2, ClaimFaithful
  <2>4. QED
    BY <2>1, <2>3
<1>2. ASSUME NEW i \in Readers, ReaderAnswer(i) PROVE Goal /\ stage' = stage
  <2>1. PICK v \in verdicts : WriteBegin(i, i, v)
    BY <1>2 DEF ReaderAnswer
  <2>2. UNCHANGED <<status, pc, seen, k>> /\ v.rc # "BADECM"
    BY <1>2 DEF ReaderAnswer, NoBadEcm, eaVars, locals
  <2>3. CopiesFaithful' /\ stage' = stage
    BY <1>t, <2>1, <2>2, ClaimFaithful
  <2>4. QED
    BY <2>2, <2>3
<1>3. ASSUME Aside PROVE Goal
  <2>1. UNCHANGED <<status, thr>>
    BY <1>3 DEF Aside
  <2>2. pc' = "send" => UNCHANGED <<pc, k, seen>>
    BY <1>3 DEF Aside, Next, WorkerStep, RequestStep, RequestEnter, StageLoad, StageStore, AskSkip, AskPick, AskSend,
     AskDone, RequestReturn, ChkDcwStep, ChkDcwIgnore, ChkDcwFound, ChkDcwNotFound, Scan, ScanDone, DecideWait,
     DecideNotFound, TimeoutStep, FallbackTimeout, EcmTimeout, TimeoutSkip, TimeoutPick, TimeoutWrite,
     TimeoutLate, TimeoutDone, WriteStep, WriteClear, WriteRecord, WritePost, ReaderAnswer, ReaderSilent,
     TimerStep, PostFallback, PostTimeout, Post, vars, locals, JobDone
  <2>3. QED
    BY <2>1, <2>2 DEF CopiesFaithful
<1>4. ASSUME AskPick \/ TimeoutPick \/ \E i \in Readers : ReaderSilent(i) PROVE Goal
  BY <1>4 DEF AskPick, TimeoutPick, ReaderSilent, CopiesFaithful, eaVars, locals
<1>5. ASSUME AskSend PROVE Goal
  <2>1. k \in Readers /\ pc = "send" /\ pc' = "ask" /\ UNCHANGED thr
    BY <1>5, <1>t DEF AskSend
  <2>2. PICK old \in {seen, status[k]} : status' = [status EXCEPT ![k] = old \cup {"SENT"}]
    BY <1>5 DEF AskSend
  <2>3. old \cap Kind = status[k] \cap Kind
    BY <2>1, <2>2 DEF CopiesFaithful
  <2>4. (old \cup {"SENT"}) \cap Kind = status[k] \cap Kind
    BY <2>3 DEF Kind
  <2>5. \A i \in Readers : status'[i] \cap Kind = status[i] \cap Kind
    BY <1>t, <2>2, <2>4
  <2>6. QED
    BY <1>t, <2>1, <2>5 DEF CopiesFaithful
<1>6. ASSUME NEW t \in Threads, WriteRecord(t) PROVE Goal
  <2> DEFINE s == [ThreadOut EXCEPT !.pc = "post", !.ea = thr[t].ea]
             i == thr[t].ea
  <2>1. /\ thr[t].pc = "record" /\ status' = [status EXCEPT ![i] = thr[t].seen \cup {"ANSWERED"}]
        /\ thr' = [thr EXCEPT ![t] = s] /\ UNCHANGED <<pc, seen, k>>
    BY <1>6 DEF WriteRecord, locals
  <2>2. s.pc = "post"
    BY DEF ThreadOut
  <2> HIDE DEF s
  <2>3. i \in Readers /\ thr[t].seen \cap Kind = status[i] \cap Kind
    BY <1>t, <2>1 DEF CopiesFaithful
  <2>4. (thr[t].seen \cup {"ANSWERED"}) \cap Kind = status[i] \cap Kind
    BY <2>3 DEF Kind
  <2>5. \A j \in Readers : status'[j] \cap Kind = status[j] \cap Kind
    BY <1>t, <2>1, <2>4
  <2>6. \A u \in Threads : thr'[u].pc = "record" => thr'[u] = thr[u]
    BY <1>t, <2>1, <2>2
  <2>7. pc' = "send" => k \in Readers
    BY <1>t, <2>1
  <2>8. \A u \in Threads : thr'[u].pc = "record" => thr'[u].seen \cap Kind = status'[thr'[u].ea] \cap Kind
    BY <1>t, <2>5, <2>6 DEF CopiesFaithful
  <2>9. pc' = "send" => seen' \cap Kind = status'[k'] \cap Kind
    BY <2>1, <2>5, <2>7 DEF CopiesFaithful
  <2>10. QED
    BY <2>5, <2>8, <2>9 DEF CopiesFaithful
<1>7. ASSUME NEW t \in Threads, WritePost(t) PROVE Goal
  <2>1. thr' = [thr EXCEPT ![t] = ThreadOut] /\ UNCHANGED <<status, pc, seen, k>>
    BY <1>7 DEF WritePost, eaVars, locals
  <2>2. ThreadOut.pc = "out"
    BY DEF ThreadOut
  <2>3. QED
    BY <1>t, <2>1, <2>2 DEF CopiesFaithful
<1>8. Goal
  BY <1>c, <1>1, <1>2, <1>3, <1>4, <1>5, <1>6, <1>7, ReaderCases
<1>9. stage' = stage \/ StageStore
  BY <1>s, <1>1, <1>2
<1>10. QED
  BY <1>c, <1>8, <1>9

\* Only AskSend sends a reader the request.
LEMMA OnlyAskSendAsks == [Next]_vars /\ ~AskSend => UNCHANGED <<requests, connected>>
BY DEF Next, WorkerStep, RequestStep, RequestEnter, StageLoad, StageStore, AskSkip, AskPick, AskDone,
   RequestReturn, ChkDcwStep, ChkDcwIgnore, ChkDcwFound, ChkDcwNotFound, Scan, ScanDone, DecideWait,
   DecideNotFound, TimeoutStep, FallbackTimeout, EcmTimeout, TimeoutSkip, TimeoutPick, TimeoutWrite,
   TimeoutLate, TimeoutDone, WriteStep, WriteClear, WriteRecord, WritePost, ReaderAnswer, ReaderSilent,
   TimerStep, PostFallback, PostTimeout, Post, vars, rdrVars

\* Outside AskSend nothing that EscalationInv says of one reader gets worse.
LEMMA ReaderFactsKept ==
    ASSUME TypeInv, AskInv, RecordInv, NoBadEcm, CopiesFaithful, [Next]_vars
    PROVE  /\ \A i \in Readers : Active(i)' <=> Active(i)
           /\ \A i \in Readers : Level(i)' = Level(i)
           /\ \A i \in Readers : Denied(i) => Denied(i)'
           /\ ~AskSend => \A i \in Readers : /\ Asked(i)' <=> Asked(i)
                                             /\ connected'[i] = connected[i]
                                             /\ Heard(i) => Heard(i)'
           /\ fbTimer \in BOOLEAN /\ (fbTimer => fbTimer')
<1>1. \A i \in Readers : status'[i] \cap Kind = status[i] \cap Kind
  BY StepFaithful
<1>2. \A i \in Readers : \A b \in Kind : b \in status'[i] <=> b \in status[i]
  BY <1>1
<1>3. prefer' = prefer
  BY SetupKept DEF config
<1>4. \A i \in Readers : (Active(i)' <=> Active(i)) /\ Level(i)' = Level(i)
  BY <1>2, <1>3 DEF Active, Level, Kind
<1>5. \A i \in Readers : Denied(i) => Denied(i)'
  BY DeniedKept, StepFaithful
<1>6. ~AskSend => UNCHANGED <<requests, connected>>
  BY OnlyAskSendAsks
<1>7. fbTimer' = fbTimer \/ fbTimer' = TRUE
  BY DEF Next, WorkerStep, RequestStep, RequestEnter, StageLoad, StageStore, AskSkip, AskPick, AskSend, AskDone,
     RequestReturn, ChkDcwStep, ChkDcwIgnore, ChkDcwFound, ChkDcwNotFound, Scan, ScanDone, DecideWait,
     DecideNotFound, TimeoutStep, FallbackTimeout, EcmTimeout, TimeoutSkip, TimeoutPick, TimeoutWrite,
     TimeoutLate, TimeoutDone, WriteStep, WriteClear, WriteRecord, WritePost, ReaderAnswer, ReaderSilent,
     TimerStep, PostFallback, PostTimeout, Post, vars
<1>8. fbTimer \in BOOLEAN
  BY DEF TypeInv, TypeOK
<1>9. ASSUME ~AskSend, NEW i \in Readers
      PROVE  (Asked(i)' <=> Asked(i)) /\ connected'[i] = connected[i] /\ (Heard(i) => Heard(i)')
  <2>1. requests' = requests /\ connected' = connected
    BY <1>6, <1>9
  <2>2. fbTimer => fbTimer'
    BY <1>7, <1>8
  <2>3. Denied(i) => Denied(i)'
    BY <1>5
  <2>4. QED
    BY <2>1, <2>2, <2>3 DEF Asked, Heard
<1>10. fbTimer => fbTimer'
  BY <1>7, <1>8
<1>11. QED
  BY <1>4, <1>5, <1>8, <1>9, <1>10

\* The order of the escalation, seen from where the worker is.
Orderly == StageFacts /\ AskedInTurn /\ HeardInTurn /\ CountedRight

\* What the worker's own variables hold.
LEMMA WorkerTypes ==
    TypeInv => /\ k \in Nat /\ stage \in Nat /\ NumReaders \in Nat
               /\ anySent \in BOOLEAN /\ prefer \in BOOLEAN
               /\ \A i \in Readers : i \in Nat /\ i <= NumReaders /\ Level(i) \in {2, 3, 4}
BY NumReadersAssumption DEF TypeInv, TypeOK, WorkerOK, RequestOK, ConfigOK, Readers, Level

\* Steps in which the worker stays where it is.
LEMMA OthersKeepOrder ==
    ASSUME TypeInv, AskInv, RecordInv, NoBadEcm, CopiesFaithful, Orderly, [Next]_vars, ~AskSend,
           UNCHANGED <<stage, pc, k, ret, reg, anySent, left>>
    PROVE  Orderly'
<1>k. /\ \A i \in Readers : (Active(i)' <=> Active(i)) /\ Level(i)' = Level(i)
      /\ \A i \in Readers : (Asked(i)' <=> Asked(i)) /\ (Denied(i) => Denied(i)')
      /\ \A i \in Readers : connected'[i] = connected[i] /\ (Heard(i) => Heard(i)')
      /\ fbTimer => fbTimer'
  BY ReaderFactsKept
<1>p. prefer' = prefer
  BY SetupKept DEF config
<1>1. StageFacts'
  BY <1>k, <1>p DEF Orderly, StageFacts
<1>2. AskedInTurn'
  BY <1>k DEF Orderly, AskedInTurn, Passed
<1>3. HeardInTurn'
  BY <1>k DEF Orderly, HeardInTurn
<1>4. CountedRight'
  BY <1>k DEF Orderly, CountedRight
<1>5. QED
  BY <1>1, <1>2, <1>3, <1>4 DEF Orderly

\* Steps with which the worker leaves the loop over the readers, or its job.
LEMMA LeavingKeepsOrder ==
    ASSUME TypeInv, AskInv, RecordInv, NoBadEcm, CopiesFaithful, Orderly, [Next]_vars, ~AskSend,
           UNCHANGED stage, pc' \in {"return", "decide", "idle", "timeout", "timeoutWrite"},
           pc \in {"ask", "send"} => k > NumReaders,
           ret' \in {"idle", "chk_dcw"} \/ ret' = ret
    PROVE  Orderly'
<1>k. /\ \A i \in Readers : (Active(i)' <=> Active(i)) /\ Level(i)' = Level(i)
      /\ \A i \in Readers : (Asked(i)' <=> Asked(i)) /\ (Heard(i) => Heard(i)')
      /\ fbTimer => fbTimer'
  BY ReaderFactsKept
<1>t. k \in Nat /\ NumReaders \in Nat /\ \A i \in Readers : i \in Nat /\ i <= NumReaders
  BY WorkerTypes
<1>p. prefer' = prefer
  BY SetupKept DEF config
<1>1. StageFacts'
  BY <1>k, <1>p DEF Orderly, StageFacts
<1>2. AskedInTurn'
  BY <1>k, <1>t DEF Orderly, AskedInTurn, Passed
<1>3. HeardInTurn'
  BY <1>k DEF Orderly, HeardInTurn
<1>4. CountedRight'
  BY DEF CountedRight
<1>5. QED
  BY <1>1, <1>2, <1>3, <1>4 DEF Orderly

\* Steps with which the worker goes on to another stage, when all readers of the
\* stage it leaves are heard.
LEMMA NextStageKeepsOrder ==
    ASSUME TypeInv, AskInv, RecordInv, NoBadEcm, CopiesFaithful, Orderly, [Next]_vars, ~AskSend,
           UNCHANGED stage, pc' \in {"enter", "load", "store"},
           pc' \in {"load", "store"} => stage < 4, pc' = "store" => reg' = stage,
           pc \in {"ask", "send"} => k > NumReaders,
           ret' = "fallback" => fbTimer',
           \A i \in Readers : Active(i) /\ Level(i) <= stage => Heard(i)'
    PROVE  Orderly'
<1>k. /\ \A i \in Readers : (Active(i)' <=> Active(i)) /\ Level(i)' = Level(i)
      /\ \A i \in Readers : (Asked(i)' <=> Asked(i)) /\ (Heard(i) => Heard(i)')
  BY ReaderFactsKept
<1>t. /\ k \in Nat /\ NumReaders \in Nat /\ stage \in Nat
      /\ \A i \in Readers : i \in Nat /\ i <= NumReaders /\ Level(i) \in {2, 3, 4}
  BY WorkerTypes
<1>p. prefer' = prefer
  BY SetupKept DEF config
<1>1. StageFacts'
  BY <1>p DEF Orderly, StageFacts
<1>2. AskedInTurn'
  BY <1>k, <1>t DEF Orderly, AskedInTurn, Passed
<1>3. HeardInTurn'
  BY <1>k, <1>t DEF Orderly, HeardInTurn
<1>4. CountedRight'
  BY DEF CountedRight
<1>5. QED
  BY <1>1, <1>2, <1>3, <1>4 DEF Orderly

\* A new stage: nobody of it was asked yet.
LEMMA StageStoreKeepsOrder ==
    ASSUME TypeInv, AskInv, RecordInv, NoBadEcm, CopiesFaithful, Orderly, [Next]_vars, StageStore,
           \A i \in Readers : ~Asked(i) => ~connected[i]
    PROVE  Orderly'
<1>k. /\ \A i \in Readers : (Active(i)' <=> Active(i)) /\ Level(i)' = Level(i)
      /\ \A i \in Readers : (Asked(i)' <=> Asked(i)) /\ (Heard(i) => Heard(i)')
      /\ \A i \in Readers : connected'[i] = connected[i]
  BY ReaderFactsKept DEF StageStore, AskSend
<1>t. \A i \in Readers : i \in Nat /\ Level(i) \in {2, 3, 4} /\ (Level(i) = 2 => prefer)
  BY WorkerTypes DEF Level
<1>p. prefer' = prefer /\ prefer \in BOOLEAN
  BY SetupKept, WorkerTypes DEF config
<1>s. /\ pc = "store" /\ reg = stage /\ stage \in {0, 2, 3} /\ stage' = NextStage(stage)
      /\ pc' = "ask" /\ k' = 1 /\ UNCHANGED <<ret, fbTimer>>
  <2>1. pc = "store" /\ stage' = NextStage(reg) /\ pc' = "ask" /\ k' = 1 /\ UNCHANGED <<ret, fbTimer>>
    BY DEF StageStore
  <2>2. reg = stage /\ stage \in {0, 2, 3, 4} /\ stage < 4
    BY <2>1 DEF Orderly, StageFacts
  <2>3. QED
    BY <2>1, <2>2
<1>n. \/ stage = 0 /\ prefer /\ stage' = 2
      \/ stage = 0 /\ ~prefer /\ stage' = 3
      \/ stage = 2 /\ stage' = 3
      \/ stage = 3 /\ stage' = 4
  BY <1>s, <1>p DEF NextStage
<1>1. StageFacts'
  BY <1>s, <1>n, <1>p DEF Orderly, StageFacts
<1>2. \A i \in Readers : Level(i) < stage' => Level(i) <= stage
  BY <1>n, <1>t
<1>3. \A i \in Readers : Level(i) <= stage => Level(i) < stage'
  BY <1>n, <1>t
<1>i. \A i \in Readers : ~(i < 1)
  BY DEF Readers
<1>4. AskedInTurn'
  <2> SUFFICES ASSUME NEW i \in Readers, Active(i)
               PROVE  (Passed(i)' => Asked(i)') /\ (Asked(i)' => Level(i)' <= stage')
    BY <1>k DEF AskedInTurn
  <2>1. Passed(i)' => Level(i) < stage'
    BY <1>k, <1>s, <1>i DEF Passed
  <2>2. Level(i) <= stage => Passed(i)
    BY <1>s, <1>t, <1>n DEF Passed
  <2>3. (Passed(i) => Asked(i)) /\ (Asked(i) => Level(i) <= stage)
    BY DEF Orderly, AskedInTurn
  <2>4. Passed(i)' => Asked(i)'
    BY <1>k, <1>2, <2>1, <2>2, <2>3
  <2>5. Asked(i)' => Level(i) < stage'
    BY <1>k, <1>3, <2>3
  <2>6. QED
    BY <1>k, <1>n, <1>t, <2>4, <2>5
<1>5. HeardInTurn'
  <2> SUFFICES ASSUME NEW i \in Readers, Active(i)
               PROVE  /\ Level(i) < stage' => Heard(i)'
                      /\ Level(i) = stage' => ~connected[i]
    BY <1>k, <1>s DEF HeardInTurn
  <2>1. Level(i) < stage' => Heard(i)'
    BY <1>k, <1>s, <1>2 DEF Orderly, HeardInTurn
  <2>2. Level(i) = stage' => ~Asked(i)
    BY <1>n, <1>t DEF Orderly, AskedInTurn
  <2>3. QED
    BY <2>1, <2>2
<1>6. CountedRight'
  BY <1>s DEF CountedRight
<1>7. QED
  BY <1>1, <1>4, <1>5, <1>6 DEF Orderly

\* The loop passes a reader that is not due: it was asked, is inactive, or of a
\* later stage.
LEMMA AskSkipKeepsOrder ==
    ASSUME TypeInv, AskInv, RecordInv, NoBadEcm, CopiesFaithful, Orderly, [Next]_vars, AskSkip
    PROVE  Orderly'
<1>k. /\ \A i \in Readers : (Active(i)' <=> Active(i)) /\ Level(i)' = Level(i)
      /\ \A i \in Readers : (Asked(i)' <=> Asked(i)) /\ (Heard(i) => Heard(i)')
      /\ \A i \in Readers : connected'[i] = connected[i]
  BY ReaderFactsKept DEF AskSkip, AskSend
<1>t. k \in Nat /\ \A i \in Readers : i \in Nat /\ Level(i) \in {2, 3, 4}
  BY WorkerTypes
<1>p. prefer' = prefer /\ prefer \in BOOLEAN
  BY SetupKept, WorkerTypes DEF config
<1>s. /\ pc = "ask" /\ k \in Readers /\ ~Eligible(stage, status[k]) /\ k' = k + 1
      /\ UNCHANGED <<pc, stage, ret, fbTimer, anySent>>
  BY DEF AskSkip, erVars
<1>1. Active(k) /\ Level(k) = stage => Asked(k)
  <2>1. stage \in {2, 3, 4}
    BY <1>s DEF Orderly, StageFacts
  <2>2. Active(k) /\ Level(k) = stage => "SENT" \in status[k]
    BY <1>s, <2>1 DEF Active, Level, Eligible
  <2>3. QED
    BY <1>s, <2>2 DEF AskInv, StatusShowsAsked
<1>2. AskedInTurn'
  <2> SUFFICES ASSUME NEW i \in Readers, Active(i)
               PROVE  (Passed(i)' => Asked(i)') /\ (Asked(i)' => Level(i)' <= stage')
    BY <1>k DEF AskedInTurn
  <2>1. Passed(i)' => Passed(i) \/ (i = k /\ Level(i) = stage)
    BY <1>k, <1>t, <1>s DEF Passed
  <2>2. i = k /\ Level(i) = stage => Asked(i)
    BY <1>1
  <2>3. QED
    BY <1>k, <1>s, <2>1, <2>2 DEF Orderly, AskedInTurn
<1>3. HeardInTurn'
  BY <1>k, <1>s DEF Orderly, HeardInTurn
<1>4. StageFacts' /\ CountedRight'
  BY <1>s, <1>p DEF Orderly, StageFacts, CountedRight
<1>5. QED
  BY <1>2, <1>3, <1>4 DEF Orderly

\* The loop picks a reader of this very stage.
LEMMA AskPickKeepsOrder ==
    ASSUME TypeInv, AskInv, RecordInv, NoBadEcm, CopiesFaithful, Orderly, [Next]_vars, AskPick
    PROVE  Orderly'
<1>k. /\ \A i \in Readers : (Active(i)' <=> Active(i)) /\ Level(i)' = Level(i)
      /\ \A i \in Readers : (Asked(i)' <=> Asked(i)) /\ (Heard(i) => Heard(i)')
      /\ \A i \in Readers : connected'[i] = connected[i]
  BY ReaderFactsKept DEF AskPick, AskSend
<1>t. \A i \in Readers : i \in Nat /\ Level(i) \in {2, 3, 4}
  BY WorkerTypes
<1>p. prefer' = prefer
  BY SetupKept DEF config
<1>s. /\ pc = "ask" /\ k \in Readers /\ Eligible(stage, status[k]) /\ pc' = "send"
      /\ UNCHANGED <<k, stage, ret, fbTimer, anySent>>
  BY DEF AskPick, erVars
<1>g. stage \in {2, 3, 4} /\ (stage = 2 => prefer)
  BY <1>s DEF Orderly, StageFacts
<1>1. Active(k) /\ Level(k) = stage
  <2>1. Active(k) /\ ~Asked(k)
    BY <1>s DEF Active, Eligible, AskInv, StatusShowsAsked
  <2>2. ~(Level(k) < stage)
    BY <1>s, <2>1 DEF Orderly, AskedInTurn, Passed
  <2>3. stage = 2 => Level(k) = 2
    BY <1>s, <1>g DEF Level, Eligible
  <2>4. stage = 3 => Level(k) \in {2, 3}
    BY <1>s DEF Level, Eligible
  <2>5. QED
    BY <1>g, <1>s, <1>t, <2>1, <2>2, <2>3, <2>4
<1>2. AskedInTurn'
  BY <1>k, <1>s DEF Orderly, AskedInTurn, Passed
<1>3. HeardInTurn'
  BY <1>k, <1>s DEF Orderly, HeardInTurn
<1>4. StageFacts' /\ CountedRight'
  BY <1>k, <1>s, <1>p, <1>g, <1>1 DEF Orderly, StageFacts, CountedRight
<1>5. QED
  BY <1>2, <1>3, <1>4 DEF Orderly

\* The reader is asked.
LEMMA AskSendKeepsOrder ==
    ASSUME TypeInv, AskInv, RecordInv, NoBadEcm, CopiesFaithful, Orderly, [Next]_vars, AskSend
    PROVE  Orderly'
<1>k. \A i \in Readers : (Active(i)' <=> Active(i)) /\ Level(i)' = Level(i) /\ (Denied(i) => Denied(i)')
  BY ReaderFactsKept
<1>t. /\ k \in Nat /\ \A i \in Readers : i \in Nat /\ Level(i) \in {2, 3, 4}
      /\ requests \in [Readers -> Nat] /\ connected \in [Readers -> BOOLEAN] /\ anySent \in BOOLEAN
  BY WorkerTypes DEF TypeInv, TypeOK, QueuesOK
<1>p. prefer' = prefer
  BY SetupKept DEF config
<1>s. /\ pc = "send" /\ k \in Readers /\ pc' = "ask" /\ k' = k + 1
      /\ requests' = [requests EXCEPT ![k] = @ + 1] /\ UNCHANGED <<stage, ret, fbTimer>>
  BY DEF AskSend, erVars, TypeInv, PcFacts
<1>u. PICK up \in BOOLEAN : connected' = [connected EXCEPT ![k] = up] /\ anySent' = (anySent \/ up)
  BY DEF AskSend
<1>1. Active(k) /\ Level(k) = stage
  BY <1>s DEF Orderly, StageFacts
<1>2. \A i \in Readers : Asked(i)' <=> (Asked(i) \/ i = k)
  <2>1. requests'[k] = requests[k] + 1 /\ \A i \in Readers : i # k => requests'[i] = requests[i]
    BY <1>s, <1>t
  <2>2. requests[k] \in Nat /\ requests[k] + 1 # 0
    BY <1>s, <1>t
  <2>3. QED
    BY <2>1, <2>2 DEF Asked
<1>3. \A i \in Readers : i # k => connected'[i] = connected[i] /\ (Heard(i) => Heard(i)')
  BY <1>k, <1>s, <1>t, <1>u DEF Heard
<1>4. AskedInTurn'
  <2> SUFFICES ASSUME NEW i \in Readers, Active(i)
               PROVE  (Passed(i)' => Asked(i)') /\ (Asked(i)' => Level(i)' <= stage')
    BY <1>k DEF AskedInTurn
  <2>1. Passed(i)' => Passed(i) \/ i = k
    BY <1>k, <1>t, <1>s DEF Passed
  <2>2. i = k => Level(i) <= stage
    BY <1>1, <1>t
  <2>3. QED
    BY <1>k, <1>s, <1>2, <2>1, <2>2 DEF Orderly, AskedInTurn
<1>5. HeardInTurn'
  <2> SUFFICES ASSUME NEW i \in Readers, Active(i)
               PROVE  /\ Level(i) < stage => Heard(i)'
                      /\ ~anySent' /\ Level(i) = stage => ~connected'[i]
    BY <1>k, <1>s DEF HeardInTurn
  <2>1. Level(i) < stage => i # k
    BY <1>1, <1>t
  <2>2. Level(i) < stage => Heard(i)'
    BY <2>1, <1>3 DEF Orderly, HeardInTurn
  <2>3. CASE i = k
    BY <1>s, <1>t, <1>u, <2>2, <2>3
  <2>4. CASE i # k
    BY <1>3, <1>s, <1>t, <1>u, <2>2, <2>4 DEF Orderly, HeardInTurn
  <2>5. QED
    BY <2>3, <2>4
<1>6. StageFacts' /\ CountedRight'
  BY <1>s, <1>p DEF Orderly, StageFacts, CountedRight
<1>7. QED
  BY <1>4, <1>5, <1>6 DEF Orderly

\* chk_dcw starts to count, and counts a reader.
LEMMA CountingKeepsOrder ==
    ASSUME TypeInv, AskInv, RecordInv, NoBadEcm, CopiesFaithful, Orderly, [Next]_vars, ChkDcwNotFound \/ Scan
    PROVE  Orderly'
<1>k. /\ \A i \in Readers : (Active(i)' <=> Active(i)) /\ Level(i)' = Level(i)
      /\ \A i \in Readers : (Asked(i)' <=> Asked(i)) /\ (Heard(i) => Heard(i)')
      /\ \A i \in Readers : Denied(i) => Denied(i)'
  BY ReaderFactsKept DEF ChkDcwNotFound, TakeJob, Scan, AskSend
<1>t. k \in Nat /\ \A i \in Readers : i \in Nat /\ i >= 1 /\ Level(i) \in {2, 3, 4}
  BY WorkerTypes DEF Readers
<1>p. prefer' = prefer /\ prefer \in BOOLEAN
  BY SetupKept, WorkerTypes DEF config
<1>s. pc \in {"idle", "scan"} /\ pc' = "scan" /\ UNCHANGED <<stage, ret, fbTimer>>
  BY DEF ChkDcwNotFound, TakeJob, Scan, erVars
<1>1. StageFacts'
  BY <1>s, <1>p DEF Orderly, StageFacts
<1>2. AskedInTurn'
  BY <1>k, <1>s DEF Orderly, AskedInTurn, Passed
<1>3. HeardInTurn'
  BY <1>k, <1>s DEF Orderly, HeardInTurn
<1>4. CASE ChkDcwNotFound
  <2>1. \A i \in Readers : ~(i < k')
    BY <1>4, <1>t DEF ChkDcwNotFound
  <2>2. CountedRight'
    BY <2>1 DEF CountedRight
  <2>3. QED
    BY <1>1, <1>2, <1>3, <2>2 DEF Orderly
<1>5. CASE Scan
  <2>1. pc = "scan" /\ k \in Readers /\ EaFree(k) /\ k' = k + 1 /\ left' = left \cup CountsFor(status[k], eaRc[k])
    BY <1>5 DEF Scan
  <2>2. ASSUME Active(k), Asked(k), stage = 2, "local_left" \notin left', Level(k) = 2 PROVE Denied(k)
    <3>1. {"ACTIVE", "SENT", "LOCAL"} \subseteq status[k] /\ "FALLBACK" \notin status[k]
      BY <2>1, <2>2 DEF Active, Level, AskInv, StatusShowsAsked
    <3>2. "local_left" \notin CountsFor(status[k], eaRc[k])
      BY <2>1, <2>2
    <3>3. eaRc[k] # "FOUND" /\ "ANSWERED" \in status[k]
      BY <3>1, <3>2 DEF CountsFor, Counter
    <3>4. QED
      BY <2>1, <2>2, <3>3 DEF Denied
  <2>3. ASSUME Active(k), Asked(k), stage = 3, "reader_not_flb_left" \notin left', Level(k) <= 3 PROVE Denied(k)
    <3>1. {"ACTIVE", "SENT"} \subseteq status[k] /\ "FALLBACK" \notin status[k]
      BY <2>1, <2>3 DEF Active, Level, AskInv, StatusShowsAsked
    <3>2. "reader_not_flb_left" \notin CountsFor(status[k], eaRc[k])
      BY <2>1, <2>3
    <3>3. eaRc[k] # "FOUND" /\ "ANSWERED" \in status[k]
      BY <3>1, <3>2 DEF CountsFor, Counter
    <3>4. QED
      BY <2>1, <2>3, <3>3 DEF Denied
  <2>4. CountedRight'
    <3> SUFFICES ASSUME NEW i \in Readers, i < k', Active(i), Asked(i)
                 PROVE  /\ stage = 2 /\ "local_left" \notin left' /\ Level(i) = 2 => Denied(i)'
                        /\ stage = 3 /\ "reader_not_flb_left" \notin left' /\ Level(i) <= 3 => Denied(i)'
      BY <1>k, <1>s DEF CountedRight
    <3>1. CASE i = k
      BY <3>1, <1>k, <2>2, <2>3
    <3>2. CASE i < k
      BY <3>2, <1>k, <2>1 DEF Orderly, CountedRight
    <3>3. QED
      BY <3>1, <3>2, <1>t, <2>1
  <2>5. QED
    BY <1>1, <1>2, <1>3, <2>4 DEF Orderly
<1>6. QED
  BY <1>4, <1>5

\* The worker goes on to the next stage because no reader of this one could be
\* reached, because those it could reach have answered, or for the fallback timer.
LEMMA TurningKeepsOrder ==
    ASSUME TypeInv, AskInv, RecordInv, NoBadEcm, CopiesFaithful, Orderly, [Next]_vars,
           RequestEnter \/ StageLoad \/ AskDone \/ RequestReturn \/ ScanDone \/ FallbackTimeout
    PROVE  Orderly'
<1>a. ~AskSend
  BY DEF RequestEnter, StageLoad, AskDone, RequestReturn, ScanDone, FallbackTimeout, TakeJob, AskSend
<1>k. (\A i \in Readers : Heard(i) => Heard(i)') /\ (fbTimer => fbTimer')
  BY <1>a, ReaderFactsKept
<1>t. k \in Nat /\ NumReaders \in Nat /\ stage \in Nat /\ \A i \in Readers : i \in Nat /\ Level(i) \in {2, 3, 4}
  BY WorkerTypes
<1>s. UNCHANGED stage /\ (ret = "fallback" => fbTimer)
  BY DEF RequestEnter, StageLoad, AskDone, RequestReturn, ScanDone, FallbackTimeout, erVars, Orderly, StageFacts
<1>1. CASE RequestEnter
  <2>1. /\ pc = "enter" /\ pc' \in {"return", "load"} /\ (pc' = "load" => ~(stage >= 4))
        /\ UNCHANGED <<ret, fbTimer>>
    BY <1>1 DEF RequestEnter
  <2>2. \A i \in Readers : Active(i) /\ Level(i) <= stage => Heard(i)'
    BY <1>k, <2>1 DEF Orderly, HeardInTurn
  <2>3. pc' = "load" => stage < 4
    BY <1>t, <2>1
  <2>4. CASE pc' = "load"
    BY <1>a, <1>s, <2>1, <2>2, <2>3, <2>4, NextStageKeepsOrder
  <2>5. CASE pc' = "return"
    BY <1>a, <1>s, <2>1, <2>5, LeavingKeepsOrder
  <2>6. QED
    BY <2>1, <2>4, <2>5
<1>2. CASE StageLoad
  <2>1. pc = "load" /\ pc' = "store" /\ reg' = stage /\ UNCHANGED <<ret, fbTimer>>
    BY <1>2 DEF StageLoad
  <2>2. \A i \in Readers : Active(i) /\ Level(i) <= stage => Heard(i)'
    BY <1>k, <2>1 DEF Orderly, HeardInTurn
  <2>3. stage < 4
    BY <2>1 DEF Orderly, StageFacts
  <2>4. QED
    BY <1>a, <1>s, <2>1, <2>2, <2>3, NextStageKeepsOrder
<1>3. CASE AskDone
  <2>1. /\ pc = "ask" /\ k > NumReaders /\ pc' \in {"return", "load"}
        /\ (pc' = "load" => ~anySent /\ ~(stage >= 4)) /\ UNCHANGED <<ret, fbTimer>>
    BY <1>3 DEF AskDone
  <2>2. CASE pc' = "return"
    BY <1>a, <1>s, <2>1, <2>2, LeavingKeepsOrder
  <2>3. CASE pc' = "load"
    <3>1. stage < 4 /\ ~anySent
      BY <1>t, <2>1, <2>3
    <3>2. ASSUME NEW i \in Readers, Active(i), Level(i) <= stage PROVE Heard(i)
      <4>1. CASE Level(i) < stage
        BY <3>2, <4>1 DEF Orderly, HeardInTurn
      <4>2. CASE Level(i) = stage
        BY <2>1, <3>1, <3>2, <4>2 DEF Orderly, HeardInTurn, Heard
      <4>3. QED
        BY <1>t, <3>2, <4>1, <4>2
    <3>3. \A i \in Readers : Active(i) /\ Level(i) <= stage => Heard(i)'
      BY <1>k, <3>2
    <3>4. QED
      BY <1>a, <1>s, <2>1, <2>3, <3>1, <3>3, NextStageKeepsOrder
  <2>4. QED
    BY <2>1, <2>2, <2>3
<1>4. CASE RequestReturn
  <2>1. pc = "return" /\ fbTimer' = fbTimer
    BY <1>4 DEF RequestReturn
  <2>2. CASE pc' \in {"decide", "idle"}
    <3>1. ret' \in {"idle", "chk_dcw"} \/ ret' = ret
      BY <1>4 DEF RequestReturn, JobDone, locals
    <3>2. QED
      BY <1>a, <1>s, <2>1, <2>2, <3>1, LeavingKeepsOrder
  <2>3. CASE pc' \notin {"decide", "idle"}
    <3>1. pc' = "enter" /\ ret = "fallback" /\ fbTimer'
      BY <1>4, <1>s, <2>1, <2>3 DEF RequestReturn, JobDone
    <3>2. \A i \in Readers : Heard(i)'
      BY <3>1 DEF Heard
    <3>3. QED
      BY <1>a, <1>s, <2>1, <3>1, <3>2, NextStageKeepsOrder
  <2>4. QED
    BY <2>2, <2>3
<1>5. CASE ScanDone
  <2>1. /\ pc = "scan" /\ k > NumReaders /\ pc' \in {"enter", "decide"} /\ ret' = "chk_dcw"
        /\ (pc' = "enter" => NextStageDue)
    BY <1>5 DEF ScanDone
  <2>2. CASE pc' = "decide"
    BY <1>a, <1>s, <2>1, <2>2, LeavingKeepsOrder
  <2>3. CASE pc' = "enter"
    <3>1. \/ stage = 2 /\ "local_left" \notin left
          \/ stage = 3 /\ "reader_not_flb_left" \notin left
      BY <2>1, <2>3 DEF NextStageDue
    <3>2. ASSUME NEW i \in Readers, Active(i), Level(i) <= stage PROVE Heard(i)
      <4>1. i < k /\ Passed(i)
        BY <1>t, <2>1, <3>2, WorkerTypes DEF Passed
      <4>2. Asked(i)
        BY <3>2, <4>1 DEF Orderly, AskedInTurn
      <4>3. stage = 2 => Level(i) = 2
        BY <1>t, <3>2
      <4>4. Denied(i)
        BY <2>1, <3>1, <3>2, <4>1, <4>2, <4>3 DEF Orderly, CountedRight
      <4>5. QED
        BY <4>4 DEF Heard
    <3>3. \A i \in Readers : Active(i) /\ Level(i) <= stage => Heard(i)'
      BY <1>k, <3>2
    <3>4. QED
      BY <1>a, <1>s, <2>1, <2>3, <3>3, NextStageKeepsOrder
  <2>4. QED
    BY <2>1, <2>2, <2>3
<1>6. CASE FallbackTimeout
  <2>1. pc = "idle"
    BY <1>6 DEF FallbackTimeout, TakeJob
  <2>2. CASE pc' = "idle"
    <3>1. UNCHANGED ret
      BY <1>6, <2>1, <2>2 DEF FallbackTimeout
    <3>2. QED
      BY <1>a, <1>s, <2>1, <2>2, <3>1, LeavingKeepsOrder
  <2>3. CASE pc' # "idle"
    <3>1. pc' = "enter" /\ fbTimer'
      BY <1>6, <2>1, <2>3 DEF FallbackTimeout
    <3>2. \A i \in Readers : Heard(i)'
      BY <3>1 DEF Heard
    <3>3. QED
      BY <1>a, <1>s, <2>1, <3>1, <3>2, NextStageKeepsOrder
  <2>4. QED
    BY <2>2, <2>3
<1>7. QED
  BY <1>1, <1>2, <1>3, <1>4, <1>5, <1>6

\* The order of the escalation is inductive as long as no reader reports a bad
\* checksum.
LEMMA StepOrderly ==
    ASSUME TypeInv, AskInv, RecordInv, NoBadEcm, CopiesFaithful, Orderly, [Next]_vars,
           \A i \in Readers : ~Asked(i) => ~connected[i]
    PROVE  Orderly'
<1>1. CASE ChkDcwIgnore \/ ChkDcwFound \/ TimerStep \/ (\E t \in Threads : WriteStep(t))
             \/ (\E i \in Readers : ReaderAnswer(i) \/ ReaderSilent(i)) \/ UNCHANGED vars
  <2>1. UNCHANGED <<pc, k, ret, reg, anySent, left>>
    BY <1>1 DEF ChkDcwIgnore, ChkDcwFound, TimerStep, PostFallback, PostTimeout, Post, WriteStep, WriteClear,
       WriteRecord, WritePost, ReaderAnswer, ReaderSilent, vars, locals
  <2>2. stage' = stage /\ ~AskSend
    BY <2>1, StepFaithful DEF StageStore, AskSend
  <2>3. QED
    BY <2>1, <2>2, OthersKeepOrder
<1>2. CASE DecideWait \/ DecideNotFound \/ TimeoutDone
  <2>1. UNCHANGED stage /\ pc' = "idle" /\ ret' = "idle" /\ pc \notin {"ask", "send"}
    BY <1>2 DEF DecideWait, DecideNotFound, TimeoutDone, JobDone, erVars
  <2>2. ~AskSend
    BY <2>1 DEF AskSend
  <2>3. QED
    BY <2>1, <2>2, LeavingKeepsOrder
<1>3. CASE EcmTimeout \/ TimeoutSkip \/ TimeoutPick \/ TimeoutWrite \/ TimeoutLate
  <2>1. pc' \in {"idle", "timeout", "timeoutWrite"} /\ ret' = ret /\ pc \notin {"ask", "send"}
    BY <1>3 DEF EcmTimeout, TakeJob, TimeoutSkip, TimeoutPick, TimeoutWrite, TimeoutLate, locals
  <2>2. stage' = stage /\ ~AskSend
    BY <2>1, StepFaithful DEF StageStore, AskSend
  <2>3. QED
    BY <2>1, <2>2, LeavingKeepsOrder
<1>4. CASE RequestEnter \/ StageLoad \/ AskDone \/ RequestReturn \/ ScanDone \/ FallbackTimeout
  BY <1>4, TurningKeepsOrder
<1>5. CASE StageStore
  BY <1>5, StageStoreKeepsOrder
<1>6. CASE AskSkip
  BY <1>6, AskSkipKeepsOrder
<1>7. CASE AskPick
  BY <1>7, AskPickKeepsOrder
<1>8. CASE AskSend
  BY <1>8, AskSendKeepsOrder
<1>9. CASE ChkDcwNotFound \/ Scan
  BY <1>9, CountingKeepsOrder
<1>10. QED
  BY <1>1, <1>2, <1>3, <1>4, <1>5, <1>6, <1>7, <1>8, <1>9
     DEF Next, WorkerStep, RequestStep, ChkDcwStep, TimeoutStep

\* Without a bad checksum the escalation is orderly.
EscalationInv ==
    /\ \A i \in Readers : ~Asked(i) => ~connected[i]
    /\ NoBadEcm => CopiesFaithful /\ Orderly

\* EscalationInv is inductive, given what is known of the readers.
LEMMA StepEscalationInv == TypeInv /\ AskInv /\ RecordInv /\ EscalationInv /\ [Next]_vars => EscalationInv'
<1> SUFFICES ASSUME TypeInv, AskInv, RecordInv, EscalationInv, [Next]_vars PROVE EscalationInv'
  OBVIOUS
<1>1. NoBadEcm' <=> NoBadEcm
  BY SetupKept DEF NoBadEcm, config
<1>2. ASSUME NEW i \in Readers, ~Asked(i)' PROVE ~connected'[i]
  <2>t. requests \in [Readers -> Nat] /\ connected \in [Readers -> BOOLEAN] /\ (pc = "send" => k \in Readers)
    BY SharedTypes DEF TypeInv, TypeOK, QueuesOK
  <2>1. CASE AskSend
    <3>1. k \in Readers /\ requests' = [requests EXCEPT ![k] = @ + 1]
      BY <2>t, <2>1 DEF AskSend
    <3>2. requests'[k] # 0
      <4>1. requests'[k] = requests[k] + 1 /\ requests[k] \in Nat
        BY <2>t, <3>1
      <4>2. QED
        BY <4>1
    <3>3. i # k
      BY <1>2, <3>2 DEF Asked
    <3>4. requests'[i] = requests[i] /\ connected'[i] = connected[i]
      BY <2>t, <2>1, <3>1, <3>3 DEF AskSend
    <3>5. QED
      BY <1>2, <3>4 DEF EscalationInv, Asked
  <2>2. CASE ~AskSend
    <3>1. UNCHANGED <<requests, connected>>
      BY <2>2, OnlyAskSendAsks
    <3>2. QED
      BY <1>2, <3>1 DEF EscalationInv, Asked
  <2>3. QED
    BY <2>1, <2>2
<1>3. NoBadEcm => CopiesFaithful' /\ Orderly'
  BY StepFaithful, StepOrderly DEF EscalationInv
<1>4. QED
  BY <1>1, <1>2, <1>3 DEF EscalationInv

\* EscalationInv holds throughout.
LEMMA EscalationInvariant == Spec => []EscalationInv
<1>1. Init => EscalationInv
  <2> SUFFICES ASSUME Init PROVE EscalationInv
    OBVIOUS
  <2>1. /\ stage = 0 /\ pc = "enter" /\ ret = "idle"
        /\ requests = [i \in Readers |-> 0] /\ connected = [i \in Readers |-> FALSE]
        /\ thr = [t \in Threads |-> ThreadOut]
    BY DEF Init
  <2>2. ThreadOut.pc = "out"
    BY DEF ThreadOut
  <2>3. \A t \in Threads : thr[t].pc = "out"
    BY <2>1, <2>2
  <2>4. \A i \in Readers : Level(i) \in {2, 3, 4} /\ ~Asked(i)
    BY <2>1 DEF Level, Asked
  <2>5. CopiesFaithful /\ StageFacts /\ CountedRight
    BY <2>1, <2>3 DEF CopiesFaithful, StageFacts, CountedRight
  <2>6. AskedInTurn /\ HeardInTurn
    BY <2>1, <2>4 DEF AskedInTurn, HeardInTurn, Passed
  <2>7. QED
    BY <2>1, <2>5, <2>6 DEF EscalationInv, Orderly
<1>2. OnceInv => TypeInv
  BY DEF OnceInv
<1>3. QED
  BY <1>1, <1>2, StepEscalationInv, OnceInvariant, AskInvariant, RecordInvariant, PTL DEF Spec

\* request_cw_from_readers asks a reader of a later stage only when all active
\* readers of the stages before it were asked and, unless the fallback timer ran
\* out, those that could be reached have answered without a control word.
THEOREM StagesInOrder == Spec => EscalationInOrder
<1> DEFINE InOrder ==
      \A i, j \in Readers :
          (NoBadEcm /\ requests'[i] > requests[i] /\ "ACTIVE" \in status[j] /\ Level(j) < Level(i))
             => /\ requests[j] > 0
                /\ connected[j] /\ ~fbTimer => "ANSWERED" \in status[j] /\ eaRc[j] # "FOUND"
<1>1. TypeInv /\ AskInv /\ RecordInv /\ EscalationInv /\ [Next]_vars => [InOrder]_vars
  <2> SUFFICES ASSUME TypeInv, AskInv, RecordInv, EscalationInv, [Next]_vars,
                      NEW i \in Readers, NEW j \in Readers,
                      NoBadEcm, requests'[i] > requests[i], "ACTIVE" \in status[j], Level(j) < Level(i)
               PROVE  /\ requests[j] > 0
                      /\ connected[j] /\ ~fbTimer => "ANSWERED" \in status[j] /\ eaRc[j] # "FOUND"
    OBVIOUS
  <2>t. requests \in [Readers -> Nat] /\ CopiesFaithful /\ Orderly
    BY DEF TypeInv, TypeOK, QueuesOK, EscalationInv
  <2>1. AskSend
    <3>1. ~AskSend => requests'[i] = requests[i]
      BY OnlyAskSendAsks
    <3>2. requests[i] \in Nat
      BY <2>t
    <3>3. QED
      BY <3>1, <3>2
  <2>2. pc = "send" /\ i = k
    BY <2>t, <2>1 DEF AskSend
  <2>3. Level(i) = stage
    BY <2>t, <2>2 DEF Orderly, StageFacts
  <2>4. Active(j) /\ Passed(j) /\ Level(j) < stage
    BY <2>3 DEF Active, Passed
  <2>5. Asked(j) /\ Heard(j)
    BY <2>t, <2>4 DEF Orderly, AskedInTurn, HeardInTurn
  <2>6. QED
    BY <2>t, <2>5 DEF Asked, Heard, Denied
<1>2. OnceInv => TypeInv
  BY DEF OnceInv
<1>3. QED
  BY <1>1, <1>2, OnceInvariant, AskInvariant, RecordInvariant, EscalationInvariant, PTL DEF Spec, EscalationInOrder
=============================================================================
